-------------------------------- MODULE Store --------------------------------
(***************************************************************************)
(* Store.mutate() and Store._write() (rsswitch_web/store.py), step by step: *)
(* the file lock, the read, the change, and the way of the new document to  *)
(* the disk through a temporary file.  Writers are threads of one or more   *)
(* processes.  Every system call may fail, a process may die between any    *)
(* two steps, and the power may fail.                                       *)
(*                                                                          *)
(* The document is a value of which nothing is known; what the routes do to *)
(* it is in Household.  The file system is external: a new file name lasts  *)
(* over a power loss once the directory is synced, and before that it may   *)
(* or may not; a file that was not synced may then have any content.  The   *)
(* kernel gives up the lock of a process that dies.                         *)
(***************************************************************************)
CONSTANTS
  Writers,
  Processes,
  ProcessOf,     \* the process of each writer
  Docs,
  EmptyDoc,      \* empty_document()
  Change(_, _),  \* Change(w, d) is the document d after fn of the writer w
  NoFile,        \* the file does not exist
  Partial,       \* a file that is not a document
  None

ASSUME StoreAssumption ==
  /\ ProcessOf \in [Writers -> Processes]
  /\ EmptyDoc \in Docs
  /\ \A w \in Writers, d \in Docs : Change(w, d) \in Docs
  /\ NoFile \notin Docs
  /\ Partial \notin Docs \cup {NoFile}
  /\ None \notin Writers

VARIABLES
  file,    \* the data file
  onDisk,  \* what the data file may be after a power loss
  lock,    \* the writer that holds <data file>.lock, or None
  tmp,     \* the temporary file of each writer
  synced,  \* whether it has reached the disk
  pc,
  data,    \* the document that each writer works on
  answer   \* what mutate() ends with

vars == <<file, onDisk, lock, tmp, synced, pc, data, answer>>

Holding == {"load", "fn", "mkstemp", "write", "fsync", "replace", "syncdir",
            "unlink", "release"}
PCs     == Holding \cup {"idle", "lock", "done"}
Answers == {"none", "ok", "refused", "store_error", "internal_error", "lost"}
Files   == Docs \cup {NoFile}

-----------------------------------------------------------------------------
Init ==
  /\ file \in Files
  /\ onDisk = {file}
  /\ lock = None
  /\ tmp = [w \in Writers |-> NoFile]
  /\ synced = [w \in Writers |-> FALSE]
  /\ pc = [w \in Writers |-> "idle"]
  /\ data = [w \in Writers |-> EmptyDoc]
  /\ answer = [w \in Writers |-> "none"]

Goto(w, from, to) == pc[w] = from /\ pc' = [pc EXCEPT ![w] = to]

Answer(w, a) == answer' = [answer EXCEPT ![w] = a]

(* The data directory is there ...                                           *)
Begin(w) ==
  /\ Goto(w, "idle", "lock")
  /\ UNCHANGED <<file, onDisk, lock, tmp, synced, data, answer>>

(* ... or _require_parent() raises, or the lock cannot be had in time or at  *)
(* all: nothing is held.                                                     *)
BeginFails(w) ==
  /\ \/ Goto(w, "idle", "done")
     \/ Goto(w, "lock", "done")
  /\ Answer(w, "store_error")
  /\ UNCHANGED <<file, onDisk, lock, tmp, synced, data>>

(* Mutant: the lock does not exclude the threads of the same process.        *)
AcquireInProcess(w) ==
  /\ Goto(w, "lock", "load")
  /\ lock # None => ProcessOf[lock] = ProcessOf[w]
  /\ lock' = w
  /\ UNCHANGED <<file, onDisk, tmp, synced, data, answer>>

Acquire(w) ==
  /\ Goto(w, "lock", "load")
  /\ lock = None
  /\ lock' = w
  /\ UNCHANGED <<file, onDisk, tmp, synced, data, answer>>

(* What the file says; a missing one is an empty household.                  *)
DocOf(f) == IF f = NoFile THEN EmptyDoc ELSE f

Load(w) ==
  /\ Goto(w, "load", "fn")
  /\ file # Partial
  /\ data' = [data EXCEPT ![w] = DocOf(file)]
  /\ UNCHANGED <<file, onDisk, lock, tmp, synced, answer>>

(* The file cannot be read, or is not a document.                            *)
LoadFails(w) ==
  /\ Goto(w, "load", "release")
  /\ Answer(w, "store_error")
  /\ UNCHANGED <<file, onDisk, lock, tmp, synced, data>>

(* fn raises: the file is left alone.                                        *)
FnRaises(w) ==
  /\ Goto(w, "fn", "release")
  /\ Answer(w, "refused")
  /\ UNCHANGED <<file, onDisk, lock, tmp, synced, data>>

(* fn returns and has changed nothing.                                       *)
Unchanged(w) ==
  /\ Goto(w, "fn", "release")
  /\ Change(w, data[w]) = data[w]
  /\ Answer(w, "ok")
  /\ UNCHANGED <<file, onDisk, lock, tmp, synced, data>>

(* fn returns a changed document, which is encoded ...                       *)
Changed(w) ==
  /\ Goto(w, "fn", "mkstemp")
  /\ Change(w, data[w]) # data[w]
  /\ data' = [data EXCEPT ![w] = Change(w, data[w])]
  /\ UNCHANGED <<file, onDisk, lock, tmp, synced, answer>>

(* ... unless it cannot be encoded as UTF-8, or no temporary file made.      *)
MkstempFails(w) ==
  /\ Goto(w, "mkstemp", "release")
  /\ Answer(w, "store_error")
  /\ UNCHANGED <<file, onDisk, lock, tmp, synced, data>>

Mkstemp(w) ==
  /\ Goto(w, "mkstemp", "write")
  /\ tmp' = [tmp EXCEPT ![w] = Partial]
  /\ UNCHANGED <<file, onDisk, lock, synced, data, answer>>

Write(w) ==
  /\ Goto(w, "write", "fsync")
  /\ tmp' = [tmp EXCEPT ![w] = data[w]]
  /\ UNCHANGED <<file, onDisk, lock, synced, data, answer>>

(* Mutant: os.fsync() of the temporary file is left out.                     *)
FsyncLeftOut(w) ==
  /\ Goto(w, "fsync", "replace")
  /\ UNCHANGED <<file, onDisk, lock, tmp, synced, data, answer>>

Fsync(w) ==
  /\ Goto(w, "fsync", "replace")
  /\ synced' = [synced EXCEPT ![w] = TRUE]
  /\ UNCHANGED <<file, onDisk, lock, tmp, data, answer>>

(* os.replace(): readers see the new file at once.                           *)
Replace(w) ==
  /\ Goto(w, "replace", "syncdir")
  /\ file' = tmp[w]
  /\ onDisk' = onDisk \cup {IF synced[w] THEN tmp[w] ELSE Partial}
  /\ tmp' = [tmp EXCEPT ![w] = NoFile]
  /\ UNCHANGED <<lock, synced, data, answer>>

(* The directory is synced: the rename lasts.                                *)
SyncDir(w) ==
  /\ Goto(w, "syncdir", "release")
  /\ onDisk' = {file}
  /\ Answer(w, "ok")
  /\ UNCHANGED <<file, lock, tmp, synced, data>>

(* An OSError of any call after mkstemp().                                   *)
WriteFails(w) ==
  /\ pc[w] \in {"write", "fsync", "replace", "syncdir"}
  /\ pc' = [pc EXCEPT ![w] = "unlink"]
  /\ UNCHANGED <<file, onDisk, lock, tmp, synced, data, answer>>

(* Mutant: the temporary file of a failed write is left behind.              *)
UnlinkLeftOut(w) ==
  /\ Goto(w, "unlink", "release")
  /\ Answer(w, "store_error")
  /\ UNCHANGED <<file, onDisk, lock, tmp, synced, data>>

(* It is removed, or was renamed already.                                    *)
Unlink(w) ==
  /\ Goto(w, "unlink", "release")
  /\ tmp' = [tmp EXCEPT ![w] = NoFile]
  /\ Answer(w, "store_error")
  /\ UNCHANGED <<file, onDisk, lock, synced, data>>

(* os.unlink() raises another OSError, which is no StoreError.               *)
UnlinkFails(w) ==
  /\ Goto(w, "unlink", "release")
  /\ tmp[w] # NoFile
  /\ Answer(w, "internal_error")
  /\ UNCHANGED <<file, onDisk, lock, tmp, synced, data>>

(* Mutant: the lock is not given back after an error.                        *)
ReleaseIfOk(w) ==
  /\ Goto(w, "release", "done")
  /\ lock' = IF answer[w] = "ok" THEN None ELSE lock
  /\ UNCHANGED <<file, onDisk, tmp, synced, data, answer>>

(* The finally clause of mutate().                                           *)
Release(w) ==
  /\ Goto(w, "release", "done")
  /\ lock' = None
  /\ UNCHANGED <<file, onDisk, tmp, synced, data, answer>>

-----------------------------------------------------------------------------
(* The writers in S end where they are; what is decided stays decided.       *)
Die(S) ==
  /\ pc' = [w \in Writers |-> IF w \in S /\ pc[w] # "idle" THEN "done" ELSE pc[w]]
  /\ answer' = [w \in Writers |->
                  IF w \in S /\ pc[w] \notin {"idle", "release", "done"}
                  THEN "lost" ELSE answer[w]]
  /\ lock' = IF lock \in S THEN None ELSE lock

Crash(p) ==
  /\ Die({w \in Writers : ProcessOf[w] = p})
  /\ UNCHANGED <<file, onDisk, tmp, synced, data>>

PowerLoss ==
  /\ Die(Writers)
  /\ file' \in onDisk
  /\ onDisk' = {file'}
  /\ UNCHANGED <<tmp, synced, data>>

Mutate(w) ==
  \/ Begin(w) \/ BeginFails(w) \/ Acquire(w) \/ Load(w) \/ LoadFails(w)
  \/ FnRaises(w) \/ Unchanged(w) \/ Changed(w) \/ MkstempFails(w) \/ Mkstemp(w)
  \/ Write(w) \/ Fsync(w) \/ Replace(w) \/ SyncDir(w) \/ WriteFails(w)
  \/ Unlink(w) \/ UnlinkFails(w) \/ Release(w)

Next ==
  \/ \E w \in Writers : Mutate(w)
  \/ \E p \in Processes : Crash(p)
  \/ PowerLoss

Spec == Init /\ [][Next]_vars

(* A thread that has begun goes on: none of its calls blocks for ever, and   *)
(* the wait for the lock has a timeout.                                      *)
FairSpec == Spec /\ \A w \in Writers : WF_vars(pc[w] # "idle" /\ Mutate(w))

-----------------------------------------------------------------------------
(* The shape of the state: one writer at a time is past the lock, and the    *)
(* data file is never anything but a document, not even after a power loss.  *)
TypeOK ==
  /\ file \in Files
  /\ onDisk \subseteq Files
  /\ file \in onDisk
  /\ lock \in Writers \cup {None}
  /\ tmp \in [Writers -> Files \cup {Partial}]
  /\ synced \in [Writers -> BOOLEAN]
  /\ pc \in [Writers -> PCs]
  /\ data \in [Writers -> Docs]
  /\ answer \in [Writers -> Answers]

(* The document is what the file says, and a writer has applied its change   *)
(* once the file is replaced.                                                *)
Status(w) ==
  IF pc[w] \in {"release", "done"} THEN answer[w]
  ELSE IF pc[w] = "syncdir" \/ (pc[w] = "unlink" /\ tmp[w] = NoFile) THEN "applied"
  ELSE "running"

Atomic == INSTANCE AtomicDocument
            WITH doc <- DocOf(file),
                 durable <- {DocOf(f) : f \in onDisk},
                 status <- [w \in Writers |-> Status(w)]

(* "threads and processes cannot lose each other's updates ... and a crash   *)
(* never truncates it": the store implements AtomicDocument, with every      *)
(* failing call, crash and power loss in between.                            *)
ImplementsAtomicDocument == Atomic!Spec

(* A write that failed leaves no temporary file behind, unless it cannot be  *)
(* removed; only a crash does.                                               *)
NoLitter ==
  \A w \in Writers :
    pc[w] = "done" /\ answer[w] \notin {"internal_error", "lost"} => tmp[w] = NoFile

(* The lock is free again in the end, whatever fails while it is held: no    *)
(* exception on the way keeps it.                                            *)
LockIsFreed == lock # None ~> lock = None
=============================================================================
