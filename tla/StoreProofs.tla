----------------------------- MODULE StoreProofs -----------------------------
(***************************************************************************)
(* Proofs about Store for any number of writers and processes and any kind  *)
(* of document: the store implements AtomicDocument.                        *)
(*                                                                          *)
(* The refinement rests on one fact: what a writer is about to put in place *)
(* of the file is its change of what the file says NOW (DataInv), and not   *)
(* of what it said when the writer read it.  That is so because nobody else *)
(* replaces the file while the writer is past the lock (LockInv), and only  *)
(* because the temporary file is the whole document (TmpInv) is a reader's  *)
(* document replaced by another document.                                   *)
(***************************************************************************)
EXTENDS Store, TLAPS

(* The lock belongs to the one writer that is past it.                       *)
LockInv == \A w \in Writers : pc[w] \in Holding <=> lock = w

(* The writers that have a new document and have not yet put it in place.    *)
Preparing(w) == pc[w] \in {"mkstemp", "write", "fsync", "replace"}

DataInv ==
  \A w \in Writers :
    /\ pc[w] = "fn" => data[w] = DocOf(file)
    /\ Preparing(w) => data[w] = Change(w, DocOf(file))

TmpInv ==
  \A w \in Writers :
    /\ pc[w] \in {"idle", "lock", "load", "fn", "mkstemp", "syncdir"} => tmp[w] = NoFile
    /\ pc[w] = "write" => tmp[w] = Partial
    /\ pc[w] \in {"fsync", "replace"} => tmp[w] = data[w]
    /\ pc[w] = "replace" => synced[w]
    /\ pc[w] \in {"release", "done"} /\ answer[w] \notin {"internal_error", "lost"}
         => tmp[w] = NoFile

(* What the writer is told is decided when it gives the lock back.           *)
AnswerInv ==
  \A w \in Writers : pc[w] \in {"release", "done"} <=> answer[w] # "none"

IInv == TypeOK /\ LockInv /\ DataInv /\ TmpInv /\ AnswerInv

-----------------------------------------------------------------------------
(* Documents, the missing file and the half-written file are three things.   *)
LEMMA DocOfFile ==
  ASSUME NEW f \in Files
  PROVE  DocOf(f) \in Docs
BY StoreAssumption DEF DocOf, Files

(* Only the writer itself is past the lock while it holds it.                *)
LEMMA Alone ==
  ASSUME LockInv, NEW w \in Writers, pc[w] \in Holding,
         NEW v \in Writers, pc[v] \in Holding
  PROVE  v = w
BY DEF LockInv

LEMMA InitIInv == Init => IInv
<1>. SUFFICES ASSUME Init PROVE IInv
  OBVIOUS
<1>. USE StoreAssumption DEF Init
<1>1. TypeOK
  BY DEF TypeOK, Files, PCs, Answers
<1>2. LockInv
  BY DEF LockInv, Holding
<1>3. DataInv /\ TmpInv /\ AnswerInv
  BY DEF DataInv, Preparing, TmpInv, AnswerInv
<1>. QED  BY <1>1, <1>2, <1>3 DEF IInv

(* The steps that move the writer on and decide at most its answer: the      *)
(* calls before the lock, the calls that fail, and fn that raises or changes *)
(* nothing.                                                                  *)
LEMMA Step_Quiet ==
  ASSUME IInv, NEW w \in Writers,
         \/ Begin(w) \/ BeginFails(w) \/ LoadFails(w) \/ FnRaises(w)
         \/ Unchanged(w) \/ MkstempFails(w) \/ WriteFails(w) \/ UnlinkFails(w)
  PROVE  IInv'
<1>. USE StoreAssumption DEF IInv, Goto, Answer
<1>. USE DEF Begin, BeginFails, LoadFails, FnRaises, Unchanged, MkstempFails,
         WriteFails, UnlinkFails
<1>1. TypeOK'
  BY DEF TypeOK, PCs, Holding, Answers
<1>2. LockInv'
  BY DEF TypeOK, LockInv, Holding
<1>3. DataInv'
  BY DEF TypeOK, DataInv, Preparing
<1>4. TmpInv'
  BY DEF TypeOK, TmpInv
<1>5. AnswerInv'
  BY DEF TypeOK, AnswerInv
<1>. QED  BY <1>1, <1>2, <1>3, <1>4, <1>5

(* The lock is taken and given back.                                         *)
LEMMA Step_Lock ==
  ASSUME IInv, NEW w \in Writers, Acquire(w) \/ Release(w)
  PROVE  IInv'
<1>. USE StoreAssumption DEF IInv, Goto, Acquire, Release
<1>1. TypeOK'
  BY DEF TypeOK, PCs, Holding
<1>2. LockInv'
  BY DEF TypeOK, LockInv, Holding
<1>3. DataInv'
  BY DEF TypeOK, DataInv, Preparing
<1>4. TmpInv'
  BY DEF TypeOK, TmpInv
<1>5. AnswerInv'
  BY DEF TypeOK, AnswerInv
<1>. QED  BY <1>1, <1>2, <1>3, <1>4, <1>5

(* The writer gets its document: that of the file, and then its change of    *)
(* it.                                                                       *)
LEMMA Step_Document ==
  ASSUME IInv, NEW w \in Writers, Load(w) \/ Changed(w)
  PROVE  IInv'
<1>. USE StoreAssumption DEF IInv, Goto, Load, Changed
<1>1. TypeOK'
  BY DocOfFile DEF TypeOK, PCs, Holding
<1>2. LockInv'
  BY DEF TypeOK, LockInv, Holding
<1>3. DataInv'
  BY DEF TypeOK, DataInv, Preparing
<1>4. TmpInv'
  BY DEF TypeOK, TmpInv
<1>5. AnswerInv'
  BY DEF TypeOK, AnswerInv
<1>. QED  BY <1>1, <1>2, <1>3, <1>4, <1>5

(* The temporary file is made, filled, synced, and removed after an error.   *)
LEMMA Step_Tmp ==
  ASSUME IInv, NEW w \in Writers, Mkstemp(w) \/ Write(w) \/ Fsync(w) \/ Unlink(w)
  PROVE  IInv'
<1>. USE StoreAssumption DEF IInv, Goto, Answer, Mkstemp, Write, Fsync, Unlink
<1>1. TypeOK'
  BY DEF TypeOK, PCs, Holding, Answers, Files
<1>2. LockInv'
  BY DEF TypeOK, LockInv, Holding
<1>3. DataInv'
  BY DEF TypeOK, DataInv, Preparing
<1>4. TmpInv'
  BY DEF TypeOK, TmpInv
<1>5. AnswerInv'
  BY DEF TypeOK, AnswerInv
<1>. QED  BY <1>1, <1>2, <1>3, <1>4, <1>5

(* The file is replaced.  No other writer has a document that comes from the *)
(* old file: it would be past the lock.                                      *)
LEMMA Step_Replace ==
  ASSUME IInv, NEW w \in Writers, Replace(w)
  PROVE  IInv'
<1>. USE StoreAssumption DEF IInv, Goto, Replace
<1>1. tmp[w] = data[w] /\ synced[w]
  BY DEF TmpInv
<1>2. TypeOK'
  BY <1>1 DEF TypeOK, PCs, Holding, Files
<1>3. LockInv'
  BY DEF TypeOK, LockInv, Holding
<1>4. DataInv'
  <2>1. \A v \in Writers : v # w => pc[v] \notin Holding
    BY Alone DEF Holding
  <2>. QED  BY <2>1 DEF TypeOK, DataInv, Preparing, Holding
<1>5. TmpInv'
  BY DEF TypeOK, TmpInv
<1>6. AnswerInv'
  BY DEF TypeOK, AnswerInv
<1>. QED  BY <1>2, <1>3, <1>4, <1>5, <1>6

LEMMA Step_SyncDir ==
  ASSUME IInv, NEW w \in Writers, SyncDir(w)
  PROVE  IInv'
<1>. USE StoreAssumption DEF IInv, Goto, Answer, SyncDir
<1>1. TypeOK'
  BY DEF TypeOK, PCs, Holding, Answers
<1>2. LockInv'
  BY DEF TypeOK, LockInv, Holding
<1>3. DataInv' /\ TmpInv' /\ AnswerInv'
  BY DEF TypeOK, DataInv, Preparing, TmpInv, AnswerInv
<1>. QED  BY <1>1, <1>2, <1>3

(* A process dies: its writers end where they are, its lock is free, and the *)
(* writers of the other processes are left as they were.                     *)
LEMMA Step_Crash ==
  ASSUME IInv, NEW p \in Processes, Crash(p)
  PROVE  IInv'
<1>. USE StoreAssumption DEF IInv, Die, Crash
<1>1. TypeOK'
  BY DEF TypeOK, PCs, Holding, Answers
<1>2. LockInv'
  BY DEF TypeOK, LockInv, Holding
<1>3. DataInv'
  BY DEF TypeOK, DataInv, Preparing
<1>4. TmpInv'
  BY DEF TypeOK, TmpInv, PCs, Holding
<1>5. AnswerInv'
  BY DEF TypeOK, AnswerInv
<1>. QED  BY <1>1, <1>2, <1>3, <1>4, <1>5

(* The power fails: no writer is left on its way, and the file is one of     *)
(* those that may have lasted.                                               *)
LEMMA Step_PowerLoss ==
  ASSUME IInv, PowerLoss
  PROVE  IInv'
<1>. USE StoreAssumption DEF IInv, Die, PowerLoss
<1>1. TypeOK'
  BY DEF TypeOK, PCs, Holding, Answers
<1>2. LockInv'
  BY DEF TypeOK, LockInv, Holding
<1>3. DataInv'
  BY DEF TypeOK, DataInv, Preparing
<1>4. TmpInv'
  BY DEF TypeOK, TmpInv, PCs, Holding
<1>5. AnswerInv'
  BY DEF TypeOK, AnswerInv
<1>. QED  BY <1>1, <1>2, <1>3, <1>4, <1>5

LEMMA NextIInv == IInv /\ [Next]_vars => IInv'
<1>. SUFFICES ASSUME IInv, [Next]_vars PROVE IInv'
  OBVIOUS
<1>1. CASE \E w \in Writers : Mutate(w)
  BY <1>1, Step_Quiet, Step_Lock, Step_Document, Step_Tmp, Step_Replace,
     Step_SyncDir DEF Mutate
<1>2. CASE \E p \in Processes : Crash(p)
  BY <1>2, Step_Crash
<1>3. CASE PowerLoss
  BY <1>3, Step_PowerLoss
<1>4. CASE UNCHANGED vars
  BY <1>4 DEF vars, IInv, TypeOK, LockInv, DataInv, Preparing, TmpInv, AnswerInv
<1>. QED  BY <1>1, <1>2, <1>3, <1>4 DEF Next

LEMMA SpecIInv == Spec => []IInv
BY InitIInv, NextIInv, PTL DEF Spec

-----------------------------------------------------------------------------
(* The data file is missing or a whole document at every moment, and so is   *)
(* everything that a power loss may leave of it: whatever fails in _write()  *)
(* and whenever a process dies, no reader and no restart finds half a file.  *)
THEOREM TypeCorrect == Spec => []TypeOK
<1>1. IInv => TypeOK
  BY DEF IInv
<1>. QED  BY <1>1, SpecIInv, PTL

(* The file lock excludes: of all threads and processes at most one is       *)
(* between acquire() and release() of mutate().                              *)
Exclusive ==
  \A v, w \in Writers : pc[v] \in Holding /\ pc[w] \in Holding => v = w

THEOREM MutualExclusion == Spec => []Exclusive
<1>1. IInv => Exclusive
  BY Alone DEF IInv, Exclusive
<1>. QED  BY <1>1, SpecIInv, PTL

(* mutate() leaves its temporary file behind only where os.unlink() failed   *)
(* too or the process died.                                                  *)
THEOREM Litter == Spec => []NoLitter
<1>1. IInv => NoLitter
  BY DEF IInv, TmpInv, NoLitter
<1>. QED  BY <1>1, SpecIInv, PTL

-----------------------------------------------------------------------------
(* The refinement.  The abstract step of every step of a writer depends only *)
(* on its status before and after; the status of the others stays.           *)
LEMMA OthersStatus ==
  ASSUME NEW w \in Writers, IInv, NEW s,
         \A v \in Writers : v # w => /\ pc'[v] = pc[v]
                                     /\ tmp'[v] = tmp[v]
                                     /\ answer'[v] = answer[v],
         Status(w)' = s
  PROVE  [v \in Writers |-> Status(v)]'
           = [[v \in Writers |-> Status(v)] EXCEPT ![w] = s]
BY DEF Status

LEMMA InitRefines == Init => Atomic!Init
<1>. SUFFICES ASSUME Init PROVE Atomic!Init
  OBVIOUS
<1>1. DocOf(file) \in Docs
  BY DocOfFile DEF Init
<1>2. {DocOf(f) : f \in onDisk} = {DocOf(file)}
  BY DEF Init
<1>3. [w \in Writers |-> Status(w)] = [w \in Writers |-> "running"]
  BY DEF Init, Status
<1>. QED  BY <1>1, <1>2, <1>3 DEF Atomic!Init

(* Nothing happens to the document while a writer gets ready, gives the lock *)
(* back, or runs into an error that it has yet to report.                    *)
LEMMA Refines_Stutter ==
  ASSUME IInv, NEW w \in Writers,
         \/ Begin(w) \/ Acquire(w) \/ Load(w) \/ Changed(w) \/ Mkstemp(w)
         \/ Write(w) \/ Fsync(w) \/ WriteFails(w) \/ Release(w)
  PROVE  UNCHANGED Atomic!vars
<1>. USE StoreAssumption DEF IInv, Goto
<1>. USE DEF Begin, Acquire, Load, Changed, Mkstemp, Write, Fsync, WriteFails, Release
<1>1. UNCHANGED <<file, onDisk>>
  OBVIOUS
<1>2. \A v \in Writers : Status(v)' = Status(v)
  BY DEF TypeOK, TmpInv, Status, Files
<1>. QED  BY <1>1, <1>2 DEF Atomic!vars

(* os.replace() is the moment of the change: the document becomes the        *)
(* writer's change of the document that every reader had until then.         *)
LEMMA Refines_Replace ==
  ASSUME IInv, NEW w \in Writers, Replace(w)
  PROVE  Atomic!Apply(w)
<1>. USE StoreAssumption DEF IInv, Goto, Replace
<1>1. tmp[w] \in Docs /\ tmp[w] = Change(w, DocOf(file)) /\ synced[w]
  BY DEF TypeOK, TmpInv, DataInv, Preparing
<1>2. DocOf(file)' = Change(w, DocOf(file))
  BY <1>1 DEF DocOf
<1>3. {DocOf(f) : f \in onDisk}' = {DocOf(f) : f \in onDisk} \cup {DocOf(file)'}
  BY <1>1 DEF DocOf
<1>4. Status(w) = "running" /\ Status(w)' = "applied"
  BY DEF TypeOK, Status
<1>5. [v \in Writers |-> Status(v)]'
        = [[v \in Writers |-> Status(v)] EXCEPT ![w] = "applied"]
  BY <1>4, OthersStatus DEF TypeOK
<1>. QED  BY <1>2, <1>3, <1>4, <1>5 DEF Atomic!Apply, Atomic!Becomes

LEMMA Refines_SyncDir ==
  ASSUME IInv, NEW w \in Writers, SyncDir(w)
  PROVE  Atomic!Confirm(w)
<1>. USE DEF IInv, Goto, Answer, SyncDir
<1>1. {DocOf(f) : f \in onDisk}' = {DocOf(file)}
  BY DEF DocOf
<1>2. Status(w) = "applied" /\ Status(w)' = "ok"
  BY DEF TypeOK, Status
<1>3. [v \in Writers |-> Status(v)]'
        = [[v \in Writers |-> Status(v)] EXCEPT ![w] = "ok"]
  BY <1>2, OthersStatus DEF TypeOK
<1>. QED  BY <1>1, <1>2, <1>3 DEF Atomic!Confirm, Atomic!Becomes

LEMMA Refines_Unchanged ==
  ASSUME IInv, NEW w \in Writers, Unchanged(w)
  PROVE  Atomic!NothingToDo(w)
<1>. USE DEF IInv, Goto, Answer, Unchanged
<1>1. Change(w, DocOf(file)) = DocOf(file)
  BY DEF DataInv
<1>2. Status(w) = "running" /\ Status(w)' = "ok"
  BY DEF TypeOK, Status
<1>3. [v \in Writers |-> Status(v)]'
        = [[v \in Writers |-> Status(v)] EXCEPT ![w] = "ok"]
  BY <1>2, OthersStatus DEF TypeOK
<1>. QED  BY <1>1, <1>2, <1>3 DEF Atomic!NothingToDo, Atomic!Becomes

LEMMA Refines_FnRaises ==
  ASSUME IInv, NEW w \in Writers, FnRaises(w)
  PROVE  Atomic!Refuse(w)
<1>. USE DEF IInv, Goto, Answer, FnRaises
<1>1. Status(w) = "running" /\ Status(w)' = "refused"
  BY DEF TypeOK, Status
<1>2. [v \in Writers |-> Status(v)]'
        = [[v \in Writers |-> Status(v)] EXCEPT ![w] = "refused"]
  BY <1>1, OthersStatus DEF TypeOK
<1>. QED  BY <1>1, <1>2 DEF Atomic!Refuse, Atomic!Becomes

(* A call that fails is reported as an error, before or after the change.    *)
LEMMA Refines_Fails ==
  ASSUME IInv, NEW w \in Writers,
         BeginFails(w) \/ LoadFails(w) \/ MkstempFails(w) \/ Unlink(w) \/ UnlinkFails(w)
  PROVE  Atomic!Fail(w)
<1>. USE DEF IInv, Goto, Answer, BeginFails, LoadFails, MkstempFails, Unlink, UnlinkFails
<1>1. UNCHANGED <<file, onDisk>>
  OBVIOUS
<1>2. Status(w) \in Atomic!Open /\ Status(w)' \in Atomic!Bad
  BY DEF TypeOK, Status, Atomic!Open, Atomic!Bad
<1>3. [v \in Writers |-> Status(v)]'
        = [[v \in Writers |-> Status(v)] EXCEPT ![w] = Status(w)']
  BY OthersStatus DEF TypeOK
<1>. QED  BY <1>1, <1>2, <1>3 DEF Atomic!Fail, Atomic!Becomes

(* The writers that a crash loses are those whose answer was still open.     *)
Lost(S) == {w \in S : pc[w] \notin {"idle", "release", "done"}}

LEMMA DieLoses ==
  ASSUME IInv, NEW S \in SUBSET Writers, Die(S), UNCHANGED tmp
  PROVE  Atomic!Lose(Lost(S))
<1>. USE DEF IInv, Die, Lost
<1>1. \A w \in Lost(S) : Status(w) \in Atomic!Open
  BY DEF Status, Atomic!Open
<1>2. \A w \in Writers : Status(w)' = IF w \in Lost(S) THEN "lost" ELSE Status(w)
  BY DEF TypeOK, Status, PCs, Holding
<1>. QED  BY <1>1, <1>2 DEF Atomic!Lose

LEMMA Refines_Crash ==
  ASSUME IInv, NEW p \in Processes, Crash(p)
  PROVE  Atomic!Crash
<1>. DEFINE S == {w \in Writers : ProcessOf[w] = p}
<1>1. Atomic!Lose(Lost(S)) /\ Lost(S) \in SUBSET Writers
  BY DieLoses DEF Crash, Lost
<1>. QED  BY <1>1 DEF Crash, Atomic!Crash

LEMMA Refines_PowerLoss ==
  ASSUME IInv, PowerLoss
  PROVE  Atomic!PowerLoss
<1>1. Atomic!Lose(Lost(Writers)) /\ Lost(Writers) \in SUBSET Writers
  BY DieLoses DEF PowerLoss, Lost
<1>2. \A w \in Writers : Status(w) = "applied" => w \in Lost(Writers)
  BY DEF IInv, TypeOK, Answers, Status, Lost
<1>3. DocOf(file)' \in {DocOf(f) : f \in onDisk}
  BY DEF PowerLoss, DocOf
<1>4. {DocOf(f) : f \in onDisk}' = {DocOf(file)'}
  BY DEF PowerLoss, DocOf
<1>. QED  BY <1>1, <1>2, <1>3, <1>4 DEF Atomic!PowerLoss

LEMMA NextRefines == IInv /\ [Next]_vars => [Atomic!Next]_(Atomic!vars)
<1>. SUFFICES ASSUME IInv, [Next]_vars PROVE [Atomic!Next]_(Atomic!vars)
  OBVIOUS
<1>1. CASE \E w \in Writers : Mutate(w)
  BY <1>1, Refines_Stutter, Refines_Replace, Refines_SyncDir, Refines_Unchanged,
     Refines_FnRaises, Refines_Fails DEF Mutate, Atomic!Next
<1>2. CASE \E p \in Processes : Crash(p)
  BY <1>2, Refines_Crash DEF Atomic!Next
<1>3. CASE PowerLoss
  BY <1>3, Refines_PowerLoss DEF Atomic!Next
<1>4. CASE UNCHANGED vars
  BY <1>4 DEF vars, Atomic!vars, Status, DocOf
<1>. QED  BY <1>1, <1>2, <1>3, <1>4 DEF Next

(* mutate() is an atomic update: whatever the threads and processes do at    *)
(* the same time, whichever call fails, whoever dies and whenever the power  *)
(* goes, readers and restarts see only what AtomicDocument allows.  No       *)
(* update is lost, and one that was confirmed is there after a power loss.   *)
THEOREM Refinement == Spec => ImplementsAtomicDocument
<1>1. Spec => Atomic!Spec
  BY InitRefines, NextRefines, SpecIInv, PTL DEF Spec, Atomic!Spec
<1>. QED  BY <1>1 DEF ImplementsAtomicDocument
=============================================================================
