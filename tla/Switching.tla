------------------------------ MODULE Switching ------------------------------
(***************************************************************************)
(* Switching a household through the web app: the worker threads that run   *)
(* switch_socket() and all_off() (rsswitch_web/switching.py), the client    *)
(* that sends one command per connection (daemon.py), the data file with    *)
(* its lock (store.py), the edits of the owner that run at the same time    *)
(* (api/sockets.py), and rsswitchd seen from its clients as a server that   *)
(* serves its connections one after the other.                              *)
(*                                                                          *)
(* A request may wait between any two of its steps: for a reply, for the    *)
(* lock, or for the processor.  A command whose client has given up stays   *)
(* in the queue of rsswitchd and is still carried out.  Writing the data    *)
(* file may fail at every step of _write().                                 *)
(***************************************************************************)
EXTENDS Integers, Sequences, FiniteSets, SequencesExt

CONSTANTS
  Requests,     \* the HTTP requests, each handled by a thread of its own
  Kinds,        \* what each request may be: a subset of AllKinds per request
  Sockets,      \* ids of sockets
  Addresses,    \* <<type, group, number>>
  RACE_WINDOW,  \* in ticks of the clock
  LOCK_TIMEOUT, \* in ticks of the clock
  MaxTime,      \* bound: the clock stops there
  MaxSetBack,   \* bound: how often the clock is set back
  None

AllKinds == {"switch", "alloff", "edit", "delete"}

ASSUME SwitchingAssumption ==
  /\ Kinds \in [Requests -> SUBSET AllKinds]
  /\ RACE_WINDOW \in Nat \ {0}
  /\ LOCK_TIMEOUT \in Nat \ {0}
  /\ MaxTime \in Nat
  /\ MaxSetBack \in Nat
  /\ None \notin Requests \cup Addresses

VARIABLES
  doc,          \* the data file: what is stored of every socket, None if deleted
  lock,         \* the request that holds <data file>.lock, or None
  req,          \* the local state of every request
  queue,        \* the connections that rsswitchd has not served yet
  now,          \* the wall clock of the host
  setbacks,     \* how often it was set back
  transmitted,  \* history: <<request, address, state>> that went out by radio
  tries         \* history: the addresses that each request has sent to, in order

vars == <<doc, lock, req, queue, now, setbacks, transmitted, tries>>

States  == {"on", "off"}
NoEntry == [state |-> "off", at |-> 0, by |-> None]   \* "last_sent": null
Stored  == [addr : Addresses,
            last : {NoEntry} \cup [state : States, at : 0..MaxTime, by : Requests]]
PCs     == {"idle", "next", "send", "wait", "reply", "lock", "load", "save", "done"}

(* The document with one socket per id, and the locals of a request: the     *)
(* socket or the snapshot that it works on, the command on its way, what is  *)
(* left to do, and what it will answer.                                      *)
Fresh ==
  [pc |-> "idle", kind |-> "switch", sid |-> None, snap |-> <<>>, todo |-> {},
   addr |-> None, state |-> "off", reply |-> "error", at |-> 0, copy |-> <<>>,
   out |-> <<>>, answer |-> "none"]

-----------------------------------------------------------------------------
Init ==
  /\ doc \in [Sockets -> {[addr |-> a, last |-> NoEntry] : a \in Addresses}]
  /\ lock = None
  /\ req = [r \in Requests |-> Fresh]
  /\ queue = <<>>
  /\ now = 0
  /\ setbacks = 0
  /\ transmitted = {}
  /\ tries = [r \in Requests |-> <<>>]

At(r, pc) == req[r].pc = pc
Present(d, s) == d[s] # None

(* The request ends with this answer; its other locals are gone.             *)
Finish(r, answer) ==
  [Fresh EXCEPT !.pc = "done", !.answer = answer, !.kind = req[r].kind,
                !.snap = req[r].snap, !.out = req[r].out]

(* The sockets that the command on its way is for.                           *)
Ids(r) ==
  IF req[r].kind = "alloff"
  THEN {s \in DOMAIN req[r].snap : req[r].snap[s] = req[r].addr}
  ELSE {req[r].sid}

-----------------------------------------------------------------------------
(* switch_socket() up to client.send(): look the socket up, without the lock.*)
SwitchSocket(r) ==
  /\ At(r, "idle")
  /\ "switch" \in Kinds[r]
  /\ \E s \in Sockets, state \in States :
       req' = [req EXCEPT ![r] =
         IF Present(doc, s)
         THEN [@ EXCEPT !.pc = "send", !.kind = "switch", !.sid = s,
                        !.state = state, !.addr = doc[s].addr]
         ELSE Finish(r, "not_found")]
  /\ UNCHANGED <<doc, lock, queue, now, setbacks, transmitted, tries>>

(* The document cannot be read at the start: store.snapshot() raises, and    *)
(* nothing is sent.                                                          *)
SnapshotFails(r) ==
  /\ At(r, "idle")
  /\ \E kind \in Kinds[r] \cap {"switch", "alloff"} :
       req' = [req EXCEPT ![r] = [Finish(r, "store_error") EXCEPT !.kind = kind]]
  /\ UNCHANGED <<doc, lock, queue, now, setbacks, transmitted, tries>>

(* all_off() for a room that is gone.                                        *)
NoSuchRoom(r) ==
  /\ At(r, "idle")
  /\ "alloff" \in Kinds[r]
  /\ req' = [req EXCEPT ![r] = [Finish(r, "not_found") EXCEPT !.kind = "alloff"]]
  /\ UNCHANGED <<doc, lock, queue, now, setbacks, transmitted, tries>>

(* all_off() up to its loop: read the document once.  scope is a room or the *)
(* whole household; which sockets a room holds is left open.                 *)
AllOff(r) ==
  /\ At(r, "idle")
  /\ "alloff" \in Kinds[r]
  /\ \E scope \in SUBSET Sockets :
       LET members == {s \in scope : Present(doc, s)}
           snap == [s \in members |-> doc[s].addr]
       IN  req' = [req EXCEPT ![r] =
                     [@ EXCEPT !.pc = "next", !.kind = "alloff", !.snap = snap,
                               !.state = "off", !.todo = {snap[s] : s \in members}]]
  /\ UNCHANGED <<doc, lock, queue, now, setbacks, transmitted, tries>>

(* The head of the loop of all_off(): the next distinct address, after the   *)
(* gap, or the report.  The display order is any order of the addresses.     *)
NextAddress(r) ==
  /\ At(r, "next")
  /\ \/ \E a \in req[r].todo :
          req' = [req EXCEPT ![r].pc = "send", ![r].addr = a, ![r].todo = @ \ {a}]
     \/ /\ req[r].todo = {}
        /\ req' = [req EXCEPT ![r] = Finish(r, "report")]
  /\ UNCHANGED <<doc, lock, queue, now, setbacks, transmitted, tries>>

(* Outcomes of the sockets in S are added to the report of an All-off.       *)
Outcome(r, S, what) ==
  [s \in DOMAIN req[r].out \cup S |-> IF s \in S THEN what ELSE req[r].out[s]]

(* Mutant: the address whose command failed is reported as skipped too.      *)
FailedMarksSkipped(r, stop) ==
  IF req[r].kind = "switch" THEN Finish(r, "daemon_error")
  ELSE [req[r] EXCEPT !.pc = "next", !.todo = IF stop THEN {} ELSE @,
          !.out = Outcome(r, IF stop
                             THEN {s \in DOMAIN req[r].snap :
                                     req[r].snap[s] \in req[r].todo \cup {req[r].addr}}
                             ELSE Ids(r), "skipped")]

(* A DaemonError.  switch_socket() lets it through; all_off() notes it and   *)
(* goes on, or skips the rest when rsswitchd is unreachable or too slow.     *)
Failed(r, stop) ==
  IF req[r].kind = "switch" THEN Finish(r, "daemon_error")
  ELSE IF stop
  THEN LET rest == {s \in DOMAIN req[r].snap : req[r].snap[s] \in req[r].todo}
           out  == Outcome(r, Ids(r), "error")
       IN  [req[r] EXCEPT !.pc = "next", !.todo = {},
              !.out = [s \in DOMAIN out \cup rest |->
                         IF s \in rest THEN "skipped" ELSE out[s]]]
  ELSE [req[r] EXCEPT !.pc = "next", !.out = Outcome(r, Ids(r), "error")]

(* send(): the connection is made and the line is written ...                *)
Connect(r) ==
  /\ At(r, "send")
  /\ req' = [req EXCEPT ![r].pc = "wait"]
  /\ queue' = Append(queue, [by |-> r, addr |-> req[r].addr,
                             state |-> req[r].state, open |-> TRUE])
  /\ tries' = [tries EXCEPT ![r] = Append(@, req[r].addr)]
  /\ UNCHANGED <<doc, lock, now, setbacks, transmitted>>

(* ... or not: DaemonUnreachable, or DaemonTimeout of the connect.           *)
ConnectFails(r) ==
  /\ At(r, "send")
  /\ req' = [req EXCEPT ![r] = Failed(r, TRUE)]
  /\ UNCHANGED <<doc, lock, queue, now, setbacks, transmitted, tries>>

(* rsswitchd serves the connection that waits longest: it transmits and      *)
(* answers OK, answers ERR, or hangs up before or after the transmission.    *)
(* A client that has closed its end gets no reply.                           *)
Serve ==
  /\ queue # <<>>
  /\ LET c == Head(queue)
     IN  \E sent \in BOOLEAN, reply \in {"OK", "error"} :
           /\ reply = "OK" => sent
           /\ transmitted' = IF sent THEN transmitted \cup {<<c.by, c.addr, c.state>>}
                                     ELSE transmitted
           /\ req' = IF c.open
                     THEN [req EXCEPT ![c.by].pc = "reply", ![c.by].reply = reply]
                     ELSE req
  /\ queue' = Tail(queue)
  /\ UNCHANGED <<doc, lock, now, setbacks, tries>>

(* Mutant: the client waits for its reply without a deadline.                *)
ReplyTimeoutNever(r) ==
  /\ At(r, "reply")
  /\ req' = [req EXCEPT ![r] = Failed(r, TRUE)]
  /\ UNCHANGED <<doc, lock, queue, now, setbacks, transmitted, tries>>

(* The read deadline of the client passes: it closes its end, even if the    *)
(* reply has arrived since.  The command stays in the queue.                 *)
ReplyTimeout(r) ==
  /\ req[r].pc \in {"wait", "reply"}
  /\ req' = [req EXCEPT ![r] = Failed(r, TRUE)]
  /\ queue' = [i \in DOMAIN queue |->
                 IF queue[i].by = r THEN [queue[i] EXCEPT !.open = FALSE] ELSE queue[i]]
  /\ UNCHANGED <<doc, lock, now, setbacks, transmitted, tries>>

(* The client reads the reply.  After OK the clock is read, and the command  *)
(* is to be recorded.                                                        *)
TakeReply(r) ==
  /\ At(r, "reply")
  /\ req' = [req EXCEPT ![r] =
               IF @.reply = "OK" THEN [@ EXCEPT !.pc = "lock", !.at = now]
                                 ELSE Failed(r, FALSE)]
  /\ UNCHANGED <<doc, lock, queue, now, setbacks, transmitted, tries>>

-----------------------------------------------------------------------------
(* edit_socket() and delete_socket() of the owner go straight to the store.  *)
Edit(r) ==
  /\ At(r, "idle")
  /\ \E kind \in Kinds[r] \cap {"edit", "delete"}, s \in Sockets, a \in Addresses :
       req' = [req EXCEPT ![r] = [@ EXCEPT !.pc = "lock", !.kind = kind,
                                           !.sid = s, !.addr = a, !.at = now]]
  /\ UNCHANGED <<doc, lock, queue, now, setbacks, transmitted, tries>>

(* Mutant: the lock is taken although another request holds it.              *)
LockShared(r) ==
  /\ At(r, "lock")
  /\ lock' = r
  /\ req' = [req EXCEPT ![r].pc = "load"]
  /\ UNCHANGED <<doc, queue, now, setbacks, transmitted, tries>>

(* mutate(): the lock is polled, so any waiter may get it.                   *)
Lock(r) ==
  /\ At(r, "lock")
  /\ lock = None
  /\ lock' = r
  /\ req' = [req EXCEPT ![r].pc = "load"]
  /\ UNCHANGED <<doc, queue, now, setbacks, transmitted, tries>>

(* What a request does with the result of mutate(): written is the set of    *)
(* the sockets that record_last_sent() returned.  _record() turns a          *)
(* StoreError of a confirmed command into an empty list.                     *)
Recorded(r, written) ==
  CASE req[r].kind = "switch" ->
         Finish(r, IF written # {} THEN "recorded" ELSE "unrecorded")
    [] req[r].kind = "alloff" ->
         [req[r] EXCEPT !.pc = "next", !.copy = <<>>, !.at = 0, !.reply = "error",
            !.out = [s \in DOMAIN @ \cup Ids(r) |->
                       IF s \in written THEN "recorded"
                       ELSE IF s \in Ids(r) THEN "unrecorded" ELSE @[s]]]
    [] OTHER -> Finish(r, IF written # {} THEN "edited" ELSE "store_error")

(* The lock cannot be taken within LOCK_TIMEOUT, or at all, or the file      *)
(* cannot be read.                                                           *)
StoreFails(r) ==
  /\ req[r].pc \in {"lock", "load"}
  /\ lock' = IF lock = r THEN None ELSE lock
  /\ req' = [req EXCEPT ![r] = Recorded(r, {})]
  /\ UNCHANGED <<doc, queue, now, setbacks, transmitted, tries>>

Load(r) ==
  /\ At(r, "load")
  /\ req' = [req EXCEPT ![r].pc = "save", ![r].copy = doc]
  /\ UNCHANGED <<doc, lock, queue, now, setbacks, transmitted, tries>>

(* Mutant: the sockets are not looked up again, so their address may have    *)
(* changed since the command was sent.                                       *)
ToRecordUnchecked(r) ==
  {s \in Ids(r) : Present(req[r].copy, s)}

(* Mutant: a command is recorded without a look at the time of the stored    *)
(* one.                                                                      *)
ToRecordAlways(r) ==
  {s \in Ids(r) : /\ Present(req[r].copy, s)
                  /\ req[r].copy[s].addr = req[r].addr}

(* The sockets that record() writes: still there, still at the address that  *)
(* was sent to, and not already told of a command that is newer by at most   *)
(* RACE_WINDOW.                                                              *)
ToRecord(r) ==
  {s \in Ids(r) :
     /\ Present(req[r].copy, s)
     /\ req[r].copy[s].addr = req[r].addr
     /\ LET last  == req[r].copy[s].last
            ahead == last.at - req[r].at
        IN  last # NoEntry => ~(0 < ahead /\ ahead <= RACE_WINDOW)}

(* Mutant: an edit of the address keeps last_sent.                           *)
EditKeepsLast(r, d) ==
  LET s == req[r].sid
  IN  IF req[r].kind = "delete" THEN [d EXCEPT ![s] = None]
      ELSE [d EXCEPT ![s].addr = req[r].addr]

(* edit() and delete() on a copy of the document that holds the socket.      *)
EditDocument(r, d) ==
  LET s == req[r].sid
  IN  IF req[r].kind = "delete" THEN [d EXCEPT ![s] = None]
      ELSE IF d[s].addr = req[r].addr THEN d
      ELSE [d EXCEPT ![s] = [addr |-> req[r].addr, last |-> NoEntry]]

IsEdit(r) == req[r].kind \in {"edit", "delete"}

(* fn(document) of mutate(), on the copy that was loaded.                    *)
Changed(r) ==
  LET d == req[r].copy
      entry == [state |-> req[r].state, at |-> req[r].at, by |-> r]
  IN  IF IsEdit(r) THEN EditDocument(r, d)
      ELSE [s \in Sockets |-> IF s \in ToRecord(r) THEN [d[s] EXCEPT !.last = entry]
                                                   ELSE d[s]]

Written(r) == IF IsEdit(r) THEN {req[r].sid} ELSE ToRecord(r)

(* An edit of a socket that is gone: ApiError 404, the file is not touched.  *)
EditGone(r) ==
  /\ At(r, "save")
  /\ IsEdit(r)
  /\ ~Present(req[r].copy, req[r].sid)
  /\ req' = [req EXCEPT ![r] = Finish(r, "not_found")]
  /\ lock' = None
  /\ UNCHANGED <<doc, queue, now, setbacks, transmitted, tries>>

(* The end of mutate(): the new document replaces the file, if it differs,   *)
(* and the lock is given back.                                               *)
Save(r) ==
  /\ At(r, "save")
  /\ IsEdit(r) => Present(req[r].copy, req[r].sid)
  /\ doc' = Changed(r)
  /\ req' = [req EXCEPT ![r] = Recorded(r, Written(r))]
  /\ lock' = None
  /\ UNCHANGED <<queue, now, setbacks, transmitted, tries>>

(* _write() raises StoreError: before os.replace(), or after it, when the    *)
(* directory cannot be synced; then the file has been replaced already.      *)
SaveFails(r) ==
  /\ At(r, "save")
  /\ IsEdit(r) => Present(req[r].copy, req[r].sid)
  /\ Changed(r) # req[r].copy
  /\ doc' \in {req[r].copy, Changed(r)}
  /\ req' = [req EXCEPT ![r] = Recorded(r, {})]
  /\ lock' = None
  /\ UNCHANGED <<queue, now, setbacks, transmitted, tries>>

(* _write() fails before os.replace(), and so does the removal of the        *)
(* temporary file, other than because it is gone: the OSError of os.unlink() *)
(* is no StoreError, leaves the request and becomes an internal_error.       *)
CleanupFails(r) ==
  /\ At(r, "save")
  /\ IsEdit(r) => Present(req[r].copy, req[r].sid)
  /\ Changed(r) # req[r].copy
  /\ req' = [req EXCEPT ![r] = Finish(r, "internal_error")]
  /\ lock' = None
  /\ UNCHANGED <<doc, queue, now, setbacks, transmitted, tries>>

-----------------------------------------------------------------------------
(* Mutant: the wait for the lock has no deadline.                            *)
TickLockWaits ==
  /\ now < MaxTime
  /\ now' = now + 1
  /\ UNCHANGED <<doc, lock, req, queue, setbacks, transmitted, tries>>

(* Time passes; no request waits for the lock longer than LOCK_TIMEOUT.      *)
Tick ==
  /\ now < MaxTime
  /\ \A r \in Requests : At(r, "lock") => now - req[r].at < LOCK_TIMEOUT
  /\ now' = now + 1
  /\ UNCHANGED <<doc, lock, req, queue, setbacks, transmitted, tries>>

(* The clock was wrong and is set back.                                      *)
SetBack ==
  /\ setbacks < MaxSetBack
  /\ \E t \in 0..(now - 1) : now' = t
  /\ setbacks' = setbacks + 1
  /\ UNCHANGED <<doc, lock, req, queue, transmitted, tries>>

Step(r) ==
  \/ SwitchSocket(r) \/ AllOff(r) \/ NoSuchRoom(r) \/ SnapshotFails(r)
  \/ NextAddress(r)
  \/ Connect(r) \/ ConnectFails(r) \/ ReplyTimeout(r) \/ TakeReply(r)
  \/ Edit(r) \/ Lock(r) \/ StoreFails(r) \/ Load(r)
  \/ EditGone(r) \/ Save(r) \/ SaveFails(r) \/ CleanupFails(r)

Next == (\E r \in Requests : Step(r)) \/ Serve \/ Tick \/ SetBack

Spec == Init /\ [][Next]_vars

(* A thread that has begun a request goes on with it: the threads of the     *)
(* server are scheduled, and every wait of theirs has a timeout.  Nothing is *)
(* assumed of rsswitchd, nor of the order in which a free lock is given out. *)
FairSpec == Spec /\ \A r \in Requests : WF_vars(req[r].pc # "idle" /\ Step(r))

-----------------------------------------------------------------------------
(* The shape of the state; a request that is in the critical section of      *)
(* mutate() has the lock.                                                    *)
TypeOK ==
  /\ doc \in [Sockets -> Stored \cup {None}]
  /\ lock \in Requests \cup {None}
  /\ \A r \in Requests :
       /\ req[r].pc \in PCs
       /\ req[r].at \in 0..MaxTime
       /\ req[r].pc \in {"load", "save"} <=> lock = r
       /\ req[r].todo \subseteq Addresses
  /\ now \in 0..MaxTime
  /\ setbacks \in 0..MaxSetBack
  /\ transmitted \subseteq Requests \X Addresses \X States
  /\ \A r \in Requests : tries[r] \in Seq(Addresses)

(* "last_sent is only ever written for a command that rsswitchd answered     *)
(* with OK", to the address that the socket has now: what is stored of a     *)
(* socket always went out, in that state, to the address that is stored with *)
(* it.  The command was addressed before the lock was taken, so an edit of   *)
(* the address may have overtaken it, before or after it was recorded.       *)
RecordedOnlyIfTransmitted ==
  \A s \in Sockets :
    Present(doc, s) /\ doc[s].last # NoEntry =>
      <<doc[s].last.by, doc[s].addr, doc[s].last.state>> \in transmitted

(* "threads and processes cannot lose each other's updates": a step changes  *)
(* only what is stored of the sockets that its own request is about, never   *)
(* what another request has stored since the document was loaded.            *)
NoLostUpdate ==
  [][\A s \in Sockets :
       doc'[s] # doc[s] =>
         \E r \in Requests : At(r, "save") /\ req'[r].pc # "save" /\ s \in Ids(r)]_vars

(* Of two confirmed commands to a socket, the one whose clock reading is     *)
(* older never replaces the newer one, while the clock is not set back: the  *)
(* purpose of RACE_WINDOW in record_last_sent().  A delay in the queue for   *)
(* the lock is what makes the older one come second.                         *)
NewerCommandKept ==
  [][\A s \in Sockets :
       (/\ setbacks' = 0
        /\ Present(doc, s) /\ doc'[s] # None
        /\ doc[s].addr = doc'[s].addr
        /\ doc[s].last # NoEntry /\ doc'[s].last # NoEntry)
       => doc'[s].last.at >= doc[s].last.at]_vars

(* What record() does achieve, with the lock timeout of the code, which is   *)
(* longer than RACE_WINDOW: an older command takes the place of a newer one  *)
(* only across a gap that RACE_WINDOW does not cover and that the wait for   *)
(* the lock allows; no command is overtaken by one that is older still.      *)
OvertakenByAtMostTheLock ==
  [][\A s \in Sockets :
       (/\ setbacks' = 0
        /\ Present(doc, s) /\ doc'[s] # None
        /\ doc[s].addr = doc'[s].addr
        /\ doc[s].last # NoEntry /\ doc'[s].last # NoEntry)
       => \/ doc'[s].last.at >= doc[s].last.at
          \/ LET ahead == doc[s].last.at - doc'[s].last.at
             IN  RACE_WINDOW < ahead /\ ahead <= LOCK_TIMEOUT]_vars

(* The report of an All-off: every socket of the snapshot has an outcome;    *)
(* "ok" means that its off command went out, also if the store failed;       *)
(* "skipped" that nothing was sent to its address; and no address was sent   *)
(* to twice, however many sockets share it.                                  *)
AllOffReportIsTrue ==
  \A r \in Requests :
    (req[r].kind = "alloff" /\ req[r].answer = "report") =>
      LET q == req[r]
      IN  /\ DOMAIN q.out = DOMAIN q.snap
          /\ \A s \in DOMAIN q.snap :
               /\ q.out[s] \in {"recorded", "unrecorded"}
                    => <<r, q.snap[s], "off">> \in transmitted
               /\ q.out[s] = "skipped" => ~Contains(tries[r], q.snap[s])
          /\ IsInjective(tries[r])

(* _record(): "never let the store fail it".  A command that rsswitchd has   *)
(* confirmed does not end in an error because of the data file.              *)
StoreNeverFailsACommand ==
  \A r \in Requests :
    req[r].kind \in {"switch", "alloff"} => req[r].answer # "internal_error"

(* Every request that has begun is answered, even if rsswitchd never says a  *)
(* word and the lock is always busy.                                         *)
EveryRequestIsAnswered ==
  \A r \in Requests : req[r].pc # "idle" ~> req[r].pc = "done"
=============================================================================
