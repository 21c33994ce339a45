--------------------------- MODULE SwitchingProofs ---------------------------
(***************************************************************************)
(* Proofs about Switching for any number of requests, sockets and addresses *)
(* and any timings.                                                         *)
(*                                                                          *)
(* RecordedOnlyIfTransmitted and NoLostUpdate need to know that the copy a  *)
(* request changes is still the document (LockInv, CommandInv), and that    *)
(* only a client that still waits gets the reply to its own command         *)
(* (QueueInv).  What may happen to the order of two commands depends on how *)
(* far the clock readings and the wait for the lock can be apart            *)
(* (ClockInv).  The report of an All-off needs the loop invariant of        *)
(* all_off() (ReportInv).                                                   *)
(***************************************************************************)
EXTENDS Switching, TLAPS

Answers  == {"none", "not_found", "store_error", "report", "daemon_error",
             "recorded", "unrecorded", "edited", "internal_error"}
Outcomes == {"recorded", "unrecorded", "error", "skipped"}
Docs     == [Sockets -> Stored \cup {None}]
Snaps    == UNION {[S -> Addresses] : S \in SUBSET Sockets}
Reports  == UNION {[S -> Outcomes] : S \in SUBSET Sockets}

Locals ==
  [pc : PCs, kind : AllKinds, sid : Sockets \cup {None}, snap : Snaps,
   todo : SUBSET Addresses, addr : Addresses \cup {None}, state : States,
   reply : {"OK", "error"}, at : 0..MaxTime, copy : Docs \cup {<<>>},
   out : Reports, answer : Answers]

Connections == [by : Requests, addr : Addresses, state : States, open : BOOLEAN]

TypeInv ==
  /\ doc \in Docs
  /\ lock \in Requests \cup {None}
  /\ req \in [Requests -> Locals]
  /\ queue \in Seq(Connections)
  /\ now \in 0..MaxTime
  /\ setbacks \in 0..MaxSetBack
  /\ transmitted \subseteq Requests \X Addresses \X States
  /\ tries \in [Requests -> Seq(Addresses)]

LockInv == \A r \in Requests : req[r].pc \in {"load", "save"} <=> lock = r

(* What is known of the command or the edit that a request is busy with.     *)
CommandAt(r) ==
  /\ req[r].pc \in {"send", "wait", "reply", "lock", "load", "save"} =>
       req[r].addr \in Addresses /\ (req[r].kind # "alloff" => req[r].sid \in Sockets)
  /\ IsEdit(r) => req[r].pc \in {"lock", "load", "save", "done"}
  /\ req[r].pc = "next" => req[r].kind = "alloff"
  /\ req[r].answer # "none" => req[r].pc = "done"
  /\ req[r].pc = "save" => req[r].copy = doc
  /\ \/ req[r].pc = "reply" /\ req[r].reply = "OK"
     \/ req[r].pc \in {"lock", "load", "save"} /\ ~IsEdit(r)
     => <<r, req[r].addr, req[r].state>> \in transmitted

CommandInv == \A r \in Requests : CommandAt(r)

(* An open connection is that of a client that waits, and its only one.      *)
QueueInv ==
  /\ \A i \in 1..Len(queue) : queue[i].open =>
       /\ req[queue[i].by].pc = "wait"
       /\ req[queue[i].by].addr = queue[i].addr
       /\ req[queue[i].by].state = queue[i].state
  /\ \A i, j \in 1..Len(queue) :
       queue[i].open /\ queue[j].open /\ queue[i].by = queue[j].by => i = j

CoreInv == TypeInv /\ LockInv /\ CommandInv /\ QueueInv /\ RecordedOnlyIfTransmitted

(* While the clock is not set back, nothing has a time that is still to      *)
(* come; and what a request finds under the lock is at most the time ahead   *)
(* of it that the request may have waited for the lock.                      *)
ClockInv ==
  /\ \A r \in Requests : req[r].pc = "lock" => now - req[r].at <= LOCK_TIMEOUT
  /\ setbacks = 0 =>
       /\ \A r \in Requests : req[r].at <= now
       /\ \A s \in Sockets : Present(doc, s) => doc[s].last.at <= now
       /\ \A r \in Requests, s \in Sockets :
            lock = r /\ Present(doc, s) => doc[s].last.at <= req[r].at + LOCK_TIMEOUT

Busy(r) == req[r].pc \in {"send", "wait", "reply", "lock", "load", "save"}

(* The loop of all_off(): a socket of the snapshot has its outcome once its  *)
(* address is neither the current one nor among those that are left, and     *)
(* none of those that are left was sent to before.                           *)
ReportAt(r) ==
  LET q    == req[r]
      left == IF Busy(r) THEN q.todo \cup {q.addr} ELSE q.todo
  IN  /\ q.pc = "idle" => tries[r] = <<>> /\ q.out = <<>>
      /\ q.kind = "alloff" /\ (q.pc = "next" \/ Busy(r) \/ q.answer = "report") =>
           /\ q.state = "off" \/ q.answer = "report"
           /\ q.answer = "report" => q.todo = {}
           /\ DOMAIN q.out \subseteq DOMAIN q.snap
           /\ \A s \in DOMAIN q.snap : s \in DOMAIN q.out <=> q.snap[s] \notin left
           /\ \A s \in DOMAIN q.out :
                /\ q.out[s] \in {"recorded", "unrecorded"}
                     => <<r, q.snap[s], "off">> \in transmitted
                /\ q.out[s] = "skipped" => ~Contains(tries[r], q.snap[s])
           /\ \A a \in q.todo : ~Contains(tries[r], a)
           /\ Busy(r) => q.addr \notin q.todo
           /\ q.pc = "send" => ~Contains(tries[r], q.addr)
           /\ IsInjective(tries[r])

ReportInv == \A r \in Requests : ReportAt(r)

IInv == CoreInv /\ ClockInv /\ ReportInv

-----------------------------------------------------------------------------
(* The operators that give a request its new locals.                         *)
LEMMA EmptyFunction ==
  /\ <<>> \in Snaps /\ <<>> \in Reports /\ <<>> \in Seq(Addresses)
  /\ DOMAIN <<>> = {}
<1>1. DOMAIN <<>> = {}
  OBVIOUS
<1>2. <<>> \in [{} -> Addresses] /\ <<>> \in [{} -> Outcomes]
  BY <1>1
<1>. QED  BY <1>1, <1>2 DEF Snaps, Reports

LEMMA FreshType == Fresh \in Locals
BY EmptyFunction, SwitchingAssumption DEF Fresh, Locals, PCs, AllKinds, States, Answers

(* A request that ends keeps its kind, its snapshot and its report.          *)
LEMMA FinishFields ==
  ASSUME TypeInv, NEW r \in Requests, NEW a \in Answers
  PROVE  /\ Finish(r, a) \in Locals
         /\ Finish(r, a).pc = "done" /\ Finish(r, a).answer = a
         /\ Finish(r, a).kind = req[r].kind /\ Finish(r, a).todo = {}
         /\ Finish(r, a).snap = req[r].snap /\ Finish(r, a).out = req[r].out
         /\ Finish(r, a).at = 0
<1>1. req[r] \in Locals
  BY DEF TypeInv
<1>2. req[r].kind \in AllKinds /\ req[r].snap \in Snaps /\ req[r].out \in Reports
  BY <1>1 DEF Locals
<1>. QED  BY <1>2, FreshType DEF Finish, Fresh, Locals, PCs

LEMMA IdsType ==
  ASSUME TypeInv, NEW r \in Requests, CommandAt(r), Busy(r)
  PROVE  Ids(r) \subseteq Sockets
<1>1. req[r] \in Locals
  BY DEF TypeInv
<1>2. PICK S \in SUBSET Sockets : req[r].snap \in [S -> Addresses]
  BY <1>1 DEF Locals, Snaps
<1>. QED  BY <1>2 DEF Ids, CommandAt, Busy

LEMMA AddToReport ==
  ASSUME NEW f \in Reports, NEW S \in SUBSET Sockets, NEW g,
         g = [s \in DOMAIN f \cup S |-> g[s]],
         \A s \in S : g[s] \in Outcomes,
         \A s \in DOMAIN f \ S : g[s] = f[s]
  PROVE  g \in Reports
<1>1. PICK T \in SUBSET Sockets : f \in [T -> Outcomes]
  BY DEF Reports
<1>2. g \in [T \cup S -> Outcomes]
  BY <1>1
<1>. QED  BY <1>1, <1>2 DEF Reports

LEMMA OutcomeType ==
  ASSUME TypeInv, NEW r \in Requests, NEW S \in SUBSET Sockets, NEW what \in Outcomes
  PROVE  Outcome(r, S, what) \in Reports
<1>1. req[r].out \in Reports
  BY DEF TypeInv, Locals
<1>. QED  BY <1>1, AddToReport DEF Outcome

(* A switch that fails ends; an All-off goes on with what is left, or with   *)
(* nothing if it stops.                                                      *)
LEMMA FailedSwitch ==
  ASSUME TypeInv, NEW r \in Requests, NEW stop \in BOOLEAN, req[r].kind = "switch"
  PROVE  Failed(r, stop) = Finish(r, "daemon_error")
BY DEF Failed

LEMMA FailedAllOff ==
  ASSUME TypeInv, NEW r \in Requests, NEW stop \in BOOLEAN,
         CommandAt(r), Busy(r), req[r].kind = "alloff",
         NEW q, q = Failed(r, stop)
  PROVE  /\ q \in Locals
         /\ q.pc = "next" /\ q.kind = "alloff" /\ q.snap = req[r].snap
         /\ q.todo = IF stop THEN {} ELSE req[r].todo
         /\ q.state = req[r].state /\ q.at = req[r].at /\ q.answer = req[r].answer
         /\ DOMAIN q.out = DOMAIN req[r].out \cup Ids(r)
              \cup {s \in DOMAIN req[r].snap : stop /\ req[r].snap[s] \in req[r].todo}
         /\ \A s \in DOMAIN q.out :
              \/ q.out[s] = "error"
              \/ q.out[s] = "skipped" /\ req[r].snap[s] \in req[r].todo
              \/ s \in DOMAIN req[r].out /\ q.out[s] = req[r].out[s]
<1>1. req[r] \in Locals
  BY DEF TypeInv
<1>2. Ids(r) \subseteq Sockets
  BY IdsType
<1>. DEFINE out  == Outcome(r, Ids(r), "error")
            rest == {s \in DOMAIN req[r].snap : req[r].snap[s] \in req[r].todo}
            all  == [s \in DOMAIN out \cup rest |->
                       IF s \in rest THEN "skipped" ELSE out[s]]
<1>3. out \in Reports /\ DOMAIN out = DOMAIN req[r].out \cup Ids(r)
  BY <1>2, OutcomeType DEF Outcome, Outcomes
<1>4. \A s \in DOMAIN out :
        out[s] = IF s \in Ids(r) THEN "error" ELSE req[r].out[s]
  BY DEF Outcome
<1>5. rest \subseteq Sockets
  <2>1. PICK S \in SUBSET Sockets : req[r].snap \in [S -> Addresses]
    BY <1>1 DEF Locals, Snaps
  <2>. QED  BY <2>1
<1>6. all \in Reports
  <2>. HIDE DEF out, rest
  <2>. QED  BY <1>3, <1>5, AddToReport DEF Outcomes
<1>7. CASE stop
  <2>1. q = [req[r] EXCEPT !.pc = "next", !.todo = {}, !.out = all]
    BY <1>7 DEF Failed
  <2>2. q \in Locals
    <3>. HIDE DEF all
    <3>. QED  BY <1>1, <1>6, <2>1 DEF Locals, PCs
  <2>3. q.out = all
    <3>. HIDE DEF all
    <3>. QED  BY <1>1, <2>1 DEF Locals
  <2>4. /\ q.pc = "next" /\ q.kind = "alloff" /\ q.snap = req[r].snap
        /\ q.todo = {} /\ q.state = req[r].state /\ q.at = req[r].at
        /\ q.answer = req[r].answer
    <3>. HIDE DEF all
    <3>. QED  BY <1>1, <2>1 DEF Locals
  <2>5. \A s \in DOMAIN q.out :
          \/ q.out[s] = "error"
          \/ q.out[s] = "skipped" /\ req[r].snap[s] \in req[r].todo
          \/ s \in DOMAIN req[r].out /\ q.out[s] = req[r].out[s]
    <3>. HIDE DEF out
    <3>. QED  BY <1>3, <1>4, <2>3
  <2>6. DOMAIN q.out = DOMAIN req[r].out \cup Ids(r) \cup rest
    <3>. HIDE DEF out, rest
    <3>. QED  BY <1>3, <2>3
  <2>. QED  BY <1>7, <2>2, <2>4, <2>5, <2>6
<1>8. CASE ~stop
  <2>1. q = [req[r] EXCEPT !.pc = "next", !.out = out]
    BY <1>8 DEF Failed
  <2>. HIDE DEF out
  <2>2. q \in Locals
    BY <1>1, <1>3, <2>1 DEF Locals, PCs
  <2>3. /\ q.pc = "next" /\ q.kind = "alloff" /\ q.snap = req[r].snap
        /\ q.todo = req[r].todo /\ q.state = req[r].state /\ q.at = req[r].at
        /\ q.answer = req[r].answer /\ q.out = out
    BY <1>1, <2>1 DEF Locals
  <2>. QED  BY <1>3, <1>4, <1>8, <2>2, <2>3
<1>. QED  BY <1>7, <1>8

(* What is left of a request after mutate(): a switch and an edit end, an    *)
(* All-off goes on with the outcomes of the command it has recorded.         *)
LEMMA RecordedEnds ==
  ASSUME TypeInv, NEW r \in Requests, NEW W, req[r].kind # "alloff"
  PROVE  \E a \in Answers \ {"none", "report"} : Recorded(r, W) = Finish(r, a)
<1>1. req[r].kind \in AllKinds
  BY DEF TypeInv, Locals
<1>2. CASE req[r].kind = "switch"
  BY <1>2 DEF Recorded, Answers
<1>3. CASE req[r].kind \in {"edit", "delete"}
  BY <1>3 DEF Recorded, Answers
<1>. QED  BY <1>1, <1>2, <1>3 DEF AllKinds

LEMMA RecordedAllOff ==
  ASSUME TypeInv, NEW r \in Requests, NEW W \in SUBSET Ids(r),
         CommandAt(r), Busy(r), req[r].kind = "alloff",
         NEW q, q = Recorded(r, W)
  PROVE  /\ q \in Locals
         /\ q.pc = "next" /\ q.kind = "alloff" /\ q.snap = req[r].snap
         /\ q.todo = req[r].todo /\ q.state = req[r].state
         /\ q.at = 0 /\ q.answer = req[r].answer
         /\ DOMAIN q.out = DOMAIN req[r].out \cup Ids(r)
         /\ \A s \in DOMAIN q.out :
              \/ s \in Ids(r) /\ q.out[s] \in {"recorded", "unrecorded"}
              \/ s \in DOMAIN req[r].out /\ q.out[s] = req[r].out[s]
<1>1. req[r] \in Locals
  BY DEF TypeInv
<1>2. Ids(r) \subseteq Sockets
  BY IdsType
<1>. DEFINE out == [s \in DOMAIN req[r].out \cup Ids(r) |->
                      IF s \in W THEN "recorded"
                      ELSE IF s \in Ids(r) THEN "unrecorded" ELSE req[r].out[s]]
<1>3. out \in Reports
  <2>1. req[r].out \in Reports
    BY <1>1 DEF Locals
  <2>2. out = [s \in DOMAIN req[r].out \cup Ids(r) |-> out[s]]
    OBVIOUS
  <2>3. \A s \in Ids(r) : out[s] \in Outcomes
    BY DEF Outcomes
  <2>4. \A s \in DOMAIN req[r].out \ Ids(r) : out[s] = req[r].out[s]
    OBVIOUS
  <2>. HIDE DEF out
  <2>. QED  BY <1>2, <2>1, <2>2, <2>3, <2>4, AddToReport
<1>4. q = [req[r] EXCEPT !.pc = "next", !.copy = <<>>, !.at = 0, !.reply = "error",
             !.out = out]
  BY <1>1 DEF Recorded, Locals
<1>5. \A s \in DOMAIN out :
        \/ s \in Ids(r) /\ out[s] \in {"recorded", "unrecorded"}
        \/ s \in DOMAIN req[r].out /\ out[s] = req[r].out[s]
  OBVIOUS
<1>6. DOMAIN out = DOMAIN req[r].out \cup Ids(r)
  OBVIOUS
<1>. HIDE DEF out
<1>7. q \in Locals
  <2>1. 0 \in 0..MaxTime /\ "next" \in PCs
    BY SwitchingAssumption DEF PCs
  <2>. QED  BY <1>1, <1>3, <1>4, <2>1 DEF Locals
<1>8. /\ q.pc = "next" /\ q.kind = "alloff" /\ q.snap = req[r].snap
      /\ q.todo = req[r].todo /\ q.state = req[r].state
      /\ q.at = 0 /\ q.answer = req[r].answer /\ q.out = out
  BY <1>1, <1>4 DEF Locals
<1>. QED  BY <1>5, <1>6, <1>7, <1>8

-----------------------------------------------------------------------------
(* A step of the request r, which does not wait for a reply: its locals      *)
(* become q, those of the others stay, and the document may change only if   *)
(* r holds the lock.                                                         *)
Moves(r, q) ==
  /\ q \in Locals
  /\ req' = [req EXCEPT ![r] = q]
  /\ req[r].pc # "wait"
  /\ UNCHANGED <<queue, now, setbacks, transmitted, tries>>
  /\ doc' \in Docs
  /\ doc' = doc \/ lock = r
  /\ \/ lock' = lock
     \/ lock = None /\ lock' = r
     \/ lock = r /\ lock' = None
  /\ q.pc \in {"load", "save"} <=> lock' = r

(* The times that such a step may leave.                                     *)
TimesOf(r, q) ==
  /\ q.at \in {0, now, req[r].at}
  /\ q.pc = "lock" => q.at = now
  /\ lock' = r => q.at = req[r].at /\ doc' = doc /\ (lock = r \/ req[r].pc = "lock")
  /\ \A s \in Sockets : Present(doc', s) =>
       \/ doc'[s].last.at \in {0, req[r].at}
       \/ Present(doc, s) /\ doc'[s].last.at = doc[s].last.at

LEMMA MovesCore ==
  ASSUME CoreInv, NEW r \in Requests, NEW q, Moves(r, q),
         CommandAt(r)', RecordedOnlyIfTransmitted'
  PROVE  CoreInv'
<1>. USE DEF CoreInv, Moves
<1>1. req'[r] = q /\ \A o \in Requests : o # r => req'[o] = req[o]
  BY DEF TypeInv
<1>2. TypeInv'
  BY SwitchingAssumption DEF TypeInv
<1>3. LockInv'
  BY <1>1, SwitchingAssumption DEF TypeInv, LockInv
<1>4. \A o \in Requests : o # r => CommandAt(o)'
  <2>. SUFFICES ASSUME NEW o \in Requests, o # r PROVE CommandAt(o)'
    OBVIOUS
  <2>1. req'[o] = req[o] /\ CommandAt(o)
    BY <1>1 DEF CommandInv
  <2>2. req[o].pc = "save" => doc' = doc
    BY SwitchingAssumption DEF LockInv
  <2>. QED  BY <2>1, <2>2 DEF CommandAt, IsEdit
<1>5. QueueInv'
  <2>1. \A i \in 1..Len(queue) : queue[i] \in Connections
    BY DEF TypeInv
  <2>. QED  BY <1>1, <2>1 DEF QueueInv, Connections
<1>. QED  BY <1>2, <1>3, <1>4, <1>5 DEF CommandInv

LEMMA MovesClock ==
  ASSUME CoreInv, ClockInv, NEW r \in Requests, NEW q, Moves(r, q), TimesOf(r, q)
  PROVE  ClockInv'
<1>. USE SwitchingAssumption DEF Moves, TimesOf
<1>1. req'[r] = q /\ \A o \in Requests : o # r => req'[o] = req[o]
  BY DEF CoreInv, TypeInv
<1>2. now \in Nat /\ \A o \in Requests : req[o].at \in Nat
  BY DEF CoreInv, TypeInv, Locals
<1>3. \A o \in Requests : req'[o].pc = "lock" => now' - req'[o].at <= LOCK_TIMEOUT
  BY <1>1, <1>2 DEF ClockInv
<1>. SUFFICES ASSUME setbacks = 0
              PROVE /\ \A o \in Requests : req'[o].at <= now
                    /\ \A s \in Sockets : Present(doc', s) => doc'[s].last.at <= now
                    /\ \A o \in Requests, s \in Sockets :
                         lock' = o /\ Present(doc', s)
                           => doc'[s].last.at <= req'[o].at + LOCK_TIMEOUT
  BY <1>3 DEF ClockInv
<1>4. \A o \in Requests : req'[o].at <= now
  BY <1>1, <1>2 DEF ClockInv
<1>5. \A s \in Sockets : Present(doc', s) => doc'[s].last.at <= now
  BY <1>2 DEF ClockInv
<1>6. ASSUME NEW o \in Requests, NEW s \in Sockets, lock' = o, Present(doc', s)
      PROVE  doc'[s].last.at <= req'[o].at + LOCK_TIMEOUT
  <2>1. CASE o = r /\ lock # r
    <3>1. doc' = doc /\ now - req[r].at <= LOCK_TIMEOUT /\ doc[s].last.at <= now
      BY <1>6, <2>1 DEF ClockInv
    <3>2. doc[s].last.at \in Int
      BY <1>6, <3>1 DEF CoreInv, TypeInv, Docs, Stored, NoEntry, Present
    <3>. QED  BY <1>1, <1>2, <1>6, <2>1, <3>1, <3>2
  <2>2. CASE o = r /\ lock = r
    BY <1>1, <1>6, <2>2 DEF ClockInv
  <2>3. CASE o # r
    BY <1>1, <1>6, <2>3 DEF ClockInv
  <2>. QED  BY <2>1, <2>2, <2>3
<1>. QED  BY <1>4, <1>5, <1>6

LEMMA MovesReport ==
  ASSUME CoreInv, ReportInv, NEW r \in Requests, NEW q, Moves(r, q), ReportAt(r)'
  PROVE  ReportInv'
<1>1. \A o \in Requests : o # r => req'[o] = req[o]
  BY DEF CoreInv, TypeInv, Moves
<1>2. \A o \in Requests : o # r => ReportAt(o)'
  <2>. SUFFICES ASSUME NEW o \in Requests, o # r PROVE ReportAt(o)'
    OBVIOUS
  <2>1. ReportAt(o) /\ req'[o] = req[o] /\ tries' = tries /\ transmitted' = transmitted
    BY <1>1 DEF ReportInv, Moves
  <2>. QED  BY <2>1 DEF ReportAt, Busy
<1>. QED  BY <1>2 DEF ReportInv

(* So much is to be shown of a step of a request that does not wait.         *)
LEMMA MovesIInv ==
  ASSUME IInv, NEW r \in Requests, NEW q, Moves(r, q), TimesOf(r, q),
         CommandAt(r)', ReportAt(r)', RecordedOnlyIfTransmitted'
  PROVE  IInv'
BY MovesCore, MovesClock, MovesReport DEF IInv

LEMMA EndedAt ==
  ASSUME TypeInv, NEW r \in Requests, NEW q, Moves(r, q),
         q.pc = "done", q.answer \notin {"none", "report"}
  PROVE  CommandAt(r)' /\ ReportAt(r)'
<1>1. req'[r] = q
  BY DEF TypeInv, Moves
<1>. QED  BY <1>1 DEF CommandAt, ReportAt, Busy

(* A step that does not touch the document leaves the invariant on it.       *)
LEMMA SameRecord ==
  ASSUME RecordedOnlyIfTransmitted, UNCHANGED doc, transmitted \subseteq transmitted'
  PROVE  RecordedOnlyIfTransmitted'
BY DEF RecordedOnlyIfTransmitted, Present

LEMMA InitIInv == Init => IInv
<1>. SUFFICES ASSUME Init PROVE IInv
  OBVIOUS
<1>. USE SwitchingAssumption DEF Init
<1>1. TypeInv
  <2>1. doc \in Docs
    BY DEF Docs, Stored
  <2>2. queue \in Seq(Connections) /\ tries \in [Requests -> Seq(Addresses)]
    BY EmptyFunction
  <2>. QED  BY <2>1, <2>2, FreshType DEF TypeInv
<1>2. \A r \in Requests : req[r] = Fresh /\ Fresh.pc = "idle" /\ Fresh.kind = "switch"
        /\ Fresh.answer = "none" /\ Fresh.at = 0 /\ Fresh.out = <<>>
  BY DEF Fresh
<1>3. LockInv /\ CommandInv /\ QueueInv
  BY <1>2 DEF LockInv, CommandInv, CommandAt, IsEdit, QueueInv
<1>4. RecordedOnlyIfTransmitted
  BY DEF RecordedOnlyIfTransmitted
<1>5. ClockInv
  BY <1>2 DEF ClockInv, NoEntry, Present
<1>6. ReportInv
  BY <1>2 DEF ReportInv, ReportAt, Busy
<1>. QED  BY <1>1, <1>3, <1>4, <1>5, <1>6 DEF IInv, CoreInv

-----------------------------------------------------------------------------
(* The start of a request.                                                   *)
LEMMA Step_SwitchSocket ==
  ASSUME IInv, NEW r \in Requests, SwitchSocket(r)
  PROVE  IInv'
<1>. USE DEF IInv, CoreInv
<1>1. req[r] \in Locals /\ req[r].pc = "idle" /\ lock # r
  BY DEF SwitchSocket, At, TypeInv, LockInv
<1>2. PICK s \in Sockets, state \in States :
        req' = [req EXCEPT ![r] =
          IF Present(doc, s)
          THEN [@ EXCEPT !.pc = "send", !.kind = "switch", !.sid = s,
                         !.state = state, !.addr = doc[s].addr]
          ELSE Finish(r, "not_found")]
  BY DEF SwitchSocket
<1>3. UNCHANGED <<doc, lock, queue, now, setbacks, transmitted, tries>> /\ doc \in Docs
  BY DEF SwitchSocket, TypeInv
<1>4. RecordedOnlyIfTransmitted'
  BY <1>3, SameRecord
<1>5. CASE ~Present(doc, s)
  <2>. DEFINE q == Finish(r, "not_found")
  <2>1. q \in Locals /\ q.pc = "done" /\ q.answer = "not_found" /\ q.at = 0
    BY FinishFields DEF Answers
  <2>2. req' = [req EXCEPT ![r] = q]
    BY <1>2, <1>5 DEF TypeInv
  <2>. HIDE DEF q
  <2>3. Moves(r, q) /\ TimesOf(r, q)
    BY <1>1, <1>3, <2>1, <2>2 DEF Moves, TimesOf
  <2>. QED  BY <1>4, <2>1, <2>3, EndedAt, MovesIInv
<1>6. CASE Present(doc, s)
  <2>. DEFINE q == [req[r] EXCEPT !.pc = "send", !.kind = "switch", !.sid = s,
                      !.state = state, !.addr = doc[s].addr]
  <2>1. doc[s].addr \in Addresses
    BY <1>6 DEF TypeInv, Docs, Stored, Present
  <2>2. /\ q \in Locals /\ q.pc = "send" /\ q.kind = "switch" /\ q.sid = s
        /\ q.addr = doc[s].addr /\ q.at = req[r].at /\ q.answer = req[r].answer
    BY <1>1, <2>1 DEF Locals, PCs, AllKinds
  <2>3. req' = [req EXCEPT ![r] = q]
    BY <1>2, <1>6 DEF TypeInv
  <2>. HIDE DEF q
  <2>4. Moves(r, q) /\ TimesOf(r, q)
    BY <1>1, <1>3, <2>2, <2>3 DEF Moves, TimesOf
  <2>5. req'[r] = q
    BY <2>3 DEF TypeInv
  <2>6. CommandAt(r)'
    BY <1>1, <2>1, <2>2, <2>5 DEF CommandInv, CommandAt, IsEdit
  <2>7. ReportAt(r)'
    BY <2>2, <2>5 DEF ReportAt
  <2>. QED  BY <1>4, <2>4, <2>6, <2>7, MovesIInv
<1>. QED  BY <1>5, <1>6

LEMMA Step_NothingSent ==
  ASSUME IInv, NEW r \in Requests, SnapshotFails(r) \/ NoSuchRoom(r)
  PROVE  IInv'
<1>. USE DEF IInv, CoreInv
<1>1. req[r] \in Locals /\ req[r].pc = "idle" /\ lock # r
  BY DEF SnapshotFails, NoSuchRoom, At, TypeInv, LockInv
<1>2. UNCHANGED <<doc, lock, queue, now, setbacks, transmitted, tries>> /\ doc \in Docs
  BY DEF SnapshotFails, NoSuchRoom, TypeInv
<1>3. PICK a \in {"store_error", "not_found"}, kind \in {"switch", "alloff"} :
        req' = [req EXCEPT ![r] = [Finish(r, a) EXCEPT !.kind = kind]]
  BY DEF SnapshotFails, NoSuchRoom
<1>. DEFINE q == [Finish(r, a) EXCEPT !.kind = kind]
<1>4. q \in Locals /\ q.pc = "done" /\ q.answer = a /\ q.at = 0
  <2>1. /\ Finish(r, a) \in Locals /\ Finish(r, a).pc = "done"
        /\ Finish(r, a).answer = a /\ Finish(r, a).at = 0
    BY FinishFields DEF Answers
  <2>. QED  BY <2>1 DEF Locals, AllKinds
<1>5. req' = [req EXCEPT ![r] = q]
  BY <1>3
<1>. HIDE DEF q
<1>6. Moves(r, q) /\ TimesOf(r, q)
  BY <1>1, <1>2, <1>4, <1>5 DEF Moves, TimesOf
<1>7. RecordedOnlyIfTransmitted'
  BY <1>2, SameRecord
<1>. QED  BY <1>4, <1>6, <1>7, EndedAt, MovesIInv

LEMMA Step_AllOff ==
  ASSUME IInv, NEW r \in Requests, AllOff(r)
  PROVE  IInv'
<1>. USE DEF IInv, CoreInv
<1>1. req[r] \in Locals /\ req[r].pc = "idle" /\ lock # r
  BY DEF AllOff, At, TypeInv, LockInv
<1>2. UNCHANGED <<doc, lock, queue, now, setbacks, transmitted, tries>> /\ doc \in Docs
  BY DEF AllOff, TypeInv
<1>3. PICK scope \in SUBSET Sockets :
        LET members == {s \in scope : Present(doc, s)}
            snap == [s \in members |-> doc[s].addr]
        IN  req' = [req EXCEPT ![r] =
                      [@ EXCEPT !.pc = "next", !.kind = "alloff", !.snap = snap,
                                !.state = "off", !.todo = {snap[s] : s \in members}]]
  BY DEF AllOff
<1>. DEFINE members == {s \in scope : Present(doc, s)}
            snap == [s \in members |-> doc[s].addr]
            todo == {snap[s] : s \in members}
            q == [req[r] EXCEPT !.pc = "next", !.kind = "alloff", !.snap = snap,
                    !.state = "off", !.todo = todo]
<1>4. members \in SUBSET Sockets /\ snap \in [members -> Addresses]
  BY DEF TypeInv, Docs, Stored, Present
<1>5. snap \in Snaps /\ todo \subseteq Addresses /\ DOMAIN snap = members
  BY <1>4 DEF Snaps
<1>6. \A s \in DOMAIN snap : snap[s] \in todo
  BY <1>5
<1>7. req' = [req EXCEPT ![r] = q]
  BY <1>1, <1>3
<1>. HIDE DEF snap, todo
<1>8. /\ q \in Locals /\ q.pc = "next" /\ q.kind = "alloff" /\ q.snap = snap
      /\ q.state = "off" /\ q.todo = todo /\ q.at = req[r].at
      /\ q.answer = req[r].answer /\ q.out = req[r].out
  BY <1>1, <1>5 DEF Locals, PCs, AllKinds, States
<1>. HIDE DEF q
<1>9. Moves(r, q) /\ TimesOf(r, q) /\ req'[r] = q
  BY <1>1, <1>2, <1>7, <1>8 DEF Moves, TimesOf, TypeInv
<1>10. RecordedOnlyIfTransmitted'
  BY <1>2, SameRecord
<1>11. req[r].answer = "none"
  BY <1>1 DEF CommandInv, CommandAt
<1>12. CommandAt(r)'
  BY <1>8, <1>9, <1>11 DEF CommandAt, IsEdit
<1>13. ReportAt(r)'
  <2>1. tries'[r] = <<>> /\ q.out = <<>>
    BY <1>1, <1>2, <1>8 DEF ReportInv, ReportAt
  <2>2. IsInjective(tries'[r]) /\ \A a : ~Contains(tries'[r], a)
    BY <2>1 DEF IsInjective, Contains
  <2>3. DOMAIN q.out = {}
    BY <2>1, EmptyFunction
  <2>. QED  BY <1>6, <1>8, <1>9, <1>11, <2>2, <2>3 DEF ReportAt, Busy
<1>. QED  BY <1>9, <1>10, <1>12, <1>13, MovesIInv

(* The head of the loop of all_off().                                        *)
LEMMA Step_NextAddress ==
  ASSUME IInv, NEW r \in Requests, NextAddress(r)
  PROVE  IInv'
<1>. USE DEF IInv, CoreInv
<1>1. /\ req[r] \in Locals /\ req[r].pc = "next" /\ lock # r /\ ~Busy(r)
      /\ req[r].kind = "alloff" /\ req[r].answer = "none"
  BY DEF NextAddress, At, TypeInv, LockInv, CommandInv, CommandAt, Busy
<1>2. UNCHANGED <<doc, lock, queue, now, setbacks, transmitted, tries>> /\ doc \in Docs
  BY DEF NextAddress, TypeInv
<1>3. RecordedOnlyIfTransmitted'
  BY <1>2, SameRecord
<1>4. ASSUME NEW a \in req[r].todo,
             req' = [req EXCEPT ![r].pc = "send", ![r].addr = a, ![r].todo = @ \ {a}]
      PROVE  IInv'
  <2>. DEFINE q == [req[r] EXCEPT !.pc = "send", !.addr = a, !.todo = @ \ {a}]
  <2>1. req' = [req EXCEPT ![r] = q]
    BY <1>1, <1>4 DEF TypeInv, Locals
  <2>2. /\ q \in Locals /\ q.pc = "send" /\ q.kind = "alloff" /\ q.snap = req[r].snap
        /\ q.state = req[r].state /\ q.todo = req[r].todo \ {a} /\ q.addr = a
        /\ q.at = req[r].at /\ q.answer = "none" /\ q.out = req[r].out
        /\ a \in Addresses
    BY <1>1 DEF Locals, PCs
  <2>. HIDE DEF q
  <2>3. Moves(r, q) /\ TimesOf(r, q) /\ req'[r] = q
    BY <1>1, <1>2, <2>1, <2>2 DEF Moves, TimesOf, TypeInv
  <2>4. CommandAt(r)'
    BY <2>2, <2>3 DEF CommandAt, IsEdit
  <2>5. ReportAt(r)'
    <3>1. ReportAt(r) /\ tries' = tries /\ transmitted' = transmitted
      BY <1>2 DEF ReportInv
    <3>. QED  BY <1>1, <2>2, <2>3, <3>1 DEF ReportAt, Busy
  <2>. QED  BY <1>3, <2>3, <2>4, <2>5, MovesIInv
<1>5. ASSUME req[r].todo = {}, req' = [req EXCEPT ![r] = Finish(r, "report")]
      PROVE  IInv'
  <2>. DEFINE q == Finish(r, "report")
  <2>1. /\ q \in Locals /\ q.pc = "done" /\ q.kind = "alloff" /\ q.snap = req[r].snap
        /\ q.todo = {} /\ q.at = 0 /\ q.answer = "report" /\ q.out = req[r].out
    BY <1>1, FinishFields DEF Answers
  <2>2. req' = [req EXCEPT ![r] = q]
    BY <1>5
  <2>. HIDE DEF q
  <2>3. Moves(r, q) /\ TimesOf(r, q) /\ req'[r] = q
    BY <1>1, <1>2, <2>1, <2>2 DEF Moves, TimesOf, TypeInv
  <2>4. CommandAt(r)'
    BY <2>1, <2>3 DEF CommandAt, IsEdit
  <2>5. ReportAt(r)'
    <3>1. ReportAt(r) /\ tries' = tries /\ transmitted' = transmitted
      BY <1>2 DEF ReportInv
    <3>. QED  BY <1>1, <1>5, <2>1, <2>3, <3>1 DEF ReportAt, Busy
  <2>. QED  BY <1>3, <2>3, <2>4, <2>5, MovesIInv
<1>. QED  BY <1>4, <1>5 DEF NextAddress

(* What Failed() leaves: the outcome of the current address, and of those    *)
(* that are skipped.                                                         *)
LEMMA FailedAt ==
  ASSUME IInv, NEW r \in Requests, req[r].pc \in {"send", "wait", "reply"},
         NEW stop \in BOOLEAN, NEW q, q = Failed(r, stop),
         req'[r] = q, UNCHANGED <<transmitted, tries>>
  PROVE  /\ q \in Locals /\ q.pc \in {"next", "done"} /\ q.at \in {0, req[r].at}
         /\ CommandAt(r)' /\ ReportAt(r)'
<1>. USE DEF IInv, CoreInv
<1>1. /\ req[r] \in Locals /\ CommandAt(r) /\ Busy(r)
      /\ req[r].kind \in {"switch", "alloff"} /\ req[r].answer = "none"
  BY DEF TypeInv, Locals, AllKinds, CommandInv, CommandAt, IsEdit, Busy
<1>2. CASE req[r].kind = "switch"
  <2>1. q = Finish(r, "daemon_error")
    BY <1>2, FailedSwitch
  <2>2. q \in Locals /\ q.pc = "done" /\ q.answer = "daemon_error" /\ q.at = 0
    BY <2>1, FinishFields DEF Answers
  <2>. QED  BY <2>2 DEF CommandAt, ReportAt, Busy
<1>3. CASE req[r].kind = "alloff"
  <2>1. /\ q \in Locals
        /\ q.pc = "next" /\ q.kind = "alloff" /\ q.snap = req[r].snap
        /\ q.todo = IF stop THEN {} ELSE req[r].todo
        /\ q.state = req[r].state /\ q.at = req[r].at /\ q.answer = req[r].answer
    BY <1>1, <1>3, FailedAllOff
  <2>2. DOMAIN q.out = DOMAIN req[r].out \cup Ids(r)
          \cup {s \in DOMAIN req[r].snap : stop /\ req[r].snap[s] \in req[r].todo}
    BY <1>1, <1>3, FailedAllOff
  <2>3. \A s \in DOMAIN q.out :
          \/ q.out[s] = "error"
          \/ q.out[s] = "skipped" /\ req[r].snap[s] \in req[r].todo
          \/ s \in DOMAIN req[r].out /\ q.out[s] = req[r].out[s]
    BY <1>1, <1>3, FailedAllOff
  <2>4. CommandAt(r)'
    BY <1>1, <2>1 DEF CommandAt, IsEdit
  <2>5. ReportAt(r) /\ tries' = tries /\ transmitted' = transmitted
    BY DEF ReportInv
  <2>6. DOMAIN q.out \subseteq DOMAIN q.snap
    BY <1>1, <1>3, <2>1, <2>2, <2>5 DEF ReportAt, Ids
  <2>7. \A s \in DOMAIN q.snap : s \in DOMAIN q.out <=> q.snap[s] \notin q.todo
    BY <1>1, <1>3, <2>1, <2>2, <2>5 DEF ReportAt, Ids
  <2>8. \A s \in DOMAIN q.out :
          /\ q.out[s] \in {"recorded", "unrecorded"}
               => <<r, q.snap[s], "off">> \in transmitted
          /\ q.out[s] = "skipped" => ~Contains(tries[r], q.snap[s])
    BY <1>1, <1>3, <2>1, <2>3, <2>5 DEF ReportAt
  <2>9. /\ q.state = "off" /\ IsInjective(tries[r])
        /\ \A a \in q.todo : ~Contains(tries[r], a)
    BY <1>1, <1>3, <2>1, <2>5 DEF ReportAt
  <2>10. ReportAt(r)'
    BY <1>1, <2>1, <2>5, <2>6, <2>7, <2>8, <2>9 DEF ReportAt, Busy
  <2>. QED  BY <2>1, <2>4, <2>10
<1>. QED  BY <1>1, <1>2, <1>3

LEMMA Step_ConnectFails ==
  ASSUME IInv, NEW r \in Requests, ConnectFails(r)
  PROVE  IInv'
<1>. USE DEF IInv, CoreInv
<1>. DEFINE q == Failed(r, TRUE)
<1>1. req[r].pc = "send" /\ lock # r
  BY DEF ConnectFails, At, TypeInv, LockInv
<1>2. UNCHANGED <<doc, lock, queue, now, setbacks, transmitted, tries>> /\ doc \in Docs
  BY DEF ConnectFails, TypeInv
<1>3. req' = [req EXCEPT ![r] = q] /\ req'[r] = q
  BY DEF ConnectFails, TypeInv
<1>. HIDE DEF q
<1>4. /\ q \in Locals /\ q.pc \in {"next", "done"} /\ q.at \in {0, req[r].at}
      /\ CommandAt(r)' /\ ReportAt(r)'
  BY <1>1, <1>2, <1>3, FailedAt DEF q
<1>5. Moves(r, q) /\ TimesOf(r, q)
  BY <1>1, <1>2, <1>3, <1>4 DEF Moves, TimesOf
<1>. QED  BY <1>2, <1>4, <1>5, SameRecord, MovesIInv

(* After OK the command is recorded; it has gone out.                        *)
LEMMA Step_TakeReply ==
  ASSUME IInv, NEW r \in Requests, TakeReply(r)
  PROVE  IInv'
<1>. USE DEF IInv, CoreInv
<1>1. req[r] \in Locals /\ req[r].pc = "reply" /\ lock # r /\ CommandAt(r) /\ now \in 0..MaxTime
  BY DEF TakeReply, At, TypeInv, LockInv, CommandInv
<1>2. UNCHANGED <<doc, lock, queue, now, setbacks, transmitted, tries>> /\ doc \in Docs
  BY DEF TakeReply, TypeInv
<1>3. RecordedOnlyIfTransmitted'
  BY <1>2, SameRecord
<1>4. CASE req[r].reply = "OK"
  <2>. DEFINE q == [req[r] EXCEPT !.pc = "lock", !.at = now]
  <2>1. req' = [req EXCEPT ![r] = q] /\ req'[r] = q
    BY <1>4 DEF TakeReply, TypeInv
  <2>2. /\ q \in Locals /\ q.pc = "lock" /\ q.kind = req[r].kind /\ q.sid = req[r].sid
        /\ q.snap = req[r].snap /\ q.todo = req[r].todo /\ q.addr = req[r].addr
        /\ q.state = req[r].state /\ q.at = now /\ q.out = req[r].out
        /\ q.answer = req[r].answer
    BY <1>1 DEF Locals, PCs
  <2>. HIDE DEF q
  <2>3. Moves(r, q) /\ TimesOf(r, q)
    BY <1>1, <1>2, <2>1, <2>2 DEF Moves, TimesOf
  <2>4. CommandAt(r)'
    BY <1>1, <1>2, <1>4, <2>1, <2>2 DEF CommandAt, IsEdit
  <2>5. ReportAt(r)'
    <3>1. ReportAt(r) /\ tries' = tries /\ transmitted' = transmitted
      BY <1>2 DEF ReportInv
    <3>. QED  BY <1>1, <2>1, <2>2, <3>1 DEF ReportAt, Busy
  <2>. QED  BY <1>3, <2>3, <2>4, <2>5, MovesIInv
<1>5. CASE req[r].reply # "OK"
  <2>. DEFINE q == Failed(r, FALSE)
  <2>1. req' = [req EXCEPT ![r] = q] /\ req'[r] = q
    BY <1>5 DEF TakeReply, TypeInv
  <2>. HIDE DEF q
  <2>2. /\ q \in Locals /\ q.pc \in {"next", "done"} /\ q.at \in {0, req[r].at}
        /\ CommandAt(r)' /\ ReportAt(r)'
    BY <1>1, <1>2, <2>1, FailedAt DEF q
  <2>3. Moves(r, q) /\ TimesOf(r, q)
    BY <1>1, <1>2, <2>1, <2>2 DEF Moves, TimesOf
  <2>. QED  BY <1>3, <2>2, <2>3, MovesIInv
<1>. QED  BY <1>4, <1>5

-----------------------------------------------------------------------------
(* The store.                                                                *)
LEMMA Step_Edit ==
  ASSUME IInv, NEW r \in Requests, Edit(r)
  PROVE  IInv'
<1>. USE DEF IInv, CoreInv
<1>1. /\ req[r] \in Locals /\ req[r].pc = "idle" /\ lock # r /\ CommandAt(r)
      /\ now \in 0..MaxTime
  BY DEF Edit, At, TypeInv, LockInv, CommandInv
<1>2. UNCHANGED <<doc, lock, queue, now, setbacks, transmitted, tries>> /\ doc \in Docs
  BY DEF Edit, TypeInv
<1>3. PICK kind \in {"edit", "delete"}, s \in Sockets, a \in Addresses :
        req' = [req EXCEPT ![r] = [req[r] EXCEPT !.pc = "lock", !.kind = kind,
                                                 !.sid = s, !.addr = a, !.at = now]]
  BY DEF Edit, TypeInv
<1>. DEFINE q == [req[r] EXCEPT !.pc = "lock", !.kind = kind,
                                !.sid = s, !.addr = a, !.at = now]
<1>4. /\ q \in Locals /\ q.pc = "lock" /\ q.kind = kind /\ q.sid = s /\ q.addr = a
      /\ q.at = now /\ q.answer = req[r].answer
  BY <1>1 DEF Locals, PCs, AllKinds
<1>5. req' = [req EXCEPT ![r] = q] /\ req'[r] = q
  BY <1>3 DEF TypeInv
<1>. HIDE DEF q
<1>6. Moves(r, q) /\ TimesOf(r, q)
  BY <1>1, <1>2, <1>4, <1>5 DEF Moves, TimesOf
<1>7. CommandAt(r)' /\ ReportAt(r)'
  BY <1>1, <1>4, <1>5 DEF CommandAt, IsEdit, ReportAt
<1>. QED  BY <1>2, <1>6, <1>7, SameRecord, MovesIInv

LEMMA Step_LockLoad ==
  ASSUME IInv, NEW r \in Requests, Lock(r) \/ Load(r)
  PROVE  IInv'
<1>. USE DEF IInv, CoreInv
<1>1. /\ req[r] \in Locals /\ CommandAt(r) /\ doc \in Docs /\ Busy(r)
      /\ req[r].pc \in {"lock", "load"}
  BY DEF Lock, Load, At, TypeInv, CommandInv, Busy
<1>2. UNCHANGED <<doc, queue, now, setbacks, transmitted, tries>>
  BY DEF Lock, Load
<1>3. PICK q \in Locals :
        /\ req' = [req EXCEPT ![r] = q]
        /\ q.kind = req[r].kind /\ q.sid = req[r].sid /\ q.snap = req[r].snap
        /\ q.todo = req[r].todo /\ q.addr = req[r].addr /\ q.state = req[r].state
        /\ q.at = req[r].at /\ q.out = req[r].out /\ q.answer = req[r].answer
        /\ \/ req[r].pc = "lock" /\ q.pc = "load" /\ lock = None /\ lock' = r
           \/ req[r].pc = "load" /\ q.pc = "save" /\ lock' = lock /\ q.copy = doc
  <2>1. CASE Lock(r)
    <3>. DEFINE q == [req[r] EXCEPT !.pc = "load"]
    <3>1. req' = [req EXCEPT ![r] = q]
      BY <2>1 DEF Lock, TypeInv
    <3>2. /\ q \in Locals /\ q.pc = "load"
          /\ q.kind = req[r].kind /\ q.sid = req[r].sid /\ q.snap = req[r].snap
          /\ q.todo = req[r].todo /\ q.addr = req[r].addr /\ q.state = req[r].state
          /\ q.at = req[r].at /\ q.out = req[r].out /\ q.answer = req[r].answer
      BY <1>1 DEF Locals, PCs
    <3>3. req[r].pc = "lock" /\ lock = None /\ lock' = r
      BY <2>1 DEF Lock, At
    <3>. HIDE DEF q
    <3>. QED  BY <3>1, <3>2, <3>3
  <2>2. CASE Load(r)
    <3>. DEFINE q == [req[r] EXCEPT !.pc = "save", !.copy = doc]
    <3>1. req' = [req EXCEPT ![r] = q]
      BY <1>1, <2>2 DEF Load, TypeInv, Locals
    <3>2. /\ q \in Locals /\ q.pc = "save" /\ q.copy = doc
          /\ q.kind = req[r].kind /\ q.sid = req[r].sid /\ q.snap = req[r].snap
          /\ q.todo = req[r].todo /\ q.addr = req[r].addr /\ q.state = req[r].state
          /\ q.at = req[r].at /\ q.out = req[r].out /\ q.answer = req[r].answer
      BY <1>1 DEF Locals, PCs
    <3>3. req[r].pc = "load" /\ lock' = lock
      BY <2>2 DEF Load, At
    <3>. HIDE DEF q
    <3>. QED  BY <3>1, <3>2, <3>3
  <2>. QED  BY <2>1, <2>2
<1>4. req'[r] = q
  BY <1>3 DEF TypeInv
<1>5. Moves(r, q) /\ TimesOf(r, q)
  BY <1>1, <1>2, <1>3, SwitchingAssumption DEF Moves, TimesOf, LockInv
<1>6. CommandAt(r)'
  BY <1>1, <1>2, <1>3, <1>4 DEF CommandAt, IsEdit
<1>7. ReportAt(r)'
  <2>1. ReportAt(r) /\ tries' = tries /\ transmitted' = transmitted
    BY <1>2 DEF ReportInv
  <2>. QED  BY <1>1, <1>3, <1>4, <2>1 DEF ReportAt, Busy
<1>. QED  BY <1>2, <1>5, <1>6, <1>7, SameRecord, MovesIInv

(* What Recorded() leaves: the command has gone out, recorded or not.        *)
LEMMA RecordedAt ==
  ASSUME IInv, NEW r \in Requests, req[r].pc \in {"lock", "load", "save"},
         NEW W \in SUBSET Ids(r), NEW q, q = Recorded(r, W),
         req'[r] = q, UNCHANGED <<transmitted, tries>>
  PROVE  /\ q \in Locals /\ q.pc \in {"next", "done"} /\ q.at = 0
         /\ CommandAt(r)' /\ ReportAt(r)'
<1>. USE DEF IInv, CoreInv
<1>1. /\ req[r] \in Locals /\ CommandAt(r) /\ Busy(r) /\ req[r].answer = "none"
  BY DEF TypeInv, CommandInv, CommandAt, Busy
<1>2. CASE req[r].kind # "alloff"
  <2>1. PICK a \in Answers \ {"none", "report"} : q = Finish(r, a)
    BY <1>2, RecordedEnds
  <2>2. q \in Locals /\ q.pc = "done" /\ q.answer = a /\ q.at = 0
    BY <2>1, FinishFields
  <2>. QED  BY <2>2 DEF CommandAt, ReportAt, Busy
<1>3. CASE req[r].kind = "alloff"
  <2>1. /\ q \in Locals
        /\ q.pc = "next" /\ q.kind = "alloff" /\ q.snap = req[r].snap
        /\ q.todo = req[r].todo /\ q.state = req[r].state
        /\ q.at = 0 /\ q.answer = req[r].answer
    BY <1>1, <1>3, RecordedAllOff
  <2>2. DOMAIN q.out = DOMAIN req[r].out \cup Ids(r)
    BY <1>1, <1>3, RecordedAllOff
  <2>3. \A s \in DOMAIN q.out :
          \/ s \in Ids(r) /\ q.out[s] \in {"recorded", "unrecorded"}
          \/ s \in DOMAIN req[r].out /\ q.out[s] = req[r].out[s]
    BY <1>1, <1>3, RecordedAllOff
  <2>4. CommandAt(r)'
    BY <1>1, <2>1 DEF CommandAt, IsEdit
  <2>5. ReportAt(r) /\ tries' = tries /\ transmitted' = transmitted
    BY DEF ReportInv
  <2>6. <<r, req[r].addr, "off">> \in transmitted
    BY <1>1, <1>3, <2>5 DEF ReportAt, CommandAt, IsEdit
  <2>7. \A s \in Ids(r) : s \in DOMAIN q.snap /\ q.snap[s] = req[r].addr
    BY <1>3, <2>1 DEF Ids
  <2>8. /\ DOMAIN q.out \subseteq DOMAIN q.snap
        /\ \A s \in DOMAIN q.snap : s \in DOMAIN q.out <=> q.snap[s] \notin q.todo
    BY <1>1, <1>3, <2>1, <2>2, <2>5 DEF ReportAt, Ids
  <2>9. \A s \in DOMAIN q.out :
          /\ q.out[s] \in {"recorded", "unrecorded"}
               => <<r, q.snap[s], "off">> \in transmitted
          /\ q.out[s] = "skipped" => ~Contains(tries[r], q.snap[s])
    BY <1>1, <1>3, <2>1, <2>3, <2>5, <2>6, <2>7 DEF ReportAt
  <2>10. /\ q.state = "off" /\ IsInjective(tries[r])
         /\ \A a \in q.todo : ~Contains(tries[r], a)
    BY <1>1, <1>3, <2>1, <2>5 DEF ReportAt
  <2>11. ReportAt(r)'
    BY <1>1, <2>1, <2>5, <2>8, <2>9, <2>10 DEF ReportAt, Busy
  <2>. QED  BY <2>1, <2>4, <2>11
<1>. QED  BY <1>2, <1>3

LEMMA Step_StoreFails ==
  ASSUME IInv, NEW r \in Requests, StoreFails(r)
  PROVE  IInv'
<1>. USE DEF IInv, CoreInv
<1>. DEFINE q == Recorded(r, {})
<1>1. req[r].pc \in {"lock", "load"} /\ lock' # r
  BY SwitchingAssumption DEF StoreFails
<1>2. UNCHANGED <<doc, queue, now, setbacks, transmitted, tries>> /\ doc \in Docs
  BY DEF StoreFails, TypeInv
<1>3. req' = [req EXCEPT ![r] = q] /\ req'[r] = q
  BY DEF StoreFails, TypeInv
<1>. HIDE DEF q
<1>4. /\ q \in Locals /\ q.pc \in {"next", "done"} /\ q.at = 0
      /\ CommandAt(r)' /\ ReportAt(r)'
  BY <1>1, <1>2, <1>3, RecordedAt DEF q
<1>5. lock' = lock \/ (lock = r /\ lock' = None)
  BY DEF StoreFails
<1>6. Moves(r, q) /\ TimesOf(r, q)
  BY <1>1, <1>2, <1>3, <1>4, <1>5 DEF Moves, TimesOf
<1>. QED  BY <1>2, <1>4, <1>6, SameRecord, MovesIInv

(* What fn() makes of the document: the sockets that the request is not      *)
(* about stay, a recorded one keeps its address, and an edited one has no    *)
(* last_sent.                                                                *)
Entry(r) == [state |-> req[r].state, at |-> req[r].at, by |-> r]

LEMMA ChangedDoc ==
  ASSUME IInv, NEW r \in Requests, At(r, "save"),
         IsEdit(r) => Present(req[r].copy, req[r].sid)
  PROVE  /\ Changed(r) \in Docs
         /\ \A s \in Sockets :
              \/ Changed(r)[s] = doc[s]
              \/ /\ s \in Ids(r)
                 /\ IsEdit(r)
                 /\ Changed(r)[s] = None \/ Changed(r)[s].last = NoEntry
              \/ /\ s \in ToRecord(r)
                 /\ ~IsEdit(r)
                 /\ Present(doc, s) /\ doc[s].addr = req[r].addr
                 /\ Changed(r)[s] = [addr |-> req[r].addr, last |-> Entry(r)]
<1>. USE DEF IInv, CoreInv
<1>1. /\ req[r] \in Locals /\ CommandAt(r) /\ Busy(r) /\ req[r].copy = doc
      /\ doc \in Docs /\ req[r].addr \in Addresses
  BY DEF At, TypeInv, CommandInv, CommandAt, Busy
<1>2. CASE IsEdit(r)
  <2>1. req[r].sid \in Sockets /\ Ids(r) = {req[r].sid} /\ Present(doc, req[r].sid)
    BY <1>1, <1>2 DEF CommandAt, IsEdit, Ids, At
  <2>2. doc[req[r].sid] \in Stored
    BY <1>1, <2>1 DEF Docs, Present
  <2>3. [addr |-> req[r].addr, last |-> NoEntry] \in Stored
    BY <1>1 DEF Stored
  <2>4. Changed(r) = EditDocument(r, doc)
    BY <1>1, <1>2 DEF Changed
  <2>. QED  BY <1>1, <1>2, <2>1, <2>2, <2>3, <2>4 DEF EditDocument, Docs
<1>3. CASE ~IsEdit(r)
  <2>1. Ids(r) \subseteq Sockets
    BY <1>1, IdsType
  <2>2. Entry(r) \in [state : States, at : 0..MaxTime, by : Requests]
    BY <1>1 DEF Entry, Locals
  <2>3. \A s \in ToRecord(r) :
          /\ s \in Sockets /\ Present(doc, s) /\ doc[s].addr = req[r].addr
          /\ [doc[s] EXCEPT !.last = Entry(r)] = [addr |-> req[r].addr, last |-> Entry(r)]
    BY <1>1, <2>1 DEF ToRecord, Docs, Stored, Present
  <2>4. [addr |-> req[r].addr, last |-> Entry(r)] \in Stored
    BY <1>1, <2>2 DEF Stored
  <2>5. Changed(r) = [s \in Sockets |-> IF s \in ToRecord(r)
                                        THEN [addr |-> req[r].addr, last |-> Entry(r)]
                                        ELSE doc[s]]
    BY <1>1, <1>3, <2>3 DEF Changed, Entry
  <2>. QED  BY <1>1, <1>3, <2>3, <2>4, <2>5 DEF Docs
<1>. QED  BY <1>2, <1>3

LEMMA WrittenIds ==
  ASSUME NEW r \in Requests
  PROVE  Written(r) \subseteq Ids(r)
BY DEF Written, ToRecord, Ids, IsEdit

(* The end of mutate(), with the lock given back.                            *)
LEMMA Step_Mutated ==
  ASSUME IInv, NEW r \in Requests, At(r, "save"),
         IsEdit(r) => Present(req[r].copy, req[r].sid),
         doc' \in {doc, Changed(r)}, lock' = None,
         UNCHANGED <<queue, now, setbacks, transmitted, tries>>,
         NEW W \in SUBSET Ids(r), req' = [req EXCEPT ![r] = Recorded(r, W)]
  PROVE  IInv'
<1>. USE DEF IInv, CoreInv
<1>. DEFINE q == Recorded(r, W)
<1>1. /\ req[r] \in Locals /\ req[r].pc = "save" /\ lock = r /\ lock' # r
      /\ CommandAt(r) /\ doc \in Docs
  BY SwitchingAssumption DEF At, TypeInv, LockInv, CommandInv
<1>2. req' = [req EXCEPT ![r] = q] /\ req'[r] = q
  BY DEF TypeInv
<1>. HIDE DEF q
<1>3. /\ q \in Locals /\ q.pc \in {"next", "done"} /\ q.at = 0
      /\ CommandAt(r)' /\ ReportAt(r)'
  BY <1>1, <1>2, RecordedAt DEF q
<1>4. doc' \in Docs
  BY <1>1, ChangedDoc
<1>5. Moves(r, q)
  BY <1>1, <1>2, <1>3, <1>4 DEF Moves
<1>6. \A s \in Sockets : Present(doc', s) =>
        \/ doc'[s] = doc[s]
        \/ doc'[s].last = NoEntry
        \/ /\ ~IsEdit(r)
           /\ doc'[s] = [addr |-> req[r].addr, last |-> Entry(r)]
  BY ChangedDoc DEF Present
<1>7. TimesOf(r, q)
  <2>1. ASSUME NEW s \in Sockets, Present(doc', s)
        PROVE  \/ doc'[s].last.at \in {0, req[r].at}
               \/ Present(doc, s) /\ doc'[s].last.at = doc[s].last.at
    BY <1>6, <2>1 DEF Present, NoEntry, Entry
  <2>. QED  BY <1>1, <1>3, <2>1 DEF TimesOf
<1>8. RecordedOnlyIfTransmitted'
  <2>. SUFFICES ASSUME NEW s \in Sockets, Present(doc', s), doc'[s].last # NoEntry
                PROVE  <<doc'[s].last.by, doc'[s].addr, doc'[s].last.state>> \in transmitted
    BY DEF RecordedOnlyIfTransmitted
  <2>1. CASE doc'[s] = doc[s]
    BY <2>1 DEF RecordedOnlyIfTransmitted, Present
  <2>2. CASE ~IsEdit(r) /\ doc'[s] = [addr |-> req[r].addr, last |-> Entry(r)]
    <3>1. <<r, req[r].addr, req[r].state>> \in transmitted
      BY <1>1, <2>2 DEF CommandAt
    <3>. QED  BY <2>2, <3>1 DEF Entry
  <2>. QED  BY <1>6, <2>1, <2>2
<1>. QED  BY <1>3, <1>5, <1>7, <1>8, MovesIInv

LEMMA Step_Save ==
  ASSUME IInv, NEW r \in Requests, Save(r) \/ SaveFails(r)
  PROVE  IInv'
<1>1. req[r].copy = doc
  BY DEF IInv, CoreInv, CommandInv, CommandAt, Save, SaveFails, At
<1>2. CASE Save(r)
  BY <1>2, WrittenIds, Step_Mutated DEF Save
<1>3. CASE SaveFails(r)
  <2>1. /\ {} \in SUBSET Ids(r) /\ req' = [req EXCEPT ![r] = Recorded(r, {})]
        /\ At(r, "save") /\ (IsEdit(r) => Present(req[r].copy, req[r].sid))
        /\ lock' = None /\ UNCHANGED <<queue, now, setbacks, transmitted, tries>>
    BY <1>3 DEF SaveFails
  <2>2. doc' \in {doc, Changed(r)}
    BY <1>1, <1>3 DEF SaveFails
  <2>. QED  BY <2>1, <2>2, Step_Mutated
<1>. QED  BY <1>2, <1>3

(* The request ends and leaves the document alone.                           *)
LEMMA Step_NotSaved ==
  ASSUME IInv, NEW r \in Requests, EditGone(r) \/ CleanupFails(r)
  PROVE  IInv'
<1>. USE DEF IInv, CoreInv
<1>1. PICK a \in {"not_found", "internal_error"} :
        req' = [req EXCEPT ![r] = Finish(r, a)]
  BY DEF EditGone, CleanupFails
<1>2. /\ UNCHANGED <<doc, queue, now, setbacks, transmitted, tries>> /\ doc \in Docs
      /\ lock' = None
  BY DEF EditGone, CleanupFails, TypeInv
<1>3. req[r].pc = "save" /\ lock = r /\ lock' # r
  BY <1>2, SwitchingAssumption DEF EditGone, CleanupFails, At, LockInv
<1>. DEFINE q == Finish(r, a)
<1>4. q \in Locals /\ q.pc = "done" /\ q.answer = a /\ q.at = 0
  BY FinishFields DEF Answers
<1>5. req' = [req EXCEPT ![r] = q]
  BY <1>1
<1>. HIDE DEF q
<1>6. Moves(r, q) /\ TimesOf(r, q)
  BY <1>2, <1>3, <1>4, <1>5 DEF Moves, TimesOf
<1>. QED  BY <1>2, <1>4, <1>6, EndedAt, SameRecord, MovesIInv

-----------------------------------------------------------------------------
(* The client and rsswitchd.                                                 *)
LEMMA SameRequest ==
  ASSUME NEW o \in Requests, CommandAt(o), ReportAt(o),
         req'[o] = req[o], tries'[o] = tries[o],
         UNCHANGED doc, transmitted \subseteq transmitted'
  PROVE  CommandAt(o)' /\ ReportAt(o)'
<1>1. CommandAt(o)'
  BY DEF CommandAt, IsEdit
<1>2. ReportAt(o)'
  BY DEF ReportAt, Busy
<1>. QED  BY <1>1, <1>2

LEMMA AppendTries ==
  ASSUME NEW s \in Seq(Addresses), NEW a \in Addresses
  PROVE  /\ Append(s, a) \in Seq(Addresses)
         /\ \A b : Contains(Append(s, a), b) <=> Contains(s, b) \/ b = a
         /\ IsInjective(s) /\ ~Contains(s, a) => IsInjective(Append(s, a))
<1>1. /\ Append(s, a) \in Seq(Addresses) /\ Len(Append(s, a)) = Len(s) + 1
      /\ \A i \in 1..Len(s) : Append(s, a)[i] = s[i]
      /\ Append(s, a)[Len(s) + 1] = a
  OBVIOUS
<1>2. \A i \in 1..(Len(s) + 1) : i \in 1..Len(s) \/ i = Len(s) + 1
  OBVIOUS
<1>3. \A b : Contains(Append(s, a), b) <=> Contains(s, b) \/ b = a
  BY <1>1, <1>2 DEF Contains
<1>4. ASSUME IsInjective(s), ~Contains(s, a)
      PROVE  IsInjective(Append(s, a))
  <2>1. DOMAIN s = 1..Len(s) /\ DOMAIN Append(s, a) = 1..(Len(s) + 1)
    BY <1>1
  <2>. QED  BY <1>1, <1>2, <1>4, <2>1 DEF IsInjective, Contains
<1>. QED  BY <1>1, <1>3, <1>4

LEMMA Step_Connect ==
  ASSUME IInv, NEW r \in Requests, Connect(r)
  PROVE  IInv'
<1>. USE DEF IInv, CoreInv
<1>. DEFINE q == [req[r] EXCEPT !.pc = "wait"]
            c == [by |-> r, addr |-> req[r].addr, state |-> req[r].state, open |-> TRUE]
<1>1. /\ req[r] \in Locals /\ req[r].pc = "send" /\ lock # r /\ CommandAt(r)
      /\ Busy(r) /\ ReportAt(r)
  BY DEF Connect, At, TypeInv, LockInv, CommandInv, ReportInv, Busy
<1>2. req' = [req EXCEPT ![r] = q]
  BY DEF Connect, TypeInv
<1>3. /\ UNCHANGED <<doc, lock, now, setbacks, transmitted>>
      /\ tries' = [tries EXCEPT ![r] = Append(tries[r], req[r].addr)]
      /\ queue' = Append(queue, c)
  BY DEF Connect, TypeInv
<1>4. /\ q \in Locals /\ q.pc = "wait" /\ q.kind = req[r].kind /\ q.sid = req[r].sid
      /\ q.snap = req[r].snap /\ q.todo = req[r].todo /\ q.addr = req[r].addr
      /\ q.state = req[r].state /\ q.at = req[r].at /\ q.out = req[r].out
      /\ q.answer = req[r].answer
  BY <1>1 DEF Locals, PCs
<1>5. c \in Connections
  BY <1>1 DEF Connections, Locals, CommandAt
<1>6. /\ c.by = r /\ c.addr = req[r].addr /\ c.state = req[r].state /\ c.open
  OBVIOUS
<1>. HIDE DEF q, c
<1>7. req'[r] = q /\ \A o \in Requests : o # r => req'[o] = req[o] /\ tries'[o] = tries[o]
  BY <1>2, <1>3 DEF TypeInv
<1>8. req[r].addr \in Addresses /\ tries[r] \in Seq(Addresses)
  BY <1>1 DEF CommandAt, TypeInv
<1>9. TypeInv'
  <2>1. queue' \in Seq(Connections)
    BY <1>3, <1>5 DEF TypeInv
  <2>2. tries' \in [Requests -> Seq(Addresses)]
    BY <1>3, <1>8, AppendTries DEF TypeInv
  <2>3. req' \in [Requests -> Locals]
    BY <1>2, <1>4 DEF TypeInv
  <2>. QED  BY <1>3, <2>1, <2>2, <2>3 DEF TypeInv
<1>10. LockInv'
  BY <1>1, <1>3, <1>4, <1>7 DEF LockInv
<1>11. CommandAt(r)'
  BY <1>1, <1>3, <1>4, <1>7 DEF CommandAt, IsEdit
<1>12. QueueInv'
  <2>1. /\ queue \in Seq(Connections) /\ Len(queue') = Len(queue) + 1
        /\ \A i \in 1..Len(queue) : queue'[i] = queue[i] /\ queue[i] \in Connections
        /\ queue'[Len(queue) + 1] = c
    BY <1>3, <1>5 DEF TypeInv
  <2>2. \A i \in 1..Len(queue) : queue[i].open => queue[i].by # r
    BY <1>1 DEF QueueInv
  <2>3. \A i \in 1..Len(queue') : i \in 1..Len(queue) \/ i = Len(queue) + 1
    BY <2>1
  <2>4. \A i \in 1..Len(queue) : queue[i].by \in Requests
    BY <2>1 DEF Connections
  <2>5. \A i \in 1..Len(queue') : queue'[i].open =>
          /\ req'[queue'[i].by].pc = "wait"
          /\ req'[queue'[i].by].addr = queue'[i].addr
          /\ req'[queue'[i].by].state = queue'[i].state
    BY <1>4, <1>6, <1>7, <2>1, <2>2, <2>3, <2>4 DEF QueueInv
  <2>6. \A i, j \in 1..Len(queue') :
          queue'[i].open /\ queue'[j].open /\ queue'[i].by = queue'[j].by => i = j
    BY <1>6, <2>1, <2>2, <2>3 DEF QueueInv
  <2>. QED  BY <2>5, <2>6 DEF QueueInv
<1>13. ClockInv'
  BY <1>3, <1>4, <1>7 DEF ClockInv
<1>14. ReportAt(r)'
  <2>1. tries'[r] = Append(tries[r], req[r].addr)
    BY <1>3 DEF TypeInv
  <2>2. \A b : Contains(tries'[r], b) <=> Contains(tries[r], b) \/ b = req[r].addr
    BY <1>8, <2>1, AppendTries
  <2>3. CASE req[r].kind = "alloff"
    <3>1. IsInjective(tries'[r])
      BY <1>1, <1>8, <2>1, <2>3, AppendTries DEF ReportAt
    <3>2. \A s \in DOMAIN q.out : q.snap[s] # req[r].addr
      BY <1>1, <1>4, <2>3 DEF ReportAt
    <3>. QED  BY <1>1, <1>3, <1>4, <1>7, <2>2, <2>3, <3>1, <3>2 DEF ReportAt, Busy
  <2>4. CASE req[r].kind # "alloff"
    BY <1>4, <1>7, <2>4 DEF ReportAt
  <2>. QED  BY <2>3, <2>4
<1>15. \A o \in Requests : o # r => CommandAt(o)' /\ ReportAt(o)'
  BY <1>3, <1>7, SameRequest DEF CommandInv, ReportInv
<1>. QED  BY <1>3, <1>9, <1>10, <1>11, <1>12, <1>13, <1>14, <1>15, SameRecord
          DEF CommandInv, ReportInv

LEMMA Step_ReplyTimeout ==
  ASSUME IInv, NEW r \in Requests, ReplyTimeout(r)
  PROVE  IInv'
<1>. USE DEF IInv, CoreInv
<1>. DEFINE q == Failed(r, TRUE)
<1>1. req[r].pc \in {"wait", "reply"} /\ lock # r
  BY DEF ReplyTimeout, LockInv
<1>2. UNCHANGED <<doc, lock, now, setbacks, transmitted, tries>>
  BY DEF ReplyTimeout
<1>3. req' = [req EXCEPT ![r] = q] /\ req'[r] = q
      /\ \A o \in Requests : o # r => req'[o] = req[o]
  BY DEF ReplyTimeout, TypeInv
<1>. HIDE DEF q
<1>4. /\ q \in Locals /\ q.pc \in {"next", "done"} /\ q.at \in {0, req[r].at}
      /\ CommandAt(r)' /\ ReportAt(r)'
  BY <1>1, <1>2, <1>3, FailedAt DEF q
<1>5. queue \in Seq(Connections) /\ DOMAIN queue = 1..Len(queue)
      /\ \A i \in 1..Len(queue) : queue[i] \in Connections
  BY DEF TypeInv
<1>6. queue' = [i \in 1..Len(queue) |-> IF queue[i].by = r
                  THEN [queue[i] EXCEPT !.open = FALSE] ELSE queue[i]]
  BY <1>5 DEF ReplyTimeout
<1>7. queue' \in Seq(Connections) /\ Len(queue') = Len(queue)
  <2>1. \A i \in 1..Len(queue) : [queue[i] EXCEPT !.open = FALSE] \in Connections
    BY <1>5 DEF Connections
  <2>2. Len(queue) \in Nat
    BY <1>5
  <2>3. queue' \in [1..Len(queue) -> Connections]
    BY <1>5, <1>6, <2>1
  <2>. QED  BY <2>2, <2>3
<1>8. \A i \in 1..Len(queue) : queue'[i].open =>
        queue'[i] = queue[i] /\ queue[i].open /\ queue[i].by # r /\ queue[i].by \in Requests
  BY <1>5, <1>6 DEF Connections
<1>9. QueueInv'
  BY <1>3, <1>7, <1>8 DEF QueueInv
<1>10. TypeInv'
  BY <1>2, <1>3, <1>4, <1>7 DEF TypeInv
<1>11. LockInv'
  BY <1>1, <1>2, <1>3, <1>4 DEF LockInv
<1>12. ClockInv'
  <2>1. now \in Nat
    BY SwitchingAssumption DEF TypeInv
  <2>. QED  BY <1>1, <1>2, <1>3, <1>4, <2>1 DEF ClockInv
<1>13. \A o \in Requests : o # r => CommandAt(o)' /\ ReportAt(o)'
  BY <1>2, <1>3, SameRequest DEF CommandInv, ReportInv
<1>. QED  BY <1>2, <1>4, <1>9, <1>10, <1>11, <1>12, <1>13, SameRecord
          DEF CommandInv, ReportInv

(* rsswitchd takes the oldest connection.  If it is open, its client waits   *)
(* for exactly this command, and gets the reply.                             *)
LEMMA Step_Serve ==
  ASSUME IInv, Serve
  PROVE  IInv'
<1>. USE DEF IInv, CoreInv
<1>. DEFINE c == Head(queue)
<1>1. PICK sent \in BOOLEAN, reply \in {"OK", "error"} :
        /\ reply = "OK" => sent
        /\ transmitted' = IF sent THEN transmitted \cup {<<c.by, c.addr, c.state>>}
                                  ELSE transmitted
        /\ req' = IF c.open
                  THEN [req EXCEPT ![c.by].pc = "reply", ![c.by].reply = reply]
                  ELSE req
  BY DEF Serve
<1>2. UNCHANGED <<doc, lock, now, setbacks, tries>> /\ queue' = Tail(queue)
  BY DEF Serve
<1>3. /\ queue \in Seq(Connections) /\ queue # <<>> /\ Len(queue) \in Nat
      /\ c = queue[1] /\ 1 \in 1..Len(queue)
  BY DEF Serve, TypeInv
<1>4. /\ queue' \in Seq(Connections) /\ Len(queue') = Len(queue) - 1
      /\ \A i \in 1..Len(queue') : i + 1 \in 1..Len(queue) /\ queue'[i] = queue[i + 1]
  BY <1>2, <1>3
<1>5. c \in Connections
  BY <1>3
<1>6. c.by \in Requests /\ c.addr \in Addresses /\ c.state \in States
  BY <1>5 DEF Connections
<1>. HIDE DEF c
<1>7. /\ transmitted \subseteq transmitted'
      /\ transmitted' \subseteq Requests \X Addresses \X States
      /\ reply = "OK" => <<c.by, c.addr, c.state>> \in transmitted'
  BY <1>1, <1>6 DEF TypeInv
<1>8. RecordedOnlyIfTransmitted'
  BY <1>2, <1>7, SameRecord
<1>9. CASE ~c.open
  <2>1. req' = req
    BY <1>1, <1>9
  <2>2. TypeInv' /\ LockInv' /\ ClockInv'
    BY <1>2, <1>4, <1>7, <2>1 DEF TypeInv, LockInv, ClockInv
  <2>3. QueueInv'
    <3>1. \A i, j \in 1..Len(queue') : i + 1 = j + 1 => i = j
      OBVIOUS
    <3>2. \A i \in 1..Len(queue') : queue'[i].open =>
            /\ req'[queue'[i].by].pc = "wait"
            /\ req'[queue'[i].by].addr = queue'[i].addr
            /\ req'[queue'[i].by].state = queue'[i].state
      BY <1>4, <2>1 DEF QueueInv
    <3>3. \A i, j \in 1..Len(queue') :
            queue'[i].open /\ queue'[j].open /\ queue'[i].by = queue'[j].by => i = j
      BY <1>4, <3>1, SMTT(20) DEF QueueInv
    <3>. QED  BY <3>2, <3>3 DEF QueueInv
  <2>4. \A o \in Requests : CommandAt(o)' /\ ReportAt(o)'
    BY <1>2, <1>7, <2>1, SameRequest DEF CommandInv, ReportInv
  <2>. QED  BY <1>8, <2>2, <2>3, <2>4 DEF CommandInv, ReportInv
<1>10. CASE c.open
  <2>0. PICK r \in Requests : r = c.by
    BY <1>6
  <2>. DEFINE q == [req[r] EXCEPT !.pc = "reply", !.reply = reply]
  <2>1. req[r] \in Locals
    BY DEF TypeInv
  <2>2. req' = [req EXCEPT ![r] = q]
    BY <1>1, <1>10, <2>0, <2>1 DEF TypeInv, Locals
  <2>3. req[r].pc = "wait" /\ req[r].addr = c.addr /\ req[r].state = c.state
    BY <1>3, <1>10, <2>0 DEF QueueInv
  <2>4. /\ q \in Locals /\ q.pc = "reply" /\ q.kind = req[r].kind /\ q.sid = req[r].sid
        /\ q.snap = req[r].snap /\ q.todo = req[r].todo /\ q.addr = req[r].addr
        /\ q.state = req[r].state /\ q.at = req[r].at /\ q.out = req[r].out
        /\ q.answer = req[r].answer /\ q.reply = reply
    BY <2>1 DEF Locals, PCs
  <2>. HIDE DEF q
  <2>5. req'[r] = q /\ \A o \in Requests : o # r => req'[o] = req[o]
    BY <2>1, <2>2 DEF TypeInv
  <2>6. TypeInv'
    BY <1>2, <1>4, <1>7, <2>2, <2>4 DEF TypeInv
  <2>7. LockInv' /\ ClockInv'
    BY <1>2, <2>1, <2>3, <2>4, <2>5 DEF LockInv, ClockInv
  <2>8. QueueInv'
    <3>1. \A i \in 1..Len(queue') : queue'[i].open => queue'[i].by # r
      BY <1>3, <1>4, <1>10, <2>0 DEF QueueInv
    <3>2. \A i \in 1..Len(queue') : queue'[i] \in Connections
      BY <1>4
    <3>3. \A i \in 1..Len(queue') : queue'[i].open =>
            /\ req'[queue'[i].by].pc = "wait"
            /\ req'[queue'[i].by].addr = queue'[i].addr
            /\ req'[queue'[i].by].state = queue'[i].state
      BY <1>4, <2>5, <3>1, <3>2, SMTT(30) DEF QueueInv, Connections
    <3>4. \A i, j \in 1..Len(queue') :
            queue'[i].open /\ queue'[j].open /\ queue'[i].by = queue'[j].by => i = j
      <4>1. \A i, j \in 1..Len(queue') : i + 1 = j + 1 => i = j
        OBVIOUS
      <4>. QED  BY <1>4, <4>1, SMTT(20) DEF QueueInv
    <3>. QED  BY <3>3, <3>4 DEF QueueInv
  <2>9. CommandAt(r)'
    <3>1. CommandAt(r)
      BY <2>1 DEF CommandInv
    <3>2. reply = "OK" => <<r, req[r].addr, req[r].state>> \in transmitted'
      BY <1>7, <2>0, <2>3
    <3>. QED  BY <2>3, <2>4, <2>5, <3>1, <3>2 DEF CommandAt, IsEdit
  <2>10. ReportAt(r)'
    <3>1. ReportAt(r) /\ Busy(r) /\ tries' = tries
      BY <1>2, <2>1, <2>3 DEF ReportInv, Busy
    <3>. QED  BY <1>7, <2>3, <2>4, <2>5, <3>1 DEF ReportAt, Busy
  <2>11. \A o \in Requests : o # r => CommandAt(o)' /\ ReportAt(o)'
    BY <1>2, <1>7, <2>5, SameRequest DEF CommandInv, ReportInv
  <2>. QED  BY <1>8, <2>6, <2>7, <2>8, <2>9, <2>10, <2>11 DEF CommandInv, ReportInv
<1>. QED  BY <1>9, <1>10

LEMMA Step_Time ==
  ASSUME IInv, Tick \/ SetBack
  PROVE  IInv'
<1>. USE SwitchingAssumption DEF IInv, CoreInv
<1>1. UNCHANGED <<doc, lock, req, queue, transmitted, tries>>
  BY DEF Tick, SetBack
<1>2. TypeInv'
  BY <1>1 DEF TypeInv, Tick, SetBack
<1>3. LockInv' /\ QueueInv'
  BY <1>1 DEF LockInv, QueueInv
<1>4. \A o \in Requests : CommandAt(o)' /\ ReportAt(o)'
  BY <1>1, SameRequest DEF CommandInv, ReportInv
<1>5. /\ now \in Nat /\ now' \in Nat /\ setbacks \in Nat
      /\ \A r \in Requests : req[r].at \in Nat
  BY <1>2 DEF TypeInv, Locals
<1>6. ASSUME NEW s \in Sockets, Present(doc, s)
      PROVE  doc[s].last.at \in Int
  BY <1>6 DEF TypeInv, Docs, Stored, NoEntry, Present
<1>7. ClockInv'
  <2>1. CASE Tick
    BY <1>1, <1>5, <1>6, <2>1 DEF ClockInv, Tick, At, Present
  <2>2. CASE SetBack
    BY <1>1, <1>5, <2>2 DEF ClockInv, SetBack
  <2>. QED  BY <2>1, <2>2
<1>. QED  BY <1>1, <1>2, <1>3, <1>4, <1>7, SameRecord DEF CommandInv, ReportInv

-----------------------------------------------------------------------------
LEMMA NextIInv == IInv /\ [Next]_vars => IInv'
<1>. SUFFICES ASSUME IInv, [Next]_vars PROVE IInv'
  OBVIOUS
<1>1. CASE \E r \in Requests : Step(r)
  BY <1>1, Step_SwitchSocket, Step_NothingSent, Step_AllOff, Step_NextAddress,
     Step_Connect, Step_ConnectFails, Step_ReplyTimeout, Step_TakeReply, Step_Edit,
     Step_LockLoad, Step_StoreFails, Step_Save, Step_NotSaved DEF Step
<1>2. CASE Serve
  BY <1>2, Step_Serve
<1>3. CASE Tick \/ SetBack
  BY <1>3, Step_Time
<1>4. CASE UNCHANGED vars
  <2>1. UNCHANGED <<doc, lock, req, queue, now, setbacks, transmitted, tries>>
    BY <1>4 DEF vars
  <2>2. \A o \in Requests : CommandAt(o)' /\ ReportAt(o)'
    BY <2>1, SameRequest DEF IInv, CoreInv, CommandInv, ReportInv
  <2>3. TypeInv' /\ LockInv' /\ QueueInv'
    BY <2>1 DEF IInv, CoreInv, TypeInv, LockInv, QueueInv
  <2>4. ClockInv'
    BY <2>1 DEF IInv, ClockInv, Present
  <2>. QED  BY <2>1, <2>2, <2>3, <2>4, SameRecord DEF IInv, CoreInv, CommandInv, ReportInv
<1>. QED  BY <1>1, <1>2, <1>3, <1>4 DEF Next

LEMMA SpecIInv == Spec => []IInv
BY InitIInv, NextIInv, PTL DEF Spec

(* The state keeps its shape, and a request is in the critical section of    *)
(* mutate() exactly if it has the lock.                                      *)
THEOREM TypeCorrect == Spec => []TypeOK
<1>1. IInv => TypeOK
  BY DEF IInv, CoreInv, TypeInv, Locals, Docs, LockInv, TypeOK
<1>. QED  BY <1>1, SpecIInv, PTL

(* last_sent is only ever written for a command that rsswitchd has carried   *)
(* out, at the address that is stored with it, however many requests, edits  *)
(* and timeouts cross each other between the OK and the write.               *)
THEOREM OnlyWhatWentOut == Spec => []RecordedOnlyIfTransmitted
<1>1. IInv => RecordedOnlyIfTransmitted
  BY DEF IInv, CoreInv
<1>. QED  BY <1>1, SpecIInv, PTL

(* The report of all_off() is true of what went out and of what was tried,   *)
(* for any number of sockets that share any number of addresses.             *)
THEOREM TrueReport == Spec => []AllOffReportIsTrue
<1>1. IInv => AllOffReportIsTrue
  <2>. SUFFICES ASSUME IInv, NEW r \in Requests,
                       req[r].kind = "alloff", req[r].answer = "report"
                PROVE  /\ DOMAIN req[r].out = DOMAIN req[r].snap
                       /\ \A s \in DOMAIN req[r].snap :
                            /\ req[r].out[s] \in {"recorded", "unrecorded"}
                                 => <<r, req[r].snap[s], "off">> \in transmitted
                            /\ req[r].out[s] = "skipped"
                                 => ~Contains(tries[r], req[r].snap[s])
                       /\ IsInjective(tries[r])
    BY DEF AllOffReportIsTrue
  <2>1. ReportAt(r) /\ req[r].pc = "done"
    BY DEF IInv, CoreInv, ReportInv, CommandInv, CommandAt
  <2>2. ~Busy(r) /\ req[r].todo = {}
    BY <2>1 DEF Busy, ReportAt
  <2>3. DOMAIN req[r].out = DOMAIN req[r].snap
    BY <2>1, <2>2 DEF ReportAt
  <2>. QED  BY <2>1, <2>3 DEF ReportAt
<1>. QED  BY <1>1, SpecIInv, PTL

-----------------------------------------------------------------------------
(* Only the end of mutate() changes the document, and only as fn() says.     *)
LEMMA OnlySaveChanges ==
  ASSUME IInv, [Next]_vars, NEW s \in Sockets, doc'[s] # doc[s]
  PROVE  \E r \in Requests :
           /\ At(r, "save") /\ req'[r].pc # "save"
           /\ IsEdit(r) => Present(req[r].copy, req[r].sid)
           /\ doc' = Changed(r) /\ UNCHANGED setbacks
<1>1. PICK r \in Requests : Save(r) \/ SaveFails(r)
  <2>. SUFFICES ASSUME \A r \in Requests : ~Save(r) /\ ~SaveFails(r) PROVE doc' = doc
    OBVIOUS
  <2>. QED  BY DEF Next, Step, vars, SwitchSocket, AllOff, NoSuchRoom, SnapshotFails,
            NextAddress, Connect, ConnectFails, ReplyTimeout, TakeReply, Edit, Lock,
            StoreFails, Load, EditGone, CleanupFails, Serve, Tick, SetBack
<1>2. At(r, "save") /\ req[r].copy = doc /\ req[r].pc = "save"
  BY <1>1 DEF Save, SaveFails, IInv, CoreInv, CommandInv, CommandAt, At
<1>3. /\ IsEdit(r) => Present(req[r].copy, req[r].sid)
      /\ doc' = Changed(r) /\ UNCHANGED <<setbacks, transmitted, tries>>
  BY <1>1, <1>2 DEF Save, SaveFails
<1>4. PICK W \in SUBSET Ids(r) : req' = [req EXCEPT ![r] = Recorded(r, W)]
  BY <1>1, WrittenIds DEF Save, SaveFails
<1>5. req'[r] = Recorded(r, W)
  BY <1>4 DEF IInv, CoreInv, TypeInv
<1>6. req'[r].pc \in {"next", "done"}
  BY <1>2, <1>3, <1>5, RecordedAt
<1>. QED  BY <1>2, <1>3, <1>6

(* mutate() loses no update: whatever happens between the load and the       *)
(* write, what is stored of a socket changes only by the request that is     *)
(* about this socket.                                                        *)
THEOREM UpdatesAreKept == Spec => NoLostUpdate
<1>1. ASSUME IInv, [Next]_vars, NEW s \in Sockets, doc'[s] # doc[s]
      PROVE  \E r \in Requests : At(r, "save") /\ req'[r].pc # "save" /\ s \in Ids(r)
  <2>1. PICK r \in Requests :
          /\ At(r, "save") /\ req'[r].pc # "save"
          /\ IsEdit(r) => Present(req[r].copy, req[r].sid)
          /\ doc' = Changed(r)
    BY <1>1, OnlySaveChanges
  <2>2. s \in Ids(r)
    BY <1>1, <2>1, ChangedDoc DEF ToRecord
  <2>. QED  BY <2>1, <2>2
<1>2. IInv /\ [Next]_vars =>
        [\A s \in Sockets :
           doc'[s] # doc[s] =>
             \E r \in Requests : At(r, "save") /\ req'[r].pc # "save" /\ s \in Ids(r)]_vars
  BY <1>1
<1>. QED  BY <1>2, SpecIInv, PTL DEF Spec, NoLostUpdate

(* The request that records s found what is stored of it when it got the     *)
(* lock, and waited for the lock for at most LOCK_TIMEOUT.                   *)
LEMMA Overtaking ==
  ASSUME IInv, [Next]_vars, NEW s \in Sockets, setbacks' = 0,
         Present(doc, s), doc'[s] # None, doc[s].last # NoEntry, doc'[s].last # NoEntry
  PROVE  \/ doc'[s].last.at >= doc[s].last.at
         \/ /\ RACE_WINDOW < doc[s].last.at - doc'[s].last.at
            /\ doc[s].last.at - doc'[s].last.at <= LOCK_TIMEOUT
<1>. USE SwitchingAssumption DEF IInv, CoreInv
<1>1. doc[s].last.at \in Nat
  BY DEF TypeInv, Docs, Stored, Present
<1>2. CASE doc'[s] = doc[s]
  BY <1>1, <1>2
<1>3. CASE doc'[s] # doc[s]
  <2>1. PICK r \in Requests :
          /\ At(r, "save") /\ (IsEdit(r) => Present(req[r].copy, req[r].sid))
          /\ doc' = Changed(r) /\ setbacks = 0
    BY <1>3, OnlySaveChanges
  <2>2. s \in ToRecord(r) /\ doc'[s] = [addr |-> req[r].addr, last |-> Entry(r)]
    BY <1>3, <2>1, ChangedDoc
  <2>3. doc'[s].last.at = req[r].at /\ req[r].at \in Nat
    BY <2>2 DEF Entry, TypeInv, Locals
  <2>4. req[r].copy = doc /\ lock = r
    BY <2>1 DEF At, CommandInv, CommandAt, LockInv
  <2>5. LET ahead == doc[s].last.at - req[r].at
        IN  ~(0 < ahead /\ ahead <= RACE_WINDOW)
    BY <2>2, <2>4 DEF ToRecord
  <2>6. doc[s].last.at <= req[r].at + LOCK_TIMEOUT
    BY <2>1, <2>4 DEF ClockInv
  <2>. QED  BY <1>1, <2>3, <2>5, <2>6
<1>. QED  BY <1>2, <1>3

(* record_last_sent() with any timings: an older command takes the place of  *)
(* a newer one only across a gap that RACE_WINDOW does not cover and the     *)
(* wait for the lock allows.                                                 *)
THEOREM OvertakingIsBounded == Spec => OvertakenByAtMostTheLock
<1>1. IInv /\ [Next]_vars =>
        [\A s \in Sockets :
           (/\ setbacks' = 0
            /\ Present(doc, s) /\ doc'[s] # None
            /\ doc[s].addr = doc'[s].addr
            /\ doc[s].last # NoEntry /\ doc'[s].last # NoEntry)
           => \/ doc'[s].last.at >= doc[s].last.at
              \/ LET ahead == doc[s].last.at - doc'[s].last.at
                 IN  RACE_WINDOW < ahead /\ ahead <= LOCK_TIMEOUT]_vars
  BY Overtaking
<1>. QED  BY <1>1, SpecIInv, PTL DEF Spec, OvertakenByAtMostTheLock
=============================================================================
