-------------------------------- MODULE Auth ---------------------------------
(***************************************************************************)
(* The login (rsswitch_web/auth.py): the before_request hook, which the     *)
(* worker threads run at the same time, its cache of accepted headers, the  *)
(* lock that lets one password check run at a time, and the LoginLimiter,   *)
(* whose methods are atomic under its own lock.                             *)
(*                                                                          *)
(* Time is counted in ticks.  Of an entry of the limiter, the age since the *)
(* first failure and the time left of its lock are kept instead of the two  *)
(* points in time, so that time may go on for ever.                         *)
(***************************************************************************)
EXTENDS Integers, Sequences, FiniteSets, SequencesExt

CONSTANTS
  Threads,         \* the worker threads
  Addrs,           \* the addresses of clients
  Right, Wrong,    \* Authorization headers, with the right login or a wrong one
  NoLogin,         \* a request without a usable header
  MAX_FAILURES, FAILURE_WINDOW, LOCKOUT, MAX_TRACKED, CACHE_SIZE,
  None

ASSUME AuthAssumption ==
  /\ {MAX_FAILURES, FAILURE_WINDOW, LOCKOUT, MAX_TRACKED, CACHE_SIZE} \subseteq Nat \ {0}
  /\ Right \cap Wrong = {}
  /\ NoLogin \notin Right \cup Wrong
  /\ None \notin Threads

VARIABLES
  entries,   \* LoginLimiter._entries
  cache,     \* the accepted headers, the newest last
  verifier,  \* the thread that has verify_lock, or None
  thread     \* what each thread is at

authVars == <<entries, cache, verifier, thread>>

Headers == Right \cup Wrong \cup {NoLogin}
Idle    == [pc |-> "idle", addr |-> None, header |-> NoLogin]

(* An entry: failures, age of the first one, time left of the lock, and as   *)
(* history the checks that ended under that lock.                            *)
Unlocked == -1   \* no lock, None in the source

AuthInit ==
  /\ entries = <<>>
  /\ cache = <<>>
  /\ verifier = None
  /\ thread = [t \in Threads |-> Idle]

-----------------------------------------------------------------------------
Tracked == DOMAIN entries
Locked(a) == a \in Tracked /\ entries[a].left > 0

Forget(e, S) == [a \in DOMAIN e \ S |-> e[a]]

(* retry_after() is not 0; it drops a lock that is over.                     *)
LockOver(a) == a \in Tracked /\ entries[a].left = 0

retry_after(a) ==
  entries' = IF LockOver(a) THEN Forget(entries, {a}) ELSE entries

(* _expire()                                                                 *)
Expired(e) ==
  {a \in DOMAIN e : IF e[a].left = Unlocked THEN e[a].age > FAILURE_WINDOW
                                            ELSE e[a].left = 0}

(* Mutant: the oldest entry goes, locked or not.                             *)
EvictOldest(e) ==
  {a \in DOMAIN e : \A b \in DOMAIN e : e[a].age >= e[b].age}

(* _evict(): the addresses of which one is dropped.  Equal times are told    *)
(* apart by the address, which is left open.                                 *)
Evictable(e) ==
  LET unlocked == {a \in DOMAIN e : e[a].left = Unlocked}
  IN  IF unlocked # {}
      THEN {a \in unlocked : \A b \in unlocked : e[a].age >= e[b].age}
      ELSE {a \in DOMAIN e : \A b \in DOMAIN e : e[a].left <= e[b].left}

(* One more failure of an address in e, unless it is locked.  The first      *)
(* failure of a locked address is never looked at again.                     *)
Count(e, a) ==
  IF e[a].left # Unlocked THEN e
  ELSE IF e[a].n + 1 >= MAX_FAILURES
  THEN [e EXCEPT ![a].n = 0, ![a].age = 0, ![a].left = LOCKOUT]
  ELSE [e EXCEPT ![a].n = @ + 1]

WithNew(e, a) ==
  [b \in DOMAIN e \cup {a} |->
     IF b = a THEN [n |-> 0, age |-> 0, left |-> Unlocked, late |-> 0]
     ELSE e[b]]

(* Mutant: room is made one entry too late.                                  *)
FailedOffByOne(a) ==
  LET e == Forget(entries, Expired(entries))
  IN  IF a \in DOMAIN e \/ Cardinality(DOMAIN e) <= MAX_TRACKED
      THEN entries' = Count(IF a \in DOMAIN e THEN e ELSE WithNew(e, a), a)
      ELSE \E b \in Evictable(e) : entries' = Count(WithNew(Forget(e, {b}), a), a)

failed(a) ==
  LET e == Forget(entries, Expired(entries))
  IN  IF a \in DOMAIN e \/ Cardinality(DOMAIN e) < MAX_TRACKED
      THEN entries' = Count(IF a \in DOMAIN e THEN e ELSE WithNew(e, a), a)
      ELSE \E b \in Evictable(e) : entries' = Count(WithNew(Forget(e, {b}), a), a)

succeeded(a) == entries' = Forget(entries, {a})

-----------------------------------------------------------------------------
At(t, pc) == thread[t].pc = pc
Goto(t, pc) == thread' = [thread EXCEPT ![t].pc = pc]

(* The request is refused with 401 or 429; the thread is free again.         *)
Refuse(t) == thread' = [thread EXCEPT ![t] = Idle]
(* The hook lets the request through; its address is no longer needed.       *)
Pass(t) == thread' = [thread EXCEPT ![t].pc = "pass", ![t].addr = None]

(* A request comes in: the first locked_out(), and the look at the header.   *)
(* Before that nothing that is shared is touched.                            *)
Gate(t) ==
  /\ At(t, "idle")
  /\ \E a \in Addrs, h \in Headers :
       /\ retry_after(a)
       /\ thread' = IF Locked(a) \/ h = NoLogin THEN thread
                    ELSE [thread EXCEPT ![t] = [pc |-> "look", addr |-> a, header |-> h]]
  /\ UNCHANGED <<cache, verifier>>

InCache(t) == Contains(cache, thread[t].header)

(* The cache is looked at, under its lock.                                   *)
Look(t) ==
  /\ At(t, "look")
  /\ IF InCache(t) THEN Pass(t) ELSE Goto(t, "verify")
  /\ UNCHANGED <<entries, cache, verifier>>

(* verify_lock is taken, and the cache looked at again.                      *)
Verify(t) ==
  /\ At(t, "verify")
  /\ verifier = None
  /\ IF InCache(t) THEN Pass(t) /\ verifier' = None
                   ELSE Goto(t, "regate") /\ verifier' = t
  /\ UNCHANGED <<entries, cache>>

(* Mutant: requests that waited are not refused.                             *)
RegateLeftOut(t) ==
  /\ At(t, "regate")
  /\ Goto(t, "check")
  /\ UNCHANGED <<entries, cache, verifier>>

(* Mutant: the refusal keeps verify_lock.                                    *)
RegateKeepsLock(t) ==
  /\ At(t, "regate")
  /\ retry_after(thread[t].addr)
  /\ IF Locked(thread[t].addr) THEN Refuse(t) ELSE Goto(t, "check")
  /\ UNCHANGED <<cache, verifier>>

(* The second locked_out(), under verify_lock.                               *)
Regate(t) ==
  /\ At(t, "regate")
  /\ retry_after(thread[t].addr)
  /\ IF Locked(thread[t].addr) THEN Refuse(t) /\ verifier' = None
                               ELSE Goto(t, "check") /\ UNCHANGED verifier
  /\ UNCHANGED <<cache>>

(* The password check ends and verify_lock is given back.  A hash that       *)
(* cannot be checked is like a wrong password.                               *)
Check(t) ==
  /\ At(t, "check")
  /\ verifier' = None
  /\ entries' = IF Locked(thread[t].addr)
                THEN [entries EXCEPT ![thread[t].addr].late = @ + 1] ELSE entries
  /\ \/ thread[t].header \in Right /\ Goto(t, "accept")
     \/ Goto(t, "reject")
  /\ UNCHANGED cache

(* The header is remembered ...                                              *)
Accept(t) ==
  /\ At(t, "accept")
  /\ LET c == IF InCache(t) THEN cache ELSE Append(cache, thread[t].header)
     IN  cache' = IF Len(c) > CACHE_SIZE THEN Tail(c) ELSE c
  /\ Goto(t, "succeed")
  /\ UNCHANGED <<entries, verifier>>

(* ... and the failures of the address forgotten.                            *)
Succeed(t) ==
  /\ At(t, "succeed")
  /\ succeeded(thread[t].addr)
  /\ Pass(t)
  /\ UNCHANGED <<cache, verifier>>

(* Mutant: a wrong header is remembered as well.                             *)
RejectRemembers(t) ==
  /\ At(t, "reject")
  /\ failed(thread[t].addr)
  /\ cache' = <<thread[t].header>>
  /\ Refuse(t)
  /\ UNCHANGED verifier

(* A failed login is counted.                                                *)
Reject(t) ==
  /\ At(t, "reject")
  /\ failed(thread[t].addr)
  /\ Refuse(t)
  /\ UNCHANGED <<cache, verifier>>

(* Time passes.  The age of an entry that is out of its window is as good as *)
(* any other.                                                                *)
Tick ==
  /\ entries' = [a \in Tracked |->
       [entries[a] EXCEPT
          !.age  = IF entries[a].left = Unlocked /\ @ <= FAILURE_WINDOW THEN @ + 1 ELSE @,
          !.left = IF @ > 0 THEN @ - 1 ELSE @]]
  /\ entries' # entries
  /\ UNCHANGED <<cache, verifier, thread>>

(* The rest of the hook.                                                     *)
Hook(t) ==
  \/ Look(t) \/ Verify(t) \/ Regate(t) \/ Check(t)
  \/ Accept(t) \/ Succeed(t) \/ Reject(t)

-----------------------------------------------------------------------------
AuthTypeOK ==
  /\ \A a \in Tracked :
       /\ entries[a].n \in 0..(MAX_FAILURES - 1)
       /\ entries[a].left \in Unlocked..LOCKOUT
       /\ entries[a].left # Unlocked <=> entries[a].n = 0
  /\ \A t \in Threads : At(t, "regate") \/ At(t, "check") <=> verifier = t

(* "clients with many source addresses cannot make it grow without bound":   *)
(* neither the limiter nor the cache, whatever the interleaving.             *)
MemoryBounded ==
  Cardinality(Tracked) <= MAX_TRACKED /\ Len(cache) <= CACHE_SIZE

(* "A request that waited may belong to an address that was locked while it  *)
(* waited": however many requests of an address are in the hook when it is   *)
(* locked, at most one more password is checked for it before the lock ends. *)
AtMostOneLateCheck == \A a \in Tracked : entries[a].late <= 1
=============================================================================
