---------------------------- MODULE ServerProofs -----------------------------
(***************************************************************************)
(* Proofs about Server and its login (Auth) for any number of threads,      *)
(* addresses and headers, any limits, and any configuration file.           *)
(*                                                                          *)
(* The hook is a lock (VerifierInv), a cache that holds right headers only  *)
(* (HeaderInv), and a limiter whose entries stay within their bounds        *)
(* (LimiterInv).  That at most one password is checked late needs to know   *)
(* that nothing was checked late for the address that is being checked      *)
(* (LateInv).                                                               *)
(***************************************************************************)
EXTENDS Server, FiniteSetTheorems, TLAPS

ThreadPCs == {"idle", "look", "verify", "regate", "check", "accept", "succeed",
              "reject", "pass"}
Entry     == [n : 0..(MAX_FAILURES - 1), age : 0..(FAILURE_WINDOW + 1),
              left : Unlocked..LOCKOUT, late : 0..1]

ThreadInv ==
  /\ thread \in [Threads -> [pc : ThreadPCs, addr : Addrs \cup {None}, header : Headers]]
  /\ \A t \in Threads : thread[t].pc \notin {"idle", "pass"} => thread[t].addr \in Addrs
  /\ verifier \in Threads \cup {None}

VerifierInv == \A t \in Threads : At(t, "regate") \/ At(t, "check") <=> verifier = t

(* A table of the limiter that failed() can have left.                       *)
Table(e) ==
  /\ DOMAIN e \subseteq Addrs
  /\ e \in [DOMAIN e -> Entry]
  /\ IsFiniteSet(DOMAIN e)
  /\ Cardinality(DOMAIN e) <= MAX_TRACKED
  /\ \A a \in DOMAIN e : e[a].left # Unlocked <=> e[a].n = 0
  /\ \A a \in DOMAIN e : e[a].left = Unlocked => e[a].late = 0

LimiterInv == Table(entries)

LateInv ==
  \A t \in Threads :
    At(t, "check") /\ thread[t].addr \in Tracked => entries[thread[t].addr].late = 0

HeaderInv ==
  /\ cache \in Seq(Right)
  /\ Len(cache) <= CACHE_SIZE
  /\ \A t \in Threads :
       thread[t].pc \in {"accept", "succeed"} => thread[t].header \in Right
  /\ OnlyTheOwnerGetsIn

(* main() gets to serving through its phases in order, and nothing is served *)
(* in any other.                                                             *)
MainInv ==
  /\ phase # "serving" => \A t \in Threads : thread[t].pc = "idle"
  /\ wanted => login
  /\ login \in BOOLEAN
  /\ phase \in {"announce", "serving"} => handler
  /\ ready => phase \in {"serving", "exited"}
  /\ CleanStopOnceReady

IInv == ThreadInv /\ VerifierInv /\ LimiterInv /\ LateInv /\ HeaderInv /\ MainInv

-----------------------------------------------------------------------------
(* The operations of the limiter.                                            *)
LEMMA ForgetTable ==
  ASSUME NEW e, Table(e), NEW S
  PROVE  /\ Table(Forget(e, S))
         /\ DOMAIN Forget(e, S) = DOMAIN e \ S
         /\ \A a \in DOMAIN e \ S : Forget(e, S)[a] = e[a]
         /\ Cardinality(DOMAIN Forget(e, S)) <= Cardinality(DOMAIN e)
         /\ Cardinality(DOMAIN e) = Cardinality(DOMAIN Forget(e, S)) =>
              DOMAIN Forget(e, S) = DOMAIN e
<1>1. DOMAIN Forget(e, S) = DOMAIN e \ S
  BY DEF Forget
<1>2. \A a \in DOMAIN e \ S : Forget(e, S)[a] = e[a]
  BY DEF Forget
<1>3. /\ IsFiniteSet(DOMAIN e \ S)
      /\ Cardinality(DOMAIN e \ S) <= Cardinality(DOMAIN e)
      /\ Cardinality(DOMAIN e) = Cardinality(DOMAIN e \ S) => DOMAIN e \ S = DOMAIN e
      /\ Cardinality(DOMAIN e) \in Nat /\ Cardinality(DOMAIN e \ S) \in Nat
  <2>1. IsFiniteSet(DOMAIN e) /\ DOMAIN e \ S \in SUBSET DOMAIN e
    BY DEF Table
  <2>. QED  BY <2>1, FS_Subset, FS_CardinalityType
<1>4. Forget(e, S) \in [DOMAIN e \ S -> Entry]
  BY DEF Forget, Table
<1>. QED  BY <1>1, <1>2, <1>3, <1>4, AuthAssumption DEF Table

LEMMA Limits ==
  /\ MAX_FAILURES \in Nat \ {0} /\ LOCKOUT \in Nat \ {0}
  /\ 0 \in 0..(MAX_FAILURES - 1)
  /\ 0 \in 0..(FAILURE_WINDOW + 1)
  /\ LOCKOUT \in Unlocked..LOCKOUT /\ Unlocked \in Unlocked..LOCKOUT
  /\ LOCKOUT # Unlocked
BY AuthAssumption DEF Unlocked

LEMMA CountValue ==
  ASSUME NEW e, e \in [DOMAIN e -> Entry], NEW a \in DOMAIN e, e[a].left = Unlocked
  PROVE  Count(e, a) = [e EXCEPT ![a] =
           IF e[a].n + 1 >= MAX_FAILURES
           THEN [e[a] EXCEPT !.n = 0, !.age = 0, !.left = LOCKOUT]
           ELSE [e[a] EXCEPT !.n = e[a].n + 1]]
<1>1. e[a] \in Entry
  OBVIOUS
<1>2. CASE e[a].n + 1 >= MAX_FAILURES
  BY <1>1, <1>2 DEF Count, Entry
<1>3. CASE ~(e[a].n + 1 >= MAX_FAILURES)
  BY <1>1, <1>3 DEF Count, Entry
<1>. QED  BY <1>2, <1>3

LEMMA CountOld ==
  ASSUME NEW e, Table(e), NEW a \in DOMAIN e
  PROVE  /\ Table(Count(e, a))
         /\ DOMAIN Count(e, a) = DOMAIN e
         /\ \A b \in DOMAIN e : b # a => Count(e, a)[b] = e[b]
         /\ Count(e, a)[a].late = e[a].late
         /\ e[a].left # Unlocked => Count(e, a) = e
<1>. USE AuthAssumption
<1>1. CASE e[a].left # Unlocked
  BY <1>1 DEF Count
<1>2. e[a] \in Entry /\ e \in [DOMAIN e -> Entry]
  BY DEF Table
<1>3. CASE e[a].left = Unlocked /\ e[a].n + 1 >= MAX_FAILURES
  <2>. DEFINE x == [e[a] EXCEPT !.n = 0, !.age = 0, !.left = LOCKOUT]
  <2>1. Count(e, a) = [e EXCEPT ![a] = x]
    BY <1>2, <1>3, CountValue
  <2>2. x \in Entry /\ x.n = 0 /\ x.left = LOCKOUT /\ x.late = e[a].late
    BY <1>2, Limits DEF Entry
  <2>. HIDE DEF x
  <2>3. /\ Count(e, a) \in [DOMAIN e -> Entry] /\ Count(e, a)[a] = x
        /\ \A b \in DOMAIN e : b # a => Count(e, a)[b] = e[b]
    BY <1>2, <2>1, <2>2
  <2>. QED  BY <1>3, <2>2, <2>3 DEF Table, Unlocked
<1>4. CASE e[a].left = Unlocked /\ ~(e[a].n + 1 >= MAX_FAILURES)
  <2>. DEFINE x == [e[a] EXCEPT !.n = e[a].n + 1]
  <2>1. Count(e, a) = [e EXCEPT ![a] = x]
    BY <1>2, <1>4, CountValue
  <2>2. /\ x \in Entry /\ x.n = e[a].n + 1 /\ x.n # 0 /\ x.left = Unlocked
        /\ x.late = e[a].late
    BY <1>2, <1>4 DEF Entry
  <2>. HIDE DEF x
  <2>3. /\ Count(e, a) \in [DOMAIN e -> Entry] /\ Count(e, a)[a] = x
        /\ \A b \in DOMAIN e : b # a => Count(e, a)[b] = e[b]
    BY <1>2, <2>1, <2>2
  <2>. QED  BY <1>4, <2>2, <2>3 DEF Table, Unlocked
<1>. QED  BY <1>1, <1>3, <1>4

LEMMA CountNew ==
  ASSUME NEW e, Table(e), NEW a \in Addrs, a \notin DOMAIN e,
         Cardinality(DOMAIN e) < MAX_TRACKED
  PROVE  /\ Table(Count(WithNew(e, a), a))
         /\ DOMAIN Count(WithNew(e, a), a) = DOMAIN e \cup {a}
         /\ \A b \in DOMAIN e : Count(WithNew(e, a), a)[b] = e[b]
         /\ Count(WithNew(e, a), a)[a].late = 0
<1>. USE AuthAssumption
<1>. DEFINE new == [n |-> 0, age |-> 0, left |-> Unlocked, late |-> 0]
            x   == IF 1 >= MAX_FAILURES
                   THEN [n |-> 0, age |-> 0, left |-> LOCKOUT, late |-> 0]
                   ELSE [n |-> 1, age |-> 0, left |-> Unlocked, late |-> 0]
            f   == [b \in DOMAIN e \cup {a} |-> IF b = a THEN x ELSE e[b]]
<1>1. Count(WithNew(e, a), a) = f
  <2>1. WithNew(e, a) = [b \in DOMAIN e \cup {a} |-> IF b = a THEN new ELSE e[b]]
    BY DEF WithNew
  <2>2. new \in Entry
    BY Limits DEF Entry
  <2>3. /\ WithNew(e, a) \in [DOMAIN e \cup {a} -> Entry] /\ WithNew(e, a)[a] = new
        /\ DOMAIN WithNew(e, a) = DOMAIN e \cup {a}
    BY <2>1, <2>2 DEF Table
  <2>4. new.left = Unlocked /\ new.n + 1 = 1
    OBVIOUS
  <2>5. Count(WithNew(e, a), a) = [WithNew(e, a) EXCEPT ![a] =
          IF 1 >= MAX_FAILURES
          THEN [new EXCEPT !.n = 0, !.age = 0, !.left = LOCKOUT]
          ELSE [new EXCEPT !.n = 1]]
    <3>. DEFINE w == WithNew(e, a)
    <3>1. w \in [DOMAIN w -> Entry] /\ a \in DOMAIN w /\ w[a] = new
      BY <2>3
    <3>. HIDE DEF w, new
    <3>2. Count(w, a) = [w EXCEPT ![a] =
            IF w[a].n + 1 >= MAX_FAILURES
            THEN [w[a] EXCEPT !.n = 0, !.age = 0, !.left = LOCKOUT]
            ELSE [w[a] EXCEPT !.n = w[a].n + 1]]
      BY <2>4, <3>1, CountValue
    <3>. QED  BY <2>4, <3>1, <3>2 DEF w
  <2>6. x = IF 1 >= MAX_FAILURES THEN [new EXCEPT !.n = 0, !.age = 0, !.left = LOCKOUT]
                                 ELSE [new EXCEPT !.n = 1]
    OBVIOUS
  <2>. HIDE DEF new, x
  <2>. QED  BY <2>1, <2>5, <2>6
<1>2. x \in Entry /\ (x.left # Unlocked <=> x.n = 0) /\ x.late = 0
  BY Limits DEF Entry
<1>. HIDE DEF x
<1>3. /\ IsFiniteSet(DOMAIN e \cup {a})
      /\ Cardinality(DOMAIN e \cup {a}) = Cardinality(DOMAIN e) + 1
      /\ Cardinality(DOMAIN e) \in Nat
  BY FS_AddElement, FS_CardinalityType DEF Table
<1>4. /\ f \in [DOMAIN e \cup {a} -> Entry] /\ DOMAIN f = DOMAIN e \cup {a}
      /\ f[a] = x /\ \A b \in DOMAIN e : f[b] = e[b]
  BY <1>2 DEF Table
<1>. HIDE DEF f
<1>5. Table(f)
  BY <1>2, <1>3, <1>4 DEF Table
<1>. QED  BY <1>1, <1>2, <1>4, <1>5

(* failed() keeps the table within its limits; no check is counted late for  *)
(* an address that is new; and a lock goes only if all that is remembered is *)
(* locked: an entry that has expired makes room before anything is evicted.  *)
LEMMA FailedTable ==
  ASSUME Table(entries), NEW a \in Addrs, failed(a)
  PROVE  /\ Table(entries')
         /\ \A b \in DOMAIN entries' :
              \/ entries'[b].late = 0
              \/ b \in Tracked /\ entries'[b].late = entries[b].late
         /\ \A b \in Tracked : Locked(b) =>
              \/ b \in DOMAIN entries' /\ entries'[b].left = entries[b].left
              \/ \A c \in Tracked : Locked(c)
<1>. DEFINE e == Forget(entries, Expired(entries))
<1>1. /\ Table(e) /\ DOMAIN e = Tracked \ Expired(entries)
      /\ \A b \in DOMAIN e : e[b] = entries[b]
      /\ Cardinality(DOMAIN e) <= Cardinality(Tracked)
      /\ Cardinality(Tracked) = Cardinality(DOMAIN e) => DOMAIN e = Tracked
  <2>. DEFINE S == Expired(entries)
  <2>. HIDE DEF S
  <2>1. /\ Table(Forget(entries, S)) /\ DOMAIN Forget(entries, S) = Tracked \ S
        /\ \A b \in Tracked \ S : Forget(entries, S)[b] = entries[b]
        /\ Cardinality(DOMAIN Forget(entries, S)) <= Cardinality(Tracked)
        /\ Cardinality(Tracked) = Cardinality(DOMAIN Forget(entries, S)) =>
             DOMAIN Forget(entries, S) = Tracked
    BY ForgetTable DEF Tracked
  <2>. QED  BY <2>1 DEF S
<1>2. \A b \in Tracked : Locked(b) => b \in DOMAIN e /\ e[b].left # Unlocked
  BY <1>1 DEF Locked, Expired, Tracked, Unlocked
<1>3. CASE a \in DOMAIN e
  <2>1. entries' = Count(e, a)
    BY <1>3 DEF failed
  <2>. HIDE DEF e
  <2>2. /\ Table(Count(e, a)) /\ DOMAIN Count(e, a) = DOMAIN e
        /\ \A b \in DOMAIN e : b # a => Count(e, a)[b] = e[b]
        /\ Count(e, a)[a].late = e[a].late
        /\ e[a].left # Unlocked => Count(e, a) = e
    BY <1>1, <1>3, CountOld
  <2>. QED  BY <1>1, <1>2, <2>1, <2>2
<1>4. CASE a \notin DOMAIN e /\ Cardinality(DOMAIN e) < MAX_TRACKED
  <2>1. entries' = Count(WithNew(e, a), a)
    BY <1>4 DEF failed
  <2>. HIDE DEF e
  <2>2. /\ Table(entries') /\ DOMAIN entries' = DOMAIN e \cup {a}
        /\ \A b \in DOMAIN e : entries'[b] = e[b]
        /\ entries'[a].late = 0
    BY <1>1, <1>4, <2>1, CountNew
  <2>. QED  BY <1>1, <1>2, <2>2
<1>5. CASE a \notin DOMAIN e /\ ~(Cardinality(DOMAIN e) < MAX_TRACKED)
  <2>1. PICK b \in Evictable(e) : entries' = Count(WithNew(Forget(e, {b}), a), a)
    BY <1>5 DEF failed
  <2>. HIDE DEF e
  <2>. DEFINE f == Forget(e, {b})
  <2>2. b \in DOMAIN e
    BY <2>1 DEF Evictable
  <2>3. /\ Cardinality(DOMAIN e) \in Nat /\ Cardinality(Tracked) \in Nat
        /\ Cardinality(DOMAIN e \ {b}) = Cardinality(DOMAIN e) - 1
    BY <1>1, <2>2, FS_CardinalityType, FS_RemoveElement DEF Table, Tracked
  <2>4. /\ Table(f) /\ DOMAIN f = DOMAIN e \ {b} /\ \A c \in DOMAIN f : f[c] = e[c]
    <3>. DEFINE S == {b}
    <3>. HIDE DEF S
    <3>1. /\ Table(Forget(e, S)) /\ DOMAIN Forget(e, S) = DOMAIN e \ S
          /\ \A c \in DOMAIN e \ S : Forget(e, S)[c] = e[c]
      BY <1>1, ForgetTable
    <3>. QED  BY <3>1 DEF S
  <2>. HIDE DEF f
  <2>5. Cardinality(DOMAIN f) < MAX_TRACKED
    BY <1>1, <2>3, <2>4, AuthAssumption DEF Table
  <2>6. /\ Table(entries') /\ DOMAIN entries' = DOMAIN f \cup {a}
        /\ \A c \in DOMAIN f : entries'[c] = f[c]
        /\ entries'[a].late = 0
    BY <1>5, <2>1, <2>4, <2>5, CountNew DEF f
  <2>7. \A c \in DOMAIN entries' :
          \/ entries'[c].late = 0
          \/ c \in Tracked /\ entries'[c].late = entries[c].late
    BY <1>1, <2>4, <2>6
  <2>8. DOMAIN e = Tracked
    BY <1>1, <1>5, <2>3, AuthAssumption DEF Table, Tracked
  <2>9. ASSUME NEW c \in Tracked, Locked(c)
        PROVE  \/ c \in DOMAIN entries' /\ entries'[c].left = entries[c].left
               \/ \A d \in Tracked : Locked(d)
    <3>1. CASE c # b
      BY <1>1, <2>4, <2>6, <2>8, <3>1
    <3>2. CASE c = b
      <4>1. e[b].left # Unlocked
        BY <1>2, <2>9, <3>2
      <4>2. \A d \in DOMAIN e : e[d].left # Unlocked
        BY <2>1, <4>1 DEF Evictable
      <4>3. \A d \in Tracked : entries[d].left # Unlocked /\ d \notin Expired(entries)
        BY <1>1, <2>8, <4>2
      <4>4. \A d \in Tracked : entries[d].left \in Unlocked..LOCKOUT
        BY DEF Table, Entry, Tracked
      <4>5. \A d \in Tracked : entries[d].left > 0
        BY <4>3, <4>4, Limits DEF Expired, Tracked, Unlocked
      <4>. QED  BY <4>5 DEF Locked
    <3>. QED  BY <3>1, <3>2
  <2>. QED  BY <2>6, <2>7, <2>9
<1>. QED  BY <1>3, <1>4, <1>5

(* The other operations: a lock that is over or a success is forgotten, a    *)
(* check is counted late, time passes.                                       *)
LEMMA CheckTable ==
  ASSUME Table(entries), NEW a, Locked(a), entries[a].late = 0,
         entries' = [entries EXCEPT ![a].late = @ + 1]
  PROVE  /\ Table(entries') /\ DOMAIN entries' = Tracked
         /\ \A b \in Tracked : b # a => entries'[b] = entries[b]
         /\ entries'[a].left = entries[a].left
<1>1. a \in DOMAIN entries /\ entries \in [DOMAIN entries -> Entry] /\ entries[a] \in Entry
  BY DEF Locked, Tracked, Table
<1>. DEFINE x == [entries[a] EXCEPT !.late = 1]
<1>2. entries' = [entries EXCEPT ![a] = x]
  BY <1>1 DEF Entry
<1>3. x \in Entry /\ x.left = entries[a].left /\ x.n = entries[a].n
  BY <1>1 DEF Entry
<1>. HIDE DEF x
<1>4. /\ entries' \in [DOMAIN entries -> Entry] /\ DOMAIN entries' = DOMAIN entries
      /\ entries'[a] = x
      /\ \A b \in DOMAIN entries : b # a => entries'[b] = entries[b]
  BY <1>1, <1>2, <1>3
<1>5. entries[a].left # Unlocked
  BY DEF Locked, Unlocked
<1>. QED  BY <1>1, <1>3, <1>4, <1>5 DEF Table, Tracked

LEMMA TickTable ==
  ASSUME Table(entries), Tick
  PROVE  /\ Table(entries') /\ DOMAIN entries' = Tracked
         /\ \A a \in Tracked : /\ entries'[a].late = entries[a].late
                               /\ entries[a].left > 1 => entries'[a].left > 0
<1>. DEFINE Older(x) ==
       [x EXCEPT !.age  = IF x.left = Unlocked /\ @ <= FAILURE_WINDOW THEN @ + 1 ELSE @,
                 !.left = IF @ > 0 THEN @ - 1 ELSE @]
<1>1. entries' = [a \in Tracked |-> Older(entries[a])]
  BY DEF Tick
<1>2. ASSUME NEW x \in Entry
      PROVE  /\ Older(x) \in Entry /\ Older(x).n = x.n /\ Older(x).late = x.late
             /\ Older(x).left = Unlocked <=> x.left = Unlocked
             /\ x.left > 1 => Older(x).left > 0
  <2>1. /\ x.left \in Int /\ Unlocked <= x.left /\ x.left <= LOCKOUT
        /\ x.age \in Int /\ 0 <= x.age /\ x.age <= FAILURE_WINDOW + 1
        /\ FAILURE_WINDOW \in Nat /\ LOCKOUT \in Nat
    BY AuthAssumption DEF Entry, Unlocked
  <2>. DEFINE age  == IF x.left = Unlocked /\ x.age <= FAILURE_WINDOW THEN x.age + 1 ELSE x.age
              left == IF x.left > 0 THEN x.left - 1 ELSE x.left
  <2>2. Older(x) = [x EXCEPT !.age = age, !.left = left]
    BY DEF Entry
  <2>3. /\ age \in 0..(FAILURE_WINDOW + 1) /\ left \in Unlocked..LOCKOUT
        /\ left = Unlocked <=> x.left = Unlocked
        /\ x.left > 1 => left > 0
    BY <2>1 DEF Unlocked
  <2>. HIDE DEF age, left, Older
  <2>4. /\ Older(x) \in Entry /\ Older(x).n = x.n /\ Older(x).late = x.late
        /\ Older(x).left = left
    BY <2>2, <2>3 DEF Entry
  <2>. QED  BY <2>3, <2>4
<1>. HIDE DEF Older
<1>3. entries \in [Tracked -> Entry]
  BY DEF Table, Tracked
<1>4. /\ entries' \in [Tracked -> Entry] /\ DOMAIN entries' = Tracked
      /\ \A a \in Tracked : entries'[a] = Older(entries[a])
  BY <1>1, <1>2, <1>3
<1>. QED  BY <1>2, <1>3, <1>4 DEF Table, Tracked

(* No check is counted as late, in an entry that stays.                      *)
LateKept ==
  \A b \in DOMAIN entries' :
    entries'[b].late = 0 \/ (b \in Tracked /\ entries'[b].late = entries[b].late)

LEMMA ForgetEntries ==
  ASSUME Table(entries), NEW S, entries' = Forget(entries, S)
  PROVE  Table(entries') /\ LateKept /\ DOMAIN entries' = Tracked \ S
         /\ \A b \in DOMAIN entries' : entries'[b] = entries[b]
BY ForgetTable DEF LateKept, Tracked

(* retry_after(a): if a is not locked, what is left of it has no lock.       *)
LEMMA RetryTable ==
  ASSUME Table(entries), NEW a, retry_after(a)
  PROVE  /\ Table(entries') /\ LateKept
         /\ ~Locked(a) /\ a \in DOMAIN entries' => entries'[a].late = 0
         /\ \A b \in Tracked : Locked(b) => b \in DOMAIN entries' /\ entries'[b] = entries[b]
<1>1. CASE LockOver(a)
  <2>1. entries' = Forget(entries, {a})
    BY <1>1 DEF retry_after
  <2>2. /\ Table(entries') /\ LateKept /\ DOMAIN entries' = Tracked \ {a}
        /\ \A b \in DOMAIN entries' : entries'[b] = entries[b]
    BY <2>1, ForgetEntries
  <2>. QED  BY <1>1, <2>2 DEF LockOver, Locked
<1>2. CASE ~LockOver(a)
  <2>1. entries' = entries
    BY <1>2 DEF retry_after
  <2>2. ~Locked(a) /\ a \in Tracked => entries[a].left = Unlocked
    <3>. SUFFICES ASSUME ~Locked(a), a \in Tracked PROVE entries[a].left = Unlocked
      OBVIOUS
    <3>1. entries[a].left \in Unlocked..LOCKOUT
      BY DEF Table, Entry, Tracked
    <3>. QED  BY <1>2, <3>1, Limits DEF LockOver, Locked, Unlocked
  <2>. QED  BY <2>1, <2>2 DEF Table, LateKept, Tracked
<1>. QED  BY <1>1, <1>2

-----------------------------------------------------------------------------
(* The threads.                                                              *)
ThreadType == [Threads -> [pc : ThreadPCs, addr : Addrs \cup {None}, header : Headers]]

Others(t) == \A o \in Threads : o # t => thread'[o] = thread[o]

LEMMA GotoFields ==
  ASSUME ThreadInv, NEW t \in Threads, NEW pc \in ThreadPCs, Goto(t, pc)
  PROVE  /\ thread' \in ThreadType /\ Others(t)
         /\ thread'[t].pc = pc /\ thread'[t].addr = thread[t].addr
         /\ thread'[t].header = thread[t].header
BY DEF ThreadInv, ThreadType, Others, Goto

LEMMA PassFields ==
  ASSUME ThreadInv, NEW t \in Threads, Pass(t)
  PROVE  /\ thread' \in ThreadType /\ Others(t)
         /\ thread'[t].pc = "pass" /\ thread'[t].header = thread[t].header
BY DEF ThreadInv, ThreadType, Others, Pass, ThreadPCs

LEMMA RefuseFields ==
  ASSUME ThreadInv, NEW t \in Threads, thread' = [thread EXCEPT ![t] = Idle]
  PROVE  /\ thread' \in ThreadType /\ Others(t)
         /\ thread'[t].pc = "idle"
BY DEF ThreadInv, ThreadType, Others, Idle, ThreadPCs, Headers

(* So much is to be shown of a step of a thread.                             *)
LEMMA ThreadStep ==
  ASSUME IInv, NEW t \in Threads, phase = "serving", UNCHANGED mainVars,
         thread' \in ThreadType, Others(t),
         thread'[t].pc \notin {"idle", "pass"} => thread'[t].addr \in Addrs,
         \/ verifier' = verifier
         \/ verifier = None /\ verifier' = t
         \/ verifier = t /\ verifier' = None,
         thread'[t].pc \in {"regate", "check"} <=> verifier' = t,
         Table(entries'),
         LateKept \/ (verifier = t /\ verifier' = None),
         At(t, "check")' /\ thread'[t].addr \in DOMAIN entries'
           => entries'[thread'[t].addr].late = 0,
         cache' \in Seq(Right), Len(cache') <= CACHE_SIZE,
         thread'[t].pc \in {"accept", "succeed"} => thread'[t].header \in Right,
         login /\ thread'[t].pc = "pass" => thread'[t].header \in Right
  PROVE  IInv'
<1>. USE AuthAssumption DEF IInv
<1>1. ThreadInv'
  BY DEF ThreadInv, ThreadType, Others
<1>2. VerifierInv'
  BY DEF VerifierInv, ThreadInv, Others, At
<1>3. LimiterInv'
  BY DEF LimiterInv
<1>4. LateInv'
  <2>. SUFFICES ASSUME NEW o \in Threads, o # t, thread'[o].pc = "check",
                       thread'[o].addr \in DOMAIN entries'
                PROVE  entries'[thread'[o].addr].late = 0
    BY DEF LateInv, At, Tracked
  <2>1. thread'[o] = thread[o] /\ verifier = o /\ verifier # None
    BY DEF Others, VerifierInv, At
  <2>2. LateKept
    BY <2>1
  <2>. QED  BY <2>1, <2>2 DEF LateKept, LateInv, At
<1>5. HeaderInv'
  BY DEF HeaderInv, OnlyTheOwnerGetsIn, At, Others, mainVars
<1>6. MainInv'
  BY DEF MainInv, mainVars, CleanStopOnceReady
<1>. QED  BY <1>1, <1>2, <1>3, <1>4, <1>5, <1>6

LEMMA Step_Request ==
  ASSUME IInv, NEW t \in Threads, Request(t)
  PROVE  IInv'
<1>. USE AuthAssumption DEF IInv
<1>1. /\ phase = "serving" /\ UNCHANGED <<mainVars, cache, verifier>>
      /\ thread[t].pc = "idle" /\ verifier # t
      /\ cache \in Seq(Right) /\ Len(cache) <= CACHE_SIZE /\ login \in BOOLEAN
  BY DEF Request, Gate, At, VerifierInv, HeaderInv, MainInv
<1>2. CASE ~login
  <2>1. Goto(t, "pass") /\ UNCHANGED entries
    BY <1>2 DEF Request
  <2>2. thread' \in ThreadType /\ Others(t) /\ thread'[t].pc = "pass"
    BY <2>1, GotoFields DEF ThreadPCs
  <2>3. Table(entries') /\ LateKept
    BY <2>1 DEF LimiterInv, Table, LateKept, Tracked
  <2>. QED  BY <1>1, <1>2, <2>2, <2>3, ThreadStep DEF At
<1>3. CASE login
  <2>1. PICK a \in Addrs, h \in Headers :
          /\ retry_after(a)
          /\ thread' = IF Locked(a) \/ h = NoLogin THEN thread
                       ELSE [thread EXCEPT ![t] = [pc |-> "look", addr |-> a, header |-> h]]
    BY <1>3 DEF Request, Gate
  <2>2. Table(entries') /\ LateKept
    BY <2>1, RetryTable DEF LimiterInv
  <2>3. thread' \in ThreadType /\ Others(t)
    BY <2>1 DEF ThreadInv, ThreadType, Others, ThreadPCs
  <2>4. /\ thread'[t].pc \in {"idle", "look"}
        /\ thread'[t].pc = "look" => thread'[t].addr \in Addrs
    BY <1>1, <2>1 DEF ThreadInv
  <2>. QED  BY <1>1, <2>2, <2>3, <2>4, ThreadStep DEF At
<1>. QED  BY <1>1, <1>2, <1>3

(* A header that is in the cache is a right one.                             *)
LEMMA CachedIsRight ==
  ASSUME IInv, NEW t \in Threads, InCache(t)
  PROVE  thread[t].header \in Right
BY DEF IInv, HeaderInv, InCache, Contains

LEMMA Step_LookVerify ==
  ASSUME IInv, NEW t \in Threads, phase = "serving", UNCHANGED mainVars,
         Look(t) \/ Verify(t)
  PROVE  IInv'
<1>. USE AuthAssumption DEF IInv
<1>1. /\ UNCHANGED <<entries, cache>> /\ thread[t].pc \in {"look", "verify"} /\ verifier # t
      /\ cache \in Seq(Right) /\ Len(cache) <= CACHE_SIZE /\ thread[t].addr \in Addrs
  BY DEF Look, Verify, At, VerifierInv, HeaderInv, ThreadInv
<1>2. Table(entries') /\ LateKept
  BY <1>1 DEF LimiterInv, Table, LateKept, Tracked
<1>3. CASE InCache(t)
  <2>1. Pass(t) /\ verifier' = verifier
    BY <1>3 DEF Look, Verify
  <2>2. /\ thread' \in ThreadType /\ Others(t)
        /\ thread'[t].pc = "pass" /\ thread'[t].header \in Right
    BY <1>3, <2>1, PassFields, CachedIsRight
  <2>. QED  BY <1>1, <1>2, <2>1, <2>2, ThreadStep DEF At
<1>4. CASE ~InCache(t)
  <2>1. PICK pc \in {"verify", "regate"} :
          /\ Goto(t, pc)
          /\ \/ pc = "verify" /\ verifier' = verifier
             \/ pc = "regate" /\ verifier = None /\ verifier' = t
    BY <1>4 DEF Look, Verify
  <2>2. /\ thread' \in ThreadType /\ Others(t)
        /\ thread'[t].pc = pc /\ thread'[t].addr = thread[t].addr
    BY <2>1, GotoFields DEF ThreadPCs
  <2>. QED  BY <1>1, <1>2, <2>1, <2>2, ThreadStep DEF At
<1>. QED  BY <1>3, <1>4

(* After the second look, nothing was checked late for the address.          *)
LEMMA Step_Regate ==
  ASSUME IInv, NEW t \in Threads, phase = "serving", UNCHANGED mainVars, Regate(t)
  PROVE  IInv'
<1>. USE AuthAssumption DEF IInv
<1>. DEFINE a == thread[t].addr
<1>1. /\ cache' = cache /\ thread[t].pc = "regate" /\ verifier = t
      /\ cache \in Seq(Right) /\ Len(cache) <= CACHE_SIZE /\ thread[t].addr \in Addrs
      /\ retry_after(thread[t].addr)
  BY DEF Regate, At, VerifierInv, HeaderInv, ThreadInv
<1>2. /\ Table(entries') /\ LateKept
      /\ ~Locked(thread[t].addr) /\ thread[t].addr \in DOMAIN entries'
           => entries'[thread[t].addr].late = 0
  BY <1>1, RetryTable DEF LimiterInv
<1>3. CASE Locked(thread[t].addr)
  <2>1. thread' = [thread EXCEPT ![t] = Idle] /\ verifier' = None
    BY <1>3 DEF Regate, Refuse
  <2>2. thread' \in ThreadType /\ Others(t) /\ thread'[t].pc = "idle"
    BY <2>1, RefuseFields
  <2>. QED  BY <1>1, <1>2, <2>1, <2>2, ThreadStep DEF At
<1>4. CASE ~Locked(thread[t].addr)
  <2>1. Goto(t, "check") /\ verifier' = verifier
    BY <1>4 DEF Regate
  <2>2. /\ thread' \in ThreadType /\ Others(t)
        /\ thread'[t].pc = "check" /\ thread'[t].addr = thread[t].addr
    BY <2>1, GotoFields DEF ThreadPCs
  <2>. QED  BY <1>1, <1>2, <1>4, <2>1, <2>2, ThreadStep DEF At
<1>. QED  BY <1>3, <1>4

LEMMA Step_Check ==
  ASSUME IInv, NEW t \in Threads, phase = "serving", UNCHANGED mainVars, Check(t)
  PROVE  IInv'
<1>. USE AuthAssumption DEF IInv
<1>1. /\ cache' = cache /\ thread[t].pc = "check" /\ verifier = t /\ verifier' = None
      /\ cache \in Seq(Right) /\ Len(cache) <= CACHE_SIZE /\ thread[t].addr \in Addrs
  BY DEF Check, At, VerifierInv, HeaderInv, ThreadInv
<1>2. Table(entries')
  <2>1. CASE Locked(thread[t].addr)
    <3>1. entries[thread[t].addr].late = 0
      BY <1>1, <2>1 DEF LateInv, At, Locked
    <3>2. entries' = [entries EXCEPT ![thread[t].addr].late = @ + 1]
      BY <2>1 DEF Check
    <3>. QED  BY <2>1, <3>1, <3>2, CheckTable DEF LimiterInv
  <2>2. CASE ~Locked(thread[t].addr)
    BY <2>2 DEF Check, LimiterInv, Table
  <2>. QED  BY <2>1, <2>2
<1>3. PICK pc \in {"accept", "reject"} :
        Goto(t, pc) /\ (pc = "accept" => thread[t].header \in Right)
  BY DEF Check
<1>4. /\ thread' \in ThreadType /\ Others(t)
      /\ thread'[t].pc = pc /\ thread'[t].addr = thread[t].addr
      /\ thread'[t].header = thread[t].header
  BY <1>3, GotoFields DEF ThreadPCs
<1>. QED  BY <1>1, <1>2, <1>3, <1>4, ThreadStep DEF At

LEMMA Step_Accept ==
  ASSUME IInv, NEW t \in Threads, phase = "serving", UNCHANGED mainVars, Accept(t)
  PROVE  IInv'
<1>. USE AuthAssumption DEF IInv
<1>1. /\ UNCHANGED <<entries, verifier>> /\ thread[t].pc = "accept" /\ verifier # t
      /\ cache \in Seq(Right) /\ Len(cache) <= CACHE_SIZE /\ thread[t].addr \in Addrs
      /\ thread[t].header \in Right
  BY DEF Accept, At, VerifierInv, HeaderInv, ThreadInv
<1>2. Table(entries') /\ LateKept
  BY <1>1 DEF LimiterInv, Table, LateKept, Tracked
<1>3. /\ thread' \in ThreadType /\ Others(t)
      /\ thread'[t].pc = "succeed" /\ thread'[t].addr = thread[t].addr
      /\ thread'[t].header = thread[t].header
  BY GotoFields DEF Accept, ThreadPCs
<1>4. cache' \in Seq(Right) /\ Len(cache') <= CACHE_SIZE
  <2>. DEFINE c == IF InCache(t) THEN cache ELSE Append(cache, thread[t].header)
  <2>1. c \in Seq(Right) /\ Len(c) \in Nat /\ Len(c) <= CACHE_SIZE + 1
    BY <1>1
  <2>2. cache' = IF Len(c) > CACHE_SIZE THEN Tail(c) ELSE c
    BY DEF Accept
  <2>. HIDE DEF c
  <2>3. CASE Len(c) > CACHE_SIZE
    <3>1. c # <<>> /\ Tail(c) \in Seq(Right) /\ Len(Tail(c)) = Len(c) - 1
      BY <2>1, <2>3
    <3>. QED  BY <2>1, <2>2, <2>3, <3>1
  <2>4. CASE ~(Len(c) > CACHE_SIZE)
    BY <2>1, <2>2, <2>4
  <2>. QED  BY <2>3, <2>4
<1>. QED  BY <1>1, <1>2, <1>3, <1>4, ThreadStep DEF At

LEMMA Step_SucceedReject ==
  ASSUME IInv, NEW t \in Threads, phase = "serving", UNCHANGED mainVars,
         Succeed(t) \/ Reject(t)
  PROVE  IInv'
<1>. USE AuthAssumption DEF IInv
<1>1. /\ UNCHANGED <<cache, verifier>> /\ thread[t].pc \in {"succeed", "reject"}
      /\ verifier # t /\ thread[t].addr \in Addrs
      /\ cache \in Seq(Right) /\ Len(cache) <= CACHE_SIZE
  BY DEF Succeed, Reject, At, VerifierInv, HeaderInv, ThreadInv
<1>2. CASE Succeed(t)
  <2>1. Table(entries') /\ LateKept
    BY <1>2, ForgetEntries DEF Succeed, succeeded, LimiterInv
  <2>2. /\ thread' \in ThreadType /\ Others(t)
        /\ thread'[t].pc = "pass" /\ thread'[t].header = thread[t].header
    BY <1>2, PassFields DEF Succeed
  <2>3. thread[t].header \in Right
    BY <1>2 DEF Succeed, At, HeaderInv
  <2>. QED  BY <1>1, <2>1, <2>2, <2>3, ThreadStep DEF At
<1>3. CASE Reject(t)
  <2>1. Table(entries') /\ LateKept
    BY <1>1, <1>3, FailedTable DEF Reject, LimiterInv, LateKept
  <2>2. thread' \in ThreadType /\ Others(t) /\ thread'[t].pc = "idle"
    BY <1>3, RefuseFields DEF Reject, Refuse
  <2>. QED  BY <1>1, <2>1, <2>2, ThreadStep DEF At
<1>. QED  BY <1>2, <1>3

LEMMA Step_Dispatch ==
  ASSUME IInv, NEW t \in Threads, Dispatch(t)
  PROVE  IInv'
<1>. USE AuthAssumption DEF IInv
<1>1. /\ UNCHANGED <<mainVars, entries, cache, verifier>> /\ thread[t].pc = "pass"
      /\ verifier # t /\ phase = "serving"
      /\ cache \in Seq(Right) /\ Len(cache) <= CACHE_SIZE
  BY DEF Dispatch, At, VerifierInv, HeaderInv
<1>2. Table(entries') /\ LateKept
  BY <1>1 DEF LimiterInv, Table, LateKept, Tracked
<1>3. thread' \in ThreadType /\ Others(t) /\ thread'[t].pc = "idle"
  BY RefuseFields DEF Dispatch
<1>. QED  BY <1>1, <1>2, <1>3, ThreadStep DEF At

LEMMA Step_TimePasses ==
  ASSUME IInv, TimePasses
  PROVE  IInv'
<1>. USE DEF IInv
<1>1. UNCHANGED <<mainVars, cache, verifier, thread>> /\ Tick
  BY DEF TimePasses, Tick
<1>2. Table(entries') /\ DOMAIN entries' = Tracked
      /\ \A a \in Tracked : entries'[a].late = entries[a].late
  BY <1>1, TickTable DEF LimiterInv
<1>3. ThreadInv' /\ VerifierInv' /\ HeaderInv'
  BY <1>1 DEF ThreadInv, VerifierInv, HeaderInv, OnlyTheOwnerGetsIn, At, mainVars
<1>4. LateInv' /\ LimiterInv'
  BY <1>1, <1>2 DEF LateInv, LimiterInv, At, Tracked
<1>5. MainInv'
  BY <1>1 DEF MainInv, CleanStopOnceReady, mainVars
<1>. QED  BY <1>3, <1>4, <1>5

-----------------------------------------------------------------------------
(* main().                                                                   *)
LEMMA EmptyTable ==
  /\ Table(<<>>) /\ DOMAIN <<>> = {}
  /\ <<>> \in Seq(Right) /\ Len(<<>>) <= CACHE_SIZE
<1>1. DOMAIN <<>> = {} /\ <<>> \in [{} -> Entry]
  OBVIOUS
<1>2. IsFiniteSet({}) /\ Cardinality({}) = 0
  BY FS_EmptySet
<1>3. Table(<<>>)
  <2>1. DOMAIN <<>> \subseteq Addrs /\ IsFiniteSet(DOMAIN <<>>)
        /\ Cardinality(DOMAIN <<>>) <= MAX_TRACKED
    BY <1>1, <1>2, AuthAssumption
  <2>. QED  BY <1>1, <2>1 DEF Table
<1>. QED  BY <1>1, <1>3, AuthAssumption

LEMMA AllIdle ==
  ASSUME entries = <<>>, cache = <<>>, verifier = None,
         thread = [t \in Threads |-> Idle]
  PROVE  /\ ThreadInv /\ VerifierInv /\ LimiterInv /\ LateInv /\ HeaderInv
         /\ \A t \in Threads : thread[t].pc = "idle"
<1>. USE AuthAssumption
<1>1. \A t \in Threads : thread[t] = Idle /\ Idle.pc = "idle"
  BY DEF Idle
<1>2. ThreadInv
  BY DEF ThreadInv, Idle, ThreadPCs, Headers
<1>3. VerifierInv /\ LateInv
  BY <1>1 DEF VerifierInv, LateInv, At
<1>4. LimiterInv
  BY EmptyTable DEF LimiterInv
<1>5. HeaderInv
  BY <1>1, EmptyTable DEF HeaderInv, OnlyTheOwnerGetsIn, At
<1>. QED  BY <1>1, <1>2, <1>3, <1>4, <1>5

LEMMA InitIInv == Init => IInv
<1>. SUFFICES ASSUME Init PROVE IInv
  OBVIOUS
<1>1. /\ ThreadInv /\ VerifierInv /\ LimiterInv /\ LateInv /\ HeaderInv
      /\ \A t \in Threads : thread[t].pc = "idle"
  BY AllIdle DEF Init, AuthInit
<1>2. MainInv
  BY <1>1 DEF Init, MainInv, CleanStopOnceReady
<1>. QED  BY <1>1, <1>2 DEF IInv

(* The process ends; if it was ready, by a signal.                           *)
LEMMA Step_Exit ==
  ASSUME IInv, NEW s, Exit(s), ready => s = "0"
  PROVE  IInv'
<1>1. /\ entries' = <<>> /\ cache' = <<>> /\ verifier' = None
      /\ thread' = [t \in Threads |-> Idle]
      /\ phase' = "exited" /\ status' = s /\ UNCHANGED <<login, wanted, handler, ready>>
  BY DEF Exit
<1>2. /\ ThreadInv' /\ VerifierInv' /\ LimiterInv' /\ LateInv' /\ HeaderInv'
      /\ \A t \in Threads : thread'[t].pc = "idle"
  <2>1. \A t \in Threads : thread'[t] = Idle /\ Idle.pc = "idle"
    BY <1>1 DEF Idle
  <2>2. ThreadInv'
    BY <1>1 DEF ThreadInv, Idle, ThreadPCs, Headers
  <2>3. VerifierInv' /\ LateInv'
    BY <1>1, <2>1, AuthAssumption DEF VerifierInv, LateInv, At
  <2>4. LimiterInv'
    BY <1>1, EmptyTable DEF LimiterInv
  <2>5. HeaderInv'
    BY <1>1, <2>1, EmptyTable DEF HeaderInv, OnlyTheOwnerGetsIn, At
  <2>. QED  BY <2>1, <2>2, <2>3, <2>4, <2>5
<1>3. MainInv'
  BY <1>1, <1>2 DEF IInv, MainInv, CleanStopOnceReady
<1>. QED  BY <1>2, <1>3 DEF IInv

LEMMA Step_Exits ==
  ASSUME IInv,
         \/ StartFails \/ LoadFails \/ PrepareFails \/ Interrupt \/ Terminate
         \/ HashPassword
  PROVE  IInv'
<1>1. ASSUME phase \in {"start", "load", "store", "listen", "create"}
      PROVE  ~ready
  BY <1>1 DEF IInv, MainInv
<1>2. CASE StartFails \/ LoadFails \/ PrepareFails \/ HashPassword
  BY <1>1, <1>2, Step_Exit DEF StartFails, LoadFails, PrepareFails, HashPassword
<1>3. CASE Interrupt \/ Terminate
  <2>1. ready => Guarded /\ handler
    BY <1>3 DEF IInv, MainInv, Interrupt, Terminate, Running, Guarded
  <2>. QED  BY <1>3, <2>1, Step_Exit DEF Interrupt, Terminate
<1>. QED  BY <1>2, <1>3

(* resolve_config() accepts no file that asks for a login in any way and     *)
(* gets none.                                                                *)
LEMMA WishedIsResolved ==
  ASSUME NEW f, resolve_config(f.keys), Wishes(f)
  PROVE  Laid(f.keys).password_hash # Null
<1>1. PICK k \in DOMAIN f.keys \cap LoginKeys : f.keys[k] # Null
  BY DEF Wishes
<1>2. k \in {"username", "password_hash"} /\ k \in DOMAIN DEFAULTS
  BY DEF resolve_config, LoginKeys, DEFAULTS
<1>3. Laid(f.keys)[k] # Null
  BY <1>1, <1>2 DEF Laid
<1>. QED  BY <1>2, <1>3 DEF resolve_config

(* The steps of the start-up.  The hook is there or not from Load on.        *)
LEMMA Step_Main ==
  ASSUME IInv,
         Start \/ Load \/ CheckStore \/ Listen \/ Create \/ InstallHandler \/ Announce
  PROVE  IInv'
<1>. USE DEF IInv
<1>1. UNCHANGED authVars
  BY DEF Start, Load, CheckStore, Listen, Create, InstallHandler, Announce
<1>2. \A t \in Threads : thread[t].pc = "idle"
  BY DEF MainInv, Start, Load, CheckStore, Listen, Create, InstallHandler, Announce, Step
<1>3. ThreadInv' /\ VerifierInv' /\ LateInv' /\ LimiterInv'
  BY <1>1 DEF authVars, ThreadInv, VerifierInv, LateInv, LimiterInv, Table, At, Tracked
<1>4. HeaderInv'
  BY <1>1, <1>2 DEF authVars, HeaderInv, OnlyTheOwnerGetsIn, At
<1>5. MainInv'
  <2>1. CASE Load
    <3>1. wanted' => login'
      BY <2>1, WishedIsResolved DEF Load
    <3>2. login' \in BOOLEAN
      BY <2>1 DEF Load
    <3>3. phase = "load" /\ phase' = "store" /\ UNCHANGED <<handler, ready, thread>>
      BY <2>1 DEF Load, Step, authVars
    <3>. QED  BY <1>2, <3>1, <3>2, <3>3 DEF MainInv, CleanStopOnceReady
  <2>2. CASE Start \/ CheckStore \/ Listen \/ Create \/ InstallHandler \/ Announce
    BY <1>1, <1>2, <2>2 DEF authVars, MainInv, CleanStopOnceReady, Start, CheckStore,
       Listen, Create, InstallHandler, Announce, Step
  <2>. QED  BY <2>1, <2>2
<1>. QED  BY <1>3, <1>4, <1>5

-----------------------------------------------------------------------------
LEMMA NextIInv == IInv /\ [Next]_vars => IInv'
<1>. SUFFICES ASSUME IInv, [Next]_vars PROVE IInv'
  OBVIOUS
<1>1. CASE \E t \in Threads : Request(t) \/ Dispatch(t)
  BY <1>1, Step_Request, Step_Dispatch
<1>2. CASE \E t \in Threads : RunHook(t)
  BY <1>2, Step_LookVerify, Step_Regate, Step_Check, Step_Accept, Step_SucceedReject
  DEF RunHook, Hook
<1>3. CASE TimePasses
  BY <1>3, Step_TimePasses
<1>4. CASE Start \/ Load \/ CheckStore \/ Listen \/ Create \/ InstallHandler \/ Announce
  BY <1>4, Step_Main
<1>5. CASE \/ StartFails \/ LoadFails \/ PrepareFails \/ Interrupt \/ Terminate
           \/ HashPassword
  BY <1>5, Step_Exits
<1>6. CASE UNCHANGED vars
  BY <1>6 DEF vars, mainVars, authVars, IInv, ThreadInv, VerifierInv, LimiterInv, Table,
     LateInv, HeaderInv, MainInv, OnlyTheOwnerGetsIn, CleanStopOnceReady, At, Tracked
<1>. QED  BY <1>1, <1>2, <1>3, <1>4, <1>5, <1>6 DEF Next

LEMMA SpecIInv == Spec => []IInv
BY InitIInv, NextIInv, PTL DEF Spec

(* The counters and locks of the limiter stay in their range, and exactly    *)
(* the thread that is between the two looks at the limiter and the end of    *)
(* its password check holds verify_lock.                                     *)
THEOREM LimiterType == Spec => []AuthTypeOK
<1>1. IInv => AuthTypeOK
  <2>. SUFFICES ASSUME IInv PROVE AuthTypeOK
    OBVIOUS
  <2>1. \A a \in Tracked : entries[a] \in Entry
    BY DEF IInv, LimiterInv, Table, Tracked
  <2>2. \A a \in Tracked : entries[a].n \in 0..(MAX_FAILURES - 1)
                           /\ entries[a].left \in Unlocked..LOCKOUT
    BY <2>1 DEF Entry
  <2>. QED  BY <2>2 DEF IInv, LimiterInv, Table, VerifierInv, AuthTypeOK, Tracked
<1>. QED  BY <1>1, SpecIInv, PTL

(* However many addresses fail to log in, and whatever the threads do at the *)
(* same time, the limiter and the cache stay within their sizes.             *)
THEOREM BoundedMemory == Spec => []MemoryBounded
<1>1. IInv => MemoryBounded
  BY DEF IInv, LimiterInv, Table, HeaderInv, MemoryBounded, Tracked
<1>. QED  BY <1>1, SpecIInv, PTL

(* The second look of the hook under verify_lock: at most one password more  *)
(* is checked for an address that is locked.                                 *)
THEOREM OneLateCheck == Spec => []AtMostOneLateCheck
<1>1. IInv => AtMostOneLateCheck
  <2>. SUFFICES ASSUME IInv, NEW a \in Tracked PROVE entries[a].late <= 1
    BY DEF AtMostOneLateCheck
  <2>1. entries[a] \in Entry
    BY DEF IInv, LimiterInv, Table, Tracked
  <2>. QED  BY <2>1 DEF Entry
<1>. QED  BY <1>1, SpecIInv, PTL

(* With a login, no request gets to a route without the right header.        *)
THEOREM OwnerOnly == Spec => []OnlyTheOwnerGetsIn
<1>1. IInv => OnlyTheOwnerGetsIn
  BY DEF IInv, HeaderInv
<1>. QED  BY <1>1, SpecIInv, PTL

(* resolve_config() and create_app(): whatever the file says, a server that  *)
(* serves has the login that the file asks for.                              *)
THEOREM LoginKept == Spec => []LoginIsNeverForgotten
<1>1. IInv => LoginIsNeverForgotten
  BY DEF IInv, MainInv, LoginIsNeverForgotten
<1>. QED  BY <1>1, SpecIInv, PTL

(* The handler is installed before the readiness line is printed: from then  *)
(* on every signal ends the server with status 0.                            *)
THEOREM CleanStop == Spec => []CleanStopOnceReady
<1>1. IInv => CleanStopOnceReady
  BY DEF IInv, MainInv
<1>. QED  BY <1>1, SpecIInv, PTL

-----------------------------------------------------------------------------
(* A step that leaves the entry of a locked address, or its lock, in place.  *)
KeepsLock(a) == a \in DOMAIN entries' /\ entries'[a].left > 0

LEMMA LockKept ==
  ASSUME IInv, [Next]_vars, NEW a \in Addrs, Locked(a), entries[a].left > 1, ~KeepsLock(a)
  PROVE  \/ phase' = "exited"
         \/ \E t \in Threads :
              \/ At(t, "succeed") /\ thread[t].addr = a
              \/ At(t, "reject") /\ \A b \in Tracked : Locked(b)
<1>1. Table(entries) /\ a \in Tracked /\ entries[a].left > 0
  BY DEF IInv, LimiterInv, Locked
<1>2. entries' # entries
  BY <1>1 DEF KeepsLock, Tracked
<1>3. CASE \E t \in Threads : Request(t)
  <2>1. PICK b \in Addrs : retry_after(b)
    BY <1>2, <1>3 DEF Request, Gate
  <2>2. KeepsLock(a)
    BY <1>1, <2>1, RetryTable DEF KeepsLock
  <2>. QED  BY <2>2
<1>4. CASE \E t \in Threads : RunHook(t)
  <2>1. PICK t \in Threads : Hook(t)
    BY <1>4 DEF RunHook
  <2>2. CASE Regate(t)
    <3>1. KeepsLock(a)
      BY <1>1, <2>2, RetryTable DEF KeepsLock, Regate
    <3>. QED  BY <3>1
  <2>3. CASE Check(t)
    <3>1. Locked(thread[t].addr) /\ entries' = [entries EXCEPT ![thread[t].addr].late = @ + 1]
      BY <1>2, <2>3 DEF Check
    <3>2. entries[thread[t].addr].late = 0
      BY <2>3, <3>1 DEF Check, IInv, LateInv, Locked
    <3>3. KeepsLock(a)
      BY <1>1, <3>1, <3>2, CheckTable DEF KeepsLock
    <3>. QED  BY <3>3
  <2>4. CASE Succeed(t)
    <3>1. entries' = Forget(entries, {thread[t].addr}) /\ At(t, "succeed")
      BY <2>4 DEF Succeed, succeeded
    <3>2. CASE thread[t].addr # a
      <4>1. DOMAIN entries' = Tracked \ {thread[t].addr} /\ entries'[a] = entries[a]
        BY <1>1, <3>1, <3>2 DEF Forget, Tracked
      <4>. QED  BY <1>1, <3>2, <4>1 DEF KeepsLock
    <3>. QED  BY <3>1, <3>2
  <2>5. CASE Reject(t)
    <3>1. failed(thread[t].addr) /\ At(t, "reject") /\ thread[t].addr \in Addrs
      BY <2>5 DEF Reject, IInv, ThreadInv, At
    <3>2. \/ a \in DOMAIN entries' /\ entries'[a].left = entries[a].left
          \/ \A c \in Tracked : Locked(c)
      BY <1>1, <3>1, FailedTable
    <3>. QED  BY <1>1, <3>1, <3>2 DEF KeepsLock
  <2>. QED  BY <1>2, <2>1, <2>2, <2>3, <2>4, <2>5 DEF Hook, Look, Verify, Accept
<1>5. CASE TimePasses
  <2>1. KeepsLock(a)
    BY <1>1, <1>5, TickTable DEF TimePasses, KeepsLock
  <2>. QED  BY <2>1
<1>6. CASE \/ StartFails \/ LoadFails \/ PrepareFails \/ Interrupt \/ Terminate
           \/ HashPassword
  BY <1>6 DEF StartFails, LoadFails, PrepareFails, Interrupt, Terminate, HashPassword, Exit
<1>. QED  BY <1>2, <1>3, <1>4, <1>5, <1>6 DEF Next, vars, authVars, Start, Load,
          CheckStore, Listen, Create, InstallHandler, Announce, Dispatch

(* LoginLimiter: a lock lasts for its time, unless the address logs in or    *)
(* room is needed and everything that is remembered is locked.               *)
THEOREM LocksLast == Spec => LockLasts
<1>1. IInv /\ [Next]_vars =>
        [\A a \in Addrs :
           (Locked(a) /\ entries[a].left > 1
              /\ ~(a \in DOMAIN entries' /\ entries'[a].left > 0))
           => \/ phase' = "exited"
              \/ \E t \in Threads :
                   \/ At(t, "succeed") /\ thread[t].addr = a
                   \/ At(t, "reject") /\ \A b \in Tracked : Locked(b)]_vars
  BY LockKept DEF KeepsLock
<1>. QED  BY <1>1, SpecIInv, PTL DEF Spec, LockLasts
=============================================================================
