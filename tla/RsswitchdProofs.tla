-------------------------- MODULE RsswitchdProofs ----------------------------
(***************************************************************************)
(* What holds of rsswitchd for any number of clients and whatever streams   *)
(* they send, any --timeout, any length of a transmission and any number of *)
(* calls of write() that a reply takes.                                     *)
(*                                                                          *)
(* The idle deadline: serve_connection() sets it before a command is        *)
(* handled, so the transmission and the reply run on the time that is left  *)
(* after it: idle may be ahead of the time since send_reply() began, by one *)
(* transmission and no more, because every command has set it to 0 first.   *)
(*                                                                          *)
(* The account of a connection: at every step of the server the bytes read, *)
(* the parser state of the connection, the replies written and the          *)
(* codewords sent agree with what the documented format makes of the stream *)
(* so far (Account).  The lemmas of WireProofs say how that result goes on  *)
(* by one byte; nothing else of the path of a command is used here.         *)
(***************************************************************************)
EXTENDS Rsswitchd, WireProofs

DeadlineInv ==
  /\ idle \in Nat /\ quiet \in Nat
  /\ idle <= quiet + SendTime
  /\ pc = "handle" => idle = 0
  /\ pc = "reply" => idle <= SendTime

LEMMA InitDeadline == Init => DeadlineInv
BY RsswitchdAssumption DEF Init, DeadlineInv

LEMMA StepDeadline == DeadlineInv /\ [Next]_vars => DeadlineInv'
<1>. SUFFICES ASSUME DeadlineInv, [Next]_vars PROVE DeadlineInv'
  OBVIOUS
<1>. USE RsswitchdAssumption DEF DeadlineInv
<1>1. CASE Accept
  BY <1>1 DEF Accept
<1>2. CASE Interrupted
  BY <1>2 DEF Interrupted, histVars
<1>3. CASE Read
  BY <1>3 DEF Read, histVars
<1>4. CASE ReadEnds
  BY <1>4 DEF ReadEnds, histVars
<1>5. CASE Timeout
  BY <1>5 DEF Timeout, procVars, histVars
<1>6. CASE Parse
  <2>1. /\ quiet' = quiet
        /\ (pc' = pc /\ idle' = idle) \/ (pc' = "handle" /\ idle' = 0)
        /\ pc = "parse"
    BY <1>6 DEF Parse
  <2>. QED  BY <2>1
<1>7. CASE ParseDone
  BY <1>7 DEF ParseDone, procVars, histVars
<1>8. CASE HandleEmpty
  BY <1>8 DEF HandleEmpty, AfterCommand, procVars, histVars
<1>9. CASE HandleError
  BY <1>9 DEF HandleError, procVars, histVars
<1>10. CASE HandleSend
  <2>1. pc = "handle" /\ pc' = "reply" /\ quiet' = quiet /\ \E d \in 0..SendTime : idle' = idle + d
    BY <1>10 DEF HandleSend
  <2>. QED  BY <2>1
<1>11. CASE Reply
  <2>1. PICK d \in 0..(ReplyWrites * idle_timeout) : idle' = idle + d /\ quiet' = d
    BY <1>11 DEF Reply, WriteTime
  <2>2. d \in Nat
    <3>1. ReplyWrites * idle_timeout \in Nat
      OBVIOUS
    <3>. QED  BY <3>1
  <2>3. pc = "reply" /\ pc' \in {"close", "parse"}
    BY <1>11 DEF Reply, AfterCommand
  <2>. QED  BY <2>1, <2>2, <2>3
<1>12. CASE ReplyFails
  BY <1>12 DEF ReplyFails, procVars, histVars
<1>13. CASE Close
  BY <1>13 DEF Close, histVars
<1>14. CASE Tick
  BY <1>14 DEF Tick
<1>15. CASE Terminate
  BY <1>15 DEF Terminate, procVars, histVars
<1>16. CASE \E c \in Clients : Connect(c) \/ Write(c) \/ EndOfInput(c) \/ GoAway(c)
  BY <1>16 DEF Connect, Write, EndOfInput, GoAway, procVars, histVars
<1>17. CASE UNCHANGED vars
  BY <1>17 DEF vars, procVars, histVars
<1>. QED  BY <1>1, <1>2, <1>3, <1>4, <1>5, <1>6, <1>7, <1>8, <1>9, <1>10, <1>11, <1>12, <1>13,
             <1>14, <1>15, <1>16, <1>17 DEF Next, Process

(* "The connection stays open after every reply": wait_readable() does not   *)
(* give a connection up before idle_timeout has passed since send_reply()    *)
(* began with its last reply, less the time that one transmission took,      *)
(* however long write() then waited for the client.                          *)
THEOREM OpenAfterReply == Spec => StaysOpenAfterReply
<1>1. DeadlineInv /\ [Next]_vars =>
        [Timeout /\ replies[connfd] # <<>> => quiet + SendTime >= idle_timeout]_vars
  BY RsswitchdAssumption DEF DeadlineInv, Timeout
<1>. QED  BY <1>1, InitDeadline, StepDeadline, PTL DEF Spec, StaysOpenAfterReply

-----------------------------------------------------------------------------
(* Picked.                                                                   *)
PickRule(s, K, S) ==
  [x \in (1..Len(s)) \X Seq(S) |-> IF x[1] \in K THEN Append(x[2], s[x[1]]) ELSE x[2]]

LEMMA PickRuleAt ==
  ASSUME NEW S, NEW s, NEW K, NEW i \in 1..Len(s), NEW t \in Seq(S)
  PROVE  PickRule(s, K, S)[<<i, t>>] = IF i \in K THEN Append(t, s[i]) ELSE t
BY DEF PickRule

LEMMA PickedFollow ==
  ASSUME NEW S, NEW s \in Seq(S), NEW K
  PROVE  \E f \in [0..Len(s) -> Seq(S)] :
           /\ Follows(f, Len(s), <<>>, PickRule(s, K, S))
           /\ Picked(s, K) = f[Len(s)]
<1>. DEFINE N == Len(s)
            A == Seq(S)
            h == PickRule(s, K, S)
            D(f) == [n \in 0..N |->
                       IF n = 0 THEN <<>>
                       ELSE IF n \in K THEN Append(f[n - 1], s[n]) ELSE f[n - 1]]
            fix == CHOOSE f : f = D(f)
<1>1. N \in Nat /\ \A n \in 1..N : s[n] \in S
  BY LenProperties, ElementOfSeq
<1>2. <<>> \in A
  OBVIOUS
<1>3. h \in [(1..N) \X A -> A]
  BY <1>1, AppendProperties DEF PickRule
<1>4. PICK g \in [0..N -> A] : Follows(g, N, <<>>, h)
  <2>. HIDE DEF N, A, h
  <2>. QED  BY <1>1, <1>2, <1>3, FollowsExists
<1>5. ASSUME NEW i \in 1..N, NEW t \in A
      PROVE  h[<<i, t>>] = IF i \in K THEN Append(t, s[i]) ELSE t
  BY PickRuleAt
<1>6. g = D(g)
  <2>1. ASSUME NEW n \in 0..N PROVE g[n] = D(g)[n]
    <3>1. CASE n = 0
      BY <3>1, <1>4 DEF Follows
    <3>2. CASE n # 0
      <4>1. n \in 1..N /\ n - 1 \in 0..N
        BY <3>2, <1>1
      <4>2. g[n - 1] \in A /\ g[n] = h[<<n, g[n - 1]>>]
        BY <4>1, <1>4 DEF Follows
      <4>3. g[n] = IF n \in K THEN Append(g[n - 1], s[n]) ELSE g[n - 1]
        BY <4>1, <4>2, <1>5
      <4>. QED  BY <4>3, <3>2
    <3>. QED  BY <3>1, <3>2
  <2>. QED  BY <2>1
<1>7. fix = D(fix)
  <2>. HIDE DEF D
  <2>. QED  BY <1>6
<1>8. fix = g
  <2>. DEFINE T == {n \in 0..N : fix[n] # g[n]}
  <2>1. T = {}
    <3>. SUFFICES ASSUME T # {} PROVE FALSE
      OBVIOUS
    <3>1. PICK x \in T : \A y \in T : x <= y
      <4>1. T \subseteq Nat
        OBVIOUS
      <4>. HIDE DEF T
      <4>. QED  BY <4>1, LeastElement
    <3>2. fix[x] = D(fix)[x] /\ g[x] = D(g)[x]
      <4>. HIDE DEF D, fix
      <4>. QED  BY <1>6, <1>7
    <3>3. x # 0
      <4>. HIDE DEF fix
      <4>. QED  BY <3>2
    <3>4. x - 1 \in 0..N /\ x - 1 \notin T
      <4>. HIDE DEF fix
      <4>. QED  BY <3>1, <3>3, <1>1
    <3>. HIDE DEF fix
    <3>. QED  BY <3>2, <3>3, <3>4
  <2>2. fix = [n \in 0..N |-> fix[n]]
    <3>1. D(fix) = [n \in 0..N |-> D(fix)[n]]
      OBVIOUS
    <3>. HIDE DEF D, fix
    <3>. QED  BY <1>7, <3>1
  <2>3. g = [n \in 0..N |-> g[n]]
    OBVIOUS
  <2>. HIDE DEF fix
  <2>. QED  BY <2>1, <2>2, <2>3
<1>9. Picked(s, K) = fix[N]
  BY DEF Picked
<1>. HIDE DEF fix
<1>. QED  BY <1>4, <1>8, <1>9

LEMMA PickedType ==
  ASSUME NEW S, NEW s \in Seq(S), NEW K
  PROVE  Picked(s, K) \in Seq(S)
<1>1. Len(s) \in 0..Len(s)
  BY LenProperties
<1>. QED  BY <1>1, PickedFollow

LEMMA PickedEmpty ==
  ASSUME NEW K PROVE Picked(<<>>, K) = <<>>
<1>0. <<>> \in Seq(STRING) /\ Len(<<>>) = 0
  OBVIOUS
<1>1. PICK none \in Seq(STRING) : none = <<>> /\ Len(none) = 0
  BY <1>0
<1>2. PICK f : Follows(f, 0, <<>>, PickRule(none, K, STRING)) /\ Picked(none, K) = f[0]
  BY <1>1, PickedFollow
<1>. QED  BY <1>1, <1>2 DEF Follows

(* Only the positions of the sequence count.                                 *)
LEMMA PickedSame ==
  ASSUME NEW S, NEW s \in Seq(S), NEW K, NEW J,
         \A i \in 1..Len(s) : i \in K <=> i \in J
  PROVE  Picked(s, K) = Picked(s, J)
<1>1. PickRule(s, K, S) = PickRule(s, J, S)
  BY DEF PickRule
<1>2. PICK f \in [0..Len(s) -> Seq(S)] : Follows(f, Len(s), <<>>, PickRule(s, K, S))
                                         /\ Picked(s, K) = f[Len(s)]
  BY PickedFollow
<1>3. PICK g \in [0..Len(s) -> Seq(S)] : Follows(g, Len(s), <<>>, PickRule(s, J, S))
                                         /\ Picked(s, J) = g[Len(s)]
  BY PickedFollow
<1>4. Len(s) \in Nat /\ Len(s) \in 0..Len(s)
  BY LenProperties
<1>. DEFINE h == PickRule(s, K, S)
            none == <<>>
<1>5. Follows(f, Len(s), none, h) /\ Follows(g, Len(s), none, h)
  BY <1>1, <1>2, <1>3
<1>6. \A i \in 0..Len(s) : f[i] = g[i]
  <2>. HIDE DEF h, none
  <2>. QED  BY <1>4, <1>5, FollowsUnique
<1>. QED  BY <1>2, <1>3, <1>4, <1>6

(* One more element.                                                         *)
LEMMA PickedAppend ==
  ASSUME NEW S, NEW s \in Seq(S), NEW K, NEW e \in S
  PROVE  Picked(Append(s, e), K) =
           IF Len(s) + 1 \in K THEN Append(Picked(s, K), e) ELSE Picked(s, K)
<1>. DEFINE N == Len(s)
            more == Append(s, e)
            A == Seq(S)
<1>1. /\ more \in Seq(S) /\ Len(more) = N + 1 /\ N \in Nat
      /\ \A i \in 1..N : more[i] = s[i]
      /\ more[N + 1] = e
  BY AppendProperties, LenProperties
<1>2. PICK f \in [0..N -> A] : /\ Follows(f, N, <<>>, PickRule(s, K, S))
                               /\ Picked(s, K) = f[N]
  BY PickedFollow
<1>3. PICK g \in [0..(N + 1) -> A] :
        /\ Follows(g, N + 1, <<>>, PickRule(more, K, S))
        /\ Picked(more, K) = g[N + 1]
  <2>. HIDE DEF more
  <2>. QED  BY <1>1, PickedFollow
<1>4. ASSUME NEW i \in 1..(N + 1)
      PROVE  g[i] = IF i \in K THEN Append(g[i - 1], more[i]) ELSE g[i - 1]
  <2>1. i - 1 \in 0..(N + 1) /\ g[i - 1] \in A
    <3>. HIDE DEF N, A, more
    <3>. QED  BY <1>1
  <2>2. g[i] = PickRule(more, K, S)[<<i, g[i - 1]>>]
    BY <1>3 DEF Follows
  <2>3. i \in 1..Len(more)
    BY <1>1
  <2>. HIDE DEF more
  <2>. QED  BY <2>1, <2>2, <2>3, PickRuleAt
<1>5. Follows(g, N, <<>>, PickRule(s, K, S))
  <2>1. g[0] = <<>>
    BY <1>3 DEF Follows
  <2>2. ASSUME NEW i \in 1..N PROVE g[i] = PickRule(s, K, S)[<<i, g[i - 1]>>]
    <3>1. i - 1 \in 0..(N + 1) /\ g[i - 1] \in A /\ i \in 1..(N + 1)
      <4>. HIDE DEF N, A, more
      <4>. QED  BY <1>1
    <3>2. g[i] = IF i \in K THEN Append(g[i - 1], s[i]) ELSE g[i - 1]
      BY <1>4, <1>1, <3>1
    <3>. QED  BY <3>1, <3>2, PickRuleAt
  <2>. QED  BY <2>1, <2>2 DEF Follows
<1>6. g[N] = f[N]
  <2>. DEFINE h == PickRule(s, K, S)
              none == <<>>
  <2>1. Follows(f, N, none, h) /\ Follows(g, N, none, h)
    BY <1>2, <1>5
  <2>2. N \in 0..N
    BY <1>1
  <2>. HIDE DEF N, A, more, h, none
  <2>. QED  BY <1>1, <2>1, <2>2, FollowsUnique
<1>7. g[N + 1] = IF N + 1 \in K THEN Append(g[N], e) ELSE g[N]
  <2>1. N + 1 \in 1..(N + 1) /\ (N + 1) - 1 = N
    BY <1>1
  <2>. HIDE DEF N, more
  <2>. QED  BY <1>1, <1>4, <2>1
<1>. QED  BY <1>2, <1>3, <1>6, <1>7

-----------------------------------------------------------------------------
(* The types.  A stream, and what is left of it at any time, is a sequence   *)
(* of bytes; what a line gives is one of Outcomes.                           *)
Replies == Outcomes \cup {[kind |-> "OK"], Error("send")}

TypeInv ==
  /\ pc \in {"listen", "wait", "parse", "handle", "reply", "close", "exited"}
  /\ connfd \in Clients \cup {None}
  /\ connfd = None <=> pc \in {"listen", "exited"}
  /\ recbuf \in Seq(STRING)
  /\ pc = "handle" => cmd \in Outcomes
  /\ pc = "reply" => cmd \in Replies
  /\ backlog \in Seq(Clients)
  /\ client \in [Clients -> [state : {"away", "open", "gone", "closed"},
                             todo : Seq(STRING), wire : Seq(STRING), eof : BOOLEAN]]
  /\ seen \in [Clients -> Seq(STRING)]
  /\ aired \in [Clients -> Seq(Outcomes)]
  /\ replies \in [Clients -> Seq(Replies)]

(* A client is queued once, and nothing has been done for it before it is    *)
(* accepted.                                                                 *)
Untouched(c) == seen[c] = <<>> /\ aired[c] = <<>> /\ replies[c] = <<>>

QueueInv ==
  /\ \A c \in Clients : client[c].state = "away" =>
       /\ Untouched(c)
       /\ connfd # c
       /\ \A i \in 1..Len(backlog) : backlog[i] # c
  /\ \A i \in 1..Len(backlog) : Untouched(backlog[i]) /\ backlog[i] # connfd
  /\ \A i, j \in 1..Len(backlog) : backlog[i] = backlog[j] => i = j

(* struct proto_conn holds the line that has not ended yet, or says that it  *)
(* is too long.                                                              *)
FramingInv ==
  connfd # None => proto = Framed(seen[connfd])

(* The account of a client: every reply fits its result, and either all have *)
(* their reply and what was confirmed is what was aired, or the last reply   *)
(* is owed: its command is in handle_command(), its reply is in send_reply() *)
(* or could not be written.                                                  *)
Owed(c) ==
  LET owed == Last(Answered(seen[c]))
  IN  \/ /\ connfd = c /\ pc = "handle"
         /\ cmd = owed /\ cmd.kind # "EMPTY"
         /\ aired[c] = Confirmed(c)
      \/ /\ connfd = c /\ pc = "reply"
         /\ Fits(cmd, owed)
         /\ aired[c] = IF cmd = [kind |-> "OK"] THEN Append(Confirmed(c), owed) ELSE Confirmed(c)
      \/ /\ connfd # c \/ pc = "close"
         /\ client[c].state = "gone"
         /\ aired[c] \in {Confirmed(c), Append(Confirmed(c), owed)}

Settled(c) ==
  /\ connfd = c /\ pc = "handle" => cmd.kind = "EMPTY"
  /\ ~(connfd = c /\ pc = "reply")
  /\ aired[c] = Confirmed(c)

RepliesFit(c) ==
  \A i \in 1..Len(replies[c]) :
    i <= Len(Answered(seen[c])) /\ Fits(replies[c][i], Answered(seen[c])[i])

Account(c) ==
  /\ RepliesFit(c)
  /\ \/ Len(replies[c]) = Len(Answered(seen[c])) /\ Settled(c)
     \/ Len(replies[c]) = Len(Answered(seen[c])) - 1 /\ Owed(c)

AccountInv == \A c \in Clients : Account(c)

Inv == TypeInv /\ QueueInv /\ FramingInv /\ AccountInv

-----------------------------------------------------------------------------
(* Answered and Confirmed.                                                   *)
LEMMA AnsweredType ==
  ASSUME NEW bytes \in Seq(STRING)
  PROVE  Answered(bytes) \in Seq(Outcomes)
BY ResultsType, PickedType DEF Answered

LEMMA AnsweredEmpty == Answered(<<>>) = <<>>
BY NothingYet, PickedEmpty DEF Answered

(* A stream whose results do not grow is answered as before, and a new       *)
(* result is answered unless it is an empty line.                            *)
LEMMA AnsweredAppend ==
  ASSUME NEW bytes \in Seq(STRING), NEW more, NEW r \in Outcomes,
         Results(more) = Append(Results(bytes), r)
  PROVE  Answered(more) =
           IF r.kind = "EMPTY" THEN Answered(bytes) ELSE Append(Answered(bytes), r)
<1>. DEFINE now == Results(bytes)
            then == Append(now, r)
            N == Len(now)
            K == {i \in 1..Len(now) : now[i].kind # "EMPTY"}
            L == {i \in 1..Len(then) : then[i].kind # "EMPTY"}
<1>1. now \in Seq(Outcomes) /\ N \in Nat
  BY ResultsType, LenProperties
<1>2. /\ Len(then) = N + 1 /\ then[N + 1] = r
      /\ \A i \in 1..N : then[i] = now[i]
  <2>. HIDE DEF now
  <2>. QED  BY <1>1, AppendProperties
<1>3. Answered(bytes) = Picked(now, K) /\ Answered(more) = Picked(then, L)
  BY DEF Answered
<1>4. /\ \A i \in 1..N : i \in L <=> i \in K
      /\ N + 1 \in L <=> r.kind # "EMPTY"
  <2>. HIDE DEF now, then
  <2>. QED  BY <1>1, <1>2
<1>5. Picked(now, L) = Picked(now, K)
  <2>. HIDE DEF now, K, L
  <2>. QED  BY <1>1, <1>4, PickedSame
<1>6. Picked(then, L) = IF N + 1 \in L THEN Append(Picked(now, L), r) ELSE Picked(now, L)
  <2>. HIDE DEF now, L
  <2>. QED  BY <1>1, PickedAppend
<1>. QED  BY <1>3, <1>4, <1>5, <1>6

OK == [kind |-> "OK"]

ConfirmedOf(want, have) == Picked(want, {i \in 1..Len(have) : have[i] = OK})

(* A result that has no reply yet confirms nothing ...                       *)
LEMMA ConfirmedGrows ==
  ASSUME NEW S, NEW T, NEW want \in Seq(S), NEW have \in Seq(T), NEW r \in S,
         Len(have) = Len(want)
  PROVE  ConfirmedOf(Append(want, r), have) = ConfirmedOf(want, have)
<1>. DEFINE K == {i \in 1..Len(have) : have[i] = OK}
<1>1. Len(want) \in Nat /\ ~(Len(want) + 1 \in K)
  BY LenProperties
<1>2. Picked(Append(want, r), K) = Picked(want, K)
  <2>. HIDE DEF K
  <2>. QED  BY <1>1, PickedAppend
<1>. QED  BY <1>2 DEF ConfirmedOf

(* ... and its reply does when it is OK.                                     *)
LEMMA ConfirmedReply ==
  ASSUME NEW S, NEW T, NEW want \in Seq(S), NEW have \in Seq(T), NEW r \in T,
         Len(have) = Len(want) - 1
  PROVE  ConfirmedOf(want, Append(have, r)) =
           IF r = OK THEN Append(ConfirmedOf(want, have), Last(want)) ELSE ConfirmedOf(want, have)
<1>. DEFINE N == Len(have)
            K == {i \in 1..N : have[i] = OK}
            more == Append(have, r)
            L == {i \in 1..Len(more) : more[i] = OK}
<1>1. N \in Nat /\ Len(want) = N + 1 /\ want # <<>>
  BY LenProperties
<1>2. PICK front \in Seq(S), last \in S : want = Append(front, last)
  BY <1>1, SequenceEmptyOrAppend
<1>3. Len(front) = N /\ last = Last(want)
  <2>1. Len(want) = Len(front) + 1 /\ want[Len(front) + 1] = last /\ Len(front) \in Nat
    BY <1>2, AppendProperties, LenProperties
  <2>. QED  BY <1>1, <2>1 DEF Last
<1>4. /\ Len(more) = N + 1 /\ more[N + 1] = r
      /\ \A i \in 1..N : more[i] = have[i]
  BY AppendProperties
<1>5. /\ \A i \in 1..N : i \in L <=> i \in K
      /\ N + 1 \in L <=> r = OK
      /\ N + 1 \notin K
  <2>. HIDE DEF N, more
  <2>. QED  BY <1>1, <1>4
<1>6. Picked(front, L) = Picked(front, K)
  <2>. HIDE DEF N, K, L
  <2>. QED  BY <1>3, <1>5, PickedSame
<1>7. /\ Picked(want, L) = IF N + 1 \in L THEN Append(Picked(front, L), last) ELSE Picked(front, L)
      /\ Picked(want, K) = IF N + 1 \in K THEN Append(Picked(front, K), last) ELSE Picked(front, K)
  <2>. HIDE DEF N, K, L
  <2>. QED  BY <1>2, <1>3, PickedAppend
<1>8. Picked(want, L) = IF r = OK THEN Append(Picked(want, K), Last(want)) ELSE Picked(want, K)
  <2>. HIDE DEF N, K, L
  <2>. QED  BY <1>3, <1>5, <1>6, <1>7
<1>. QED  BY <1>8 DEF ConfirmedOf

LEMMA ConfirmedIs ==
  ASSUME NEW c PROVE Confirmed(c) = ConfirmedOf(Answered(seen[c]), replies[c])
BY DEF Confirmed, ConfirmedOf, OK

-----------------------------------------------------------------------------
(* The invariant holds at first ...                                          *)
LEMMA InitAll == Init => Inv
<1>. SUFFICES ASSUME Init PROVE Inv
  OBVIOUS
<1>. USE RsswitchdAssumption
<1>1. PICK st \in [Clients -> UNION {Streams[c] : c \in Clients}] :
        /\ \A c \in Clients : st[c] \in Streams[c]
        /\ client = [c \in Clients |-> [state |-> "away", todo |-> st[c],
                                        wire |-> <<>>, eof |-> FALSE]]
  BY DEF Init
<1>2. \A c \in Clients : st[c] \in Seq(STRING)
  BY <1>1
<1>3. client \in [Clients -> [state : {"away", "open", "gone", "closed"},
                             todo : Seq(STRING), wire : Seq(STRING), eof : BOOLEAN]]
  BY <1>1, <1>2
<1>4. TypeInv
  BY <1>3 DEF Init, TypeInv
<1>5. QueueInv
  BY <1>1 DEF Init, QueueInv, Untouched
<1>6. FramingInv
  BY DEF Init, FramingInv
<1>7. ASSUME NEW c \in Clients PROVE Account(c)
  <2>1. seen[c] = <<>> /\ replies[c] = <<>> /\ aired[c] = <<>> /\ connfd # c
    BY DEF Init
  <2>2. Answered(seen[c]) = <<>> /\ Len(replies[c]) = 0
    BY <2>1, AnsweredEmpty
  <2>3. Confirmed(c) = <<>>
    BY <2>2, PickedEmpty DEF Confirmed
  <2>. QED  BY <2>1, <2>2, <2>3 DEF Account, Settled, RepliesFit
<1>. QED  BY <1>4, <1>5, <1>6, <1>7 DEF Inv, AccountInv

(* ... and the types are kept.                                               *)
ClientRec == [state : {"away", "open", "gone", "closed"},
              todo : Seq(STRING), wire : Seq(STRING), eof : BOOLEAN]

LEMMA StepClient ==
  ASSUME TypeInv, [Next]_vars PROVE client' \in [Clients -> ClientRec]
<1>0. client \in [Clients -> ClientRec] /\ connfd \in Clients \cup {None}
  BY DEF TypeInv, ClientRec
<1>1. ASSUME NEW c \in Clients, Connect(c) PROVE client' \in [Clients -> ClientRec]
  BY <1>0, <1>1 DEF Connect, ClientRec
<1>2. ASSUME NEW c \in Clients, Write(c) PROVE client' \in [Clients -> ClientRec]
  <2>1. PICK n \in 1..Len(client[c].todo) :
          client' = [client EXCEPT ![c].wire = SubSeq(client[c].todo, 1, n),
                                   ![c].todo = IF c \in Endless THEN @
                                               ELSE SubSeq(@, n + 1, Len(@))]
    BY <1>2 DEF Write
  <2>2. client[c].todo \in Seq(STRING) /\ Len(client[c].todo) \in Nat
    BY <1>0, LenProperties DEF ClientRec
  <2>. DEFINE t == client[c].todo
  <2>3. SubSeq(t, 1, n) \in Seq(STRING) /\ SubSeq(t, n + 1, Len(t)) \in Seq(STRING)
    <3>. HIDE DEF t
    <3>1. t \in Seq(STRING) /\ Len(t) \in Nat /\ n \in 1..Len(t)
      BY <2>2 DEF t
    <3>2. \A i \in 1..Len(t) : t[i] \in STRING
      BY <3>1, ElementOfSeq
    <3>. QED  BY <3>1, <3>2, SubSeqProperties
  <2>. QED  BY <1>0, <2>1, <2>2, <2>3 DEF ClientRec
<1>3. ASSUME NEW c \in Clients, EndOfInput(c) PROVE client' \in [Clients -> ClientRec]
  BY <1>0, <1>3 DEF EndOfInput, ClientRec
<1>. DEFINE none == <<>>
<1>n. none \in Seq(STRING)
  OBVIOUS
<1>4. ASSUME NEW c \in Clients, GoAway(c) PROVE client' \in [Clients -> ClientRec]
  <2>1. client' = [client EXCEPT ![c].state = "gone", ![c].todo = none]
    BY <1>4 DEF GoAway
  <2>. HIDE DEF none
  <2>. QED  BY <1>0, <1>n, <2>1 DEF ClientRec
<1>5. CASE Read
  <2>1. client' = [client EXCEPT ![connfd].wire = none]
    BY <1>5 DEF Read
  <2>. HIDE DEF none
  <2>. QED  BY <1>0, <1>n, <2>1 DEF ClientRec
<1>6. CASE Close
  BY <1>0, <1>6 DEF Close, ClientRec
<1>7. CASE UNCHANGED client
  BY <1>0, <1>7
<1>8. Accept \/ Interrupted \/ ReadEnds \/ Timeout \/ Parse \/ ParseDone \/ HandleEmpty
      \/ HandleError \/ HandleSend \/ Reply \/ ReplyFails \/ Tick \/ Terminate \/ UNCHANGED vars
      => UNCHANGED client
  BY DEF Accept, Interrupted, ReadEnds, Timeout, Parse, ParseDone, HandleEmpty, HandleError,
         HandleSend, Reply, ReplyFails, Tick, Terminate, vars
<1>. QED  BY <1>1, <1>2, <1>3, <1>4, <1>5, <1>6, <1>7, <1>8 DEF Next, Process

(* What one call of proto_next() does with one byte: it is dropped, or the   *)
(* stream grows by it without a result, or with one.                         *)
LEMMA ParseByte ==
  ASSUME TypeInv, FramingInv, Parse
  PROVE  /\ connfd \in Clients
         /\ recbuf' \in Seq(STRING)
         /\ \/ UNCHANGED <<pc, seen, proto>>
            \/ \E more \in Seq(STRING) :
                 /\ seen' = [seen EXCEPT ![connfd] = more]
                 /\ proto' = Framed(more)
                 /\ \/ pc' = pc /\ Answered(more) = Answered(seen[connfd])
                    \/ /\ pc' = "handle" /\ cmd' \in Outcomes
                       /\ Answered(more) =
                            IF cmd'.kind = "EMPTY" THEN Answered(seen[connfd])
                            ELSE Append(Answered(seen[connfd]), cmd')
<1>. DEFINE b == Head(recbuf)
            old == seen[connfd]
            more == Append(old, b)
            r == proto_byte(proto, b)
<1>1. pc = "parse" /\ connfd \in Clients /\ recbuf \in Seq(STRING) /\ recbuf # <<>>
  BY RsswitchdAssumption DEF Parse, TypeInv
<1>2. b \in STRING /\ recbuf' \in Seq(STRING)
  BY <1>1, HeadTailProperties DEF Parse
<1>3. old \in Seq(STRING) /\ more \in Seq(STRING)
  <2>1. old \in Seq(STRING)
    BY <1>1 DEF TypeInv
  <2>. HIDE DEF old, b
  <2>. QED  BY <2>1, <1>2, AppendProperties
<1>4. proto = Framed(old)
  BY <1>1, RsswitchdAssumption DEF FramingInv
<1>5. /\ proto' = r.conn /\ cmd' = r.cmd
      /\ \/ r.cmd = Nothing /\ pc' = pc
         \/ r.cmd # Nothing /\ pc' = "handle"
      /\ seen' = IF proto.discarding /\ b # LF THEN seen ELSE [seen EXCEPT ![connfd] = more]
  BY DEF Parse
<1>6. /\ proto.discarding /\ b # LF => r.conn = proto /\ r.cmd = Nothing
      /\ ~(proto.discarding /\ b # LF) =>
           /\ r.conn = Framed(more)
           /\ r.cmd = Nothing => Results(more) = Results(old)
           /\ r.cmd # Nothing => r.cmd \in Outcomes /\ Results(more) = Append(Results(old), r.cmd)
  <2>. HIDE DEF b, old
  <2>. QED  BY <1>2, <1>3, <1>4, ProtoByte
<1>7. CASE proto.discarding /\ b # LF
  BY <1>1, <1>2, <1>5, <1>6, <1>7
<1>8. CASE ~(proto.discarding /\ b # LF) /\ r.cmd = Nothing
  <2>1. Answered(more) = Answered(old)
    BY <1>6, <1>8 DEF Answered
  <2>2. seen' = [seen EXCEPT ![connfd] = more] /\ proto' = Framed(more) /\ pc' = pc
    BY <1>5, <1>6, <1>8
  <2>. HIDE DEF more, b, r
  <2>. QED  BY <1>1, <1>2, <1>3, <2>1, <2>2
<1>9. CASE ~(proto.discarding /\ b # LF) /\ r.cmd # Nothing
  <2>1. /\ seen' = [seen EXCEPT ![connfd] = more] /\ proto' = Framed(more)
        /\ pc' = "handle" /\ cmd' \in Outcomes
        /\ Results(more) = Append(Results(old), cmd')
    BY <1>5, <1>6, <1>9
  <2>2. Answered(more) = IF cmd'.kind = "EMPTY" THEN Answered(old) ELSE Append(Answered(old), cmd')
    <3>. HIDE DEF more, old
    <3>. QED  BY <1>3, <2>1, AnsweredAppend
  <2>. HIDE DEF more, b, r
  <2>. QED  BY <1>1, <1>2, <1>3, <2>1, <2>2
<1>. QED  BY <1>7, <1>8, <1>9

LEMMA StepTypes ==
  ASSUME TypeInv, FramingInv, [Next]_vars PROVE TypeInv'
<1>. USE RsswitchdAssumption DEF TypeInv
<1>0. client' \in [Clients -> [state : {"away", "open", "gone", "closed"},
                              todo : Seq(STRING), wire : Seq(STRING), eof : BOOLEAN]]
  BY StepClient DEF ClientRec
<1>1. CASE Accept
  <2>1. /\ Head(backlog) \in Clients /\ Tail(backlog) \in Seq(Clients)
    BY <1>1, HeadTailProperties DEF Accept
  <2>. QED  BY <1>0, <1>1, <2>1 DEF Accept
<1>2. CASE Interrupted
  BY <1>0, <1>2 DEF Interrupted, histVars
<1>3. CASE Read
  <2>1. recbuf' \in Seq(STRING)
    BY <1>3 DEF Read
  <2>. QED  BY <1>0, <1>3, <2>1 DEF Read, histVars
<1>4. CASE ReadEnds
  BY <1>0, <1>4 DEF ReadEnds, histVars
<1>5. CASE Timeout
  BY <1>0, <1>5 DEF Timeout, procVars, histVars
<1>6. CASE Parse
  <2>1. /\ UNCHANGED <<connfd, backlog, aired, replies>>
        /\ pc = "parse"
    BY <1>6 DEF Parse
  <2>2. /\ recbuf' \in Seq(STRING)
        /\ seen' \in [Clients -> Seq(STRING)]
        /\ pc' = pc \/ (pc' = "handle" /\ cmd' \in Outcomes)
    BY <1>6, ParseByte
  <2>. QED  BY <1>0, <2>1, <2>2
<1>7. CASE ParseDone
  BY <1>0, <1>7 DEF ParseDone, procVars, histVars
<1>8. CASE HandleEmpty
  BY <1>0, <1>8 DEF HandleEmpty, AfterCommand, procVars, histVars
<1>9. CASE HandleError
  BY <1>0, <1>9 DEF HandleError, procVars, histVars, Replies
<1>10. CASE HandleSend
  <2>1. /\ pc = "handle" /\ pc' = "reply" /\ UNCHANGED <<connfd, recbuf, backlog, seen, replies>>
        /\ cmd' \in {[kind |-> "OK"], Error("send")}
        /\ aired' = aired \/ aired' = [aired EXCEPT ![connfd] = Append(aired[connfd], cmd)]
    BY <1>10 DEF HandleSend
  <2>2. connfd \in Clients /\ aired[connfd] \in Seq(Outcomes) /\ cmd \in Outcomes
    BY <2>1
  <2>3. Append(aired[connfd], cmd) \in Seq(Outcomes)
    BY <2>2, AppendProperties
  <2>4. aired' \in [Clients -> Seq(Outcomes)]
    BY <2>1, <2>2, <2>3
  <2>5. cmd' \in Replies
    BY <2>1 DEF Replies
  <2>. QED  BY <1>0, <2>1, <2>4, <2>5
<1>11. CASE Reply
  <2>1. /\ pc = "reply" /\ pc' \in {"close", "parse"}
        /\ UNCHANGED <<connfd, recbuf, cmd, backlog, seen, aired>>
        /\ replies' = [replies EXCEPT ![connfd] = Append(replies[connfd], cmd)]
    BY <1>11 DEF Reply, AfterCommand, procVars
  <2>2. connfd \in Clients /\ replies[connfd] \in Seq(Replies) /\ cmd \in Replies
    BY <2>1
  <2>3. Append(replies[connfd], cmd) \in Seq(Replies)
    BY <2>2, AppendProperties
  <2>4. replies' \in [Clients -> Seq(Replies)]
    BY <2>1, <2>2, <2>3
  <2>. QED  BY <1>0, <2>1, <2>4
<1>12. CASE ReplyFails
  BY <1>0, <1>12 DEF ReplyFails, procVars, histVars
<1>13. CASE Close
  BY <1>0, <1>13 DEF Close, histVars
<1>14. CASE Tick
  BY <1>0, <1>14 DEF Tick
<1>15. CASE Terminate
  BY <1>0, <1>15 DEF Terminate, procVars, histVars
<1>16. ASSUME NEW c \in Clients, Connect(c) PROVE TypeInv'
  <2>1. backlog' \in Seq(Clients)
    BY <1>16, AppendProperties DEF Connect
  <2>. QED  BY <1>0, <1>16, <2>1 DEF Connect, procVars, histVars
<1>17. ASSUME NEW c \in Clients, Write(c) \/ EndOfInput(c) \/ GoAway(c) PROVE TypeInv'
  BY <1>0, <1>17 DEF Write, EndOfInput, GoAway, procVars, histVars
<1>18. CASE UNCHANGED vars
  BY <1>18 DEF vars, procVars, histVars
<1>. QED  BY <1>1, <1>2, <1>3, <1>4, <1>5, <1>6, <1>7, <1>8, <1>9, <1>10, <1>11, <1>12, <1>13,
             <1>14, <1>15, <1>16, <1>17, <1>18 DEF Next, Process

(* What a step does to the clients that it does not serve: nothing, but that *)
(* one may come or go.                                                       *)
LEMMA Others ==
  ASSUME TypeInv, FramingInv, [Next]_vars
  PROVE  /\ \A c \in Clients : connfd # c => seen'[c] = seen[c] /\ aired'[c] = aired[c]
                                             /\ replies'[c] = replies[c]
         /\ \A c \in Clients : /\ client'[c].state = "away" => client[c].state = "away"
                               /\ client[c].state = "gone" => client'[c].state = "gone"
<1>0. /\ client \in [Clients -> ClientRec] /\ connfd \in Clients \cup {None}
      /\ seen \in [Clients -> Seq(STRING)] /\ aired \in [Clients -> Seq(Outcomes)]
      /\ replies \in [Clients -> Seq(Replies)]
  BY DEF TypeInv, ClientRec
<1>1. CASE UNCHANGED <<client, seen, aired, replies>>
  BY <1>1
<1>2. Accept \/ Interrupted \/ ReadEnds \/ Timeout \/ ParseDone \/ HandleEmpty
      \/ HandleError \/ ReplyFails \/ Tick \/ Terminate \/ UNCHANGED vars
      => UNCHANGED <<client, seen, aired, replies>>
  BY DEF Accept, Interrupted, ReadEnds, Timeout, ParseDone, HandleEmpty, HandleError,
         ReplyFails, Tick, Terminate, vars, procVars, histVars
<1>3. CASE Parse
  <2>1. UNCHANGED <<client, aired, replies>>
    BY <1>3 DEF Parse
  <2>2. \A c \in Clients : connfd # c => seen'[c] = seen[c]
    BY <1>0, <1>3, ParseByte
  <2>. QED  BY <2>1, <2>2
<1>4. CASE HandleSend
  <2>1. UNCHANGED <<client, seen, replies>>
    BY <1>4 DEF HandleSend
  <2>2. \A c \in Clients : connfd # c => aired'[c] = aired[c]
    BY <1>0, <1>4 DEF HandleSend
  <2>. QED  BY <2>1, <2>2
<1>5. CASE Reply
  <2>1. UNCHANGED <<client, seen, aired>>
    BY <1>5 DEF Reply
  <2>2. \A c \in Clients : connfd # c => replies'[c] = replies[c]
    BY <1>0, <1>5 DEF Reply
  <2>. QED  BY <2>1, <2>2
<1>6. CASE Read
  <2>1. UNCHANGED <<seen, aired, replies>>
    BY <1>6 DEF Read, histVars
  <2>2. \A c \in Clients : client'[c].state = client[c].state
    BY <1>0, <1>6 DEF Read, ClientRec
  <2>. QED  BY <2>1, <2>2
<1>7. CASE Close
  <2>1. UNCHANGED <<seen, aired, replies>>
    BY <1>7 DEF Close, histVars
  <2>2. ASSUME NEW c \in Clients
        PROVE  /\ client'[c].state = "away" => client[c].state = "away"
               /\ client[c].state = "gone" => client'[c].state = "gone"
    BY <1>0, <1>7 DEF Close, ClientRec
  <2>3. \A c \in Clients : connfd # c => seen'[c] = seen[c] /\ aired'[c] = aired[c]
                                         /\ replies'[c] = replies[c]
    BY <2>1
  <2>. QED  BY <2>2, <2>3
<1>8. ASSUME NEW d \in Clients, Connect(d) \/ Write(d) \/ EndOfInput(d) \/ GoAway(d)
      PROVE  /\ UNCHANGED <<seen, aired, replies>>
             /\ \A c \in Clients : /\ client'[c].state = "away" => client[c].state = "away"
                                   /\ client[c].state = "gone" => client'[c].state = "gone"
  <2>1. UNCHANGED <<seen, aired, replies>>
    BY <1>8 DEF Connect, Write, EndOfInput, GoAway, histVars
  <2>2. CASE Connect(d)
    BY <1>0, <2>1, <2>2 DEF Connect, ClientRec
  <2>3. CASE Write(d)
    <3>1. PICK w, t : client' = [client EXCEPT ![d].wire = w, ![d].todo = t]
      BY <2>3 DEF Write
    <3>2. \A c \in Clients : client'[c].state = client[c].state
      BY <1>0, <3>1 DEF ClientRec
    <3>. QED  BY <2>1, <3>2
  <2>4. CASE EndOfInput(d)
    BY <1>0, <2>1, <2>4 DEF EndOfInput, ClientRec
  <2>5. CASE GoAway(d)
    BY <1>0, <2>1, <2>5 DEF GoAway, ClientRec
  <2>. QED  BY <1>8, <2>2, <2>3, <2>4, <2>5
<1>. QED  BY <1>1, <1>2, <1>3, <1>4, <1>5, <1>6, <1>7, <1>8 DEF Next, Process

LEMMA StepQueue ==
  ASSUME TypeInv, QueueInv, FramingInv, [Next]_vars PROVE QueueInv'
<1>. USE RsswitchdAssumption
<1>0. /\ \A c \in Clients : connfd # c => (Untouched(c) => Untouched(c)')
      /\ \A c \in Clients : client'[c].state = "away" => client[c].state = "away"
  BY Others DEF Untouched
<1>1. backlog \in Seq(Clients) /\ Len(backlog) \in Nat
      /\ \A i \in 1..Len(backlog) : backlog[i] \in Clients
  BY ElementOfSeq, LenProperties DEF TypeInv
<1>2. CASE Accept
  <2>1. /\ connfd = None /\ backlog # <<>> /\ connfd' = Head(backlog) /\ backlog' = Tail(backlog)
        /\ UNCHANGED <<client, seen, aired, replies>>
    BY <1>2 DEF Accept, TypeInv
  <2>2. /\ Len(backlog) >= 1 /\ Head(backlog) = backlog[1]
        /\ Len(backlog') = Len(backlog) - 1
        /\ \A i \in 1..Len(backlog') : backlog'[i] = backlog[i + 1]
    BY <1>1, <2>1, HeadTailProperties, EmptySeq
  <2>3. \A i \in 1..Len(backlog') : i + 1 \in 1..Len(backlog) /\ 1 \in 1..Len(backlog) /\ i + 1 # 1
    BY <1>1, <2>2
  <2>4. \A c : Untouched(c) => seen'[c] = <<>> /\ aired'[c] = <<>> /\ replies'[c] = <<>>
    BY <2>1 DEF Untouched
  <2>5. \A c \in Clients : client'[c].state = "away" =>
          /\ seen'[c] = <<>> /\ aired'[c] = <<>> /\ replies'[c] = <<>>
          /\ connfd' # c
          /\ \A i \in 1..Len(backlog') : backlog'[i] # c
    BY <1>1, <2>1, <2>2, <2>3, <2>4 DEF QueueInv
  <2>6. \A i \in 1..Len(backlog') :
          /\ seen'[backlog'[i]] = <<>> /\ aired'[backlog'[i]] = <<>> /\ replies'[backlog'[i]] = <<>>
          /\ backlog'[i] # connfd'
    BY <1>1, <2>1, <2>2, <2>3, <2>4 DEF QueueInv
  <2>7. \A i, j \in 1..Len(backlog') : backlog'[i] = backlog'[j] => i = j
    BY <1>1, <2>1, <2>2, <2>3 DEF QueueInv
  <2>. QED  BY <2>5, <2>6, <2>7 DEF QueueInv, Untouched
<1>3. ASSUME NEW d \in Clients, Connect(d) PROVE QueueInv'
  <2>1. /\ client[d].state = "away" /\ backlog' = Append(backlog, d)
        /\ client' = [client EXCEPT ![d].state = "open"]
        /\ UNCHANGED <<connfd, seen, aired, replies>>
    BY <1>3 DEF Connect, procVars, histVars
  <2>2. /\ Len(backlog') = Len(backlog) + 1 /\ backlog'[Len(backlog) + 1] = d
        /\ \A i \in 1..Len(backlog) : backlog'[i] = backlog[i]
    BY <1>1, <2>1, AppendProperties
  <2>3. \A i \in 1..Len(backlog') : i = Len(backlog) + 1 \/ i \in 1..Len(backlog)
    BY <1>1, <2>2
  <2>4. \A c : Untouched(c) => seen'[c] = <<>> /\ aired'[c] = <<>> /\ replies'[c] = <<>>
    BY <2>1 DEF Untouched
  <2>5. \A c \in Clients : client'[c].state = "away" => client[c].state = "away" /\ c # d
    BY <2>1 DEF TypeInv
  <2>6. \A c \in Clients : client'[c].state = "away" =>
          /\ seen'[c] = <<>> /\ aired'[c] = <<>> /\ replies'[c] = <<>>
          /\ connfd' # c
          /\ \A i \in 1..Len(backlog') : backlog'[i] # c
    BY <1>1, <2>1, <2>2, <2>3, <2>4, <2>5 DEF QueueInv
  <2>7. \A i \in 1..Len(backlog') :
          /\ seen'[backlog'[i]] = <<>> /\ aired'[backlog'[i]] = <<>> /\ replies'[backlog'[i]] = <<>>
          /\ backlog'[i] # connfd'
    BY <1>1, <2>1, <2>2, <2>3, <2>4 DEF QueueInv
  <2>8. \A i, j \in 1..Len(backlog') : backlog'[i] = backlog'[j] => i = j
    BY <1>1, <2>1, <2>2, <2>3 DEF QueueInv
  <2>. QED  BY <2>6, <2>7, <2>8 DEF QueueInv, Untouched
<1>4. CASE backlog' = backlog /\ connfd' \in {connfd, None}
  <2>1. \A c \in Clients : client'[c].state = "away" =>
          /\ Untouched(c)' /\ connfd' # c
          /\ \A i \in 1..Len(backlog') : backlog'[i] # c
    BY <1>0, <1>4 DEF QueueInv
  <2>2. \A i \in 1..Len(backlog) : Untouched(backlog[i])' /\ backlog[i] # connfd'
    BY <1>0, <1>1, <1>4 DEF QueueInv
  <2>3. \A i, j \in 1..Len(backlog') : backlog'[i] = backlog'[j] => i = j
    BY <1>4 DEF QueueInv
  <2>. QED  BY <1>4, <2>1, <2>2, <2>3 DEF QueueInv, Untouched
<1>5. Process \/ Tick \/ Terminate \/ UNCHANGED vars =>
        Accept \/ (backlog' = backlog /\ connfd' \in {connfd, None})
  BY DEF Process, Interrupted, Read, ReadEnds, Timeout, Parse, ParseDone, HandleEmpty,
         HandleError, HandleSend, Reply, ReplyFails, Close, Tick, Terminate, vars, procVars
<1>6. \A d \in Clients : Write(d) \/ EndOfInput(d) \/ GoAway(d) =>
        backlog' = backlog /\ connfd' \in {connfd, None}
  BY DEF Write, EndOfInput, GoAway, procVars
<1>. QED  BY <1>2, <1>3, <1>4, <1>5, <1>6 DEF Next

LEMMA StepFraming ==
  ASSUME TypeInv, QueueInv, FramingInv, [Next]_vars PROVE FramingInv'
<1>. USE RsswitchdAssumption
<1>1. CASE Accept
  <2>1. /\ backlog # <<>> /\ connfd' = Head(backlog) /\ proto' = proto_init /\ seen' = seen
    BY <1>1 DEF Accept
  <2>2. seen[Head(backlog)] = <<>>
    <3>1. backlog \in Seq(Clients) /\ 1 \in 1..Len(backlog) /\ Head(backlog) = backlog[1]
      BY <2>1, EmptySeq, LenProperties DEF TypeInv
    <3>. QED  BY <3>1 DEF QueueInv, Untouched
  <2>3. Framed(<<>>) = proto_init
    <3>1. Len(OpenLine(<<>>)) = 0
      BY NothingYet
    <3>2. ~(Len(OpenLine(<<>>)) > PROTO_MAX_LINE)
      BY <3>1, ProtoAssumption
    <3>. QED  BY <3>2, NothingYet DEF Framed, proto_init
  <2>. QED  BY <2>1, <2>2, <2>3 DEF FramingInv
<1>2. CASE Parse
  <2>1. connfd' = connfd /\ seen \in [Clients -> Seq(STRING)]
    BY <1>2 DEF Parse, TypeInv
  <2>2. connfd \in Clients /\ connfd # None
    BY <1>2, ParseByte
  <2>3. CASE UNCHANGED <<seen, proto>>
    BY <2>1, <2>3 DEF FramingInv
  <2>4. ASSUME NEW more, seen' = [seen EXCEPT ![connfd] = more], proto' = Framed(more)
        PROVE  FramingInv'
    BY <2>1, <2>2, <2>4 DEF FramingInv
  <2>. QED  BY <1>2, <2>3, <2>4, ParseByte
<1>3. CASE Close
  BY <1>3 DEF Close, FramingInv
<1>4. CASE UNCHANGED <<connfd, proto, seen>>
  BY <1>4 DEF FramingInv
<1>5. Process \/ Tick \/ Terminate \/ UNCHANGED vars =>
        Accept \/ Parse \/ Close \/ UNCHANGED <<connfd, proto, seen>>
  BY DEF Process, Interrupted, Read, ReadEnds, Timeout, ParseDone, HandleEmpty,
         HandleError, HandleSend, Reply, ReplyFails, Tick, Terminate, vars, procVars, histVars
<1>6. \A d \in Clients : Connect(d) \/ Write(d) \/ EndOfInput(d) \/ GoAway(d) =>
        UNCHANGED <<connfd, proto, seen>>
  BY DEF Connect, Write, EndOfInput, GoAway, procVars, histVars
<1>. QED  BY <1>1, <1>2, <1>3, <1>4, <1>5, <1>6 DEF Next

-----------------------------------------------------------------------------
(* The account of a client that is not served, before or after the step.     *)
LEMMA AccountOther ==
  ASSUME NEW c \in Clients, Account(c), connfd # c, connfd' # c,
         seen'[c] = seen[c], aired'[c] = aired[c], replies'[c] = replies[c],
         client[c].state = "gone" => client'[c].state = "gone"
  PROVE  Account(c)'
<1>1. Confirmed(c)' = Confirmed(c)
  BY DEF Confirmed
<1>2. RepliesFit(c)'
  BY DEF Account, RepliesFit
<1>3. CASE Len(replies[c]) = Len(Answered(seen[c])) /\ Settled(c)
  BY <1>1, <1>2, <1>3 DEF Account, Settled
<1>4. CASE Len(replies[c]) = Len(Answered(seen[c])) - 1 /\ Owed(c)
  BY <1>1, <1>2, <1>4 DEF Account, Owed
<1>. QED  BY <1>3, <1>4 DEF Account

(* While the daemon reads and parses, nothing is owed to the client that it  *)
(* serves.                                                                   *)
LEMMA AccountServed ==
  ASSUME NEW c \in Clients, Account(c), connfd = c, pc \in {"wait", "parse"}
  PROVE  /\ RepliesFit(c) /\ Len(replies[c]) = Len(Answered(seen[c]))
         /\ aired[c] = Confirmed(c)
BY DEF Account, Owed, Settled

(* It has no command or reply under way after the step either.               *)
LEMMA AccountSettles ==
  ASSUME NEW c \in Clients,
         RepliesFit(c), Len(replies[c]) = Len(Answered(seen[c])), aired[c] = Confirmed(c),
         Answered(seen'[c]) = Answered(seen[c]), aired'[c] = aired[c], replies'[c] = replies[c],
         pc' = "handle" => cmd'.kind = "EMPTY", pc' # "reply"
  PROVE  Account(c)'
<1>1. Confirmed(c)' = Confirmed(c)
  BY DEF Confirmed
<1>2. RepliesFit(c)'
  BY DEF RepliesFit
<1>. QED  BY <1>1, <1>2 DEF Account, Settled

LEMMA AccountAccept ==
  ASSUME TypeInv, QueueInv, Accept, NEW c \in Clients, connfd' = c
  PROVE  Account(c)'
<1>1. /\ backlog # <<>> /\ connfd' = Head(backlog) /\ pc' \in {"wait", "close"}
      /\ UNCHANGED <<seen, aired, replies>>
  BY DEF Accept
<1>2. backlog \in Seq(Clients) /\ 1 \in 1..Len(backlog) /\ Head(backlog) = backlog[1]
  BY <1>1, EmptySeq, LenProperties DEF TypeInv
<1>3. seen[c] = <<>> /\ aired[c] = <<>> /\ replies[c] = <<>>
  BY <1>1, <1>2 DEF QueueInv, Untouched
<1>4. Answered(seen[c]) = <<>> /\ Len(replies[c]) = 0
  BY <1>3, AnsweredEmpty
<1>5. Confirmed(c) = <<>>
  BY <1>4, PickedEmpty DEF Confirmed
<1>6. RepliesFit(c)
  BY <1>4 DEF RepliesFit
<1>. QED  BY <1>1, <1>3, <1>4, <1>5, <1>6, AccountSettles

LEMMA AccountParse ==
  ASSUME TypeInv, FramingInv, Parse, NEW c \in Clients, Account(c), connfd = c
  PROVE  Account(c)'
<1>. DEFINE want == Answered(seen[c])
            have == replies[c]
<1>1. pc = "parse" /\ UNCHANGED <<connfd, aired, replies>>
  BY DEF Parse
<1>2. RepliesFit(c) /\ Len(have) = Len(want) /\ aired[c] = Confirmed(c)
  BY <1>1, AccountServed
<1>3. /\ seen \in [Clients -> Seq(STRING)] /\ want \in Seq(Outcomes) /\ have \in Seq(Replies)
      /\ Len(have) \in Nat
  BY AnsweredType, LenProperties DEF TypeInv
<1>4. CASE UNCHANGED <<pc, seen, proto>>
  BY <1>1, <1>2, <1>4, AccountSettles
<1>5. ASSUME NEW more, seen' = [seen EXCEPT ![c] = more], pc' = pc, Answered(more) = want
      PROVE  Account(c)'
  BY <1>1, <1>2, <1>3, <1>5, AccountSettles
<1>6. ASSUME NEW more, seen' = [seen EXCEPT ![c] = more], pc' = "handle",
             cmd'.kind = "EMPTY", Answered(more) = want
      PROVE  Account(c)'
  BY <1>1, <1>2, <1>3, <1>6, AccountSettles
<1>7. ASSUME NEW more, seen' = [seen EXCEPT ![c] = more], pc' = "handle",
             cmd' \in Outcomes, cmd'.kind # "EMPTY", Answered(more) = Append(want, cmd')
      PROVE  Account(c)'
  <2>1. seen'[c] = more
    BY <1>3, <1>7
  <2>2. /\ Len(Answered(more)) = Len(want) + 1 /\ Answered(more)[Len(want) + 1] = cmd'
        /\ \A i \in 1..Len(want) : Answered(more)[i] = want[i]
    <3>. HIDE DEF want
    <3>. QED  BY <1>3, <1>7, AppendProperties
  <2>3. Confirmed(c)' = Confirmed(c)
    <3>1. Confirmed(c) = ConfirmedOf(want, have)
      BY ConfirmedIs
    <3>2. Confirmed(c)' = ConfirmedOf(Append(want, cmd'), have)
      BY <1>1, <1>7, <2>1 DEF Confirmed, ConfirmedOf, OK
    <3>3. ConfirmedOf(Append(want, cmd'), have) = ConfirmedOf(want, have)
      <4>. HIDE DEF want, have
      <4>. QED  BY <1>2, <1>3, <1>7, ConfirmedGrows
    <3>. QED  BY <3>1, <3>2, <3>3
  <2>4. RepliesFit(c)'
    <3>1. ASSUME NEW i \in 1..Len(have)
          PROVE  i <= Len(Answered(more)) /\ Fits(have[i], Answered(more)[i])
      <4>1. i \in 1..Len(want) /\ Fits(have[i], want[i])
        BY <1>2 DEF RepliesFit
      <4>. HIDE DEF want, have
      <4>. QED  BY <1>2, <1>3, <2>2, <4>1
    <3>. QED  BY <1>1, <2>1, <3>1 DEF RepliesFit, Fits
  <2>5. Last(Answered(more)) = cmd'
    BY <2>2 DEF Last
  <2>6. Owed(c)'
    BY <1>1, <1>2, <1>7, <2>1, <2>3, <2>5 DEF Owed
  <2>7. Len(have) = Len(Answered(more)) - 1
    <3>. HIDE DEF want, have
    <3>. QED  BY <1>2, <1>3, <2>2
  <2>. QED  BY <1>1, <2>1, <2>4, <2>6, <2>7 DEF Account
<1>. QED  BY <1>4, <1>5, <1>6, <1>7, ParseByte

(* In handle_command() a command or an error is owed its reply, ...          *)
LEMMA AccountHandled ==
  ASSUME NEW c \in Clients, Account(c), connfd = c, pc = "handle", cmd.kind # "EMPTY"
  PROVE  /\ RepliesFit(c) /\ Len(replies[c]) = Len(Answered(seen[c])) - 1
         /\ aired[c] = Confirmed(c) /\ cmd = Last(Answered(seen[c]))
BY DEF Account, Owed, Settled

LEMMA AccountHandleEmpty ==
  ASSUME NEW c \in Clients, Account(c), connfd = c, HandleEmpty
  PROVE  Account(c)'
<1>1. /\ pc = "handle" /\ cmd.kind = "EMPTY" /\ pc' \in {"close", "parse"}
      /\ UNCHANGED <<seen, aired, replies>>
  BY DEF HandleEmpty, AfterCommand, histVars
<1>2. RepliesFit(c) /\ Len(replies[c]) = Len(Answered(seen[c])) /\ aired[c] = Confirmed(c)
  BY <1>1 DEF Account, Owed, Settled
<1>. QED  BY <1>1, <1>2, AccountSettles

LEMMA AccountHandleError ==
  ASSUME NEW c \in Clients, Account(c), connfd = c, HandleError
  PROVE  Account(c)'
<1>1. /\ pc = "handle" /\ cmd.kind = "ERROR" /\ pc' = "reply"
      /\ UNCHANGED <<connfd, cmd, seen, aired, replies>>
  BY DEF HandleError, procVars, histVars
<1>2. /\ RepliesFit(c) /\ Len(replies[c]) = Len(Answered(seen[c])) - 1
      /\ aired[c] = Confirmed(c) /\ cmd = Last(Answered(seen[c]))
  BY <1>1, AccountHandled
<1>3. Confirmed(c)' = Confirmed(c) /\ RepliesFit(c)'
  BY <1>1, <1>2 DEF Confirmed, RepliesFit
<1>4. Fits(cmd, cmd) /\ cmd # [kind |-> "OK"]
  BY <1>1 DEF Fits, Commands
<1>5. Owed(c)'
  BY <1>1, <1>2, <1>3, <1>4 DEF Owed
<1>. QED  BY <1>1, <1>2, <1>3, <1>5 DEF Account

LEMMA AccountHandleSend ==
  ASSUME TypeInv, NEW c \in Clients, Account(c), connfd = c, HandleSend
  PROVE  Account(c)'
<1>1. /\ pc = "handle" /\ cmd.kind \in Commands /\ pc' = "reply"
      /\ UNCHANGED <<connfd, seen, replies>>
      /\ \/ cmd' = [kind |-> "OK"] /\ aired' = [aired EXCEPT ![c] = Append(aired[c], cmd)]
         \/ cmd' = Error("send") /\ aired' = aired
  BY DEF HandleSend
<1>2. /\ RepliesFit(c) /\ Len(replies[c]) = Len(Answered(seen[c])) - 1
      /\ aired[c] = Confirmed(c) /\ cmd = Last(Answered(seen[c]))
  BY <1>1, AccountHandled DEF Commands
<1>3. Confirmed(c)' = Confirmed(c) /\ RepliesFit(c)'
  BY <1>1, <1>2 DEF Confirmed, RepliesFit
<1>4. Fits(cmd', cmd)
  BY <1>1 DEF Fits
<1>5. Error("send") # [kind |-> "OK"]
  BY DEF Error
<1>6. aired'[c] = IF cmd' = [kind |-> "OK"] THEN Append(Confirmed(c), cmd) ELSE Confirmed(c)
  BY <1>1, <1>2, <1>5 DEF TypeInv
<1>7. Owed(c)'
  <2>1. Fits(cmd', Last(Answered(seen[c])))
    BY <1>2, <1>4
  <2>2. Fits(cmd, Last(Answered(seen[c])))'
    BY <1>1, <2>1 DEF Fits
  <2>. QED  BY <1>1, <1>2, <1>3, <1>6, <2>2 DEF Owed
<1>. QED  BY <1>1, <1>2, <1>3, <1>7 DEF Account

(* ... which send_reply() writes ...                                         *)
LEMMA AccountReply ==
  ASSUME TypeInv, NEW c \in Clients, Account(c), connfd = c, Reply
  PROVE  Account(c)'
<1>. DEFINE want == Answered(seen[c])
            have == replies[c]
            more == Append(have, cmd)
<1>1. /\ pc = "reply" /\ pc' \in {"close", "parse"} /\ UNCHANGED <<connfd, seen, aired>>
      /\ replies' = [replies EXCEPT ![c] = more]
  BY DEF Reply, AfterCommand, procVars
<1>2. /\ RepliesFit(c) /\ Len(have) = Len(want) - 1 /\ Fits(cmd, Last(want))
      /\ aired[c] = IF cmd = OK THEN Append(Confirmed(c), Last(want)) ELSE Confirmed(c)
  BY <1>1 DEF Account, Owed, Settled, OK
<1>3. /\ want \in Seq(Outcomes) /\ have \in Seq(Replies) /\ cmd \in Replies
      /\ Len(have) \in Nat /\ Len(want) \in Nat
  BY <1>1, AnsweredType, LenProperties DEF TypeInv
<1>4. replies'[c] = more
  BY <1>1 DEF TypeInv
<1>5. /\ Len(more) = Len(have) + 1 /\ more[Len(have) + 1] = cmd
      /\ \A i \in 1..Len(have) : more[i] = have[i]
  <2>. HIDE DEF have
  <2>. QED  BY <1>3, AppendProperties
<1>6. Confirmed(c)' = aired[c]
  <2>1. Confirmed(c) = ConfirmedOf(want, have)
    BY ConfirmedIs
  <2>2. Confirmed(c)' = ConfirmedOf(want, more)
    BY <1>1, <1>4 DEF Confirmed, ConfirmedOf, OK
  <2>3. ConfirmedOf(want, more) =
          IF cmd = OK THEN Append(ConfirmedOf(want, have), Last(want)) ELSE ConfirmedOf(want, have)
    <3>. HIDE DEF want, have
    <3>. QED  BY <1>2, <1>3, ConfirmedReply
  <2>. QED  BY <1>2, <2>1, <2>2, <2>3
<1>7. ASSUME NEW i \in 1..Len(more) PROVE i <= Len(want) /\ Fits(more[i], want[i])
  <2>1. CASE i \in 1..Len(have)
    BY <1>2, <1>5, <2>1 DEF RepliesFit
  <2>2. CASE i = Len(have) + 1
    <3>1. Last(want) = want[Len(want)] /\ i = Len(want)
      BY <1>2, <1>3, <2>2 DEF Last
    <3>. HIDE DEF want, have, more
    <3>. QED  BY <1>2, <1>3, <1>5, <2>2, <3>1
  <2>3. i \in 1..Len(have) \/ i = Len(have) + 1
    <3>. HIDE DEF have, more
    <3>. QED  BY <1>3, <1>5
  <2>. QED  BY <2>1, <2>2, <2>3
<1>8. RepliesFit(c)'
  BY <1>1, <1>4, <1>7 DEF RepliesFit, Fits
<1>9. Settled(c)'
  BY <1>1, <1>6 DEF Settled
<1>10. Len(more) = Len(want)
  <2>. HIDE DEF want, have, more
  <2>. QED  BY <1>2, <1>3, <1>5
<1>. QED  BY <1>1, <1>4, <1>8, <1>9, <1>10 DEF Account

(* ... or cannot write, because the client has gone.                         *)
LEMMA AccountReplyFails ==
  ASSUME NEW c \in Clients, Account(c), connfd = c, ReplyFails
  PROVE  Account(c)'
<1>1. /\ pc = "reply" /\ pc' = "close" /\ client[c].state = "gone"
      /\ UNCHANGED <<connfd, client, seen, aired, replies>>
  BY DEF ReplyFails, procVars, histVars
<1>2. /\ RepliesFit(c) /\ Len(replies[c]) = Len(Answered(seen[c])) - 1
      /\ aired[c] \in {Confirmed(c), Append(Confirmed(c), Last(Answered(seen[c])))}
  BY <1>1 DEF Account, Owed, Settled
<1>3. Confirmed(c)' = Confirmed(c) /\ RepliesFit(c)'
  BY <1>1, <1>2 DEF Confirmed, RepliesFit
<1>. QED  BY <1>1, <1>2, <1>3 DEF Account, Owed

LEMMA AccountClose ==
  ASSUME TypeInv, NEW c \in Clients, Account(c), connfd = c, Close,
         client[c].state = "gone" => client'[c].state = "gone"
  PROVE  Account(c)'
<1>1. pc = "close" /\ connfd' = None /\ UNCHANGED <<seen, aired, replies>>
  BY DEF Close, histVars
<1>2. Confirmed(c)' = Confirmed(c)
  BY <1>1 DEF Confirmed
<1>3. RepliesFit(c)' /\ connfd' # c
  BY <1>1, RsswitchdAssumption DEF RepliesFit, Account
<1>4. CASE Len(replies[c]) = Len(Answered(seen[c])) /\ Settled(c)
  BY <1>1, <1>2, <1>3, <1>4 DEF Account, Settled
<1>5. CASE Len(replies[c]) = Len(Answered(seen[c])) - 1 /\ Owed(c)
  BY <1>1, <1>2, <1>3, <1>5 DEF Account, Owed
<1>. QED  BY <1>4, <1>5 DEF Account

(* A step that leaves all of it alone but where the client is.               *)
LEMMA AccountSame ==
  ASSUME NEW c \in Clients, Account(c), UNCHANGED <<pc, connfd, cmd, seen, aired, replies>>,
         client[c].state = "gone" => client'[c].state = "gone"
  PROVE  Account(c)'
<1>1. Confirmed(c)' = Confirmed(c) /\ RepliesFit(c)'
  BY DEF Confirmed, RepliesFit, Account
<1>2. CASE Len(replies[c]) = Len(Answered(seen[c])) /\ Settled(c)
  BY <1>1, <1>2 DEF Account, Settled
<1>3. CASE Len(replies[c]) = Len(Answered(seen[c])) - 1 /\ Owed(c)
  <2>1. Fits(cmd, Last(Answered(seen[c])))' <=> Fits(cmd, Last(Answered(seen[c])))
    BY DEF Fits
  <2>. QED  BY <1>1, <1>3, <2>1 DEF Account, Owed
<1>. QED  BY <1>2, <1>3 DEF Account

LEMMA StepAccount ==
  ASSUME Inv, [Next]_vars PROVE AccountInv'
<1>. USE RsswitchdAssumption DEF Inv
<1>. SUFFICES ASSUME NEW c \in Clients PROVE Account(c)'
  BY DEF AccountInv
<1>0. Account(c)
  BY DEF AccountInv
<1>1. /\ connfd # c => seen'[c] = seen[c] /\ aired'[c] = aired[c] /\ replies'[c] = replies[c]
      /\ client[c].state = "gone" => client'[c].state = "gone"
  BY Others
<1>2. CASE connfd # c /\ connfd' # c
  BY <1>0, <1>1, <1>2, AccountOther
<1>3. CASE Accept
  <2>1. connfd = None
    BY <1>3 DEF Accept, TypeInv
  <2>. QED  BY <1>2, <1>3, <2>1, AccountAccept
<1>4. CASE Interrupted \/ Read \/ ReadEnds \/ Timeout \/ ParseDone
  <2>1. /\ UNCHANGED <<connfd, seen, aired, replies>>
        /\ pc \in {"listen", "wait", "parse"} /\ pc' \in {"exited", "close", "parse", "wait"}
    BY <1>4 DEF Interrupted, Read, ReadEnds, Timeout, ParseDone, procVars, histVars
  <2>2. CASE connfd = c
    <3>1. pc \in {"wait", "parse"}
      BY <2>1, <2>2 DEF TypeInv
    <3>. QED  BY <1>0, <2>1, <2>2, <3>1, AccountServed, AccountSettles
  <2>. QED  BY <1>2, <2>1, <2>2
<1>5. CASE Parse
  BY <1>0, <1>2, <1>5, AccountParse DEF Parse
<1>6. CASE HandleEmpty
  BY <1>0, <1>2, <1>6, AccountHandleEmpty DEF HandleEmpty, procVars
<1>7. CASE HandleError
  BY <1>0, <1>2, <1>7, AccountHandleError DEF HandleError, procVars
<1>8. CASE HandleSend
  BY <1>0, <1>2, <1>8, AccountHandleSend DEF HandleSend
<1>9. CASE Reply
  BY <1>0, <1>2, <1>9, AccountReply DEF Reply, procVars
<1>10. CASE ReplyFails
  BY <1>0, <1>2, <1>10, AccountReplyFails DEF ReplyFails, procVars
<1>11. CASE Close
  BY <1>0, <1>1, <1>2, <1>11, AccountClose DEF Close
<1>12. CASE UNCHANGED <<pc, connfd, cmd, seen, aired, replies>>
  BY <1>0, <1>1, <1>12, AccountSame
<1>13. Tick \/ Terminate \/ UNCHANGED vars => UNCHANGED <<pc, connfd, cmd, seen, aired, replies>>
  BY DEF Tick, Terminate, vars, procVars, histVars
<1>14. \A d \in Clients : Connect(d) \/ Write(d) \/ EndOfInput(d) \/ GoAway(d) =>
         UNCHANGED <<pc, connfd, cmd, seen, aired, replies>>
  BY DEF Connect, Write, EndOfInput, GoAway, procVars, histVars
<1>. QED  BY <1>3, <1>4, <1>5, <1>6, <1>7, <1>8, <1>9, <1>10, <1>11, <1>12, <1>13, <1>14
          DEF Next, Process

LEMMA StepInv == Inv /\ [Next]_vars => Inv'
BY StepTypes, StepQueue, StepFraming, StepAccount DEF Inv

-----------------------------------------------------------------------------
(* "Every command gets exactly one reply line": for any number of clients    *)
(* and any bytes, in pieces of any size, the replies that send_reply() has   *)
(* written on a connection are those of its lines, in their order, and only  *)
(* the last may be missing, while it is worked on or because the client has  *)
(* gone; a stop request in between loses none.                               *)
THEOREM RepliesInOrder == Spec => []OneReplyPerCommandInOrder
<1>1. Inv => OneReplyPerCommandInOrder
  <2>. SUFFICES ASSUME Inv, NEW c \in Clients
                PROVE  LET want == Answered(seen[c])
                           have == replies[c]
                       IN  /\ \A i \in 1..Len(have) : i <= Len(want) /\ Fits(have[i], want[i])
                           /\ \/ Len(have) = Len(want)
                              \/ /\ Len(have) = Len(want) - 1
                                 /\ \/ connfd = c /\ pc \in {"handle", "reply"}
                                    \/ client[c].state = "gone"
    BY DEF OneReplyPerCommandInOrder
  <2>1. Account(c)
    BY DEF Inv, AccountInv
  <2>2. Owed(c) => (connfd = c /\ pc \in {"handle", "reply"}) \/ client[c].state = "gone"
    BY DEF Owed
  <2>. QED  BY <2>1, <2>2 DEF Account, RepliesFit
<1>. QED  BY <1>1, InitAll, StepInv, PTL DEF Spec

(* OK "once the codeword was actually sent": what handle_command() has sent  *)
(* for a connection is what was answered with OK, plus at most the one       *)
(* command whose reply is still to be written or can no longer be.           *)
THEOREM AiredIsConfirmed == Spec => []SentIffConfirmed
<1>1. Inv => SentIffConfirmed
  <2>. SUFFICES ASSUME Inv, NEW c \in Clients
                PROVE  \/ aired[c] = Confirmed(c)
                       \/ /\ aired[c] # <<>>
                          /\ Front(aired[c]) = Confirmed(c)
                          /\ Last(aired[c]) = Last(Answered(seen[c]))
                          /\ (connfd = c /\ pc = "reply") \/ client[c].state = "gone"
    BY DEF SentIffConfirmed
  <2>1. Account(c)
    BY DEF Inv, AccountInv
  <2>. DEFINE want == Answered(seen[c])
              conf == Confirmed(c)
  <2>2. want \in Seq(Outcomes)
    BY AnsweredType DEF Inv, TypeInv
  <2>3. conf \in Seq(Outcomes)
    BY <2>2, PickedType DEF Confirmed
  <2>4. \/ aired[c] = conf
        \/ /\ aired[c] = Append(conf, Last(want))
           /\ Len(replies[c]) = Len(want) - 1
           /\ (connfd = c /\ pc = "reply") \/ client[c].state = "gone"
    BY <2>1 DEF Account, Settled, Owed
  <2>5. CASE aired[c] = Append(conf, Last(want)) /\ Len(replies[c]) = Len(want) - 1
    <3>1. Len(replies[c]) \in Nat /\ Len(want) \in Nat
      BY <2>2, LenProperties DEF Inv, TypeInv
    <3>2. Len(want) \in 1..Len(want)
      BY <2>5, <3>1
    <3>3. Last(want) \in Outcomes
      BY <2>2, <3>2, ElementOfSeq DEF Last
    <3>. DEFINE more == Append(conf, Last(want))
    <3>4. /\ more \in Seq(Outcomes) /\ more # <<>> /\ Len(more) = Len(conf) + 1
          /\ more[Len(conf) + 1] = Last(want) /\ Len(conf) \in Nat
          /\ \A i \in 1..Len(conf) : more[i] = conf[i]
      <4>. HIDE DEF conf, want
      <4>. QED  BY <2>3, <3>3, AppendProperties, LenProperties
    <3>5. Last(more) = Last(want)
      BY <3>4 DEF Last
    <3>6. Front(more) = conf
      <4>1. Front(more) = SubSeq(more, 1, Len(conf))
        BY <3>4 DEF Front
      <4>2. \A i \in 1..Len(conf) : more[i] \in Outcomes
        BY <2>3, <3>4, ElementOfSeq
      <4>. HIDE DEF conf, want, more
      <4>3. /\ SubSeq(more, 1, Len(conf)) \in Seq(Outcomes)
            /\ Len(SubSeq(more, 1, Len(conf))) = Len(conf)
            /\ \A i \in 1..Len(conf) : SubSeq(more, 1, Len(conf))[i] = conf[i]
        BY <2>3, <3>4, <4>2, SubSeqProperties
      <4>. QED  BY <2>3, <4>1, <4>3, SeqEqual
    <3>. HIDE DEF more
    <3>. QED  BY <2>4, <2>5, <3>4, <3>5, <3>6 DEF more
  <2>. QED  BY <2>4, <2>5
<1>. QED  BY <1>1, InitAll, StepInv, PTL DEF Spec
=============================================================================
