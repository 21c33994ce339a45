----------------------------- MODULE WireProofs ------------------------------
(***************************************************************************)
(* What holds of the wire protocol for byte sequences of any length, and of *)
(* the path of a command for every request and every line.                  *)
(*                                                                          *)
(* Induction is used in the form of the least counterexample: a non-empty   *)
(* set of natural numbers has a least element.  From it follows that a      *)
(* primitive recursion has a solution and only one, and from that how each  *)
(* recursive function goes on when its sequence grows by one byte.          *)
(*                                                                          *)
(* The parts: the framing (ProtoByte: proto_next() byte by byte gives the   *)
(* results of the stream), which RsswitchdProofs builds on; the numbers     *)
(* (FieldNumber: a field that passes field_ok() is the one spelling of its  *)
(* value); the fields (splitting and joining are inverse); the parser       *)
(* (Grammar: it takes a line for what it spells); the air (OnlyItHears: the *)
(* frame of an address moves its socket alone); and the web app's checks.   *)
(* WireInv then ties them to the state.                                     *)
(***************************************************************************)
EXTENDS Wire, SequenceTheorems, WellFoundedInduction, TLAPS

(* A non-empty set of natural numbers has a least element.                   *)
LEMMA LeastElement ==
  ASSUME NEW T, T \subseteq Nat, T # {}
  PROVE  \E x \in T : \A y \in T : x <= y
<1>1. PICK x \in T : \A y \in T : ~ (<<y, x>> \in OpToRel(<, Nat))
  BY WFMin, NatLessThanWellFounded
<1>2. ASSUME NEW y \in T PROVE x <= y
  <2>1. <<y, x>> \in Nat \X Nat
    OBVIOUS
  <2>2. ~(y < x)
    BY <1>1, <2>1 DEF OpToRel
  <2>. QED  BY <2>2
<1>. QED  BY <1>2

(* Induction over the length of a sequence: a set that holds the empty        *)
(* sequence and every sequence of its own with one more element.             *)
LEMMA SeqInduction ==
  ASSUME NEW S, NEW T, <<>> \in T,
         \A s \in Seq(S) : s \in T => \A e \in S : Append(s, e) \in T
  PROVE  Seq(S) \subseteq T
<1>. DEFINE B == {s \in Seq(S) : s \notin T}
            L == {Len(s) : s \in B}
<1>. SUFFICES ASSUME B # {} PROVE FALSE
  OBVIOUS
<1>1. L \subseteq Nat /\ L # {}
  BY LenProperties
<1>2. PICK n \in L : \A m \in L : n <= m
  <2>. HIDE DEF L
  <2>. QED  BY <1>1, LeastElement
<1>3. PICK s \in B : n = Len(s)
  OBVIOUS
<1>4. s # <<>>
  OBVIOUS
<1>5. PICK u \in Seq(S), e \in S : s = Append(u, e)
  BY <1>4, SequenceEmptyOrAppend
<1>6. Len(s) = Len(u) + 1 /\ Len(u) \in Nat
  BY <1>5, AppendProperties, LenProperties
<1>7. u \notin B
  <2>1. u \in B => Len(u) \in L
    OBVIOUS
  <2>. HIDE DEF L, B
  <2>. QED  BY <1>1, <1>2, <1>3, <1>6, <2>1
<1>. QED  BY <1>5, <1>7

(* The functions on 0..n that start with base and go on by h.                *)
Follows(f, n, base, h) ==
  f[0] = base /\ \A i \in 1..n : f[i] = h[<<i, f[i - 1]>>]

(* Two of them agree.                                                        *)
LEMMA FollowsUnique ==
  ASSUME NEW n \in Nat, NEW base, NEW h, NEW f, NEW g,
         Follows(f, n, base, h), Follows(g, n, base, h)
  PROVE  \A i \in 0..n : f[i] = g[i]
<1>. DEFINE T == {i \in 0..n : f[i] # g[i]}
<1>. SUFFICES ASSUME T # {} PROVE FALSE
  OBVIOUS
<1>0. T \subseteq Nat
  OBVIOUS
<1>1. PICK x \in T : \A y \in T : x <= y
  <2>. HIDE DEF T
  <2>. QED  BY <1>0, LeastElement
<1>2. x # 0
  BY DEF Follows
<1>3. x - 1 \in 0..n /\ x - 1 \notin T /\ x \in 1..n
  BY <1>1, <1>2
<1>4. f[x] = h[<<x, f[x - 1]>>] /\ g[x] = h[<<x, g[x - 1]>>]
  BY <1>3 DEF Follows
<1>. QED  BY <1>3, <1>4

(* One exists.                                                               *)
LEMMA FollowsExists ==
  ASSUME NEW N \in Nat, NEW A, NEW base \in A, NEW h \in [(1..N) \X A -> A]
  PROVE  \E f \in [0..N -> A] : Follows(f, N, base, h)
<1>. DEFINE Good(n) == \E f \in [0..n -> A] : Follows(f, n, base, h)
            T == {n \in 0..N : ~Good(n)}
<1>. SUFFICES ASSUME T # {} PROVE FALSE
  OBVIOUS
<1>0. T \subseteq Nat
  OBVIOUS
<1>1. PICK x \in T : \A y \in T : x <= y
  <2>. HIDE DEF T
  <2>. QED  BY <1>0, LeastElement
<1>2. x # 0
  <2>1. [i \in 0..0 |-> base] \in [0..0 -> A] /\ Follows([i \in 0..0 |-> base], 0, base, h)
    BY DEF Follows
  <2>. QED  BY <2>1
<1>3. x - 1 \in 0..N /\ x - 1 \notin T /\ x \in 1..N
  BY <1>1, <1>2
<1>4. PICK f \in [0..(x - 1) -> A] : Follows(f, x - 1, base, h)
  BY <1>3
<1>. DEFINE g == [i \in 0..x |-> IF i = x THEN h[<<x, f[x - 1]>>] ELSE f[i]]
<1>5. f[x - 1] \in A /\ h[<<x, f[x - 1]>>] \in A
  BY <1>3
<1>6. g \in [0..x -> A]
  BY <1>3, <1>5
<1>7. g[0] = base
  BY <1>3, <1>4 DEF Follows
<1>8. ASSUME NEW i \in 1..x PROVE g[i] = h[<<i, g[i - 1]>>]
  <2>0. i - 1 \in 0..(x-1) /\ g[i - 1] = f[i - 1]
    BY <1>3
  <2>1. CASE i = x
    <3>1. g[x] = h[<<x, f[x - 1]>>]
      BY <1>3
    <3>. HIDE DEF g
    <3>. QED  BY <2>0, <2>1, <3>1
  <2>2. CASE i # x
    <3>1. i \in 1..(x - 1) /\ g[i] = f[i]
      BY <2>2, <1>3
    <3>. QED  BY <3>1, <2>0, <1>4 DEF Follows
  <2>. QED  BY <2>1, <2>2
<1>9. Follows(g, x, base, h)
  BY <1>7, <1>8 DEF Follows
<1>. QED  BY <1>6, <1>9, <1>3

-----------------------------------------------------------------------------
(* Pieces.                                                                   *)
PieceLists(S) == {ps \in Seq(Seq(S)) : Len(ps) >= 1}

PieceRule(bytes, sep, S) ==
  [x \in (1..Len(bytes)) \X PieceLists(S) |-> PieceStep(x[2], bytes[x[1]], sep)]

LEMMA PieceStepType ==
  ASSUME NEW S, NEW ps \in PieceLists(S), NEW c \in S, NEW sep
  PROVE  PieceStep(ps, c, sep) \in PieceLists(S)
<1>1. Append(ps, <<>>) \in Seq(Seq(S)) /\ Len(Append(ps, <<>>)) = Len(ps) + 1
  BY AppendProperties, EmptySeq DEF PieceLists
<1>2. ps[Len(ps)] \in Seq(S) /\ Append(ps[Len(ps)], c) \in Seq(S)
  BY ElementOfSeq, AppendProperties DEF PieceLists
<1>3. /\ [ps EXCEPT ![Len(ps)] = Append(ps[Len(ps)], c)] \in Seq(Seq(S))
      /\ Len([ps EXCEPT ![Len(ps)] = Append(ps[Len(ps)], c)]) = Len(ps)
  BY <1>2, ExceptSeq DEF PieceLists
<1>. QED  BY <1>1, <1>3 DEF PieceStep, PieceLists

(* A separator adds an empty piece ...                                       *)
LEMMA PieceStepSep ==
  ASSUME NEW S, NEW ps \in PieceLists(S), NEW sep
  PROVE  LET qs == PieceStep(ps, sep, sep)
         IN  /\ Len(qs) = Len(ps) + 1
             /\ \A i \in 1..Len(ps) : qs[i] = ps[i]
             /\ Last(qs) = <<>>
BY AppendProperties, EmptySeq DEF PieceStep, PieceLists, Last

(* ... and any other byte makes the last piece longer.                       *)
LEMMA PieceStepOther ==
  ASSUME NEW S, NEW ps \in PieceLists(S), NEW c \in S, NEW sep, c # sep
  PROVE  LET qs == PieceStep(ps, c, sep)
         IN  /\ Len(qs) = Len(ps)
             /\ \A i \in 1..(Len(ps) - 1) : qs[i] = ps[i]
             /\ Last(qs) = Append(Last(ps), c)
<1>1. ps[Len(ps)] \in Seq(S)
  BY ElementOfSeq DEF PieceLists
<1>2. Append(ps[Len(ps)], c) \in Seq(S)
  BY <1>1, AppendProperties
<1>3. /\ Len(ps) \in Nat /\ Len(ps) \in 1..Len(ps) /\ ps \in Seq(Seq(S))
  BY LenProperties DEF PieceLists
<1>. DEFINE e == Append(ps[Len(ps)], c)
            qs == [ps EXCEPT ![Len(ps)] = e]
<1>4. /\ Len(qs) = Len(ps)
      /\ \A j \in 1..Len(ps) : qs[j] = IF j = Len(ps) THEN e ELSE ps[j]
  <2>. HIDE DEF e
  <2>. QED  BY <1>2, <1>3, ExceptSeq DEF e
<1>5. PieceStep(ps, c, sep) = qs
  BY DEF PieceStep
<1>6. Append(Last(ps), c) = e /\ Last(qs) = qs[Len(qs)]
  BY DEF Last
<1>7. /\ \A i \in 1..(Len(ps) - 1) : qs[i] = ps[i]
      /\ Last(qs) = Append(Last(ps), c)
  <2>. HIDE DEF qs, e
  <2>. QED  BY <1>3, <1>4, <1>6
<1>. HIDE DEF qs
<1>. QED  BY <1>4, <1>5, <1>7

LEMMA PiecesFollow ==
  ASSUME NEW S, NEW bytes \in Seq(S), NEW sep
  PROVE  \E f \in [0..Len(bytes) -> PieceLists(S)] :
           /\ Follows(f, Len(bytes), << <<>> >>, PieceRule(bytes, sep, S))
           /\ Pieces(bytes, sep) = f[Len(bytes)]
<1>. DEFINE N == Len(bytes)
            A == PieceLists(S)
            h == PieceRule(bytes, sep, S)
            D(f) == [n \in 0..N |-> IF n = 0 THEN << <<>> >>
                                     ELSE PieceStep(f[n - 1], bytes[n], sep)]
            fix == CHOOSE f : f = D(f)
<1>1. N \in Nat /\ \A n \in 1..N : bytes[n] \in S
  BY LenProperties, ElementOfSeq
<1>2. << <<>> >> \in A
  BY DEF PieceLists
<1>3. h \in [(1..N) \X A -> A]
  BY <1>1, PieceStepType DEF PieceRule
<1>4. PICK g \in [0..N -> A] : Follows(g, N, << <<>> >>, h)
  <2>. HIDE DEF N, A, h
  <2>. QED  BY <1>1, <1>2, <1>3, FollowsExists
<1>5. ASSUME NEW i \in 1..N, NEW ps \in A
      PROVE  h[<<i, ps>>] = PieceStep(ps, bytes[i], sep)
  BY DEF PieceRule
<1>6. g = D(g)
  <2>1. ASSUME NEW n \in 0..N PROVE g[n] = D(g)[n]
    <3>1. CASE n = 0
      BY <3>1, <1>4 DEF Follows
    <3>2. CASE n # 0
      <4>1. n \in 1..N /\ n - 1 \in 0..N
        BY <3>2, <1>1
      <4>2. g[n - 1] \in A /\ g[n] = h[<<n, g[n - 1]>>]
        BY <4>1, <1>4 DEF Follows
      <4>3. g[n] = PieceStep(g[n - 1], bytes[n], sep)
        BY <4>1, <4>2, <1>5
      <4>. QED  BY <4>3, <3>2
    <3>. QED  BY <3>1, <3>2
  <2>. QED  BY <2>1
<1>7. fix = D(fix)
  <2>. HIDE DEF D
  <2>. QED  BY <1>6
<1>8. fix = g
  <2>. DEFINE T == {n \in 0..N : fix[n] # g[n]}
  <2>1. T = {}
    <3>. SUFFICES ASSUME T # {} PROVE FALSE
      OBVIOUS
    <3>1. PICK x \in T : \A y \in T : x <= y
      <4>1. T \subseteq Nat
        OBVIOUS
      <4>. HIDE DEF T
      <4>. QED  BY <4>1, LeastElement
    <3>2. fix[x] = D(fix)[x] /\ g[x] = D(g)[x]
      <4>. HIDE DEF D, fix
      <4>. QED  BY <1>6, <1>7
    <3>3. x # 0
      <4>. HIDE DEF fix
      <4>. QED  BY <3>2
    <3>4. x - 1 \in 0..N /\ x - 1 \notin T
      <4>. HIDE DEF fix
      <4>. QED  BY <3>1, <3>3, <1>1
    <3>. HIDE DEF fix
    <3>. QED  BY <3>2, <3>3, <3>4
  <2>2. DOMAIN fix = 0..N /\ fix = [n \in 0..N |-> fix[n]]
    <3>1. DOMAIN D(fix) = 0..N /\ D(fix) = [n \in 0..N |-> D(fix)[n]]
      OBVIOUS
    <3>. HIDE DEF D, fix
    <3>. QED  BY <1>7, <3>1
  <2>3. g = [n \in 0..N |-> g[n]]
    OBVIOUS
  <2>. HIDE DEF fix
  <2>. QED  BY <2>1, <2>2, <2>3
<1>9. Pieces(bytes, sep) = fix[N]
  BY DEF Pieces
<1>. HIDE DEF fix
<1>. QED  BY <1>4, <1>8, <1>9

(* An empty sequence is one empty piece.                                     *)
LEMMA PiecesEmpty ==
  ASSUME NEW sep PROVE Pieces(<<>>, sep) = << <<>> >>
<1>0. <<>> \in Seq(STRING) /\ Len(<<>>) = 0
  OBVIOUS
<1>1. PICK none \in Seq(STRING) : none = <<>> /\ Len(none) = 0
  BY <1>0
<1>2. PICK f : Follows(f, 0, << <<>> >>, PieceRule(none, sep, STRING)) /\ Pieces(none, sep) = f[0]
  BY <1>1, PiecesFollow
<1>. QED  BY <1>1, <1>2 DEF Follows

LEMMA PiecesType ==
  ASSUME NEW S, NEW bytes \in Seq(S), NEW sep
  PROVE  Pieces(bytes, sep) \in PieceLists(S)
<1>1. Len(bytes) \in 0..Len(bytes)
  BY LenProperties
<1>. QED  BY <1>1, PiecesFollow

(* One more byte.                                                            *)
LEMMA PiecesAppend ==
  ASSUME NEW S, NEW bytes \in Seq(S), NEW sep, NEW c \in S
  PROVE  Pieces(Append(bytes, c), sep) = PieceStep(Pieces(bytes, sep), c, sep)
<1>. DEFINE N == Len(bytes)
            more == Append(bytes, c)
            A == PieceLists(S)
<1>1. /\ more \in Seq(S) /\ Len(more) = N + 1 /\ N \in Nat
      /\ \A i \in 1..N : more[i] = bytes[i]
      /\ more[N + 1] = c
  BY AppendProperties, LenProperties
<1>2. PICK f \in [0..N -> A] : /\ Follows(f, N, << <<>> >>, PieceRule(bytes, sep, S))
                               /\ Pieces(bytes, sep) = f[N]
  BY PiecesFollow
<1>3. PICK g \in [0..(N + 1) -> A] :
        /\ Follows(g, N + 1, << <<>> >>, PieceRule(more, sep, S))
        /\ Pieces(more, sep) = g[N + 1]
  <2>. HIDE DEF more
  <2>. QED  BY <1>1, PiecesFollow
<1>4. ASSUME NEW i \in 1..(N + 1) PROVE g[i] = PieceStep(g[i - 1], more[i], sep)
  <2>1. i - 1 \in 0..(N + 1) /\ g[i - 1] \in A
    BY <1>1
  <2>2. g[i] = PieceRule(more, sep, S)[<<i, g[i - 1]>>]
    BY <1>3 DEF Follows
  <2>. HIDE DEF more
  <2>. QED  BY <2>1, <2>2, <1>1 DEF PieceRule
<1>5. Follows(g, N, << <<>> >>, PieceRule(bytes, sep, S))
  <2>1. g[0] = << <<>> >>
    BY <1>3 DEF Follows
  <2>2. ASSUME NEW i \in 1..N PROVE g[i] = PieceRule(bytes, sep, S)[<<i, g[i - 1]>>]
    <3>1. i - 1 \in 0..(N + 1) /\ g[i - 1] \in A /\ i \in 1..(N + 1)
      BY <1>1
    <3>2. g[i] = PieceStep(g[i - 1], bytes[i], sep)
      BY <1>4, <1>1, <3>1
    <3>. QED  BY <3>1, <3>2 DEF PieceRule
  <2>. QED  BY <2>1, <2>2 DEF Follows
<1>6. g[N] = f[N]
  <2>. HIDE DEF N
  <2>. QED  BY <1>1, <1>2, <1>5, FollowsUnique
<1>7. g[N + 1] = PieceStep(g[N], c, sep)
  BY <1>1, <1>4
<1>. QED  BY <1>2, <1>3, <1>6, <1>7

-----------------------------------------------------------------------------
(* The results of a stream.                                                  *)
Outcomes == {LineResult(ln) : ln \in Seq(STRING)} \cup {Error("toolong")}

(* The line that has not ended yet.                                          *)
OpenLine(bytes) == Last(Pieces(bytes, LF))

(* What a line gives is an empty line, an error or a command, never nothing. *)
LEMMA LineKinds ==
  ASSUME NEW ln
  PROVE  parse_stripped(ln).kind \in {"EMPTY", "ERROR", "SWITCH", "RAW"}
<1>1. \A w, p : parse_raw(w, p).kind \in {"ERROR", "RAW"}
  BY DEF parse_raw, Error, Raw
<1>2. \A a : check_range(a).kind \in {"ERROR", "SWITCH"}
  BY DEF check_range, Error, Switch
<1>3. \A l : parse_line(l).kind \in {"ERROR", "SWITCH", "RAW"}
  BY <1>1, <1>2 DEF parse_line, Error
<1>. QED  BY <1>3 DEF parse_stripped, Empty

LEMMA OutcomeKinds ==
  ASSUME NEW r \in Outcomes
  PROVE  r.kind \in {"EMPTY", "ERROR", "SWITCH", "RAW"}
BY LineKinds DEF Outcomes, LineResult, Error

LEMMA OpenLineType ==
  ASSUME NEW bytes \in Seq(STRING)
  PROVE  OpenLine(bytes) \in Seq(STRING)
BY PiecesType, ElementOfSeq DEF PieceLists, OpenLine, Last

LEMMA OpenLineAppend ==
  ASSUME NEW bytes \in Seq(STRING), NEW c \in STRING
  PROVE  OpenLine(Append(bytes, c)) =
           IF c = LF THEN <<>> ELSE Append(OpenLine(bytes), c)
<1>. DEFINE ps == Pieces(bytes, LF)
<1>1. ps \in PieceLists(STRING)
  BY PiecesType
<1>2. Pieces(Append(bytes, c), LF) = PieceStep(ps, c, LF)
  BY PiecesAppend
<1>3. Last(PieceStep(ps, c, LF)) = IF c = LF THEN <<>> ELSE Append(Last(ps), c)
  <2>. HIDE DEF ps
  <2>. QED  BY <1>1, PieceStepSep, PieceStepOther
<1>. QED  BY <1>2, <1>3 DEF OpenLine

(* The results of the lines that have ended.                                 *)
Ended(bytes) ==
  LET lines == Pieces(bytes, LF) IN [i \in 1..(Len(lines) - 1) |-> LineResult(lines[i])]

LEMMA EndedType ==
  ASSUME NEW bytes \in Seq(STRING)
  PROVE  Ended(bytes) \in Seq(Outcomes)
<1>. DEFINE ps == Pieces(bytes, LF)
<1>1. ps \in Seq(Seq(STRING)) /\ Len(ps) >= 1 /\ Len(ps) \in Nat
  BY PiecesType DEF PieceLists
<1>. HIDE DEF ps
<1>2. ASSUME NEW i \in 1..(Len(ps) - 1) PROVE LineResult(ps[i]) \in Outcomes
  <2>1. ps[i] \in Seq(STRING)
    BY <1>1, ElementOfSeq
  <2>. QED  BY <2>1 DEF Outcomes
<1>3. [i \in 1..(Len(ps) - 1) |-> LineResult(ps[i])] \in Seq(Outcomes)
  BY <1>1, <1>2
<1>. QED  BY <1>3 DEF Ended, ps

LEMMA EndedAppend ==
  ASSUME NEW bytes \in Seq(STRING), NEW c \in STRING
  PROVE  Ended(Append(bytes, c)) =
           IF c = LF THEN Append(Ended(bytes), LineResult(OpenLine(bytes))) ELSE Ended(bytes)
<1>. DEFINE ps == Pieces(bytes, LF)
            qs == PieceStep(ps, c, LF)
            R(s) == [i \in 1..(Len(s) - 1) |-> LineResult(s[i])]
<1>1. ps \in Seq(Seq(STRING)) /\ Len(ps) >= 1 /\ Len(ps) \in Nat
  BY PiecesType DEF PieceLists
<1>2. Pieces(Append(bytes, c), LF) = qs
  BY PiecesAppend
<1>3. Ended(Append(bytes, c)) = R(qs) /\ Ended(bytes) = R(ps)
  BY <1>2 DEF Ended
<1>4. R(ps) \in Seq(Outcomes) /\ Len(R(ps)) = Len(ps) - 1
  <2>1. R(ps) \in Seq(Outcomes)
    BY <1>3, EndedType
  <2>2. DOMAIN R(ps) = 1..(Len(ps) - 1)
    OBVIOUS
  <2>3. Len(R(ps)) \in Nat /\ DOMAIN R(ps) = 1..Len(R(ps))
    BY <2>1, LenProperties
  <2>. HIDE DEF ps, R
  <2>. QED  BY <2>1, <2>2, <2>3, <1>1
<1>5. LineResult(ps[Len(ps)]) \in Outcomes
  BY <1>1, ElementOfSeq DEF Outcomes
<1>6. CASE c = LF
  <2>1. /\ Len(qs) = Len(ps) + 1
        /\ \A i \in 1..Len(ps) : qs[i] = ps[i]
    BY <1>1, <1>6, AppendProperties, EmptySeq DEF PieceStep
  <2>. DEFINE more == Append(R(ps), LineResult(ps[Len(ps)]))
  <2>2. /\ more \in Seq(Outcomes) /\ Len(more) = Len(ps)
        /\ \A i \in 1..(Len(ps) - 1) : more[i] = R(ps)[i]
        /\ more[Len(ps)] = LineResult(ps[Len(ps)])
    <3>. HIDE DEF R, ps
    <3>. QED  BY <1>1, <1>4, <1>5, AppendProperties
  <2>3. R(qs) = [i \in 1..Len(ps) |-> LineResult(ps[i])]
    <3>. HIDE DEF qs, ps
    <3>. QED  BY <2>1, <1>1
  <2>4. more = [i \in 1..Len(ps) |-> LineResult(ps[i])]
    <3>1. ASSUME NEW i \in 1..Len(ps) PROVE more[i] = LineResult(ps[i])
      <4>. HIDE DEF more, ps
      <4>1. i = Len(ps) \/ i \in 1..(Len(ps) - 1)
        BY <1>1
      <4>. QED  BY <2>2, <4>1
    <3>2. more = [i \in 1..Len(ps) |-> more[i]]
      <4>. HIDE DEF more, ps
      <4>. QED  BY <2>2, LenProperties
    <3>. HIDE DEF more, ps
    <3>. QED  BY <3>1, <3>2
  <2>. QED  BY <1>3, <1>6, <2>3, <2>4 DEF OpenLine, Last
<1>7. CASE c # LF
  <2>1. ps \in PieceLists(STRING)
    BY PiecesType
  <2>2. Len(qs) = Len(ps) /\ \A i \in 1..(Len(ps) - 1) : qs[i] = ps[i]
    <3>. HIDE DEF ps
    <3>. QED  BY <1>7, <2>1, PieceStepOther
  <2>3. R(qs) = R(ps)
    <3>. HIDE DEF qs, ps
    <3>. QED  BY <2>2, <1>1
  <2>. QED  BY <1>3, <1>7, <2>3
<1>. QED  BY <1>6, <1>7

(* How the results grow by one byte: they are what proto_byte() returns.     *)
LEMMA ResultsAppend ==
  ASSUME NEW bytes \in Seq(STRING), NEW c \in STRING
  PROVE  LET ln == OpenLine(bytes)
             now  == Results(bytes)
             then == Results(Append(bytes, c))
         IN  /\ now \in Seq(Outcomes)
             /\ Len(ln) > PROTO_MAX_LINE /\ c = LF => then = now
             /\ Len(ln) <= PROTO_MAX_LINE /\ c = LF => then = Append(now, parse_stripped(ln))
             /\ Len(ln) < PROTO_MAX_LINE /\ c # LF => then = now
             /\ Len(ln) = PROTO_MAX_LINE /\ c # LF => then = Append(now, Error("toolong"))
<1>. DEFINE ln == OpenLine(bytes)
            line2 == OpenLine(Append(bytes, c))
            e == Ended(bytes)
            e2 == Ended(Append(bytes, c))
<1>1. ln \in Seq(STRING) /\ e \in Seq(Outcomes) /\ Len(ln) \in Nat
  BY OpenLineType, EndedType
<1>2. line2 = (IF c = LF THEN <<>> ELSE Append(ln, c))
  BY OpenLineAppend
<1>3. e2 = IF c = LF THEN Append(e, LineResult(ln)) ELSE e
  BY EndedAppend
<1>4. \A b : Results(b) = IF Len(OpenLine(b)) > PROTO_MAX_LINE
                         THEN Append(Ended(b), Error("toolong")) ELSE Ended(b)
  BY DEF Results, OpenLine, Ended
<1>5. Results(bytes) = IF Len(ln) > PROTO_MAX_LINE THEN Append(e, Error("toolong")) ELSE e
  BY <1>4
<1>6. Results(Append(bytes, c)) =
        IF Len(line2) > PROTO_MAX_LINE THEN Append(e2, Error("toolong")) ELSE e2
  BY <1>4
<1>7. Error("toolong") \in Outcomes
  BY DEF Outcomes
<1>8. Len(line2) = IF c = LF THEN 0 ELSE Len(ln) + 1
  <2>. HIDE DEF ln, line2
  <2>. QED  BY <1>1, <1>2, AppendProperties
<1>9. LineResult(ln) = IF Len(ln) > PROTO_MAX_LINE THEN Error("toolong") ELSE parse_stripped(ln)
  BY DEF LineResult
<1>10. Append(e, Error("toolong")) \in Seq(Outcomes)
  <2>. HIDE DEF e
  <2>. QED  BY <1>1, <1>7, AppendProperties
<1>11. PROTO_MAX_LINE \in Nat \ {0}
  BY ProtoAssumption
<1>. HIDE DEF ln, line2, e, e2
<1>. QED  BY <1>1, <1>3, <1>5, <1>6, <1>8, <1>9, <1>10, <1>11 DEF ln

LEMMA ResultsType ==
  ASSUME NEW bytes \in Seq(STRING)
  PROVE  Results(bytes) \in Seq(Outcomes)
<1>1. Ended(bytes) \in Seq(Outcomes) /\ Error("toolong") \in Outcomes
  BY EndedType DEF Outcomes
<1>2. Append(Ended(bytes), Error("toolong")) \in Seq(Outcomes)
  BY <1>1, AppendProperties
<1>. QED  BY <1>1, <1>2 DEF Results, Ended

LEMMA NothingYet == OpenLine(<<>>) = <<>> /\ Results(<<>>) = <<>>
<1>1. Pieces(<<>>, LF) = << <<>> >>
  BY PiecesEmpty
<1>2. OpenLine(<<>>) = <<>>
  BY <1>1 DEF OpenLine, Last
<1>3. Len(Pieces(<<>>, LF)) - 1 = 0
  BY <1>1
<1>4. Ended(<<>>) = <<>>
  <2>1. DOMAIN Ended(<<>>) = 1..0
    BY <1>3 DEF Ended
  <2>2. Ended(<<>>) \in Seq(Outcomes)
    <3>1. \A bytes : bytes \in Seq(STRING) => Ended(bytes) \in Seq(Outcomes)
      BY EndedType
    <3>2. <<>> \in Seq(STRING)
      OBVIOUS
    <3>. QED  BY <3>1, <3>2
  <2>. QED  BY <2>1, <2>2, LenProperties, EmptySeq
<1>5. Len(OpenLine(<<>>)) = 0
  BY <1>2
<1>6. Results(<<>>) = Ended(<<>>)
  BY <1>5, ProtoAssumption DEF Results, Ended, OpenLine
<1>. QED  BY <1>2, <1>4, <1>6

-----------------------------------------------------------------------------
(* struct proto_conn after a stream of bytes.                                *)
Framed(bytes) ==
  IF Len(OpenLine(bytes)) > PROTO_MAX_LINE THEN [buf |-> <<>>, discarding |-> TRUE]
  ELSE [buf |-> OpenLine(bytes), discarding |-> FALSE]

(* proto_next() gives the results of the stream, one byte after the other,   *)
(* whatever the pieces that the bytes come in; what it drops of a line that  *)
(* is too long makes no difference to it.                                    *)
LEMMA ProtoByte ==
  ASSUME NEW bytes \in Seq(STRING), NEW c \in STRING
  PROVE  LET conn == Framed(bytes)
             r    == proto_byte(conn, c)
             more == Append(bytes, c)
         IN  /\ conn.discarding /\ c # LF => r.conn = conn /\ r.cmd = Nothing
             /\ ~(conn.discarding /\ c # LF) =>
                  /\ r.conn = Framed(more)
                  /\ r.cmd = Nothing => Results(more) = Results(bytes)
                  /\ r.cmd # Nothing => /\ r.cmd \in Outcomes
                                        /\ Results(more) = Append(Results(bytes), r.cmd)
<1>. DEFINE ln == OpenLine(bytes)
            conn == Framed(bytes)
            r == proto_byte(conn, c)
            more == Append(bytes, c)
            now == Results(bytes)
            then == Results(more)
<1>. SUFFICES /\ conn.discarding /\ c # LF => r.conn = conn /\ r.cmd = Nothing
              /\ ~(conn.discarding /\ c # LF) =>
                   /\ r.conn = Framed(more)
                   /\ r.cmd = Nothing => then = now
                   /\ r.cmd # Nothing => r.cmd \in Outcomes /\ then = Append(now, r.cmd)
  OBVIOUS
<1>1. ln \in Seq(STRING) /\ Len(ln) \in Nat /\ PROTO_MAX_LINE \in Nat \ {0}
  BY OpenLineType, ProtoAssumption
<1>2. OpenLine(more) = IF c = LF THEN <<>> ELSE Append(ln, c)
  BY OpenLineAppend
<1>3. /\ Len(ln) > PROTO_MAX_LINE /\ c = LF => then = now
      /\ Len(ln) <= PROTO_MAX_LINE /\ c = LF => then = Append(now, parse_stripped(ln))
      /\ Len(ln) < PROTO_MAX_LINE /\ c # LF => then = now
      /\ Len(ln) = PROTO_MAX_LINE /\ c # LF => then = Append(now, Error("toolong"))
  BY ResultsAppend
<1>4. Len(Append(ln, c)) = Len(ln) + 1
  <2>. HIDE DEF ln
  <2>. QED  BY <1>1, AppendProperties
<1>5. Error("toolong") # Nothing /\ Error("toolong") \in Outcomes
  BY DEF Error, Nothing, Outcomes
<1>6. parse_stripped(ln) # Nothing
  BY LineKinds DEF Nothing
<1>7. Len(ln) <= PROTO_MAX_LINE => parse_stripped(ln) \in Outcomes
  <2>1. LineResult(ln) \in Outcomes
    BY <1>1 DEF Outcomes
  <2>. QED  BY <1>1, <2>1 DEF LineResult
<1>8. CASE Len(ln) > PROTO_MAX_LINE
  <2>1. conn = [buf |-> <<>>, discarding |-> TRUE]
    BY <1>8 DEF Framed
  <2>2. r = [conn |-> [buf |-> <<>>, discarding |-> (c # LF)], cmd |-> Nothing]
    BY <2>1 DEF proto_byte
  <2>3. c = LF => Framed(more) = [buf |-> <<>>, discarding |-> FALSE]
    BY <1>1, <1>2 DEF Framed
  <2>. HIDE DEF r, conn, then, now, more, ln
  <2>. QED  BY <1>3, <1>8, <2>1, <2>2, <2>3
<1>9. CASE Len(ln) <= PROTO_MAX_LINE /\ c = LF
  <2>1. conn = [buf |-> ln, discarding |-> FALSE]
    BY <1>1, <1>9 DEF Framed
  <2>2. r = [conn |-> [buf |-> <<>>, discarding |-> FALSE], cmd |-> parse_stripped(ln)]
    BY <2>1, <1>9 DEF proto_byte, proto_init
  <2>3. Framed(more) = [buf |-> <<>>, discarding |-> FALSE]
    BY <1>1, <1>2, <1>9 DEF Framed
  <2>. HIDE DEF r, conn, then, now, more, ln
  <2>. QED  BY <1>3, <1>6, <1>7, <1>9, <2>1, <2>2, <2>3
<1>10. CASE Len(ln) = PROTO_MAX_LINE /\ c # LF
  <2>1. conn = [buf |-> ln, discarding |-> FALSE]
    BY <1>1, <1>10 DEF Framed
  <2>2. r = [conn |-> [buf |-> <<>>, discarding |-> TRUE], cmd |-> Error("toolong")]
    BY <1>1, <2>1, <1>10 DEF proto_byte
  <2>3. Framed(more) = [buf |-> <<>>, discarding |-> TRUE]
    BY <1>1, <1>2, <1>4, <1>10 DEF Framed
  <2>. HIDE DEF r, conn, then, now, more, ln
  <2>. QED  BY <1>3, <1>5, <1>10, <2>1, <2>2, <2>3
<1>11. CASE Len(ln) < PROTO_MAX_LINE /\ c # LF
  <2>1. conn = [buf |-> ln, discarding |-> FALSE]
    BY <1>1, <1>11 DEF Framed
  <2>2. r = [conn |-> [buf |-> Append(ln, c), discarding |-> FALSE], cmd |-> Nothing]
    <3>. HIDE DEF ln, conn
    <3>1. conn.discarding = FALSE /\ conn.buf = ln /\ ~(Len(ln) >= PROTO_MAX_LINE)
      BY <1>1, <1>11, <2>1
    <3>2. [[buf |-> ln, discarding |-> FALSE] EXCEPT !.buf = Append(ln, c)]
            = [buf |-> Append(ln, c), discarding |-> FALSE]
      <4>. DEFINE x == Append(ln, c)
                  e == [[buf |-> ln, discarding |-> FALSE] EXCEPT !.buf = x]
      <4>1. x \in Seq(STRING) /\ ln \in Seq(STRING)
        BY <1>1, AppendProperties
      <4>. HIDE DEF x
      <4>2. e \in [buf : Seq(STRING), discarding : BOOLEAN]
        BY <4>1
      <4>3. e.buf = x /\ e.discarding = FALSE
        OBVIOUS
      <4>4. e = [buf |-> x, discarding |-> FALSE]
        <5>. HIDE DEF e
        <5>. QED  BY <4>2, <4>3
      <4>. QED  BY <4>4 DEF x
    <3>. QED  BY <2>1, <3>1, <3>2, <1>11 DEF proto_byte
  <2>3. Framed(more) = [buf |-> Append(ln, c), discarding |-> FALSE]
    <3>. HIDE DEF ln
    <3>. QED  BY <1>1, <1>2, <1>4, <1>11 DEF Framed
  <2>. HIDE DEF r, conn, then, now, more, ln
  <2>. QED  BY <1>3, <1>11, <2>1, <2>2, <2>3
<1>. QED  BY <1>1, <1>8, <1>9, <1>10, <1>11
-----------------------------------------------------------------------------
(* Numbers.                                                                  *)
DigitChars == {Digits[d + 1] : d \in 0..9}

(* The provers do not know of a string literal that it is in STRING.         *)
Chars == STRING \cup DigitChars \cup Symbols \cup {"r", "a", "w"} \cup {Blank}

LEMMA BlankApart == Blank \notin DigitChars \cup Symbols \cup {"r", "a", "w"}
<1>1. \A i \in 1..10 : Digits[i] \in {"0", "1", "2", "3", "4", "5", "6", "7", "8", "9"}
  BY DEF Digits
<1>2. /\ Blank \notin {"0", "1", "2", "3", "4", "5", "6", "7", "8", "9"}
      /\ Blank \notin {"0", "1", "F"}
      /\ Blank \notin {"r", "a", "w"}
  BY Zenon DEF Blank
<1>3. \A d \in 0..9 : d + 1 \in 1..10
  OBVIOUS
<1>. QED  BY <1>1, <1>2, <1>3 DEF DigitChars, Symbols

LEMMA DigitCase ==
  ASSUME NEW d \in 0..9
  PROVE  /\ Digits[d + 1] \in DigitChars
         /\ DigitValue(Digits[d + 1]) = d
         /\ d # 0 => Digits[d + 1] # "0"
<1>1. Digits[d + 1] \in DigitChars
  BY DEF DigitChars
<1>2. \A i, j \in 1..10 : Digits[i] = Digits[j] => i = j
  BY DEF Digits
<1>3. d + 1 \in 1..10
  OBVIOUS
<1>4. PICK v : v = CHOOSE i \in 1..10 : Digits[i] = Digits[d + 1]
  OBVIOUS
<1>5. v = d + 1
  BY <1>2, <1>3, <1>4
<1>6. DigitValue(Digits[d + 1]) = v - 1
  BY <1>4 DEF DigitValue
<1>7. d # 0 => Digits[d + 1] # "0"
  BY DEF Digits
<1>. QED  BY <1>1, <1>5, <1>6, <1>7

LEMMA DigitChar ==
  ASSUME NEW c \in DigitChars
  PROVE  /\ DigitValue(c) \in 0..9
         /\ Digits[DigitValue(c) + 1] = c
         /\ c # "0" => DigitValue(c) # 0
<1>1. PICK d \in 0..9 : c = Digits[d + 1]
  BY DEF DigitChars
<1>2. DigitValue(c) = d
  BY <1>1, DigitCase
<1>3. Digits[1] = "0"
  BY DEF Digits
<1>. QED  BY <1>1, <1>2, <1>3

LEMMA ContainsDigit ==
  ASSUME NEW c PROVE Contains(Digits, c) <=> c \in DigitChars
<1>1. Len(Digits) = 10
  BY DEF Digits
<1>2. Contains(Digits, c) <=> \E i \in 1..10 : Digits[i] = c
  BY <1>1 DEF Contains
<1>3. \A i \in 1..10 : i - 1 \in 0..9 /\ Digits[i] = Digits[(i - 1) + 1]
  OBVIOUS
<1>4. \A d \in 0..9 : d + 1 \in 1..10
  OBVIOUS
<1>. QED  BY <1>2, <1>3, <1>4 DEF DigitChars

ValueRule(f) == [x \in (1..Len(f)) \X Nat |-> 10 * x[2] + DigitValue(f[x[1]])]

(* The value is read from the left.                                          *)
LEMMA ValueFollow ==
  ASSUME NEW f \in Seq(DigitChars)
  PROVE  \E g \in [0..Len(f) -> Nat] :
           /\ g[0] = 0
           /\ \A i \in 1..Len(f) : g[i] = 10 * g[i - 1] + DigitValue(f[i])
           /\ Value(f) = g[Len(f)]
<1>. DEFINE N == Len(f)
            h == ValueRule(f)
            D(u) == [n \in 0..N |-> IF n = 0 THEN 0 ELSE 10 * u[n - 1] + DigitValue(f[n])]
            fix == CHOOSE u : u = D(u)
<1>1. N \in Nat /\ \A n \in 1..N : DigitValue(f[n]) \in Nat
  BY LenProperties, ElementOfSeq, DigitChar
<1>2. h \in [(1..N) \X Nat -> Nat]
  BY <1>1 DEF ValueRule
<1>3. PICK g \in [0..N -> Nat] : Follows(g, N, 0, h)
  <2>. HIDE DEF N, h
  <2>. QED  BY <1>1, <1>2, FollowsExists
<1>4. ASSUME NEW i \in 1..N PROVE g[i] = 10 * g[i - 1] + DigitValue(f[i])
  <2>1. i - 1 \in 0..N /\ g[i - 1] \in Nat
    BY <1>1, SMTT(40)
  <2>2. g[i] = h[<<i, g[i - 1]>>]
    BY <1>3 DEF Follows
  <2>. QED  BY <2>1, <2>2 DEF ValueRule
<1>5. g[0] = 0
  BY <1>3 DEF Follows
<1>6. g = D(g)
  <2>1. ASSUME NEW n \in 0..N PROVE g[n] = D(g)[n]
    <3>1. CASE n = 0
      BY <3>1, <1>5
    <3>2. CASE n # 0
      BY <3>2, <1>1, <1>4
    <3>. QED  BY <3>1, <3>2
  <2>. QED  BY <2>1
<1>7. fix = D(fix)
  <2>. HIDE DEF D
  <2>. QED  BY <1>6
<1>8. fix = g
  <2>. DEFINE T == {n \in 0..N : fix[n] # g[n]}
  <2>1. T = {}
    <3>. SUFFICES ASSUME T # {} PROVE FALSE
      OBVIOUS
    <3>1. PICK x \in T : \A y \in T : x <= y
      <4>1. T \subseteq Nat
        OBVIOUS
      <4>. HIDE DEF T
      <4>. QED  BY <4>1, LeastElement
    <3>2. fix[x] = D(fix)[x] /\ g[x] = D(g)[x]
      <4>. HIDE DEF D, fix
      <4>. QED  BY <1>6, <1>7
    <3>3. x # 0
      <4>. HIDE DEF fix
      <4>. QED  BY <3>2
    <3>4. x - 1 \in 0..N /\ x - 1 \notin T
      <4>. HIDE DEF fix
      <4>. QED  BY <3>1, <3>3, <1>1
    <3>. HIDE DEF fix
    <3>. QED  BY <3>2, <3>3, <3>4
  <2>2. fix = [n \in 0..N |-> fix[n]]
    <3>1. D(fix) = [n \in 0..N |-> D(fix)[n]]
      OBVIOUS
    <3>. HIDE DEF D, fix
    <3>. QED  BY <1>7, <3>1
  <2>3. g = [n \in 0..N |-> g[n]]
    OBVIOUS
  <2>. HIDE DEF fix
  <2>. QED  BY <2>1, <2>2, <2>3
<1>9. Value(f) = fix[N]
  BY DEF Value
<1>. HIDE DEF fix
<1>. QED  BY <1>4, <1>5, <1>8, <1>9

LEMMA Horner ==
  ASSUME NEW a \in 0..9, NEW b \in 0..9, NEW c \in 0..9, NEW d \in 0..9
  PROVE  /\ 10 * 0 + a = a
         /\ 10 * (10 * a + b) + c = 100 * a + 10 * b + c
         /\ 10 * (100 * a + 10 * b + c) + d = 1000 * a + 100 * b + 10 * c + d
OBVIOUS

LEMMA ValueUnfold ==
  ASSUME NEW f \in Seq(DigitChars)
  PROVE  LET v(i) == DigitValue(f[i])
         IN  /\ Len(f) = 1 => Value(f) = v(1)
             /\ Len(f) = 2 => Value(f) = 10 * v(1) + v(2)
             /\ Len(f) = 3 => Value(f) = 100 * v(1) + 10 * v(2) + v(3)
             /\ Len(f) = 4 => Value(f) = 1000 * v(1) + 100 * v(2) + 10 * v(3) + v(4)
<1>1. Len(f) \in Nat /\ \A i \in 1..Len(f) : DigitValue(f[i]) \in 0..9
  BY LenProperties, ElementOfSeq, DigitChar
<1>2. PICK g \in [0..Len(f) -> Nat] :
           /\ g[0] = 0
           /\ \A i \in 1..Len(f) : g[i] = 10 * g[i - 1] + DigitValue(f[i])
           /\ Value(f) = g[Len(f)]
  BY ValueFollow
<1>. DEFINE v(i) == DigitValue(f[i])
<1>3. ASSUME Len(f) >= 1 PROVE g[1] = v(1) /\ v(1) \in 0..9
  <2>1. v(1) \in 0..9 /\ g[1] = 10 * g[1 - 1] + v(1)
    BY <1>1, <1>2, <1>3
  <2>2. g[1] = 10 * 0 + v(1)
    BY <1>2, <2>1
  <2>. HIDE DEF v
  <2>. QED  BY <2>1, <2>2, Horner
<1>4. ASSUME Len(f) >= 2 PROVE g[2] = 10 * v(1) + v(2) /\ v(2) \in 0..9
  <2>1. v(2) \in 0..9 /\ g[2] = 10 * g[2 - 1] + v(2)
    BY <1>1, <1>2, <1>4
  <2>2. g[1] = v(1)
    BY <1>1, <1>3, <1>4
  <2>. QED  BY <2>1, <2>2
<1>5. ASSUME Len(f) >= 3 PROVE g[3] = 100 * v(1) + 10 * v(2) + v(3) /\ v(3) \in 0..9
  <2>1. v(3) \in 0..9 /\ g[3] = 10 * g[3 - 1] + v(3)
    BY <1>1, <1>2, <1>5
  <2>2. g[2] = 10 * v(1) + v(2) /\ v(1) \in 0..9 /\ v(2) \in 0..9
    BY <1>1, <1>3, <1>4, <1>5
  <2>3. g[3] = 10 * (10 * v(1) + v(2)) + v(3)
    BY <2>1, <2>2
  <2>. HIDE DEF v
  <2>. QED  BY <2>1, <2>2, <2>3, Horner, SMTT(40)
<1>6. ASSUME Len(f) >= 4
      PROVE  g[4] = 1000 * v(1) + 100 * v(2) + 10 * v(3) + v(4)
  <2>1. v(4) \in 0..9 /\ g[4] = 10 * g[4 - 1] + v(4)
    BY <1>1, <1>2, <1>6
  <2>2. /\ g[3] = 100 * v(1) + 10 * v(2) + v(3)
        /\ v(1) \in 0..9 /\ v(2) \in 0..9 /\ v(3) \in 0..9
    BY <1>1, <1>3, <1>4, <1>5, <1>6
  <2>3. g[4] = 10 * (100 * v(1) + 10 * v(2) + v(3)) + v(4)
    BY <2>1, <2>2
  <2>4. PICK a \in 0..9, b \in 0..9, c \in 0..9, d \in 0..9 :
          a = v(1) /\ b = v(2) /\ c = v(3) /\ d = v(4)
    BY <2>1, <2>2
  <2>5. g[4] = 10 * (100 * a + 10 * b + c) + d
    BY <2>3, <2>4
  <2>6. g[4] = 1000 * a + 100 * b + 10 * c + d
    <3>1. 10 * (100 * a + 10 * b + c) + d = 1000 * a + 100 * b + 10 * c + d
      BY Horner
    <3>. QED  BY <2>5, <3>1
  <2>. QED  BY <2>4, <2>6
<1>7. Len(f) = 1 => Value(f) = v(1)
  BY <1>2, <1>3
<1>8. Len(f) = 2 => Value(f) = 10 * v(1) + v(2)
  BY <1>2, <1>4
<1>9. Len(f) = 3 => Value(f) = 100 * v(1) + 10 * v(2) + v(3)
  BY <1>2, <1>5
<1>10. Len(f) = 4 => Value(f) = 1000 * v(1) + 100 * v(2) + 10 * v(3) + v(4)
  BY <1>2, <1>6
<1>. HIDE DEF v
<1>. QED  BY <1>7, <1>8, <1>9, <1>10 DEF v

(* A field without a leading zero that is longer than four digits is beyond  *)
(* every number of the protocol.                                             *)
LEMMA LongValue ==
  ASSUME NEW f \in Seq(DigitChars), Len(f) > 4, f[1] # "0"
  PROVE  Value(f) > SOCKET_PULSE_LEN_MAX_US
<1>. DEFINE N == Len(f)
<1>1. N \in Nat /\ \A i \in 1..N : DigitValue(f[i]) \in 0..9
  BY LenProperties, ElementOfSeq, DigitChar
<1>2. DigitValue(f[1]) \in 1..9
  <2>1. f[1] \in DigitChars
    BY <1>1, ElementOfSeq
  <2>. QED  BY <2>1, DigitChar
<1>3. PICK g \in [0..N -> Nat] :
           /\ g[0] = 0
           /\ \A i \in 1..N : g[i] = 10 * g[i - 1] + DigitValue(f[i])
           /\ Value(f) = g[N]
  BY ValueFollow
<1>4. /\ g[1] = 10 * g[0] + DigitValue(f[1])
      /\ g[2] = 10 * g[1] + DigitValue(f[2])
      /\ g[3] = 10 * g[2] + DigitValue(f[3])
      /\ g[4] = 10 * g[3] + DigitValue(f[4])
      /\ g[5] = 10 * g[4] + DigitValue(f[5])
      /\ DigitValue(f[2]) \in 0..9 /\ DigitValue(f[3]) \in 0..9
      /\ DigitValue(f[4]) \in 0..9 /\ DigitValue(f[5]) \in 0..9
  BY <1>1, <1>3
<1>5. g[5] >= 10000
  <2>1. g[1] \in Nat /\ g[2] \in Nat /\ g[3] \in Nat /\ g[4] \in Nat /\ g[5] \in Nat
    BY <1>1, SMTT(40)
  <2>2. g[1] >= 1
    BY <1>2, <1>3, <1>4
  <2>3. PICK x1 \in Nat, x2 \in Nat, x3 \in Nat, x4 \in Nat, x5 \in Nat :
          x1 = g[1] /\ x2 = g[2] /\ x3 = g[3] /\ x4 = g[4] /\ x5 = g[5]
    BY <2>1
  <2>4. PICK d2 \in 0..9, d3 \in 0..9, d4 \in 0..9, d5 \in 0..9 :
          /\ d2 = DigitValue(f[2]) /\ d3 = DigitValue(f[3])
          /\ d4 = DigitValue(f[4]) /\ d5 = DigitValue(f[5])
    BY <1>4
  <2>5. x1 >= 1 /\ x2 = 10 * x1 + d2 /\ x3 = 10 * x2 + d3 /\ x4 = 10 * x3 + d4 /\ x5 = 10 * x4 + d5
    BY <1>4, <2>2, <2>3, <2>4
  <2>6. x5 >= 10000
    BY <2>5
  <2>. QED  BY <2>3, <2>6
<1>. DEFINE T == {i \in 5..N : g[i] < 10000}
<1>6. T = {}
  <2>. SUFFICES ASSUME T # {} PROVE FALSE
    OBVIOUS
  <2>1. PICK x \in T : \A y \in T : x <= y
    <3>1. T \subseteq Nat
      OBVIOUS
    <3>. HIDE DEF T
    <3>. QED  BY <3>1, LeastElement
  <2>2. x # 5
    BY <1>5
  <2>3. x - 1 \in 5..N /\ x - 1 \notin T /\ x \in 1..N /\ g[x - 1] \in Nat /\ g[x] < 10000
    BY <1>1, <2>1, <2>2, SMTT(40)
  <2>4. g[x - 1] >= 10000
    BY <2>3
  <2>5. g[x] = 10 * g[x - 1] + DigitValue(f[x]) /\ DigitValue(f[x]) \in 0..9
    BY <1>1, <1>3, <2>3
  <2>. QED  BY <2>3, <2>4, <2>5
<1>7. g[N] >= 10000
  BY <1>1, <1>6
<1>. QED  BY <1>3, <1>7 DEF SOCKET_PULSE_LEN_MAX_US

LEMMA DecimalForms ==
  ASSUME NEW n \in Nat
  PROVE  /\ n <= 9               => Decimal(n) = <<Digits[n + 1]>>
         /\ 10 <= n /\ n <= 99   => Decimal(n) = <<Digits[n \div 10 + 1], Digits[(n % 10) + 1]>>
         /\ 100 <= n /\ n <= 999 => Decimal(n) = <<Digits[n \div 100 + 1], Digits[((n \div 10) % 10) + 1], Digits[(n % 10) + 1]>>
<1>1. ASSUME n <= 9 PROVE Decimal(n) = <<Digits[n + 1]>>
  <2>1. n \in 0..9 /\ n \notin 10..99 /\ n \notin 100..999
    BY <1>1
  <2>. QED  BY <2>1 DEF Decimal
<1>2. ASSUME 10 <= n, n <= 99 PROVE Decimal(n) = <<Digits[n \div 10 + 1], Digits[(n % 10) + 1]>>
  <2>1. n \in 10..99 /\ n \notin 0..9 /\ n \notin 100..999
    BY <1>2
  <2>. QED  BY <2>1 DEF Decimal
<1>3. ASSUME 100 <= n, n <= 999
      PROVE  Decimal(n) = <<Digits[n \div 100 + 1], Digits[((n \div 10) % 10) + 1], Digits[(n % 10) + 1]>>
  <2>1. n \in 100..999 /\ n \notin 0..9 /\ n \notin 10..99
    BY <1>3
  <2>. QED  BY <2>1 DEF Decimal
<1>. QED  BY <1>1, <1>2, <1>3

LEMMA DecimalFour ==
  ASSUME NEW n \in Nat, 1000 <= n
  PROVE  Decimal(n) = <<Digits[n \div 1000 + 1], Digits[((n \div 100) % 10) + 1],
                        Digits[((n \div 10) % 10) + 1], Digits[(n % 10) + 1]>>
<1>1. n \notin 0..9 /\ n \notin 10..99 /\ n \notin 100..999
  OBVIOUS
<1>. QED  BY <1>1 DEF Decimal

(* "%d" of a number is a field that the parser takes, for that number.       *)
LEMMA NumberField ==
  ASSUME NEW n \in 0..SOCKET_PULSE_LEN_MAX_US
  PROVE  /\ Numerals[n] = Decimal(n)
         /\ Decimal(n) \in Seq(DigitChars)
         /\ field_ok(Decimal(n))
         /\ field_to_u32(Decimal(n)) = n
<1>0. n \in Nat /\ n <= 2000
  BY DEF SOCKET_PULSE_LEN_MAX_US
<1>1. Numerals[n] = Decimal(n)
  BY DEF Numerals
<1>. DEFINE f == Decimal(n)
<1>2. /\ f \in Seq(DigitChars) /\ Len(f) >= 1 /\ Len(f) <= 4 /\ Value(f) = n
      /\ Len(f) > 1 => f[1] # "0"
  <2>1. CASE n <= 9
    <3>1. f = <<Digits[n + 1]>>
      BY <1>0, <2>1, DecimalForms
    <3>2. f \in Seq(DigitChars) /\ Len(f) = 1 /\ f[1] = Digits[n + 1]
      <4>1. Digits[n + 1] \in DigitChars
        BY <1>0, <2>1, DigitCase
      <4>. QED  BY <3>1, <4>1
    <3>3. DigitValue(f[1]) = n
      BY <1>0, <2>1, <3>2, DigitCase
    <3>. HIDE DEF f
    <3>. QED  BY <3>2, <3>3, ValueUnfold
  <2>2. CASE 10 <= n /\ n <= 99
    <3>. DEFINE d1 == n \div 10
                d2 == n % 10
    <3>1. d1 \in 1..9 /\ d2 \in 0..9 /\ n = 10 * d1 + d2
      BY <1>0, <2>2
    <3>2. f = <<Digits[d1 + 1], Digits[d2 + 1]>>
      BY <1>0, <2>2, DecimalForms
    <3>. HIDE DEF f, d1, d2
    <3>3. /\ Digits[d1 + 1] \in DigitChars /\ DigitValue(Digits[d1 + 1]) = d1 /\ Digits[d1 + 1] # "0"
          /\ Digits[d2 + 1] \in DigitChars /\ DigitValue(Digits[d2 + 1]) = d2
      BY <3>1, DigitCase
    <3>4. f \in Seq(DigitChars) /\ Len(f) = 2 /\ f[1] = Digits[d1 + 1] /\ f[2] = Digits[d2 + 1]
      BY <3>2, <3>3
    <3>. QED  BY <3>1, <3>3, <3>4, ValueUnfold
  <2>3. CASE 100 <= n /\ n <= 999
    <3>. DEFINE d1 == n \div 100
                d2 == (n \div 10) % 10
                d3 == n % 10
    <3>1. d1 \in 1..9 /\ d2 \in 0..9 /\ d3 \in 0..9 /\ n = 100 * d1 + 10 * d2 + d3
      BY <1>0, <2>3
    <3>2. f = <<Digits[d1 + 1], Digits[d2 + 1], Digits[d3 + 1]>>
      BY <1>0, <2>3, DecimalForms
    <3>. HIDE DEF f, d1, d2, d3
    <3>3. /\ Digits[d1 + 1] \in DigitChars /\ DigitValue(Digits[d1 + 1]) = d1 /\ Digits[d1 + 1] # "0"
          /\ Digits[d2 + 1] \in DigitChars /\ DigitValue(Digits[d2 + 1]) = d2
          /\ Digits[d3 + 1] \in DigitChars /\ DigitValue(Digits[d3 + 1]) = d3
      BY <3>1, DigitCase
    <3>4. /\ f \in Seq(DigitChars) /\ Len(f) = 3
          /\ f[1] = Digits[d1 + 1] /\ f[2] = Digits[d2 + 1] /\ f[3] = Digits[d3 + 1]
      BY <3>2, <3>3
    <3>. QED  BY <3>1, <3>3, <3>4, ValueUnfold
  <2>4. CASE 1000 <= n
    <3>. DEFINE d1 == n \div 1000
                d2 == (n \div 100) % 10
                d3 == (n \div 10) % 10
                d4 == n % 10
    <3>1. /\ d1 \in 1..9 /\ d2 \in 0..9 /\ d3 \in 0..9 /\ d4 \in 0..9
          /\ n = 1000 * d1 + 100 * d2 + 10 * d3 + d4
      BY <1>0, <2>4
    <3>2. f = <<Digits[d1 + 1], Digits[d2 + 1], Digits[d3 + 1], Digits[d4 + 1]>>
      BY <1>0, <2>4, DecimalFour
    <3>. HIDE DEF f, d1, d2, d3, d4
    <3>3. /\ Digits[d1 + 1] \in DigitChars /\ DigitValue(Digits[d1 + 1]) = d1 /\ Digits[d1 + 1] # "0"
          /\ Digits[d2 + 1] \in DigitChars /\ DigitValue(Digits[d2 + 1]) = d2
          /\ Digits[d3 + 1] \in DigitChars /\ DigitValue(Digits[d3 + 1]) = d3
          /\ Digits[d4 + 1] \in DigitChars /\ DigitValue(Digits[d4 + 1]) = d4
      BY <3>1, DigitCase
    <3>4. /\ f \in Seq(DigitChars) /\ Len(f) = 4
          /\ f[1] = Digits[d1 + 1] /\ f[2] = Digits[d2 + 1]
          /\ f[3] = Digits[d3 + 1] /\ f[4] = Digits[d4 + 1]
      BY <3>2, <3>3
    <3>5. Value(f) = 1000 * d1 + 100 * d2 + 10 * d3 + d4
      <4>1. Value(f) = 1000 * DigitValue(f[1]) + 100 * DigitValue(f[2])
                         + 10 * DigitValue(f[3]) + DigitValue(f[4])
        BY <3>4, ValueUnfold
      <4>. QED  BY <3>3, <3>4, <4>1
    <3>. QED  BY <3>1, <3>3, <3>4, <3>5
  <2>. QED  BY <1>0, <2>1, <2>2, <2>3, <2>4
<1>. HIDE DEF f
<1>3. field_ok(f)
  <2>1. f # <<>>
    BY <1>2
  <2>2. \A i \in 1..Len(f) : Contains(Digits, f[i])
    BY <1>2, ElementOfSeq, ContainsDigit
  <2>. QED  BY <1>2, <2>1, <2>2 DEF field_ok
<1>4. field_to_u32(f) = n
  BY <1>2 DEF field_to_u32
<1>. QED  BY <1>1, <1>2, <1>3, <1>4 DEF f

(* A field that the parser takes for a number of the protocol is "%d" of it. *)
LEMMA FieldNumber ==
  ASSUME NEW f \in Seq(Chars), field_ok(f)
  PROVE  /\ field_to_u32(f) \in Nat
         /\ field_to_u32(f) <= SOCKET_PULSE_LEN_MAX_US => f = Decimal(field_to_u32(f))
<1>1. /\ f \in Seq(DigitChars) /\ Len(f) \in Nat /\ Len(f) >= 1
      /\ Len(f) > 1 => f[1] # "0"
  <2>1. Len(f) \in Nat /\ f \in [1..Len(f) -> Chars] /\ f # <<>>
    BY LenProperties DEF field_ok
  <2>2. \A i \in 1..Len(f) : f[i] \in DigitChars
    BY ContainsDigit DEF field_ok
  <2>3. f \in [1..Len(f) -> DigitChars]
    BY <2>1, <2>2
  <2>4. f \in Seq(DigitChars)
    BY <2>1, <2>3
  <2>5. Len(f) # 0
    BY <2>1, <2>4, EmptySeq
  <2>. QED  BY <2>1, <2>4, <2>5 DEF field_ok
<1>2. field_to_u32(f) = IF Len(f) >= 10 THEN Large ELSE Value(f)
  BY DEF field_to_u32
<1>3. PICK v \in Nat : v = Value(f)
  <2>1. Len(f) \in 0..Len(f)
    BY <1>1
  <2>. QED  BY <1>1, <2>1, ValueFollow
<1>4. \A i \in 1..Len(f) : f[i] \in DigitChars
  BY <1>1, ElementOfSeq
<1>5. ASSUME Len(f) > 4 PROVE field_to_u32(f) > SOCKET_PULSE_LEN_MAX_US
  <2>1. f[1] # "0"
    BY <1>1, <1>5
  <2>2. v > SOCKET_PULSE_LEN_MAX_US
    BY <1>1, <1>3, <1>5, <2>1, LongValue
  <2>. QED  BY <1>2, <1>3, <2>2 DEF Large, SOCKET_PULSE_LEN_MAX_US
<1>6. field_to_u32(f) \in Nat
  BY <1>2, <1>3 DEF Large
<1>7. CASE Len(f) = 1
  <2>1. PICK d1 \in 0..9 :
          /\ d1 = DigitValue(f[1]) /\ Digits[d1 + 1] = f[1]
    <3>1. f[1] \in DigitChars
      BY <1>1, <1>4, <1>7
    <3>. QED  BY <3>1, DigitChar
  <2>2. v = d1
    BY <1>1, <1>3, <1>7, <2>1, ValueUnfold
  <2>3. f = <<f[1]>>
    BY <1>1, <1>7
  <2>4. Decimal(v) = <<Digits[v + 1]>>
    BY <2>2, DecimalForms
  <2>5. f = Decimal(v)
    BY <2>1, <2>2, <2>3, <2>4
  <2>. QED  BY <1>2, <1>3, <1>7, <2>5
<1>8. CASE Len(f) = 2
  <2>1. PICK d1 \in 1..9, d2 \in 0..9 :
          /\ d1 = DigitValue(f[1]) /\ Digits[d1 + 1] = f[1]
          /\ d2 = DigitValue(f[2]) /\ Digits[d2 + 1] = f[2]
    <3>1. f[1] \in DigitChars /\ f[2] \in DigitChars /\ f[1] # "0"
      BY <1>1, <1>4, <1>8
    <3>. QED  BY <3>1, DigitChar, SMTT(40)
  <2>2. v = 10 * d1 + d2
    BY <1>1, <1>3, <1>8, <2>1, ValueUnfold
  <2>3. f = <<f[1], f[2]>>
    BY <1>1, <1>8
  <2>4. 10 <= v /\ v <= 99
    BY <2>2
  <2>5. v \div 10 = d1
    BY <2>2
  <2>6. v % 10 = d2
    BY <2>2
  <2>7. Decimal(v) = <<Digits[v \div 10 + 1], Digits[(v % 10) + 1]>>
    BY <2>4, DecimalForms
  <2>8. f = Decimal(v)
    BY <2>1, <2>2, <2>3, <2>5, <2>6, <2>7
  <2>. QED  BY <1>2, <1>3, <1>8, <2>8
<1>9. CASE Len(f) = 3
  <2>1. PICK d1 \in 1..9, d2 \in 0..9, d3 \in 0..9 :
          /\ d1 = DigitValue(f[1]) /\ Digits[d1 + 1] = f[1]
          /\ d2 = DigitValue(f[2]) /\ Digits[d2 + 1] = f[2]
          /\ d3 = DigitValue(f[3]) /\ Digits[d3 + 1] = f[3]
    <3>1. f[1] \in DigitChars /\ f[2] \in DigitChars /\ f[3] \in DigitChars /\ f[1] # "0"
      BY <1>1, <1>4, <1>9
    <3>. DigitValue(f[1]) \in 1..9 /\ DigitValue(f[2]) \in 0..9 /\ DigitValue(f[3]) \in 0..9
      BY <3>1, DigitChar
    <3>. WITNESS DigitValue(f[1]) \in 1..9, DigitValue(f[2]) \in 0..9, DigitValue(f[3]) \in 0..9
    <3>. QED  BY <3>1, DigitChar
  <2>2. v = 100 * d1 + 10 * d2 + d3
    BY <1>1, <1>3, <1>9, <2>1, ValueUnfold
  <2>3. f = <<f[1], f[2], f[3]>>
    BY <1>1, <1>9
  <2>4. 100 <= v /\ v <= 999
    BY <2>2
  <2>5. v \div 100 = d1
    BY <2>2
  <2>6. (v \div 10) % 10 = d2
    BY <2>2
  <2>7. v % 10 = d3
    BY <2>2
  <2>8. Decimal(v) = <<Digits[v \div 100 + 1], Digits[((v \div 10) % 10) + 1], Digits[(v % 10) + 1]>>
    BY <2>4, DecimalForms
  <2>9. f = Decimal(v)
    BY <2>1, <2>2, <2>3, <2>5, <2>6, <2>7, <2>8
  <2>. QED  BY <1>2, <1>3, <1>9, <2>9
<1>10. CASE Len(f) = 4
  <2>1. PICK d1 \in 1..9, d2 \in 0..9, d3 \in 0..9, d4 \in 0..9 :
          /\ d1 = DigitValue(f[1]) /\ Digits[d1 + 1] = f[1]
          /\ d2 = DigitValue(f[2]) /\ Digits[d2 + 1] = f[2]
          /\ d3 = DigitValue(f[3]) /\ Digits[d3 + 1] = f[3]
          /\ d4 = DigitValue(f[4]) /\ Digits[d4 + 1] = f[4]
    <3>1. f[1] \in DigitChars /\ f[2] \in DigitChars /\ f[3] \in DigitChars /\ f[4] \in DigitChars /\ f[1] # "0"
      BY <1>1, <1>4, <1>10
    <3>. /\ DigitValue(f[1]) \in 1..9 /\ DigitValue(f[2]) \in 0..9
         /\ DigitValue(f[3]) \in 0..9 /\ DigitValue(f[4]) \in 0..9
      BY <3>1, DigitChar
    <3>. WITNESS DigitValue(f[1]) \in 1..9, DigitValue(f[2]) \in 0..9,
                 DigitValue(f[3]) \in 0..9, DigitValue(f[4]) \in 0..9
    <3>. QED  BY <3>1, DigitChar
  <2>2. v = 1000 * d1 + 100 * d2 + 10 * d3 + d4
    BY <1>1, <1>3, <1>10, <2>1, ValueUnfold
  <2>3. f = <<f[1], f[2], f[3], f[4]>>
    BY <1>1, <1>10
  <2>4. 1000 <= v
    BY <2>2
  <2>5. v \div 1000 = d1
    BY <2>2
  <2>6. (v \div 100) % 10 = d2
    BY <2>2
  <2>7. (v \div 10) % 10 = d3
    BY <2>2
  <2>8. v % 10 = d4
    BY <2>2
  <2>9. Decimal(v) = <<Digits[v \div 1000 + 1], Digits[((v \div 100) % 10) + 1],
                       Digits[((v \div 10) % 10) + 1], Digits[(v % 10) + 1]>>
    BY <2>4, DecimalFour
  <2>10. f = Decimal(v)
    <3>1. Decimal(v) = <<f[1], f[2], f[3], f[4]>>
      <4>1. Digits[v \div 1000 + 1] = f[1]
        BY <2>1, <2>5
      <4>2. Digits[((v \div 100) % 10) + 1] = f[2]
        BY <2>1, <2>6
      <4>3. Digits[((v \div 10) % 10) + 1] = f[3]
        BY <2>1, <2>7
      <4>4. Digits[(v % 10) + 1] = f[4]
        BY <2>1, <2>8
      <4>. QED  BY <2>9, <4>1, <4>2, <4>3, <4>4
    <3>. QED  BY <2>3, <3>1
  <2>. QED  BY <1>2, <1>3, <1>10, <2>10
<1>11. CASE Len(f) > 4
  <2>1. field_to_u32(f) > SOCKET_PULSE_LEN_MAX_US
    BY <1>5, <1>11
  <2>. QED  BY <1>6, <2>1 DEF SOCKET_PULSE_LEN_MAX_US
<1>12. Len(f) = 1 \/ Len(f) = 2 \/ Len(f) = 3 \/ Len(f) = 4 \/ Len(f) > 4
  <2>1. PICK k \in Nat : k = Len(f) /\ k >= 1
    BY <1>1
  <2>2. k = 1 \/ k = 2 \/ k = 3 \/ k = 4 \/ k > 4
    BY <2>1
  <2>. QED  BY <2>1, <2>2
<1>. QED  BY <1>7, <1>8, <1>9, <1>10, <1>11, <1>12

-----------------------------------------------------------------------------
(* The fields of a line.                                                     *)

(* What has no separator in it is one piece ...                              *)
LEMMA PiecesPlain ==
  ASSUME NEW S, NEW sep, NEW w \in Seq(S \ {sep})
  PROVE  Pieces(w, sep) = <<w>>
<1>. DEFINE P == S \ {sep}
            T == {u \in Seq(P) : Pieces(u, sep) = <<u>>}
<1>1. <<>> \in T
  BY PiecesEmpty
<1>2. ASSUME NEW u \in Seq(P), u \in T, NEW c \in P PROVE Append(u, c) \in T
  <2>1. Append(u, c) \in Seq(P) /\ u \in Seq(S) /\ c \in S /\ c # sep
    BY AppendProperties, SeqMonotonic
  <2>2. Pieces(Append(u, c), sep) = PieceStep(<<u>>, c, sep)
    BY <1>2, <2>1, PiecesAppend
  <2>3. PieceStep(<<u>>, c, sep) = <<Append(u, c)>>
    <3>1. <<u>> \in Seq(Seq(S)) /\ Len(<<u>>) = 1 /\ Append(u, c) \in Seq(S)
      BY <2>1, AppendProperties
    <3>2. PieceStep(<<u>>, c, sep) = [<<u>> EXCEPT ![1] = Append(u, c)]
      BY <2>1, <3>1 DEF PieceStep
    <3>. QED  BY <3>1, <3>2
  <2>. QED  BY <2>1, <2>2, <2>3
<1>3. Seq(P) \subseteq T
  <2>. HIDE DEF P, T
  <2>. QED  BY <1>1, <1>2, SeqInduction
<1>. QED  BY <1>3

(* ... and after a separator it is one more piece.                           *)
LEMMA PiecesJoin ==
  ASSUME NEW S, NEW sep \in S, NEW b \in Seq(S), NEW w \in Seq(S \ {sep})
  PROVE  Pieces((b \o <<sep>>) \o w, sep) = Append(Pieces(b, sep), w)
<1>. DEFINE P == S \ {sep}
            h == b \o <<sep>>
            ps == Pieces(b, sep)
            T == {u \in Seq(P) : Pieces(h \o u, sep) = Append(ps, u)}
<1>0. ps \in Seq(Seq(S)) /\ Len(ps) \in Nat /\ ps \in PieceLists(S)
  BY PiecesType DEF PieceLists
<1>1. h = Append(b, sep) /\ h \in Seq(S)
  BY AppendIsConcat, AppendProperties
<1>2. <<>> \in T
  <2>1. h \o <<>> = h
    <3>. HIDE DEF h
    <3>. QED  BY <1>1, ConcatEmptySeq
  <2>2. Pieces(h, sep) = PieceStep(ps, sep, sep)
    <3>1. Pieces(Append(b, sep), sep) = PieceStep(ps, sep, sep)
      BY PiecesAppend
    <3>. QED  BY <1>1, <3>1
  <2>3. PieceStep(ps, sep, sep) = Append(ps, <<>>)
    BY DEF PieceStep
  <2>. HIDE DEF h, ps
  <2>. QED  BY <2>1, <2>2, <2>3
<1>3. ASSUME NEW u \in Seq(P), u \in T, NEW c \in P PROVE Append(u, c) \in T
  <2>1. Append(u, c) \in Seq(P) /\ u \in Seq(S) /\ c \in S /\ c # sep /\ Append(u, c) \in Seq(S)
    BY AppendProperties, SeqMonotonic
  <2>2. h \o Append(u, c) = Append(h \o u, c) /\ h \o u \in Seq(S)
    <3>1. <<c>> \in Seq(S) /\ Append(u, c) = u \o <<c>>
      BY <2>1, AppendIsConcat
    <3>2. h \o u \in Seq(S) /\ Append(h \o u, c) = (h \o u) \o <<c>>
      <4>. HIDE DEF h
      <4>1. h \o u \in Seq(S)
        BY <1>1, <2>1, ConcatProperties
      <4>. QED  BY <2>1, <4>1, AppendIsConcat
    <3>. HIDE DEF h
    <3>. QED  BY <1>1, <2>1, <3>1, <3>2, ConcatAssociative
  <2>3. Pieces(h \o Append(u, c), sep) = PieceStep(Append(ps, u), c, sep)
    <3>1. Pieces(h \o u, sep) = Append(ps, u)
      BY <1>3
    <3>. HIDE DEF h, ps
    <3>. QED  BY <2>1, <2>2, <3>1, PiecesAppend
  <2>4. PieceStep(Append(ps, u), c, sep) = Append(ps, Append(u, c))
    <3>. HIDE DEF ps
    <3>. DEFINE q == Append(ps, u)
                n == Len(ps) + 1
                e == Append(u, c)
                x == [q EXCEPT ![n] = e]
    <3>1. /\ q \in Seq(Seq(S)) /\ Len(q) = n /\ q[n] = u
          /\ \A i \in 1..Len(ps) : q[i] = ps[i]
      BY <1>0, <2>1, AppendProperties
    <3>2. PieceStep(q, c, sep) = x
      <4>. HIDE DEF q, n
      <4>. QED  BY <2>1, <3>1 DEF PieceStep
    <3>3. e \in Seq(S) /\ n \in 1..n /\ n \in Nat
      BY <1>0, <2>1
    <3>4. /\ x \in Seq(Seq(S)) /\ Len(x) = n
          /\ \A i \in 1..n : x[i] = IF i = n THEN e ELSE q[i]
      <4>. HIDE DEF q, n, e
      <4>. QED  BY <3>1, <3>3, ExceptSeq
    <3>5. /\ Append(ps, e) \in Seq(Seq(S)) /\ Len(Append(ps, e)) = n
          /\ \A i \in 1..Len(ps) : Append(ps, e)[i] = ps[i]
          /\ Append(ps, e)[n] = e
      <4>. HIDE DEF e
      <4>. QED  BY <1>0, <3>3, AppendProperties
    <3>6. ASSUME NEW i \in 1..n PROVE x[i] = Append(ps, e)[i]
      <4>1. i = n \/ (i \in 1..Len(ps) /\ i # n)
        BY <1>0
      <4>. HIDE DEF x, q, e, n
      <4>. QED  BY <3>1, <3>4, <3>5, <4>1
    <3>7. x = Append(ps, e)
      <4>. HIDE DEF x, q, e, n
      <4>. QED  BY <3>4, <3>5, <3>6, SeqEqual
    <3>. QED  BY <3>2, <3>7
  <2>. HIDE DEF h, ps
  <2>. QED  BY <2>1, <2>3, <2>4
<1>4. Seq(P) \subseteq T
  <2>. HIDE DEF P, T
  <2>. QED  BY <1>2, <1>3, SeqInduction
<1>5. w \in T
  <2>. HIDE DEF T
  <2>. QED  BY <1>4
<1>. QED  BY <1>5

(* Appending to the second of two sequences appends to both.                 *)
LEMMA ConcatAppend ==
  ASSUME NEW S, NEW h \in Seq(S), NEW u \in Seq(S), NEW c \in S
  PROVE  h \o u \in Seq(S) /\ Append(h \o u, c) = h \o Append(u, c)
<1>1. <<c>> \in Seq(S) /\ Append(u, c) = u \o <<c>>
  BY AppendIsConcat
<1>2. h \o u \in Seq(S)
  BY ConcatProperties
<1>3. Append(h \o u, c) = (h \o u) \o <<c>>
  BY <1>2, AppendIsConcat
<1>. QED  BY <1>1, <1>2, <1>3, ConcatAssociative

(* A line has no separator, or it has a last one.                            *)
LEMMA LastSeparator ==
  ASSUME NEW S, NEW sep \in S, NEW bytes \in Seq(S)
  PROVE  \/ bytes \in Seq(S \ {sep})
         \/ \E b \in Seq(S), w \in Seq(S \ {sep}) : bytes = (b \o <<sep>>) \o w
<1>. DEFINE P == S \ {sep}
            T == {u \in Seq(S) : \/ u \in Seq(P)
                                 \/ \E b \in Seq(S), w \in Seq(P) : u = (b \o <<sep>>) \o w}
<1>1. <<>> \in T
  BY EmptySeq
<1>2. ASSUME NEW u \in Seq(S), u \in T, NEW c \in S PROVE Append(u, c) \in T
  <2>0. Append(u, c) \in Seq(S)
    BY AppendProperties
  <2>1. CASE c = sep
    <3>1. Append(u, c) = u \o <<sep>> /\ u \o <<sep>> \in Seq(S)
      BY <2>0, <2>1, AppendIsConcat
    <3>2. (u \o <<sep>>) \o <<>> = u \o <<sep>>
      BY <3>1, ConcatEmptySeq
    <3>3. <<>> \in Seq(P)
      BY EmptySeq
    <3>. QED  BY <2>0, <3>1, <3>2, <3>3
  <2>2. CASE c # sep /\ u \in Seq(P)
    <3>1. Append(u, c) \in Seq(P)
      BY <2>2, AppendProperties
    <3>. QED  BY <2>0, <3>1
  <2>3. CASE c # sep /\ u \notin Seq(P)
    <3>1. PICK b \in Seq(S), w \in Seq(P) : u = (b \o <<sep>>) \o w
      BY <1>2, <2>3
    <3>2. b \o <<sep>> \in Seq(S) /\ w \in Seq(S) /\ Append(w, c) \in Seq(P)
      <4>1. Append(b, sep) = b \o <<sep>> /\ Append(b, sep) \in Seq(S)
        BY AppendIsConcat, AppendProperties
      <4>. QED  BY <2>3, <4>1, AppendProperties, SeqMonotonic
    <3>3. Append(u, c) = (b \o <<sep>>) \o Append(w, c)
      <4>. DEFINE h == b \o <<sep>>
      <4>1. h \in Seq(S) /\ u = h \o w
        BY <3>1, <3>2
      <4>. HIDE DEF h
      <4>2. Append(u, c) = h \o Append(w, c)
        BY <3>2, <4>1, ConcatAppend
      <4>. QED  BY <4>2 DEF h
    <3>. QED  BY <2>0, <3>2, <3>3
  <2>. QED  BY <2>1, <2>2, <2>3
<1>3. Seq(S) \subseteq T
  <2>. HIDE DEF T
  <2>. QED  BY <1>1, <1>2, SeqInduction
<1>. QED  BY <1>3

(* So the pieces of a line, joined by the separator, are the line.           *)
LEMMA FieldsOne ==
  ASSUME NEW S, NEW sep \in S, NEW bytes \in Seq(S), Len(Pieces(bytes, sep)) = 1
  PROVE  bytes \in Seq(S \ {sep}) /\ Pieces(bytes, sep) = <<bytes>>
<1>1. ASSUME NEW b \in Seq(S), NEW w \in Seq(S \ {sep}), bytes = (b \o <<sep>>) \o w
      PROVE  FALSE
  <2>1. Pieces(bytes, sep) = Append(Pieces(b, sep), w)
    BY <1>1, PiecesJoin
  <2>2. Pieces(b, sep) \in Seq(Seq(S)) /\ Len(Pieces(b, sep)) >= 1 /\ w \in Seq(S)
    BY PiecesType, SeqMonotonic DEF PieceLists
  <2>3. Len(Append(Pieces(b, sep), w)) = Len(Pieces(b, sep)) + 1 /\ Len(Pieces(b, sep)) \in Nat
    BY <2>2, AppendProperties, LenProperties
  <2>. QED  BY <2>1, <2>2, <2>3
<1>2. bytes \in Seq(S \ {sep})
  <2>1. \/ bytes \in Seq(S \ {sep})
        \/ \E b \in Seq(S), w \in Seq(S \ {sep}) : bytes = (b \o <<sep>>) \o w
    BY LastSeparator, ZenonT(60)
  <2>. QED  BY <1>1, <2>1, Zenon
<1>. QED  BY <1>2, PiecesPlain

HasLast(bytes, sep, S) ==
  \E b \in Seq(S), w \in Seq(S \ {sep}) :
    bytes = (b \o <<sep>>) \o w /\ Pieces(bytes, sep) = Append(Pieces(b, sep), w)

LEMMA FieldsMore ==
  ASSUME NEW S, NEW sep \in S, NEW bytes \in Seq(S), Len(Pieces(bytes, sep)) # 1
  PROVE  HasLast(bytes, sep, S)
<1>1. \/ bytes \in Seq(S \ {sep})
      \/ \E b \in Seq(S), w \in Seq(S \ {sep}) : bytes = (b \o <<sep>>) \o w
  BY LastSeparator, ZenonT(60)
<1>2. bytes \notin Seq(S \ {sep})
  <2>. SUFFICES ASSUME bytes \in Seq(S \ {sep}) PROVE FALSE
    OBVIOUS
  <2>1. Pieces(bytes, sep) = <<bytes>>
    BY PiecesPlain
  <2>2. Len(<<bytes>>) = 1
    OBVIOUS
  <2>. QED  BY <2>1, <2>2
<1>3. PICK b \in Seq(S), w \in Seq(S \ {sep}) : bytes = (b \o <<sep>>) \o w
  BY <1>1, <1>2, Zenon
<1>4. Pieces(bytes, sep) = Append(Pieces(b, sep), w)
  BY <1>3, PiecesJoin
<1>. QED  BY <1>3, <1>4 DEF HasLast

(* A piece more.                                                             *)
LEMMA AppendOne ==
  ASSUME NEW T, NEW a \in T, NEW b \in T
  PROVE  Append(<<a>>, b) = <<a, b>>
<1>1. <<a>> \in Seq(T) /\ Len(<<a>>) = 1 /\ <<a, b>> \in Seq(T) /\ Len(<<a, b>>) = 2
  OBVIOUS
<1>2. PICK s \in Seq(T) : s = <<a>> /\ Len(s) = 1
  BY <1>1
<1>3. PICK t \in Seq(T) : t = <<a, b>> /\ Len(t) = 2
  BY <1>1
<1>4. /\ Append(s, b) \in Seq(T) /\ Len(Append(s, b)) = 2 /\ Append(s, b)[2] = b
      /\ Append(s, b)[1] = s[1]
  BY <1>2, AppendProperties
<1>5. t[1] = s[1] /\ t[2] = b
  BY <1>2, <1>3
<1>6. \A i \in 1..2 : Append(s, b)[i] = t[i]
  BY <1>4, <1>5
<1>7. Append(s, b) = t
  BY <1>3, <1>4, <1>6, SeqEqual
<1>. QED  BY <1>2, <1>3, <1>7

LEMMA AppendTwo ==
  ASSUME NEW T, NEW a \in T, NEW b \in T, NEW c \in T
  PROVE  Append(<<a, b>>, c) = <<a, b, c>>
<1>1. <<a, b>> \in Seq(T) /\ Len(<<a, b>>) = 2 /\ <<a, b, c>> \in Seq(T) /\ Len(<<a, b, c>>) = 3
  OBVIOUS
<1>2. PICK s \in Seq(T) : s = <<a, b>> /\ Len(s) = 2
  BY <1>1
<1>3. PICK t \in Seq(T) : t = <<a, b, c>> /\ Len(t) = 3
  BY <1>1
<1>4. /\ Append(s, c) \in Seq(T) /\ Len(Append(s, c)) = 3 /\ Append(s, c)[3] = c
      /\ Append(s, c)[1] = s[1] /\ Append(s, c)[2] = s[2]
  BY <1>2, AppendProperties
<1>5. t[1] = s[1] /\ t[2] = s[2] /\ t[3] = c
  BY <1>2, <1>3
<1>6. \A i \in 1..3 : Append(s, c)[i] = t[i]
  BY <1>4, <1>5
<1>7. Append(s, c) = t
  BY <1>3, <1>4, <1>6, SeqEqual
<1>. QED  BY <1>2, <1>3, <1>7

LEMMA AppendThree ==
  ASSUME NEW T, NEW a \in T, NEW b \in T, NEW c \in T, NEW d \in T
  PROVE  Append(<<a, b, c>>, d) = <<a, b, c, d>>
<1>1. <<a, b, c>> \in Seq(T) /\ Len(<<a, b, c>>) = 3 /\ <<a, b, c, d>> \in Seq(T) /\ Len(<<a, b, c, d>>) = 4
  OBVIOUS
<1>2. PICK s \in Seq(T) : s = <<a, b, c>> /\ Len(s) = 3
  BY <1>1
<1>3. PICK t \in Seq(T) : t = <<a, b, c, d>> /\ Len(t) = 4
  BY <1>1
<1>4. /\ Append(s, d) \in Seq(T) /\ Len(Append(s, d)) = 4 /\ Append(s, d)[4] = d
      /\ Append(s, d)[1] = s[1] /\ Append(s, d)[2] = s[2] /\ Append(s, d)[3] = s[3]
  BY <1>2, AppendProperties
<1>5. t[1] = s[1] /\ t[2] = s[2] /\ t[3] = s[3] /\ t[4] = d
  BY <1>2, <1>3
<1>6. \A i \in 1..4 : Append(s, d)[i] = t[i]
  BY <1>4, <1>5
<1>7. Append(s, d) = t
  BY <1>3, <1>4, <1>6, SeqEqual
<1>. QED  BY <1>2, <1>3, <1>7

Join2(a, b, sep) == (a \o <<sep>>) \o b
Join3(a, b, c, sep) == (Join2(a, b, sep) \o <<sep>>) \o c
Join4(a, b, c, d, sep) == (Join3(a, b, c, sep) \o <<sep>>) \o d

LEMMA JoinType ==
  ASSUME NEW S, NEW sep \in S, NEW a \in Seq(S), NEW b \in Seq(S)
  PROVE  Join2(a, b, sep) \in Seq(S)
<1>1. a \o <<sep>> \in Seq(S)
  BY AppendIsConcat, AppendProperties
<1>. QED  BY <1>1, ConcatProperties DEF Join2

(* What is joined is split again.                                            *)
LEMMA SplitJoin ==
  ASSUME NEW S, NEW sep \in S,
         NEW a \in Seq(S \ {sep}), NEW b \in Seq(S \ {sep}), NEW c \in Seq(S \ {sep})
  PROVE  /\ Join3(a, b, c, sep) \in Seq(S)
         /\ Pieces(Join3(a, b, c, sep), sep) = <<a, b, c>>
         /\ \A d \in Seq(S \ {sep}) : Pieces(Join4(a, b, c, d, sep), sep) = <<a, b, c, d>>
<1>1. a \in Seq(S) /\ b \in Seq(S) /\ c \in Seq(S)
  BY SeqMonotonic
<1>2. Pieces(a, sep) = <<a>>
  BY PiecesPlain
<1>. DEFINE j2 == Join2(a, b, sep)
            j3 == Join3(a, b, c, sep)
<1>3. j2 \in Seq(S) /\ Pieces(j2, sep) = <<a, b>>
  <2>1. Pieces(j2, sep) = Append(<<a>>, b)
    BY <1>1, <1>2, PiecesJoin DEF Join2
  <2>2. Append(<<a>>, b) = <<a, b>>
    BY AppendOne
  <2>. QED  BY <1>1, <2>1, <2>2, JoinType
<1>4. j3 = Join2(j2, c, sep)
  BY DEF Join3, Join2
<1>5. j3 \in Seq(S) /\ Pieces(j3, sep) = <<a, b, c>>
  <2>. HIDE DEF j2, j3
  <2>1. Pieces(j3, sep) = Append(<<a, b>>, c)
    BY <1>1, <1>3, <1>4, PiecesJoin DEF Join2
  <2>2. Append(<<a, b>>, c) = <<a, b, c>>
    BY AppendTwo
  <2>. QED  BY <1>1, <1>3, <1>4, <2>1, <2>2, JoinType
<1>6. ASSUME NEW d \in Seq(S \ {sep})
      PROVE  Pieces(Join4(a, b, c, d, sep), sep) = <<a, b, c, d>>
  <2>1. Join4(a, b, c, d, sep) = (j3 \o <<sep>>) \o d
    BY DEF Join4
  <2>. HIDE DEF j3
  <2>2. Pieces((j3 \o <<sep>>) \o d, sep) = Append(<<a, b, c>>, d)
    BY <1>5, PiecesJoin
  <2>3. Append(<<a, b, c>>, d) = <<a, b, c, d>>
    BY AppendThree
  <2>. QED  BY <2>1, <2>2, <2>3
<1>. QED  BY <1>5, <1>6

(* And what is split is joined again.                                        *)
LEMMA JoinTwo ==
  ASSUME NEW S, NEW sep \in S, NEW bytes \in Seq(S), Len(Pieces(bytes, sep)) = 2
  PROVE  \E a \in Seq(S \ {sep}), b \in Seq(S \ {sep}) :
           bytes = Join2(a, b, sep) /\ Pieces(bytes, sep) = <<a, b>>
<1>1. PICK p \in Seq(S), b \in Seq(S \ {sep}) :
        bytes = (p \o <<sep>>) \o b /\ Pieces(bytes, sep) = Append(Pieces(p, sep), b)
  <2>1. Len(Pieces(bytes, sep)) # 1
    OBVIOUS
  <2>2. HasLast(bytes, sep, S)
    BY <2>1, FieldsMore
  <2>. QED  BY <2>2, Zenon DEF HasLast
<1>2. Pieces(p, sep) \in Seq(Seq(S)) /\ b \in Seq(S)
  BY PiecesType, SeqMonotonic DEF PieceLists
<1>3. Len(Append(Pieces(p, sep), b)) = Len(Pieces(p, sep)) + 1 /\ Len(Pieces(p, sep)) \in Nat
  BY <1>2, AppendProperties, LenProperties
<1>4. Len(Pieces(p, sep)) = 1
  <2>1. PICK n \in Nat : n = Len(Pieces(p, sep))
    BY <1>3
  <2>2. n + 1 = 2
    BY <1>1, <1>3, <2>1
  <2>. QED  BY <2>1, <2>2
<1>5. p \in Seq(S \ {sep}) /\ Pieces(p, sep) = <<p>>
  BY <1>4, FieldsOne
<1>6. Append(<<p>>, b) = <<p, b>>
  BY <1>5, AppendOne
<1>7. bytes = Join2(p, b, sep) /\ Pieces(bytes, sep) = <<p, b>>
  BY <1>1, <1>5, <1>6 DEF Join2
<1>. QED  BY <1>5, <1>7

InThree(bytes, sep, S) ==
  \E a \in Seq(S \ {sep}), b \in Seq(S \ {sep}), c \in Seq(S \ {sep}) :
    bytes = Join3(a, b, c, sep) /\ Pieces(bytes, sep) = <<a, b, c>>

InFour(bytes, sep, S) ==
  \E a \in Seq(S \ {sep}), b \in Seq(S \ {sep}), c \in Seq(S \ {sep}), d \in Seq(S \ {sep}) :
    bytes = Join4(a, b, c, d, sep) /\ Pieces(bytes, sep) = <<a, b, c, d>>

LEMMA JoinThree ==
  ASSUME NEW S, NEW sep \in S, NEW bytes \in Seq(S), Len(Pieces(bytes, sep)) = 3
  PROVE  InThree(bytes, sep, S)
<1>1. PICK p \in Seq(S), c \in Seq(S \ {sep}) :
        bytes = (p \o <<sep>>) \o c /\ Pieces(bytes, sep) = Append(Pieces(p, sep), c)
  <2>1. Len(Pieces(bytes, sep)) # 1
    OBVIOUS
  <2>2. HasLast(bytes, sep, S)
    BY <2>1, FieldsMore
  <2>. QED  BY <2>2, Zenon DEF HasLast
<1>2. Pieces(p, sep) \in Seq(Seq(S)) /\ c \in Seq(S)
  BY PiecesType, SeqMonotonic DEF PieceLists
<1>3. Len(Append(Pieces(p, sep), c)) = Len(Pieces(p, sep)) + 1 /\ Len(Pieces(p, sep)) \in Nat
  BY <1>2, AppendProperties, LenProperties
<1>4. Len(Pieces(p, sep)) = 2
  <2>1. PICK n \in Nat : n = Len(Pieces(p, sep))
    BY <1>3
  <2>2. n + 1 = 3
    BY <1>1, <1>3, <2>1
  <2>. QED  BY <2>1, <2>2
<1>5. PICK a \in Seq(S \ {sep}), b \in Seq(S \ {sep}) :
        p = Join2(a, b, sep) /\ Pieces(p, sep) = <<a, b>>
  BY <1>4, JoinTwo
<1>6. Append(<<a, b>>, c) = <<a, b, c>>
  BY AppendTwo
<1>7. bytes = Join3(a, b, c, sep) /\ Pieces(bytes, sep) = <<a, b, c>>
  BY <1>1, <1>5, <1>6 DEF Join3
<1>. QED  BY <1>7 DEF InThree

LEMMA JoinFour ==
  ASSUME NEW S, NEW sep \in S, NEW bytes \in Seq(S), Len(Pieces(bytes, sep)) = 4
  PROVE  InFour(bytes, sep, S)
<1>1. PICK p \in Seq(S), d \in Seq(S \ {sep}) :
        bytes = (p \o <<sep>>) \o d /\ Pieces(bytes, sep) = Append(Pieces(p, sep), d)
  <2>1. Len(Pieces(bytes, sep)) # 1
    OBVIOUS
  <2>2. HasLast(bytes, sep, S)
    BY <2>1, FieldsMore
  <2>. QED  BY <2>2, Zenon DEF HasLast
<1>2. Pieces(p, sep) \in Seq(Seq(S)) /\ d \in Seq(S)
  BY PiecesType, SeqMonotonic DEF PieceLists
<1>3. Len(Append(Pieces(p, sep), d)) = Len(Pieces(p, sep)) + 1 /\ Len(Pieces(p, sep)) \in Nat
  BY <1>2, AppendProperties, LenProperties
<1>4. Len(Pieces(p, sep)) = 3
  <2>1. PICK n \in Nat : n = Len(Pieces(p, sep))
    BY <1>3
  <2>2. n + 1 = 4
    BY <1>1, <1>3, <2>1
  <2>. QED  BY <2>1, <2>2
<1>5. PICK a \in Seq(S \ {sep}), b \in Seq(S \ {sep}), c \in Seq(S \ {sep}) :
        p = Join3(a, b, c, sep) /\ Pieces(p, sep) = <<a, b, c>>
  <2>1. InThree(p, sep, S)
    BY <1>4, JoinThree
  <2>. QED  BY <2>1, Zenon DEF InThree
<1>6. Append(<<a, b, c>>, d) = <<a, b, c, d>>
  BY AppendThree
<1>7. bytes = Join4(a, b, c, d, sep) /\ Pieces(bytes, sep) = <<a, b, c, d>>
  BY <1>1, <1>5, <1>6 DEF Join4
<1>. QED  BY <1>7 DEF InFour

-----------------------------------------------------------------------------
(* The parser.                                                               *)

(* The limits of the library's tables.                                       *)
LEMMA Limits ==
  ASSUME NEW a
  PROVE  address_check(a) <=>
           \/ a[1] = 0 /\ a[2] < 4 /\ a[3] < 3 /\ a[4] < 2
           \/ a[1] = 1 /\ a[2] < 32 /\ a[3] < 32 /\ a[4] < 2
<1>1. Len(rev_008345_groups) = 4 /\ Len(rev_008345_sockets) = 3 /\ Len(rev_008345_data) = 2
  BY DEF rev_008345_groups, rev_008345_sockets, rev_008345_data
<1>2. Len(pollin_2605_groups) = 32 /\ Len(pollin_2605_data) = 2
  BY DEF pollin_2605_groups, pollin_2605_data
<1>3. Len(pollin_2605_sockets) = 32
  BY <1>2 DEF pollin_2605_sockets
<1>4. Tables(0) = <<rev_008345_groups, rev_008345_sockets, rev_008345_data>>
  BY DEF Tables, REV_008345, POLLIN_2605
<1>5. Tables(1) = <<pollin_2605_groups, pollin_2605_sockets, pollin_2605_data>>
  BY DEF Tables, REV_008345, POLLIN_2605
<1>6. dev_limits(0)[1] = 4 /\ dev_limits(0)[2] = 3 /\ dev_limits(0)[3] = 2
  BY <1>1, <1>4 DEF dev_limits
<1>7. dev_limits(1)[1] = 32 /\ dev_limits(1)[2] = 32 /\ dev_limits(1)[3] = 2
  BY <1>2, <1>3, <1>5 DEF dev_limits
<1>8. address_check(a) <=>
        /\ a[1] \in {0, 1}
        /\ \A k \in 1..3 : a[k + 1] < dev_limits(a[1])[k]
  BY DEF address_check, KnownDev, REV_008345, POLLIN_2605
<1>9. ASSUME NEW L PROVE (\A k \in 1..3 : a[k + 1] < L[k]) <=> a[2] < L[1] /\ a[3] < L[2] /\ a[4] < L[3]
  <2>1. (\A k \in 1..3 : a[k + 1] < L[k]) => a[1 + 1] < L[1] /\ a[2 + 1] < L[2] /\ a[3 + 1] < L[3]
    OBVIOUS
  <2>2. ASSUME a[2] < L[1], a[3] < L[2], a[4] < L[3], NEW k \in 1..3 PROVE a[k + 1] < L[k]
    <3>1. k = 1 \/ k = 2 \/ k = 3
      OBVIOUS
    <3>. QED  BY <2>2, <3>1
  <2>. QED  BY <2>1, <2>2
<1>10. CASE a[1] = 0
  <2>1. address_check(a) <=> \A k \in 1..3 : a[k + 1] < dev_limits(0)[k]
    BY <1>8, <1>10
  <2>. QED  BY <1>6, <1>9, <1>10, <2>1
<1>11. CASE a[1] = 1
  <2>1. address_check(a) <=> \A k \in 1..3 : a[k + 1] < dev_limits(1)[k]
    BY <1>8, <1>11
  <2>. QED  BY <1>7, <1>9, <1>11, <2>1
<1>. QED  BY <1>8, <1>10, <1>11

LEMMA NumeralPlain ==
  ASSUME NEW n \in 0..SOCKET_PULSE_LEN_MAX_US
  PROVE  Numerals[n] \in Seq(Chars \ {Blank})
<1>1. DigitChars \subseteq Chars \ {Blank}
  BY BlankApart DEF Chars
<1>. QED  BY <1>1, NumberField, SeqMonotonic

LEMMA WordPlain ==
  ASSUME NEW w \in Seq(Symbols)
  PROVE  w \in Seq(Chars \ {Blank})
<1>1. Symbols \subseteq Chars \ {Blank}
  BY BlankApart DEF Chars
<1>. QED  BY <1>1, SeqMonotonic

(* A valid address is four numbers of the protocol.                          *)
LEMMA ValidNumbers ==
  ASSUME NEW a \in ValidAddresses
  PROVE  /\ \A i \in 1..4 : a[i] \in 0..SOCKET_PULSE_LEN_MAX_US
         /\ a = [i \in 1..4 |-> a[i]]
         /\ address_check(a)
<1>1. a \in (0..1) \X (0..31) \X (0..31) \X (0..1) /\ address_check(a)
  BY DEF ValidAddresses
<1>2. a[1] \in 0..1 /\ a[2] \in 0..31 /\ a[3] \in 0..31 /\ a[4] \in 0..1
  BY <1>1
<1>3. ASSUME NEW i \in 1..4 PROVE a[i] \in 0..SOCKET_PULSE_LEN_MAX_US
  <2>1. i = 1 \/ i = 2 \/ i = 3 \/ i = 4
    OBVIOUS
  <2>. QED  BY <1>2, <2>1 DEF SOCKET_PULSE_LEN_MAX_US
<1>4. a = [i \in 1..4 |-> a[i]]
  BY <1>1
<1>. QED  BY <1>1, <1>3, <1>4

(* A rendered address is parsed as that address.                             *)
LEMMA ParseRendered ==
  ASSUME NEW a \in ValidAddresses
  PROVE  parse_line(Render(a)) = Switch(a)
<1>. DEFINE P == Chars \ {Blank}
            N(i) == Numerals[a[i]]
            f == <<N(1), N(2), N(3), N(4)>>
<1>1. \A i \in 1..4 : a[i] \in 0..SOCKET_PULSE_LEN_MAX_US
  BY ValidNumbers
<1>2. \A i \in 1..4 : N(i) \in Seq(P) /\ field_ok(N(i)) /\ field_to_u32(N(i)) = a[i]
  BY <1>1, NumberField, NumeralPlain
<1>3. Render(a) = Join4(N(1), N(2), N(3), N(4), Blank)
  BY DEF Render, Join4, Join3, Join2
<1>4. Blank \in Chars
  BY DEF Chars
<1>5. split_fields(Render(a)) = f
  <2>1. N(1) \in Seq(P) /\ N(2) \in Seq(P) /\ N(3) \in Seq(P) /\ N(4) \in Seq(P)
    BY <1>2
  <2>. HIDE DEF N
  <2>2. Pieces(Join4(N(1), N(2), N(3), N(4), Blank), Blank) = f
    BY <1>4, <2>1, SplitJoin
  <2>. QED  BY <1>3, <2>2 DEF split_fields
<1>6. Len(f) = 4 /\ \A i \in 1..4 : f[i] = N(i)
  <2>. HIDE DEF N
  <2>1. Len(f) = 4 /\ f[1] = N(1) /\ f[2] = N(2) /\ f[3] = N(3) /\ f[4] = N(4)
    OBVIOUS
  <2>2. ASSUME NEW i \in 1..4 PROVE f[i] = N(i)
    <3>1. i = 1 \/ i = 2 \/ i = 3 \/ i = 4
      OBVIOUS
    <3>. HIDE DEF f
    <3>. QED  BY <2>1, <3>1
  <2>. QED  BY <2>1, <2>2
<1>7. [i \in 1..4 |-> field_to_u32(f[i])] = a
  <2>1. \A i \in 1..4 : field_to_u32(f[i]) = a[i]
    <3>. HIDE DEF f, N
    <3>. QED  BY <1>2, <1>6
  <2>2. [i \in 1..4 |-> field_to_u32(f[i])] = [i \in 1..4 |-> a[i]]
    <3>. HIDE DEF f
    <3>. QED  BY <2>1
  <2>. HIDE DEF f
  <2>. QED  BY <2>2, ValidNumbers
<1>8. \A i \in 1..4 : field_ok(f[i])
  <2>. HIDE DEF f, N
  <2>. QED  BY <1>2, <1>6
<1>9. parse_line(Render(a)) = check_range([i \in 1..4 |-> field_to_u32(f[i])])
  <2>. HIDE DEF f
  <2>1. Len(f) # 3
    BY <1>6
  <2>. QED  BY <1>5, <1>6, <1>8, <2>1 DEF parse_line
<1>. HIDE DEF f
<1>. QED  BY <1>7, <1>9, ValidNumbers DEF check_range

RAW == <<"r", "a", "w">>

LEMMA RawPlain == RAW \in Seq(Chars \ {Blank}) /\ Len(RAW) = 3
<1>1. "r" \in Chars \ {Blank} /\ "a" \in Chars \ {Blank} /\ "w" \in Chars \ {Blank}
  BY BlankApart DEF Chars
<1>. HIDE DEF Chars
<1>. QED  BY <1>1 DEF RAW

LEMMA RenderRawJoin ==
  ASSUME NEW w, NEW p
  PROVE  RenderRaw(w, p) = Join3(RAW, w, Numerals[p], Blank)
<1>1. <<"r", "a", "w">> \o <<Blank>> = <<"r", "a", "w", Blank>>
  <2>1. "r" \in Chars /\ "a" \in Chars /\ "w" \in Chars /\ Blank \in Chars
    BY DEF Chars
  <2>2. Append(<<"r", "a", "w">>, Blank) = <<"r", "a", "w", Blank>>
    BY <2>1, AppendThree
  <2>3. <<"r", "a", "w">> \in Seq(Chars)
    BY <2>1
  <2>. QED  BY <2>1, <2>2, <2>3, AppendIsConcat
<1>. QED  BY <1>1 DEF RenderRaw, Join3, Join2, RAW

(* A rendered codeword is parsed as that codeword.                           *)
LEMMA ParseRenderedRaw ==
  ASSUME NEW w \in Seq(Symbols), NEW p \in SOCKET_PULSE_LEN_MIN_US..SOCKET_PULSE_LEN_MAX_US,
         SOCKET_CODEWORD_MIN_LEN <= Len(w), Len(w) <= SOCKET_CODEWORD_MAX_LEN
  PROVE  parse_line(RenderRaw(w, p)) = Raw(w, p)
<1>. DEFINE n == Numerals[p]
            f == <<RAW, w, n>>
<1>1. p \in 0..SOCKET_PULSE_LEN_MAX_US
  BY DEF SOCKET_PULSE_LEN_MIN_US, SOCKET_PULSE_LEN_MAX_US
<1>2. n \in Seq(Chars \ {Blank}) /\ field_ok(n) /\ field_to_u32(n) = p
  BY <1>1, NumberField, NumeralPlain
<1>3. split_fields(RenderRaw(w, p)) = f
  <2>1. Blank \in Chars
    BY DEF Chars
  <2>2. w \in Seq(Chars \ {Blank})
    BY WordPlain
  <2>. HIDE DEF n
  <2>3. Pieces(Join3(RAW, w, n, Blank), Blank) = f
    BY <1>2, <2>1, <2>2, RawPlain, SplitJoin, SMTT(40)
  <2>. QED  BY <2>3, RenderRawJoin DEF split_fields, n
<1>4. Len(f) = 3 /\ f[1] = <<"r", "a", "w">> /\ f[2] = w /\ f[3] = n
  <2>. HIDE DEF n
  <2>. QED  BY DEF RAW
<1>5. tristate_check(w)
  <2>1. w # <<>>
    BY DEF SOCKET_CODEWORD_MIN_LEN
  <2>2. \A i \in 1..Len(w) : w[i] \in Symbols
    BY ElementOfSeq
  <2>. QED  BY <2>1, <2>2 DEF tristate_check
<1>6. codeword_check(w, p)
  <2>1. Len(w) \in Nat
    BY LenProperties
  <2>2. Len(w) \in SOCKET_CODEWORD_MIN_LEN..SOCKET_CODEWORD_MAX_LEN
    <3>1. PICK k \in Nat : k = Len(w)
      BY <2>1
    <3>2. 1 <= k /\ k <= 12
      BY <3>1 DEF SOCKET_CODEWORD_MIN_LEN, SOCKET_CODEWORD_MAX_LEN
    <3>3. k \in 1..12
      BY <3>2
    <3>. QED  BY <3>1, <3>3 DEF SOCKET_CODEWORD_MIN_LEN, SOCKET_CODEWORD_MAX_LEN
  <2>. QED  BY <1>5, <2>2 DEF codeword_check
<1>7. parse_raw(w, n) = Raw(w, p)
  <2>. HIDE DEF n
  <2>. QED  BY <1>2, <1>5, <1>6 DEF parse_raw
<1>. HIDE DEF f, n
<1>. QED  BY <1>3, <1>4, <1>7 DEF parse_line

(* What the parser takes for a switch command is the rendering of a valid    *)
(* address ...                                                               *)
LEMMA ParsedSwitch ==
  ASSUME NEW ln \in Seq(Chars), parse_line(ln).kind = "SWITCH"
  PROVE  \E a \in ValidAddresses : ln = Render(a) /\ parse_line(ln) = Switch(a)
<1>. DEFINE f == split_fields(ln)
            v == [i \in 1..4 |-> field_to_u32(f[i])]
<1>1. \A w, p : parse_raw(w, p).kind # "SWITCH"
  BY DEF parse_raw, Error, Raw
<1>2. Error("syntax").kind # "SWITCH"
  BY DEF Error
<1>3. /\ Len(f) = 4 /\ \A i \in 1..4 : field_ok(f[i])
      /\ parse_line(ln) = check_range(v)
  BY <1>1, <1>2 DEF parse_line
<1>4. address_check(v) /\ parse_line(ln) = Switch(v)
  <2>. HIDE DEF v
  <2>. QED  BY <1>3 DEF check_range, Error, Switch
<1>5. Blank \in Chars
  BY DEF Chars
<1>6. PICK a \in Seq(Chars \ {Blank}), b \in Seq(Chars \ {Blank}),
           c \in Seq(Chars \ {Blank}), d \in Seq(Chars \ {Blank}) :
        ln = Join4(a, b, c, d, Blank) /\ f = <<a, b, c, d>>
  <2>1. Len(Pieces(ln, Blank)) = 4
    BY <1>3 DEF split_fields
  <2>2. InFour(ln, Blank, Chars)
    BY <1>5, <2>1, JoinFour
  <2>. QED  BY <2>2, Zenon DEF InFour, split_fields
<1>7. \A i \in 1..4 : f[i] \in Seq(Chars)
  <2>1. a \in Seq(Chars) /\ b \in Seq(Chars) /\ c \in Seq(Chars) /\ d \in Seq(Chars)
    BY SeqMonotonic
  <2>2. f[1] = a /\ f[2] = b /\ f[3] = c /\ f[4] = d
    <3>. HIDE DEF f
    <3>. QED  BY <1>6
  <2>3. ASSUME NEW i \in 1..4 PROVE f[i] \in Seq(Chars)
    <3>1. i = 1 \/ i = 2 \/ i = 3 \/ i = 4
      OBVIOUS
    <3>. HIDE DEF f
    <3>. QED  BY <2>1, <2>2, <3>1
  <2>. QED  BY <2>3
<1>8. \A i \in 1..4 : v[i] \in Nat /\ (v[i] <= SOCKET_PULSE_LEN_MAX_US => f[i] = Decimal(v[i]))
  <2>1. \A i \in 1..4 : v[i] = field_to_u32(f[i])
    OBVIOUS
  <2>. HIDE DEF v, f
  <2>. QED  BY <1>3, <1>7, <2>1, FieldNumber
<1>. HIDE DEF v, f
<1>9. v[1] \in Nat /\ v[2] \in Nat /\ v[3] \in Nat /\ v[4] \in Nat
  BY <1>8
<1>10. /\ v[1] \in 0..1 /\ v[2] \in 0..31 /\ v[3] \in 0..31 /\ v[4] \in 0..1
       /\ v[1] <= 2000 /\ v[2] <= 2000 /\ v[3] <= 2000 /\ v[4] <= 2000
  <2>1. \/ v[1] = 0 /\ v[2] < 4 /\ v[3] < 3 /\ v[4] < 2
        \/ v[1] = 1 /\ v[2] < 32 /\ v[3] < 32 /\ v[4] < 2
    BY <1>4, Limits
  <2>2. PICK x1 \in Nat, x2 \in Nat, x3 \in Nat, x4 \in Nat :
          x1 = v[1] /\ x2 = v[2] /\ x3 = v[3] /\ x4 = v[4]
    BY <1>9
  <2>3. \/ x1 = 0 /\ x2 < 4 /\ x3 < 3 /\ x4 < 2
        \/ x1 = 1 /\ x2 < 32 /\ x3 < 32 /\ x4 < 2
    BY <2>1, <2>2
  <2>4. /\ x1 \in 0..1 /\ x2 \in 0..31 /\ x3 \in 0..31 /\ x4 \in 0..1
        /\ x1 <= 2000 /\ x2 <= 2000 /\ x3 <= 2000 /\ x4 <= 2000
    BY <2>3
  <2>. QED  BY <2>2, <2>4
<1>11. v = <<v[1], v[2], v[3], v[4]>>
  BY DEF v
<1>12. v \in ValidAddresses
  <2>1. v \in (0..1) \X (0..31) \X (0..31) \X (0..1)
    BY <1>10, <1>11
  <2>. QED  BY <1>4, <2>1 DEF ValidAddresses
<1>13. a = Numerals[v[1]] /\ b = Numerals[v[2]] /\ c = Numerals[v[3]] /\ d = Numerals[v[4]]
  <2>1. /\ v[1] \in 0..SOCKET_PULSE_LEN_MAX_US /\ v[2] \in 0..SOCKET_PULSE_LEN_MAX_US
        /\ v[3] \in 0..SOCKET_PULSE_LEN_MAX_US /\ v[4] \in 0..SOCKET_PULSE_LEN_MAX_US
    BY <1>10 DEF SOCKET_PULSE_LEN_MAX_US
  <2>2. /\ v[1] <= SOCKET_PULSE_LEN_MAX_US /\ v[2] <= SOCKET_PULSE_LEN_MAX_US
        /\ v[3] <= SOCKET_PULSE_LEN_MAX_US /\ v[4] <= SOCKET_PULSE_LEN_MAX_US
    BY <1>10 DEF SOCKET_PULSE_LEN_MAX_US
  <2>3. f[1] = Decimal(v[1]) /\ f[2] = Decimal(v[2]) /\ f[3] = Decimal(v[3]) /\ f[4] = Decimal(v[4])
    BY <1>8, <2>2
  <2>4. f[1] = a /\ f[2] = b /\ f[3] = c /\ f[4] = d
    BY <1>6
  <2>. QED  BY <2>1, <2>3, <2>4, NumberField
<1>14. ln = Render(v)
  BY <1>6, <1>13 DEF Render, Join4, Join3, Join2
<1>. QED  BY <1>4, <1>12, <1>14

(* ... and what it takes for a codeword is the rendering of one.             *)
LEMMA ParsedRaw ==
  ASSUME NEW ln \in Seq(Chars), parse_line(ln).kind = "RAW"
  PROVE  \E w \in Seq(Symbols), p \in SOCKET_PULSE_LEN_MIN_US..SOCKET_PULSE_LEN_MAX_US :
           /\ SOCKET_CODEWORD_MIN_LEN <= Len(w) /\ Len(w) <= SOCKET_CODEWORD_MAX_LEN
           /\ ln = RenderRaw(w, p)
           /\ parse_line(ln) = Raw(w, p)
<1>. DEFINE f == split_fields(ln)
<1>1. \A v : check_range(v).kind # "RAW"
  BY DEF check_range, Error, Switch
<1>2. Error("syntax").kind # "RAW"
  BY DEF Error
<1>3. /\ Len(f) = 3 /\ f[1] = <<"r", "a", "w">>
      /\ parse_line(ln) = parse_raw(f[2], f[3])
  BY <1>1, <1>2 DEF parse_line
<1>4. Blank \in Chars
  BY DEF Chars
<1>5. PICK a \in Seq(Chars \ {Blank}), w \in Seq(Chars \ {Blank}), n \in Seq(Chars \ {Blank}) :
        ln = Join3(a, w, n, Blank) /\ f = <<a, w, n>>
  <2>1. Len(Pieces(ln, Blank)) = 3
    BY <1>3 DEF split_fields
  <2>2. InThree(ln, Blank, Chars)
    BY <1>4, <2>1, JoinThree
  <2>. QED  BY <2>2, Zenon DEF InThree, split_fields
<1>6. f[1] = a /\ f[2] = w /\ f[3] = n
  <2>. HIDE DEF f
  <2>. QED  BY <1>5
<1>7. a = RAW /\ parse_line(ln) = parse_raw(w, n)
  BY <1>3, <1>6 DEF RAW
<1>8. PICK p : p = field_to_u32(n)
  OBVIOUS
<1>9. /\ tristate_check(w) /\ field_ok(n) /\ codeword_check(w, p)
      /\ parse_raw(w, n) = Raw(w, p)
  <2>1. parse_raw(w, n).kind = "RAW"
    BY <1>7
  <2>. QED  BY <1>8, <2>1 DEF parse_raw, Error
<1>10. w \in Seq(Symbols)
  <2>1. Len(w) \in Nat /\ w \in [1..Len(w) -> Chars \ {Blank}]
    BY LenProperties
  <2>2. \A i \in 1..Len(w) : w[i] \in Symbols
    BY <1>9 DEF tristate_check
  <2>3. w \in [1..Len(w) -> Symbols]
    BY <2>1, <2>2
  <2>. QED  BY <2>1, <2>3, SMTT(40)
<1>11. p \in SOCKET_PULSE_LEN_MIN_US..SOCKET_PULSE_LEN_MAX_US
  BY <1>9 DEF codeword_check
<1>12. p \in 0..SOCKET_PULSE_LEN_MAX_US /\ p <= SOCKET_PULSE_LEN_MAX_US
  <2>1. PICK q \in 50..2000 : q = p
    BY <1>11 DEF SOCKET_PULSE_LEN_MIN_US, SOCKET_PULSE_LEN_MAX_US
  <2>2. q \in Nat /\ q <= 2000
    OBVIOUS
  <2>3. q \in 0..2000
    BY <2>2
  <2>. QED  BY <2>1, <2>2, <2>3 DEF SOCKET_PULSE_LEN_MAX_US
<1>13. n = Numerals[p]
  <2>1. n \in Seq(Chars)
    BY SeqMonotonic
  <2>2. n = Decimal(p)
    BY <1>8, <1>9, <1>12, <2>1, FieldNumber
  <2>. QED  BY <1>12, <2>2, NumberField
<1>14. ln = RenderRaw(w, p)
  BY <1>5, <1>7, <1>13, RenderRawJoin
<1>15. SOCKET_CODEWORD_MIN_LEN <= Len(w) /\ Len(w) <= SOCKET_CODEWORD_MAX_LEN
  <2>1. PICK k : k = Len(w)
    OBVIOUS
  <2>2. k \in SOCKET_CODEWORD_MIN_LEN..SOCKET_CODEWORD_MAX_LEN
    BY <1>9, <2>1 DEF codeword_check
  <2>3. SOCKET_CODEWORD_MIN_LEN <= k /\ k <= SOCKET_CODEWORD_MAX_LEN
    BY <2>2 DEF SOCKET_CODEWORD_MIN_LEN, SOCKET_CODEWORD_MAX_LEN
  <2>. QED  BY <2>1, <2>3
<1>. QED  BY <1>7, <1>9, <1>10, <1>11, <1>14, <1>15

(* Where the codeword is in its line.                                        *)
LEMMA RawPlaces ==
  ASSUME NEW w \in Seq(Symbols), NEW p \in SOCKET_PULSE_LEN_MIN_US..SOCKET_PULSE_LEN_MAX_US,
         NEW k \in 1..12, Len(w) = k, NEW ln, ln = RenderRaw(w, p)
  PROVE  /\ Len(ln) \in Nat /\ k + 5 <= Len(ln)
         /\ ln[k + 5] = Blank
         /\ \A i \in 5..(k + 4) : ln[i] \in Symbols
         /\ SubSeq(ln, 5, k + 4) = w
<1>. DEFINE h == RAW \o <<Blank>>
            u == h \o w
            t == u \o <<Blank>>
            n == Numerals[p]
<1>0. w \in Seq(Chars) /\ RAW \in Seq(Chars) /\ <<Blank>> \in Seq(Chars) /\ Len(RAW) = 3
      /\ Len(<<Blank>>) = 1 /\ <<Blank>>[1] = Blank
  <2>1. w \in Seq(Chars) /\ RAW \in Seq(Chars)
    BY RawPlain, WordPlain, SeqMonotonic
  <2>2. Blank \in Chars
    BY DEF Chars
  <2>. QED  BY <2>1, <2>2, RawPlain
<1>1. n \in Seq(Chars)
  <2>1. p \in 0..SOCKET_PULSE_LEN_MAX_US
    BY DEF SOCKET_PULSE_LEN_MIN_US, SOCKET_PULSE_LEN_MAX_US
  <2>. QED  BY <2>1, NumeralPlain, SeqMonotonic
<1>2. PICK bl \in Seq(Chars) : bl = <<Blank>> /\ Len(bl) = 1 /\ bl[1] = Blank
  BY <1>0
<1>3. h \in Seq(Chars) /\ Len(h) = 4
  <2>1. h = RAW \o bl
    BY <1>2
  <2>. HIDE DEF h
  <2>2. h \in Seq(Chars) /\ Len(h) = Len(RAW) + Len(bl)
    BY <1>0, <2>1, ConcatProperties
  <2>. QED  BY <1>0, <1>2, <2>2
<1>4. /\ u \in Seq(Chars) /\ Len(u) = k + 4
      /\ \A i \in 5..(k + 4) : u[i] = w[i - 4]
  <2>. HIDE DEF h
  <2>1. /\ u \in Seq(Chars) /\ Len(u) = Len(h) + Len(w)
        /\ \A i \in 1..(Len(h) + Len(w)) : u[i] = IF i <= Len(h) THEN h[i] ELSE w[i - Len(h)]
    BY <1>0, <1>3, ConcatProperties
  <2>2. \A i \in 1..(4 + k) : u[i] = IF i <= 4 THEN h[i] ELSE w[i - 4]
    BY <1>3, <2>1
  <2>. QED  BY <1>3, <2>1, <2>2
<1>5. /\ t \in Seq(Chars) /\ Len(t) = k + 5 /\ t[k + 5] = Blank
      /\ \A i \in 5..(k + 4) : t[i] = w[i - 4]
  <2>. HIDE DEF u
  <2>1. t = u \o bl
    BY <1>2
  <2>. HIDE DEF t
  <2>2. /\ t \in Seq(Chars) /\ Len(t) = Len(u) + Len(bl)
        /\ \A i \in 1..(Len(u) + Len(bl)) : t[i] = IF i <= Len(u) THEN u[i] ELSE bl[i - Len(u)]
    BY <1>2, <1>4, <2>1, ConcatProperties
  <2>3. \A i \in 1..(k + 5) : t[i] = IF i <= k + 4 THEN u[i] ELSE bl[i - (k + 4)]
    BY <1>2, <1>4, <2>2
  <2>. QED  BY <1>2, <1>4, <2>2, <2>3
<1>6. ln = t \o n
  BY RenderRawJoin DEF Join3, Join2
<1>7. /\ ln \in Seq(Chars) /\ Len(ln) \in Nat /\ k + 5 <= Len(ln) /\ ln[k + 5] = Blank
      /\ \A i \in 5..(k + 4) : ln[i] = w[i - 4]
  <2>. HIDE DEF t, n
  <2>0. Len(n) \in Nat
    BY <1>1, LenProperties
  <2>1. /\ t \o n \in Seq(Chars) /\ Len(t \o n) = Len(t) + Len(n)
        /\ \A i \in 1..(Len(t) + Len(n)) : (t \o n)[i] = IF i <= Len(t) THEN t[i] ELSE n[i - Len(t)]
    BY <1>1, <1>5, ConcatProperties
  <2>2. /\ ln \in Seq(Chars) /\ Len(ln) = Len(t) + Len(n)
        /\ \A i \in 1..(Len(t) + Len(n)) : ln[i] = IF i <= Len(t) THEN t[i] ELSE n[i - Len(t)]
    BY <1>6, <2>1
  <2>3. \A i \in 1..(k + 5) : ln[i] = t[i]
    BY <1>5, <2>0, <2>2
  <2>. QED  BY <1>5, <2>0, <2>2, <2>3
<1>8. ASSUME NEW i \in 5..(k + 4) PROVE ln[i] \in Symbols
  <2>1. w[i - 4] \in Symbols
    BY ElementOfSeq
  <2>. QED  BY <1>7, <2>1
<1>9. SubSeq(ln, 5, k + 4) = w
  <2>. DEFINE q == SubSeq(ln, 5, k + 4)
  <2>1. /\ q \in Seq(Symbols) /\ Len(q) = IF 5 <= k + 4 THEN (k + 4) - 5 + 1 ELSE 0
        /\ \A i \in 1..((k + 4) - 5 + 1) : q[i] = ln[5 + i - 1]
    BY <1>8, SubSeqProperties
  <2>2. Len(q) = k
    BY <2>1
  <2>3. ASSUME NEW i \in 1..k PROVE q[i] = w[i]
    <3>1. q[i] = ln[i + 4] /\ i + 4 \in 5..(k + 4)
      BY <2>1
    <3>2. ln[i + 4] = w[(i + 4) - 4]
      BY <1>7, <3>1
    <3>. QED  BY <3>1, <3>2
  <2>. HIDE DEF q
  <2>4. q = w
    BY <2>1, <2>2, <2>3, SeqEqual
  <2>. QED  BY <2>4 DEF q
<1>. QED  BY <1>7, <1>8, <1>9

(* The parser gives one of its two errors, or a command.                     *)
LEMMA ParseKinds ==
  ASSUME NEW ln
  PROVE  \/ parse_line(ln) \in {Error("syntax"), Error("range")}
         \/ parse_line(ln).kind = "SWITCH"
         \/ parse_line(ln).kind = "RAW"
<1>1. \A w, p : parse_raw(w, p) \in {Error("syntax"), Error("range")} \/ parse_raw(w, p).kind = "RAW"
  BY DEF parse_raw, Raw
<1>2. \A a : check_range(a) \in {Error("syntax"), Error("range")} \/ check_range(a).kind = "SWITCH"
  BY DEF check_range, Switch
<1>. QED  BY <1>1, <1>2 DEF parse_line

LEMMA NoError ==
  ASSUME NEW a, NEW w, NEW p
  PROVE  /\ Switch(a) \notin {Error("syntax"), Error("range")}
         /\ Raw(w, p) \notin {Error("syntax"), Error("range")}
<1>1. Switch(a).kind = "SWITCH" /\ Raw(w, p).kind = "RAW"
  BY DEF Switch, Raw
<1>2. \A e : Error(e).kind = "ERROR"
  BY DEF Error
<1>. QED  BY <1>1, <1>2

(* What a line spells is what the parser takes it for.                       *)
LEMMA Grammar ==
  ASSUME line \in Seq(Chars)
  PROVE  {parse_line(line)} \ {Error("syntax"), Error("range")} = Spelled
<1>. DEFINE r == parse_line(line)
            errors == {Error("syntax"), Error("range")}
<1>1. ASSUME NEW x \in Spelled PROVE x = r /\ x \notin errors
  <2>1. CASE x \in {Switch(a) : a \in {b \in ValidAddresses : Rendered[b] = line}}
    <3>1. PICK a \in ValidAddresses : Rendered[a] = line /\ x = Switch(a)
      BY <2>1
    <3>2. Render(a) = line
      BY <3>1 DEF Rendered
    <3>. QED  BY <3>1, <3>2, ParseRendered, NoError
  <2>2. CASE x \in {Raw(SubSeq(line, 5, jp[1] - 1), jp[2]) : jp \in RawSpellings}
    <3>1. PICK jp \in RawSpellings : x = Raw(SubSeq(line, 5, jp[1] - 1), jp[2])
      BY <2>2
    <3>2. /\ jp \in (1..Len(line)) \X (SOCKET_PULSE_LEN_MIN_US..SOCKET_PULSE_LEN_MAX_US)
          /\ jp[1] - 5 \in SOCKET_CODEWORD_MIN_LEN..SOCKET_CODEWORD_MAX_LEN
          /\ \A k \in 5..(jp[1] - 1) : line[k] \in Symbols
          /\ line = RenderRaw(SubSeq(line, 5, jp[1] - 1), jp[2])
      BY DEF RawSpellings
    <3>3. PICK j \in Nat, p \in SOCKET_PULSE_LEN_MIN_US..SOCKET_PULSE_LEN_MAX_US :
            j = jp[1] /\ p = jp[2]
      BY <3>2
    <3>4. 1 <= j - 5 /\ j - 5 <= 12
      BY <3>2, <3>3 DEF SOCKET_CODEWORD_MIN_LEN, SOCKET_CODEWORD_MAX_LEN
    <3>. DEFINE w == SubSeq(line, 5, j - 1)
    <3>5. w \in Seq(Symbols) /\ Len(w) = IF 5 <= j - 1 THEN (j - 1) - 5 + 1 ELSE 0
      <4>1. \A k \in 5..(j - 1) : line[k] \in Symbols
        BY <3>2, <3>3
      <4>. QED  BY <4>1, SubSeqProperties
    <3>6. line = RenderRaw(w, p) /\ x = Raw(w, p)
      BY <3>1, <3>2, <3>3
    <3>. HIDE DEF w
    <3>7. SOCKET_CODEWORD_MIN_LEN <= Len(w) /\ Len(w) <= SOCKET_CODEWORD_MAX_LEN
      <4>1. Len(w) = j - 5
        BY <3>4, <3>5
      <4>. QED  BY <3>4, <4>1 DEF SOCKET_CODEWORD_MIN_LEN, SOCKET_CODEWORD_MAX_LEN
    <3>8. parse_line(RenderRaw(w, p)) = Raw(w, p)
      BY <3>5, <3>7, ParseRenderedRaw
    <3>. QED  BY <3>6, <3>8, NoError
  <2>. QED  BY <2>1, <2>2 DEF Spelled
<1>2. ASSUME r \notin errors PROVE r \in Spelled
  <2>1. CASE r.kind = "SWITCH"
    <3>1. PICK a \in ValidAddresses : line = Render(a) /\ r = Switch(a)
      BY <2>1, ParsedSwitch
    <3>2. Rendered[a] = line
      BY <3>1 DEF Rendered
    <3>. QED  BY <3>1, <3>2 DEF Spelled
  <2>2. CASE r.kind = "RAW"
    <3>1. PICK w \in Seq(Symbols), p \in SOCKET_PULSE_LEN_MIN_US..SOCKET_PULSE_LEN_MAX_US :
            /\ SOCKET_CODEWORD_MIN_LEN <= Len(w) /\ Len(w) <= SOCKET_CODEWORD_MAX_LEN
            /\ line = RenderRaw(w, p)
            /\ r = Raw(w, p)
      BY <2>2, ParsedRaw
    <3>2. PICK k \in 1..12 : k = Len(w)
      <4>1. PICK k \in Nat : k = Len(w)
        BY LenProperties
      <4>2. 1 <= k /\ k <= 12
        BY <3>1, <4>1 DEF SOCKET_CODEWORD_MIN_LEN, SOCKET_CODEWORD_MAX_LEN
      <4>3. k \in 1..12
        BY <4>2
      <4>. QED  BY <4>1, <4>3
    <3>3. /\ Len(line) \in Nat /\ k + 5 <= Len(line)
          /\ line[k + 5] = Blank
          /\ \A i \in 5..(k + 4) : line[i] \in Symbols
          /\ SubSeq(line, 5, k + 4) = w
      BY <3>1, <3>2, RawPlaces
    <3>4. k + 5 \in 1..Len(line)
      BY <3>3
    <3>. DEFINE jp == <<k + 5, p>>
    <3>5. jp[1] = k + 5 /\ jp[2] = p /\ (k + 5) - 1 = k + 4 /\ (k + 5) - 5 = k
      OBVIOUS
    <3>6. jp \in (1..Len(line)) \X (SOCKET_PULSE_LEN_MIN_US..SOCKET_PULSE_LEN_MAX_US)
      BY <3>4
    <3>7. k \in SOCKET_CODEWORD_MIN_LEN..SOCKET_CODEWORD_MAX_LEN
      BY DEF SOCKET_CODEWORD_MIN_LEN, SOCKET_CODEWORD_MAX_LEN
    <3>. HIDE DEF jp
    <3>8. jp \in RawSpellings
      BY <3>1, <3>3, <3>5, <3>6, <3>7 DEF RawSpellings
    <3>9. r = Raw(SubSeq(line, 5, jp[1] - 1), jp[2])
      BY <3>1, <3>3, <3>5
    <3>. QED  BY <3>8, <3>9 DEF Spelled
  <2>. QED  BY <1>2, <2>1, <2>2, ParseKinds
<1>. HIDE DEF r, errors
<1>3. {r} \ errors = Spelled
  BY <1>1, <1>2
<1>. QED  BY <1>3 DEF r, errors

-----------------------------------------------------------------------------
(* The air.                                                                  *)

(* Two pulses are read as the symbol that they were sent for.                *)
LEMMA SymbolRead ==
  ASSUME NEW s \in Symbols
  PROVE  Symbol(SymbolPulse(s, 1), SymbolPulse(s, 2)) = s
<1>0. <<1, 3>> # <<3, 1>>
  OBVIOUS
<1>1. CASE s = "0"
  <2>1. SymbolPulse(s, 1) = <<1, 3>> /\ SymbolPulse(s, 2) = <<1, 3>>
    BY <1>1 DEF SymbolPulse
  <2>. QED  BY <1>0, <1>1, <2>1 DEF Symbol
<1>2. CASE s = "1"
  <2>1. SymbolPulse(s, 1) = <<3, 1>> /\ SymbolPulse(s, 2) = <<3, 1>>
    BY <1>2 DEF SymbolPulse
  <2>. QED  BY <1>0, <1>2, <2>1 DEF Symbol
<1>3. CASE s = "F"
  <2>1. SymbolPulse(s, 1) = <<1, 3>> /\ SymbolPulse(s, 2) = <<3, 1>>
    BY <1>3 DEF SymbolPulse
  <2>. QED  BY <1>0, <1>3, <2>1 DEF Symbol
<1>. QED  BY <1>1, <1>2, <1>3 DEF Symbols

(* A frame of a codeword of twelve symbols carries that word.                *)
LEMMA FrameWord ==
  ASSUME NEW w \in Seq(Symbols), Len(w) = 12
  PROVE  WholeFrame(Frame(w)) /\ Word(Frame(w)) = w
<1>1. FrameLen(w) = 25
  BY DEF FrameLen
<1>2. Frame(w) = [k \in 1..25 |-> IF k = 25 THEN Sync
                    ELSE SymbolPulse(w[(k + 1) \div 2], IF k % 2 = 1 THEN 1 ELSE 2)]
  BY <1>1 DEF Frame
<1>3. WholeFrame(Frame(w))
  BY <1>2 DEF WholeFrame
<1>4. ASSUME NEW i \in 1..12
      PROVE  Symbol(Frame(w)[2 * i - 1], Frame(w)[2 * i]) = w[i]
  <2>1. /\ 2 * i - 1 \in 1..25 /\ 2 * i - 1 # 25 /\ ((2 * i - 1) + 1) \div 2 = i /\ (2 * i - 1) % 2 = 1
        /\ 2 * i \in 1..25 /\ 2 * i # 25 /\ (2 * i + 1) \div 2 = i /\ (2 * i) % 2 # 1
    OBVIOUS
  <2>2. Frame(w)[2 * i - 1] = SymbolPulse(w[i], 1)
    BY <1>2, <2>1
  <2>3. Frame(w)[2 * i] = SymbolPulse(w[i], 2)
    BY <1>2, <2>1
  <2>4. w[i] \in Symbols
    BY ElementOfSeq
  <2>. QED  BY <2>2, <2>3, <2>4, SymbolRead
<1>5. Word(Frame(w)) = [i \in 1..12 |-> w[i]]
  BY <1>4 DEF Word
<1>6. w = [i \in 1..12 |-> w[i]]
  BY LenProperties
<1>. QED  BY <1>3, <1>5, <1>6

(* A word from three parts.                                                  *)
LEMMA ThreeParts ==
  ASSUME NEW x \in Seq(Symbols), NEW y \in Seq(Symbols), NEW z \in Seq(Symbols)
  PROVE  /\ (x \o y) \o z \in Seq(Symbols)
         /\ Len((x \o y) \o z) = Len(x) + Len(y) + Len(z)
         /\ \A i \in 1..Len(x) : ((x \o y) \o z)[i] = x[i]
         /\ \A i \in 1..Len(y) : ((x \o y) \o z)[Len(x) + i] = y[i]
         /\ \A i \in 1..Len(z) : ((x \o y) \o z)[Len(x) + Len(y) + i] = z[i]
<1>1. /\ x \o y \in Seq(Symbols)
      /\ Len(x \o y) = Len(x) + Len(y)
      /\ \A i \in 1 .. Len(x) + Len(y) : (x \o y)[i] = IF i <= Len(x) THEN x[i] ELSE y[i - Len(x)]
  BY ConcatProperties
<1>2. PICK u \in Seq(Symbols) : u = x \o y
  BY <1>1
<1>3. /\ u \o z \in Seq(Symbols)
      /\ Len(u \o z) = Len(u) + Len(z)
      /\ \A i \in 1 .. Len(u) + Len(z) : (u \o z)[i] = IF i <= Len(u) THEN u[i] ELSE z[i - Len(u)]
  BY ConcatProperties
<1>4. PICK w \in Seq(Symbols) : w = u \o z
  BY <1>3
<1>5. PICK k \in Nat, l \in Nat, m \in Nat : k = Len(x) /\ l = Len(y) /\ m = Len(z)
  BY LenProperties
<1>6. Len(u) = k + l /\ \A i \in 1..(k + l) : u[i] = IF i <= k THEN x[i] ELSE y[i - k]
  BY <1>1, <1>2, <1>5, Zenon
<1>7. PICK n \in Nat : n = k + l
  OBVIOUS
<1>8. Len(w) = n + m /\ \A i \in 1..(n + m) : w[i] = IF i <= n THEN u[i] ELSE z[i - n]
  BY <1>3, <1>4, <1>5, <1>6, <1>7, Zenon
<1>9. ASSUME NEW i \in 1..k PROVE w[i] = x[i]
  <2>1. i \in 1..(k + l) /\ i <= k /\ i \in 1..(n + m) /\ i <= n
    BY <1>7
  <2>2. w[i] = u[i]
    BY <1>8, <2>1
  <2>3. u[i] = x[i]
    BY <1>6, <2>1
  <2>. QED  BY <2>2, <2>3
<1>10. ASSUME NEW i \in 1..l PROVE w[k + i] = y[i]
  <2>1. /\ k + i \in 1..(k + l) /\ ~(k + i <= k) /\ (k + i) - k = i
        /\ k + i \in 1..(n + m) /\ k + i <= n
    BY <1>7
  <2>2. w[k + i] = u[k + i]
    BY <1>8, <2>1
  <2>3. u[k + i] = y[i]
    BY <1>6, <2>1
  <2>. QED  BY <2>2, <2>3
<1>11. ASSUME NEW i \in 1..m PROVE w[n + i] = z[i]
  <2>1. n + i \in 1..(n + m) /\ ~(n + i <= n) /\ (n + i) - n = i
    OBVIOUS
  <2>. QED  BY <1>8, <2>1
<1>12. w = (x \o y) \o z
  BY <1>2, <1>4
<1>. QED  BY <1>5, <1>7, <1>8, <1>9, <1>10, <1>11, <1>12, Zenon

LEMMA FourSymbols ==
  ASSUME NEW a \in Symbols, NEW b \in Symbols, NEW c \in Symbols, NEW d \in Symbols,
         NEW x, x = <<a, b, c, d>>
  PROVE  x \in Seq(Symbols) /\ Len(x) = 4 /\ x[1] = a /\ x[2] = b /\ x[3] = c /\ x[4] = d
OBVIOUS

LEMMA FiveSymbols ==
  ASSUME NEW a \in Symbols, NEW b \in Symbols, NEW c \in Symbols, NEW d \in Symbols, NEW e \in Symbols,
         NEW x, x = <<a, b, c, d, e>>
  PROVE  x \in Seq(Symbols) /\ Len(x) = 5 /\ x[1] = a /\ x[2] = b /\ x[3] = c /\ x[4] = d /\ x[5] = e
OBVIOUS

LEMMA TwoSymbols ==
  ASSUME NEW a \in Symbols, NEW b \in Symbols, NEW x, x = <<a, b>>
  PROVE  x \in Seq(Symbols) /\ Len(x) = 2 /\ x[1] = a /\ x[2] = b
OBVIOUS

(* The words of a REV 008345 socket ...                                      *)
RevForm(w, g, n, d) ==
  /\ w \in Seq(Symbols) /\ Len(w) = 12
  /\ \A i \in 1..4 : w[i] = IF i = g + 1 THEN "1" ELSE "F"
  /\ \A i \in 1..3 : w[4 + i] = IF i = n + 1 THEN "1" ELSE "F"
  /\ w[8] = "0" /\ w[9] = "0" /\ w[10] = "0"
  /\ w[11] = IF d = 1 THEN "1" ELSE "0"
  /\ w[12] = IF d = 1 THEN "0" ELSE "1"

LEMMA RevWord ==
  ASSUME NEW g \in 0..3, NEW n \in 0..2, NEW d \in 0..1
  PROVE  RevForm(socket_ctrl(<<0, g, n, d>>), g, n, d)
<1>00. PICK w : w = socket_ctrl(<<0, g, n, d>>)
  OBVIOUS
<1>. DEFINE x == rev_008345_groups[g + 1]
            y == rev_008345_sockets[n + 1]
            z == rev_008345_data[d + 1]
<1>0. /\ F \in Symbols /\ O \in Symbols /\ I \in Symbols /\ F = "F" /\ O = "0" /\ I = "1"
  BY DEF F, O, I, Symbols
<1>1. w = (x \o y) \o z
  <2>1. Tables(0) = <<rev_008345_groups, rev_008345_sockets, rev_008345_data>>
    BY DEF Tables, REV_008345, POLLIN_2605
  <2>2. PICK t : t = Tables(0)
    OBVIOUS
  <2>3. t[1] = rev_008345_groups /\ t[2] = rev_008345_sockets /\ t[3] = rev_008345_data
    BY <2>1, <2>2
  <2>4. w = (t[1][g + 1] \o t[2][n + 1]) \o t[3][d + 1]
    BY <1>00, <2>2 DEF socket_ctrl
  <2>. QED  BY <2>3, <2>4
<1>2. /\ x \in Seq(Symbols) /\ Len(x) = 4
      /\ x[1] = IF g = 0 THEN "1" ELSE "F"
      /\ x[2] = IF g = 1 THEN "1" ELSE "F"
      /\ x[3] = IF g = 2 THEN "1" ELSE "F"
      /\ x[4] = IF g = 3 THEN "1" ELSE "F"
  <2>1. g = 0 \/ g = 1 \/ g = 2 \/ g = 3
    OBVIOUS
  <2>2. /\ g = 0 => x = <<I, F, F, F>>
        /\ g = 1 => x = <<F, I, F, F>>
        /\ g = 2 => x = <<F, F, I, F>>
        /\ g = 3 => x = <<F, F, F, I>>
    BY DEF rev_008345_groups
  <2>. HIDE DEF x
  <2>3. CASE g = 0
    BY <1>0, <2>2, <2>3, FourSymbols
  <2>4. CASE g = 1
    BY <1>0, <2>2, <2>4, FourSymbols
  <2>5. CASE g = 2
    BY <1>0, <2>2, <2>5, FourSymbols
  <2>6. CASE g = 3
    BY <1>0, <2>2, <2>6, FourSymbols
  <2>. QED  BY <2>1, <2>3, <2>4, <2>5, <2>6
<1>3. /\ y \in Seq(Symbols) /\ Len(y) = 4 /\ y[4] = "0"
      /\ y[1] = IF n = 0 THEN "1" ELSE "F"
      /\ y[2] = IF n = 1 THEN "1" ELSE "F"
      /\ y[3] = IF n = 2 THEN "1" ELSE "F"
  <2>1. n = 0 \/ n = 1 \/ n = 2
    OBVIOUS
  <2>2. /\ n = 0 => y = <<I, F, F, O>>
        /\ n = 1 => y = <<F, I, F, O>>
        /\ n = 2 => y = <<F, F, I, O>>
    BY DEF rev_008345_sockets
  <2>. HIDE DEF y
  <2>3. CASE n = 0
    BY <1>0, <2>2, <2>3, FourSymbols
  <2>4. CASE n = 1
    BY <1>0, <2>2, <2>4, FourSymbols
  <2>5. CASE n = 2
    BY <1>0, <2>2, <2>5, FourSymbols
  <2>. QED  BY <2>1, <2>3, <2>4, <2>5
<1>4. /\ z \in Seq(Symbols) /\ Len(z) = 4 /\ z[1] = "0" /\ z[2] = "0"
      /\ z[3] = IF d = 1 THEN "1" ELSE "0"
      /\ z[4] = IF d = 1 THEN "0" ELSE "1"
  <2>1. d = 0 \/ d = 1
    OBVIOUS
  <2>2. /\ d = 0 => z = <<O, O, O, I>>
        /\ d = 1 => z = <<O, O, I, O>>
    BY DEF rev_008345_data
  <2>. HIDE DEF z
  <2>3. CASE d = 0
    BY <1>0, <2>2, <2>3, FourSymbols
  <2>4. CASE d = 1
    BY <1>0, <2>2, <2>4, FourSymbols
  <2>. QED  BY <2>1, <2>3, <2>4
<1>. HIDE DEF x, y, z
<1>5. /\ w \in Seq(Symbols) /\ Len(w) = 4 + 4 + 4
      /\ \A i \in 1..4 : w[i] = x[i]
      /\ \A i \in 1..4 : w[4 + i] = y[i]
      /\ \A i \in 1..4 : w[4 + 4 + i] = z[i]
  <2>1. /\ (x \o y) \o z \in Seq(Symbols)
        /\ Len((x \o y) \o z) = Len(x) + Len(y) + Len(z)
        /\ \A i \in 1..Len(x) : ((x \o y) \o z)[i] = x[i]
        /\ \A i \in 1..Len(y) : ((x \o y) \o z)[Len(x) + i] = y[i]
        /\ \A i \in 1..Len(z) : ((x \o y) \o z)[Len(x) + Len(y) + i] = z[i]
    BY <1>2, <1>3, <1>4, ThreeParts
  <2>. QED  BY <1>1, <1>2, <1>3, <1>4, <2>1, Zenon
<1>6. /\ w[1] = x[1] /\ w[2] = x[2] /\ w[3] = x[3] /\ w[4] = x[4]
      /\ w[5] = y[1] /\ w[6] = y[2] /\ w[7] = y[3] /\ w[8] = y[4]
      /\ w[9] = z[1] /\ w[10] = z[2] /\ w[11] = z[3] /\ w[12] = z[4]
  BY <1>5
<1>7. ASSUME NEW i \in 1..4 PROVE w[i] = IF i = g + 1 THEN "1" ELSE "F"
  <2>1. i = 1 \/ i = 2 \/ i = 3 \/ i = 4
    OBVIOUS
  <2>. QED  BY <1>2, <1>6, <2>1
<1>8. ASSUME NEW i \in 1..3 PROVE w[4 + i] = IF i = n + 1 THEN "1" ELSE "F"
  <2>1. (i = 1 /\ 4 + i = 5) \/ (i = 2 /\ 4 + i = 6) \/ (i = 3 /\ 4 + i = 7)
    OBVIOUS
  <2>. QED  BY <1>3, <1>6, <2>1
<1>9. /\ w[8] = "0" /\ w[9] = "0" /\ w[10] = "0"
      /\ w[11] = IF d = 1 THEN "1" ELSE "0"
      /\ w[12] = IF d = 1 THEN "0" ELSE "1"
  BY <1>3, <1>4, <1>6
<1>10. w \in Seq(Symbols) /\ Len(w) = 12
  BY <1>5
<1>11. RevForm(w, g, n, d)
  BY <1>7, <1>8, <1>9, <1>10, Zenon DEF RevForm
<1>. QED  BY <1>00, <1>11

(* What a switch of a row of five puts on its pin.                           *)
DipSymbol(v, i) == IF DipOn(v, i) THEN "0" ELSE "F"

LEMMA DipBits ==
  ASSUME NEW v \in 0..31
  PROVE  /\ DipOn(v, 1) <=> v % 2 = 1
         /\ DipOn(v, 2) <=> (v \div 2) % 2 = 1
         /\ DipOn(v, 3) <=> (v \div 4) % 2 = 1
         /\ DipOn(v, 4) <=> (v \div 8) % 2 = 1
         /\ DipOn(v, 5) <=> (v \div 16) % 2 = 1
<1>1. DipWeights[1] = 1 /\ DipWeights[2] = 2 /\ DipWeights[3] = 4 /\ DipWeights[4] = 8 /\ DipWeights[5] = 16
  BY DEF DipWeights
<1>2. v \div 1 = v
  OBVIOUS
<1>. QED  BY <1>1, <1>2 DEF DipOn

LEMMA DipApart ==
  ASSUME NEW u \in 0..31, NEW v \in 0..31, \A i \in 1..5 : DipOn(u, i) <=> DipOn(v, i)
  PROVE  u = v
<1>1. /\ DipOn(u, 1) <=> DipOn(v, 1)
      /\ DipOn(u, 2) <=> DipOn(v, 2)
      /\ DipOn(u, 3) <=> DipOn(v, 3)
      /\ DipOn(u, 4) <=> DipOn(v, 4)
      /\ DipOn(u, 5) <=> DipOn(v, 5)
  OBVIOUS
<1>2. /\ (u % 2 = 1) <=> (v % 2 = 1)
      /\ ((u \div 2) % 2 = 1) <=> ((v \div 2) % 2 = 1)
      /\ ((u \div 4) % 2 = 1) <=> ((v \div 4) % 2 = 1)
      /\ ((u \div 8) % 2 = 1) <=> ((v \div 8) % 2 = 1)
      /\ ((u \div 16) % 2 = 1) <=> ((v \div 16) % 2 = 1)
  BY <1>1, DipBits
<1>. QED  BY <1>2

LEMMA DipRow ==
  ASSUME NEW v \in 0..31, NEW x, x = pollin_2605_groups[v + 1]
  PROVE  x \in Seq(Symbols) /\ Len(x) = 5 /\ \A i \in 1..5 : x[i] = DipSymbol(v, i)
<1>1. x = <<DipSymbol(v, 1), DipSymbol(v, 2), DipSymbol(v, 3), DipSymbol(v, 4), DipSymbol(v, 5)>>
  BY DipBits DEF DipSymbol, pollin_2605_groups, O, F
<1>2. /\ DipSymbol(v, 1) \in Symbols /\ DipSymbol(v, 2) \in Symbols /\ DipSymbol(v, 3) \in Symbols
      /\ DipSymbol(v, 4) \in Symbols /\ DipSymbol(v, 5) \in Symbols
  BY DEF DipSymbol, Symbols
<1>3. /\ x \in Seq(Symbols) /\ Len(x) = 5
      /\ x[1] = DipSymbol(v, 1) /\ x[2] = DipSymbol(v, 2) /\ x[3] = DipSymbol(v, 3)
      /\ x[4] = DipSymbol(v, 4) /\ x[5] = DipSymbol(v, 5)
  BY <1>1, <1>2, FiveSymbols
<1>4. ASSUME NEW i \in 1..5 PROVE x[i] = DipSymbol(v, i)
  <2>1. i = 1 \/ i = 2 \/ i = 3 \/ i = 4 \/ i = 5
    OBVIOUS
  <2>. QED  BY <1>3, <2>1
<1>. QED  BY <1>3, <1>4

(* ... and of a Pollin 2605 socket.                                          *)
PollinForm(w, g, n, d) ==
  /\ w \in Seq(Symbols) /\ Len(w) = 12
  /\ \A i \in 1..5 : w[i] = DipSymbol(g, i)
  /\ \A i \in 1..5 : w[5 + i] = DipSymbol(n, i)
  /\ w[11] = IF d = 1 THEN "0" ELSE "F"
  /\ w[12] = IF d = 1 THEN "F" ELSE "0"

LEMMA PollinWord ==
  ASSUME NEW g \in 0..31, NEW n \in 0..31, NEW d \in 0..1
  PROVE  PollinForm(socket_ctrl(<<1, g, n, d>>), g, n, d)
<1>0. PICK w : w = socket_ctrl(<<1, g, n, d>>)
  OBVIOUS
<1>. DEFINE x == pollin_2605_groups[g + 1]
            y == pollin_2605_sockets[n + 1]
            z == pollin_2605_data[d + 1]
<1>1. w = (x \o y) \o z
  <2>1. Tables(1) = <<pollin_2605_groups, pollin_2605_sockets, pollin_2605_data>>
    BY DEF Tables, REV_008345, POLLIN_2605
  <2>2. PICK t : t = Tables(1)
    OBVIOUS
  <2>3. t[1] = pollin_2605_groups /\ t[2] = pollin_2605_sockets /\ t[3] = pollin_2605_data
    BY <2>1, <2>2
  <2>4. w = (t[1][g + 1] \o t[2][n + 1]) \o t[3][d + 1]
    BY <1>0, <2>2 DEF socket_ctrl
  <2>. QED  BY <2>3, <2>4
<1>2. x \in Seq(Symbols) /\ Len(x) = 5 /\ \A i \in 1..5 : x[i] = DipSymbol(g, i)
  BY DipRow
<1>3. y \in Seq(Symbols) /\ Len(y) = 5 /\ \A i \in 1..5 : y[i] = DipSymbol(n, i)
  BY DipRow DEF pollin_2605_sockets
<1>4. /\ z \in Seq(Symbols) /\ Len(z) = 2
      /\ z[1] = IF d = 1 THEN "0" ELSE "F"
      /\ z[2] = IF d = 1 THEN "F" ELSE "0"
  <2>0. /\ F \in Symbols /\ O \in Symbols /\ F = "F" /\ O = "0"
    BY DEF F, O, Symbols
  <2>1. d = 0 \/ d = 1
    OBVIOUS
  <2>2. /\ d = 0 => z = <<F, O>>
        /\ d = 1 => z = <<O, F>>
    BY DEF pollin_2605_data
  <2>. HIDE DEF z
  <2>3. CASE d = 0
    BY <2>0, <2>2, <2>3, TwoSymbols
  <2>4. CASE d = 1
    BY <2>0, <2>2, <2>4, TwoSymbols
  <2>. QED  BY <2>1, <2>3, <2>4
<1>. HIDE DEF x, y, z
<1>5. /\ w \in Seq(Symbols) /\ Len(w) = 5 + 5 + 2
      /\ \A i \in 1..5 : w[i] = x[i]
      /\ \A i \in 1..5 : w[5 + i] = y[i]
      /\ \A i \in 1..2 : w[5 + 5 + i] = z[i]
  <2>1. /\ (x \o y) \o z \in Seq(Symbols)
        /\ Len((x \o y) \o z) = Len(x) + Len(y) + Len(z)
        /\ \A i \in 1..Len(x) : ((x \o y) \o z)[i] = x[i]
        /\ \A i \in 1..Len(y) : ((x \o y) \o z)[Len(x) + i] = y[i]
        /\ \A i \in 1..Len(z) : ((x \o y) \o z)[Len(x) + Len(y) + i] = z[i]
    BY <1>2, <1>3, <1>4, ThreeParts
  <2>. QED  BY <1>1, <1>2, <1>3, <1>4, <2>1, Zenon
<1>6. Len(w) = 12 /\ w[11] = z[1] /\ w[12] = z[2]
  BY <1>5
<1>7. ASSUME NEW i \in 1..5 PROVE w[i] = DipSymbol(g, i) /\ w[5 + i] = DipSymbol(n, i)
  BY <1>2, <1>3, <1>5
<1>8. PollinForm(w, g, n, d)
  BY <1>4, <1>5, <1>6, <1>7 DEF PollinForm
<1>. QED  BY <1>0, <1>8

(* The last symbols of a word, which carry the command.                      *)
LEMMA LastFour ==
  ASSUME NEW w \in Seq(Symbols), Len(w) = 12,
         NEW a \in Symbols, NEW b \in Symbols, NEW c \in Symbols, NEW d \in Symbols
  PROVE  SubSeq(w, 9, 12) = <<a, b, c, d>> <=> w[9] = a /\ w[10] = b /\ w[11] = c /\ w[12] = d
<1>1. ASSUME NEW i \in 9..12 PROVE w[i] \in Symbols
  <2>1. i \in 1..Len(w)
    OBVIOUS
  <2>. QED  BY <2>1, ElementOfSeq
<1>2. /\ SubSeq(w, 9, 12) \in Seq(Symbols)
      /\ Len(SubSeq(w, 9, 12)) = IF 9 <= 12 THEN 12 - 9 + 1 ELSE 0
      /\ \A i \in 1 .. 12 - 9 + 1 : SubSeq(w, 9, 12)[i] = w[9 + i - 1]
  BY <1>1, SubSeqProperties
<1>3. PICK t \in Seq(Symbols) : t = SubSeq(w, 9, 12)
  BY <1>2
<1>4. Len(t) = 4 /\ t[1] = w[9] /\ t[2] = w[10] /\ t[3] = w[11] /\ t[4] = w[12]
  BY <1>2, <1>3
<1>5. PICK u : u = <<a, b, c, d>>
  OBVIOUS
<1>6. u \in Seq(Symbols) /\ Len(u) = 4 /\ u[1] = a /\ u[2] = b /\ u[3] = c /\ u[4] = d
  BY <1>5, FourSymbols
<1>7. ASSUME t[1] = u[1], t[2] = u[2], t[3] = u[3], t[4] = u[4] PROVE t = u
  <2>1. ASSUME NEW i \in 1..Len(t) PROVE t[i] = u[i]
    <3>1. i = 1 \/ i = 2 \/ i = 3 \/ i = 4
      BY <1>4
    <3>. QED  BY <1>7, <3>1
  <2>. QED  BY <1>4, <1>6, <2>1, SeqEqual
<1>. QED  BY <1>3, <1>4, <1>5, <1>6, <1>7

LEMMA LastTwo ==
  ASSUME NEW w \in Seq(Symbols), Len(w) = 12, NEW a \in Symbols, NEW b \in Symbols
  PROVE  SubSeq(w, 11, 12) = <<a, b>> <=> w[11] = a /\ w[12] = b
<1>1. ASSUME NEW i \in 11..12 PROVE w[i] \in Symbols
  <2>1. i \in 1..Len(w)
    OBVIOUS
  <2>. QED  BY <2>1, ElementOfSeq
<1>2. /\ SubSeq(w, 11, 12) \in Seq(Symbols)
      /\ Len(SubSeq(w, 11, 12)) = IF 11 <= 12 THEN 12 - 11 + 1 ELSE 0
      /\ \A i \in 1 .. 12 - 11 + 1 : SubSeq(w, 11, 12)[i] = w[11 + i - 1]
  BY <1>1, SubSeqProperties
<1>3. PICK t \in Seq(Symbols) : t = SubSeq(w, 11, 12)
  BY <1>2
<1>4. Len(t) = 2 /\ t[1] = w[11] /\ t[2] = w[12]
  BY <1>2, <1>3
<1>5. PICK u : u = <<a, b>>
  OBVIOUS
<1>6. u \in Seq(Symbols) /\ Len(u) = 2 /\ u[1] = a /\ u[2] = b
  BY <1>5, TwoSymbols
<1>7. ASSUME t[1] = u[1], t[2] = u[2] PROVE t = u
  <2>1. ASSUME NEW i \in 1..Len(t) PROVE t[i] = u[i]
    <3>1. i = 1 \/ i = 2
      BY <1>4
    <3>. QED  BY <1>7, <3>1
  <2>. QED  BY <1>4, <1>6, <2>1, SeqEqual
<1>. QED  BY <1>3, <1>4, <1>5, <1>6, <1>7

(* A REV socket obeys the words of its own setting and of no other ...        *)
LEMMA RevHearsRev ==
  ASSUME NEW g \in 0..3, NEW n \in 0..2, NEW d \in 0..1,
         NEW g2 \in 0..3, NEW n2 \in 0..2, NEW d2 \in 0..1,
         NEW w, RevForm(w, g, n, d)
  PROVE  /\ RevHears(g2, n2, d2, w) => g2 = g /\ n2 = n /\ d2 = d
         /\ RevHears(g, n, d, w)
<1>1. /\ w \in Seq(Symbols) /\ Len(w) = 12
      /\ \A i \in 1..4 : w[i] = IF i = g + 1 THEN "1" ELSE "F"
      /\ \A i \in 1..3 : w[4 + i] = IF i = n + 1 THEN "1" ELSE "F"
      /\ w[8] = "0" /\ w[9] = "0" /\ w[10] = "0"
      /\ w[11] = IF d = 1 THEN "1" ELSE "0"
      /\ w[12] = IF d = 1 THEN "0" ELSE "1"
  BY DEF RevForm
<1>2. /\ SubSeq(w, 9, 12) = <<"0", "0", "1", "0">> <=> d = 1
      /\ SubSeq(w, 9, 12) = <<"0", "0", "0", "1">> <=> d = 0
  <2>1. "0" \in Symbols /\ "1" \in Symbols
    BY DEF Symbols
  <2>2. SubSeq(w, 9, 12) = <<"0", "0", "1", "0">>
          <=> w[9] = "0" /\ w[10] = "0" /\ w[11] = "1" /\ w[12] = "0"
    BY <1>1, <2>1, LastFour
  <2>3. SubSeq(w, 9, 12) = <<"0", "0", "0", "1">>
          <=> w[9] = "0" /\ w[10] = "0" /\ w[11] = "0" /\ w[12] = "1"
    BY <1>1, <2>1, LastFour
  <2>. QED  BY <1>1, <2>2, <2>3
<1>3. ASSUME RevHears(g2, n2, d2, w) PROVE g2 = g /\ n2 = n /\ d2 = d
  <2>1. /\ \A i \in 1..4 : w[i] = IF i = g2 + 1 THEN "1" ELSE "F"
        /\ \A i \in 1..3 : w[4 + i] = IF i = n2 + 1 THEN "1" ELSE "F"
        /\ SubSeq(w, 9, 12) = IF d2 = 1 THEN <<"0", "0", "1", "0">>
                                         ELSE <<"0", "0", "0", "1">>
    BY <1>3 DEF RevHears
  <2>2. g + 1 \in 1..4 /\ n + 1 \in 1..3
    OBVIOUS
  <2>3. g + 1 = g2 + 1
    BY <1>1, <2>1, <2>2
  <2>4. n + 1 = n2 + 1
    <3>1. w[4 + (n + 1)] = "1"
      BY <1>1, <2>2
    <3>2. w[4 + (n + 1)] = IF n + 1 = n2 + 1 THEN "1" ELSE "F"
      BY <2>1, <2>2
    <3>. QED  BY <3>1, <3>2
  <2>5. d2 = d
    <3>1. (d2 = 0 \/ d2 = 1) /\ (d = 0 \/ d = 1)
      OBVIOUS
    <3>2. CASE d2 = 1
      BY <1>2, <2>1, <3>2, Zenon
    <3>3. CASE d2 = 0
      <4>1. d2 # 1
        BY <3>3
      <4>. QED  BY <1>2, <2>1, <3>3, <4>1, Zenon
    <3>. QED  BY <3>1, <3>2, <3>3
  <2>. QED  BY <2>3, <2>4, <2>5
<1>4. RevHears(g, n, d, w)
  <2>1. SubSeq(w, 9, 12) = IF d = 1 THEN <<"0", "0", "1", "0">> ELSE <<"0", "0", "0", "1">>
    <3>1. d = 1 \/ (d = 0 /\ d # 1)
      OBVIOUS
    <3>. QED  BY <1>2, <3>1, Zenon
  <2>. QED  BY <1>1, <2>1 DEF RevHears
<1>. QED  BY <1>3, <1>4

(* ... and so does a Pollin socket.                                          *)
LEMMA PollinCommand ==
  ASSUME NEW g \in 0..31, NEW n \in 0..31, NEW d \in 0..1, NEW w, PollinForm(w, g, n, d)
  PROVE  /\ SubSeq(w, 11, 12) = <<"0", "F">> <=> d = 1
         /\ SubSeq(w, 11, 12) = <<"F", "0">> <=> d = 0
<1>1. /\ w \in Seq(Symbols) /\ Len(w) = 12
      /\ w[11] = IF d = 1 THEN "0" ELSE "F"
      /\ w[12] = IF d = 1 THEN "F" ELSE "0"
  BY DEF PollinForm
<1>2. "0" \in Symbols /\ "F" \in Symbols
  BY DEF Symbols
<1>3. SubSeq(w, 11, 12) = <<"0", "F">> <=> w[11] = "0" /\ w[12] = "F"
  BY <1>1, <1>2, LastTwo
<1>4. SubSeq(w, 11, 12) = <<"F", "0">> <=> w[11] = "F" /\ w[12] = "0"
  BY <1>1, <1>2, LastTwo
<1>. QED  BY <1>1, <1>3, <1>4

LEMMA PollinHearsOnly ==
  ASSUME NEW g \in 0..31, NEW n \in 0..31, NEW d \in 0..1, NEW w, PollinForm(w, g, n, d),
         NEW g2 \in 0..31, NEW n2 \in 0..31, NEW d2 \in 0..1, PollinHears(g2, n2, d2, w)
  PROVE  g2 = g /\ n2 = n /\ d2 = d
<1>1. /\ \A i \in 1..5 : w[i] = IF DipOn(g, i) THEN "0" ELSE "F"
      /\ \A i \in 1..5 : w[5 + i] = IF DipOn(n, i) THEN "0" ELSE "F"
  BY DEF PollinForm, DipSymbol
<1>2. /\ \A i \in 1..5 : w[i] = IF DipOn(g2, i) THEN "0" ELSE "F"
      /\ \A i \in 1..5 : w[5 + i] = IF DipOn(n2, i) THEN "0" ELSE "F"
      /\ SubSeq(w, 11, 12) = IF d2 = 1 THEN <<"0", "F">> ELSE <<"F", "0">>
  BY DEF PollinHears
<1>3. ASSUME NEW i \in 1..5
      PROVE  (DipOn(g2, i) <=> DipOn(g, i)) /\ (DipOn(n2, i) <=> DipOn(n, i))
  <2>1. w[5 + i] = IF DipOn(n2, i) THEN "0" ELSE "F"
    BY <1>2
  <2>2. w[5 + i] = IF DipOn(n, i) THEN "0" ELSE "F"
    BY <1>1
  <2>. QED  BY <1>1, <1>2, <2>1, <2>2
<1>4. g2 = g /\ n2 = n
  BY <1>3, DipApart
<1>5. d2 = d
  <2>1. (d2 = 0 /\ d2 # 1) \/ d2 = 1
    OBVIOUS
  <2>2. /\ SubSeq(w, 11, 12) = <<"0", "F">> <=> d = 1
        /\ SubSeq(w, 11, 12) = <<"F", "0">> <=> d = 0
    BY PollinCommand
  <2>. QED  BY <1>2, <2>1, <2>2, Zenon
<1>. QED  BY <1>4, <1>5

LEMMA PollinHearsOwn ==
  ASSUME NEW g \in 0..31, NEW n \in 0..31, NEW d \in 0..1, NEW w, PollinForm(w, g, n, d)
  PROVE  PollinHears(g, n, d, w)
<1>1. /\ \A i \in 1..5 : w[i] = IF DipOn(g, i) THEN "0" ELSE "F"
      /\ \A i \in 1..5 : w[5 + i] = IF DipOn(n, i) THEN "0" ELSE "F"
  BY DEF PollinForm, DipSymbol
<1>2. SubSeq(w, 11, 12) = IF d = 1 THEN <<"0", "F">> ELSE <<"F", "0">>
  <2>1. d = 1 \/ (d = 0 /\ d # 1)
    OBVIOUS
  <2>2. /\ SubSeq(w, 11, 12) = <<"0", "F">> <=> d = 1
        /\ SubSeq(w, 11, 12) = <<"F", "0">> <=> d = 0
    BY PollinCommand
  <2>. QED  BY <2>1, <2>2, Zenon
<1>. QED  BY <1>1, <1>2 DEF PollinHears

(* A socket of one family never obeys a word of the other: a REV word has a  *)
(* "1" among its first four symbols, a Pollin word has none.                 *)
LEMMA RevNotPollin ==
  ASSUME NEW g \in 0..3, NEW n \in 0..2, NEW d \in 0..1, NEW g2, NEW n2, NEW d2,
         NEW w, RevForm(w, g, n, d)
  PROVE  ~PollinHears(g2, n2, d2, w)
<1>1. \A i \in 1..4 : w[i] = IF i = g + 1 THEN "1" ELSE "F"
  BY DEF RevForm
<1>2. g + 1 \in 1..4 /\ g + 1 \in 1..5
  OBVIOUS
<1>3. w[g + 1] = "1"
  BY <1>1, <1>2
<1>. QED  BY <1>2, <1>3 DEF PollinHears

LEMMA PollinNotRev ==
  ASSUME NEW g \in 0..31, NEW n \in 0..31, NEW d \in 0..1, NEW g2 \in 0..3, NEW n2, NEW d2,
         NEW w, PollinForm(w, g, n, d)
  PROVE  ~RevHears(g2, n2, d2, w)
<1>1. \A i \in 1..5 : w[i] = DipSymbol(g, i)
  BY DEF PollinForm
<1>2. g2 + 1 \in 1..4 /\ g2 + 1 \in 1..5
  OBVIOUS
<1>3. w[g2 + 1] # "1"
  BY <1>1, <1>2 DEF DipSymbol
<1>. QED  BY <1>2, <1>3 DEF RevHears

LEMMA SettingCases ==
  ASSUME NEW s \in Settings
  PROVE  \/ \E g \in 0..3, n \in 0..2, d \in 0..1 : s = <<0, g, n, d>>
         \/ \E g \in 0..31, n \in 0..31, d \in 0..1 : s = <<1, g, n, d>>
BY DEF Settings, REV_008345, POLLIN_2605

(* Of all the settings, exactly the one that a frame was made for obeys it.  *)
LEMMA OnlyItHears ==
  ASSUME NEW c \in Settings, NEW s \in Settings
  PROVE  Hears(s, Frame(socket_ctrl(c))) <=> s = c
<1>. DEFINE w == socket_ctrl(c)
            H == IF s[1] = 0 THEN RevHears(s[2], s[3], s[4], w) ELSE PollinHears(s[2], s[3], s[4], w)
<1>1. w \in Seq(Symbols) /\ Len(w) = 12
  <2>1. CASE \E g \in 0..3, n \in 0..2, d \in 0..1 : c = <<0, g, n, d>>
    <3>1. PICK g \in 0..3, n \in 0..2, d \in 0..1 : c = <<0, g, n, d>>
      BY <2>1
    <3>2. RevForm(socket_ctrl(c), g, n, d)
      BY <3>1, RevWord
    <3>. QED  BY <3>2 DEF RevForm
  <2>2. CASE \E g \in 0..31, n \in 0..31, d \in 0..1 : c = <<1, g, n, d>>
    <3>1. PICK g \in 0..31, n \in 0..31, d \in 0..1 : c = <<1, g, n, d>>
      BY <2>2
    <3>2. PollinForm(socket_ctrl(c), g, n, d)
      BY <3>1, PollinWord
    <3>. QED  BY <3>2 DEF PollinForm
  <2>. QED  BY <2>1, <2>2, SettingCases
<1>2. Hears(s, Frame(w)) <=> H
  <2>. HIDE DEF w
  <2>1. WholeFrame(Frame(w)) /\ Word(Frame(w)) = w
    BY <1>1, FrameWord
  <2>. QED  BY <2>1 DEF Hears, REV_008345
<1>3. CASE \E g \in 0..3, n \in 0..2, d \in 0..1 : c = <<0, g, n, d>>
  <2>1. PICK g \in 0..3, n \in 0..2, d \in 0..1 : c = <<0, g, n, d>>
    BY <1>3
  <2>2. RevForm(w, g, n, d)
    BY <2>1, RevWord
  <2>3. CASE \E g2 \in 0..3, n2 \in 0..2, d2 \in 0..1 : s = <<0, g2, n2, d2>>
    <3>1. PICK g2 \in 0..3, n2 \in 0..2, d2 \in 0..1 : s = <<0, g2, n2, d2>>
      BY <2>3
    <3>2. s[1] = 0 /\ s[2] = g2 /\ s[3] = n2 /\ s[4] = d2
      BY <3>1
    <3>3. H <=> RevHears(g2, n2, d2, w)
      <4>. HIDE DEF w
      <4>. QED  BY <3>2
    <3>4. RevHears(g2, n2, d2, w) <=> g2 = g /\ n2 = n /\ d2 = d
      <4>. HIDE DEF w
      <4>1. /\ RevHears(g2, n2, d2, w) => g2 = g /\ n2 = n /\ d2 = d
            /\ RevHears(g, n, d, w)
        BY <2>2, RevHearsRev
      <4>. QED  BY <4>1
    <3>5. s = c <=> g2 = g /\ n2 = n /\ d2 = d
      BY <2>1, <3>1
    <3>. HIDE DEF H, w
    <3>. QED  BY <1>2, <3>3, <3>4, <3>5 DEF w
  <2>4. CASE \E g2 \in 0..31, n2 \in 0..31, d2 \in 0..1 : s = <<1, g2, n2, d2>>
    <3>1. PICK g2 \in 0..31, n2 \in 0..31, d2 \in 0..1 : s = <<1, g2, n2, d2>>
      BY <2>4
    <3>2. s[1] = 1 /\ s[2] = g2 /\ s[3] = n2 /\ s[4] = d2
      BY <3>1
    <3>3. H <=> PollinHears(g2, n2, d2, w)
      <4>. HIDE DEF w
      <4>. QED  BY <3>2
    <3>4. ~PollinHears(g2, n2, d2, w)
      <4>. HIDE DEF w
      <4>. QED  BY <2>2, RevNotPollin
    <3>5. s # c
      BY <2>1, <3>1
    <3>. HIDE DEF H, w
    <3>. QED  BY <1>2, <3>3, <3>4, <3>5 DEF w
  <2>. QED  BY <2>3, <2>4, SettingCases
<1>4. CASE \E g \in 0..31, n \in 0..31, d \in 0..1 : c = <<1, g, n, d>>
  <2>1. PICK g \in 0..31, n \in 0..31, d \in 0..1 : c = <<1, g, n, d>>
    BY <1>4
  <2>2. PollinForm(w, g, n, d)
    BY <2>1, PollinWord
  <2>3. CASE \E g2 \in 0..3, n2 \in 0..2, d2 \in 0..1 : s = <<0, g2, n2, d2>>
    <3>1. PICK g2 \in 0..3, n2 \in 0..2, d2 \in 0..1 : s = <<0, g2, n2, d2>>
      BY <2>3
    <3>2. s[1] = 0 /\ s[2] = g2 /\ s[3] = n2 /\ s[4] = d2
      BY <3>1
    <3>3. H <=> RevHears(g2, n2, d2, w)
      <4>. HIDE DEF w
      <4>. QED  BY <3>2
    <3>4. ~RevHears(g2, n2, d2, w)
      <4>. HIDE DEF w
      <4>. QED  BY <2>2, PollinNotRev
    <3>5. s # c
      BY <2>1, <3>1
    <3>. HIDE DEF H, w
    <3>. QED  BY <1>2, <3>3, <3>4, <3>5 DEF w
  <2>4. CASE \E g2 \in 0..31, n2 \in 0..31, d2 \in 0..1 : s = <<1, g2, n2, d2>>
    <3>1. PICK g2 \in 0..31, n2 \in 0..31, d2 \in 0..1 : s = <<1, g2, n2, d2>>
      BY <2>4
    <3>2. s[1] = 1 /\ s[2] = g2 /\ s[3] = n2 /\ s[4] = d2
      BY <3>1
    <3>3. H <=> PollinHears(g2, n2, d2, w)
      <4>. HIDE DEF w
      <4>. QED  BY <3>2
    <3>4. PollinHears(g2, n2, d2, w) <=> g2 = g /\ n2 = n /\ d2 = d
      <4>. HIDE DEF w
      <4>1. PollinHears(g2, n2, d2, w) => g2 = g /\ n2 = n /\ d2 = d
        BY <2>2, PollinHearsOnly
      <4>2. PollinHears(g, n, d, w)
        BY <2>2, PollinHearsOwn
      <4>. QED  BY <4>1, <4>2
    <3>5. s = c <=> g2 = g /\ n2 = n /\ d2 = d
      BY <2>1, <3>1
    <3>. HIDE DEF H, w
    <3>. QED  BY <1>2, <3>3, <3>4, <3>5 DEF w
  <2>. QED  BY <2>3, <2>4, SettingCases
<1>. QED  BY <1>3, <1>4, SettingCases
-----------------------------------------------------------------------------
(* The web app.                                                              *)

(* What the owner may enter.                                                 *)
LEMMA EnteredParts ==
  ASSUME NEW e \in Entered
  PROVE  /\ e # <<>>
         /\ e[2] \in Int \/ e[2] = NotAnInt
         /\ e[3] \in Int \/ e[3] = NotAnInt
         /\ NotAnInt \notin Int
         /\ e[4] = "on" \/ e[4] = "off"
<1>1. e \in STRING \X (Int \cup {NotAnInt}) \X (Int \cup {NotAnInt}) \X {"on", "off"}
  BY WireAssumption
<1>. QED  BY <1>1, WireAssumption

(* The checks of the web app, with the numbers of its table.                 *)
LEMMA WebLimits ==
  ASSUME NEW e
  PROVE  check_socket_fields(e) <=>
           \/ /\ e[1] = "rev_008345" /\ e[2] # NotAnInt /\ e[3] # NotAnInt
              /\ 0 <= e[2] /\ e[2] < 4 /\ 0 <= e[3] /\ e[3] < 3
           \/ /\ e[1] = "pollin_2605" /\ e[2] # NotAnInt /\ e[3] # NotAnInt
              /\ 0 <= e[2] /\ e[2] < 32 /\ 0 <= e[3] /\ e[3] < 32
<1>1. DOMAIN SOCKET_TYPES = {"rev_008345", "pollin_2605"}
  BY DEF SOCKET_TYPES
<1>2. /\ SOCKET_TYPES["rev_008345"].groups = 4 /\ SOCKET_TYPES["rev_008345"].sockets = 3
      /\ SOCKET_TYPES["pollin_2605"].groups = 32 /\ SOCKET_TYPES["pollin_2605"].sockets = 32
  BY DEF SOCKET_TYPES
<1>. QED  BY <1>1, <1>2 DEF check_socket_fields, address_ok, is_strict_int

LEMMA CommandParts ==
  ASSUME NEW e \in Entered
  PROVE  /\ e[1] = "rev_008345" => Command(e) = <<0, e[2], e[3], IF e[4] = "on" THEN 1 ELSE 0>>
         /\ e[1] = "pollin_2605" => Command(e) = <<1, e[2], e[3], IF e[4] = "on" THEN 1 ELSE 0>>
<1>1. SOCKET_TYPES["rev_008345"].dev = 0 /\ SOCKET_TYPES["pollin_2605"].dev = 1
  BY DEF SOCKET_TYPES
<1>. QED  BY <1>1 DEF Command

(* The sockets that an address is meant for.                                 *)
LEMMA MeantMember ==
  ASSUME NEW e \in Entered, NEW s \in Meant(e)
  PROVE  /\ s = <<s[1], s[2], s[3], s[4]>>
         /\ s[2] = e[2] /\ s[3] = e[3] /\ s[4] = IF e[4] = "on" THEN 1 ELSE 0
         /\ \/ /\ e[1] = "rev_008345" /\ s[1] = 0 /\ s[2] \in 0..3 /\ s[3] \in 0..2
            \/ /\ e[1] = "pollin_2605" /\ s[1] = 1 /\ s[2] \in 0..31 /\ s[3] \in 0..31
<1>1. /\ s \in Settings
      /\ s[1] = CASE e[1] = "rev_008345" -> 0 [] e[1] = "pollin_2605" -> 1 [] OTHER -> -1
      /\ <<s[2], s[3]>> = <<e[2], e[3]>>
      /\ s[4] = IF e[4] = "on" THEN 1 ELSE 0
  BY DEF Meant, REV_008345, POLLIN_2605
<1>2. s[2] = e[2] /\ s[3] = e[3]
  BY <1>1
<1>3. CASE \E g \in 0..3, n \in 0..2, d \in 0..1 : s = <<0, g, n, d>>
  <2>1. PICK g \in 0..3, n \in 0..2, d \in 0..1 : s = <<0, g, n, d>>
    BY <1>3
  <2>2. s[1] = 0 /\ s[2] = g /\ s[3] = n /\ s[4] = d
    BY <2>1
  <2>3. e[1] = "rev_008345"
    BY <1>1, <2>2
  <2>. QED  BY <1>1, <1>2, <2>1, <2>2, <2>3
<1>4. CASE \E g \in 0..31, n \in 0..31, d \in 0..1 : s = <<1, g, n, d>>
  <2>1. PICK g \in 0..31, n \in 0..31, d \in 0..1 : s = <<1, g, n, d>>
    BY <1>4
  <2>2. s[1] = 1 /\ s[2] = g /\ s[3] = n /\ s[4] = d
    BY <2>1
  <2>3. e[1] = "pollin_2605"
    BY <1>1, <2>2
  <2>. QED  BY <1>1, <1>2, <2>1, <2>2, <2>3
<1>. QED  BY <1>1, <1>3, <1>4, SettingCases

(* An address that the web app accepts is one that the library accepts, and  *)
(* it is meant for one socket ...                                            *)
LEMMA AcceptedMeant ==
  ASSUME NEW e \in Entered, check_socket_fields(e)
  PROVE  /\ Command(e) \in Settings
         /\ Command(e) \in ValidAddresses
         /\ Meant(e) = {Command(e)}
<1>. DEFINE d == IF e[4] = "on" THEN 1 ELSE 0
            c == Command(e)
<1>1. \/ e[1] = "rev_008345" /\ e[2] \in 0..3 /\ e[3] \in 0..2
      \/ e[1] = "pollin_2605" /\ e[2] \in 0..31 /\ e[3] \in 0..31
  <2>1. \/ /\ e[1] = "rev_008345" /\ e[2] # NotAnInt /\ e[3] # NotAnInt
           /\ 0 <= e[2] /\ e[2] < 4 /\ 0 <= e[3] /\ e[3] < 3
        \/ /\ e[1] = "pollin_2605" /\ e[2] # NotAnInt /\ e[3] # NotAnInt
           /\ 0 <= e[2] /\ e[2] < 32 /\ 0 <= e[3] /\ e[3] < 32
    BY WebLimits
  <2>2. e[2] \in Int \cup {NotAnInt} /\ e[3] \in Int \cup {NotAnInt}
    BY EnteredParts
  <2>3. e[2] \in Int /\ e[3] \in Int
    BY <2>1, <2>2
  <2>. QED  BY <2>1, <2>3
<1>2. d \in 0..1
  OBVIOUS
<1>. HIDE DEF c
<1>3. /\ e[1] = "rev_008345" => c = <<0, e[2], e[3], d>>
      /\ e[1] = "pollin_2605" => c = <<1, e[2], e[3], d>>
  BY CommandParts DEF c
<1>. HIDE DEF d
<1>4. c \in Settings
  BY <1>1, <1>2, <1>3 DEF Settings, REV_008345, POLLIN_2605
<1>5. c \in ValidAddresses
  <2>1. c \in (0..1) \X (0..31) \X (0..31) \X (0..1)
    BY <1>1, <1>2, <1>3
  <2>2. \/ c[1] = 0 /\ c[2] < 4 /\ c[3] < 3 /\ c[4] < 2
        \/ c[1] = 1 /\ c[2] < 32 /\ c[3] < 32 /\ c[4] < 2
    BY <1>1, <1>2, <1>3
  <2>3. address_check(c)
    BY <2>2, Limits
  <2>. QED  BY <2>1, <2>3 DEF ValidAddresses
<1>6. c \in Meant(e)
  <2>1. CASE e[1] = "rev_008345"
    <3>1. c[1] = 0 /\ c[2] = e[2] /\ c[3] = e[3] /\ c[4] = d
      BY <1>3, <2>1
    <3>. QED  BY <1>4, <2>1, <3>1 DEF Meant, REV_008345, POLLIN_2605, d
  <2>2. CASE e[1] = "pollin_2605"
    <3>1. c[1] = 1 /\ c[2] = e[2] /\ c[3] = e[3] /\ c[4] = d
      BY <1>3, <2>2
    <3>. QED  BY <1>4, <2>2, <3>1 DEF Meant, REV_008345, POLLIN_2605, d
  <2>. QED  BY <1>1, <2>1, <2>2
<1>7. ASSUME NEW s \in Meant(e) PROVE s = c
  <2>1. /\ s = <<s[1], s[2], s[3], s[4]>>
        /\ s[2] = e[2] /\ s[3] = e[3] /\ s[4] = d
        /\ (e[1] = "rev_008345" /\ s[1] = 0) \/ (e[1] = "pollin_2605" /\ s[1] = 1)
    BY MeantMember DEF d
  <2>. QED  BY <1>3, <2>1
<1>. QED  BY <1>4, <1>5, <1>6, <1>7 DEF c

(* ... and one that it refuses is meant for none.                            *)
LEMMA RefusedMeant ==
  ASSUME NEW e \in Entered, ~check_socket_fields(e)
  PROVE  Meant(e) = {}
<1>1. ASSUME NEW s \in Meant(e) PROVE FALSE
  <2>1. \/ e[1] = "rev_008345" /\ e[2] \in 0..3 /\ e[3] \in 0..2
        \/ e[1] = "pollin_2605" /\ e[2] \in 0..31 /\ e[3] \in 0..31
    <3>1. /\ s[2] = e[2] /\ s[3] = e[3]
          /\ \/ /\ e[1] = "rev_008345" /\ s[1] = 0 /\ s[2] \in 0..3 /\ s[3] \in 0..2
             \/ /\ e[1] = "pollin_2605" /\ s[1] = 1 /\ s[2] \in 0..31 /\ s[3] \in 0..31
      BY <1>1, MeantMember
    <3>. QED  BY <3>1
  <2>2. e[2] # NotAnInt /\ e[3] # NotAnInt
    BY <2>1, EnteredParts
  <2>3. check_socket_fields(e)
    BY <2>1, <2>2, WebLimits
  <2>. QED  BY <2>3
<1>. QED  BY <1>1

(* The line of an entered command brings the frame of that command.          *)
LEMMA LineToAir ==
  ASSUME NEW a \in ValidAddresses
  PROVE  /\ parse_line(Render(a)).kind = "SWITCH"
         /\ parse_line(Render(a)).addr = a
<1>1. parse_line(Render(a)) = Switch(a)
  BY ParseRendered
<1>. QED  BY <1>1 DEF Switch

LEMMA RenderType ==
  ASSUME NEW a \in ValidAddresses
  PROVE  Render(a) \in Seq(Chars)
<1>1. /\ Numerals[a[1]] \in Seq(Chars) /\ Numerals[a[2]] \in Seq(Chars)
      /\ Numerals[a[3]] \in Seq(Chars) /\ Numerals[a[4]] \in Seq(Chars)
  <2>1. \A i \in 1..4 : a[i] \in 0..SOCKET_PULSE_LEN_MAX_US
    BY ValidNumbers
  <2>2. ASSUME NEW n \in 0..SOCKET_PULSE_LEN_MAX_US PROVE Numerals[n] \in Seq(Chars)
    BY NumeralPlain, SeqMonotonic
  <2>. QED  BY <2>1, <2>2
<1>2. PICK n1 \in Seq(Chars), n2 \in Seq(Chars), n3 \in Seq(Chars), n4 \in Seq(Chars) :
        n1 = Numerals[a[1]] /\ n2 = Numerals[a[2]] /\ n3 = Numerals[a[3]] /\ n4 = Numerals[a[4]]
  BY <1>1
<1>3. Blank \in Chars
  BY DEF Chars
<1>4. Render(a) = Join2(Join2(Join2(n1, n2, Blank), n3, Blank), n4, Blank)
  BY <1>2 DEF Render, Join2
<1>5. Join2(n1, n2, Blank) \in Seq(Chars)
  BY <1>3, JoinType
<1>6. Join2(Join2(n1, n2, Blank), n3, Blank) \in Seq(Chars)
  BY <1>3, <1>5, JoinType
<1>. QED  BY <1>3, <1>4, <1>6, JoinType

(* An edit makes a line of a line.                                           *)
LEMMA EditType ==
  ASSUME NEW S, NEW ln \in Seq(S), NEW b \in S
  PROVE  /\ \A i \in 1..Len(ln) : [ln EXCEPT ![i] = b] \in Seq(S)
         /\ \A i \in 1..(Len(ln) + 1) : InsertAt(ln, i, b) \in Seq(S)
         /\ \A i \in 1..Len(ln) : RemoveAt(ln, i) \in Seq(S)
<1>1. PICK k \in Nat : k = Len(ln)
  BY LenProperties
<1>2. \A i \in 1..k : ln[i] \in S
  BY <1>1, ElementOfSeq
<1>3. ASSUME NEW p \in Int, NEW q \in Int, 1 <= p, q <= k
      PROVE  SubSeq(ln, p, q) \in Seq(S)
  <2>1. \A i \in p..q : ln[i] \in S
    BY <1>2, <1>3
  <2>. QED  BY <2>1, SubSeqProperties
<1>4. ASSUME NEW i \in 1..k PROVE [ln EXCEPT ![i] = b] \in Seq(S)
  BY <1>1, ExceptSeq
<1>5. ASSUME NEW i \in 1..(k + 1) PROVE InsertAt(ln, i, b) \in Seq(S)
  <2>1. SubSeq(ln, 1, i - 1) \in Seq(S) /\ SubSeq(ln, i, k) \in Seq(S)
    BY <1>3
  <2>2. <<b>> \in Seq(S)
    OBVIOUS
  <2>3. SubSeq(ln, 1, i - 1) \o <<b>> \in Seq(S)
    BY <2>1, <2>2, ConcatProperties
  <2>4. (SubSeq(ln, 1, i - 1) \o <<b>>) \o SubSeq(ln, i, k) \in Seq(S)
    BY <2>1, <2>3, ConcatProperties
  <2>. QED  BY <1>1, <2>4 DEF InsertAt
<1>6. ASSUME NEW i \in 1..k PROVE RemoveAt(ln, i) \in Seq(S)
  <2>1. SubSeq(ln, 1, i - 1) \in Seq(S) /\ SubSeq(ln, i + 1, k) \in Seq(S)
    BY <1>3
  <2>2. SubSeq(ln, 1, i - 1) \o SubSeq(ln, i + 1, k) \in Seq(S)
    BY <2>1, ConcatProperties
  <2>. QED  BY <1>1, <2>2 DEF RemoveAt
<1>. QED  BY <1>1, <1>4, <1>5, <1>6

-----------------------------------------------------------------------------
(* The inductive invariant: a line is a line, and from the moment an address *)
(* is entered, what is on the wire and on the air is what it was rendered    *)
(* and encoded to.                                                           *)
WireInv ==
  /\ line \in Seq(Chars)
  /\ stage = "idle" => entered = <<>>
  /\ stage = "refused" => entered \in Entered /\ ~check_socket_fields(entered)
  /\ entered # <<>> /\ stage # "refused" =>
       /\ entered \in Entered
       /\ check_socket_fields(entered)
       /\ line = Render(Command(entered))
  /\ entered # <<>> /\ stage = "air" => air = Frame(socket_ctrl(Command(entered)))

LEMMA WireInvInit == WireInit => WireInv
BY DEF WireInit, WireInv

LEMMA WireInvStep == WireInv /\ [WireNext]_wireVars => WireInv'
<1>. SUFFICES ASSUME WireInv, [WireNext]_wireVars PROVE WireInv'
  OBVIOUS
<1>1. CASE Enter
  <2>1. stage = "idle" /\ air' = air /\ entered' \in Entered
    BY <1>1 DEF Enter
  <2>2. CASE check_socket_fields(entered') /\ stage' = "line" /\ line' = Render(Command(entered'))
    <3>1. Command(entered') \in ValidAddresses
      BY <2>1, <2>2, AcceptedMeant
    <3>2. line' \in Seq(Chars)
      BY <2>2, <3>1, RenderType
    <3>. QED  BY <2>1, <2>2, <3>2 DEF WireInv
  <2>3. CASE ~check_socket_fields(entered') /\ stage' = "refused" /\ line' = line
    BY <2>1, <2>3 DEF WireInv
  <2>. QED  BY <1>1, <2>2, <2>3 DEF Enter
<1>2. CASE WriteLine
  <2>1. stage = "idle" /\ stage' = "line" /\ line' \in Seeds /\ entered' = entered /\ air' = air
    BY <1>2 DEF WriteLine
  <2>2. line' \in Seq(Chars)
    <3>1. STRING \subseteq Chars
      BY DEF Chars
    <3>. QED  BY <2>1, <3>1, SeqMonotonic, WireAssumption
  <2>. QED  BY <2>1, <2>2 DEF WireInv
<1>3. CASE Change
  <2>1. stage = "line" /\ entered = <<>> /\ stage' = stage /\ entered' = entered /\ air' = air
    BY <1>3 DEF Change
  <2>2. line' \in Seq(Chars)
    <3>1. line \in Seq(Chars) /\ Bytes \subseteq Chars
      BY WireAssumption DEF WireInv, Chars
    <3>2. CASE \E i \in 1..Len(line), b \in Bytes : line' = [line EXCEPT ![i] = b]
      BY <3>1, <3>2, EditType
    <3>3. CASE \E i \in 1..(Len(line) + 1), b \in Bytes : line' = InsertAt(line, i, b)
      BY <3>1, <3>3, EditType
    <3>4. CASE \E i \in 1..Len(line) : Len(line) > 1 /\ line' = RemoveAt(line, i)
      <4>1. Blank \in Chars
        BY DEF Chars
      <4>. QED  BY <3>1, <3>4, <4>1, EditType
    <3>. QED  BY <1>3, <3>2, <3>3, <3>4 DEF Change
  <2>. QED  BY <2>1, <2>2 DEF WireInv
<1>4. CASE Send
  <2>1. stage = "line" /\ stage' = "air" /\ entered' = entered /\ line' = line
    BY <1>4 DEF Send
  <2>2. ASSUME entered # <<>> PROVE air' = Frame(socket_ctrl(Command(entered)))
    <3>1. /\ entered \in Entered /\ check_socket_fields(entered)
          /\ line = Render(Command(entered))
      BY <2>1, <2>2 DEF WireInv
    <3>2. Command(entered) \in ValidAddresses
      BY <3>1, AcceptedMeant
    <3>3. parse_line(line).kind = "SWITCH" /\ parse_line(line).addr = Command(entered)
      BY <3>1, <3>2, LineToAir
    <3>. QED  BY <1>4, <3>3 DEF Send
  <2>. QED  BY <2>1, <2>2 DEF WireInv
<1>5. CASE UNCHANGED wireVars
  BY <1>5 DEF wireVars, WireInv
<1>. QED  BY <1>1, <1>2, <1>3, <1>4, <1>5 DEF WireNext

LEMMA WireInvAlways == WireSpec => []WireInv
<1>. QED  BY WireInvInit, WireInvStep, PTL DEF WireSpec

(* The parser of rsswitchd accepts the documented format and nothing else:   *)
(* whatever line another client writes, parse_line() takes it for a command  *)
(* exactly when it is the one canonical rendering of a command that the      *)
(* library would accept, and then for that command.                          *)
THEOREM ParserIsTheGrammar == WireSpec => []ParserMatchesGrammar
<1>1. WireInv => ParserMatchesGrammar
  BY Grammar DEF WireInv, ParserMatchesGrammar
<1>. QED  BY <1>1, WireInvAlways, PTL

(* From the request to the radio: exactly the socket whose address the owner *)
(* entered obeys the frame on the air, with the commanded state, and no      *)
(* address that model.py refuses belongs to a socket that could exist.       *)
THEOREM AddressedSocketObeys == WireSpec => []ExactlyTheAddressedSocketObeys
<1>1. WireInv => ExactlyTheAddressedSocketObeys
  <2>. SUFFICES ASSUME WireInv PROVE ExactlyTheAddressedSocketObeys
    OBVIOUS
  <2>1. ASSUME entered # <<>>, stage = "air"
        PROVE  Meant(entered) # {} /\ {s \in Settings : Hears(s, air)} = Meant(entered)
    <3>1. /\ entered \in Entered /\ check_socket_fields(entered)
          /\ air = Frame(socket_ctrl(Command(entered)))
      BY <2>1 DEF WireInv
    <3>2. Command(entered) \in Settings /\ Meant(entered) = {Command(entered)}
      BY <3>1, AcceptedMeant
    <3>3. \A s \in Settings : Hears(s, air) <=> s = Command(entered)
      BY <3>1, <3>2, OnlyItHears
    <3>. QED  BY <3>2, <3>3
  <2>2. ASSUME stage = "refused" PROVE Meant(entered) = {}
    BY <2>2, RefusedMeant DEF WireInv
  <2>. QED  BY <2>1, <2>2 DEF ExactlyTheAddressedSocketObeys
<1>. QED  BY <1>1, WireInvAlways, PTL
=============================================================================
