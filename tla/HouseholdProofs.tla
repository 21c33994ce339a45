-------------------------- MODULE HouseholdProofs ----------------------------
(***************************************************************************)
(* Proofs about Household for any number of rooms and sockets, any names    *)
(* and types, and any requests.                                             *)
(*                                                                          *)
(* What is stored is what check_document() accepts, and it has its shape    *)
(* (Shape).  A route takes entries away or puts them in another order       *)
(* (Picks), appends one with an id that is new, or replaces one with the    *)
(* same id.                                                                 *)
(***************************************************************************)
EXTENDS Household, SequenceTheorems, TLAPS

Shape == doc \in Seq(Room)
IInv  == Shape /\ DocumentStaysLoadable

-----------------------------------------------------------------------------
(* Sequences of entries.                                                     *)
LEMMA IndexOfType ==
  ASSUME NEW S, NEW s \in Seq(S), NEW id
  PROVE  /\ IndexOf(s, id) \in DOMAIN s \cup {0}
         /\ IndexOf(s, id) = 0 <=> \A i \in DOMAIN s : s[i].id # id
         /\ IndexOf(s, id) # 0 => IndexOf(s, id) \in DOMAIN s /\ s[IndexOf(s, id)].id = id
<1>. DEFINE at == {i \in DOMAIN s : s[i].id = id}
<1>1. 0 \notin DOMAIN s
  OBVIOUS
<1>2. CASE at = {}
  BY <1>1, <1>2 DEF IndexOf
<1>3. CASE at # {}
  <2>1. IndexOf(s, id) \in at
    BY <1>3 DEF IndexOf
  <2>. QED  BY <1>1, <2>1
<1>. QED  BY <1>2, <1>3

(* Entries of s, each at most once.                                          *)
Picks(t, s) ==
  \E f \in [DOMAIN t -> DOMAIN s] :
    /\ \A i, j \in DOMAIN t : f[i] = f[j] => i = j
    /\ \A i \in DOMAIN t : t[i] = s[f[i]]

LEMMA RemovedIs ==
  ASSUME NEW S, NEW s \in Seq(S), NEW n \in DOMAIN s
  PROVE  /\ RemoveAt(s, n) \in Seq(S) /\ Len(RemoveAt(s, n)) = Len(s) - 1
         /\ \A k \in 1..(Len(s) - 1) : RemoveAt(s, n)[k] = IF k < n THEN s[k] ELSE s[k + 1]
<1>. DEFINE a == SubSeq(s, 1, n - 1)
            b == SubSeq(s, n + 1, Len(s))
            r == RemoveAt(s, n)
<1>1. n \in 1..Len(s) /\ Len(s) \in Nat
  OBVIOUS
<1>2. a \in Seq(S) /\ Len(a) = n - 1 /\ \A k \in 1..(n - 1) : a[k] = s[k]
  BY <1>1
<1>3. /\ b \in Seq(S) /\ Len(b) = Len(s) - n
      /\ \A k \in 1..(Len(s) - n) : b[k] = s[n + k]
  BY <1>1
<1>4. r = a \o b
  BY DEF RemoveAt
<1>. HIDE DEF a, b, r
<1>5. /\ r \in Seq(S) /\ Len(r) = Len(s) - 1
      /\ \A k \in 1..(Len(s) - 1) : r[k] = IF k < n THEN s[k] ELSE s[k + 1]
  BY <1>1, <1>2, <1>3, <1>4
<1>. QED  BY <1>5 DEF r

LEMMA RemovePicks ==
  ASSUME NEW S, NEW s \in Seq(S), NEW n \in DOMAIN s
  PROVE  /\ RemoveAt(s, n) \in Seq(S)
         /\ \A k \in DOMAIN RemoveAt(s, n) : \E i \in DOMAIN s \ {n} : RemoveAt(s, n)[k] = s[i]
         /\ \A i \in DOMAIN s \ {n} : \E k \in DOMAIN RemoveAt(s, n) : RemoveAt(s, n)[k] = s[i]
         /\ Picks(RemoveAt(s, n), s)
<1>. DEFINE r == RemoveAt(s, n)
<1>1. n \in 1..Len(s) /\ Len(s) \in Nat
  OBVIOUS
<1>2. /\ r \in Seq(S) /\ Len(r) = Len(s) - 1
      /\ \A k \in 1..(Len(s) - 1) : r[k] = IF k < n THEN s[k] ELSE s[k + 1]
  BY RemovedIs
<1>. HIDE DEF r
<1>3. DOMAIN r = 1..(Len(s) - 1) /\ DOMAIN s = 1..Len(s)
  BY <1>2
<1>4. Picks(r, s)
  <2>. DEFINE f == [k \in DOMAIN r |-> IF k < n THEN k ELSE k + 1]
  <2>1. f \in [DOMAIN r -> DOMAIN s]
    BY <1>1, <1>3
  <2>2. \A i, j \in DOMAIN r : f[i] = f[j] => i = j
    BY <1>1, <1>3
  <2>3. \A i \in DOMAIN r : r[i] = s[f[i]]
    BY <1>1, <1>2, <1>3
  <2>. HIDE DEF f
  <2>. QED  BY <2>1, <2>2, <2>3 DEF Picks
<1>5. \A k \in DOMAIN r : \E i \in DOMAIN s \ {n} : r[k] = s[i]
  <2>. SUFFICES ASSUME NEW k \in DOMAIN r PROVE \E i \in DOMAIN s \ {n} : r[k] = s[i]
    OBVIOUS
  <2>. DEFINE i == IF k < n THEN k ELSE k + 1
  <2>1. i \in DOMAIN s \ {n} /\ r[k] = s[i]
    BY <1>1, <1>2, <1>3
  <2>. HIDE DEF i
  <2>. QED  BY <2>1
<1>6. \A i \in DOMAIN s \ {n} : \E k \in DOMAIN r : r[k] = s[i]
  <2>. SUFFICES ASSUME NEW i \in DOMAIN s \ {n} PROVE \E k \in DOMAIN r : r[k] = s[i]
    OBVIOUS
  <2>. DEFINE k == IF i < n THEN i ELSE i - 1
  <2>1. k \in DOMAIN r /\ r[k] = s[i]
    BY <1>1, <1>2, <1>3
  <2>. HIDE DEF k
  <2>. QED  BY <2>1
<1>. QED  BY <1>2, <1>4, <1>5, <1>6 DEF r

LEMMA ReorderPicks ==
  ASSUME NEW S, NEW s \in Seq(S), NEW ids \in Seq(Ids), Permutation(ids, s)
  PROVE  /\ Reordered(s, ids) \in Seq(S)
         /\ Picks(Reordered(s, ids), s)
         /\ \A i \in DOMAIN s : \E k \in DOMAIN Reordered(s, ids) : Reordered(s, ids)[k].id = s[i].id
<1>. DEFINE r == Reordered(s, ids)
            f == [k \in DOMAIN ids |-> IndexOf(s, ids[k])]
<1>1. \A k \in DOMAIN ids : \E i \in DOMAIN s : s[i].id = ids[k]
  <2>1. \A k \in DOMAIN ids : ids[k] \in ToSet(IdsOf(s))
    BY DEF Permutation, ToSet
  <2>. QED  BY <2>1 DEF ToSet, IdsOf
<1>2. \A k \in DOMAIN ids : IndexOf(s, ids[k]) \in DOMAIN s /\ s[IndexOf(s, ids[k])].id = ids[k]
  BY <1>1, IndexOfType
<1>3. /\ DOMAIN r = DOMAIN ids /\ \A k \in DOMAIN r : r[k] = s[f[k]] /\ r[k].id = ids[k]
  BY <1>2 DEF Reordered
<1>4. r \in Seq(S)
  <2>1. \A k \in 1..Len(ids) : s[IndexOf(s, ids[k])] \in S
    BY <1>2
  <2>2. r = [k \in 1..Len(ids) |-> s[IndexOf(s, ids[k])]]
    BY DEF Reordered
  <2>. QED  BY <2>1, <2>2
<1>5. f \in [DOMAIN r -> DOMAIN s]
  BY <1>2, <1>3
<1>6. \A i, j \in DOMAIN r : f[i] = f[j] => i = j
  BY <1>2, <1>3 DEF Permutation, IsInjective
<1>7. \A i \in DOMAIN s : \E k \in DOMAIN ids : ids[k] = s[i].id
  <2>1. \A i \in DOMAIN s : s[i].id \in ToSet(ids)
    BY DEF Permutation, ToSet, IdsOf
  <2>. QED  BY <2>1 DEF ToSet
<1>. HIDE DEF f, r
<1>8. Picks(r, s)
  BY <1>3, <1>5, <1>6 DEF Picks
<1>. QED  BY <1>3, <1>4, <1>7, <1>8 DEF r

-----------------------------------------------------------------------------
(* Documents.                                                                *)
LEMMA RoomType ==
  ASSUME NEW d \in Seq(Room), NEW i \in DOMAIN d
  PROVE  /\ d[i] \in Room /\ d[i].id \in Ids /\ d[i].name \in Names /\ d[i].sockets \in Seq(Socket)
         /\ \A k \in DOMAIN d[i].sockets :
              /\ d[i].sockets[k] \in Socket
              /\ d[i].sockets[k].id \in Ids /\ d[i].sockets[k].name \in Names
<1>1. d[i] \in Room
  OBVIOUS
<1>2. d[i].id \in Ids /\ d[i].name \in Names /\ d[i].sockets \in Seq(Socket)
  BY <1>1 DEF Room
<1>3. \A k \in DOMAIN d[i].sockets : d[i].sockets[k] \in Socket
  BY <1>2
<1>. QED  BY <1>1, <1>2, <1>3 DEF Socket

LEMMA RefillType ==
  ASSUME NEW d \in Seq(Room), NEW i \in DOMAIN d, NEW ss \in Seq(Socket)
  PROVE  /\ Refill(d, i, ss) \in Seq(Room)
         /\ DOMAIN Refill(d, i, ss) = DOMAIN d
         /\ Refill(d, i, ss)[i].sockets = ss
         /\ Refill(d, i, ss)[i].id = d[i].id /\ Refill(d, i, ss)[i].name = d[i].name
         /\ \A j \in DOMAIN d \ {i} : Refill(d, i, ss)[j] = d[j]
<1>. DEFINE r == [d[i] EXCEPT !.sockets = ss]
<1>1. d[i] \in Room
  OBVIOUS
<1>2. r \in Room /\ r.sockets = ss /\ r.id = d[i].id /\ r.name = d[i].name
  BY <1>1 DEF Room
<1>3. Refill(d, i, ss) = [d EXCEPT ![i] = r]
  BY DEF Refill
<1>. HIDE DEF r
<1>4. [d EXCEPT ![i] = r] \in Seq(Room)
  BY <1>2
<1>. QED  BY <1>2, <1>3, <1>4

LEMMA RoomsPicked ==
  ASSUME NEW d \in Seq(Room), NEW t \in Seq(Room), check_document(d), Picks(t, d)
  PROVE  check_document(t)
<1>1. PICK f \in [DOMAIN t -> DOMAIN d] :
        /\ \A i, j \in DOMAIN t : f[i] = f[j] => i = j
        /\ \A i \in DOMAIN t : t[i] = d[f[i]]
  BY DEF Picks
<1>2. \A i \in DOMAIN t : f[i] \in DOMAIN d
  BY <1>1
<1>3. IsInjective(IdsOf(t))
  BY <1>1, <1>2 DEF IsInjective, IdsOf, check_document, UniqueIds
<1>4. ASSUME NEW i \in DOMAIN t, NEW j \in DOMAIN t
      PROVE  /\ \A k \in DOMAIN t[i].sockets : t[i].sockets[k].id # t[j].id
             /\ \A k \in DOMAIN t[i].sockets, l \in DOMAIN t[j].sockets :
                  t[i].sockets[k].id = t[j].sockets[l].id => i = j /\ k = l
  BY <1>1, <1>2 DEF check_document, UniqueIds
<1>5. \A i \in DOMAIN t : \A k \in DOMAIN t[i].sockets :
        check_socket_fields(t[i].sockets[k]) = NULL
  BY <1>1, <1>2 DEF check_document
<1>. QED  BY <1>3, <1>4, <1>5 DEF check_document, UniqueIds

LEMMA SocketsPicked ==
  ASSUME NEW d \in Seq(Room), check_document(d), NEW i \in DOMAIN d, NEW ss \in Seq(Socket),
         Picks(ss, d[i].sockets)
  PROVE  check_document(Refill(d, i, ss))
<1>. DEFINE t == Refill(d, i, ss)
<1>1. PICK f \in [DOMAIN ss -> DOMAIN d[i].sockets] :
        /\ \A k, l \in DOMAIN ss : f[k] = f[l] => k = l
        /\ \A k \in DOMAIN ss : ss[k] = d[i].sockets[f[k]]
  BY DEF Picks
<1>2. \A k \in DOMAIN ss : f[k] \in DOMAIN d[i].sockets
  BY <1>1
<1>3. /\ DOMAIN t = DOMAIN d /\ t[i].sockets = ss /\ t[i].id = d[i].id
      /\ \A j \in DOMAIN d \ {i} : t[j] = d[j]
  BY RefillType
<1>. HIDE DEF t
<1>4. IsInjective(IdsOf(t))
  BY <1>3 DEF IsInjective, IdsOf, check_document, UniqueIds
<1>5. ASSUME NEW a \in DOMAIN t, NEW b \in DOMAIN t, NEW k \in DOMAIN t[a].sockets
      PROVE  t[a].sockets[k].id # t[b].id
  <2>1. t[b].id = d[b].id
    BY <1>3
  <2>2. \E l \in DOMAIN d[a].sockets : t[a].sockets[k] = d[a].sockets[l]
    BY <1>1, <1>2, <1>3
  <2>. QED  BY <1>3, <2>1, <2>2 DEF check_document, UniqueIds
<1>6. ASSUME NEW a \in DOMAIN t, NEW b \in DOMAIN t,
             NEW k \in DOMAIN t[a].sockets, NEW l \in DOMAIN t[b].sockets,
             t[a].sockets[k].id = t[b].sockets[l].id
      PROVE  a = b /\ k = l
  <2>1. CASE a = i /\ b = i
    BY <1>1, <1>2, <1>3, <1>6, <2>1 DEF check_document, UniqueIds
  <2>2. CASE a # i /\ b # i
    BY <1>3, <1>6, <2>2 DEF check_document, UniqueIds
  <2>3. CASE a = i /\ b # i
    BY <1>1, <1>2, <1>3, <1>6, <2>3 DEF check_document, UniqueIds
  <2>4. CASE a # i /\ b = i
    BY <1>1, <1>2, <1>3, <1>6, <2>4 DEF check_document, UniqueIds
  <2>. QED  BY <2>1, <2>2, <2>3, <2>4
<1>7. \A a \in DOMAIN t : \A k \in DOMAIN t[a].sockets :
        check_socket_fields(t[a].sockets[k]) = NULL
  BY <1>1, <1>2, <1>3 DEF check_document
<1>. QED  BY <1>4, <1>5, <1>6, <1>7 DEF check_document, UniqueIds, t

(* No entry of d has the id.                                                 *)
IsNew(d, id) ==
  \A j \in DOMAIN d : d[j].id # id /\ \A k \in DOMAIN d[j].sockets : d[j].sockets[k].id # id

LEMMA SocketAppended ==
  ASSUME NEW d \in Seq(Room), check_document(d), NEW i \in DOMAIN d, NEW sock \in Socket,
         IsNew(d, sock.id), check_socket_fields(sock) = NULL
  PROVE  check_document(Refill(d, i, Append(d[i].sockets, sock)))
<1>. DEFINE old == d[i].sockets
            ss == Append(old, sock)
            t == Refill(d, i, ss)
<1>1. old \in Seq(Socket)
  BY RoomType
<1>. HIDE DEF old
<1>2. /\ ss \in Seq(Socket) /\ DOMAIN ss = DOMAIN old \cup {Len(old) + 1}
      /\ ss[Len(old) + 1] = sock
      /\ \A k \in DOMAIN old : ss[k] = old[k]
  BY <1>1
<1>. HIDE DEF ss
<1>3. /\ DOMAIN t = DOMAIN d /\ t[i].sockets = ss /\ t[i].id = d[i].id
      /\ \A j \in DOMAIN d \ {i} : t[j] = d[j]
  BY <1>2, RefillType
<1>. HIDE DEF t
<1>4. IsInjective(IdsOf(t))
  BY <1>3 DEF IsInjective, IdsOf, check_document, UniqueIds
<1>5. \A a \in DOMAIN t : t[a].id = d[a].id
  BY <1>3
<1>6. ASSUME NEW a \in DOMAIN t, NEW k \in DOMAIN t[a].sockets
      PROVE  \/ a = i /\ k = Len(old) + 1 /\ t[a].sockets[k] = sock
             \/ k \in DOMAIN d[a].sockets /\ t[a].sockets[k] = d[a].sockets[k]
  BY <1>2, <1>3, <1>6 DEF old
<1>7. \A a, b \in DOMAIN t : \A k \in DOMAIN t[a].sockets : t[a].sockets[k].id # t[b].id
  BY <1>3, <1>5, <1>6 DEF check_document, UniqueIds, IsNew
<1>8. ASSUME NEW a \in DOMAIN t, NEW b \in DOMAIN t,
             NEW k \in DOMAIN t[a].sockets, NEW l \in DOMAIN t[b].sockets,
             t[a].sockets[k].id = t[b].sockets[l].id
      PROVE  a = b /\ k = l
  BY <1>3, <1>6, <1>8 DEF check_document, UniqueIds, IsNew
<1>9. \A a \in DOMAIN t : \A k \in DOMAIN t[a].sockets :
        check_socket_fields(t[a].sockets[k]) = NULL
  BY <1>3, <1>6 DEF check_document
<1>. QED  BY <1>4, <1>7, <1>8, <1>9 DEF check_document, UniqueIds, t, ss, old

LEMMA SocketReplaced ==
  ASSUME NEW d \in Seq(Room), check_document(d), NEW i \in DOMAIN d, NEW sock \in Socket,
         NEW n \in DOMAIN d[i].sockets, sock.id = d[i].sockets[n].id,
         check_socket_fields(sock) = NULL
  PROVE  check_document(Refill(d, i, [d[i].sockets EXCEPT ![n] = sock]))
<1>. DEFINE old == d[i].sockets
            ss == [old EXCEPT ![n] = sock]
            t == Refill(d, i, ss)
<1>1. old \in Seq(Socket) /\ n \in DOMAIN old
  BY RoomType
<1>. HIDE DEF old
<1>2. /\ ss \in Seq(Socket) /\ DOMAIN ss = DOMAIN old
      /\ \A k \in DOMAIN old : ss[k] = IF k = n THEN sock ELSE old[k]
  BY <1>1
<1>. HIDE DEF ss
<1>3. /\ DOMAIN t = DOMAIN d /\ t[i].sockets = ss /\ t[i].id = d[i].id
      /\ \A j \in DOMAIN d \ {i} : t[j] = d[j]
  BY <1>2, RefillType
<1>. HIDE DEF t
<1>4. /\ \A a \in DOMAIN t : t[a].id = d[a].id /\ DOMAIN t[a].sockets = DOMAIN d[a].sockets
      /\ \A a \in DOMAIN t : \A k \in DOMAIN t[a].sockets :
           /\ t[a].sockets[k].id = d[a].sockets[k].id
           /\ t[a].sockets[k] \in {sock, d[a].sockets[k]}
  BY <1>2, <1>3 DEF old
<1>5. IsInjective(IdsOf(t))
  BY <1>3, <1>4 DEF IsInjective, IdsOf, check_document, UniqueIds
<1>6. UniqueIds(t)
  BY <1>3, <1>4, <1>5 DEF check_document, UniqueIds
<1>7. \A a \in DOMAIN t : \A k \in DOMAIN t[a].sockets :
        check_socket_fields(t[a].sockets[k]) = NULL
  BY <1>3, <1>4 DEF check_document
<1>. QED  BY <1>6, <1>7 DEF check_document, t, ss, old

LEMMA RoomAppended ==
  ASSUME NEW d \in Seq(Room), check_document(d), NEW r \in Room, r.sockets = <<>>, IsNew(d, r.id)
  PROVE  Append(d, r) \in Seq(Room) /\ check_document(Append(d, r))
<1>. DEFINE t == Append(d, r)
<1>1. /\ t \in Seq(Room) /\ DOMAIN t = DOMAIN d \cup {Len(d) + 1} /\ t[Len(d) + 1] = r
      /\ \A j \in DOMAIN d : t[j] = d[j]
  OBVIOUS
<1>2. DOMAIN r.sockets = {}
  OBVIOUS
<1>. HIDE DEF t
<1>3. IsInjective(IdsOf(t))
  BY <1>1 DEF IsInjective, IdsOf, check_document, UniqueIds, IsNew
<1>4. UniqueIds(t)
  BY <1>1, <1>2, <1>3 DEF check_document, UniqueIds, IsNew
<1>5. \A a \in DOMAIN t : \A k \in DOMAIN t[a].sockets :
        check_socket_fields(t[a].sockets[k]) = NULL
  BY <1>1, <1>2 DEF check_document
<1>. QED  BY <1>1, <1>4, <1>5 DEF check_document, t

LEMMA RoomRenamed ==
  ASSUME NEW d \in Seq(Room), check_document(d), NEW i \in DOMAIN d, NEW name \in Names
  PROVE  /\ Renamed(d, i, name) \in Seq(Room) /\ check_document(Renamed(d, i, name))
         /\ DOMAIN Renamed(d, i, name) = DOMAIN d
         /\ Renamed(d, i, name)[i].id = d[i].id /\ Renamed(d, i, name)[i].name = name
         /\ Renamed(d, i, name)[i].sockets = d[i].sockets
         /\ \A j \in DOMAIN d \ {i} : Renamed(d, i, name)[j] = d[j]
<1>. DEFINE r == [d[i] EXCEPT !.name = name]
            t == Renamed(d, i, name)
<1>1. r \in Room /\ r.id = d[i].id /\ r.name = name /\ r.sockets = d[i].sockets
  <2>1. d[i] \in Room
    OBVIOUS
  <2>. QED  BY <2>1 DEF Room
<1>2. t = [d EXCEPT ![i] = r]
  BY DEF Renamed
<1>. HIDE DEF r
<1>3. /\ t \in Seq(Room) /\ DOMAIN t = DOMAIN d /\ t[i] = r
      /\ \A j \in DOMAIN d \ {i} : t[j] = d[j]
  BY <1>1, <1>2
<1>. HIDE DEF t
<1>4. \A j \in DOMAIN t : t[j].id = d[j].id /\ t[j].sockets = d[j].sockets
  BY <1>1, <1>3
<1>5. IsInjective(IdsOf(t))
  BY <1>3, <1>4 DEF IsInjective, IdsOf, check_document, UniqueIds
<1>6. check_document(t)
  BY <1>3, <1>4, <1>5 DEF check_document, UniqueIds
<1>. QED  BY <1>1, <1>3, <1>6 DEF t

LEMMA NewIdIsNew ==
  ASSUME NEW d, NEW ids, NEW id \in new_id(ids, d)
  PROVE  id \in ids /\ IsNew(d, id)
<1>1. id \in ids /\ id \notin RoomsOf(d) /\ id \notin SocketsOf(d)
  BY DEF new_id
<1>2. \A j \in DOMAIN d : d[j].id # id
  BY <1>1 DEF RoomsOf, ToSet, IdsOf
<1>3. \A j \in DOMAIN d : id \notin ToSet(IdsOf(d[j].sockets))
  BY <1>1 DEF SocketsOf
<1>4. \A j \in DOMAIN d : \A k \in DOMAIN d[j].sockets : d[j].sockets[k].id # id
  BY <1>3 DEF ToSet, IdsOf
<1>. QED  BY <1>1, <1>2, <1>4 DEF IsNew

(* The room of a socket, and its place there.                                *)
LEMMA FindSocket ==
  ASSUME NEW d \in Seq(Room), NEW sid
  PROVE  /\ find_socket(d, sid) = 0 <=>
              \A j \in DOMAIN d : \A k \in DOMAIN d[j].sockets : d[j].sockets[k].id # sid
         /\ find_socket(d, sid) # 0 =>
              LET i == find_socket(d, sid)
                  n == IndexOf(d[i].sockets, sid)
              IN  /\ i \in DOMAIN d /\ n \in DOMAIN d[i].sockets
                  /\ d[i].sockets[n].id = sid /\ SocketOf(d, sid) = d[i].sockets[n]
                  /\ SocketOf(d, sid) \in Socket
<1>. DEFINE at == {i \in DOMAIN d : IndexOf(d[i].sockets, sid) # 0}
<1>1. 0 \notin DOMAIN d
  OBVIOUS
<1>2. \A j \in DOMAIN d :
        /\ IndexOf(d[j].sockets, sid) = 0 <=> \A k \in DOMAIN d[j].sockets : d[j].sockets[k].id # sid
        /\ IndexOf(d[j].sockets, sid) # 0 =>
             /\ IndexOf(d[j].sockets, sid) \in DOMAIN d[j].sockets
             /\ d[j].sockets[IndexOf(d[j].sockets, sid)].id = sid
  BY RoomType, IndexOfType
<1>3. CASE at = {}
  <2>1. find_socket(d, sid) = 0
    BY <1>3 DEF find_socket
  <2>. QED  BY <1>2, <1>3, <2>1
<1>4. CASE at # {}
  <2>1. find_socket(d, sid) \in at
    BY <1>4 DEF find_socket
  <2>2. find_socket(d, sid) # 0
    BY <1>1, <2>1
  <2>. QED  BY <1>2, <2>1, <2>2, RoomType DEF SocketOf
<1>. QED  BY <1>3, <1>4

-----------------------------------------------------------------------------
(* What the routes make of the document.                                     *)
Good(d) == d \in Seq(Room) /\ check_document(d)

(* An answer of Store.mutate() that wanted to store new, or an error.        *)
IsError(a)           == \E status, field : a = ApiError(status, field)
Stores(a, new, warn) == \E status : a = Mutated(status, new, warn)

LEMMA ErrorDoc == ASSUME NEW a, IsError(a) PROVE a.doc = doc
BY DEF IsError, ApiError, Answer

LEMMA StoresDoc ==
  ASSUME NEW a, NEW new, NEW warn, Stores(a, new, warn)
  PROVE  a.doc = doc \/ (a.doc = new /\ a.warn = warn)
<1>1. PICK status : a = Mutated(status, new, warn)
  BY DEF Stores
<1>2. Answer(status, NULL, new, warn).doc = new /\ Answer(status, NULL, new, warn).warn = warn
  BY DEF Answer
<1>3. ApiError(500, NULL).doc = doc
  BY DEF ApiError, Answer
<1>. DEFINE names == {new[i].name : i \in DOMAIN new}
                       \cup {SocketOf(new, s).name : s \in SocketsOf(new)}
<1>4. CASE new # doc /\ names \cap Unencodable # {}
  BY <1>1, <1>3, <1>4 DEF Mutated
<1>5. CASE ~(new # doc /\ names \cap Unencodable # {})
  BY <1>1, <1>2, <1>5 DEF Mutated
<1>. QED  BY <1>4, <1>5

LEMMA CleanType == \A v : clean_name(v) # NULL => clean_name(v) \in Names
BY HouseholdAssumption DEF clean_name

(* What a route answers, check by check.                                     *)
CreateRoomCases(a, body, id) ==
  LET unknown == UnknownField(body, {"name"})
      name == clean_name(Get(body, "name"))
      new == Append(doc, [id |-> id, name |-> name, sockets |-> <<>>])
  IN  \/ unknown /\ a = ApiError(422, "unknown")
      \/ ~unknown /\ name = NULL /\ a = ApiError(422, "name")
      \/ ~unknown /\ name # NULL /\ RoomNameTaken(name, NULL) /\ a = ApiError(409, "name")
      \/ ~unknown /\ name # NULL /\ ~RoomNameTaken(name, NULL) /\ a = Mutated(201, new, {})

LEMMA CreateRoomSteps ==
  ASSUME NEW body, NEW id
  PROVE  CreateRoomCases(create_room(body, id), body, id)
<1>. DEFINE a == create_room(body, id)
            unknown == UnknownField(body, {"name"})
            name == clean_name(Get(body, "name"))
            new == Append(doc, [id |-> id, name |-> name, sockets |-> <<>>])
<1>1. CASE unknown
  <2>1. a = ApiError(422, "unknown")
    BY <1>1, Zenon DEF create_room
  <2>. QED  BY <1>1, <2>1, Zenon DEF CreateRoomCases
<1>2. CASE ~unknown /\ name = NULL
  <2>1. a = ApiError(422, "name")
    BY <1>2, Zenon DEF create_room
  <2>. QED  BY <1>2, <2>1, Zenon DEF CreateRoomCases
<1>3. CASE ~unknown /\ name # NULL /\ RoomNameTaken(name, NULL)
  <2>1. a = ApiError(409, "name")
    BY <1>3, Zenon DEF create_room
  <2>. QED  BY <1>3, <2>1, Zenon DEF CreateRoomCases
<1>4. CASE ~unknown /\ name # NULL /\ ~RoomNameTaken(name, NULL)
  <2>1. a = Mutated(201, new, {})
    BY <1>4, Zenon DEF create_room
  <2>. QED  BY <1>4, <2>1, Zenon DEF CreateRoomCases
<1>. HIDE DEF unknown, name, new
<1>. QED  BY <1>1, <1>2, <1>3, <1>4

EditRoomCases(a, rid, body) ==
  LET unknown == UnknownField(body, {"name"})
      i == find_room(doc, rid)
      name == clean_name(Get(body, "name"))
  IN  \/ i = 0 /\ a = ApiError(404, NULL)
      \/ i # 0 /\ unknown /\ a = ApiError(422, "unknown")
      \/ i # 0 /\ ~unknown /\ DOMAIN body = {} /\ a = Mutated(200, doc, {})
      \/ i # 0 /\ ~unknown /\ DOMAIN body # {} /\ name = NULL /\ a = ApiError(422, "name")
      \/ i # 0 /\ ~unknown /\ DOMAIN body # {} /\ name # NULL /\ RoomNameTaken(name, rid)
         /\ a = ApiError(409, "name")
      \/ i # 0 /\ ~unknown /\ DOMAIN body # {} /\ name # NULL /\ ~RoomNameTaken(name, rid)
         /\ a = Mutated(200, Renamed(doc, i, name), {})

LEMMA EditRoomSteps ==
  ASSUME NEW rid, NEW body
  PROVE  EditRoomCases(edit_room(rid, body), rid, body)
<1>. DEFINE a == edit_room(rid, body)
            unknown == UnknownField(body, {"name"})
            i == find_room(doc, rid)
            name == clean_name(Get(body, "name"))
<1>1. CASE i = 0
  <2>1. a = ApiError(404, NULL)
    BY <1>1, Zenon DEF edit_room
  <2>. QED  BY <1>1, <2>1, Zenon DEF EditRoomCases
<1>2. CASE i # 0 /\ unknown
  <2>1. a = ApiError(422, "unknown")
    BY <1>2, Zenon DEF edit_room
  <2>. QED  BY <1>2, <2>1, Zenon DEF EditRoomCases
<1>3. CASE i # 0 /\ ~unknown /\ DOMAIN body = {}
  <2>1. a = Mutated(200, doc, {})
    BY <1>3, Zenon DEF edit_room
  <2>. QED  BY <1>3, <2>1, Zenon DEF EditRoomCases
<1>4. CASE i # 0 /\ ~unknown /\ DOMAIN body # {} /\ name = NULL
  <2>1. a = ApiError(422, "name")
    BY <1>4, Zenon DEF edit_room
  <2>. QED  BY <1>4, <2>1, Zenon DEF EditRoomCases
<1>5. CASE i # 0 /\ ~unknown /\ DOMAIN body # {} /\ name # NULL /\ RoomNameTaken(name, rid)
  <2>1. a = ApiError(409, "name")
    BY <1>5, Zenon DEF edit_room
  <2>. QED  BY <1>5, <2>1, Zenon DEF EditRoomCases
<1>6. CASE i # 0 /\ ~unknown /\ DOMAIN body # {} /\ name # NULL /\ ~RoomNameTaken(name, rid)
  <2>1. a = Mutated(200, Renamed(doc, i, name), {})
    BY <1>6, Zenon DEF edit_room
  <2>. QED  BY <1>6, <2>1, Zenon DEF EditRoomCases
<1>. HIDE DEF unknown, i, name
<1>. QED  BY <1>1, <1>2, <1>3, <1>4, <1>5, <1>6

CreateSocketCases(a, rid, body, id) ==
  LET unknown == UnknownField(body, FIELDS)
      r == find_room(doc, rid)
      sock == [id |-> id, name |-> clean_name(Get(body, "name")),
                    type |-> Get(body, "type"), group |-> Get(body, "group")]
      problem == check_socket_fields(sock)
      taken == SocketNameTaken(r, sock.name, NULL)
      made == Refill(doc, r, Append(doc[r].sockets, sock))
  IN  \/ r = 0 /\ a = ApiError(404, NULL)
      \/ r # 0 /\ unknown /\ a = ApiError(422, "unknown")
      \/ r # 0 /\ ~unknown /\ sock.name = NULL /\ a = ApiError(422, "name")
      \/ r # 0 /\ ~unknown /\ sock.name # NULL /\ problem # NULL /\ a = ApiError(422, problem)
      \/ r # 0 /\ ~unknown /\ sock.name # NULL /\ problem = NULL /\ taken
         /\ a = ApiError(409, "name")
      \/ r # 0 /\ ~unknown /\ sock.name # NULL /\ problem = NULL /\ ~taken
         /\ a = Mutated(201, made, duplicate_warnings(made, id))

LEMMA CreateSocketSteps ==
  ASSUME NEW rid, NEW body, NEW id
  PROVE  CreateSocketCases(create_socket(rid, body, id), rid, body, id)
<1>. DEFINE a == create_socket(rid, body, id)
            unknown == UnknownField(body, FIELDS)
            r == find_room(doc, rid)
            sock == [id |-> id, name |-> clean_name(Get(body, "name")),
                      type |-> Get(body, "type"), group |-> Get(body, "group")]
            problem == check_socket_fields(sock)
            taken == SocketNameTaken(r, sock.name, NULL)
            made == Refill(doc, r, Append(doc[r].sockets, sock))
<1>1. CASE r = 0
  <2>1. a = ApiError(404, NULL)
    BY <1>1, Zenon DEF create_socket
  <2>. QED  BY <1>1, <2>1, Zenon DEF CreateSocketCases
<1>2. CASE r # 0 /\ unknown
  <2>1. a = ApiError(422, "unknown")
    BY <1>2, Zenon DEF create_socket
  <2>. QED  BY <1>2, <2>1, Zenon DEF CreateSocketCases
<1>3. CASE r # 0 /\ ~unknown /\ sock.name = NULL
  <2>1. a = ApiError(422, "name")
    BY <1>3, Zenon DEF create_socket
  <2>. QED  BY <1>3, <2>1, Zenon DEF CreateSocketCases
<1>4. CASE r # 0 /\ ~unknown /\ sock.name # NULL /\ problem # NULL
  <2>1. a = ApiError(422, problem)
    BY <1>4, Zenon DEF create_socket
  <2>. QED  BY <1>4, <2>1, Zenon DEF CreateSocketCases
<1>5. CASE r # 0 /\ ~unknown /\ sock.name # NULL /\ problem = NULL /\ taken
  <2>1. a = ApiError(409, "name")
    BY <1>5, Zenon DEF create_socket
  <2>. QED  BY <1>5, <2>1, Zenon DEF CreateSocketCases
<1>6. CASE r # 0 /\ ~unknown /\ sock.name # NULL /\ problem = NULL /\ ~taken
  <2>1. a = Mutated(201, made, duplicate_warnings(made, id))
    BY <1>6, Zenon DEF create_socket
  <2>. QED  BY <1>6, <2>1, Zenon DEF CreateSocketCases
<1>. HIDE DEF unknown, r, sock, problem, taken, made
<1>. QED  BY <1>1, <1>2, <1>3, <1>4, <1>5, <1>6

EditSocketCases(a, sid, body) ==
  LET unknown == UnknownField(body, FIELDS \cup {"room_id"})
      i == find_socket(doc, sid)
      merged == Merged(SocketOf(doc, sid), body)
      t == target_room(i, body)
      problem == check_socket_fields(merged)
      moved == Moved(i, t, merged)
      taken == ("name" \in DOMAIN body \/ t # i) /\ SocketNameTaken(t, merged.name, sid)
  IN  \/ i = 0 /\ a = ApiError(404, NULL)
      \/ i # 0 /\ unknown /\ a = ApiError(422, "unknown")
      \/ i # 0 /\ ~unknown /\ merged.name = NULL /\ a = ApiError(422, "name")
      \/ i # 0 /\ ~unknown /\ merged.name # NULL /\ problem # NULL /\ a = ApiError(422, problem)
      \/ i # 0 /\ ~unknown /\ merged.name # NULL /\ problem = NULL /\ t = 0
         /\ a = ApiError(422, "room_id")
      \/ i # 0 /\ ~unknown /\ merged.name # NULL /\ problem = NULL /\ t # 0 /\ taken
         /\ a = ApiError(409, "name")
      \/ i # 0 /\ ~unknown /\ merged.name # NULL /\ problem = NULL /\ t # 0 /\ ~taken
         /\ a = Mutated(200, moved, duplicate_warnings(moved, sid))

LEMMA EditSocketSteps ==
  ASSUME NEW sid, NEW body
  PROVE  EditSocketCases(edit_socket(sid, body), sid, body)
<1>. DEFINE a == edit_socket(sid, body)
            unknown == UnknownField(body, FIELDS \cup {"room_id"})
            i == find_socket(doc, sid)
            merged == Merged(SocketOf(doc, sid), body)
            t == target_room(i, body)
            problem == check_socket_fields(merged)
            moved == Moved(i, t, merged)
            taken == ("name" \in DOMAIN body \/ t # i) /\ SocketNameTaken(t, merged.name, sid)
<1>1. CASE i = 0
  <2>1. a = ApiError(404, NULL)
    BY <1>1, Zenon DEF edit_socket
  <2>. QED  BY <1>1, <2>1, Zenon DEF EditSocketCases
<1>2. CASE i # 0 /\ unknown
  <2>1. a = ApiError(422, "unknown")
    BY <1>2, Zenon DEF edit_socket
  <2>. QED  BY <1>2, <2>1, Zenon DEF EditSocketCases
<1>3. CASE i # 0 /\ ~unknown /\ merged.name = NULL
  <2>1. a = ApiError(422, "name")
    BY <1>3, Zenon DEF edit_socket
  <2>. QED  BY <1>3, <2>1, Zenon DEF EditSocketCases
<1>4. CASE i # 0 /\ ~unknown /\ merged.name # NULL /\ problem # NULL
  <2>1. a = ApiError(422, problem)
    BY <1>4, Zenon DEF edit_socket
  <2>. QED  BY <1>4, <2>1, Zenon DEF EditSocketCases
<1>5. CASE i # 0 /\ ~unknown /\ merged.name # NULL /\ problem = NULL /\ t = 0
  <2>1. a = ApiError(422, "room_id")
    BY <1>5, Zenon DEF edit_socket
  <2>. QED  BY <1>5, <2>1, Zenon DEF EditSocketCases
<1>6. CASE i # 0 /\ ~unknown /\ merged.name # NULL /\ problem = NULL /\ t # 0 /\ taken
  <2>1. a = ApiError(409, "name")
    BY <1>6, Zenon DEF edit_socket
  <2>. QED  BY <1>6, <2>1, Zenon DEF EditSocketCases
<1>7. CASE i # 0 /\ ~unknown /\ merged.name # NULL /\ problem = NULL /\ t # 0 /\ ~taken
  <2>1. a = Mutated(200, moved, duplicate_warnings(moved, sid))
    BY <1>7, Zenon DEF edit_socket
  <2>. QED  BY <1>7, <2>1, Zenon DEF EditSocketCases
<1>. HIDE DEF unknown, i, merged, t, problem, moved, taken
<1>. QED  BY <1>1, <1>2, <1>3, <1>4, <1>5, <1>6, <1>7

(* What each route stores, and under which conditions.                       *)
LEMMA RoomOutcomes ==
  ASSUME NEW body, NEW rid, NEW id
  PROVE  LET i == find_room(doc, rid)
             name == clean_name(Get(body, "name"))
         IN  /\ \/ IsError(create_room(body, id))
                \/ /\ name # NULL /\ ~RoomNameTaken(name, NULL)
                   /\ Stores(create_room(body, id),
                             Append(doc, [id |-> id, name |-> name, sockets |-> <<>>]), {})
             /\ \/ IsError(edit_room(rid, body))
                \/ Stores(edit_room(rid, body), doc, {})
                \/ /\ i # 0 /\ name # NULL /\ ~RoomNameTaken(name, rid)
                   /\ Stores(edit_room(rid, body), Renamed(doc, i, name), {})
             /\ \/ IsError(delete_room(rid))
                \/ i # 0 /\ doc[i].sockets = <<>> /\ Stores(delete_room(rid), Without(doc, rid), {})
             /\ \/ IsError(order_rooms(body))
                \/ /\ Get(body, "ids") # NULL /\ Permutation(body["ids"], doc)
                   /\ Stores(order_rooms(body), Reordered(doc, body["ids"]), {})
<1>. DEFINE i == find_room(doc, rid)
            name == clean_name(Get(body, "name"))
            new == Append(doc, [id |-> id, name |-> name, sockets |-> <<>>])
<1>1. \/ IsError(create_room(body, id))
      \/ name # NULL /\ ~RoomNameTaken(name, NULL) /\ Stores(create_room(body, id), new, {})
  <2>1. CreateRoomCases(create_room(body, id), body, id)
    BY CreateRoomSteps
  <2>. QED  BY <2>1, ZenonT(30) DEF CreateRoomCases, IsError, Stores
<1>2. ASSUME NEW a, a = edit_room(rid, body)
      PROVE  \/ IsError(a)
             \/ Stores(a, doc, {})
             \/ i # 0 /\ name # NULL /\ ~RoomNameTaken(name, rid) /\ Stores(a, Renamed(doc, i, name), {})
  <2>1. EditRoomCases(a, rid, body)
    BY <1>2, EditRoomSteps
  <2>. QED  BY <2>1, ZenonT(30) DEF EditRoomCases, IsError, Stores
<1>3. \/ IsError(delete_room(rid))
      \/ i # 0 /\ doc[i].sockets = <<>> /\ Stores(delete_room(rid), Without(doc, rid), {})
  BY ZenonT(60) DEF delete_room, IsError, Stores
<1>4. \/ IsError(order_rooms(body))
      \/ /\ Get(body, "ids") # NULL /\ Permutation(body["ids"], doc)
         /\ Stores(order_rooms(body), Reordered(doc, body["ids"]), {})
  BY ZenonT(60) DEF order_rooms, NoIdList, IsError, Stores
<1>. QED  BY <1>1, <1>2, <1>3, <1>4, Zenon

LEMMA SocketOutcomes ==
  ASSUME NEW body, NEW rid, NEW sid, NEW id
  PROVE  LET r == find_room(doc, rid)
             i == find_socket(doc, sid)
             t == target_room(i, body)
             sock == [id |-> id, name |-> clean_name(Get(body, "name")),
                      type |-> Get(body, "type"), group |-> Get(body, "group")]
             merged == Merged(SocketOf(doc, sid), body)
             made == Refill(doc, r, Append(doc[r].sockets, sock))
             moved == Moved(i, t, merged)
         IN  /\ \/ IsError(create_socket(rid, body, id))
                \/ /\ r # 0 /\ sock.name # NULL /\ check_socket_fields(sock) = NULL
                   /\ ~SocketNameTaken(r, sock.name, NULL)
                   /\ Stores(create_socket(rid, body, id),
                             made, duplicate_warnings(made, id))
             /\ \/ IsError(edit_socket(sid, body))
                \/ /\ i # 0 /\ t # 0 /\ merged.name # NULL /\ check_socket_fields(merged) = NULL
                   /\ "name" \in DOMAIN body \/ t # i => ~SocketNameTaken(t, merged.name, sid)
                   /\ Stores(edit_socket(sid, body), moved, duplicate_warnings(moved, sid))
             /\ \/ IsError(delete_socket(sid))
                \/ /\ i # 0
                   /\ Stores(delete_socket(sid), Refill(doc, i, Without(doc[i].sockets, sid)), {})
             /\ \/ IsError(order_sockets(rid, body))
                \/ /\ r # 0 /\ Get(body, "ids") # NULL
                   /\ Permutation(body["ids"], doc[r].sockets)
                   /\ Stores(order_sockets(rid, body),
                             Refill(doc, r, Reordered(doc[r].sockets, body["ids"])), {})
<1>. DEFINE r == find_room(doc, rid)
            i == find_socket(doc, sid)
            t == target_room(i, body)
            sock == [id |-> id, name |-> clean_name(Get(body, "name")),
                     type |-> Get(body, "type"), group |-> Get(body, "group")]
            merged == Merged(SocketOf(doc, sid), body)
            made == Refill(doc, r, Append(doc[r].sockets, sock))
            moved == Moved(i, t, merged)
<1>1. ASSUME NEW a, a = create_socket(rid, body, id)
      PROVE  \/ IsError(a)
             \/ /\ r # 0 /\ sock.name # NULL /\ check_socket_fields(sock) = NULL
                /\ ~SocketNameTaken(r, sock.name, NULL)
                /\ Stores(a, made, duplicate_warnings(made, id))
  <2>1. CreateSocketCases(a, rid, body, id)
    BY <1>1, CreateSocketSteps
  <2>. QED  BY <2>1, ZenonT(30) DEF CreateSocketCases, IsError, Stores
<1>2. ASSUME NEW a, a = edit_socket(sid, body)
      PROVE  \/ IsError(a)
             \/ /\ i # 0 /\ t # 0 /\ merged.name # NULL /\ check_socket_fields(merged) = NULL
                /\ "name" \in DOMAIN body \/ t # i => ~SocketNameTaken(t, merged.name, sid)
                /\ Stores(a, moved, duplicate_warnings(moved, sid))
  <2>1. EditSocketCases(a, sid, body)
    BY <1>2, EditSocketSteps
  <2>. QED  BY <2>1, ZenonT(30) DEF EditSocketCases, IsError, Stores
<1>3. \/ IsError(delete_socket(sid))
      \/ i # 0 /\ Stores(delete_socket(sid), Refill(doc, i, Without(doc[i].sockets, sid)), {})
  BY ZenonT(60) DEF delete_socket, IsError, Stores
<1>4. ASSUME NEW a, a = order_sockets(rid, body)
      PROVE  \/ IsError(a)
             \/ /\ r # 0 /\ Get(body, "ids") # NULL /\ Permutation(body["ids"], doc[r].sockets)
                /\ Stores(a, Refill(doc, r, Reordered(doc[r].sockets, body["ids"])), {})
  BY <1>4, ZenonT(60) DEF order_sockets, NoIdList, IsError, Stores
<1>. QED  BY <1>1, <1>2, <1>3, <1>4, Zenon

-----------------------------------------------------------------------------
(* The body of a request, as far as its shape is known.                      *)
BodyOk(body) ==
  /\ "type" \in DOMAIN body => body["type"] \in {NULL} \cup STRING
  /\ "group" \in DOMAIN body => body["group"] \in {NULL, NotAnInt} \cup Int
  /\ "ids" \in DOMAIN body => body["ids"] \in {NULL} \cup Seq(Ids)

LEMMA CheckedType ==
  ASSUME NEW f, check_socket_fields(f) = NULL
  PROVE  f.type \in DOMAIN Limit /\ f.type \in STRING
<1>1. f.type \in DOMAIN Limit
  <2>1. "type" # NULL
    BY HouseholdAssumption DEF FIELDS
  <2>. SUFFICES ASSUME f.type \notin DOMAIN Limit PROVE FALSE
    OBVIOUS
  <2>2. check_socket_fields(f) = "type"
    BY Zenon DEF check_socket_fields
  <2>. QED  BY <2>1, <2>2
<1>. QED  BY <1>1, HouseholdAssumption

LEMMA NewSocketType ==
  ASSUME NEW body, BodyOk(body), NEW id \in Ids, NEW name \in Names,
         check_socket_fields([id |-> id, name |-> name,
                              type |-> Get(body, "type"), group |-> Get(body, "group")]) = NULL
  PROVE  [id |-> id, name |-> name,
          type |-> Get(body, "type"), group |-> Get(body, "group")] \in Socket
<1>. DEFINE type == Get(body, "type")
            group == Get(body, "group")
<1>1. type \in STRING
  BY CheckedType
<1>2. group \in {NULL, NotAnInt} \cup Int
  BY DEF Get, BodyOk
<1>. HIDE DEF type, group
<1>3. [id |-> id, name |-> name, type |-> type, group |-> group] \in Socket
  BY <1>1, <1>2 DEF Socket
<1>. QED  BY <1>3 DEF type, group

LEMMA MergedType ==
  ASSUME NEW body, BodyOk(body), NEW sock \in Socket,
         Merged(sock, body).name # NULL, check_socket_fields(Merged(sock, body)) = NULL
  PROVE  /\ Merged(sock, body) \in Socket /\ Merged(sock, body).id = sock.id
         /\ "name" \notin DOMAIN body => Merged(sock, body).name = sock.name
<1>. DEFINE name == IF "name" \in DOMAIN body THEN clean_name(body["name"]) ELSE sock.name
            type == IF "type" \in DOMAIN body THEN body["type"] ELSE sock.type
            group == IF "group" \in DOMAIN body THEN body["group"] ELSE sock.group
            m == Merged(sock, body)
<1>1. /\ sock = [id |-> sock.id, name |-> sock.name, type |-> sock.type, group |-> sock.group]
      /\ sock.id \in Ids /\ sock.name \in Names /\ sock.group \in {NULL, NotAnInt} \cup Int
  BY DEF Socket
<1>2. m = [sock EXCEPT !.name = name, !.type = type, !.group = group]
  BY DEF Merged
<1>3. group \in {NULL, NotAnInt} \cup Int
  BY <1>1 DEF BodyOk
<1>4. name # NULL => name \in Names
  BY <1>1, CleanType
<1>5. "name" \notin DOMAIN body => name = sock.name
  OBVIOUS
<1>6. m.type \in STRING
  BY CheckedType
<1>. HIDE DEF name, type, group, m
<1>7. m = [id |-> sock.id, name |-> name, type |-> type, group |-> group]
  BY <1>2 DEF Socket
<1>8. m.name # NULL
  BY DEF m
<1>. QED  BY <1>1, <1>3, <1>4, <1>5, <1>6, <1>7, <1>8 DEF Socket, m

(* The changes that requests make: the answer a has stored one.              *)
RoomMade(a) ==
  \E r \in Room : /\ r.sockets = <<>> /\ IsNew(doc, r.id) /\ ~NameTaken(doc, r.name, NULL)
                  /\ a.doc = Append(doc, r)

RoomNamed(a, rid) ==
  \E i \in DOMAIN doc, name \in Names :
    doc[i].id = rid /\ ~NameTaken(doc, name, doc[i].id) /\ a.doc = Renamed(doc, i, name)

RoomDropped(a, rid) ==
  \E i \in DOMAIN doc : doc[i].id = rid /\ doc[i].sockets = <<>> /\ a.doc = RemoveAt(doc, i)

RoomsSorted(a) ==
  \E ids \in Seq(Ids) : Permutation(ids, doc) /\ a.doc = Reordered(doc, ids)

SocketMade(a) ==
  \E r \in DOMAIN doc, sock \in Socket :
    /\ IsNew(doc, sock.id) /\ check_socket_fields(sock) = NULL
    /\ ~NameTaken(doc[r].sockets, sock.name, NULL)
    /\ a.doc = Refill(doc, r, Append(doc[r].sockets, sock))
    /\ a.warn = duplicate_warnings(a.doc, sock.id)

SocketEdited(a, sid) ==
  \E i \in DOMAIN doc, t \in DOMAIN doc, m \in Socket :
    LET n == IndexOf(doc[i].sockets, m.id)
    IN  /\ m.id = sid /\ n \in DOMAIN doc[i].sockets /\ doc[i].sockets[n].id = m.id
        /\ check_socket_fields(m) = NULL
        /\ (m.name = doc[i].sockets[n].name /\ t = i) \/ ~SocketNameTaken(t, m.name, m.id)
        /\ a.doc = Moved(i, t, m)
        /\ a.warn = duplicate_warnings(a.doc, sid)

SocketDropped(a, sid) ==
  \E i \in DOMAIN doc : \E n \in DOMAIN doc[i].sockets :
    doc[i].sockets[n].id = sid /\ a.doc = Refill(doc, i, RemoveAt(doc[i].sockets, n))

SocketsSorted(a, rid) ==
  \E i \in DOMAIN doc, ids \in Seq(Ids) :
    /\ doc[i].id = rid /\ Permutation(ids, doc[i].sockets)
    /\ a.doc = Refill(doc, i, Reordered(doc[i].sockets, ids))

LEMMA RoomChanges ==
  ASSUME IInv, NEW body, BodyOk(body), NEW rid, NEW id
  PROVE  /\ id \in new_id(RoomIds, doc) =>
              create_room(body, id).doc = doc \/ RoomMade(create_room(body, id))
         /\ edit_room(rid, body).doc = doc \/ RoomNamed(edit_room(rid, body), rid)
         /\ delete_room(rid).doc = doc \/ RoomDropped(delete_room(rid), rid)
         /\ order_rooms(body).doc = doc \/ RoomsSorted(order_rooms(body))
<1>. DEFINE i == find_room(doc, rid)
            name == clean_name(Get(body, "name"))
            r == [id |-> id, name |-> name, sockets |-> <<>>]
<1>0. doc \in Seq(Room)
  BY DEF IInv, Shape
<1>1. i # 0 => i \in DOMAIN doc /\ i = IndexOf(doc, rid) /\ doc[i].id = rid
  BY <1>0, IndexOfType DEF find_room
<1>2. name # NULL => name \in Names
  BY CleanType
<1>3. ASSUME id \in new_id(RoomIds, doc), name # NULL, ~RoomNameTaken(name, NULL),
             NEW a, a.doc = Append(doc, r)
      PROVE  RoomMade(a)
  <2>1. id \in Ids /\ IsNew(doc, id)
    BY <1>3, NewIdIsNew DEF Ids
  <2>. HIDE DEF name
  <2>2. r \in Room /\ r.sockets = <<>> /\ r.id = id /\ r.name = name
    BY <1>2, <1>3, <2>1 DEF Room
  <2>. HIDE DEF r
  <2>. QED  BY <1>3, <2>1, <2>2 DEF RoomMade, RoomNameTaken
<1>4. ASSUME i # 0, name # NULL, ~RoomNameTaken(name, rid), NEW a, a.doc = Renamed(doc, i, name)
      PROVE  RoomNamed(a, rid)
  <2>. HIDE DEF i, name
  <2>. QED  BY <1>1, <1>2, <1>4 DEF RoomNamed, RoomNameTaken
<1>5. ASSUME i # 0, doc[i].sockets = <<>>, NEW a, a.doc = Without(doc, rid)
      PROVE  RoomDropped(a, rid)
  <2>. HIDE DEF i
  <2>. QED  BY <1>1, <1>5 DEF RoomDropped, Without
<1>6. ASSUME Get(body, "ids") # NULL, Permutation(body["ids"], doc),
             NEW a, a.doc = Reordered(doc, body["ids"])
      PROVE  RoomsSorted(a)
  <2>1. body["ids"] \in Seq(Ids)
    BY <1>6 DEF Get, BodyOk
  <2>. QED  BY <1>6, <2>1, Zenon DEF RoomsSorted
<1>. HIDE DEF i, name, r
<1>7. ASSUME id \in new_id(RoomIds, doc)
      PROVE  create_room(body, id).doc = doc \/ RoomMade(create_room(body, id))
  BY <1>3, <1>7, RoomOutcomes, ErrorDoc, StoresDoc DEF name, r
<1>8. edit_room(rid, body).doc = doc \/ RoomNamed(edit_room(rid, body), rid)
  BY <1>4, RoomOutcomes, ErrorDoc, StoresDoc DEF name, i
<1>9. delete_room(rid).doc = doc \/ RoomDropped(delete_room(rid), rid)
  BY <1>5, RoomOutcomes, ErrorDoc, StoresDoc DEF i
<1>10. order_rooms(body).doc = doc \/ RoomsSorted(order_rooms(body))
  BY <1>6, RoomOutcomes, ErrorDoc, StoresDoc
<1>. QED  BY <1>7, <1>8, <1>9, <1>10

LEMMA SocketChanges ==
  ASSUME IInv, NEW body, BodyOk(body), NEW rid, NEW sid, NEW id
  PROVE  /\ id \in new_id(SocketIds, doc) =>
              create_socket(rid, body, id).doc = doc \/ SocketMade(create_socket(rid, body, id))
         /\ edit_socket(sid, body).doc = doc \/ SocketEdited(edit_socket(sid, body), sid)
         /\ delete_socket(sid).doc = doc \/ SocketDropped(delete_socket(sid), sid)
         /\ order_sockets(rid, body).doc = doc \/ SocketsSorted(order_sockets(rid, body), rid)
<1>. DEFINE r == find_room(doc, rid)
            i == find_socket(doc, sid)
            n == IndexOf(doc[i].sockets, sid)
            t == target_room(i, body)
            name == clean_name(Get(body, "name"))
            sock == [id |-> id, name |-> name,
                     type |-> Get(body, "type"), group |-> Get(body, "group")]
            old == SocketOf(doc, sid)
            merged == Merged(old, body)
            made == Refill(doc, r, Append(doc[r].sockets, sock))
            moved == Moved(i, t, merged)
<1>0. doc \in Seq(Room)
  BY DEF IInv, Shape
<1>1. r # 0 => r \in DOMAIN doc /\ doc[r].id = rid
  BY <1>0, IndexOfType DEF find_room
<1>2. i # 0 => /\ i \in DOMAIN doc /\ n \in DOMAIN doc[i].sockets
               /\ doc[i].sockets[n].id = sid /\ old = doc[i].sockets[n] /\ old \in Socket
  BY <1>0, FindSocket
<1>3. i # 0 /\ t # 0 => t \in DOMAIN doc
  BY <1>0, <1>2, IndexOfType DEF target_room, find_room
<1>4. ASSUME id \in new_id(SocketIds, doc), r # 0, sock.name # NULL,
             check_socket_fields(sock) = NULL, ~SocketNameTaken(r, sock.name, NULL),
             NEW a, a.doc = made, a.warn = duplicate_warnings(made, id)
      PROVE  SocketMade(a)
  <2>1. id \in Ids /\ IsNew(doc, id)
    BY <1>4, NewIdIsNew DEF Ids
  <2>2. name \in Names
    BY <1>4, CleanType
  <2>. HIDE DEF name
  <2>3. sock \in Socket /\ sock.id = id
    BY <1>4, <2>1, <2>2, NewSocketType
  <2>. HIDE DEF sock, r
  <2>. QED  BY <1>1, <1>4, <2>1, <2>3 DEF SocketMade, SocketNameTaken
<1>5. ASSUME i # 0, t # 0, merged.name # NULL, check_socket_fields(merged) = NULL,
             "name" \in DOMAIN body \/ t # i => ~SocketNameTaken(t, merged.name, sid),
             NEW a, a.doc = moved, a.warn = duplicate_warnings(moved, sid)
      PROVE  SocketEdited(a, sid)
  <2>. HIDE DEF i, n, t, old
  <2>1. /\ merged \in Socket /\ merged.id = old.id
        /\ "name" \notin DOMAIN body => merged.name = old.name
    BY <1>2, <1>5, MergedType
  <2>2. merged.id = sid
    BY <1>2, <1>5, <2>1
  <2>. HIDE DEF merged
  <2>3. n = IndexOf(doc[i].sockets, merged.id)
    BY <2>2 DEF n
  <2>4. \/ merged.name = doc[i].sockets[n].name /\ t = i
        \/ ~SocketNameTaken(t, merged.name, merged.id)
    BY <1>2, <1>5, <2>1, <2>2
  <2>. QED  BY <1>2, <1>3, <1>5, <2>1, <2>2, <2>3, <2>4 DEF SocketEdited
<1>6. ASSUME i # 0, NEW a, a.doc = Refill(doc, i, Without(doc[i].sockets, sid))
      PROVE  SocketDropped(a, sid)
  <2>1. a.doc = Refill(doc, i, RemoveAt(doc[i].sockets, n))
    BY <1>6 DEF Without
  <2>. HIDE DEF i, n
  <2>. QED  BY <1>2, <1>6, <2>1 DEF SocketDropped
<1>7. ASSUME r # 0, Get(body, "ids") # NULL, Permutation(body["ids"], doc[r].sockets),
             NEW a, a.doc = Refill(doc, r, Reordered(doc[r].sockets, body["ids"]))
      PROVE  SocketsSorted(a, rid)
  <2>1. body["ids"] \in Seq(Ids)
    BY <1>7 DEF Get, BodyOk
  <2>. HIDE DEF r
  <2>. QED  BY <1>1, <1>7, <2>1, Zenon DEF SocketsSorted
<1>. HIDE DEF i, t, r, n, sock, merged, old, made, moved
<1>8. ASSUME id \in new_id(SocketIds, doc)
      PROVE  create_socket(rid, body, id).doc = doc \/ SocketMade(create_socket(rid, body, id))
  <2>. DEFINE a == create_socket(rid, body, id)
  <2>1. \/ IsError(a)
        \/ /\ r # 0 /\ sock.name # NULL /\ check_socket_fields(sock) = NULL
           /\ ~SocketNameTaken(r, sock.name, NULL)
           /\ Stores(a, made, duplicate_warnings(made, id))
    BY SocketOutcomes, Zenon DEF name, r, sock, made
  <2>. HIDE DEF a
  <2>. QED  BY <1>4, <1>8, <2>1, ErrorDoc, StoresDoc DEF a
<1>9. edit_socket(sid, body).doc = doc \/ SocketEdited(edit_socket(sid, body), sid)
  <2>. DEFINE a == edit_socket(sid, body)
  <2>1. \/ IsError(a)
        \/ /\ i # 0 /\ t # 0 /\ merged.name # NULL /\ check_socket_fields(merged) = NULL
           /\ "name" \in DOMAIN body \/ t # i => ~SocketNameTaken(t, merged.name, sid)
           /\ Stores(a, moved, duplicate_warnings(moved, sid))
    BY SocketOutcomes, Zenon DEF i, t, merged, old, moved
  <2>. HIDE DEF a
  <2>. QED  BY <1>5, <2>1, ErrorDoc, StoresDoc DEF a
<1>10. delete_socket(sid).doc = doc \/ SocketDropped(delete_socket(sid), sid)
  BY <1>6, SocketOutcomes, ErrorDoc, StoresDoc DEF i
<1>11. order_sockets(rid, body).doc = doc \/ SocketsSorted(order_sockets(rid, body), rid)
  BY <1>7, SocketOutcomes, ErrorDoc, StoresDoc DEF r
<1>. QED  BY <1>8, <1>9, <1>10, <1>11

LEMMA UnchangedDoc ==
  ASSUME NEW body, NEW sid, NEW rid
  PROVE  switch(sid, body).doc = doc /\ room_all_off(rid, body).doc = doc
<1>1. \A status, field : Answer(status, field, doc, {}).doc = doc
  BY DEF Answer
<1>2. ASSUME NEW a, a = switch(sid, body)
      PROVE  \E status, field : a = Answer(status, field, doc, {})
  BY <1>2, Zenon DEF switch, ApiError
<1>3. ASSUME NEW a, a = room_all_off(rid, body)
      PROVE  \E status, field : a = Answer(status, field, doc, {})
  BY <1>3, Zenon DEF room_all_off, ApiError
<1>. QED  BY <1>1, <1>2, <1>3

(* A request answers with one of the routes or with an error.                *)
LEMMA RespondRoutes ==
  ASSUME NEW q \in Requests, NEW id \in IdsFor(q)
  PROVE  \/ /\ q.sent = "form" \/ (q.sent = "garbage" /\ q.route \notin NoBody)
            /\ IsError(Respond(q, id))
         \/ /\ q.route = "create_room" /\ id \in new_id(RoomIds, doc)
            /\ Respond(q, id) = create_room(q.body, id)
         \/ q.route = "edit_room" /\ Respond(q, id) = edit_room(q.id, q.body)
         \/ q.route = "delete_room" /\ Respond(q, id) = delete_room(q.id)
         \/ q.route = "order_rooms" /\ Respond(q, id) = order_rooms(q.body)
         \/ /\ q.route = "create_socket" /\ id \in new_id(SocketIds, doc)
            /\ Respond(q, id) = create_socket(q.id, q.body, id)
         \/ q.route = "edit_socket" /\ Respond(q, id) = edit_socket(q.id, q.body)
         \/ q.route = "delete_socket" /\ Respond(q, id) = delete_socket(q.id)
         \/ q.route = "order_sockets" /\ Respond(q, id) = order_sockets(q.id, q.body)
         \/ q.route = "switch" /\ Respond(q, id) = switch(q.id, q.body)
         \/ q.route = "room_all_off" /\ Respond(q, id) = room_all_off(q.id, q.body)
<1>1. q.route \in Routes
  BY HouseholdAssumption
<1>2. CASE q.sent = "form"
  BY <1>2 DEF Respond, IsError
<1>3. CASE q.sent = "garbage" /\ q.route \notin NoBody
  BY <1>3 DEF Respond, IsError
<1>. DEFINE Ok == ~(q.sent = "form") /\ ~(q.sent = "garbage" /\ q.route \notin NoBody)
<1>4. CASE Ok /\ q.route = "create_room"
  BY <1>4 DEF Respond, IdsFor
<1>5. CASE Ok /\ q.route = "edit_room"
  BY <1>5 DEF Respond
<1>6. CASE Ok /\ q.route = "delete_room"
  BY <1>6 DEF Respond
<1>7. CASE Ok /\ q.route = "order_rooms"
  BY <1>7 DEF Respond
<1>8. CASE Ok /\ q.route = "create_socket"
  BY <1>8 DEF Respond, IdsFor
<1>9. CASE Ok /\ q.route = "edit_socket"
  BY <1>9 DEF Respond
<1>10. CASE Ok /\ q.route = "delete_socket"
  BY <1>10 DEF Respond
<1>11. CASE Ok /\ q.route = "order_sockets"
  BY <1>11 DEF Respond
<1>12. CASE Ok /\ q.route = "switch"
  BY <1>12 DEF Respond
<1>13. CASE Ok /\ q.route = "room_all_off"
  BY <1>13 DEF Respond
<1>. QED  BY <1>1, <1>2, <1>3, <1>4, <1>5, <1>6, <1>7, <1>8, <1>9, <1>10, <1>11, <1>12, <1>13
             DEF Routes

(* Every request makes one of the changes, or none.                          *)
LEMMA RequestChanges ==
  ASSUME IInv, NEW q \in Requests, NEW id \in IdsFor(q), NEW a, a = Respond(q, id)
  PROVE  \/ a.doc = doc
         \/ RoomMade(a)
         \/ q.route = "edit_room" /\ RoomNamed(a, q.id)
         \/ q.route = "delete_room" /\ RoomDropped(a, q.id)
         \/ q.route = "order_rooms" /\ RoomsSorted(a)
         \/ SocketMade(a)
         \/ SocketEdited(a, q.id)
         \/ q.route = "delete_socket" /\ SocketDropped(a, q.id)
         \/ q.route = "order_sockets" /\ SocketsSorted(a, q.id)
<1>1. BodyOk(q.body)
  BY HouseholdAssumption DEF BodyOk
<1>2. IsError(a) => a.doc = doc
  BY ErrorDoc
<1>3. /\ id \in new_id(RoomIds, doc) =>
           create_room(q.body, id).doc = doc \/ RoomMade(create_room(q.body, id))
      /\ edit_room(q.id, q.body).doc = doc \/ RoomNamed(edit_room(q.id, q.body), q.id)
      /\ delete_room(q.id).doc = doc \/ RoomDropped(delete_room(q.id), q.id)
      /\ order_rooms(q.body).doc = doc \/ RoomsSorted(order_rooms(q.body))
  BY <1>1, RoomChanges, Zenon
<1>4. /\ id \in new_id(SocketIds, doc) =>
           create_socket(q.id, q.body, id).doc = doc \/ SocketMade(create_socket(q.id, q.body, id))
      /\ edit_socket(q.id, q.body).doc = doc \/ SocketEdited(edit_socket(q.id, q.body), q.id)
      /\ delete_socket(q.id).doc = doc \/ SocketDropped(delete_socket(q.id), q.id)
      /\ order_sockets(q.id, q.body).doc = doc \/ SocketsSorted(order_sockets(q.id, q.body), q.id)
  BY <1>1, SocketChanges, Zenon
<1>5. switch(q.id, q.body).doc = doc /\ room_all_off(q.id, q.body).doc = doc
  BY UnchangedDoc, Zenon
<1>6. CASE IsError(a)
  BY <1>2, <1>6
<1>7. CASE \/ q.route = "create_room" /\ id \in new_id(RoomIds, doc) /\ a = create_room(q.body, id)
           \/ q.route = "edit_room" /\ a = edit_room(q.id, q.body)
           \/ q.route = "delete_room" /\ a = delete_room(q.id)
           \/ q.route = "order_rooms" /\ a = order_rooms(q.body)
  BY <1>3, <1>7, Zenon
<1>8. CASE \/ /\ q.route = "create_socket" /\ id \in new_id(SocketIds, doc)
              /\ a = create_socket(q.id, q.body, id)
           \/ q.route = "edit_socket" /\ a = edit_socket(q.id, q.body)
           \/ q.route = "delete_socket" /\ a = delete_socket(q.id)
           \/ q.route = "order_sockets" /\ a = order_sockets(q.id, q.body)
  BY <1>4, <1>8, Zenon
<1>9. CASE a = switch(q.id, q.body) \/ a = room_all_off(q.id, q.body)
  BY <1>5, <1>9, Zenon
<1>. QED  BY <1>6, <1>7, <1>8, <1>9, RespondRoutes, ZenonT(60)

-----------------------------------------------------------------------------
(* What is stored can be loaded.                                             *)
LEMMA MovedGood ==
  ASSUME IInv, NEW i \in DOMAIN doc, NEW t \in DOMAIN doc, NEW n \in DOMAIN doc[i].sockets,
         NEW m \in Socket, n = IndexOf(doc[i].sockets, m.id), doc[i].sockets[n].id = m.id,
         check_socket_fields(m) = NULL
  PROVE  Good(Moved(i, t, m))
<1>0. doc \in Seq(Room) /\ check_document(doc)
  BY DEF IInv, Shape, DocumentStaysLoadable
<1>1. doc[i].sockets \in Seq(Socket) /\ doc[t].sockets \in Seq(Socket)
  BY <1>0, RoomType
<1>2. CASE t = i
  <2>. DEFINE ss == [doc[i].sockets EXCEPT ![n] = m]
  <2>1. Moved(i, t, m) = Refill(doc, i, ss)
    BY <1>2 DEF Moved
  <2>2. check_document(Refill(doc, i, ss))
    BY <1>0, SocketReplaced
  <2>3. ss \in Seq(Socket)
    BY <1>1
  <2>. HIDE DEF ss
  <2>. QED  BY <1>0, <2>1, <2>2, <2>3, RefillType DEF Good
<1>3. CASE t # i
  <2>. DEFINE ss == RemoveAt(doc[i].sockets, n)
              d == Refill(doc, i, ss)
  <2>1. ss \in Seq(Socket) /\ Picks(ss, doc[i].sockets)
        /\ \A k \in DOMAIN ss : \E j \in DOMAIN doc[i].sockets \ {n} : ss[k] = doc[i].sockets[j]
    BY <1>1, RemovePicks
  <2>2. Moved(i, t, m) = Refill(d, t, Append(doc[t].sockets, m))
    BY <1>3 DEF Moved, Without
  <2>. HIDE DEF ss
  <2>3. d \in Seq(Room) /\ check_document(d)
    BY <1>0, <2>1, RefillType, SocketsPicked
  <2>4. /\ DOMAIN d = DOMAIN doc /\ d[i].sockets = ss /\ d[i].id = doc[i].id
        /\ \A j \in DOMAIN doc \ {i} : d[j] = doc[j]
    BY <1>0, <2>1, RefillType
  <2>. HIDE DEF d
  <2>5. IsNew(d, m.id)
    <3>1. \A j \in DOMAIN d : d[j].id # m.id
      BY <1>0, <2>4 DEF check_document, UniqueIds
    <3>2. \A k \in DOMAIN d[i].sockets : d[i].sockets[k].id # m.id
      BY <1>0, <2>1, <2>4 DEF check_document, UniqueIds
    <3>3. \A j \in DOMAIN d \ {i} : \A k \in DOMAIN d[j].sockets : d[j].sockets[k].id # m.id
      BY <1>0, <2>4 DEF check_document, UniqueIds
    <3>. QED  BY <3>1, <3>2, <3>3 DEF IsNew
  <2>6. t \in DOMAIN d /\ d[t].sockets = doc[t].sockets
    BY <1>3, <2>4
  <2>7. check_document(Refill(d, t, Append(d[t].sockets, m)))
    BY <2>3, <2>5, <2>6, SocketAppended
  <2>8. Append(d[t].sockets, m) \in Seq(Socket)
    BY <1>1, <2>6
  <2>9. Refill(d, t, Append(d[t].sockets, m)) \in Seq(Room)
    BY <2>3, <2>6, <2>8, RefillType
  <2>. QED  BY <2>2, <2>6, <2>7, <2>9 DEF Good
<1>. QED  BY <1>2, <1>3

LEMMA ResponseGood ==
  ASSUME IInv, NEW q \in Requests, NEW id \in IdsFor(q)
  PROVE  Good(Respond(q, id).doc)
<1>. DEFINE a == Respond(q, id)
<1>0. Good(doc)
  BY DEF IInv, Shape, DocumentStaysLoadable, Good
<1>1. doc \in Seq(Room) /\ check_document(doc) /\ \A i \in DOMAIN doc : doc[i].sockets \in Seq(Socket)
  BY <1>0, RoomType DEF Good
<1>2. \/ a.doc = doc \/ RoomMade(a) \/ RoomNamed(a, q.id) \/ RoomDropped(a, q.id) \/ RoomsSorted(a)
      \/ SocketMade(a) \/ SocketEdited(a, q.id) \/ SocketDropped(a, q.id) \/ SocketsSorted(a, q.id)
  BY RequestChanges, Zenon
<1>3. SUFFICES Good(a.doc)
  OBVIOUS
<1>. HIDE DEF a
<1>4. CASE RoomMade(a)
  BY <1>1, <1>4, RoomAppended DEF RoomMade, Good
<1>5. CASE RoomNamed(a, q.id)
  BY <1>1, <1>5, RoomRenamed DEF RoomNamed, Good
<1>6. CASE RoomDropped(a, q.id)
  <2>1. PICK i \in DOMAIN doc : a.doc = RemoveAt(doc, i)
    BY <1>6 DEF RoomDropped
  <2>2. a.doc \in Seq(Room) /\ Picks(a.doc, doc)
    BY <1>1, <2>1, RemovePicks
  <2>. QED  BY <1>1, <2>2, RoomsPicked DEF Good
<1>7. CASE RoomsSorted(a)
  <2>1. a.doc \in Seq(Room) /\ Picks(a.doc, doc)
    BY <1>1, <1>7, ReorderPicks DEF RoomsSorted
  <2>. QED  BY <1>1, <2>1, RoomsPicked DEF Good
<1>8. CASE SocketMade(a)
  <2>1. PICK r \in DOMAIN doc, sock \in Socket :
          /\ IsNew(doc, sock.id) /\ check_socket_fields(sock) = NULL
          /\ a.doc = Refill(doc, r, Append(doc[r].sockets, sock))
    BY <1>8 DEF SocketMade
  <2>2. Append(doc[r].sockets, sock) \in Seq(Socket)
    BY <1>1
  <2>3. a.doc \in Seq(Room)
    <3>. DEFINE ss == Append(doc[r].sockets, sock)
    <3>1. ss \in Seq(Socket) /\ a.doc = Refill(doc, r, ss)
      BY <2>1, <2>2
    <3>. HIDE DEF ss
    <3>. QED  BY <1>1, <3>1, RefillType
  <2>4. check_document(a.doc)
    BY <1>1, <2>1, SocketAppended
  <2>. QED  BY <2>3, <2>4 DEF Good
<1>9. CASE SocketEdited(a, q.id)
  BY <1>9, MovedGood DEF SocketEdited
<1>10. CASE SocketDropped(a, q.id)
  <2>1. PICK i \in DOMAIN doc : \E n \in DOMAIN doc[i].sockets :
          a.doc = Refill(doc, i, RemoveAt(doc[i].sockets, n))
    BY <1>10 DEF SocketDropped
  <2>2. PICK n \in DOMAIN doc[i].sockets : a.doc = Refill(doc, i, RemoveAt(doc[i].sockets, n))
    BY <2>1
  <2>3. /\ RemoveAt(doc[i].sockets, n) \in Seq(Socket)
        /\ Picks(RemoveAt(doc[i].sockets, n), doc[i].sockets)
    BY <1>1, RemovePicks
  <2>. QED  BY <1>1, <2>2, <2>3, RefillType, SocketsPicked DEF Good
<1>11. CASE SocketsSorted(a, q.id)
  <2>1. PICK i \in DOMAIN doc, ids \in Seq(Ids) :
          Permutation(ids, doc[i].sockets) /\ a.doc = Refill(doc, i, Reordered(doc[i].sockets, ids))
    BY <1>11 DEF SocketsSorted
  <2>2. /\ Reordered(doc[i].sockets, ids) \in Seq(Socket)
        /\ Picks(Reordered(doc[i].sockets, ids), doc[i].sockets)
    BY <1>1, <2>1, ReorderPicks
  <2>. QED  BY <1>1, <2>1, <2>2, RefillType, SocketsPicked DEF Good
<1>. QED  BY <1>0, <1>2, <1>4, <1>5, <1>6, <1>7, <1>8, <1>9, <1>10, <1>11

LEMMA StepGood == IInv /\ Next => IInv'
<1>1. IInv /\ Next => Good(doc')
  BY ResponseGood DEF Next, Handle
<1>. QED  BY <1>1 DEF IInv, Shape, DocumentStaysLoadable, Good

LEMMA Inductive == Spec => []IInv
<1>1. Init => IInv
  BY HouseholdAssumption DEF Init, IInv, Shape, DocumentStaysLoadable
<1>2. IInv /\ UNCHANGED doc => IInv'
  BY DEF IInv, Shape, DocumentStaysLoadable
<1>. QED  BY <1>1, <1>2, StepGood, PTL DEF Spec

(* Whatever requests are made, in whatever order, and whatever they carry,   *)
(* the document that the routes of api/rooms.py and api/sockets.py store is  *)
(* one that check_document() accepts at the next start.                      *)
THEOREM AlwaysLoadable == Spec => []DocumentStaysLoadable
<1>1. IInv => DocumentStaysLoadable
  BY DEF IInv
<1>. QED  BY <1>1, Inductive, PTL

-----------------------------------------------------------------------------
(* Names.  Two entries of s with names that name_key() does not tell apart.  *)
Clash(s, i, j) == i # j /\ Key[s[i].name] = Key[s[j].name]

LEMMA CollidingIs ==
  ASSUME NEW S, NEW s \in Seq(S), NEW c
  PROVE  c \in Colliding(s) <=>
           \E i, j \in DOMAIN s : Clash(s, i, j) /\ c = {s[i].name, s[j].name}
<1>. DEFINE Pairs == {r \in (DOMAIN s) \X (DOMAIN s) : r[1] < r[2] /\ Key[s[r[1]].name] = Key[s[r[2]].name]}
<1>1. Colliding(s) = {{s[p[1]].name, s[p[2]].name} : p \in Pairs}
  BY DEF Colliding
<1>2. ASSUME c \in Colliding(s)
      PROVE  \E i, j \in DOMAIN s : Clash(s, i, j) /\ c = {s[i].name, s[j].name}
  <2>1. PICK p \in Pairs : c = {s[p[1]].name, s[p[2]].name}
    BY <1>1, <1>2
  <2>2. p[1] \in DOMAIN s /\ p[2] \in DOMAIN s /\ p[1] < p[2]
        /\ Key[s[p[1]].name] = Key[s[p[2]].name]
    BY <2>1
  <2>3. Clash(s, p[1], p[2])
    BY <2>2 DEF Clash
  <2>. QED  BY <2>1, <2>2, <2>3
<1>3. ASSUME NEW i \in DOMAIN s, NEW j \in DOMAIN s, Clash(s, i, j), i < j
      PROVE  {s[i].name, s[j].name} \in Colliding(s)
  <2>1. <<i, j>> \in Pairs
    BY <1>3 DEF Clash
  <2>. HIDE DEF Pairs
  <2>. QED  BY <1>1, <2>1
<1>4. ASSUME NEW i \in DOMAIN s, NEW j \in DOMAIN s, Clash(s, i, j)
      PROVE  {s[i].name, s[j].name} \in Colliding(s)
  <2>1. i < j \/ j < i
    BY <1>4 DEF Clash
  <2>2. Clash(s, j, i)
    BY <1>4 DEF Clash
  <2>3. {s[i].name, s[j].name} = {s[j].name, s[i].name}
    OBVIOUS
  <2>. QED  BY <1>3, <1>4, <2>1, <2>2, <2>3
<1>. QED  BY <1>2, <1>4

LEMMA PickedNames ==
  ASSUME NEW S, NEW s \in Seq(S), NEW t \in Seq(S), Picks(t, s)
  PROVE  Colliding(t) \subseteq Colliding(s)
<1>. SUFFICES ASSUME NEW c \in Colliding(t) PROVE c \in Colliding(s)
  OBVIOUS
<1>1. PICK f \in [DOMAIN t -> DOMAIN s] :
        /\ \A i, j \in DOMAIN t : f[i] = f[j] => i = j
        /\ \A i \in DOMAIN t : t[i] = s[f[i]]
  BY DEF Picks
<1>2. PICK i \in DOMAIN t, j \in DOMAIN t : Clash(t, i, j) /\ c = {t[i].name, t[j].name}
  BY CollidingIs
<1>3. f[i] \in DOMAIN s /\ f[j] \in DOMAIN s /\ Clash(s, f[i], f[j])
      /\ c = {s[f[i]].name, s[f[j]].name}
  BY <1>1, <1>2 DEF Clash
<1>. QED  BY <1>3, CollidingIs

LEMMA AppendedName ==
  ASSUME NEW S, NEW s \in Seq(S), NEW e \in S,
         \A k \in DOMAIN s : Key[s[k].name] # Key[e.name]
  PROVE  Colliding(Append(s, e)) \subseteq Colliding(s)
<1>. DEFINE t == Append(s, e)
<1>1. /\ t \in Seq(S) /\ DOMAIN t = DOMAIN s \cup {Len(s) + 1} /\ t[Len(s) + 1] = e
      /\ \A k \in DOMAIN s : t[k] = s[k]
  OBVIOUS
<1>. HIDE DEF t
<1>. SUFFICES ASSUME NEW c \in Colliding(t) PROVE c \in Colliding(s)
  BY DEF t
<1>2. PICK i \in DOMAIN t, j \in DOMAIN t : Clash(t, i, j) /\ c = {t[i].name, t[j].name}
  BY <1>1, CollidingIs
<1>3. i \in DOMAIN s /\ j \in DOMAIN s
  BY <1>1, <1>2 DEF Clash
<1>4. Clash(s, i, j) /\ c = {s[i].name, s[j].name}
  BY <1>1, <1>2, <1>3 DEF Clash
<1>. QED  BY <1>3, <1>4, CollidingIs

(* One entry is replaced; its name is the old one, or no other has it.       *)
LEMMA ReplacedName ==
  ASSUME NEW S, NEW s \in Seq(S), NEW t \in Seq(S), DOMAIN t = DOMAIN s, NEW n \in DOMAIN s,
         \A k \in DOMAIN s \ {n} : t[k].name = s[k].name,
         \/ t[n].name = s[n].name
         \/ \A k \in DOMAIN s \ {n} : Key[s[k].name] # Key[t[n].name]
  PROVE  Colliding(t) \subseteq Colliding(s)
<1>. SUFFICES ASSUME NEW c \in Colliding(t) PROVE c \in Colliding(s)
  OBVIOUS
<1>1. PICK i \in DOMAIN t, j \in DOMAIN t : Clash(t, i, j) /\ c = {t[i].name, t[j].name}
  BY CollidingIs
<1>2. Clash(s, i, j) /\ c = {s[i].name, s[j].name}
  BY <1>1 DEF Clash
<1>. QED  BY <1>2, CollidingIs

LEMMA NoNames == Colliding(<<>>) = {}
<1>1. <<>> \in Seq({}) /\ DOMAIN <<>> = {}
  OBVIOUS
<1>2. \A c : c \notin Colliding(<<>>)
  BY <1>1, CollidingIs
<1>. QED  BY <1>2

LEMMA RoomByRoom ==
  ASSUME NEW d, NEW t, Colliding(t) \subseteq Colliding(d),
         \A j \in DOMAIN t :
           \/ Colliding(t[j].sockets) = {}
           \/ \E i \in DOMAIN d : /\ t[j].id = d[i].id
                                 /\ Colliding(t[j].sockets) \subseteq Colliding(d[i].sockets)
  PROVE  Collisions(t) \subseteq Collisions(d)
<1>. SUFFICES ASSUME NEW c \in Collisions(t) PROVE c \in Collisions(d)
  OBVIOUS
<1>1. \/ \E e \in Colliding(t) : c = <<NULL, e>>
      \/ \E j \in DOMAIN t : \E e \in Colliding(t[j].sockets) : c = <<t[j].id, e>>
  BY DEF Collisions
<1>2. CASE \E e \in Colliding(t) : c = <<NULL, e>>
  BY <1>2 DEF Collisions
<1>3. CASE \E j \in DOMAIN t : \E e \in Colliding(t[j].sockets) : c = <<t[j].id, e>>
  BY <1>3 DEF Collisions
<1>. QED  BY <1>1, <1>2, <1>3

(* The changes to a document, one by one.                                    *)
LEMMA RefillNames ==
  ASSUME NEW d \in Seq(Room), NEW i \in DOMAIN d, NEW ss \in Seq(Socket),
         Colliding(ss) \subseteq Colliding(d[i].sockets)
  PROVE  Collisions(Refill(d, i, ss)) \subseteq Collisions(d)
<1>. DEFINE t == Refill(d, i, ss)
<1>1. /\ t \in Seq(Room) /\ DOMAIN t = DOMAIN d /\ t[i].sockets = ss /\ t[i].id = d[i].id
      /\ t[i].name = d[i].name
      /\ \A j \in DOMAIN d \ {i} : t[j] = d[j]
  BY RefillType
<1>. HIDE DEF t
<1>2. Colliding(t) \subseteq Colliding(d)
  BY <1>1, ReplacedName
<1>3. \A j \in DOMAIN t : /\ t[j].id = d[j].id
                         /\ Colliding(t[j].sockets) \subseteq Colliding(d[j].sockets)
  BY <1>1
<1>4. Collisions(t) \subseteq Collisions(d)
  BY <1>1, <1>2, <1>3, RoomByRoom
<1>. QED  BY <1>4 DEF t

LEMMA PickedRoomNames ==
  ASSUME NEW d \in Seq(Room), NEW t \in Seq(Room), Picks(t, d)
  PROVE  Collisions(t) \subseteq Collisions(d)
<1>1. \A j \in DOMAIN t : \E i \in DOMAIN d : t[j] = d[i]
  BY DEF Picks
<1>2. Colliding(t) \subseteq Colliding(d)
  BY PickedNames
<1>. QED  BY <1>1, <1>2, RoomByRoom

LEMMA AppendedRoomName ==
  ASSUME NEW d \in Seq(Room), NEW r \in Room, r.sockets = <<>>, ~NameTaken(d, r.name, NULL)
  PROVE  Collisions(Append(d, r)) \subseteq Collisions(d)
<1>. DEFINE t == Append(d, r)
<1>1. \A k \in DOMAIN d : d[k].id # NULL
  BY RoomType, HouseholdAssumption
<1>2. Colliding(t) \subseteq Colliding(d)
  BY <1>1, AppendedName DEF NameTaken
<1>3. /\ DOMAIN t = DOMAIN d \cup {Len(d) + 1} /\ t[Len(d) + 1] = r
      /\ \A k \in DOMAIN d : t[k] = d[k]
  OBVIOUS
<1>. HIDE DEF t
<1>4. Collisions(t) \subseteq Collisions(d)
  BY <1>2, <1>3, NoNames, RoomByRoom
<1>. QED  BY <1>4 DEF t

LEMMA RenamedRoomName ==
  ASSUME NEW d \in Seq(Room), check_document(d), NEW i \in DOMAIN d, NEW name \in Names,
         ~NameTaken(d, name, d[i].id)
  PROVE  Collisions(Renamed(d, i, name)) \subseteq Collisions(d)
<1>. DEFINE t == Renamed(d, i, name)
<1>1. /\ t \in Seq(Room) /\ DOMAIN t = DOMAIN d
      /\ t[i].id = d[i].id /\ t[i].name = name /\ t[i].sockets = d[i].sockets
      /\ \A j \in DOMAIN d \ {i} : t[j] = d[j]
  BY RoomRenamed
<1>. HIDE DEF t
<1>2. \A k \in DOMAIN d \ {i} : d[k].id # d[i].id
  BY DEF check_document, UniqueIds, IsInjective, IdsOf
<1>3. Colliding(t) \subseteq Colliding(d)
  BY <1>1, <1>2, ReplacedName DEF NameTaken
<1>4. \A j \in DOMAIN t : t[j].id = d[j].id /\ t[j].sockets = d[j].sockets
  BY <1>1
<1>5. Collisions(t) \subseteq Collisions(d)
  BY <1>1, <1>3, <1>4, RoomByRoom
<1>. QED  BY <1>5 DEF t

LEMMA AppendedSocketName ==
  ASSUME NEW d \in Seq(Room), NEW i \in DOMAIN d, NEW sock \in Socket, NEW own,
         ~NameTaken(d[i].sockets, sock.name, own),
         \A k \in DOMAIN d[i].sockets : d[i].sockets[k].id # own
  PROVE  Collisions(Refill(d, i, Append(d[i].sockets, sock))) \subseteq Collisions(d)
<1>. DEFINE old == d[i].sockets
<1>1. old \in Seq(Socket)
  BY RoomType
<1>2. \A k \in DOMAIN old : Key[old[k].name] # Key[sock.name]
  BY DEF NameTaken
<1>. HIDE DEF old
<1>3. Append(old, sock) \in Seq(Socket) /\ Colliding(Append(old, sock)) \subseteq Colliding(old)
  BY <1>1, <1>2, AppendedName
<1>. QED  BY <1>3, RefillNames DEF old

LEMMA MovedName ==
  ASSUME IInv, NEW i \in DOMAIN doc, NEW t \in DOMAIN doc, NEW n \in DOMAIN doc[i].sockets,
         NEW m \in Socket, n = IndexOf(doc[i].sockets, m.id), doc[i].sockets[n].id = m.id,
         (m.name = doc[i].sockets[n].name /\ t = i) \/ ~SocketNameTaken(t, m.name, m.id)
  PROVE  Collisions(Moved(i, t, m)) \subseteq Collisions(doc)
<1>. DEFINE old == doc[i].sockets
<1>0. doc \in Seq(Room) /\ check_document(doc)
  BY DEF IInv, Shape, DocumentStaysLoadable
<1>1. old \in Seq(Socket) /\ doc[t].sockets \in Seq(Socket)
  BY <1>0, RoomType
<1>2. CASE t = i
  <2>. DEFINE ss == [old EXCEPT ![n] = m]
  <2>1. Moved(i, t, m) = Refill(doc, i, ss)
    BY <1>2 DEF Moved
  <2>2. \A k \in DOMAIN old \ {n} : old[k].id # m.id
    BY <1>0 DEF check_document, UniqueIds
  <2>3. \/ m.name = old[n].name
        \/ \A k \in DOMAIN old \ {n} : Key[old[k].name] # Key[m.name]
    BY <1>2, <2>2 DEF SocketNameTaken, NameTaken
  <2>4. n \in DOMAIN old
    OBVIOUS
  <2>. HIDE DEF old
  <2>5. /\ ss \in Seq(Socket) /\ DOMAIN ss = DOMAIN old /\ ss[n] = m
        /\ \A k \in DOMAIN old \ {n} : ss[k] = old[k]
    BY <1>1, <2>4
  <2>. HIDE DEF ss
  <2>6. Colliding(ss) \subseteq Colliding(old)
    BY <1>1, <2>3, <2>4, <2>5, ReplacedName
  <2>. QED  BY <1>0, <2>1, <2>5, <2>6, RefillNames DEF old
<1>3. CASE t # i
  <2>. DEFINE ss == RemoveAt(old, n)
              d == Refill(doc, i, ss)
  <2>1. ss \in Seq(Socket) /\ Picks(ss, old)
    BY <1>1, RemovePicks
  <2>2. Moved(i, t, m) = Refill(d, t, Append(doc[t].sockets, m))
    BY <1>3 DEF Moved, Without
  <2>3. Colliding(ss) \subseteq Colliding(old)
    BY <1>1, <2>1, PickedNames
  <2>4. \A k \in DOMAIN doc[t].sockets : doc[t].sockets[k].id # m.id
    BY <1>0, <1>3 DEF check_document, UniqueIds
  <2>. HIDE DEF ss
  <2>5. d \in Seq(Room) /\ t \in DOMAIN d /\ d[t] = doc[t]
    BY <1>0, <1>3, <2>1, RefillType
  <2>6. Collisions(d) \subseteq Collisions(doc)
    BY <1>0, <2>1, <2>3, RefillNames
  <2>. HIDE DEF d
  <2>7. ~NameTaken(d[t].sockets, m.name, m.id)
    BY <1>3, <2>5 DEF SocketNameTaken
  <2>8. \A k \in DOMAIN d[t].sockets : d[t].sockets[k].id # m.id
    BY <2>4, <2>5
  <2>9. Collisions(Refill(d, t, Append(d[t].sockets, m))) \subseteq Collisions(d)
    BY <2>5, <2>7, <2>8, AppendedSocketName, Zenon
  <2>. QED  BY <2>2, <2>5, <2>6, <2>9
<1>. QED  BY <1>2, <1>3

(* Of two names that name_key() does not tell apart, no request makes the    *)
(* second one: check_room_name() and check_socket_name() look at the room    *)
(* where the entry ends up, and at every entry but its own.                  *)
THEOREM NamesStayApart == Spec => NoNewCollision
<1>1. ASSUME IInv, NEW q \in Requests, NEW id \in IdsFor(q), NEW a, a = Respond(q, id)
      PROVE  Collisions(a.doc) \subseteq Collisions(doc)
  <2>1. doc \in Seq(Room) /\ check_document(doc) /\ \A i \in DOMAIN doc : doc[i].sockets \in Seq(Socket)
    BY <1>1, RoomType DEF IInv, Shape, DocumentStaysLoadable
  <2>2. \/ a.doc = doc \/ RoomMade(a) \/ RoomNamed(a, q.id) \/ RoomDropped(a, q.id) \/ RoomsSorted(a)
        \/ SocketMade(a) \/ SocketEdited(a, q.id) \/ SocketDropped(a, q.id) \/ SocketsSorted(a, q.id)
    BY <1>1, RequestChanges, Zenon
  <2>3. CASE RoomMade(a)
    BY <2>1, <2>3, AppendedRoomName DEF RoomMade
  <2>4. CASE RoomNamed(a, q.id)
    BY <2>1, <2>4, RenamedRoomName DEF RoomNamed
  <2>5. CASE RoomDropped(a, q.id)
    <3>1. PICK i \in DOMAIN doc : a.doc = RemoveAt(doc, i)
      BY <2>5 DEF RoomDropped
    <3>2. a.doc \in Seq(Room) /\ Picks(a.doc, doc)
      BY <2>1, <3>1, RemovePicks
    <3>. QED  BY <2>1, <3>2, PickedRoomNames
  <2>6. CASE RoomsSorted(a)
    <3>1. a.doc \in Seq(Room) /\ Picks(a.doc, doc)
      BY <2>1, <2>6, ReorderPicks DEF RoomsSorted
    <3>. QED  BY <2>1, <3>1, PickedRoomNames
  <2>7. CASE SocketMade(a)
    <3>1. PICK r \in DOMAIN doc, sock \in Socket :
            /\ ~NameTaken(doc[r].sockets, sock.name, NULL)
            /\ a.doc = Refill(doc, r, Append(doc[r].sockets, sock))
      BY <2>7 DEF SocketMade
    <3>2. \A k \in DOMAIN doc[r].sockets : doc[r].sockets[k].id # NULL
      BY <2>1, RoomType, HouseholdAssumption
    <3>. QED  BY <2>1, <3>1, <3>2, AppendedSocketName
  <2>8. CASE SocketEdited(a, q.id)
    BY <1>1, <2>8, MovedName DEF SocketEdited
  <2>9. CASE SocketDropped(a, q.id)
    <3>1. PICK i \in DOMAIN doc : \E n \in DOMAIN doc[i].sockets :
            a.doc = Refill(doc, i, RemoveAt(doc[i].sockets, n))
      BY <2>9 DEF SocketDropped
    <3>2. PICK n \in DOMAIN doc[i].sockets : a.doc = Refill(doc, i, RemoveAt(doc[i].sockets, n))
      BY <3>1
    <3>3. /\ RemoveAt(doc[i].sockets, n) \in Seq(Socket)
          /\ Picks(RemoveAt(doc[i].sockets, n), doc[i].sockets)
      BY <2>1, RemovePicks
    <3>. QED  BY <2>1, <3>2, <3>3, PickedNames, RefillNames
  <2>10. CASE SocketsSorted(a, q.id)
    <3>1. PICK i \in DOMAIN doc, ids \in Seq(Ids) :
            Permutation(ids, doc[i].sockets) /\ a.doc = Refill(doc, i, Reordered(doc[i].sockets, ids))
      BY <2>10 DEF SocketsSorted
    <3>2. /\ Reordered(doc[i].sockets, ids) \in Seq(Socket)
          /\ Picks(Reordered(doc[i].sockets, ids), doc[i].sockets)
      BY <2>1, <3>1, ReorderPicks
    <3>. QED  BY <2>1, <3>1, <3>2, PickedNames, RefillNames
  <2>. QED  BY <2>2, <2>3, <2>4, <2>5, <2>6, <2>7, <2>8, <2>9, <2>10
<1>2. IInv /\ Next => Collisions(doc') \subseteq Collisions(doc)
  BY <1>1 DEF Next, Handle
<1>. QED  BY <1>2, Inductive, PTL DEF Spec, NoNewCollision

-----------------------------------------------------------------------------
(* Where the sockets are.                                                    *)
LEMMA SocketsOfIs ==
  \A d, sid : sid \in SocketsOf(d) <=>
                 \E i \in DOMAIN d : \E k \in DOMAIN d[i].sockets : d[i].sockets[k].id = sid
<1>. SUFFICES ASSUME NEW d, NEW sid
              PROVE  sid \in SocketsOf(d) <=>
                       \E i \in DOMAIN d : \E k \in DOMAIN d[i].sockets : d[i].sockets[k].id = sid
  OBVIOUS
<1>1. \A i \in DOMAIN d : sid \in ToSet(IdsOf(d[i].sockets)) <=>
                          \E k \in DOMAIN d[i].sockets : d[i].sockets[k].id = sid
  BY DEF ToSet, IdsOf
<1>2. sid \in SocketsOf(d) <=> \E i \in DOMAIN d : sid \in ToSet(IdsOf(d[i].sockets))
  BY DEF SocketsOf
<1>. QED  BY <1>1, <1>2

LEMMA RoomsOfIs == \A d, rid : rid \in RoomsOf(d) <=> \E i \in DOMAIN d : d[i].id = rid
BY DEF RoomsOf, ToSet, IdsOf

LEMMA AtPlace ==
  ASSUME NEW d \in Seq(Room), check_document(d),
         NEW i \in DOMAIN d, NEW k \in DOMAIN d[i].sockets, NEW sid, d[i].sockets[k].id = sid
  PROVE  SocketOf(d, sid) = d[i].sockets[k] /\ Placed(d, sid) = <<d[i].id, d[i].sockets[k]>>
<1>. DEFINE j == find_socket(d, sid)
            n == IndexOf(d[j].sockets, sid)
<1>1. j # 0
  BY FindSocket
<1>2. j \in DOMAIN d /\ n \in DOMAIN d[j].sockets /\ d[j].sockets[n].id = sid
      /\ SocketOf(d, sid) = d[j].sockets[n]
  BY <1>1, FindSocket
<1>. HIDE DEF j, n
<1>3. j = i /\ n = k
  BY <1>2 DEF check_document, UniqueIds
<1>. QED  BY <1>2, <1>3 DEF Placed, j

(* From d to t, only sockets with an id of X come, go or change.             *)
Kept(d, t, X) ==
  \A i \in DOMAIN d : \A k \in DOMAIN d[i].sockets :
    d[i].sockets[k].id \notin X =>
      \E j \in DOMAIN t : /\ t[j].id = d[i].id
                          /\ \E l \in DOMAIN t[j].sockets : t[j].sockets[l] = d[i].sockets[k]

Touches(d, t, X) == Kept(d, t, X) /\ Kept(t, d, X)

LEMMA TouchesMore ==
  ASSUME NEW d, NEW t, NEW X, Touches(d, t, {}) PROVE Touches(d, t, X)
BY DEF Touches, Kept

LEMMA KeptTwice ==
  ASSUME NEW c, NEW d, NEW t, NEW X, Kept(c, d, X), Kept(d, t, X) PROVE Kept(c, t, X)
BY DEF Kept

LEMMA KeptPlaced ==
  ASSUME NEW d \in Seq(Room), NEW t \in Seq(Room), check_document(d), check_document(t),
         NEW X, Kept(d, t, X), NEW sid \in SocketsOf(d), sid \notin X
  PROVE  sid \in SocketsOf(t) /\ Placed(t, sid) = Placed(d, sid) /\ SocketOf(t, sid) = SocketOf(d, sid)
<1>1. PICK i \in DOMAIN d : \E k \in DOMAIN d[i].sockets : d[i].sockets[k].id = sid
  BY SocketsOfIs
<1>2. PICK k \in DOMAIN d[i].sockets : d[i].sockets[k].id = sid
  BY <1>1
<1>3. PICK j \in DOMAIN t : t[j].id = d[i].id
                            /\ \E l \in DOMAIN t[j].sockets : t[j].sockets[l] = d[i].sockets[k]
  BY <1>2 DEF Kept
<1>4. PICK l \in DOMAIN t[j].sockets : t[j].sockets[l] = d[i].sockets[k]
  BY <1>3
<1>5. sid \in SocketsOf(t)
  BY <1>2, <1>4, SocketsOfIs
<1>6. SocketOf(d, sid) = d[i].sockets[k] /\ Placed(d, sid) = <<d[i].id, d[i].sockets[k]>>
  BY <1>2, AtPlace
<1>7. SocketOf(t, sid) = t[j].sockets[l] /\ Placed(t, sid) = <<t[j].id, t[j].sockets[l]>>
  BY <1>2, <1>4, AtPlace
<1>. QED  BY <1>3, <1>4, <1>5, <1>6, <1>7

LEMMA RefillTouches ==
  ASSUME NEW d \in Seq(Room), NEW i \in DOMAIN d, NEW ss \in Seq(Socket), NEW X,
         \A k \in DOMAIN d[i].sockets : d[i].sockets[k].id \notin X =>
           \E l \in DOMAIN ss : ss[l] = d[i].sockets[k],
         \A l \in DOMAIN ss : ss[l].id \notin X =>
           \E k \in DOMAIN d[i].sockets : d[i].sockets[k] = ss[l]
  PROVE  Touches(d, Refill(d, i, ss), X) /\ RoomsOf(Refill(d, i, ss)) = RoomsOf(d)
<1>. DEFINE t == Refill(d, i, ss)
<1>1. /\ DOMAIN t = DOMAIN d /\ t[i].sockets = ss /\ t[i].id = d[i].id
      /\ \A j \in DOMAIN d \ {i} : t[j] = d[j]
  BY RefillType
<1>. HIDE DEF t
<1>2. \A j \in DOMAIN d : t[j].id = d[j].id
  BY <1>1
<1>3. Kept(d, t, X)
  BY <1>1, <1>2 DEF Kept
<1>4. Kept(t, d, X)
  BY <1>1, <1>2 DEF Kept
<1>5. RoomsOf(t) = RoomsOf(d)
  <2>1. \A rid : rid \in RoomsOf(t) <=> rid \in RoomsOf(d)
    BY <1>1, <1>2, RoomsOfIs
  <2>. QED  BY <2>1
<1>. QED  BY <1>3, <1>4, <1>5 DEF Touches, t

LEMMA RoomsTouched ==
  ASSUME NEW d, NEW t,
         \A i \in DOMAIN d : d[i].sockets = <<>> \/
           \E j \in DOMAIN t : t[j].id = d[i].id /\ t[j].sockets = d[i].sockets,
         \A j \in DOMAIN t : t[j].sockets = <<>> \/
           \E i \in DOMAIN d : d[i].id = t[j].id /\ d[i].sockets = t[j].sockets
  PROVE  Touches(d, t, {})
<1>1. DOMAIN <<>> = {}
  OBVIOUS
<1>. QED  BY <1>1 DEF Touches, Kept

LEMMA MovedTouches ==
  ASSUME IInv, NEW i \in DOMAIN doc, NEW t \in DOMAIN doc, NEW n \in DOMAIN doc[i].sockets,
         NEW m \in Socket, n = IndexOf(doc[i].sockets, m.id), doc[i].sockets[n].id = m.id
  PROVE  /\ Touches(doc, Moved(i, t, m), {m.id}) /\ RoomsOf(Moved(i, t, m)) = RoomsOf(doc)
         /\ m.id \in SocketsOf(Moved(i, t, m))
<1>. DEFINE old == doc[i].sockets
<1>0. doc \in Seq(Room) /\ check_document(doc)
  BY DEF IInv, Shape, DocumentStaysLoadable
<1>1. old \in Seq(Socket) /\ doc[t].sockets \in Seq(Socket)
  BY <1>0, RoomType
<1>2. CASE t = i
  <2>. DEFINE ss == [old EXCEPT ![n] = m]
  <2>1. Moved(i, t, m) = Refill(doc, i, ss)
    BY <1>2 DEF Moved
  <2>2. n \in DOMAIN old /\ old[n].id = m.id
    OBVIOUS
  <2>. HIDE DEF old
  <2>3. /\ ss \in Seq(Socket) /\ DOMAIN ss = DOMAIN old /\ ss[n] = m
        /\ \A k \in DOMAIN old \ {n} : ss[k] = old[k]
    BY <1>1, <2>2
  <2>. HIDE DEF ss
  <2>4. /\ \A k \in DOMAIN old : old[k].id \notin {m.id} => \E l \in DOMAIN ss : ss[l] = old[k]
        /\ \A l \in DOMAIN ss : ss[l].id \notin {m.id} => \E k \in DOMAIN old : old[k] = ss[l]
    BY <2>2, <2>3
  <2>5. Touches(doc, Refill(doc, i, ss), {m.id}) /\ RoomsOf(Refill(doc, i, ss)) = RoomsOf(doc)
    BY <1>0, <2>3, <2>4, RefillTouches DEF old
  <2>6. i \in DOMAIN Refill(doc, i, ss) /\ Refill(doc, i, ss)[i].sockets = ss
    BY <1>0, <2>3, RefillType
  <2>7. m.id \in SocketsOf(Refill(doc, i, ss))
    BY <2>2, <2>3, <2>6, SocketsOfIs
  <2>. QED  BY <2>1, <2>5, <2>7
<1>3. CASE t # i
  <2>. DEFINE ss == RemoveAt(old, n)
              d == Refill(doc, i, ss)
              new == Append(doc[t].sockets, m)
              e == Refill(d, t, new)
  <2>1. /\ ss \in Seq(Socket)
        /\ \A k \in DOMAIN ss : \E j \in DOMAIN old \ {n} : ss[k] = old[j]
        /\ \A j \in DOMAIN old \ {n} : \E k \in DOMAIN ss : ss[k] = old[j]
    BY <1>1, RemovePicks
  <2>2. Moved(i, t, m) = e
    BY <1>3 DEF Moved, Without
  <2>3. old[n].id = m.id
    OBVIOUS
  <2>. HIDE DEF ss, old
  <2>4. Touches(doc, d, {m.id}) /\ RoomsOf(d) = RoomsOf(doc)
    <3>1. \A k \in DOMAIN old : old[k].id \notin {m.id} => \E l \in DOMAIN ss : ss[l] = old[k]
      BY <2>1, <2>3
    <3>2. \A l \in DOMAIN ss : ss[l].id \notin {m.id} => \E k \in DOMAIN old : old[k] = ss[l]
      BY <2>1
    <3>. QED  BY <1>0, <2>1, <3>1, <3>2, RefillTouches DEF old
  <2>5. d \in Seq(Room) /\ t \in DOMAIN d /\ d[t] = doc[t]
    BY <1>0, <1>3, <2>1, RefillType
  <2>. HIDE DEF d
  <2>6. /\ new \in Seq(Socket) /\ DOMAIN new = DOMAIN doc[t].sockets \cup {Len(doc[t].sockets) + 1}
        /\ new[Len(doc[t].sockets) + 1] = m
        /\ \A k \in DOMAIN doc[t].sockets : new[k] = doc[t].sockets[k]
    BY <1>1
  <2>. HIDE DEF new
  <2>7. Touches(d, e, {m.id}) /\ RoomsOf(e) = RoomsOf(d)
    <3>1. \A k \in DOMAIN d[t].sockets : d[t].sockets[k].id \notin {m.id} =>
            \E l \in DOMAIN new : new[l] = d[t].sockets[k]
      BY <2>5, <2>6
    <3>2. \A l \in DOMAIN new : new[l].id \notin {m.id} =>
            \E k \in DOMAIN d[t].sockets : d[t].sockets[k] = new[l]
      BY <2>5, <2>6
    <3>. QED  BY <2>5, <2>6, <3>1, <3>2, RefillTouches
  <2>8. t \in DOMAIN e /\ e[t].sockets = new
    BY <2>5, <2>6, RefillType
  <2>9. m.id \in SocketsOf(e)
    BY <2>6, <2>8, SocketsOfIs
  <2>. HIDE DEF e
  <2>10. Touches(doc, e, {m.id})
    BY <2>4, <2>7, KeptTwice DEF Touches
  <2>. QED  BY <2>2, <2>4, <2>7, <2>9, <2>10
<1>. QED  BY <1>2, <1>3

(* What a request touches: nothing, what it creates, or what its URL names.  *)
LEMMA ChangesTouch ==
  ASSUME IInv, NEW q \in Requests, NEW id \in IdsFor(q), NEW a, a = Respond(q, id)
  PROVE  /\ \/ Touches(doc, a.doc, {})
            \/ \E sid : /\ IsNew(doc, sid) /\ Touches(doc, a.doc, {sid})
                        /\ a.warn = duplicate_warnings(a.doc, sid)
            \/ /\ Touches(doc, a.doc, {q.id}) /\ q.id \in SocketsOf(a.doc)
               /\ a.warn = duplicate_warnings(a.doc, q.id)
            \/ /\ Touches(doc, a.doc, {q.id}) /\ q.id \notin SocketsOf(a.doc)
               /\ q.route = "delete_socket"
         /\ \/ RoomsOf(doc) \subseteq RoomsOf(a.doc)
            \/ /\ q.route = "delete_room"
               /\ \E i \in DOMAIN doc : /\ doc[i].id = q.id /\ doc[i].sockets = <<>>
                                       /\ RoomsOf(doc) \ {q.id} \subseteq RoomsOf(a.doc)
<1>1. doc \in Seq(Room) /\ check_document(doc) /\ \A i \in DOMAIN doc : doc[i].sockets \in Seq(Socket)
  BY RoomType DEF IInv, Shape, DocumentStaysLoadable
<1>2. \/ a.doc = doc \/ RoomMade(a) \/ RoomNamed(a, q.id)
      \/ (q.route = "delete_room" /\ RoomDropped(a, q.id)) \/ RoomsSorted(a)
      \/ SocketMade(a) \/ SocketEdited(a, q.id)
      \/ (q.route = "delete_socket" /\ SocketDropped(a, q.id)) \/ SocketsSorted(a, q.id)
  BY RequestChanges, Zenon
<1>3. CASE a.doc = doc
  <2>1. Touches(doc, doc, {})
    BY RoomsTouched
  <2>. QED  BY <1>3, <2>1
<1>4. CASE RoomMade(a)
  <2>1. PICK r \in Room : r.sockets = <<>> /\ a.doc = Append(doc, r)
    BY <1>4 DEF RoomMade
  <2>2. /\ DOMAIN a.doc = DOMAIN doc \cup {Len(doc) + 1} /\ a.doc[Len(doc) + 1] = r
        /\ \A k \in DOMAIN doc : a.doc[k] = doc[k]
    BY <1>1, <2>1
  <2>3. Touches(doc, a.doc, {})
    BY <2>1, <2>2, RoomsTouched
  <2>4. RoomsOf(doc) \subseteq RoomsOf(a.doc)
    BY <2>2, RoomsOfIs
  <2>. QED  BY <2>3, <2>4
<1>5. CASE RoomNamed(a, q.id)
  <2>1. PICK i \in DOMAIN doc, name \in Names : a.doc = Renamed(doc, i, name)
    BY <1>5 DEF RoomNamed
  <2>2. /\ DOMAIN a.doc = DOMAIN doc
        /\ \A k \in DOMAIN doc : a.doc[k].id = doc[k].id /\ a.doc[k].sockets = doc[k].sockets
    <3>. DEFINE new == Renamed(doc, i, name)
    <3>1. /\ DOMAIN new = DOMAIN doc /\ new[i].id = doc[i].id /\ new[i].sockets = doc[i].sockets
          /\ \A k \in DOMAIN doc \ {i} : new[k] = doc[k]
      BY <1>1, RoomRenamed
    <3>. HIDE DEF new
    <3>. QED  BY <2>1, <3>1 DEF new
  <2>3. Touches(doc, a.doc, {})
    BY <2>2, RoomsTouched
  <2>4. RoomsOf(doc) \subseteq RoomsOf(a.doc)
    BY <2>2, RoomsOfIs
  <2>. QED  BY <2>3, <2>4
<1>6. CASE q.route = "delete_room" /\ RoomDropped(a, q.id)
  <2>1. PICK i \in DOMAIN doc : doc[i].id = q.id /\ doc[i].sockets = <<>> /\ a.doc = RemoveAt(doc, i)
    BY <1>6 DEF RoomDropped
  <2>2. /\ \A j \in DOMAIN a.doc : \E k \in DOMAIN doc : a.doc[j] = doc[k]
        /\ \A k \in DOMAIN doc \ {i} : \E j \in DOMAIN a.doc : a.doc[j] = doc[k]
    BY <1>1, <2>1, RemovePicks, SMTT(30)
  <2>3. Touches(doc, a.doc, {})
    BY <2>1, <2>2, RoomsTouched, SMTT(30)
  <2>4. RoomsOf(doc) \ {q.id} \subseteq RoomsOf(a.doc)
    BY <2>1, <2>2, RoomsOfIs
  <2>. QED  BY <1>6, <2>1, <2>3, <2>4
<1>7. CASE RoomsSorted(a)
  <2>1. PICK ids \in Seq(Ids) : Permutation(ids, doc) /\ a.doc = Reordered(doc, ids)
    BY <1>7 DEF RoomsSorted
  <2>2. /\ \A j \in DOMAIN a.doc : \E k \in DOMAIN doc : a.doc[j] = doc[k]
        /\ \A k \in DOMAIN doc : \E j \in DOMAIN a.doc : a.doc[j].id = doc[k].id
    BY <1>1, <2>1, ReorderPicks DEF Picks
  <2>3. \A k, l \in DOMAIN doc : doc[k].id = doc[l].id => k = l
    BY <1>1 DEF check_document, UniqueIds, IsInjective, IdsOf
  <2>4. \A k \in DOMAIN doc : \E j \in DOMAIN a.doc : a.doc[j] = doc[k]
    BY <2>2, <2>3
  <2>5. Touches(doc, a.doc, {})
    BY <2>2, <2>4, RoomsTouched
  <2>6. RoomsOf(doc) \subseteq RoomsOf(a.doc)
    BY <2>2, RoomsOfIs
  <2>. QED  BY <2>5, <2>6
<1>8. CASE SocketMade(a)
  <2>1. PICK r \in DOMAIN doc, sock \in Socket :
          /\ IsNew(doc, sock.id) /\ a.doc = Refill(doc, r, Append(doc[r].sockets, sock))
          /\ a.warn = duplicate_warnings(a.doc, sock.id)
    BY <1>8 DEF SocketMade
  <2>. DEFINE old == doc[r].sockets
              ss == Append(old, sock)
  <2>2. old \in Seq(Socket)
    BY <1>1
  <2>. HIDE DEF old
  <2>3. /\ ss \in Seq(Socket) /\ DOMAIN ss = DOMAIN old \cup {Len(old) + 1}
        /\ ss[Len(old) + 1] = sock
        /\ \A k \in DOMAIN old : ss[k] = old[k]
    BY <2>2
  <2>. HIDE DEF ss
  <2>4. /\ \A k \in DOMAIN old : old[k].id \notin {sock.id} => \E l \in DOMAIN ss : ss[l] = old[k]
        /\ \A l \in DOMAIN ss : ss[l].id \notin {sock.id} => \E k \in DOMAIN old : old[k] = ss[l]
    BY <2>3
  <2>5. /\ Touches(doc, Refill(doc, r, ss), {sock.id})
        /\ RoomsOf(Refill(doc, r, ss)) = RoomsOf(doc)
    BY <1>1, <2>3, <2>4, RefillTouches DEF old
  <2>6. a.doc = Refill(doc, r, ss)
    BY <2>1 DEF ss, old
  <2>. QED  BY <2>1, <2>5, <2>6
<1>9. CASE SocketEdited(a, q.id)
  <2>1. PICK i \in DOMAIN doc, t \in DOMAIN doc, m \in Socket :
          /\ m.id = q.id /\ IndexOf(doc[i].sockets, m.id) \in DOMAIN doc[i].sockets
          /\ doc[i].sockets[IndexOf(doc[i].sockets, m.id)].id = m.id
          /\ a.doc = Moved(i, t, m) /\ a.warn = duplicate_warnings(a.doc, q.id)
    BY <1>9 DEF SocketEdited
  <2>2. /\ Touches(doc, a.doc, {q.id}) /\ RoomsOf(a.doc) = RoomsOf(doc)
        /\ q.id \in SocketsOf(a.doc)
    BY <2>1, MovedTouches
  <2>. QED  BY <2>1, <2>2
<1>10. CASE q.route = "delete_socket" /\ SocketDropped(a, q.id)
  <2>1. PICK i \in DOMAIN doc : \E n \in DOMAIN doc[i].sockets :
          doc[i].sockets[n].id = q.id /\ a.doc = Refill(doc, i, RemoveAt(doc[i].sockets, n))
    BY <1>10 DEF SocketDropped
  <2>2. PICK n \in DOMAIN doc[i].sockets :
          doc[i].sockets[n].id = q.id /\ a.doc = Refill(doc, i, RemoveAt(doc[i].sockets, n))
    BY <2>1
  <2>. DEFINE old == doc[i].sockets
              ss == RemoveAt(old, n)
  <2>3. /\ ss \in Seq(Socket)
        /\ \A k \in DOMAIN ss : \E j \in DOMAIN old \ {n} : ss[k] = old[j]
        /\ \A j \in DOMAIN old \ {n} : \E k \in DOMAIN ss : ss[k] = old[j]
    <3>1. old \in Seq(Socket) /\ n \in DOMAIN old
      BY <1>1
    <3>. HIDE DEF old
    <3>. QED  BY <3>1, RemovePicks
  <2>4. a.doc = Refill(doc, i, ss) /\ old[n].id = q.id
    BY <2>2
  <2>5. \A j \in DOMAIN old \ {n} : old[j].id # q.id
    BY <1>1, <2>2 DEF check_document, UniqueIds
  <2>6. \A j \in DOMAIN doc \ {i} : \A k \in DOMAIN doc[j].sockets : doc[j].sockets[k].id # q.id
    BY <1>1, <2>2 DEF check_document, UniqueIds
  <2>. HIDE DEF ss, old
  <2>7. /\ \A k \in DOMAIN old : old[k].id \notin {q.id} => \E l \in DOMAIN ss : ss[l] = old[k]
        /\ \A l \in DOMAIN ss : ss[l].id \notin {q.id} => \E k \in DOMAIN old : old[k] = ss[l]
    BY <2>3, <2>4
  <2>8. Touches(doc, a.doc, {q.id}) /\ RoomsOf(a.doc) = RoomsOf(doc)
    <3>1. /\ Touches(doc, Refill(doc, i, ss), {q.id})
          /\ RoomsOf(Refill(doc, i, ss)) = RoomsOf(doc)
      BY <1>1, <2>3, <2>7, RefillTouches DEF old
    <3>. QED  BY <2>4, <3>1
  <2>9. /\ DOMAIN a.doc = DOMAIN doc /\ a.doc[i].sockets = ss
        /\ \A j \in DOMAIN doc \ {i} : a.doc[j] = doc[j]
    BY <1>1, <2>3, <2>4, RefillType
  <2>10. q.id \notin SocketsOf(a.doc)
    BY <2>3, <2>5, <2>6, <2>9, SocketsOfIs
  <2>. QED  BY <1>10, <2>8, <2>10
<1>11. CASE SocketsSorted(a, q.id)
  <2>1. PICK i \in DOMAIN doc, ids \in Seq(Ids) :
          Permutation(ids, doc[i].sockets) /\ a.doc = Refill(doc, i, Reordered(doc[i].sockets, ids))
    BY <1>11 DEF SocketsSorted
  <2>. DEFINE old == doc[i].sockets
              ss == Reordered(old, ids)
  <2>2. /\ ss \in Seq(Socket)
        /\ \A k \in DOMAIN ss : \E j \in DOMAIN old : ss[k] = old[j]
        /\ \A j \in DOMAIN old : \E k \in DOMAIN ss : ss[k].id = old[j].id
    <3>1. old \in Seq(Socket) /\ Permutation(ids, old)
      BY <1>1, <2>1
    <3>. HIDE DEF old
    <3>. QED  BY <3>1, ReorderPicks DEF Picks
  <2>3. \A k, l \in DOMAIN old : old[k].id = old[l].id => k = l
    BY <1>1 DEF check_document, UniqueIds
  <2>4. \A j \in DOMAIN old : \E k \in DOMAIN ss : ss[k] = old[j]
    BY <2>2, <2>3
  <2>5. a.doc = Refill(doc, i, ss)
    BY <2>1
  <2>. HIDE DEF ss
  <2>6. Touches(doc, a.doc, {}) /\ RoomsOf(a.doc) = RoomsOf(doc)
    <3>1. /\ \A k \in DOMAIN old : old[k].id \notin {} => \E l \in DOMAIN ss : ss[l] = old[k]
          /\ \A l \in DOMAIN ss : ss[l].id \notin {} => \E k \in DOMAIN old : old[k] = ss[l]
      BY <2>2, <2>4
    <3>2. /\ Touches(doc, Refill(doc, i, ss), {})
          /\ RoomsOf(Refill(doc, i, ss)) = RoomsOf(doc)
      BY <1>1, <2>2, <3>1, RefillTouches
    <3>. QED  BY <2>5, <3>2
  <2>. QED  BY <2>6
<1>. QED  BY <1>2, <1>3, <1>4, <1>5, <1>6, <1>7, <1>8, <1>9, <1>10, <1>11

(* The room that goes is the empty one of the URL.                           *)
LEMMA RoomGone ==
  ASSUME NEW d, NEW rid, doc \in Seq(Room), check_document(doc),
         \/ RoomsOf(doc) \subseteq RoomsOf(d)
         \/ \E i \in DOMAIN doc : /\ doc[i].id = rid /\ doc[i].sockets = <<>>
                                 /\ RoomsOf(doc) \ {rid} \subseteq RoomsOf(d),
         NEW r \in RoomsOf(doc) \ RoomsOf(d)
  PROVE  rid = r /\ doc[find_room(doc, r)].sockets = <<>>
<1>1. PICK i \in DOMAIN doc : /\ doc[i].id = rid /\ doc[i].sockets = <<>>
                             /\ RoomsOf(doc) \ {rid} \subseteq RoomsOf(d)
  OBVIOUS
<1>2. r = rid
  BY <1>1
<1>3. find_room(doc, r) \in DOMAIN doc /\ doc[find_room(doc, r)].id = r
  BY <1>1, <1>2, IndexOfType DEF find_room
<1>4. \A k, l \in DOMAIN doc : doc[k].id = doc[l].id => k = l
  BY DEF check_document, UniqueIds, IsInjective, IdsOf
<1>5. find_room(doc, r) = i
  BY <1>1, <1>2, <1>3, <1>4
<1>. QED  BY <1>1, <1>2, <1>5

-----------------------------------------------------------------------------
(* The order of the entries: those that are in both s and t are in t as they *)
(* are in s.                                                                 *)
InOrder(s, t) ==
  \A k, l \in DOMAIN s, m, n \in DOMAIN t :
    s[k].id = t[m].id /\ s[l].id = t[n].id /\ k < l => m < n

Distinct(s) == \A k, l \in DOMAIN s : s[k].id = s[l].id => k = l

(* No entry is in both.                                                      *)
Apart(s, t) == \A k \in DOMAIN s, m \in DOMAIN t : s[k].id # t[m].id

LEMMA ApartInOrder == \A s, t : Apart(s, t) => InOrder(s, t)
BY DEF Apart, InOrder

LEMMA DistinctInOrder == \A s : Distinct(s) => InOrder(s, s)
BY DEF Distinct, InOrder

(* Another record with the same id changes no order.                         *)
LEMMA ReplacedInOrder ==
  ASSUME NEW s, NEW t, NEW u, InOrder(s, t), DOMAIN u = DOMAIN t,
         \A k \in DOMAIN t : u[k].id = t[k].id
  PROVE  InOrder(s, u)
BY DEF InOrder

LEMMA RemovedInOrder ==
  ASSUME NEW S, NEW s, NEW t \in Seq(S), NEW n \in DOMAIN t, InOrder(s, t)
  PROVE  InOrder(s, RemoveAt(t, n))
<1>. DEFINE r == RemoveAt(t, n)
            at(k) == IF k < n THEN k ELSE k + 1
<1>1. n \in 1..Len(t) /\ Len(t) \in Nat /\ DOMAIN t = 1..Len(t)
  OBVIOUS
<1>2. /\ r \in Seq(S) /\ Len(r) = Len(t) - 1
      /\ \A k \in 1..(Len(t) - 1) : r[k] = IF k < n THEN t[k] ELSE t[k + 1]
  BY RemovedIs
<1>. HIDE DEF r
<1>3. DOMAIN r = 1..(Len(t) - 1)
  BY <1>2
<1>4. ASSUME NEW k \in DOMAIN r PROVE r[k] = t[at(k)] /\ at(k) \in DOMAIN t
  <2>1. CASE k < n
    BY <1>1, <1>2, <1>3, <2>1
  <2>2. CASE ~(k < n)
    BY <1>1, <1>2, <1>3, <2>2
  <2>. QED  BY <2>1, <2>2
<1>5. \A k, l \in DOMAIN r : at(k) < at(l) => k < l
  BY <1>1, <1>3
<1>. HIDE DEF at
<1>6. InOrder(s, r)
  BY <1>4, <1>5 DEF InOrder
<1>. QED  BY <1>6 DEF r

(* What is appended was not in s, or nothing of s was in t.                  *)
LEMMA AppendedInOrder ==
  ASSUME NEW S, NEW s, NEW t \in Seq(S), NEW e \in S, InOrder(s, t), DOMAIN s \subseteq Int,
         \/ \A k \in DOMAIN s : s[k].id # e.id
         \/ Distinct(s) /\ Apart(s, t)
  PROVE  InOrder(s, Append(t, e))
<1>. DEFINE u == Append(t, e)
            last == Len(t) + 1
<1>1. /\ DOMAIN u = DOMAIN t \cup {last} /\ last \notin DOMAIN t /\ u[last] = e
      /\ \A k \in DOMAIN t : u[k] = t[k]
  OBVIOUS
<1>. HIDE DEF u, last
<1>2. ASSUME \A k \in DOMAIN s : s[k].id # e.id PROVE InOrder(s, u)
  BY <1>1, <1>2 DEF InOrder
<1>3. ASSUME Distinct(s) /\ Apart(s, t) PROVE InOrder(s, u)
  <2>1. \A k \in DOMAIN s, m \in DOMAIN u : s[k].id = u[m].id => m = last
    BY <1>1, <1>3 DEF Apart
  <2>2. \A k, l \in DOMAIN s, m, n \in DOMAIN u :
          s[k].id = u[m].id /\ s[l].id = u[n].id => k = l
    BY <1>3, <2>1 DEF Distinct
  <2>. QED  BY <2>2 DEF InOrder
<1>4. InOrder(s, u)
  BY <1>2, <1>3
<1>. QED  BY <1>4 DEF u

(* The rooms of a document and their sockets are distinct.                   *)
LEMMA DocumentInOrder ==
  ASSUME NEW d \in Seq(Room), check_document(d)
  PROVE  /\ Distinct(d) /\ InOrder(d, d)
         /\ \A i \in DOMAIN d : DOMAIN d[i].sockets \subseteq Int /\ Distinct(d[i].sockets)
         /\ \A i, j \in DOMAIN d : i # j => Apart(d[i].sockets, d[j].sockets)
         /\ \A i, j \in DOMAIN d : InOrder(d[i].sockets, d[j].sockets)
<1>1. Distinct(d)
  BY DEF check_document, UniqueIds, IsInjective, IdsOf, Distinct
<1>2. \A i \in DOMAIN d : Distinct(d[i].sockets)
  BY DEF check_document, UniqueIds, Distinct
<1>3. \A i \in DOMAIN d : DOMAIN d[i].sockets \subseteq Int
  BY RoomType
<1>4. \A i, j \in DOMAIN d : i # j => Apart(d[i].sockets, d[j].sockets)
  BY DEF check_document, UniqueIds, Apart
<1>5. \A i, j \in DOMAIN d : InOrder(d[i].sockets, d[j].sockets)
  BY <1>2, <1>4, ApartInOrder, DistinctInOrder
<1>. QED  BY <1>1, <1>2, <1>3, <1>4, <1>5, DistinctInOrder

(* The sockets of d that stay in one room of t stay in order.                *)
SocketsInOrder(d, t) ==
  \A i \in DOMAIN d, j \in DOMAIN t : InOrder(d[i].sockets, t[j].sockets)

(* The sockets of room i are replaced by ss.                                 *)
LEMMA RefillInOrder ==
  ASSUME NEW d \in Seq(Room), check_document(d), NEW e \in Seq(Room), DOMAIN e = DOMAIN d,
         NEW i \in DOMAIN e, NEW ss \in Seq(Socket), SocketsInOrder(d, e),
         \A k \in DOMAIN d : InOrder(d[k].sockets, ss)
  PROVE  SocketsInOrder(d, Refill(e, i, ss))
<1>1. /\ DOMAIN Refill(e, i, ss) = DOMAIN e /\ Refill(e, i, ss)[i].sockets = ss
      /\ \A j \in DOMAIN e \ {i} : Refill(e, i, ss)[j] = e[j]
  BY RefillType
<1>. QED  BY <1>1 DEF SocketsInOrder

LEMMA MovedInOrder ==
  ASSUME NEW i \in DOMAIN doc, NEW t \in DOMAIN doc, NEW m \in Socket, doc \in Seq(Room),
         check_document(doc), NEW n \in DOMAIN doc[i].sockets,
         n = IndexOf(doc[i].sockets, m.id), doc[i].sockets[n].id = m.id
  PROVE  SocketsInOrder(doc, Moved(i, t, m))
<1>. DEFINE old == doc[i].sockets
<1>1. old \in Seq(Socket) /\ doc[t].sockets \in Seq(Socket)
  BY RoomType
<1>2. \A k \in DOMAIN doc : InOrder(doc[k].sockets, old) /\ InOrder(doc[k].sockets, doc[t].sockets)
  BY DocumentInOrder
<1>3. SocketsInOrder(doc, doc)
  BY DocumentInOrder DEF SocketsInOrder
<1>4. CASE t = i
  <2>. DEFINE ss == [old EXCEPT ![n] = m]
  <2>1. Moved(i, t, m) = Refill(doc, i, ss)
    BY <1>4 DEF Moved
  <2>2. n \in DOMAIN old /\ old[n].id = m.id
    OBVIOUS
  <2>. HIDE DEF old
  <2>3. /\ ss \in Seq(Socket) /\ DOMAIN ss = DOMAIN old
        /\ \A k \in DOMAIN old : ss[k].id = old[k].id
    BY <1>1, <2>2
  <2>. HIDE DEF ss
  <2>4. \A k \in DOMAIN doc : InOrder(doc[k].sockets, ss)
    BY <1>2, <2>3, ReplacedInOrder
  <2>. QED  BY <1>3, <2>1, <2>3, <2>4, RefillInOrder
<1>5. CASE t # i
  <2>. DEFINE ss == RemoveAt(old, n)
              d == Refill(doc, i, ss)
              new == Append(doc[t].sockets, m)
  <2>1. Moved(i, t, m) = Refill(d, t, new)
    BY <1>5 DEF Moved, Without
  <2>2. n \in DOMAIN old /\ old[n].id = m.id
    OBVIOUS
  <2>3. \A k \in DOMAIN doc \ {i} : \A l \in DOMAIN doc[k].sockets : doc[k].sockets[l].id # m.id
    BY DocumentInOrder DEF Apart
  <2>. HIDE DEF old
  <2>4. ss \in Seq(Socket) /\ \A k \in DOMAIN doc : InOrder(doc[k].sockets, ss)
    BY <1>1, <1>2, <2>2, RemovePicks, RemovedInOrder
  <2>. HIDE DEF ss
  <2>5. d \in Seq(Room) /\ DOMAIN d = DOMAIN doc /\ SocketsInOrder(doc, d)
    BY <1>3, <2>4, RefillType, RefillInOrder
  <2>6. new \in Seq(Socket)
    BY <1>1
  <2>7. \A k \in DOMAIN doc : InOrder(doc[k].sockets, new)
    <3>. SUFFICES ASSUME NEW k \in DOMAIN doc PROVE InOrder(doc[k].sockets, new)
      OBVIOUS
    <3>1. \/ \A l \in DOMAIN doc[k].sockets : doc[k].sockets[l].id # m.id
          \/ Distinct(doc[k].sockets) /\ Apart(doc[k].sockets, doc[t].sockets)
      BY <1>5, <2>3, DocumentInOrder
    <3>2. DOMAIN doc[k].sockets \subseteq Int /\ InOrder(doc[k].sockets, doc[t].sockets)
      BY <1>2, DocumentInOrder
    <3>. QED  BY <1>1, <3>1, <3>2, AppendedInOrder
  <2>. HIDE DEF d, new
  <2>. QED  BY <2>1, <2>5, <2>6, <2>7, RefillInOrder
<1>. QED  BY <1>4, <1>5

(* Rooms that keep their sockets keep their order.                           *)
LEMMA RoomsInOrder ==
  ASSUME NEW d \in Seq(Room), check_document(d), NEW t,
         \A j \in DOMAIN t : t[j].sockets = <<>> \/ \E i \in DOMAIN d : t[j].sockets = d[i].sockets
  PROVE  SocketsInOrder(d, t)
<1>1. \A s : InOrder(s, <<>>)
  BY DEF InOrder
<1>. QED  BY <1>1, DocumentInOrder DEF SocketsInOrder

(* The names and the order of the rooms of d that are in t.                  *)
RoomsStay(d, t) ==
  /\ InOrder(d, t)
  /\ \A i \in DOMAIN d, j \in DOMAIN t : d[i].id = t[j].id => t[j].name = d[i].name

LEMMA RefillStays ==
  ASSUME NEW d \in Seq(Room), check_document(d), NEW e \in Seq(Room), RoomsStay(d, e),
         NEW i \in DOMAIN e, NEW ss \in Seq(Socket)
  PROVE  RoomsStay(d, Refill(e, i, ss))
<1>. DEFINE t == Refill(e, i, ss)
<1>1. /\ DOMAIN t = DOMAIN e
      /\ \A j \in DOMAIN e : t[j].id = e[j].id /\ t[j].name = e[j].name
  <2>1. /\ DOMAIN t = DOMAIN e /\ t[i].id = e[i].id /\ t[i].name = e[i].name
        /\ \A j \in DOMAIN e \ {i} : t[j] = e[j]
    BY RefillType
  <2>. HIDE DEF t
  <2>. QED  BY <2>1
<1>. HIDE DEF t
<1>2. InOrder(d, t)
  BY <1>1, ReplacedInOrder DEF RoomsStay
<1>3. RoomsStay(d, t)
  BY <1>1, <1>2 DEF RoomsStay
<1>. QED  BY <1>3 DEF t

(* What a request keeps in order, and the names that it keeps.               *)
LEMMA RequestsInOrder ==
  ASSUME IInv, NEW q \in Requests, NEW id \in IdsFor(q), NEW a, a = Respond(q, id)
  PROVE  /\ \/ SocketsInOrder(doc, a.doc)
            \/ /\ q.route = "order_sockets"
               /\ \A k \in DOMAIN doc, j \in DOMAIN a.doc :
                    doc[k].id # q.id => InOrder(doc[k].sockets, a.doc[j].sockets)
         /\ InOrder(doc, a.doc) \/ q.route = "order_rooms"
         /\ \A k \in DOMAIN doc, j \in DOMAIN a.doc :
              doc[k].id = a.doc[j].id =>
                a.doc[j].name = doc[k].name \/ (q.route = "edit_room" /\ doc[k].id = q.id)
<1>. DEFINE Sockets == SocketsInOrder(doc, a.doc)
            SameNames == \A k \in DOMAIN doc, j \in DOMAIN a.doc :
                        doc[k].id = a.doc[j].id => a.doc[j].name = doc[k].name
<1>1. doc \in Seq(Room) /\ check_document(doc) /\ \A i \in DOMAIN doc : doc[i].sockets \in Seq(Socket)
  BY RoomType DEF IInv, Shape, DocumentStaysLoadable
<1>2. \/ a.doc = doc \/ RoomMade(a) \/ (q.route = "edit_room" /\ RoomNamed(a, q.id))
      \/ RoomDropped(a, q.id) \/ (q.route = "order_rooms" /\ RoomsSorted(a))
      \/ SocketMade(a) \/ SocketEdited(a, q.id) \/ SocketDropped(a, q.id)
      \/ (q.route = "order_sockets" /\ SocketsSorted(a, q.id))
  BY RequestChanges, Zenon
<1>3. SocketsInOrder(doc, doc) /\ Distinct(doc) /\ InOrder(doc, doc) /\ RoomsStay(doc, doc)
  BY <1>1, DocumentInOrder DEF SocketsInOrder, RoomsStay, Distinct
<1>. DEFINE Goal == /\ \/ Sockets
                       \/ /\ q.route = "order_sockets"
                          /\ \A k \in DOMAIN doc, j \in DOMAIN a.doc :
                               doc[k].id # q.id => InOrder(doc[k].sockets, a.doc[j].sockets)
                    /\ InOrder(doc, a.doc) \/ q.route = "order_rooms"
                    /\ \A k \in DOMAIN doc, j \in DOMAIN a.doc :
                         doc[k].id = a.doc[j].id =>
                           \/ a.doc[j].name = doc[k].name
                           \/ q.route = "edit_room" /\ doc[k].id = q.id
<1>4. Sockets /\ RoomsStay(doc, a.doc) => Goal
  BY DEF RoomsStay
<1>5. CASE a.doc = doc
  BY <1>3, <1>4, <1>5
<1>6. CASE RoomMade(a)
  <2>1. PICK r \in Room : r.sockets = <<>> /\ IsNew(doc, r.id) /\ a.doc = Append(doc, r)
    BY <1>6 DEF RoomMade
  <2>2. /\ DOMAIN a.doc = DOMAIN doc \cup {Len(doc) + 1} /\ a.doc[Len(doc) + 1] = r
        /\ \A k \in DOMAIN doc : a.doc[k] = doc[k]
    BY <1>1, <2>1
  <2>3. Sockets
    <3>1. \A j \in DOMAIN a.doc : \/ a.doc[j].sockets = <<>>
                                 \/ \E i \in DOMAIN doc : a.doc[j].sockets = doc[i].sockets
      BY <2>1, <2>2
    <3>. QED  BY <1>1, <3>1, RoomsInOrder
  <2>4. \A k \in DOMAIN doc : doc[k].id # r.id
    BY <2>1 DEF IsNew
  <2>5. InOrder(doc, a.doc)
    <3>1. DOMAIN doc \subseteq Int
      BY <1>1
    <3>2. InOrder(doc, Append(doc, r))
      BY <1>1, <1>3, <2>4, <3>1, AppendedInOrder
    <3>. QED  BY <2>1, <3>2
  <2>6. SameNames
    BY <1>3, <2>2, <2>4 DEF Distinct
  <2>. QED  BY <1>4, <2>3, <2>5, <2>6 DEF RoomsStay
<1>7. CASE q.route = "edit_room" /\ RoomNamed(a, q.id)
  <2>1. PICK i \in DOMAIN doc, name \in Names : doc[i].id = q.id /\ a.doc = Renamed(doc, i, name)
    BY <1>7 DEF RoomNamed
  <2>2. /\ DOMAIN a.doc = DOMAIN doc /\ \A k \in DOMAIN doc \ {i} : a.doc[k] = doc[k]
        /\ \A k \in DOMAIN doc : a.doc[k].id = doc[k].id /\ a.doc[k].sockets = doc[k].sockets
    <3>. DEFINE new == Renamed(doc, i, name)
    <3>1. /\ DOMAIN new = DOMAIN doc /\ new[i].id = doc[i].id /\ new[i].sockets = doc[i].sockets
          /\ \A k \in DOMAIN doc \ {i} : new[k] = doc[k]
      BY <1>1, RoomRenamed
    <3>. HIDE DEF new
    <3>. QED  BY <2>1, <3>1 DEF new
  <2>3. Sockets
    BY <1>1, <2>2, RoomsInOrder
  <2>4. InOrder(doc, a.doc)
    BY <1>3, <2>2, ReplacedInOrder
  <2>5. \A k \in DOMAIN doc, j \in DOMAIN a.doc :
          doc[k].id = a.doc[j].id => a.doc[j].name = doc[k].name \/ doc[k].id = q.id
    BY <1>3, <2>1, <2>2 DEF Distinct
  <2>. QED  BY <1>7, <2>3, <2>4, <2>5
<1>8. CASE RoomDropped(a, q.id)
  <2>1. PICK i \in DOMAIN doc : a.doc = RemoveAt(doc, i)
    BY <1>8 DEF RoomDropped
  <2>2. \A j \in DOMAIN a.doc : \E k \in DOMAIN doc : a.doc[j] = doc[k]
    BY <1>1, <2>1, RemovePicks
  <2>3. Sockets
    BY <1>1, <2>2, RoomsInOrder
  <2>4. InOrder(doc, a.doc)
    BY <1>1, <1>3, <2>1, RemovedInOrder
  <2>5. SameNames
    BY <1>3, <2>2 DEF Distinct
  <2>. QED  BY <1>4, <2>3, <2>4, <2>5 DEF RoomsStay
<1>9. CASE q.route = "order_rooms" /\ RoomsSorted(a)
  <2>1. PICK ids \in Seq(Ids) : Permutation(ids, doc) /\ a.doc = Reordered(doc, ids)
    BY <1>9 DEF RoomsSorted
  <2>2. \A j \in DOMAIN a.doc : \E k \in DOMAIN doc : a.doc[j] = doc[k]
    BY <1>1, <2>1, ReorderPicks DEF Picks
  <2>3. Sockets
    BY <1>1, <2>2, RoomsInOrder
  <2>4. SameNames
    BY <1>3, <2>2 DEF Distinct
  <2>. QED  BY <1>9, <2>3, <2>4
<1>10. ASSUME NEW i \in DOMAIN doc, NEW ss \in Seq(Socket), a.doc = Refill(doc, i, ss)
       PROVE  /\ RoomsStay(doc, a.doc)
              /\ (\A k \in DOMAIN doc : InOrder(doc[k].sockets, ss)) => Sockets
  BY <1>1, <1>3, <1>10, RefillStays, RefillInOrder
<1>11. CASE SocketMade(a)
  <2>1. PICK r \in DOMAIN doc, sock \in Socket :
          IsNew(doc, sock.id) /\ a.doc = Refill(doc, r, Append(doc[r].sockets, sock))
    BY <1>11 DEF SocketMade
  <2>2. Append(doc[r].sockets, sock) \in Seq(Socket)
    BY <1>1
  <2>3. \A k \in DOMAIN doc : InOrder(doc[k].sockets, Append(doc[r].sockets, sock))
    <3>. SUFFICES ASSUME NEW k \in DOMAIN doc
                  PROVE  InOrder(doc[k].sockets, Append(doc[r].sockets, sock))
      OBVIOUS
    <3>1. /\ DOMAIN doc[k].sockets \subseteq Int /\ InOrder(doc[k].sockets, doc[r].sockets)
          /\ \A l \in DOMAIN doc[k].sockets : doc[k].sockets[l].id # sock.id
      BY <1>1, <2>1, DocumentInOrder DEF IsNew
    <3>. QED  BY <1>1, <3>1, AppendedInOrder
  <2>. QED  BY <1>4, <1>10, <2>1, <2>2, <2>3
<1>12. CASE SocketEdited(a, q.id)
  <2>1. PICK i \in DOMAIN doc, t \in DOMAIN doc, m \in Socket :
          /\ m.id = q.id /\ IndexOf(doc[i].sockets, m.id) \in DOMAIN doc[i].sockets
          /\ doc[i].sockets[IndexOf(doc[i].sockets, m.id)].id = m.id
          /\ a.doc = Moved(i, t, m)
    BY <1>12 DEF SocketEdited
  <2>. DEFINE n == IndexOf(doc[i].sockets, m.id)
              old == doc[i].sockets
              new == Append(doc[t].sockets, m)
  <2>2. n \in DOMAIN doc[i].sockets /\ doc[i].sockets[n].id = m.id
    BY <2>1
  <2>3. Sockets
    BY <1>1, <2>1, <2>2, MovedInOrder
  <2>4. RoomsStay(doc, a.doc)
    <3>1. CASE t = i
      <4>1. [old EXCEPT ![n] = m] \in Seq(Socket)
        <5>1. old \in Seq(Socket) /\ n \in DOMAIN old
          BY <1>1, <2>2
        <5>. HIDE DEF old, n
        <5>. QED  BY <5>1
      <4>2. a.doc = Refill(doc, i, [old EXCEPT ![n] = m])
        BY <2>1, <3>1 DEF Moved
      <4>. QED  BY <1>10, <4>1, <4>2
    <3>2. CASE t # i
      <4>. DEFINE ss == RemoveAt(old, n)
                  d == Refill(doc, i, ss)
      <4>1. ss \in Seq(Socket)
        BY <1>1, <2>2, RemovedIs
      <4>2. new \in Seq(Socket)
        BY <1>1
      <4>3. a.doc = Refill(d, t, new)
        BY <2>1, <3>2 DEF Moved, Without
      <4>. HIDE DEF ss, new
      <4>4. d \in Seq(Room) /\ DOMAIN d = DOMAIN doc
        BY <1>1, <4>1, RefillType
      <4>5. RoomsStay(doc, d)
        BY <1>1, <1>3, <4>1, RefillStays
      <4>. HIDE DEF d
      <4>. QED  BY <1>1, <4>2, <4>3, <4>4, <4>5, RefillStays
    <3>. QED  BY <3>1, <3>2
  <2>. QED  BY <1>4, <2>3, <2>4
<1>13. CASE SocketDropped(a, q.id)
  <2>1. PICK i \in DOMAIN doc : \E n \in DOMAIN doc[i].sockets :
          a.doc = Refill(doc, i, RemoveAt(doc[i].sockets, n))
    BY <1>13 DEF SocketDropped
  <2>2. PICK n \in DOMAIN doc[i].sockets : a.doc = Refill(doc, i, RemoveAt(doc[i].sockets, n))
    BY <2>1
  <2>3. RemoveAt(doc[i].sockets, n) \in Seq(Socket)
    BY <1>1, RemovedIs
  <2>4. \A k \in DOMAIN doc : InOrder(doc[k].sockets, doc[i].sockets)
    BY <1>1, DocumentInOrder
  <2>5. \A k \in DOMAIN doc : InOrder(doc[k].sockets, RemoveAt(doc[i].sockets, n))
    BY <1>1, <2>4, RemovedInOrder
  <2>. QED  BY <1>4, <1>10, <2>2, <2>3, <2>5
<1>14. CASE q.route = "order_sockets" /\ SocketsSorted(a, q.id)
  <2>1. PICK i \in DOMAIN doc, ids \in Seq(Ids) :
          /\ doc[i].id = q.id /\ Permutation(ids, doc[i].sockets)
          /\ a.doc = Refill(doc, i, Reordered(doc[i].sockets, ids))
    BY <1>14 DEF SocketsSorted
  <2>. DEFINE ss == Reordered(doc[i].sockets, ids)
  <2>2. ss \in Seq(Socket) /\ \A m \in DOMAIN ss : \E l \in DOMAIN doc[i].sockets : ss[m] = doc[i].sockets[l]
    BY <1>1, <2>1, ReorderPicks DEF Picks
  <2>3. a.doc = Refill(doc, i, ss)
    BY <2>1
  <2>. HIDE DEF ss
  <2>4. \A k \in DOMAIN doc \ {i} : InOrder(doc[k].sockets, ss)
    <3>1. \A k \in DOMAIN doc \ {i} : Apart(doc[k].sockets, doc[i].sockets)
      BY <1>1, DocumentInOrder
    <3>2. \A k \in DOMAIN doc \ {i} : Apart(doc[k].sockets, ss)
      BY <2>2, <3>1 DEF Apart
    <3>. QED  BY <3>2, ApartInOrder
  <2>5. /\ DOMAIN a.doc = DOMAIN doc /\ a.doc[i].sockets = ss
        /\ \A j \in DOMAIN doc \ {i} : a.doc[j] = doc[j]
    BY <1>1, <2>2, <2>3, RefillType
  <2>6. \A k \in DOMAIN doc, j \in DOMAIN a.doc :
          doc[k].id # q.id => InOrder(doc[k].sockets, a.doc[j].sockets)
    <3>1. \A k, j \in DOMAIN doc : InOrder(doc[k].sockets, doc[j].sockets)
      BY <1>1, DocumentInOrder
    <3>. QED  BY <2>1, <2>4, <2>5, <3>1
  <2>7. RoomsStay(doc, a.doc)
    BY <1>10, <2>2, <2>3
  <2>. QED  BY <1>14, <2>6, <2>7 DEF RoomsStay
<1>15. Goal
  BY <1>2, <1>5, <1>6, <1>7, <1>8, <1>9, <1>11, <1>12, <1>13, <1>14
<1>. QED  BY <1>15

(* The places of rooms and sockets, by their ids.                            *)
LEMMA RoomPlace ==
  ASSUME NEW d \in Seq(Room), NEW rid \in RoomsOf(d)
  PROVE  find_room(d, rid) \in DOMAIN d /\ d[find_room(d, rid)].id = rid
BY IndexOfType, RoomsOfIs DEF find_room

LEMMA SocketPlace ==
  ASSUME NEW d \in Seq(Room), NEW s, NEW t, s \in SocketsOf(d), t \in SocketsOf(d),
         SocketBefore(d, s, t)
  PROVE  \E i \in DOMAIN d : \E k, l \in DOMAIN d[i].sockets :
           /\ i = find_socket(d, s) /\ k < l
           /\ d[i].sockets[k].id = s /\ d[i].sockets[l].id = t
<1>. DEFINE i == find_socket(d, s)
            k == IndexOf(d[i].sockets, s)
            l == IndexOf(d[i].sockets, t)
<1>1. find_socket(d, s) # 0 /\ find_socket(d, t) # 0
  BY FindSocket, SocketsOfIs
<1>2. find_socket(d, t) = i /\ k < l
  BY DEF SocketBefore
<1>3. i \in DOMAIN d /\ k \in DOMAIN d[i].sockets /\ d[i].sockets[k].id = s
  BY <1>1, FindSocket
<1>4. l \in DOMAIN d[i].sockets /\ d[i].sockets[l].id = t
  BY <1>1, <1>2, FindSocket
<1>. HIDE DEF i, k, l
<1>. QED  BY <1>2, <1>3, <1>4 DEF i

(* The same of the rooms and sockets by their ids.                           *)
LEMMA PlacesStay ==
  ASSUME IInv, NEW q \in Requests, NEW id \in IdsFor(q), NEW d, d = Respond(q, id).doc
  PROVE  /\ \A r \in RoomsOf(doc) \cap RoomsOf(d) :
              \/ d[find_room(d, r)].name = doc[find_room(doc, r)].name
              \/ q.route = "edit_room" /\ q.id = r
         /\ \A r, t \in RoomsOf(doc) \cap RoomsOf(d) :
              RoomBefore(doc, r, t) /\ ~RoomBefore(d, r, t) => q.route = "order_rooms"
         /\ \A s, t \in SocketsOf(doc) \cap SocketsOf(d) :
              SocketBefore(doc, s, t) /\ SocketBefore(d, t, s) =>
                q.route = "order_sockets" /\ q.id = Placed(doc, s)[1]
<1>1. doc \in Seq(Room) /\ d \in Seq(Room)
  BY ResponseGood DEF IInv, Shape, Good
<1>2. /\ \/ SocketsInOrder(doc, d)
         \/ /\ q.route = "order_sockets"
            /\ \A k \in DOMAIN doc, j \in DOMAIN d :
                 doc[k].id # q.id => InOrder(doc[k].sockets, d[j].sockets)
      /\ InOrder(doc, d) \/ q.route = "order_rooms"
      /\ \A k \in DOMAIN doc, j \in DOMAIN d :
           doc[k].id = d[j].id =>
             d[j].name = doc[k].name \/ (q.route = "edit_room" /\ doc[k].id = q.id)
  <2>. DEFINE a == Respond(q, id)
  <2>1. /\ \/ SocketsInOrder(doc, a.doc)
           \/ /\ q.route = "order_sockets"
              /\ \A k \in DOMAIN doc, j \in DOMAIN a.doc :
                   doc[k].id # q.id => InOrder(doc[k].sockets, a.doc[j].sockets)
        /\ InOrder(doc, a.doc) \/ q.route = "order_rooms"
        /\ \A k \in DOMAIN doc, j \in DOMAIN a.doc :
             doc[k].id = a.doc[j].id =>
               a.doc[j].name = doc[k].name \/ (q.route = "edit_room" /\ doc[k].id = q.id)
    BY RequestsInOrder
  <2>2. d = a.doc
    OBVIOUS
  <2>. HIDE DEF a
  <2>. QED  BY <2>1, <2>2
<1>3. ASSUME NEW r \in RoomsOf(doc) \cap RoomsOf(d)
      PROVE  \/ d[find_room(d, r)].name = doc[find_room(doc, r)].name
             \/ q.route = "edit_room" /\ q.id = r
  BY <1>1, <1>2, <1>3, RoomPlace
<1>4. ASSUME NEW r \in RoomsOf(doc) \cap RoomsOf(d), NEW t \in RoomsOf(doc) \cap RoomsOf(d),
             RoomBefore(doc, r, t), ~RoomBefore(d, r, t)
      PROVE  q.route = "order_rooms"
  <2>1. /\ find_room(doc, r) \in DOMAIN doc /\ doc[find_room(doc, r)].id = r
        /\ find_room(doc, t) \in DOMAIN doc /\ doc[find_room(doc, t)].id = t
        /\ find_room(d, r) \in DOMAIN d /\ d[find_room(d, r)].id = r
        /\ find_room(d, t) \in DOMAIN d /\ d[find_room(d, t)].id = t
    BY <1>1, RoomPlace
  <2>. QED  BY <1>2, <1>4, <2>1 DEF InOrder, RoomBefore
<1>5. ASSUME NEW s \in SocketsOf(doc) \cap SocketsOf(d), NEW t \in SocketsOf(doc) \cap SocketsOf(d),
             SocketBefore(doc, s, t), SocketBefore(d, t, s)
      PROVE  q.route = "order_sockets" /\ q.id = Placed(doc, s)[1]
  <2>1. PICK i \in DOMAIN doc : \E k, l \in DOMAIN doc[i].sockets :
           /\ i = find_socket(doc, s) /\ k < l
           /\ doc[i].sockets[k].id = s /\ doc[i].sockets[l].id = t
    BY <1>1, <1>5, SocketPlace
  <2>2. PICK k \in DOMAIN doc[i].sockets, l \in DOMAIN doc[i].sockets :
           /\ i = find_socket(doc, s) /\ k < l
           /\ doc[i].sockets[k].id = s /\ doc[i].sockets[l].id = t
    BY <2>1
  <2>3. PICK j \in DOMAIN d : \E m, n \in DOMAIN d[j].sockets :
           m < n /\ d[j].sockets[m].id = t /\ d[j].sockets[n].id = s
    <3>1. \E j \in DOMAIN d : \E m, n \in DOMAIN d[j].sockets :
            /\ j = find_socket(d, t) /\ m < n
            /\ d[j].sockets[m].id = t /\ d[j].sockets[n].id = s
      BY <1>1, <1>5, SocketPlace
    <3>. QED  BY <3>1
  <2>4. PICK m \in DOMAIN d[j].sockets, n \in DOMAIN d[j].sockets :
           m < n /\ d[j].sockets[m].id = t /\ d[j].sockets[n].id = s
    BY <2>3
  <2>5. m \in Int /\ n \in Int
    BY <1>1, RoomType
  <2>6. ~InOrder(doc[i].sockets, d[j].sockets)
    <3>. SUFFICES ASSUME InOrder(doc[i].sockets, d[j].sockets) PROVE FALSE
      OBVIOUS
    <3>1. n < m
      BY <2>2, <2>4 DEF InOrder
    <3>. QED  BY <2>4, <2>5, <3>1
  <2>7. q.route = "order_sockets" /\ doc[i].id = q.id
    BY <1>2, <2>6 DEF SocketsInOrder
  <2>8. Placed(doc, s)[1] = doc[i].id
    BY <2>2 DEF Placed
  <2>. QED  BY <2>7, <2>8
<1>. QED  BY <1>3, <1>4, <1>5

(* Whatever a request does, it does to what its URL names: the other sockets *)
(* keep their room and their record, the other rooms their name, only        *)
(* delete_socket() and delete_room() (of an empty room) take an entry away,  *)
(* and only the order routes change the order of what stays together.        *)
THEOREM OnlyWhatTheUrlNames == Spec => OthersAreLeftAlone
<1>1. ASSUME IInv, NEW q \in Requests, NEW id \in IdsFor(q), NEW d, d = Respond(q, id).doc
      PROVE  /\ \A s \in SocketsOf(doc) \ {q.id} : s \in SocketsOf(d) /\ Placed(d, s) = Placed(doc, s)
             /\ SocketsOf(doc) \ SocketsOf(d) # {} => q.route = "delete_socket"
             /\ \A r \in RoomsOf(doc) \ RoomsOf(d) :
                  /\ q.route = "delete_room" /\ q.id = r
                  /\ doc[find_room(doc, r)].sockets = <<>>
  <2>. DEFINE a == Respond(q, id)
  <2>1. doc \in Seq(Room) /\ check_document(doc)
    BY <1>1 DEF IInv, Shape, DocumentStaysLoadable
  <2>2. d \in Seq(Room) /\ check_document(d)
    BY <1>1, ResponseGood DEF Good
  <2>3. d = a.doc
    BY <1>1
  <2>4. /\ \/ Touches(doc, d, {})
           \/ \E sid : IsNew(doc, sid) /\ Touches(doc, d, {sid})
           \/ Touches(doc, d, {q.id}) /\ q.id \in SocketsOf(d)
           \/ Touches(doc, d, {q.id}) /\ q.route = "delete_socket"
        /\ \/ RoomsOf(doc) \subseteq RoomsOf(d)
           \/ /\ q.route = "delete_room"
              /\ \E i \in DOMAIN doc : /\ doc[i].id = q.id /\ doc[i].sockets = <<>>
                                      /\ RoomsOf(doc) \ {q.id} \subseteq RoomsOf(d)
    <3>1. /\ \/ Touches(doc, a.doc, {})
             \/ \E sid : IsNew(doc, sid) /\ Touches(doc, a.doc, {sid})
             \/ Touches(doc, a.doc, {q.id}) /\ q.id \in SocketsOf(a.doc)
             \/ Touches(doc, a.doc, {q.id}) /\ q.route = "delete_socket"
          /\ \/ RoomsOf(doc) \subseteq RoomsOf(a.doc)
             \/ /\ q.route = "delete_room"
                /\ \E i \in DOMAIN doc : /\ doc[i].id = q.id /\ doc[i].sockets = <<>>
                                        /\ RoomsOf(doc) \ {q.id} \subseteq RoomsOf(a.doc)
      BY <1>1, ChangesTouch
    <3>. HIDE DEF a
    <3>. QED  BY <2>3, <3>1
  <2>. HIDE DEF a
  <2>5. \A X : \A s \in SocketsOf(doc) : Kept(doc, d, X) /\ s \notin X =>
          s \in SocketsOf(d) /\ Placed(d, s) = Placed(doc, s)
    BY <2>1, <2>2, KeptPlaced
  <2>6. \A sid : IsNew(doc, sid) => sid \notin SocketsOf(doc)
    BY SocketsOfIs DEF IsNew
  <2>7. CASE Touches(doc, d, {}) \/ \E sid : IsNew(doc, sid) /\ Touches(doc, d, {sid})
    <3>1. \A s \in SocketsOf(doc) : s \in SocketsOf(d) /\ Placed(d, s) = Placed(doc, s)
      BY <2>5, <2>6, <2>7 DEF Touches
    <3>. QED  BY <2>1, <2>4, <3>1, RoomGone
  <2>8. CASE Touches(doc, d, {q.id}) /\ (q.id \in SocketsOf(d) \/ q.route = "delete_socket")
    <3>1. \A s \in SocketsOf(doc) \ {q.id} : s \in SocketsOf(d) /\ Placed(d, s) = Placed(doc, s)
      BY <2>5, <2>8 DEF Touches
    <3>. QED  BY <2>1, <2>4, <2>8, <3>1, RoomGone
  <2>. QED  BY <2>4, <2>7, <2>8
<1>2. ASSUME IInv, Next
      PROVE  \E q \in Requests :
               /\ Handle(q)
               /\ \A s \in SocketsOf(doc) \ {q.id} :
                    s \in SocketsOf(doc') /\ Placed(doc', s) = Placed(doc, s)
               /\ SocketsOf(doc) \ SocketsOf(doc') # {} => q.route = "delete_socket"
               /\ \A r \in RoomsOf(doc) \ RoomsOf(doc') :
                    /\ q.route = "delete_room" /\ q.id = r
                    /\ doc[find_room(doc, r)].sockets = <<>>
               /\ \A r \in RoomsOf(doc) \cap RoomsOf(doc') :
                    \/ doc'[find_room(doc', r)].name = doc[find_room(doc, r)].name
                    \/ q.route = "edit_room" /\ q.id = r
               /\ \A r, t \in RoomsOf(doc) \cap RoomsOf(doc') :
                    RoomBefore(doc, r, t) /\ ~RoomBefore(doc', r, t) => q.route = "order_rooms"
               /\ \A s, t \in SocketsOf(doc) \cap SocketsOf(doc') :
                    SocketBefore(doc, s, t) /\ SocketBefore(doc', t, s) =>
                      q.route = "order_sockets" /\ q.id = Placed(doc, s)[1]
  <2>1. PICK q \in Requests : Handle(q)
    BY <1>2 DEF Next
  <2>2. PICK id \in IdsFor(q) : doc' = Respond(q, id).doc
    BY <2>1 DEF Handle
  <2>3. /\ \A s \in SocketsOf(doc) \ {q.id} :
             s \in SocketsOf(doc') /\ Placed(doc', s) = Placed(doc, s)
        /\ SocketsOf(doc) \ SocketsOf(doc') # {} => q.route = "delete_socket"
        /\ \A r \in RoomsOf(doc) \ RoomsOf(doc') :
             /\ q.route = "delete_room" /\ q.id = r
             /\ doc[find_room(doc, r)].sockets = <<>>
    BY <1>1, <1>2, <2>2
  <2>4. /\ \A r \in RoomsOf(doc) \cap RoomsOf(doc') :
             \/ doc'[find_room(doc', r)].name = doc[find_room(doc, r)].name
             \/ q.route = "edit_room" /\ q.id = r
        /\ \A r, t \in RoomsOf(doc) \cap RoomsOf(doc') :
             RoomBefore(doc, r, t) /\ ~RoomBefore(doc', r, t) => q.route = "order_rooms"
        /\ \A s, t \in SocketsOf(doc) \cap SocketsOf(doc') :
             SocketBefore(doc, s, t) /\ SocketBefore(doc', t, s) =>
               q.route = "order_sockets" /\ q.id = Placed(doc, s)[1]
    BY <1>2, <2>2, PlacesStay
  <2>. QED  BY <2>1, <2>3, <2>4
<1>. QED  BY <1>2, Inductive, PTL DEF Spec, OthersAreLeftAlone

(* Two sockets that come to share an address: the answer of the request that *)
(* makes them do so names one of the two, because duplicate_warnings() sees  *)
(* the document as it is stored.                                             *)
THEOREM SharingIsTold == Spec => []NewSharingIsTold
<1>. DEFINE Shared(d) == {p \in SocketsOf(d) \X SocketsOf(d) :
               p[1] # p[2] /\ address_of(SocketOf(d, p[1])) = address_of(SocketOf(d, p[2]))}
<1>1. ASSUME IInv, NEW q \in Requests, NEW id \in IdsFor(q), NEW a, a = Respond(q, id),
             NEW p \in Shared(a.doc) \ Shared(doc)
      PROVE  p[1] \in a.warn \/ p[2] \in a.warn
  <2>1. doc \in Seq(Room) /\ check_document(doc)
    BY <1>1 DEF IInv, Shape, DocumentStaysLoadable
  <2>2. a.doc \in Seq(Room) /\ check_document(a.doc)
    BY <1>1, ResponseGood DEF Good
  <2>3. /\ p[1] \in SocketsOf(a.doc) /\ p[2] \in SocketsOf(a.doc) /\ p[1] # p[2]
        /\ address_of(SocketOf(a.doc, p[1])) = address_of(SocketOf(a.doc, p[2]))
        /\ p = <<p[1], p[2]>>
    OBVIOUS
  <2>4. ~(/\ p[1] \in SocketsOf(doc) /\ p[2] \in SocketsOf(doc)
          /\ address_of(SocketOf(doc, p[1])) = address_of(SocketOf(doc, p[2])))
    BY <2>3
  <2>. HIDE DEF Shared
  <2>5. \A X : \A s \in SocketsOf(a.doc) : Kept(a.doc, doc, X) /\ s \notin X =>
          s \in SocketsOf(doc) /\ SocketOf(doc, s) = SocketOf(a.doc, s)
    BY <2>1, <2>2, KeptPlaced
  <2>6. \A X : Touches(doc, a.doc, X) => p[1] \in X \/ p[2] \in X
    BY <2>3, <2>4, <2>5 DEF Touches
  <2>7. \A s : Touches(doc, a.doc, {s}) /\ a.warn = duplicate_warnings(a.doc, s) =>
                p[1] \in a.warn \/ p[2] \in a.warn
    BY <2>3, <2>6 DEF duplicate_warnings
  <2>8. Touches(doc, a.doc, {q.id}) => q.id \in SocketsOf(a.doc)
    BY <2>3, <2>6
  <2>. QED  BY <1>1, <2>6, <2>7, <2>8, ChangesTouch
<1>2. IInv => NewSharingIsTold
  BY <1>1 DEF NewSharingIsTold
<1>. QED  BY <1>2, Inductive, PTL

-----------------------------------------------------------------------------
(* The status of an answer, when the id of the URL is gone or not and the    *)
(* body is bad or not.                                                       *)
Ordered(a, gone, bad) ==
  \/ gone /\ a = ApiError(404, NULL)
  \/ ~gone /\ bad /\ \E field : a = ApiError(422, field)
  \/ ~gone /\ ~bad /\ \E field : a = ApiError(409, field)
  \/ ~gone /\ ~bad /\ \E d, warn : a = Mutated(200, d, warn)
  \/ ~gone /\ ~bad /\ \E d, warn : a = Mutated(201, d, warn)
  \/ ~gone /\ ~bad /\ \E d, warn : a = Mutated(204, d, warn)
  \/ ~gone /\ ~bad /\ a = Answer(200, NULL, doc, {})

LEMMA OrderedStatus ==
  ASSUME NEW a, NEW gone \in BOOLEAN, NEW bad \in BOOLEAN, Ordered(a, gone, bad)
  PROVE  /\ a.status \notin {415, 400}
         /\ a.status = 404 <=> gone
         /\ a.status = 422 <=> ~gone /\ bad
         /\ a.status \in {200, 201, 204} \/ a.doc = doc
<1>1. \A status, field, d, warn :
        LET b == Answer(status, field, d, warn)
        IN  b.status = status /\ b.field = field /\ b.doc = d
  BY DEF Answer
<1>2. CASE gone /\ a = ApiError(404, NULL)
  BY <1>1, <1>2 DEF ApiError
<1>3. CASE ~gone /\ bad /\ \E field : a = ApiError(422, field)
  BY <1>1, <1>3 DEF ApiError
<1>4. CASE ~gone /\ ~bad /\ \E field : a = ApiError(409, field)
  BY <1>1, <1>4 DEF ApiError
<1>5. CASE ~gone /\ ~bad /\ a = Answer(200, NULL, doc, {})
  BY <1>1, <1>5
<1>6. ASSUME NEW status \in {200, 201, 204}, NEW d, NEW warn, ~gone, ~bad,
             a = Answer(500, NULL, doc, {}) \/ a = Answer(status, NULL, d, warn)
      PROVE  /\ a.status \notin {415, 400, 404, 422}
             /\ a.status \in {200, 201, 204} \/ a.doc = doc
  BY <1>1, <1>6
<1>7. CASE ~gone /\ ~bad /\ \E d, warn : a = Mutated(200, d, warn)
  <2>1. PICK d, warn : a = Mutated(200, d, warn)
    BY <1>7
  <2>2. a = Answer(500, NULL, doc, {}) \/ a = Answer(200, NULL, d, warn)
    BY <2>1, Zenon DEF Mutated, ApiError
  <2>. QED  BY <1>6, <1>7, <2>2
<1>8. CASE ~gone /\ ~bad /\ \E d, warn : a = Mutated(201, d, warn)
  <2>1. PICK d, warn : a = Mutated(201, d, warn)
    BY <1>8
  <2>2. a = Answer(500, NULL, doc, {}) \/ a = Answer(201, NULL, d, warn)
    BY <2>1, Zenon DEF Mutated, ApiError
  <2>. QED  BY <1>6, <1>8, <2>2
<1>9. CASE ~gone /\ ~bad /\ \E d, warn : a = Mutated(204, d, warn)
  <2>1. PICK d, warn : a = Mutated(204, d, warn)
    BY <1>9
  <2>2. a = Answer(500, NULL, doc, {}) \/ a = Answer(204, NULL, d, warn)
    BY <2>1, Zenon DEF Mutated, ApiError
  <2>. QED  BY <1>6, <1>9, <2>2
<1>. QED  BY <1>2, <1>3, <1>4, <1>5, <1>7, <1>8, <1>9 DEF Ordered

(* The ways for an answer to be in order.                                    *)
LEMMA OrderedWays ==
  ASSUME NEW a, NEW gone \in BOOLEAN, NEW bad \in BOOLEAN
  PROVE  /\ gone /\ a = ApiError(404, NULL) => Ordered(a, gone, bad)
         /\ \A field : ~gone /\ bad /\ a = ApiError(422, field) => Ordered(a, gone, bad)
         /\ \A field : ~gone /\ ~bad /\ a = ApiError(409, field) => Ordered(a, gone, bad)
         /\ \A d, warn : ~gone /\ ~bad /\ a = Mutated(200, d, warn) => Ordered(a, gone, bad)
         /\ \A d, warn : ~gone /\ ~bad /\ a = Mutated(201, d, warn) => Ordered(a, gone, bad)
         /\ \A d, warn : ~gone /\ ~bad /\ a = Mutated(204, d, warn) => Ordered(a, gone, bad)
         /\ ~gone /\ ~bad /\ a = Answer(200, NULL, doc, {}) => Ordered(a, gone, bad)
<1>1. ASSUME NEW d, NEW warn, ~gone, ~bad, a = Mutated(200, d, warn) PROVE Ordered(a, gone, bad)
  <2>1. \E e, w : a = Mutated(200, e, w)
    BY <1>1, Zenon
  <2>. QED  BY <1>1, <2>1 DEF Ordered
<1>2. ASSUME NEW d, NEW warn, ~gone, ~bad, a = Mutated(201, d, warn) PROVE Ordered(a, gone, bad)
  <2>1. \E e, w : a = Mutated(201, e, w)
    BY <1>2, Zenon
  <2>. QED  BY <1>2, <2>1 DEF Ordered
<1>3. ASSUME NEW d, NEW warn, ~gone, ~bad, a = Mutated(204, d, warn) PROVE Ordered(a, gone, bad)
  <2>1. \E e, w : a = Mutated(204, e, w)
    BY <1>3, Zenon
  <2>. QED  BY <1>3, <2>1 DEF Ordered
<1>4. gone /\ a = ApiError(404, NULL) => Ordered(a, gone, bad)
  BY Zenon DEF Ordered
<1>5. \A field : ~gone /\ bad /\ a = ApiError(422, field) => Ordered(a, gone, bad)
  BY Zenon DEF Ordered
<1>6. \A field : ~gone /\ ~bad /\ a = ApiError(409, field) => Ordered(a, gone, bad)
  BY Zenon DEF Ordered
<1>7. ~gone /\ ~bad /\ a = Answer(200, NULL, doc, {}) => Ordered(a, gone, bad)
  BY Zenon DEF Ordered
<1>8. /\ \A d, warn : ~gone /\ ~bad /\ a = Mutated(200, d, warn) => Ordered(a, gone, bad)
      /\ \A d, warn : ~gone /\ ~bad /\ a = Mutated(201, d, warn) => Ordered(a, gone, bad)
      /\ \A d, warn : ~gone /\ ~bad /\ a = Mutated(204, d, warn) => Ordered(a, gone, bad)
  BY <1>1, <1>2, <1>3
<1>. QED  BY <1>4, <1>5, <1>6, <1>7, <1>8

(* What is bad in the body of each route, as the route finds it.             *)
BadName(body) == clean_name(Get(body, "name")) = NULL

NewSocketOf(body, id) == [id |-> id, name |-> clean_name(Get(body, "name")),
                          type |-> Get(body, "type"), group |-> Get(body, "group")]

BadNew(body, id) ==
  \/ UnknownField(body, FIELDS)
  \/ BadName(body)
  \/ check_socket_fields(NewSocketOf(body, id)) # NULL

BadEdit(sid, body) ==
  LET i == find_socket(doc, sid)
      merged == Merged(SocketOf(doc, sid), body)
  IN  \/ UnknownField(body, FIELDS \cup {"room_id"})
      \/ merged.name = NULL
      \/ check_socket_fields(merged) # NULL
      \/ target_room(i, body) = 0

BadOrder(body)  == UnknownField(body, {"ids"}) \/ NoIdList(body)
BadSwitch(body) == UnknownField(body, {"state"}) \/ Get(body, "state") \notin {"on", "off"}

LEMMA RoomsOrdered ==
  ASSUME NEW body, NEW rid, NEW id
  PROVE  LET gone == find_room(doc, rid) = 0
             unknown == UnknownField(body, {"name"})
         IN  /\ Ordered(create_room(body, id), FALSE, unknown \/ BadName(body))
             /\ Ordered(edit_room(rid, body), gone, unknown \/ (DOMAIN body # {} /\ BadName(body)))
             /\ Ordered(delete_room(rid), gone, FALSE)
             /\ Ordered(order_rooms(body), FALSE, BadOrder(body))
             /\ Ordered(room_all_off(rid, body), gone, UnknownField(body, {}))
<1>. DEFINE i == find_room(doc, rid)
            gone == i = 0
            unknown == UnknownField(body, {"name"})
            name == clean_name(Get(body, "name"))
<1>g. gone \in BOOLEAN /\ unknown \in BOOLEAN /\ UnknownField(body, {}) \in BOOLEAN
      /\ BadName(body) \in BOOLEAN /\ BadOrder(body) \in BOOLEAN
  BY DEF UnknownField, BadName, BadOrder
<1>1. ASSUME NEW a, a = create_room(body, id), NEW g \in BOOLEAN, ~g,
             NEW bad \in BOOLEAN, bad <=> unknown \/ BadName(body)
      PROVE  Ordered(a, g, bad)
  <2>. DEFINE new == Append(doc, [id |-> id, name |-> name, sockets |-> <<>>])
  <2>1. \/ unknown /\ a = ApiError(422, "unknown")
        \/ name = NULL /\ a = ApiError(422, "name")
        \/ ~unknown /\ name # NULL /\ (a = ApiError(409, "name") \/ a = Mutated(201, new, {}))
    <3>1. CreateRoomCases(a, body, id)
      BY <1>1, CreateRoomSteps
    <3>. QED  BY <3>1, ZenonT(30) DEF CreateRoomCases
  <2>2. BadName(body) <=> name = NULL
    BY DEF BadName
  <2>. HIDE DEF new, name, unknown
  <2>. QED  BY <1>1, <2>1, <2>2, OrderedWays
<1>2. ASSUME NEW a, a = edit_room(rid, body),
             NEW bad \in BOOLEAN, bad <=> unknown \/ (DOMAIN body # {} /\ BadName(body))
      PROVE  Ordered(a, gone, bad)
  <2>. DEFINE none == DOMAIN body = {}
  <2>1. \/ gone /\ a = ApiError(404, NULL)
        \/ ~gone /\ unknown /\ a = ApiError(422, "unknown")
        \/ ~gone /\ ~none /\ name = NULL /\ a = ApiError(422, "name")
        \/ ~gone /\ ~unknown /\ none /\ a = Mutated(200, doc, {})
        \/ /\ ~gone /\ ~unknown /\ name # NULL
           /\ a = ApiError(409, "name") \/ a = Mutated(200, Renamed(doc, i, name), {})
    <3>1. EditRoomCases(a, rid, body)
      BY <1>2, EditRoomSteps
    <3>. QED  BY <3>1, ZenonT(30) DEF EditRoomCases
  <2>2. BadName(body) <=> name = NULL
    BY DEF BadName
  <2>3. bad <=> unknown \/ (~none /\ BadName(body))
    BY <1>2
  <2>. HIDE DEF gone, name, unknown, none
  <2>. QED  BY <1>g, <2>1, <2>2, <2>3, OrderedWays
<1>3. ASSUME NEW a, a = delete_room(rid) PROVE Ordered(a, gone, FALSE)
  BY <1>g, <1>3, OrderedWays, ZenonT(60) DEF delete_room
<1>4. ASSUME NEW a, a = order_rooms(body), NEW g \in BOOLEAN, ~g PROVE Ordered(a, g, BadOrder(body))
  <2>1. \/ BadOrder(body) /\ (a = ApiError(422, "unknown") \/ a = ApiError(422, "ids"))
        \/ /\ ~BadOrder(body)
           /\ a = ApiError(409, NULL) \/ a = Mutated(200, Reordered(doc, body["ids"]), {})
    BY <1>4, ZenonT(30) DEF order_rooms, BadOrder
  <2>. QED  BY <1>4, <1>g, <2>1, OrderedWays
<1>5. ASSUME NEW a, a = room_all_off(rid, body)
      PROVE  Ordered(a, gone, UnknownField(body, {}))
  BY <1>g, <1>5, OrderedWays, ZenonT(60) DEF room_all_off
<1>6. Ordered(create_room(body, id), FALSE, unknown \/ BadName(body))
  BY <1>1, <1>g
<1>7. Ordered(edit_room(rid, body), gone, unknown \/ (DOMAIN body # {} /\ BadName(body)))
  BY <1>2, <1>g
<1>. QED  BY <1>3, <1>4, <1>5, <1>6, <1>7, Zenon

LEMMA SocketsOrdered ==
  ASSUME NEW body, NEW rid, NEW sid, NEW id
  PROVE  LET gone == find_socket(doc, sid) = 0
         IN  /\ Ordered(create_socket(rid, body, id), find_room(doc, rid) = 0, BadNew(body, id))
             /\ Ordered(edit_socket(sid, body), gone, BadEdit(sid, body))
             /\ Ordered(delete_socket(sid), gone, FALSE)
             /\ Ordered(order_sockets(rid, body), find_room(doc, rid) = 0, BadOrder(body))
             /\ Ordered(switch(sid, body), gone, BadSwitch(body))
<1>. DEFINE i == find_socket(doc, sid)
            r == find_room(doc, rid)
            gone == i = 0
            none == r = 0
            t == target_room(i, body)
            sock == NewSocketOf(body, id)
            merged == Merged(SocketOf(doc, sid), body)
            made == Refill(doc, r, Append(doc[r].sockets, sock))
            moved == Moved(i, t, merged)
<1>0. /\ gone \in BOOLEAN /\ none \in BOOLEAN /\ BadNew(body, id) \in BOOLEAN
      /\ BadEdit(sid, body) \in BOOLEAN /\ BadOrder(body) \in BOOLEAN /\ BadSwitch(body) \in BOOLEAN
  BY DEF BadNew, BadEdit, BadOrder, BadSwitch
<1>1. ASSUME NEW a, a = delete_socket(sid) PROVE Ordered(a, gone, FALSE)
  BY <1>0, <1>1, OrderedWays, ZenonT(60) DEF delete_socket
<1>2. ASSUME NEW a, a = order_sockets(rid, body) PROVE Ordered(a, none, BadOrder(body))
  <2>. DEFINE bad == BadOrder(body)
  <2>1. \/ none /\ a = ApiError(404, NULL)
        \/ ~none /\ bad /\ (a = ApiError(422, "unknown") \/ a = ApiError(422, "ids"))
        \/ ~none /\ ~bad /\ a = ApiError(409, NULL)
        \/ ~none /\ ~bad /\ a = Mutated(200, Refill(doc, r, Reordered(doc[r].sockets, body["ids"])), {})
    <3>1. CASE none
      <4>1. a = ApiError(404, NULL)
        BY <1>2, <3>1, Zenon DEF order_sockets
      <4>. QED  BY <3>1, <4>1, Zenon
    <3>2. CASE ~none /\ bad
      BY <1>2, <3>2, ZenonT(30) DEF order_sockets, BadOrder
    <3>3. CASE ~none /\ ~bad
      BY <1>2, <3>3, ZenonT(30) DEF order_sockets, BadOrder
    <3>. QED  BY <3>1, <3>2, <3>3, Zenon
  <2>. HIDE DEF none, bad
  <2>. QED  BY <1>0, <2>1, OrderedWays DEF bad
<1>3. ASSUME NEW a, a = switch(sid, body) PROVE Ordered(a, gone, BadSwitch(body))
  <2>. DEFINE bad == BadSwitch(body)
  <2>1. \/ gone /\ a = ApiError(404, NULL)
        \/ ~gone /\ bad /\ (a = ApiError(422, "unknown") \/ a = ApiError(422, "state"))
        \/ ~gone /\ ~bad /\ a = Answer(200, NULL, doc, {})
    BY <1>3, ZenonT(60) DEF switch, BadSwitch
  <2>. HIDE DEF gone, bad
  <2>. QED  BY <1>0, <2>1, OrderedWays DEF bad
<1>4. ASSUME NEW a, a = create_socket(rid, body, id) PROVE Ordered(a, none, BadNew(body, id))
  <2>. DEFINE unknown == UnknownField(body, FIELDS)
              problem == check_socket_fields(sock)
  <2>1. \/ none /\ a = ApiError(404, NULL)
        \/ ~none /\ unknown /\ a = ApiError(422, "unknown")
        \/ ~none /\ sock.name = NULL /\ a = ApiError(422, "name")
        \/ ~none /\ problem # NULL /\ a = ApiError(422, problem)
        \/ /\ ~none /\ ~unknown /\ sock.name # NULL /\ problem = NULL
           /\ a = ApiError(409, "name") \/ a = Mutated(201, made, duplicate_warnings(made, id))
    <3>1. CreateSocketCases(a, rid, body, id)
      BY <1>4, CreateSocketSteps
    <3>. QED  BY <3>1, ZenonT(60) DEF CreateSocketCases, NewSocketOf
  <2>2. sock.name = clean_name(Get(body, "name"))
    BY DEF NewSocketOf
  <2>3. BadNew(body, id) <=> unknown \/ sock.name = NULL \/ problem # NULL
    BY <2>2 DEF BadNew, BadName
  <2>. HIDE DEF none, sock, made, unknown, problem
  <2>. QED  BY <1>0, <2>1, <2>3, OrderedWays
<1>5. ASSUME NEW a, a = edit_socket(sid, body) PROVE Ordered(a, gone, BadEdit(sid, body))
  <2>. DEFINE unknown == UnknownField(body, FIELDS \cup {"room_id"})
              problem == check_socket_fields(merged)
  <2>1. \/ gone /\ a = ApiError(404, NULL)
        \/ ~gone /\ unknown /\ a = ApiError(422, "unknown")
        \/ ~gone /\ merged.name = NULL /\ a = ApiError(422, "name")
        \/ ~gone /\ problem # NULL /\ a = ApiError(422, problem)
        \/ ~gone /\ t = 0 /\ a = ApiError(422, "room_id")
        \/ /\ ~gone /\ ~unknown /\ merged.name # NULL /\ problem = NULL /\ t # 0
           /\ a = ApiError(409, "name") \/ a = Mutated(200, moved, duplicate_warnings(moved, sid))
    <3>1. EditSocketCases(a, sid, body)
      BY <1>5, EditSocketSteps
    <3>. QED  BY <3>1, ZenonT(60) DEF EditSocketCases
  <2>2. BadEdit(sid, body) <=> unknown \/ merged.name = NULL \/ problem # NULL \/ t = 0
    BY DEF BadEdit
  <2>. HIDE DEF gone, merged, moved, t, i, unknown, problem
  <2>. QED  BY <1>0, <2>1, <2>2, OrderedWays
<1>. QED  BY <1>1, <1>2, <1>3, <1>4, <1>5, Zenon

(* check_socket_fields() finds a problem exactly when the address is not     *)
(* valid for its type.                                                       *)
LEMMA FieldsChecked ==
  ASSUME NEW f
  PROVE  check_socket_fields(f) # NULL <=> f.type \notin DOMAIN Limit \/ ~address_ok(f.type, f.group)
<1>1. "type" # NULL /\ "group" # NULL
  BY HouseholdAssumption DEF FIELDS
<1>. QED  BY <1>1, ZenonT(30) DEF check_socket_fields

(* What the routes find is what BodyIsBad() says.                            *)
LEMMA BodyFound ==
  ASSUME IInv, NEW q \in Requests, NEW id
  PROVE  LET unknown == UnknownField(q.body, {"name"})
         IN  /\ q.route = "create_room" => BodyIsBad(q) = (unknown \/ BadName(q.body))
             /\ q.route = "edit_room" =>
                  BodyIsBad(q) = (unknown \/ (DOMAIN q.body # {} /\ BadName(q.body)))
             /\ q.route \in NoBody => BodyIsBad(q) = FALSE
             /\ q.route \in {"order_rooms", "order_sockets"} => BodyIsBad(q) = BadOrder(q.body)
             /\ q.route = "room_all_off" => BodyIsBad(q) = UnknownField(q.body, {})
             /\ q.route = "switch" => BodyIsBad(q) = BadSwitch(q.body)
             /\ q.route = "create_socket" => BodyIsBad(q) = BadNew(q.body, id)
             /\ q.route = "edit_socket" /\ find_socket(doc, q.id) # 0 =>
                  BodyIsBad(q) = BadEdit(q.id, q.body)
<1>. DEFINE body == q.body
<1>0. BodyIsBad(q) \in BOOLEAN
  BY DEF BodyIsBad
<1>1. ASSUME q.route = "create_room"
      PROVE  BodyIsBad(q) = (UnknownField(body, {"name"}) \/ BadName(body))
  <2>1. FieldsOf(q.route) = {"name"} /\ q.route \notin NoBody
    BY <1>1 DEF FieldsOf, NoBody
  <2>. QED  BY <1>1, <2>1 DEF BodyIsBad, UnknownField, BadName
<1>2. ASSUME q.route = "edit_room"
      PROVE  BodyIsBad(q) = (UnknownField(body, {"name"}) \/ (DOMAIN body # {} /\ BadName(body)))
  <2>1. FieldsOf(q.route) = {"name"} /\ q.route \notin NoBody
    BY <1>2 DEF FieldsOf, NoBody
  <2>. QED  BY <1>2, <2>1 DEF BodyIsBad, UnknownField, BadName
<1>3. ASSUME q.route \in NoBody PROVE BodyIsBad(q) = FALSE
  BY <1>3 DEF BodyIsBad
<1>4. ASSUME q.route \in {"order_rooms", "order_sockets"}
      PROVE  BodyIsBad(q) = BadOrder(body)
  <2>1. FieldsOf(q.route) = {"ids"} /\ q.route \notin NoBody
    BY <1>4 DEF FieldsOf, NoBody
  <2>. QED  BY <1>4, <2>1 DEF BodyIsBad, UnknownField, BadOrder, NoIdList
<1>5. ASSUME q.route = "room_all_off" PROVE BodyIsBad(q) = UnknownField(body, {})
  <2>1. FieldsOf(q.route) = {} /\ q.route \notin NoBody
    BY <1>5 DEF FieldsOf, NoBody
  <2>. QED  BY <1>5, <2>1 DEF BodyIsBad, UnknownField
<1>6. ASSUME q.route = "switch" PROVE BodyIsBad(q) = BadSwitch(body)
  <2>1. FieldsOf(q.route) = {"state"} /\ q.route \notin NoBody
    BY <1>6 DEF FieldsOf, NoBody
  <2>. QED  BY <1>6, <2>1 DEF BodyIsBad, UnknownField, BadSwitch
<1>7. ASSUME q.route = "create_socket" PROVE BodyIsBad(q) = BadNew(body, id)
  <2>1. FieldsOf(q.route) = FIELDS /\ q.route \notin NoBody
    BY <1>7 DEF FieldsOf, NoBody
  <2>2. /\ NewSocketOf(body, id).type = Get(body, "type")
        /\ NewSocketOf(body, id).group = Get(body, "group")
    BY DEF NewSocketOf
  <2>3. check_socket_fields(NewSocketOf(body, id)) # NULL <=>
          Get(body, "type") \notin DOMAIN Limit \/ ~address_ok(Get(body, "type"), Get(body, "group"))
    BY <2>2, FieldsChecked
  <2>4. BodyIsBad(q) <=>
          \/ ~(DOMAIN body \subseteq FIELDS)
          \/ clean_name(Get(body, "name")) = NULL
          \/ Get(body, "type") \notin DOMAIN Limit
          \/ ~address_ok(Get(body, "type"), Get(body, "group"))
    BY <1>7, <2>1 DEF BodyIsBad, FIELDS
  <2>. QED  BY <1>0, <2>3, <2>4 DEF BadNew, BadName, UnknownField
<1>8. ASSUME q.route = "edit_socket", find_socket(doc, q.id) # 0
      PROVE  BodyIsBad(q) = BadEdit(q.id, body)
  <2>. DEFINE old == SocketOf(doc, q.id)
              type == IF "type" \in DOMAIN body THEN body["type"] ELSE old.type
              group == IF "group" \in DOMAIN body THEN body["group"] ELSE old.group
              name == IF "name" \in DOMAIN body THEN clean_name(body["name"]) ELSE old.name
              merged == Merged(old, body)
              fields == FIELDS \cup {"room_id"}
              t == target_room(find_socket(doc, q.id), body)
  <2>1. FieldsOf(q.route) = fields /\ q.route \notin NoBody
    BY <1>8 DEF FieldsOf, NoBody
  <2>2. old \in Socket /\ old.name # NULL
    BY <1>8, FindSocket, HouseholdAssumption DEF IInv, Shape, Socket
  <2>3. merged.name = name /\ merged.type = type /\ merged.group = group
    BY <2>2 DEF Merged, Socket
  <2>4. check_socket_fields(merged) # NULL <=> type \notin DOMAIN Limit \/ ~address_ok(type, group)
    BY <2>3, FieldsChecked
  <2>5. t = 0 <=> "room_id" \in DOMAIN body /\ body["room_id"] \notin RoomsOf(doc)
    <3>1. \A rid : find_room(doc, rid) = 0 <=> rid \notin RoomsOf(doc)
      BY <1>8, IndexOfType, RoomsOfIs DEF find_room, IInv, Shape
    <3>. QED  BY <1>8, <3>1 DEF target_room
  <2>6. merged.name = NULL <=> "name" \in DOMAIN body /\ clean_name(Get(body, "name")) = NULL
    BY <2>2, <2>3 DEF Get
  <2>7. BodyIsBad(q) <=>
          \/ ~(DOMAIN body \subseteq fields)
          \/ "name" \in DOMAIN body /\ clean_name(Get(body, "name")) = NULL
          \/ type \notin DOMAIN Limit \/ ~address_ok(type, group)
          \/ "room_id" \in DOMAIN body /\ body["room_id"] \notin RoomsOf(doc)
    BY <1>8, <2>1 DEF BodyIsBad, FIELDS, Get
  <2>8. BadEdit(q.id, body) <=>
          \/ ~(DOMAIN body \subseteq fields) \/ merged.name = NULL
          \/ check_socket_fields(merged) # NULL \/ t = 0
    BY DEF BadEdit, UnknownField
  <2>9. BadEdit(q.id, body) \in BOOLEAN
    BY DEF BadEdit
  <2>. HIDE DEF old, type, group, name, merged, fields, t
  <2>. QED  BY <1>0, <2>4, <2>5, <2>6, <2>7, <2>8, <2>9
<1>. QED  BY <1>1, <1>2, <1>3, <1>4, <1>5, <1>6, <1>7, <1>8

(* Every answer names the first problem in the order that the API documents: *)
(* content_type_gate() and json_body() come before the route, each route     *)
(* looks up its URL before its body, checks every field of the body (of an   *)
(* edit: of the record it makes) before a conflict, and stores nothing else. *)
THEOREM FirstProblemFirst == Spec => []ProblemsInOrder
<1>1. ASSUME IInv, NEW q \in Requests, NEW id \in IdsFor(q), NEW a, a = Respond(q, id)
      PROVE  /\ q.sent = "form" <=> a.status = 415
             /\ a.status = 400 <=> q.sent = "garbage" /\ q.route \notin NoBody
             /\ a.status = 404 <=> a.status \notin {415, 400} /\ UrlIsGone(q)
             /\ a.status = 422 <=> a.status \notin {415, 400, 404} /\ BodyIsBad(q)
             /\ a.status \in {200, 201, 204} \/ a.doc = doc
  <2>1. \A rid : find_room(doc, rid) = 0 <=> rid \notin RoomsOf(doc)
    BY <1>1, IndexOfType, RoomsOfIs DEF find_room, IInv, Shape
  <2>2. \A sid : find_socket(doc, sid) = 0 <=> sid \notin SocketsOf(doc)
    BY <1>1, FindSocket, SocketsOfIs DEF IInv, Shape
  <2>3. CASE q.sent = "form"
    <3>1. a = ApiError(415, NULL)
      BY <1>1, <2>3 DEF Respond
    <3>2. a.status = 415 /\ a.doc = doc
      BY <3>1 DEF ApiError, Answer
    <3>. QED  BY <2>3, <3>2
  <2>4. CASE q.sent = "garbage" /\ q.route \notin NoBody
    <3>1. a = ApiError(400, NULL)
      BY <1>1, <2>4 DEF Respond
    <3>2. a.status = 400 /\ a.doc = doc
      BY <3>1 DEF ApiError, Answer
    <3>. QED  BY <2>4, <3>2
  <2>5. CASE ~(q.sent = "form") /\ ~(q.sent = "garbage" /\ q.route \notin NoBody)
    <3>. DEFINE gone == UrlIsGone(q)
                bad == BodyIsBad(q)
    <3>1. gone \in BOOLEAN /\ bad \in BOOLEAN
      BY DEF UrlIsGone, BodyIsBad
    <3>2. /\ q.route \in {"create_room", "order_rooms"} => gone = FALSE
          /\ q.route \in {"edit_room", "delete_room", "room_all_off", "create_socket",
                          "order_sockets"} => gone = (find_room(doc, q.id) = 0)
          /\ q.route \in {"edit_socket", "delete_socket", "switch"} =>
               gone = (find_socket(doc, q.id) = 0)
      BY <2>1, <2>2 DEF UrlIsGone
    <3>3. ASSUME q.route = "edit_socket" /\ gone PROVE Ordered(a, gone, bad)
      <4>1. a = edit_socket(q.id, q.body)
        BY <1>1, <2>5, <3>3, RespondRoutes
      <4>2. find_socket(doc, q.id) = 0
        BY <3>2, <3>3
      <4>3. a = ApiError(404, NULL)
        BY <4>1, <4>2, Zenon DEF edit_socket
      <4>. HIDE DEF gone, bad
      <4>. QED  BY <3>1, <3>3, <4>3, OrderedWays
    <3>4. ASSUME ~(q.route = "edit_socket" /\ gone) PROVE Ordered(a, gone, bad)
      <4>1. LET unknown == UnknownField(q.body, {"name"})
            IN  /\ q.route = "create_room" => bad = (unknown \/ BadName(q.body))
                /\ q.route = "edit_room" =>
                     bad = (unknown \/ (DOMAIN q.body # {} /\ BadName(q.body)))
                /\ q.route \in NoBody => bad = FALSE
                /\ q.route \in {"order_rooms", "order_sockets"} => bad = BadOrder(q.body)
                /\ q.route = "room_all_off" => bad = UnknownField(q.body, {})
                /\ q.route = "switch" => bad = BadSwitch(q.body)
                /\ q.route = "create_socket" => bad = BadNew(q.body, id)
                /\ q.route = "edit_socket" => bad = BadEdit(q.id, q.body)
        BY <1>1, <3>1, <3>2, <3>4, BodyFound
      <4>. HIDE DEF gone, bad
      <4>2. LET none == find_room(doc, q.id) = 0
                unknown == UnknownField(q.body, {"name"})
            IN  /\ Ordered(create_room(q.body, id), FALSE, unknown \/ BadName(q.body))
                /\ Ordered(edit_room(q.id, q.body), none,
                           unknown \/ (DOMAIN q.body # {} /\ BadName(q.body)))
                /\ Ordered(delete_room(q.id), none, FALSE)
                /\ Ordered(order_rooms(q.body), FALSE, BadOrder(q.body))
                /\ Ordered(room_all_off(q.id, q.body), none, UnknownField(q.body, {}))
        BY RoomsOrdered
      <4>3. LET none == find_socket(doc, q.id) = 0
            IN  /\ Ordered(create_socket(q.id, q.body, id), find_room(doc, q.id) = 0,
                           BadNew(q.body, id))
                /\ Ordered(edit_socket(q.id, q.body), none, BadEdit(q.id, q.body))
                /\ Ordered(delete_socket(q.id), none, FALSE)
                /\ Ordered(order_sockets(q.id, q.body), find_room(doc, q.id) = 0,
                           BadOrder(q.body))
                /\ Ordered(switch(q.id, q.body), none, BadSwitch(q.body))
        BY SocketsOrdered
      <4>. QED  BY <1>1, <2>5, <3>2, <4>1, <4>2, <4>3, RespondRoutes DEF NoBody
    <3>5. Ordered(a, gone, bad)
      BY <3>3, <3>4
    <3>. QED  BY <2>5, <3>1, <3>5, OrderedStatus
  <2>. QED  BY <2>3, <2>4, <2>5
<1>2. IInv => ProblemsInOrder
  BY <1>1 DEF ProblemsInOrder
<1>. QED  BY <1>2, Inductive, PTL
=============================================================================
