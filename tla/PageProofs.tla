----------------------------- MODULE PageProofs ------------------------------
(***************************************************************************)
(* Proofs about Page for any household, any number of requests in flight    *)
(* and any number of commands and changes.                                  *)
(*                                                                          *)
(* The flags are right because every request knows which one it holds       *)
(* (OwnerInv).  What is shown does not go back because the newest load is   *)
(* in flight as long as loadSeq names it (NewestInv), and because nothing   *)
(* that is shown or on its way is newer than what the app has sent          *)
(* (AnswerInv); an answer that is older than what is shown was crossed by   *)
(* the one that is shown (CrossInv).                                        *)
(***************************************************************************)
EXTENDS Page, FiniteSetTheorems, TLAPS

TypeInv ==
  /\ sent \in Labels
  /\ changes \in Nat
  /\ tree \in Answers
  /\ pending \subseteq Sockets
  /\ busyAllOff \subseteq Keys
  /\ busy \in BOOLEAN
  /\ calls \in [Slots -> Begun \cup Awaited \cup {None}]

(* The request that holds a flag while i is in flight.                       *)
Root(i) == IF calls[i].after = None THEN calls[i] ELSE calls[i].after

Holds(i, kind) == calls[i] # None /\ Root(i).kind = kind

OwnerInv ==
  /\ \A i \in Slots : Holds(i, "switch") => Root(i).key \in pending
  /\ \A i \in Slots : Holds(i, "alloff") => Root(i).key \in busyAllOff
  /\ \A i \in Slots : Holds(i, "manage") => Root(i).key \in Changes /\ busy
  /\ \A s \in pending : \E i \in Slots : Holds(i, "switch") /\ Root(i).key = s
  /\ \A k \in busyAllOff : \E i \in Slots : Holds(i, "alloff") /\ Root(i).key = k
  /\ busy => \E i \in Slots : Holds(i, "manage")
  /\ \A i, j \in Slots :
       /\ Holds(i, "switch") /\ Holds(j, "switch") /\ Root(i).key = Root(j).key => i = j
       /\ Holds(i, "alloff") /\ Holds(j, "alloff") /\ Root(i).key = Root(j).key => i = j
       /\ Holds(i, "manage") /\ Holds(j, "manage") => i = j

BannerInv ==
  /\ loadFailed = (banner = "load")
  /\ metaFailed = (banner = "meta")

NewestInv ==
  /\ loadSeq \in Slots \cup {None}
  /\ loadSeq # None => Has(loadSeq, "load")

(* Nothing that an answer tells is newer than what the app has done.         *)
Past(a) ==
  /\ a.at <= changes
  /\ \A s \in DOMAIN sent \cap DOMAIN a.label : a.label[s] <= sent[s]

AnswerInv ==
  /\ Past(tree)
  /\ \A i \in Slots : calls[i] # None => Past(calls[i].answer)

(* What the answer of i tells is not older than what is shown, or crossed it.*)
Crossed(i) ==
  \A s \in DOMAIN tree.label \cap DOMAIN calls[i].answer.label :
    tree.label[s] <= calls[i].answer.label[s] \/ s \in calls[i].raced

CrossInv ==
  /\ loadSeq # None =>
       \/ calls[loadSeq].reply = "none" /\ calls[loadSeq].answer = Nothing
       \/ tree.at <= calls[loadSeq].answer.at
  /\ \A i \in Slots : Has(i, "switch") \/ Has(i, "alloff") \/ i = loadSeq => Crossed(i)

IInv == TypeInv /\ OwnerInv /\ BannerInv /\ NewestInv /\ AnswerInv /\ CrossInv

-----------------------------------------------------------------------------
(* Answers and requests.                                                     *)
Replies == {"none", "ok", "gone", "lost"}
Kinds   == {"load", "meta", "switch", "alloff", "manage"}
Subject == Sockets \cup Keys \cup Changes \cup {None}

LEMMA LabelsType ==
  ASSUME NEW f
  PROVE  f \in Labels <=> /\ DOMAIN f \subseteq Sockets
                          /\ f = [s \in DOMAIN f |-> f[s]]
                          /\ \A s \in DOMAIN f : f[s] \in Nat
BY DEF Labels

LEMMA NothingType == Nothing \in Answers /\ DOMAIN Nothing.label = {} /\ Nothing.at = 0
<1>1. <<>> \in Labels /\ DOMAIN <<>> = {}
  <2>1. DOMAIN <<>> = {} /\ <<>> = [s \in {} |-> 0]
    OBVIOUS
  <2>. QED  BY <2>1 DEF Labels
<1>. QED  BY <1>1 DEF Nothing, Answers

LEMMA WithType ==
  ASSUME NEW f \in Labels, NEW s \in Sockets, NEW v \in Nat
  PROVE  /\ With(f, s, v) \in Labels
         /\ DOMAIN With(f, s, v) = DOMAIN f \cup {s}
         /\ With(f, s, v)[s] = v
         /\ \A t \in DOMAIN f \ {s} : With(f, s, v)[t] = f[t]
<1>. DEFINE g == With(f, s, v)
<1>1. /\ DOMAIN g = DOMAIN f \cup {s} /\ g[s] = v
      /\ \A t \in DOMAIN f \ {s} : g[t] = f[t]
      /\ g = [t \in DOMAIN g |-> g[t]]
  BY DEF With
<1>2. DOMAIN f \subseteq Sockets /\ \A t \in DOMAIN f : f[t] \in Nat
  BY LabelsType
<1>3. DOMAIN g \subseteq Sockets /\ \A t \in DOMAIN g : g[t] \in Nat
  BY <1>1, <1>2
<1>. HIDE DEF g
<1>4. g \in Labels
  BY <1>1, <1>3, LabelsType
<1>. QED  BY <1>1, <1>4 DEF g

LEMMA RequestType ==
  ASSUME NEW c \in Begun \cup Awaited
  PROVE  /\ c # None
         /\ c.kind \in Kinds /\ c.key \in Subject /\ c.todo \in SUBSET Sockets
         /\ c.answer \in Answers /\ c.reply \in Replies /\ c.raced \in SUBSET Sockets
         /\ c.kind # "load" => c.after = None
         /\ c.after # None => /\ c.after \in Requests({"switch", "manage"}, {None})
                              /\ c.after.kind \in {"switch", "manage"}
                              /\ c.after.key \in Subject
BY PageAssumption DEF Begun, Awaited, Requests, Kinds, Replies, Subject

(* A request that is begun, and a load that another one awaits.              *)
LEMMA CallType ==
  ASSUME NEW kind \in Kinds, NEW key \in Subject, NEW todo \in SUBSET Sockets
  PROVE  Call(kind, key, todo, None) \in Begun
BY NothingType DEF Call, Begun, Requests, Kinds, Subject

LEMMA LoadType ==
  ASSUME NEW c \in Begun \cup Awaited, c.kind \in {"switch", "manage"}, NEW r \in Replies
  PROVE  LET d == [c EXCEPT !.reply = r] IN
         /\ Load(d) \in Awaited /\ Load(d).after = d /\ d # None
         /\ Load(d).kind = "load" /\ Load(d).reply = "none" /\ Load(d).answer = Nothing
         /\ d.kind = c.kind /\ d.key = c.key /\ d.reply = r
<1>. DEFINE d == [c EXCEPT !.reply = r]
<1>1. c \in Begun
  BY DEF Awaited, Begun, Requests
<1>2. d \in Requests({"switch", "manage"}, {None})
  BY <1>1 DEF Begun, Requests, Replies
<1>3. d \in Begun
  BY <1>1 DEF Begun, Requests, Replies
<1>4. d.kind = c.kind /\ d.key = c.key /\ d.reply = r /\ d # None
  BY <1>1, <1>3, PageAssumption DEF Begun, Requests
<1>. HIDE DEF d
<1>5. /\ Load(d) \in Awaited /\ Load(d).after = d
      /\ Load(d).kind = "load" /\ Load(d).reply = "none" /\ Load(d).answer = Nothing
  BY <1>2, NothingType DEF Load, Call, Awaited, Requests
<1>. QED  BY <1>4, <1>5 DEF d

-----------------------------------------------------------------------------
(* What steps do to the requests.                                            *)
Owners == {"switch", "alloff", "manage"}

HoldsSame(i) ==
  \A kind \in Owners : /\ Holds(i, kind)' <=> Holds(i, kind)
                       /\ Holds(i, kind) => Root(i)'.key = Root(i).key

Same(i) ==
  /\ calls'[i] = None <=> calls[i] = None
  /\ calls[i] # None => /\ calls'[i].kind = calls[i].kind
                        /\ calls'[i].key = calls[i].key
                        /\ calls'[i].after = calls[i].after
                        /\ calls[i].raced \subseteq calls'[i].raced

Told(i) == calls[i] # None => /\ calls'[i].reply = calls[i].reply
                              /\ calls'[i].answer = calls[i].answer

CallsType == calls \in [Slots -> Begun \cup Awaited \cup {None}]

LEMMA SameHolds ==
  ASSUME NEW i \in Slots, Same(i)
  PROVE  HoldsSame(i)
BY DEF Same, HoldsSame, Holds, Root

LEMMA ReplyStep ==
  ASSUME CallsType, NEW i \in Slots, calls[i] # None, NEW r \in Replies,
         NEW a \in Answers, Reply(i, r, a)
  PROVE  /\ CallsType'
         /\ \A j \in Slots : Same(j)
         /\ \A j \in Slots \ {i} : Told(j)
         /\ calls'[i].reply = r /\ calls'[i].answer = a
<1>1. calls[i] \in Begun \cup Awaited
  BY DEF CallsType
<1>. DEFINE c == [calls[i] EXCEPT !.reply = r, !.answer = a]
<1>3. c \in Begun \cup Awaited
  BY <1>1 DEF Begun, Awaited, Requests, Replies
<1>4. /\ c.kind = calls[i].kind /\ c.key = calls[i].key /\ c.after = calls[i].after
      /\ c.raced = calls[i].raced /\ c.reply = r /\ c.answer = a
  BY <1>1 DEF Begun, Awaited, Requests
<1>5. calls' = [calls EXCEPT ![i] = c]
  BY DEF Reply
<1>. HIDE DEF c
<1>6. c # None
  BY <1>3, RequestType
<1>. QED  BY <1>3, <1>4, <1>5, <1>6 DEF CallsType, Same, Told

LEMMA OverStep ==
  ASSUME CallsType, NEW i \in Slots, calls[i] # None,
         NEW rows \in SUBSET Sockets, Over(i, rows)
  PROVE  /\ CallsType'
         /\ calls'[i] = None
         /\ \A j \in Slots \ {i} : Same(j) /\ Told(j)
         /\ \A j \in Slots \ {i} :
              \/ Has(j, "switch") \/ Has(j, "alloff")
              \/ Has(j, "load") /\ ~Has(i, "load")
              => rows \subseteq calls'[j].raced
<1>. DEFINE c(j) == [calls[j] EXCEPT !.raced = @ \cup rows]
<1>1. ASSUME NEW j \in Slots, calls[j] # None
      PROVE  /\ c(j) \in Begun \cup Awaited
             /\ c(j).kind = calls[j].kind /\ c(j).key = calls[j].key
             /\ c(j).after = calls[j].after /\ c(j).raced = calls[j].raced \cup rows
             /\ c(j).reply = calls[j].reply /\ c(j).answer = calls[j].answer
             /\ c(j) # None
  <2>1. calls[j] \in Begun \cup Awaited
    BY <1>1 DEF CallsType
  <2>3. calls[j].raced \cup rows \in SUBSET Sockets
    BY <2>1, RequestType
  <2>4. c(j) \in Begun \cup Awaited
    BY <2>1, <2>3 DEF Begun, Awaited, Requests
  <2>5. /\ c(j).kind = calls[j].kind /\ c(j).key = calls[j].key
        /\ c(j).after = calls[j].after /\ c(j).raced = calls[j].raced \cup rows
        /\ c(j).reply = calls[j].reply /\ c(j).answer = calls[j].answer
    BY <2>1 DEF Begun, Awaited, Requests
  <2>6. c(j) # None
    BY <2>4, RequestType
  <2>. QED  BY <2>4, <2>5, <2>6
<1>2. calls' = [j \in Slots |->
                  IF j = i \/ calls[j] = None THEN None
                  ELSE IF /\ calls[j].kind \in {"load", "switch", "alloff"}
                          /\ calls[i].kind # "load" \/ calls[j].kind # "load"
                       THEN c(j)
                  ELSE calls[j]]
  BY DEF Over
<1>. HIDE DEF c
<1>. QED  BY <1>1, <1>2 DEF CallsType, Same, Told, Has

LEMMA ReloadStep ==
  ASSUME CallsType, NEW i \in Slots, Has(i, "switch") \/ Has(i, "manage"),
         NEW r \in Replies,
         calls' = [calls EXCEPT ![i] = Load([calls[i] EXCEPT !.reply = r])]
  PROVE  /\ CallsType'
         /\ Has(i, "load")'
         /\ calls'[i].reply = "none" /\ calls'[i].answer = Nothing
         /\ HoldsSame(i)
         /\ \A j \in Slots \ {i} : Same(j) /\ Told(j)
<1>. DEFINE d == [calls[i] EXCEPT !.reply = r]
<1>1. calls[i] \in Begun \cup Awaited /\ calls[i] # None
      /\ calls[i].kind \in {"switch", "manage"}
  BY DEF CallsType, Has
<1>2. /\ Load(d) \in Awaited /\ Load(d).after = d /\ d # None
      /\ Load(d).kind = "load" /\ Load(d).reply = "none" /\ Load(d).answer = Nothing
      /\ d.kind = calls[i].kind /\ d.key = calls[i].key
  BY <1>1, LoadType
<1>3. Load(d) # None /\ calls[i].after = None
  BY <1>1, <1>2, RequestType
<1>4. calls' = [calls EXCEPT ![i] = Load(d)]
  OBVIOUS
<1>. HIDE DEF d
<1>5. CallsType' /\ calls'[i] = Load(d) /\ \A j \in Slots \ {i} : calls'[j] = calls[j]
  BY <1>2, <1>4 DEF CallsType
<1>6. HoldsSame(i)
  BY <1>1, <1>2, <1>3, <1>5 DEF HoldsSame, Holds, Root
<1>. QED  BY <1>2, <1>3, <1>5, <1>6 DEF Same, Told, Has

LEMMA NewStep ==
  ASSUME CallsType, NEW i \in Free, NEW kind \in Kinds, NEW key \in Subject,
         NEW todo \in SUBSET Sockets,
         calls' = [calls EXCEPT ![i] = Call(kind, key, todo, None)]
  PROVE  /\ CallsType'
         /\ i \in Slots /\ calls[i] = None /\ calls'[i] # None
         /\ calls'[i].kind = kind /\ calls'[i].key = key /\ calls'[i].after = None
         /\ calls'[i].answer = Nothing /\ calls'[i].reply = "none"
         /\ \A j \in Slots \ {i} : Same(j) /\ Told(j)
<1>1. i \in Slots /\ calls[i] = None
  BY DEF Free
<1>. DEFINE c == Call(kind, key, todo, None)
<1>2. c \in Begun \cup Awaited /\ c # None
  BY CallType, RequestType
<1>3. /\ c.kind = kind /\ c.key = key /\ c.after = None
      /\ c.answer = Nothing /\ c.reply = "none"
  BY DEF Call
<1>4. calls' = [calls EXCEPT ![i] = c]
  OBVIOUS
<1>. HIDE DEF c
<1>. QED  BY <1>1, <1>2, <1>3, <1>4 DEF CallsType, Same, Told

-----------------------------------------------------------------------------
(* The flags: nobody begins or ends ...                                      *)
LEMMA OwnerKept ==
  ASSUME OwnerInv, \A j \in Slots : HoldsSame(j), UNCHANGED flags
  PROVE  OwnerInv'
BY DEF OwnerInv, HoldsSame, Owners, flags

(* ... somebody who was not there begins ...                                 *)
LEMMA OwnerBegins ==
  ASSUME OwnerInv, NEW i \in Slots, calls[i] = None, calls'[i] # None,
         calls'[i].after = None,
         \A j \in Slots \ {i} : HoldsSame(j),
         \/ /\ calls'[i].kind = "switch" /\ calls'[i].key \notin pending
            /\ pending' = pending \cup {calls'[i].key} /\ UNCHANGED <<busyAllOff, busy>>
         \/ /\ calls'[i].kind = "alloff" /\ calls'[i].key \notin busyAllOff
            /\ busyAllOff' = busyAllOff \cup {calls'[i].key} /\ UNCHANGED <<pending, busy>>
         \/ /\ calls'[i].kind = "manage" /\ calls'[i].key \in Changes
            /\ ~busy /\ busy' = TRUE /\ UNCHANGED <<pending, busyAllOff>>
  PROVE  OwnerInv'
<1>1. \A kind \in Owners : ~Holds(i, kind)
  BY DEF Holds
<1>2. \A kind \in Owners : Holds(i, kind)' <=> calls'[i].kind = kind
  BY DEF Holds, Root
<1>3. Root(i)' = calls'[i]
  BY DEF Root
<1>4. CASE /\ calls'[i].kind = "switch" /\ calls'[i].key \notin pending
           /\ pending' = pending \cup {calls'[i].key} /\ UNCHANGED <<busyAllOff, busy>>
  BY <1>1, <1>2, <1>3, <1>4 DEF OwnerInv, HoldsSame, Owners
<1>5. CASE /\ calls'[i].kind = "alloff" /\ calls'[i].key \notin busyAllOff
           /\ busyAllOff' = busyAllOff \cup {calls'[i].key} /\ UNCHANGED <<pending, busy>>
  BY <1>1, <1>2, <1>3, <1>5 DEF OwnerInv, HoldsSame, Owners
<1>6. CASE /\ calls'[i].kind = "manage" /\ calls'[i].key \in Changes
           /\ ~busy /\ busy' = TRUE /\ UNCHANGED <<pending, busyAllOff>>
  BY <1>1, <1>2, <1>3, <1>6 DEF OwnerInv, HoldsSame, Owners
<1>. QED  BY <1>4, <1>5, <1>6

(* ... or ends.                                                              *)
LEMMA OwnerEnds ==
  ASSUME OwnerInv, NEW i \in Slots, calls[i] # None, calls'[i] = None,
         \A j \in Slots \ {i} : HoldsSame(j),
         \/ Root(i).kind \notin Owners /\ UNCHANGED flags
         \/ /\ Root(i).kind = "switch"
            /\ pending' = pending \ {Root(i).key} /\ UNCHANGED <<busyAllOff, busy>>
         \/ /\ Root(i).kind = "alloff"
            /\ busyAllOff' = busyAllOff \ {Root(i).key} /\ UNCHANGED <<pending, busy>>
         \/ /\ Root(i).kind = "manage" /\ busy' = FALSE /\ UNCHANGED <<pending, busyAllOff>>
  PROVE  OwnerInv'
<1>1. \A kind \in Owners : ~Holds(i, kind)'
  BY DEF Holds
<1>2. \A kind \in Owners : Holds(i, kind) <=> Root(i).kind = kind
  BY DEF Holds
<1>3. CASE Root(i).kind \notin Owners /\ UNCHANGED flags
  BY <1>1, <1>2, <1>3 DEF OwnerInv, HoldsSame, Owners, flags
<1>4. CASE /\ Root(i).kind = "switch"
           /\ pending' = pending \ {Root(i).key} /\ UNCHANGED <<busyAllOff, busy>>
  BY <1>1, <1>2, <1>4 DEF OwnerInv, HoldsSame, Owners
<1>5. CASE /\ Root(i).kind = "alloff"
           /\ busyAllOff' = busyAllOff \ {Root(i).key} /\ UNCHANGED <<pending, busy>>
  BY <1>1, <1>2, <1>5 DEF OwnerInv, HoldsSame, Owners
<1>6. CASE Root(i).kind = "manage" /\ busy' = FALSE /\ UNCHANGED <<pending, busyAllOff>>
  BY <1>1, <1>2, <1>6 DEF OwnerInv, HoldsSame, Owners
<1>. QED  BY <1>3, <1>4, <1>5, <1>6

-----------------------------------------------------------------------------
(* The answers: commands and changes are only added, and sockets only leave. *)
Later ==
  /\ changes' \in Nat /\ changes <= changes'
  /\ sent' \in Labels
  /\ DOMAIN sent' \subseteq DOMAIN sent
  /\ \A s \in DOMAIN sent' : sent[s] <= sent'[s]

Fresh(i) ==
  calls'[i] # None /\ calls'[i].reply = "none" /\ calls'[i].answer = Nothing

(* An answer that tells of the present.                                      *)
Present(i) ==
  /\ Past(calls[i].answer)'
  /\ Crossed(i)'
  /\ i = loadSeq' => tree.at <= calls'[i].answer.at

LEMMA PastKept ==
  ASSUME TypeInv, Later, NEW a \in Answers, Past(a)
  PROVE  /\ a.at <= changes'
         /\ \A s \in DOMAIN sent' \cap DOMAIN a.label : a.label[s] <= sent'[s]
<1>. a.at \in Nat /\ changes \in Nat
  BY DEF Answers, TypeInv
<1>1. /\ \A s \in DOMAIN sent : sent[s] \in Nat
      /\ \A s \in DOMAIN sent' : sent'[s] \in Nat
      /\ \A s \in DOMAIN a.label : a.label[s] \in Nat
  BY LabelsType DEF TypeInv, Later, Answers
<1>. QED  BY <1>1 DEF Later, Past

(* Nothing is shown.                                                         *)
LEMMA NothingShown ==
  ASSUME TypeInv, AnswerInv, CrossInv, NewestInv', CallsType', Later, tree' = tree,
         \A j \in Slots : \/ calls'[j] = None
                          \/ Fresh(j)
                          \/ calls[j] # None /\ Same(j) /\ Told(j)
                          \/ Present(j),
         \/ loadSeq' = None \/ loadSeq' = loadSeq
         \/ Fresh(loadSeq')
  PROVE  AnswerInv' /\ CrossInv'
<1>1. tree \in Answers
  BY DEF TypeInv
<1>3. Past(tree)'
  BY <1>1, PastKept DEF AnswerInv, Past
<1>4. ASSUME NEW j \in Slots, calls'[j] # None
      PROVE  Past(calls[j].answer)'
  <2>1. CASE Fresh(j)
    BY <2>1, NothingType DEF Fresh, Past, Later
  <2>2. CASE calls[j] # None /\ Same(j) /\ Told(j)
    <3>1. calls[j].answer \in Answers /\ Past(calls[j].answer)
      BY <2>2, RequestType DEF AnswerInv, TypeInv
    <3>. QED  BY <2>2, <3>1, PastKept DEF Past, Told
  <2>3. CASE Present(j)
    BY <2>3 DEF Present
  <2>. QED  BY <1>4, <2>1, <2>2, <2>3
<1>5. ASSUME NEW j \in Slots, calls'[j] # None,
             (Has(j, "switch") \/ Has(j, "alloff") \/ j = loadSeq)'
      PROVE  Crossed(j)'
  <2>1. CASE Fresh(j)
    BY <2>1, NothingType DEF Fresh, Crossed
  <2>2. CASE calls[j] # None /\ Same(j) /\ Told(j) /\ ~Fresh(j)
    <3>1. Has(j, "switch") \/ Has(j, "alloff") \/ j = loadSeq
      BY <1>5, <2>2, PageAssumption DEF Same, Has
    <3>. QED  BY <2>2, <3>1 DEF CrossInv, Crossed, Same, Told
  <2>3. CASE Present(j)
    BY <2>3 DEF Present
  <2>. QED  BY <1>5, <2>1, <2>2, <2>3
<1>6. (loadSeq # None =>
         \/ calls[loadSeq].reply = "none" /\ calls[loadSeq].answer = Nothing
         \/ tree.at <= calls[loadSeq].answer.at)'
  <2>1. loadSeq' # None => loadSeq' \in Slots /\ calls'[loadSeq'] # None
    BY DEF NewestInv, Has
  <2>. SUFFICES ASSUME NEW i \in Slots, i = loadSeq', calls'[i] # None
                PROVE  \/ calls'[i].reply = "none" /\ calls'[i].answer = Nothing
                       \/ tree.at <= calls'[i].answer.at
    BY <2>1
  <2>2. CASE Fresh(i)
    BY <2>2 DEF Fresh
  <2>3. CASE i = loadSeq /\ Same(i) /\ Told(i) /\ calls[i] # None
    BY <2>3, PageAssumption DEF CrossInv, Told
  <2>4. CASE Present(i)
    BY <2>4 DEF Present
  <2>. QED  BY <2>1, <2>2, <2>3, <2>4, PageAssumption
<1>7. AnswerInv'
  BY <1>3, <1>4 DEF AnswerInv
<1>8. ASSUME NEW j \in Slots, (Has(j, "switch") \/ Has(j, "alloff") \/ j = loadSeq)'
      PROVE  calls'[j] # None
  BY <1>8, PageAssumption DEF Has, NewestInv
<1>. QED  BY <1>5, <1>6, <1>7, <1>8 DEF CrossInv

(* An answer is shown.                                                       *)
LEMMA AnswerShown ==
  ASSUME TypeInv, AnswerInv, CrossInv, NewestInv', CallsType', UNCHANGED app,
         tree' \in Answers, Past(tree'),
         NEW i \in Slots, calls'[i] = None,
         \A j \in Slots \ {i} : Same(j) /\ Told(j),
         NEW rows,
         \A s \in DOMAIN tree'.label \ rows :
            s \in DOMAIN tree.label /\ tree'.label[s] = tree.label[s],
         \A j \in Slots \ {i} :
            Has(j, "switch") \/ Has(j, "alloff") \/ j = loadSeq' => rows \subseteq calls'[j].raced,
         loadSeq' = None \/ (loadSeq' = loadSeq /\ tree'.at = tree.at)
  PROVE  AnswerInv' /\ CrossInv'
<1>1. ASSUME NEW j \in Slots, calls'[j] # None
      PROVE  j # i /\ calls[j] # None /\ Same(j) /\ Told(j)
  BY <1>1 DEF Same
<1>2. AnswerInv'
  BY <1>1 DEF AnswerInv, Past, Told, app
<1>3. ASSUME NEW j \in Slots, (Has(j, "switch") \/ Has(j, "alloff") \/ j = loadSeq)'
      PROVE  Crossed(j)'
  <2>1. calls'[j] # None
    BY <1>3, PageAssumption DEF Has, NewestInv
  <2>2. Has(j, "switch") \/ Has(j, "alloff") \/ (j = loadSeq /\ j = loadSeq')
    BY <1>1, <1>3, <2>1, PageAssumption DEF Has, Same
  <2>3. Crossed(j) /\ rows \subseteq calls'[j].raced
    BY <1>1, <2>1, <2>2 DEF CrossInv
  <2>. QED  BY <1>1, <2>1, <2>3 DEF Crossed, Same, Told
<1>4. (loadSeq # None =>
         \/ calls[loadSeq].reply = "none" /\ calls[loadSeq].answer = Nothing
         \/ tree.at <= calls[loadSeq].answer.at)'
  <2>. SUFFICES ASSUME loadSeq' # None
                PROVE  \/ calls'[loadSeq].reply = "none" /\ calls'[loadSeq].answer = Nothing
                       \/ tree.at <= calls'[loadSeq].answer.at
    OBVIOUS
  <2>1. loadSeq \in Slots /\ calls'[loadSeq] # None
    BY DEF NewestInv, Has
  <2>. QED  BY <1>1, <2>1 DEF CrossInv, Told
<1>. QED  BY <1>2, <1>3, <1>4 DEF CrossInv

-----------------------------------------------------------------------------
(* The steps.                                                                *)
LEMMA InitInv == Init => IInv
<1>. SUFFICES ASSUME Init PROVE IInv
  OBVIOUS
<1>. USE PageAssumption
<1>1. /\ Load(None) \in Begun /\ Load(None).kind = "load" /\ Load(None).after = None
      /\ Load(None).answer = Nothing /\ Load(None).reply = "none" /\ Load(None) # None
  BY CallType, RequestType DEF Load, Kinds, Subject, Call
<1>2. /\ Meta \in Begun /\ Meta.kind = "meta" /\ Meta.after = None
      /\ Meta.answer = Nothing /\ Meta # None
  BY CallType, RequestType DEF Meta, Kinds, Subject, Call
<1>3. TypeInv
  <2>1. sent \in Labels
    BY DEF Init, Labels
  <2>. QED  BY <1>1, <1>2, <2>1, NothingType DEF Init, TypeInv
<1>4. OwnerInv
  BY <1>1, <1>2 DEF Init, OwnerInv, Holds, Root
<1>5. BannerInv /\ NewestInv
  BY <1>1 DEF Init, BannerInv, NewestInv, Has
<1>6. \A i \in Slots : calls[i] # None => calls[i].answer = Nothing
  BY <1>1, <1>2 DEF Init
<1>7. AnswerInv
  BY <1>6, NothingType DEF Init, AnswerInv, Past
<1>8. CrossInv
  BY <1>1, NothingType DEF Init, CrossInv, Crossed
<1>. QED  BY <1>3, <1>4, <1>5, <1>7, <1>8 DEF IInv

LEMMA SameNewest ==
  ASSUME NewestInv, loadSeq' = loadSeq, \A j \in Slots : Same(j)
  PROVE  NewestInv'
BY DEF NewestInv, Has, Same

LEMMA VisibilityStep ==
  ASSUME IInv, visibilitychange
  PROVE  IInv'
<1>. USE PageAssumption DEF IInv
<1>1. PICK i \in Free, m \in Free : /\ i # m /\ loadSeq' = i /\ metaSeq' = m
                                   /\ calls' = [calls EXCEPT ![i] = Load(None), ![m] = Meta]
  BY DEF visibilitychange
<1>2. /\ Load(None) \in Begun /\ Load(None).kind = "load" /\ Load(None).after = None
      /\ Load(None).answer = Nothing /\ Load(None).reply = "none" /\ Load(None) # None
  BY CallType, RequestType DEF Load, Kinds, Subject, Call
<1>3. /\ Meta \in Begun /\ Meta.kind = "meta" /\ Meta.after = None
      /\ Meta.answer = Nothing /\ Meta.reply = "none" /\ Meta # None
  BY CallType, RequestType DEF Meta, Kinds, Subject, Call
<1>4. /\ CallsType' /\ calls'[i] = Load(None) /\ calls'[m] = Meta
      /\ i \in Slots /\ m \in Slots /\ calls[i] = None /\ calls[m] = None
      /\ \A j \in Slots \ {i, m} : calls'[j] = calls[j]
  BY <1>1, <1>2, <1>3 DEF CallsType, TypeInv, Free
<1>5. UNCHANGED <<sent, changes, tree, pending, busyAllOff, busy, banner, loadFailed, metaFailed>>
  BY DEF visibilitychange, app, flags, banners
<1>6. TypeInv'
  BY <1>4, <1>5 DEF TypeInv, CallsType
<1>7. \A j \in Slots : HoldsSame(j)
  BY <1>2, <1>3, <1>4 DEF HoldsSame, Holds, Root, Owners
<1>8. OwnerInv' /\ BannerInv'
  BY <1>5, <1>7, OwnerKept DEF BannerInv, flags
<1>9. NewestInv'
  BY <1>1, <1>2, <1>4 DEF NewestInv, Has
<1>10. \A j \in Slots : \/ calls'[j] = None \/ Fresh(j)
                        \/ calls[j] # None /\ Same(j) /\ Told(j)
  BY <1>2, <1>3, <1>4 DEF Fresh, Same, Told
<1>11. Later
  BY <1>5, LabelsType DEF Later, TypeInv
<1>12. AnswerInv' /\ CrossInv'
  BY <1>1, <1>2, <1>4, <1>5, <1>9, <1>10, <1>11, NothingShown DEF Fresh
<1>. QED  BY <1>6, <1>8, <1>9, <1>12

LEMMA AskStep ==
  ASSUME IInv, NEW kind \in Owners, NEW key \in Subject, NEW todo \in SUBSET Sockets,
         Ask(Call(kind, key, todo, None)),
         \/ /\ kind = "switch" /\ key \in Sockets \ pending
            /\ pending' = pending \cup {key} /\ UNCHANGED <<busyAllOff, busy>>
         \/ /\ kind = "alloff" /\ key \in Keys \ busyAllOff
            /\ busyAllOff' = busyAllOff \cup {key} /\ UNCHANGED <<pending, busy>>
         \/ /\ kind = "manage" /\ key \in Changes
            /\ ~busy /\ busy' = TRUE /\ UNCHANGED <<pending, busyAllOff>>
  PROVE  IInv'
<1>. USE PageAssumption DEF IInv
<1>1. PICK i \in Free : calls' = [calls EXCEPT ![i] = Call(kind, key, todo, None)]
  BY DEF Ask
<1>2. kind \in Kinds /\ CallsType
  BY DEF Owners, Kinds, TypeInv, CallsType
<1>3. /\ CallsType'
      /\ i \in Slots /\ calls[i] = None /\ calls'[i] # None
      /\ calls'[i].kind = kind /\ calls'[i].key = key /\ calls'[i].after = None
      /\ calls'[i].answer = Nothing /\ calls'[i].reply = "none"
      /\ \A j \in Slots \ {i} : Same(j) /\ Told(j)
  BY <1>1, <1>2, NewStep
<1>4. UNCHANGED <<sent, changes, tree, banner, loadFailed, metaFailed, loadSeq>>
  BY DEF Ask, app, banners
<1>5. TypeInv'
  BY <1>3, <1>4 DEF TypeInv, CallsType
<1>6. \A j \in Slots \ {i} : HoldsSame(j)
  BY <1>3, SameHolds
<1>7. OwnerInv'
  BY <1>3, <1>6, OwnerBegins
<1>8. BannerInv' /\ NewestInv'
  BY <1>3, <1>4 DEF BannerInv, NewestInv, Has, Same
<1>9. \A j \in Slots : \/ calls'[j] = None \/ Fresh(j)
                       \/ calls[j] # None /\ Same(j) /\ Told(j)
  BY <1>3 DEF Fresh, Same
<1>10. Later
  BY <1>4, LabelsType DEF Later, TypeInv
<1>11. AnswerInv' /\ CrossInv'
  BY <1>3, <1>4, <1>8, <1>9, <1>10, NothingShown
<1>. QED  BY <1>5, <1>7, <1>8, <1>11

(* Commands and changes by others.                                           *)
LEMMA OtherStep ==
  ASSUME IInv, Later, UNCHANGED <<calls, page>>
  PROVE  IInv'
<1>. USE PageAssumption DEF IInv
<1>1. UNCHANGED <<calls, tree, pending, busyAllOff, busy, banner, loadFailed, metaFailed, loadSeq>>
  BY DEF page, flags, banners
<1>2. TypeInv' /\ CallsType'
  BY <1>1 DEF TypeInv, Later, CallsType
<1>3. \A j \in Slots : Same(j) /\ Told(j)
  BY <1>1 DEF Same, Told
<1>4. OwnerInv' /\ BannerInv' /\ NewestInv'
  BY <1>1, <1>3, SameHolds, OwnerKept, SameNewest DEF BannerInv, flags
<1>5. \A j \in Slots : calls'[j] = None \/ (calls[j] # None /\ Same(j) /\ Told(j))
  BY <1>3 DEF Same
<1>6. AnswerInv' /\ CrossInv'
  BY <1>1, <1>2, <1>4, <1>5, NothingShown
<1>. QED  BY <1>2, <1>4, <1>6

LEMMA SwitchedLater ==
  ASSUME TypeInv, NEW s \in DOMAIN sent, sent' = [sent EXCEPT ![s] = @ + 1], changes' = changes
  PROVE  Later /\ sent'[s] = sent[s] + 1 /\ s \in Sockets
<1>1. /\ DOMAIN sent \subseteq Sockets /\ sent = [t \in DOMAIN sent |-> sent[t]]
      /\ \A t \in DOMAIN sent : sent[t] \in Nat
  BY LabelsType DEF TypeInv
<1>2. /\ DOMAIN sent' = DOMAIN sent /\ sent'[s] = sent[s] + 1
      /\ \A t \in DOMAIN sent \ {s} : sent'[t] = sent[t]
      /\ sent' = [t \in DOMAIN sent' |-> sent'[t]]
  OBVIOUS
<1>3. \A t \in DOMAIN sent' : sent'[t] \in Nat /\ sent[t] <= sent'[t]
  BY <1>1, <1>2
<1>4. sent' \in Labels
  BY <1>1, <1>2, <1>3, LabelsType
<1>. QED  BY <1>1, <1>2, <1>3, <1>4 DEF Later, TypeInv

LEMMA RearrangeLater ==
  ASSUME TypeInv, Rearrange
  PROVE  Later /\ changes' = changes + 1
<1>1. /\ DOMAIN sent \subseteq Sockets
      /\ \A t \in DOMAIN sent : sent[t] \in Nat
  BY LabelsType DEF TypeInv
<1>2. PICK gone : sent' = [t \in DOMAIN sent \ gone |-> sent[t]]
  BY DEF Rearrange
<1>3. /\ DOMAIN sent' = DOMAIN sent \ gone
      /\ sent' = [t \in DOMAIN sent' |-> sent'[t]]
      /\ \A t \in DOMAIN sent' : sent'[t] = sent[t]
  BY <1>2
<1>4. sent' \in Labels
  BY <1>1, <1>3, LabelsType
<1>. QED  BY <1>1, <1>3, <1>4 DEF Later, Rearrange, TypeInv

(* The app goes on with request i: c is what it has become.                  *)
LEMMA ProgressStep ==
  ASSUME IInv, Later, UNCHANGED page, NEW i \in Slots, calls[i] # None, CallsType',
         \A j \in Slots : Same(j), \A j \in Slots \ {i} : Told(j), Present(i)
  PROVE  IInv'
<1>. USE PageAssumption DEF IInv
<1>1. UNCHANGED <<tree, pending, busyAllOff, busy, banner, loadFailed, metaFailed, loadSeq>>
  BY DEF page, flags, banners
<1>2. TypeInv'
  BY <1>1 DEF TypeInv, Later, CallsType
<1>3. OwnerInv' /\ BannerInv' /\ NewestInv'
  BY <1>1, SameHolds, OwnerKept, SameNewest DEF BannerInv, flags
<1>4. \A j \in Slots : \/ calls'[j] = None \/ Present(j)
                       \/ calls[j] # None /\ Same(j) /\ Told(j)
  BY DEF Same
<1>5. AnswerInv' /\ CrossInv'
  BY <1>1, <1>3, <1>4, NothingShown
<1>. QED  BY <1>2, <1>3, <1>5

LEMMA SendStep ==
  ASSUME IInv, NEW i \in Slots, NEW s, Send(i, s)
  PROVE  IInv'
<1>. USE PageAssumption DEF IInv
<1>1. /\ calls[i] # None /\ calls[i] \in Begun \cup Awaited
      /\ Has(i, "switch") \/ Has(i, "alloff")
  BY DEF Send, Waits, Has, TypeInv
<1>2. s \in DOMAIN sent /\ UNCHANGED <<changes, page>> /\ sent' = [sent EXCEPT ![s] = @ + 1]
  BY DEF Send
<1>3. Later /\ sent'[s] = sent[s] + 1 /\ s \in Sockets
  BY <1>2, SwitchedLater
<1>4. sent[s] \in Nat /\ sent'[s] \in Nat
  BY <1>2, <1>3, LabelsType DEF TypeInv
<1>. DEFINE v == sent'[s]
            l == With(calls[i].answer.label, s, v)
            a == [calls[i].answer EXCEPT !.label = l]
            c == [calls[i] EXCEPT !.todo = @ \ {s}, !.answer = a]
<1>5. calls' = [calls EXCEPT ![i] = c]
  BY <1>1 DEF Send, Begun, Awaited, Requests, Answers
<1>6. calls[i].answer \in Answers /\ calls[i].answer.label \in Labels
  BY <1>1, RequestType DEF Answers
<1>7. /\ l \in Labels /\ DOMAIN l = DOMAIN calls[i].answer.label \cup {s} /\ l[s] = v
      /\ \A t \in DOMAIN calls[i].answer.label \ {s} : l[t] = calls[i].answer.label[t]
  <2>1. v \in Nat /\ s \in Sockets
    BY <1>3, <1>4
  <2>. HIDE DEF v
  <2>2. calls[i].answer.label \in Labels
    BY <1>6
  <2>. QED  BY <2>1, <2>2, WithType, ZenonT(60)
<1>. HIDE DEF l
<1>8. a \in Answers /\ a.label = l /\ a.at = calls[i].answer.at
  BY <1>6, <1>7, SMTT(20) DEF Answers
<1>. HIDE DEF a
<1>9. /\ c \in Begun \cup Awaited
      /\ c.kind = calls[i].kind /\ c.key = calls[i].key /\ c.after = calls[i].after
      /\ c.raced = calls[i].raced /\ c.answer = a
  BY <1>1, <1>8 DEF Begun, Awaited, Requests
<1>. HIDE DEF c
<1>10. c # None
  BY <1>9, RequestType
<1>11. CallsType' /\ calls'[i] = c /\ \A j \in Slots \ {i} : calls'[j] = calls[j]
  BY <1>5, <1>9 DEF CallsType, TypeInv
<1>12. (\A j \in Slots : Same(j)) /\ (\A j \in Slots \ {i} : Told(j))
  BY <1>1, <1>9, <1>10, <1>11 DEF Same, Told
<1>13. tree' = tree /\ loadSeq' = loadSeq /\ tree.label \in Labels
  BY <1>2 DEF page, TypeInv, Answers
<1>14. Present(i)
  <2>1. Past(calls[i].answer) /\ Crossed(i) /\ Past(tree) /\ i # loadSeq
    BY <1>1 DEF AnswerInv, CrossInv, NewestInv, Has
  <2>2. /\ calls[i].answer.at <= changes'
        /\ \A t \in DOMAIN sent' \cap DOMAIN calls[i].answer.label : calls[i].answer.label[t] <= sent'[t]
    BY <1>3, <1>6, <2>1, PastKept
  <2>3. Past(calls[i].answer)'
    BY <1>4, <1>7, <1>8, <1>9, <1>11, <2>2 DEF Past
  <2>4. \A t \in DOMAIN tree.label : tree.label[t] \in Nat
    BY <1>13, LabelsType
  <2>5. s \in DOMAIN tree.label => tree.label[s] <= v
    BY <1>2, <1>3, <1>4, <2>1, <2>4 DEF Past
  <2>6. Crossed(i)'
    BY <1>7, <1>8, <1>9, <1>11, <1>13, <2>1, <2>5 DEF Crossed
  <2>. QED  BY <1>13, <2>1, <2>3, <2>6 DEF Present
<1>. QED  BY <1>1, <1>2, <1>3, <1>11, <1>12, <1>14, ProgressStep

LEMMA AnsweredStep ==
  ASSUME IInv, Later, UNCHANGED page, NEW i \in Slots, calls[i] # None,
         NEW r \in Replies, NEW a \in Answers, Reply(i, r, a),
         a.at <= changes',
         \A s \in DOMAIN sent' \cap DOMAIN a.label : a.label[s] <= sent'[s],
         \A s \in DOMAIN tree.label \cap DOMAIN a.label :
            tree.label[s] <= a.label[s] \/ s \in calls[i].raced,
         i = loadSeq => tree.at <= a.at
  PROVE  IInv'
<1>1. CallsType
  BY DEF IInv, TypeInv, CallsType
<1>2. /\ CallsType' /\ (\A j \in Slots : Same(j)) /\ (\A j \in Slots \ {i} : Told(j))
      /\ calls'[i].answer = a
  BY <1>1, ReplyStep
<1>3. tree' = tree /\ loadSeq' = loadSeq
  BY DEF page
<1>4. Present(i)
  BY <1>2, <1>3 DEF Present, Past, Crossed, Same
<1>. QED  BY <1>2, <1>4, ProgressStep

LEMMA AnswersStep ==
  ASSUME IInv, NEW i \in Slots,
         \/ AnswerLoad(i) \/ AnswerMeta(i) \/ AnswerSwitch(i) \/ AnswerAllOff(i) \/ AnswerManage(i)
  PROVE  IInv'
<1>. USE PageAssumption DEF IInv
<1>1. "ok" \in Replies /\ "gone" \in Replies
  BY DEF Replies
<1>2. UNCHANGED page /\ calls[i] # None /\ calls[i] \in Begun \cup Awaited
  BY DEF AnswerLoad, AnswerMeta, AnswerSwitch, AnswerAllOff, AnswerManage, Waits, Has, TypeInv
<1>3. UNCHANGED app => Later /\ 0 <= changes'
  BY LabelsType DEF Later, TypeInv, app
<1>4. /\ \A s \in DOMAIN sent : sent[s] \in Nat /\ s \in Sockets
      /\ \A s \in DOMAIN tree.label : tree.label[s] \in Nat
      /\ tree.at \in Nat /\ changes \in Nat
  BY LabelsType DEF TypeInv, Answers
<1>5. CASE AnswerLoad(i)
  <2>. DEFINE a == [at |-> changes, label |-> sent]
  <2>1. Reply(i, "ok", a) /\ UNCHANGED app
    BY <1>5 DEF AnswerLoad
  <2>2. a \in Answers /\ a.label = sent /\ a.at = changes
    BY DEF Answers, TypeInv
  <2>. HIDE DEF a
  <2>3. /\ \A s \in DOMAIN sent' \cap DOMAIN a.label : a.label[s] <= sent'[s]
        /\ \A s \in DOMAIN tree.label \cap DOMAIN a.label : tree.label[s] <= a.label[s]
        /\ tree.at <= a.at /\ a.at <= changes'
    BY <1>4, <2>1, <2>2 DEF AnswerInv, Past, app
  <2>. QED  BY <1>1, <1>2, <1>3, <2>1, <2>2, <2>3, AnsweredStep
<1>6. CASE AnswerMeta(i)
  <2>1. Reply(i, "ok", Nothing) /\ UNCHANGED app /\ i # loadSeq
    BY <1>6 DEF AnswerMeta, Waits, Has, NewestInv
  <2>. QED  BY <1>1, <1>2, <1>3, <2>1, NothingType, AnsweredStep
<1>7. CASE AnswerSwitch(i)
  <2>1. UNCHANGED app /\ i # loadSeq
    BY <1>7 DEF AnswerSwitch, Waits, Has, NewestInv
  <2>2. CASE Reply(i, "ok", Nothing)
    BY <1>1, <1>2, <1>3, <2>1, <2>2, NothingType, AnsweredStep
  <2>3. ASSUME NEW s \in DOMAIN sent,
               Reply(i, "ok", [at |-> 0, label |-> With(<<>>, s, sent[s])])
        PROVE  IInv'
    <3>. DEFINE v == sent[s]
                e == <<>>
                l == With(e, s, v)
                a == [at |-> 0, label |-> l]
    <3>1. e \in Labels /\ DOMAIN e = {}
      BY NothingType DEF Nothing, Answers
    <3>2. l \in Labels /\ DOMAIN l = {s} /\ l[s] = sent[s]
      <4>1. v \in Nat /\ s \in Sockets
        BY <1>4
      <4>. HIDE DEF v, e
      <4>2. l \in Labels
        BY <3>1, <4>1, WithType
      <4>3. DOMAIN l = DOMAIN e \cup {s}
        BY <3>1, <4>1, WithType
      <4>4. l[s] = v
        BY DEF With
      <4>. QED  BY <3>1, <4>2, <4>3, <4>4 DEF v
    <3>3. Reply(i, "ok", a)
      BY <2>3
    <3>. HIDE DEF l
    <3>4. a \in Answers /\ a.label = l /\ a.at = 0
      BY <3>2 DEF Answers
    <3>. HIDE DEF a
    <3>5. /\ \A t \in DOMAIN sent' \cap DOMAIN a.label : a.label[t] <= sent'[t]
          /\ \A t \in DOMAIN tree.label \cap DOMAIN a.label : tree.label[t] <= a.label[t]
      BY <1>4, <2>1, <3>2, <3>4 DEF AnswerInv, Past, app
    <3>. QED  BY <1>1, <1>2, <1>3, <2>1, <3>3, <3>4, <3>5, AnsweredStep
  <2>. QED  BY <1>7, <2>2, <2>3 DEF AnswerSwitch
<1>8. CASE AnswerAllOff(i)
  <2>. DEFINE a == calls[i].answer
  <2>1. UNCHANGED app /\ i # loadSeq /\ Has(i, "alloff") /\ Reply(i, "ok", a)
    BY <1>8 DEF AnswerAllOff, Waits, Has, NewestInv
  <2>2. a \in Answers /\ Past(a) /\ Crossed(i)
    BY <1>2, <2>1, RequestType DEF AnswerInv, CrossInv
  <2>3. /\ a.at <= changes'
        /\ \A t \in DOMAIN sent' \cap DOMAIN a.label : a.label[t] <= sent'[t]
        /\ \A t \in DOMAIN tree.label \cap DOMAIN a.label :
              tree.label[t] <= a.label[t] \/ t \in calls[i].raced
    BY <2>1, <2>2 DEF Past, Crossed, app
  <2>. HIDE DEF a
  <2>. QED  BY <1>1, <1>2, <1>3, <2>1, <2>2, <2>3, AnsweredStep
<1>9. CASE AnswerManage(i)
  <2>1. i # loadSeq
    BY <1>9 DEF AnswerManage, Waits, Has, NewestInv
  <2>2. CASE Reply(i, "gone", Nothing) /\ UNCHANGED app
    BY <1>1, <1>2, <1>3, <2>1, <2>2, NothingType, AnsweredStep
  <2>3. CASE Rearrange /\ Reply(i, "ok", [at |-> changes', label |-> <<>>])
    <3>. DEFINE n == changes'
                a == [at |-> n, label |-> <<>>]
    <3>1. Later /\ n \in Nat
      BY <2>3, RearrangeLater DEF Later
    <3>2. <<>> \in Labels /\ DOMAIN <<>> = {}
      BY NothingType DEF Nothing, Answers
    <3>3. a \in Answers /\ a.label = <<>> /\ a.at <= changes'
      BY <3>1, <3>2 DEF Answers
    <3>4. Reply(i, "ok", a)
      BY <2>3
    <3>. HIDE DEF a
    <3>. QED  BY <1>1, <1>2, <2>1, <3>1, <3>2, <3>3, <3>4, AnsweredStep
  <2>. QED  BY <1>9, <2>2, <2>3 DEF AnswerManage
<1>. QED  BY <1>5, <1>6, <1>7, <1>8, <1>9

(* The banner: a load that succeeds takes back only its own failure.         *)
LEMMA BannerStep ==
  ASSUME BannerInv
  PROVE  /\ \A b \in {"load", "meta", "message"} :
              showBanner(b) => BannerInv' /\ banner' = b
         /\ UNCHANGED banners => BannerInv' /\ banner' = banner
         /\ \A i, r : LoadBanner(i, r) =>
              /\ BannerInv'
              /\ banner = "message" => banner' # "none"
              /\ Newest(i) /\ r = "ok" => banner' # "load"
BY DEF BannerInv, showBanner, banners, LoadBanner

LEMMA EndsType ==
  ASSUME TypeInv, NEW i \in Slots, calls[i] # None, NEW r, Ends(i, r)
  PROVE  /\ calls[i] \in Begun \cup Awaited /\ r \in Replies
         /\ r = "ok" => calls[i].reply = "ok"
<1>1. calls[i] \in Begun \cup Awaited
  BY DEF TypeInv
<1>. QED  BY <1>1, RequestType DEF Ends, Replies

(* The rest of a request that has no row to set.                             *)
LEMMA QuietEnd ==
  ASSUME IInv, UNCHANGED <<app, tree>>, NEW i \in Slots, calls[i] # None, Over(i, {}),
         loadSeq' = IF Newest(i) THEN None ELSE loadSeq
  PROVE  /\ CallsType' /\ calls'[i] = None
         /\ \A j \in Slots \ {i} : HoldsSame(j)
         /\ NewestInv' /\ AnswerInv' /\ CrossInv'
<1>. USE PageAssumption DEF IInv
<1>1. CallsType
  BY DEF CallsType, TypeInv
<1>2. CallsType' /\ calls'[i] = None /\ \A j \in Slots \ {i} : Same(j) /\ Told(j)
  BY <1>1, OverStep
<1>3. \A j \in Slots \ {i} : HoldsSame(j)
  BY <1>2, SameHolds
<1>4. NewestInv'
  BY <1>2 DEF NewestInv, Newest, Has, Same
<1>5. Later
  BY LabelsType DEF Later, TypeInv, app
<1>6. \A j \in Slots : calls'[j] = None \/ (calls[j] # None /\ Same(j) /\ Told(j))
  BY <1>2 DEF Same
<1>7. AnswerInv' /\ CrossInv'
  BY <1>2, <1>4, <1>5, <1>6, NothingShown DEF Newest
<1>. QED  BY <1>2, <1>3, <1>4, <1>7

(* What loadTree() shows is not older than what was shown, or crossed it.    *)
LEMMA LoadShown ==
  ASSUME IInv, NEW i \in Slots, Has(i, "load"), Ends(i, "ok"), Newest(i),
         tree' = calls[i].answer
  PROVE  /\ tree' \in Answers /\ Past(tree')
         /\ tree.at <= tree'.at
         /\ \A s \in DOMAIN tree.label \cap DOMAIN tree'.label :
              tree.label[s] <= tree'.label[s] \/ s \in calls[i].raced
<1>1. calls[i] \in Begun \cup Awaited /\ calls[i] # None /\ calls[i].reply = "ok"
  BY EndsType DEF IInv, Has
<1>2. calls[i].answer \in Answers /\ Past(calls[i].answer)
  BY <1>1, RequestType DEF IInv, AnswerInv
<1>3. tree.at <= calls[i].answer.at /\ Crossed(i)
  BY <1>1, PageAssumption DEF IInv, CrossInv, Newest
<1>. QED  BY <1>2, <1>3 DEF Crossed

(* The labels that the end of a switch or an All-off sets.                   *)
LEMMA RelabelShown ==
  ASSUME IInv, NEW i \in Slots, Has(i, "switch") \/ Has(i, "alloff"), NEW r, Ends(i, r),
         Relabel(i, r)
  PROVE  \E rows \in SUBSET Sockets :
           /\ Over(i, rows)
           /\ tree' \in Answers /\ Past(tree') /\ tree'.at = tree.at
           /\ DOMAIN tree'.label = DOMAIN tree.label
           /\ \A s \in DOMAIN tree.label \ rows : tree'.label[s] = tree.label[s]
           /\ \A s \in DOMAIN tree.label \cap rows :
                tree.label[s] <= tree'.label[s] \/ s \in calls[i].raced
<1>. DEFINE got == IF r = "ok" THEN calls[i].answer.label ELSE <<>>
<1>1. calls[i] \in Begun \cup Awaited /\ calls[i] # None
  BY EndsType DEF IInv, Has
<1>2. calls[i].answer \in Answers /\ Past(calls[i].answer) /\ Crossed(i)
  BY <1>1, RequestType DEF IInv, AnswerInv, CrossInv
<1>3. <<>> \in Labels /\ DOMAIN <<>> = {}
  BY NothingType DEF Nothing, Answers
<1>4. /\ got \in Labels
      /\ \A s \in DOMAIN got : s \in DOMAIN calls[i].answer.label /\ got[s] = calls[i].answer.label[s]
  BY <1>2, <1>3 DEF Answers
<1>5. /\ tree' = [tree EXCEPT !.label =
                   [s \in DOMAIN @ |-> IF s \in DOMAIN got THEN got[s] ELSE @[s]]]
      /\ Over(i, DOMAIN got)
  BY DEF Relabel
<1>. HIDE DEF got
<1>6. tree.label \in Labels /\ tree.at \in Nat /\ tree \in Answers /\ Past(tree)
  BY DEF IInv, TypeInv, Answers, AnswerInv
<1>. DEFINE l == [s \in DOMAIN tree.label |-> IF s \in DOMAIN got THEN got[s] ELSE tree.label[s]]
<1>7. /\ DOMAIN got \subseteq Sockets /\ \A s \in DOMAIN got : got[s] \in Nat
      /\ DOMAIN tree.label \subseteq Sockets
      /\ \A s \in DOMAIN tree.label : tree.label[s] \in Nat
  BY <1>4, <1>6, LabelsType
<1>8. /\ DOMAIN l = DOMAIN tree.label /\ l = [s \in DOMAIN l |-> l[s]]
      /\ \A s \in DOMAIN l : l[s] = IF s \in DOMAIN got THEN got[s] ELSE tree.label[s]
  OBVIOUS
<1>9. tree' = [tree EXCEPT !.label = l]
  BY <1>5
<1>. HIDE DEF l
<1>10. l \in Labels
  BY <1>7, <1>8, LabelsType
<1>11. tree' \in Answers /\ tree'.at = tree.at /\ tree'.label = l
  BY <1>6, <1>9, <1>10 DEF Answers
<1>12. Past(tree')
  BY <1>2, <1>4, <1>6, <1>8, <1>11 DEF Past
<1>13. \A s \in DOMAIN tree.label \cap DOMAIN got :
         tree.label[s] <= tree'.label[s] \/ s \in calls[i].raced
  BY <1>2, <1>4, <1>8, <1>11 DEF Crossed
<1>14. \A s \in DOMAIN tree.label \ DOMAIN got : tree'.label[s] = tree.label[s]
  BY <1>8, <1>11
<1>. QED  BY <1>5, <1>7, <1>8, <1>11, <1>12, <1>13, <1>14

LEMMA RelabelEnd ==
  ASSUME IInv, NEW i \in Slots, Has(i, "switch") \/ Has(i, "alloff"), NEW r, Ends(i, r),
         Relabel(i, r), UNCHANGED <<app, loadSeq>>
  PROVE  /\ CallsType' /\ calls'[i] = None /\ tree' \in Answers
         /\ \A j \in Slots \ {i} : HoldsSame(j)
         /\ NewestInv' /\ AnswerInv' /\ CrossInv'
<1>. USE PageAssumption DEF IInv
<1>1. CallsType /\ calls[i] # None /\ i # loadSeq /\ ~Has(i, "load")
  BY DEF CallsType, TypeInv, Has, NewestInv
<1>2. PICK rows \in SUBSET Sockets :
           /\ Over(i, rows)
           /\ tree' \in Answers /\ Past(tree') /\ tree'.at = tree.at
           /\ DOMAIN tree'.label = DOMAIN tree.label
           /\ \A s \in DOMAIN tree.label \ rows : tree'.label[s] = tree.label[s]
  BY RelabelShown
<1>3. /\ CallsType' /\ calls'[i] = None /\ \A j \in Slots \ {i} : Same(j) /\ Told(j)
      /\ \A j \in Slots \ {i} : Has(j, "switch") \/ Has(j, "alloff") \/ Has(j, "load")
                                => rows \subseteq calls'[j].raced
  BY <1>1, <1>2, OverStep
<1>4. \A j \in Slots \ {i} : HoldsSame(j)
  BY <1>3, SameHolds
<1>5. NewestInv'
  BY <1>1, <1>3 DEF NewestInv, Has, Same
<1>6. \A j \in Slots \ {i} : Has(j, "switch") \/ Has(j, "alloff") \/ j = loadSeq'
                             => rows \subseteq calls'[j].raced
  BY <1>3 DEF NewestInv
<1>7. AnswerInv' /\ CrossInv'
  BY <1>2, <1>3, <1>5, <1>6, AnswerShown
<1>. QED  BY <1>2, <1>3, <1>4, <1>5, <1>7

LEMMA ReloadEnd ==
  ASSUME IInv, NEW i \in Slots, Has(i, "switch") \/ Has(i, "manage"), NEW r, Ends(i, r),
         Reload(i, r), UNCHANGED <<app, tree>>
  PROVE  IInv'
<1>. USE PageAssumption DEF IInv
<1>1. CallsType /\ calls[i] # None /\ r \in Replies
  BY EndsType DEF CallsType, TypeInv, Has
<1>2. /\ CallsType' /\ Has(i, "load")'
      /\ calls'[i].reply = "none" /\ calls'[i].answer = Nothing
      /\ HoldsSame(i) /\ \A j \in Slots \ {i} : Same(j) /\ Told(j)
  BY <1>1, ReloadStep DEF Reload
<1>3. loadSeq' = i /\ UNCHANGED <<sent, changes, tree, pending, busyAllOff, busy,
                                   banner, loadFailed, metaFailed>>
  BY DEF Reload, app, flags, banners
<1>4. TypeInv'
  BY <1>2, <1>3 DEF TypeInv, CallsType
<1>5. \A j \in Slots : HoldsSame(j)
  BY <1>2, SameHolds
<1>6. OwnerInv' /\ BannerInv'
  BY <1>3, <1>5, OwnerKept DEF BannerInv, flags
<1>7. NewestInv'
  BY <1>2, <1>3 DEF NewestInv
<1>8. Fresh(i) /\ \A j \in Slots : \/ calls'[j] = None \/ Fresh(j)
                                   \/ calls[j] # None /\ Same(j) /\ Told(j)
  BY <1>2 DEF Fresh, Same, Has
<1>9. Later
  BY <1>3, LabelsType DEF Later, TypeInv
<1>10. AnswerInv' /\ CrossInv'
  BY <1>2, <1>3, <1>7, <1>8, <1>9, NothingShown
<1>. QED  BY <1>4, <1>6, <1>7, <1>10

LEMMA EndLoadStep ==
  ASSUME IInv, NEW i \in Slots, NEW r, EndLoad(i, r)
  PROVE  IInv'
<1>. USE PageAssumption DEF IInv
<1>1. /\ calls[i] # None /\ Has(i, "load") /\ Ends(i, r) /\ UNCHANGED app
      /\ CallsType /\ calls[i] \in Begun \cup Awaited /\ calls[i].kind = "load"
      /\ loadSeq' = IF Newest(i) THEN None ELSE loadSeq
  BY DEF EndLoad, Has, CallsType, TypeInv
<1>2. /\ CallsType' /\ calls'[i] = None /\ tree' \in Answers
      /\ \A j \in Slots \ {i} : HoldsSame(j)
      /\ NewestInv' /\ AnswerInv' /\ CrossInv'
  <2>1. CASE Newest(i) /\ r = "ok"
    <3>. DEFINE rows == DOMAIN tree'.label
    <3>1. tree' = calls[i].answer /\ Over(i, rows)
      BY <2>1 DEF EndLoad
    <3>2. tree' \in Answers /\ Past(tree')
      BY <1>1, <2>1, <3>1, LoadShown
    <3>3. rows \in SUBSET Sockets
      BY <3>2, LabelsType DEF Answers
    <3>. HIDE DEF rows
    <3>4. /\ CallsType' /\ calls'[i] = None /\ \A j \in Slots \ {i} : Same(j) /\ Told(j)
          /\ \A j \in Slots \ {i} : Has(j, "switch") \/ Has(j, "alloff")
                                    => rows \subseteq calls'[j].raced
      BY <1>1, <3>1, <3>3, OverStep
    <3>5. \A j \in Slots \ {i} : HoldsSame(j)
      BY <3>4, SameHolds
    <3>6. loadSeq' = None /\ NewestInv'
      BY <1>1, <2>1 DEF NewestInv
    <3>7. \A s \in DOMAIN tree'.label \ rows :
             s \in DOMAIN tree.label /\ tree'.label[s] = tree.label[s]
      BY DEF rows
    <3>8. AnswerInv' /\ CrossInv'
      BY <1>1, <3>2, <3>4, <3>6, <3>7, AnswerShown
    <3>. QED  BY <3>2, <3>4, <3>5, <3>6, <3>8
  <2>2. CASE ~(Newest(i) /\ r = "ok")
    <3>1. tree' = tree /\ Over(i, {})
      BY <2>2 DEF EndLoad
    <3>. QED  BY <1>1, <3>1, QuietEnd DEF TypeInv
  <2>. QED  BY <2>1, <2>2
<1>3. /\ pending' \subseteq pending /\ busyAllOff' = busyAllOff /\ busy' \in BOOLEAN
      /\ BannerInv'
      /\ \/ Root(i).kind \notin Owners /\ UNCHANGED flags
         \/ /\ Root(i).kind = "switch"
            /\ pending' = pending \ {Root(i).key} /\ UNCHANGED <<busyAllOff, busy>>
         \/ Root(i).kind = "manage" /\ busy' = FALSE /\ UNCHANGED <<pending, busyAllOff>>
  <2>1. CASE calls[i].after = None /\ LoadBanner(i, r) /\ UNCHANGED flags
    BY <1>1, <2>1, BannerStep DEF Root, Owners, flags, TypeInv
  <2>. DEFINE c == calls[i].after
  <2>2. CASE /\ c # None /\ c.kind = "switch" /\ LoadBanner(i, r) /\ Unlock(c.key, c.reply)
             /\ UNCHANGED <<busyAllOff, busy>>
    BY <2>2, BannerStep DEF Root, Unlock, TypeInv
  <2>3. CASE /\ c # None /\ c.kind = "manage"
             /\ \E tell \in Tells(c, c.reply) :
                  IF tell THEN showBanner("message") ELSE LoadBanner(i, r)
             /\ busy' = FALSE /\ UNCHANGED <<pending, busyAllOff>>
    BY <2>3, BannerStep DEF Root, TypeInv
  <2>. QED  BY <2>1, <2>2, <2>3 DEF EndLoad
<1>4. OwnerInv'
  BY <1>1, <1>2, <1>3, OwnerEnds
<1>5. TypeInv'
  BY <1>1, <1>2, <1>3 DEF TypeInv, CallsType, app
<1>. QED  BY <1>2, <1>3, <1>4, <1>5

LEMMA EndMetaStep ==
  ASSUME IInv, NEW i \in Slots, NEW r, EndMeta(i, r)
  PROVE  IInv'
<1>. USE PageAssumption DEF IInv
<1>1. /\ calls[i] # None /\ calls[i].kind = "meta" /\ UNCHANGED <<app, tree, flags, loadSeq>>
      /\ Over(i, {}) /\ ~Newest(i) /\ calls[i].after = None
  BY RequestType DEF EndMeta, Has, TypeInv, Newest, NewestInv
<1>2. /\ CallsType' /\ calls'[i] = None
      /\ \A j \in Slots \ {i} : HoldsSame(j)
      /\ NewestInv' /\ AnswerInv' /\ CrossInv'
  BY <1>1, QuietEnd
<1>3. OwnerInv'
  BY <1>1, <1>2, OwnerEnds DEF Root, Owners
<1>4. BannerInv'
  BY BannerStep DEF EndMeta, BannerInv, banners
<1>5. TypeInv'
  BY <1>1, <1>2 DEF TypeInv, CallsType, app, flags
<1>. QED  BY <1>2, <1>3, <1>4, <1>5

LEMMA EndSwitchStep ==
  ASSUME IInv, NEW i \in Slots, NEW r, EndSwitch(i, r)
  PROVE  IInv'
<1>. USE PageAssumption DEF IInv
<1>1. /\ calls[i] # None /\ Has(i, "switch") /\ calls[i].kind = "switch" /\ Ends(i, r)
      /\ UNCHANGED app /\ calls[i].after = None
  BY RequestType DEF EndSwitch, Has, TypeInv
<1>2. CASE r = "ok" /\ calls[i].answer = Nothing
  BY <1>1, <1>2, ReloadEnd DEF EndSwitch
<1>3. CASE ~(r = "ok" /\ calls[i].answer = Nothing)
  <2>1. /\ Relabel(i, r) /\ Unlock(calls[i].key, r)
        /\ UNCHANGED <<busyAllOff, busy, banners, loadSeq>>
    BY <1>3 DEF EndSwitch
  <2>2. /\ CallsType' /\ calls'[i] = None /\ tree' \in Answers
        /\ \A j \in Slots \ {i} : HoldsSame(j)
        /\ NewestInv' /\ AnswerInv' /\ CrossInv'
    BY <1>1, <2>1, RelabelEnd
  <2>3. OwnerInv' /\ BannerInv'
    BY <1>1, <2>1, <2>2, OwnerEnds, BannerStep DEF Root, Unlock
  <2>4. TypeInv'
    BY <1>1, <2>1, <2>2 DEF TypeInv, CallsType, app, Unlock
  <2>. QED  BY <2>2, <2>3, <2>4
<1>. QED  BY <1>2, <1>3

LEMMA EndAllOffStep ==
  ASSUME IInv, NEW i \in Slots, NEW r, EndAllOff(i, r)
  PROVE  IInv'
<1>. USE PageAssumption DEF IInv
<1>1. /\ calls[i] # None /\ Has(i, "alloff") /\ calls[i].kind = "alloff" /\ Ends(i, r)
      /\ UNCHANGED <<app, loadSeq>> /\ calls[i].after = None /\ Relabel(i, r)
      /\ busyAllOff' = busyAllOff \ {calls[i].key} /\ UNCHANGED <<pending, busy>>
  BY RequestType DEF EndAllOff, Has, TypeInv
<1>2. /\ CallsType' /\ calls'[i] = None /\ tree' \in Answers
      /\ \A j \in Slots \ {i} : HoldsSame(j)
      /\ NewestInv' /\ AnswerInv' /\ CrossInv'
  BY <1>1, RelabelEnd
<1>3. OwnerInv'
  BY <1>1, <1>2, OwnerEnds DEF Root
<1>4. BannerInv'
  BY BannerStep DEF EndAllOff
<1>5. TypeInv'
  BY <1>1, <1>2 DEF TypeInv, CallsType, app
<1>. QED  BY <1>2, <1>3, <1>4, <1>5

LEMMA EndManageStep ==
  ASSUME IInv, NEW i \in Slots, NEW r, EndManage(i, r)
  PROVE  IInv'
<1>. USE PageAssumption DEF IInv
<1>1. /\ calls[i] # None /\ Has(i, "manage") /\ calls[i].kind = "manage" /\ Ends(i, r)
      /\ UNCHANGED <<app, tree>> /\ calls[i].after = None /\ ~Newest(i)
  BY RequestType DEF EndManage, Has, TypeInv, Newest, NewestInv
<1>2. CASE Reload(i, r)
  BY <1>1, <1>2, ReloadEnd
<1>3. CASE /\ Over(i, {}) /\ busy' = FALSE
           /\ \E tell \in Tells(calls[i], r) : Message(tell)
           /\ UNCHANGED <<pending, busyAllOff, loadSeq>>
  <2>1. /\ CallsType' /\ calls'[i] = None
        /\ \A j \in Slots \ {i} : HoldsSame(j)
        /\ NewestInv' /\ AnswerInv' /\ CrossInv'
    BY <1>1, <1>3, QuietEnd
  <2>2. OwnerInv'
    BY <1>1, <1>3, <2>1, OwnerEnds DEF Root
  <2>3. BannerInv'
    BY <1>3, BannerStep DEF Message
  <2>4. TypeInv'
    BY <1>1, <1>3, <2>1 DEF TypeInv, CallsType, app
  <2>. QED  BY <2>1, <2>2, <2>3, <2>4
<1>. QED  BY <1>2, <1>3 DEF EndManage

LEMMA StepInv == IInv /\ [Next]_vars => IInv'
<1>. SUFFICES ASSUME IInv, [Next]_vars PROVE IInv'
  OBVIOUS
<1>. USE PageAssumption
<1>1. CASE visibilitychange
  BY <1>1, VisibilityStep
<1>2. ASSUME NEW s \in Sockets, switchSocket(s) PROVE IInv'
  <2>1. "switch" \in Owners /\ s \in Subject /\ {s} \in SUBSET Sockets
    BY DEF Owners, Subject
  <2>. QED  BY <1>2, <2>1, AskStep DEF switchSocket
<1>3. ASSUME NEW s \in Sockets, OtherSwitch(s) PROVE IInv'
  BY <1>3, SwitchedLater, OtherStep DEF OtherSwitch, IInv
<1>4. ASSUME NEW k \in Keys, allOff(k) PROVE IInv'
  <2>1. "alloff" \in Owners /\ k \in Subject /\ Members[k] \in SUBSET Sockets
    BY DEF Owners, Subject
  <2>. QED  BY <1>4, <2>1, AskStep DEF allOff
<1>5. ASSUME NEW what \in Changes, manage(what) PROVE IInv'
  <2>1. "manage" \in Owners /\ what \in Subject /\ {} \in SUBSET Sockets
    BY DEF Owners, Subject
  <2>. QED  BY <1>5, <2>1, AskStep DEF manage
<1>6. CASE OtherChange
  BY <1>6, RearrangeLater, OtherStep DEF OtherChange, IInv
<1>7. ASSUME NEW i \in Slots, NEW s \in Sockets, Send(i, s) PROVE IInv'
  BY <1>7, SendStep
<1>8. ASSUME NEW i \in Slots,
             \/ AnswerLoad(i) \/ AnswerMeta(i) \/ AnswerSwitch(i) \/ AnswerAllOff(i)
             \/ AnswerManage(i)
      PROVE  IInv'
  BY <1>8, AnswersStep
<1>9. ASSUME NEW i \in Slots, Receive(i) \/ lost(i) PROVE IInv'
  <2>1. PICK r : End(i, r)
    BY <1>9 DEF Receive, lost
  <2>. QED  BY <2>1, EndLoadStep, EndMetaStep, EndSwitchStep, EndAllOffStep, EndManageStep DEF End
<1>10. CASE UNCHANGED vars
  <2>1. UNCHANGED <<calls, page>> /\ Later
    BY <1>10, LabelsType DEF vars, app, page, Later, IInv, TypeInv
  <2>. QED  BY <2>1, OtherStep
<1>. QED  BY <1>1, <1>2, <1>3, <1>4, <1>5, <1>6, <1>7, <1>8, <1>9, <1>10 DEF Next

LEMMA Invariance == Spec => []IInv
BY InitInv, StepInv, PTL DEF Spec

-----------------------------------------------------------------------------
LEMMA OwnerFlags ==
  ASSUME OwnerInv
  PROVE  FlagsTellTheTruth
<1>1. \A kind, key : InFlight(kind, key) = {i \in Slots : Holds(i, kind) /\ Root(i).key = key}
  BY DEF InFlight, Holds, Root
<1>2. \A kind, key : UNION {InFlight(kind, k) : k \in {key}} = InFlight(kind, key)
  OBVIOUS
<1>3. Cardinality({}) = 0 /\ \A i : Cardinality({i}) = 1
  BY FS_EmptySet, FS_Singleton
<1>4. ASSUME NEW s \in Sockets
      PROVE  Count("switch", {s}) = (IF s \in pending THEN 1 ELSE 0)
  <2>1. CASE s \in pending
    <3>1. PICK i \in Slots : Holds(i, "switch") /\ Root(i).key = s
      BY <2>1 DEF OwnerInv
    <3>2. InFlight("switch", s) = {i}
      BY <1>1, <3>1 DEF OwnerInv
    <3>. QED  BY <1>2, <1>3, <2>1, <3>2 DEF Count
  <2>2. CASE s \notin pending
    <3>1. InFlight("switch", s) = {}
      BY <1>1, <2>2 DEF OwnerInv
    <3>. QED  BY <1>2, <1>3, <2>2, <3>1 DEF Count
  <2>. QED  BY <2>1, <2>2
<1>5. ASSUME NEW k \in Keys
      PROVE  Count("alloff", {k}) = (IF k \in busyAllOff THEN 1 ELSE 0)
  <2>1. CASE k \in busyAllOff
    <3>1. PICK i \in Slots : Holds(i, "alloff") /\ Root(i).key = k
      BY <2>1 DEF OwnerInv
    <3>2. InFlight("alloff", k) = {i}
      BY <1>1, <3>1 DEF OwnerInv
    <3>. QED  BY <1>2, <1>3, <2>1, <3>2 DEF Count
  <2>2. CASE k \notin busyAllOff
    <3>1. InFlight("alloff", k) = {}
      BY <1>1, <2>2 DEF OwnerInv
    <3>. QED  BY <1>2, <1>3, <2>2, <3>1 DEF Count
  <2>. QED  BY <2>1, <2>2
<1>6. Count("manage", Changes) = (IF busy THEN 1 ELSE 0)
  <2>. DEFINE all == UNION {InFlight("manage", k) : k \in Changes}
  <2>1. all = {i \in Slots : Holds(i, "manage")}
    BY <1>1 DEF OwnerInv
  <2>2. CASE busy
    <3>1. PICK i \in Slots : Holds(i, "manage")
      BY <2>2 DEF OwnerInv
    <3>2. all = {i}
      BY <2>1, <3>1 DEF OwnerInv
    <3>. QED  BY <1>3, <2>2, <3>2 DEF Count
  <2>3. CASE ~busy
    <3>1. all = {}
      BY <2>1, <2>3 DEF OwnerInv
    <3>. QED  BY <1>3, <2>3, <3>1 DEF Count
  <2>. QED  BY <2>2, <2>3
<1>. QED  BY <1>4, <1>5, <1>6 DEF FlagsTellTheTruth

(* A row says "Sending...", an All-off button is dimmed and the management   *)
(* buttons are disabled exactly while one request of theirs is in flight,    *)
(* however many requests are, and in whatever order app.js sees them end.    *)
THEOREM FlagsAreTrue == Spec => []FlagsTellTheTruth
<1>1. IInv => FlagsTellTheTruth
  BY OwnerFlags DEF IInv
<1>. QED  BY <1>1, Invariance, PTL

(* Only the end of a request shows anything.                                 *)
LEMMA OnlyEndsShow ==
  ASSUME [Next]_vars
  PROVE  UNCHANGED <<tree, banner>> \/ \E i \in Slots : \E r : End(i, r)
<1>1. ASSUME NEW i \in Slots, Receive(i) \/ lost(i) PROVE \E r : End(i, r)
  BY <1>1 DEF Receive, lost
<1>2. (visibilitychange \/ OtherChange \/ UNCHANGED vars) => UNCHANGED <<tree, banner>>
  BY DEF visibilitychange, OtherChange, vars, page, banners
<1>3. \A s : (switchSocket(s) \/ OtherSwitch(s) \/ allOff(s) \/ manage(s)) => UNCHANGED <<tree, banner>>
  BY DEF switchSocket, OtherSwitch, allOff, manage, Ask, page, banners
<1>4. \A i, s : (\/ Send(i, s) \/ AnswerLoad(i) \/ AnswerMeta(i) \/ AnswerSwitch(i)
               \/ AnswerAllOff(i) \/ AnswerManage(i)) => UNCHANGED <<tree, banner>>
  BY DEF Send, AnswerLoad, AnswerMeta, AnswerSwitch, AnswerAllOff, AnswerManage, page, banners
<1>. QED  BY <1>1, <1>2, <1>3, <1>4 DEF Next

(* The report of an All-off and every other message stays until showBanner() *)
(* shows the next one, and a load that shows a newer arrangement leaves no   *)
(* banner that tells of a failed one.                                        *)
THEOREM MessagesAreKept == Spec => MessagesStay
<1>. DEFINE Stay == /\ banner = "message" => banner' # "none"
                    /\ tree'.at > tree.at => banner' # "load"
<1>1. ASSUME IInv, [Next]_vars PROVE Stay
  <2>1. tree.at \in Nat /\ BannerInv
    BY <1>1 DEF IInv, TypeInv, Answers
  <2>2. CASE UNCHANGED <<tree, banner>>
    BY <2>1, <2>2
  <2>3. ASSUME NEW i \in Slots, NEW r, EndLoad(i, r) PROVE Stay
    <3>1. CASE Newest(i) /\ r = "ok"
      BY <2>1, <2>3, <3>1, BannerStep DEF EndLoad
    <3>2. CASE ~(Newest(i) /\ r = "ok")
      BY <2>1, <2>3, <3>2, BannerStep DEF EndLoad
    <3>. QED  BY <3>1, <3>2
  <2>4. ASSUME NEW i \in Slots, NEW r, EndMeta(i, r) PROVE Stay
    <3>1. tree' = tree
      BY <2>4 DEF EndMeta
    <3>2. metaFailed => banner = "meta"
      BY <2>1 DEF BannerInv
    <3>3. banner' = banner \/ banner' = "meta" \/ metaFailed
      BY <2>4 DEF EndMeta, showBanner, banners
    <3>4. banner = "message" => banner' # "none"
      BY <3>2, <3>3
    <3>. QED  BY <2>1, <3>1, <3>4
  <2>5. ASSUME NEW i \in Slots, NEW r, EndSwitch(i, r) PROVE Stay
    <3>1. banner' = banner
      BY <2>5 DEF EndSwitch, Reload, banners
    <3>2. tree'.at = tree.at
      BY <1>1, <2>5, RelabelShown DEF EndSwitch
    <3>. QED  BY <2>1, <3>1, <3>2
  <2>6. ASSUME NEW i \in Slots, NEW r, EndAllOff(i, r) PROVE Stay
    BY <2>6 DEF EndAllOff, showBanner
  <2>7. ASSUME NEW i \in Slots, NEW r, EndManage(i, r) PROVE Stay
    BY <2>1, <2>7 DEF EndManage, Reload, Message, showBanner, banners
  <2>. QED  BY <1>1, <2>2, <2>3, <2>4, <2>5, <2>6, <2>7, OnlyEndsShow DEF End
<1>2. IInv /\ [Next]_vars => [Stay]_vars
  BY <1>1
<1>. QED  BY <1>2, Invariance, PTL DEF Spec, MessagesStay

(* However many answers cross: loadTree() drops an answer that is older than *)
(* its newest request, so the arrangement never goes back, and a label goes  *)
(* back to an older command only with an answer that the newer one crossed.  *)
THEOREM NewestIsShown == Spec => OldAnswersAreDropped
<1>. DEFINE Dropped ==
       /\ tree'.at >= tree.at
       /\ \A s \in DOMAIN tree.label \cap DOMAIN tree'.label :
            tree'.label[s] < tree.label[s] =>
              \E i \in Slots : calls[i] # None /\ calls'[i] = None /\ s \in calls[i].raced
<1>1. ASSUME IInv, [Next]_vars PROVE Dropped
  <2>1. tree.at \in Nat /\ tree \in Answers /\ \A s \in DOMAIN tree.label : tree.label[s] \in Nat
    BY <1>1, LabelsType DEF IInv, TypeInv, Answers
  <2>2. CASE tree' = tree
    BY <2>1, <2>2
  <2>3. ASSUME NEW i \in Slots, calls[i] # None, calls'[i] = None, tree' \in Answers,
               tree.at <= tree'.at,
               \A s \in DOMAIN tree.label \cap DOMAIN tree'.label :
                  tree.label[s] <= tree'.label[s] \/ s \in calls[i].raced
        PROVE  Dropped
    <3>1. tree'.at \in Nat /\ \A s \in DOMAIN tree'.label : tree'.label[s] \in Nat
      BY <2>3, LabelsType DEF Answers
    <3>. QED  BY <2>1, <2>3, <3>1
  <2>4. ASSUME NEW i \in Slots, NEW r, EndLoad(i, r) PROVE Dropped
    <3>1. CASE Newest(i) /\ r = "ok"
      <4>1. tree' = calls[i].answer /\ Over(i, DOMAIN tree'.label) /\ calls[i] # None
        BY <2>4, <3>1 DEF EndLoad, Has
      <4>2. calls'[i] = None
        BY <4>1 DEF Over
      <4>. QED  BY <1>1, <2>3, <2>4, <3>1, <4>1, <4>2, LoadShown DEF EndLoad
    <3>2. CASE ~(Newest(i) /\ r = "ok")
      BY <2>2, <2>4, <3>2 DEF EndLoad
    <3>. QED  BY <3>1, <3>2
  <2>5. ASSUME NEW i \in Slots, NEW r, Has(i, "switch") \/ Has(i, "alloff"), Ends(i, r),
               Relabel(i, r)
        PROVE  Dropped
    <3>1. PICK rows \in SUBSET Sockets :
           /\ Over(i, rows)
           /\ tree' \in Answers /\ tree'.at = tree.at
           /\ \A s \in DOMAIN tree.label \ rows : tree'.label[s] = tree.label[s]
           /\ \A s \in DOMAIN tree.label \cap rows :
                tree.label[s] <= tree'.label[s] \/ s \in calls[i].raced
      BY <1>1, <2>5, RelabelShown
    <3>2. calls[i] # None /\ calls'[i] = None
      BY <2>5, <3>1 DEF Has, Over
    <3>. QED  BY <2>1, <2>3, <3>1, <3>2
  <2>6. ASSUME NEW i \in Slots, NEW r, EndSwitch(i, r) PROVE Dropped
    BY <2>2, <2>5, <2>6 DEF EndSwitch
  <2>7. ASSUME NEW i \in Slots, NEW r, EndAllOff(i, r) PROVE Dropped
    BY <2>5, <2>7 DEF EndAllOff
  <2>8. ASSUME NEW i \in Slots, NEW r, EndMeta(i, r) \/ EndManage(i, r) PROVE Dropped
    BY <2>2, <2>8 DEF EndMeta, EndManage
  <2>. HIDE DEF Dropped
  <2>. QED  BY <1>1, <2>2, <2>4, <2>6, <2>7, <2>8, OnlyEndsShow DEF End
<1>2. IInv /\ [Next]_vars => [Dropped]_vars
  BY <1>1
<1>. QED  BY <1>2, Invariance, PTL DEF Spec, OldAnswersAreDropped
=============================================================================
