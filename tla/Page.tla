-------------------------------- MODULE Page ---------------------------------
(***************************************************************************)
(* The page (rsswitch_web/static/app.js): its functions are cut where they  *)
(* await an answer of the app, which may come in any order, late, or not at *)
(* all, while the owner goes on.  JavaScript runs each piece to its end.    *)
(*                                                                          *)
(* The app is external here: what it does is in Switching and Household.    *)
(* The confirmed commands of each socket are numbered in their order, and   *)
(* so are the changes of the arrangement: which rows there are, and where.  *)
(*                                                                          *)
(* Edit mode may be on or off at any time, so it is left out, and so are    *)
(* the fields of the forms, the notes and the flashes of the rows.          *)
(***************************************************************************)
EXTENDS Integers, FiniteSets

CONSTANTS
  Sockets,
  Keys, Members,   \* of the All-off buttons: the rooms and HOUSEHOLD
  Slots,           \* bound: how many requests are in flight at a time
  MaxCommands,     \* bound: the commands recorded of a socket
  MaxChanges,      \* bound: the changes of the arrangement
  None

(* What an answer tells: the number of the arrangement, and labels of rows.   *)
Labels  == UNION {[S -> Nat] : S \in SUBSET Sockets}
Answers == [at : Nat, label : Labels]

(* The requests, with that whose function awaits a load.                     *)
Changes == {"save", "delete", "reorder"}
Requests(kinds, afters) ==
  [kind : kinds, key : Sockets \cup Keys \cup Changes \cup {None}, todo : SUBSET Sockets,
   answer : Answers, reply : {"none", "ok", "gone", "lost"}, after : afters,
   raced : SUBSET Sockets]
Begun    == Requests({"load", "meta", "switch", "alloff", "manage"}, {None})
Awaited  == Requests({"load"}, Requests({"switch", "manage"}, {None}))

ASSUME PageAssumption ==
  /\ Members \in [Keys -> SUBSET Sockets]
  /\ Cardinality(Slots) >= 2
  /\ {MaxCommands, MaxChanges} \subseteq Nat
  /\ None \notin Slots \cup Begun \cup Awaited

VARIABLES
  sent,         \* the app: the last command recorded of each socket there is
  changes,      \* the app: the number of the arrangement
  tree,         \* ui.tree: arrangement and labels; null is one without rows
  pending,      \* ui.pending: the sockets whose row says "Sending..."
  busyAllOff,   \* ui.busyAllOff
  busy,         \* ui.busy: the management buttons are disabled
  meta,         \* ui.meta is there
  banner,       \* "none", "load" or "meta" for a failed load, or a "message"
  loadFailed, metaFailed,
  loadSeq,      \* ui.loadSeq, as the request in flight with this number, if any
  metaSeq,      \* ui.metaSeq
  calls         \* the requests in flight, with what the app did so far

app     == <<sent, changes>>
banners == <<banner, loadFailed, metaFailed>>
flags   == <<pending, busyAllOff, busy>>
vars == <<app, tree, flags, meta, banners, loadSeq, metaSeq, calls>>

Nothing == [at |-> 0, label |-> <<>>]

(* A request: todo are the sockets that the app still has to send to, answer *)
(* is what it tells of rows, after is the request whose function awaits this *)
(* one; raced is history, the rows that another answer has set meanwhile.    *)
Call(kind, key, todo, after) ==
  [kind |-> kind, key |-> key, todo |-> todo, answer |-> Nothing,
   reply |-> "none", after |-> after, raced |-> {}]

Load(after) == Call("load", None, {}, after)
Meta        == Call("meta", None, {}, None)

Free == {i \in Slots : calls[i] = None}

(* The page is loaded: DOMContentLoaded.                                     *)
Init ==
  /\ sent = [s \in Sockets |-> 0]
  /\ changes = 0
  /\ tree = Nothing
  /\ pending = {} /\ busyAllOff = {} /\ busy = FALSE
  /\ meta = FALSE
  /\ banner = "none" /\ loadFailed = FALSE /\ metaFailed = FALSE
  /\ loadSeq \in Slots
  /\ metaSeq \in Slots \ {loadSeq}
  /\ calls = [i \in Slots |-> IF i = loadSeq THEN Load(None)
                              ELSE IF i = metaSeq THEN Meta ELSE None]

-----------------------------------------------------------------------------
(* The page is shown again: loadTree() and loadMeta(), up to their awaits.   *)
visibilitychange ==
  /\ loadSeq' \in Free
  /\ metaSeq' \in Free \ {loadSeq'}
  /\ calls' = [calls EXCEPT ![loadSeq'] = Load(None), ![metaSeq'] = Meta]
  /\ UNCHANGED <<app, tree, flags, meta, banners>>

Ask(call) ==
  /\ \E i \in Free : calls' = [calls EXCEPT ![i] = call]
  /\ UNCHANGED <<app, tree, meta, banners, loadSeq, metaSeq>>

(* switchSocket() up to its await: a tap on a row that is not locked.        *)
switchSocket(s) ==
  /\ s \in DOMAIN tree.label \ pending
  /\ pending' = pending \cup {s}
  /\ Ask(Call("switch", s, {s}, None))
  /\ UNCHANGED <<busyAllOff, busy>>

(* allOff() up to its await.  No row is locked by it.                        *)
allOff(k) ==
  /\ k \notin busyAllOff
  /\ Members[k] \cap DOMAIN tree.label # {}
  /\ busyAllOff' = busyAllOff \cup {k}
  /\ Ask(Call("alloff", k, Members[k], None))
  /\ UNCHANGED <<pending, busy>>

(* manage(), for a form that is saved, a deletion or a new order.            *)
manage(what) ==
  /\ meta
  /\ ~busy
  /\ busy' = TRUE
  /\ Ask(Call("manage", what, {}, None))
  /\ UNCHANGED <<pending, busyAllOff>>

-----------------------------------------------------------------------------
page == <<tree, flags, meta, banners, loadSeq, metaSeq>>

Has(i, kind)   == calls[i] # None /\ calls[i].kind = kind
Waits(i, kind) == Has(i, kind) /\ calls[i].reply = "none"

With(f, s, v) == [x \in DOMAIN f \cup {s} |-> IF x = s THEN v ELSE f[x]]

(* The app sends a command to one of the sockets of a request.              *)
Send(i, s) ==
  /\ Waits(i, "switch") \/ Waits(i, "alloff")
  /\ s \in calls[i].todo \cap DOMAIN sent
  /\ sent[s] < MaxCommands
  /\ sent' = [sent EXCEPT ![s] = @ + 1]
  /\ calls' = [calls EXCEPT ![i].todo = @ \ {s},
                            ![i].answer.label = With(@, s, sent'[s])]
  /\ UNCHANGED <<changes, page>>

(* The answers that tell of a success, or of what is gone: another one ends  *)
(* a request as if it were lost, but for the wording of the message.         *)
Reply(i, r, a) == calls' = [calls EXCEPT ![i].reply = r, ![i].answer = a]

(* All there is, now.                                                        *)
AnswerLoad(i) ==
  /\ Waits(i, "load") /\ Reply(i, "ok", [at |-> changes, label |-> sent])
  /\ UNCHANGED <<app, page>>

AnswerMeta(i) ==
  /\ Waits(i, "meta") /\ Reply(i, "ok", Nothing)
  /\ UNCHANGED <<app, page>>

(* The socket as it is now, or none if it cannot be read back.               *)
AnswerSwitch(i) ==
  /\ Waits(i, "switch") /\ calls[i].todo = {}
  /\ \/ Reply(i, "ok", Nothing)
     \/ LET s == calls[i].key
        IN  /\ s \in DOMAIN sent
            /\ Reply(i, "ok", [at |-> 0, label |-> With(<<>>, s, sent[s])])
  /\ UNCHANGED <<app, page>>

(* The commands as they were sent; what is left to do was skipped or failed. *)
AnswerAllOff(i) ==
  /\ Waits(i, "alloff") /\ Reply(i, "ok", calls[i].answer)
  /\ UNCHANGED <<app, page>>

(* The arrangement changes, and a socket may be gone.                        *)
Rearrange ==
  /\ changes < MaxChanges
  /\ changes' = changes + 1
  /\ \E gone \in SUBSET DOMAIN sent :
       /\ Cardinality(gone) <= 1
       /\ sent' = [s \in DOMAIN sent \ gone |-> sent[s]]

(* A change is made; or what it is about is gone, or the order has changed.  *)
AnswerManage(i) ==
  /\ Waits(i, "manage")
  /\ \/ Rearrange /\ Reply(i, "ok", [at |-> changes', label |-> <<>>])
     \/ Reply(i, "gone", Nothing) /\ UNCHANGED app
  /\ UNCHANGED page

(* Somebody else's page, or a request of this one that it has given up.      *)
OtherSwitch(s) ==
  /\ s \in DOMAIN sent /\ sent[s] < MaxCommands
  /\ sent' = [sent EXCEPT ![s] = @ + 1]
  /\ UNCHANGED <<changes, calls, page>>

OtherChange == Rearrange /\ UNCHANGED <<calls, page>>

-----------------------------------------------------------------------------
(* Mutant: a banner keeps the flags of the one that it replaces.             *)
showBannerOnly(b) ==
  /\ banner' = b
  /\ loadFailed' = (b = "load" \/ loadFailed)
  /\ metaFailed' = (b = "meta" \/ metaFailed)

(* showBanner() clears both flags; the two loads set theirs after it.        *)
showBanner(b) ==
  /\ banner' = b
  /\ loadFailed' = (b = "load")
  /\ metaFailed' = (b = "meta")

(* How a request ends for the page: with the answer of the app, or with the  *)
(* timer of api() or a lost connection (lost()).                             *)
Ends(i, r) == r = "lost" \/ (r = calls[i].reply /\ r # "none")

(* Mutant: answers are taken as they come.                                   *)
TakenAnyway(i) == TRUE

(* An answer older than the newest request is dropped.                       *)
Newest(i) == i = loadSeq

(* Whether the end of a management request shows a banner: a warning about   *)
(* what was saved, or that another device was faster.                        *)
Tells(c, r) ==
  CASE c.key = "save"    -> IF r = "ok" THEN BOOLEAN ELSE {FALSE}
    [] c.key = "delete"  -> {r = "gone"}
    [] c.key = "reorder" -> {r # "ok"}

Message(tell) == IF tell THEN showBanner("message") ELSE UNCHANGED banners

(* Mutant: only a switch that went well unlocks its row.                     *)
UnlockIfSent(s, r) == pending' = IF r = "ok" THEN pending \ {s} ELSE pending

(* The end of switchSocket().                                                *)
Unlock(s, r) == pending' = pending \ {s}

(* What loadTree() makes of its answer.                                      *)
LoadBanner(i, r) ==
  IF ~Newest(i) THEN UNCHANGED banners
  ELSE IF r # "ok" THEN showBanner("load")
  ELSE /\ banner' = IF loadFailed THEN "none" ELSE banner
       /\ loadFailed' = FALSE
       /\ UNCHANGED metaFailed

(* A request is over, and has set rows; of loads only the newest counts.     *)
Over(i, rows) ==
  LET Races(j) == /\ calls[j].kind \in {"load", "switch", "alloff"}
                  /\ calls[i].kind # "load" \/ calls[j].kind # "load"
  IN  calls' = [j \in Slots |->
                  IF j = i \/ calls[j] = None THEN None
                  ELSE IF Races(j) THEN [calls[j] EXCEPT !.raced = @ \cup rows]
                  ELSE calls[j]]

(* The rest of loadTree(), and of the function that awaits it.               *)
EndLoad(i, r) ==
  /\ Has(i, "load") /\ Ends(i, r)
  /\ IF Newest(i) /\ r = "ok" THEN tree' = calls[i].answer /\ Over(i, DOMAIN tree'.label)
                              ELSE UNCHANGED tree /\ Over(i, {})
  /\ LET c == calls[i].after
     IN  \/ c = None /\ LoadBanner(i, r) /\ UNCHANGED flags
         \/ /\ c # None /\ c.kind = "switch"
            /\ LoadBanner(i, r)
            /\ Unlock(c.key, c.reply)
            /\ UNCHANGED <<busyAllOff, busy>>
         \/ /\ c # None /\ c.kind = "manage"
            /\ \E tell \in Tells(c, c.reply) :
                 IF tell THEN showBanner("message") ELSE LoadBanner(i, r)
            /\ busy' = FALSE
            /\ UNCHANGED <<pending, busyAllOff>>
  /\ loadSeq' = IF Newest(i) THEN None ELSE loadSeq
  /\ UNCHANGED <<app, meta, metaSeq>>

(* The rest of loadMeta(): a failure is told only before the first success.  *)
EndMeta(i, r) ==
  /\ Has(i, "meta") /\ Ends(i, r)
  /\ Over(i, {})
  /\ meta' = (meta \/ (i = metaSeq /\ r = "ok"))
  /\ IF i # metaSeq \/ (r # "ok" /\ meta) THEN UNCHANGED banners
     ELSE IF r # "ok" THEN showBanner("meta")
     ELSE /\ banner' = IF metaFailed THEN "none" ELSE banner
          /\ metaFailed' = FALSE
          /\ UNCHANGED loadFailed
  /\ metaSeq' = IF i = metaSeq THEN None ELSE metaSeq
  /\ UNCHANGED <<app, tree, flags, loadSeq>>

(* The labels of rows that are still there, from an answer that has some.    *)
Relabel(i, r) ==
  LET got == IF r = "ok" THEN calls[i].answer.label ELSE <<>>
  IN  /\ tree' = [tree EXCEPT !.label =
                    [s \in DOMAIN @ |-> IF s \in DOMAIN got THEN got[s] ELSE @[s]]]
      /\ Over(i, DOMAIN got)

(* A function awaits a loadTree() of its own.                                *)
Reload(i, r) ==
  /\ calls' = [calls EXCEPT ![i] = Load([calls[i] EXCEPT !.reply = r])]
  /\ loadSeq' = i
  /\ UNCHANGED <<flags, banners>>

(* The rest of switchSocket(), or up to its loadTree() if the answer has no  *)
(* socket.                                                                   *)
EndSwitch(i, r) ==
  /\ Has(i, "switch") /\ Ends(i, r)
  /\ LET c == calls[i]
     IN  IF r = "ok" /\ c.answer = Nothing THEN Reload(i, r) /\ UNCHANGED tree
         ELSE /\ Relabel(i, r)
              /\ Unlock(c.key, r)
              /\ UNCHANGED <<busyAllOff, busy, banners, loadSeq>>
  /\ UNCHANGED <<app, meta, metaSeq>>

(* The rest of allOff(): labels, and a summary or an error.                  *)
EndAllOff(i, r) ==
  /\ Has(i, "alloff") /\ Ends(i, r)
  /\ Relabel(i, r)
  /\ showBanner("message")
  /\ busyAllOff' = busyAllOff \ {calls[i].key}
  /\ UNCHANGED <<app, pending, busy, meta, loadSeq, metaSeq>>

(* Mutant: the buttons are enabled as soon as the change is made.            *)
EndManageEarly(i, r) ==
  /\ Has(i, "manage") /\ Ends(i, r)
  /\ calls' = [calls EXCEPT ![i] = Load([calls[i] EXCEPT !.reply = r])]
  /\ loadSeq' = i
  /\ busy' = FALSE
  /\ UNCHANGED <<app, tree, pending, busyAllOff, meta, banners, metaSeq>>

(* The request of saveSocket(), saveRoom(), deleteSocket(), deleteRoom() or  *)
(* reorder() is answered: up to the loadTree() that shows the result, or to  *)
(* the end.  A socket that is added to a room that is gone loads nothing.    *)
EndManage(i, r) ==
  /\ Has(i, "manage") /\ Ends(i, r)
  /\ \/ r \in {"ok", "gone"} /\ Reload(i, r)
     \/ /\ r \notin {"ok", "gone"} \/ (r = "gone" /\ calls[i].key = "save")
        /\ Over(i, {})
        /\ busy' = FALSE
        /\ \E tell \in Tells(calls[i], r) : Message(tell)
        /\ UNCHANGED <<pending, busyAllOff, loadSeq>>
  /\ UNCHANGED <<app, tree, meta, metaSeq>>

End(i, r) ==
  EndLoad(i, r) \/ EndMeta(i, r) \/ EndSwitch(i, r) \/ EndAllOff(i, r) \/ EndManage(i, r)

Receive(i) == calls[i] # None /\ calls[i].reply # "none" /\ End(i, calls[i].reply)
lost(i)    == End(i, "lost")

Next ==
  \/ visibilitychange
  \/ \E s \in Sockets : switchSocket(s) \/ OtherSwitch(s)
  \/ \E k \in Keys : allOff(k)
  \/ \E what \in Changes : manage(what)
  \/ OtherChange
  \/ \E i \in Slots :
       \/ \E s \in Sockets : Send(i, s)
       \/ AnswerLoad(i) \/ AnswerMeta(i) \/ AnswerSwitch(i) \/ AnswerAllOff(i) \/ AnswerManage(i)
       \/ Receive(i) \/ lost(i)

Spec == Init /\ [][Next]_vars

(* api() has a timer, so every request ends.  Nothing is assumed of the app  *)
(* or of the owner.                                                          *)
FairSpec == Spec /\ \A i \in Slots : WF_vars(Receive(i) \/ lost(i))

-----------------------------------------------------------------------------
(* The requests of kind about key, with the loadTree() that ends them.       *)
InFlight(kind, key) ==
  {i \in Slots : calls[i] # None /\
     LET c == IF calls[i].after = None THEN calls[i] ELSE calls[i].after
     IN  c.kind = kind /\ c.key = key}

Count(kind, keys) == Cardinality(UNION {InFlight(kind, k) : k \in keys})

(* "the page never has two of them in flight": a row, an All-off button and  *)
(* the management buttons are locked exactly while one request of theirs is  *)
(* in flight, the load that follows it included, whatever else ends first.   *)
FlagsTellTheTruth ==
  /\ \A s \in Sockets : Count("switch", {s}) = (IF s \in pending THEN 1 ELSE 0)
  /\ \A k \in Keys : Count("alloff", {k}) = (IF k \in busyAllOff THEN 1 ELSE 0)
  /\ Count("manage", Changes) = (IF busy THEN 1 ELSE 0)

(* "only a banner that reports a failed load goes away with the next load":  *)
(* the report of an All-off and other messages stay until the next one; and  *)
(* the failure of a load is not told any more after a newer one succeeded.   *)
MessagesStay ==
  [][/\ banner = "message" => banner' # "none"
     /\ tree'.at > tree.at => banner' # "load"]_vars

(* "the row would stay on Sending... without an error": whatever the app and *)
(* the network do, every button can be used again.                           *)
ButtonsComeBack ==
  /\ \A s \in Sockets : s \in pending ~> s \notin pending
  /\ \A k \in Keys : k \in busyAllOff ~> k \notin busyAllOff
  /\ busy ~> ~busy

(* "An answer older than the newest request is dropped": the rows and their  *)
(* order never go back to an older arrangement, and a label goes back to an  *)
(* older command only when two answers cross and one of them is that of a    *)
(* switch or an All-off.  Whatever loads cross, the newest wins, and a load  *)
(* that nothing crosses sets the labels right.                               *)
OldAnswersAreDropped ==
  [][/\ tree'.at >= tree.at
     /\ \A s \in DOMAIN tree.label \cap DOMAIN tree'.label :
          tree'.label[s] < tree.label[s] =>
            \E i \in Slots : calls[i] # None /\ calls'[i] = None /\ s \in calls[i].raced]_vars
=============================================================================
