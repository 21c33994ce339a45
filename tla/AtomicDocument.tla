--------------------------- MODULE AtomicDocument ----------------------------
(***************************************************************************)
(* What the store promises (the class comment of Store in store.py): every  *)
(* writer applies its change to the document as it is at that moment, at    *)
(* once and at most once, or not at all.  A change that was confirmed is    *)
(* there after a power loss; one that was not may be there or not.          *)
(***************************************************************************)
CONSTANTS
  Writers,
  Docs,
  Change(_, _)   \* Change(w, d) is the document d after the change of w

VARIABLES
  doc,      \* the document that a reader gets
  durable,  \* the documents that may be found after a power loss
  status    \* how far each writer is

vars == <<doc, durable, status>>

Open == {"running", "applied"}
Bad  == {"store_error", "internal_error"}

Init ==
  /\ doc \in Docs
  /\ durable = {doc}
  /\ status = [w \in Writers |-> "running"]

Becomes(w, s) == status' = [status EXCEPT ![w] = s]

Apply(w) ==
  /\ status[w] = "running"
  /\ doc' = Change(w, doc)
  /\ durable' = durable \cup {doc'}
  /\ Becomes(w, "applied")

Confirm(w) ==
  /\ status[w] = "applied"
  /\ durable' = {doc}
  /\ Becomes(w, "ok")
  /\ UNCHANGED doc

(* A change that changes nothing is confirmed as it is.  It lasts no better  *)
(* than the document does that another writer applied and failed to confirm. *)
NothingToDo(w) ==
  /\ status[w] = "running"
  /\ Change(w, doc) = doc
  /\ Becomes(w, "ok")
  /\ UNCHANGED <<doc, durable>>

(* The writer's own checks refuse the change.                                *)
Refuse(w) ==
  /\ status[w] = "running"
  /\ Becomes(w, "refused")
  /\ UNCHANGED <<doc, durable>>

Fail(w) ==
  /\ status[w] \in Open
  /\ \E s \in Bad : Becomes(w, s)
  /\ UNCHANGED <<doc, durable>>

Lose(S) ==
  /\ \A w \in S : status[w] \in Open
  /\ status' = [w \in Writers |-> IF w \in S THEN "lost" ELSE status[w]]

Crash == \E S \in SUBSET Writers : Lose(S) /\ UNCHANGED <<doc, durable>>

PowerLoss ==
  /\ \E S \in SUBSET Writers :
       /\ \A w \in Writers : status[w] = "applied" => w \in S
       /\ Lose(S)
  /\ doc' \in durable
  /\ durable' = {doc'}

Next ==
  \/ \E w \in Writers :
       Apply(w) \/ Confirm(w) \/ NothingToDo(w) \/ Refuse(w) \/ Fail(w)
  \/ Crash
  \/ PowerLoss

Spec == Init /\ [][Next]_vars
=============================================================================
