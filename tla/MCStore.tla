------------------------------- MODULE MCStore -------------------------------
(* Two threads of one server and the thread of a second process.  A document *)
(* is the set of the changes that it has; two writers want the same one, as  *)
(* after a retry, so that one of them may find nothing to change.            *)
EXTENDS Store, TLC

CONSTANTS w1, w2, w3, p1, p2, x, y

MCWriters   == {w1, w2, w3}
MCProcesses == {p1, p2}
MCProcessOf == (w1 :> p1) @@ (w2 :> p1) @@ (w3 :> p2)
MCDocs      == {{}, {x}, {y}, {x, y}}

MCChange(w, d) == d \cup {IF w = w2 THEN y ELSE x}
=============================================================================
