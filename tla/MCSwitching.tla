----------------------------- MODULE MCSwitching -----------------------------
(* Two sockets, which may share an address, and up to three requests.        *)
EXTENDS Switching, TLC

CONSTANTS r1, r2, r3, s1, s2, a1, a2

TwoRequests   == {r1, r2}
ThreeRequests == {r1, r2, r3}
MCSockets     == {s1, s2}
OneSocket     == {s1}
OneAddress    == {a1}
MCAddresses   == {a1, a2}

(* Two requests that switch one socket or all of them, and the owner who     *)
(* edits in between.                                                         *)
MCKinds == (r1 :> {"switch", "alloff"}) @@ (r2 :> {"switch", "alloff"})
             @@ (r3 :> {"edit", "delete"})

(* Two requests of any kind on one socket, as the clock goes on.             *)
ClockKinds == (r1 :> AllKinds) @@ (r2 :> {"switch", "edit"})

(* Two switches of one socket, and an edit that may hold the lock.           *)
RaceKinds == (r1 :> {"switch"}) @@ (r2 :> {"switch"}) @@ (r3 :> {"edit"})

Symmetry == Permutations(TwoRequests) \cup Permutations(MCSockets)
              \cup Permutations(MCAddresses)
=============================================================================
