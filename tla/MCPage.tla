------------------------------- MODULE MCPage --------------------------------
(* A household of one socket.  With two requests at a time, a switch, an     *)
(* All-off or a change crosses a load, and the load that it begins itself    *)
(* crosses the one of a page that was shown again.                           *)
EXTENDS Page

CONSTANTS s1, i1, i2, HOUSEHOLD

MCSockets == {s1}
MCSlots   == {i1, i2}
MCKeys    == {HOUSEHOLD}
MCMembers == [k \in MCKeys |-> MCSockets]
=============================================================================
