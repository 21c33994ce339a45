----------------------------- MODULE MCRsswitchd -----------------------------
(* A client that sends two lines in pieces of any size and may stop at any   *)
(* byte of them: a command of the greatest length, with a CR before its LF,  *)
(* and another command; a line that is no command and a command; or a line   *)
(* that is too long, whose tail is a command, and one that is no command.    *)
(* The other client sends an empty line.                                     *)
EXTENDS Rsswitchd, TLC

CONSTANTS c1, c2

TwoClients == {c1, c2}

On   == <<"0", " ", "3", " ", "0", " ", "1">>
Off  == <<"0", " ", "3", " ", "0", " ", "0">>
Bad  == <<"F", LF>>
Long == [i \in 1..PROTO_MAX_LINE + 1 |-> "F"] \o On \o <<LF>>

MCStreams ==
  (c1 :> {On \o <<CR, LF>> \o Off \o <<LF>>, Bad \o On \o <<LF>>, Long \o Bad})
  @@ (c2 :> {<<LF>>})

(* A client that always has another byte and never ends its line.            *)
FloodStreams == (c1 :> {<<"F">>}) @@ (c2 :> {<<LF>>})
=============================================================================
