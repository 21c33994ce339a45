------------------------------ MODULE Receivers ------------------------------
(***************************************************************************)
(* The radio-controlled sockets: which of the sockets that exist would obey *)
(* a frame on the air.  They are hardware and external to the repository;   *)
(* the model of one is its decoder chip, which reads pulses and the setting *)
(* of its address switches and knows nothing of the code tables.            *)
(***************************************************************************)
EXTENDS Codewords

(* The symbol that a pair of pulses stands for; "?" for no symbol.           *)
Symbol(p, q) ==
  CASE p = <<1, 3>> /\ q = <<1, 3>> -> "0"
    [] p = <<3, 1>> /\ q = <<3, 1>> -> "1"
    [] p = <<1, 3>> /\ q = <<3, 1>> -> "F"
    [] OTHER -> "?"

(* The word in a frame of twelve symbols and a sync pulse.                   *)
Word(frame) == [i \in 1..12 |-> Symbol(frame[2 * i - 1], frame[2 * i])]

WholeFrame(frame) == Len(frame) = 25 /\ frame[25] = Sync

(* REV 008345: a rotary switch for the group and one for the number connects *)
(* one pin to the supply.                                                    *)
RevHears(group, number, data, w) ==
  /\ \A i \in 1..4 : w[i] = IF i = group + 1 THEN "1" ELSE "F"
  /\ \A i \in 1..3 : w[4 + i] = IF i = number + 1 THEN "1" ELSE "F"
  /\ w[8] = "0"
  /\ SubSeq(w, 9, 12) = IF data = 1 THEN <<"0", "0", "1", "0">>
                                    ELSE <<"0", "0", "0", "1">>

(* Pollin 2605: a row of five DIP switches for the group and one for the     *)
(* number; a switch that is on connects its pin to ground.                   *)
DipWeights == <<1, 2, 4, 8, 16>>

DipOn(value, i) == (value \div DipWeights[i]) % 2 = 1

PollinHears(group, number, data, w) ==
  /\ \A i \in 1..5 : w[i] = IF DipOn(group, i) THEN "0" ELSE "F"
  /\ \A i \in 1..5 : w[5 + i] = IF DipOn(number, i) THEN "0" ELSE "F"
  /\ SubSeq(w, 11, 12) = IF data = 1 THEN <<"0", "F">> ELSE <<"F", "0">>

(* Every setting that a socket of either family can have, with the command   *)
(* that it would obey.                                                       *)
Settings ==
  {<<REV_008345, g, n, d>> : g \in 0..3, n \in 0..2, d \in 0..1}
    \cup {<<POLLIN_2605, g, n, d>> : g \in 0..31, n \in 0..31, d \in 0..1}

Hears(s, frame) ==
  /\ WholeFrame(frame)
  /\ LET w == Word(frame)
     IN  IF s[1] = REV_008345 THEN RevHears(s[2], s[3], s[4], w)
                              ELSE PollinHears(s[2], s[3], s[4], w)
=============================================================================
