------------------------------ MODULE Codewords ------------------------------
(***************************************************************************)
(* The pure part of librsswitch.c: the code tables of the two supported     *)
(* socket families, the address check, the codeword that an address         *)
(* selects, and the pulses that one repetition of a codeword puts on the    *)
(* line.  A codeword is a sequence of tri-state symbols, a pulse is the     *)
(* pair <<nhigh, nlow>> that transmit() is called with.                     *)
(***************************************************************************)
EXTENDS Integers, Sequences

Symbols == {"0", "1", "F"}
Sync    == <<1, 31>>
Pulses  == {<<1, 3>>, <<3, 1>>, Sync}

SOCKET_CODEWORD_MIN_LEN == 1
SOCKET_CODEWORD_MAX_LEN == 12
SOCKET_PULSE_LEN_MIN_US == 50
SOCKET_PULSE_LEN_MAX_US == 2000

REV_008345  == 0
POLLIN_2605 == 1

-----------------------------------------------------------------------------
(* The three symbols, named so that a table row reads as in the source.      *)
F == "F"
O == "0"
I == "1"

(* A C table is a sequence here, so index i of the source is i + 1.         *)
rev_008345_groups  == << <<I,F,F,F>>, <<F,I,F,F>>, <<F,F,I,F>>, <<F,F,F,I>> >>
rev_008345_sockets == << <<I,F,F,O>>, <<F,I,F,O>>, <<F,F,I,O>> >>
rev_008345_data    == << <<O,O,O,I>>, <<O,O,I,O>> >>

pollin_2605_groups ==
  << <<F,F,F,F,F>>, <<O,F,F,F,F>>, <<F,O,F,F,F>>, <<O,O,F,F,F>>,
     <<F,F,O,F,F>>, <<O,F,O,F,F>>, <<F,O,O,F,F>>, <<O,O,O,F,F>>,
     <<F,F,F,O,F>>, <<O,F,F,O,F>>, <<F,O,F,O,F>>, <<O,O,F,O,F>>,
     <<F,F,O,O,F>>, <<O,F,O,O,F>>, <<F,O,O,O,F>>, <<O,O,O,O,F>>,
     <<F,F,F,F,O>>, <<O,F,F,F,O>>, <<F,O,F,F,O>>, <<O,O,F,F,O>>,
     <<F,F,O,F,O>>, <<O,F,O,F,O>>, <<F,O,O,F,O>>, <<O,O,O,F,O>>,
     <<F,F,F,O,O>>, <<O,F,F,O,O>>, <<F,O,F,O,O>>, <<O,O,F,O,O>>,
     <<F,F,O,O,O>>, <<O,F,O,O,O>>, <<F,O,O,O,O>>, <<O,O,O,O,O>> >>
pollin_2605_sockets == pollin_2605_groups   \* the source repeats the same rows
pollin_2605_data    == << <<F,O>>, <<O,F>> >>

(* The three tables of a device: an address <<dev, group, socket, data>>     *)
(* indexes them.                                                             *)
Tables(dev) ==
  CASE dev = REV_008345  -> <<rev_008345_groups, rev_008345_sockets, rev_008345_data>>
    [] dev = POLLIN_2605 -> <<pollin_2605_groups, pollin_2605_sockets, pollin_2605_data>>

KnownDev(dev) == dev \in {REV_008345, POLLIN_2605}

(* The three table sizes, which address_check() and socket_addr_limits()     *)
(* both read.                                                                *)
dev_limits(dev) == [k \in 1..3 |-> Len(Tables(dev)[k])]

address_check(a) ==
  /\ KnownDev(a[1])
  /\ \A k \in 1..3 : a[k + 1] < dev_limits(a[1])[k]

tristate_check(w) == w # <<>> /\ \A i \in 1..Len(w) : w[i] \in Symbols

(* What socket_send_codeword() demands before it takes the lock.             *)
codeword_check(w, pulse_len) ==
  /\ Len(w) \in SOCKET_CODEWORD_MIN_LEN..SOCKET_CODEWORD_MAX_LEN
  /\ tristate_check(w)
  /\ pulse_len \in SOCKET_PULSE_LEN_MIN_US..SOCKET_PULSE_LEN_MAX_US

(* rev_008345_send(), pollin_2605_send() and socket_ctrl(): the codeword of  *)
(* a checked address.  The parts of either family add up to twelve symbols,  *)
(* so the "Codeword too long" return of socket_ctrl() is never taken.        *)
socket_ctrl(a) ==
  LET t == Tables(a[1])
  IN  t[1][a[2] + 1] \o t[2][a[3] + 1] \o t[3][a[4] + 1]

-----------------------------------------------------------------------------
(* Mutant: send_f() makes its two transmit() calls in the wrong order.       *)
SwappedF(s, half) ==
  CASE s = "0" -> <<1, 3>>
    [] s = "1" -> <<3, 1>>
    [] s = "F" -> IF half = 1 THEN <<3, 1>> ELSE <<1, 3>>

(* send_0(), send_1() and send_f() make two transmit() calls each.           *)
SymbolPulse(s, half) ==
  CASE s = "0" -> <<1, 3>>
    [] s = "1" -> <<3, 1>>
    [] s = "F" -> IF half = 1 THEN <<1, 3>> ELSE <<3, 1>>

FrameLen(w) == 2 * Len(w) + 1

(* One pass of the loop body of send_tris(): two pulses for every symbol,    *)
(* then send_sync().                                                         *)
Frame(w) ==
  [k \in 1..FrameLen(w) |->
     IF k = FrameLen(w) THEN Sync
     ELSE SymbolPulse(w[(k + 1) \div 2], IF k % 2 = 1 THEN 1 ELSE 2)]
=============================================================================
