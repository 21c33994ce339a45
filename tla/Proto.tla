-------------------------------- MODULE Proto --------------------------------
(***************************************************************************)
(* The wire protocol of rsswitchd (examples/network/rsswitchd_proto.c): the *)
(* line parser, and the incremental framing that proto_next() does with one *)
(* byte of input at a time.  A line is a sequence of one-character strings. *)
(* The wording of an error is left out, its class is kept.                  *)
(***************************************************************************)
EXTENDS Codewords, SequencesExt

CONSTANT PROTO_MAX_LINE

ASSUME ProtoAssumption == PROTO_MAX_LINE \in Nat \ {0}

Digits == <<"0", "1", "2", "3", "4", "5", "6", "7", "8", "9">>
Blank  == " "
LF     == "\n"
CR     == "\r"

Empty       == [kind |-> "EMPTY"]
Error(err)  == [kind |-> "ERROR", err |-> err]
Switch(a)   == [kind |-> "SWITCH", addr |-> a]
Raw(w, p)   == [kind |-> "RAW", tristate |-> w, pulse_len |-> p]
Nothing     == [kind |-> "NOTHING"]   \* proto_next() needs more input

-----------------------------------------------------------------------------
(* The pieces of a byte sequence between the occurrences of a separator: a   *)
(* separator starts the next piece, any other byte belongs to the last one.  *)
PieceStep(ps, c, sep) ==
  IF c = sep THEN Append(ps, <<>>) ELSE [ps EXCEPT ![Len(ps)] = Append(@, c)]

Pieces(bytes, sep) ==
  LET upTo[n \in 0..Len(bytes)] ==
        IF n = 0 THEN << <<>> >> ELSE PieceStep(upTo[n - 1], bytes[n], sep)
  IN  upTo[Len(bytes)]

split_fields(line) == Pieces(line, Blank)

(* Mutant: leading zeros are accepted.                                       *)
field_ok_zeros(f) ==
  f # <<>> /\ \A i \in 1..Len(f) : Contains(Digits, f[i])

field_ok(f) ==
  /\ f # <<>>
  /\ \A i \in 1..Len(f) : Contains(Digits, f[i])
  /\ Len(f) > 1 => f[1] # "0"

DigitValue(c) == (CHOOSE d \in 1..10 : Digits[d] = c) - 1

(* The value of a field that passed field_ok().  Ten digits or more are      *)
(* beyond every limit, whether or not they fit in 32 bits, and their class   *)
(* is "range" either way: one value stands for them all.                     *)
Large == 1000000000

Value(f) ==
  LET upTo[n \in 0..Len(f)] ==
        IF n = 0 THEN 0 ELSE 10 * upTo[n - 1] + DigitValue(f[n])
  IN  upTo[Len(f)]

field_to_u32(f) == IF Len(f) >= 10 THEN Large ELSE Value(f)

(* The per-device limits come from the library (socket_addr_limits()).       *)
check_range(a) == IF address_check(a) THEN Switch(a) ELSE Error("range")

parse_raw(tristate, pulse) ==
  IF ~tristate_check(tristate) \/ ~field_ok(pulse) THEN Error("syntax")
  ELSE IF codeword_check(tristate, field_to_u32(pulse))
  THEN Raw(tristate, field_to_u32(pulse)) ELSE Error("range")

parse_line(line) ==
  LET f == split_fields(line)
  IN  IF Len(f) = 3 /\ f[1] = <<"r", "a", "w">> THEN parse_raw(f[2], f[3])
      ELSE IF Len(f) = 4 /\ \A i \in 1..4 : field_ok(f[i])
      THEN check_range([i \in 1..4 |-> field_to_u32(f[i])])
      ELSE Error("syntax")

(* A line without its LF: one CR before the LF is not part of the command.   *)
StripCR(line) ==
  IF line # <<>> /\ Last(line) = CR THEN Front(line) ELSE line

parse_stripped(line) ==
  IF StripCR(line) = <<>> THEN Empty ELSE parse_line(StripCR(line))

-----------------------------------------------------------------------------
(* struct proto_conn                                                         *)
proto_init == [buf |-> <<>>, discarding |-> FALSE]

(* Mutant: a line that was too long is not discarded up to its LF.           *)
proto_byte_keeps(conn, c) ==
  IF c = LF THEN [conn |-> proto_init, cmd |-> parse_stripped(conn.buf)]
  ELSE IF Len(conn.buf) >= PROTO_MAX_LINE
  THEN [conn |-> proto_init, cmd |-> Error("toolong")]
  ELSE [conn |-> [conn EXCEPT !.buf = Append(@, c)], cmd |-> Nothing]

(* One pass of the loop of proto_next(): the connection after the byte c and *)
(* the result that proto_next() returns with, or Nothing.                    *)
proto_byte(conn, c) ==
  IF conn.discarding
  THEN [conn |-> [conn EXCEPT !.discarding = (c # LF)], cmd |-> Nothing]
  ELSE IF c = LF
  THEN [conn |-> proto_init, cmd |-> parse_stripped(conn.buf)]
  ELSE IF Len(conn.buf) >= PROTO_MAX_LINE
  THEN [conn |-> [buf |-> <<>>, discarding |-> TRUE], cmd |-> Error("toolong")]
  ELSE [conn |-> [conn EXCEPT !.buf = Append(@, c)], cmd |-> Nothing]

-----------------------------------------------------------------------------
(* What a client may expect of a whole byte stream, from the documented      *)
(* format: every line that ends in LF has one result, and so has a last line *)
(* without LF that is already too long.                                      *)
LineResult(line) ==
  IF Len(line) > PROTO_MAX_LINE THEN Error("toolong") ELSE parse_stripped(line)

Results(bytes) ==
  LET lines == Pieces(bytes, LF)
      ended == [i \in 1..(Len(lines) - 1) |-> LineResult(lines[i])]
  IN  IF Len(Last(lines)) > PROTO_MAX_LINE
      THEN Append(ended, Error("toolong")) ELSE ended
=============================================================================
