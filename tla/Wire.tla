-------------------------------- MODULE Wire ---------------------------------
(***************************************************************************)
(* The path of a command, end to end: the address that the owner enters is  *)
(* checked by the web app (model.py, validation.py), rendered as a line     *)
(* (switching.py, daemon.py), parsed by rsswitchd (rsswitchd_proto.c),      *)
(* checked again and encoded by the library, and heard by the sockets.      *)
(* Both ends keep their own tables of the device types.                     *)
(*                                                                          *)
(* Other clients write lines by hand: these are made by editing well-formed *)
(* commands byte by byte.                                                   *)
(***************************************************************************)
EXTENDS Proto, Receivers

CONSTANTS
  Entered,   \* <<type, group, number, state>> as a request may carry them
  Seeds,     \* the lines that other clients start from
  Bytes,     \* the bytes that an edit puts in
  MaxEdits,  \* bound on the edits of a seed
  NotAnInt   \* a JSON value that is no integer: true, 3.0, "3", null

ASSUME WireAssumption ==
  /\ MaxEdits \in Nat
  /\ NotAnInt \notin Int
  /\ Entered \subseteq STRING \X (Int \cup {NotAnInt}) \X (Int \cup {NotAnInt}) \X {"on", "off"}
  /\ Seeds \subseteq Seq(STRING)
  /\ Bytes \subseteq STRING

VARIABLES
  stage,     \* "idle", "refused" by the web app, a "line" on the wire, on "air"
  entered,   \* what the owner entered, <<>> for a line of another client
  line,      \* the line on the wire, without its LF
  edits,     \* how many edits it is away from a seed
  air        \* the frame that the library puts on the air, <<>> for none

wireVars == <<stage, entered, line, edits, air>>

-----------------------------------------------------------------------------
(* "%d" of a number below 10000.                                             *)
Decimal(n) ==
  LET d(k) == Digits[k + 1]
  IN  CASE n \in 0..9     -> <<d(n)>>
        [] n \in 10..99   -> <<d(n \div 10), d(n % 10)>>
        [] n \in 100..999 -> <<d(n \div 100), d((n \div 10) % 10), d(n % 10)>>
        [] OTHER -> <<d(n \div 1000), d((n \div 100) % 10), d((n \div 10) % 10), d(n % 10)>>

Numerals == [n \in 0..SOCKET_PULSE_LEN_MAX_US |-> Decimal(n)]

(* SOCKET_TYPES: the web app's own table of the wire value and the limits.   *)
SOCKET_TYPES ==
  [rev_008345  |-> [dev |-> 0, groups |-> 4,  sockets |-> 3],
   pollin_2605 |-> [dev |-> 1, groups |-> 32, sockets |-> 32]]

is_strict_int(value) == value # NotAnInt

(* Mutant: the limits are inclusive.                                         *)
address_ok_inclusive(type, group, number) ==
  /\ is_strict_int(group) /\ 0 <= group /\ group <= SOCKET_TYPES[type].groups
  /\ is_strict_int(number) /\ 0 <= number /\ number <= SOCKET_TYPES[type].sockets

(* address_problem() returns None.                                           *)
address_ok(type, group, number) ==
  /\ is_strict_int(group) /\ 0 <= group /\ group < SOCKET_TYPES[type].groups
  /\ is_strict_int(number) /\ 0 <= number /\ number < SOCKET_TYPES[type].sockets

check_socket_fields(e) ==
  e[1] \in DOMAIN SOCKET_TYPES /\ address_ok(e[1], e[2], e[3])

(* switch_socket(): the arguments of send() for a stored address.            *)
Command(e) ==
  <<SOCKET_TYPES[e[1]].dev, e[2], e[3], IF e[4] = "on" THEN 1 ELSE 0>>

(* RsswitchdClient.send(): "%d %d %d %d\n".  Its own argument checks never   *)
(* refuse what the validation let through.                                   *)
Render(a) ==
  Numerals[a[1]] \o <<Blank>> \o Numerals[a[2]] \o <<Blank>> \o
  Numerals[a[3]] \o <<Blank>> \o Numerals[a[4]]

-----------------------------------------------------------------------------
WireInit == stage = "idle" /\ entered = <<>> /\ line = <<>> /\ edits = 0 /\ air = <<>>

(* The owner's socket is stored and switched, or its address is refused.     *)
Enter ==
  /\ stage = "idle"
  /\ entered' \in Entered
  /\ \/ /\ check_socket_fields(entered')
        /\ stage' = "line"
        /\ line' = Render(Command(entered'))
     \/ /\ ~check_socket_fields(entered')
        /\ stage' = "refused"
        /\ UNCHANGED line
  /\ UNCHANGED <<edits, air>>

(* Another client writes a line.                                             *)
WriteLine ==
  /\ stage = "idle"
  /\ stage' = "line"
  /\ line' \in Seeds
  /\ UNCHANGED <<entered, edits, air>>

Change ==
  /\ stage = "line" /\ entered = <<>>
  /\ edits < MaxEdits
  /\ edits' = edits + 1
  /\ \/ \E i \in 1..Len(line), b \in Bytes : line' = [line EXCEPT ![i] = b]
     \/ \E i \in 1..(Len(line) + 1), b \in Bytes : line' = InsertAt(line, i, b)
     \/ \E i \in 1..Len(line) : Len(line) > 1 /\ line' = RemoveAt(line, i)
  /\ UNCHANGED <<stage, entered, air>>

(* handle_command() and socket_send() or socket_send_codeword().             *)
Send ==
  /\ stage = "line"
  /\ stage' = "air"
  /\ LET cmd == parse_line(line)
     IN  air' = CASE cmd.kind = "SWITCH" -> Frame(socket_ctrl(cmd.addr))
                  [] cmd.kind = "RAW"    -> Frame(cmd.tristate)
                  [] OTHER               -> <<>>
  /\ UNCHANGED <<entered, line, edits>>

WireNext == Enter \/ WriteLine \/ Change \/ Send

WireSpec == WireInit /\ [][WireNext]_wireVars

-----------------------------------------------------------------------------
(* The socket that an entered address is meant for: the setting of its       *)
(* switches with the command, of the sockets that can exist.                 *)
Meant(e) ==
  {s \in Settings :
     /\ s[1] = (CASE e[1] = "rev_008345" -> REV_008345
                  [] e[1] = "pollin_2605" -> POLLIN_2605
                  [] OTHER -> -1)
     /\ <<s[2], s[3]>> = <<e[2], e[3]>>
     /\ s[4] = IF e[4] = "on" THEN 1 ELSE 0}

(* Of all the sockets of both families that can exist, exactly the one that  *)
(* the owner entered obeys, with the commanded state: the type table and the *)
(* limits of the web app, the wire format, the address check and the code    *)
(* tables of the library and the symbol waveforms agree with the switches on *)
(* the sockets, and the web app refuses no socket that exists.               *)
ExactlyTheAddressedSocketObeys ==
  /\ entered # <<>> /\ stage = "air" =>
       /\ Meant(entered) # {}
       /\ {s \in Settings : Hears(s, air)} = Meant(entered)
  /\ stage = "refused" => Meant(entered) = {}

ValidAddresses == {a \in (0..1) \X (0..31) \X (0..31) \X (0..1) : address_check(a)}

Rendered == [a \in ValidAddresses |-> Render(a)]

RenderRaw(w, p) == <<"r", "a", "w", Blank>> \o w \o <<Blank>> \o Numerals[p]

(* A blank that ends a codeword in the line, with the number that follows.   *)
RawSpellings ==
  {jp \in (1..Len(line)) \X (SOCKET_PULSE_LEN_MIN_US..SOCKET_PULSE_LEN_MAX_US) :
     /\ line[jp[1]] = Blank
     /\ jp[1] - 5 \in SOCKET_CODEWORD_MIN_LEN..SOCKET_CODEWORD_MAX_LEN
     /\ \A k \in 5..(jp[1] - 1) : line[k] \in Symbols
     /\ line = RenderRaw(SubSeq(line, 5, jp[1] - 1), jp[2])}

(* The commands that a line spells: at most one.                             *)
Spelled ==
  {Switch(a) : a \in {b \in ValidAddresses : Rendered[b] = line}}
    \cup {Raw(SubSeq(line, 5, jp[1] - 1), jp[2]) : jp \in RawSpellings}

(* The parser takes a line for a command exactly when the line is the        *)
(* canonical rendering of one that the library would accept, and then for    *)
(* that very command: no second spelling (a leading zero, a doubled blank, a *)
(* number that wraps) and no valid command that is refused.                  *)
ParserMatchesGrammar ==
  stage = "line" /\ entered = <<>> =>
    {parse_line(line)} \ {Error("syntax"), Error("range")} = Spelled
=============================================================================
