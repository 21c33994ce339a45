----------------------------- MODULE SendSession -----------------------------
(***************************************************************************)
(* The send sessions of librsswitch.c on the libgpiod board                 *)
(* (boards/gpiod/gpiod_board.c): threads of one process that call           *)
(* socket_send(), socket_send_codeword() and socket_gpio_config(), the       *)
(* library-wide send_lock, the static state of the board, and the GPIO       *)
(* lines with their physical level.  Every write to a line is a step of its  *)
(* own and may fail; the process may be killed between any two steps; other  *)
(* processes may hold a line and leave it at any level.                      *)
(***************************************************************************)
EXTENDS Codewords

CONSTANTS
  Threads,      \* the threads of the process
  Addresses,    \* what socket_send() is called with
  RawCalls,     \* <<tristate, pulse_len>> of socket_send_codeword()
  Configs,      \* the config strings of socket_gpio_config(), NULL excepted
  Lines,        \* the GPIO lines of the machine
  DefaultLine,  \* DEFAULT_CHIPNAME and DEFAULT_LINE_OFFSET of the board
  LineOf,       \* the line that a config string names, NoLine if malformed
  NTIMES,       \* repetitions of a codeword in one session
  NoThread, NoLine, NULL

ASSUME ConstantsAssumption ==
  /\ Addresses \subseteq Nat \X Nat \X Nat \X Nat
  /\ \A c \in RawCalls : c[1] \in Seq(STRING)
  /\ DefaultLine \in Lines
  /\ LineOf \in [Configs -> Lines \cup {NoLine}]
  /\ NTIMES \in Nat \ {0}
  /\ NoThread \notin Threads
  /\ NoLine \notin Lines
  /\ NULL \notin Configs

VARIABLES
  (* librsswitch.c: file scope *)
  send_lock,    \* the thread that holds the mutex, or NoThread
  gpio_config,  \* the stored config string, or NULL
  (* gpiod_board.c: file scope *)
  chip,         \* the line that the open session has requested, or NoLine
  line_high,    \* 1 only between a high write and the next low write
  (* locals of the calls in progress *)
  pc,           \* where each thread is
  word,         \* the codeword of its send
  config,       \* the argument of its socket_gpio_config()
  rep,          \* n of send_tris(): repetitions finished
  pulse,        \* pulses finished in this repetition
  ret,          \* the value that the call returns
  (* the machine *)
  owner,        \* who has requested each line
  level,        \* the level that each line is driven to
  (* history *)
  aired,        \* what the process has put on the air since board_init()
  blamed        \* lines that a fault has left high

libVars   == <<send_lock, gpio_config>>
boardVars == <<chip, line_high>>
callVars  == <<pc, word, config, rep, pulse, ret>>
lineVars  == <<owner, level>>
histVars  == <<aired, blamed>>
vars == <<libVars, boardVars, callVars, lineVars, histVars>>

Words == {socket_ctrl(a) : a \in {b \in Addresses : address_check(b)}}
           \cup {c[1] : c \in {d \in RawCalls : codeword_check(d[1], d[2])}}
PCs    == {"idle", "lock", "init", "high", "low", "exit", "unlock", "config"}
Owners == {"free", "us", "other"}
Silent == [frames |-> <<>>, partial |-> <<>>]

(* The threads between board_init() and the end of board_exit().             *)
InSession(t) == pc[t] \in {"high", "low", "exit"}

-----------------------------------------------------------------------------
Init ==
  /\ send_lock = NoThread
  /\ gpio_config = NULL
  /\ chip = NoLine
  /\ line_high = 0
  /\ pc = [t \in Threads |-> "idle"]
  /\ word = [t \in Threads |-> <<>>]
  /\ config = [t \in Threads |-> NULL]
  /\ rep = [t \in Threads |-> 0]
  /\ pulse = [t \in Threads |-> 0]
  /\ ret = [t \in Threads |-> 0]
  /\ owner = [l \in Lines |-> "free"]
  /\ level = [l \in Lines |-> "low"]
  /\ aired = Silent
  /\ blamed = {}

-----------------------------------------------------------------------------
(* A send with valid arguments goes on to wait for the lock; the arguments   *)
(* are checked before it.                                                    *)
Proceed(t, w) ==
  /\ pc' = [pc EXCEPT ![t] = "lock"]
  /\ word' = [word EXCEPT ![t] = w]
  /\ UNCHANGED ret

(* An invalid argument: -1, with neither the lock nor the board touched.     *)
Refuse(t) ==
  /\ ret' = [ret EXCEPT ![t] = -1]
  /\ UNCHANGED <<pc, word>>

socket_send(t) ==
  /\ pc[t] = "idle"
  /\ \E a \in Addresses :
       \/ address_check(a) /\ Proceed(t, socket_ctrl(a))
       \/ ~address_check(a) /\ Refuse(t)
  /\ UNCHANGED <<libVars, boardVars, lineVars, histVars, config, rep, pulse>>

socket_send_codeword(t) ==
  /\ pc[t] = "idle"
  /\ \E c \in RawCalls :
       \/ codeword_check(c[1], c[2]) /\ Proceed(t, c[1])
       \/ ~codeword_check(c[1], c[2]) /\ Refuse(t)
  /\ UNCHANGED <<libVars, boardVars, lineVars, histVars, config, rep, pulse>>

(* Mutant: the send does not wait for the holder of the lock.                *)
LockWithoutWaiting(t) ==
  /\ pc[t] = "lock"
  /\ send_lock' = t
  /\ pc' = [pc EXCEPT ![t] = "init"]
  /\ UNCHANGED <<gpio_config, boardVars, word, config, rep, pulse, ret,
                 lineVars, histVars>>

(* pthread_mutex_lock() of a send.                                           *)
Lock(t) ==
  /\ pc[t] = "lock"
  /\ send_lock = NoThread
  /\ send_lock' = t
  /\ pc' = [pc EXCEPT ![t] = "init"]
  /\ UNCHANGED <<gpio_config, boardVars, word, config, rep, pulse, ret,
                 lineVars, histVars>>

(* The mutex cannot be locked: a send returns -1, and socket_gpio_config()   *)
(* stores nothing.                                                           *)
LockFails(t) ==
  /\ pc[t] \in {"lock", "config"}
  /\ ret' = [ret EXCEPT ![t] = IF pc[t] = "lock" THEN -1 ELSE @]
  /\ pc' = [pc EXCEPT ![t] = "idle"]
  /\ word' = [word EXCEPT ![t] = <<>>]
  /\ config' = [config EXCEPT ![t] = NULL]
  /\ UNCHANGED <<libVars, boardVars, rep, pulse, lineVars, histVars>>

parse_config(c) == IF c = NULL THEN DefaultLine ELSE LineOf[c]

(* board_init() with a request that the kernel grants: the line becomes a    *)
(* low output whatever its level was.                                        *)
BoardInit(t) ==
  LET l == parse_config(gpio_config)
  IN  /\ pc[t] = "init"
      /\ l # NoLine
      /\ owner[l] = "free"
      /\ owner' = [owner EXCEPT ![l] = "us"]
      /\ level' = [level EXCEPT ![l] = "low"]
      /\ chip' = l
      /\ line_high' = 0
      /\ rep' = [rep EXCEPT ![t] = 0]
      /\ pulse' = [pulse EXCEPT ![t] = 0]
      /\ ret' = [ret EXCEPT ![t] = 0]
      /\ pc' = [pc EXCEPT ![t] = "high"]
      /\ aired' = Silent
      /\ blamed' = blamed \ {l}
      /\ UNCHANGED <<libVars, word, config>>

(* Mutant: the early return after a failed board_init() keeps the lock.      *)
BoardInitFailsLocked(t) ==
  /\ pc[t] = "init"
  /\ ret' = [ret EXCEPT ![t] = -1]
  /\ pc' = [pc EXCEPT ![t] = "idle"]
  /\ UNCHANGED <<libVars, boardVars, word, config, rep, pulse, lineVars, histVars>>

(* board_init() fails: a malformed config, a chip or a line that cannot be   *)
(* opened, no memory, or a line that somebody else has requested.  Every     *)
(* such path closes the chip again and leaves the line alone.                *)
BoardInitFails(t) ==
  /\ pc[t] = "init"
  /\ ret' = [ret EXCEPT ![t] = -1]
  /\ pc' = [pc EXCEPT ![t] = "unlock"]
  /\ \/ parse_config(gpio_config) = NoLine /\ UNCHANGED chip
     \/ parse_config(gpio_config) # NoLine /\ chip' = NoLine
  /\ UNCHANGED <<libVars, line_high, word, config, rep, pulse, lineVars, histVars>>

(* The first write of transmit().  A write that fails leaves the level as it *)
(* was, and send_tris() abandons the codeword.                               *)
TransmitHigh(t) ==
  /\ pc[t] = "high"
  /\ chip \in Lines
  /\ \/ /\ level' = [level EXCEPT ![chip] = "high"]
        /\ line_high' = 1
        /\ pc' = [pc EXCEPT ![t] = "low"]
        /\ UNCHANGED ret
     \/ /\ pc' = [pc EXCEPT ![t] = "exit"]
        /\ ret' = [ret EXCEPT ![t] = -1]
        /\ UNCHANGED <<level, line_high>>
  /\ UNCHANGED <<libVars, chip, word, config, rep, pulse, owner, histVars>>

(* What the air carries after one more pulse: a sync pulse ends a frame.     *)
Aired(a, p) ==
  IF p = Sync
  THEN [frames |-> Append(a.frames, Append(a.partial, p)), partial |-> <<>>]
  ELSE [a EXCEPT !.partial = Append(@, p)]

(* Mutant: the loop over the repetitions tests n <= NTIMES.                  *)
AdvanceOneTooMany(t) ==
  IF pulse[t] + 1 < FrameLen(word[t])
  THEN /\ pulse' = [pulse EXCEPT ![t] = @ + 1]
       /\ pc' = [pc EXCEPT ![t] = "high"]
       /\ UNCHANGED <<rep, ret>>
  ELSE /\ pulse' = [pulse EXCEPT ![t] = 0]
       /\ rep' = [rep EXCEPT ![t] = @ + 1]
       /\ pc' = [pc EXCEPT ![t] = IF rep[t] + 1 <= NTIMES THEN "high" ELSE "exit"]
       /\ ret' = [ret EXCEPT ![t] = 0]

(* The loops of send_tris() after a pulse: the next pulse of the repetition, *)
(* the next repetition, or the end.                                          *)
Advance(t) ==
  \/ /\ pulse[t] + 1 < FrameLen(word[t])
     /\ pulse' = [pulse EXCEPT ![t] = @ + 1]
     /\ pc' = [pc EXCEPT ![t] = "high"]
     /\ UNCHANGED <<rep, ret>>
  \/ /\ pulse[t] + 1 = FrameLen(word[t])
     /\ pulse' = [pulse EXCEPT ![t] = 0]
     /\ rep' = [rep EXCEPT ![t] = @ + 1]
     /\ \/ /\ rep[t] + 1 < NTIMES
           /\ pc' = [pc EXCEPT ![t] = "high"]
           /\ UNCHANGED ret
        \/ /\ rep[t] + 1 = NTIMES
           /\ pc' = [pc EXCEPT ![t] = "exit"]
           /\ ret' = [ret EXCEPT ![t] = 0]

(* The second write of transmit().                                           *)
TransmitLow(t) ==
  /\ pc[t] = "low"
  /\ chip \in Lines
  /\ level' = [level EXCEPT ![chip] = "low"]
  /\ line_high' = 0
  /\ aired' = Aired(aired, Frame(word[t])[pulse[t] + 1])
  /\ Advance(t)
  /\ UNCHANGED <<libVars, chip, word, config, owner, blamed>>

(* Mutant: transmit() clears line_high before the low write.                 *)
LowFailsUnnoticed(t) ==
  /\ pc[t] = "low"
  /\ pc' = [pc EXCEPT ![t] = "exit"]
  /\ ret' = [ret EXCEPT ![t] = -1]
  /\ line_high' = 0
  /\ UNCHANGED <<libVars, chip, word, config, rep, pulse, lineVars, histVars>>

(* Mutant: the error of transmit() is dropped, ret keeps board_init()'s 0.   *)
LowFailsReturnsZero(t) ==
  /\ pc[t] = "low"
  /\ pc' = [pc EXCEPT ![t] = "exit"]
  /\ UNCHANGED <<libVars, boardVars, word, config, rep, pulse, ret, lineVars,
                 histVars>>

TransmitLowFails(t) ==
  /\ pc[t] = "low"
  /\ pc' = [pc EXCEPT ![t] = "exit"]
  /\ ret' = [ret EXCEPT ![t] = -1]
  /\ UNCHANGED <<libVars, boardVars, word, config, rep, pulse, lineVars, histVars>>

(* Mutant: board_exit() returns at once when its low write fails.            *)
BoardExitGivesUp(t) ==
  /\ pc[t] = "exit"
  /\ chip \in Lines
  /\ \/ /\ owner' = [owner EXCEPT ![chip] = "free"]
        /\ level' = [level EXCEPT ![chip] = "low"]
        /\ chip' = NoLine
     \/ line_high = 1 /\ UNCHANGED <<owner, level, chip>>
  /\ line_high' = 0
  /\ pc' = [pc EXCEPT ![t] = "unlock"]
  /\ UNCHANGED <<libVars, word, config, rep, pulse, ret, histVars>>

(* board_exit(): drive the line low if it may be high, then release it even  *)
(* if that failed.  The caller only logs the failure.                        *)
BoardExit(t) ==
  /\ pc[t] = "exit"
  /\ chip \in Lines
  /\ \/ /\ line_high = 1
        /\ level' = [level EXCEPT ![chip] = "low"]
        /\ UNCHANGED blamed
     \/ /\ line_high = 1                              \* the low write fails
        /\ blamed' = blamed \cup {chip}
        /\ UNCHANGED level
     \/ line_high = 0 /\ UNCHANGED <<level, blamed>>
  /\ line_high' = 0
  /\ owner' = [owner EXCEPT ![chip] = "free"]
  /\ chip' = NoLine
  /\ pc' = [pc EXCEPT ![t] = "unlock"]
  /\ UNCHANGED <<libVars, word, config, rep, pulse, ret, aired>>

(* pthread_mutex_unlock() and the return of the call.                        *)
Unlock(t) ==
  /\ pc[t] = "unlock"
  /\ send_lock' = NoThread
  /\ pc' = [pc EXCEPT ![t] = "idle"]
  /\ word' = [word EXCEPT ![t] = <<>>]
  /\ rep' = [rep EXCEPT ![t] = 0]
  /\ pulse' = [pulse EXCEPT ![t] = 0]
  /\ aired' = Silent
  /\ UNCHANGED <<gpio_config, boardVars, config, ret, lineVars, blamed>>

(* socket_gpio_config() is called ...                                        *)
socket_gpio_config(t) ==
  /\ pc[t] = "idle"
  /\ \E c \in Configs \cup {NULL} : config' = [config EXCEPT ![t] = c]
  /\ pc' = [pc EXCEPT ![t] = "config"]
  /\ UNCHANGED <<libVars, boardVars, word, rep, pulse, ret, lineVars, histVars>>

(* Mutant: the store does not take the lock.                                 *)
StoreConfigUnlocked(t) ==
  /\ pc[t] = "config"
  /\ gpio_config' = config[t]
  /\ pc' = [pc EXCEPT ![t] = "idle"]
  /\ config' = [config EXCEPT ![t] = NULL]
  /\ UNCHANGED <<send_lock, boardVars, word, rep, pulse, ret, lineVars, histVars>>

(* ... and gets the lock, stores its argument and gives the lock back.       *)
StoreConfig(t) ==
  /\ pc[t] = "config"
  /\ send_lock = NoThread
  /\ gpio_config' = config[t]
  /\ pc' = [pc EXCEPT ![t] = "idle"]
  /\ config' = [config EXCEPT ![t] = NULL]
  /\ UNCHANGED <<send_lock, boardVars, word, rep, pulse, ret, lineVars, histVars>>

-----------------------------------------------------------------------------
(* The process is killed and started again.  The kernel releases its lines   *)
(* and does not change their level.                                          *)
Restart ==
  /\ send_lock' = NoThread
  /\ gpio_config' = NULL
  /\ chip' = NoLine
  /\ line_high' = 0
  /\ pc' = [t \in Threads |-> "idle"]
  /\ word' = [t \in Threads |-> <<>>]
  /\ config' = [t \in Threads |-> NULL]
  /\ rep' = [t \in Threads |-> 0]
  /\ pulse' = [t \in Threads |-> 0]
  /\ ret' = [t \in Threads |-> 0]
  /\ owner' = [l \in Lines |-> IF owner[l] = "us" THEN "free" ELSE owner[l]]
  /\ blamed' = blamed \cup {l \in Lines : owner[l] = "us" /\ level[l] = "high"}
  /\ aired' = Silent
  /\ UNCHANGED level

(* Another process, such as rsssend beside rsswitchd, requests a line that   *)
(* nobody has ...                                                            *)
OtherTakes(l) ==
  /\ owner[l] = "free"
  /\ owner' = [owner EXCEPT ![l] = "other"]
  /\ UNCHANGED <<libVars, boardVars, callVars, level, histVars>>

(* ... and is done with it, or is killed, at either level.                   *)
OtherLeaves(l) ==
  /\ owner[l] = "other"
  /\ owner' = [owner EXCEPT ![l] = "free"]
  /\ \/ /\ level' = [level EXCEPT ![l] = "low"]
        /\ blamed' = blamed \ {l}
     \/ /\ level' = [level EXCEPT ![l] = "high"]
        /\ blamed' = blamed \cup {l}
  /\ UNCHANGED <<libVars, boardVars, callVars, aired>>

-----------------------------------------------------------------------------
Call(t) == socket_send(t) \/ socket_send_codeword(t) \/ socket_gpio_config(t)

(* The steps of the thread that holds the lock.                              *)
HolderStep(t) ==
  \/ BoardInit(t) \/ BoardInitFails(t)
  \/ TransmitHigh(t) \/ TransmitLow(t) \/ TransmitLowFails(t)
  \/ BoardExit(t) \/ Unlock(t)

Next ==
  \/ \E t \in Threads : Call(t) \/ Lock(t) \/ LockFails(t) \/ StoreConfig(t) \/ HolderStep(t)
  \/ Restart
  \/ \E l \in Lines : OtherTakes(l) \/ OtherLeaves(l)

Spec == Init /\ [][Next]_vars

(* The holder of the lock waits for nothing but bounded delays and system    *)
(* calls on the line, so it keeps taking steps.  Nothing is assumed of the   *)
(* callers, of the order in which the mutex is granted, or of the kernel's   *)
(* answers.                                                                  *)
FairSpec == Spec /\ \A t \in Threads : WF_vars(HolderStep(t))

-----------------------------------------------------------------------------
(* The shape of the state of the library, the board and the machine.  Among  *)
(* other things, no send starts more than NTIMES repetitions.                *)
TypeOK ==
  /\ send_lock \in Threads \cup {NoThread}
  /\ gpio_config \in Configs \cup {NULL}
  /\ chip \in Lines \cup {NoLine}
  /\ line_high \in {0, 1}
  /\ pc \in [Threads -> PCs]
  /\ word \in [Threads -> Words \cup {<<>>}]
  /\ config \in [Threads -> Configs \cup {NULL}]
  /\ rep \in [Threads -> 0..NTIMES]
  /\ pulse \in [Threads -> Nat]
  /\ ret \in [Threads -> {0, -1}]
  /\ owner \in [Lines -> Owners]
  /\ level \in [Lines -> {"low", "high"}]
  /\ aired \in [frames : Seq(Seq(Pulses)), partial : Seq(Pulses)]
  /\ blamed \in SUBSET Lines

(* Two threads are never between board_init() and board_exit() at the same   *)
(* time, whatever mix of sends, failures and config changes they make: the   *)
(* pulses of concurrent sends cannot interleave (librsswitch.h, "Thread      *)
(* safety").                                                                 *)
SessionsSerialized ==
  \A s, t \in Threads : InSession(s) /\ InSession(t) => s = t

(* A line that nobody has requested is high only after a fault that the      *)
(* library cannot undo: the low write of board_exit() itself failed, or a    *)
(* process was killed or left the line high.  In particular a transmit()     *)
(* that fails between its two writes does not leave the transmitter keyed.   *)
KeyedOnlyByFault ==
  \A l \in Lines : owner[l] = "free" /\ level[l] = "high" => l \in blamed

(* When a send is about to return 0, its own codeword has gone out NTIMES    *)
(* times, in whole repetitions with nothing before, between or after them.   *)
SuccessIsAWholeTransmission ==
  \A t \in Threads :
    pc[t] \in {"exit", "unlock"} /\ ret[t] = 0 =>
      aired =
        [frames |-> [n \in 1..NTIMES |-> Frame(word[t])], partial |-> <<>>]

(* The line that a session drives is the one that the stored config names,   *)
(* from board_init() to board_exit(): a concurrent socket_gpio_config()      *)
(* cannot change it in between.                                              *)
SessionDrivesTheConfiguredLine ==
  chip # NoLine => chip = parse_config(gpio_config)

(* The process holds a line exactly while a thread is in a session with it:  *)
(* no path of board_init(), send_tris() or board_exit() leaks a request.     *)
LineHeldOnlyInSession ==
  \A l \in Lines : owner[l] = "us" <=> chip = l /\ \E t \in Threads : InSession(t)

(* Every path out of a send gives the lock back, so no failure of the board  *)
(* can block the other callers for ever.                                     *)
LockIsReleased ==
  \A t \in Threads : (send_lock = t) ~> (send_lock # t)
=============================================================================
