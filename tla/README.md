# A TLA+ model of librsswitch

librsswitch switches 433 MHz mains sockets over a GPIO line. This directory
holds TLA+ modules for the library, its libgpiod board, the network daemon
`rsswitchd` and the web app, TLC configurations that check them on small
instances, and TLAPS proofs that every safety property of a passing run holds for
every value of the constants; what is left to TLC alone is liveness. `PROJECT.json` maps every definition to the lines it
models.

## The system

| Component | State | Operations | Interacts with |
|---|---|---|---|
| `librsswitch.c` | `send_lock`, `gpio_config`; code tables | `socket_send`, `socket_send_codeword`, `socket_gpio_config`, `socket_addr_limits` | calls the board; called from threads of one process |
| `boards/gpiod` | `chip`, `request`, `line_high` | `board_init`, `transmit`, `board_exit`, `board_config_check` | GPIO lines of the kernel, shared with other processes |
| `rsssend` | none | one `socket_send` per process | the library; may run beside `rsswitchd` |
| `rsswitchd_proto.c` | `struct proto_conn` (buffer, discarding) | `proto_init`, `proto_next` | table limits of the library |
| `rsswitchd.c` | `stop_requested`, one connection, its deadline | accept loop, `serve_connection`, `handle_command`, `send_reply`, signal handler | clients over TCP, the library |
| web: `switching.py`, `daemon.py` | locals of a request | `switch_socket`, `all_off`, `RsswitchdClient.send` | `rsswitchd`, the store |
| web: `store.py` | the data file, its lock file | `snapshot`, `mutate`, `record_last_sent`, `_write` | threads and processes that share the file |
| web: `api/`, `model.py`, `validation.py`, `errors.py` | the document of rooms and sockets | create, edit, move, order, delete, switch, All-off | the store, switching |
| web: `auth.py` | failures per client, cached headers, two locks | login hook, `LoginLimiter` | every request of every worker thread |
| web: `config.py`, `app.py`, `__main__.py` | configuration, listening socket, handlers | `serve`, `run`, `hash-password`, start-up and stop | all of the above, signals |
| web: `static/app.js` | tree, busy flags, labels | switch, All-off, edit, reload | the API, with answers in any order |

What is hard: threads that share one line and one static board state; a write
that fails between the high and the low half of a pulse; a process killed while
the line is high; bytes that arrive in any pieces; signals that race a wait; one
connection at a time; commands that stay queued after their client gave up;
documents that change while a command is on its way; clocks that are set back;
file writes that fail, and processes that die, at any step; passwords checked at
the same time around the limit of failures; answers that overtake each other. `PROJECT.json` lists these as hazards, each
at its line and with the properties that would catch it.

What makes each part correct: the addressed socket and no other obeys; sessions
do not interleave, leak a line or leave it keyed; a success is a whole
transmission; each complete line has one reply, in order; OK means sent; a stop
is obeyed; what is stored of a socket went out to its present address; an
All-off report is true; the file is an atomic, durable document and always one
that the server loads; every request is answered; nobody gets past the login, and
no login that was asked for is silently missing; no button of the page stays
locked, and rows and labels do not go back.

## Modules

* **Codewords** - the code tables, `address_check`, `tristate_check`, the
  argument check of `socket_send_codeword`, `socket_ctrl` as concatenation of
  table rows, and `Frame`: the pulses of one repetition (`send_tris`, `send_0`,
  `send_1`, `send_f`, `send_sync`). Pure operators.
* **Receivers** - what the sockets hear, given a frame. The decoders and address
  switches of the two families are hardware, so they are external and modelled
  from their switches alone, without the tables.
* **SendSession** - threads in both send functions and `socket_gpio_config`, the
  mutex, the static state of the board, the lines with their owner and level.
  `TransmitHigh` and `TransmitLow`/`TransmitLowFails` are the two writes of
  `transmit()`; `Advance` is the pair of loops of `send_tris()`; `BoardExit`
  does the best-effort low write and the release. `Restart` kills and restarts
  the process at any point (the kernel keeps the level); `OtherTakes` and
  `OtherLeaves` are another process. `aired` and `blamed` are history: the
  pulses since `board_init()`, and the lines that a fault has left high.
* **Proto** - fields, numbers and lines of the protocol, one pass of the loop of
  `proto_next()` (`proto_byte`), and `Results`, the reference: what a whole byte
  stream means, line by line. Error texts are reduced to their class. Numbers of
  ten digits or more are one value, since all of them are out of range.
* **Wire** (extends Proto and Receivers) - the whole path of a command: what the
  owner enters (`Enter`), the checks and tables of the web app, the line that
  `RsswitchdClient` writes, the parser, the library's checks and encoding, the
  frame and the sockets that hear it. The web app and the library keep their own
  tables of the device types, and this is where they must agree. Lines of other
  clients are made by editing well-formed ones byte by byte (`WriteLine`,
  `Change`); `Send` parses and encodes. Its `WireInit`, `WireNext` and `WireSpec`
  carry the module's name because its proofs are used with those of Rsswitchd.
* **Rsswitchd** - the accept loop, `wait_readable`, `serve_connection`,
  `handle_command` and `send_reply` with clients that write in pieces, stay
  silent or vanish, and with signals. `Streams` says what each client may send;
  a client in `Endless` always has another byte. Where input and signal are both
  there when `pselect()` returns, the model takes either or both. Time (`idle`,
  `quiet`) passes while the daemon waits, in a transmission, and in `write()`,
  which waits for a slow client up to `SO_SNDTIMEO = --timeout` in each of the
  `ReplyWrites` calls that one reply may take. A client in the state "gone" has
  reset its connection or stopped reading for longer than `SO_SNDTIMEO`.
* **Switching** - web requests as threads (`pc` per request): `switch_socket`,
  `all_off`, and the owner's edits and deletions; `RsswitchdClient.send` as
  connect, wait, reply or timeout; the lock, load, change and write of `mutate`;
  `record_last_sent` with `RACE_WINDOW`; `rsswitchd` as a server that serves its
  queue in order and may answer OK, ERR or hang up before or after it
  transmits. The data file is a function from sockets to address and
  `last_sent`. `transmitted` and `tries` are history. The socket that a switch
  reads back for its answer changes nothing and is left out.

* **AtomicDocument** - what the store promises: each writer applies its change to
  the current document at once and at most once, or not at all; what was
  confirmed survives a power loss, what was not may or may not.
* **Store** - `mutate()` and `_write()` call by call: the lock with its timeout,
  load, change, `mkstemp`, write, `fsync`, `os.replace`, directory sync, cleanup
  and release, with a failure of each, the death of a process between any two
  and power losses. It implements AtomicDocument: `doc` is the data file (a
  missing one is the empty document), `durable` is what a power loss may leave
  (`onDisk`), and a writer's `status` becomes "applied" at `os.replace()`.
* **Household** - the document under every route that changes it, with the media
  type gate, the checks of body, URL, fields and conflicts in the order of the
  code, `check_document()`, `new_id()` and the warnings about shared addresses.
  A request is one step because `mutate()` is atomic, which is what Store shows.
  The start documents include ones that were edited by hand. `HouseholdAssumption`
  says what the JSON parser and the type checks before a route leave of a body.
* **Auth** - the `before_request` hook as worker threads run it: the gate, the
  cache, the wait for `verify_lock`, the second gate, the check, the outcome; and
  the methods of `LoginLimiter`. Ages and remaining times replace points in time.
* **Config** - the keys, their checks and `resolve_config()`, with the rules of
  the password hashes.
* **Server** (extends Auth and Config) - `main()` from the command line to the
  exit status: imports, configuration, store check, listening, handler, readiness
  line, signals at any point, `hash-password`; and, while it serves, requests
  through the login hook of Auth if the configuration asked for one.
* **Page** - the functions of `app.js` that make requests, each cut at its
  `await`, with what they leave behind: the tree and its labels, the locks of the
  buttons, the one banner and the flags that say what it is about. A request that
  begins another (`loadTree()` after a change) keeps its place, with what goes on
  after it in `after`. The app answers in any order or not at all; an answer that
  is an error ends a request like a lost one, but for the wording. `loadSeq` and
  `metaSeq` name the newest request instead of numbering all of them, so that the
  page may stay open for ever.

The compositions: Wire joins the web app's tables, the parser, the library and
the receivers; Switching joins requests, the daemon's queue and the file; Server
joins configuration, start-up and login. Store justifies the one-step `mutate()`
of Household; Page stands on what Switching and Household answer.

`<Module>Proofs.tla` hold the theorems about SendSession, Store, Switching,
Household, Server (with Auth), Page, Wire (with Proto, Codewords and Receivers) and
Rsswitchd; see below.

`MC*.tla` give the constants of each run. Definitions marked "Mutant" are
plausible bugs; each replaces the definition after it in a check that the
property notices.

## Runs

| Run | Question | Bounds |
|---|---|---|
| `wire` | does exactly the addressed socket obey, and does the parser accept exactly the grammar? | every address of both families and those just beyond each limit, values that are no integers, against all 2072 socket settings: complete for the tables; commands at the edges of each range and every line one edit away, 2^32 in a field |
| `session` | do sessions, failures, config changes, kills and other processes keep the invariants, and is the lock always given back? | 2 threads, 2 lines, NTIMES 3 (a first, a middle and a last repetition), words of 12 and 2 symbols |
| `daemon` | one reply per command, in order, OK iff sent; is a stop obeyed, does the queue move on? | two clients, PROTO_MAX_LINE 8. One sends two lines: a command of just that length with CR LF and another command, an error and a command, or a line that is too long, ends like a command and is followed by an error; the other an empty line. Any pieces, several lines in one `read()` too, and any byte may be the last. --timeout 2, a transmission of up to 1, a reply of one `write()` of up to 2 |
| `switching` | true `last_sent`, true report, no lost update? | 2 switches or All-offs and an edit or deletion, 2 sockets, 2 addresses (shared or not); the clock stands still |
| `clock` | by how much can a newer command be overtaken, is every request answered? | any request and a switch or edit of one socket, RACE_WINDOW 1, LOCK_TIMEOUT 3 (in the code 2 s and 10 s: the lock timeout is the longer one), clock to 4, so that a wait longer than the lock timeout would show; set back once |
| `store` | does the store implement the atomic document, litter nothing, free its lock? | 3 writers in 2 processes, two of which want the same change; any number of crashes and power losses |
| `household` | does the document stay loadable, without new collisions, with only the entry of the URL touched, renamed or moved? do answers name the first problem of the documented order (415, 400, 404, 422, 409) and tell of shared addresses? | 2 rooms, 2 sockets, names that collide by case, are trimmed, empty or cannot be encoded; bodies of up to two fields or all; 4 start documents, one of them refused |
| `server` | does a server start only with the login it was asked for, hold its locks, bound its memory, stop cleanly? | 3 worker threads, 3 addresses, two right headers and a wrong one; MAX_FAILURES 2, window 1, lockout 2, 2 tracked addresses, 1 cached header: each table is one short; one key of each kind of value, all combinations of the login keys |
| `page` | is each button locked exactly while its request runs, and does it come back; do messages stay; when do rows and labels go back? | 2 requests in flight at a time, any number in all: a switch, All-off or change crosses a load, and the load that it begins crosses another; one socket, which may be deleted, 2 commands, one change |
| `race_window` (violation) | does the newer command stay, with the code's 2 s and 10 s? | clock to 3, never set back |
| `unlink` (violation) | can the store fail a confirmed command? | as `switching` |
| `flood` (violation) | the question of `daemon` with a client that never stops writing | one such client, one in the queue |

The three violations are disagreements of code and comments or documentation:

* `race_window`: `record()` takes a stored time more than `RACE_WINDOW` ahead for
  a clock that was set back; but a command may wait up to `lock_timeout` for the
  lock, so a race can produce it, and the older command is recorded over the
  newer. `OvertakenByAtMostTheLock` (run `clock`) says what holds instead.
* `unlink`: an `OSError` of `os.unlink()` in the cleanup of `_write()` is not a
  `StoreError`: it passes `_record()`, the confirmed command is answered with an
  internal error, and an All-off stops.
* `flood`: the deadline of a connection is only looked at when nothing can be
  read, so a client that always has another byte and never completes a line keeps
  the only connection for ever.

Two smaller observations, which the properties allow for: the idle deadline of
`rsswitchd` is re-armed before the transmission and the reply, so when these take
as long as `--timeout`, the second one because the client is slow to read, the
connection is closed right after its reply (`StaysOpenAfterReply` subtracts
`SendTime`, and counts from the time that `send_reply()` began); and when only the directory sync fails, the change is in
the file but not confirmed, and a retry that finds nothing to change is confirmed
without a sync (`NothingToDo` of AtomicDocument).

On the page, answers may cross. `loadTree()` drops an answer only for a newer
`loadTree()`, so one that was made before a switch and arrives after the answer of
the switch puts the older command back into the label until the next load; an
All-off does the same to a newer switch (`OldAnswersAreDropped` says that
nothing else does). And `manage()` enables its buttons when the `loadTree()` of the
change returns, which it does without showing anything when a newer one was begun
meanwhile, so the buttons may be enabled before the page shows the result.

`CHECK_DEADLOCK FALSE` where the system may stop: requests, writers and edited
lines are handled once, and a daemon or server that has exited does nothing.

### Fairness

* `session`: weak fairness of the steps of the lock holder, which waits for
  bounded delays and system calls only. Nothing is assumed of callers, of the
  order in which the mutex is granted, or of the kernel's answers.
* `daemon`, `flood`: weak fairness of the process and of time. Nothing is assumed
  of clients that send a finite stream; the endless one of `flood` does write.
* `clock`: weak fairness of a request that has begun: server threads are
  scheduled and each of their waits has a timeout. Nothing is assumed of
  `rsswitchd` or of the lock.
* `store`: weak fairness of a writer that has begun; the lock wait has a timeout.
* `page`: weak fairness of the end of each request in flight, which the
  timer of `api()` brings about. Nothing is assumed of the app or of the owner.

The other runs check safety only and state no fairness.

## Proofs

Every module of proofs ends in theorems `Spec => []P` or `Spec => P`, for all
values of the constants that satisfy the named ASSUMEs of the modules, which TLC
evaluates on every run. These bound nothing: for Wire and Rsswitchd, for example,
they say that a stream or a seed is a sequence of bytes (`Streams[c] \subseteq
Seq(STRING)`), that what a request carries is a type name, two JSON values and a state, and that a
JSON value that is no integer is no integer. Each rests on an inductive invariant
(`IInv`, `Inv` or `WireInv`) with a lemma for `Init`, one step per action (or group
of actions) and the temporal step.

| Module | Theorems | State the run properties |
|---|---|---|
| SendSessionProofs | `TypeCorrect`, `Serialization`, `NotKeyed`, `SuccessfulSend`, `LineDiscipline`, `LineReleased` | all six invariants of `session` |
| StoreProofs | `TypeCorrect`, `Litter`, `Refinement`; also `MutualExclusion` | the safety of `store`, the refinement included |
| SwitchingProofs | `TypeCorrect`, `OnlyWhatWentOut`, `TrueReport`, `UpdatesAreKept`, `OvertakingIsBounded` | the safety of `switching` and `clock` |
| ServerProofs | `LimiterType`, `BoundedMemory`, `OneLateCheck`, `OwnerOnly`, `LoginKept`, `CleanStop`, `LocksLast` | all of `server` |
| HouseholdProofs | `AlwaysLoadable`, `NamesStayApart`, `OnlyWhatTheUrlNames`, `SharingIsTold`, `FirstProblemFirst` | all of `household` |
| PageProofs | `FlagsAreTrue`, `MessagesAreKept`, `NewestIsShown` | the safety of `page` |
| RsswitchdProofs | `RepliesInOrder`, `AiredIsConfirmed`, `OpenAfterReply` | the safety of `daemon` |
| WireProofs | `ParserIsTheGrammar`, `AddressedSocketObeys` | all of `wire` |

**SendSessionProofs**: `IInv == TypeOK /\ LockInv /\ LineInv /\ KeyedOnlyByFault
/\ AirInv`, for any number of threads, lines, configs and repetitions and any
codewords that pass the checks.

* `LockInv`: a thread is between lock and unlock exactly when it holds the lock.
  Two sessions at a time would need two holders.
* `LineInv`: a session has the configured line, nobody else's line is owned, and
  `line_high` agrees with the physical level. That is why `board_exit()` knows
  when to drive the line low, and `KeyedOnlyByFault` needs it.
* `AirInv`: the loop invariant of `send_tris()`: `rep` whole frames and the first
  `pulse` pulses of the next are on the air. At the end that is
  `SuccessIsAWholeTransmission`.

`TableRows`, `WordsType` and `FrameType` say what the proof needs of the tables:
every codeword is a non-empty sequence of symbols, and a frame has its only sync
pulse at its end.

**StoreProofs**: the refinement maps `os.replace()` to the atomic change of
AtomicDocument, so it must be known there that what replaces the file is the
change of what the file says now. `DataInv` says so, from the load on; it is kept
because nobody else is past the lock (`LockInv`), and `TmpInv` says that the
temporary file is the whole document, synced, when it is put in place.
`AnswerInv` ties the answers of `mutate()` to the statuses of AtomicDocument.

**SwitchingProofs**: `CoreInv` says that the copy a request changes is still the
document, that a request with an OK has its command in `transmitted`, and that
only a client that still waits is answered (what remains in the queue of one that
gave up is no reply to its next command). `ReportInv` is the loop invariant of
`all_off()`. `ClockInv` bounds how far the clock reading of a request may be behind
when it saves: by the wait for the lock. From it `OvertakingIsBounded` says, for any
timings, what holds with those of the code (10 s and 2 s): an older command replaces
a newer one only if the newer one is more than `RACE_WINDOW` and at most
`LOCK_TIMEOUT` ahead. That it is never replaced does not hold (run `race_window`).

**ServerProofs**: the hook is a lock (`VerifierInv`), a cache of right headers only
(`HeaderInv`) and a limiter whose tables stay in their bounds (`LimiterInv`); that
at most one password is checked late needs that none was for the address whose
check is running (`LateInv`). Start-up adds what each phase knows of the
configuration and the signal handler.

**HouseholdProofs**: `IInv` is small (the shape of the document and
`DocumentStaysLoadable`), the work is in the routes: `CreateRoomCases` and its like
list the answers of a route check by check, `RoomOutcomes` and `SocketOutcomes` say
what each may store, `RequestChanges` reduces these to
the few kinds of change a document may undergo (append an entry with a new id, take
one away, permute, replace one with the same id, move one), and each property is
then a case analysis over the kinds. `InOrder` says of two sequences that what is
in both has the same order; `RequestsInOrder` carries it through the kinds of
change. `BodyFound` shows that what each route finds wrong with a body, check by
check, is what `BodyIsBad` says of its fields. A document may be any finite
sequence of rooms and may start with colliding names.

**PageProofs**: `OwnerInv` says which request in flight holds which flag, also
when its function awaits a load that it began; `NewestInv`, that `loadSeq` names
the newest load as long as it is in flight; `AnswerInv`, that nothing shown or on
its way is newer than what the app has sent; `CrossInv`, that an answer that is
older than what is shown was crossed by it, which is what `raced` records.

**WireProofs**: what the protocol computes, for lines and streams of any length.

* Induction. `LeastElement` says that a non-empty set of naturals has a least
  element; a least counterexample replaces an induction, so no theorem with an
  operator parameter is needed. `FollowsUnique` and `FollowsExists` show once that
  a primitive recursion has exactly one solution, and `SeqInduction` is induction
  over sequences for a set instead of a predicate. `PiecesAppend`, `ValueUnfold`
  and `ResultsAppend` say from them how each recursive function goes on by one byte.
* Framing. `ProtoByte`: after any stream, the loop of `proto_next()` holds the line
  that has not ended yet (`Framed`), and the next byte brings a result exactly when
  it adds one to `Results`. It is why the pieces that the bytes come in do not
  matter. An over-long line needs the remark that what is dropped of it changes
  nothing.
* Numbers. `FieldNumber`: a field that passes `field_ok()` and whose value is at
  most 2000 is the `%d` of its value, so there is no second spelling; ten digits
  or more are beyond every limit (`LongValue`).
* Fields and lines. Splitting undoes joining (`SplitJoin`), and a line of three or
  four fields is the join of its fields (`JoinThree`, `JoinFour`). `Grammar` puts
  these together: what `parse_line()` takes for a command is what the line spells.
* The air. `FrameWord`: the receiver reads the word that was sent. `RevWord` and
  `PollinWord` say what the code tables hold, `DipApart` that five switches tell 32
  addresses apart, and `OnlyItHears` that of all settings only the one a frame was
  made for obeys; the families differ in their first four symbols.
* The state. `WireInv` says that a line is a sequence of bytes and that, once an
  address was entered, what is on the wire and on the air is what it was rendered
  and encoded to. TLC finds no violation of it on the run `wire`. The two
  properties follow from it with `Grammar`, and with `AcceptedMeant`,
  `RefusedMeant` (the two tables of device types agree) and `OnlyItHears`.

**RsswitchdProofs**: `DeadlineInv` says that `idle` is ahead of `quiet`, the time
since `send_reply()` began, by one transmission at most, because every command has
set it to 0 first, and that what `write()` waits counts for both. The replies rest
on `Inv`, for any number of clients:

* `QueueInv`: a client is queued once, and nothing has been done for it before it
  is accepted, so a connection starts with an empty account.
* `FramingInv`: the parser state of the connection that is served is that of the
  bytes read from it so far.
* `AccountInv`: for every client, either each result of those bytes has its reply
  and what was confirmed is what was aired (`Settled`), or exactly the last reply
  is owed (`Owed`): its command is in `handle_command()`, or its reply is in
  `send_reply()`, or could not be written because the client is gone. The run
  properties hide this difference; without it they are not inductive.

The module extends WireProofs for the lemmas about the framing only; nothing of the
state of Wire is used.

### Only model-checked

`LockIsReleased`, `LockIsFreed`, `EveryRequestIsAnswered`, `ButtonsComeBack`,
`StopIsObeyed`, `QueueMovesOn`: liveness. Fairness and ENABLED are out of the
prover's reach. The three violations are counterexamples of TLC.

## Not modelled

* Pulse durations and `nanosleep()`, which returns early when a signal handler of
  the caller runs (`rsswitchd` blocks its signals); the x86_64 stub; the parsing of command lines
  and of the gpiod config string; build files and service units.
* Unicode, the hash functions, the parsing of HTTP and JSON: external. A hand
  edited file is a document with any names, types and addresses; missing or unknown
  keys in it are not.
* Response headers, error pages, wording and the routes that only read.
* Household leaves out the number of an address (checked like its group), and
  `last_sent` and failing stores, which are in Switching and Store.
* Of the page: rendering, edit mode (it may be on or off at any time), the fields
  of the forms, the notes and flashes of rows, and the lengths of the timers, which leave out the wait
  for the store's lock and count the sockets that the page knew.
* A second signal while the server closes.

## Plan

1. *(done)* Codewords, Receivers, SendSession with proofs; Proto, Rsswitchd;
   Switching.
2. *(done)* Store as a refinement of AtomicDocument; Household; Auth, Config and
   Server; Page; Wire end to end; an endless stream for Rsswitchd.
3. *(done)* Proofs: the refinement of AtomicDocument by Store; the safety of
   SendSession, Switching, Auth and Server, Household and Page for every value of
   the constants; the deadline of Rsswitchd.
4. *(done)* Proofs: the framing and the parser for inputs of any length, the replies
   of Rsswitchd, and the path of a command from the request to the radio.
5. An abstract specification of the radio (one whole transmission at a time) that
   SendSession implements, and Switching composed with Rsswitchd, to relate the
   order of transmissions to the order of `last_sent`.
