------------------------------ MODULE Rsswitchd ------------------------------
(***************************************************************************)
(* rsswitchd (examples/network/rsswitchd.c) with its clients: the accept    *)
(* loop of main(), wait_readable(), serve_connection(), handle_command()    *)
(* and send_reply().  One connection is served at a time, the others wait   *)
(* in the listen queue.  A client writes its bytes in pieces of any size,   *)
(* may leave its connection open, and may go away at any time.  SIGTERM and *)
(* SIGINT may come at any time and are delivered only inside pselect().     *)
(*                                                                          *)
(* Time passes while serve_connection() waits for input, while the library  *)
(* transmits, and while write() waits for a client that is slow to read.    *)
(***************************************************************************)
EXTENDS Proto

CONSTANTS
  Clients,
  Streams,       \* the byte streams that each client may send
  Endless,       \* the clients that repeat their stream without end
  idle_timeout,  \* --timeout, in ticks
  SendTime,      \* the longest transmission, in ticks
  ReplyWrites,   \* the most calls of write() that one reply takes
  None

ASSUME RsswitchdAssumption ==
  /\ \A c \in Clients : Streams[c] \subseteq Seq(STRING)
  /\ Endless \subseteq Clients
  /\ idle_timeout \in Nat \ {0}
  /\ SendTime \in Nat
  /\ ReplyWrites \in Nat \ {0}
  /\ None \notin Clients

VARIABLES
  (* the process *)
  pc,              \* where it is
  stop_requested,  \* set by on_signal()
  connfd,          \* the client that is served, or None
  recbuf,          \* what proto_next() has not seen yet of the last read()
  proto,           \* struct proto_conn
  cmd,             \* the command in handle_command(), then the reply to it
  idle,            \* time since the deadline was last set
  (* the kernel and the clients *)
  signal,          \* a SIGTERM or SIGINT is pending
  backlog,         \* the connections that wait in the listen queue
  client,          \* each client: its state and its end of the connection
  (* history *)
  seen,            \* the bytes of each client that proto_next() has not dropped
  aired,           \* the commands of each client that went out by radio
  replies,         \* the replies that were written to each client
  quiet            \* time since send_reply() began with the last reply

procVars == <<stop_requested, connfd, recbuf, proto, cmd, idle>>
histVars == <<seen, aired, replies, quiet>>
vars == <<pc, procVars, signal, backlog, client, histVars>>

Commands == {"SWITCH", "RAW"}

-----------------------------------------------------------------------------
Init ==
  /\ pc = "listen"
  /\ stop_requested = FALSE
  /\ connfd = None
  /\ recbuf = <<>>
  /\ proto = proto_init
  /\ cmd = Nothing
  /\ idle = 0
  /\ signal = FALSE
  /\ backlog = <<>>
  /\ \E s \in [Clients -> UNION {Streams[c] : c \in Clients}] :
       /\ \A c \in Clients : s[c] \in Streams[c]
       /\ client = [c \in Clients |-> [state |-> "away", todo |-> s[c],
                                      wire |-> <<>>, eof |-> FALSE]]
  /\ seen = [c \in Clients |-> <<>>]
  /\ aired = [c \in Clients |-> <<>>]
  /\ replies = [c \in Clients |-> <<>>]
  /\ quiet = 0

-----------------------------------------------------------------------------
(* A client connects: the kernel queues it (listen() allows ten).            *)
Connect(c) ==
  /\ pc # "exited"
  /\ client[c].state = "away"
  /\ client' = [client EXCEPT ![c].state = "open"]
  /\ backlog' = Append(backlog, c)
  /\ UNCHANGED <<pc, procVars, signal, histVars>>

(* It writes its next bytes.  What comes while the daemon is busy, or serves *)
(* another client, is found by the next read() of this connection like what  *)
(* comes just before it, and two writes like one: those are the only ones    *)
(* here ...                                                                  *)
Write(c) ==
  /\ pc = "wait" /\ connfd = c
  /\ client[c].state = "open"
  /\ client[c].wire = <<>>
  /\ \E n \in 1..Len(client[c].todo) :
       client' = [client EXCEPT ![c].wire = SubSeq(client[c].todo, 1, n),
                                ![c].todo = IF c \in Endless THEN @
                                            ELSE SubSeq(@, n + 1, Len(@))]
  /\ UNCHANGED <<pc, procVars, signal, backlog, histVars>>

(* ... closes its sending side ...                                           *)
EndOfInput(c) ==
  /\ pc = "wait" /\ connfd = c
  /\ client[c].state = "open"
  /\ client[c].todo = <<>>
  /\ ~client[c].eof
  /\ client' = [client EXCEPT ![c].eof = TRUE]
  /\ UNCHANGED <<pc, procVars, signal, backlog, histVars>>

(* ... or goes away altogether, or no longer reads its replies.              *)
GoAway(c) ==
  /\ pc # "exited"
  /\ client[c].state = "open"
  /\ client' = [client EXCEPT ![c].state = "gone", ![c].todo = <<>>]
  /\ UNCHANGED <<pc, procVars, signal, backlog, histVars>>

Terminate ==
  /\ ~signal
  /\ signal' = TRUE
  /\ UNCHANGED <<pc, procVars, backlog, client, histVars>>

-----------------------------------------------------------------------------
(* The accept loop: pselect() says that a connection waits.  A socket option *)
(* that cannot be set closes the connection unserved.  accept() may fail and *)
(* is tried again, which changes nothing here.  Where input and signal meet, *)
(* here and in Read, the handler may have run as well.                       *)
Accept ==
  /\ pc = "listen"
  /\ backlog # <<>>
  /\ connfd' = Head(backlog)
  /\ backlog' = Tail(backlog)
  /\ proto' = proto_init
  /\ idle' = 0
  /\ quiet' = 0
  /\ stop_requested' \in {stop_requested, signal}
  /\ \/ ~stop_requested' /\ pc' = "wait"
     \/ pc' = "close"
  /\ UNCHANGED <<recbuf, cmd, signal, client, seen, aired, replies>>

(* Mutant: wait_readable() always retries after EINTR.                       *)
InterruptedRetries ==
  /\ pc \in {"listen", "wait"}
  /\ signal
  /\ stop_requested' = TRUE
  /\ UNCHANGED <<pc, connfd, recbuf, proto, cmd, idle, signal, backlog, client, histVars>>

(* wait_readable() is interrupted by the signal: on_signal() runs, and both  *)
(* callers return.  Closing the listening socket ends what still queues.     *)
Interrupted ==
  /\ pc \in {"listen", "wait"}
  /\ signal
  /\ stop_requested' = TRUE
  /\ pc' = IF pc = "listen" THEN "exited" ELSE "close"
  /\ UNCHANGED <<connfd, recbuf, proto, cmd, idle, signal, backlog, client, histVars>>

Readable(c) == client[c].wire # <<>> \/ client[c].eof \/ client[c].state = "gone"

(* wait_readable() says that there is input, and read() takes all of it.     *)
Read ==
  /\ pc = "wait"
  /\ client[connfd].wire # <<>>
  /\ recbuf' = client[connfd].wire
  /\ client' = [client EXCEPT ![connfd].wire = <<>>]
  /\ stop_requested' \in {stop_requested, signal}
  /\ pc' = "parse"
  /\ UNCHANGED <<connfd, proto, cmd, idle, signal, backlog, histVars>>

(* read() returns 0 or an error.                                             *)
ReadEnds ==
  /\ pc = "wait"
  /\ \/ client[connfd].wire = <<>> /\ client[connfd].eof
     \/ client[connfd].state = "gone"
  /\ stop_requested' \in {stop_requested, signal}
  /\ pc' = "close"
  /\ UNCHANGED <<connfd, recbuf, proto, cmd, idle, signal, backlog, client, histVars>>

(* Mutant: a passed deadline is not noticed.                                 *)
TimeoutMissed ==
  /\ pc = "wait"
  /\ ~Readable(connfd)
  /\ idle >= idle_timeout
  /\ UNCHANGED vars

(* wait_readable() returns 0: the deadline has passed with nothing to read.  *)
Timeout ==
  /\ pc = "wait"
  /\ ~Readable(connfd)
  /\ idle >= idle_timeout
  /\ pc' = "close"
  /\ UNCHANGED <<procVars, signal, backlog, client, histVars>>

(* Mutant: the deadline is set once per connection.                          *)
ParseKeepsDeadline ==
  /\ pc = "parse"
  /\ recbuf # <<>>
  /\ \E r \in {proto_byte(proto, Head(recbuf))} :
       /\ proto' = r.conn
       /\ cmd' = r.cmd
       /\ pc' = IF r.cmd = Nothing THEN "parse" ELSE "handle"
  /\ recbuf' = Tail(recbuf)
  /\ seen' = IF proto.discarding /\ Head(recbuf) # LF THEN seen
             ELSE [seen EXCEPT ![connfd] = Append(@, Head(recbuf))]
  /\ UNCHANGED <<stop_requested, connfd, idle, signal, backlog, client, aired, replies, quiet>>

(* proto_next() looks at one byte.  A result re-arms the deadline before the *)
(* command is handled.                                                       *)
Parse ==
  /\ pc = "parse"
  /\ recbuf # <<>>
  /\ \E r \in {proto_byte(proto, Head(recbuf))} :
       /\ proto' = r.conn
       /\ cmd' = r.cmd
       /\ \/ r.cmd = Nothing /\ UNCHANGED <<pc, idle>>
          \/ r.cmd # Nothing /\ pc' = "handle" /\ idle' = 0
  /\ recbuf' = Tail(recbuf)
  /\ seen' = IF proto.discarding /\ Head(recbuf) # LF THEN seen
             ELSE [seen EXCEPT ![connfd] = Append(@, Head(recbuf))]
  /\ UNCHANGED <<stop_requested, connfd, signal, backlog, client, aired, replies, quiet>>

(* proto_next() returns 0: all input is used up.                             *)
ParseDone ==
  /\ pc = "parse"
  /\ recbuf = <<>>
  /\ pc' = IF stop_requested THEN "close" ELSE "wait"
  /\ UNCHANGED <<procVars, signal, backlog, client, histVars>>

(* What follows handle_command() in serve_connection().                      *)
AfterCommand == pc' = IF stop_requested THEN "close" ELSE "parse"

(* handle_command(): an empty line has no reply ...                          *)
HandleEmpty ==
  /\ pc = "handle"
  /\ cmd.kind = "EMPTY"
  /\ AfterCommand
  /\ UNCHANGED <<procVars, signal, backlog, client, histVars>>

(* ... an error is answered with its class ...                               *)
HandleError ==
  /\ pc = "handle"
  /\ cmd.kind = "ERROR"
  /\ pc' = "reply"
  /\ UNCHANGED <<procVars, signal, backlog, client, histVars>>

(* Mutant: the result of the library call is ignored.                        *)
HandleSendIgnoresResult ==
  /\ pc = "handle"
  /\ cmd.kind \in Commands
  /\ \E d \in 0..SendTime : idle' = idle + d
  /\ cmd' = [kind |-> "OK"]
  /\ aired' \in {aired, [aired EXCEPT ![connfd] = Append(@, cmd)]}
  /\ pc' = "reply"
  /\ UNCHANGED <<stop_requested, connfd, recbuf, proto, signal, backlog, client,
                 seen, replies, quiet>>

(* ... and a command goes to the library, which transmits it or fails.  That *)
(* takes time, and the deadline has been set before it.                      *)
HandleSend ==
  /\ pc = "handle"
  /\ cmd.kind \in Commands
  /\ \E d \in 0..SendTime : idle' = idle + d
  /\ \/ cmd' = [kind |-> "OK"] /\ aired' = [aired EXCEPT ![connfd] = Append(@, cmd)]
     \/ cmd' = Error("send") /\ UNCHANGED aired
  /\ pc' = "reply"
  /\ UNCHANGED <<stop_requested, connfd, recbuf, proto, signal, backlog, client,
                 seen, replies, quiet>>

(* Each write() of a reply may wait for SO_SNDTIMEO, which is idle_timeout,  *)
(* and still write a part of it, if the client is slow to read.  The         *)
(* deadline is not set again.                                                *)
WriteTime ==
  \E d \in 0..(ReplyWrites * idle_timeout) :
    idle' = idle + d /\ quiet' = d

(* Mutant: a pending stop is obeyed before the reply is written.             *)
ReplyUnlessStopped ==
  /\ pc = "reply"
  /\ \/ ~stop_requested /\ replies' = [replies EXCEPT ![connfd] = Append(@, cmd)]
     \/ stop_requested /\ UNCHANGED replies
  /\ WriteTime
  /\ AfterCommand
  /\ UNCHANGED <<stop_requested, connfd, recbuf, proto, cmd, signal, backlog, client,
                 seen, aired>>

(* send_reply() writes the whole reply ...                                   *)
Reply ==
  /\ pc = "reply"
  /\ replies' = [replies EXCEPT ![connfd] = Append(@, cmd)]
  /\ WriteTime
  /\ AfterCommand
  /\ UNCHANGED <<stop_requested, connfd, recbuf, proto, cmd, signal, backlog, client,
                 seen, aired>>

(* ... or cannot, within SO_SNDTIMEO: the client has gone.                   *)
ReplyFails ==
  /\ pc = "reply"
  /\ client[connfd].state = "gone"
  /\ pc' = "close"
  /\ UNCHANGED <<procVars, signal, backlog, client, histVars>>

(* close(connfd), and back to the accept loop or out of it.                  *)
Close ==
  /\ pc = "close"
  /\ client' = [client EXCEPT ![connfd].state =
                  IF @ = "gone" THEN "gone" ELSE "closed"]
  /\ connfd' = None
  /\ recbuf' = <<>>
  /\ proto' = proto_init
  /\ cmd' = Nothing
  /\ idle' = 0
  /\ pc' = IF stop_requested THEN "exited" ELSE "listen"
  /\ UNCHANGED <<stop_requested, signal, backlog, histVars>>

Tick ==
  /\ pc = "wait"
  /\ idle < idle_timeout
  /\ idle' = idle + 1
  /\ quiet' = quiet + 1
  /\ UNCHANGED <<pc, stop_requested, connfd, recbuf, proto, cmd, signal, backlog,
                 client, seen, aired, replies>>

-----------------------------------------------------------------------------
Process ==
  \/ Accept \/ Interrupted \/ Read \/ ReadEnds \/ Timeout
  \/ Parse \/ ParseDone \/ HandleEmpty \/ HandleError \/ HandleSend
  \/ Reply \/ ReplyFails \/ Close

Next ==
  \/ Process \/ Tick \/ Terminate
  \/ \E c \in Clients : Connect(c) \/ Write(c) \/ EndOfInput(c) \/ GoAway(c)

Spec == Init /\ [][Next]_vars

(* The process runs whenever it can, and time passes.  Nothing is assumed of *)
(* the clients, which may stay silent with a connection open.                *)
FairSpec == Spec /\ WF_vars(Process) /\ WF_vars(Tick)

-----------------------------------------------------------------------------
(* The elements of a sequence at the positions in K, in their order.         *)
Picked(s, K) ==
  LET upTo[n \in 0..Len(s)] ==
        IF n = 0 THEN <<>>
        ELSE IF n \in K THEN Append(upTo[n - 1], s[n]) ELSE upTo[n - 1]
  IN  upTo[Len(s)]

(* The results of a stream that are answered: all but empty lines.           *)
Answered(bytes) ==
  LET r == Results(bytes) IN Picked(r, {i \in 1..Len(r) : r[i].kind # "EMPTY"})

(* The reply that a result may get: an error its class, a command OK or ERR  *)
(* send.                                                                     *)
Fits(reply, result) ==
  IF result.kind \in Commands THEN reply \in {[kind |-> "OK"], Error("send")}
                              ELSE reply = result

(* The commands among the results that were answered with OK.                *)
Confirmed(c) ==
  Picked(Answered(seen[c]), {i \in 1..Len(replies[c]) : replies[c][i] = [kind |-> "OK"]})

(* "Every command gets exactly one reply line", whatever the sizes of the    *)
(* pieces that the bytes arrive in and whenever the stop comes: the replies  *)
(* of a connection are those of the lines seen so far, in their order, and   *)
(* only the last one may be missing, while it is worked on or because the    *)
(* client has gone.                                                          *)
OneReplyPerCommandInOrder ==
  \A c \in Clients :
    LET want == Answered(seen[c])
        have == replies[c]
    IN  /\ \A i \in 1..Len(have) : i <= Len(want) /\ Fits(have[i], want[i])
        /\ \/ Len(have) = Len(want)
           \/ /\ Len(have) = Len(want) - 1
              /\ \/ connfd = c /\ pc \in {"handle", "reply"}
                 \/ client[c].state = "gone"

(* OK means "once the codeword was actually sent": what went out for a       *)
(* connection is what was answered with OK, plus the one command whose reply *)
(* is still to be written or can no longer be.  Half a command is never      *)
(* sent.                                                                     *)
SentIffConfirmed ==
  \A c \in Clients :
    \/ aired[c] = Confirmed(c)
    \/ /\ aired[c] # <<>>
       /\ Front(aired[c]) = Confirmed(c)
       /\ Last(aired[c]) = Last(Answered(seen[c]))
       /\ (connfd = c /\ pc = "reply") \/ client[c].state = "gone"

(* "The connection stays open after every reply": a connection that has had  *)
(* a reply is not closed for being idle before idle_timeout has passed since *)
(* send_reply() began with that reply, less the time that its transmission   *)
(* took, however many commands came before it.  The time that a slow client  *)
(* lets write() wait counts: the deadline runs on, so that such a client may *)
(* find its connection closed right after it has read the reply.             *)
StaysOpenAfterReply ==
  [][Timeout /\ replies[connfd] # <<>> => quiet + SendTime >= idle_timeout]_vars

(* SIGTERM and SIGINT stop the daemon: it exits, whatever the clients do.    *)
StopIsObeyed == signal ~> pc = "exited"

(* A client that holds its connection open does not keep the others out for  *)
(* ever: whatever it does, the daemon comes back to the accept loop, where   *)
(* the first one in the queue is next.                                       *)
QueueMovesOn == []<>(pc \in {"listen", "exited"})
=============================================================================
