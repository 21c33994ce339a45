------------------------------- MODULE Server --------------------------------
(***************************************************************************)
(* The life of the web server: the commands of rsswitch_web/__main__.py,    *)
(* with create_app() (app.py), from the command line to the exit status,    *)
(* the signals on the way, and the requests that come while it serves: the  *)
(* login (Auth), if the configuration (Config) asks for one, then the media *)
(* type gate, then the routes.                                              *)
(*                                                                          *)
(* What waitress and Werkzeug do is external.  One signal is sent; after it *)
(* nothing is asked of the requests that are still in a thread.             *)
(***************************************************************************)
EXTENDS Auth, Config

CONSTANTS
  Files,     \* what the configuration file may be: "missing", "unreadable",
             \* "garbage" or a mapping, each as [is, keys]
  Printed    \* the hashes that hash-password may come up with

VARIABLES
  command,   \* "serve", "run" or "hash-password"
  phase,     \* where main() is
  file,      \* the configuration file, until it is resolved
  login,     \* whether the app has a login hook
  wanted,    \* history: whether the file asks for a login in any way
  handler,   \* the handler of SIGTERM is installed
  ready,     \* the readiness line is printed
  status     \* the exit status, or why there is none

mainVars == <<command, phase, file, login, wanted, handler, ready, status>>
vars == <<mainVars, authVars>>

Mapping(keys) == [is |-> "mapping", keys |-> keys]
Default       == Mapping(<<>>)

(* A key that only looks like one of the login keys is a wish for a login.   *)
LoginKeys == {"username", "password_hash", "pasword_hash"}
Wishes(f) == \E k \in DOMAIN f.keys \cap LoginKeys : f.keys[k] # Null

Running == phase # "exited"

-----------------------------------------------------------------------------
Init ==
  /\ command \in {"serve", "run", "hash-password"}
  /\ phase = "start"
  /\ file \in Files
  /\ login = FALSE
  /\ wanted = FALSE
  /\ handler = FALSE
  /\ ready = FALSE
  /\ status = "none"
  /\ AuthInit

Step(from, to) == phase = from /\ phase' = to

Exit(s) ==
  /\ phase' = "exited"
  /\ status' = s
  /\ file' = Default
  /\ entries' = <<>> /\ cache' = <<>> /\ verifier' = None
  /\ thread' = [t \in Threads |-> Idle]
  /\ UNCHANGED <<command, login, wanted, handler, ready>>

(* The import of waitress, which only serve needs.                           *)
Start ==
  /\ command \in {"serve", "run"}
  /\ Step("start", "load")
  /\ UNCHANGED <<command, file, login, wanted, handler, ready, status, authVars>>

StartFails == phase = "start" /\ command = "serve" /\ Exit("1")

(* load_config() and resolve_config().  A file that was asked for by name    *)
(* must exist; the default one may be missing.                               *)
Load ==
  /\ Step("load", "store")
  /\ \/ file.is = "mapping" /\ resolve_config(file.keys)
     \/ file.is = "missing"
  /\ login' = (file.is = "mapping" /\ Laid(file.keys).password_hash # Null)
  /\ wanted' = (file.is = "mapping" /\ Wishes(file))
  /\ file' = Default
  /\ UNCHANGED <<command, handler, ready, status, authVars>>

LoadFails ==
  /\ phase = "load"
  /\ \/ file.is = "mapping" /\ ~resolve_config(file.keys)
     \/ file.is # "mapping"
  /\ Exit("2")

(* Store.check() of create_app().                                            *)
CheckStore ==
  /\ Step("store", "listen")
  /\ UNCHANGED <<command, file, login, wanted, handler, ready, status, authVars>>

(* _listen() binds the address, before anything is printed.                  *)
Listen ==
  /\ Step("listen", "create")
  /\ UNCHANGED <<command, file, login, wanted, handler, ready, status, authVars>>

(* The data file cannot be used, the address cannot be listened on, or the   *)
(* server object cannot be made: the socket is closed.                       *)
PrepareFails == phase \in {"store", "listen", "create"} /\ Exit("1")

(* From here on serve and run are alike.                                     *)
Create ==
  /\ Step("create", "handler")
  /\ command' = "serve"
  /\ UNCHANGED <<file, login, wanted, handler, ready, status, authVars>>

(* Mutant: the readiness line comes first.                                   *)
AnnounceFirst ==
  /\ Step("handler", "announce")
  /\ ready' = TRUE
  /\ UNCHANGED <<command, file, login, wanted, handler, status, authVars>>

InstallHandler ==
  /\ Step("handler", "announce")
  /\ handler' = TRUE
  /\ UNCHANGED <<command, file, login, wanted, ready, status, authVars>>

Announce ==
  /\ Step("announce", "serving")
  /\ ready' = TRUE
  /\ UNCHANGED <<command, file, login, wanted, handler, status, authVars>>

(* Where a KeyboardInterrupt is caught: serve makes its server inside the    *)
(* try statement, run does not.                                              *)
Guarded ==
  phase \in {"handler", "announce", "serving"} \/ (phase = "create" /\ command = "serve")

(* SIGINT raises KeyboardInterrupt from the start, SIGTERM ends the process  *)
(* until the handler is there.                                               *)
Interrupt ==
  /\ Running
  /\ IF Guarded THEN Exit("0") ELSE Exit("interrupted")

Terminate ==
  /\ Running
  /\ IF handler THEN Exit("0") ELSE Exit("killed")

(* _hash_password(): nothing usable was typed, the method cannot be used, or *)
(* the hash is one that resolve_config() would refuse at start-up.           *)
HashPassword ==
  /\ phase = "start" /\ command = "hash-password"
  /\ \/ Exit("1")
     \/ Exit("2")
     \/ \E h \in Printed :
          Exit(IF resolve_config([password_hash |-> h]) THEN "0" ELSE "2")

-----------------------------------------------------------------------------
(* A request comes in; without a login there is no hook.                     *)
Request(t) ==
  /\ phase = "serving"
  /\ \/ login /\ Gate(t)
     \/ ~login /\ At(t, "idle") /\ Goto(t, "pass") /\ UNCHANGED <<entries, cache, verifier>>
  /\ UNCHANGED mainVars

RunHook(t) == phase = "serving" /\ Hook(t) /\ UNCHANGED mainVars

(* After the login: content_type_gate() and the route, the answer goes out,  *)
(* and the thread is free again.                                             *)
Dispatch(t) ==
  /\ phase = "serving"
  /\ At(t, "pass")
  /\ thread' = [thread EXCEPT ![t] = Idle]
  /\ UNCHANGED <<mainVars, entries, cache, verifier>>

TimePasses == phase = "serving" /\ Tick /\ UNCHANGED mainVars

Next ==
  \/ Start \/ StartFails \/ Load \/ LoadFails \/ CheckStore \/ Listen \/ PrepareFails
  \/ Create \/ InstallHandler \/ Announce \/ Interrupt \/ Terminate \/ HashPassword
  \/ TimePasses
  \/ \E t \in Threads : Request(t) \/ RunHook(t) \/ Dispatch(t)

Spec == Init /\ [][Next]_vars

-----------------------------------------------------------------------------
(* A server that serves has the login that its file asks for, also when the  *)
(* key is misspelt, the hash unusable or only a user name given: it does not *)
(* start, rather than serve without one.                                     *)
LoginIsNeverForgotten == phase = "serving" /\ wanted => login

(* No request gets past the hook, to the gate or a route, without the right  *)
(* login, whatever other requests do to the cache and the limiter meanwhile. *)
OnlyTheOwnerGetsIn ==
  login => \A t \in Threads : At(t, "pass") => thread[t].header \in Right

(* A lock ends before its time only by a login of that address whose check   *)
(* succeeded, or when every address that is remembered is locked and room is *)
(* needed for another: failures from many addresses do not free a locked one *)
(* while an unlocked one can go.  It is kept in memory only.                 *)
LockLasts ==
  [][\A a \in Addrs :
       (Locked(a) /\ entries[a].left > 1 /\ ~(a \in DOMAIN entries' /\ entries'[a].left > 0))
       => \/ phase' = "exited"
          \/ \E t \in Threads :
               \/ At(t, "succeed") /\ thread[t].addr = a
               \/ At(t, "reject") /\ \A b \in Tracked : Locked(b)]_vars

(* "a signal sent as soon as a script has read it stops the server cleanly": *)
(* once the readiness line is out, the process ends with status 0.           *)
CleanStopOnceReady == ready /\ phase = "exited" => status = "0"
=============================================================================
