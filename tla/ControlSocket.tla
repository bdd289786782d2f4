---------------------------- MODULE ControlSocket ----------------------------
(***************************************************************************)
(* The control socket: how daemons take it over and give it up, the        *)
(* requests their clients send, and the runtime configuration that "set",  *)
(* "reset" and "reload" change (ipc.rs, daemon/command.rs,                 *)
(* daemon/runtime_config.rs, handle_request and reconfigure of             *)
(* daemon/mod.rs, the policies of normalization/control.rs, main.rs).      *)
(*                                                                         *)
(* A step of a daemon is one system call on the socket or its path, or     *)
(* what it makes of one request: other processes act between any two.  A   *)
(* daemon has one thread: while it reads a request or writes an answer it  *)
(* does nothing else.  What a request does to the routes is RouteDaemon's; *)
(* here bypass_all succeeds or fails.                                      *)
(***************************************************************************)
EXTENDS Integers, Sequences

CONSTANTS
  Daemons,   \* processes run with --daemon
  Clients,   \* processes run with "msg"
  Apps, Domains,
  Files,     \* configurations the file at --config may hold
  Broken,    \* its contents when they do not parse or are out of range
  None,
  Unset,     \* an option that is not given
  Backlog,   \* connections a listener queues for accept: a connect beyond them waits
  Overlap    \* whether daemons are started while others are starting

Keys == Apps \X Domains
Switch == BOOLEAN \cup {Unset}

ASSUME FilesAssumption ==
  /\ Files \subseteq [defaults : [Domains -> Switch], applications : [Keys -> Switch]]
  /\ Broken \notin Files /\ Unset \notin BOOLEAN
ASSUME NamesAssumption ==
  None \notin Daemons \cup Clients /\ "abandoned" \notin Daemons
ASSUME BoundsAssumption == Backlog \in Nat /\ Overlap \in BOOLEAN

VARIABLES
  path,      \* whose socket the path names, "abandoned" after a crash, or None
  phase,     \* where each daemon is
  pending,   \* its connections: the one it serves, then those its listener has queued
  waiting,   \* the daemon each client is connected to, or None
  file,      \* the contents of the configuration file
  config,    \* runtime_config of each daemon that runs
  policies,  \* whether its ControllerBank normalizes an application's direction
  granted,   \* history: the last "set" answered with ok and not reset since
  loaded     \* history: the file of the last "reload" answered with ok

socket == <<path, phase, pending, waiting>>
mode   == <<config, policies, granted, loaded>>
vars   == <<socket, file, mode>>

-----------------------------------------------------------------------------
(* The configuration *)

Or(option, default) == IF option = Unset THEN default ELSE option

\* RuntimeConfig::effective.
Effective(cfg) ==
  [cfg.baseline EXCEPT !.applications = [k \in Keys |-> Or(cfg.overrides[k], @[k])]]

\* The policies that apply_user_config derives.
Resolved(user) ==
  [k \in Keys |-> Or(user.applications[k], Or(user.defaults[k[2]], TRUE))]

Unchanged == [k \in Keys |-> Unset]
Runtime(baseline) == [baseline |-> baseline, overrides |-> Unchanged]

Set(k, on)  == [kind |-> "set", key |-> k, on |-> on]
Reset(a)    == [kind |-> "reset", app |-> a]
Reload      == [kind |-> "reload"]
\* Any request that leaves the configuration alone: status, export, enable,
\* disable, and what does not parse.
Other       == [kind |-> "other"]
Requests == {Set(k, on) : k \in Keys, on \in BOOLEAN} \cup {Reset(a) : a \in Apps}
              \cup {Reload, Other}

\* Slip: the overlays go with the baseline they were laid over.
RebasedAnew(cfg) == Runtime(file)

\* RuntimeConfig::replace_baseline.
Rebased(cfg) == [cfg EXCEPT !.baseline = file]

\* What a request makes of a runtime configuration.
Applied(cfg, request) ==
  CASE request.kind = "set"    -> [cfg EXCEPT !.overrides[request.key] = request.on]
    [] request.kind = "reset"  ->
         [cfg EXCEPT !.overrides =
            [k \in Keys |-> IF k[1] = request.app THEN Unset ELSE @[k]]]
    [] request.kind = "reload" -> Rebased(cfg)
    [] OTHER                   -> cfg

-----------------------------------------------------------------------------
(* Starting and stopping *)

\* A daemon in its main loop: between two requests, or reading one, or writing
\* an answer.
Serving(d) == phase[d] \in {"serving", "reading", "answering"}

Listening(d) == phase[d] \in {"listening", "stopping", "closing"} \/ Serving(d)

\* A daemon that is not past ControlServer::bind.
Starting(d) == phase[d] \in {"starting", "stale", "clear", "bound", "listening"}

Init ==
  /\ path = None
  /\ phase = [d \in Daemons |-> "off"]
  /\ pending = [d \in Daemons |-> <<>>]
  /\ waiting = [c \in Clients |-> None]
  /\ file \in Files
  /\ config = [d \in Daemons |-> None] /\ policies = [d \in Daemons |-> None]
  /\ granted = [d \in Daemons |-> None] /\ loaded = [d \in Daemons |-> None]

\* main reads the configuration before anything else, and exits if it cannot.
Start(d) ==
  /\ phase[d] = "off"
  /\ Overlap \/ \A e \in Daemons : ~Starting(e)
  /\ file # Broken
  /\ phase' = [phase EXCEPT ![d] = "starting"]
  /\ config' = [config EXCEPT ![d] = Runtime(file)]
  /\ policies' = [policies EXCEPT ![d] = Resolved(file)]
  /\ granted' = [granted EXCEPT ![d] = Unchanged]
  /\ loaded' = [loaded EXCEPT ![d] = file]
  /\ UNCHANGED <<path, pending, waiting, file>>

\* A process ends, and what it had in memory and in its queue is gone.
Exits(d) ==
  /\ phase' = [phase EXCEPT ![d] = "off"]
  /\ pending' = [pending EXCEPT ![d] = <<>>]
  /\ waiting' = [c \in Clients |-> IF waiting[c] = d THEN None ELSE waiting[c]]
  /\ config' = [config EXCEPT ![d] = None]
  /\ policies' = [policies EXCEPT ![d] = None]
  /\ granted' = [granted EXCEPT ![d] = None]
  /\ loaded' = [loaded EXCEPT ![d] = None]

Becomes(d, p) ==
  /\ phase' = [phase EXCEPT ![d] = p]
  /\ UNCHANGED <<pending, waiting, mode>>

\* A connection: its client, or None if nobody waits at its other end, and what
\* that has sent: "nothing" yet, a "part" of a request, of which a "rest" is still to
\* come when the part has been read, a whole "request" or, closing the connection, an
\* "empty" one.  After that it is where the "answer" goes.
Connection(client, sent) == [client |-> client, sent |-> sent]

\* The listener of daemon d has room for one more connection.
Room(d) == Len(pending[d]) < Backlog + (IF phase[d] \in {"reading", "answering"} THEN 1 ELSE 0)

\* Connecting to the path tells a daemon that listens from a stale socket and
\* from one whose owner does not listen yet.
Live(p) == p \in Daemons /\ Listening(p)

\* ControlServer::bind connects to the path.  A connection that a listener takes
\* is closed at once ...
Probe(d) ==
  /\ phase[d] = "starting"
  /\ \/ /\ Live(path) /\ Room(path)
        /\ phase' = [phase EXCEPT ![d] = "in use"]
        /\ pending' = [pending EXCEPT ![path] = Append(@, Connection(None, "empty"))]
        /\ UNCHANGED <<waiting, mode>>
     \/ ~Live(path) /\ Becomes(d, IF path = None THEN "clear" ELSE "stale")
  /\ UNCHANGED <<path, file>>

\* ... and the daemon exits.
TurnedAway(d) ==
  /\ phase[d] = "in use"
  /\ Exits(d)
  /\ UNCHANGED <<path, file>>

RemoveStale(d) ==
  /\ phase[d] = "stale"
  /\ path' = None
  /\ IF path = None THEN Exits(d) ELSE Becomes(d, "clear")
  /\ UNCHANGED file

\* UnixListener::bind: bind(2) ...
BindPath(d) ==
  /\ phase[d] = "clear"
  /\ IF path = None THEN path' = d /\ Becomes(d, "bound")
                    ELSE UNCHANGED path /\ Exits(d)
  /\ UNCHANGED file

\* ... and listen(2).
Listen(d) ==
  /\ phase[d] = "bound"
  /\ Becomes(d, "listening")
  /\ UNCHANGED <<path, file>>

\* The permissions are set by path; then the daemon recovers prior routes and
\* enters its loop.
Enter(d) ==
  /\ phase[d] = "listening"
  /\ IF path = None THEN Exits(d) ELSE Becomes(d, "serving")
  /\ UNCHANGED <<path, file>>

\* A signal or a lost connection ends the loop between two rounds of requests.
Leave(d) ==
  /\ phase[d] = "serving"
  /\ Becomes(d, "stopping")
  /\ UNCHANGED <<path, file>>

\* Slip: the listener closes before the path goes.
GiveUpClosed(d) ==
  \/ phase[d] = "stopping" /\ Becomes(d, "closed") /\ UNCHANGED <<path, file>>
  \/ phase[d] = "closed" /\ path' = None /\ Exits(d) /\ UNCHANGED file

\* ControlServer::drop removes the path, whoever's it is, and then its fields
\* are dropped: the listener closes.
GiveUp(d) ==
  \/ phase[d] = "stopping" /\ path' = None /\ Becomes(d, "closing") /\ UNCHANGED file
  \/ phase[d] = "closing" /\ Exits(d) /\ UNCHANGED <<path, file>>

Crash(d) ==
  /\ phase[d] # "off"
  /\ path' = IF path = d THEN "abandoned" ELSE path
  /\ Exits(d)
  /\ UNCHANGED file

-----------------------------------------------------------------------------
(* Clients and requests *)

\* A client connects to the socket the path names, if anyone listens there ...
Connect(c) ==
  /\ waiting[c] = None
  /\ Live(path) /\ Room(path)
  /\ pending' = [pending EXCEPT ![path] = Append(@, Connection(c, "nothing"))]
  /\ waiting' = [waiting EXCEPT ![c] = path]
  /\ UNCHANGED <<path, phase, file, mode>>

Has(c, sent) ==
  waiting[c] # None
    /\ \E n \in DOMAIN pending[waiting[c]] : pending[waiting[c]][n] = Connection(c, sent)

\* The connections of all daemons when that of client c becomes conn.
With(c, conn) ==
  [pending EXCEPT ![waiting[c]] =
     [n \in DOMAIN @ |-> IF @[n].client = c THEN conn ELSE @[n]]]

Partial(c) == Has(c, "part") \/ Has(c, "rest")

\* ... and sends a part of its request, and another ...
Trickle(c) ==
  /\ Has(c, "nothing") \/ Has(c, "rest")
  /\ pending' = With(c, Connection(c, "part"))
  /\ UNCHANGED <<path, phase, waiting, file, mode>>

\* ... or all there is, and closes its side: sooner or later or never.  Which request
\* it was shows when it is handled.
Send(c) ==
  /\ Has(c, "nothing") \/ Partial(c)
  /\ pending' = With(c, Connection(c, "request"))
  /\ UNCHANGED <<path, phase, waiting, file, mode>>

\* A client is killed: what it has sent stays, whole or not.
Abandon(c) ==
  /\ \/ Has(c, "nothing") /\ pending' = With(c, Connection(None, "empty"))
     \/ /\ Partial(c) \/ Has(c, "request")
        /\ pending' = With(c, Connection(None, "request"))
  /\ waiting' = [waiting EXCEPT ![c] = None]
  /\ UNCHANGED <<path, phase, file, mode>>

\* A client takes the answer it is sent, or goes without it.
Receive(c) ==
  /\ Has(c, "answer")
  /\ pending' = With(c, Connection(None, "answer"))
  /\ waiting' = [waiting EXCEPT ![c] = None]
  /\ UNCHANGED <<path, phase, file, mode>>

\* The user edits the configuration file.
Edit == \E f \in Files \cup {Broken} :
  /\ f # file
  /\ file' = f
  /\ UNCHANGED <<socket, mode>>

\* accept(2): the daemon turns to the first connection of the queue.
Accept(d) ==
  /\ phase[d] = "serving" /\ pending[d] # <<>>
  /\ Becomes(d, "reading")
  /\ UNCHANGED <<path, file>>

Reading(d, states) == phase[d] = "reading" /\ Head(pending[d]).sent \in states

\* read_to_string takes what has arrived and goes on to wait for more.
Read(d) ==
  /\ Reading(d, {"part"})
  /\ pending' = [pending EXCEPT ![d][1].sent = "rest"]
  /\ UNCHANGED <<path, phase, waiting, file, mode>>

\* The connection is closed, answered or not, and the daemon goes on.
Closes(d) ==
  LET conn == Head(pending[d]) IN
  /\ phase' = [phase EXCEPT ![d] = "serving"]
  /\ pending' = [pending EXCEPT ![d] = Tail(@)]
  /\ waiting' = IF conn.client = None THEN waiting
                ELSE [waiting EXCEPT ![conn.client] = None]

\* reconfigure, which fails if bypass_all could not bypass every stream.
Reconfigured(d, next, ok) ==
  IF ok THEN /\ config' = [config EXCEPT ![d] = next]
             /\ policies' = [policies EXCEPT ![d] = Resolved(Effective(next))]
  ELSE UNCHANGED <<config, policies>>

\* What a request answered with ok entitles its sender to.
Granted(was, request) ==
  CASE request.kind = "set"   -> [was EXCEPT ![request.key] = request.on]
    [] request.kind = "reset" -> [k \in Keys |-> IF k[1] = request.app THEN Unset ELSE was[k]]
    [] OTHER                  -> was

\* write_response: answers to "set", "reset" and "reload" are short and are left in the
\* socket; a status or an export may be more than that holds, and then waits for its
\* client.
Answers(d, request) ==
  \/ Closes(d)
  \/ /\ request = Other /\ Head(pending[d]).client # None
     /\ phase' = [phase EXCEPT ![d] = "answering"]
     /\ pending' = [pending EXCEPT ![d][1].sent = "answer"]
     /\ UNCHANGED waiting

\* handle_request, for a request that has arrived, and the answer to it.
Handle(d) ==
  /\ Reading(d, {"request", "empty"})
  /\ \E request \in IF Head(pending[d]).sent = "request" THEN Requests ELSE {Other},
        bypassed \in BOOLEAN :
       LET ok == bypassed /\ request # Other /\ ~(request = Reload /\ file = Broken) IN
       /\ Reconfigured(d, Applied(config[d], request), ok)
       /\ granted' = IF ok THEN [granted EXCEPT ![d] = Granted(@, request)] ELSE granted
       /\ loaded' = IF ok /\ request = Reload THEN [loaded EXCEPT ![d] = file] ELSE loaded
       /\ Answers(d, request)
  /\ UNCHANGED <<path, file>>

\* The rest of a long answer has been taken, or its client has gone.
Answered(d) ==
  /\ phase[d] = "answering" /\ Head(pending[d]).client = None
  /\ Closes(d)
  /\ UNCHANGED <<path, file, mode>>

\* Slip: a silent client is waited for.
TimeOutNever(d) == FALSE

\* A connection that has brought nothing for REQUEST_TIMEOUT is closed: the time
\* counts from the last part of a request, not from its beginning.
TimeOut(d) ==
  /\ Reading(d, {"nothing", "rest"})
  /\ Closes(d)
  /\ UNCHANGED <<path, file, mode>>

Serve(d) == Accept(d) \/ Read(d) \/ Handle(d) \/ Answered(d) \/ TimeOut(d)

StartUp(d) ==
  Probe(d) \/ TurnedAway(d) \/ RemoveStale(d) \/ BindPath(d) \/ Listen(d) \/ Enter(d)

Next ==
  \/ \E d \in Daemons : \/ Start(d) \/ StartUp(d)
                        \/ Serve(d)
                        \/ Leave(d) \/ GiveUp(d) \/ Crash(d)
  \/ \E c \in Clients : Connect(c) \/ Trickle(c) \/ Send(c) \/ Abandon(c) \/ Receive(c)
  \/ Edit

Spec == Init /\ [][Next]_vars

\* A daemon that runs gets on with what it does, unless it waits for a client:
\* nothing is said of those.
Fairness == \A d \in Daemons :
  /\ WF_vars(StartUp(d))
  /\ WF_vars(Serve(d))
  /\ WF_vars(GiveUp(d))

FairSpec == Spec /\ Fairness

-----------------------------------------------------------------------------
(* Properties *)

\* "another loudnessd daemon is already listening" (ipc.rs:37): as long as a
\* daemon listens that has not begun to stop, the path leads to it, so that no
\* second one routes streams or writes the journal beside it.  A path left by a
\* crash must not keep the next daemon out, and one that stops must not take
\* its successor's.
PathLeadsToDaemon ==
  \A d \in Daemons : phase[d] = "listening" \/ Serving(d) => path = d

\* Whoever changes what and whichever requests fail, an application is treated
\* as the last request answered with ok said, or else as the file that was
\* loaded last says; a restart forgets the requests ("set and reset are
\* in-memory overlays and disappear when the daemon restarts",
\* docs/user/README.md:198).
AnsweredInForce == \A d \in Daemons : Serving(d) =>
  policies[d] = [k \in Keys |-> Or(granted[d][k], Resolved(loaded[d])[k])]

\* A client does not send a part of a request after the other for ever, and takes
\* the answer it is sent.
Considerate(c) ==
  /\ []<>~Partial(c) \/ <>[][~Trickle(c)]_vars
  /\ WF_vars(Receive(c))

\* A request that has been sent is handled, or its daemon goes: clients that
\* connect and say nothing, fall silent within a request, or go away, do not hold up
\* the others.  Clients have to be considerate: one that goes on sending in pieces
\* holds the daemon for ever, as the time-out starts anew with each read, and so does
\* one that does not take a long answer, as writing has no time-out.
EveryRequestAnswered ==
  (\A c \in Clients : Considerate(c)) => \A c \in Clients : Has(c, "request") ~> ~Has(c, "request")

=============================================================================
