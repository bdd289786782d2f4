---------------------------- MODULE ControlProofs ----------------------------
(***************************************************************************)
(* Proofs about ControlSocket for any number of daemons and clients, any   *)
(* files and any length of the listeners' queues.                          *)
(***************************************************************************)
EXTENDS ControlSocket, TLAPS

Phases == {"off", "starting", "in use", "stale", "clear", "bound", "listening",
           "serving", "reading", "answering", "stopping", "closing"}

\* The phases in which a daemon holds the path.
Holding(d) == phase[d] \in {"bound", "listening", "stopping"} \/ Serving(d)

PhaseInv == phase \in [Daemons -> Phases]

\* Daemons are started one after the other.
OneStarts == \A d, e \in Daemons : Starting(d) /\ Starting(e) => d = e

\* Who holds the path is the one it leads to ...
HoldersInv == \A d \in Daemons : Holding(d) => path = d

\* ... and nobody holds it while a starting daemon takes it for a stale one.
StaleInv ==
  \A d, e \in Daemons : phase[d] \in {"stale", "clear"} => ~Holding(e)

PathInv == PhaseInv /\ OneStarts /\ HoldersInv /\ StaleInv

\* A step of daemon d that leaves the path alone preserves all of this, if d
\* does not begin to hold it.
LEMMA QuietStep ==
  ASSUME PathInv, NEW d \in Daemons, NEW q \in Phases,
         phase' = [phase EXCEPT ![d] = q], path' = path,
         Starting(d)' => Starting(d),
         Holding(d)' => Holding(d),
         q \in {"stale", "clear"} => \A e \in Daemons : ~Holding(e)
  PROVE  PathInv'
<1>1. PhaseInv'
  BY DEF PathInv, PhaseInv
<1>2. \A e \in Daemons : phase'[e] = IF e = d THEN q ELSE phase[e]
  BY DEF PathInv, PhaseInv
<1>3. OneStarts'
  BY <1>2 DEF PathInv, OneStarts, Starting
<1>4. HoldersInv'
  BY <1>2 DEF PathInv, HoldersInv, Holding, Serving
<1>5. StaleInv'
  <2> SUFFICES ASSUME NEW a \in Daemons, NEW b \in Daemons,
                      phase'[a] \in {"stale", "clear"}, Holding(b)'
               PROVE  FALSE
    BY DEF StaleInv, Holding, Serving
  <2>1. Holding(b)
    BY <1>2 DEF Holding, Serving
  <2>2. CASE a = d
    BY <1>2, <2>1, <2>2
  <2>3. CASE a # d
    BY <1>2, <2>1, <2>3 DEF PathInv, StaleInv
  <2> QED
    BY <2>2, <2>3
<1> QED
  BY <1>1, <1>3, <1>4, <1>5 DEF PathInv

\* A step of daemon d that changes the path preserves all of this, if nobody
\* else holds it.
LEMMA OwnStep ==
  ASSUME PathInv, NEW d \in Daemons, NEW q \in Phases,
         phase' = [phase EXCEPT ![d] = q],
         \A e \in Daemons \ {d} : ~Holding(e),
         Starting(d)' => Starting(d),
         Holding(d)' => q = "bound" /\ Starting(d) /\ path' = d
  PROVE  PathInv'
<1>1. PhaseInv'
  BY DEF PathInv, PhaseInv
<1>2. \A e \in Daemons : phase'[e] = IF e = d THEN q ELSE phase[e]
  BY DEF PathInv, PhaseInv
<1>3. OneStarts'
  BY <1>2 DEF PathInv, OneStarts, Starting
<1>4. \A e \in Daemons : Holding(e)' => e = d
  BY <1>2 DEF Holding, Serving
<1>5. HoldersInv'
  BY <1>4 DEF HoldersInv
<1>6. StaleInv'
  <2> SUFFICES ASSUME NEW a \in Daemons, NEW b \in Daemons,
                      phase'[a] \in {"stale", "clear"}, Holding(b)'
               PROVE  FALSE
    BY DEF StaleInv, Holding, Serving
  <2>1. b = d /\ q = "bound" /\ Starting(d)
    BY <1>4
  <2>2. a # d
    BY <1>2, <2>1
  <2>3. Starting(a)
    BY <1>2, <2>2 DEF Starting
  <2> QED
    BY <2>1, <2>2, <2>3 DEF PathInv, OneStarts
<1> QED
  BY <1>1, <1>3, <1>5, <1>6 DEF PathInv

\* Serving its clients, a daemon stays in its main loop.
LEMMA ServeFacts ==
  ASSUME NEW d \in Daemons, Serve(d)
  PROVE  /\ Serving(d) /\ UNCHANGED <<path, file>>
         /\ \/ phase' = phase
            \/ \E q \in {"serving", "reading", "answering"} : phase' = [phase EXCEPT ![d] = q]
<1>1. CASE Accept(d)
  BY <1>1 DEF Accept, Becomes, Serving
<1>2. CASE Read(d)
  BY <1>2 DEF Read, Reading, Serving
<1>3. CASE Handle(d)
  <2>1. PICK request : Answers(d, request)
    BY <1>3 DEF Handle
  <2>2. phase[d] = "reading" /\ UNCHANGED <<path, file>>
    BY <1>3 DEF Handle, Reading
  <2> QED
    BY <2>1, <2>2 DEF Answers, Closes, Serving
<1>4. CASE Answered(d)
  BY <1>4 DEF Answered, Closes, Serving
<1>5. CASE TimeOut(d)
  BY <1>5 DEF TimeOut, Closes, Reading, Serving
<1> QED
  BY <1>1, <1>2, <1>3, <1>4, <1>5 DEF Serve

\* Every step preserves all of this as long as daemons are started one after
\* the other.
LEMMA PathStep ==
  ASSUME Overlap = FALSE, PathInv, [Next]_vars
  PROVE  PathInv'
<1> USE NamesAssumption
<1>0. CASE UNCHANGED <<path, phase>>
  BY <1>0 DEF PathInv, PhaseInv, OneStarts, HoldersInv, StaleInv, Starting, Holding, Serving
<1> SUFFICES ASSUME NEW d \in Daemons,
                    \/ Start(d) \/ StartUp(d) \/ Serve(d) \/ Leave(d) \/ GiveUp(d) \/ Crash(d)
             PROVE  PathInv'
  BY <1>0 DEF Next, vars, socket, mode, Connect, Trickle, Send, Abandon, Receive, Edit
<1>a. phase[d] \in Phases /\ \A e \in Daemons : phase[e] \in Phases
  BY DEF PathInv, PhaseInv
<1>b. ASSUME NEW q \in Phases, phase' = [phase EXCEPT ![d] = q]
      PROVE  phase'[d] = q
  BY <1>b DEF PathInv, PhaseInv
<1>1. CASE Start(d)
  <2>1. \A e \in Daemons : ~Starting(e)
    BY <1>1 DEF Start
  <2>2. /\ phase[d] = "off" /\ path' = path
        /\ phase' = [phase EXCEPT ![d] = "starting"]
    BY <1>1 DEF Start
  <2>3. \A e \in Daemons : phase'[e] = IF e = d THEN "starting" ELSE phase[e]
    BY <2>2 DEF PathInv, PhaseInv
  <2>4. PhaseInv'
    BY <2>2 DEF PathInv, PhaseInv, Phases
  <2>5. OneStarts'
    BY <2>1, <2>3 DEF OneStarts, Starting
  <2>6. HoldersInv'
    BY <2>2, <2>3 DEF PathInv, HoldersInv, Holding, Serving
  <2>7. StaleInv'
    BY <2>1, <2>3 DEF StaleInv, Starting
  <2> QED
    BY <2>4, <2>5, <2>6, <2>7 DEF PathInv
<1>2. CASE Probe(d)
  <2>1. CASE Live(path) /\ phase' = [phase EXCEPT ![d] = "in use"]
    <3>1. /\ "in use" \in Phases /\ path' = path
          /\ ~Starting(d)' /\ ~Holding(d)'
      BY <1>2, <2>1, <1>b DEF Probe, Phases, Starting, Holding, Serving
    <3> QED
      BY <2>1, <3>1, QuietStep
  <2>2. CASE ~Live(path) /\ Becomes(d, IF path = None THEN "clear" ELSE "stale")
    <3> DEFINE q == IF path = None THEN "clear" ELSE "stale"
    <3>1. q \in Phases /\ path' = path /\ phase' = [phase EXCEPT ![d] = q]
          /\ phase[d] = "starting"
      BY <1>2, <2>2 DEF Probe, Becomes, Phases
    <3>2. phase'[d] = q
      BY <3>1, <1>b
    <3>3. Starting(d) /\ ~Holding(d)'
      BY <3>1, <3>2 DEF Starting, Holding, Serving
    <3>4. ASSUME NEW e \in Daemons, Holding(e) PROVE FALSE
      <4>1. path = e
        BY <3>4 DEF PathInv, HoldersInv
      <4>2. phase[e] = "bound"
        BY <2>2, <3>4, <4>1 DEF Live, Listening, Holding, Serving
      <4>3. e = d
        BY <3>1, <4>2 DEF PathInv, OneStarts, Starting
      <4> QED
        BY <3>1, <4>2, <4>3
    <3> QED
      BY <3>1, <3>3, <3>4, QuietStep
  <2> QED
    BY <1>2, <2>1, <2>2 DEF Probe
<1>3. CASE TurnedAway(d) \/ (phase[d] \notin {"stopping", "stale"} /\ path' = path /\ Exits(d))
  <2>1. phase' = [phase EXCEPT ![d] = "off"] /\ path' = path /\ "off" \in Phases
    BY <1>3 DEF TurnedAway, Exits, Phases
  <2>2. ~Starting(d)' /\ ~Holding(d)'
    BY <2>1, <1>b DEF Starting, Holding, Serving
  <2> QED
    BY <2>1, <2>2, QuietStep
<1>4. CASE RemoveStale(d)
  <2>1. PICK q \in {"off", "clear"} :
             phase' = [phase EXCEPT ![d] = q]
    BY <1>4 DEF RemoveStale, Exits, Becomes
  <2>2. q \in Phases /\ phase[d] = "stale"
    BY <1>4 DEF RemoveStale, Phases
  <2>3. \A e \in Daemons : ~Holding(e)
    BY <2>2 DEF PathInv, StaleInv
  <2>4. phase'[d] = q
    BY <2>1, <2>2, <1>b
  <2>5. Starting(d) /\ ~Holding(d)'
    BY <2>2, <2>4 DEF Starting, Holding, Serving
  <2> QED
    BY <2>1, <2>2, <2>3, <2>5, OwnStep
<1>5. CASE BindPath(d)
  <2>1. phase[d] = "clear"
    BY <1>5 DEF BindPath
  <2>2. \A e \in Daemons : ~Holding(e)
    BY <2>1 DEF PathInv, StaleInv
  <2>3. CASE path = None
    <3>1. phase' = [phase EXCEPT ![d] = "bound"] /\ path' = d /\ "bound" \in Phases
      BY <1>5, <2>3 DEF BindPath, Becomes, Phases
    <3>2. phase'[d] = "bound"
      BY <3>1, <1>b
    <3>3. Starting(d)
      BY <2>1 DEF Starting
    <3> QED
      BY <2>2, <3>1, <3>2, <3>3, OwnStep
  <2>4. CASE path # None
    BY <1>3, <1>5, <2>1, <2>4 DEF BindPath
  <2> QED
    BY <2>3, <2>4
<1>6. CASE Listen(d)
  <2>1. phase' = [phase EXCEPT ![d] = "listening"] /\ path' = path
        /\ phase[d] = "bound" /\ "listening" \in Phases
    BY <1>6 DEF Listen, Becomes, Phases
  <2>2. Starting(d) /\ Holding(d)
    BY <2>1 DEF Starting, Holding, Serving
  <2> QED
    BY <2>1, <2>2, QuietStep
<1>7. CASE Enter(d)
  <2>1. CASE path = None
    BY <1>3, <1>7, <2>1 DEF Enter
  <2>2. CASE path # None
    <3>1. phase' = [phase EXCEPT ![d] = "serving"] /\ path' = path
          /\ phase[d] = "listening" /\ "serving" \in Phases
      BY <1>7, <2>2 DEF Enter, Becomes, Phases
    <3>2. Starting(d) /\ Holding(d)
      BY <3>1 DEF Starting, Holding, Serving
    <3> QED
      BY <3>1, <3>2, QuietStep
  <2> QED
    BY <2>1, <2>2
<1>8. CASE Leave(d)
  <2>1. phase' = [phase EXCEPT ![d] = "stopping"] /\ path' = path
        /\ phase[d] = "serving" /\ "stopping" \in Phases
    BY <1>8 DEF Leave, Becomes, Phases
  <2>2. ~Starting(d)' /\ Holding(d)
    BY <2>1, <1>b DEF Starting, Holding, Serving
  <2> QED
    BY <2>1, <2>2, QuietStep
<1>9. CASE GiveUp(d)
  <2>1. CASE phase[d] = "stopping"
    <3>1. phase' = [phase EXCEPT ![d] = "closing"] /\ "closing" \in Phases
      BY <1>9, <2>1 DEF GiveUp, Becomes, Phases
    <3>2. ~Starting(d)' /\ ~Holding(d)'
      BY <3>1, <1>b DEF Starting, Holding, Serving
    <3>3. \A e \in Daemons \ {d} : ~Holding(e)
      BY <2>1 DEF PathInv, HoldersInv, Holding, Serving
    <3> QED
      BY <3>1, <3>2, <3>3, OwnStep
  <2>2. CASE phase[d] = "closing"
    BY <1>3, <1>9, <2>2 DEF GiveUp
  <2> QED
    BY <1>9, <2>1, <2>2 DEF GiveUp
<1>10. CASE Crash(d)
  <2>1. phase' = [phase EXCEPT ![d] = "off"] /\ "off" \in Phases
    BY <1>10 DEF Crash, Exits, Phases
  <2>2. ~Starting(d)' /\ ~Holding(d)'
    BY <2>1, <1>b DEF Starting, Holding, Serving
  <2>3. CASE path = d
    <3>1. \A e \in Daemons \ {d} : ~Holding(e)
      BY <2>3 DEF PathInv, HoldersInv
    <3> QED
      BY <2>1, <2>2, <3>1, OwnStep
  <2>4. CASE path # d
    BY <1>10, <2>1, <2>2, <2>4, QuietStep DEF Crash
  <2> QED
    BY <2>3, <2>4
<1>11. CASE Serve(d)
  <2>1. Serving(d) /\ path' = path
    BY <1>11, ServeFacts
  <2>2. CASE phase' = phase
    BY <1>0, <2>1, <2>2
  <2>3. CASE phase' # phase
    <3>1. PICK q \in {"serving", "reading", "answering"} : phase' = [phase EXCEPT ![d] = q]
      BY <1>11, <2>3, ServeFacts
    <3>2. q \in Phases
      BY DEF Phases
    <3>3. phase'[d] = q
      BY <3>1, <3>2, <1>b
    <3>4. ~Starting(d)' /\ Holding(d)
      BY <2>1, <3>3 DEF Starting, Holding, Serving
    <3> QED
      BY <2>1, <3>1, <3>2, <3>4, QuietStep
  <2> QED
    BY <2>2, <2>3
<1> QED
  BY <1>1, <1>2, <1>3, <1>4, <1>5, <1>6, <1>7, <1>8, <1>9, <1>10, <1>11 DEF StartUp

\* Daemons that are started one after the other never take the path away from
\* one that listens.
THEOREM PathCorrect ==
  ASSUME Overlap = FALSE
  PROVE  Spec => []PathLeadsToDaemon
<1>1. Init => PathInv
  BY DEF Init, PathInv, PhaseInv, OneStarts, HoldersInv, StaleInv, Starting, Holding, Serving, Phases
<1>2. PathInv /\ [Next]_vars => PathInv'
  BY PathStep
<1>3. PathInv => PathLeadsToDaemon
  BY DEF PathInv, HoldersInv, Holding, PathLeadsToDaemon
<1> QED
  BY <1>1, <1>2, <1>3, PTL DEF Spec

-----------------------------------------------------------------------------
(* The runtime configuration *)

\* A daemon's overlays are what it has granted, its baseline is what it has
\* loaded, and its policies follow from both.
ModeOf(d) ==
  /\ granted[d] \in [Keys -> Switch]
  /\ loaded[d] \in Files
  /\ config[d] = [baseline |-> loaded[d], overrides |-> granted[d]]
  /\ policies[d] = [k \in Keys |-> Or(granted[d][k], Resolved(loaded[d])[k])]

Maps(f) == f = [d \in Daemons |-> f[d]]

ModeInv ==
  /\ file \in Files \cup {Broken}
  /\ Maps(phase) /\ Maps(config) /\ Maps(policies) /\ Maps(granted) /\ Maps(loaded)
  /\ \A d \in Daemons : phase[d] # "off" => ModeOf(d)

\* An overlay over a file's options over its defaults: it makes no difference
\* which two are combined first.
LEMMA OverlayFacts ==
  ASSUME NEW g \in [Keys -> Switch], NEW f \in Files
  PROVE  Resolved(Effective([baseline |-> f, overrides |-> g]))
           = [k \in Keys |-> Or(g[k], Resolved(f)[k])]
<1> DEFINE c == [baseline |-> f, overrides |-> g]
           e == Effective(c)
<1>1. /\ f \in [defaults : [Domains -> Switch], applications : [Keys -> Switch]]
      /\ Unset \notin BOOLEAN
  BY FilesAssumption
<1>2. /\ e.applications = [k \in Keys |-> Or(g[k], f.applications[k])]
      /\ e.defaults = f.defaults
  BY <1>1 DEF Effective
<1>3. ASSUME NEW k \in Keys
      PROVE  Or(e.applications[k], Or(e.defaults[k[2]], TRUE)) = Or(g[k], Resolved(f)[k])
  <2>1. Resolved(f)[k] = Or(f.applications[k], Or(f.defaults[k[2]], TRUE))
    BY DEF Resolved
  <2>2. e.applications[k] = Or(g[k], f.applications[k])
    BY <1>2
  <2> HIDE DEF e
  <2> QED
    BY <1>2, <2>1, <2>2 DEF Or
<1>4. Resolved(e) = [k \in Keys |-> Or(g[k], Resolved(f)[k])]
  <2> HIDE DEF e
  <2> QED
    BY <1>3 DEF Resolved
<1> QED
  BY <1>4

\* A request answered with ok changes overlays or baseline as it says.
LEMMA AppliedFacts ==
  ASSUME NEW g \in [Keys -> Switch], NEW f \in Files, NEW request \in Requests
  PROVE  LET cfg == [baseline |-> f, overrides |-> g] IN
         /\ Granted(g, request) \in [Keys -> Switch]
         /\ Applied(cfg, request) =
              [baseline |-> IF request = Reload THEN file ELSE f,
               overrides |-> Granted(g, request)]
<1>1. CASE \E k \in Keys, on \in BOOLEAN : request = Set(k, on)
  BY <1>1 DEF Granted, Applied, Set, Reload, Switch
<1>2. CASE \E a \in Apps : request = Reset(a)
  BY <1>2 DEF Granted, Applied, Reset, Reload, Switch
<1>3. CASE request = Reload
  BY <1>3 DEF Granted, Applied, Rebased, Reload
<1>4. CASE request = Other
  BY <1>4 DEF Granted, Applied, Other, Reload
<1> QED
  BY <1>1, <1>2, <1>3, <1>4 DEF Requests

\* A process that ends leaves the others as they are.
LEMMA ModeExits ==
  ASSUME ModeInv, NEW d \in Daemons, Exits(d), UNCHANGED file
  PROVE  ModeInv'
<1>1. \A e \in Daemons \ {d} :
        /\ phase'[e] = phase[e] /\ config'[e] = config[e] /\ policies'[e] = policies[e]
        /\ granted'[e] = granted[e] /\ loaded'[e] = loaded[e]
  BY DEF ModeInv, Exits, Maps
<1>2. phase'[d] = "off"
  BY DEF ModeInv, Exits, Maps
<1>3. \A e \in Daemons : phase'[e] # "off" => ModeOf(e)'
  BY <1>1, <1>2 DEF ModeInv, ModeOf
<1>4. /\ Maps(phase)' /\ Maps(config)' /\ Maps(policies)'
      /\ Maps(granted)' /\ Maps(loaded)'
  BY DEF ModeInv, Exits, Maps
<1> QED
  BY <1>3, <1>4 DEF ModeInv

\* A daemon that goes from one phase to the next keeps its configuration.
LEMMA ModeBecomes ==
  ASSUME ModeInv, NEW d \in Daemons, phase[d] # "off", NEW p,
         phase' = [phase EXCEPT ![d] = p], UNCHANGED <<file, mode>>
  PROVE  ModeInv'
<1>1. \A e \in Daemons : phase'[e] # "off" => phase[e] # "off"
  BY DEF ModeInv, Maps
<1>2. Maps(phase)'
  BY DEF ModeInv, Maps
<1> QED
  BY <1>1, <1>2 DEF ModeInv, ModeOf, mode, Maps

\* Every step preserves what is said of the configurations.
LEMMA ModeStep ==
  ASSUME ModeInv, [Next]_vars
  PROVE  ModeInv'
<1>0. CASE UNCHANGED <<phase, file, mode>>
  BY <1>0 DEF ModeInv, ModeOf, mode, Maps
<1>1. CASE Edit
  BY <1>1 DEF Edit, ModeInv, ModeOf, socket, mode, Maps
<1> SUFFICES ASSUME NEW d \in Daemons,
                    \/ Start(d) \/ StartUp(d) \/ Serve(d)
                    \/ Leave(d) \/ GiveUp(d) \/ Crash(d)
             PROVE  ModeInv'
  BY <1>0, <1>1 DEF Next, vars, socket, mode, Connect, Trickle, Send, Abandon, Receive
<1>2. CASE Start(d)
  <2>1. /\ file \in Files /\ UNCHANGED file
        /\ phase' = [phase EXCEPT ![d] = "starting"]
        /\ config' = [config EXCEPT ![d] = Runtime(file)]
        /\ policies' = [policies EXCEPT ![d] = Resolved(file)]
        /\ granted' = [granted EXCEPT ![d] = Unchanged]
        /\ loaded' = [loaded EXCEPT ![d] = file]
    BY <1>2 DEF Start, ModeInv
  <2>2. /\ Maps(phase)' /\ Maps(config)' /\ Maps(policies)'
        /\ Maps(granted)' /\ Maps(loaded)'
    BY <2>1 DEF ModeInv, Maps
  <2>3. ASSUME NEW e \in Daemons, e # d, phase'[e] # "off"
        PROVE  ModeOf(e)'
    BY <2>1, <2>3 DEF ModeInv, ModeOf, Maps
  <2>4. /\ config'[d] = Runtime(file) /\ policies'[d] = Resolved(file)
        /\ granted'[d] = Unchanged /\ loaded'[d] = file
    BY <2>1 DEF ModeInv, Maps
  <2>5. Unchanged \in [Keys -> Switch]
    BY DEF Unchanged, Switch
  <2>6. Resolved(file) = [k \in Keys |-> Or(Unchanged[k], Resolved(file)[k])]
    BY DEF Resolved, Or, Unchanged
  <2>7. ModeOf(d)'
    BY <2>1, <2>4, <2>5, <2>6 DEF ModeOf, Runtime
  <2> QED
    BY <2>1, <2>2, <2>3, <2>7 DEF ModeInv
<1>3. CASE StartUp(d) \/ Leave(d) \/ GiveUp(d) \/ Crash(d)
  <2>1. CASE Exits(d)
    BY <1>3, <2>1, ModeExits
       DEF StartUp, Probe, TurnedAway, RemoveStale, BindPath, Listen, Enter, Becomes,
           Leave, GiveUp, Crash
  <2>2. CASE ~Exits(d)
    <3>1. phase[d] # "off" /\ UNCHANGED <<file, mode>>
      BY <1>3, <2>2
         DEF StartUp, Probe, TurnedAway, RemoveStale, BindPath, Listen, Enter, Becomes,
             Leave, GiveUp, Crash
    <3>2. PICK p : phase' = [phase EXCEPT ![d] = p]
      BY <1>3, <2>2
         DEF StartUp, Probe, TurnedAway, RemoveStale, BindPath, Listen, Enter, Becomes,
             Leave, GiveUp, Crash
    <3> QED
      BY <3>1, <3>2, ModeBecomes
  <2> QED
    BY <2>1, <2>2
<1>4. CASE Handle(d)
  <2>0. (IF Head(pending[d]).sent = "request" THEN Requests ELSE {Other}) \subseteq Requests
    BY DEF Requests
  <2>a. PICK q : phase' = [phase EXCEPT ![d] = q]
    BY <1>4, Zenon DEF Handle, Answers, Closes
  <2>1. PICK request \in Requests, bypassed \in BOOLEAN :
          LET ok == bypassed /\ request # Other /\ ~(request = Reload /\ file = Broken) IN
          /\ Reconfigured(d, Applied(config[d], request), ok)
          /\ granted' = IF ok THEN [granted EXCEPT ![d] = Granted(@, request)] ELSE granted
          /\ loaded' = IF ok /\ request = Reload THEN [loaded EXCEPT ![d] = file] ELSE loaded
    BY <1>4, <2>0, Zenon DEF Handle
  <2> DEFINE ok == bypassed /\ request # Other /\ ~(request = Reload /\ file = Broken)
  <2>2. phase[d] # "off" /\ UNCHANGED file
    BY <1>4 DEF Handle, Reading
  <2>3. CASE ~ok
    <3>1. UNCHANGED mode
      BY <2>1, <2>3 DEF Reconfigured, mode
    <3> QED
      BY <2>a, <2>2, <3>1, ModeBecomes
  <2>4. CASE ok
    <3> DEFINE next == Applied(config[d], request)
    <3>1. /\ config' = [config EXCEPT ![d] = next]
          /\ policies' = [policies EXCEPT ![d] = Resolved(Effective(next))]
          /\ granted' = [granted EXCEPT ![d] = Granted(@, request)]
          /\ loaded' = IF request = Reload THEN [loaded EXCEPT ![d] = file] ELSE loaded
      BY <2>1, <2>4 DEF Reconfigured
    <3> HIDE DEF next
    <3>2. /\ Maps(phase)' /\ Maps(config)' /\ Maps(policies)'
          /\ Maps(granted)' /\ Maps(loaded)'
      BY <2>a, <3>1 DEF ModeInv, Maps
    <3>3. ASSUME NEW e \in Daemons, e # d, phase'[e] # "off"
          PROVE  ModeOf(e)'
      <4>1. /\ phase'[e] = phase[e] /\ config'[e] = config[e] /\ policies'[e] = policies[e]
            /\ granted'[e] = granted[e] /\ loaded'[e] = loaded[e]
        BY <2>a, <3>1, <3>3 DEF ModeInv, Maps
      <4> QED
        BY <3>3, <4>1 DEF ModeInv, ModeOf
    <3>4. /\ config'[d] = next /\ policies'[d] = Resolved(Effective(next))
          /\ granted'[d] = Granted(granted[d], request)
          /\ loaded'[d] = IF request = Reload THEN file ELSE loaded[d]
      BY <3>1 DEF ModeInv, Maps
    <3>5. ModeOf(d)
      BY <2>2 DEF ModeInv
    <3> DEFINE f == IF request = Reload THEN file ELSE loaded[d]
               g == Granted(granted[d], request)
    <3>6. f \in Files
      BY <2>4, <3>5 DEF ModeInv, ModeOf
    <3>7. /\ g \in [Keys -> Switch]
          /\ next = [baseline |-> f, overrides |-> g]
      BY <3>5, AppliedFacts DEF ModeOf, next
    <3>8. Resolved(Effective(next)) = [k \in Keys |-> Or(g[k], Resolved(f)[k])]
      <4> HIDE DEF f, g
      <4> QED
        BY <3>6, <3>7, OverlayFacts
    <3>9. ModeOf(d)'
      <4> HIDE DEF f, g
      <4>1. config'[d] = next /\ granted'[d] = g /\ loaded'[d] = f
        BY <3>4 DEF f, g
      <4> QED
        BY <3>4, <3>6, <3>7, <3>8, <4>1 DEF ModeOf
    <3> QED
      BY <2>2, <3>2, <3>3, <3>9 DEF ModeInv
  <2> QED
    BY <2>3, <2>4
<1>5. CASE Accept(d) \/ Read(d) \/ Answered(d) \/ TimeOut(d)
  <2>1. UNCHANGED mode
    BY <1>5 DEF Accept, Becomes, Read, Answered, TimeOut
  <2>2. phase[d] # "off" /\ UNCHANGED file
    BY <1>5, ServeFacts DEF Serve, Serving
  <2> QED
    BY <1>0, <1>5, <2>1, <2>2, ServeFacts, ModeBecomes DEF Serve
<1> QED
  BY <1>2, <1>3, <1>4, <1>5 DEF Serve

\* Whatever is edited, requested, refused, loaded or restarted, a daemon in
\* service follows the requests it has granted, and otherwise the file that it
\* loaded last.
THEOREM ModeCorrect == Spec => []AnsweredInForce
<1>1. Init => ModeInv
  BY DEF Init, ModeInv, Maps
<1>2. ModeInv /\ [Next]_vars => ModeInv'
  BY ModeStep
<1>3. ModeInv => AnsweredInForce
  BY DEF ModeInv, ModeOf, AnsweredInForce, Serving
<1> QED
  BY <1>1, <1>2, <1>3, PTL DEF Spec
=============================================================================
