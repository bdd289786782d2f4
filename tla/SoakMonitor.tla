----------------------------- MODULE SoakMonitor -----------------------------
(***************************************************************************)
(* "loudnessd monitor" (monitor.rs) and what it samples: the status that   *)
(* the daemon reports (daemon/reporting.rs, daemon/process_metrics.rs)     *)
(* while streams are adopted and released and the daemon is restarted.     *)
(*                                                                         *)
(* A sample that fails changes nothing but a count and is left out, and so *)
(* are the extremes and averages of gain, loudness and memory.             *)
(***************************************************************************)
EXTENDS Integers, FiniteSetsExt

CONSTANTS
  Nodes,         \* ids of application streams
  Pids,          \* process ids, which the system uses again
  None,
  Lives,         \* bound: daemon processes one after the other
  Ticks,         \* bound: CPU ticks a process uses
  Publications   \* bound: measurements a filter publishes

\* ProcessSample: what the status says of the daemon's process.
Processes == [pid : Pids, start : Nat, ticks : Nat]
\* StreamControl: what the last update of a controller decided.
Decisions == {"silence", "hold", "adjust"}
\* A managed stream, with the sequence its filter has published last and the one its
\* controller has read last.
Streams ==
  [lifecycle : {"connecting", "active"}, healthy : BOOLEAN, published : Nat,
   read : Nat \cup {None}, decision : Decisions \cup {None}]

ASSUME NoneAssumption == None \notin Nat \cup Processes \cup Decisions \cup Streams
ASSUME BoundsAssumption == Lives \in Nat /\ Ticks \in Nat /\ Publications \in Nat

VARIABLES
  lives,      \* how many daemon processes there have been
  process,    \* the one that runs, or None
  managed,    \* its managed streams, with their filters and controllers, or None
  previous,   \* SoakAccumulator: previous_process,
  sequences,  \*   the sequence last reported of each node id,
  restarts,   \*   daemon_restarts,
  cpu,        \*   accumulated_cpu_ticks
  stalled,    \*   and the nodes that the last sample added to
              \*   stalled_callback_observations
  sampled,    \* history: the ticks first and last sampled of each process
  new,        \* history: nodes a controller of which has been moved since their
              \* sequence was last reported
  replaced,   \* history: nodes whose filter has gone since then
  heard       \* history: nodes the callback of which has been called since the last
              \* sample and has heard nothing but digital silence

daemon  == <<lives, process, managed>>
monitor == <<previous, sequences, restarts, cpu, stalled>>
history == <<sampled, new, replaced, heard>>
monitorVars == <<daemon, monitor, history>>

MonitorInit ==
  /\ lives = 0 /\ process = None
  /\ managed = [n \in Nodes |-> None]
  /\ previous = None
  /\ sequences = [n \in Nodes |-> None]
  /\ restarts = 0 /\ cpu = 0
  /\ stalled = {}
  /\ sampled = [k \in 1 .. Lives |-> {}]
  /\ new = {} /\ replaced = {} /\ heard = {}

-----------------------------------------------------------------------------
(* The daemon *)

\* A process gets an id that may have been its predecessor's, and a start time.
Start == \E pid \in Pids :
  /\ process = None /\ lives < Lives
  /\ lives' = lives + 1
  /\ process' = [pid |-> pid, start |-> lives + 1, ticks |-> 0]
  /\ UNCHANGED <<managed, monitor, history>>

\* It stops or crashes, and its filters go with it.
Stop ==
  /\ process # None
  /\ process' = None
  /\ managed' = [n \in Nodes |-> None]
  /\ replaced' = replaced \cup {n \in Nodes : managed[n] # None}
  /\ UNCHANGED <<lives, monitor, sampled, new, heard>>

Work ==
  /\ process # None /\ process.ticks < Ticks
  /\ process' = [process EXCEPT !.ticks = @ + 1]
  /\ UNCHANGED <<lives, managed, monitor, history>>

\* A stream gets a filter, a controller that has read nothing, and a route.
Adopt(n) ==
  /\ process # None /\ managed[n] = None
  /\ managed' = [managed EXCEPT ![n] =
       [lifecycle |-> "connecting", healthy |-> TRUE, published |-> 0,
        read |-> None, decision |-> None]]
  /\ UNCHANGED <<lives, process, monitor, history>>

Connect(n) ==
  /\ managed[n] # None /\ managed[n].lifecycle = "connecting"
  /\ managed' = [managed EXCEPT ![n].lifecycle = "active"]
  /\ UNCHANGED <<lives, process, monitor, history>>

\* Its route is released; filter and controller wait for the next one.
Release(n) ==
  /\ managed[n] # None /\ managed[n].lifecycle = "active"
  /\ managed' = [managed EXCEPT ![n].lifecycle = "connecting", ![n].healthy = TRUE]
  /\ UNCHANGED <<lives, process, monitor, history>>

\* It disappears or its route is bypassed, and its filter goes.
Detach(n) ==
  /\ managed[n] # None
  /\ managed' = [managed EXCEPT ![n] = None]
  /\ replaced' = replaced \cup {n}
  /\ UNCHANGED <<lives, process, monitor, sampled, new, heard>>

Active(n) == managed[n] # None /\ managed[n].lifecycle = "active"

\* Others break the route of a stream, or mend it.
Disturb(n) ==
  /\ Active(n)
  /\ managed' = [managed EXCEPT ![n].healthy = ~@]
  /\ UNCHANGED <<lives, process, monitor, history>>

\* The callback is called, and publishes a measurement.
PublishMeter(n) ==
  /\ Active(n) /\ managed[n].published < Publications
  /\ managed' = [managed EXCEPT ![n].published = @ + 1]
  /\ UNCHANGED <<lives, process, monitor, history>>

\* It is called while the source is digitally silent: there is no loudness, and nothing
\* is published.
HearSilence(n) ==
  /\ Active(n)
  /\ heard' = heard \cup {n}
  /\ UNCHANGED <<daemon, monitor, sampled, new, replaced>>

\* StreamControl::update remembers what it has read and decided.
Update(n) == \E decision \in Decisions :
  /\ Active(n)
  /\ managed[n].published # 0 /\ managed[n].read # managed[n].published
  /\ managed' = [managed EXCEPT ![n].read = managed[n].published, ![n].decision = decision]
  /\ new' = new \cup {n}
  /\ UNCHANGED <<lives, process, monitor, sampled, replaced, heard>>

-----------------------------------------------------------------------------
(* A sample *)

\* ControlStatus: an output that has not arrived at its target is converging.
Control(m) ==
  IF m.decision = None THEN {"waiting"}
  ELSE [silence |-> {"silence"}, hold |-> {"settled", "converging"},
        adjust |-> {"converging"}][m.decision]

Route(m) == IF m.lifecycle = "connecting" THEN "connecting"
            ELSE IF m.healthy THEN "healthy" ELSE "broken"

\* A stream of which observe expects a new sequence: active, on a healthy route, and not
\* silent by what its controller last decided.
Watched(m, control) ==
  /\ m.lifecycle = "active" /\ Route(m) = "healthy"
  /\ control \notin {"waiting", "silence", "bypass"}

\* Slip: a process is known by its id.
SameIncarnationByPid(p, q) == p.pid = q.pid

SameIncarnation(p, q) == p.pid = q.pid /\ p.start = q.start

\* observe: the daemon's process, if its metrics can be read.
ObserveProcess ==
  /\ previous' = process
  /\ IF previous = None THEN UNCHANGED <<restarts, cpu>>
     ELSE IF SameIncarnation(process, previous)
     THEN /\ cpu' = cpu + (IF process.ticks > previous.ticks
                           THEN process.ticks - previous.ticks ELSE 0)
          /\ UNCHANGED restarts
     ELSE restarts' = restarts + 1 /\ UNCHANGED cpu
  /\ sampled' = [sampled EXCEPT ![process.start] = @ \cup {process.ticks}]

Reported(n) == managed[n] # None /\ managed[n].read # None

\* Slip: the sequence of a stream is remembered while it is watched only.
RememberedWatched(n, control) ==
  IF Reported(n) /\ Watched(managed[n], control) THEN managed[n].read ELSE sequences[n]

\* The sequence of a stream is remembered whatever state it is in.
Remembered(n, control) == IF Reported(n) THEN managed[n].read ELSE sequences[n]

\* observe: a watched stream whose sequence has not changed counts as stalled.
Stalls(n, control) ==
  Reported(n) /\ sequences[n] = managed[n].read /\ Watched(managed[n], control)

Sample == \E metrics \in BOOLEAN,
             control \in [Nodes -> {"waiting", "silence", "settled", "converging"}] :
  /\ process # None
  /\ \A n \in Nodes :
       control[n] \in IF managed[n] = None THEN {"waiting"} ELSE Control(managed[n])
  /\ IF metrics THEN ObserveProcess ELSE UNCHANGED <<previous, restarts, cpu, sampled>>
  /\ sequences' = [n \in Nodes |-> Remembered(n, control[n])]
  /\ stalled' = {n \in Nodes : Stalls(n, control[n])}
  /\ new' = new \ {n \in Nodes : Reported(n)}
  /\ replaced' = replaced \ {n \in Nodes : Reported(n)}
  /\ heard' = {}
  /\ UNCHANGED daemon

MonitorNext ==
  \/ Start \/ Stop \/ Work
  \/ \E n \in Nodes : \/ Adopt(n) \/ Connect(n) \/ Release(n) \/ Detach(n)
                      \/ Disturb(n)
                      \/ PublishMeter(n) \/ HearSilence(n) \/ Update(n)
  \/ Sample

MonitorSpec == MonitorInit /\ [][MonitorNext]_monitorVars

-----------------------------------------------------------------------------
(* Properties *)

\* The ticks used by a process from its first sample to its last, and by the first k.
Used(k) == IF sampled[k] = {} THEN 0 ELSE Max(sampled[k]) - Min(sampled[k])
UsedBy[k \in 0 .. Lives] == IF k = 0 THEN 0 ELSE UsedBy[k - 1] + Used(k)

\* CPU accounting and the count of restarts remain "valid across a daemon
\* restart because status includes both the process ID and Linux process start
\* time" (docs/user/README.md:191): whichever processes the samples found, with
\* whatever ids, every one but the first is a restart, and each counts with the
\* ticks it used from its first sample to its last.
AccountingSurvivesRestarts ==
  LET found == {k \in 1 .. Lives : sampled[k] # {}}
  IN /\ restarts = IF found = {} THEN 0 ELSE Cardinality(found) - 1
     /\ cpu = UsedBy[Lives]

\* A stall is counted on every sample of a watched stream whose controller has read
\* nothing since the sample before, through silence and broken routes in between, and
\* on none if it has, unless the filter has been replaced by one that has published as
\* much.  It is counted whether the callback is not called, or is called and has nothing
\* to publish: see SilenceToldApart.
StallsTrue == [][Sample => \A n \in Nodes :
  /\ n \in stalled' => n \notin new \/ n \in replaced
  /\ Reported(n) /\ n \notin new /\ Watched(managed[n], managed[n].decision)
       => n \in stalled']_monitorVars


=============================================================================
