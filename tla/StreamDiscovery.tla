-------------------------- MODULE StreamDiscovery --------------------------
(***************************************************************************)
(* Discovery of application streams (daemon/discovery.rs, and the tick of  *)
(* daemon/mod.rs up to the installation of a route): what the daemon makes *)
(* of a stream whose ports, links and application identity arrive one by   *)
(* one, change later, or go to another stream with the same node id.       *)
(*                                                                         *)
(* The graph is the mirror the daemon reads.  It changes only while the    *)
(* main loop is iterated: before a tick, and in the waits of route         *)
(* transitions between the phases of one.  RouteDaemon has the transitions *)
(* themselves; here they succeed or fail.  Time is counted in units of     *)
(* which Settle make TOPOLOGY_SETTLE_INTERVAL and SkipAfter make           *)
(* TOPOLOGY_SKIP_INTERVAL; a tick may come at any time.                    *)
(***************************************************************************)
EXTENDS Integers, FiniteSets

CONSTANTS
  Ids,        \* node ids, used again when a stream has gone
  Apps,       \* applications
  Anonymous,  \* the identity of a stream whose metadata do not name it (yet)
  Ports,      \* 1 .. n: a stream's ports, in the order the mirror's map has them
  Layouts,    \* functions from ports to labels: what a stream's ports may be
  NoLabel,    \* the label of a port without audio.channel
  None,
  Announce,   \* the longest time from a stream's node to its last port and its info
  Settle,
  SkipAfter,
  Policies,   \* sets of identities that a configuration normalizes
  Journaled   \* whether every write of the recovery journal succeeds

ASSUME PortsAssumption == Ports \subseteq Nat /\ IsFiniteSet(Ports)
ASSUME LayoutsAssumption == \A l \in Layouts : DOMAIN l \in (SUBSET Ports) \ {{}}
ASSUME TimesAssumption ==
  /\ Announce \in Nat /\ Settle \in Nat /\ SkipAfter \in Nat
  /\ Announce < Settle /\ Settle < SkipAfter
ASSUME PoliciesAssumption ==
  Policies # {} /\ Policies \subseteq SUBSET (Apps \cup {Anonymous})
ASSUME JournaledAssumption == Journaled \in BOOLEAN
ASSUME NoneAssumption == None \notin Apps \cup {Anonymous, "policy", "topology", "failed"}

VARIABLES
  (* the mirror *)
  identity,   \* the application the mirror's properties name, Anonymous while
              \* they name none, None without a stream
  informed,   \* ids whose node info has arrived
  layout,     \* the ports the stream has
  ports,      \* those of them the mirror has
  links,      \* links at each port
  young,      \* time since the stream appeared or changed, up to Announce
  (* the daemon *)
  pc,         \* the phase of the tick: "wait", "discover", "connect"
  managed,    \* None, or the filter's channels, its state and its route's health
  skipped,    \* None, or why the stream is left alone: "policy", "topology", or
              \* "failed"
  candidates, \* None, or what the settler last saw and for how long
  enabled,
  policy,     \* the identities the active configuration normalizes
  (* history *)
  vacant,     \* ids a tick has found without a stream since they had one
  changed,    \* what of the stream, see Everything, has changed since the daemon
              \* formed what it remembers of the id
  steady      \* the layout discovery has found at every tick, and for how long

mirror  == <<identity, informed, layout, ports, links, young>>
mode    == <<enabled, policy>>
history == <<vacant, changed, steady>>
memory  == <<managed, skipped, candidates>>
vars    == <<mirror, pc, memory, mode, history>>

Present(n) == identity[n] # None
NoLinks == [p \in Ports |-> 0]
NoLayout == [channels |-> {}, age |-> 0]

\* What may change of a stream: all of it when its id goes to another.
Everything == {"owner", "ports", "identity"}

-----------------------------------------------------------------------------
(* What the mirror says of a stream *)

Labels(n, P) == {layout[n][p] : p \in P}

Pending == [kind |-> "pending"]
Fine == [kind |-> "fine"]
ReadyWith(C) == [kind |-> "ready", channels |-> C]
SkippedFor(why) == [kind |-> "skipped", reason |-> why]

\* What channel_readiness finds wrong with a port after the ports P.
Problem(n, p, P) ==
  CASE layout[n][p] = NoLabel         -> SkippedFor(<<"label", p>>)
    [] layout[n][p] \in Labels(n, P)  -> SkippedFor(<<"duplicate", p>>)
    [] links[n][p] = 0                -> Pending
    [] links[n][p] > 1                -> SkippedFor(<<"routes", p>>)
    [] OTHER                          -> Fine

Earlier(n, p) == {q \in ports[n] : q < p}

\* The ports channel_readiness would return at.
Troubled(n) == {p \in ports[n] : Problem(n, p, Earlier(n, p)) # Fine}

Readiness(n) ==
  IF ports[n] = {} THEN Pending
  ELSE IF Cardinality(ports[n]) > 2
       THEN SkippedFor(<<"channels", Cardinality(ports[n])>>)
  ELSE IF Troubled(n) = {} THEN ReadyWith(Labels(n, ports[n]))
  ELSE LET p == CHOOSE q \in Troubled(n) : \A r \in Troubled(n) : q <= r
       IN Problem(n, p, Earlier(n, p))

SettleFor(r) == IF r.kind = "skipped" THEN SkipAfter ELSE Settle

\* The settler has seen r, and nothing else, since it inserted the candidate.
Same(n, r) == candidates[n] # None /\ candidates[n].readiness = r

\* ChannelSettler::observe hands r on.
Settled(n, r) == r # Pending /\ Same(n, r) /\ candidates[n].age >= SettleFor(r)

\* Slip: each observation starts the candidate anew.
ObservedAnew(n, r) ==
  IF r = Pending \/ Settled(n, r) THEN None ELSE [readiness |-> r, age |-> 0]

\* The candidate ChannelSettler::observe leaves.
Observed(n, r) ==
  IF r = Pending \/ Settled(n, r) THEN None
  ELSE IF Same(n, r) THEN candidates[n]
  ELSE [readiness |-> r, age |-> 0]

-----------------------------------------------------------------------------
Init ==
  /\ identity = [n \in Ids |-> None]
  /\ informed = [n \in Ids |-> FALSE]
  /\ layout \in [Ids -> Layouts]
  /\ ports = [n \in Ids |-> {}]
  /\ links = [n \in Ids |-> NoLinks]
  /\ young = [n \in Ids |-> Announce]
  /\ pc = "wait"
  /\ managed = [n \in Ids |-> None]
  /\ skipped = [n \in Ids |-> None]
  /\ candidates = [n \in Ids |-> None]
  /\ enabled = TRUE
  /\ policy \in Policies
  /\ vacant = [n \in Ids |-> TRUE]
  /\ changed = [n \in Ids |-> {}]
  /\ steady = [n \in Ids |-> NoLayout]

-----------------------------------------------------------------------------
(* The graph, as its changes reach the mirror *)

IsActive(n) == managed[n] # None /\ managed[n].state = "active"

\* An active route of the stream is no longer what was installed.
Disturbed(n, health) ==
  managed' = IF IsActive(n) THEN [managed EXCEPT ![n].health = health] ELSE managed

\* A stream's node is announced, with the application's id or without.
Appear(n, a, l) ==
  /\ ~Present(n)
  /\ identity' = [identity EXCEPT ![n] = a]
  /\ layout' = [layout EXCEPT ![n] = l]
  /\ young' = [young EXCEPT ![n] = 0]
  /\ vacant' = [vacant EXCEPT ![n] = FALSE]
  /\ changed' = [changed EXCEPT ![n] = IF vacant[n] THEN {} ELSE Everything]
  /\ UNCHANGED <<informed, ports, links, pc, memory, mode, steady>>

\* GraphState::insert of a port.
PortAnnounced(n) ==
  /\ Present(n)
  /\ \E p \in DOMAIN layout[n] \ ports[n] : ports' = [ports EXCEPT ![n] = @ \cup {p}]
  /\ UNCHANGED <<identity, informed, layout, links, young, pc, memory, mode, history>>

\* GraphState::update_stream_properties, the first time: an info that does not
\* name the application leaves the identity as it was.
Info(n) ==
  /\ Present(n) /\ ~informed[n]
  /\ informed' = [informed EXCEPT ![n] = TRUE]
  /\ \E a \in Apps \cup {identity[n]} : identity' = [identity EXCEPT ![n] = a]
  /\ UNCHANGED <<layout, ports, links, young, pc, memory, mode, history>>

\* The same for a later info, which may name the application for the first time
\* or name another.  The daemon does not look again at a stream it has decided on.
Rename(n, a) ==
  /\ Present(n) /\ informed[n] /\ a # identity[n]
  /\ identity' = [identity EXCEPT ![n] = a]
  /\ changed' = IF managed[n] = None /\ skipped[n] = None THEN changed
                ELSE [changed EXCEPT ![n] = @ \cup {"identity"}]
  /\ UNCHANGED <<informed, layout, ports, links, young, pc, memory, mode, vacant, steady>>

\* GraphState::remove_id of a stream: its ports and links go with it.
Disappear(n) ==
  /\ Present(n)
  /\ identity' = [identity EXCEPT ![n] = None]
  /\ informed' = [informed EXCEPT ![n] = FALSE]
  /\ ports' = [ports EXCEPT ![n] = {}]
  /\ links' = [links EXCEPT ![n] = NoLinks]
  /\ young' = [young EXCEPT ![n] = Announce]
  /\ Disturbed(n, "moved")
  /\ UNCHANGED <<layout, pc, skipped, candidates, mode, history>>

\* The stream replaces its ports, as when a player goes on to the next track.
Reshape(n, l) ==
  /\ Present(n) /\ ports[n] = DOMAIN layout[n] /\ informed[n] /\ l # layout[n]
  /\ layout' = [layout EXCEPT ![n] = l]
  /\ ports' = [ports EXCEPT ![n] = {}]
  /\ links' = [links EXCEPT ![n] = NoLinks]
  /\ young' = [young EXCEPT ![n] = 0]
  /\ changed' = [changed EXCEPT ![n] = @ \cup {"ports"}]
  /\ Disturbed(n, "moved")
  /\ UNCHANGED <<identity, informed, pc, skipped, candidates, mode, vacant, steady>>

\* The session manager links or unlinks a stream that has no route.
Relink(n, p, count) ==
  /\ p \in ports[n] /\ ~IsActive(n)
  /\ count \in {links[n][p] - 1, links[n][p] + 1} \cap 0 .. 2
  /\ links' = [links EXCEPT ![n][p] = count]
  /\ UNCHANGED <<identity, informed, layout, ports, young, pc, memory, mode, history>>

\* It moves a stream that has one, or breaks the route.
Disturb(n, health) ==
  /\ Present(n) /\ IsActive(n) /\ managed[n].health = "healthy"
  /\ health \in {"moved", "broken"}
  /\ Disturbed(n, health)
  /\ UNCHANGED <<mirror, pc, skipped, candidates, mode, history>>

\* The node and the ports of a filter have been announced.
FilterAnnounced(n) ==
  /\ managed[n] # None /\ ~managed[n].joinable
  /\ managed' = [managed EXCEPT ![n].joinable = TRUE]
  /\ UNCHANGED <<mirror, pc, skipped, candidates, mode, history>>

\* Time passes, but not beyond the announcement of a stream.
Announced(n) == ports[n] = DOMAIN layout[n] /\ informed[n]

Older(c) ==
  IF c = None THEN None
  ELSE IF c.age = SettleFor(c.readiness) THEN c ELSE [c EXCEPT !.age = @ + 1]

Pass ==
  /\ \A n \in Ids : Present(n) /\ young[n] = Announce => Announced(n)
  /\ young' = [n \in Ids |-> IF young[n] < Announce THEN young[n] + 1 ELSE young[n]]
  /\ candidates' = [n \in Ids |-> Older(candidates[n])]
  /\ steady' = [n \in Ids |->
       IF steady[n] # NoLayout /\ steady[n].age < Settle THEN [steady[n] EXCEPT !.age = @ + 1] ELSE steady[n]]
  /\ UNCHANGED <<identity, informed, layout, ports, links, pc, managed, skipped, mode,
                 vacant, changed>>

-----------------------------------------------------------------------------
(* The tick *)

Kept(f, n) == IF Present(n) THEN f[n] ELSE None

\* Slip: the settler is not told which streams have disappeared.
RetainedAll == candidates

\* ChannelSettler::retain.
Retained == [n \in Ids |-> Kept(candidates, n)]

\* The history of a step of the daemon: an id it remembers nothing of, or
\* looks at anew, has not changed since.
Forgetting ==
  changed' = [n \in Ids |->
    IF /\ managed'[n] = None /\ skipped'[n] = None
       /\ candidates'[n] = None \/ candidates'[n] # candidates[n]
    THEN {} ELSE changed[n]]

\* An active route whose health is bad is released, which leaves stream and
\* filter to a new route, or bypassed, which may fail.
Reconciled(n, failing) ==
  IF ~IsActive(n) \/ managed[n].health = "healthy" THEN managed[n]
  ELSE IF managed[n].health = "moved"
       THEN [managed[n] EXCEPT !.state = "connecting", !.health = "healthy"]
  ELSE IF n \in failing THEN managed[n] ELSE None

\* The links of a stream whose managed entry becomes m: one for each port
\* after a bypass, those the session manager has made (left) after a release.
LinksAfter(n, m, left) ==
  IF ~IsActive(n) \/ m = managed[n] THEN links[n]
  ELSE [p \in Ports |-> IF p \notin ports[n] THEN 0 ELSE IF m = None THEN 1 ELSE left[p]]

\* remove_disappeared_streams and reconcile_routes.
Survey ==
  /\ pc = "wait" /\ pc' = "discover"
  /\ \E failing \in SUBSET Ids, left \in [Ids -> [Ports -> 0 .. 1]] :
       /\ managed' = [n \in Ids |-> IF Present(n) THEN Reconciled(n, failing) ELSE None]
       /\ links' = [n \in Ids |->
            IF Present(n) THEN LinksAfter(n, managed'[n], left[n]) ELSE NoLinks]
  /\ skipped' = [n \in Ids |-> Kept(skipped, n)]
  /\ candidates' = Retained
  /\ vacant' = [n \in Ids |-> vacant[n] \/ ~Present(n)]
  /\ Forgetting
  /\ UNCHANGED <<identity, informed, layout, ports, young, mode, steady>>

Considered(n) == Present(n) /\ managed[n] = None /\ skipped[n] = None

Off(n) == identity[n] \notin policy

\* Discovery creates a filter for the stream.
Adopts(n) ==
  /\ Considered(n) /\ ~Off(n)
  /\ Settled(n, Readiness(n)) /\ Readiness(n).kind = "ready"

\* Slip: a stream the policy leaves alone is skipped before its node info.
SkipReasonEarly(n, failing) ==
  IF ~Considered(n) THEN skipped[n]
  ELSE IF Off(n) THEN "policy"
  ELSE IF Adopts(n) THEN (IF n \in failing THEN "failed" ELSE None)
  ELSE IF Settled(n, Readiness(n)) THEN "topology" ELSE None

SkipReason(n, failing) ==
  IF ~Considered(n) THEN skipped[n]
  ELSE IF Off(n) THEN (IF informed[n] THEN "policy" ELSE None)
  ELSE IF Adopts(n) THEN (IF n \in failing THEN "failed" ELSE None)
  ELSE IF Settled(n, Readiness(n)) THEN "topology" ELSE None

\* create_filter, inactive and not yet announced.
FilterFor(channels) ==
  [channels |-> channels, state |-> "connecting", health |-> "healthy", joinable |-> FALSE]

\* The layout found at this tick, for the history.
Found(n) ==
  IF Present(n) /\ managed[n] = None /\ Readiness(n).kind = "ready"
  THEN IF steady[n].channels = Readiness(n).channels THEN steady[n]
       ELSE [channels |-> Readiness(n).channels, age |-> 0]
  ELSE NoLayout

\* discover_streams: no stream's fate depends on another's.
Discover ==
  /\ pc = "discover" /\ pc' = "connect"
  /\ IF enabled
     THEN \E failing \in SUBSET Ids :
       /\ candidates' = [n \in Ids |->
            IF Considered(n) /\ ~Off(n) THEN Observed(n, Readiness(n)) ELSE candidates[n]]
       /\ managed' = [n \in Ids |->
            IF Adopts(n) /\ n \notin failing THEN FilterFor(Readiness(n).channels)
            ELSE managed[n]]
       /\ skipped' = [n \in Ids |-> SkipReason(n, failing)]
     ELSE UNCHANGED memory
  /\ steady' = [n \in Ids |-> Found(n)]
  /\ Forgetting
  /\ UNCHANGED <<mirror, mode, vacant>>

\* What plan_route finds wrong with a port after the ports P.
PlanProblem(n, p, P) ==
  CASE layout[n][p] = NoLabel                    -> "skip"
    [] layout[n][p] \in Labels(n, P)             -> "skip"
    [] links[n][p] # 1                           -> "wait"
    [] ~managed[n].joinable                      -> "wait"
    [] layout[n][p] \notin managed[n].channels   -> "wait"
    [] OTHER                                     -> "go"

\* The sets of ports plan_route may have passed when it comes to port p: it
\* takes them in the order of their ids.
Passed(n, p) ==
  {P \in SUBSET (ports[n] \ {p}) : \A q \in P : PlanProblem(n, q, P \ {q}) = "go"}

\* What connect_pending_filters may make of a stream whose filter waits.
PlanOutcomes(n) ==
  LET problems == UNION {{PlanProblem(n, p, P) : P \in Passed(n, p)} : p \in ports[n]} \ {"go"}
  IN (IF managed[n].joinable THEN {} ELSE {"wait"})
       \cup (IF ports[n] = {} THEN {"skip"} ELSE IF problems = {} THEN {"go"} ELSE problems)

Pends(n) == managed[n] # None /\ managed[n].state = "connecting"

\* The entry of a stream whose filter was waiting.
ConnectedAs(n, outcome, failing) ==
  IF outcome = "wait" THEN managed[n]
  ELSE IF outcome = "go" /\ n \notin failing THEN [managed[n] EXCEPT !.state = "active"]
  ELSE None

\* connect_pending_filters: a journal that cannot be written and an
\* installation that fails end in a skip.
Connect ==
  /\ pc = "connect" /\ pc' = "wait"
  /\ \E outcome \in [Ids -> {"wait", "skip", "go"}], failing \in SUBSET Ids :
       /\ \A n \in Ids : Pends(n) => outcome[n] \in PlanOutcomes(n)
       /\ managed' = [n \in Ids |->
            IF Pends(n) THEN ConnectedAs(n, outcome[n], failing) ELSE managed[n]]
       /\ skipped' = [n \in Ids |->
            IF ~Pends(n) \/ outcome[n] = "wait" THEN skipped[n]
            ELSE IF outcome[n] = "skip" \/ n \in failing THEN "failed" ELSE skipped[n]]
  /\ UNCHANGED candidates
  /\ Forgetting
  /\ UNCHANGED <<mirror, mode, vacant, steady>>

-----------------------------------------------------------------------------
(* Requests, between two ticks *)

\* bypass_all: routes that cannot be bypassed stay.
BypassAll(failing) ==
  /\ managed' = [n \in Ids |-> IF IsActive(n) /\ n \in failing THEN managed[n] ELSE None]
  /\ links' = [n \in Ids |-> LinksAfter(n, managed'[n], NoLinks)]

Cleared == [n \in Ids |-> None]

\* What bypass_all may return: TRUE if no route is left and the journal could
\* be written.
Bypassed == (IF managed' = Cleared THEN {TRUE} ELSE {FALSE})
              \cup (IF Journaled THEN {} ELSE {FALSE})

\* Slip: enabling leaves the settler as it was.
EnableKeepsSettler ==
  /\ pc = "wait"
  /\ enabled' = TRUE
  /\ skipped' = Cleared
  /\ UNCHANGED candidates
  /\ UNCHANGED managed
  /\ Forgetting
  /\ UNCHANGED <<mirror, pc, policy, vacant, steady>>

Enable ==
  /\ pc = "wait"
  /\ enabled' = TRUE
  /\ skipped' = Cleared
  /\ candidates' = Cleared
  /\ UNCHANGED managed
  /\ Forgetting
  /\ UNCHANGED <<mirror, pc, policy, vacant, steady>>

\* If it fails normalization is on afterwards, whatever it was before.
Disable ==
  /\ pc = "wait"
  /\ \E failing \in SUBSET Ids :
       /\ BypassAll(failing)
       /\ \E ok \in Bypassed : enabled' = ~ok
  /\ UNCHANGED <<skipped, candidates>>
  /\ Forgetting
  /\ UNCHANGED <<identity, informed, layout, ports, young, pc, policy, vacant, steady>>

\* reconfigure: set, reset and reload.
Reconfigure(next) ==
  /\ pc = "wait"
  /\ \E failing \in SUBSET Ids :
       /\ BypassAll(failing)
       /\ \/ /\ FALSE \in Bypassed
             /\ UNCHANGED <<policy, skipped, candidates>>
          \/ /\ TRUE \in Bypassed
             /\ policy' = next
             /\ skipped' = Cleared
             /\ candidates' = Cleared
  /\ Forgetting
  /\ UNCHANGED <<identity, informed, layout, ports, young, pc, enabled, vacant, steady>>

-----------------------------------------------------------------------------
Announcement == \E n \in Ids : PortAnnounced(n) \/ Info(n) \/ FilterAnnounced(n)

Tick == Survey \/ Discover \/ Connect

Environment ==
  \E n \in Ids :
    \/ \E a \in Apps \cup {Anonymous}, l \in Layouts : Appear(n, a, l)
    \/ \E a \in Apps : Rename(n, a)
    \/ Disappear(n)
    \/ \E l \in Layouts : Reshape(n, l)
    \/ \E p \in Ports, count \in 0 .. 2 : Relink(n, p, count)
    \/ \E health \in {"moved", "broken"} : Disturb(n, health)

Requests == Enable \/ Disable \/ \E next \in Policies : Reconfigure(next)

Next == Announcement \/ Pass \/ Tick \/ Environment \/ Requests

Spec == Init /\ [][Next]_vars

\* The main loop goes on ticking, for as long as clients of the control socket are
\* considerate (ControlSocket), time passes, and what exists is announced.
Fairness ==
  /\ WF_vars(Survey) /\ WF_vars(Discover) /\ WF_vars(Connect) /\ WF_vars(Pass)
  /\ \A n \in Ids :
       WF_vars(PortAnnounced(n)) /\ WF_vars(Info(n)) /\ WF_vars(FilterAnnounced(n))

FairSpec == Spec /\ Fairness

-----------------------------------------------------------------------------
(* Properties *)

\* "This prevents a partially announced stereo or multichannel stream from
\* being routed as if it were complete mono" (docs/dev/README.md:127): the
\* filter of a stream has the channels of the complete stream, unless the id
\* went to another stream, or the stream replaced its ports, behind what the
\* daemon remembers: then the old candidate or filter is used for the new one.
CompleteWhenAdopted ==
  \A n \in Ids : Present(n) /\ managed[n] # None /\ "ports" \notin changed[n] =>
    managed[n].channels = Labels(n, DOMAIN layout[n])

\* "Discovery requires the same complete channel layout to remain stable for
\* 500 ms before creating a filter": it is what every tick of that time has
\* found, those of a disabled daemon included, whatever requests came between.
\* Ids that go to another stream are excepted: one that comes and goes in the
\* middle of a tick is seen by discovery, not by the settler.  The journal has
\* to be writable: a disable that fails for it on a daemon already disabled
\* switches discovery on with the settler as it was.
SettledWhenAdopted ==
  [][ \A n \in Ids : managed[n] = None /\ managed'[n] # None /\ "owner" \notin changed[n] =>
        /\ steady[n].channels = managed'[n].channels
        /\ steady[n].age >= Settle ]_vars

\* The policy applied to a stream is that of the identity it has, and not the
\* one it had before its node info arrived: no filter for an application that is
\* not to be normalized, and no skip for one that is, whatever requests and
\* names came in between.  Excepted are an id that went to another stream
\* between two ticks, and a stream that a later info renames once it has been
\* managed or skipped: the daemon keeps to its decision until a request makes it
\* look again (mod.rs:315).
PolicyRespected ==
  \A n \in Ids : Present(n) /\ "identity" \notin changed[n] =>
    /\ managed[n] # None => identity[n] \in policy
    /\ skipped[n] = "policy" => identity[n] \notin policy

\* From some time on only what exists is announced, and nobody else acts.
Quiet == <>[][Announcement \/ Pass \/ Tick]_vars

\* A stream that has nothing left to wait for: unmanaged with a settled layout,
\* or with a filter that fits its ports, each linked once.
Decidable(n) ==
  /\ enabled /\ Present(n)
  /\ IF managed[n] = None THEN Readiness(n) # Pending
     ELSE /\ \A p \in ports[n] : links[n][p] = 1
          /\ Labels(n, ports[n]) \subseteq managed[n].channels

\* Every such stream is normalized or skipped in the end.  One whose ports no
\* longer fit its filter, or are linked twice, stays connecting.
EveryStreamDecided ==
  Quiet => \A n \in Ids : <>[](Decidable(n) => IsActive(n) \/ skipped[n] # None)

=============================================================================
