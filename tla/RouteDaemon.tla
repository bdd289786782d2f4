---------------------------- MODULE RouteDaemon ----------------------------
(***************************************************************************)
(* The routing side of the daemon: discovery, route installation, bypass   *)
(* and release, reconciliation, the recovery journal, runtime requests,    *)
(* shutdown, crash and restart (daemon/mod.rs, daemon/recovery.rs and      *)
(* pipewire/routing), together with the PipeWire graph that applications,  *)
(* devices and the session manager change under it.                        *)
(*                                                                         *)
(* The daemon is one thread.  It learns of graph changes only while it     *)
(* iterates the PipeWire main loop: at the top of a tick and inside the    *)
(* two-second waits of the route backend.  One action runs from one such   *)
(* wait to the next, or to the next request that the server may carry out  *)
(* piecemeal; the environment may act between any two actions, and so may  *)
(* a crash.                                                                *)
(*                                                                         *)
(* A link <<s, c, p>> joins the port of stream s for channel c to the      *)
(* matching port of the device p (a sink for playback, a source for        *)
(* capture: the code treats the two alike up to direction).                *)
(***************************************************************************)

CONSTANTS
  Streams,     \* node ids of application streams
  Channels,    \* channel labels, the same for every stream
  Peers,       \* sinks and sources
  None,        \* no stream
  Faults,      \* the failures that may happen, see FaultKinds
  Commands,    \* requests and signals the user may send, see CommandKinds
  Policies,    \* the sets of streams a configuration may normalize
  SplitMoves,  \* whether others link and unlink one channel at a time
  Others       \* what devices and other clients may do, see OtherKinds

(***************************************************************************)
(*   slow        a two-second wait ends before the server has answered     *)
(*   remove      a destroy request fails or is not carried out in time     *)
(*   activate    the filter does not start                                 *)
(*   deactivate  the filter does not stop                                  *)
(*   filter      a filter cannot be created                                *)
(*   journal     the journal file cannot be written or removed             *)
(*   load        the journal file cannot be read                           *)
(***************************************************************************)
FaultKinds == {"slow", "remove", "activate", "deactivate", "filter", "journal",
               "load"}

CommandKinds == {"enable", "disable", "reconfigure", "stop", "crash"}

(***************************************************************************)
(*   device      devices come and go                                       *)
(*   unlink      direct links are removed: a move is an unlink and a link  *)
(*   break       replacement links are removed                             *)
(* Applications always start, exit and get linked.                         *)
(***************************************************************************)
OtherKinds == {"device", "unlink", "break"}

ASSUME NoneAssumption == None \notin Streams
ASSUME FaultsAssumption == Faults \subseteq FaultKinds
ASSUME CommandsAssumption == Commands \subseteq CommandKinds
ASSUME PoliciesAssumption == Policies \subseteq SUBSET Streams /\ Policies # {}
ASSUME OthersAssumption == SplitMoves \in BOOLEAN /\ Others \subseteq OtherKinds

Links == Streams \X Channels \X Peers

VARIABLES
  (* the PipeWire graph *)
  present,     \* streams whose node and ports exist
  peers,       \* devices whose ports exist
  direct,      \* links joining a stream and a device without a filter
  chain,       \* <<s, c, p>>: both replacement links, stream-filter and
               \* filter-device, exist
  filtering,   \* streams whose filter is processing
  (* on disk *)
  journal,     \* the links recorded by the recovery journal
  (* the daemon *)
  pc,          \* where the thread is
  cause,       \* why routes are being bypassed
  cur,         \* the stream whose route is in transition
  todo,        \* streams the current pass has still to handle
  stale,       \* streams reconciliation has still to release
  managed,     \* "none", "connecting" or "active"
  plan,        \* the original links of the stream's route plan
  originals,   \* those of plan[cur] whose link object has not gone yet
  wanted,      \* direct links being restored
  made,        \* those of them this restoration created
  failed,      \* a bypass of the current batch has failed
  skipped,
  enabled,
  allowed,     \* streams the active configuration normalizes
  (* history *)
  before,      \* enabled, when the batch in progress began
  stuck,       \* streams whose filter refused to stop when last told to
  severed      \* links the daemon removed, whose ports both exist and whose
               \* stream port nobody has linked directly since

filters == <<filtering, stuck>>
graph == <<present, peers, direct, chain, filters>>
work  == <<cause, cur, todo, stale, failed>>
route == <<managed, plan, originals, wanted, made>>
mode  == <<skipped, enabled, allowed, before>>
vars  == <<graph, journal, pc, work, route, mode, severed>>

-----------------------------------------------------------------------------
(* Links and routes *)

Of(s) == {l \in Links : l[1] = s}
At(p) == {l \in Links : l[3] = p}
PortLinks(s, c) == {l \in direct : l[1] = s /\ l[2] = c}

\* The links of L whose two ports exist (GraphState::contains_port).
Live(L) == {l \in L : l[1] \in present /\ l[3] \in peers}

\* The links of L whose stream port has no link in D.
Unlinked(L, D) == {l \in L : \A d \in D : ~(d[1] = l[1] /\ d[2] = l[2])}

\* Every port of the stream has exactly one direct link.
Ready(s) == s \in present /\ \A c \in Channels : \E l \in Links : PortLinks(s, c) = {l}

\* Some port of the stream has several.
Excess(s) == \E c \in Channels : \E l, m \in PortLinks(s, c) : l # m

\* The original links a route for s would replace, one for each of its ports
\* if s is Ready: plan_route, with the filter's ports left out.
RoutePlan(s) == direct \cap Of(s)

Healthy(s) == plan[s] \subseteq chain
Superseded(s) == ~Healthy(s) /\ direct \cap Of(s) # {}
EndpointsGone(s) == ~Healthy(s) /\ ~Superseded(s) /\ Live(plan[s]) # plan[s]
\* Slip: a route whose endpoints are all there is never broken.
BrokenNever(s) == FALSE
Broken(s) == ~Healthy(s) /\ ~Superseded(s) /\ Live(plan[s]) = plan[s]

Active(m) == {s \in Streams : m[s] = "active"}
Connecting(m) == {s \in Streams : m[s] = "connecting"}

\* Slip: the filters that wait to be joined survive bypass_all.
TakenActiveOnly == managed
\* Slip: the map is rebuilt from the routes it still has.
TakenPartial == [s \in {t \in Streams : managed[t] = "active"} |-> "active"]

\* bypass_all takes every managed stream; a filter still waiting to be joined
\* is dropped.
Taken == [s \in Streams |-> IF managed[s] = "active" THEN "active" ELSE "none"]

\* Slip: the specs of the streams still connecting are recorded instead.
RecordedConnecting(m, q) == UNION {q[s] : s \in Connecting(m)}

\* Daemon::direct_specs(None) for the managed map m with plans q.
Recorded(m, q) == UNION {q[s] : s \in Active(m)}

\* Slip: the file is truncated in place, without a temporary and a rename.
JournalTruncated(L) ==
  journal' \in {L} \cup (IF "journal" \in Faults THEN {journal, {}} ELSE {})

\* RecoveryJournal::replace: the new contents, or the old ones on an error.
Journal(L) == journal' \in {L} \cup (IF "journal" \in Faults THEN {journal} ELSE {})

May(kind) == kind \in Faults

-----------------------------------------------------------------------------
TypeOK ==
  /\ present \subseteq Streams
  /\ peers \subseteq Peers
  /\ direct \subseteq Links
  /\ chain \subseteq Links
  /\ filtering \subseteq Streams
  /\ journal \subseteq Links
  /\ pc \in {"crashed", "stopped", "failed", "recover", "recreate", "idle",
             "reconcile", "discover", "connect", "stage", "cut", "rollback",
             "requests", "batch", "restore"}
  /\ cause \in {"reconcile", "disable", "reconfigure", "stop"}
  /\ cur \in Streams \cup {None}
  /\ todo \subseteq Streams
  /\ stale \subseteq Streams
  /\ managed \in [Streams -> {"none", "connecting", "active"}]
  /\ plan \in [Streams -> SUBSET Links]
  /\ originals \subseteq Links
  /\ wanted \subseteq Links
  /\ made \subseteq Links
  /\ failed \in BOOLEAN
  /\ skipped \subseteq Streams
  /\ enabled \in BOOLEAN
  /\ allowed \in Policies
  /\ before \in BOOLEAN
  /\ stuck \subseteq Streams
  /\ severed \subseteq Links

\* A daemon is about to start for the first time, in any graph.
Init ==
  /\ present \in SUBSET Streams
  /\ peers = Peers
  /\ direct = {}
  /\ chain = {}
  /\ filtering = {}
  /\ journal = {}
  /\ pc = "recover"
  /\ cause = "reconcile"
  /\ cur = None
  /\ todo = {}
  /\ stale = {}
  /\ managed = [s \in Streams |-> "none"]
  /\ plan = [s \in Streams |-> {}]
  /\ originals = {}
  /\ wanted = {}
  /\ made = {}
  /\ failed = FALSE
  /\ skipped = {}
  /\ enabled = TRUE
  /\ allowed \in Policies
  /\ before = TRUE
  /\ stuck = {}
  /\ severed = {}

-----------------------------------------------------------------------------
(* The environment: applications, devices, the session manager, the user *)

daemon == <<pc, work, managed, plan, wanted, mode, journal, filters>>

\* The links L go with a port they were attached to.
Vanish(L) ==
  /\ direct' = direct \ L
  /\ chain' = chain \ L
  /\ severed' = severed \ L
  /\ originals' = originals \ L
  /\ made' = made \ L

AppStart(s) ==
  /\ s \notin present
  /\ present' = present \cup {s}
  /\ UNCHANGED <<peers, direct, chain, originals, made, severed, daemon>>

AppExit(s) ==
  /\ s \in present
  /\ present' = present \ {s}
  /\ Vanish(Of(s))
  /\ UNCHANGED <<peers, daemon>>

DeviceLost(p) ==
  /\ "device" \in Others
  /\ p \in peers
  /\ peers' = peers \ {p}
  /\ Vanish(At(p))
  /\ UNCHANGED <<present, daemon>>

DeviceBack(p) ==
  /\ p \notin peers
  /\ peers' = peers \cup {p}
  /\ UNCHANGED <<present, direct, chain, originals, made, severed, daemon>>

\* What others link or unlink in one go.
Bundles ==
  IF SplitMoves THEN {{l} : l \in Links}
                ELSE {{<<s, c, p>> : c \in Channels} : s \in Streams, p \in Peers}

Linked(B) ==
  /\ Live(B) = B
  /\ ~(B \subseteq direct)
  /\ direct' = direct \cup B
  /\ severed' = Unlinked(severed, direct')
  /\ UNCHANGED <<present, peers, chain, originals, made, daemon>>

Unlink(B) ==
  /\ "unlink" \in Others
  /\ B \cap direct # {}
  /\ direct' = direct \ B
  /\ originals' = originals \ B
  /\ made' = made \ B
  /\ UNCHANGED <<present, peers, chain, severed, daemon>>

\* Another client removes replacement links.
ChainBroken(B) ==
  /\ "break" \in Others
  /\ B \cap chain # {}
  /\ chain' = chain \ B
  /\ UNCHANGED <<present, peers, direct, originals, made, severed, daemon>>

Environment ==
  \/ \E s \in Streams : AppStart(s) \/ AppExit(s)
  \/ \E p \in Peers : DeviceLost(p) \/ DeviceBack(p)
  \/ \E B \in Bundles : Linked(B) \/ Unlink(B) \/ ChainBroken(B)

-----------------------------------------------------------------------------
(* Steps the transitions share *)

\* Slip: the proxies of the replacement links are kept.
DestroyedLater(s) == UNCHANGED chain

\* The replacement links of a route are destroyed.
Destroyed(s) == chain' = chain \ plan[s]

\* Slip: the stream is tried again at once.
SkipNot(s) == UNCHANGED skipped

\* The stream is not tried again until it disappears or a request clears the
\* set.
Skip(s) == skipped' = skipped \cup {s}

\* Lingering links are requested for L; the server makes those whose ports
\* exist and that are not there yet.
Request(L) ==
  /\ wanted' = L
  /\ made' = Live(L) \ direct
  /\ direct' = direct \cup Live(L)
  /\ severed' = Unlinked(severed, direct')

\* Slip: the restored links do not linger and go with their proxies.
ConfirmedNotLingering ==
  /\ wanted \subseteq direct
  /\ wanted' = {}
  /\ made' = {}
  /\ direct' = direct \ made
  /\ severed' = Unlinked(severed \cup made, direct')

\* The wait for the requested links ends well, and their proxies are kept or
\* dropped: either way the links linger.
Confirmed ==
  /\ wanted \subseteq direct
  /\ wanted' = {}
  /\ made' = {}
  /\ UNCHANGED <<direct, severed>>

\* The wait ends badly and every link made for it is destroyed.
Unconfirmed ==
  /\ ~(wanted \subseteq direct) \/ May("slow")
  /\ wanted' = {}
  /\ made' = {}
  /\ direct' = direct \ made
  /\ severed' = Unlinked(severed \cup made, direct')

\* The filters of the streams S are destroyed.
FiltersGone(S) == filtering' = filtering \ S /\ stuck' = stuck \ S

\* Slip: the filter is not told to stop.
DeactivatedNot(s) == UNCHANGED filters

\* The filter is told to stop; an error leaves it running.
Deactivated(s) == filtering' = filtering \ {s} /\ stuck' = stuck \ {s}
NotDeactivated(s) ==
  /\ May("deactivate")
  /\ stuck' = stuck \cup {s}
  /\ UNCHANGED filtering

-----------------------------------------------------------------------------
(* Start-up: Daemon::recover_prior_routes *)

\* Slip: the journal is cleared without looking for missing links.
RecoverNothingMissing ==
  /\ pc = "recover"
  /\ Journal({})
  /\ pc' = "idle"
  /\ UNCHANGED <<graph, work, route, mode, severed>>

\* The journal is loaded and its endpoints waited for.
RecoverNothing ==
  /\ pc = "recover"
  /\ \/ journal = {} /\ UNCHANGED journal
     \/ May("load") /\ UNCHANGED journal
     \/ (Live(journal) # journal \/ May("slow")) /\ Journal({})
     \/ journal \subseteq direct /\ Journal({})
  /\ pc' = "idle"
  /\ UNCHANGED <<graph, work, route, mode, severed>>

RecoverRoutes ==
  /\ pc = "recover"
  /\ Live(journal) = journal
  /\ ~(journal \subseteq direct)
  /\ Request(journal \ direct)
  /\ pc' = "recreate"
  /\ UNCHANGED <<present, peers, chain, filters, journal, work,
                 managed, plan, originals, mode>>

Recovered ==
  /\ pc = "recreate"
  /\ \/ Confirmed /\ Journal({})
     \/ Unconfirmed /\ UNCHANGED journal
  /\ pc' = "idle"
  /\ UNCHANGED <<present, peers, chain, filters, work,
                 managed, plan, originals, mode>>

-----------------------------------------------------------------------------
(* One tick: Daemon::tick *)

\* remove_disappeared_streams, and the health survey that reconcile_routes
\* takes before it acts on any route.
Survey ==
  /\ pc = "idle"
  /\ managed' = [s \in Streams |-> IF s \in present THEN managed[s] ELSE "none"]
  /\ plan' = [s \in Streams |-> IF s \in present THEN plan[s] ELSE {}]
  /\ chain' = {l \in chain : l[1] \in present}
  /\ FiltersGone(Streams \ present)
  /\ skipped' = skipped \cap present
  /\ IF managed' # managed THEN Journal(Recorded(managed', plan'))
                           ELSE UNCHANGED journal
  /\ LET active == Active(managed')
     IN /\ stale' = {s \in active : Superseded(s) \/ EndpointsGone(s)}
        /\ todo' = {s \in active : Broken(s)}
  /\ cause' = "reconcile"
  /\ pc' = "reconcile"
  /\ UNCHANGED <<present, peers, direct, cur, failed, originals, wanted, made,
                 enabled, allowed, before, severed>>

\* transaction::release, and the stream waits to be connected again.
Release(s) ==
  /\ pc = "reconcile"
  /\ s \in stale
  /\ managed[s] = "active"
  /\ Deactivated(s) \/ NotDeactivated(s)
  /\ Destroyed(s)
  /\ managed' = [managed EXCEPT ![s] = "connecting"]
  /\ plan' = [plan EXCEPT ![s] = {}]
  /\ skipped' = skipped \ {s}
  /\ stale' = stale \ {s}
  /\ Journal(Recorded(managed', plan'))
  /\ UNCHANGED <<present, peers, direct, pc, cause, cur, todo, failed,
                 originals, wanted, made, enabled, allowed, before,
                 severed>>

\* transaction::bypass up to the wait for the direct links, for a broken
\* route or for the next route of a batch.
Restore(s) ==
  /\ pc \in {"reconcile", "batch"}
  /\ s \in todo
  /\ managed[s] = "active"
  /\ Request(plan[s])
  /\ cur' = s
  /\ todo' = todo \ {s}
  /\ skipped' = IF pc = "reconcile" THEN skipped \ {s} ELSE skipped
  /\ pc' = "restore"
  /\ UNCHANGED <<present, peers, chain, filters, journal, cause, stale,
                 failed, managed, plan, originals, enabled, allowed, before>>

\* The loop a bypass returns to: reconciliation rewrites the journal after
\* each route, a batch only at its end.
Return ==
  /\ cur' = None
  /\ IF cause = "reconcile"
       THEN pc' = "reconcile" /\ Journal(Recorded(managed', plan'))
       ELSE pc' = "batch" /\ UNCHANGED journal

\* The direct links are there, the filter stops, the replacements go.
Bypassed ==
  /\ pc = "restore"
  /\ Confirmed
  /\ Deactivated(cur)
  /\ Destroyed(cur)
  /\ managed' = [managed EXCEPT ![cur] = "none"]
  /\ plan' = [plan EXCEPT ![cur] = {}]
  /\ Return
  /\ UNCHANGED <<present, peers, cause, todo, stale, failed, originals, mode>>

\* Bypass fails and the route stays as it is.  Destroying the new direct links
\* after a failed deactivation drops proxies of lingering links, which stay.
BypassFailed ==
  /\ pc = "restore"
  /\ \/ Unconfirmed /\ UNCHANGED filters
     \/ Confirmed /\ NotDeactivated(cur)
  /\ failed' = (cause # "reconcile")
  /\ UNCHANGED <<managed, plan>>
  /\ Return
  /\ UNCHANGED <<present, peers, chain, cause, todo, stale, originals, mode>>

Reconciled ==
  /\ pc = "reconcile"
  /\ todo = {} /\ stale = {}
  /\ pc' = "discover"
  /\ UNCHANGED <<graph, journal, work, route, mode, severed>>

\* discover_streams: of the streams neither managed nor skipped, those whose
\* channels have settled get a filter; those the policy excludes, whose ports
\* have several routes or whose filter cannot be made are skipped.
Discover ==
  /\ pc = "discover"
  /\ \E adopted, refused \in SUBSET Streams :
       LET new == {s \in present \ skipped : enabled /\ managed[s] = "none"}
       IN /\ adopted \subseteq {s \in new \cap allowed : Ready(s)}
          /\ refused \subseteq {s \in new \ adopted :
               s \notin allowed \/ Excess(s) \/ (Ready(s) /\ May("filter"))}
          /\ managed' = [s \in Streams |->
                           IF s \in adopted THEN "connecting" ELSE managed[s]]
          /\ skipped' = skipped \cup refused
          /\ todo' = Connecting(managed')
  /\ pc' = "connect"
  /\ UNCHANGED <<graph, journal, cause, cur, stale, failed, plan, originals,
                 wanted, made, enabled, allowed, before, severed>>

\* The filter's node or ports are not announced yet, or the stream does not
\* have exactly one route per port.
Defer(s) ==
  /\ pc = "connect"
  /\ s \in todo
  /\ managed[s] = "connecting"
  /\ todo' = todo \ {s}
  /\ UNCHANGED <<graph, journal, pc, cause, cur, stale, failed, route, mode,
                 severed>>

\* plan_route reports NoStreamPorts.
Unroutable(s) ==
  /\ pc = "connect"
  /\ s \in todo
  /\ managed[s] = "connecting"
  /\ s \notin present
  /\ managed' = [managed EXCEPT ![s] = "none"]
  /\ FiltersGone({s})
  /\ Skip(s)
  /\ todo' = todo \ {s}
  /\ UNCHANGED <<present, peers, direct, chain, journal, pc, cause, cur, stale,
                 failed, plan, originals, wanted, made, enabled, allowed,
                 before, severed>>

\* A filter and its stream can be joined: the plan is journaled, then the
\* replacement links are requested.  If the journal cannot be written the
\* stream is skipped.
Stage(s) ==
  /\ pc = "connect"
  /\ s \in todo
  /\ managed[s] = "connecting"
  /\ Ready(s)
  /\ todo' = todo \ {s}
  /\ managed' = [managed EXCEPT ![s] = "none"]
  /\ \/ /\ journal' = Recorded(managed', plan) \cup RoutePlan(s)
        /\ plan' = [plan EXCEPT ![s] = RoutePlan(s)]
        /\ originals' = RoutePlan(s)
        /\ chain' = chain \cup RoutePlan(s)
        /\ cur' = s
        /\ pc' = "stage"
        /\ UNCHANGED <<filters, skipped>>
     \/ /\ May("journal")
        /\ FiltersGone({s})
        /\ Skip(s)
        /\ UNCHANGED <<journal, plan, originals, chain, cur, pc>>
  /\ UNCHANGED <<present, peers, direct, cause, stale, failed, wanted, made,
                 enabled, allowed, before, severed>>

\* The replacement links are confirmed; destroy requests for the originals
\* are about to be sent.
Staged ==
  /\ pc = "stage"
  /\ plan[cur] \subseteq chain
  /\ pc' = "cut"
  /\ UNCHANGED <<graph, journal, work, route, mode, severed>>

\* The server destroys one of the original links, by its id: a link that was
\* put in its place meanwhile is another object.
CutLink(l) ==
  /\ pc = "cut"
  /\ l \in originals
  /\ direct' = direct \ {l}
  /\ originals' = originals \ {l}
  /\ severed' = Unlinked(severed \cup {l}, direct')
  /\ UNCHANGED <<present, peers, chain, filters, journal, pc, work, managed,
                 plan, wanted, made, mode>>

\* The originals are gone and the filter starts: the route is active.
Installed ==
  /\ pc = "cut"
  /\ originals = {}
  /\ filtering' = filtering \cup {cur}
  /\ stuck' = stuck \ {cur}
  /\ managed' = [managed EXCEPT ![cur] = "active"]
  /\ cur' = None
  /\ pc' = "connect"
  /\ UNCHANGED <<present, peers, direct, chain, journal, cause, todo, stale,
                 failed, plan, originals, wanted, made, mode, severed>>

\* Slip: only a failed cutover is rolled back, a failed activation is not.
RollBackCutOnly ==
  /\ pc = "cut"
  /\ \/ May("remove") /\ Request(plan[cur] \ originals)
     \/ originals = {} /\ May("activate") /\ Request({})
  /\ originals' = {}
  /\ pc' = "rollback"
  /\ UNCHANGED <<present, peers, chain, filters, journal, work, managed,
                 plan, mode>>

\* Cutover or activation fails: the originals are requested again, only the
\* missing ones (restore_missing) or all (restore_originals).
RollBack ==
  /\ pc = "cut"
  /\ \/ May("remove") /\ Request(plan[cur] \ originals)
     \/ originals = {} /\ May("activate") /\ Request(plan[cur])
  /\ originals' = {}
  /\ pc' = "rollback"
  /\ UNCHANGED <<present, peers, chain, filters, journal, work, managed,
                 plan, mode>>

\* Whatever the rollback achieved, the replacements and the filter go, the
\* stream is skipped and its links leave the journal.
Abandon ==
  /\ Destroyed(cur)
  /\ FiltersGone({cur})
  /\ plan' = [plan EXCEPT ![cur] = {}]
  /\ originals' = {}
  /\ Skip(cur)
  /\ Journal(Recorded(managed, plan'))
  /\ cur' = None
  /\ pc' = "connect"
  /\ UNCHANGED <<present, peers, cause, todo, stale, failed, managed, enabled,
                 allowed, before>>

StageFailed ==
  /\ pc = "stage"
  /\ ~(plan[cur] \subseteq chain) \/ May("slow")
  /\ UNCHANGED <<direct, wanted, made, severed>>
  /\ Abandon

RolledBack ==
  /\ pc = "rollback"
  /\ Confirmed \/ Unconfirmed
  /\ Abandon

Connected ==
  /\ pc = "connect"
  /\ todo = {}
  /\ pc' = "requests"
  /\ UNCHANGED <<graph, journal, work, route, mode, severed>>

-----------------------------------------------------------------------------
(* Requests and signals: process_requests, handle_request, run *)

Enable ==
  /\ pc = "requests"
  /\ "enable" \in Commands
  /\ enabled' = TRUE
  /\ skipped' = {}
  /\ UNCHANGED <<graph, journal, pc, work, route, allowed, before, severed>>

\* bypass_all begins, for a request or for the shutdown signal.  Disable clears
\* enabled before it and sets it again if it fails.
Begin(why) ==
  /\ IF why = "stop" THEN pc = "idle" ELSE pc = "requests"
  /\ why \in Commands
  /\ todo' = Active(managed)
  /\ managed' = Taken
  /\ FiltersGone(Streams \ Active(managed))
  /\ enabled' = (enabled /\ why # "disable")
  /\ before' = enabled
  /\ failed' = FALSE
  /\ cause' = why
  /\ pc' = "batch"
  /\ UNCHANGED <<present, peers, direct, chain, journal, cur, stale, plan,
                 originals, wanted, made, skipped, allowed, severed>>

\* Slip: only the journal decides.
BatchResultOfJournal(ok) ==
  /\ pc = "batch"
  /\ todo = {}
  /\ IF ok THEN journal' = Recorded(managed, plan)
           ELSE May("journal") /\ UNCHANGED journal

\* The outcome of bypass_all: no route failed and the journal was rewritten.
BatchResult(ok) ==
  /\ pc = "batch"
  /\ todo = {}
  /\ IF ok THEN ~failed /\ journal' = Recorded(managed, plan)
           ELSE \/ failed /\ Journal(Recorded(managed, plan))
                \/ May("journal") /\ UNCHANGED journal

Disabled(ok) ==
  /\ cause = "disable"
  /\ BatchResult(ok)
  /\ enabled' = ~ok
  /\ before' = TRUE
  /\ pc' = "requests"
  /\ UNCHANGED <<graph, work, route, skipped, allowed, severed>>

Reconfigured(ok) ==
  /\ cause = "reconfigure"
  /\ BatchResult(ok)
  /\ IF ok THEN allowed' \in Policies /\ skipped' = {}
           ELSE UNCHANGED <<allowed, skipped>>
  /\ before' = TRUE
  /\ pc' = "requests"
  /\ UNCHANGED <<graph, work, route, enabled, severed>>

EndRequests ==
  /\ pc = "requests"
  /\ pc' = "idle"
  /\ UNCHANGED <<graph, journal, work, route, mode, severed>>

\* The process is gone: its filters, its replacement links and its memory.
Exit(where) ==
  /\ pc' = where
  /\ chain' = {}
  /\ FiltersGone(Streams)
  /\ managed' = [s \in Streams |-> "none"]
  /\ plan' = [s \in Streams |-> {}]
  /\ cause' = "reconcile" /\ cur' = None /\ todo' = {} /\ stale' = {}
  /\ originals' = {} /\ wanted' = {} /\ made' = {} /\ failed' = FALSE
  /\ skipped' = {}
  /\ enabled' = TRUE
  /\ before' = TRUE
  /\ UNCHANGED <<present, peers, direct, allowed, severed>>

Stopped(ok) ==
  /\ cause = "stop"
  /\ BatchResult(ok)
  /\ Exit(IF ok THEN "stopped" ELSE "failed")

Down == {"crashed", "stopped", "failed"}

Crash ==
  /\ pc \notin Down
  /\ "crash" \in Commands
  /\ Exit("crashed")
  /\ UNCHANGED journal

\* A new process reads its configuration and starts with recovery.
Start ==
  /\ pc \in Down
  /\ pc' = "recover"
  /\ allowed' \in Policies
  /\ UNCHANGED <<graph, journal, work, route, skipped, enabled, before, severed>>

-----------------------------------------------------------------------------
Tick ==
  \/ Survey
  \/ \E s \in Streams : Release(s) \/ Restore(s)
  \/ Bypassed \/ BypassFailed \/ Reconciled
  \/ Discover
  \/ \E s \in Streams : Defer(s) \/ Unroutable(s) \/ Stage(s)
  \/ Staged \/ StageFailed
  \/ \E l \in Links : CutLink(l)
  \/ Installed \/ RollBack \/ RolledBack
  \/ Connected

Finish == \E ok \in BOOLEAN : Disabled(ok) \/ Reconfigured(ok) \/ Stopped(ok)

Recover == RecoverNothing \/ RecoverRoutes \/ Recovered

\* What the daemon does without being asked, once started.
Step == Recover \/ Tick \/ Finish \/ EndRequests

Next ==
  \/ Environment
  \/ Step
  \/ Enable
  \/ \E why \in {"disable", "reconfigure", "stop"} : Begin(why)
  \/ Crash
  \/ Start

Spec == Init /\ [][Next]_vars

(***************************************************************************)
(* Fairness.  The daemon's thread is never blocked for ever: its waits for *)
(* the server have deadlines, and its clients are considerate              *)
(* (ControlSocket says what that means).  The service manager              *)
(* restarts a process that crashed or failed (Restart=on-failure), not one *)
(* that stopped.  A stream that stays ready is adopted once it has been    *)
(* ready for the settling time, and joined once its filter's ports have    *)
(* been announced: neither is enabled throughout, as the thread passes     *)
(* through the other phases of its tick.                                   *)
(***************************************************************************)
Restart == pc # "stopped" /\ Start

Fairness ==
  /\ WF_vars(Step)
  /\ WF_vars(Restart)
  /\ \A s \in Streams : /\ SF_vars(Discover /\ managed[s] # managed'[s])
                        /\ SF_vars(Stage(s))

FairSpec == Spec /\ Fairness

=============================================================================
