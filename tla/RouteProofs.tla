---------------------------- MODULE RouteProofs ----------------------------
(***************************************************************************)
(* Proofs about RouteDaemon for every set of streams, channels and         *)
(* devices, every policy, every combination of failures and everything     *)
(* other clients may do: the journal and the links, policy and filters,    *)
(* and what is given back.                                                 *)
(***************************************************************************)
EXTENDS RouteProperties, TLAPS

USE NoneAssumption, PoliciesAssumption

(***************************************************************************)
(* The inductive invariant.  JournalCoversRoutes and ReplacementsOwned     *)
(* speak of the active routes and the one being installed; to carry them   *)
(* through a step one must also know that the route in transition is in    *)
(* nobody else's hands, that a plan has links of its own stream only, and  *)
(* that a starting daemon holds nothing.                                   *)
(***************************************************************************)

Installing == pc \in {"stage", "cut", "rollback"}

\* The stream being installed has left the managed map, its plan is on disk.
InstallingInv ==
  Installing => /\ cur \in Streams
                /\ managed[cur] = "none"
                /\ plan[cur] \subseteq journal
                /\ originals \subseteq plan[cur]

ActiveInv == \A s \in Streams : managed[s] = "active" => plan[s] \subseteq journal

PlanInv == \A s \in Streams : \A l \in plan[s] : l[1] = s

StartInv ==
  pc \in Down \cup {"recover", "recreate"} => \A s \in Streams : managed[s] = "none"

\* The route being bypassed is that of a stream.
RestoringInv == pc = "restore" => cur \in Streams

\* Each replacement link has a route: of its stream, active or being installed.
ChainInv ==
  \A l \in chain : \E s \in Streams :
    /\ l \in plan[s]
    /\ managed[s] = "active" \/ (Installing /\ s = cur)

RouteInv ==
  /\ TypeOK
  /\ InstallingInv
  /\ ActiveInv
  /\ PlanInv
  /\ StartInv
  /\ RestoringInv
  /\ ChainInv

-----------------------------------------------------------------------------
\* What others link or unlink in one go are links.
LEMMA BundlesAreLinks == ASSUME NEW B \in Bundles PROVE B \subseteq Links
<1>1. CASE SplitMoves
  BY <1>1 DEF Bundles
<1>2. CASE ~SplitMoves
  <2>1. PICK s \in Streams, p \in Peers : B = {<<s, c, p>> : c \in Channels}
    BY <1>2 DEF Bundles
  <2> QED
    BY <2>1 DEF Links
<1> QED
  BY <1>1, <1>2

\* What the journal is given to record are links of active streams.
LEMMA RecordedAreLinks ==
  ASSUME NEW m, NEW q \in [Streams -> SUBSET Links]
  PROVE  Recorded(m, q) \subseteq Links
  BY DEF Recorded, Active

\* Every step of the daemon, of others and of a crash keeps the types.
LEMMA TypeStep == RouteInv /\ [Next]_vars => TypeOK'
<1> SUFFICES ASSUME RouteInv, [Next]_vars PROVE TypeOK'
  OBVIOUS
<1> USE DEF RouteInv, TypeOK, InstallingInv, Installing, graph, filters, work, route, mode, daemon,
            FiltersGone
<1>1. ASSUME NEW s \in Streams, AppStart(s) PROVE TypeOK'
  BY <1>1 DEF AppStart
<1>2. ASSUME NEW s \in Streams, AppExit(s) PROVE TypeOK'
  BY <1>2 DEF AppExit, Vanish, Of
<1>3. ASSUME NEW p \in Peers, DeviceLost(p) PROVE TypeOK'
  BY <1>3 DEF DeviceLost, Vanish, At
<1>4. ASSUME NEW p \in Peers, DeviceBack(p) PROVE TypeOK'
  BY <1>4 DEF DeviceBack
<1>5. ASSUME NEW B \in Bundles, Linked(B) PROVE TypeOK'
  BY <1>5, BundlesAreLinks DEF Linked, Unlinked
<1>6. ASSUME NEW B \in Bundles, Unlink(B) PROVE TypeOK'
  BY <1>6 DEF Unlink
<1>7. ASSUME NEW B \in Bundles, ChainBroken(B) PROVE TypeOK'
  BY <1>7 DEF ChainBroken
<1>8. CASE RecoverNothing
  BY <1>8 DEF RecoverNothing, Journal
<1>9. CASE RecoverRoutes
  BY <1>9 DEF RecoverRoutes, Request, Live, Unlinked
<1>10. CASE Recovered
  BY <1>10 DEF Recovered, Confirmed, Unconfirmed, Unlinked, Journal
<1>11. CASE Survey
  <2>1. /\ managed' \in [Streams -> {"none", "connecting", "active"}]
        /\ plan' \in [Streams -> SUBSET Links]
    BY <1>11 DEF Survey
  <2>2. Recorded(managed', plan') \subseteq Links
    BY <2>1, RecordedAreLinks
  <2>3. journal' \subseteq Links
    BY <1>11, <2>2 DEF Survey, Journal
  <2> QED
    BY <1>11, <2>1, <2>3 DEF Survey, Active
<1>12. ASSUME NEW s \in Streams, Release(s) PROVE TypeOK'
  BY <1>12, RecordedAreLinks DEF Release, Deactivated, NotDeactivated, Destroyed, Journal
<1>13. ASSUME NEW s \in Streams, Restore(s) PROVE TypeOK'
  BY <1>13 DEF Restore, Request, Live, Unlinked
<1>14. CASE Bypassed
  <2>1. /\ managed' \in [Streams -> {"none", "connecting", "active"}]
        /\ plan' \in [Streams -> SUBSET Links]
    BY <1>14 DEF Bypassed
  <2>2. Recorded(managed', plan') \subseteq Links
    BY <2>1, RecordedAreLinks
  <2>3. /\ journal' \subseteq Links
        /\ pc' \in {"reconcile", "batch"}
        /\ cur' = None
    BY ZenonT(30), <1>14, <2>2 DEF Bypassed, Return, Journal
  <2> QED
    BY <1>14, <2>1, <2>3 DEF Bypassed, Confirmed, Deactivated, Destroyed
<1>15. CASE BypassFailed
  BY <1>15, RecordedAreLinks DEF BypassFailed, Confirmed, Unconfirmed, Unlinked, NotDeactivated, Return, Journal,
         RestoringInv
<1>16. CASE Reconciled
  BY <1>16 DEF Reconciled
<1>17. CASE Discover
  BY <1>17 DEF Discover, Connecting
<1>18. ASSUME NEW s \in Streams, Defer(s) PROVE TypeOK'
  BY <1>18 DEF Defer
<1>19. ASSUME NEW s \in Streams, Unroutable(s) PROVE TypeOK'
  BY <1>19 DEF Unroutable, Skip
<1>20. ASSUME NEW s \in Streams, Stage(s) PROVE TypeOK'
  BY <1>20 DEF Stage, RoutePlan, Of, Recorded, Active, Skip
<1>21. CASE Staged
  BY <1>21 DEF Staged
<1>22. CASE StageFailed
  BY <1>22, RecordedAreLinks DEF StageFailed, Abandon, Destroyed, Skip, Journal
<1>23. ASSUME NEW l \in Links, CutLink(l) PROVE TypeOK'
  BY <1>23 DEF CutLink, Unlinked
<1>24. CASE Installed
  BY <1>24 DEF Installed
<1>25. CASE RollBack
  BY <1>25 DEF RollBack, Request, Live, Unlinked
<1>26. CASE RolledBack
  BY <1>26, RecordedAreLinks DEF RolledBack, Confirmed, Unconfirmed, Unlinked, Abandon, Destroyed, Skip, Journal
<1>27. CASE Connected
  BY <1>27 DEF Connected
<1>28. ASSUME NEW ok \in BOOLEAN, Disabled(ok) PROVE TypeOK'
  BY <1>28, RecordedAreLinks DEF Disabled, BatchResult, Journal
<1>29. ASSUME NEW ok \in BOOLEAN, Reconfigured(ok) PROVE TypeOK'
  BY <1>29, RecordedAreLinks DEF Reconfigured, BatchResult, Journal
<1>30. ASSUME NEW ok \in BOOLEAN, Stopped(ok) PROVE TypeOK'
  <2>1. Recorded(managed, plan) \subseteq Links
    BY RecordedAreLinks
  <2>2. journal' \subseteq Links
    BY <1>30, <2>1 DEF Stopped, BatchResult, Journal
  <2> QED
    BY <1>30, <2>2 DEF Stopped, Exit
<1>31. CASE EndRequests
  BY <1>31 DEF EndRequests
<1>32. CASE Enable
  BY <1>32 DEF Enable
<1>33. ASSUME NEW why \in {"disable", "reconfigure", "stop"}, Begin(why) PROVE TypeOK'
  BY <1>33 DEF Begin, Taken, Active
<1>34. CASE Crash
  BY <1>34 DEF Crash, Exit
<1>35. CASE Start
  BY <1>35 DEF Start
<1>36. CASE UNCHANGED vars
  BY <1>36 DEF vars
<1> QED
  BY <1>1, <1>2, <1>3, <1>4, <1>5, <1>6, <1>7, <1>8, <1>9, <1>10, <1>11, <1>12, <1>13, <1>14, <1>15, <1>16, <1>17, <1>18, <1>19, <1>20, <1>21, <1>22, <1>23, <1>24, <1>25, <1>26, <1>27, <1>28, <1>29, <1>30, <1>31, <1>32, <1>33, <1>34, <1>35, <1>36 DEF Next, Environment, Step, Recover, Tick, Finish

\* The part of RouteInv that speaks of routes and the journal.
HeldInv == InstallingInv /\ ActiveInv /\ PlanInv /\ StartInv /\ RestoringInv

\* Every step keeps that part: what a route holds stays on record while it holds
\* it, and nobody else touches the route in transition.
LEMMA HeldStep == RouteInv /\ [Next]_vars => HeldInv'
<1> SUFFICES ASSUME RouteInv, [Next]_vars PROVE HeldInv'
  OBVIOUS
<1> USE DEF HeldInv, RouteInv, TypeOK, InstallingInv, ActiveInv, PlanInv, StartInv, RestoringInv,
          Installing, Down, graph, work, route, mode, daemon
<1>1. ASSUME NEW s \in Streams, AppStart(s) PROVE HeldInv'
  BY <1>1 DEF AppStart
<1>2. ASSUME NEW s \in Streams, AppExit(s) PROVE HeldInv'
  BY <1>2 DEF AppExit, Vanish
<1>3. ASSUME NEW p \in Peers, DeviceLost(p) PROVE HeldInv'
  BY <1>3 DEF DeviceLost, Vanish
<1>4. ASSUME NEW p \in Peers, DeviceBack(p) PROVE HeldInv'
  BY <1>4 DEF DeviceBack
<1>5. ASSUME NEW B \in Bundles, Linked(B) PROVE HeldInv'
  BY <1>5 DEF Linked
<1>6. ASSUME NEW B \in Bundles, Unlink(B) PROVE HeldInv'
  BY <1>6 DEF Unlink
<1>7. ASSUME NEW B \in Bundles, ChainBroken(B) PROVE HeldInv'
  BY <1>7 DEF ChainBroken
<1>8. CASE RecoverNothing
  BY <1>8 DEF RecoverNothing, Journal
<1>9. CASE RecoverRoutes
  BY <1>9 DEF RecoverRoutes, Request
<1>10. CASE Recovered
  BY <1>10 DEF Recovered, Confirmed, Unconfirmed, Journal
<1>11. CASE Survey
  BY <1>11 DEF Survey, Journal, Recorded, Active
<1>12. ASSUME NEW s \in Streams, Release(s) PROVE HeldInv'
  BY <1>12 DEF Release, Deactivated, NotDeactivated, Destroyed, Journal, Recorded, Active
<1>13. ASSUME NEW s \in Streams, Restore(s) PROVE HeldInv'
  BY <1>13 DEF Restore, Request
<1>14. CASE Bypassed
  BY <1>14 DEF Bypassed, Confirmed, Deactivated, Destroyed, Return, Journal, Recorded, Active
<1>15. CASE BypassFailed
  BY <1>15 DEF BypassFailed, Confirmed, Unconfirmed, NotDeactivated, Return, Journal, Recorded, Active
<1>16. CASE Reconciled
  BY <1>16 DEF Reconciled
<1>17. CASE Discover
  BY <1>17 DEF Discover, Connecting
<1>18. ASSUME NEW s \in Streams, Defer(s) PROVE HeldInv'
  BY <1>18 DEF Defer
<1>19. ASSUME NEW s \in Streams, Unroutable(s) PROVE HeldInv'
  BY <1>19 DEF Unroutable, Skip
<1>20. ASSUME NEW s \in Streams, Stage(s) PROVE HeldInv'
  BY <1>20 DEF Stage, RoutePlan, Of, Recorded, Active, Skip
<1>21. CASE Staged
  BY <1>21 DEF Staged
<1>22. CASE StageFailed
  BY <1>22 DEF StageFailed, Abandon, Destroyed, Skip, Journal, Recorded, Active
<1>23. ASSUME NEW l \in Links, CutLink(l) PROVE HeldInv'
  BY <1>23 DEF CutLink
<1>24. CASE Installed
  BY <1>24 DEF Installed
<1>25. CASE RollBack
  BY <1>25 DEF RollBack, Request
<1>26. CASE RolledBack
  BY <1>26 DEF RolledBack, Confirmed, Unconfirmed, Abandon, Destroyed, Skip, Journal, Recorded, Active
<1>27. CASE Connected
  BY <1>27 DEF Connected
<1>28. ASSUME NEW ok \in BOOLEAN, Disabled(ok) PROVE HeldInv'
  BY <1>28 DEF Disabled, BatchResult, Journal, Recorded, Active
<1>29. ASSUME NEW ok \in BOOLEAN, Reconfigured(ok) PROVE HeldInv'
  BY <1>29 DEF Reconfigured, BatchResult, Journal, Recorded, Active
<1>30. ASSUME NEW ok \in BOOLEAN, Stopped(ok) PROVE HeldInv'
  BY <1>30 DEF Stopped, BatchResult, Journal, Recorded, Active, Exit
<1>31. CASE EndRequests
  BY <1>31 DEF EndRequests
<1>32. CASE Enable
  BY <1>32 DEF Enable
<1>33. ASSUME NEW why \in {"disable", "reconfigure", "stop"}, Begin(why) PROVE HeldInv'
  BY <1>33 DEF Begin, Taken, Active
<1>34. CASE Crash
  BY <1>34 DEF Crash, Exit
<1>35. CASE Start
  BY <1>35 DEF Start
<1>36. CASE UNCHANGED vars
  BY <1>36 DEF vars
<1> QED
  BY <1>1, <1>2, <1>3, <1>4, <1>5, <1>6, <1>7, <1>8, <1>9, <1>10, <1>11, <1>12, <1>13, <1>14, <1>15, <1>16, <1>17, <1>18, <1>19, <1>20, <1>21, <1>22, <1>23, <1>24, <1>25, <1>26, <1>27, <1>28, <1>29, <1>30, <1>31, <1>32, <1>33, <1>34, <1>35, <1>36 DEF Next, Environment, Step, Recover, Tick, Finish

\* Every step keeps the owners of replacement links.
LEMMA ChainStep == RouteInv /\ [Next]_vars => ChainInv'
<1> SUFFICES ASSUME RouteInv, [Next]_vars PROVE ChainInv'
  OBVIOUS
<1> USE DEF RouteInv, TypeOK, InstallingInv, PlanInv, StartInv, ChainInv, Installing, Down,
          graph, work, route, mode, daemon
<1>1. ASSUME NEW s \in Streams, AppStart(s) PROVE ChainInv'
  BY <1>1 DEF AppStart
<1>2. ASSUME NEW s \in Streams, AppExit(s) PROVE ChainInv'
  BY <1>2 DEF AppExit, Vanish, Of
<1>3. ASSUME NEW p \in Peers, DeviceLost(p) PROVE ChainInv'
  BY <1>3 DEF DeviceLost, Vanish, At
<1>4. ASSUME NEW p \in Peers, DeviceBack(p) PROVE ChainInv'
  BY <1>4 DEF DeviceBack
<1>5. ASSUME NEW B \in Bundles, Linked(B) PROVE ChainInv'
  BY <1>5 DEF Linked, Bundles, Live, Unlinked
<1>6. ASSUME NEW B \in Bundles, Unlink(B) PROVE ChainInv'
  BY <1>6 DEF Unlink
<1>7. ASSUME NEW B \in Bundles, ChainBroken(B) PROVE ChainInv'
  BY <1>7 DEF ChainBroken
<1>8. CASE RecoverNothing
  BY <1>8 DEF RecoverNothing, Journal
<1>9. CASE RecoverRoutes
  BY <1>9 DEF RecoverRoutes, Request, Live, Unlinked
<1>10. CASE Recovered
  BY <1>10 DEF Recovered, Confirmed, Unconfirmed, Unlinked, Journal
<1>11. CASE Survey
  BY <1>11 DEF Survey, Journal, Recorded, Active
<1>12. ASSUME NEW s \in Streams, Release(s) PROVE ChainInv'
  BY <1>12 DEF Release, Deactivated, NotDeactivated, Destroyed, Journal, Recorded, Active
<1>13. ASSUME NEW s \in Streams, Restore(s) PROVE ChainInv'
  BY <1>13 DEF Restore, Request, Live, Unlinked
<1>14. CASE Bypassed
  BY <1>14 DEF Bypassed, Confirmed, Deactivated, Destroyed, Return, Journal, Recorded, Active
<1>15. CASE BypassFailed
  BY <1>15 DEF BypassFailed, Confirmed, Unconfirmed, Unlinked, NotDeactivated, Return, Journal, Recorded, Active
<1>16. CASE Reconciled
  BY <1>16 DEF Reconciled
<1>17. CASE Discover
  BY <1>17 DEF Discover, Connecting
<1>18. ASSUME NEW s \in Streams, Defer(s) PROVE ChainInv'
  BY <1>18 DEF Defer
<1>19. ASSUME NEW s \in Streams, Unroutable(s) PROVE ChainInv'
  BY <1>19 DEF Unroutable, Skip
<1>20. ASSUME NEW s \in Streams, Stage(s) PROVE ChainInv'
  BY <1>20 DEF Stage, RoutePlan, Of, Recorded, Active, Skip
<1>21. CASE Staged
  BY <1>21 DEF Staged
<1>22. CASE StageFailed
  BY <1>22 DEF StageFailed, Abandon, Destroyed, Skip, Journal, Recorded, Active
<1>23. ASSUME NEW l \in Links, CutLink(l) PROVE ChainInv'
  BY <1>23 DEF CutLink, Unlinked
<1>24. CASE Installed
  BY <1>24 DEF Installed
<1>25. CASE RollBack
  BY <1>25 DEF RollBack, Request, Live, Unlinked
<1>26. CASE RolledBack
  BY <1>26 DEF RolledBack, Confirmed, Unconfirmed, Unlinked, Abandon, Destroyed, Skip, Journal, Recorded, Active
<1>27. CASE Connected
  BY <1>27 DEF Connected
<1>28. ASSUME NEW ok \in BOOLEAN, Disabled(ok) PROVE ChainInv'
  BY <1>28 DEF Disabled, BatchResult, Journal, Recorded, Active
<1>29. ASSUME NEW ok \in BOOLEAN, Reconfigured(ok) PROVE ChainInv'
  BY <1>29 DEF Reconfigured, BatchResult, Journal, Recorded, Active
<1>30. ASSUME NEW ok \in BOOLEAN, Stopped(ok) PROVE ChainInv'
  BY <1>30 DEF Stopped, BatchResult, Journal, Recorded, Active, Exit
<1>31. CASE EndRequests
  BY <1>31 DEF EndRequests
<1>32. CASE Enable
  BY <1>32 DEF Enable
<1>33. ASSUME NEW why \in {"disable", "reconfigure", "stop"}, Begin(why) PROVE ChainInv'
  BY <1>33 DEF Begin, Taken, Active
<1>34. CASE Crash
  BY <1>34 DEF Crash, Exit
<1>35. CASE Start
  BY <1>35 DEF Start
<1>36. CASE UNCHANGED vars
  BY <1>36 DEF vars
<1> QED
  BY <1>1, <1>2, <1>3, <1>4, <1>5, <1>6, <1>7, <1>8, <1>9, <1>10, <1>11, <1>12, <1>13, <1>14, <1>15, <1>16, <1>17, <1>18, <1>19, <1>20, <1>21, <1>22, <1>23, <1>24, <1>25, <1>26, <1>27, <1>28, <1>29, <1>30, <1>31, <1>32, <1>33, <1>34, <1>35, <1>36 DEF Next, Environment, Step, Recover, Tick, Finish

-----------------------------------------------------------------------------
\* The invariant holds before the first start.
LEMMA InitInv == Init => RouteInv
<1> SUFFICES ASSUME Init PROVE RouteInv
  OBVIOUS
<1>1. TypeOK
  BY DEF Init, TypeOK
<1>2. InstallingInv /\ ActiveInv /\ PlanInv /\ StartInv /\ RestoringInv /\ ChainInv
  BY DEF Init, InstallingInv, ActiveInv, PlanInv, StartInv, RestoringInv, ChainInv, Installing
<1> QED
  BY <1>1, <1>2 DEF RouteInv

\* The invariant is inductive.
LEMMA NextInv == RouteInv /\ [Next]_vars => RouteInv'
  BY TypeStep, HeldStep, ChainStep DEF RouteInv, HeldInv

\* The inductive invariant of the routing daemon holds whatever fails, crashes or
\* is done by others.
THEOREM RouteInvariant == Spec => []RouteInv
  BY InitInv, NextInv, PTL DEF Spec

\* Every variable keeps its type.
THEOREM TypeCorrect == Spec => []TypeOK
  BY RouteInvariant, PTL DEF RouteInv

\* The recovery journal names every original link of the active routes and of
\* the one being installed, in every reachable state.
THEOREM JournalCorrect == Spec => []JournalCoversRoutes
<1>1. RouteInv => JournalCoversRoutes
  BY DEF RouteInv, InstallingInv, ActiveInv, Installing, JournalCoversRoutes,
         Held, InTransition, Active
<1> QED
  BY <1>1, RouteInvariant, PTL

\* No replacement link outlives the route it was made for.
THEOREM ReplacementsCorrect == Spec => []ReplacementsOwned
<1>1. RouteInv => ReplacementsOwned
  BY DEF RouteInv, ChainInv, Installing, ReplacementsOwned, Held, InTransition,
         Active
<1> QED
  BY <1>1, RouteInvariant, PTL

-----------------------------------------------------------------------------
(***************************************************************************)
(* The refinement.  A step of the daemon, of the environment or of a crash *)
(* either gives links up or takes links away, and in the second case it    *)
(* does not touch the journal at the same time.                            *)
(***************************************************************************)

\* Link l is displaced by an active route or by the cutover in progress.
Displaced(l) ==
  \/ \E s \in Streams : managed[s] = "active" /\ l \in plan[s]
  \/ pc \in {"cut", "rollback"} /\ l \in plan[cur] /\ l \notin originals

\* The links the refinement mapping counts as diverted, one by one.
LEMMA DivertedDef == \A l : l \in Diverted <=> Displaced(l)
  BY DEF Diverted, Held, Active, Displaced

\* A step gives links up, or takes links away and leaves the journal alone.
OneWay ==
  \/ \A l : Displaced(l)' => Displaced(l)
  \/ (\A l : Displaced(l) => Displaced(l)') /\ journal' = journal

\* No step rewrites the journal while it takes a link away.
LEMMA OneWayStep == RouteInv /\ [Next]_vars => OneWay
<1> SUFFICES ASSUME RouteInv, [Next]_vars PROVE OneWay
  OBVIOUS
<1> USE DEF RouteInv, TypeOK, InstallingInv, StartInv, Installing, Down,
          Displaced, OneWay, graph, work, route, mode, daemon
<1>1. ASSUME NEW s \in Streams, AppStart(s) PROVE OneWay
  BY <1>1 DEF AppStart
<1>2. ASSUME NEW s \in Streams, AppExit(s) PROVE OneWay
  BY <1>2 DEF AppExit, Vanish
<1>3. ASSUME NEW p \in Peers, DeviceLost(p) PROVE OneWay
  BY <1>3 DEF DeviceLost, Vanish
<1>4. ASSUME NEW p \in Peers, DeviceBack(p) PROVE OneWay
  BY <1>4 DEF DeviceBack
<1>5. ASSUME NEW B \in Bundles, Linked(B) PROVE OneWay
  BY <1>5 DEF Linked
<1>6. ASSUME NEW B \in Bundles, Unlink(B) PROVE OneWay
  BY <1>6 DEF Unlink
<1>7. ASSUME NEW B \in Bundles, ChainBroken(B) PROVE OneWay
  BY <1>7 DEF ChainBroken
<1>8. CASE RecoverNothing
  BY <1>8 DEF RecoverNothing
<1>9. CASE RecoverRoutes
  BY <1>9 DEF RecoverRoutes, Request
<1>10. CASE Recovered
  BY <1>10 DEF Recovered, Confirmed, Unconfirmed, Journal
<1>11. CASE Survey
  BY <1>11 DEF Survey
<1>12. ASSUME NEW s \in Streams, Release(s) PROVE OneWay
  BY <1>12 DEF Release, Deactivated, NotDeactivated, Destroyed
<1>13. ASSUME NEW s \in Streams, Restore(s) PROVE OneWay
  BY <1>13 DEF Restore, Request
<1>14. CASE Bypassed
  BY <1>14 DEF Bypassed, Confirmed, Deactivated, Destroyed, Return
<1>15. CASE BypassFailed
  BY <1>15 DEF BypassFailed, Confirmed, Unconfirmed, NotDeactivated, Return
<1>16. CASE Reconciled
  BY <1>16 DEF Reconciled
<1>17. CASE Discover
  BY <1>17 DEF Discover, Connecting
<1>18. ASSUME NEW s \in Streams, Defer(s) PROVE OneWay
  BY <1>18 DEF Defer
<1>19. ASSUME NEW s \in Streams, Unroutable(s) PROVE OneWay
  BY <1>19 DEF Unroutable, Skip
<1>20. ASSUME NEW s \in Streams, Stage(s) PROVE OneWay
  BY <1>20 DEF Stage, RoutePlan, Of, Recorded, Active, Skip
<1>21. CASE Staged
  BY <1>21 DEF Staged
<1>22. CASE StageFailed
  BY <1>22 DEF StageFailed, Abandon, Destroyed, Skip
<1>23. ASSUME NEW l \in Links, CutLink(l) PROVE OneWay
  BY <1>23 DEF CutLink
<1>24. CASE Installed
  BY <1>24 DEF Installed
<1>25. CASE RollBack
  BY <1>25 DEF RollBack, Request
<1>26. CASE RolledBack
  BY <1>26 DEF RolledBack, Confirmed, Unconfirmed, Abandon, Destroyed, Skip
<1>27. CASE Connected
  BY <1>27 DEF Connected
<1>28. ASSUME NEW ok \in BOOLEAN, Disabled(ok) PROVE OneWay
  BY <1>28 DEF Disabled
<1>29. ASSUME NEW ok \in BOOLEAN, Reconfigured(ok) PROVE OneWay
  BY <1>29 DEF Reconfigured
<1>30. ASSUME NEW ok \in BOOLEAN, Stopped(ok) PROVE OneWay
  BY <1>30 DEF Stopped, Exit
<1>31. CASE EndRequests
  BY <1>31 DEF EndRequests
<1>32. CASE Enable
  BY <1>32 DEF Enable
<1>33. ASSUME NEW why \in {"disable", "reconfigure", "stop"}, Begin(why) PROVE OneWay
  BY <1>33 DEF Begin, Taken, Active
<1>34. CASE Crash
  BY <1>34 DEF Crash, Exit
<1>35. CASE Start
  BY <1>35 DEF Start
<1>36. CASE UNCHANGED vars
  BY <1>36 DEF vars
<1> QED
  BY <1>1, <1>2, <1>3, <1>4, <1>5, <1>6, <1>7, <1>8, <1>9, <1>10, <1>11, <1>12, <1>13, <1>14, <1>15, <1>16, <1>17, <1>18, <1>19, <1>20, <1>21, <1>22, <1>23, <1>24, <1>25, <1>26, <1>27, <1>28, <1>29, <1>30, <1>31, <1>32, <1>33, <1>34, <1>35, <1>36 DEF Next, Environment, Step, Recover, Tick, Finish

\* What is diverted is on record.
LEMMA DivertedInv == RouteInv => Diverted \subseteq journal /\ journal \subseteq Links
<1> SUFFICES ASSUME RouteInv, NEW l \in Diverted
             PROVE  l \in journal
  BY DEF RouteInv, TypeOK
<1>1. Displaced(l)
  BY DivertedDef
<1> QED
  BY <1>1 DEF Displaced, RouteInv, InstallingInv, ActiveInv, Installing

\* Nothing is diverted at first.
LEMMA RefinesInit == Init => WriteAhead!WInit
<1> SUFFICES ASSUME Init PROVE Diverted = {} /\ journal \in SUBSET Links
  BY DEF WriteAhead!WInit
<1>1. \A l : ~Displaced(l)
  BY DEF Init, Displaced
<1> QED
  BY <1>1, DivertedDef DEF Init

\* A step that takes links away diverts links on record, any other gives some up,
\* perhaps none, and may rewrite the journal.
LEMMA RefinesNext ==
  RouteInv /\ RouteInv' /\ [Next]_vars => [WriteAhead!WNext]_WriteAhead!wvars
<1>a. (RouteInv => Diverted \subseteq journal /\ journal \subseteq Links)'
  BY DivertedInv, PTL
<1>b. (\A l : l \in Diverted <=> Displaced(l))'
  BY DivertedDef, PTL
<1> SUFFICES ASSUME RouteInv, RouteInv', [Next]_vars
             PROVE  WriteAhead!WNext
  OBVIOUS
<1>1. Diverted' \subseteq journal' /\ Diverted \subseteq journal
  BY <1>a, DivertedInv
<1>2. journal' \in SUBSET Links /\ Diverted \in SUBSET Links /\ Diverted' \in SUBSET Links
  BY <1>1, <1>a, DivertedInv
<1>3. \A l : l \in Diverted <=> Displaced(l)
  BY DivertedDef
<1>4. \A l : l \in Diverted' <=> Displaced(l)'
  BY <1>b
<1>5. CASE \A l : Displaced(l)' => Displaced(l)
  <2>1. Diverted' = Diverted \ (Diverted \ Diverted')
    BY <1>3, <1>4, <1>5
  <2>2. WriteAhead!GiveUp(Diverted \ Diverted', journal')
    BY <1>1, <2>1 DEF WriteAhead!GiveUp
  <2> QED
    BY <1>2, <2>2 DEF WriteAhead!WNext
<1>6. CASE (\A l : Displaced(l) => Displaced(l)') /\ journal' = journal
  <2>1. Diverted' = Diverted \cup Diverted'
    BY <1>3, <1>4, <1>6
  <2>2. WriteAhead!Divert(Diverted')
    BY <1>1, <1>6, <2>1 DEF WriteAhead!Divert
  <2> QED
    BY <1>2, <2>2 DEF WriteAhead!WNext
<1> QED
  BY <1>5, <1>6, OneWayStep DEF OneWay

\* The routing of the daemon implements write-ahead recording: nothing is taken
\* away before the journal on disk names it, and nothing the daemon still
\* diverts is ever dropped from the journal.
THEOREM Refinement == Spec => ImplementsWriteAhead
  BY RouteInvariant, RefinesInit, RefinesNext, PTL
     DEF Spec, ImplementsWriteAhead, WriteAhead!WSpec

-----------------------------------------------------------------------------
(***************************************************************************)
(* Policy, filters and mode, from the invariant above: no stream outlives  *)
(* the policy in force, a failed request keeps the mode, and filters are   *)
(* silent while they are being joined.                                     *)
(***************************************************************************)

\* bypass_all is under way, for a request or for the shutdown signal.
Batch == pc = "batch" \/ (pc = "restore" /\ cause # "reconcile")

\* Streams are managed as the mode and the policy say; while a request is in
\* hand, as they said before it.
ManagedInv ==
  \A s \in Streams : managed[s] # "none" =>
    s \in allowed /\ IF Batch THEN before /\ managed[s] = "active" ELSE enabled

\* So is the stream being installed, which has left the managed map.
JoiningInv == Installing => enabled /\ cur \in allowed

\* A request in hand was made in the mode it remembers, and a bypass fails only
\* where there was something to bypass.
ModeInv ==
  /\ Batch => cause # "reconcile" /\ enabled = (before /\ cause # "disable")
  /\ pc = "reconcile" => cause = "reconcile"
  /\ pc = "restore" => cur \in Streams /\ managed[cur] = "active"
  /\ Batch /\ failed => before

\* A batch that has not failed leaves nobody out.
BatchInv ==
  Batch /\ ~failed =>
    \A s \in Streams : managed[s] = "active" => s \in todo \/ (pc = "restore" /\ s = cur)

PolicyInv == ManagedInv /\ JoiningInv /\ ModeInv /\ BatchInv

\* Every step preserves what the daemon's routes have to do with its mode.
LEMMA PolicyStep == RouteInv /\ PolicyInv /\ [Next]_vars => PolicyInv'
<1> SUFFICES ASSUME RouteInv, PolicyInv, [Next]_vars PROVE PolicyInv'
  OBVIOUS
<1> USE DEF RouteInv, TypeOK, InstallingInv, StartInv, Installing, Down,
            PolicyInv, ManagedInv, JoiningInv, ModeInv, BatchInv, Batch,
            graph, work, route, mode, daemon
<1>1. CASE Environment
  <2>1. UNCHANGED daemon
    BY <1>1 DEF Environment, AppStart, AppExit, DeviceLost, DeviceBack, Linked, Unlink, ChainBroken
  <2> QED
    BY <2>1
<1>2. CASE Recover
  <2>1. pc \in {"recover", "recreate"} /\ pc' \in {"recreate", "idle"}
    BY <1>2 DEF Recover, RecoverNothing, RecoverRoutes, Recovered
  <2>2. UNCHANGED <<work, managed, mode>>
    BY <1>2 DEF Recover, RecoverNothing, RecoverRoutes, Recovered
  <2> QED
    BY <2>1, <2>2
<1>3. CASE Survey
  BY <1>3 DEF Survey
<1>4. ASSUME NEW s \in Streams, Release(s) PROVE PolicyInv'
  BY <1>4 DEF Release
<1>5. ASSUME NEW s \in Streams, Restore(s) PROVE PolicyInv'
  BY <1>5 DEF Restore
<1>6. CASE Bypassed
  BY <1>6 DEF Bypassed, Return
<1>7. CASE BypassFailed
  BY <1>7 DEF BypassFailed, Return
<1>8. CASE Reconciled \/ Connected \/ EndRequests \/ Staged
  BY <1>8 DEF Reconciled, Connected, EndRequests, Staged
<1>9. CASE Discover
  BY <1>9 DEF Discover
<1>10. ASSUME NEW s \in Streams, Defer(s) \/ Unroutable(s) PROVE PolicyInv'
  BY <1>10 DEF Defer, Unroutable
<1>11. ASSUME NEW s \in Streams, Stage(s) PROVE PolicyInv'
  BY <1>11 DEF Stage
<1>12. CASE StageFailed \/ RolledBack
  BY <1>12 DEF StageFailed, RolledBack, Abandon
<1>13. ASSUME NEW l \in Links, CutLink(l) PROVE PolicyInv'
  BY <1>13 DEF CutLink
<1>14. CASE Installed
  BY <1>14 DEF Installed
<1>15. CASE RollBack
  BY <1>15 DEF RollBack, Request
<1>16. ASSUME NEW ok \in BOOLEAN, Disabled(ok) PROVE PolicyInv'
  BY <1>16 DEF Disabled, BatchResult
<1>17. ASSUME NEW ok \in BOOLEAN, Reconfigured(ok) PROVE PolicyInv'
  BY <1>17 DEF Reconfigured, BatchResult
<1>18. CASE Crash \/ \E ok \in BOOLEAN : Stopped(ok)
  BY <1>18 DEF Crash, Stopped, Exit
<1>19. CASE Enable
  BY <1>19 DEF Enable
<1>20. ASSUME NEW why \in {"disable", "reconfigure", "stop"}, Begin(why) PROVE PolicyInv'
  BY <1>20 DEF Begin, Taken, Active
<1>21. CASE Start
  BY <1>21 DEF Start
<1>22. CASE UNCHANGED vars
  BY <1>22 DEF vars
<1> QED
  BY <1>1, <1>2, <1>3, <1>4, <1>5, <1>6, <1>7, <1>8, <1>9, <1>10, <1>11, <1>12, <1>13, <1>14,
     <1>15, <1>16, <1>17, <1>18, <1>19, <1>20, <1>21, <1>22
     DEF Next, Step, Tick, Finish

\* RouteInvariant is stated of Spec: together the two invariants are inductive.
LEMMA PolicyInvariant == Spec => [](RouteInv /\ PolicyInv)
<1>1. Init => RouteInv /\ PolicyInv
  BY InitInv DEF Init, PolicyInv, ManagedInv, JoiningInv, ModeInv, BatchInv, Batch, Installing
<1>2. (RouteInv /\ PolicyInv) /\ [Next]_vars => (RouteInv /\ PolicyInv)'
  BY NextInv, PolicyStep
<1> QED
  BY <1>1, <1>2, PTL DEF Spec

\* Once the requests in hand have been answered, only streams that the policy in
\* force allows are in the daemon's hands, and only if it is enabled.
THEOREM PolicyCorrect == Spec => []PolicyInForce
<1>1. PolicyInv => PolicyInForce
  BY DEF PolicyInv, ManagedInv, Batch, PolicyInForce
<1> QED
  BY <1>1, PolicyInvariant, PTL

-----------------------------------------------------------------------------
(* Filters *)

\* Only the filters of active routes run, and those that refused to stop.
FilterInv == \A s \in filtering : managed[s] = "active" \/ s \in stuck

\* Every step preserves that.
LEMMA FilterStep ==
  ASSUME RouteInv, FilterInv, [Next]_vars
  PROVE  FilterInv'
<1> USE DEF RouteInv, TypeOK, InstallingInv, StartInv, Installing, Down, FilterInv,
            graph, filters, work, route, mode, daemon, FiltersGone
<1>1. CASE Environment
  <2>1. UNCHANGED daemon
    BY <1>1 DEF Environment, AppStart, AppExit, DeviceLost, DeviceBack, Linked, Unlink, ChainBroken
  <2> QED
    BY <2>1
<1>2. CASE Recover
  <2>1. UNCHANGED <<managed, filters>>
    BY <1>2 DEF Recover, RecoverNothing, RecoverRoutes, Recovered
  <2> QED
    BY <2>1
<1>3. CASE Survey
  BY <1>3 DEF Survey
<1>4. ASSUME NEW s \in Streams, Release(s) PROVE FilterInv'
  BY <1>4 DEF Release, Deactivated, NotDeactivated
<1>5. ASSUME NEW s \in Streams, Restore(s) PROVE FilterInv'
  BY <1>5 DEF Restore
<1>6. CASE Bypassed
  BY <1>6 DEF Bypassed, Deactivated
<1>7. CASE BypassFailed
  BY <1>7 DEF BypassFailed, NotDeactivated
<1>8. CASE Reconciled \/ Connected \/ EndRequests \/ Staged
  BY <1>8 DEF Reconciled, Connected, EndRequests, Staged
<1>9. CASE Discover
  BY <1>9 DEF Discover
<1>10. ASSUME NEW s \in Streams, Defer(s) \/ Unroutable(s) PROVE FilterInv'
  BY <1>10 DEF Defer, Unroutable
<1>11. ASSUME NEW s \in Streams, Stage(s) PROVE FilterInv'
  BY <1>11 DEF Stage
<1>12. CASE StageFailed \/ RolledBack
  BY <1>12 DEF StageFailed, RolledBack, Abandon
<1>13. ASSUME NEW l \in Links, CutLink(l) PROVE FilterInv'
  BY <1>13 DEF CutLink
<1>14. CASE Installed
  BY <1>14 DEF Installed
<1>15. CASE RollBack
  BY <1>15 DEF RollBack
<1>16. ASSUME NEW ok \in BOOLEAN, Disabled(ok) \/ Reconfigured(ok) PROVE FilterInv'
  BY <1>16 DEF Disabled, Reconfigured
<1>17. CASE Crash \/ \E ok \in BOOLEAN : Stopped(ok)
  BY <1>17 DEF Crash, Stopped, Exit
<1>18. CASE Enable \/ Start
  BY <1>18 DEF Enable, Start
<1>19. ASSUME NEW why \in {"disable", "reconfigure", "stop"}, Begin(why) PROVE FilterInv'
  BY <1>19 DEF Begin, Taken, Active
<1>20. CASE UNCHANGED vars
  BY <1>20 DEF vars
<1> QED
  BY <1>1, <1>2, <1>3, <1>4, <1>5, <1>6, <1>7, <1>8, <1>9, <1>10, <1>11, <1>12, <1>13, <1>14,
     <1>15, <1>16, <1>17, <1>18, <1>19, <1>20
     DEF Next, Step, Tick, Finish

\* Whatever fails, the filter of a route being installed is silent until the
\* route is active, unless it refused to stop when it was last told to: no other
\* failure makes an installation double the audio.
THEOREM SilenceCorrect == Spec => []SilentWhileStaging
<1>1. Init => RouteInv /\ FilterInv
  BY InitInv DEF Init, FilterInv
<1>2. (RouteInv /\ FilterInv) /\ [Next]_vars => (RouteInv /\ FilterInv)'
  BY NextInv, FilterStep
<1>3. RouteInv /\ FilterInv => SilentWhileStaging
  BY DEF RouteInv, InstallingInv, Installing, FilterInv, SilentWhileStaging
<1> QED
  BY <1>1, <1>2, <1>3, PTL DEF Spec

-----------------------------------------------------------------------------
(* Failed requests *)

\* Whatever fails, a request that ends with a route still in place or with a
\* journal out of date keeps normalization enabled if it was, and a reload that
\* ends that way keeps the mode, the policy and the skipped streams.
THEOREM ModeKept == Spec => FailedRequestKeepsMode
<1>1. ASSUME RouteInv, PolicyInv, [Next]_vars,
             pc = "batch", pc' = "requests",
             Active(managed') # {} \/ journal' # Recorded(managed', plan')
      PROVE  /\ before => enabled'
             /\ cause = "reconfigure" =>
                  enabled' = before /\ allowed' = allowed /\ skipped' = skipped
  <2>1. PICK ok \in BOOLEAN : Disabled(ok) \/ Reconfigured(ok)
    BY <1>1 DEF Next, Environment, Step, Recover, Tick, Finish, vars, daemon,
         AppStart, AppExit, DeviceLost, DeviceBack, Linked, Unlink, ChainBroken,
         RecoverNothing, RecoverRoutes, Recovered, Survey, Release, Restore, Bypassed,
         BypassFailed, Reconciled, Discover, Defer, Unroutable, Stage, Staged, StageFailed,
         CutLink, Installed, RollBack, RolledBack, Connected, Stopped, EndRequests,
         Enable, Begin, Crash, Exit, Start
  <2>2. UNCHANGED <<managed, plan>>
    BY <2>1 DEF Disabled, Reconfigured, route
  <2>3. ~ok
    \* a batch that ended well leaves no route and has written the journal
    <3>1. SUFFICES ASSUME ok PROVE FALSE
      OBVIOUS
    <3>2. ~failed /\ todo = {} /\ journal' = Recorded(managed, plan)
      BY <2>1, <3>1 DEF Disabled, Reconfigured, BatchResult
    <3>3. Active(managed) = {}
      BY <1>1, <3>2 DEF PolicyInv, BatchInv, Batch, Active
    <3> QED
      BY <1>1, <2>2, <3>2, <3>3
  <2>4. CASE Disabled(ok)
    BY <2>3, <2>4 DEF Disabled
  <2>5. CASE Reconfigured(ok)
    <3>1. enabled = before
      BY <1>1, <2>5 DEF Reconfigured, PolicyInv, ModeInv, Batch, RouteInv, TypeOK
    <3> QED
      BY <2>3, <2>5, <3>1 DEF Reconfigured
  <2> QED
    BY <2>1, <2>4, <2>5
<1>2. RouteInv /\ PolicyInv /\ [Next]_vars =>
        [ pc = "batch" /\ pc' = "requests"
          /\ (Active(managed') # {} \/ journal' # Recorded(managed', plan')) =>
            /\ before => enabled'
            /\ cause = "reconfigure" =>
                 enabled' = before /\ allowed' = allowed /\ skipped' = skipped ]_vars
  BY <1>1
<1> QED
  BY <1>2, PolicyInvariant, PTL DEF Spec, FailedRequestKeepsMode

-----------------------------------------------------------------------------
(***************************************************************************)
(* What the daemon gives back: a given-up installation restores its        *)
(* originals, what is severed is on record, and a clean stop leaves        *)
(* nothing to recover.  These theorems assume the restrictions of the      *)
(* instance stereo, which the properties need (see README).                *)
(***************************************************************************)

(***************************************************************************)
(* What the daemon severs                                                  *)
(***************************************************************************)

\* Links have two live ports, a severed one has no direct link at its stream's
\* port, and what a transition remembers of the graph is in the graph.
LinkInv ==
  /\ \A l \in direct \cup severed : l[1] \in present /\ l[3] \in peers
  /\ \A l \in severed, d \in direct : ~(d[1] = l[1] /\ d[2] = l[2])
  /\ originals \subseteq direct
  /\ originals # {} => pc \in {"stage", "cut"}
  /\ made \subseteq direct
  /\ made # {} => pc \in {"recreate", "restore", "rollback"}

\* Every step keeps that.
LEMMA LinkStep == RouteInv /\ LinkInv /\ [Next]_vars => LinkInv'
<1> SUFFICES ASSUME RouteInv, LinkInv, [Next]_vars PROVE LinkInv'
  OBVIOUS
<1> USE DEF RouteInv, TypeOK, InstallingInv, Installing, Down, LinkInv,
            graph, work, route, mode, daemon
<1>1. ASSUME NEW s \in Streams, AppStart(s) PROVE LinkInv'
  BY <1>1 DEF AppStart
<1>2. ASSUME NEW s \in Streams, AppExit(s) PROVE LinkInv'
  BY <1>2 DEF AppExit, Vanish, Of
<1>3. ASSUME NEW p \in Peers, DeviceLost(p) PROVE LinkInv'
  BY <1>3 DEF DeviceLost, Vanish, At
<1>4. ASSUME NEW p \in Peers, DeviceBack(p) PROVE LinkInv'
  BY <1>4 DEF DeviceBack
<1>5. ASSUME NEW B \in Bundles, Linked(B) PROVE LinkInv'
  BY <1>5, BundlesAreLinks DEF Linked, Live, Unlinked
<1>6. ASSUME NEW B \in Bundles, Unlink(B) \/ ChainBroken(B) PROVE LinkInv'
  BY <1>6 DEF Unlink, ChainBroken
<1>7. CASE RecoverNothing
  BY <1>7 DEF RecoverNothing
<1>8. CASE RecoverRoutes
  BY <1>8 DEF RecoverRoutes, Request, Live, Unlinked
<1>9. CASE Recovered
  BY <1>9 DEF Recovered, Confirmed, Unconfirmed, Unlinked
<1>10. CASE Survey
  BY <1>10 DEF Survey
<1>11. ASSUME NEW s \in Streams, Release(s) PROVE LinkInv'
  BY <1>11 DEF Release
<1>12. ASSUME NEW s \in Streams, Restore(s) PROVE LinkInv'
  BY <1>12 DEF Restore, Request, Live, Unlinked
<1>13. CASE Bypassed
  BY <1>13 DEF Bypassed, Confirmed, Return
<1>14. CASE BypassFailed
  BY <1>14 DEF BypassFailed, Confirmed, Unconfirmed, Unlinked, Return
<1>15. CASE Reconciled \/ Connected \/ EndRequests \/ Staged
  BY <1>15 DEF Reconciled, Connected, EndRequests, Staged
<1>16. CASE Discover
  BY <1>16 DEF Discover
<1>17. ASSUME NEW s \in Streams, Defer(s) \/ Unroutable(s) PROVE LinkInv'
  BY <1>17 DEF Defer, Unroutable
<1>18. ASSUME NEW s \in Streams, Stage(s) PROVE LinkInv'
  BY <1>18 DEF Stage, RoutePlan
<1>19. CASE StageFailed
  BY <1>19 DEF StageFailed, Abandon
<1>20. ASSUME NEW l \in Links, CutLink(l) PROVE LinkInv'
  BY <1>20 DEF CutLink, Unlinked
<1>21. CASE Installed
  BY <1>21 DEF Installed
<1>22. CASE RollBack
  BY <1>22 DEF RollBack, Request, Live, Unlinked
<1>23. CASE RolledBack
  BY <1>23 DEF RolledBack, Confirmed, Unconfirmed, Unlinked, Abandon
<1>24. ASSUME NEW ok \in BOOLEAN, Disabled(ok) \/ Reconfigured(ok) \/ Stopped(ok) PROVE LinkInv'
  BY <1>24 DEF Disabled, Reconfigured, Stopped, BatchResult, Exit
<1>25. CASE Crash
  BY <1>25 DEF Crash, Exit
<1>26. CASE Enable \/ Start
  BY <1>26 DEF Enable, Start
<1>27. ASSUME NEW why \in {"disable", "reconfigure", "stop"}, Begin(why) PROVE LinkInv'
  BY <1>27 DEF Begin
<1>28. CASE UNCHANGED vars
  BY <1>28 DEF vars
<1> QED
  BY <1>1, <1>2, <1>3, <1>4, <1>5, <1>6, <1>7, <1>8, <1>9, <1>10, <1>11, <1>12, <1>13, <1>14,
     <1>15, <1>16, <1>17, <1>18, <1>19, <1>20, <1>21, <1>22, <1>23, <1>24, <1>25, <1>26, <1>27, <1>28
     DEF Next, Environment, Step, Recover, Tick, Finish

\* The links of a stream to a device, which others make and remove together.
Bundle(s, p) == Of(s) \cap At(p)

\* D has all of a bundle or nothing.
Whole(D, s, p) == Bundle(s, p) \subseteq D \/ Bundle(s, p) \cap D = {}

\* Of no bundle only a part.
AllWhole(D) == \A s \in Streams, p \in Peers : Whole(D, s, p)

\* At most one of a stream's bundles has lost some of its links and kept others.
OnePartial(D) ==
  \A s \in Streams, p, q \in Peers : p = q \/ Whole(D, s, p) \/ Whole(D, s, q)

\* A route replaces one bundle.
PlanBundleInv ==
  \A s \in Streams : plan[s] # {} => \E p \in Peers : plan[s] = Bundle(s, p)

\* So the journal has bundles.
JournalBundleInv == AllWhole(journal)

\* The route of the stream exists or is being made.
Routed(s) == managed[s] = "active" \/ (Installing /\ s = cur)

\* Of such a stream only the bundle it was routed by can be in pieces.
PiecesInv ==
  \A s \in Streams, p \in Peers : Routed(s) => Bundle(s, p) = plan[s] \/ Whole(direct, s, p)

\* An installation severs nothing before its cutover and nothing after its
\* rollback began: links requested are all there, or none of those made is.
RestoreInv ==
  /\ pc \in {"stage", "rollback"} => severed \cap plan[cur] = {}
  /\ pc = "rollback" => wanted \subseteq plan[cur]
  /\ pc = "restore" => wanted = plan[cur]
  /\ pc \in {"rollback", "restore"} => made \subseteq wanted
  /\ pc \in {"rollback", "restore"} => made = {} \/ wanted \subseteq direct

\* Recovery completes bundles, and leaves at most one in pieces if it gives up.
RecreateInv ==
  pc = "recreate" =>
    /\ OnePartial(direct \ made)
    /\ \A s \in Streams, p \in Peers : Bundle(s, p) \cap made # {} => Bundle(s, p) \subseteq direct

\* The bundles of direct links and of what is planned, recorded and requested.
BundleInv ==
  /\ PlanBundleInv
  /\ JournalBundleInv
  /\ OnePartial(direct)
  /\ PiecesInv
  /\ RestoreInv
  /\ RecreateInv

\* Links moved as a whole are a stream's bundle.
LEMMA WholeMoves ==
  ASSUME ~SplitMoves, NEW B \in Bundles
  PROVE  \E s \in Streams, p \in Peers : B = Bundle(s, p)
<1>1. PICK s \in Streams, p \in Peers : B = {<<s, c, p>> : c \in Channels}
  BY DEF Bundles
<1>2. B = Bundle(s, p)
  BY <1>1 DEF Bundle, Of, At, Links
<1> QED
  BY <1>2

\* A stream each of whose ports has one link is routed by one bundle, and all
\* its bundles are whole.
LEMMA ReadyBundle ==
  ASSUME TypeOK, LinkInv, OnePartial(direct), NEW s \in Streams, Ready(s)
  PROVE  /\ RoutePlan(s) # {} => \E p \in Peers : RoutePlan(s) = Bundle(s, p)
         /\ severed \cap Of(s) = {}
         /\ \A p \in Peers : Whole(direct, s, p)
<1>1. \A c \in Channels : \E p \in Peers : <<s, c, p>> \in direct
  BY DEF Ready, PortLinks, Links, TypeOK
<1>2. \A c \in Channels, p, q \in Peers :
        <<s, c, p>> \in direct /\ <<s, c, q>> \in direct => p = q
  <2> SUFFICES ASSUME NEW c \in Channels, NEW p \in Peers, NEW q \in Peers,
                      <<s, c, p>> \in direct, <<s, c, q>> \in direct
               PROVE  p = q
    OBVIOUS
  <2>1. PICK l \in Links : PortLinks(s, c) = {l}
    BY DEF Ready
  <2>2. <<s, c, p>> \in PortLinks(s, c) /\ <<s, c, q>> \in PortLinks(s, c)
    BY DEF PortLinks
  <2> QED
    BY <2>1, <2>2
<1>3. \A l : l \in Links /\ l[1] = s =>
        \E c \in Channels, p \in Peers : l = <<s, c, p>>
  BY DEF Links
<1>4. \A p \in Peers : \A l : l \in Bundle(s, p) <=> \E c \in Channels : l = <<s, c, p>>
  BY DEF Bundle, Of, At, Links
<1>5. \A p \in Peers : Whole(direct, s, p)
  <2> SUFFICES ASSUME NEW p \in Peers, NEW c \in Channels, NEW d \in Channels,
                      <<s, c, p>> \in direct, <<s, d, p>> \notin direct
               PROVE  FALSE
    BY <1>4 DEF Whole
  <2>1. PICK q \in Peers : <<s, d, q>> \in direct
    BY <1>1
  <2>2. <<s, c, q>> \notin direct /\ q # p
    BY <1>2, <2>1
  <2>3. ~Whole(direct, s, p) /\ ~Whole(direct, s, q)
    BY <1>4, <2>1, <2>2 DEF Whole
  <2> QED
    BY <2>2, <2>3 DEF OnePartial
<1>6. severed \cap Of(s) = {}
  <2> SUFFICES ASSUME NEW l \in severed, l \in Of(s) PROVE FALSE
    OBVIOUS
  <2>1. PICK c \in Channels, p \in Peers : l = <<s, c, p>>
    BY <1>3 DEF Of
  <2>2. PICK q \in Peers : <<s, c, q>> \in direct
    BY <1>1
  <2> QED
    BY <2>1, <2>2 DEF LinkInv
<1>7. ASSUME RoutePlan(s) # {} PROVE \E p \in Peers : RoutePlan(s) = Bundle(s, p)
  <2>1. PICK l : l \in direct /\ l \in Of(s)
    BY <1>7 DEF RoutePlan
  <2>2. PICK c \in Channels, p \in Peers : l = <<s, c, p>>
    BY <1>3, <2>1 DEF Of
  <2>3. Bundle(s, p) \subseteq direct
    BY <1>4, <1>5, <2>1, <2>2 DEF Whole
  <2>4. ASSUME NEW m \in RoutePlan(s) PROVE m \in Bundle(s, p)
    <3>1. PICK d \in Channels, q \in Peers : m = <<s, d, q>> /\ m \in direct
      BY <1>3, <2>4 DEF RoutePlan, Of
    <3>2. <<s, d, p>> \in direct
      BY <1>4, <2>3
    <3> QED
      BY <1>2, <1>4, <3>1, <3>2
  <2>5. Bundle(s, p) \subseteq RoutePlan(s)
    BY <2>3 DEF RoutePlan, Bundle
  <2>6. RoutePlan(s) = Bundle(s, p)
    BY <2>4, <2>5
  <2> QED
    BY <2>6
<1> QED
  BY <1>5, <1>6, <1>7
\* Sets of whole bundles: those of a stream, of a device, of a move, those of
\* such a set whose ports exist, and those of a plan.
LEMMA WholeSets ==
  /\ AllWhole({})
  /\ \A t \in Streams : AllWhole(Of(t))
  /\ \A q \in Peers : AllWhole(At(q))
  /\ \A t \in Streams, q \in Peers : AllWhole(Bundle(t, q))
  /\ \A L \in SUBSET Links : AllWhole(L) => AllWhole(Live(L))
  BY DEF AllWhole, Whole, Bundle, Of, At, Live

\* Adding or removing whole bundles leaves every other bundle as it is.
LEMMA WholeKept ==
  ASSUME NEW D, NEW C, AllWhole(C)
  PROVE  /\ \A s \in Streams, p \in Peers :
              Whole(D, s, p) => Whole(D \ C, s, p) /\ Whole(D \cup C, s, p)
         /\ AllWhole(D) => AllWhole(D \ C) /\ AllWhole(D \cup C)
         /\ OnePartial(D) => OnePartial(D \ C) /\ OnePartial(D \cup C)
<1>1. \A s \in Streams, p \in Peers :
        Whole(D, s, p) => Whole(D \ C, s, p) /\ Whole(D \cup C, s, p)
  BY DEF AllWhole, Whole
<1> QED
  BY <1>1 DEF AllWhole, OnePartial

\* A plan is a set of whole bundles.
LEMMA PlanWhole == PlanBundleInv => \A s \in Streams : AllWhole(plan[s])
<1> SUFFICES ASSUME PlanBundleInv, NEW s \in Streams PROVE AllWhole(plan[s])
  OBVIOUS
<1>1. CASE plan[s] = {}
  BY <1>1 DEF AllWhole, Whole
<1>2. CASE plan[s] # {}
  <2>1. PICK p \in Peers : plan[s] = Bundle(s, p)
    BY <1>2 DEF PlanBundleInv
  <2> QED
    BY <2>1 DEF AllWhole, Whole, Bundle, Of, At
<1> QED
  BY <1>1, <1>2

\* Others leave at most one bundle of a stream in pieces, and never one that the
\* daemon is about to confirm.
LEMMA OthersStep ==
  ASSUME ~SplitMoves, RouteInv, PolicyInv, LinkInv, BundleInv, Environment
  PROVE  BundleInv'
<1> USE DEF RouteInv, TypeOK, BundleInv, daemon, work, mode
<1>1. ASSUME UNCHANGED <<direct, made>>, UNCHANGED severed, UNCHANGED daemon
      PROVE  BundleInv'
  BY <1>1 DEF PlanBundleInv, JournalBundleInv, OnePartial, PiecesInv, Routed, Installing,
              RestoreInv, RecreateInv, AllWhole, Whole
<1>2. ASSUME NEW C, AllWhole(C), direct' = direct \ C, made' = made \ C,
             severed' \subseteq severed, UNCHANGED daemon
      PROVE  BundleInv'
  <2>1. PlanBundleInv' /\ JournalBundleInv'
    BY <1>2 DEF PlanBundleInv, JournalBundleInv, AllWhole, Whole
  <2>0. \A s \in Streams, p \in Peers : Whole(direct, s, p) => Whole(direct', s, p)
    BY <1>2, WholeKept
  <2>2. OnePartial(direct)'
    BY <2>0 DEF OnePartial, Whole
  <2>3. PiecesInv'
    BY <1>2, <2>0 DEF PiecesInv, Routed, Installing, Whole
  <2>4. RestoreInv'
    <3>1. ASSUME pc \in {"rollback", "restore"} PROVE made' = {} \/ wanted \subseteq direct'
      <4>1. wanted \subseteq plan[cur] /\ made \subseteq plan[cur] /\ cur \in Streams
        BY <3>1 DEF RestoreInv, PolicyInv, ModeInv, InstallingInv, Installing
      <4>2. plan[cur] \subseteq C \/ plan[cur] \cap C = {}
        BY <1>2, <4>1 DEF PlanBundleInv, AllWhole, Whole
      <4>3. CASE plan[cur] \subseteq C
        BY <1>2, <4>1, <4>3
      <4>4. CASE plan[cur] \cap C = {}
        BY <1>2, <3>1, <4>1, <4>4 DEF RestoreInv
      <4> QED
        BY <4>2, <4>3, <4>4
    <3> QED
      BY <1>2, <3>1 DEF RestoreInv
  <2>5. RecreateInv'
    <3> SUFFICES ASSUME pc = "recreate"
                 PROVE  /\ OnePartial(direct' \ made')
                        /\ \A s \in Streams, p \in Peers :
                             Bundle(s, p) \cap made' # {} => Bundle(s, p) \subseteq direct'
      BY <1>2 DEF RecreateInv, OnePartial, Whole
    <3>1. direct' \ made' = (direct \ made) \ C
      BY <1>2
    <3>2. OnePartial(direct' \ made')
      BY <1>2, <3>1, WholeKept DEF RecreateInv
    <3> QED
      BY <1>2, <3>2 DEF RecreateInv, AllWhole, Whole
  <2> QED
    BY <2>1, <2>2, <2>3, <2>4, <2>5
<1>3. ASSUME NEW C, AllWhole(C), direct' = direct \cup C, made' = made,
             severed' \subseteq severed, UNCHANGED daemon
      PROVE  BundleInv'
  <2>1. PlanBundleInv' /\ JournalBundleInv'
    BY <1>3 DEF PlanBundleInv, JournalBundleInv, AllWhole, Whole
  <2>0. \A s \in Streams, p \in Peers : Whole(direct, s, p) => Whole(direct', s, p)
    BY <1>3, WholeKept
  <2>2. OnePartial(direct)'
    BY <2>0 DEF OnePartial, Whole
  <2>3. PiecesInv'
    BY <1>3, <2>0 DEF PiecesInv, Routed, Installing, Whole
  <2>4. RestoreInv'
    BY <1>3 DEF RestoreInv
  <2>5. RecreateInv'
    <3> SUFFICES ASSUME pc = "recreate"
                 PROVE  OnePartial(direct' \ made')
      BY <1>3 DEF RecreateInv, OnePartial, Whole
    <3>1. ASSUME NEW s \in Streams, NEW p \in Peers, Whole(direct \ made, s, p)
          PROVE  Whole(direct' \ made', s, p)
      <4>1. CASE Bundle(s, p) \cap made # {}
        <5>1. Bundle(s, p) \subseteq direct
          BY <4>1 DEF RecreateInv
        <5> QED
          BY <1>3, <3>1, <5>1 DEF Whole
      <4>2. CASE Bundle(s, p) \cap made = {}
        <5>1. Whole(direct, s, p)
          BY <3>1, <4>2 DEF Whole
        <5>2. Whole(direct', s, p)
          BY <1>3, <5>1, WholeKept
        <5> QED
          BY <1>3, <4>2, <5>2 DEF Whole
      <4> QED
        BY <4>1, <4>2
    <3> QED
      BY <3>1 DEF RecreateInv, OnePartial
  <2> QED
    BY <2>1, <2>2, <2>3, <2>4, <2>5
<1>4. ASSUME NEW s \in Streams, AppStart(s) PROVE BundleInv'
  BY <1>1, <1>4 DEF AppStart
<1>5. ASSUME NEW s \in Streams, AppExit(s) PROVE BundleInv'
  BY <1>2, <1>5, WholeSets DEF AppExit, Vanish
<1>6. ASSUME NEW p \in Peers, DeviceLost(p) PROVE BundleInv'
  BY <1>2, <1>6, WholeSets DEF DeviceLost, Vanish
<1>7. ASSUME NEW p \in Peers, DeviceBack(p) PROVE BundleInv'
  BY <1>1, <1>7 DEF DeviceBack
<1>8. ASSUME NEW B \in Bundles, Linked(B) PROVE BundleInv'
  BY <1>3, <1>8, WholeMoves, WholeSets DEF Linked, Unlinked
<1>9. ASSUME NEW B \in Bundles, Unlink(B) PROVE BundleInv'
  BY <1>2, <1>9, WholeMoves, WholeSets DEF Unlink
<1>10. ASSUME NEW B \in Bundles, ChainBroken(B) PROVE BundleInv'
  BY <1>1, <1>10 DEF ChainBroken
<1> QED
  BY <1>4, <1>5, <1>6, <1>7, <1>8, <1>9, <1>10 DEF Environment

\* A record of whole plans is a set of whole bundles.
LEMMA RecordedWhole ==
  ASSUME NEW m, NEW q, \A s \in Streams : AllWhole(q[s])
  PROVE  AllWhole(Recorded(m, q))
<1> SUFFICES ASSUME NEW s \in Streams, NEW p \in Peers, NEW l \in Recorded(m, q), l \in Bundle(s, p)
             PROVE  Bundle(s, p) \subseteq Recorded(m, q)
  BY DEF AllWhole, Whole
<1>1. PICK t \in Active(m) : l \in q[t]
  BY DEF Recorded
<1>2. t \in Streams
  BY DEF Active
<1>3. Bundle(s, p) \subseteq q[t]
  BY <1>1, <1>2 DEF AllWhole, Whole
<1> QED
  BY <1>1, <1>3 DEF Recorded

\* The ports of a plan's links all exist, or none of its links has both.
LEMMA PlanLive ==
  ASSUME TypeOK, PlanBundleInv, NEW s \in Streams
  PROVE  Live(plan[s]) = plan[s] \/ Live(plan[s]) = {}
<1>1. CASE plan[s] = {}
  BY <1>1 DEF Live
<1>2. CASE plan[s] # {}
  BY <1>2 DEF PlanBundleInv, Live, Bundle, Of, At
<1> QED
  BY <1>1, <1>2

\* Links requested are all there, or none was made: a wait that is not cut short
\* ends without taking a link away.
LEMMA WaitEnds ==
  ASSUME "slow" \notin Faults, RestoreInv, pc \in {"rollback", "restore"}, Confirmed \/ Unconfirmed
  PROVE  direct' = direct
<1>1. CASE Confirmed
  BY <1>1 DEF Confirmed
<1>2. CASE Unconfirmed
  <2>1. ~(wanted \subseteq direct) /\ direct' = direct \ made
    BY <1>2 DEF Unconfirmed, May
  <2>2. made = {}
    BY <2>1 DEF RestoreInv
  <2> QED
    BY <2>1, <2>2
<1> QED
  BY <1>1, <1>2

\* Recovery and the transitions of routes keep the bundles.
LEMMA TransitionsStep ==
  ASSUME "slow" \notin Faults, RouteInv, RouteInv', PolicyInv, LinkInv, LinkInv', BundleInv,
         RecoverRoutes \/ Recovered \/ (\E s \in Streams : Restore(s) \/ Stage(s))
           \/ Bypassed \/ BypassFailed \/ (\E l \in Links : CutLink(l)) \/ RollBack \/ RolledBack
  PROVE  BundleInv'
<1> USE DEF RouteInv, TypeOK, BundleInv
<1>0. \A s \in Streams : AllWhole(plan[s])
  BY PlanWhole
<1>1. CASE RecoverRoutes
  <2>1. /\ direct' = direct \cup journal
        /\ direct' \ made' = direct
        /\ made' \subseteq journal
    BY <1>1 DEF RecoverRoutes, Request, Live
  <2>2. OnePartial(direct) /\ OnePartial(direct')
    BY <2>1, WholeKept DEF JournalBundleInv
  <2>3. PlanBundleInv' /\ JournalBundleInv' /\ PiecesInv'
    BY <1>1 DEF RecoverRoutes, PlanBundleInv, JournalBundleInv, AllWhole, Whole, PiecesInv, Routed,
                Installing, StartInv
  <2>4. RecreateInv'
    <3>1. \A s \in Streams, p \in Peers : Bundle(s, p) \cap made' # {} => Bundle(s, p) \subseteq direct'
      BY <2>1 DEF JournalBundleInv, AllWhole, Whole
    <3>2. OnePartial(direct' \ made')
      BY <2>1, <2>2
    <3> QED
      BY <3>1, <3>2 DEF RecreateInv, OnePartial, Whole
  <2>5. RestoreInv'
    BY <1>1 DEF RecoverRoutes, RestoreInv
  <2> QED
    BY <2>2, <2>3, <2>4, <2>5 DEF OnePartial, Whole
<1>2. CASE Recovered
  <2>1. OnePartial(direct')
    <3>1. direct' = direct \/ direct' = direct \ made
      BY <1>2 DEF Recovered, Confirmed, Unconfirmed
    <3> QED
      BY <1>2, <3>1 DEF Recovered, RecreateInv
  <2>2. PlanBundleInv' /\ JournalBundleInv' /\ PiecesInv'
    BY <1>2, WholeSets DEF Recovered, Journal, PlanBundleInv, JournalBundleInv, AllWhole, Whole, PiecesInv,
                Routed, Installing, StartInv
  <2>3. RestoreInv' /\ RecreateInv'
    BY <1>2 DEF Recovered, RestoreInv, RecreateInv
  <2> QED
    BY <2>1, <2>2, <2>3 DEF OnePartial, Whole
<1>3. ASSUME NEW s \in Streams, Restore(s) PROVE BundleInv'
  <2>1. direct' = direct \cup Live(plan[s]) /\ AllWhole(Live(plan[s]))
    BY <1>0, <1>3, WholeSets DEF Restore, Request
  <2>2. \A t \in Streams, p \in Peers : Whole(direct, t, p) => Whole(direct', t, p)
    BY <2>1, WholeKept
  <2>3. OnePartial(direct)'
    BY <2>2 DEF OnePartial, Whole
  <2>4. PlanBundleInv' /\ JournalBundleInv'
    BY <1>3 DEF Restore, PlanBundleInv, JournalBundleInv, AllWhole, Whole
  <2>5. PiecesInv'
    BY <1>3, <2>2 DEF Restore, PiecesInv, Routed, Installing, Whole
  <2>6. RestoreInv'
    BY <1>3, <2>1, PlanLive DEF Restore, Request, RestoreInv
  <2>7. RecreateInv'
    BY <1>3 DEF Restore, RecreateInv
  <2> QED
    BY <2>3, <2>4, <2>5, <2>6, <2>7
<1>4. ASSUME NEW s \in Streams, Stage(s) PROVE BundleInv'
  <2>1. /\ RoutePlan(s) # {} => \E p \in Peers : RoutePlan(s) = Bundle(s, p)
        /\ severed \cap Of(s) = {}
        /\ \A p \in Peers : Whole(direct, s, p)
    BY <1>4, ReadyBundle DEF Stage
  <2>2. PlanBundleInv'
    BY <1>4, <2>1 DEF Stage, PlanBundleInv
  <2>3. JournalBundleInv'
    <3>1. AllWhole(Recorded(managed', plan))
      BY <1>0, RecordedWhole
    <3>2. AllWhole(RoutePlan(s))
      <4>1. CASE RoutePlan(s) = {}
        BY <4>1 DEF AllWhole, Whole
      <4>2. CASE RoutePlan(s) # {}
        <5>1. PICK p \in Peers : RoutePlan(s) = Bundle(s, p)
          BY <2>1, <4>2
        <5> QED
          BY <5>1 DEF AllWhole, Whole, Bundle, Of, At
      <4> QED
        BY <4>1, <4>2
    <3>3. AllWhole(Recorded(managed', plan) \cup RoutePlan(s))
      BY <3>1, <3>2, WholeKept
    <3>4. journal' = journal \/ journal' = Recorded(managed', plan) \cup RoutePlan(s)
      BY <1>4 DEF Stage
    <3>5. AllWhole(journal')
      BY <3>3, <3>4 DEF JournalBundleInv
    <3> QED
      BY <3>5 DEF JournalBundleInv, AllWhole, Whole
  <2>4. OnePartial(direct)'
    BY <1>4 DEF Stage, OnePartial, Whole
  <2>5. PiecesInv'
    BY <1>4, <2>1 DEF Stage, PiecesInv, Routed, Installing, Whole
  <2>6. RestoreInv' /\ RecreateInv'
    BY <1>4, <2>1 DEF Stage, RestoreInv, RecreateInv, RoutePlan
  <2> QED
    BY <2>2, <2>3, <2>4, <2>5, <2>6
<1>5. CASE Bypassed \/ BypassFailed
  <2>1. direct' = direct
    BY <1>5, WaitEnds DEF Bypassed, BypassFailed
  <2>2. \A s \in Streams : plan'[s] = plan[s] \/ plan'[s] = {}
    BY <1>5 DEF Bypassed, BypassFailed
  <2>3. PlanBundleInv'
    BY <2>2 DEF PlanBundleInv
  <2>4. JournalBundleInv'
    <3>1. \A s \in Streams : AllWhole(plan'[s])
      BY <1>0, <2>2, WholeSets
    <3>2. AllWhole(Recorded(managed', plan'))
      BY <3>1, RecordedWhole
    <3>3. journal' = journal \/ journal' = Recorded(managed', plan')
      BY <1>5 DEF Bypassed, BypassFailed, Return, Journal
    <3>4. AllWhole(journal')
      BY <3>2, <3>3 DEF JournalBundleInv
    <3> QED
      BY <3>4 DEF JournalBundleInv, AllWhole, Whole
  <2>5. OnePartial(direct)'
    BY <2>1 DEF OnePartial, Whole
  <2>6. pc' \in {"reconcile", "batch"}
    BY <1>5 DEF Bypassed, BypassFailed, Return
  <2>7. \A s \in Streams : managed'[s] = "active" => managed[s] = "active" /\ plan'[s] = plan[s]
    BY <1>5 DEF Bypassed, BypassFailed
  <2>8. PiecesInv'
    BY <2>1, <2>6, <2>7 DEF PiecesInv, Routed, Installing, Whole
  <2>9. RestoreInv' /\ RecreateInv'
    BY <2>6 DEF RestoreInv, RecreateInv
  <2> QED
    BY <2>3, <2>4, <2>5, <2>8, <2>9
<1>6. ASSUME NEW l \in Links, CutLink(l) PROVE BundleInv'
  <2>1. /\ direct' = direct \ {l} /\ l \in plan[cur] /\ pc = "cut" /\ cur \in Streams
        /\ UNCHANGED <<plan, journal, managed, pc, cur>>
    BY <1>6 DEF CutLink, work, InstallingInv, Installing
  <2>2. l[1] = cur /\ PlanBundleInv' /\ JournalBundleInv'
    BY <2>1 DEF PlanInv, PlanBundleInv, JournalBundleInv, AllWhole, Whole
  <2>3. \A s \in Streams, p \in Peers :
          Whole(direct, s, p) /\ ~(s = cur /\ Bundle(s, p) = plan[s]) => Whole(direct', s, p)
    <3> SUFFICES ASSUME NEW s \in Streams, NEW p \in Peers,
                        Whole(direct, s, p), l \in Bundle(s, p)
                 PROVE  s = cur /\ Bundle(s, p) = plan[s]
      BY <2>1 DEF Whole
    <3>1. s = cur
      BY <2>2 DEF Bundle, Of
    <3>2. PICK q \in Peers : plan[cur] = Bundle(cur, q)
      BY <2>1 DEF PlanBundleInv
    <3>3. l[3] = p /\ l[3] = q
      BY <2>1, <3>2 DEF Bundle, At
    <3> QED
      BY <3>1, <3>2, <3>3
  <2>4. PiecesInv'
    BY <2>1, <2>3 DEF PiecesInv, Routed, Installing, Whole
  <2>5. OnePartial(direct')
    <3>1. \A p, q \in Peers :
            Bundle(cur, p) = plan[cur] /\ Bundle(cur, q) = plan[cur] => p = q
      BY <2>1 DEF Bundle, At
    <3>2. \A p \in Peers : Bundle(cur, p) = plan[cur] \/ Whole(direct', cur, p)
      BY <2>1, <2>3 DEF PiecesInv, Routed, Installing
    <3>3. \A s \in Streams, p, q \in Peers :
            s # cur => p = q \/ Whole(direct', s, p) \/ Whole(direct', s, q)
      BY <2>3 DEF OnePartial
    <3> QED
      BY <3>1, <3>2, <3>3 DEF OnePartial
  <2>6. RestoreInv' /\ RecreateInv'
    BY <2>1 DEF RestoreInv, RecreateInv
  <2> QED
    BY <2>2, <2>4, <2>5, <2>6 DEF OnePartial, Whole
<1>7. CASE RollBack
  <2>1. PICK L : /\ Request(L) /\ (L = plan[cur] \ originals \/ L = plan[cur])
                 /\ L # plan[cur] \ originals => originals = {}
    BY <1>7 DEF RollBack
  <2>2. /\ pc' = "rollback" /\ cur \in Streams /\ originals \subseteq plan[cur]
        /\ UNCHANGED <<plan, journal, managed, cur>>
    BY <1>7 DEF RollBack, work, InstallingInv, Installing
  <2>3. direct' = direct \cup Live(plan[cur])
    BY <2>1, <2>2 DEF Request, Live, LinkInv
  <2>4. Live(plan[cur]) = plan[cur] \/ Live(plan[cur]) = {}
    BY <2>2, PlanLive
  <2>5. \A s \in Streams, p \in Peers : Whole(direct, s, p) => Whole(direct', s, p)
    BY <1>0, <2>2, <2>3, WholeKept, WholeSets
  <2>6. OnePartial(direct)' /\ PiecesInv' /\ PlanBundleInv' /\ JournalBundleInv'
    BY <1>7, <2>2, <2>5 DEF OnePartial, PiecesInv, Routed, Installing, PlanBundleInv,
                            JournalBundleInv, AllWhole, Whole, RollBack
  <2>7. severed' \cap plan[cur] = {}
    <3> SUFFICES ASSUME NEW l \in severed', l \in plan[cur] PROVE FALSE
      OBVIOUS
    <3>1. l \in severed /\ l \in Live(plan[cur])
      BY <2>1 DEF Request, Unlinked, LinkInv, Live
    <3>2. l \in direct'
      BY <2>3, <3>1
    <3> QED
      BY <3>2 DEF LinkInv
  <2>8. RestoreInv' /\ RecreateInv'
    <3>1. wanted' \subseteq plan[cur] /\ made' \subseteq wanted' /\ made' \subseteq Live(plan[cur])
      BY <2>1 DEF Request, Live
    <3>2. made' = {} \/ wanted' \subseteq direct'
      BY <2>3, <2>4, <3>1
    <3> QED
      BY <2>2, <2>7, <3>1, <3>2 DEF RestoreInv, RecreateInv
  <2> QED
    BY <2>6, <2>8
<1>8. CASE RolledBack
  <2>1. direct' = direct
    BY <1>8, WaitEnds DEF RolledBack
  <2>2. /\ plan' = [plan EXCEPT ![cur] = {}] /\ managed' = managed /\ pc' = "connect"
        /\ cur \in Streams /\ managed[cur] = "none"
    BY <1>8 DEF RolledBack, Abandon, InstallingInv, Installing
  <2>3. \A s \in Streams : plan'[s] = plan[s] \/ plan'[s] = {}
    BY <2>2
  <2>4. JournalBundleInv'
    <3>1. \A s \in Streams : AllWhole(plan'[s])
      BY <1>0, <2>3, WholeSets
    <3>2. AllWhole(Recorded(managed, plan'))
      BY <3>1, RecordedWhole
    <3>3. journal' = journal \/ journal' = Recorded(managed, plan')
      BY <1>8 DEF RolledBack, Abandon, Journal
    <3>4. AllWhole(journal')
      BY <3>2, <3>3 DEF JournalBundleInv
    <3> QED
      BY <3>4 DEF JournalBundleInv, AllWhole, Whole
  <2>5. PlanBundleInv' /\ OnePartial(direct)' /\ PiecesInv'
    BY <2>1, <2>2, <2>3 DEF PlanBundleInv, OnePartial, Whole, PiecesInv, Routed, Installing
  <2>6. RestoreInv' /\ RecreateInv'
    BY <2>2 DEF RestoreInv, RecreateInv
  <2> QED
    BY <2>4, <2>5, <2>6
<1> QED
  BY <1>1, <1>2, <1>3, <1>4, <1>5, <1>6, <1>7, <1>8

\* Every step keeps the bundles, as long as others move streams as a whole and
\* the server answers in time.
LEMMA BundleStep ==
  ASSUME ~SplitMoves, "slow" \notin Faults, RouteInv, RouteInv', PolicyInv, LinkInv, LinkInv',
         BundleInv, [Next]_vars
  PROVE  BundleInv'
<1> USE DEF RouteInv, TypeOK, BundleInv
<1>0. \A s \in Streams : AllWhole(plan[s])
  BY PlanWhole
\* Steps that leave the links alone and end routes, or none.
<1>a. ASSUME UNCHANGED direct, pc' \notin {"stage", "cut", "rollback", "restore", "recreate"},
             \A s \in Streams : plan'[s] = plan[s] \/ plan'[s] = {},
             \A s \in Streams : managed'[s] = "active" =>
               plan'[s] = plan[s] /\ Routed(s),
             journal' \in {{}, journal, Recorded(managed, plan), Recorded(managed', plan')}
      PROVE  BundleInv'
  <2>1. PlanBundleInv' /\ OnePartial(direct)' /\ PiecesInv'
    BY <1>a DEF PlanBundleInv, OnePartial, PiecesInv, Routed, Installing, Whole
  <2>2. JournalBundleInv'
    <3>1. \A s \in Streams : AllWhole(plan'[s])
      BY <1>0, <1>a, WholeSets
    <3>2. AllWhole(Recorded(managed', plan')) /\ AllWhole(Recorded(managed, plan))
      BY <1>0, <3>1, RecordedWhole
    <3>3. AllWhole(journal')
      BY <1>a, <3>2, WholeSets DEF JournalBundleInv
    <3> QED
      BY <3>3 DEF JournalBundleInv, AllWhole, Whole
  <2>3. RestoreInv' /\ RecreateInv'
    BY <1>a DEF RestoreInv, RecreateInv
  <2> QED
    BY <2>1, <2>2, <2>3
<1>1. CASE Environment
  BY <1>1, OthersStep
<1>2. CASE RecoverNothing
  BY <1>2, <1>a DEF RecoverNothing, Journal, graph, work, route, Routed
<1>3. CASE RecoverRoutes \/ Recovered
  BY <1>3, TransitionsStep
<1>4. CASE Survey
  BY <1>4, <1>a DEF Survey, Journal, Routed
<1>5. ASSUME NEW s \in Streams, Release(s) PROVE BundleInv'
  BY <1>5, <1>a DEF Release, Journal, Routed
<1>6. ASSUME NEW s \in Streams, Restore(s) \/ Stage(s) PROVE BundleInv'
  BY <1>6, TransitionsStep
<1>7. CASE Bypassed \/ BypassFailed
  BY <1>7, TransitionsStep
<1>8. CASE Reconciled \/ Connected \/ EndRequests
  BY <1>8, <1>a DEF Reconciled, Connected, EndRequests, graph, route, Routed
<1>9. CASE Discover
  BY <1>9, <1>a DEF Discover, graph, Routed
<1>10. ASSUME NEW s \in Streams, Defer(s) \/ Unroutable(s) PROVE BundleInv'
  BY <1>10, <1>a DEF Defer, Unroutable, graph, route, Routed
<1>11. CASE Staged
  BY <1>11 DEF Staged, graph, route, work, PlanBundleInv, JournalBundleInv, AllWhole, OnePartial, PiecesInv,
               Routed, Installing, Whole, RestoreInv, RecreateInv
<1>12. CASE StageFailed
  BY <1>12, <1>a DEF StageFailed, Abandon, Journal, Routed, InstallingInv, Installing
<1>13. ASSUME NEW l \in Links, CutLink(l) PROVE BundleInv'
  BY <1>13, TransitionsStep
<1>14. CASE Installed
  BY <1>14, <1>a DEF Installed, Routed, Installing
<1>15. CASE RollBack \/ RolledBack
  BY <1>15, TransitionsStep
<1>16. ASSUME NEW ok \in BOOLEAN, Disabled(ok) \/ Reconfigured(ok) PROVE BundleInv'
  BY <1>16, <1>a DEF Disabled, Reconfigured, BatchResult, Journal, graph, route, Routed
<1>17. ASSUME NEW ok \in BOOLEAN, Stopped(ok) PROVE BundleInv'
  BY <1>17, <1>a DEF Stopped, BatchResult, Journal, Exit, Routed
<1>18. CASE Crash
  BY <1>18, <1>a DEF Crash, Exit, Routed
<1>19. CASE Enable \/ Start
  BY <1>19, <1>a DEF Enable, Start, graph, route, Routed, Down
<1>20. ASSUME NEW why \in {"disable", "reconfigure", "stop"}, Begin(why) PROVE BundleInv'
  BY <1>20, <1>a DEF Begin, Taken, Routed
<1>21. CASE UNCHANGED vars
  BY <1>21 DEF vars, graph, route, work, PlanBundleInv, JournalBundleInv, AllWhole, OnePartial, PiecesInv,
               Routed, Installing, Whole, RestoreInv, RecreateInv
<1> QED
  BY <1>1, <1>2, <1>3, <1>4, <1>5, <1>6, <1>7, <1>8, <1>9, <1>10, <1>11, <1>12, <1>13, <1>14,
     <1>15, <1>16, <1>17, <1>18, <1>19, <1>20, <1>21
     DEF Next, Step, Recover, Tick, Finish

\* Together with the invariants of the routes and of the requests, it is inductive.
LEMMA BundleInvariant ==
  ASSUME ~SplitMoves, "slow" \notin Faults
  PROVE  Spec => [](RouteInv /\ PolicyInv /\ LinkInv /\ BundleInv)
<1>1. Init => LinkInv /\ BundleInv
  BY DEF Init, LinkInv, BundleInv, PlanBundleInv, JournalBundleInv, AllWhole, OnePartial, PiecesInv,
         Routed, Installing, Whole, RestoreInv, RecreateInv
<1>2. (LinkInv /\ BundleInv) /\ (RouteInv /\ PolicyInv) /\ (RouteInv /\ PolicyInv)' /\ [Next]_vars =>
        (LinkInv /\ BundleInv)'
  BY LinkStep, BundleStep
<1> QED
  BY <1>1, <1>2, PolicyInvariant, PTL DEF Spec

\* As long as the server answers in time and others move a stream as a whole, an
\* installation that is given up leaves none of its originals severed.
THEOREM RestoreCorrect ==
  ASSUME ~SplitMoves, "slow" \notin Faults
  PROVE  Spec => FailedInstallRestores
<1>1. ASSUME RouteInv, LinkInv, BundleInv, [Next]_vars, pc' = "connect", pc \in {"stage", "rollback"}
      PROVE  severed' \cap plan[cur] = {}
  <2>1. StageFailed \/ RolledBack \/ severed' \subseteq severed
    BY <1>1 DEF Next, Environment, Step, Recover, Tick, Finish, vars, daemon,
         AppStart, AppExit, DeviceLost, DeviceBack, Linked, Unlink, ChainBroken, Vanish, Unlinked,
         RecoverNothing, RecoverRoutes, Recovered, Survey, Release, Restore, Bypassed, BypassFailed,
         Reconciled, Discover, Defer, Unroutable, Stage, Staged, 
         CutLink, Installed, RollBack, Connected, EndRequests,
         Disabled, Reconfigured, Stopped, BatchResult, Enable, Begin, Crash, Exit, Start, Down
  <2>2. severed' \subseteq severed
    BY <1>1, <2>1 DEF StageFailed, RolledBack, Confirmed, Unconfirmed, Unlinked, May, BundleInv, RestoreInv
  <2> QED
    BY <1>1, <2>2 DEF BundleInv, RestoreInv
<1>2. RouteInv /\ PolicyInv /\ LinkInv /\ BundleInv /\ [Next]_vars =>
        [ pc' = "connect" /\ pc \in {"stage", "rollback"} => severed' \cap plan[cur] = {} ]_vars
  BY <1>1
<1> QED
  BY <1>2, BundleInvariant, PTL DEF Spec, FailedInstallRestores

-----------------------------------------------------------------------------
(* A single stream *)

\* The bundle a stream was routed by is all there or all gone.
WholePlan(s) == plan[s] \subseteq direct \/ plan[s] \cap direct = {}

\* A route loses its replacement links only with the ports of its bundle, as long
\* as nobody else breaks them: an original link put back, or cut, on its own is
\* one of a healthy route.
HealthInv ==
  /\ \A s \in Streams : managed[s] = "active" => Healthy(s) \/ WholePlan(s)
  /\ pc = "stage" => WholePlan(cur)
  /\ pc = "cut" => Healthy(cur) \/ (originals = {} /\ WholePlan(cur))

\* Every step keeps that.
LEMMA HealthStep ==
  ASSUME ~SplitMoves, "slow" \notin Faults, "break" \notin Others,
         RouteInv, PolicyInv, LinkInv, BundleInv, HealthInv, [Next]_vars
  PROVE  HealthInv'
<1> USE DEF RouteInv, TypeOK, InstallingInv, Installing, BundleInv, HealthInv, WholePlan, Healthy
<1>0. \A s \in Streams : AllWhole(plan[s])
  BY PlanWhole
<1>1. ASSUME NEW C, AllWhole(C), direct' = direct \ C, chain' \in {chain, chain \ C},
             chain' = chain \ C => originals' = originals \ C,
             originals' \subseteq originals,
             UNCHANGED daemon, UNCHANGED work
      PROVE  HealthInv'
  <2>1. \A s \in Streams : plan[s] \subseteq C \/ plan[s] \cap C = {}
    BY <1>1 DEF PlanBundleInv, AllWhole, Whole
  <2>2. \A s \in Streams : managed[s] = "active" => (Healthy(s) \/ WholePlan(s))'
    BY <1>1, <2>1 DEF daemon
  <2>3. pc \in {"stage", "cut"} =>
          cur \in Streams /\ (plan[cur] \subseteq C \/ plan[cur] \cap C = {}) /\ originals \subseteq plan[cur]
    BY <2>1
  <2>4. pc = "stage" => WholePlan(cur)'
    BY <1>1, <2>3 DEF daemon, work
  <2>5. pc = "cut" => (Healthy(cur) \/ (originals = {} /\ WholePlan(cur)))'
    BY <1>1, <2>3 DEF daemon, work
  <2> QED
    BY <1>1, <2>2, <2>4, <2>5 DEF daemon
<1>2. ASSUME NEW s \in Streams, AppStart(s) \/ AppExit(s) PROVE HealthInv'
  <2>1. CASE AppStart(s)
    BY <2>1 DEF AppStart, daemon, work
  <2>2. CASE AppExit(s)
    BY <1>1, <2>2, WholeSets DEF AppExit, Vanish, daemon
  <2> QED
    BY <1>2, <2>1, <2>2
<1>3. ASSUME NEW p \in Peers, DeviceLost(p) \/ DeviceBack(p) PROVE HealthInv'
  <2>1. CASE DeviceBack(p)
    BY <2>1 DEF DeviceBack, daemon, work
  <2>2. CASE DeviceLost(p)
    BY <1>1, <2>2, WholeSets DEF DeviceLost, Vanish, daemon
  <2> QED
    BY <1>3, <2>1, <2>2
<1>4. ASSUME NEW B \in Bundles, Linked(B) PROVE HealthInv'
  <2>1. AllWhole(B)
    BY WholeMoves, WholeSets
  <2>2. \A s \in Streams : WholePlan(s) => WholePlan(s)'
    BY <1>4, <2>1 DEF PlanBundleInv, AllWhole, Whole, Linked, daemon
  <2> QED
    BY <1>4, <2>2 DEF Linked, daemon, work
<1>5. ASSUME NEW B \in Bundles, Unlink(B) PROVE HealthInv'
  BY <1>1, <1>5, WholeMoves, WholeSets DEF Unlink, daemon
<1>6. CASE Recover
  BY <1>6 DEF Recover, RecoverNothing, RecoverRoutes, Recovered, StartInv, graph, work, route
<1>7. CASE Survey
  BY <1>7 DEF Survey, PlanInv
<1>8. ASSUME NEW s \in Streams, Release(s) PROVE HealthInv'
  <2>1. \A t \in Streams : t # s => plan[t] \cap plan[s] = {}
    BY DEF PlanInv
  <2> QED
    BY <1>8, <2>1 DEF Release, Destroyed
<1>9. ASSUME NEW s \in Streams, Restore(s) PROVE HealthInv'
  <2>1. AllWhole(Live(plan[s])) /\ direct' = direct \cup Live(plan[s])
    BY <1>0, <1>9, WholeSets DEF Restore, Request
  <2>2. \A t \in Streams : WholePlan(t) => WholePlan(t)'
    BY <1>9, <2>1 DEF PlanBundleInv, AllWhole, Whole, Restore
  <2> QED
    BY <1>9, <2>2 DEF Restore
<1>10. CASE Bypassed \/ BypassFailed
  <2>1. direct' = direct /\ pc' \in {"reconcile", "batch"}
    <3>1. pc = "restore" /\ (Confirmed \/ Unconfirmed) /\ Return
      BY <1>10 DEF Bypassed, BypassFailed
    <3>2. direct' = direct
      BY <3>1, WaitEnds
    <3> QED
      BY <3>1, <3>2 DEF Return
  <2>2. \A t \in Streams : t # cur => plan[t] \cap plan[cur] = {}
    BY <1>10 DEF Bypassed, BypassFailed, PlanInv, PolicyInv, ModeInv
  <2> QED
    BY <1>10, <2>1, <2>2 DEF Bypassed, BypassFailed, Destroyed
<1>11. CASE Reconciled \/ Connected \/ EndRequests \/ Staged
  BY <1>11 DEF Reconciled, Connected, EndRequests, Staged, graph, route, work
<1>12. CASE Discover
  BY <1>12 DEF Discover, graph
<1>13. ASSUME NEW s \in Streams, Defer(s) \/ Unroutable(s) PROVE HealthInv'
  BY <1>13 DEF Defer, Unroutable, graph, route
<1>14. ASSUME NEW s \in Streams, Stage(s) PROVE HealthInv'
  BY <1>14 DEF Stage, RoutePlan
<1>15. CASE StageFailed \/ RolledBack
  <2>1. direct' = direct /\ pc' = "connect"
    <3>1. CASE StageFailed
      BY <3>1 DEF StageFailed, Abandon
    <3>2. CASE RolledBack
      BY <3>2, WaitEnds DEF RolledBack, Abandon
    <3> QED
      BY <1>15, <3>1, <3>2
  <2>2. \A t \in Streams : t # cur => plan[t] \cap plan[cur] = {}
    BY <1>15 DEF StageFailed, RolledBack, PlanInv
  <2> QED
    BY <1>15, <2>1, <2>2 DEF StageFailed, RolledBack, Abandon, Destroyed
<1>16. ASSUME NEW l \in Links, CutLink(l) PROVE HealthInv'
  <2>1. \A s \in Streams : s # cur => l \notin plan[s]
    BY <1>16 DEF CutLink, PlanInv
  <2> QED
    BY <1>16, <2>1 DEF CutLink, work
<1>17. CASE Installed
  BY <1>17 DEF Installed
<1>18. CASE RollBack
  <2>1. direct' = direct \cup Live(plan[cur]) /\ AllWhole(Live(plan[cur]))
    BY <1>0, <1>18, WholeSets DEF RollBack, Request, Live, LinkInv
  <2>2. \A t \in Streams : WholePlan(t) => WholePlan(t)'
    BY <1>18, <2>1 DEF PlanBundleInv, AllWhole, Whole, RollBack
  <2> QED
    BY <1>18, <2>2 DEF RollBack
<1>19. ASSUME NEW ok \in BOOLEAN, Disabled(ok) \/ Reconfigured(ok) \/ Stopped(ok) PROVE HealthInv'
  BY <1>19 DEF Disabled, Reconfigured, Stopped, Exit, graph, route
<1>20. CASE Crash \/ Enable \/ Start
  BY <1>20 DEF Crash, Exit, Enable, Start, graph, route
<1>21. ASSUME NEW why \in {"disable", "reconfigure", "stop"}, Begin(why) PROVE HealthInv'
  BY <1>21 DEF Begin, Taken
<1>22. CASE UNCHANGED vars
  BY <1>22 DEF vars, graph, route, work
<1>23. ASSUME NEW B \in Bundles, ChainBroken(B) PROVE HealthInv'
  BY <1>23 DEF ChainBroken
<1> QED
  BY <1>2, <1>3, <1>4, <1>5, <1>6, <1>7, <1>8, <1>9, <1>10, <1>11, <1>12, <1>13, <1>14,
     <1>15, <1>16, <1>17, <1>18, <1>19, <1>20, <1>21, <1>22, <1>23
     DEF Next, Environment, Step, Tick, Finish

\* Links stay severed only for an active route, a cutover, or a daemon that has
\* gone and left them on record.
SeveredInv ==
  /\ pc \in {"stage", "rollback", "recreate", "restore"} => severed = {}
  /\ severed # {} =>
       \/ \E s \in Streams : /\ managed[s] = "active" \/ (pc = "cut" /\ s = cur)
                             /\ severed \subseteq plan[s]
       \/ pc \in Down \cup {"recover"} /\ severed \subseteq journal

\* A route is about to be released only when nothing of it is severed.
StaleInv ==
  /\ stale # {} => pc = "reconcile" \/ (pc = "restore" /\ cause = "reconcile")
  /\ \A s \in stale : managed[s] = "active" => severed = {}

\* Only one stream can be normalized: a second one would share the journal, which
\* a successor gives up as a whole when it cannot restore all of it.
Alone == \A s, t \in Streams : s = t

\* The journal of a single stream names one bundle, which recovery restores as a
\* whole or not at all.
RecordInv ==
  /\ journal # {} => \E s \in Streams, p \in Peers : journal = Bundle(s, p)
  /\ pc = "recreate" =>
       /\ wanted \subseteq journal /\ made \subseteq wanted
       /\ made = {} \/ wanted \subseteq direct

\* What is recorded for a single stream is nothing, or the plan of its route.
LEMMA OneRecorded ==
  ASSUME Alone, NEW m, NEW q
  PROVE  Recorded(m, q) = {} \/ \E s \in Streams : Recorded(m, q) = q[s]
<1>1. CASE Active(m) = {}
  BY <1>1 DEF Recorded
<1>2. ASSUME NEW s \in Active(m) PROVE Recorded(m, q) = q[s] /\ s \in Streams
  <2>1. s \in Streams /\ Active(m) = {s}
    BY <1>2 DEF Active, Alone
  <2> QED
    BY <2>1 DEF Recorded
<1> QED
  BY <1>1, <1>2

\* Every step keeps that, for a single stream.
LEMMA RecordStep ==
  ASSUME Alone, ~SplitMoves, RouteInv, LinkInv, BundleInv, BundleInv', RecordInv, [Next]_vars
  PROVE  RecordInv'
<1> USE DEF RouteInv, TypeOK, BundleInv, RecordInv
<1>1. ASSUME pc' # "recreate",
             \/ journal' \in {{}, journal, Recorded(managed, plan), Recorded(managed', plan')}
             \/ \E s \in Streams : plan'[s] = RoutePlan(s) /\ journal' = RoutePlan(s)
      PROVE  RecordInv'
  <2>1. \A s \in Streams : plan[s] # {} => \E p \in Peers : plan[s] = Bundle(s, p)
    BY DEF PlanBundleInv
  <2>2. \A s \in Streams : plan'[s] # {} => \E p \in Peers : plan'[s] = Bundle(s, p)
    BY DEF PlanBundleInv
  <2>3. CASE journal' \in {{}, journal}
    BY <1>1, <2>3
  <2>4. CASE journal' = Recorded(managed, plan)
    BY <1>1, <2>1, <2>4, OneRecorded
  <2>5. CASE journal' = Recorded(managed', plan')
    BY <1>1, <2>2, <2>5, OneRecorded
  <2>6. ASSUME NEW s \in Streams, plan'[s] = RoutePlan(s), journal' = RoutePlan(s)
        PROVE  RecordInv'
    BY <1>1, <2>2, <2>6
  <2> QED
    BY <1>1, <2>3, <2>4, <2>5, <2>6
<1>2. ASSUME UNCHANGED <<pc, journal, wanted>>, NEW C, AllWhole(C),
             \/ direct' = direct \ C /\ made' = made \ C
             \/ direct' = direct \cup C /\ made' = made
      PROVE  RecordInv'
  <2>1. journal \subseteq C \/ journal \cap C = {}
    BY <1>2 DEF AllWhole, Whole
  <2>2. CASE journal \subseteq C
    BY <1>2, <2>2
  <2>3. CASE journal \cap C = {}
    BY <1>2, <2>3
  <2> QED
    BY <2>1, <2>2, <2>3
<1>3. ASSUME Environment PROVE RecordInv'
  <2>1. UNCHANGED <<pc, journal, wanted>>
    BY <1>3 DEF Environment, AppStart, AppExit, DeviceLost, DeviceBack, Linked, Unlink, ChainBroken, daemon
  <2>2. ASSUME NEW s \in Streams, AppStart(s) \/ AppExit(s) PROVE RecordInv'
    BY <1>2, <2>1, <2>2, WholeSets DEF AppStart, AppExit, Vanish
  <2>3. ASSUME NEW p \in Peers, DeviceLost(p) \/ DeviceBack(p) PROVE RecordInv'
    BY <1>2, <2>1, <2>3, WholeSets DEF DeviceLost, DeviceBack, Vanish
  <2>4. ASSUME NEW B \in Bundles, Linked(B) \/ Unlink(B) \/ ChainBroken(B) PROVE RecordInv'
    BY <1>2, <2>1, <2>4, WholeMoves, WholeSets DEF Linked, Unlink, ChainBroken
  <2> QED
    BY <1>3, <2>2, <2>3, <2>4 DEF Environment
<1>4. CASE RecoverNothing \/ Recovered
  BY <1>1, <1>4 DEF RecoverNothing, Recovered, Journal
<1>5. CASE RecoverRoutes
  BY <1>5 DEF RecoverRoutes, Request, Live
<1>6. CASE Survey
  BY <1>1, <1>6 DEF Survey, Journal
<1>7. ASSUME NEW s \in Streams, Release(s) \/ Restore(s) PROVE RecordInv'
  BY <1>1, <1>7 DEF Release, Restore, Journal
<1>8. CASE Bypassed \/ BypassFailed
  <2>1. journal' \in {journal, Recorded(managed', plan')} /\ pc' # "recreate"
    BY <1>8 DEF Bypassed, BypassFailed, Return, Journal
  <2> QED
    BY <1>1, <2>1
<1>9. CASE Reconciled \/ Connected \/ EndRequests \/ Staged \/ Discover
  BY <1>1, <1>9 DEF Reconciled, Connected, EndRequests, Staged, Discover
<1>10. ASSUME NEW s \in Streams, Defer(s) \/ Unroutable(s) PROVE RecordInv'
  BY <1>1, <1>10 DEF Defer, Unroutable
<1>11. ASSUME NEW s \in Streams, Stage(s) PROVE RecordInv'
  <2>1. Recorded(managed', plan) = {}
    <3>1. \A t \in Streams : managed'[t] = "none"
      BY <1>11 DEF Stage, Alone
    <3> QED
      BY <3>1 DEF Recorded, Active
  <2>2. journal' = journal \/ (plan'[s] = RoutePlan(s) /\ journal' = RoutePlan(s))
    BY <1>11, <2>1 DEF Stage
  <2>3. pc' # "recreate"
    BY <1>11 DEF Stage
  <2> QED
    BY <1>1, <2>2, <2>3
<1>12. CASE StageFailed \/ RolledBack
  BY <1>1, <1>12 DEF StageFailed, RolledBack, Abandon, Journal
<1>13. ASSUME NEW l \in Links, CutLink(l) PROVE RecordInv'
  BY <1>1, <1>13 DEF CutLink
<1>14. CASE Installed \/ RollBack
  BY <1>1, <1>14 DEF Installed, RollBack
<1>15. ASSUME NEW ok \in BOOLEAN, Disabled(ok) \/ Reconfigured(ok) \/ Stopped(ok) PROVE RecordInv'
  <2>1. journal' \in {journal, Recorded(managed, plan)} /\ pc' # "recreate"
    BY <1>15 DEF Disabled, Reconfigured, Stopped, BatchResult, Journal, Exit
  <2> QED
    BY <1>1, <2>1
<1>16. CASE Crash \/ Enable \/ Start
  BY <1>1, <1>16 DEF Crash, Exit, Enable, Start
<1>17. ASSUME NEW why \in {"disable", "reconfigure", "stop"}, Begin(why) PROVE RecordInv'
  BY <1>1, <1>17 DEF Begin
<1>18. CASE UNCHANGED vars
  BY <1>18 DEF vars, graph, route
<1> QED
  BY <1>3, <1>4, <1>5, <1>6, <1>7, <1>8, <1>9, <1>10, <1>11, <1>12, <1>13, <1>14,
     <1>15, <1>16, <1>17, <1>18
     DEF Next, Step, Recover, Tick, Finish

\* A link is severed for an active route or a cutover, of nobody else, or is on
\* record while no daemon runs.
LEMMA SeveredStep ==
  ASSUME Alone, "slow" \notin Faults, "load" \notin Faults,
         RouteInv, RouteInv', PolicyInv, LinkInv, LinkInv', BundleInv, BundleInv', HealthInv,
         SeveredInv, StaleInv, RecordInv, [Next]_vars
  PROVE  SeveredInv' /\ StaleInv'
<1> USE DEF RouteInv, TypeOK, InstallingInv, Installing, SeveredInv, StaleInv, Down
<1>1. CASE Environment
  <2>1. severed' \subseteq severed /\ UNCHANGED daemon
    BY <1>1 DEF Environment, AppStart, AppExit, DeviceLost, DeviceBack, Linked, Unlink, ChainBroken,
                Vanish, Unlinked
  <2> QED
    BY <2>1 DEF daemon, work
<1>2. CASE RecoverNothing
  <2>1. severed \subseteq journal
    BY <1>2 DEF RecoverNothing, StartInv
  <2>2. severed = {}
    <3>1. CASE journal = {}
      BY <2>1, <3>1
    <3>2. CASE Live(journal) # journal
      BY <2>1, <3>2 DEF RecordInv, Bundle, Of, At, Live, LinkInv
    <3>3. CASE journal \subseteq direct
      BY <2>1, <3>3 DEF LinkInv
    <3> QED
      BY <1>2, <3>1, <3>2, <3>3 DEF RecoverNothing, May
  <2> QED
    BY <1>2, <2>2 DEF RecoverNothing, graph, work, route
<1>3. CASE RecoverRoutes
  <2>1. severed \subseteq journal
    BY <1>3 DEF RecoverRoutes, StartInv
  <2>2. severed' \subseteq severed /\ journal \subseteq direct'
    BY <1>3 DEF RecoverRoutes, Request, Unlinked, Live
  <2>3. severed' = {}
    BY <2>1, <2>2 DEF LinkInv
  <2> QED
    BY <1>3, <2>3 DEF RecoverRoutes, work
<1>4. CASE Recovered
  <2>1. severed' = {}
    BY <1>4 DEF Recovered, Confirmed, Unconfirmed, Unlinked, May, RecordInv
  <2> QED
    BY <1>4, <2>1 DEF Recovered, work
<1>5. CASE Survey
  <2>1. \A s \in stale' : managed[s] = "active" => severed = {}
    <3> SUFFICES ASSUME NEW s \in stale', managed[s] = "active", NEW l \in severed
                 PROVE  FALSE
      OBVIOUS
    <3>1. s \in Streams /\ (Superseded(s) \/ EndpointsGone(s))
      BY <1>5 DEF Survey, Active
    <3>2. l \in plan[s]
      BY <1>5, <3>1 DEF Alone, Survey
    <3>3. PICK p \in Peers : plan[s] = Bundle(s, p)
      BY <3>1, <3>2 DEF BundleInv, PlanBundleInv
    <3>4. l \notin direct
      BY DEF LinkInv
    <3>5. plan[s] \cap direct = {} /\ l[1] = s
      BY <3>1, <3>2, <3>4 DEF HealthInv, WholePlan, Superseded, EndpointsGone, PlanInv
    <3>6. CASE Superseded(s)
      <4>1. PICK d \in direct : d \in Of(s)
        BY <3>6 DEF Superseded
      <4>2. PICK q \in Peers : d \in Bundle(s, q)
        BY <4>1 DEF Bundle, Of, At, Links
      <4>3. Bundle(s, q) \subseteq direct
        BY <3>1, <3>5, <4>1, <4>2 DEF BundleInv, PiecesInv, Routed, Whole
      <4>4. PICK c \in Channels : l = <<s, c, l[3]>>
        BY <3>1, <3>5 DEF Links
      <4>5. <<s, c, q>> \in Bundle(s, q)
        BY <3>1 DEF Bundle, Of, At, Links
      <4> QED
        BY <4>3, <4>4, <4>5 DEF LinkInv
    <3>7. CASE EndpointsGone(s)
      BY <3>2, <3>3, <3>7 DEF EndpointsGone, Live, Bundle, Of, At, LinkInv
    <3> QED
      BY <3>1, <3>6, <3>7
  <2>2. \A s \in Streams : managed'[s] = "active" => managed[s] = "active"
    BY <1>5 DEF Survey
  <2>3. StaleInv'
    BY <1>5, <2>1, <2>2 DEF Survey, Active
  <2>4. SeveredInv'
    <3>1. CASE severed = {}
      BY <1>5, <3>1 DEF Survey
    <3>2. CASE severed # {}
      <4>1. PICK s \in Streams : managed[s] = "active" /\ severed \subseteq plan[s]
        BY <1>5, <3>2 DEF Survey
      <4>2. s \in present
        BY <3>2, <4>1 DEF LinkInv, PlanInv
      <4> QED
        BY <1>5, <4>1, <4>2 DEF Survey
    <3> QED
      BY <3>1, <3>2
  <2> QED
    BY <2>3, <2>4
<1>6. ASSUME NEW s \in Streams, Release(s) PROVE SeveredInv' /\ StaleInv'
  BY <1>6 DEF Release
<1>7. ASSUME NEW s \in Streams, Restore(s) PROVE SeveredInv' /\ StaleInv'
  <2>1. severed \subseteq plan[s]
    BY <1>7 DEF Restore, Alone
  <2>2. severed' \subseteq severed /\ Live(plan[s]) \subseteq direct'
    BY <1>7 DEF Restore, Request, Unlinked
  <2>3. severed' = {}
    BY <2>1, <2>2 DEF LinkInv, Live
  <2> QED
    BY <1>7, <2>3 DEF Restore, PolicyInv, ModeInv
<1>8. CASE Bypassed \/ BypassFailed
  <2>1. severed' = {}
    BY <1>8 DEF Bypassed, BypassFailed, Confirmed, Unconfirmed, Unlinked, May, BundleInv, RestoreInv
  <2> QED
    BY <1>8, <2>1 DEF Bypassed, BypassFailed, Return
<1>9. CASE Reconciled \/ Connected \/ EndRequests
  BY <1>9 DEF Reconciled, Connected, EndRequests, graph, work, route
<1>10. CASE Discover
  BY <1>10 DEF Discover, graph
<1>11. ASSUME NEW s \in Streams, Defer(s) \/ Unroutable(s) PROVE SeveredInv' /\ StaleInv'
  BY <1>11 DEF Defer, Unroutable, graph, route
<1>12. ASSUME NEW s \in Streams, Stage(s) PROVE SeveredInv' /\ StaleInv'
  <2>1. severed = {}
    BY <1>12 DEF Stage, Alone
  <2> QED
    BY <1>12, <2>1 DEF Stage
<1>13. CASE Staged
  BY <1>13 DEF Staged, graph, work, route
<1>14. CASE StageFailed \/ RolledBack
  <2>1. severed' = {}
    BY <1>14 DEF StageFailed, RolledBack, Confirmed, Unconfirmed, Unlinked, May, BundleInv, RestoreInv
  <2> QED
    BY <1>14, <2>1 DEF StageFailed, RolledBack, Abandon
<1>15. ASSUME NEW l \in Links, CutLink(l) PROVE SeveredInv' /\ StaleInv'
  <2>1. severed \subseteq plan[cur] /\ l \in plan[cur]
    BY <1>15 DEF CutLink, Alone
  <2> QED
    BY <1>15, <2>1 DEF CutLink, Unlinked, work
<1>16. CASE Installed
  BY <1>16 DEF Installed, Alone
<1>17. CASE RollBack
  <2>1. severed \subseteq plan[cur]
    BY <1>17 DEF RollBack, Alone
  <2>2. severed' \subseteq severed /\ severed' \cap plan[cur] = {}
    BY <1>17 DEF RollBack, Request, Unlinked, BundleInv, RestoreInv, work
  <2> QED
    BY <1>17, <2>1, <2>2 DEF RollBack, work
<1>18. ASSUME NEW ok \in BOOLEAN, Disabled(ok) \/ Reconfigured(ok) PROVE SeveredInv' /\ StaleInv'
  BY <1>18 DEF Disabled, Reconfigured, BatchResult, graph, work, route
<1>19. ASSUME NEW ok \in BOOLEAN, Stopped(ok) PROVE SeveredInv' /\ StaleInv'
  <2>1. severed \subseteq Recorded(managed, plan) /\ severed \subseteq journal
    BY <1>19 DEF Stopped, BatchResult, Recorded, Active, ActiveInv
  <2>2. severed' \subseteq journal' /\ severed' = severed
    BY <1>19, <2>1 DEF Stopped, BatchResult, Journal, Exit
  <2> QED
    BY <1>19, <2>2 DEF Stopped, Exit
<1>20. CASE Crash
  <2>1. severed \subseteq journal
    BY <1>20 DEF Crash, ActiveInv
  <2> QED
    BY <1>20, <2>1 DEF Crash, Exit
<1>21. CASE Enable \/ Start
  BY <1>21 DEF Enable, Start, StartInv, graph, work, route
<1>22. ASSUME NEW why \in {"disable", "reconfigure", "stop"}, Begin(why) PROVE SeveredInv' /\ StaleInv'
  BY <1>22 DEF Begin, Taken
<1>23. CASE UNCHANGED vars
  BY <1>23 DEF vars, graph, work, route
<1> QED
  BY <1>1, <1>2, <1>3, <1>4, <1>5, <1>6, <1>7, <1>8, <1>9, <1>10, <1>11, <1>12, <1>13, <1>14,
     <1>15, <1>16, <1>17, <1>18, <1>19, <1>20, <1>21, <1>22, <1>23
     DEF Next, Step, Recover, Tick, Finish

\* Nothing is severed at first; the parts together are inductive.
LEMMA SeveredInvariant ==
  ASSUME Alone, ~SplitMoves, "slow" \notin Faults, "load" \notin Faults, "break" \notin Others
  PROVE  Spec => [](RouteInv /\ PolicyInv /\ SeveredInv)
<1>1. Init => HealthInv /\ SeveredInv /\ StaleInv /\ RecordInv
  BY DEF Init, HealthInv, SeveredInv, StaleInv, RecordInv
<1>2. /\ HealthInv /\ SeveredInv /\ StaleInv /\ RecordInv
      /\ RouteInv /\ PolicyInv /\ LinkInv /\ BundleInv
      /\ (RouteInv /\ PolicyInv /\ LinkInv /\ BundleInv)'
      /\ [Next]_vars
      => (HealthInv /\ SeveredInv /\ StaleInv /\ RecordInv)'
  BY HealthStep, SeveredStep, RecordStep
<1> QED
  BY <1>1, <1>2, BundleInvariant, PTL DEF Spec

\* A single stream's severed links are on record whatever crashes, comes or goes,
\* as long as the server answers in time, the journal is readable, and others move
\* the stream as a whole and leave the filtered route alone.
THEOREM SeveredCorrect ==
  ASSUME Alone, ~SplitMoves, "slow" \notin Faults, "load" \notin Faults, "break" \notin Others
  PROVE  Spec => []SeveredRecorded
<1>1. RouteInv /\ SeveredInv => SeveredRecorded
  BY DEF RouteInv, InstallingInv, ActiveInv, Installing, SeveredInv, SeveredRecorded
<1> QED
  BY <1>1, SeveredInvariant, PTL

\* A daemon that has stopped with success has left nothing on record: whatever
\* failed before, it stops so only after a batch that left nobody out.
StopInv == pc = "stopped" => journal = {}

\* Every step keeps that.
LEMMA StopStep == RouteInv /\ PolicyInv /\ StopInv /\ [Next]_vars => StopInv'
<1> SUFFICES ASSUME RouteInv, PolicyInv, StopInv, [Next]_vars, pc' = "stopped"
             PROVE  journal' = {}
  BY DEF StopInv
<1>1. CASE pc = "stopped"
  <2>1. journal' = journal
    BY <1>1 DEF Next, Environment, Step, Recover, Tick, Finish, vars, daemon, route, graph,
         AppStart, AppExit, DeviceLost, DeviceBack, Linked, Unlink, ChainBroken,
         RecoverNothing, RecoverRoutes, Recovered, Survey, Release, Restore, Bypassed,
         BypassFailed, Reconciled, Discover, Defer, Unroutable, Stage, Staged, StageFailed,
         CutLink, Installed, RollBack, RolledBack, Connected, EndRequests,
         Disabled, Reconfigured, Stopped, BatchResult, Enable, Begin, Crash, Exit, Start
  <2> QED
    BY <1>1, <2>1 DEF StopInv
<1>2. CASE pc # "stopped"
  <2>1. Stopped(TRUE)
    BY <1>2 DEF Next, Environment, Step, Recover, Tick, Finish, vars, daemon,
         AppStart, AppExit, DeviceLost, DeviceBack, Linked, Unlink, ChainBroken,
         RecoverNothing, RecoverRoutes, Recovered, Survey, Release, Restore, Bypassed,
         BypassFailed, Return, Reconciled, Discover, Defer, Unroutable, Stage, Staged, StageFailed,
         Abandon, CutLink, Installed, RollBack, RolledBack, Connected, EndRequests,
         Disabled, Reconfigured, Stopped, Enable, Begin, Crash, Exit, Start
  <2>2. Active(managed) = {}
    BY <2>1 DEF Stopped, BatchResult, PolicyInv, BatchInv, Batch, Active
  <2> QED
    BY <2>1, <2>2 DEF Stopped, BatchResult, Recorded
<1> QED
  BY <1>1, <1>2

\* A clean stop leaves the single stream connected and nothing to recover, under
\* the same conditions.
THEOREM CleanStopCorrect ==
  ASSUME Alone, ~SplitMoves, "slow" \notin Faults, "load" \notin Faults, "break" \notin Others
  PROVE  Spec => []CleanStop
<1>1. Init => StopInv
  BY DEF Init, StopInv
<1>2. StopInv /\ (RouteInv /\ PolicyInv /\ SeveredInv) /\ [Next]_vars => StopInv'
  BY StopStep
<1>3. RouteInv /\ SeveredInv /\ StopInv => CleanStop
  BY DEF RouteInv, StartInv, ChainInv, Installing, Down, SeveredInv, StopInv, CleanStop
<1> QED
  BY <1>1, <1>2, <1>3, SeveredInvariant, PTL DEF Spec

=============================================================================
