-------------------------- MODULE RouteProperties --------------------------
(***************************************************************************)
(* What the routing side of the daemon is expected to guarantee: over      *)
(* RouteDaemon, which says when each failure and each foreign action may   *)
(* happen.  Some hold whatever happens, others only as long as certain     *)
(* failures stay away; the configurations of MCRouteDaemon say which.      *)
(***************************************************************************)
EXTENDS RouteDaemon

-----------------------------------------------------------------------------
(* Safety *)

Held == UNION {plan[s] : s \in Active(managed)}

InTransition == IF pc \in {"stage", "cut", "rollback"} THEN plan[cur] ELSE {}

\* Whatever fails and whatever others do to the graph, the journal names every
\* original link of every route that is active or being installed: a crash at
\* any moment leaves a record of what the daemon had displaced.  Journal
\* writes may fail, and each of them replaces the whole file.
JournalCoversRoutes == Held \cup InTransition \subseteq journal

\* Replacement links exist only for an active route or the one being
\* installed: every failed installation, release and bypass removes its own
\* ("On error, no created links may remain", transaction.rs), and no stream
\* keeps links of a daemon that has given it up.
ReplacementsOwned == chain \subseteq Held \cup InTransition

\* Once every request in hand has been answered, a stream is in the daemon's
\* hands only if normalization is enabled and the policy in force allows it:
\* no earlier configuration outlives a reload, whichever phase of routing the
\* stream was in when it arrived.
PolicyInForce ==
  pc # "batch" /\ pc # "restore" =>
    \A s \in Streams : managed[s] # "none" => enabled /\ s \in allowed

\* A link the daemon has taken away from ports that still exist, and that
\* nobody has replaced, is named by the journal: in every state a restart
\* would find it.
SeveredRecorded == severed \subseteq journal

\* The service manager sees a clean stop only if no route is left severed and
\* nothing is left for a successor to recover (docs/dev/README.md:140).
CleanStop == pc = "stopped" => severed = {} /\ journal = {} /\ chain = {}

\* While a route is being installed its stream is still direct, and its filter
\* is silent: a filter that runs there, so that both paths carry the audio, is
\* one that refused to stop when the stream's last route was released, and has
\* been kept for the next one all the same (mod.rs:248).  Nothing else that
\* fails, and nothing others do, makes an installation double the audio.
SilentWhileStaging ==
  pc \in {"stage", "cut"} /\ cur \in filtering => cur \in stuck

\* The original links whose objects the running daemon has displaced.
Diverted ==
  Held \cup (IF pc \in {"cut", "rollback"} THEN plan[cur] \ originals ELSE {})

\* The journal is a write-ahead record of the routes: no step of the daemon,
\* of a crash or of the environment takes a link away, or rewrites the file,
\* out of that order.
WriteAhead == INSTANCE WriteAheadRoutes WITH diverted <- Diverted, record <- journal
ImplementsWriteAhead == WriteAhead!WSpec

-----------------------------------------------------------------------------
(* Action properties *)

\* "Failure restores the direct route and releases replacement links"
\* (docs/dev/README.md:71): an installation that is given up leaves none of
\* its originals severed.
FailedInstallRestores ==
  [][ pc' = "connect" /\ pc \in {"stage", "rollback"} =>
        severed' \cap plan[cur] = {} ]_vars

\* "A failed runtime disable or configuration change reports an error and
\* keeps normalization enabled" (docs/dev/README.md:137): a request that ends
\* with a route it could not bypass, or with a journal that names other links
\* than those of the routes left, keeps normalization enabled if it was, and a
\* reload keeps the mode, the policy and the skipped streams as they were.
\* (A disable that cannot write the journal while normalization is off already
\* enables it: "keeps" is all the code does.)
FailedRequestKeepsMode ==
  [][ pc = "batch" /\ pc' = "requests"
      /\ (Active(managed') # {} \/ journal' # Recorded(managed', plan')) =>
        /\ before => enabled'
        /\ cause = "reconfigure" =>
             enabled' = before /\ allowed' = allowed /\ skipped' = skipped ]_vars

-----------------------------------------------------------------------------
(* Liveness *)

\* From some time on nobody else acts: no application, device, session
\* manager, user request or crash.
Quiet == <>[][Step \/ Restart]_vars

\* A stream that a running daemon could normalize, and does not.
Waiting(s) ==
  pc \notin Down /\ enabled /\ s \in allowed \ skipped /\ Ready(s) /\ managed[s] # "active"

\* Once the environment is quiet, the daemon stops leaving streams behind:
\* each one it could normalize becomes active or is skipped, whatever failed
\* on the way.
EveryStreamServed == Quiet => \A s \in Streams : <>[]~Waiting(s)

\* Once the environment is quiet and repairs stop failing, an active route
\* that lost a replacement link does not stay that way: it is bypassed or
\* released, whatever has failed before, and the stream is direct or
\* normalized again.
BrokenRouteHealed ==
  Quiet /\ <>[][~BypassFailed]_vars =>
    <>[](pc \notin Down => \A s \in Active(managed) : Healthy(s))

\* Every link the daemon took away is in the end restored, or carried by the
\* filter of an active route: also what a crash, at any moment of any
\* transition, a failed start or a failed stop left severed.
SeveredRestored == Quiet => <>[](severed \subseteq chain)

=============================================================================
