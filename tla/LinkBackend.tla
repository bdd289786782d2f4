---------------------------- MODULE LinkBackend ----------------------------
(***************************************************************************)
(* The PipeWire route backend (routing/backend.rs, links.rs) under the     *)
(* transitions of transaction.rs, for one stream, with the server at a     *)
(* distance: requests and announcements travel in queues, and a two-second *)
(* wait may end with any of them under way.  RouteDaemon has the           *)
(* transitions of all streams, with a server that has either answered or   *)
(* not done anything when a wait ends.                                     *)
(*                                                                         *)
(* Each channel has a direct link to be replaced and, for the two links    *)
(* through the filter, one replacement link.  A link carries a mode:       *)
(*   original  the route plan took it for the link to replace              *)
(*   held      a replacement, which goes with the daemon's proxy           *)
(*   linger    made by the restoration at hand; outlives its proxy         *)
(*   stray     made by a restoration that has failed                       *)
(*   other     anybody else's, or restored                                 *)
(* Only held and linger are properties of the link, the rest is history.   *)
(***************************************************************************)
EXTENDS Integers, SequencesExt, FiniteSetsExt

CONSTANTS
  Channels,  \* numbered in the order of the stream's ports
  Ids,      \* numbers of links, used again
  Backlog,  \* bound: messages under way when others act or a transition begins
  Moves     \* bound: what others do to the links of one route

ASSUME ChannelsAssumption == IsFiniteSet(Channels) /\ Channels \subseteq Nat
ASSUME BoundsAssumption == Backlog \in Nat /\ Moves \in Nat

VARIABLES
  links,     \* the server's links
  alive,     \* channels whose ports exist
  requests,  \* to the server
  events,    \* to the daemon
  mirror,    \* GraphState.links, by id and ends
  bound,     \* the links whose numbers the proxies of the restoration at hand know
  pc,        \* "idle", "stage", "remove", "rollback", "active", "bypass"
  plan,      \* the original links of the route, by id and ends
  wanted,    \* the ends of the direct links being restored
  late,      \* something was under way when the plan was drawn, or when a
             \* wait ended in vain
  failed,    \* its last restoration was not confirmed
  severed,   \* channels whose original link the daemon removed and nobody
             \* has made since, with both ports there
  moves      \* what others have done since the route was planned

server == <<links, alive>>
queues == <<requests, events>>
route  == <<pc, plan, wanted>>
vars   == <<server, queues, mirror, bound, route, late, failed, severed, moves>>

Direct(c) == <<"direct", c>>
Replacement(c) == <<"replacement", c>>
Directs(C) == {Direct(c) : c \in C}
Replacements == {Replacement(c) : c \in Channels}

Ends(L) == {l.ends : l \in L}
Seen(l) == [id |-> l.id, ends |-> l.ends]

Create(e, mode) == [type |-> "create", ends |-> e, mode |-> mode]
Drop(e) == [type |-> "drop", ends |-> e]
Destroy(i) == [type |-> "destroy", id |-> i]

\* The messages Op makes of the links with the ends E, channel by channel.
Rank(e) == 2 * e[2] + IF e[1] = "direct" THEN 0 ELSE 1
InOrder ==
  [E \in SUBSET (Directs(Channels) \cup Replacements) |->
     CHOOSE s \in SetToSeqs(E) : \A j, k \in DOMAIN s : j < k => Rank(s[j]) < Rank(s[k])]
Each(E, Op(_)) == [k \in DOMAIN InOrder[E] |-> Op(InOrder[E][k])]
Creates(E, mode) == Each(E, LAMBDA e : Create(e, mode))

\* The number of the link among L that has the ends e.
IdOf(L, e) == (CHOOSE l \in L : l.ends = e).id
Destroys(L) == Each(Ends(L), LAMBDA e : Destroy(IdOf(L, e)))

Drained == requests = <<>> /\ events = <<>>

\* What has a mode in S gets the mode m.
Marked(x, S, m) == IF x.mode \in S THEN [x EXCEPT !.mode = m] ELSE x
MarkedLinks(S, m) == {Marked(l, S, m) : l \in links}
MarkedRequests(S, m) ==
  [k \in DOMAIN requests |-> IF requests[k].type = "create" THEN Marked(requests[k], S, m)
                             ELSE requests[k]]

-----------------------------------------------------------------------------
(* The server *)

\* The stream is playing and the mirror has caught up.
Init ==
  /\ alive = Channels
  /\ \E id \in {f \in [Channels -> Ids] : IsInjective(f)} :
       links = {[id |-> id[c], ends |-> Direct(c), mode |-> "other"] : c \in Channels}
  /\ mirror = {Seen(l) : l \in links}
  /\ requests = <<>> /\ events = <<>>
  /\ bound = {}
  /\ pc = "idle" /\ plan = {} /\ wanted = {}
  /\ late = FALSE /\ failed = FALSE /\ severed = {} /\ moves = 0

Free == {i \in Ids : \A l \in links : l.id # i}

Announced(l) == [type |-> "added", link |-> Seen(l)]
Bound(l) == [type |-> "bound", link |-> Seen(l)]
Gone(i) == [type |-> "removed", id |-> i]

\* The server makes a link, unless its ports are gone or linked already.
Make(r) ==
  IF r.ends[2] \in alive /\ r.ends \notin Ends(links)
  THEN \E i \in Free :
         LET l == [id |-> i, ends |-> r.ends, mode |-> r.mode] IN
         /\ links' = links \cup {l}
         /\ events' = events \o IF r.mode = "linger" THEN <<Announced(l), Bound(l)>>
                                ELSE <<Announced(l)>>
         /\ severed' = severed \ {c \in Channels : Direct(c) = r.ends}
  ELSE UNCHANGED <<links, events, severed>>

\* The server removes the links L.
Unmake(L) ==
  /\ links' = links \ L
  /\ events' = events \o Each(Ends(L), LAMBDA e : Gone(IdOf(L, e)))

Serve ==
  /\ requests # <<>>
  /\ LET r == Head(requests) IN
     CASE r.type = "create" -> Make(r)
       [] r.type = "drop" ->
            /\ Unmake({l \in links : l.ends = r.ends /\ l.mode = "held"})
            /\ UNCHANGED severed
       [] r.type = "destroy" ->
            /\ Unmake({l \in links : l.id = r.id})
            /\ severed' = severed \cup
                 {c \in alive : \E l \in links :
                    l.id = r.id /\ l.ends = Direct(c) /\ l.mode = "original"}
  /\ requests' = Tail(requests)
  /\ UNCHANGED <<alive, mirror, bound, route, late, failed, moves>>

Deliver ==
  /\ events # <<>>
  /\ LET e == Head(events) IN
     /\ mirror' = CASE e.type = "added"   -> mirror \cup {e.link}
                    [] e.type = "removed" -> {l \in mirror : l.id # e.id}
                    [] OTHER              -> mirror
     /\ bound' = IF e.type = "bound" /\ pc \in {"rollback", "bypass"}
                 THEN bound \cup {e.link} ELSE bound
  /\ events' = Tail(events)
  /\ UNCHANGED <<server, requests, route, late, failed, severed, moves>>

-----------------------------------------------------------------------------
(* Applications, devices and other clients *)

Move ==
  /\ Len(events) <= Backlog
  /\ IF pc = "idle" /\ Drained THEN moves' = 0
     ELSE moves < Moves /\ moves' = moves + 1

Connect == \E c \in alive, i \in Free :
  LET l == [id |-> i, ends |-> Direct(c), mode |-> "other"] IN
  /\ Move
  /\ Direct(c) \notin Ends(links)
  /\ links' = links \cup {l}
  /\ events' = Append(events, Announced(l))
  /\ severed' = severed \ {c}
  /\ UNCHANGED <<alive, requests, mirror, bound, route, late, failed>>

Disconnect == \E l \in links :
  /\ Move
  /\ Unmake({l})
  /\ UNCHANGED <<alive, requests, mirror, bound, route, late, failed, severed>>

PortsGo == \E c \in alive :
  /\ Move
  /\ alive' = alive \ {c}
  /\ Unmake({l \in links : l.ends[2] = c})
  /\ severed' = severed \ {c}
  /\ UNCHANGED <<requests, mirror, bound, route, late, failed>>

PortsCome == \E c \in Channels \ alive :
  /\ Move
  /\ alive' = alive \cup {c}
  /\ UNCHANGED <<links, queues, mirror, bound, route, late, failed, severed>>

-----------------------------------------------------------------------------
(* The daemon.  Creating and destroying objects only sends requests, which *)
(* fails on the spot only when the connection is lost.                     *)

LinksPresent(E) == E \subseteq Ends(mirror)
\* Slip: the first link that is gone ends the wait.
SomeAbsent(L) == L \ mirror # {}
LinksAbsent(L) == L \cap mirror = {}

\* The wait of the step at hand ends without what it waits for.
Deadline == late' = (late \/ ~Drained)

\* Slip: only the replacements that have been seen are given up.
DropSeen == Each(Replacements \cap Ends(mirror), Drop)
\* OwnedLinks::destroy of the replacements.
DropReplacements == Each(Replacements, Drop)

\* Slip: the proxies of an unconfirmed restoration are dropped, nothing more.
DestroyNothing == <<>>
\* OwnedLinks::destroy_globals of the links the restoration has made.
DestroyGlobals == Destroys(bound)

\* The restoration at hand lets go of its proxies: what the server has to say to
\* them still arrives, to nobody, and its links are called m from now on.
LetGo(m, more) ==
  /\ requests' = MarkedRequests({"linger"}, m) \o more
  /\ links' = MarkedLinks({"linger"}, m)
  /\ events' = [k \in DOMAIN events |-> IF events[k].type = "bound"
                                        THEN [events[k] EXCEPT !.type = "lost"] ELSE events[k]]
  /\ bound' = {}

\* install: the plan is drawn from the mirror, the replacements are requested.
\* Links left by earlier transitions count as anybody's.
Stage ==
  /\ pc = "idle"
  /\ Len(requests) + Len(events) <= Backlog
  /\ Directs(Channels) \subseteq Ends(mirror)
  /\ pc' = "stage"
  /\ plan' = {l \in mirror : l.ends \in Directs(Channels)}
  /\ links' = {IF Seen(l) \in plan' THEN [l EXCEPT !.mode = "original"] ELSE l
               : l \in MarkedLinks({"original", "stray"}, "other")}
  /\ requests' = MarkedRequests({"stray"}, "other") \o Creates(Replacements, "held")
  /\ late' = ~Drained
  /\ failed' = FALSE
  /\ moves' = 0
  /\ UNCHANGED <<alive, events, mirror, bound, wanted, severed>>

\* remove_originals sends all its requests before it waits.
CutOver ==
  /\ pc = "stage"
  /\ LinksPresent(Replacements)
  /\ pc' = "remove"
  /\ requests' = requests \o Destroys(plan)
  /\ UNCHANGED <<server, events, mirror, bound, plan, wanted, late, failed, severed, moves>>

StageFailed ==
  /\ pc = "stage"
  /\ ~LinksPresent(Replacements)
  /\ Deadline
  /\ pc' = "idle"
  /\ requests' = requests \o DropReplacements
  /\ plan' = {}
  /\ UNCHANGED <<server, events, mirror, bound, wanted, failed, severed, moves>>

\* set_filter_active(true) succeeds.
Activate ==
  /\ pc = "remove"
  /\ LinksAbsent(plan)
  /\ pc' = "active"
  /\ UNCHANGED <<server, queues, mirror, bound, plan, wanted, late, failed, severed, moves>>

\* create_lingering of the links E, on behalf of the transition p.
RestoreLinks(E, p) ==
  /\ pc' = p
  /\ wanted' = E
  /\ requests' = requests \o Creates(E, "linger")
  /\ UNCHANGED <<server, events, mirror, bound, plan, failed, severed, moves>>

\* The filter does not start: restore_originals.
NotActivated ==
  /\ pc = "remove"
  /\ LinksAbsent(plan)
  /\ RestoreLinks(Ends(plan), "rollback")
  /\ UNCHANGED late

\* Slip: the links that are still there are the ones restored.
MissingInverted == Ends(plan \cap mirror)
\* restore_missing: the original links that are not in the mirror.
Missing == Ends(plan \ mirror)

\* The removal is not confirmed.  Links that are still in the mirror are left
\* alone, although their removal may be under way.
RemovalFailed ==
  /\ pc = "remove"
  /\ ~LinksAbsent(plan)
  /\ Deadline
  /\ IF Missing # {} THEN RestoreLinks(Missing, "rollback")
     ELSE /\ pc' = "idle"
          /\ plan' = {}
          /\ requests' = requests \o DropReplacements
          /\ UNCHANGED <<server, events, mirror, bound, wanted, failed, severed, moves>>

\* The direct links are back; install then destroys the replacements.
RolledBack ==
  /\ pc = "rollback"
  /\ LinksPresent(wanted)
  /\ LetGo("other", DropReplacements)
  /\ pc' = "idle"
  /\ plan' = {}
  /\ wanted' = {}
  /\ UNCHANGED <<alive, mirror, late, failed, severed, moves>>

\* bypass: create_direct_links for every channel.
Restore ==
  /\ pc = "active"
  /\ Len(requests) + Len(events) <= Backlog
  /\ RestoreLinks(Ends(plan), "bypass")
  /\ UNCHANGED late

\* The filter stops, the replacements go.
Bypassed ==
  /\ pc = "bypass"
  /\ LinksPresent(wanted)
  /\ LetGo("other", DropReplacements)
  /\ pc' = "idle"
  /\ plan' = {}
  /\ wanted' = {}
  /\ UNCHANGED <<alive, mirror, late, failed, severed, moves>>

\* The filter does not stop: bypass drops the proxies of the direct links,
\* which linger, and keeps the route.
NotDeactivated ==
  /\ pc = "bypass"
  /\ LinksPresent(wanted)
  /\ LetGo("other", <<>>)
  /\ pc' = "active"
  /\ wanted' = {}
  /\ UNCHANGED <<alive, mirror, plan, late, failed, severed, moves>>

\* create_confirmed_with gives up: what it knows of its links it destroys.  A
\* bypass keeps its route, a rollback has none to keep.
Unconfirmed ==
  /\ pc \in {"rollback", "bypass"}
  /\ ~LinksPresent(wanted)
  /\ Deadline
  /\ failed' = TRUE
  /\ LetGo("stray", DestroyGlobals \o IF pc = "rollback" THEN DropReplacements ELSE <<>>)
  /\ pc' = IF pc = "bypass" THEN "active" ELSE "idle"
  /\ plan' = IF pc = "bypass" THEN plan ELSE {}
  /\ wanted' = {}
  /\ UNCHANGED <<alive, mirror, severed, moves>>

\* release: the replacements go and nothing is restored.
Release ==
  /\ pc = "active"
  /\ pc' = "idle"
  /\ requests' = requests \o DropReplacements
  /\ plan' = {}
  /\ severed' = {}
  /\ UNCHANGED <<server, events, mirror, bound, wanted, late, failed, moves>>

Install == Stage \/ CutOver \/ StageFailed \/ Activate \/ NotActivated \/ RemovalFailed
             \/ RolledBack
Leave == Restore \/ Bypassed \/ NotDeactivated \/ Unconfirmed \/ Release

Others == Connect \/ Disconnect \/ PortsGo \/ PortsCome

Next == Serve \/ Deliver \/ Others \/ Install \/ Leave

Spec == Init /\ [][Next]_vars

-----------------------------------------------------------------------------
(* Properties *)

\* "On error, no created links may remain" (RouteBackend::create_links), nor
\* after a bypass or a release: once the server has carried out what it was
\* sent, a stream without a route has no link to or from a filter, also when
\* the links were made after the daemon had stopped waiting for them.
NoReplacementLeft ==
  pc = "idle" /\ Drained => Ends(links) \cap Replacements = {}

\* The filter starts when every link the plan replaces is gone from the server,
\* not only from the mirror, unless the plan was drawn from a mirror that was
\* behind: links made again since, with whatever number, do not count.
CutoverComplete ==
  [][ pc = "remove" /\ pc' = "active" /\ ~late => \A l \in links : l.mode # "original" ]_vars

\* Failure restores the direct route (docs/dev/README.md:71): a stream without
\* a route has every direct link the daemon took away, unless some wait ended
\* before the server had answered, or the restoration itself was refused.
AbandonedRestored ==
  pc = "idle" /\ Drained /\ ~late /\ ~failed => severed = {}

\* "Failed or unconfirmed multi-channel restoration explicitly destroys every
\* partially created lingering global" (docs/dev/README.md:143): none is left
\* of a restoration that ended when the server had answered all of it.
LingeringDestroyed ==
  Drained /\ ~late => \A l \in links : l.mode # "stray"

=============================================================================
