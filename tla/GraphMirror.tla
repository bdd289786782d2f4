---------------------------- MODULE GraphMirror ----------------------------
(***************************************************************************)
(* The mirror of the PipeWire graph (GraphState and track_graph of         *)
(* pipewire/graph.rs).  The server numbers nodes, ports and links out of   *)
(* one supply of ids, uses an id again once its object has gone, and       *)
(* announces objects one by one; the daemon handles the announcements      *)
(* later, in order.  What hangs on an object goes with it, and those       *)
(* removals are announced in any order, while the mirror removes what      *)
(* hung on an object when it learns of the first of them.                  *)
(***************************************************************************)
EXTENDS Integers, SequencesExt

CONSTANTS
  Ids,      \* numbers of global objects
  Apps,     \* applications
  Speaker,  \* a device node and its port that are there all the time
  Jack,
  None,
  Backlog   \* bound: announcements under way

ASSUME DeviceAssumption == Speaker \in Ids /\ Jack \in Ids /\ Speaker # Jack
ASSUME IdsAssumption == IsFiniteSet(Ids)
ASSUME BacklogAssumption == Backlog \in Nat

VARIABLES
  object,   \* the server: id -> None, a stream, another node, a port or a link
  asked,    \* streams the daemon has bound and the server has not answered for
  told,     \* streams whose info the server has sent
  events,   \* announcements under way
  mirror,   \* GraphState: streams, ports and links by id
  informed  \* GraphState.streams_with_node_info

vars == <<object, asked, told, events, mirror, informed>>

\* Registry properties may leave out a stream's application; its info has it.
Stream(app, shown) == [kind |-> "stream", app |-> app, shown |-> shown]
Device == [kind |-> "device"]
Port(n) == [kind |-> "port", node |-> n]
Link(p, q) == [kind |-> "link", out |-> p, in |-> q]

\* What an id may stand for, in the server's graph and in the mirror.
Objects ==
  {Stream(app, shown) : app \in Apps \cup {None}, shown \in BOOLEAN} \cup {Device}
    \cup {Port(n) : n \in Ids} \cup {Link(p, q) : p, q \in Ids}

ASSUME NoneAssumption == None \notin Apps \cup Objects

Of(kind, objects) == {i \in Ids : objects[i] # None /\ objects[i].kind = kind}
\* What there is when the daemon has connected and nothing plays.
Idle == [i \in Ids |-> IF i = Speaker THEN Device ELSE IF i = Jack THEN Port(Speaker) ELSE None]

Added(i, o)   == [type |-> "added", id |-> i, object |-> o]
Removed(i)    == [type |-> "removed", id |-> i]
Informed(i, app) == [type |-> "info", id |-> i, app |-> app]

-----------------------------------------------------------------------------
(* GraphState.  A graph is the mirrored objects and the informed streams.  *)

Graph(o, s) == [objects |-> o, informed |-> s]

\* What discover_graph_object makes of a global: nothing of a node that is no
\* audio stream.
Discovered(o) ==
  CASE o.kind = "device" -> None
    [] o.kind = "stream" -> Stream(IF o.shown THEN o.app ELSE None, o.shown)
    [] OTHER -> o

\* GraphState::insert replaces what the id stood for.
Inserted(g, i, o) ==
  IF Discovered(o) = None THEN g
  ELSE Graph([g.objects EXCEPT ![i] = Discovered(o)], g.informed)

\* The mirrored links one of whose ports is in P.
LinksAt(g, P) == {l \in Of("link", g.objects) : {g.objects[l].out, g.objects[l].in} \cap P # {}}

PortsOf(g, n) == {p \in Of("port", g.objects) : g.objects[p].node = n}

\* Slip: a port leaves its links to announcements of their own.
DependentsOfStreams(g, i) ==
  IF i \in Of("stream", g.objects) THEN PortsOf(g, i) \cup LinksAt(g, PortsOf(g, i)) ELSE {}

\* What remove_id removes with the object of an id.  A link also names its
\* nodes, whose ports are its ports.
Dependents(g, i) ==
  CASE i \in Of("stream", g.objects) -> PortsOf(g, i) \cup LinksAt(g, PortsOf(g, i))
    [] i \in Of("port", g.objects)   -> LinksAt(g, {i})
    [] OTHER                         -> {}

\* Slip: the set of informed streams keeps the id.
RemovedButInformed(g, i) ==
  Graph([j \in Ids |-> IF j \in {i} \cup Dependents(g, i) THEN None ELSE g.objects[j]],
        g.informed)

\* GraphState::remove_id.
RemovedId(g, i) ==
  Graph([j \in Ids |-> IF j \in {i} \cup Dependents(g, i) THEN None ELSE g.objects[j]],
        g.informed \ {i})

\* GraphState::update_stream_properties.
Updated(g, i, app) ==
  IF i \notin Of("stream", g.objects) THEN g
  ELSE Graph([g.objects EXCEPT ![i].app = app], g.informed \cup {i})

\* The callbacks of track_graph.
Handled(g, e) ==
  CASE e.type = "added"   -> Inserted(g, e.id, e.object)
    [] e.type = "removed" -> RemovedId(g, e.id)
    [] e.type = "info"    -> Updated(g, e.id, e.app)

-----------------------------------------------------------------------------
(* The server *)

Init ==
  /\ object = Idle
  /\ asked = {} /\ told = {}
  /\ events = <<>>
  /\ mirror = [Idle EXCEPT ![Speaker] = None]
  /\ informed = {}

Room(n) == Len(events) + n <= Backlog

Announce(i, o) ==
  /\ Room(1)
  /\ object[i] = None
  /\ object' = [object EXCEPT ![i] = o]
  /\ events' = Append(events, Added(i, o))
  /\ UNCHANGED <<asked, told, mirror, informed>>

NewNode == \E i \in Ids :
  \/ Announce(i, Device)
  \/ \E app \in Apps, shown \in BOOLEAN : Announce(i, Stream(app, shown))

NewPort == \E i \in Ids, n \in Of("stream", object) \cup Of("device", object) :
  Announce(i, Port(n))

NewLink == \E i \in Ids, p, q \in Of("port", object) :
  object[p].node # object[q].node /\ Announce(i, Link(p, q))

\* The server's objects that go with i.
Hanging(i) ==
  LET g == Graph(object, {})
      ports == PortsOf(g, i) \cup ({i} \cap Of("port", object))
  IN PortsOf(g, i) \cup LinksAt(g, ports)

\* An application, a device, a port or a link goes.
Unregister == \E i \in Ids \ {Speaker, Jack} :
  LET gone == {i} \cup Hanging(i) IN
  /\ object[i] # None
  /\ \E order \in SetToSeqs(gone) :
       /\ Room(Len(order))
       /\ events' = events \o [k \in DOMAIN order |-> Removed(order[k])]
  /\ object' = [j \in Ids |-> IF j \in gone THEN None ELSE object[j]]
  /\ asked' = asked \ gone
  /\ told' = told \ gone
  /\ UNCHANGED <<mirror, informed>>

Tell(i) ==
  /\ Room(1)
  /\ events' = Append(events, Informed(i, object[i].app))
  /\ asked' = asked \ {i}
  /\ told' = told \cup {i}
  /\ UNCHANGED <<object, mirror, informed>>

\* The server answers a bind.
Answer == \E i \in asked : Tell(i)

\* A bound stream changes its properties.
Rename == \E i \in told, app \in Apps :
  /\ Room(1)
  /\ object' = [object EXCEPT ![i].app = app]
  /\ events' = Append(events, Informed(i, app))
  /\ UNCHANGED <<asked, told, mirror, informed>>

-----------------------------------------------------------------------------
(* The daemon iterates its main loop *)

\* Binding the stream of an announcement reaches the server's stream of that
\* id only if it is still the one announced; what the server sends to an
\* earlier binding is dropped with it.
Current(i) == ~\E k \in 2 .. Len(events) : events[k].id = i /\ events[k].type = "removed"

\* Slip: only streams without a name are bound.
BindsUnnamed(e) ==
  /\ e.type = "added" /\ e.object.kind = "stream" /\ ~e.object.shown
  /\ Current(e.id)

\* The callback binds the stream it was told of.
Binds(e) == e.type = "added" /\ e.object.kind = "stream" /\ Current(e.id)

Handle ==
  /\ events # <<>>
  /\ LET e == Head(events)
         g == Handled(Graph(mirror, informed), e)
     IN /\ mirror' = g.objects
        /\ informed' = g.informed
        /\ asked' = IF Binds(e) THEN asked \cup {e.id} ELSE asked
  /\ events' = Tail(events)
  /\ UNCHANGED <<object, told>>

Next == NewNode \/ NewPort \/ NewLink \/ Unregister \/ Answer \/ Rename \/ Handle

Spec == Init /\ [][Next]_vars

FairSpec == Spec /\ WF_vars(Handle) /\ WF_vars(Answer)

-----------------------------------------------------------------------------
(* Properties *)

\* What the daemon should see of the server's graph.
Expected ==
  Graph([i \in Ids |->
           IF object[i] = None THEN None
           ELSE IF i \in told THEN Stream(object[i].app, object[i].shown)
           ELSE Discovered(object[i])],
        told)

\* The mirror when the first n announcements under way have been handled.
After[n \in 0 .. Len(events)] ==
  IF n = 0 THEN Graph(mirror, informed) ELSE Handled(After[n - 1], events[n])

\* The announcements under way lead from the mirror to the server's graph,
\* whatever ids have been used again and in whatever order the parts of an
\* object went: once the daemon has caught up it sees exactly the streams,
\* ports and links there are, and knows of no stream more than the server has
\* told it of that stream.
MirrorFollows == After[Len(events)] = Expected

\* The mirror never has a link without both of its ports, also while it is
\* behind: what the daemon finds linked has an end to link again.
MirrorClosed ==
  \A l \in Of("link", mirror) : {mirror[l].out, mirror[l].in} \subseteq Of("port", mirror)

\* Once the graph rests, every stream is known with its application, so that
\* discovery does not wait for it for ever.
EveryStreamInformed ==
  <>[][Handle \/ Answer]_vars =>
    <>[](\A i \in Of("stream", object) : i \in informed /\ mirror[i].app = object[i].app)
=============================================================================
