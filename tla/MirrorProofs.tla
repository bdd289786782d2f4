---------------------------- MODULE MirrorProofs ----------------------------
(***************************************************************************)
(* Proofs about GraphMirror for every finite set of ids, every set of      *)
(* applications and every backlog: the announcements under way, handled    *)
(* one after the other, lead from the mirror to the server's graph, through*)
(* graphs that have no link without its ports.                             *)
(***************************************************************************)
EXTENDS GraphMirror, FiniteSetTheorems, SequenceTheorems, WellFoundedInduction, TLAPS

USE DeviceAssumption, NoneAssumption

-----------------------------------------------------------------------------
(* Kinds of objects *)

\* None is no object, and the kinds are told apart by their names.
LEMMA ObjectKinds ==
  /\ \A a \in Apps \cup {None}, shown \in BOOLEAN :
       Stream(a, shown) # None /\ Stream(a, shown).kind = "stream"
  /\ Device # None /\ Device.kind = "device"
  /\ \A n \in Ids : Port(n) # None /\ Port(n).kind = "port"
  /\ \A p, q \in Ids : Link(p, q) # None /\ Link(p, q).kind = "link"
<1>1. \A a \in Apps \cup {None}, shown \in BOOLEAN : Stream(a, shown) \in Objects
  BY DEF Objects
<1>2. Device \in Objects
  BY DEF Objects
<1>3. \A n \in Ids : Port(n) \in Objects
  BY DEF Objects
<1>4. \A p, q \in Ids : Link(p, q) \in Objects
  BY DEF Objects
<1>5. \A a, shown : Stream(a, shown).kind = "stream"
  BY DEF Stream
<1>6. Device.kind = "device"
  BY DEF Device
<1>7. \A n : Port(n).kind = "port"
  BY DEF Port
<1>8. \A p, q : Link(p, q).kind = "link"
  BY DEF Link
<1> QED
  BY <1>1, <1>2, <1>3, <1>4, <1>5, <1>6, <1>7, <1>8

\* What an object of each kind is.
LEMMA ObjectCases ==
  ASSUME NEW o \in Objects
  PROVE  /\ o.kind \in {"stream", "device", "port", "link"} /\ o # None
         /\ o.kind = "stream" =>
              \E a \in Apps \cup {None}, shown \in BOOLEAN : o = Stream(a, shown)
         /\ o.kind = "device" => o = Device
         /\ o.kind = "port" => \E n \in Ids : o = Port(n)
         /\ o.kind = "link" => \E p, q \in Ids : o = Link(p, q)
<1>1. \/ \E a \in Apps \cup {None}, shown \in BOOLEAN : o = Stream(a, shown)
      \/ o = Device
      \/ \E n \in Ids : o = Port(n)
      \/ \E p, q \in Ids : o = Link(p, q)
  BY DEF Objects
<1> QED
  BY <1>1, ObjectKinds

\* The parts of a graph.
LEMMA GraphParts ==
  \A o, s : Graph(o, s).objects = o /\ Graph(o, s).informed = s
BY DEF Graph

-----------------------------------------------------------------------------
(* Removals *)

\* No link without both of its ports.
Closed(g) ==
  \A l \in Of("link", g.objects) : {g.objects[l].out, g.objects[l].in} \subseteq Of("port", g.objects)

\* A graph without the objects R, and without the info of S.
Without(g, R, S) ==
  Graph([j \in Ids |-> IF j \in R THEN None ELSE g.objects[j]], g.informed \ S)

\* What depends on one of R is one of R.
Spreads(g, R) == \A x \in R : Dependents(g, x) \subseteq R

\* What is left of each kind.
LEMMA WithoutKinds ==
  ASSUME NEW g, NEW R, NEW S
  PROVE  /\ \A kind : Of(kind, Without(g, R, S).objects) = Of(kind, g.objects) \ R
         /\ \A x : PortsOf(Without(g, R, S), x) = PortsOf(g, x) \ R
         /\ \A P : LinksAt(Without(g, R, S), P) = LinksAt(g, P) \ R
<1> DEFINE h == Without(g, R, S)
<1>1. \A j \in Ids : h.objects[j] = IF j \in R THEN None ELSE g.objects[j]
  BY GraphParts DEF Without
<1> HIDE DEF h
<1>2. \A kind : Of(kind, h.objects) = Of(kind, g.objects) \ R
  BY <1>1 DEF Of
<1>3. \A x : PortsOf(h, x) = PortsOf(g, x) \ R
  <2>1. \A p \in Of("port", g.objects) \ R : h.objects[p] = g.objects[p]
    BY <1>1 DEF Of
  <2> QED
    BY <1>2, <2>1 DEF PortsOf
<1>4. \A P : LinksAt(h, P) = LinksAt(g, P) \ R
  <2>1. \A l \in Of("link", g.objects) \ R : h.objects[l] = g.objects[l]
    BY <1>1 DEF Of
  <2> QED
    BY <1>2, <2>1 DEF LinksAt
<1> QED
  BY <1>2, <1>3, <1>4 DEF h

\* The dependents of each kind of object.
LEMMA DependentsCases ==
  ASSUME NEW g, NEW x
  PROVE  /\ x \in Of("stream", g.objects) =>
              Dependents(g, x) = PortsOf(g, x) \cup LinksAt(g, PortsOf(g, x))
         /\ x \in Of("port", g.objects) => Dependents(g, x) = LinksAt(g, {x})
         /\ x \notin Of("stream", g.objects) /\ x \notin Of("port", g.objects) => Dependents(g, x) = {}
         /\ ~(x \in Of("stream", g.objects) /\ x \in Of("port", g.objects))
         /\ Dependents(g, x) \subseteq Ids
<1>1. ~(x \in Of("stream", g.objects) /\ x \in Of("port", g.objects))
  BY DEF Of
<1>2. \A P : LinksAt(g, P) \subseteq Ids /\ PortsOf(g, x) \subseteq Ids
  BY DEF LinksAt, PortsOf, Of
<1> QED
  BY <1>1, <1>2 DEF Dependents

\* What depends on a dependent depends on the object.
LEMMA DependentsTransitive ==
  ASSUME NEW g, NEW x, NEW y \in Dependents(g, x)
  PROVE  Dependents(g, y) \subseteq Dependents(g, x)
<1>1. \A P : LinksAt(g, P) \subseteq Of("link", g.objects)
  BY DEF LinksAt
<1>2. PortsOf(g, x) \subseteq Of("port", g.objects)
  BY DEF PortsOf
<1>3. \A l \in Of("link", g.objects) : Dependents(g, l) = {}
  BY DependentsCases DEF Of
<1>4. CASE y \in Of("link", g.objects)
  BY <1>3, <1>4
<1>5. CASE y \notin Of("link", g.objects)
  <2>1. x \in Of("stream", g.objects) /\ y \in PortsOf(g, x)
    BY <1>1, <1>5, DependentsCases
  <2>2. Dependents(g, y) = LinksAt(g, {y})
    BY <1>2, <2>1, DependentsCases
  <2>3. LinksAt(g, {y}) \subseteq LinksAt(g, PortsOf(g, x))
    BY <2>1 DEF LinksAt
  <2> QED
    BY <2>1, <2>2, <2>3, DependentsCases
<1> QED
  BY <1>4, <1>5

\* GraphState::remove_id of an id of a graph that has lost R already.
LEMMA RemovalStep ==
  ASSUME NEW g, NEW R, Spreads(g, R), NEW S, NEW x \in Ids
  PROVE  RemovedId(Without(g, R, S), x) =
           Without(g, R \cup {x} \cup Dependents(g, x), S \cup {x})
<1> DEFINE h == Without(g, R, S)
<1>1. /\ \A j \in Ids : h.objects[j] = IF j \in R THEN None ELSE g.objects[j]
      /\ h.informed = g.informed \ S
  BY GraphParts DEF Without
<1>2. /\ \A kind : Of(kind, h.objects) = Of(kind, g.objects) \ R
      /\ PortsOf(h, x) = PortsOf(g, x) \ R
      /\ \A P : LinksAt(h, P) = LinksAt(g, P) \ R
  BY WithoutKinds
<1> HIDE DEF h
<1>3. R \cup Dependents(h, x) = R \cup Dependents(g, x)
  <2>1. CASE x \in R
    <3>1. Dependents(h, x) = {}
      BY <1>2, <2>1, DependentsCases
    <3>2. Dependents(g, x) \subseteq R
      BY ONLY Spreads(g, R), <2>1 DEF Spreads
    <3> QED
      BY ONLY <3>1, <3>2
  <2>2. CASE x \notin R /\ x \in Of("stream", g.objects)
    <3>1. Dependents(h, x) = PortsOf(h, x) \cup LinksAt(h, PortsOf(h, x))
      <4>1. x \in Of("stream", h.objects)
        BY ONLY <1>2, <2>2
      <4> QED
        BY <4>1, DependentsCases, ZenonT(30)
    <3>2. Dependents(g, x) = PortsOf(g, x) \cup LinksAt(g, PortsOf(g, x))
      BY <2>2, DependentsCases
    <3>3. ASSUME NEW l \in LinksAt(g, PortsOf(g, x)), l \notin R
          PROVE  l \in LinksAt(g, PortsOf(g, x) \ R)
      <4>1. PICK p \in PortsOf(g, x) : p \in {g.objects[l].out, g.objects[l].in}
        BY <3>3 DEF LinksAt
      <4>2. l \in Of("link", g.objects)
        BY <3>3 DEF LinksAt
      <4>3. p \notin R
        <5>1. Dependents(g, p) = LinksAt(g, {p})
          BY <4>1, DependentsCases DEF PortsOf
        <5>2. l \in LinksAt(g, {p})
          BY <4>1, <4>2 DEF LinksAt
        <5> QED
          BY <3>3, <5>1, <5>2 DEF Spreads
      <4> QED
        BY <4>1, <4>2, <4>3 DEF LinksAt
    <3>4. LinksAt(g, PortsOf(g, x) \ R) \subseteq LinksAt(g, PortsOf(g, x))
      BY DEF LinksAt
    <3> QED
      BY <1>2, <3>1, <3>2, <3>3, <3>4
  <2>3. CASE x \notin R /\ x \in Of("port", g.objects)
    <3>1. Dependents(h, x) = LinksAt(h, {x})
      BY <1>2, <2>3, DependentsCases
    <3>2. Dependents(g, x) = LinksAt(g, {x})
      BY <2>3, DependentsCases
    <3> QED
      BY <1>2, <3>1, <3>2
  <2>4. CASE x \notin Of("stream", g.objects) /\ x \notin Of("port", g.objects)
    BY <1>2, <2>4, DependentsCases
  <2> QED
    BY <2>1, <2>2, <2>3, <2>4
<1>4. \A j \in Ids : (IF j \in {x} \cup Dependents(h, x) THEN None ELSE h.objects[j])
                   = IF j \in R \cup {x} \cup Dependents(g, x) THEN None ELSE g.objects[j]
  BY <1>1, <1>3
<1>5. h.informed \ {x} = g.informed \ (S \cup {x})
  BY <1>1
<1>6. RemovedId(h, x) = Without(g, R \cup {x} \cup Dependents(g, x), S \cup {x})
  BY <1>4, <1>5 DEF RemovedId, Without
<1> QED
  BY <1>6 DEF h

\* Without what depends on what it has lost, a graph stays closed.
LEMMA WithoutClosed ==
  ASSUME NEW g, NEW R, NEW S, Closed(g), Spreads(g, R)
  PROVE  Closed(Without(g, R, S))
<1> DEFINE h == Without(g, R, S)
<1>1. \A j \in Ids \ R : h.objects[j] = g.objects[j]
  BY GraphParts DEF Without
<1>2. \A kind : Of(kind, h.objects) = Of(kind, g.objects) \ R
  BY WithoutKinds
<1> HIDE DEF h
<1>3. SUFFICES ASSUME NEW l \in Of("link", h.objects), NEW p \in {h.objects[l].out, h.objects[l].in}
               PROVE  p \in Of("port", h.objects)
  BY DEF Closed, h
<1>4. l \in Of("link", g.objects) /\ l \notin R /\ h.objects[l] = g.objects[l]
  BY <1>1, <1>2 DEF Of
<1>5. p \in Of("port", g.objects)
  BY <1>4 DEF Closed
<1>6. l \in LinksAt(g, {p})
  BY <1>4 DEF LinksAt
<1>7. p \notin R
  BY <1>4, <1>5, <1>6, DependentsCases DEF Spreads
<1> QED
  BY <1>2, <1>5, <1>7

-----------------------------------------------------------------------------
(***************************************************************************)
(* The inductive invariant: announcements that the daemon will answer with *)
(* a bind announce streams that are there, and the announcements under way *)
(* are a path from the mirror to what is expected of it.                   *)
(***************************************************************************)

\* What the server can announce.
Announcements ==
  {Added(i, o) : i \in Ids, o \in Objects} \cup {Removed(i) : i \in Ids}
    \cup {Informed(i, a) : i \in Ids, a \in Apps \cup {None}}

\* The server, the mirror and what is under way are what they look like.
TypeInv ==
  /\ object \in [Ids -> Objects \cup {None}]
  /\ asked \subseteq Of("stream", object) /\ told \subseteq Of("stream", object)
  /\ events \in Seq(Announcements)

\* Nothing has removed the object that event k announced.
Stands(k) ==
  /\ events[k].type = "added"
  /\ ~\E m \in k + 1 .. Len(events) : events[m].id = events[k].id /\ events[m].type = "removed"

\* Then the server still has it, perhaps under another name.
AddedInv ==
  \A k \in 1 .. Len(events) : Stands(k) =>
    object[events[k].id] # None /\ object[events[k].id].kind = events[k].object.kind

\* The graphs of a path of announcements.
Leads(path) ==
  /\ path[0] = Graph(mirror, informed)
  /\ \A k \in 1 .. Len(events) : path[k] = Handled(path[k - 1], events[k])
  /\ path[Len(events)] = Expected
  /\ \A k \in 0 .. Len(events) : Closed(path[k])

\* Some course of graphs leads from the mirror to the server.
PathInv == \E path : Leads(path)

\* The invariant.
MirrorInv == TypeInv /\ AddedInv /\ PathInv

\* Expected, of the server's objects o and the streams t it has told of.
Seen(o, t) ==
  [i \in Ids |->
    IF o[i] = None THEN None
    ELSE IF i \in t THEN Stream(o[i].app, o[i].shown)
    ELSE Discovered(o[i])]

\* The graph a mirror should have of the objects o, told of the streams t.
ExpectedOf(o, t) == Graph(Seen(o, t), t)

\* What is expected of each kind of object.
LEMMA ExpectedFacts ==
  ASSUME NEW o \in [Ids -> Objects \cup {None}], NEW t, t \subseteq Of("stream", o)
  PROVE  LET E == ExpectedOf(o, t) IN
         /\ E.informed = t
         /\ \A i \in Ids : E.objects[i] =
              IF o[i] = None THEN None
              ELSE IF i \in t THEN Stream(o[i].app, o[i].shown)
              ELSE Discovered(o[i])
         /\ \A j \in Of("port", o) \cup Of("link", o) : E.objects[j] = o[j]
         /\ \A j \in Of("stream", o) :
              \E a \in Apps \cup {None} : E.objects[j] = Stream(a, o[j].shown)
         /\ \A j \in Ids : o[j] = None \/ o[j] = Device => E.objects[j] = None
         /\ \A kind \in {"stream", "port", "link"} :
              Of(kind, E.objects) = Of(kind, o)
<1> DEFINE E == ExpectedOf(o, t)
<1>1. /\ E.informed = t
      /\ \A i \in Ids : E.objects[i] =
           IF o[i] = None THEN None
           ELSE IF i \in t THEN Stream(o[i].app, o[i].shown)
           ELSE Discovered(o[i])
  BY GraphParts DEF ExpectedOf, Seen
<1> HIDE DEF E
<1>2. \A i \in t : i \in Of("stream", o)
  OBVIOUS
<1>3. \A j \in Of("port", o) \cup Of("link", o) : E.objects[j] = o[j]
  BY <1>1, <1>2 DEF Of, Discovered
<1>4. ASSUME NEW j \in Of("stream", o)
      PROVE  \E a \in Apps \cup {None} : E.objects[j] = Stream(a, o[j].shown)
  <2>1. j \in Ids /\ o[j] # None /\ o[j].kind = "stream" /\ o[j] \in Objects
    BY DEF Of
  <2>2. PICK a \in Apps \cup {None}, shown \in BOOLEAN : o[j] = Stream(a, shown)
    BY <2>1, ObjectCases
  <2>3. o[j].app = a
    BY <2>2 DEF Stream
  <2>4. CASE j \in t
    BY <1>1, <2>1, <2>3, <2>4
  <2>5. CASE j \notin t
    <3>1. E.objects[j] = Discovered(o[j])
      BY <1>1, <2>1, <2>5
    <3>2. Discovered(o[j]) = Stream(IF o[j].shown THEN o[j].app ELSE None, o[j].shown)
      BY <2>1 DEF Discovered
    <3>3. (IF o[j].shown THEN o[j].app ELSE None) \in Apps \cup {None}
      BY <2>3
    <3> QED
      BY <3>1, <3>2, <3>3
  <2> QED
    BY <2>4, <2>5
<1>5. ASSUME NEW j \in Ids, o[j] = None \/ o[j] = Device
      PROVE  E.objects[j] = None
  <2>1. CASE o[j] = None
    BY <1>1, <2>1
  <2>2. CASE o[j] = Device
    <3>1. o[j] # None /\ o[j].kind = "device"
      BY <2>2, ObjectKinds
    <3>2. j \notin t
      BY <1>2, <3>1 DEF Of
    <3> QED
      BY <1>1, <3>1, <3>2 DEF Discovered
  <2> QED
    BY <1>5, <2>1, <2>2
<1>6. ASSUME NEW j \in Ids
      PROVE  /\ E.objects[j] = None <=> o[j] = None \/ o[j] = Device
             /\ E.objects[j] # None => E.objects[j].kind = o[j].kind
  <2>1. CASE o[j] = None \/ o[j] = Device
    BY <1>5, <2>1
  <2>2. CASE o[j] # None /\ o[j] # Device
    <3>1. o[j] \in Objects
      BY <2>2
    <3>2. CASE o[j].kind = "stream"
      <4>1. j \in Of("stream", o)
        BY <2>2, <3>2 DEF Of
      <4>2. PICK a \in Apps \cup {None}, shown \in BOOLEAN : o[j] = Stream(a, shown)
        BY <3>1, <3>2, ObjectCases
      <4>3. o[j].shown \in BOOLEAN
        BY <4>2 DEF Stream
      <4> QED
        BY <1>4, <2>2, <3>2, <4>1, <4>3, ObjectKinds
    <3>3. CASE o[j].kind \in {"port", "link"}
      BY <1>3, <2>2, <3>3 DEF Of
    <3> QED
      BY <2>2, <3>1, <3>2, <3>3, ObjectCases
  <2> QED
    BY <2>1, <2>2
<1>7. \A kind \in {"stream", "port", "link"} : Of(kind, E.objects) = Of(kind, o)
  BY <1>6, ObjectKinds DEF Of
<1> QED
  BY <1>1, <1>3, <1>4, <1>5, <1>7 DEF E

\* What is expected is closed if the server's graph is.
LEMMA ExpectedClosed ==
  ASSUME NEW o \in [Ids -> Objects \cup {None}], NEW t, t \subseteq Of("stream", o)
  PROVE  Closed(ExpectedOf(o, t)) <=>
           \A l \in Of("link", o) : {o[l].out, o[l].in} \subseteq Of("port", o)
<1> DEFINE E == ExpectedOf(o, t)
<1>1. /\ Of("link", E.objects) = Of("link", o) /\ Of("port", E.objects) = Of("port", o)
      /\ \A l \in Of("link", o) : E.objects[l] = o[l]
  BY ExpectedFacts
<1> HIDE DEF E
<1>2. Closed(E) <=> \A l \in Of("link", o) : {o[l].out, o[l].in} \subseteq Of("port", o)
  BY <1>1 DEF Closed
<1> QED
  BY <1>2 DEF E

-----------------------------------------------------------------------------
(* Steps of the server *)

\* What each announcement does to a graph.
LEMMA HandledCases ==
  /\ \A g, i, o : Handled(g, Added(i, o)) = Inserted(g, i, o)
  /\ \A g, i : Handled(g, Removed(i)) = RemovedId(g, i)
  /\ \A g, i, a : Handled(g, Informed(i, a)) = Updated(g, i, a)
BY DEF Handled, Added, Removed, Informed

\* One more announcement, which does to the mirror what was done to the graph.
LEMMA PathExtended ==
  ASSUME TypeInv, PathInv, NEW e \in Announcements, events' = Append(events, e),
         UNCHANGED <<mirror, informed>>, Expected' = Handled(Expected, e), Closed(Expected)'
  PROVE  PathInv'
<1>1. PICK path : Leads(path)
  BY DEF PathInv
<1> DEFINE n == Len(events)
<1>2. /\ n \in Nat /\ Len(events') = n + 1 /\ events'[n + 1] = e
      /\ \A k \in 1 .. n : events'[k] = events[k]
  BY DEF TypeInv
<1>3. /\ path[0] = Graph(mirror, informed) /\ path[n] = Expected
      /\ \A k \in 1 .. n : path[k] = Handled(path[k - 1], events[k])
      /\ \A k \in 0 .. n : Closed(path[k])
  BY <1>1 DEF Leads
<1> HIDE DEF n
<1>4. PICK longer : /\ \A k \in 0 .. n : longer[k] = path[k]
                    /\ longer[n + 1] = Expected'
  <2> DEFINE f == [k \in 0 .. n + 1 |-> IF k <= n THEN path[k] ELSE Expected']
  <2>1. (\A k \in 0 .. n : f[k] = path[k]) /\ f[n + 1] = Expected'
    BY <1>2
  <2> HIDE DEF f
  <2> QED
    BY <2>1
<1>5. longer[0] = Graph(mirror', informed')
  BY <1>2, <1>3, <1>4
<1>6. ASSUME NEW k \in 1 .. n + 1 PROVE longer[k] = Handled(longer[k - 1], events'[k])
  <2>1. CASE k \in 1 .. n
    <3>1. k \in 0 .. n /\ k - 1 \in 0 .. n
      BY <1>2, <2>1
    <3> QED
      BY <1>2, <1>3, <1>4, <2>1, <3>1
  <2>2. CASE k = n + 1
    <3>1. n \in 0 .. n /\ k - 1 = n
      BY <1>2, <2>2
    <3> QED
      BY <1>2, <1>3, <1>4, <2>2, <3>1
  <2> QED
    BY <1>2, <2>1, <2>2
<1>7. \A k \in 0 .. n + 1 : Closed(longer[k])
  <2>1. Closed(Expected')
    BY DEF Closed
  <2>2. \A k \in 0 .. n + 1 : k \in 0 .. n \/ k = n + 1
    BY <1>2
  <2> QED
    BY <1>3, <1>4, <2>1, <2>2
<1>8. Leads(longer)'
  BY <1>2, <1>4, <1>5, <1>6, <1>7 DEF Leads, n
<1> QED
  BY <1>8 DEF PathInv

\* One more announcement of what the server has.
LEMMA AddedExtended ==
  ASSUME TypeInv, AddedInv, NEW e \in Announcements, events' = Append(events, e),
         e.type = "added" => object'[e.id] # None /\ object'[e.id].kind = e.object.kind,
         \A j \in Ids : object[j] # None => object'[j] # None /\ object'[j].kind = object[j].kind
  PROVE  AddedInv'
<1> DEFINE n == Len(events)
<1>1. /\ n \in Nat /\ Len(events') = n + 1 /\ events'[n + 1] = e
      /\ \A k \in 1 .. n : events'[k] = events[k]
      /\ \A k \in 1 .. n : events[k] \in Announcements
  BY DEF TypeInv
<1> HIDE DEF n
<1>2. SUFFICES ASSUME NEW k \in 1 .. n + 1, Stands(k)'
               PROVE  /\ object'[events'[k].id] # None
                      /\ object'[events'[k].id].kind = events'[k].object.kind
  BY <1>1 DEF AddedInv
<1>3. CASE k = n + 1
  BY <1>1, <1>2, <1>3 DEF Stands
<1>4. CASE k \in 1 .. n
  <2>1. \A m \in k + 1 .. n : m \in 1 .. n /\ m \in k + 1 .. n + 1
    BY <1>1, <1>4
  <2>2. Stands(k)
    BY <1>1, <1>2, <1>4, <2>1 DEF Stands, n
  <2>3. object[events[k].id] # None /\ object[events[k].id].kind = events[k].object.kind
    BY <1>4, <2>2 DEF AddedInv, n
  <2>4. events[k].id \in Ids
    BY <1>1, <1>4 DEF Announcements, Added, Removed, Informed
  <2> QED
    BY <1>1, <1>4, <2>3, <2>4
<1> QED
  BY <1>1, <1>3, <1>4

\* The server has no link without both of its ports.
LEMMA ServerClosed ==
  ASSUME MirrorInv
  PROVE  /\ Closed(Expected) /\ Expected = ExpectedOf(object, told)
         /\ \A l \in Of("link", object) : {object[l].out, object[l].in} \subseteq Of("port", object)
<1>1. PICK path : Leads(path)
  BY DEF MirrorInv, PathInv
<1>2. Len(events) \in 0 .. Len(events)
  BY DEF MirrorInv, TypeInv
<1>3. Closed(Expected)
  BY <1>1, <1>2 DEF Leads
<1>4. Expected = ExpectedOf(object, told)
  BY DEF Expected, ExpectedOf, Seen
<1>5. Closed(ExpectedOf(object, told))
  BY <1>3, <1>4
<1> QED
  BY <1>3, <1>4, <1>5, ExpectedClosed DEF MirrorInv, TypeInv

\* A new object.
LEMMA AnnounceStep ==
  ASSUME MirrorInv, NEW i \in Ids, NEW o \in Objects, Announce(i, o),
         o.kind = "link" => {o.out, o.in} \subseteq Of("port", object)
  PROVE  MirrorInv'
<1> USE DEF MirrorInv
<1> DEFINE e == Added(i, o)
<1>1. /\ object[i] = None /\ object' = [object EXCEPT ![i] = o]
      /\ events' = Append(events, e) /\ UNCHANGED <<asked, told, mirror, informed>>
  BY DEF Announce
<1>2. e \in Announcements /\ e.type = "added" /\ e.id = i /\ e.object = o
  BY DEF Announcements, Added
<1>3. o # None /\ o.kind \in {"stream", "device", "port", "link"}
  BY ObjectCases
<1>4. /\ object' \in [Ids -> Objects \cup {None}] /\ object'[i] = o
      /\ \A j \in Ids : j # i => object'[j] = object[j]
      /\ \A kind : i \notin Of(kind, object)
      /\ \A kind : Of(kind, object') = Of(kind, object) \cup (IF o.kind = kind THEN {i} ELSE {})
  BY <1>1, <1>3 DEF TypeInv, Of
<1>5. TypeInv'
  <2>1. events' \in Seq(Announcements)
    BY <1>1, <1>2 DEF TypeInv
  <2> QED
    BY <1>1, <1>4, <2>1 DEF TypeInv
<1>6. AddedInv'
  BY <1>1, <1>2, <1>3, <1>4, AddedExtended
<1>7. Expected' = Handled(Expected, e)
  <2>1. Expected = Graph(Seen(object, told), told) /\ Expected' = Graph(Seen(object', told), told)
    BY <1>1 DEF Expected, Seen
  <2>2. Handled(Expected, e) = Inserted(Expected, i, o)
    BY HandledCases
  <2>3. i \notin told
    BY <1>4 DEF TypeInv
  <2>4. Seen(object', told) = [Seen(object, told) EXCEPT ![i] = Discovered(o)]
    BY <1>3, <1>4, <2>3 DEF Seen
  <2>5. CASE Discovered(o) = None
    <3>1. Seen(object', told) = Seen(object, told)
      BY <1>1, <1>4, <2>4, <2>5 DEF Seen
    <3> QED
      BY <2>1, <2>2, <2>5, <3>1 DEF Inserted
  <2>6. CASE Discovered(o) # None
    BY <2>1, <2>2, <2>4, <2>6, GraphParts DEF Inserted
  <2> QED
    BY <2>5, <2>6
<1>8. Closed(Expected)'
  <2>2. \A l \in Of("link", object) : {object[l].out, object[l].in} \subseteq Of("port", object)
    BY ServerClosed
  <2>3. \A l \in Of("link", object') :
          {object'[l].out, object'[l].in} \subseteq Of("port", object')
    BY <1>4, <2>2 DEF Of
  <2>4. Closed(ExpectedOf(object', told'))
    BY <1>5, <2>3, ExpectedClosed DEF TypeInv
  <2>5. Expected' = ExpectedOf(object', told')
    BY DEF Expected, ExpectedOf, Seen
  <2> QED
    BY <2>4, <2>5 DEF Closed
<1> QED
  BY <1>1, <1>2, <1>5, <1>6, <1>7, <1>8, PathExtended

\* The info of a stream, under the name it has now.
LEMMA InfoStep ==
  ASSUME MirrorInv, NEW i \in Of("stream", object), NEW a \in Apps \cup {None},
         DOMAIN object' = Ids, object' = [j \in Ids |-> object'[j]],
         \A j \in Ids : j # i => object'[j] = object[j],
         \E shown \in BOOLEAN : /\ object'[i] = Stream(a, shown)
                                /\ \E b \in Apps \cup {None} : object[i] = Stream(b, shown),
         told' = told \cup {i}, asked' \subseteq asked \cup {i},
         events' = Append(events, Informed(i, a)), UNCHANGED <<mirror, informed>>
  PROVE  MirrorInv'
<1> USE DEF MirrorInv
<1> DEFINE e == Informed(i, a)
<1>1. PICK shown \in BOOLEAN, b \in Apps \cup {None} :
        object'[i] = Stream(a, shown) /\ object[i] = Stream(b, shown)
  OBVIOUS
<1>2. /\ i \in Ids /\ object[i] # None /\ object[i].kind = "stream"
      /\ object'[i] # None /\ object'[i].kind = "stream" /\ object'[i] \in Objects
  <2>1. Stream(a, shown) \in Objects
    BY DEF Objects
  <2> QED
    BY <1>1, <2>1, ObjectKinds DEF Of
<1>3. /\ object' \in [Ids -> Objects \cup {None}]
      /\ \A kind : Of(kind, object') = Of(kind, object)
  <2>1. object' \in [Ids -> Objects \cup {None}]
    BY <1>2 DEF TypeInv
  <2>2. \A j \in Ids :
          /\ object'[j] # None <=> object[j] # None
          /\ object[j] # None => object'[j].kind = object[j].kind
    BY <1>2
  <2>3. ASSUME NEW kind PROVE Of(kind, object') = Of(kind, object)
    BY <2>2 DEF Of
  <2> QED
    BY <2>1, <2>3
<1>4. e \in Announcements /\ e.type = "info"
  BY <1>2 DEF Announcements, Informed
<1>5. TypeInv'
  <2>1. events' \in Seq(Announcements)
    BY <1>4 DEF TypeInv
  <2> QED
    BY <1>3, <2>1 DEF TypeInv
<1>6. AddedInv'
  BY <1>2, <1>4, AddedExtended
<1>7. Expected' = Handled(Expected, e)
  <2>1. Expected = Graph(Seen(object, told), told) /\ Expected' = Graph(Seen(object', told'), told')
    BY DEF Expected, Seen
  <2>2. Handled(Expected, e) = Updated(Expected, i, a)
    BY HandledCases
  <2>3. i \in Of("stream", Expected.objects)
    BY ServerClosed, ExpectedFacts DEF TypeInv
  <2>4. PICK c \in Apps \cup {None} : Seen(object, told)[i] = Stream(c, shown)
    <3>1. object[i].shown = shown
      BY <1>1 DEF Stream
    <3>2. \E c \in Apps \cup {None} : ExpectedOf(object, told).objects[i] = Stream(c, object[i].shown)
      BY ExpectedFacts DEF TypeInv
    <3>3. ExpectedOf(object, told).objects = Seen(object, told)
      BY GraphParts DEF ExpectedOf
    <3> QED
      BY <3>1, <3>2, <3>3
  <2>5. [Stream(c, shown) EXCEPT !.app = a] = Stream(a, shown)
    BY DEF Stream
  <2>6. Seen(object', told')[i] = Stream(a, shown)
    <3>1. object'[i].app = a /\ object'[i].shown = shown
      BY <1>1 DEF Stream
    <3> QED
      BY <1>2, <3>1 DEF Seen
  <2>7. \A j \in Ids : j # i => Seen(object', told')[j] = Seen(object, told)[j]
    BY DEF Seen
  <2>8. Seen(object', told') = [Seen(object, told) EXCEPT ![i].app = a]
    <3>1. DOMAIN Seen(object, told) = Ids
      BY DEF Seen
    <3>2. Seen(object', told') = [j \in Ids |-> Seen(object', told')[j]]
      BY DEF Seen
    <3>3. [Seen(object, told) EXCEPT ![i].app = a]
            = [j \in Ids |-> IF j = i THEN [Seen(object, told)[i] EXCEPT !.app = a]
                                      ELSE Seen(object, told)[j]]
      BY <1>2, <3>1
    <3>4. [Seen(object, told)[i] EXCEPT !.app = a] = Stream(a, shown)
      BY <2>4, <2>5
    <3>5. \A j \in Ids : Seen(object', told')[j] =
            IF j = i THEN [Seen(object, told)[i] EXCEPT !.app = a] ELSE Seen(object, told)[j]
      BY <2>6, <2>7, <3>4
    <3>6. [j \in Ids |-> Seen(object', told')[j]]
            = [j \in Ids |-> IF j = i THEN [Seen(object, told)[i] EXCEPT !.app = a]
                                      ELSE Seen(object, told)[j]]
      BY ONLY <3>5
    <3> QED
      BY ONLY <3>2, <3>3, <3>6
  <2> QED
    BY ZenonT(30), <2>1, <2>2, <2>3, <2>8, GraphParts DEF Updated
<1>8. Closed(Expected)'
  <2>1. \A l \in Of("link", object) : {object[l].out, object[l].in} \subseteq Of("port", object)
    BY ServerClosed
  <2>2. i \notin Of("link", object)
    BY <1>2 DEF Of
  <2>3. \A l \in Of("link", object') :
          {object'[l].out, object'[l].in} \subseteq Of("port", object')
    <3>1. ASSUME NEW l \in Of("link", object)
          PROVE  {object'[l].out, object'[l].in} \subseteq Of("port", object)
      <4>1. l \in Ids /\ l # i
        BY <2>2 DEF Of
      <4>2. object'[l] = object[l]
        BY <4>1
      <4> QED
        BY ONLY <2>1, <3>1, <4>2
    <3> QED
      BY ONLY <1>3, <3>1
  <2>4. Closed(ExpectedOf(object', told'))
    BY <1>5, <2>3, ExpectedClosed DEF TypeInv
  <2>5. Expected' = ExpectedOf(object', told')
    BY DEF Expected, ExpectedOf, Seen
  <2> QED
    BY <2>4, <2>5 DEF Closed
<1> QED
  BY <1>4, <1>5, <1>6, <1>7, <1>8, PathExtended

-----------------------------------------------------------------------------
(* What goes in one go *)

\* An order of a finite set has all of it.
LEMMA OrderCovers ==
  ASSUME NEW S, IsFiniteSet(S), NEW order \in SetToSeqs(S)
  PROVE  /\ order \in Seq(S) /\ Len(order) = Cardinality(S)
         /\ \A x \in S : \E k \in 1 .. Len(order) : order[k] = x
<1> DEFINE n == Cardinality(S)
<1>1. n \in Nat
  BY FS_CardinalityType
<1>2. order \in [1 .. n -> S] /\ \A i, j \in 1 .. n : i # j => order[i] # order[j]
  BY DEF SetToSeqs
<1>3. Cardinality(1 .. n) = n /\ IsFiniteSet(1 .. n)
  BY <1>1, FS_Interval
<1> HIDE DEF n
<1>4. order \in Seq(S) /\ Len(order) = n
  BY <1>1, <1>2
<1>5. order \in Injection(1 .. n, S)
  BY <1>2 DEF Injection, IsInjective
<1>6. order \in Surjection(1 .. n, S)
  BY <1>3, <1>5, FS_Injection DEF n
<1> QED
  BY <1>4, <1>6 DEF Surjection, n

\* What goes with an object includes all that the mirror will remove with any of it.
LEMMA GoneSpreads ==
  ASSUME MirrorInv, NEW i \in Ids
  PROVE  /\ Spreads(Expected, {i} \cup Hanging(i)) /\ Hanging(i) \subseteq Ids
         /\ \A x \in Hanging(i) : x \in Of("port", object) \cup Of("link", object)
<1> DEFINE g == Graph(object, {})
<1> DEFINE E == Expected
<1>1. g.objects = object
  BY GraphParts
<1>2. /\ \A kind \in {"stream", "port", "link"} : Of(kind, E.objects) = Of(kind, object)
      /\ \A j \in Of("port", object) \cup Of("link", object) : E.objects[j] = object[j]
  BY ServerClosed, ExpectedFacts DEF MirrorInv, TypeInv
<1> HIDE DEF g, E
<1>3. \A x : PortsOf(E, x) = PortsOf(g, x)
  BY <1>1, <1>2 DEF PortsOf
<1>4. \A P : LinksAt(E, P) = LinksAt(g, P)
  BY <1>1, <1>2 DEF LinksAt
<1> DEFINE hanging == PortsOf(g, i) \cup ({i} \cap Of("port", object))
<1>5. Hanging(i) = PortsOf(g, i) \cup LinksAt(g, hanging)
  BY DEF Hanging, g
<1>6. /\ PortsOf(g, i) \subseteq Of("port", object)
      /\ \A P : LinksAt(g, P) \subseteq Of("link", object)
  BY <1>1 DEF PortsOf, LinksAt
<1>7. \A P, Q : P \subseteq Q => LinksAt(g, P) \subseteq LinksAt(g, Q)
  BY DEF LinksAt
<1> HIDE DEF hanging
<1>8. ASSUME NEW x \in {i} \cup Hanging(i) PROVE Dependents(E, x) \subseteq Hanging(i)
  <2>1. CASE x \in Of("stream", object)
    <3>1. x = i
      <4>1. x \notin Of("port", object) /\ x \notin Of("link", object)
        BY ONLY <2>1 DEF Of
      <4>2. PortsOf(g, i) \subseteq Of("port", object) /\ LinksAt(g, hanging) \subseteq Of("link", object)
        BY ONLY <1>6
      <4> QED
        BY ONLY <1>5, <1>8, <4>1, <4>2
    <3>2. Dependents(E, x) = PortsOf(g, x) \cup LinksAt(g, PortsOf(g, x))
      BY ZenonT(60), <1>2, <1>3, <1>4, <2>1, DependentsCases
    <3>3. LinksAt(g, PortsOf(g, x)) \subseteq LinksAt(g, hanging)
      BY <1>7, <3>1 DEF hanging
    <3> QED
      BY <1>5, <3>1, <3>2, <3>3
  <2>2. CASE x \in Of("port", object)
    <3>1. x \in hanging
      BY <1>5, <1>6, <2>2 DEF Of, hanging
    <3>2. Dependents(E, x) = LinksAt(g, {x})
      BY <1>2, <1>4, <2>2, DependentsCases
    <3>3. LinksAt(g, {x}) \subseteq LinksAt(g, hanging)
      BY <1>7, <3>1
    <3> QED
      BY <1>5, <3>2, <3>3
  <2>3. CASE x \notin Of("stream", object) /\ x \notin Of("port", object)
    BY <1>2, <2>3, DependentsCases
  <2> QED
    BY <2>1, <2>2, <2>3
<1>9. Hanging(i) \subseteq Ids
  BY <1>5, <1>6 DEF Of
<1> QED
  BY <1>5, <1>6, <1>8, <1>9 DEF Spreads, E

\* The announcements that follow when an object and what hangs on it go.
LEMMA GoneAnnounced ==
  ASSUME MirrorInv, NEW S, S \subseteq Ids, NEW order \in Seq(S),
         events' = events \o [k \in DOMAIN order |-> Removed(order[k])]
  PROVE  /\ events' \in Seq(Announcements) /\ Len(events') = Len(events) + Len(order)
         /\ \A k \in 1 .. Len(events) : events'[k] = events[k]
         /\ \A k \in 1 .. Len(order) : events'[Len(events) + k] = Removed(order[k])
<1> DEFINE gone == [k \in DOMAIN order |-> Removed(order[k])]
<1> DEFINE m == Len(order)
<1>1. m \in Nat /\ DOMAIN order = 1 .. m /\ \A k \in 1 .. m : order[k] \in Ids
  OBVIOUS
<1>2. \A k \in 1 .. m : Removed(order[k]) \in Announcements
  BY <1>1 DEF Announcements
<1>3. gone \in [1 .. m -> Announcements] /\ \A k \in 1 .. m : gone[k] = Removed(order[k])
  BY <1>1, <1>2
<1>4. events \in Seq(Announcements) /\ events' = events \o gone
  BY DEF MirrorInv, TypeInv
<1> HIDE DEF gone, m
<1>5. gone \in Seq(Announcements) /\ Len(gone) = m
  BY <1>1, <1>3
<1>6. events' \in Seq(Announcements) /\ Len(events') = Len(events) + m
  <2>1. /\ events \o gone \in Seq(Announcements)
        /\ Len(events \o gone) = Len(events) + Len(gone)
    BY <1>4, <1>5, ConcatProperties
  <2> QED
    BY <1>4, <1>5, <2>1
<1>7. \A k \in 1 .. Len(events) : events'[k] = events[k]
  BY <1>4, <1>5
<1>8. ASSUME NEW k \in 1 .. m PROVE events'[Len(events) + k] = Removed(order[k])
  <2>1. events'[Len(events) + k] = gone[k]
    BY <1>1, <1>4, <1>5
  <2> QED
    BY <1>3, <2>1
<1> QED
  BY <1>6, <1>7, <1>8 DEF m

\* A path goes on through the removals of S, in any order, whatever they take along.
LEMMA PathOfRemovals ==
  ASSUME MirrorInv, NEW S, S \subseteq Ids, IsFiniteSet(S), Spreads(Expected, S),
         NEW order \in SetToSeqs(S),
         events' = events \o [k \in DOMAIN order |-> Removed(order[k])],
         UNCHANGED <<mirror, informed>>, Expected' = Without(Expected, S, S)
  PROVE  PathInv'
<1> DEFINE E == Expected
<1> DEFINE n == Len(events)
<1> DEFINE m == Len(order)
<1> DEFINE T(k) == {order[j] : j \in 1 .. k}
<1> DEFINE R(k) == T(k) \cup UNION {Dependents(E, x) : x \in T(k)}
<1>1. PICK path : Leads(path)
  BY DEF MirrorInv, PathInv
<1>2. /\ order \in Seq(S) /\ \A x \in S : \E k \in 1 .. m : order[k] = x
      /\ n \in Nat /\ m \in Nat /\ \A k \in 1 .. m : order[k] \in S
  <2>1. order \in Seq(S) /\ \A x \in S : \E k \in 1 .. m : order[k] = x
    BY OrderCovers
  <2>2. m \in Nat /\ \A k \in 1 .. m : order[k] \in S
    BY <2>1
  <2>3. n \in Nat
    BY DEF MirrorInv, TypeInv
  <2> QED
    BY <2>1, <2>2, <2>3
<1>3. /\ Len(events') = n + m /\ \A k \in 1 .. n : events'[k] = events[k]
      /\ \A k \in 1 .. m : events'[n + k] = Removed(order[k])
  BY <1>2, GoneAnnounced
<1>4. /\ path[0] = Graph(mirror, informed) /\ path[n] = E
      /\ \A k \in 1 .. n : path[k] = Handled(path[k - 1], events[k])
      /\ \A k \in 0 .. n : Closed(path[k])
  BY <1>1 DEF Leads
<1>5. E = Without(E, {}, {})
  <2>1. E = Graph(Seen(object, told), told)
    BY DEF Expected, Seen
  <2>2. Seen(object, told) = [j \in Ids |-> IF j \in {} THEN None ELSE Seen(object, told)[j]]
    BY DEF Seen
  <2> HIDE DEF E
  <2> QED
    BY <2>1, <2>2, GraphParts DEF Without
<1>6. Spreads(E, S) /\ Closed(E) /\ Expected' = Without(E, S, S)
  BY ServerClosed
<1> HIDE DEF E, n, m
<1>7. T(0) = {} /\ R(0) = {}
  OBVIOUS
<1>8. T(m) = S /\ R(m) = S
  <2>1. T(m) = S
    BY <1>2
  <2> QED
    BY <1>6, <2>1 DEF Spreads
<1>9. ASSUME NEW k \in 1 .. m
      PROVE  /\ order[k] \in Ids
             /\ T(k) = T(k - 1) \cup {order[k]}
             /\ R(k) = R(k - 1) \cup {order[k]} \cup Dependents(E, order[k])
  <2>1. \A j : j \in 1 .. k <=> j \in 1 .. k - 1 \/ j = k
    BY <1>2
  <2>2. T(k) = T(k - 1) \cup {order[k]}
    BY <2>1
  <2>3. order[k] \in Ids
    BY <1>2 DEF m
  <2> QED
    BY <2>2, <2>3
<1>10. ASSUME NEW k PROVE Spreads(E, R(k))
  <2> HIDE DEF T
  <2> SUFFICES ASSUME NEW x \in R(k) PROVE Dependents(E, x) \subseteq R(k)
    BY DEF Spreads
  <2>1. CASE x \in T(k)
    BY <2>1
  <2>2. CASE x \notin T(k)
    <3>1. PICK y \in T(k) : x \in Dependents(E, y)
      BY <2>2
    <3> QED
      BY <3>1, DependentsTransitive
  <2> QED
    BY <2>1, <2>2
<1> HIDE DEF T, R
<1>11. PICK longer : /\ \A k \in 0 .. n : longer[k] = path[k]
                     /\ \A k \in 0 .. m : longer[n + k] = Without(E, R(k), T(k))
  <2> DEFINE f == [k \in 0 .. n + m |->
                    IF k < n THEN path[k] ELSE Without(E, R(k - n), T(k - n))]
  <2>1. f[n] = path[n]
    <3>1. n \in 0 .. n + m /\ ~(n < n) /\ n - n = 0
      BY <1>2
    <3>2. f[n] = Without(E, R(0), T(0))
      BY <3>1
    <3> QED
      BY <1>4, <1>5, <1>7, <3>2
  <2>2. \A k \in 0 .. n : f[k] = path[k]
    BY <1>2, <2>1
  <2>3. ASSUME NEW k \in 0 .. m PROVE f[n + k] = Without(E, R(k), T(k))
    <3>1. n + k \in 0 .. n + m /\ ~(n + k < n) /\ (n + k) - n = k
      BY <1>2
    <3> QED
      BY <3>1
  <2> HIDE DEF f
  <2> QED
    BY <2>2, <2>3
<1>12. ASSUME NEW k \in 1 .. n + m PROVE longer[k] = Handled(longer[k - 1], events'[k])
  <2>1. CASE k \in 1 .. n
    <3>1. k \in 0 .. n /\ k - 1 \in 0 .. n
      BY <1>2, <2>1
    <3> QED
      BY <1>3, <1>4, <1>11, <2>1, <3>1
  <2>2. CASE k \in n + 1 .. n + m
    <3>1. PICK j \in 1 .. m : k = n + j /\ k - 1 = n + (j - 1) /\ j - 1 \in 0 .. m /\ j \in 0 .. m
      <4>1. k - n \in 1 .. m
        BY <1>2, <2>2
      <4> QED
        BY <1>2, <2>2, <4>1
    <3>2. longer[k] = Without(E, R(j), T(j)) /\ longer[k - 1] = Without(E, R(j - 1), T(j - 1))
      BY <1>11, <3>1
    <3>3. events'[k] = Removed(order[j])
      BY <1>3, <3>1
    <3>4. RemovedId(Without(E, R(j - 1), T(j - 1)), order[j]) = Without(E, R(j), T(j))
      <4>1. RemovedId(Without(E, R(j - 1), T(j - 1)), order[j]) =
              Without(E, R(j - 1) \cup {order[j]} \cup Dependents(E, order[j]), T(j - 1) \cup {order[j]})
        BY <1>9, <1>10, RemovalStep
      <4> QED
        BY <1>9, <4>1
    <3> QED
      BY <3>2, <3>3, <3>4, HandledCases
  <2>3. k \in 1 .. n \/ k \in n + 1 .. n + m
    BY <1>2
  <2> QED
    BY <2>1, <2>2, <2>3
<1>13. ASSUME NEW k \in 0 .. n + m PROVE Closed(longer[k])
  <2>1. CASE k \in 0 .. n
    BY <1>4, <1>11, <2>1
  <2>2. CASE k \notin 0 .. n
    <3>1. PICK j \in 0 .. m : k = n + j
      <4>1. k - n \in 0 .. m /\ k = n + (k - n)
        BY <1>2, <2>2
      <4> QED
        BY <4>1
    <3>2. Closed(Without(E, R(j), T(j)))
      BY <1>6, <1>10, WithoutClosed
    <3> QED
      BY <1>11, <3>1, <3>2
  <2> QED
    BY <2>1, <2>2
<1>14. longer[0] = Graph(mirror', informed') /\ longer[n + m] = Expected'
  <2>1. 0 \in 0 .. n /\ m \in 0 .. m
    BY <1>2
  <2> QED
    BY <1>4, <1>6, <1>8, <1>11, <2>1
<1>15. Leads(longer)'
  BY <1>3, <1>12, <1>13, <1>14 DEF Leads
<1> QED
  BY <1>15 DEF PathInv

\* An application, a device, a port or a link goes.
LEMMA UnregisterStep ==
  ASSUME MirrorInv, Unregister
  PROVE  MirrorInv'
<1>1. PICK i \in Ids \ {Speaker, Jack} :
        LET gone == {i} \cup Hanging(i) IN
        /\ object[i] # None
        /\ \E order \in SetToSeqs(gone) :
             /\ Room(Len(order))
             /\ events' = events \o [k \in DOMAIN order |-> Removed(order[k])]
        /\ object' = [j \in Ids |-> IF j \in gone THEN None ELSE object[j]]
        /\ asked' = asked \ gone
        /\ told' = told \ gone
        /\ UNCHANGED <<mirror, informed>>
  BY DEF Unregister
<1> DEFINE gone == {i} \cup Hanging(i)
<1>2. PICK order \in SetToSeqs(gone) :
        events' = events \o [k \in DOMAIN order |-> Removed(order[k])]
  BY <1>1
<1>3. /\ object' = [j \in Ids |-> IF j \in gone THEN None ELSE object[j]]
      /\ asked' = asked \ gone /\ told' = told \ gone /\ UNCHANGED <<mirror, informed>>
  BY <1>1
<1>4. gone \subseteq Ids /\ Spreads(Expected, gone) /\ IsFiniteSet(gone)
  <2>1. gone \subseteq Ids /\ Spreads(Expected, gone)
    BY GoneSpreads
  <2> HIDE DEF gone
  <2> QED
    BY <2>1, IdsAssumption, FS_Subset
<1> HIDE DEF gone
<1>5. /\ order \in Seq(gone) /\ \A x \in gone : \E k \in 1 .. Len(order) : order[k] = x
      /\ Len(order) \in Nat /\ Len(events) \in Nat
  <2>1. order \in Seq(gone) /\ \A x \in gone : \E k \in 1 .. Len(order) : order[k] = x
    BY <1>4, OrderCovers
  <2> QED
    BY <2>1 DEF MirrorInv, TypeInv
<1>6. /\ events' \in Seq(Announcements) /\ Len(events') = Len(events) + Len(order)
      /\ \A k \in 1 .. Len(events) : events'[k] = events[k]
      /\ \A k \in 1 .. Len(order) : events'[Len(events) + k] = Removed(order[k])
  BY <1>2, <1>4, <1>5, GoneAnnounced
<1>7. \A j \in Ids : object'[j] = IF j \in gone THEN None ELSE object[j]
  BY <1>3
<1>8. TypeInv'
  <2>1. object' \in [Ids -> Objects \cup {None}]
    BY <1>3 DEF MirrorInv, TypeInv
  <2>2. Of("stream", object) \ gone \subseteq Of("stream", object')
    BY <1>7 DEF Of
  <2> QED
    BY <1>3, <1>6, <2>1, <2>2 DEF MirrorInv, TypeInv
<1>9. AddedInv'
  <2> DEFINE n == Len(events)
  <2> DEFINE m == Len(order)
  <2> SUFFICES ASSUME NEW k \in 1 .. n + m, Stands(k)'
               PROVE  /\ object'[events'[k].id] # None
                      /\ object'[events'[k].id].kind = events'[k].object.kind
    BY <1>6 DEF AddedInv
  <2>1. k \in 1 .. n
    <3>1. CASE k \in n + 1 .. n + m
      <4>1. PICK l \in 1 .. m : k = n + l
        <5>1. k - n \in 1 .. m /\ k = n + (k - n)
          BY <1>5, <3>1
        <5> QED
          BY <5>1
      <4>2. events'[k] = Removed(order[l])
        BY <1>6, <4>1
      <4>3. events'[k].type = "removed"
        BY <4>2 DEF Removed
      <4> QED
        BY <4>3 DEF Stands
    <3> QED
      BY <1>5, <3>1
  <2>2. Stands(k)
    <3>1. \A l \in k + 1 .. n : l \in 1 .. n /\ l \in k + 1 .. n + m
      BY <1>5, <2>1
    <3> QED
      BY <1>6, <2>1, <3>1 DEF Stands
  <2>3. events[k] \in Announcements
    BY <2>1 DEF MirrorInv, TypeInv
  <2>4. events[k].id \in Ids
    BY <2>3 DEF Announcements, Added, Removed, Informed
  <2>5. events[k].id \notin gone
    <3>1. ASSUME events[k].id \in gone PROVE FALSE
      <4>1. PICK l \in 1 .. m : order[l] = events[k].id
        BY <1>5, <3>1
      <4>2. events'[n + l] = Removed(order[l]) /\ n + l \in k + 1 .. n + m
        BY <1>5, <1>6, <2>1
      <4>3. events'[n + l].id = events'[k].id /\ events'[n + l].type = "removed"
        BY <1>6, <2>1, <4>1, <4>2 DEF Removed
      <4> QED
        BY <1>6, <4>2, <4>3 DEF Stands
    <3> QED
      BY <3>1
  <2>6. object[events[k].id] # None /\ object[events[k].id].kind = events[k].object.kind
    BY <2>1, <2>2 DEF MirrorInv, AddedInv
  <2> QED
    BY <1>6, <1>7, <2>1, <2>4, <2>5, <2>6
<1>10. Expected' = Without(Expected, gone, gone)
  <2>1. /\ Expected = Graph(Seen(object, told), told)
        /\ Expected' = Graph(Seen(object', told'), told')
    BY DEF Expected, Seen
  <2>2. Seen(object', told') = [j \in Ids |-> IF j \in gone THEN None ELSE Seen(object, told)[j]]
    <3>1. ASSUME NEW j \in Ids
          PROVE  Seen(object', told')[j] = IF j \in gone THEN None ELSE Seen(object, told)[j]
      <4>1. CASE j \in gone
        BY <1>7, <4>1 DEF Seen
      <4>2. CASE j \notin gone
        BY <1>3, <1>7, <4>2 DEF Seen
      <4> QED
        BY <4>1, <4>2
    <3>2. Seen(object', told') = [j \in Ids |-> Seen(object', told')[j]]
      BY DEF Seen
    <3> QED
      BY <3>1, <3>2
  <2>3. Expected.objects = Seen(object, told) /\ Expected.informed = told
    BY <2>1, GraphParts
  <2> QED
    BY <1>3, <2>1, <2>2, <2>3 DEF Without
<1>11. PathInv'
  BY <1>2, <1>3, <1>4, <1>10, PathOfRemovals
<1> QED
  BY <1>8, <1>9, <1>11 DEF MirrorInv

-----------------------------------------------------------------------------
(* Steps of the daemon *)

\* The daemon handles the first announcement, and binds the stream it names only if
\* the server still has that stream.
LEMMA HandleStep ==
  ASSUME MirrorInv, Handle
  PROVE  MirrorInv'
<1> DEFINE n == Len(events)
<1>1. /\ n \in Nat /\ n >= 1 /\ events' = Tail(events) /\ events[1] \in Announcements
      /\ events' \in Seq(Announcements) /\ Len(events') = n - 1
      /\ \A k \in 1 .. n - 1 : events'[k] = events[k + 1]
  BY DEF Handle, MirrorInv, TypeInv
<1>2. /\ UNCHANGED <<object, told>>
      /\ mirror' = Handled(Graph(mirror, informed), events[1]).objects
      /\ informed' = Handled(Graph(mirror, informed), events[1]).informed
      /\ asked' = IF Binds(events[1]) THEN asked \cup {events[1].id} ELSE asked
  <2>1. Head(events) = events[1]
    BY <1>1 DEF MirrorInv, TypeInv
  <2> QED
    BY <2>1 DEF Handle
<1>3. Expected' = Expected
  BY <1>2 DEF Expected
<1>4. TypeInv'
  <2>1. Binds(events[1]) => events[1].id \in Of("stream", object)
    <3> SUFFICES ASSUME Binds(events[1]) PROVE events[1].id \in Of("stream", object)
      OBVIOUS
    <3>1. Stands(1)
      BY DEF Binds, Current, Stands
    <3>2. 1 \in 1 .. n
      BY <1>1
    <3>3. object[events[1].id] # None /\ object[events[1].id].kind = "stream"
      BY <3>1, <3>2 DEF MirrorInv, AddedInv, Binds
    <3>4. events[1].id \in Ids
      BY <1>1 DEF Announcements, Added, Removed, Informed
    <3> QED
      BY <3>3, <3>4 DEF Of
  <2> QED
    BY <1>1, <1>2, <2>1 DEF MirrorInv, TypeInv
<1> HIDE DEF n
<1>5. AddedInv'
  <2> SUFFICES ASSUME NEW k \in 1 .. n - 1, Stands(k)'
               PROVE  /\ object[events'[k].id] # None
                      /\ object[events'[k].id].kind = events'[k].object.kind
    BY <1>1, <1>2 DEF AddedInv
  <2>1. k + 1 \in 1 .. n /\ events'[k] = events[k + 1]
    BY <1>1
  <2>2. Stands(k + 1)
    <3> SUFFICES ASSUME NEW l \in (k + 1) + 1 .. n
                 PROVE  ~(events[l].id = events[k + 1].id /\ events[l].type = "removed")
      BY <1>1, <2>1 DEF Stands, n
    <3>1. l - 1 \in k + 1 .. n - 1 /\ l - 1 \in 1 .. n - 1 /\ (l - 1) + 1 = l
      BY <1>1
    <3>2. events'[l - 1] = events[l]
      BY <1>1, <3>1
    <3> QED
      BY <1>1, <2>1, <3>1, <3>2 DEF Stands
  <2> QED
    BY <2>1, <2>2 DEF MirrorInv, AddedInv, n
<1>6. PathInv'
  <2>1. PICK path : Leads(path)
    BY DEF MirrorInv, PathInv
  <2>2. /\ path[0] = Graph(mirror, informed) /\ path[n] = Expected
        /\ \A k \in 1 .. n : path[k] = Handled(path[k - 1], events[k])
        /\ \A k \in 0 .. n : Closed(path[k])
    BY <2>1 DEF Leads, n
  <2>3. PICK rest : \A k \in 0 .. n - 1 : rest[k] = path[k + 1]
    <3> DEFINE f == [k \in 0 .. n - 1 |-> path[k + 1]]
    <3>1. \A k \in 0 .. n - 1 : f[k] = path[k + 1]
      OBVIOUS
    <3> HIDE DEF f
    <3> QED
      BY <3>1
  <2>4. rest[0] = Graph(mirror', informed')
    <3>1. path[1] = Handled(Graph(mirror, informed), events[1])
      BY <1>1, <2>2
    <3>2. \E o, s : Handled(Graph(mirror, informed), events[1]) = Graph(o, s)
      <4>1. \A g, i, o, m, s : g = Graph(m, s) => \E p, q : Inserted(g, i, o) = Graph(p, q)
        BY DEF Inserted
      <4>2. \A g, i : \E p, q : RemovedId(g, i) = Graph(p, q)
        BY DEF RemovedId
      <4>3. \A g, i, a, m, s : g = Graph(m, s) => \E p, q : Updated(g, i, a) = Graph(p, q)
        BY DEF Updated
      <4> QED
        BY <1>1, <4>1, <4>2, <4>3, HandledCases DEF Announcements
    <3>3. rest[0] = path[1]
      BY <1>1, <2>3
    <3> QED
      BY <1>2, <3>1, <3>2, <3>3, GraphParts
  <2>5. rest[n - 1] = Expected'
    BY <1>1, <1>3, <2>2, <2>3
  <2>6. ASSUME NEW k \in 1 .. n - 1 PROVE rest[k] = Handled(rest[k - 1], events'[k])
    <3>1. k + 1 \in 1 .. n /\ (k + 1) - 1 = k /\ k - 1 \in 0 .. n - 1 /\ k \in 0 .. n - 1
          /\ (k - 1) + 1 = k
      BY <1>1
    <3>2. path[k + 1] = Handled(path[k], events[k + 1])
      BY <2>2, <3>1
    <3> QED
      BY <1>1, <2>3, <3>1, <3>2
  <2>7. \A k \in 0 .. n - 1 : Closed(rest[k])
    BY <1>1, <2>2, <2>3
  <2>8. Leads(rest)'
    BY <1>1, <2>4, <2>5, <2>6, <2>7 DEF Leads
  <2> QED
    BY <2>8 DEF PathInv
<1> QED
  BY <1>4, <1>5, <1>6 DEF MirrorInv

-----------------------------------------------------------------------------
\* The invariant holds in every state.
LEMMA MirrorInvariant == Spec => []MirrorInv
<1>1. Init => MirrorInv
  <2> SUFFICES ASSUME Init PROVE MirrorInv
    OBVIOUS
  <2>1. Idle \in [Ids -> Objects \cup {None}]
    BY DEF Idle, Objects
  <2>2. events = << >> /\ Len(events) = 0
    BY DEF Init
  <2>3. TypeInv
    <3>1. events \in Seq(Announcements)
      BY <2>2
    <3> QED
      BY <2>1, <3>1 DEF Init, TypeInv
  <2>4. AddedInv
    BY <2>2 DEF AddedInv
  <2>5. Graph(mirror, informed) = Expected
    <3>1. Expected = Graph(Seen(Idle, {}), {})
      BY DEF Init, Expected, Seen
    <3>2. Seen(Idle, {}) = [Idle EXCEPT ![Speaker] = None]
      <4>1. ASSUME NEW j \in Ids
            PROVE  Seen(Idle, {})[j] = [Idle EXCEPT ![Speaker] = None][j]
        <5>1. CASE j = Speaker
          <6>1. Idle[j] = Device /\ Device # None
            BY <5>1, ObjectKinds DEF Idle
          <6>2. Discovered(Device) = None
            BY ObjectKinds DEF Discovered
          <6> QED
            BY <2>1, <5>1, <6>1, <6>2 DEF Seen
        <5>2. CASE j = Jack
          <6>1. Idle[j] = Port(Speaker) /\ Port(Speaker) # None
            BY <5>2, ObjectKinds DEF Idle
          <6>2. Discovered(Port(Speaker)) = Port(Speaker)
            BY ObjectKinds DEF Discovered
          <6> QED
            BY <2>1, <5>2, <6>1, <6>2 DEF Seen
        <5>3. CASE j # Speaker /\ j # Jack
          BY <2>1, <5>3 DEF Seen, Idle
        <5> QED
          BY <5>1, <5>2, <5>3
      <4>2. Seen(Idle, {}) = [j \in Ids |-> Seen(Idle, {})[j]]
        BY DEF Seen
      <4> QED
        BY <2>1, <4>1, <4>2
    <3> QED
      BY <3>1, <3>2 DEF Init
  <2>6. Closed(Expected)
    <3>1. Of("link", Idle) = {}
      BY ObjectKinds DEF Of, Idle
    <3>2. Expected = ExpectedOf(Idle, {})
      BY DEF Init, Expected, ExpectedOf, Seen
    <3> QED
      BY <2>1, <3>1, <3>2, ExpectedClosed
  <2>7. PathInv
    <3>1. PICK path : path[0] = Graph(mirror, informed)
      <4> DEFINE f == [k \in {0} |-> Graph(mirror, informed)]
      <4>1. f[0] = Graph(mirror, informed)
        OBVIOUS
      <4> QED
        BY <4>1
    <3>2. \A k \in 0 .. 0 : k = 0
      OBVIOUS
    <3>3. Leads(path)
      BY <2>2, <2>5, <2>6, <3>1, <3>2 DEF Leads
    <3> QED
      BY <3>3 DEF PathInv
  <2> QED
    BY <2>3, <2>4, <2>7 DEF MirrorInv
<1>2. MirrorInv /\ [Next]_vars => MirrorInv'
  <2> SUFFICES ASSUME MirrorInv, [Next]_vars PROVE MirrorInv'
    OBVIOUS
  <2>1. CASE NewNode
    BY <2>1, AnnounceStep, ObjectKinds DEF NewNode, Objects
  <2>2. CASE NewPort
    BY <2>2, AnnounceStep, ObjectKinds DEF NewPort, Objects, Of
  <2>3. CASE NewLink
    BY <2>3, AnnounceStep, ObjectKinds DEF NewLink, Objects, Of, Link
  <2>4. CASE Unregister
    BY <2>4, UnregisterStep
  <2>5. CASE Answer
    <3>1. PICK i \in asked : Tell(i)
      BY <2>5 DEF Answer
    <3>2. i \in Of("stream", object) /\ object \in [Ids -> Objects \cup {None}]
      BY DEF MirrorInv, TypeInv
    <3>3. PICK a \in Apps \cup {None}, shown \in BOOLEAN : object[i] = Stream(a, shown)
      BY <3>2, ObjectCases DEF Of
    <3>4. object[i].app = a
      BY <3>3 DEF Stream
    <3>5. /\ events' = Append(events, Informed(i, a)) /\ asked' \subseteq asked \cup {i}
          /\ told' = told \cup {i} /\ UNCHANGED <<object, mirror, informed>>
      BY <3>1, <3>4 DEF Tell
    <3> QED
      BY <3>2, <3>3, <3>5, InfoStep
  <2>6. CASE Rename
    <3>1. PICK i \in told, a \in Apps :
            /\ object' = [object EXCEPT ![i].app = a]
            /\ events' = Append(events, Informed(i, a))
            /\ UNCHANGED <<asked, told, mirror, informed>>
      BY <2>6 DEF Rename
    <3>2. i \in Of("stream", object) /\ object \in [Ids -> Objects \cup {None}] /\ i \in Ids
      BY DEF MirrorInv, TypeInv, Of
    <3>3. PICK b \in Apps \cup {None}, shown \in BOOLEAN : object[i] = Stream(b, shown)
      BY <3>2, ObjectCases DEF Of
    <3>4. [Stream(b, shown) EXCEPT !.app = a] = Stream(a, shown)
      BY DEF Stream
    <3>5. /\ object'[i] = [object[i] EXCEPT !.app = a] /\ DOMAIN object' = Ids
          /\ object' = [j \in Ids |-> object'[j]]
          /\ \A j \in Ids : j # i => object'[j] = object[j]
      BY <3>1, <3>2
    <3>6. object'[i] = Stream(a, shown)
      BY <3>3, <3>4, <3>5
    <3>7. told' = told \cup {i} /\ asked' \subseteq asked \cup {i}
      BY <3>1
    <3>8. \E v \in BOOLEAN : /\ object'[i] = Stream(a, v)
                           /\ \E c \in Apps \cup {None} : object[i] = Stream(c, v)
      BY <3>3, <3>6
    <3>9. /\ DOMAIN object' = Ids /\ object' = [j \in Ids |-> object'[j]]
          /\ \A j \in Ids : j # i => object'[j] = object[j]
      BY <3>5
    <3>10. events' = Append(events, Informed(i, a)) /\ UNCHANGED <<mirror, informed>>
      BY <3>1
    <3> QED
      BY <3>2, <3>7, <3>8, <3>9, <3>10, InfoStep
  <2>7. CASE Handle
    BY <2>7, HandleStep
  <2>8. CASE UNCHANGED vars
    BY <2>8 DEF vars, MirrorInv, TypeInv, AddedInv, Stands, PathInv, Leads, Expected
  <2> QED
    BY <2>1, <2>2, <2>3, <2>4, <2>5, <2>6, <2>7, <2>8 DEF Next
<1> QED
  BY <1>1, <1>2, PTL DEF Spec

\* A set of natural numbers that is not empty has a least element.
LEMMA LeastNatural ==
  ASSUME NEW T, T \subseteq Nat, T # {}
  PROVE  \E x \in T : \A y \in T : x <= y
<1> DEFINE R == OpToRel(<, Nat)
<1>1. \E x \in T : \A y \in T : ~(<<y, x>> \in R)
  <2>1. IsWellFoundedOn(R, Nat)
    BY NatLessThanWellFounded
  <2> HIDE DEF R
  <2> QED
    BY <2>1, WFMin
<1>2. \A x, y \in Nat : y < x => <<y, x>> \in R
  BY DEF OpToRel
<1> HIDE DEF R
<1>3. PICK x \in T : \A y \in T : ~(<<y, x>> \in R)
  BY <1>1
<1>4. ASSUME NEW y \in T PROVE x <= y
  <2>1. x \in Nat /\ y \in Nat
    OBVIOUS
  <2>2. ~(y < x)
    BY <1>2, <1>3, <2>1
  <2> QED
    BY <2>1, <2>2
<1> QED
  BY <1>4

\* While a path leads from the mirror to what is expected, its last graph is what
\* handling all the announcements under way comes to.
LEMMA PathFollowed ==
  ASSUME MirrorInv
  PROVE  MirrorFollows
<1> DEFINE n == Len(events)
<1> DEFINE Step(f) ==
      [k \in 0 .. n |-> IF k = 0 THEN Graph(mirror, informed) ELSE Handled(f[k - 1], events[k])]
<1>1. PICK path : Leads(path)
  BY DEF MirrorInv, PathInv
<1>2. n \in Nat
  BY DEF MirrorInv, TypeInv
<1>3. \E f : f = Step(f)
  <2> DEFINE f == [k \in 0 .. n |-> path[k]]
  <2>1. ASSUME NEW k \in 0 .. n PROVE f[k] = Step(f)[k]
    <3>1. CASE k = 0
      BY <1>1, <3>1 DEF Leads
    <3>2. CASE k # 0
      <4>1. k \in 1 .. n /\ k - 1 \in 0 .. n
        BY <1>2, <3>2
      <4> QED
        BY <1>1, <3>2, <4>1 DEF Leads
    <3> QED
      BY <3>1, <3>2
  <2>2. f = Step(f)
    BY <2>1
  <2> QED
    BY <2>2
<1>4. After = Step(After)
  BY <1>3 DEF After
<1>5. /\ After[0] = path[0]
      /\ \A k \in 1 .. n : After[k] = Handled(After[k - 1], events[k])
      /\ \A k \in 1 .. n : path[k] = Handled(path[k - 1], events[k])
  <2>1. \A k \in 0 .. n : After[k] = Step(After)[k]
    BY <1>4
  <2> QED
    BY <1>1, <1>2, <2>1 DEF Leads
<1> HIDE DEF n
<1>6. ASSUME \E k \in 0 .. n : After[k] # path[k] PROVE FALSE
  <2> DEFINE wrong == {k \in 0 .. n : After[k] # path[k]}
  <2>1. PICK k \in wrong : \A j \in wrong : k <= j
    <3>1. wrong \subseteq Nat /\ wrong # {}
      BY <1>2, <1>6
    <3> HIDE DEF wrong
    <3> QED
      BY <3>1, LeastNatural
  <2>2. k # 0 /\ k \in 0 .. n
    BY <1>5
  <2>3. k - 1 \in 0 .. n /\ k - 1 < k /\ k \in 1 .. n
    BY <1>2, <2>2
  <2>4. After[k - 1] = path[k - 1]
    <3>1. k - 1 \notin wrong
      BY <2>1, <2>3
    <3> QED
      BY <2>3, <3>1
  <2> QED
    BY <1>5, <2>1, <2>3, <2>4
<1> QED
  BY <1>1, <1>2, <1>6 DEF Leads, MirrorFollows, n

\* Once track_graph has handled what the server has announced, the mirror has the
\* streams, ports and links there are and the info of no other stream, however often
\* an id was used again and in whatever order the parts of an object went.
THEOREM MirrorFollowsCorrect == Spec => []MirrorFollows
<1>1. MirrorInv => MirrorFollows
  BY PathFollowed
<1> QED
  BY <1>1, MirrorInvariant, PTL

\* GraphState never has a link without both of its ports, also while it is behind:
\* remove_id takes the links of a port, and of a stream's ports, at once.
THEOREM MirrorClosedCorrect == Spec => []MirrorClosed
<1>1. MirrorInv => MirrorClosed
  <2> SUFFICES ASSUME MirrorInv PROVE MirrorClosed
    OBVIOUS
  <2>1. PICK path : Leads(path)
    BY DEF MirrorInv, PathInv
  <2>2. 0 \in 0 .. Len(events)
    BY DEF MirrorInv, TypeInv
  <2>3. Closed(Graph(mirror, informed))
    BY <2>1, <2>2 DEF Leads
  <2> QED
    BY <2>3, GraphParts DEF Closed, MirrorClosed
<1> QED
  BY <1>1, MirrorInvariant, PTL

=============================================================================
