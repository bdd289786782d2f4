----------------------------- MODULE LinkProofs -----------------------------
(***************************************************************************)
(* Proofs about LinkBackend for any number of channels, link numbers,      *)
(* messages under way and moves of others: what a server that answers late *)
(* will have done once it has answered.                                    *)
(***************************************************************************)
EXTENDS LinkBackend, FiniteSetTheorems, SequenceTheorems, WellFoundedInduction, TLAPS

USE ChannelsAssumption

\* All links a route has to do with.
AllEnds == Directs(Channels) \cup Replacements

-----------------------------------------------------------------------------
(* The order of requests *)

\* Induction over a bounded search: a set of numbers has a least element.
LEMMA LeastNatural ==
  ASSUME NEW T, T \subseteq Nat, T # {}
  PROVE  \E x \in T : \A y \in T : x <= y
<1> DEFINE R == OpToRel(<, Nat)
<1>1. \E x \in T : \A y \in T : ~(<<y, x>> \in R)
  <2>1. IsWellFoundedOn(R, Nat)
    BY NatLessThanWellFounded
  <2> HIDE DEF R
  <2> QED
    BY <2>1, WFMin
<1>2. \A x, y \in Nat : y < x => <<y, x>> \in R
  BY DEF OpToRel
<1> HIDE DEF R
<1>3. PICK x \in T : \A y \in T : ~(<<y, x>> \in R)
  BY <1>1
<1>4. ASSUME NEW y \in T PROVE x <= y
  <2>1. x \in Nat /\ y \in Nat
    OBVIOUS
  <2>2. ~(y < x)
    BY <1>2, <1>3, <2>1
  <2> QED
    BY <2>1, <2>2
<1> QED
  BY <1>3, <1>4

\* A finite set of numbers is bounded.
LEMMA FiniteBounded ==
  ASSUME NEW S, IsFiniteSet(S), S \subseteq Nat
  PROVE  \E n \in Nat : \A x \in S : x < n
<1> DEFINE Loose(U) == IsFiniteSet(U) /\ U \subseteq Nat /\ ~\E n \in Nat : \A x \in U : x < n
<1> DEFINE Sizes == {Cardinality(U) : U \in {V \in SUBSET S : Loose(V)}}
<1> SUFFICES ASSUME Loose(S) PROVE FALSE
  OBVIOUS
<1>1. Sizes \subseteq Nat /\ Sizes # {}
  BY FS_CardinalityType
<1>2. PICK U \in SUBSET S : Loose(U) /\ \A V \in SUBSET S : Loose(V) => Cardinality(U) <= Cardinality(V)
  <2>1. PICK n \in Sizes : \A k \in Sizes : n <= k
    BY <1>1, LeastNatural
  <2> QED
    BY <2>1
<1>3. U # {}
  BY <1>2
<1>4. PICK x \in U : TRUE
  BY <1>3
<1>5. IsFiniteSet(U \ {x}) /\ Cardinality(U \ {x}) = Cardinality(U) - 1 /\ Cardinality(U) \in Nat
  BY <1>2, <1>4, FS_RemoveElement, FS_CardinalityType
<1>6. ~Loose(U \ {x})
  BY <1>2, <1>5
<1>7. PICK n \in Nat : \A y \in U \ {x} : y < n
  BY <1>2, <1>5, <1>6
<1>8. x \in Nat
  BY <1>2, <1>4
<1>9. PICK m \in Nat : x < m /\ n <= m
  <2>1. CASE x < n
    BY <2>1
  <2>2. CASE ~(x < n)
    <3>1. x + 1 \in Nat /\ x < x + 1 /\ n <= x + 1
      BY <1>8, <2>2
    <3> QED
      BY <3>1
  <2> QED
    BY <2>1, <2>2
<1>10. \A y \in U : y < m
  <2>1. \A y \in U : y \in Nat
    BY <1>2
  <2> QED
    BY <1>7, <1>8, <1>9, <2>1
<1> QED
  BY <1>2, <1>10

\* Ends have ranks of their own.
LEMMA Ranks ==
  /\ \A e \in AllEnds : Rank(e) \in Nat
  /\ \A e, f \in AllEnds : Rank(e) = Rank(f) => e = f
  /\ \A e \in AllEnds : e \in Directs(Channels) <=> e \notin Replacements
  /\ \A c, d : Direct(c) = Direct(d) => c = d
<1>1. \A e \in AllEnds : \E c \in Channels : e = <<"direct", c>> \/ e = <<"replacement", c>>
  BY DEF AllEnds, Directs, Replacements, Direct, Replacement
<1>2. \A c \in Channels : Rank(<<"direct", c>>) = 2 * c /\ Rank(<<"replacement", c>>) = 2 * c + 1
  BY DEF Rank
<1>3. \A c \in Channels : c \in Nat
  OBVIOUS
<1>4. ASSUME NEW e \in AllEnds PROVE Rank(e) \in Nat
  <2>1. PICK c \in Channels : e = <<"direct", c>> \/ e = <<"replacement", c>>
    BY <1>1
  <2>2. Rank(e) = 2 * c \/ Rank(e) = 2 * c + 1
    BY <1>2, <2>1
  <2> QED
    BY <1>3, <2>2
<1>5. ASSUME NEW e \in AllEnds, NEW f \in AllEnds, Rank(e) = Rank(f) PROVE e = f
  <2>1. PICK c \in Channels : e = <<"direct", c>> \/ e = <<"replacement", c>>
    BY <1>1
  <2>2. PICK d \in Channels : f = <<"direct", d>> \/ f = <<"replacement", d>>
    BY <1>1
  <2>3. c \in Nat /\ d \in Nat
    BY <1>3
  <2>4. (Rank(e) = 2 * c /\ e = <<"direct", c>>) \/ (Rank(e) = 2 * c + 1 /\ e = <<"replacement", c>>)
    BY <1>2, <2>1
  <2>5. (Rank(f) = 2 * d /\ f = <<"direct", d>>) \/ (Rank(f) = 2 * d + 1 /\ f = <<"replacement", d>>)
    BY <1>2, <2>2
  <2>6. 2 * c # 2 * d + 1 /\ 2 * c + 1 # 2 * d
    BY <2>3
  <2>7. 2 * c = 2 * d \/ 2 * c + 1 = 2 * d + 1 => c = d
    BY <2>3
  <2> QED
    BY <1>5, <2>4, <2>5, <2>6, <2>7
<1>6. \A e \in AllEnds : e \in Directs(Channels) <=> e \notin Replacements
  <2>1. \A e \in Directs(Channels) : e[1] = "direct"
    BY DEF Directs, Direct
  <2>2. \A e \in Replacements : e[1] = "replacement"
    BY DEF Replacements, Replacement
  <2> QED
    BY <2>1, <2>2 DEF AllEnds
<1>7. \A c, d : Direct(c) = Direct(d) => c = d
  BY DEF Direct
<1> QED
  BY <1>4, <1>5, <1>6, <1>7

\* s goes through the ends E, lowest ranks first.
Sorts(s, E) == s \in SetToSeqs(E) /\ \A j, k \in DOMAIN s : j < k => Rank(s[j]) < Rank(s[k])

\* A sorted sequence of all but the highest, with that one at its end.
LEMMA SortedAppend ==
  ASSUME NEW E, E \subseteq AllEnds, IsFiniteSet(E), NEW e \in E,
         \A f \in E \ {e} : Rank(f) < Rank(e),
         NEW s, Sorts(s, E \ {e})
  PROVE  Sorts(Append(s, e), E)
<1> DEFINE n == Cardinality(E \ {e})
<1>1. n \in Nat /\ Cardinality(E) = n + 1
  <2>1. IsFiniteSet(E \ {e}) /\ n = Cardinality(E) - 1
    BY FS_RemoveElement
  <2>2. n \in Nat /\ Cardinality(E) \in Nat
    BY <2>1, FS_CardinalityType
  <2> QED
    BY <2>1, <2>2
<1>2. s \in [1 .. n -> E \ {e}] /\ \A i, j \in 1 .. n : i # j => s[i] # s[j]
  BY DEF Sorts, SetToSeqs
<1>3. \A j, k \in 1 .. n : j < k => Rank(s[j]) < Rank(s[k])
  BY <1>2 DEF Sorts
<1> HIDE DEF n
<1>4. s \in Seq(E) /\ Len(s) = n
  BY <1>1, <1>2
<1> DEFINE t == Append(s, e)
<1>5. t \in [1 .. n + 1 -> E] /\ t[n + 1] = e /\ \A k \in 1 .. n : t[k] = s[k]
  <2>1. t \in Seq(E) /\ Len(t) = n + 1
    BY <1>4, AppendProperties
  <2>2. t[n + 1] = e /\ \A k \in 1 .. n : t[k] = s[k]
    BY <1>4, AppendProperties
  <2> HIDE DEF t
  <2>3. t \in [1 .. n + 1 -> E]
    BY <2>1, LenProperties
  <2> QED
    BY <2>2, <2>3
<1> HIDE DEF t
<1>6. \A i, j \in 1 .. n + 1 : i # j => t[i] # t[j]
  BY <1>1, <1>2, <1>5
<1>7. \A j, k \in 1 .. n + 1 : j < k => Rank(t[j]) < Rank(t[k])
  <2> SUFFICES ASSUME NEW j \in 1 .. n + 1, NEW k \in 1 .. n + 1, j < k PROVE Rank(t[j]) < Rank(t[k])
    OBVIOUS
  <2>1. j \in 1 .. n /\ t[j] = s[j] /\ s[j] \in E \ {e}
    BY <1>1, <1>2, <1>5
  <2>2. k \in 1 .. n \/ k = n + 1
    BY <1>1
  <2> QED
    BY <1>3, <1>5, <2>1, <2>2
<1>8. t \in SetToSeqs(E)
  BY <1>1, <1>5, <1>6 DEF SetToSeqs
<1> QED
  BY <1>5, <1>7, <1>8 DEF Sorts, t

\* Any links can be put in order.
LEMMA Sortable ==
  ASSUME NEW E, E \subseteq AllEnds, NEW n \in Nat, \A e \in E : Rank(e) < n
  PROVE  IsFiniteSet(E) /\ \E s : Sorts(s, E)
<1> DEFINE Under(k, F) == F \subseteq AllEnds /\ \A e \in F : Rank(e) < k
<1> DEFINE Fine(F) == IsFiniteSet(F) /\ \E s : Sorts(s, F)
<1> DEFINE bad == {k \in Nat : \E F \in SUBSET AllEnds : Under(k, F) /\ ~Fine(F)}
<1> SUFFICES ASSUME bad # {} PROVE FALSE
  OBVIOUS
<1>1. PICK k \in bad : \A j \in bad : k <= j
  BY LeastNatural
<1>2. PICK F \in SUBSET AllEnds : Under(k, F) /\ ~Fine(F)
  BY <1>1
<1>3. CASE k = 0
  <2>1. F = {}
    BY <1>2, <1>3, Ranks
  <2>2. Sorts(<<>>, {})
    <3>1. Cardinality({}) = 0 /\ 1 .. 0 = {}
      BY FS_EmptySet
    <3>2. <<>> \in [{} -> {}] /\ DOMAIN <<>> = {}
      OBVIOUS
    <3>3. <<>> \in SetToSeqs({})
      BY <3>1, <3>2 DEF SetToSeqs
    <3> QED
      BY <3>2, <3>3 DEF Sorts
  <2> QED
    BY <1>2, <2>1, <2>2, FS_EmptySet
<1>4. CASE k # 0
  <2>1. k - 1 \in Nat /\ k - 1 < k /\ k - 1 \notin bad
    BY <1>1, <1>4
  <2>2. \A G \in SUBSET AllEnds : Under(k - 1, G) => Fine(G)
    BY <2>1
  <2>3. ~Under(k - 1, F)
    BY <1>2, <2>2
  <2>4. PICK e \in F : ~(Rank(e) < k - 1)
    BY <2>3
  <2>5. Rank(e) = k - 1
    BY <1>2, <2>1, <2>4, Ranks
  <2>6. \A f \in F \ {e} : Rank(f) < k - 1
    <3> SUFFICES ASSUME NEW f \in F \ {e} PROVE Rank(f) < k - 1
      OBVIOUS
    <3>1. Rank(f) # Rank(e) /\ Rank(f) \in Nat /\ Rank(f) < k
      BY <1>2, Ranks
    <3> QED
      BY <2>1, <2>5, <3>1
  <2>7. Fine(F \ {e})
    BY <2>2, <2>6
  <2>8. IsFiniteSet(F)
    <3>1. F = (F \ {e}) \cup {e}
      BY <2>4
    <3> QED
      BY <2>7, <3>1, FS_AddElement
  <2>9. PICK s : Sorts(s, F \ {e})
    BY <2>7
  <2>10. Sorts(Append(s, e), F)
    BY <2>4, <2>5, <2>6, <2>8, <2>9, SortedAppend
  <2> QED
    BY <1>2, <2>8, <2>10
<1> QED
  BY <1>3, <1>4

\* The order of some links has each of them once.
LEMMA OrderFacts ==
  ASSUME NEW E, E \subseteq AllEnds
  PROVE  /\ InOrder[E] \in Seq(E)
         /\ \A e \in E : \E k \in 1 .. Len(InOrder[E]) : InOrder[E][k] = e
         /\ \A j, k \in 1 .. Len(InOrder[E]) : InOrder[E][j] = InOrder[E][k] => j = k
<1>1. PICK m \in Nat : \A c \in Channels : c < m
  BY FiniteBounded
<1>2. 2 * m + 2 \in Nat /\ \A e \in E : Rank(e) < 2 * m + 2
  BY <1>1 DEF Rank, AllEnds, Directs, Replacements, Direct, Replacement
<1>3. IsFiniteSet(E) /\ \E s : Sorts(s, E)
  BY <1>2, Sortable
<1> DEFINE t == InOrder[E]
<1>4. Sorts(t, E)
  <2>1. t = CHOOSE s \in SetToSeqs(E) :
              \A j, k \in DOMAIN s : j < k => Rank(s[j]) < Rank(s[k])
    BY DEF InOrder, AllEnds
  <2> QED
    BY <1>3, <2>1 DEF Sorts
<1> HIDE DEF t
<1> DEFINE n == Cardinality(E)
<1>5. n \in Nat
  BY <1>3, FS_CardinalityType
<1>6. t \in [1 .. n -> E] /\ \A i, j \in 1 .. n : i # j => t[i] # t[j]
  BY <1>4 DEF Sorts, SetToSeqs
<1>7. Cardinality(1 .. n) = n /\ IsFiniteSet(1 .. n)
  BY <1>5, FS_Interval
<1> HIDE DEF n
<1>8. t \in Seq(E) /\ Len(t) = n
  BY <1>5, <1>6
<1>9. t \in Injection(1 .. n, E)
  BY <1>6 DEF Injection, IsInjective
<1>10. t \in Surjection(1 .. n, E)
  BY <1>3, <1>7, <1>9, FS_Injection DEF n
<1> QED
  BY <1>6, <1>8, <1>10 DEF Surjection, t

-----------------------------------------------------------------------------
(* Messages *)

\* The modes of links.
Modes == {"original", "held", "linger", "stray", "other"}
\* What the daemon knows of a link.
Sights == {[id |-> i, ends |-> e] : i \in Ids, e \in AllEnds}
\* What can be sent to the server.
Requests == {Create(e, m) : e \in AllEnds, m \in Modes} \cup {Drop(e) : e \in AllEnds}
              \cup {Destroy(i) : i \in Ids}
\* What comes back.
Events == {[type |-> t, link |-> x] : t \in {"added", "bound", "lost"}, x \in Sights}
            \cup {Gone(i) : i \in Ids}

\* The parts of messages.
LEMMA Messages ==
  /\ \A e, m : Create(e, m).type = "create" /\ Create(e, m).ends = e /\ Create(e, m).mode = m
  /\ \A e : Drop(e).type = "drop" /\ Drop(e).ends = e
  /\ \A i : Destroy(i).type = "destroy" /\ Destroy(i).id = i
  /\ \A l : Seen(l).id = l.id /\ Seen(l).ends = l.ends
  /\ \A l : Announced(l).type = "added" /\ Announced(l).link = Seen(l)
  /\ \A l : Bound(l).type = "bound" /\ Bound(l).link = Seen(l)
  /\ \A i : Gone(i).type = "removed" /\ Gone(i).id = i
<1>1. \A e, m : Create(e, m).type = "create" /\ Create(e, m).ends = e /\ Create(e, m).mode = m
  BY DEF Create
<1>2. \A e : Drop(e).type = "drop" /\ Drop(e).ends = e
  BY DEF Drop
<1>3. \A i : Destroy(i).type = "destroy" /\ Destroy(i).id = i
  BY DEF Destroy
<1>4. \A l : Seen(l).id = l.id /\ Seen(l).ends = l.ends
  BY DEF Seen
<1>5. \A l : Announced(l).type = "added" /\ Announced(l).link = Seen(l)
  BY DEF Announced
<1>6. \A l : Bound(l).type = "bound" /\ Bound(l).link = Seen(l)
  BY DEF Bound
<1>7. \A i : Gone(i).type = "removed" /\ Gone(i).id = i
  BY DEF Gone
<1> QED
  BY <1>1, <1>2, <1>3, <1>4, <1>5, <1>6, <1>7

\* Sights are told apart by number and ends.
LEMMA SightFacts ==
  /\ \A x \in Sights : x.id \in Ids /\ x.ends \in AllEnds
  /\ \A x, y \in Sights : x.id = y.id /\ x.ends = y.ends => x = y
  /\ \A i \in Ids, e \in AllEnds : \A m : Seen([id |-> i, ends |-> e, mode |-> m]) \in Sights
BY DEF Sights, Seen

\* The three kinds of requests.
LEMMA RequestCases ==
  ASSUME NEW r \in Requests
  PROVE  \/ /\ r.type = "create" /\ r.ends \in AllEnds /\ r.mode \in Modes
            /\ r = Create(r.ends, r.mode)
         \/ r.type = "drop" /\ r.ends \in AllEnds /\ r = Drop(r.ends)
         \/ r.type = "destroy" /\ r.id \in Ids /\ r = Destroy(r.id)
<1>1. \/ \E e \in AllEnds, m \in Modes : r = Create(e, m)
      \/ \E e \in AllEnds : r = Drop(e)
      \/ \E i \in Ids : r = Destroy(i)
  BY DEF Requests
<1> QED
  BY <1>1, Messages

\* The kinds of events.
LEMMA EventCases ==
  ASSUME NEW e \in Events
  PROVE  \/ e.type \in {"added", "bound", "lost"} /\ e.link \in Sights /\ e = [type |-> e.type, link |-> e.link]
         \/ e.type = "removed" /\ e.id \in Ids /\ e = Gone(e.id)
<1>1. \/ \E t \in {"added", "bound", "lost"}, x \in Sights : e = [type |-> t, link |-> x]
      \/ \E i \in Ids : e = Gone(i)
  BY DEF Events
<1>2. CASE \E t \in {"added", "bound", "lost"}, x \in Sights : e = [type |-> t, link |-> x]
  BY <1>2
<1>3. CASE \E i \in Ids : e = Gone(i)
  BY <1>3, Messages
<1> QED
  BY <1>1, <1>2, <1>3

\* u is s and then t.
Joins(u, s, t) ==
  /\ Len(u) = Len(s) + Len(t) /\ Len(s) \in Nat /\ Len(t) \in Nat
  /\ \A k \in 1 .. Len(s) : k \in 1 .. Len(u) /\ u[k] = s[k]
  /\ \A k \in 1 .. Len(t) : Len(s) + k \in 1 .. Len(u) /\ u[Len(s) + k] = t[k]
  /\ \A k \in 1 .. Len(u) :
       k \in 1 .. Len(s) \/ (k > Len(s) /\ k - Len(s) \in 1 .. Len(t) /\ u[k] = t[k - Len(s)])

\* What is sent comes after what is under way.
LEMMA Joined ==
  ASSUME NEW S, NEW s \in Seq(S), NEW t \in Seq(S)
  PROVE  s \o t \in Seq(S) /\ Joins(s \o t, s, t)
<1>1. Len(s) \in Nat /\ Len(t) \in Nat
  BY LenProperties
<1> DEFINE u == s \o t
<1>2. /\ u \in Seq(S) /\ Len(u) = Len(s) + Len(t)
      /\ \A i \in 1 .. Len(s) + Len(t) : u[i] = IF i <= Len(s) THEN s[i] ELSE t[i - Len(s)]
  BY ConcatProperties
<1> HIDE DEF u
<1>3. \A k \in 1 .. Len(s) : k \in 1 .. Len(u) /\ u[k] = s[k]
  BY <1>1, <1>2
<1>4. ASSUME NEW k \in 1 .. Len(t) PROVE Len(s) + k \in 1 .. Len(u) /\ u[Len(s) + k] = t[k]
  <2>1. Len(s) + k \in 1 .. Len(u) /\ ~(Len(s) + k <= Len(s)) /\ Len(s) + k - Len(s) = k
    BY <1>1, <1>2
  <2>2. u[Len(s) + k] = t[Len(s) + k - Len(s)]
    BY <1>2, <2>1
  <2> QED
    BY <2>1, <2>2
<1>5. \A k \in 1 .. Len(u) :
        k \in 1 .. Len(s) \/ (k > Len(s) /\ k - Len(s) \in 1 .. Len(t) /\ u[k] = t[k - Len(s)])
  BY <1>1, <1>2
<1>6. Joins(u, s, t)
  BY <1>1, <1>2, <1>3, <1>4, <1>5 DEF Joins
<1> QED
  BY <1>2, <1>6 DEF u

\* A request is one of those under way or one of those sent.
LEMMA JoinedFrom ==
  ASSUME NEW u, NEW s, NEW t, Joins(u, s, t)
  PROVE  \A k \in 1 .. Len(u) :
           (\E j \in 1 .. Len(s) : u[k] = s[j]) \/ (\E j \in 1 .. Len(t) : u[k] = t[j])
BY DEF Joins

\* The messages made of some links, by the links.
LEMMA CreatesFacts ==
  ASSUME NEW E, E \subseteq AllEnds, NEW m \in Modes
  PROVE  LET s == Creates(E, m) IN
         /\ s \in Seq(Requests)
         /\ \A k \in 1 .. Len(s) : \E e \in E : s[k] = Create(e, m)
         /\ \A j, k \in 1 .. Len(s) : s[j] = s[k] => j = k
<1> DEFINE order == InOrder[E]
<1> DEFINE s == Creates(E, m)
<1>1. /\ order \in Seq(E) /\ DOMAIN order = 1 .. Len(order) /\ Len(order) \in Nat
      /\ \A j, k \in 1 .. Len(order) : order[j] = order[k] => j = k
  BY OrderFacts, LenProperties
<1>2. s = [k \in DOMAIN order |-> Create(order[k], m)]
  BY DEF Creates, Each
<1> HIDE DEF order, s
<1>3. \A k \in 1 .. Len(order) : order[k] \in E /\ Create(order[k], m) \in Requests
  BY <1>1 DEF Requests
<1>4. s \in Seq(Requests) /\ Len(s) = Len(order)
  BY <1>1, <1>2, <1>3
<1>5. \A k \in 1 .. Len(s) : s[k] = Create(order[k], m)
  BY <1>1, <1>2, <1>4
<1>6. \A j, k \in 1 .. Len(s) : s[j] = s[k] => j = k
  BY <1>1, <1>4, <1>5, Messages
<1> QED
  BY <1>3, <1>4, <1>5, <1>6 DEF s

\* The replacements are dropped one and all.
LEMMA DropsFacts ==
  /\ DropReplacements \in Seq(Requests)
  /\ \A k \in 1 .. Len(DropReplacements) : \E e \in Replacements : DropReplacements[k] = Drop(e)
  /\ \A e \in Replacements : \E k \in 1 .. Len(DropReplacements) : DropReplacements[k] = Drop(e)
<1> DEFINE order == InOrder[Replacements]
<1> DEFINE s == DropReplacements
<1>1. Replacements \subseteq AllEnds
  BY DEF AllEnds
<1>2. /\ order \in Seq(Replacements) /\ DOMAIN order = 1 .. Len(order) /\ Len(order) \in Nat
      /\ \A e \in Replacements : \E k \in 1 .. Len(order) : order[k] = e
  BY <1>1, OrderFacts, LenProperties
<1>3. s = [k \in DOMAIN order |-> Drop(order[k])]
  BY DEF DropReplacements, Each
<1> HIDE DEF order, s
<1>4. \A k \in 1 .. Len(order) : order[k] \in Replacements /\ Drop(order[k]) \in Requests
  BY <1>1, <1>2 DEF Requests
<1>5. s \in Seq(Requests) /\ Len(s) = Len(order)
  BY <1>2, <1>3, <1>4
<1>6. \A k \in 1 .. Len(s) : s[k] = Drop(order[k])
  BY <1>2, <1>3, <1>5
<1> QED
  BY <1>2, <1>4, <1>5, <1>6 DEF s

\* Links are destroyed by their numbers.
LEMMA DestroysFacts ==
  ASSUME NEW L, L \subseteq Sights
  PROVE  LET s == Destroys(L) IN
         /\ s \in Seq(Requests)
         /\ \A k \in 1 .. Len(s) : \E l \in L : s[k] = Destroy(l.id)
         /\ \A l \in L : (\A m \in L : m.ends = l.ends => m = l) =>
              \E k \in 1 .. Len(s) : s[k] = Destroy(l.id)
<1> DEFINE order == InOrder[Ends(L)]
<1> DEFINE s == Destroys(L)
<1>1. Ends(L) \subseteq AllEnds
  BY SightFacts DEF Ends
<1>2. /\ order \in Seq(Ends(L)) /\ DOMAIN order = 1 .. Len(order) /\ Len(order) \in Nat
      /\ \A e \in Ends(L) : \E k \in 1 .. Len(order) : order[k] = e
  BY <1>1, OrderFacts, LenProperties
<1>3. s = [k \in DOMAIN order |-> Destroy(IdOf(L, order[k]))]
  BY DEF Destroys, Each
<1> HIDE DEF order, s
<1>4. \A e \in Ends(L) : \E l \in L : l.ends = e /\ IdOf(L, e) = l.id
  BY DEF Ends, IdOf
<1>5. \A k \in 1 .. Len(order) : order[k] \in Ends(L) /\ Destroy(IdOf(L, order[k])) \in Requests
  BY <1>2, <1>4, SightFacts DEF Requests
<1>6. s \in Seq(Requests) /\ Len(s) = Len(order)
  BY <1>2, <1>3, <1>5
<1>7. \A k \in 1 .. Len(s) : s[k] = Destroy(IdOf(L, order[k]))
  BY <1>2, <1>3, <1>6
<1>8. \A k \in 1 .. Len(s) : \E l \in L : s[k] = Destroy(l.id)
  BY <1>4, <1>5, <1>6, <1>7
<1>9. ASSUME NEW l \in L, \A m \in L : m.ends = l.ends => m = l
      PROVE  \E k \in 1 .. Len(s) : s[k] = Destroy(l.id)
  <2>1. l.ends \in Ends(L)
    BY DEF Ends
  <2>2. IdOf(L, l.ends) = l.id
    BY <1>4, <1>9, <2>1
  <2>3. PICK k \in 1 .. Len(order) : order[k] = l.ends
    BY <1>2, <2>1
  <2> QED
    BY <1>6, <1>7, <2>2, <2>3
<1> QED
  BY <1>6, <1>8, <1>9 DEF s

-----------------------------------------------------------------------------
(***************************************************************************)
(* The inductive invariant.  Every part says what is under way besides     *)
(* what is there already.                                                  *)
(***************************************************************************)

\* What a link is.
IsLink(l) ==
  /\ l = [id |-> l.id, ends |-> l.ends, mode |-> l.mode]
  /\ l.id \in Ids /\ l.ends \in AllEnds /\ l.mode \in Modes

\* The types of the variables.
TypeInv ==
  /\ \A l \in links : IsLink(l)
  /\ requests \in Seq(Requests) /\ events \in Seq(Events)
  /\ mirror \subseteq Sights /\ bound \subseteq Sights /\ plan \subseteq Sights
  /\ wanted \subseteq Directs(Channels) /\ Ends(plan) \subseteq Directs(Channels)
  /\ alive \subseteq Channels /\ severed \subseteq Channels
  /\ pc \in {"idle", "stage", "remove", "rollback", "active", "bypass"}
  /\ late \in BOOLEAN /\ failed \in BOOLEAN

\* Links have numbers and ends of their own, and a replacement goes with its proxy
\* and nothing else does.
Proper(L) ==
  /\ \A l, m \in L : l.id = m.id \/ l.ends = m.ends => l = m
  /\ \A l \in L : l.ends \in Replacements <=> l.mode = "held"
\* A request keeps to that, and makes no original.
ProperRequest(r) ==
  r.type = "create" => r.mode # "original" /\ (r.ends \in Replacements <=> r.mode = "held")
\* So it is, and a severed link is not there.
ServerInv ==
  /\ Proper(links)
  /\ \A k \in 1 .. Len(requests) : ProperRequest(requests[k])
  /\ \A c \in severed, l \in links : l.ends # Direct(c)

\* Event k takes the number i from the mirror.
Removes(k, i) == events[k].type = "removed" /\ events[k].id = i
\* Event k tells of the link x.
Adds(k, x) == events[k].type = "added" /\ events[k].link = x
\* Event k tells of a link with the ends e.
Shows(k, e) == events[k].type = "added" /\ events[k].link.ends = e

\* The mirror has x or will hear of it, and will not hear that it has gone.
Expected(x) ==
  \/ x \in mirror /\ \A k \in 1 .. Len(events) : ~Removes(k, x.id)
  \/ \E k \in 1 .. Len(events) :
       Adds(k, x) /\ \A j \in k + 1 .. Len(events) : ~Removes(j, x.id)

\* The server has the links that the mirror will have.
FollowInv == \A x \in Sights : (\E l \in links : Seen(l) = x) <=> Expected(x)

\* Without a route every replacement, made or requested, is about to be dropped.
DropInv ==
  pc = "idle" => \A e \in Replacements :
    /\ e \in Ends(links) => \E m \in 1 .. Len(requests) : requests[m] = Drop(e)
    /\ \A k \in 1 .. Len(requests) : requests[k].type = "create" /\ requests[k].ends = e =>
         \E m \in k + 1 .. Len(requests) : requests[m] = Drop(e)

\* An original that is still there is in the plan and in the mirror, as the only
\* link with its ends, and nothing under way says otherwise.
OriginalInv ==
  ~late /\ pc \in {"stage", "remove"} => \A l \in links : l.mode = "original" =>
    /\ Seen(l) \in plan /\ Seen(l) \in mirror
    /\ \A x \in mirror : x.ends = l.ends => x = Seen(l)
    /\ \A k \in 1 .. Len(events) : ~Removes(k, l.id) /\ ~Shows(k, l.ends)

\* A restoration is at hand.
Restoring == pc \in {"rollback", "bypass"}
\* Request k makes a lingering link with the ends e for it.
Lingers(k, e) == requests[k].type = "create" /\ requests[k].ends = e /\ requests[k].mode = "linger"
\* Event k tells one of its proxies the number of its link.
Tells(k, e) == events[k].type = "bound" /\ events[k].link.ends = e

\* No restoration is under way, not even in messages.
Quiet ==
  /\ bound = {} /\ \A l \in links : l.mode # "linger"
  /\ \A k \in 1 .. Len(requests), e \in AllEnds : ~Lingers(k, e)
  /\ \A k \in 1 .. Len(events), e \in AllEnds : ~Tells(k, e)

\* Each link of a restoration is requested, about to be known by its number, or
\* known, and only one of these.
Single ==
  \A e \in AllEnds :
    /\ \A j, k \in 1 .. Len(requests) : Lingers(j, e) /\ Lingers(k, e) => j = k
    /\ \A j, k \in 1 .. Len(events) : Tells(j, e) /\ Tells(k, e) => j = k
    /\ \A x, y \in bound : x.ends = e /\ y.ends = e => x = y
    /\ \A j \in 1 .. Len(requests) : Lingers(j, e) =>
         e \notin Ends(bound) /\ \A k \in 1 .. Len(events) : ~Tells(k, e)
    /\ \A k \in 1 .. Len(events) : Tells(k, e) => e \notin Ends(bound)

\* The links of the restoration at hand, and of no other, are known by their numbers
\* or about to be.
BoundInv ==
  /\ ~Restoring => Quiet
  /\ \A l \in links : l.mode = "linger" =>
       Seen(l) \in bound \/ \E k \in 1 .. Len(events) : events[k] = Bound(l)
  /\ Single

\* What a failed restoration has made is about to be destroyed.
StrayInv ==
  ~late =>
    /\ \A l \in links : l.mode = "stray" =>
         \E k \in 1 .. Len(requests) : requests[k] = Destroy(l.id)
    /\ \A k \in 1 .. Len(requests) : requests[k].type = "create" => requests[k].mode # "stray"

\* A plan has the direct link of every channel.
PlanInv == pc # "idle" => Ends(plan) = Directs(Channels)

\* What has been severed is neither in the mirror nor on its way there, except
\* as what the mirror waits to lose, and a restoration wants it.  Nothing is
\* severed before the cutover, and no original is destroyed after it.
SeveredInv ==
  ~late /\ ~failed =>
    /\ pc \in {"idle", "stage"} => severed = {}
    /\ \A c \in severed, k \in 1 .. Len(events) : ~Shows(k, Direct(c))
    /\ pc = "remove" => \A c \in severed, x \in mirror : x.ends = Direct(c) => x \in plan
    /\ pc \in {"rollback", "active", "bypass"} => \A c \in severed : Direct(c) \notin Ends(mirror)
    /\ Restoring => \A c \in severed : Direct(c) \in wanted
    /\ pc # "remove" => \A l \in links : l.mode = "original" =>
         \A k \in 1 .. Len(requests) : requests[k] # Destroy(l.id)

\* The server's side.
GraphInv == TypeInv /\ ServerInv

-----------------------------------------------------------------------------
(* What steps do to links and queues *)

\* A link's sight.
LEMMA LinkFacts ==
  ASSUME TypeInv
  PROVE  /\ \A l \in links : Seen(l) \in Sights /\ l.id \in Ids /\ l.ends \in AllEnds
         /\ \A l \in links : Seen(l).id = l.id /\ Seen(l).ends = l.ends
BY Messages, SightFacts DEF TypeInv, IsLink

\* The events under way, and then more.
Longer ==
  /\ events' \in Seq(Events) /\ Len(events) \in Nat /\ Len(events') \in Nat
  /\ Len(events) <= Len(events')
  /\ \A k \in 1 .. Len(events) : k \in 1 .. Len(events') /\ events'[k] = events[k]

\* The links L are gone, and this is announced.
Lost(L) ==
  /\ L \subseteq links /\ links' = links \ L /\ Longer
  /\ \A k \in 1 .. Len(events') : k > Len(events) => \E l \in L : events'[k] = Gone(l.id)
  /\ \A l \in L : \E k \in 1 .. Len(events') : k > Len(events) /\ events'[k] = Gone(l.id)

\* The link l is new, with a number and ends that no other has, and announced.
Made(l) ==
  /\ IsLink(l) /\ \A m \in links : m.id # l.id /\ m.ends # l.ends
  /\ links' = links \cup {l} /\ Longer
  /\ \A k \in 1 .. Len(events') : k > Len(events) =>
       events'[k] = Announced(l) \/ (l.mode = "linger" /\ events'[k] = Bound(l))
  /\ \E k \in 1 .. Len(events') : k > Len(events) /\ events'[k] = Announced(l)
  /\ l.mode = "linger" => \E k \in 1 .. Len(events') : k > Len(events) /\ events'[k] = Bound(l)
  /\ \A j, k \in 1 .. Len(events') :
       j > Len(events) /\ k > Len(events) /\ events'[j] = Bound(l) /\ events'[k] = Bound(l) => j = k

\* Links that go are announced one by one.
LEMMA Unmade ==
  ASSUME GraphInv, NEW L, L \subseteq links, Unmake(L)
  PROVE  Lost(L)
<1> DEFINE order == InOrder[Ends(L)]
<1> DEFINE s == Each(Ends(L), LAMBDA e : Gone(IdOf(L, e)))
<1>1. Ends(L) \subseteq AllEnds
  BY LinkFacts DEF Ends, GraphInv
<1>2. /\ order \in Seq(Ends(L)) /\ DOMAIN order = 1 .. Len(order) /\ Len(order) \in Nat
      /\ \A e \in Ends(L) : \E k \in 1 .. Len(order) : order[k] = e
  BY <1>1, OrderFacts, LenProperties
<1>3. s = [k \in DOMAIN order |-> Gone(IdOf(L, order[k]))]
  BY DEF Each
<1>4. links' = links \ L /\ events' = events \o s
  BY DEF Unmake
<1> HIDE DEF order, s
<1>5. \A l \in L : IdOf(L, l.ends) = l.id
  BY DEF IdOf, GraphInv, ServerInv, Proper
<1>6. \A e \in Ends(L) : \E l \in L : l.ends = e /\ IdOf(L, e) = l.id
  BY <1>5 DEF Ends
<1>7. \A k \in 1 .. Len(order) : order[k] \in Ends(L) /\ Gone(IdOf(L, order[k])) \in Events
  BY <1>2, <1>6, LinkFacts DEF Events, GraphInv
<1>8. s \in Seq(Events) /\ Len(s) = Len(order)
  BY <1>2, <1>3, <1>7
<1>9. \A k \in 1 .. Len(s) : s[k] = Gone(IdOf(L, order[k]))
  BY <1>2, <1>3, <1>8
<1>10. \A k \in 1 .. Len(s) : \E l \in L : s[k] = Gone(l.id)
  BY <1>6, <1>7, <1>8, <1>9
<1>11. ASSUME NEW l \in L PROVE \E k \in 1 .. Len(s) : s[k] = Gone(l.id)
  <2>1. l.ends \in Ends(L)
    BY DEF Ends
  <2>2. PICK k \in 1 .. Len(order) : order[k] = l.ends
    BY <1>2, <2>1
  <2> QED
    BY <1>5, <1>8, <1>9, <2>2
<1>12. events \in Seq(Events)
  BY DEF GraphInv, TypeInv
<1>13. events' \in Seq(Events) /\ Joins(events', events, s)
  BY <1>4, <1>8, <1>12, Joined
<1>14. Len(events) \in Nat /\ Len(events') \in Nat /\ Len(events) <= Len(events')
  BY <1>13 DEF Joins
<1>15. ASSUME NEW k \in 1 .. Len(events'), k > Len(events) PROVE \E l \in L : events'[k] = Gone(l.id)
  <2>1. k - Len(events) \in 1 .. Len(s) /\ events'[k] = s[k - Len(events)]
    BY <1>13, <1>14, <1>15 DEF Joins
  <2> QED
    BY <1>10, <2>1
<1>16. ASSUME NEW l \in L PROVE \E k \in 1 .. Len(events') : k > Len(events) /\ events'[k] = Gone(l.id)
  <2>1. PICK k \in 1 .. Len(s) : s[k] = Gone(l.id)
    BY <1>11
  <2>2. Len(events) + k \in 1 .. Len(events') /\ events'[Len(events) + k] = s[k]
    BY <1>13 DEF Joins
  <2>3. Len(events) + k > Len(events)
    BY <1>14
  <2> QED
    BY <2>1, <2>2, <2>3
<1>17. \A k \in 1 .. Len(events) : k \in 1 .. Len(events') /\ events'[k] = events[k]
  BY <1>13 DEF Joins
<1> QED
  BY <1>4, <1>13, <1>14, <1>15, <1>16, <1>17 DEF Lost, Longer

\* What is served first, and what is left.
LEMMA Served ==
  ASSUME NEW S, NEW q \in Seq(S), q # <<>>
  PROVE  /\ Head(q) \in S /\ Head(q) = q[1] /\ Len(q) \in Nat /\ 1 \in 1 .. Len(q)
         /\ Tail(q) \in Seq(S) /\ Len(Tail(q)) = Len(q) - 1
         /\ \A k \in 1 .. Len(Tail(q)) : k + 1 \in 1 .. Len(q) /\ Tail(q)[k] = q[k + 1]
         /\ \A k \in 1 .. Len(q) : k # 1 => k - 1 \in 1 .. Len(Tail(q)) /\ Tail(q)[k - 1] = q[k]
<1>1. Len(q) \in Nat \ {0} /\ Head(q) = q[1]
  BY EmptySeq
<1>2. /\ Head(q) \in S /\ Tail(q) \in Seq(S) /\ Len(Tail(q)) = Len(q) - 1
      /\ \A i \in 1 .. Len(Tail(q)) : Tail(q)[i] = q[i + 1]
  BY HeadTailProperties
<1>3. ASSUME NEW k \in 1 .. Len(q), k # 1
      PROVE  k - 1 \in 1 .. Len(Tail(q)) /\ Tail(q)[k - 1] = q[k]
  <2>1. k - 1 \in 1 .. Len(Tail(q)) /\ k - 1 + 1 = k
    BY <1>1, <1>2, <1>3
  <2>2. Tail(q)[k - 1] = q[k - 1 + 1]
    BY <1>2, <2>1
  <2> QED
    BY <2>1, <2>2
<1>4. \A k \in 1 .. Len(Tail(q)) : k + 1 \in 1 .. Len(q)
  BY <1>1, <1>2
<1> QED
  BY <1>1, <1>2, <1>3, <1>4

\* A new link is announced, and its number told to its proxy.
LEMMA Making ==
  ASSUME GraphInv, NEW l, IsLink(l), \A m \in links : m.id # l.id /\ m.ends # l.ends,
         links' = links \cup {l},
         \/ l.mode = "linger" /\ events' = events \o <<Announced(l), Bound(l)>>
         \/ l.mode # "linger" /\ events' = events \o <<Announced(l)>>
         \/ l.mode # "linger" /\ events' = Append(events, Announced(l))
  PROVE  Made(l)
<1> DEFINE a == Announced(l)
<1> DEFINE b == Bound(l)
<1>1. a \in Events /\ b \in Events /\ a # b
  <2>1. Seen(l) \in Sights
    BY SightFacts DEF IsLink
  <2>2. a \in Events /\ b \in Events
    BY <2>1 DEF Events, Announced, Bound
  <2>3. a # b
    BY Messages
  <2> QED
    BY <2>2, <2>3
<1>2. events \in Seq(Events) /\ Len(events) \in Nat
  BY LenProperties DEF GraphInv, TypeInv
<1> HIDE DEF a, b
<1>3. CASE l.mode = "linger" /\ events' = events \o <<a, b>>
  <2>1. events' \in Seq(Events) /\ Joins(events', events, <<a, b>>)
    <3>1. <<a, b>> \in Seq(Events)
      BY <1>1
    <3> QED
      BY <1>2, <1>3, <3>1, Joined
  <2>2. Len(<<a, b>>) = 2 /\ <<a, b>>[1] = a /\ <<a, b>>[2] = b
    OBVIOUS
  <2>3. Len(events') = Len(events) + 2
    BY <2>1, <2>2 DEF Joins
  <2>4. \A k \in 1 .. Len(events) : k \in 1 .. Len(events') /\ events'[k] = events[k]
    BY <2>1 DEF Joins
  <2>5. events'[Len(events) + 1] = a /\ events'[Len(events) + 2] = b
    BY <2>1, <2>2 DEF Joins
  <2>6. \A k \in 1 .. Len(events') : k > Len(events) => k = Len(events) + 1 \/ k = Len(events) + 2
    BY <1>2, <2>3
  <2>7. Longer
    BY <1>2, <2>1, <2>3, <2>4 DEF Longer
  <2>8. Len(events) + 1 \in 1 .. Len(events') /\ Len(events) + 2 \in 1 .. Len(events')
    BY <1>2, <2>3
  <2>9. Len(events) + 1 > Len(events) /\ Len(events) + 2 > Len(events)
    BY <1>2
  <2> QED
    BY <1>1, <1>3, <2>5, <2>6, <2>7, <2>8, <2>9 DEF Made, a, b
<1>4. CASE l.mode # "linger" /\ (events' = events \o <<a>> \/ events' = Append(events, a))
  <2>1. events' = Append(events, a)
    BY <1>1, <1>2, <1>4
  <2>2. /\ events' \in Seq(Events) /\ Len(events') = Len(events) + 1 /\ events'[Len(events) + 1] = a
        /\ \A k \in 1 .. Len(events) : events'[k] = events[k]
    BY <1>1, <1>2, <2>1, AppendProperties
  <2>3. Longer
    BY <1>2, <2>2 DEF Longer
  <2>4. \A k \in 1 .. Len(events') : k > Len(events) => k = Len(events) + 1
    BY <1>2, <2>2
  <2>5. Len(events) + 1 \in 1 .. Len(events') /\ Len(events) + 1 > Len(events)
    BY <1>2, <2>2
  <2> QED
    BY <1>1, <1>4, <2>2, <2>3, <2>4, <2>5 DEF Made, a, b
<1> QED
  BY <1>3, <1>4 DEF a, b

\* The server makes a link or does not, drops a held one, or destroys a number.
LEMMA ServeCases ==
  ASSUME GraphInv, Serve, NEW r, r = Head(requests)
  PROVE  /\ requests # <<>> /\ requests' = Tail(requests) /\ r \in Requests
         /\ UNCHANGED <<alive, mirror, bound, pc, plan, wanted, late, failed>>
         /\ \/ r.type = "create" /\ UNCHANGED <<links, events, severed>>
            \/ /\ r.type = "create"
               /\ \E l : Made(l) /\ l.ends = r.ends /\ l.mode = r.mode
               /\ severed' = severed \ {c \in Channels : Direct(c) = r.ends}
            \/ /\ r.type = "drop" /\ severed' = severed
               /\ Lost({l \in links : l.ends = r.ends /\ l.mode = "held"})
            \/ /\ r.type = "destroy" /\ Lost({l \in links : l.id = r.id})
               /\ severed' = severed \cup
                    {c \in alive : \E l \in links :
                       l.id = r.id /\ l.ends = Direct(c) /\ l.mode = "original"}
<1>1. requests # <<>> /\ requests' = Tail(requests)
  BY DEF Serve
<1>2. r \in Requests
  BY <1>1, Served DEF GraphInv, TypeInv
<1>3. UNCHANGED <<alive, mirror, bound, pc, plan, wanted, late, failed>>
  BY DEF Serve, route
<1>4. CASE r.type = "create"
  <2>1. Make(r)
    BY <1>4 DEF Serve
  <2>2. CASE r.ends[2] \in alive /\ r.ends \notin Ends(links)
    <3>1. PICK i \in Free :
            LET l == [id |-> i, ends |-> r.ends, mode |-> r.mode] IN
            /\ links' = links \cup {l}
            /\ events' = events \o IF r.mode = "linger" THEN <<Announced(l), Bound(l)>>
                                   ELSE <<Announced(l)>>
            /\ severed' = severed \ {c \in Channels : Direct(c) = r.ends}
      BY <2>1, <2>2 DEF Make
    <3> DEFINE l == [id |-> i, ends |-> r.ends, mode |-> r.mode]
    <3>2. l.id = i /\ l.ends = r.ends /\ l.mode = r.mode
      OBVIOUS
    <3>3. /\ links' = links \cup {l}
          /\ events' = events \o IF l.mode = "linger" THEN <<Announced(l), Bound(l)>>
                                 ELSE <<Announced(l)>>
      BY <3>1
    <3>4. IsLink(l)
      BY <1>2, <1>4, RequestCases DEF IsLink, Free
    <3> HIDE DEF l
    <3>5. \A m \in links : m.id # l.id /\ m.ends # l.ends
      BY <2>2, <3>2 DEF Free, Ends
    <3>6. Made(l)
      BY <3>3, <3>4, <3>5, Making
    <3> QED
      BY <1>1, <1>2, <1>3, <1>4, <3>1, <3>2, <3>6
  <2>3. CASE ~(r.ends[2] \in alive /\ r.ends \notin Ends(links))
    BY <1>1, <1>2, <1>3, <1>4, <2>1, <2>3 DEF Make
  <2> QED
    BY <2>2, <2>3
<1>5. CASE r.type = "drop"
  <2>1. Unmake({l \in links : l.ends = r.ends /\ l.mode = "held"}) /\ severed' = severed
    BY <1>5 DEF Serve
  <2>2. Lost({l \in links : l.ends = r.ends /\ l.mode = "held"})
    BY <2>1, Unmade
  <2> QED
    BY <1>1, <1>2, <1>3, <1>5, <2>1, <2>2
<1>6. CASE r.type = "destroy"
  <2>1. /\ Unmake({l \in links : l.id = r.id})
        /\ severed' = severed \cup
             {c \in alive : \E l \in links : l.id = r.id /\ l.ends = Direct(c) /\ l.mode = "original"}
    BY <1>6 DEF Serve
  <2>2. Lost({l \in links : l.id = r.id})
    BY <2>1, Unmade
  <2> QED
    BY <1>1, <1>2, <1>3, <1>6, <2>1, <2>2
<1> QED
  BY <1>2, <1>4, <1>5, <1>6, RequestCases

\* Others make a direct link or take links away.
LEMMA OthersCases ==
  ASSUME GraphInv, Others
  PROVE  /\ UNCHANGED <<requests, mirror, bound, pc, plan, wanted, late, failed>>
         /\ alive' \subseteq Channels
         /\ \/ \E c \in Channels : \E l :
                 Made(l) /\ l.ends = Direct(c) /\ l.mode = "other" /\ severed' = severed \ {c}
            \/ (\E L : Lost(L)) /\ severed' \subseteq severed
            \/ UNCHANGED <<links, events, severed>>
<1> USE DEF GraphInv, TypeInv
<1>1. CASE Connect
  <2>1. PICK c \in alive, i \in Free :
          LET l == [id |-> i, ends |-> Direct(c), mode |-> "other"] IN
          /\ Direct(c) \notin Ends(links)
          /\ links' = links \cup {l}
          /\ events' = Append(events, Announced(l))
          /\ severed' = severed \ {c}
          /\ UNCHANGED <<alive, requests, mirror, bound, pc, plan, wanted, late, failed>>
    BY <1>1 DEF Connect, route
  <2> DEFINE l == [id |-> i, ends |-> Direct(c), mode |-> "other"]
  <2>2. IsLink(l) /\ l.id = i /\ l.ends = Direct(c) /\ l.mode = "other"
    BY DEF IsLink, Free, Modes, AllEnds, Directs
  <2>3. links' = links \cup {l} /\ events' = Append(events, Announced(l))
    BY <2>1
  <2> HIDE DEF l
  <2>4. \A m \in links : m.id # l.id /\ m.ends # l.ends
    BY <2>1, <2>2 DEF Free, Ends
  <2>5. Made(l)
    BY <2>2, <2>3, <2>4, Making
  <2> QED
    BY <2>1, <2>2, <2>5
<1>2. CASE Disconnect
  <2>1. PICK l \in links : Unmake({l})
    BY <1>2 DEF Disconnect
  <2>2. Lost({l})
    BY <2>1, Unmade
  <2>3. UNCHANGED <<alive, severed, requests, mirror, bound, pc, plan, wanted, late, failed>>
    BY <1>2 DEF Disconnect, route
  <2> QED
    BY <2>2, <2>3
<1>3. CASE PortsGo
  <2>1. PICK c \in alive :
          /\ Unmake({l \in links : l.ends[2] = c}) /\ alive' = alive \ {c}
          /\ severed' = severed \ {c}
          /\ UNCHANGED <<requests, mirror, bound, pc, plan, wanted, late, failed>>
    BY <1>3 DEF PortsGo, route
  <2>2. Lost({l \in links : l.ends[2] = c})
    BY <2>1, Unmade
  <2> QED
    BY <2>1, <2>2
<1>4. CASE PortsCome
  BY <1>4 DEF PortsCome, route, queues
<1> QED
  BY <1>1, <1>2, <1>3, <1>4 DEF Others

\* Marking changes nothing but the mode.
LEMMA MarkedFacts ==
  ASSUME NEW S, NEW m \in Modes
  PROVE  /\ \A l : IsLink(l) =>
              /\ IsLink(Marked(l, S, m))
              /\ Marked(l, S, m).id = l.id /\ Marked(l, S, m).ends = l.ends
              /\ Marked(l, S, m).mode = IF l.mode \in S THEN m ELSE l.mode
         /\ \A e, n : Marked(Create(e, n), S, m) = Create(e, IF n \in S THEN m ELSE n)
<1>1. ASSUME NEW l, IsLink(l)
      PROVE  /\ IsLink(Marked(l, S, m))
             /\ Marked(l, S, m).id = l.id /\ Marked(l, S, m).ends = l.ends
             /\ Marked(l, S, m).mode = IF l.mode \in S THEN m ELSE l.mode
  <2>1. PICK i, e, n : l = [id |-> i, ends |-> e, mode |-> n]
    BY <1>1 DEF IsLink
  <2>2. Marked(l, S, m) = [id |-> i, ends |-> e, mode |-> IF n \in S THEN m ELSE n]
    BY <2>1 DEF Marked
  <2>3. l.id = i /\ l.ends = e /\ l.mode = n
    BY <2>1
  <2> QED
    BY <1>1, <2>2, <2>3 DEF IsLink
<1>2. ASSUME NEW e, NEW n
      PROVE  Marked(Create(e, n), S, m) = Create(e, IF n \in S THEN m ELSE n)
  BY DEF Marked, Create
<1> QED
  BY <1>1, <1>2

\* So the marked links are the links.
LEMMA MarkedSame ==
  ASSUME GraphInv, NEW S, NEW m \in Modes, m # "held", "held" \notin S
  PROVE  /\ Proper(MarkedLinks(S, m)) /\ \A l \in MarkedLinks(S, m) : IsLink(l)
         /\ \A l \in MarkedLinks(S, m) : \E k \in links :
              /\ l.id = k.id /\ l.ends = k.ends /\ Seen(l) = Seen(k)
              /\ l.mode = IF k.mode \in S THEN m ELSE k.mode
         /\ \A k \in links : \E l \in MarkedLinks(S, m) : Seen(l) = Seen(k)
<1>1. \A k \in links : IsLink(k)
  BY DEF GraphInv, TypeInv
<1>2. ASSUME NEW l \in MarkedLinks(S, m)
      PROVE  \E k \in links : /\ l = Marked(k, S, m) /\ IsLink(l) /\ l.id = k.id /\ l.ends = k.ends
                              /\ l.mode = IF k.mode \in S THEN m ELSE k.mode
  BY <1>1, MarkedFacts DEF MarkedLinks
<1>3. ASSUME NEW k \in links
      PROVE  Marked(k, S, m) \in MarkedLinks(S, m) /\ Seen(Marked(k, S, m)) = Seen(k)
  <2>1. Marked(k, S, m).id = k.id /\ Marked(k, S, m).ends = k.ends
    BY <1>1, MarkedFacts
  <2> QED
    BY <2>1 DEF MarkedLinks, Seen
<1>4. Proper(MarkedLinks(S, m))
  <2>1. \A l \in MarkedLinks(S, m) : l.ends \in Replacements <=> l.mode = "held"
    BY <1>2 DEF GraphInv, ServerInv, Proper
  <2>2. \A k, l \in MarkedLinks(S, m) : k.id = l.id \/ k.ends = l.ends => k = l
    BY <1>2 DEF GraphInv, ServerInv, Proper
  <2> QED
    BY <2>1, <2>2 DEF Proper
<1> QED
  BY <1>2, <1>3, <1>4 DEF Seen

\* And the marked requests are the requests.
LEMMA MarkedQueue ==
  ASSUME GraphInv, NEW S, NEW m \in Modes, m # "held", m # "original", "held" \notin S
  PROVE  LET q == MarkedRequests(S, m) IN
         /\ q \in Seq(Requests) /\ Len(q) = Len(requests) /\ Len(requests) \in Nat
         /\ \A k \in 1 .. Len(requests) :
              /\ ProperRequest(q[k]) /\ q[k].type = requests[k].type
              /\ requests[k].type # "create" => q[k] = requests[k]
              /\ requests[k].type = "create" =>
                   q[k] = Create(requests[k].ends, IF requests[k].mode \in S THEN m ELSE requests[k].mode)
<1> DEFINE q == MarkedRequests(S, m)
<1>1. requests \in Seq(Requests) /\ DOMAIN requests = 1 .. Len(requests) /\ Len(requests) \in Nat
  BY LenProperties DEF GraphInv, TypeInv
<1>2. q = [k \in 1 .. Len(requests) |-> IF requests[k].type = "create" THEN Marked(requests[k], S, m)
                                        ELSE requests[k]]
  BY <1>1 DEF MarkedRequests
<1> HIDE DEF q
<1>3. ASSUME NEW k \in 1 .. Len(requests)
      PROVE  /\ q[k] \in Requests
             /\ ProperRequest(q[k]) /\ q[k].type = requests[k].type
             /\ requests[k].type # "create" => q[k] = requests[k]
             /\ requests[k].type = "create" =>
                  q[k] = Create(requests[k].ends, IF requests[k].mode \in S THEN m ELSE requests[k].mode)
  <2>1. requests[k] \in Requests /\ ProperRequest(requests[k])
    BY <1>1, ElementOfSeq DEF GraphInv, ServerInv
  <2>2. CASE requests[k].type # "create"
    BY <1>2, <2>1, <2>2
  <2>3. CASE requests[k].type = "create"
    <3>1. /\ requests[k] = Create(requests[k].ends, requests[k].mode)
          /\ requests[k].ends \in AllEnds /\ requests[k].mode \in Modes
      BY <2>1, <2>3, RequestCases, Messages
    <3> DEFINE n == IF requests[k].mode \in S THEN m ELSE requests[k].mode
    <3>2. q[k] = Marked(requests[k], S, m)
      BY <1>2, <2>3
    <3>3. Marked(Create(requests[k].ends, requests[k].mode), S, m) = Create(requests[k].ends, n)
      BY MarkedFacts
    <3>4. q[k] = Create(requests[k].ends, n) /\ n \in Modes
      BY <3>1, <3>2, <3>3
    <3>5. q[k].type = "create" /\ q[k].ends = requests[k].ends /\ q[k].mode = n
      BY <3>4, Messages
    <3>6. ProperRequest(q[k])
      BY <2>1, <2>3, <3>5 DEF ProperRequest
    <3>7. q[k] \in Requests
      BY <3>1, <3>4 DEF Requests
    <3> QED
      BY <2>3, <3>4, <3>5, <3>6, <3>7
  <2> QED
    BY <2>2, <2>3
<1>4. q \in Seq(Requests) /\ Len(q) = Len(requests)
  BY <1>1, <1>2, <1>3
<1> QED
  BY <1>1, <1>3, <1>4 DEF q

\* A restoration lets go of its links.
LEMMA LettingGo ==
  ASSUME GraphInv, NEW m \in Modes, m # "held", m # "original", NEW more \in Seq(Requests), LetGo(m, more)
  PROVE  /\ links' = MarkedLinks({"linger"}, m) /\ bound' = {}
         /\ requests' \in Seq(Requests) /\ Joins(requests', MarkedRequests({"linger"}, m), more)
         /\ events' \in Seq(Events) /\ Len(events') = Len(events) /\ Len(events) \in Nat
         /\ \A k \in 1 .. Len(events) :
              /\ events[k].type # "bound" => events'[k] = events[k]
              /\ events[k].type = "bound" => events'[k].type = "lost"
<1>1. MarkedRequests({"linger"}, m) \in Seq(Requests)
  BY MarkedQueue
<1>2. requests' = MarkedRequests({"linger"}, m) \o more
  BY DEF LetGo
<1>3. requests' \in Seq(Requests) /\ Joins(requests', MarkedRequests({"linger"}, m), more)
  BY <1>1, <1>2, Joined
<1>4. events \in Seq(Events) /\ DOMAIN events = 1 .. Len(events) /\ Len(events) \in Nat
  BY LenProperties DEF GraphInv, TypeInv
<1>5. events' = [k \in 1 .. Len(events) |-> IF events[k].type = "bound"
                                            THEN [events[k] EXCEPT !.type = "lost"] ELSE events[k]]
  BY <1>4 DEF LetGo
<1>6. ASSUME NEW k \in 1 .. Len(events)
      PROVE  /\ events'[k] \in Events
             /\ events[k].type # "bound" => events'[k] = events[k]
             /\ events[k].type = "bound" => events'[k].type = "lost"
  <2>1. events[k] \in Events
    BY <1>4, ElementOfSeq
  <2>2. CASE events[k].type # "bound"
    BY <1>5, <2>1, <2>2
  <2>3. CASE events[k].type = "bound"
    <3>1. PICK x \in Sights : events[k] = [type |-> "bound", link |-> x]
      BY <2>1, <2>3, EventCases
    <3>2. events'[k] = [type |-> "lost", link |-> x]
      BY <1>5, <2>3, <3>1
    <3> QED
      BY <2>3, <3>2 DEF Events
  <2> QED
    BY <2>2, <2>3
<1>7. events' \in Seq(Events) /\ Len(events') = Len(events)
  BY <1>4, <1>5, <1>6
<1>8. links' = MarkedLinks({"linger"}, m) /\ bound' = {}
  BY DEF LetGo
<1> QED
  BY <1>3, <1>4, <1>6, <1>7, <1>8

-----------------------------------------------------------------------------
(* Types and the server *)

\* Taking links away leaves proper links.
LEMMA LostGraph ==
  ASSUME GraphInv, NEW L, Lost(L)
  PROVE  /\ \A l \in links' : IsLink(l) /\ l \in links
         /\ Proper(links') /\ events' \in Seq(Events)
BY DEF GraphInv, TypeInv, ServerInv, Proper, Lost, Longer

\* So does a new one.
LEMMA MadeGraph ==
  ASSUME GraphInv, NEW l, Made(l), l.ends \in Replacements <=> l.mode = "held"
  PROVE  /\ \A m \in links' : IsLink(m) /\ (m \in links \/ m = l)
         /\ Proper(links') /\ events' \in Seq(Events)
BY DEF GraphInv, TypeInv, ServerInv, Proper, Made, Longer

\* Sending proper requests leaves the queue proper.
LEMMA SentGraph ==
  ASSUME GraphInv, NEW q \in Seq(Requests), \A k \in 1 .. Len(q) : ProperRequest(q[k]),
         NEW X \in Seq(Requests), \A k \in 1 .. Len(X) : ProperRequest(X[k]),
         requests' = q \o X
  PROVE  requests' \in Seq(Requests) /\ \A k \in 1 .. Len(requests') : ProperRequest(requests'[k])
<1>1. requests' \in Seq(Requests) /\ Joins(requests', q, X)
  BY Joined
<1> QED
  <2>1. \A k \in 1 .. Len(requests') :
          (\E j \in 1 .. Len(q) : requests'[k] = q[j]) \/ (\E j \in 1 .. Len(X) : requests'[k] = X[j])
    BY <1>1, JoinedFrom
  <2> QED
    BY <1>1, <2>1

\* What is sent is proper.
LEMMA ProperSends ==
  /\ \A k \in 1 .. Len(DropReplacements) : ProperRequest(DropReplacements[k])
  /\ \A L : L \subseteq Sights => \A k \in 1 .. Len(Destroys(L)) : ProperRequest(Destroys(L)[k])
  /\ \A E : E \subseteq Directs(Channels) =>
       \A k \in 1 .. Len(Creates(E, "linger")) : ProperRequest(Creates(E, "linger")[k])
  /\ \A k \in 1 .. Len(Creates(Replacements, "held")) : ProperRequest(Creates(Replacements, "held")[k])
<1>1. Replacements \subseteq AllEnds /\ Directs(Channels) \subseteq AllEnds
  BY DEF AllEnds
<1>2. \A k \in 1 .. Len(DropReplacements) : ProperRequest(DropReplacements[k])
  BY DropsFacts, Messages DEF ProperRequest
<1>3. ASSUME NEW L, L \subseteq Sights, NEW k \in 1 .. Len(Destroys(L))
      PROVE  ProperRequest(Destroys(L)[k])
  <2>1. \E l \in L : Destroys(L)[k] = Destroy(l.id)
    BY <1>3, DestroysFacts
  <2> QED
    BY <2>1, Messages DEF ProperRequest
<1>4. ASSUME NEW E, E \subseteq Directs(Channels), NEW k \in 1 .. Len(Creates(E, "linger"))
      PROVE  ProperRequest(Creates(E, "linger")[k])
  <2>1. \E e \in E : Creates(E, "linger")[k] = Create(e, "linger")
    BY <1>1, <1>4, CreatesFacts DEF Modes
  <2> QED
    BY <1>1, <1>4, <2>1, Messages, Ranks DEF ProperRequest
<1>5. ASSUME NEW k \in 1 .. Len(Creates(Replacements, "held"))
      PROVE  ProperRequest(Creates(Replacements, "held")[k])
  <2>1. \E e \in Replacements : Creates(Replacements, "held")[k] = Create(e, "held")
    BY <1>1, <1>5, CreatesFacts DEF Modes
  <2> QED
    BY <2>1, Messages DEF ProperRequest
<1> QED
  BY <1>2, <1>3, <1>4, <1>5

\* What the server does keeps the types and the links proper.
LEMMA ServeGraph == GraphInv /\ Serve => GraphInv'
<1> SUFFICES ASSUME GraphInv, Serve PROVE GraphInv'
  OBVIOUS
<1> DEFINE r == Head(requests)
<1>1. /\ requests # <<>> /\ requests' = Tail(requests) /\ r \in Requests
      /\ UNCHANGED <<alive, mirror, bound, pc, plan, wanted, late, failed>>
  BY ServeCases
<1>2. requests \in Seq(Requests)
  BY DEF GraphInv, TypeInv
<1>3. /\ r = requests[1] /\ Len(requests) \in Nat /\ 1 \in 1 .. Len(requests)
      /\ requests' \in Seq(Requests)
      /\ \A k \in 1 .. Len(requests') : k + 1 \in 1 .. Len(requests) /\ requests'[k] = requests[k + 1]
  BY <1>1, <1>2, Served
<1>4. ProperRequest(r) /\ \A k \in 1 .. Len(requests') : ProperRequest(requests'[k])
  BY <1>3 DEF GraphInv, ServerInv
<1>5. SUFFICES /\ \A l \in links' : IsLink(l)
               /\ Proper(links') /\ events' \in Seq(Events)
               /\ severed' \subseteq Channels
               /\ \A c \in severed', l \in links' : l.ends # Direct(c)
  BY <1>1, <1>3, <1>4, <1>5 DEF GraphInv, TypeInv, ServerInv
<1>6. /\ \/ r.type = "create" /\ UNCHANGED <<links, events, severed>>
         \/ /\ r.type = "create"
            /\ \E l : Made(l) /\ l.ends = r.ends /\ l.mode = r.mode
            /\ severed' = severed \ {c \in Channels : Direct(c) = r.ends}
         \/ /\ r.type = "drop" /\ severed' = severed
            /\ Lost({l \in links : l.ends = r.ends /\ l.mode = "held"})
         \/ /\ r.type = "destroy" /\ Lost({l \in links : l.id = r.id})
            /\ severed' = severed \cup
                 {c \in alive : \E l \in links :
                    l.id = r.id /\ l.ends = Direct(c) /\ l.mode = "original"}
  BY ServeCases
<1> HIDE DEF r
<1>7. CASE UNCHANGED <<links, events, severed>>
  BY <1>7 DEF GraphInv, TypeInv, ServerInv
<1>8. CASE /\ r.type = "create"
           /\ \E l : Made(l) /\ l.ends = r.ends /\ l.mode = r.mode
           /\ severed' = severed \ {c \in Channels : Direct(c) = r.ends}
  <2>1. PICK l : Made(l) /\ l.ends = r.ends /\ l.mode = r.mode
    BY <1>8
  <2>2. l.ends \in Replacements <=> l.mode = "held"
    BY <1>4, <1>8, <2>1 DEF ProperRequest
  <2>3. /\ \A m \in links' : IsLink(m) /\ (m \in links \/ m = l)
        /\ Proper(links') /\ events' \in Seq(Events)
    BY <2>1, <2>2, MadeGraph
  <2>4. severed' \subseteq Channels /\ \A c \in severed' : c \in severed /\ Direct(c) # r.ends
    BY <1>8 DEF GraphInv, TypeInv
  <2> QED
    BY <2>1, <2>3, <2>4 DEF GraphInv, ServerInv
<1>9. CASE severed' = severed /\ Lost({l \in links : l.ends = r.ends /\ l.mode = "held"})
  BY <1>9, LostGraph DEF GraphInv, TypeInv, ServerInv
<1>10. CASE /\ Lost({l \in links : l.id = r.id})
            /\ severed' = severed \cup
                 {c \in alive : \E l \in links :
                    l.id = r.id /\ l.ends = Direct(c) /\ l.mode = "original"}
  <2>1. /\ \A l \in links' : IsLink(l) /\ l \in links
        /\ Proper(links') /\ events' \in Seq(Events)
    BY <1>10, LostGraph
  <2>2. severed' \subseteq Channels
    BY <1>10 DEF GraphInv, TypeInv
  <2>3. ASSUME NEW c \in severed', NEW l \in links' PROVE l.ends # Direct(c)
    <3>1. CASE c \in severed
      BY <2>1, <3>1 DEF GraphInv, ServerInv
    <3>2. CASE \E k \in links : k.id = r.id /\ k.ends = Direct(c) /\ k.mode = "original"
      <4>1. PICK k \in links : k.id = r.id /\ k.ends = Direct(c)
        BY <3>2
      <4>2. l \in links /\ l.id # r.id
        BY <1>10 DEF Lost
      <4> QED
        BY <4>1, <4>2 DEF GraphInv, ServerInv, Proper
    <3> QED
      BY <1>10, <3>1, <3>2
  <2> QED
    BY <2>1, <2>2, <2>3
<1> QED
  BY <1>6, <1>7, <1>8, <1>9, <1>10

\* So does what others do.
LEMMA OthersGraph == GraphInv /\ Others => GraphInv'
<1> SUFFICES ASSUME GraphInv, Others PROVE GraphInv'
  OBVIOUS
<1>1. UNCHANGED <<requests, mirror, bound, pc, plan, wanted, late, failed>> /\ alive' \subseteq Channels
  BY OthersCases
<1>2. SUFFICES /\ \A l \in links' : IsLink(l)
               /\ Proper(links') /\ events' \in Seq(Events)
               /\ severed' \subseteq Channels
               /\ \A c \in severed', l \in links' : l.ends # Direct(c)
  BY <1>1, <1>2 DEF GraphInv, TypeInv, ServerInv
<1>3. ASSUME NEW c \in Channels, NEW l, Made(l), l.ends = Direct(c), l.mode = "other",
             severed' = severed \ {c}
      PROVE  /\ \A m \in links' : IsLink(m)
             /\ Proper(links') /\ events' \in Seq(Events)
             /\ severed' \subseteq Channels
             /\ \A d \in severed', m \in links' : m.ends # Direct(d)
  <2>1. l.ends \in Replacements <=> l.mode = "held"
    BY <1>3, Ranks DEF Directs, AllEnds
  <2>2. /\ \A m \in links' : IsLink(m) /\ (m \in links \/ m = l)
        /\ Proper(links') /\ events' \in Seq(Events)
    BY <1>3, <2>1, MadeGraph
  <2> QED
    BY <1>3, <2>2, Ranks DEF GraphInv, TypeInv, ServerInv
<1>4. ASSUME NEW L, Lost(L), severed' \subseteq severed
      PROVE  /\ \A m \in links' : IsLink(m)
             /\ Proper(links') /\ events' \in Seq(Events)
             /\ severed' \subseteq Channels
             /\ \A d \in severed', m \in links' : m.ends # Direct(d)
  BY <1>4, LostGraph DEF GraphInv, TypeInv, ServerInv
<1>5. CASE UNCHANGED <<links, events, severed>>
  BY <1>5 DEF GraphInv, TypeInv, ServerInv
<1> QED
  BY <1>3, <1>4, <1>5, OthersCases

\* The event that is delivered, and those left.
LEMMA Delivered ==
  ASSUME GraphInv, Deliver
  PROVE  /\ events # <<>> /\ events' = Tail(events) /\ events' \in Seq(Events)
         /\ events[1] \in Events /\ Len(events) \in Nat /\ 1 \in 1 .. Len(events)
         /\ \A k \in 1 .. Len(events') : k + 1 \in 1 .. Len(events) /\ events'[k] = events[k + 1]
         /\ \A k \in 1 .. Len(events) : k # 1 =>
              k - 1 \in 1 .. Len(events') /\ events'[k - 1] = events[k]
         /\ mirror' = CASE events[1].type = "added"   -> mirror \cup {events[1].link}
                        [] events[1].type = "removed" -> {l \in mirror : l.id # events[1].id}
                        [] OTHER                      -> mirror
         /\ bound' = IF events[1].type = "bound" /\ Restoring
                     THEN bound \cup {events[1].link} ELSE bound
         /\ UNCHANGED <<links, alive, requests, pc, plan, wanted, late, failed, severed>>
<1>1. events # <<>> /\ events' = Tail(events) /\ events \in Seq(Events)
  BY DEF Deliver, GraphInv, TypeInv
<1>2. /\ events' \in Seq(Events)
      /\ Head(events) = events[1] /\ events[1] \in Events /\ Len(events) \in Nat
      /\ 1 \in 1 .. Len(events)
      /\ \A k \in 1 .. Len(events') : k + 1 \in 1 .. Len(events) /\ events'[k] = events[k + 1]
      /\ \A k \in 1 .. Len(events) : k # 1 =>
           k - 1 \in 1 .. Len(events') /\ events'[k - 1] = events[k]
  BY <1>1, Served
<1> QED
  BY <1>1, <1>2 DEF Deliver, server, route, Restoring

\* Handling an event keeps the types.
LEMMA DeliverGraph == GraphInv /\ Deliver => GraphInv'
<1> SUFFICES ASSUME GraphInv, Deliver PROVE GraphInv'
  OBVIOUS
<1>1. /\ events' \in Seq(Events) /\ events[1] \in Events
      /\ mirror' = CASE events[1].type = "added"   -> mirror \cup {events[1].link}
                     [] events[1].type = "removed" -> {l \in mirror : l.id # events[1].id}
                     [] OTHER                      -> mirror
      /\ bound' = IF events[1].type = "bound" /\ Restoring
                  THEN bound \cup {events[1].link} ELSE bound
      /\ UNCHANGED <<links, alive, requests, pc, plan, wanted, late, failed, severed>>
  BY Delivered
<1>2. events[1].type \in {"added", "bound"} => events[1].link \in Sights
  BY <1>1, EventCases
<1>3. mirror' \subseteq Sights /\ bound' \subseteq Sights
  BY <1>1, <1>2 DEF GraphInv, TypeInv
<1> QED
  BY <1>1, <1>3 DEF GraphInv, TypeInv, ServerInv

\* What the daemon sends without waiting for its links: the queue stays proper.
LEMMA SendGraph ==
  ASSUME GraphInv, NEW X,
         \/ X = DropReplacements
         \/ X = Destroys(plan)
         \/ \E E : E \subseteq Directs(Channels) /\ X = Creates(E, "linger"),
         requests' = requests \o X
  PROVE  /\ X \in Seq(Requests) /\ requests' \in Seq(Requests) /\ Joins(requests', requests, X)
         /\ \A k \in 1 .. Len(requests') : ProperRequest(requests'[k])
<1>1. X \in Seq(Requests) /\ \A k \in 1 .. Len(X) : ProperRequest(X[k])
  <2>1. CASE X = DropReplacements
    BY <2>1, DropsFacts, ProperSends
  <2>2. CASE X = Destroys(plan)
    BY <2>2, DestroysFacts, ProperSends DEF GraphInv, TypeInv
  <2>3. CASE \E E : E \subseteq Directs(Channels) /\ X = Creates(E, "linger")
    <3>1. PICK E : E \subseteq Directs(Channels) /\ X = Creates(E, "linger")
      BY <2>3
    <3>2. E \subseteq AllEnds /\ "linger" \in Modes
      BY <3>1 DEF AllEnds, Modes
    <3> QED
      BY <3>1, <3>2, CreatesFacts, ProperSends
  <2> QED
    BY <2>1, <2>2, <2>3
<1>2. requests \in Seq(Requests) /\ \A k \in 1 .. Len(requests) : ProperRequest(requests[k])
  BY DEF GraphInv, TypeInv, ServerInv
<1> QED
  BY <1>1, <1>2, SentGraph, Joined

\* Letting go keeps the types and the links proper.
LEMMA LetGoGraph ==
  ASSUME GraphInv, NEW m \in {"other", "stray"}, NEW more \in Seq(Requests),
         \A k \in 1 .. Len(more) : ProperRequest(more[k]), LetGo(m, more)
  PROVE  /\ \A l \in links' : IsLink(l)
         /\ Proper(links') /\ events' \in Seq(Events) /\ bound' = {}
         /\ requests' \in Seq(Requests) /\ \A k \in 1 .. Len(requests') : ProperRequest(requests'[k])
         /\ \A c \in severed, l \in links' : l.ends # Direct(c)
<1>1. m \in Modes /\ m # "held" /\ m # "original" /\ "held" \notin {"linger"}
  BY DEF Modes
<1>2. links' = MarkedLinks({"linger"}, m) /\ bound' = {} /\ events' \in Seq(Events)
  BY <1>1, LettingGo
<1>3. /\ Proper(links') /\ \A l \in links' : IsLink(l)
      /\ \A l \in links' : \E k \in links : l.ends = k.ends
  BY <1>1, <1>2, MarkedSame
<1> DEFINE q == MarkedRequests({"linger"}, m)
<1>4. q \in Seq(Requests) /\ Len(q) = Len(requests) /\ \A k \in 1 .. Len(requests) : ProperRequest(q[k])
  BY <1>1, MarkedQueue
<1>5. requests' = q \o more
  BY DEF LetGo
<1> HIDE DEF q
<1>6. requests' \in Seq(Requests) /\ \A k \in 1 .. Len(requests') : ProperRequest(requests'[k])
  BY <1>4, <1>5, SentGraph
<1> QED
  BY <1>2, <1>3, <1>6 DEF GraphInv, ServerInv

\* What the daemon does keeps the types and the links proper.
LEMMA DaemonGraph == GraphInv /\ (Install \/ Leave) => GraphInv'
<1> SUFFICES ASSUME GraphInv, Install \/ Leave PROVE GraphInv'
  OBVIOUS
<1>1. CASE Stage
  <2>1. /\ plan' = {l \in mirror : l.ends \in Directs(Channels)} /\ pc' = "stage"
        /\ requests' = MarkedRequests({"stray"}, "other") \o Creates(Replacements, "held")
        /\ late' \in BOOLEAN /\ failed' = FALSE
        /\ UNCHANGED <<alive, events, mirror, bound, wanted, severed>>
    BY <1>1 DEF Stage
  <2>2. links' = {IF Seen(l) \in plan' THEN [l EXCEPT !.mode = "original"] ELSE l
                  : l \in MarkedLinks({"original", "stray"}, "other")}
    BY <1>1 DEF Stage
  <2>3. "other" \in Modes /\ "held" \in Modes /\ Replacements \subseteq AllEnds
    BY DEF Modes, AllEnds
  <2>4. requests' \in Seq(Requests) /\ \A k \in 1 .. Len(requests') : ProperRequest(requests'[k])
    <3>1. /\ MarkedRequests({"stray"}, "other") \in Seq(Requests)
          /\ \A k \in 1 .. Len(MarkedRequests({"stray"}, "other")) :
               ProperRequest(MarkedRequests({"stray"}, "other")[k])
      BY <2>3, MarkedQueue
    <3>2. Creates(Replacements, "held") \in Seq(Requests)
      BY <2>3, CreatesFacts
    <3> QED
      BY <2>1, <3>1, <3>2, ProperSends, SentGraph
  <2> DEFINE M == MarkedLinks({"original", "stray"}, "other")
  <2>5. /\ Proper(M) /\ \A l \in M : IsLink(l)
        /\ \A l \in M : \E k \in links : l.ends = k.ends
    BY <2>3, MarkedSame
  <2> HIDE DEF M
  <2>6. ASSUME NEW l \in links'
        PROVE  IsLink(l) /\ \E k \in M : /\ l.id = k.id /\ l.ends = k.ends
                                         /\ l = IF Seen(k) \in plan' THEN [k EXCEPT !.mode = "original"] ELSE k
                                         /\ l.mode = IF Seen(k) \in plan' THEN "original" ELSE k.mode
    <3>1. PICK k \in M : l = IF Seen(k) \in plan' THEN [k EXCEPT !.mode = "original"] ELSE k
      BY <2>2 DEF M
    <3>2. IsLink(k)
      BY <2>5
    <3>3. PICK i, e, n : k = [id |-> i, ends |-> e, mode |-> n]
      BY <3>2 DEF IsLink
    <3>4. l = [id |-> i, ends |-> e, mode |-> IF Seen(k) \in plan' THEN "original" ELSE n]
      BY <3>1, <3>3
    <3> QED
      BY <3>1, <3>2, <3>3, <3>4 DEF IsLink, Modes
  <2>7. \A l \in M : Seen(l) \in plan' => l.ends \in Directs(Channels)
    BY <2>1, Messages
  <2>8. Proper(links')
    <3>1. \A l, m \in links' : l.id = m.id \/ l.ends = m.ends => l = m
      BY <2>5, <2>6 DEF Proper
    <3>2. \A l \in links' : l.ends \in Replacements <=> l.mode = "held"
      <4> SUFFICES ASSUME NEW l \in links' PROVE l.ends \in Replacements <=> l.mode = "held"
        OBVIOUS
      <4>1. PICK k \in M : /\ l.ends = k.ends
                           /\ l.mode = IF Seen(k) \in plan' THEN "original" ELSE k.mode
        BY <2>6
      <4>2. k.ends \in Replacements <=> k.mode = "held"
        BY <2>5 DEF Proper
      <4>3. Seen(k) \in plan' => k.ends \notin Replacements
        BY <2>7, Ranks DEF AllEnds
      <4> QED
        BY <4>1, <4>2, <4>3
    <3> QED
      BY <3>1, <3>2 DEF Proper
  <2>9. \A c \in severed', l \in links' : l.ends # Direct(c)
    BY <2>1, <2>5, <2>6 DEF GraphInv, ServerInv
  <2>10. plan' \subseteq Sights /\ Ends(plan') \subseteq Directs(Channels)
    BY <2>1 DEF GraphInv, TypeInv, Ends
  <2> QED
    BY <2>1, <2>4, <2>6, <2>8, <2>9, <2>10 DEF GraphInv, TypeInv, ServerInv
<1>2. CASE CutOver
  BY <1>2, SendGraph DEF CutOver, GraphInv, TypeInv, ServerInv, server
<1>3. CASE StageFailed
  BY <1>3, SendGraph DEF StageFailed, Deadline, GraphInv, TypeInv, ServerInv, server, Ends
<1>4. CASE Activate
  BY <1>4 DEF Activate, GraphInv, TypeInv, ServerInv, server, queues
<1>5. ASSUME NEW E, E \subseteq Ends(plan), NEW p \in {"rollback", "bypass"}, RestoreLinks(E, p),
             late' \in BOOLEAN
      PROVE  GraphInv'
  <2>1. E \subseteq Directs(Channels)
    BY <1>5 DEF GraphInv, TypeInv
  <2> QED
    BY <1>5, <2>1, SendGraph DEF RestoreLinks, GraphInv, TypeInv, ServerInv, server
<1>6. CASE NotActivated
  BY <1>5, <1>6 DEF NotActivated, GraphInv, TypeInv
<1>7. CASE RemovalFailed
  <2>1. late' \in BOOLEAN
    BY <1>7 DEF RemovalFailed, Deadline, GraphInv, TypeInv
  <2>2. CASE Missing # {}
    BY <1>5, <1>7, <2>1, <2>2 DEF RemovalFailed, Missing, Ends
  <2>3. CASE Missing = {}
    BY <1>7, <2>1, <2>3, SendGraph DEF RemovalFailed, GraphInv, TypeInv, ServerInv, server, Ends
  <2> QED
    BY <2>2, <2>3
<1>8. CASE RolledBack
  <2>1. LetGo("other", DropReplacements)
    BY <1>8 DEF RolledBack
  <2> QED
    BY <1>8, <2>1, LetGoGraph, DropsFacts, ProperSends
       DEF RolledBack, GraphInv, TypeInv, ServerInv, Ends
<1>9. CASE Restore
  BY <1>5, <1>9 DEF Restore, GraphInv, TypeInv
<1>10. CASE Bypassed
  <2>1. LetGo("other", DropReplacements)
    BY <1>10 DEF Bypassed
  <2> QED
    BY <1>10, <2>1, LetGoGraph, DropsFacts, ProperSends
       DEF Bypassed, GraphInv, TypeInv, ServerInv, Ends
<1>11. CASE NotDeactivated
  <2>1. LetGo("other", <<>>)
    BY <1>11 DEF NotDeactivated
  <2>2. <<>> \in Seq(Requests) /\ Len(<<>>) = 0 /\ 1 .. 0 = {}
    OBVIOUS
  <2> QED
    BY <1>11, <2>1, <2>2, LetGoGraph DEF NotDeactivated, GraphInv, TypeInv, ServerInv
<1>12. CASE Unconfirmed
  <2> DEFINE more == DestroyGlobals \o IF pc = "rollback" THEN DropReplacements ELSE <<>>
  <2>1. LetGo("stray", more)
    BY <1>12 DEF Unconfirmed
  <2>2. /\ DestroyGlobals \in Seq(Requests)
        /\ \A k \in 1 .. Len(DestroyGlobals) : ProperRequest(DestroyGlobals[k])
    BY DestroysFacts, ProperSends DEF DestroyGlobals, GraphInv, TypeInv
  <2>3. <<>> \in Seq(Requests) /\ Len(<<>>) = 0 /\ 1 .. 0 = {}
    OBVIOUS
  <2>4. more \in Seq(Requests) /\ \A k \in 1 .. Len(more) : ProperRequest(more[k])
    <3>1. CASE pc = "rollback"
      <4>1. more = DestroyGlobals \o DropReplacements
        BY <3>1
      <4>2. more \in Seq(Requests) /\ Joins(more, DestroyGlobals, DropReplacements)
        BY <2>2, <4>1, DropsFacts, Joined
      <4> HIDE DEF more
      <4> QED
        <5>1. \A k \in 1 .. Len(more) :
                (\E j \in 1 .. Len(DestroyGlobals) : more[k] = DestroyGlobals[j]) \/ (\E j \in 1 .. Len(DropReplacements) : more[k] = DropReplacements[j])
          BY <4>2, JoinedFrom
        <5> QED
          BY <2>2, <4>2, ProperSends, <5>1
    <3>2. CASE pc # "rollback"
      <4>1. more = DestroyGlobals
        BY <2>2, <3>2, ConcatEmptySeq
      <4> QED
        BY <2>2, <4>1
    <3> QED
      BY <3>1, <3>2
  <2> HIDE DEF more
  <2>5. /\ \A l \in links' : IsLink(l)
        /\ Proper(links') /\ events' \in Seq(Events) /\ bound' = {}
        /\ requests' \in Seq(Requests) /\ \A k \in 1 .. Len(requests') : ProperRequest(requests'[k])
        /\ \A c \in severed, l \in links' : l.ends # Direct(c)
    BY <2>1, <2>4, LetGoGraph
  <2> QED
    BY <1>12, <2>5 DEF Unconfirmed, Deadline, GraphInv, TypeInv, ServerInv, Ends
<1>13. CASE Release
  BY <1>13, SendGraph DEF Release, GraphInv, TypeInv, ServerInv, server, Ends
<1> QED
  BY <1>1, <1>2, <1>3, <1>4, <1>6, <1>7, <1>8, <1>9, <1>10, <1>11, <1>12, <1>13 DEF Install, Leave

\* Every step keeps the types and the links proper.
LEMMA GraphStep == GraphInv /\ [Next]_vars => GraphInv'
<1>1. GraphInv /\ UNCHANGED vars => GraphInv'
  BY DEF GraphInv, TypeInv, ServerInv, vars, server, queues, route
<1> QED
  BY <1>1, ServeGraph, OthersGraph, DeliverGraph, DaemonGraph DEF Next

-----------------------------------------------------------------------------
(* What the daemon's steps send *)

\* The daemon sends the requests X and touches nothing on the server.
Sends(X) ==
  /\ UNCHANGED <<links, alive, events, mirror, bound>>
  /\ X \in Seq(Requests) /\ Joins(requests', requests, X)

\* No request of X makes a link.
NoCreates(X) == \A k \in 1 .. Len(X) : X[k].type # "create"
\* X drops every replacement.
DropsAll(X) == \A e \in Replacements : \E k \in 1 .. Len(X) : X[k] = Drop(e)

\* The steps that send requests of one kind.
LEMMA SendCases ==
  ASSUME GraphInv
  PROVE  /\ CutOver => Sends(Destroys(plan))
         /\ StageFailed \/ Release => Sends(DropReplacements)
         /\ NotActivated \/ Restore => Sends(Creates(Ends(plan), "linger"))
         /\ RemovalFailed => Sends(Creates(Missing, "linger")) \/ Sends(DropReplacements)
         /\ RemovalFailed /\ pc' = "idle" => Sends(DropReplacements)
         /\ Activate => UNCHANGED <<links, alive, events, mirror, bound, requests>>
<1>1. Ends(plan) \subseteq Directs(Channels) /\ Missing \subseteq Directs(Channels)
  BY DEF GraphInv, TypeInv, Missing, Ends
<1>2. CutOver => Sends(Destroys(plan))
  BY SendGraph DEF CutOver, Sends, server
<1>3. StageFailed \/ Release => Sends(DropReplacements)
  BY SendGraph DEF StageFailed, Release, Sends, server
<1>4. NotActivated \/ Restore => Sends(Creates(Ends(plan), "linger"))
  BY <1>1, SendGraph DEF NotActivated, Restore, RestoreLinks, Sends, server
<1>5. RemovalFailed => \/ Sends(Creates(Missing, "linger")) /\ pc' = "rollback"
                       \/ Sends(DropReplacements)
  BY <1>1, SendGraph DEF RemovalFailed, RestoreLinks, Sends, server
<1>6. Activate => UNCHANGED <<links, alive, events, mirror, bound, requests>>
  BY DEF Activate, server, queues
<1> QED
  BY <1>2, <1>3, <1>4, <1>5, <1>6

\* The steps that end a restoration let go of its links.
LEMMA LetGoCases ==
  ASSUME GraphInv
  PROVE  /\ RolledBack \/ Bypassed =>
              LetGo("other", DropReplacements) /\ pc' = "idle" /\ UNCHANGED <<mirror, late, failed, severed>>
         /\ NotDeactivated => /\ LetGo("other", <<>>) /\ <<>> \in Seq(Requests) /\ Len(<<>>) = 0
                              /\ pc' = "active" /\ UNCHANGED <<mirror, plan, late, failed, severed>>
         /\ Unconfirmed => \E X \in Seq(Requests) :
              /\ LetGo("stray", X) /\ NoCreates(X) /\ (pc' = "idle" => DropsAll(X))
              /\ \A l \in bound : (\A m \in bound : m.ends = l.ends => m = l) =>
                   \E k \in 1 .. Len(X) : X[k] = Destroy(l.id)
<1>1. RolledBack \/ Bypassed =>
        LetGo("other", DropReplacements) /\ pc' = "idle" /\ UNCHANGED <<mirror, late, failed, severed>>
  BY DEF RolledBack, Bypassed
<1>2. NotDeactivated => /\ LetGo("other", <<>>) /\ <<>> \in Seq(Requests) /\ Len(<<>>) = 0
                        /\ pc' = "active" /\ UNCHANGED <<mirror, plan, late, failed, severed>>
  <2>1. <<>> \in Seq(Requests) /\ Len(<<>>) = 0
    OBVIOUS
  <2> QED
    BY <2>1 DEF NotDeactivated
<1>3. ASSUME Unconfirmed
      PROVE  \E X \in Seq(Requests) :
               /\ LetGo("stray", X) /\ NoCreates(X) /\ (pc' = "idle" => DropsAll(X))
               /\ \A l \in bound : (\A m \in bound : m.ends = l.ends => m = l) =>
                    \E k \in 1 .. Len(X) : X[k] = Destroy(l.id)
  <2> DEFINE D == Destroys(bound)
  <2>1. bound \subseteq Sights
    BY DEF GraphInv, TypeInv
  <2>2. /\ D \in Seq(Requests) /\ \A k \in 1 .. Len(D) : \E l \in bound : D[k] = Destroy(l.id)
        /\ \A l \in bound : (\A m \in bound : m.ends = l.ends => m = l) =>
             \E k \in 1 .. Len(D) : D[k] = Destroy(l.id)
    BY <2>1, DestroysFacts
  <2>3. NoCreates(D)
    BY <2>2, Messages DEF NoCreates
  <2>4. LetGo("stray", D \o IF pc = "rollback" THEN DropReplacements ELSE <<>>)
    BY <1>3 DEF Unconfirmed, DestroyGlobals
  <2>5. pc' = "idle" => pc = "rollback"
    BY <1>3 DEF Unconfirmed
  <2> HIDE DEF D
  <2>6. CASE pc = "rollback"
    <3> DEFINE X == D \o DropReplacements
    <3>1. LetGo("stray", X)
      BY <2>4, <2>6
    <3>2. X \in Seq(Requests) /\ Joins(X, D, DropReplacements)
      BY <2>2, DropsFacts, Joined
    <3> HIDE DEF X
    <3>3. NoCreates(DropReplacements)
      BY DropsFacts, Messages DEF NoCreates
    <3>4. NoCreates(X)
      <4>1. \A k \in 1 .. Len(X) :
              (\E j \in 1 .. Len(D) : X[k] = D[j]) \/ (\E j \in 1 .. Len(DropReplacements) : X[k] = DropReplacements[j])
        BY <3>2, JoinedFrom
      <4> QED
        BY <2>3, <3>3, <4>1 DEF NoCreates
    <3>5. DropsAll(X)
      <4> SUFFICES ASSUME NEW e \in Replacements PROVE \E k \in 1 .. Len(X) : X[k] = Drop(e)
        BY DEF DropsAll
      <4>1. PICK k \in 1 .. Len(DropReplacements) : DropReplacements[k] = Drop(e)
        BY DropsFacts
      <4> QED
        BY <3>2, <4>1 DEF Joins
    <3>6. ASSUME NEW l \in bound, \A m \in bound : m.ends = l.ends => m = l
          PROVE  \E k \in 1 .. Len(X) : X[k] = Destroy(l.id)
      <4>1. PICK k \in 1 .. Len(D) : D[k] = Destroy(l.id)
        BY <2>2, <3>6
      <4> QED
        BY <3>2, <4>1 DEF Joins
    <3> QED
      BY <3>1, <3>2, <3>4, <3>5, <3>6
  <2>7. CASE pc # "rollback"
    <3>1. D \o <<>> = D
      BY <2>2, ConcatEmptySeq
    <3>2. LetGo("stray", D)
      BY <2>4, <2>7, <3>1
    <3> QED
      BY <2>2, <2>3, <2>5, <2>7, <3>2
  <2> QED
    BY <2>6, <2>7
<1> QED
  BY <1>1, <1>2, <1>3

\* The drops make nothing and leave nothing out.
LEMMA DropsAreAll == NoCreates(DropReplacements) /\ DropsAll(DropReplacements)
BY DropsFacts, Messages DEF NoCreates, DropsAll

-----------------------------------------------------------------------------
(* Replacements without a route *)

\* A transition that drops every replacement leaves none that is not about to go.
LEMMA Dropping ==
  ASSUME NEW q, NEW X, Joins(requests', q, X), NoCreates(X), DropsAll(X)
  PROVE  DropInv'
<1> SUFFICES ASSUME NEW e \in Replacements
             PROVE  /\ \E m \in 1 .. Len(requests') : requests'[m] = Drop(e)
                    /\ \A k \in 1 .. Len(requests') :
                         requests'[k].type = "create" /\ requests'[k].ends = e =>
                           \E m \in k + 1 .. Len(requests') : requests'[m] = Drop(e)
  BY DEF DropInv
<1>1. PICK j \in 1 .. Len(X) : X[j] = Drop(e)
  BY DEF DropsAll
<1>2. /\ Len(q) + j \in 1 .. Len(requests') /\ requests'[Len(q) + j] = Drop(e)
      /\ Len(q) \in Nat /\ Len(X) \in Nat /\ Len(requests') = Len(q) + Len(X)
  BY <1>1 DEF Joins
<1>3. ASSUME NEW k \in 1 .. Len(requests'), requests'[k].type = "create"
      PROVE  \E m \in k + 1 .. Len(requests') : requests'[m] = Drop(e)
  <2>1. k \in 1 .. Len(q)
    BY <1>3 DEF Joins, NoCreates
  <2>2. Len(q) + j \in k + 1 .. Len(requests')
    BY <1>2, <2>1
  <2> QED
    BY <1>2, <2>2
<1> QED
  BY <1>2, <1>3

\* The server and others keep the drops ahead of what has to be dropped.
LEMMA DropKept ==
  ASSUME GraphInv, DropInv, Serve \/ Others
  PROVE  DropInv'
<1> SUFFICES ASSUME pc' = "idle", NEW e \in Replacements
             PROVE  /\ e \in Ends(links') => \E m \in 1 .. Len(requests') : requests'[m] = Drop(e)
                    /\ \A k \in 1 .. Len(requests') :
                         requests'[k].type = "create" /\ requests'[k].ends = e =>
                           \E m \in k + 1 .. Len(requests') : requests'[m] = Drop(e)
  BY DEF DropInv
<1>1. pc = "idle"
  BY ServeCases, OthersCases
<1>2. /\ e \in Ends(links) => \E m \in 1 .. Len(requests) : requests[m] = Drop(e)
      /\ \A k \in 1 .. Len(requests) : requests[k].type = "create" /\ requests[k].ends = e =>
           \E m \in k + 1 .. Len(requests) : requests[m] = Drop(e)
  BY <1>1 DEF DropInv
<1>3. CASE Others
  <2>1. requests' = requests
    BY <1>3, OthersCases
  <2>2. e \in Ends(links') => e \in Ends(links)
    <3>1. ASSUME NEW c \in Channels, NEW l, Made(l), l.ends = Direct(c)
          PROVE  e \in Ends(links') => e \in Ends(links)
      <4>1. e # Direct(c)
        BY Ranks DEF AllEnds, Directs
      <4> QED
        BY <3>1, <4>1 DEF Made, Ends
    <3>2. ASSUME NEW L, Lost(L) PROVE e \in Ends(links') => e \in Ends(links)
      BY <3>2 DEF Lost, Ends
    <3> QED
      BY <1>3, <3>1, <3>2, OthersCases
  <2> QED
    BY <1>2, <2>1, <2>2
<1>4. CASE Serve
  <2> DEFINE r == Head(requests)
  <2>1. requests # <<>> /\ requests' = Tail(requests) /\ r \in Requests /\ requests \in Seq(Requests)
    BY <1>4, ServeCases DEF GraphInv, TypeInv
  <2>2. /\ r = requests[1] /\ Len(requests) \in Nat /\ Len(requests') = Len(requests) - 1
        /\ 1 \in 1 .. Len(requests)
        /\ \A k \in 1 .. Len(requests') : k + 1 \in 1 .. Len(requests) /\ requests'[k] = requests[k + 1]
        /\ \A k \in 1 .. Len(requests) : k # 1 =>
             k - 1 \in 1 .. Len(requests') /\ requests'[k - 1] = requests[k]
    BY <2>1, Served
  <2>3. \/ r.type = "create" /\ UNCHANGED <<links, events, severed>>
        \/ r.type = "create" /\ \E l : Made(l) /\ l.ends = r.ends /\ l.mode = r.mode
        \/ r.type = "drop" /\ Lost({l \in links : l.ends = r.ends /\ l.mode = "held"})
        \/ r.type = "destroy" /\ Lost({l \in links : l.id = r.id})
    BY <1>4, ServeCases
  <2> HIDE DEF r
  <2>4. ASSUME NEW k \in 1 .. Len(requests'), requests'[k].type = "create", requests'[k].ends = e
        PROVE  \E m \in k + 1 .. Len(requests') : requests'[m] = Drop(e)
    <3>1. k + 1 \in 1 .. Len(requests) /\ requests'[k] = requests[k + 1]
      BY <2>2
    <3>2. PICK m \in k + 1 + 1 .. Len(requests) : requests[m] = Drop(e)
      BY <1>2, <2>4, <3>1
    <3>3. m \in 1 .. Len(requests) /\ m # 1 /\ m - 1 \in k + 1 .. Len(requests')
      BY <2>2, <3>1, <3>2
    <3> QED
      BY <2>2, <3>2, <3>3
  <2>5. ASSUME e \in Ends(links'), e \in Ends(links), r # Drop(e)
        PROVE  \E m \in 1 .. Len(requests') : requests'[m] = Drop(e)
    <3>1. PICK m \in 1 .. Len(requests) : requests[m] = Drop(e)
      BY <1>2, <2>5
    <3>2. m # 1
      BY <2>2, <2>5, <3>1
    <3> QED
      BY <2>2, <3>1, <3>2
  <2>6. ASSUME e \in Ends(links') PROVE \E m \in 1 .. Len(requests') : requests'[m] = Drop(e)
    <3>1. CASE r.type = "create" /\ UNCHANGED <<links, events, severed>>
      BY <2>5, <2>6, <3>1, Messages
    <3>2. CASE r.type = "create" /\ \E l : Made(l) /\ l.ends = r.ends /\ l.mode = r.mode
      <4>1. PICK l : Made(l) /\ l.ends = r.ends
        BY <3>2
      <4>2. CASE l.ends # e
        <5>1. e \in Ends(links)
          BY <2>6, <4>1, <4>2 DEF Made, Ends
        <5> QED
          BY <2>5, <2>6, <3>2, <5>1, Messages
      <4>3. CASE l.ends = e
        <5>1. PICK m \in 1 + 1 .. Len(requests) : requests[m] = Drop(e)
          BY <1>2, <2>2, <3>2, <4>1, <4>3
        <5>2. m \in 1 .. Len(requests) /\ m # 1
          BY <2>2, <5>1
        <5> QED
          BY <2>2, <5>1, <5>2
      <4> QED
        BY <4>2, <4>3
    <3>3. CASE r.type = "drop" /\ Lost({l \in links : l.ends = r.ends /\ l.mode = "held"})
      <4>1. PICK l \in links' : l.ends = e
        BY <2>6 DEF Ends
      <4>2. l \in links /\ ~(l.ends = r.ends /\ l.mode = "held")
        BY <3>3 DEF Lost
      <4>3. l.mode = "held"
        BY <4>1, <4>2 DEF GraphInv, ServerInv, Proper
      <4>4. e \in Ends(links) /\ r # Drop(e)
        BY <4>1, <4>2, <4>3, Messages DEF Ends
      <4> QED
        BY <2>5, <2>6, <4>4
    <3>4. CASE r.type = "destroy" /\ Lost({l \in links : l.id = r.id})
      <4>1. e \in Ends(links)
        BY <2>6, <3>4 DEF Lost, Ends
      <4> QED
        BY <2>5, <2>6, <3>4, <4>1, Messages
    <3> QED
      BY <2>3, <3>1, <3>2, <3>3, <3>4
  <2> QED
    BY <2>4, <2>6
<1> QED
  BY <1>3, <1>4

\* Every step keeps the drops ahead.
LEMMA DropStep == GraphInv /\ DropInv /\ [Next]_vars => DropInv'
<1> SUFFICES ASSUME GraphInv, DropInv, [Next]_vars PROVE DropInv'
  OBVIOUS
<1>1. CASE UNCHANGED vars
  BY <1>1 DEF DropInv, vars, server, queues, route
<1>2. CASE Serve \/ Others
  BY <1>2, DropKept
<1>3. CASE Deliver
  BY <1>3 DEF Deliver, DropInv, server, route
<1>4. ASSUME pc' # "idle" PROVE DropInv'
  BY <1>4 DEF DropInv
<1>5. ASSUME Sends(DropReplacements) PROVE DropInv'
  BY <1>5, DropsAreAll, Dropping DEF Sends
<1>6. ASSUME NEW m \in {"other", "stray"}, NEW X \in Seq(Requests), LetGo(m, X), NoCreates(X), DropsAll(X)
      PROVE  DropInv'
  <2>1. m \in Modes /\ m # "held" /\ m # "original"
    BY DEF Modes
  <2>2. Joins(requests', MarkedRequests({"linger"}, m), X)
    BY <1>6, <2>1, LettingGo
  <2> QED
    BY <1>6, <2>2, Dropping
<1>7. CASE StageFailed \/ Release
  BY <1>5, <1>7, SendCases
<1>8. CASE RemovalFailed
  BY <1>4, <1>5, <1>8, SendCases
<1>9. CASE RolledBack \/ Bypassed
  BY <1>6, <1>9, LetGoCases, DropsAreAll, DropsFacts
<1>10. CASE Unconfirmed
  <2>1. PICK X \in Seq(Requests) :
          LetGo("stray", X) /\ NoCreates(X) /\ (pc' = "idle" => DropsAll(X))
    BY <1>10, LetGoCases
  <2> QED
    BY <1>4, <1>6, <2>1
<1>11. CASE Stage \/ CutOver \/ Activate \/ NotActivated \/ Restore \/ NotDeactivated
  <2>1. pc' # "idle"
    BY <1>11 DEF Stage, CutOver, Activate, NotActivated, Restore, NotDeactivated, RestoreLinks
  <2> QED
    BY <1>4, <2>1
<1> QED
  BY <1>1, <1>2, <1>3, <1>7, <1>8, <1>9, <1>10, <1>11 DEF Next, Install, Leave

-----------------------------------------------------------------------------
(* The plan *)

\* A plan has every channel from its beginning to its end.
LEMMA PlanStep == GraphInv /\ PlanInv /\ [Next]_vars => PlanInv'
<1> SUFFICES ASSUME GraphInv, PlanInv, [Next]_vars PROVE PlanInv'
  OBVIOUS
<1>1. ASSUME plan' = plan, pc # "idle" \/ pc' = "idle" PROVE PlanInv'
  BY <1>1 DEF PlanInv
<1>2. CASE UNCHANGED vars \/ Serve \/ Others \/ Deliver
  <2>1. plan' = plan /\ pc' = pc
    BY <1>2, ServeCases, OthersCases, Delivered DEF vars, route
  <2> QED
    BY <2>1 DEF PlanInv
<1>3. CASE Stage
  BY <1>3 DEF Stage, PlanInv, Ends
<1>4. CASE Install /\ ~Stage
  BY <1>4 DEF Install, CutOver, StageFailed, Activate, NotActivated, RemovalFailed, RolledBack,
       RestoreLinks, PlanInv
<1>5. CASE Leave
  BY <1>5 DEF Leave, Restore, Bypassed, NotDeactivated, Unconfirmed, Release, RestoreLinks, PlanInv
<1> QED
  BY <1>2, <1>3, <1>4, <1>5 DEF Next

-----------------------------------------------------------------------------
(* What the mirror will have *)

\* The mirror will have a new link as well.
LEMMA MadeExpected ==
  ASSUME GraphInv, NEW l, Made(l), mirror' = mirror, NEW x \in Sights
  PROVE  Expected(x)' <=> Expected(x) \/ x = Seen(l)
<1>1. /\ Len(events) \in Nat /\ Len(events') \in Nat /\ Len(events) <= Len(events')
      /\ \A k \in 1 .. Len(events) : k \in 1 .. Len(events') /\ events'[k] = events[k]
  BY DEF Made, Longer
<1>2. \A k \in 1 .. Len(events') : k \notin 1 .. Len(events) =>
        (events'[k].type = "added" /\ events'[k].link = Seen(l)) \/ events'[k].type = "bound"
  BY <1>1, Messages DEF Made
<1>3. \A k \in 1 .. Len(events') : \A i : Removes(k, i)' <=> k \in 1 .. Len(events) /\ Removes(k, i)
  BY <1>1, <1>2 DEF Removes
<1>4. \A k \in 1 .. Len(events') :
        Adds(k, x)' => (k \in 1 .. Len(events) /\ Adds(k, x)) \/ x = Seen(l)
  BY <1>1, <1>2 DEF Adds
<1>5. \A k \in 1 .. Len(events) : Adds(k, x)' <=> Adds(k, x)
  BY <1>1 DEF Adds
<1>6. PICK n \in 1 .. Len(events') : n > Len(events) /\ Adds(n, Seen(l))'
  BY <1>1, Messages DEF Made, Adds
<1>7. ASSUME Expected(x)' PROVE Expected(x) \/ x = Seen(l)
  <2>1. CASE x \in mirror /\ \A k \in 1 .. Len(events') : ~Removes(k, x.id)'
    BY <1>1, <1>3, <2>1 DEF Expected
  <2>2. CASE \E k \in 1 .. Len(events') :
               Adds(k, x)' /\ \A j \in k + 1 .. Len(events') : ~Removes(j, x.id)'
    <3>1. PICK k \in 1 .. Len(events') :
            Adds(k, x)' /\ \A j \in k + 1 .. Len(events') : ~Removes(j, x.id)'
      BY <2>2
    <3>2. CASE k \in 1 .. Len(events) /\ Adds(k, x)
      <4>1. \A j \in k + 1 .. Len(events) : ~Removes(j, x.id)
        <5> SUFFICES ASSUME NEW j \in k + 1 .. Len(events) PROVE ~Removes(j, x.id)
          OBVIOUS
        <5>1. j \in 1 .. Len(events) /\ j \in 1 .. Len(events') /\ j \in k + 1 .. Len(events')
          BY <1>1
        <5> QED
          BY <1>3, <3>1, <5>1
      <4> QED
        BY <3>2, <4>1 DEF Expected
    <3> QED
      BY <1>4, <3>1, <3>2
  <2> QED
    BY <1>7, <2>1, <2>2 DEF Expected
<1>8. ASSUME x = Seen(l) PROVE Expected(x)'
  <2>1. \A j \in n + 1 .. Len(events') : ~Removes(j, x.id)'
    <3> SUFFICES ASSUME NEW j \in n + 1 .. Len(events') PROVE ~Removes(j, x.id)'
      OBVIOUS
    <3>1. j \in 1 .. Len(events') /\ j \notin 1 .. Len(events)
      BY <1>1, <1>6
    <3> QED
      BY <1>3, <3>1
  <2> QED
    BY <1>6, <1>8, <2>1 DEF Expected
<1>9. ASSUME Expected(x) PROVE Expected(x)'
  <2>1. CASE x \in mirror /\ \A k \in 1 .. Len(events) : ~Removes(k, x.id)
    BY <1>3, <2>1 DEF Expected
  <2>2. CASE \E k \in 1 .. Len(events) :
               Adds(k, x) /\ \A j \in k + 1 .. Len(events) : ~Removes(j, x.id)
    <3>1. PICK k \in 1 .. Len(events) :
            Adds(k, x) /\ \A j \in k + 1 .. Len(events) : ~Removes(j, x.id)
      BY <2>2
    <3>2. ASSUME NEW j \in k + 1 .. Len(events') PROVE ~Removes(j, x.id)'
      <4>1. j \in 1 .. Len(events')
        BY <1>1
      <4>2. j \in 1 .. Len(events) => j \in k + 1 .. Len(events)
        BY <1>1
      <4> QED
        BY <1>3, <3>1, <4>1, <4>2
    <3>3. k \in 1 .. Len(events') /\ Adds(k, x)'
      BY <1>1, <1>5, <3>1
    <3> QED
      BY <3>2, <3>3 DEF Expected
  <2> QED
    BY <1>9, <2>1, <2>2 DEF Expected
<1> QED
  BY <1>7, <1>8, <1>9

\* And not the links that have gone.
LEMMA LostExpected ==
  ASSUME GraphInv, NEW L, Lost(L), mirror' = mirror, NEW x \in Sights
  PROVE  Expected(x)' <=> Expected(x) /\ \A l \in L : l.id # x.id
<1>1. /\ Len(events) \in Nat /\ Len(events') \in Nat /\ Len(events) <= Len(events')
      /\ \A k \in 1 .. Len(events) : k \in 1 .. Len(events') /\ events'[k] = events[k]
  BY DEF Lost, Longer
<1>2. \A k \in 1 .. Len(events') : k \notin 1 .. Len(events) =>
        events'[k].type = "removed" /\ \E l \in L : events'[k].id = l.id
  BY <1>1, Messages DEF Lost
<1>3. /\ \A k \in 1 .. Len(events) : \A i : Removes(k, i)' <=> Removes(k, i)
      /\ \A k \in 1 .. Len(events') : k \notin 1 .. Len(events) =>
           \A i : Removes(k, i)' => \E l \in L : l.id = i
  BY <1>1, <1>2 DEF Removes
<1>4. \A k \in 1 .. Len(events') : Adds(k, x)' <=> k \in 1 .. Len(events) /\ Adds(k, x)
  BY <1>1, <1>2 DEF Adds
<1>5. \A l \in L : \E k \in 1 .. Len(events') : k > Len(events) /\ Removes(k, l.id)'
  BY Messages DEF Lost, Removes
<1>6. ASSUME Expected(x)' PROVE Expected(x) /\ \A l \in L : l.id # x.id
  <2>1. CASE x \in mirror /\ \A k \in 1 .. Len(events') : ~Removes(k, x.id)'
    <3>1. Expected(x)
      BY <1>1, <1>3, <2>1 DEF Expected
    <3>2. \A l \in L : l.id # x.id
      BY <1>5, <2>1
    <3> QED
      BY <3>1, <3>2
  <2>2. CASE \E k \in 1 .. Len(events') :
               Adds(k, x)' /\ \A j \in k + 1 .. Len(events') : ~Removes(j, x.id)'
    <3>1. PICK k \in 1 .. Len(events') :
            Adds(k, x)' /\ \A j \in k + 1 .. Len(events') : ~Removes(j, x.id)'
      BY <2>2
    <3>2. k \in 1 .. Len(events) /\ Adds(k, x)
      BY <1>4, <3>1
    <3>3. \A j \in k + 1 .. Len(events) : ~Removes(j, x.id)
      <4> SUFFICES ASSUME NEW j \in k + 1 .. Len(events) PROVE ~Removes(j, x.id)
        OBVIOUS
      <4>1. j \in 1 .. Len(events) /\ j \in k + 1 .. Len(events')
        BY <1>1, <3>2
      <4> QED
        BY <1>3, <3>1, <4>1
    <3>4. ASSUME NEW l \in L, l.id = x.id PROVE FALSE
      <4>1. PICK j \in 1 .. Len(events') : j > Len(events) /\ Removes(j, l.id)'
        BY <1>5
      <4>2. j \in k + 1 .. Len(events')
        BY <1>1, <3>2, <4>1
      <4> QED
        BY <3>1, <3>4, <4>1, <4>2
    <3> QED
      BY <3>2, <3>3, <3>4 DEF Expected
  <2> QED
    BY <1>6, <2>1, <2>2 DEF Expected
<1>7. ASSUME Expected(x), \A l \in L : l.id # x.id PROVE Expected(x)'
  <2>1. \A k \in 1 .. Len(events') : Removes(k, x.id)' => k \in 1 .. Len(events) /\ Removes(k, x.id)
    BY <1>3, <1>7
  <2>2. CASE x \in mirror /\ \A k \in 1 .. Len(events) : ~Removes(k, x.id)
    BY <2>1, <2>2 DEF Expected
  <2>3. CASE \E k \in 1 .. Len(events) :
               Adds(k, x) /\ \A j \in k + 1 .. Len(events) : ~Removes(j, x.id)
    <3>1. PICK k \in 1 .. Len(events) :
            Adds(k, x) /\ \A j \in k + 1 .. Len(events) : ~Removes(j, x.id)
      BY <2>3
    <3>2. k \in 1 .. Len(events') /\ Adds(k, x)'
      BY <1>1, <1>4, <3>1
    <3>3. ASSUME NEW j \in k + 1 .. Len(events') PROVE ~Removes(j, x.id)'
      <4>1. j \in 1 .. Len(events')
        BY <1>1
      <4>2. j \in 1 .. Len(events) => j \in k + 1 .. Len(events)
        BY <1>1
      <4> QED
        BY <2>1, <3>1, <4>1, <4>2
    <3> QED
      BY <3>2, <3>3 DEF Expected
  <2> QED
    BY <1>7, <2>2, <2>3 DEF Expected
<1> QED
  BY <1>6, <1>7

\* Handling an event changes nothing about it.
LEMMA DeliverExpected ==
  ASSUME GraphInv, Deliver, NEW x \in Sights
  PROVE  Expected(x)' <=> Expected(x)
<1>1. /\ Len(events) \in Nat /\ Len(events') = Len(events) - 1 /\ 1 \in 1 .. Len(events)
      /\ events[1] \in Events
      /\ \A k \in 1 .. Len(events') : k + 1 \in 1 .. Len(events) /\ events'[k] = events[k + 1]
      /\ \A k \in 1 .. Len(events) : k # 1 =>
           k - 1 \in 1 .. Len(events') /\ events'[k - 1] = events[k]
  <2>1. events # <<>> /\ events' = Tail(events) /\ events \in Seq(Events)
    BY Delivered DEF GraphInv, TypeInv
  <2> QED
    BY <2>1, Delivered, Served
<1>2. /\ \A k \in 1 .. Len(events') : \A i : Removes(k, i)' <=> Removes(k + 1, i)
      /\ \A k \in 1 .. Len(events') : Adds(k, x)' <=> Adds(k + 1, x)
  BY <1>1 DEF Removes, Adds
<1>3. /\ \A k \in 1 .. Len(events) : k # 1 => \A i : Removes(k - 1, i)' <=> Removes(k, i)
      /\ \A k \in 1 .. Len(events) : k # 1 => (Adds(k - 1, x)' <=> Adds(k, x))
  BY <1>1 DEF Removes, Adds
<1>4. x \in mirror' <=> (Adds(1, x) \/ (x \in mirror /\ ~Removes(1, x.id)))
  <2>1. mirror' = CASE events[1].type = "added"   -> mirror \cup {events[1].link}
                    [] events[1].type = "removed" -> {l \in mirror : l.id # events[1].id}
                    [] OTHER                      -> mirror
    BY Delivered
  <2>2. CASE events[1].type = "added"
    BY <2>1, <2>2 DEF Adds, Removes
  <2>3. CASE events[1].type = "removed"
    BY <2>1, <2>3 DEF Adds, Removes
  <2>4. CASE events[1].type # "added" /\ events[1].type # "removed"
    BY <2>1, <2>4 DEF Adds, Removes
  <2> QED
    BY <2>2, <2>3, <2>4
<1>5. ~(Adds(1, x) /\ Removes(1, x.id))
  BY DEF Adds, Removes
<1>6. ASSUME NEW k \in Nat, k # 0, \A j \in k + 1 .. Len(events) : ~Removes(j, x.id)
      PROVE  \A j \in k .. Len(events') : ~Removes(j, x.id)'
  <2> SUFFICES ASSUME NEW j \in k .. Len(events') PROVE ~Removes(j, x.id)'
    OBVIOUS
  <2>1. j \in 1 .. Len(events') /\ j + 1 \in k + 1 .. Len(events)
    BY <1>1, <1>6
  <2> QED
    BY <1>2, <1>6, <2>1
<1>7. ASSUME NEW k \in Nat, k # 0, \A j \in k .. Len(events') : ~Removes(j, x.id)'
      PROVE  \A j \in k + 1 .. Len(events) : ~Removes(j, x.id)
  <2> SUFFICES ASSUME NEW j \in k + 1 .. Len(events) PROVE ~Removes(j, x.id)
    OBVIOUS
  <2>1. j \in 1 .. Len(events) /\ j # 1 /\ j - 1 \in k .. Len(events')
    BY <1>1, <1>7
  <2> QED
    BY <1>3, <1>7, <2>1
<1>8. ASSUME Expected(x) PROVE Expected(x)'
  <2>1. CASE x \in mirror /\ \A k \in 1 .. Len(events) : ~Removes(k, x.id)
    <3>1. x \in mirror'
      BY <1>1, <1>4, <2>1
    <3>2. \A j \in 1 + 1 .. Len(events) : ~Removes(j, x.id)
      BY <1>1, <2>1
    <3>3. \A j \in 1 .. Len(events') : ~Removes(j, x.id)'
      BY <1>6, <3>2
    <3> QED
      BY <3>1, <3>3 DEF Expected
  <2>2. CASE \E k \in 1 .. Len(events) :
               Adds(k, x) /\ \A j \in k + 1 .. Len(events) : ~Removes(j, x.id)
    <3>1. PICK k \in 1 .. Len(events) :
            Adds(k, x) /\ \A j \in k + 1 .. Len(events) : ~Removes(j, x.id)
      BY <2>2
    <3>2. \A j \in k .. Len(events') : ~Removes(j, x.id)'
      BY <1>6, <3>1
    <3>3. CASE k = 1
      <4>1. x \in mirror' /\ \A j \in 1 .. Len(events') : ~Removes(j, x.id)'
        BY <1>4, <3>1, <3>2, <3>3
      <4> QED
        BY <4>1 DEF Expected
    <3>4. CASE k # 1
      <4>1. k - 1 \in 1 .. Len(events') /\ Adds(k - 1, x)' /\ k - 1 + 1 = k
        BY <1>1, <1>3, <3>1, <3>4
      <4>2. \A j \in k - 1 + 1 .. Len(events') : ~Removes(j, x.id)'
        BY <3>2, <4>1
      <4> QED
        BY <4>1, <4>2 DEF Expected
    <3> QED
      BY <3>3, <3>4
  <2> QED
    BY <1>8, <2>1, <2>2 DEF Expected
<1>9. ASSUME Expected(x)' PROVE Expected(x)
  <2>1. CASE x \in mirror' /\ \A k \in 1 .. Len(events') : ~Removes(k, x.id)'
    <3>1. \A j \in 1 + 1 .. Len(events) : ~Removes(j, x.id)
      BY <1>7, <2>1
    <3>2. CASE Adds(1, x)
      BY <1>1, <3>1, <3>2 DEF Expected
    <3>3. CASE x \in mirror /\ ~Removes(1, x.id)
      <4>1. \A j \in 1 .. Len(events) : j = 1 \/ j \in 1 + 1 .. Len(events)
        BY <1>1
      <4>2. \A j \in 1 .. Len(events) : ~Removes(j, x.id)
        BY <3>1, <3>3, <4>1
      <4> QED
        BY <3>3, <4>2 DEF Expected
    <3> QED
      BY <1>4, <2>1, <3>2, <3>3
  <2>2. CASE \E k \in 1 .. Len(events') :
               Adds(k, x)' /\ \A j \in k + 1 .. Len(events') : ~Removes(j, x.id)'
    <3>1. PICK k \in 1 .. Len(events') :
            Adds(k, x)' /\ \A j \in k + 1 .. Len(events') : ~Removes(j, x.id)'
      BY <2>2
    <3>2. k + 1 \in 1 .. Len(events) /\ k + 1 \in Nat /\ k + 1 # 0
      BY <1>1
    <3>3. Adds(k + 1, x)
      BY <1>2, <3>1
    <3>4. \A j \in k + 1 + 1 .. Len(events) : ~Removes(j, x.id)
      BY <1>7, <3>1, <3>2
    <3> QED
      BY <3>2, <3>3, <3>4 DEF Expected
  <2> QED
    BY <1>9, <2>1, <2>2 DEF Expected
<1> QED
  BY <1>8, <1>9

\* Nor does what leaves announcements and removals as they are.
LEMMA SameExpected ==
  ASSUME mirror' = mirror, Len(events') = Len(events),
         \A k \in 1 .. Len(events) :
           events'[k] = events[k] \/ (events[k].type = "bound" /\ events'[k].type = "lost"),
         NEW x
  PROVE  Expected(x)' <=> Expected(x)
<1>1. \A k \in 1 .. Len(events) : (Removes(k, x.id)' <=> Removes(k, x.id)) /\ (Adds(k, x)' <=> Adds(k, x))
  BY DEF Removes, Adds
<1>2. \A k \in 1 .. Len(events) : \A j \in k + 1 .. Len(events) : j \in 1 .. Len(events)
  OBVIOUS
<1>3. x \in mirror' <=> x \in mirror
  OBVIOUS
<1>4. 1 .. Len(events') = 1 .. Len(events) /\ \A k : k + 1 .. Len(events') = k + 1 .. Len(events)
  OBVIOUS
<1> QED
  BY <1>1, <1>2, <1>3, <1>4 DEF Expected

\* The steps of the server and of others, by what happens to the links.
LEMMA WorldCases ==
  ASSUME GraphInv, Serve \/ Others
  PROVE  /\ UNCHANGED <<mirror, bound, pc, plan, wanted, late, failed>>
         /\ \/ \E l : Made(l) /\ l.mode # "original"
            \/ \E L : Lost(L)
            \/ UNCHANGED <<links, events>>
<1>1. CASE Serve
  <2> DEFINE r == Head(requests)
  <2>1. r.type = "create" => r.mode # "original"
    <3>1. requests # <<>> /\ requests \in Seq(Requests)
      BY <1>1, ServeCases DEF GraphInv, TypeInv
    <3>2. r = requests[1] /\ 1 \in 1 .. Len(requests)
      BY <3>1, Served
    <3> QED
      BY <3>2 DEF GraphInv, ServerInv, ProperRequest
  <2>2. /\ UNCHANGED <<mirror, bound, pc, plan, wanted, late, failed>>
        /\ \/ r.type = "create" /\ UNCHANGED <<links, events>>
           \/ r.type = "create" /\ \E l : Made(l) /\ l.ends = r.ends /\ l.mode = r.mode
           \/ Lost({l \in links : l.ends = r.ends /\ l.mode = "held"})
           \/ Lost({l \in links : l.id = r.id})
    BY <1>1, ServeCases
  <2> HIDE DEF r
  <2> QED
    BY <2>1, <2>2
<1>2. CASE Others
  <2>1. /\ UNCHANGED <<mirror, bound, pc, plan, wanted, late, failed>>
        /\ \/ \E c \in Channels : \E l : Made(l) /\ l.ends = Direct(c) /\ l.mode = "other"
           \/ \E L : Lost(L)
           \/ UNCHANGED <<links, events>>
    BY <1>2, OthersCases
  <2> QED
    BY <2>1
<1> QED
  BY <1>1, <1>2

\* A step of the daemon moves no link and changes no announcement.
LEMMA DaemonCases ==
  ASSUME GraphInv, Install \/ Leave
  PROVE  /\ mirror' = mirror /\ Len(events') = Len(events)
         /\ \A k \in 1 .. Len(events) :
              events'[k] = events[k] \/ (events[k].type = "bound" /\ events'[k].type = "lost")
         /\ \A l \in links' : \E k \in links : Seen(l) = Seen(k)
         /\ \A k \in links : \E l \in links' : Seen(l) = Seen(k)
<1>1. ASSUME UNCHANGED <<links, events, mirror>>
      PROVE  /\ mirror' = mirror /\ Len(events') = Len(events)
             /\ \A k \in 1 .. Len(events) :
                  events'[k] = events[k] \/ (events[k].type = "bound" /\ events'[k].type = "lost")
             /\ \A l \in links' : \E k \in links : Seen(l) = Seen(k)
             /\ \A k \in links : \E l \in links' : Seen(l) = Seen(k)
  BY <1>1
<1>2. ASSUME NEW m \in {"other", "stray"}, NEW X \in Seq(Requests), LetGo(m, X), mirror' = mirror
      PROVE  /\ mirror' = mirror /\ Len(events') = Len(events)
             /\ \A k \in 1 .. Len(events) :
                  events'[k] = events[k] \/ (events[k].type = "bound" /\ events'[k].type = "lost")
             /\ \A l \in links' : \E k \in links : Seen(l) = Seen(k)
             /\ \A k \in links : \E l \in links' : Seen(l) = Seen(k)
  <2>1. m \in Modes /\ m # "held" /\ m # "original" /\ "held" \notin {"linger"}
    BY DEF Modes
  <2>2. /\ links' = MarkedLinks({"linger"}, m) /\ Len(events') = Len(events)
        /\ \A k \in 1 .. Len(events) :
             events'[k] = events[k] \/ (events[k].type = "bound" /\ events'[k].type = "lost")
    BY <1>2, <2>1, LettingGo
  <2>3. /\ \A l \in links' : \E k \in links : Seen(l) = Seen(k)
        /\ \A k \in links : \E l \in links' : Seen(l) = Seen(k)
    BY <2>1, <2>2, MarkedSame
  <2> QED
    BY <1>2, <2>2, <2>3
<1>3. CASE Stage
  <2>1. UNCHANGED <<events, mirror>>
    BY <1>3 DEF Stage
  <2> DEFINE M == MarkedLinks({"original", "stray"}, "other")
  <2>2. links' = {IF Seen(l) \in plan' THEN [l EXCEPT !.mode = "original"] ELSE l : l \in M}
    BY <1>3 DEF Stage
  <2>3. /\ \A l \in M : IsLink(l) /\ \E k \in links : Seen(l) = Seen(k)
        /\ \A k \in links : \E l \in M : Seen(l) = Seen(k)
    BY MarkedSame DEF Modes
  <2> HIDE DEF M
  <2>4. \A l \in M : Seen([l EXCEPT !.mode = "original"]) = Seen(l)
    BY <2>3 DEF IsLink, Seen
  <2>5. \A l \in links' : \E k \in links : Seen(l) = Seen(k)
    BY <2>2, <2>3, <2>4
  <2>6. ASSUME NEW k \in links PROVE \E l \in links' : Seen(l) = Seen(k)
    <3>1. PICK l \in M : Seen(l) = Seen(k)
      BY <2>3
    <3> DEFINE n == IF Seen(l) \in plan' THEN [l EXCEPT !.mode = "original"] ELSE l
    <3>2. n \in links'
      BY <2>2
    <3>3. Seen(n) = Seen(k)
      BY <2>4, <3>1
    <3> QED
      BY <3>2, <3>3
  <2> QED
    BY <2>1, <2>5, <2>6
<1>4. CASE CutOver \/ StageFailed \/ Release \/ NotActivated \/ Restore \/ RemovalFailed \/ Activate
  <2>1. UNCHANGED <<links, events, mirror>>
    BY <1>4, SendCases DEF Sends
  <2> QED
    BY <1>1, <2>1
<1>5. CASE RolledBack \/ Bypassed \/ NotDeactivated
  <2>1. mirror' = mirror /\ \E X \in Seq(Requests) : LetGo("other", X)
    BY <1>5, LetGoCases, DropsFacts
  <2> QED
    BY <1>2, <2>1
<1>6. CASE Unconfirmed
  <2>1. mirror' = mirror /\ \E X \in Seq(Requests) : LetGo("stray", X)
    BY <1>6, LetGoCases DEF Unconfirmed
  <2> QED
    BY <1>2, <2>1
<1> QED
  BY <1>3, <1>4, <1>5, <1>6 DEF Install, Leave

\* The mirror stays on its way to the server's links.
LEMMA FollowStep == GraphInv /\ FollowInv /\ [Next]_vars => FollowInv'
<1> SUFFICES ASSUME GraphInv, FollowInv, [Next]_vars PROVE FollowInv'
  OBVIOUS
<1> SUFFICES ASSUME NEW x \in Sights
             PROVE  (\E l \in links' : Seen(l) = x) <=> Expected(x)'
  BY DEF FollowInv
<1>1. (\E l \in links : Seen(l) = x) <=> Expected(x)
  BY DEF FollowInv
<1>2. \A l \in links : Seen(l).id = l.id
  BY LinkFacts DEF GraphInv
<1>3. ASSUME NEW l, Made(l), mirror' = mirror
      PROVE  (\E m \in links' : Seen(m) = x) <=> Expected(x)'
  <2>1. Expected(x)' <=> Expected(x) \/ x = Seen(l)
    BY <1>3, MadeExpected
  <2>2. links' = links \cup {l}
    BY <1>3 DEF Made
  <2> QED
    BY <1>1, <2>1, <2>2
<1>4. ASSUME NEW L, Lost(L), mirror' = mirror
      PROVE  (\E m \in links' : Seen(m) = x) <=> Expected(x)'
  <2>1. Expected(x)' <=> Expected(x) /\ \A l \in L : l.id # x.id
    BY <1>4, LostExpected
  <2>2. links' = links \ L /\ L \subseteq links
    BY <1>4 DEF Lost
  <2>3. \A m \in links, l \in L : Seen(m) = x /\ l.id = x.id => m = l
    BY <1>2, <2>2 DEF GraphInv, ServerInv, Proper
  <2> QED
    BY <1>1, <1>2, <2>1, <2>2, <2>3
<1>5. CASE Serve \/ Others
  <2>1. /\ mirror' = mirror
        /\ \/ \E l : Made(l) /\ l.mode # "original"
           \/ \E L : Lost(L)
           \/ UNCHANGED <<links, events>>
    BY <1>5, WorldCases
  <2>2. CASE UNCHANGED <<links, events>>
    <3>1. Expected(x)' <=> Expected(x)
      BY <2>1, <2>2, SameExpected
    <3> QED
      BY <1>1, <2>2, <3>1
  <2> QED
    BY <1>3, <1>4, <2>1, <2>2
<1>6. CASE Deliver
  <2>1. links' = links
    BY <1>6, Delivered
  <2> QED
    BY <1>1, <1>6, <2>1, DeliverExpected
<1>7. CASE Install \/ Leave
  <2>1. Expected(x)' <=> Expected(x)
    BY <1>7, DaemonCases, SameExpected
  <2>2. /\ \A l \in links' : \E k \in links : Seen(l) = Seen(k)
        /\ \A k \in links : \E l \in links' : Seen(l) = Seen(k)
    BY <1>7, DaemonCases
  <2> QED
    BY <1>1, <2>1, <2>2
<1>8. CASE UNCHANGED vars
  <2>1. UNCHANGED <<mirror, events, links>>
    BY <1>8 DEF vars, server, queues
  <2>2. Expected(x)' <=> Expected(x)
    BY <2>1, SameExpected
  <2> QED
    BY <1>1, <2>1, <2>2
<1> QED
  BY <1>5, <1>6, <1>7, <1>8 DEF Next

\* When nothing is under way, the mirror has what the server has.
LEMMA MirrorExact ==
  ASSUME GraphInv, FollowInv, Drained
  PROVE  /\ \A l \in links : Seen(l) \in mirror
         /\ \A x \in mirror : \E l \in links : Seen(l) = x
<1>1. 1 .. Len(events) = {}
  BY DEF Drained
<1>2. \A x \in Sights : Expected(x) <=> x \in mirror
  BY <1>1 DEF Expected
<1>3. mirror \subseteq Sights /\ \A l \in links : Seen(l) \in Sights
  BY LinkFacts DEF GraphInv, TypeInv
<1> QED
  BY <1>2, <1>3 DEF FollowInv

-----------------------------------------------------------------------------
(* Originals before the cutover *)

\* What Stage makes of the links.
LEMMA StageLinks ==
  ASSUME GraphInv, Stage
  PROVE  \A l \in links' : \E k \in links :
           /\ l.id = k.id /\ l.ends = k.ends /\ Seen(l) = Seen(k)
           /\ l.mode = IF Seen(k) \in plan' THEN "original"
                       ELSE IF k.mode \in {"original", "stray"} THEN "other" ELSE k.mode
<1> DEFINE M == MarkedLinks({"original", "stray"}, "other")
<1>1. links' = {IF Seen(l) \in plan' THEN [l EXCEPT !.mode = "original"] ELSE l : l \in M}
  BY DEF Stage
<1>2. /\ \A l \in M : IsLink(l)
      /\ \A l \in M : \E k \in links :
           /\ l.id = k.id /\ l.ends = k.ends /\ Seen(l) = Seen(k)
           /\ l.mode = IF k.mode \in {"original", "stray"} THEN "other" ELSE k.mode
  BY MarkedSame DEF Modes
<1> HIDE DEF M
<1> SUFFICES ASSUME NEW l \in links'
             PROVE  \E k \in links :
                      /\ l.id = k.id /\ l.ends = k.ends /\ Seen(l) = Seen(k)
                      /\ l.mode = IF Seen(k) \in plan' THEN "original"
                                  ELSE IF k.mode \in {"original", "stray"} THEN "other" ELSE k.mode
  OBVIOUS
<1>3. PICK n \in M : l = IF Seen(n) \in plan' THEN [n EXCEPT !.mode = "original"] ELSE n
  BY <1>1
<1>4. PICK k \in links :
        /\ n.id = k.id /\ n.ends = k.ends /\ Seen(n) = Seen(k)
        /\ n.mode = IF k.mode \in {"original", "stray"} THEN "other" ELSE k.mode
  BY <1>2
<1>5. n = [id |-> n.id, ends |-> n.ends, mode |-> n.mode]
  BY <1>2 DEF IsLink
<1>6. l.id = n.id /\ l.ends = n.ends /\ l.mode = IF Seen(n) \in plan' THEN "original" ELSE n.mode
  BY <1>3, <1>5
<1>7. Seen(l) = Seen(n)
  BY <1>6 DEF Seen
<1> QED
  BY <1>4, <1>6, <1>7

\* Nothing happens behind the mirror's back to an original that is still there.
LEMMA OriginalStep == GraphInv /\ FollowInv /\ OriginalInv /\ [Next]_vars => OriginalInv'
<1> SUFFICES ASSUME GraphInv, FollowInv, OriginalInv, [Next]_vars,
                    ~late', pc' \in {"stage", "remove"}, NEW l \in links', l.mode = "original"
             PROVE  /\ Seen(l) \in plan' /\ Seen(l) \in mirror'
                    /\ \A x \in mirror' : x.ends = l.ends => x = Seen(l)
                    /\ \A k \in 1 .. Len(events') : ~Removes(k, l.id)' /\ ~Shows(k, l.ends)'
  BY DEF OriginalInv
<1> DEFINE Kept == /\ Seen(l) \in plan /\ Seen(l) \in mirror
                   /\ \A x \in mirror : x.ends = l.ends => x = Seen(l)
                   /\ \A k \in 1 .. Len(events) : ~Removes(k, l.id) /\ ~Shows(k, l.ends)
<1> DEFINE Goal == /\ Seen(l) \in plan' /\ Seen(l) \in mirror'
                   /\ \A x \in mirror' : x.ends = l.ends => x = Seen(l)
                   /\ \A k \in 1 .. Len(events') : ~Removes(k, l.id)' /\ ~Shows(k, l.ends)'
<1>1. ASSUME ~late, pc \in {"stage", "remove"}, l \in links PROVE Kept
  BY <1>1 DEF OriginalInv
<1>2. ASSUME UNCHANGED <<mirror, events, plan>>, Kept PROVE Goal
  BY <1>2 DEF Removes, Shows
<1>3. CASE UNCHANGED vars
  <2>1. UNCHANGED <<mirror, events, plan, late, pc, links>>
    BY <1>3 DEF vars, server, queues, route
  <2> QED
    BY <1>1, <1>2, <2>1
<1>4. CASE Serve \/ Others
  <2>1. /\ UNCHANGED <<mirror, plan, late, pc>>
        /\ \/ \E m : Made(m) /\ m.mode # "original"
           \/ \E L : Lost(L)
           \/ UNCHANGED <<links, events>>
    BY <1>4, WorldCases
  <2>2. CASE \E m : Made(m) /\ m.mode # "original"
    <3>1. PICK m : Made(m) /\ m.mode # "original"
      BY <2>2
    <3>2. l \in links /\ m.ends # l.ends /\ Kept
      BY <1>1, <2>1, <3>1 DEF Made
    <3>3. \A k \in 1 .. Len(events') : ~Removes(k, l.id)' /\ ~Shows(k, l.ends)'
      <4> SUFFICES ASSUME NEW k \in 1 .. Len(events') PROVE ~Removes(k, l.id)' /\ ~Shows(k, l.ends)'
        OBVIOUS
      <4>1. CASE k \in 1 .. Len(events)
        <5>1. events'[k] = events[k]
          BY <3>1, <4>1 DEF Made, Longer
        <5> QED
          BY <3>2, <4>1, <5>1 DEF Removes, Shows
      <4>2. CASE k \notin 1 .. Len(events)
        <5>1. events'[k] = Announced(m) \/ events'[k] = Bound(m)
          BY <3>1, <4>2 DEF Made, Longer
        <5> QED
          BY <3>2, <5>1, Messages DEF Removes, Shows
      <4> QED
        BY <4>1, <4>2
    <3> QED
      BY <2>1, <3>2, <3>3
  <2>3. CASE \E L : Lost(L)
    <3>1. PICK L : Lost(L)
      BY <2>3
    <3>2. l \in links /\ l \notin L /\ Kept
      BY <1>1, <2>1, <3>1 DEF Lost
    <3>3. \A m \in L : m.id # l.id
      BY <3>1, <3>2 DEF Lost, GraphInv, ServerInv, Proper
    <3>4. \A k \in 1 .. Len(events') : ~Removes(k, l.id)' /\ ~Shows(k, l.ends)'
      <4> SUFFICES ASSUME NEW k \in 1 .. Len(events') PROVE ~Removes(k, l.id)' /\ ~Shows(k, l.ends)'
        OBVIOUS
      <4>1. CASE k \in 1 .. Len(events)
        <5>1. events'[k] = events[k]
          BY <3>1, <4>1 DEF Lost, Longer
        <5> QED
          BY <3>2, <4>1, <5>1 DEF Removes, Shows
      <4>2. CASE k \notin 1 .. Len(events)
        <5>1. \E m \in L : events'[k] = Gone(m.id)
          BY <3>1, <4>2 DEF Lost, Longer
        <5> QED
          BY <3>3, <5>1, Messages DEF Removes, Shows
      <4> QED
        BY <4>1, <4>2
    <3> QED
      BY <2>1, <3>2, <3>4
  <2> QED
    BY <1>1, <1>2, <2>1, <2>2, <2>3
<1>5. CASE Deliver
  <2>1. /\ UNCHANGED <<links, plan, late, pc>> /\ 1 \in 1 .. Len(events)
        /\ \A k \in 1 .. Len(events') : k + 1 \in 1 .. Len(events) /\ events'[k] = events[k + 1]
        /\ mirror' = CASE events[1].type = "added"   -> mirror \cup {events[1].link}
                       [] events[1].type = "removed" -> {x \in mirror : x.id # events[1].id}
                       [] OTHER                      -> mirror
    BY <1>5, Delivered
  <2>2. Kept
    BY <1>1, <2>1
  <2>3. Seen(l).id = l.id
    BY Messages
  <2>4. ~Removes(1, l.id) /\ ~Shows(1, l.ends)
    BY <2>1, <2>2
  <2>5. Seen(l) \in mirror' /\ \A x \in mirror' : x.ends = l.ends => x = Seen(l)
    <3>1. CASE events[1].type = "added"
      BY <2>1, <2>2, <2>4, <3>1 DEF Shows
    <3>2. CASE events[1].type = "removed"
      BY <2>1, <2>2, <2>3, <2>4, <3>2 DEF Removes
    <3>3. CASE events[1].type # "added" /\ events[1].type # "removed"
      BY <2>1, <2>2, <3>3
    <3> QED
      BY <3>1, <3>2, <3>3
  <2>6. \A k \in 1 .. Len(events') : ~Removes(k, l.id)' /\ ~Shows(k, l.ends)'
    BY <2>1, <2>2 DEF Removes, Shows
  <2> QED
    BY <2>1, <2>2, <2>5, <2>6
<1>6. CASE Stage
  <2>1. Drained
    BY <1>6 DEF Stage
  <2>2. plan' = {x \in mirror : x.ends \in Directs(Channels)} /\ UNCHANGED <<mirror, events>>
    BY <1>6 DEF Stage
  <2>3. PICK k \in links :
          /\ l.id = k.id /\ l.ends = k.ends /\ Seen(l) = Seen(k)
          /\ l.mode = IF Seen(k) \in plan' THEN "original"
                      ELSE IF k.mode \in {"original", "stray"} THEN "other" ELSE k.mode
    BY <1>6, StageLinks
  <2>4. Seen(l) \in plan' /\ Seen(l) \in mirror
    BY <2>2, <2>3
  <2>5. \A x \in mirror : x.ends = l.ends => x = Seen(l)
    <3> SUFFICES ASSUME NEW x \in mirror, x.ends = l.ends PROVE x = Seen(l)
      OBVIOUS
    <3>1. PICK m \in links : Seen(m) = x
      BY <2>1, MirrorExact
    <3>2. m.ends = k.ends
      BY <2>3, <3>1, Messages
    <3> QED
      BY <2>3, <3>1, <3>2 DEF GraphInv, ServerInv, Proper
  <2>6. 1 .. Len(events') = {}
    BY <2>1, <2>2 DEF Drained
  <2> QED
    BY <2>2, <2>4, <2>5, <2>6
<1>7. CASE CutOver
  <2>1. UNCHANGED <<mirror, events, plan, late, links>> /\ pc = "stage"
    BY <1>7 DEF CutOver, server
  <2> QED
    BY <1>1, <1>2, <2>1
<1>8. CASE (Install /\ ~Stage /\ ~CutOver) \/ Leave
  <2>1. pc' \notin {"stage", "remove"}
    BY <1>8 DEF Install, Leave, StageFailed, Activate, NotActivated, RemovalFailed, RolledBack,
         Restore, Bypassed, NotDeactivated, Unconfirmed, Release, RestoreLinks
  <2> QED
    BY <2>1
<1> QED
  BY <1>3, <1>4, <1>5, <1>6, <1>7, <1>8 DEF Next

\* Originals that have gone from the mirror have gone.
LEMMA OriginalsGone ==
  ASSUME GraphInv, OriginalInv, ~late, pc = "remove", LinksAbsent(plan)
  PROVE  \A l \in links : l.mode # "original"
BY DEF OriginalInv, LinksAbsent

-----------------------------------------------------------------------------
(* Restored links *)

\* What a failed restoration has made goes.
LEMMA StrayStep == GraphInv /\ BoundInv /\ StrayInv /\ [Next]_vars => StrayInv'
<1> SUFFICES ASSUME GraphInv, BoundInv, StrayInv, [Next]_vars, ~late'
             PROVE  /\ \A l \in links' : l.mode = "stray" =>
                         \E k \in 1 .. Len(requests') : requests'[k] = Destroy(l.id)
                    /\ \A k \in 1 .. Len(requests') :
                         requests'[k].type = "create" => requests'[k].mode # "stray"
  BY DEF StrayInv
<1> DEFINE Goal == /\ \A l \in links' : l.mode = "stray" =>
                        \E k \in 1 .. Len(requests') : requests'[k] = Destroy(l.id)
                   /\ \A k \in 1 .. Len(requests') :
                        requests'[k].type = "create" => requests'[k].mode # "stray"
<1>1. ASSUME ~late
      PROVE  /\ \A l \in links : l.mode = "stray" =>
                  \E k \in 1 .. Len(requests) : requests[k] = Destroy(l.id)
             /\ \A k \in 1 .. Len(requests) :
                  requests[k].type = "create" => requests[k].mode # "stray"
  BY <1>1 DEF StrayInv
<1>2. ASSUME UNCHANGED <<links, requests, late>> PROVE Goal
  BY <1>1, <1>2
<1>3. CASE UNCHANGED vars \/ Deliver \/ Activate
  BY <1>2, <1>3 DEF vars, server, queues, Deliver, Activate
<1>4. CASE Others
  <2>1. /\ UNCHANGED <<requests, late>>
        /\ \/ \E c \in Channels : \E l : Made(l) /\ l.ends = Direct(c) /\ l.mode = "other"
           \/ \E L : Lost(L)
           \/ UNCHANGED <<links, events>>
    BY <1>4, OthersCases
  <2>2. \A l \in links' : l.mode = "stray" => l \in links
    BY <2>1 DEF Made, Lost
  <2> QED
    BY <1>1, <2>1, <2>2
<1>5. CASE Serve
  <2> DEFINE r == Head(requests)
  <2>1. requests # <<>> /\ requests' = Tail(requests) /\ late' = late /\ requests \in Seq(Requests)
    BY <1>5, ServeCases DEF GraphInv, TypeInv
  <2>2. /\ r = requests[1] /\ Len(requests) \in Nat /\ 1 \in 1 .. Len(requests)
        /\ \A k \in 1 .. Len(requests') : k + 1 \in 1 .. Len(requests) /\ requests'[k] = requests[k + 1]
        /\ \A k \in 1 .. Len(requests) : k # 1 =>
             k - 1 \in 1 .. Len(requests') /\ requests'[k - 1] = requests[k]
    BY <2>1, Served
  <2>3. \/ r.type = "create" /\ UNCHANGED <<links, events, severed>>
        \/ r.type = "create" /\ \E l : Made(l) /\ l.ends = r.ends /\ l.mode = r.mode
        \/ r.type = "drop" /\ Lost({l \in links : l.ends = r.ends /\ l.mode = "held"})
        \/ r.type = "destroy" /\ Lost({l \in links : l.id = r.id})
    BY <1>5, ServeCases
  <2> HIDE DEF r
  <2>4. \A l \in links' : l.mode = "stray" => l \in links /\ r # Destroy(l.id)
    <3>1. r.type = "create" => r.mode # "stray" /\ \A l : r # Destroy(l.id)
      BY <1>1, <2>1, <2>2, Messages
    <3>2. r.type = "drop" => \A l : r # Destroy(l.id)
      BY Messages
    <3>3. CASE r.type = "create"
      BY <2>3, <3>1, <3>3 DEF Made
    <3>4. CASE r.type = "drop"
      BY <2>3, <3>2, <3>4 DEF Lost
    <3>5. CASE r.type = "destroy"
      BY <2>3, <3>5, Messages DEF Lost
    <3> QED
      BY <2>3, <3>3, <3>4, <3>5
  <2>5. ASSUME NEW l \in links', l.mode = "stray"
        PROVE  \E k \in 1 .. Len(requests') : requests'[k] = Destroy(l.id)
    <3>1. PICK k \in 1 .. Len(requests) : requests[k] = Destroy(l.id)
      BY <1>1, <2>1, <2>4, <2>5
    <3>2. k # 1
      BY <2>2, <2>4, <2>5, <3>1
    <3> QED
      BY <2>2, <3>1, <3>2
  <2>6. \A k \in 1 .. Len(requests') : requests'[k].type = "create" => requests'[k].mode # "stray"
    BY <1>1, <2>1, <2>2
  <2> QED
    BY <2>5, <2>6
<1>6. ASSUME NEW X, Sends(X), ~late, \A k \in 1 .. Len(X) : X[k].type = "create" => X[k].mode # "stray"
      PROVE  Goal
  <2>1. links' = links /\ Joins(requests', requests, X)
    BY <1>6 DEF Sends
  <2>2. \A l \in links' : l.mode = "stray" =>
          \E k \in 1 .. Len(requests') : requests'[k] = Destroy(l.id)
    <3>1. \A k \in 1 .. Len(requests) : k \in 1 .. Len(requests') /\ requests'[k] = requests[k]
      BY <2>1 DEF Joins
    <3> QED
      BY <1>1, <1>6, <2>1, <3>1
  <2>3. \A k \in 1 .. Len(requests') : requests'[k].type = "create" => requests'[k].mode # "stray"
    <3>1. \A k \in 1 .. Len(requests') :
            (\E j \in 1 .. Len(requests) : requests'[k] = requests[j]) \/ (\E j \in 1 .. Len(X) : requests'[k] = X[j])
      BY <2>1, JoinedFrom
    <3> QED
      BY <1>1, <1>6, <3>1
  <2> QED
    BY <2>2, <2>3
<1>7. /\ \A k \in 1 .. Len(Destroys(plan)) : Destroys(plan)[k].type # "create"
      /\ \A E : E \subseteq Directs(Channels) =>
           \A k \in 1 .. Len(Creates(E, "linger")) : Creates(E, "linger")[k].mode # "stray"
  <2>1. plan \subseteq Sights
    BY DEF GraphInv, TypeInv
  <2>2. \A k \in 1 .. Len(Destroys(plan)) : Destroys(plan)[k].type # "create"
    BY <2>1, DestroysFacts, Messages
  <2>3. ASSUME NEW E, E \subseteq Directs(Channels), NEW k \in 1 .. Len(Creates(E, "linger"))
        PROVE  Creates(E, "linger")[k].mode # "stray"
    <3>1. E \subseteq AllEnds /\ "linger" \in Modes
      BY <2>3 DEF AllEnds, Modes
    <3>2. \E e \in E : Creates(E, "linger")[k] = Create(e, "linger")
      BY <3>1, CreatesFacts
    <3> QED
      BY <3>2, Messages
  <2> QED
    BY <2>2, <2>3
<1>8. CASE CutOver \/ StageFailed \/ Release \/ NotActivated \/ Restore \/ RemovalFailed
  <2>1. ~late
    BY <1>8 DEF CutOver, StageFailed, Release, NotActivated, Restore, RemovalFailed, Deadline, GraphInv, TypeInv
  <2>2. Ends(plan) \subseteq Directs(Channels) /\ Missing \subseteq Directs(Channels)
    BY DEF GraphInv, TypeInv, Missing, Ends
  <2>3. \/ Sends(Destroys(plan)) \/ Sends(DropReplacements)
        \/ Sends(Creates(Ends(plan), "linger")) \/ Sends(Creates(Missing, "linger"))
    BY <1>8, SendCases
  <2>4. \A k \in 1 .. Len(DropReplacements) : DropReplacements[k].type # "create"
    BY DropsAreAll DEF NoCreates
  <2> QED
    BY <1>6, <1>7, <2>1, <2>2, <2>3, <2>4
<1>9. CASE Stage
  <2>1. \A l \in links' : l.mode # "stray"
    <3> SUFFICES ASSUME NEW l \in links' PROVE l.mode # "stray"
      OBVIOUS
    <3>1. \E k \in links :
            l.mode = IF Seen(k) \in plan' THEN "original"
                     ELSE IF k.mode \in {"original", "stray"} THEN "other" ELSE k.mode
      BY <1>9, StageLinks
    <3> QED
      BY <3>1
  <2> DEFINE q == MarkedRequests({"stray"}, "other")
  <2> DEFINE X == Creates(Replacements, "held")
  <2>2. requests' = q \o X
    BY <1>9 DEF Stage
  <2>3. /\ q \in Seq(Requests) /\ Len(q) = Len(requests)
        /\ \A k \in 1 .. Len(requests) : q[k].type = "create" =>
             q[k] = Create(requests[k].ends, IF requests[k].mode \in {"stray"} THEN "other" ELSE requests[k].mode)
    BY MarkedQueue DEF Modes
  <2>4. X \in Seq(Requests) /\ \A k \in 1 .. Len(X) : \E e \in Replacements : X[k] = Create(e, "held")
    BY CreatesFacts DEF AllEnds, Modes
  <2> HIDE DEF q, X
  <2>5. Joins(requests', q, X)
    BY <2>2, <2>3, <2>4, Joined
  <2>6. \A k \in 1 .. Len(q) : q[k].type = "create" => q[k].mode # "stray"
    BY <2>3, Messages
  <2>7. \A k \in 1 .. Len(X) : X[k].mode # "stray"
    BY <2>4, Messages
  <2>8. \A k \in 1 .. Len(requests') : requests'[k].type = "create" => requests'[k].mode # "stray"
    <3>1. \A k \in 1 .. Len(requests') :
            (\E j \in 1 .. Len(q) : requests'[k] = q[j]) \/ (\E j \in 1 .. Len(X) : requests'[k] = X[j])
      BY <2>5, JoinedFrom
    <3> QED
      BY <2>6, <2>7, <3>1
  <2> QED
    BY <2>1, <2>8
<1>10. ASSUME NEW X \in Seq(Requests), NEW m \in {"other", "stray"}, LetGo(m, X), ~late, NoCreates(X),
              m = "other" \/ requests = <<>>,
              m = "stray" => \A l \in links : l.mode = "linger" =>
                               \E k \in 1 .. Len(X) : X[k] = Destroy(l.id)
       PROVE  Goal
  <2> DEFINE q == MarkedRequests({"linger"}, m)
  <2>1. m \in Modes /\ m # "held" /\ m # "original" /\ "held" \notin {"linger"}
    BY DEF Modes
  <2>2. links' = MarkedLinks({"linger"}, m) /\ Joins(requests', q, X)
    BY <1>10, <2>1, LettingGo
  <2>3. /\ Len(q) = Len(requests) /\ Len(requests) \in Nat
        /\ \A k \in 1 .. Len(requests) :
             /\ q[k].type = requests[k].type
             /\ requests[k].type # "create" => q[k] = requests[k]
             /\ requests[k].type = "create" =>
                  q[k] = Create(requests[k].ends, IF requests[k].mode \in {"linger"} THEN m ELSE requests[k].mode)
    BY <2>1, MarkedQueue
  <2> HIDE DEF q
  <2>4. \A l \in links' : \E k \in links :
          l.id = k.id /\ l.mode = IF k.mode \in {"linger"} THEN m ELSE k.mode
    BY <2>1, <2>2, MarkedSame
  <2>5. ASSUME NEW l \in links', l.mode = "stray"
        PROVE  \E k \in 1 .. Len(requests') : requests'[k] = Destroy(l.id)
    <3>1. PICK n \in links : l.id = n.id /\ l.mode = IF n.mode \in {"linger"} THEN m ELSE n.mode
      BY <2>4
    <3>2. CASE n.mode = "linger"
      <4>1. \E k \in 1 .. Len(X) : X[k] = Destroy(l.id)
        BY <1>10, <2>5, <3>1, <3>2
      <4> QED
        BY <2>2, <4>1 DEF Joins
    <3>3. CASE n.mode # "linger"
      <4>1. PICK k \in 1 .. Len(requests) : requests[k] = Destroy(l.id)
        BY <1>1, <1>10, <2>5, <3>1, <3>3
      <4>2. requests[k].type # "create"
        BY <4>1, Messages
      <4>3. k \in 1 .. Len(q) /\ q[k] = Destroy(l.id)
        BY <2>3, <4>1, <4>2
      <4> QED
        BY <2>2, <4>3 DEF Joins
    <3> QED
      BY <3>2, <3>3
  <2>6. \A k \in 1 .. Len(q) : q[k].type = "create" => q[k].mode # "stray"
    <3> SUFFICES ASSUME NEW k \in 1 .. Len(q), q[k].type = "create" PROVE q[k].mode # "stray"
      OBVIOUS
    <3>1. k \in 1 .. Len(requests) /\ requests[k].type = "create" /\ requests # <<>>
      BY <2>3
    <3>2. requests[k].mode # "stray" /\ m = "other"
      BY <1>1, <1>10, <3>1
    <3>3. q[k].mode = IF requests[k].mode \in {"linger"} THEN m ELSE requests[k].mode
      BY <2>3, <3>1, Messages
    <3> QED
      BY <3>2, <3>3
  <2>7. \A k \in 1 .. Len(requests') : requests'[k].type = "create" => requests'[k].mode # "stray"
    <3>1. \A k \in 1 .. Len(requests') :
            (\E j \in 1 .. Len(q) : requests'[k] = q[j]) \/ (\E j \in 1 .. Len(X) : requests'[k] = X[j])
      BY <2>2, JoinedFrom
    <3> QED
      BY <1>10, <2>6, <3>1 DEF NoCreates
  <2> QED
    BY <2>5, <2>7
<1>11. CASE RolledBack \/ Bypassed
  BY <1>10, <1>11, LetGoCases, DropsAreAll, DropsFacts
<1>12. CASE NotDeactivated
  <2>1. LetGo("other", <<>>) /\ <<>> \in Seq(Requests) /\ Len(<<>>) = 0 /\ ~late
    BY <1>12, LetGoCases
  <2>2. NoCreates(<<>>)
    BY <2>1 DEF NoCreates
  <2> QED
    BY <1>10, <2>1, <2>2
<1>13. CASE Unconfirmed
  <2>1. PICK X \in Seq(Requests) :
          /\ LetGo("stray", X) /\ NoCreates(X)
          /\ \A l \in bound : (\A m \in bound : m.ends = l.ends => m = l) =>
               \E k \in 1 .. Len(X) : X[k] = Destroy(l.id)
    BY <1>13, LetGoCases
  <2>2. ~late /\ Drained
    BY <1>13 DEF Unconfirmed, Deadline, GraphInv, TypeInv
  <2>3. ASSUME NEW l \in links, l.mode = "linger"
        PROVE  \E k \in 1 .. Len(X) : X[k] = Destroy(l.id)
    <3>1. 1 .. Len(events) = {}
      BY <2>2 DEF Drained
    <3>2. Seen(l) \in bound
      BY <2>3, <3>1 DEF BoundInv
    <3>3. Seen(l) \in Sights /\ Seen(l).id = l.id /\ Seen(l).ends \in AllEnds
      BY LinkFacts, SightFacts DEF GraphInv
    <3>4. \A m \in bound : m.ends = Seen(l).ends => m = Seen(l)
      BY <3>2, <3>3 DEF BoundInv, Single
    <3> QED
      BY <2>1, <3>2, <3>3, <3>4
  <2>4. requests = <<>>
    BY <2>2 DEF Drained
  <2> QED
    BY <1>10, <2>1, <2>2, <2>3, <2>4
<1> QED
  BY <1>3, <1>4, <1>5, <1>8, <1>9, <1>11, <1>12, <1>13 DEF Next, Install, Leave

\* Quiet is enough.
LEMMA QuietBound == Quiet => BoundInv
<1> SUFFICES ASSUME Quiet PROVE BoundInv
  OBVIOUS
<1>1. Single
  BY DEF Quiet, Single
<1>2. \A l \in links : l.mode # "linger"
  BY DEF Quiet
<1> QED
  BY <1>1, <1>2 DEF BoundInv

\* A restoration that begins requests each of its links once.
LEMMA RestoringBegins ==
  ASSUME GraphInv, Quiet, NEW E, E \subseteq Directs(Channels), Sends(Creates(E, "linger")), Restoring'
  PROVE  BoundInv'
<1> DEFINE X == Creates(E, "linger")
<1>1. E \subseteq AllEnds /\ "linger" \in Modes
  BY DEF AllEnds, Modes
<1>2. /\ \A k \in 1 .. Len(X) : \E e \in E : X[k] = Create(e, "linger")
      /\ \A j, k \in 1 .. Len(X) : X[j] = X[k] => j = k
  BY <1>1, CreatesFacts
<1>3. UNCHANGED <<links, events, bound>> /\ Joins(requests', requests, X)
  BY DEF Sends
<1> HIDE DEF X
<1>4. ASSUME NEW k \in 1 .. Len(requests'), NEW e \in AllEnds, Lingers(k, e)'
      PROVE  k - Len(requests) \in 1 .. Len(X) /\ X[k - Len(requests)] = Create(e, "linger")
  <2>1. k \notin 1 .. Len(requests)
    <3>1. k \in 1 .. Len(requests) => requests'[k] = requests[k] /\ ~Lingers(k, e)
      BY <1>3 DEF Quiet, Joins
    <3> QED
      BY <1>4, <3>1 DEF Lingers
  <2>2. k - Len(requests) \in 1 .. Len(X) /\ requests'[k] = X[k - Len(requests)]
    BY <1>3, <2>1 DEF Joins
  <2>3. PICK f \in E : requests'[k] = Create(f, "linger")
    BY <1>2, <2>2
  <2>4. f = e
    BY <1>4, <2>3, Messages DEF Lingers
  <2> QED
    BY <2>2, <2>3, <2>4
<1>5. Len(requests) \in Nat
  BY <1>3 DEF Joins
<1>6. \A e \in AllEnds, j, k \in 1 .. Len(requests') : Lingers(j, e)' /\ Lingers(k, e)' => j = k
  <2> SUFFICES ASSUME NEW e \in AllEnds, NEW j \in 1 .. Len(requests'), NEW k \in 1 .. Len(requests'),
                      Lingers(j, e)', Lingers(k, e)'
               PROVE  j = k
    OBVIOUS
  <2>1. j - Len(requests) \in 1 .. Len(X) /\ X[j - Len(requests)] = Create(e, "linger")
    BY <1>4
  <2>2. k - Len(requests) \in 1 .. Len(X) /\ X[k - Len(requests)] = Create(e, "linger")
    BY <1>4
  <2>3. j - Len(requests) = k - Len(requests)
    BY <1>2, <2>1, <2>2
  <2> QED
    BY <1>5, <2>3
<1>7. /\ bound' = {} /\ Ends(bound)' = {} /\ \A l \in links' : l.mode # "linger"
      /\ \A k \in 1 .. Len(events'), e \in AllEnds : ~Tells(k, e)'
  BY <1>3 DEF Quiet, Tells, Ends
<1>8. Single'
  BY <1>6, <1>7 DEF Single
<1> QED
  BY <1>7, <1>8 DEF BoundInv

\* One that ends leaves nothing.
LEMMA RestoringEnds ==
  ASSUME GraphInv, NEW m \in {"other", "stray"}, NEW X \in Seq(Requests), LetGo(m, X), NoCreates(X)
  PROVE  BoundInv'
<1> DEFINE q == MarkedRequests({"linger"}, m)
<1>1. m \in Modes /\ m # "held" /\ m # "original" /\ m # "linger" /\ "held" \notin {"linger"}
  BY DEF Modes
<1>2. /\ links' = MarkedLinks({"linger"}, m) /\ bound' = {} /\ Joins(requests', q, X)
      /\ Len(events') = Len(events)
      /\ \A k \in 1 .. Len(events) :
           /\ events[k].type # "bound" => events'[k] = events[k]
           /\ events[k].type = "bound" => events'[k].type = "lost"
  BY <1>1, LettingGo
<1>3. /\ Len(q) = Len(requests)
      /\ \A k \in 1 .. Len(requests) :
           /\ q[k].type = requests[k].type
           /\ requests[k].type = "create" =>
                q[k] = Create(requests[k].ends, IF requests[k].mode \in {"linger"} THEN m ELSE requests[k].mode)
  BY <1>1, MarkedQueue
<1> HIDE DEF q
<1>4. \A l \in links' : l.mode # "linger"
  <2>1. \A l \in links' : \E k \in links : l.mode = IF k.mode \in {"linger"} THEN m ELSE k.mode
    BY <1>1, <1>2, MarkedSame
  <2> QED
    BY <1>1, <2>1
<1>5. \A k \in 1 .. Len(q) : q[k].type = "create" => q[k].mode # "linger"
  BY <1>1, <1>3, Messages
<1>6. \A k \in 1 .. Len(requests'), e \in AllEnds : ~Lingers(k, e)'
  <2>1. \A k \in 1 .. Len(requests') :
          (\E j \in 1 .. Len(q) : requests'[k] = q[j]) \/ (\E j \in 1 .. Len(X) : requests'[k] = X[j])
    BY <1>2, JoinedFrom
  <2> QED
    BY <1>5, <2>1 DEF Lingers, NoCreates
<1>7. \A k \in 1 .. Len(events'), e \in AllEnds : ~Tells(k, e)'
  BY <1>2 DEF Tells
<1>8. Quiet'
  BY <1>2, <1>4, <1>6, <1>7 DEF Quiet
<1> QED
  BY <1>8, QuietBound, PTL

\* What the server does to the links of a restoration.
LEMMA BoundServe == GraphInv /\ BoundInv /\ Serve => BoundInv'
<1> SUFFICES ASSUME GraphInv, BoundInv, Serve PROVE BoundInv'
  OBVIOUS
<1> DEFINE r == Head(requests)
<1>1. /\ requests # <<>> /\ requests' = Tail(requests) /\ r \in Requests /\ requests \in Seq(Requests)
      /\ bound' = bound /\ pc' = pc
  BY ServeCases DEF GraphInv, TypeInv
<1>2. /\ r = requests[1] /\ Len(requests) \in Nat /\ 1 \in 1 .. Len(requests)
      /\ \A k \in 1 .. Len(requests') : k + 1 \in 1 .. Len(requests) /\ requests'[k] = requests[k + 1]
  BY <1>1, Served
<1>3. \/ UNCHANGED <<links, events>>
      \/ r.type = "create" /\ \E l : Made(l) /\ l.ends = r.ends /\ l.mode = r.mode
      \/ \E L : Lost(L)
  <2>1. \/ UNCHANGED <<links, events, severed>>
        \/ r.type = "create" /\ \E l : Made(l) /\ l.ends = r.ends /\ l.mode = r.mode
        \/ Lost({l \in links : l.ends = r.ends /\ l.mode = "held"})
        \/ Lost({l \in links : l.id = r.id})
    BY ServeCases
  <2> HIDE DEF r
  <2> QED
    BY <2>1
<1> HIDE DEF r
<1>4. /\ ~Restoring => Quiet
      /\ \A l \in links : l.mode = "linger" =>
           Seen(l) \in bound \/ \E k \in 1 .. Len(events) : events[k] = Bound(l)
      /\ Single
  BY DEF BoundInv
<1>5. \A k \in 1 .. Len(requests'), e \in AllEnds :
        Lingers(k, e)' => k + 1 \in 1 .. Len(requests) /\ Lingers(k + 1, e)
  BY <1>2 DEF Lingers
<1> DEFINE Fresh(k) == k > Len(events) /\ events'[k].type = "bound"
<1>6. /\ \A k \in 1 .. Len(events'), e \in AllEnds :
           Tells(k, e)' => (k \in 1 .. Len(events) /\ Tells(k, e)) \/ (Fresh(k) /\ Lingers(1, e))
      /\ \A j, k \in 1 .. Len(events') : Fresh(j) /\ Fresh(k) => j = k
      /\ \A l \in links' : l.mode = "linger" =>
           Seen(l) \in bound \/ \E k \in 1 .. Len(events') : events'[k] = Bound(l)
      /\ (\A l \in links : l.mode # "linger") /\ (\A e \in AllEnds : ~Lingers(1, e)) =>
           \A l \in links' : l.mode # "linger"
      /\ Len(events) \in Nat /\ Len(events') \in Nat
  <2>1. events \in Seq(Events) /\ Len(events) \in Nat
    BY LenProperties DEF GraphInv, TypeInv
  <2>2. CASE UNCHANGED <<links, events>>
    BY <1>4, <2>1, <2>2 DEF Tells
  <2>3. CASE \E L : Lost(L)
    <3>1. PICK L : Lost(L)
      BY <2>3
    <3>2. /\ \A k \in 1 .. Len(events) : k \in 1 .. Len(events') /\ events'[k] = events[k]
          /\ links' \subseteq links /\ Len(events') \in Nat
      BY <3>1 DEF Lost, Longer
    <3>3. \A k \in 1 .. Len(events') : k \notin 1 .. Len(events) => events'[k].type = "removed"
      BY <2>1, <3>1, Messages DEF Lost
    <3>4. \A k \in 1 .. Len(events'), e \in AllEnds : Tells(k, e)' => (k \in 1 .. Len(events) /\ Tells(k, e))
      BY <3>2, <3>3 DEF Tells
    <3>5. \A j \in 1 .. Len(events') : ~Fresh(j)
      BY <2>1, <3>3
    <3>6. \A l \in links' : l.mode = "linger" =>
            Seen(l) \in bound \/ \E k \in 1 .. Len(events') : events'[k] = Bound(l)
      <4> SUFFICES ASSUME NEW l \in links', l.mode = "linger", Seen(l) \notin bound
                   PROVE  \E k \in 1 .. Len(events') : events'[k] = Bound(l)
        OBVIOUS
      <4>1. PICK k \in 1 .. Len(events) : events[k] = Bound(l)
        BY <1>4, <3>2
      <4> QED
        BY <3>2, <4>1
    <3> HIDE DEF Fresh
    <3> QED
      BY <2>1, <3>2, <3>4, <3>5, <3>6
  <2>4. CASE r.type = "create" /\ \E l : Made(l) /\ l.ends = r.ends /\ l.mode = r.mode
    <3>1. PICK m : Made(m) /\ m.ends = r.ends /\ m.mode = r.mode
      BY <2>4
    <3>2. /\ \A k \in 1 .. Len(events) : k \in 1 .. Len(events') /\ events'[k] = events[k]
          /\ links' = links \cup {m} /\ Len(events') \in Nat
          /\ IsLink(m)
      BY <3>1 DEF Made, Longer
    <3>3. m.mode = "linger" => Lingers(1, m.ends) /\ m.ends \in AllEnds
      BY <1>2, <2>4, <3>1, <3>2 DEF Lingers, IsLink
    <3>4. \A k \in 1 .. Len(events') : k \notin 1 .. Len(events) =>
            \/ events'[k].type = "added"
            \/ m.mode = "linger" /\ events'[k] = Bound(m)
      BY <2>1, <3>1, Messages DEF Made
    <3>5. \A k \in 1 .. Len(events'), e \in AllEnds :
            Tells(k, e)' => (k \in 1 .. Len(events) /\ Tells(k, e)) \/ (Fresh(k) /\ Lingers(1, e))
      <4> SUFFICES ASSUME NEW k \in 1 .. Len(events'), NEW e \in AllEnds, Tells(k, e)'
                   PROVE  (k \in 1 .. Len(events) /\ Tells(k, e)) \/ (Fresh(k) /\ Lingers(1, e))
        OBVIOUS
      <4>1. CASE k \in 1 .. Len(events)
        BY <3>2, <4>1 DEF Tells
      <4>2. CASE k \notin 1 .. Len(events)
        <5>1. m.mode = "linger" /\ events'[k] = Bound(m)
          BY <3>4, <4>2 DEF Tells
        <5>2. e = m.ends
          BY <5>1, Messages DEF Tells
        <5>3. k > Len(events) /\ events'[k].type = "bound"
          BY <2>1, <4>2 DEF Tells
        <5> QED
          BY <3>3, <5>1, <5>2, <5>3
      <4> QED
        BY <4>1, <4>2
    <3>6. \A j, k \in 1 .. Len(events') : Fresh(j) /\ Fresh(k) => j = k
      <4>1. \A k \in 1 .. Len(events') : Fresh(k) => k > Len(events) /\ events'[k] = Bound(m)
        BY <2>1, <3>4
      <4>2. \A j, k \in 1 .. Len(events') :
              j > Len(events) /\ k > Len(events) /\ events'[j] = Bound(m) /\ events'[k] = Bound(m) => j = k
        BY <3>1 DEF Made
      <4> HIDE DEF Fresh
      <4> QED
        BY <4>1, <4>2
    <3>7. \A l \in links' : l.mode = "linger" =>
            Seen(l) \in bound \/ \E k \in 1 .. Len(events') : events'[k] = Bound(l)
      <4> SUFFICES ASSUME NEW l \in links', l.mode = "linger", Seen(l) \notin bound
                   PROVE  \E k \in 1 .. Len(events') : events'[k] = Bound(l)
        OBVIOUS
      <4>1. CASE l \in links
        <5>1. PICK k \in 1 .. Len(events) : events[k] = Bound(l)
          BY <1>4, <4>1
        <5> QED
          BY <3>2, <5>1
      <4>2. CASE l = m
        BY <3>1, <4>2 DEF Made
      <4> QED
        BY <3>2, <4>1, <4>2
    <3>8. (\A l \in links : l.mode # "linger") /\ (\A e \in AllEnds : ~Lingers(1, e)) =>
            \A l \in links' : l.mode # "linger"
      BY <3>2, <3>3
    <3> HIDE DEF Fresh
    <3> QED
      BY <2>1, <3>2, <3>5, <3>6, <3>7, <3>8
  <2> QED
    BY <1>3, <2>2, <2>3, <2>4
<1> HIDE DEF Fresh
<1>7. ~Restoring' => Quiet'
  <2> SUFFICES ASSUME ~Restoring' PROVE Quiet'
    OBVIOUS
  <2>1. Quiet
    BY <1>1, <1>4 DEF Restoring
  <2>2. \A e \in AllEnds : ~Lingers(1, e)
    BY <1>2, <2>1 DEF Quiet
  <2>3. bound' = {} /\ \A l \in links' : l.mode # "linger"
    BY <1>1, <1>6, <2>1, <2>2 DEF Quiet
  <2>4. \A k \in 1 .. Len(requests'), e \in AllEnds : ~Lingers(k, e)'
    BY <1>5, <2>1 DEF Quiet
  <2>5. \A k \in 1 .. Len(events'), e \in AllEnds : ~Tells(k, e)'
    BY <1>6, <2>1, <2>2 DEF Quiet
  <2> QED
    BY <2>3, <2>4, <2>5 DEF Quiet
<1>8. Single'
  <2> SUFFICES ASSUME NEW e \in AllEnds
               PROVE  /\ \A j, k \in 1 .. Len(requests') : Lingers(j, e)' /\ Lingers(k, e)' => j = k
                      /\ \A j, k \in 1 .. Len(events') : Tells(j, e)' /\ Tells(k, e)' => j = k
                      /\ \A x, y \in bound : x.ends = e /\ y.ends = e => x = y
                      /\ \A j \in 1 .. Len(requests') : Lingers(j, e)' =>
                           e \notin Ends(bound) /\ \A k \in 1 .. Len(events') : ~Tells(k, e)'
                      /\ \A k \in 1 .. Len(events') : Tells(k, e)' => e \notin Ends(bound)
    BY <1>1 DEF Single, Ends
  <2>1. /\ \A j, k \in 1 .. Len(requests) : Lingers(j, e) /\ Lingers(k, e) => j = k
        /\ \A j, k \in 1 .. Len(events) : Tells(j, e) /\ Tells(k, e) => j = k
        /\ \A x, y \in bound : x.ends = e /\ y.ends = e => x = y
        /\ \A j \in 1 .. Len(requests) : Lingers(j, e) =>
             e \notin Ends(bound) /\ \A k \in 1 .. Len(events) : ~Tells(k, e)
        /\ \A k \in 1 .. Len(events) : Tells(k, e) => e \notin Ends(bound)
    BY <1>4 DEF Single
  <2>2. \A k \in 1 .. Len(requests') : Lingers(k, e)' => k + 1 \in 1 .. Len(requests) /\ Lingers(k + 1, e)
    BY <1>5
  <2>3. \A k \in 1 .. Len(requests') : k \in Nat /\ k + 1 # 1 /\ \A j \in 1 .. Len(requests') : j + 1 = k + 1 => j = k
    OBVIOUS
  <2>4. \A k \in 1 .. Len(events') :
          Tells(k, e)' => (k \in 1 .. Len(events) /\ Tells(k, e)) \/ (Fresh(k) /\ Lingers(1, e))
    BY <1>6
  <2>5. \A j, k \in 1 .. Len(requests') : Lingers(j, e)' /\ Lingers(k, e)' => j = k
    BY <2>1, <2>2, <2>3
  <2>6. \A j, k \in 1 .. Len(events') : Tells(j, e)' /\ Tells(k, e)' => j = k
    BY <1>2, <1>6, <2>1, <2>4
  <2>7. ASSUME NEW j \in 1 .. Len(requests'), Lingers(j, e)'
        PROVE  e \notin Ends(bound) /\ \A k \in 1 .. Len(events') : ~Tells(k, e)'
    <3>1. j + 1 \in 1 .. Len(requests) /\ Lingers(j + 1, e) /\ j + 1 # 1
      BY <2>2, <2>3, <2>7
    <3>2. ~Lingers(1, e)
      BY <1>2, <2>1, <3>1
    <3> QED
      BY <2>1, <2>4, <3>1, <3>2
  <2>8. \A k \in 1 .. Len(events') : Tells(k, e)' => e \notin Ends(bound)
    BY <1>2, <2>1, <2>4
  <2> QED
    BY <2>1, <2>5, <2>6, <2>7, <2>8
<1> QED
  BY <1>1, <1>6, <1>7, <1>8 DEF BoundInv

\* Others make no such links.
LEMMA BoundOthers == GraphInv /\ BoundInv /\ Others => BoundInv'
<1> SUFFICES ASSUME GraphInv, BoundInv, Others PROVE BoundInv'
  OBVIOUS
<1>1. /\ UNCHANGED <<requests, bound, pc>>
      /\ \/ \E c \in Channels : \E l : Made(l) /\ l.ends = Direct(c) /\ l.mode = "other"
         \/ \E L : Lost(L)
         \/ UNCHANGED <<links, events>>
  BY OthersCases
<1>2. Len(events) \in Nat
  BY LenProperties DEF GraphInv, TypeInv
<1>3. /\ \A l \in links' : l.mode = "linger" => l \in links
      /\ \A k \in 1 .. Len(events) : k \in 1 .. Len(events') /\ events'[k] = events[k]
      /\ \A k \in 1 .. Len(events') : events'[k].type = "bound" => k \in 1 .. Len(events)
  <2>1. ASSUME NEW l, Made(l), l.mode = "other"
        PROVE  /\ \A m \in links' : m.mode = "linger" => m \in links
               /\ \A k \in 1 .. Len(events) : k \in 1 .. Len(events') /\ events'[k] = events[k]
               /\ \A k \in 1 .. Len(events') : events'[k].type = "bound" => k \in 1 .. Len(events)
    <3>1. \A k \in 1 .. Len(events') : k \notin 1 .. Len(events) => events'[k].type = "added"
      BY <1>2, <2>1, Messages DEF Made
    <3> QED
      BY <2>1, <3>1 DEF Made, Longer
  <2>2. ASSUME NEW L, Lost(L)
        PROVE  /\ \A m \in links' : m.mode = "linger" => m \in links
               /\ \A k \in 1 .. Len(events) : k \in 1 .. Len(events') /\ events'[k] = events[k]
               /\ \A k \in 1 .. Len(events') : events'[k].type = "bound" => k \in 1 .. Len(events)
    <3>1. \A k \in 1 .. Len(events') : k \notin 1 .. Len(events) => events'[k].type = "removed"
      BY <1>2, <2>2, Messages DEF Lost
    <3> QED
      BY <2>2, <3>1 DEF Lost, Longer
  <2>3. CASE UNCHANGED <<links, events>>
    BY <2>3
  <2> QED
    BY <1>1, <2>1, <2>2, <2>3
<1>4. /\ \A k \in 1 .. Len(requests'), e \in AllEnds : Lingers(k, e)' <=> Lingers(k, e)
      /\ \A k \in 1 .. Len(events'), e \in AllEnds : Tells(k, e)' => k \in 1 .. Len(events) /\ Tells(k, e)
  BY <1>1, <1>3 DEF Lingers, Tells
<1>5. (~Restoring => Quiet)'
  <2>1. (~Restoring)' => Quiet
    BY <1>1 DEF BoundInv, Restoring
  <2> QED
    BY <1>1, <1>3, <1>4, <2>1 DEF Quiet
<1>6. ASSUME NEW l \in links', l.mode = "linger"
      PROVE  Seen(l) \in bound' \/ \E k \in 1 .. Len(events') : events'[k] = Bound(l)
  <2>1. Seen(l) \in bound \/ \E k \in 1 .. Len(events) : events[k] = Bound(l)
    BY <1>3, <1>6 DEF BoundInv
  <2>2. CASE \E k \in 1 .. Len(events) : events[k] = Bound(l)
    <3>1. PICK k \in 1 .. Len(events) : events[k] = Bound(l)
      BY <2>2
    <3> QED
      BY <1>3, <3>1
  <2> QED
    BY <1>1, <2>1, <2>2
<1>7. Single'
  <2>1. requests' = requests /\ bound' = bound /\ Ends(bound)' = Ends(bound)
    BY <1>1 DEF Ends
  <2> QED
    BY <1>4, <2>1 DEF BoundInv, Single
<1> QED
  BY <1>5, <1>6, <1>7 DEF BoundInv

\* The daemon learns a number.
LEMMA BoundDeliver == GraphInv /\ BoundInv /\ Deliver => BoundInv'
<1> SUFFICES ASSUME GraphInv, BoundInv, Deliver PROVE BoundInv'
  OBVIOUS
<1> DEFINE e1 == events[1]
<1>1. /\ UNCHANGED <<links, requests, pc>> /\ e1 \in Events /\ 1 \in 1 .. Len(events)
      /\ \A k \in 1 .. Len(events') : k + 1 \in 1 .. Len(events) /\ events'[k] = events[k + 1]
      /\ \A k \in 1 .. Len(events) : k # 1 =>
           k - 1 \in 1 .. Len(events') /\ events'[k - 1] = events[k]
      /\ bound' = IF e1.type = "bound" /\ Restoring THEN bound \cup {e1.link} ELSE bound
  BY Delivered
<1>2. e1.type = "bound" => e1.link \in Sights /\ e1.link.ends \in AllEnds /\ Tells(1, e1.link.ends)
  BY <1>1, EventCases, SightFacts DEF Tells
<1>3. e1.type = "bound" => Restoring
  BY <1>1, <1>2 DEF BoundInv, Quiet
<1>4. bound' = IF e1.type = "bound" THEN bound \cup {e1.link} ELSE bound
  BY <1>1, <1>3
<1> HIDE DEF e1
<1>5. /\ \A k \in 1 .. Len(requests'), e \in AllEnds : Lingers(k, e)' <=> Lingers(k, e)
      /\ \A k \in 1 .. Len(events'), e \in AllEnds :
           Tells(k, e)' => k + 1 \in 1 .. Len(events) /\ Tells(k + 1, e)
  BY <1>1 DEF Lingers, Tells
<1>6. (~Restoring => Quiet)'
  <2>1. (~Restoring)' => Quiet /\ bound' = bound
    BY <1>1, <1>3, <1>4 DEF BoundInv, Restoring
  <2> QED
    BY <1>1, <1>5, <2>1 DEF Quiet
<1>7. ASSUME NEW l \in links', l.mode = "linger"
      PROVE  Seen(l) \in bound' \/ \E k \in 1 .. Len(events') : events'[k] = Bound(l)
  <2>1. Seen(l) \in bound \/ \E k \in 1 .. Len(events) : events[k] = Bound(l)
    BY <1>1, <1>7 DEF BoundInv
  <2>2. ASSUME NEW k \in 1 .. Len(events), events[k] = Bound(l)
        PROVE  Seen(l) \in bound' \/ \E j \in 1 .. Len(events') : events'[j] = Bound(l)
    <3>1. CASE k = 1
      <4>1. e1.type = "bound" /\ e1.link = Seen(l)
        BY <2>2, <3>1, Messages DEF e1
      <4> QED
        BY <1>4, <4>1
    <3>2. CASE k # 1
      BY <1>1, <2>2, <3>2
    <3> QED
      BY <3>1, <3>2
  <2> QED
    BY <1>4, <2>1, <2>2
<1>8. Single'
  <2> SUFFICES ASSUME NEW e \in AllEnds
               PROVE  /\ \A j, k \in 1 .. Len(requests') : Lingers(j, e)' /\ Lingers(k, e)' => j = k
                      /\ \A j, k \in 1 .. Len(events') : Tells(j, e)' /\ Tells(k, e)' => j = k
                      /\ \A x, y \in bound' : x.ends = e /\ y.ends = e => x = y
                      /\ \A j \in 1 .. Len(requests') : Lingers(j, e)' =>
                           e \notin Ends(bound') /\ \A k \in 1 .. Len(events') : ~Tells(k, e)'
                      /\ \A k \in 1 .. Len(events') : Tells(k, e)' => e \notin Ends(bound')
    BY DEF Single, Ends
  <2>1. /\ \A j, k \in 1 .. Len(requests) : Lingers(j, e) /\ Lingers(k, e) => j = k
        /\ \A j, k \in 1 .. Len(events) : Tells(j, e) /\ Tells(k, e) => j = k
        /\ \A x, y \in bound : x.ends = e /\ y.ends = e => x = y
        /\ \A j \in 1 .. Len(requests) : Lingers(j, e) =>
             e \notin Ends(bound) /\ \A k \in 1 .. Len(events) : ~Tells(k, e)
        /\ \A k \in 1 .. Len(events) : Tells(k, e) => e \notin Ends(bound)
    BY DEF BoundInv, Single
  <2>2. \A k \in 1 .. Len(events') : Tells(k, e)' => k + 1 \in 1 .. Len(events) /\ Tells(k + 1, e)
    BY <1>5
  <2>3. \A k \in 1 .. Len(events') : k \in Nat /\ k + 1 # 1 /\ \A j \in 1 .. Len(events') : j + 1 = k + 1 => j = k
    OBVIOUS
  <2>4. \A j, k \in 1 .. Len(events') : Tells(j, e)' /\ Tells(k, e)' => j = k
    BY <2>1, <2>2, <2>3
  <2>5. CASE e1.type = "bound" /\ e1.link.ends = e
    <3>1. Tells(1, e)
      BY <1>2, <2>5
    <3>2. e \notin Ends(bound) /\ \A j \in 1 .. Len(requests) : ~Lingers(j, e)
      BY <1>1, <2>1, <3>1
    <3>3. \A x \in bound : x.ends # e
      BY <3>2 DEF Ends
    <3>4. \A k \in 1 .. Len(events') : ~Tells(k, e)'
      BY <1>1, <2>1, <2>2, <2>3, <3>1
    <3>5. \A x, y \in bound' : x.ends = e /\ y.ends = e => x = y
      BY <1>4, <2>5, <3>3
    <3>6. \A j \in 1 .. Len(requests') : ~Lingers(j, e)'
      BY <1>1, <1>5, <3>2
    <3> QED
      BY <2>4, <3>4, <3>5, <3>6
  <2>6. CASE ~(e1.type = "bound" /\ e1.link.ends = e)
    <3>1. e \in Ends(bound') <=> e \in Ends(bound)
      BY <1>4, <2>6 DEF Ends
    <3>2. \A x, y \in bound' : x.ends = e /\ y.ends = e => x = y
      BY <1>4, <2>1, <2>6
    <3>3. \A j \in 1 .. Len(requests') : j \in 1 .. Len(requests) /\ (Lingers(j, e)' <=> Lingers(j, e))
      BY <1>1, <1>5
    <3>4. \A j, k \in 1 .. Len(requests') : Lingers(j, e)' /\ Lingers(k, e)' => j = k
      BY <2>1, <3>3
    <3>5. \A j \in 1 .. Len(requests') : Lingers(j, e)' =>
            e \notin Ends(bound') /\ \A k \in 1 .. Len(events') : ~Tells(k, e)'
      BY <2>1, <2>2, <3>1, <3>3
    <3>6. \A k \in 1 .. Len(events') : Tells(k, e)' => e \notin Ends(bound')
      BY <2>1, <2>2, <3>1
    <3> QED
      BY <2>4, <3>2, <3>4, <3>5, <3>6
  <2> QED
    BY <2>5, <2>6
<1> QED
  BY <1>6, <1>7, <1>8 DEF BoundInv

\* Every step keeps account of the restoration's links.
LEMMA BoundStep == GraphInv /\ BoundInv /\ [Next]_vars => BoundInv'
<1> SUFFICES ASSUME GraphInv, BoundInv, [Next]_vars PROVE BoundInv'
  OBVIOUS
<1>1. CASE UNCHANGED vars
  BY <1>1 DEF BoundInv, Quiet, Single, Restoring, Lingers, Tells, Ends, vars, server, queues, route
<1>2. ASSUME Quiet, NEW X, Sends(X), \A k \in 1 .. Len(X), e \in AllEnds : X[k] # Create(e, "linger")
      PROVE  BoundInv'
  <2>1. UNCHANGED <<links, events, bound>> /\ Joins(requests', requests, X) /\ X \in Seq(Requests)
    BY <1>2 DEF Sends
  <2>2. \A k \in 1 .. Len(X), e \in AllEnds :
          ~(X[k].type = "create" /\ X[k].ends = e /\ X[k].mode = "linger")
    <3> SUFFICES ASSUME NEW k \in 1 .. Len(X), X[k].type = "create"
                 PROVE  \A e \in AllEnds : ~(X[k].ends = e /\ X[k].mode = "linger")
      OBVIOUS
    <3>1. X[k] \in Requests
      BY <2>1
    <3>2. X[k] = Create(X[k].ends, X[k].mode)
      BY <3>1, RequestCases
    <3> QED
      BY <1>2, <3>2
  <2>3. \A k \in 1 .. Len(requests'), e \in AllEnds : ~Lingers(k, e)'
    <3>1. \A k \in 1 .. Len(requests') :
            (\E j \in 1 .. Len(requests) : requests'[k] = requests[j]) \/ (\E j \in 1 .. Len(X) : requests'[k] = X[j])
      BY <2>1, JoinedFrom
    <3> QED
      BY <1>2, <2>2, <3>1 DEF Quiet, Lingers
  <2>4. Quiet'
    BY <1>2, <2>1, <2>3 DEF Quiet, Tells
  <2> QED
    BY <2>4, QuietBound, PTL
<1>3. CASE CutOver \/ StageFailed \/ Release
  <2>1. Quiet
    BY <1>3 DEF CutOver, StageFailed, Release, BoundInv, Restoring
  <2>2. Sends(Destroys(plan)) \/ Sends(DropReplacements)
    BY <1>3, SendCases
  <2>3. \A k \in 1 .. Len(DropReplacements), e \in AllEnds : DropReplacements[k] # Create(e, "linger")
    BY DropsAreAll, Messages DEF NoCreates
  <2>4. \A k \in 1 .. Len(Destroys(plan)), e \in AllEnds : Destroys(plan)[k] # Create(e, "linger")
    <3>1. plan \subseteq Sights
      BY DEF GraphInv, TypeInv
    <3>2. \A k \in 1 .. Len(Destroys(plan)) : \E l \in plan : Destroys(plan)[k] = Destroy(l.id)
      BY <3>1, DestroysFacts
    <3> QED
      BY <3>2, Messages
  <2> QED
    BY <1>2, <2>1, <2>2, <2>3, <2>4
<1>4. CASE NotActivated \/ Restore
  <2>1. Quiet /\ Restoring'
    BY <1>4 DEF NotActivated, Restore, RestoreLinks, BoundInv, Restoring
  <2>2. Ends(plan) \subseteq Directs(Channels) /\ Sends(Creates(Ends(plan), "linger"))
    BY <1>4, SendCases DEF GraphInv, TypeInv
  <2> QED
    BY <2>1, <2>2, RestoringBegins
<1>5. CASE RemovalFailed
  <2>1. Quiet
    BY <1>5 DEF RemovalFailed, BoundInv, Restoring
  <2>2. CASE pc' = "idle"
    <3>1. Sends(DropReplacements)
      BY <1>5, <2>2, SendCases
    <3>2. \A k \in 1 .. Len(DropReplacements), e \in AllEnds : DropReplacements[k] # Create(e, "linger")
      BY DropsAreAll, Messages DEF NoCreates
    <3> QED
      BY <1>2, <2>1, <3>1, <3>2
  <2>3. CASE pc' # "idle"
    <3>1. Restoring' /\ requests' = requests \o Creates(Missing, "linger") /\ UNCHANGED <<links, alive, events, mirror, bound>>
      BY <1>5, <2>3 DEF RemovalFailed, RestoreLinks, Restoring, server
    <3>2. Missing \subseteq Directs(Channels)
      BY DEF GraphInv, TypeInv, Missing, Ends
    <3>3. Sends(Creates(Missing, "linger"))
      BY <3>1, <3>2, SendGraph DEF Sends
    <3> QED
      BY <2>1, <3>1, <3>2, <3>3, RestoringBegins
  <2> QED
    BY <2>2, <2>3
<1>6. CASE Activate
  <2>1. Quiet /\ UNCHANGED <<links, events, bound, requests>>
    BY <1>6 DEF Activate, BoundInv, Restoring, server, queues
  <2>2. Quiet'
    BY <2>1 DEF Quiet, Lingers, Tells
  <2> QED
    BY <2>2, QuietBound, PTL
<1>7. CASE Stage
  <2>1. Quiet /\ UNCHANGED <<events, bound>>
    BY <1>7 DEF Stage, BoundInv, Restoring
  <2>2. \A l \in links' : l.mode # "linger"
    <3> SUFFICES ASSUME NEW l \in links' PROVE l.mode # "linger"
      OBVIOUS
    <3>1. PICK k \in links :
            l.mode = IF Seen(k) \in plan' THEN "original"
                     ELSE IF k.mode \in {"original", "stray"} THEN "other" ELSE k.mode
      BY <1>7, StageLinks
    <3>2. k.mode # "linger"
      BY <2>1 DEF Quiet
    <3> QED
      BY <3>1, <3>2
  <2> DEFINE q == MarkedRequests({"stray"}, "other")
  <2> DEFINE X == Creates(Replacements, "held")
  <2>3. requests' = q \o X
    BY <1>7 DEF Stage
  <2>4. /\ q \in Seq(Requests) /\ Len(q) = Len(requests)
        /\ \A k \in 1 .. Len(requests) : q[k].type = "create" =>
             /\ requests[k].type = "create"
             /\ q[k] = Create(requests[k].ends, IF requests[k].mode \in {"stray"} THEN "other" ELSE requests[k].mode)
    BY MarkedQueue DEF Modes
  <2>5. X \in Seq(Requests) /\ \A k \in 1 .. Len(X) : \E e \in Replacements : X[k] = Create(e, "held")
    BY CreatesFacts DEF AllEnds, Modes
  <2> HIDE DEF q, X
  <2>6. Joins(requests', q, X)
    BY <2>3, <2>4, <2>5, Joined
  <2>7. \A k \in 1 .. Len(q), e \in AllEnds :
          ~(q[k].type = "create" /\ q[k].ends = e /\ q[k].mode = "linger")
    <3> SUFFICES ASSUME NEW k \in 1 .. Len(q), NEW e \in AllEnds,
                        q[k].type = "create", q[k].ends = e, q[k].mode = "linger"
                 PROVE  FALSE
      OBVIOUS
    <3>1. /\ k \in 1 .. Len(requests) /\ requests[k].type = "create"
          /\ q[k] = Create(requests[k].ends, IF requests[k].mode \in {"stray"} THEN "other" ELSE requests[k].mode)
      BY <2>4
    <3>2. requests[k].ends = e /\ requests[k].mode = "linger"
      BY <3>1, Messages
    <3> QED
      BY <2>1, <3>1, <3>2 DEF Quiet, Lingers
  <2>8. \A k \in 1 .. Len(X) : X[k].mode # "linger"
    BY <2>5, Messages
  <2>9. \A k \in 1 .. Len(requests'), e \in AllEnds : ~Lingers(k, e)'
    <3>1. \A k \in 1 .. Len(requests') :
            (\E j \in 1 .. Len(q) : requests'[k] = q[j]) \/ (\E j \in 1 .. Len(X) : requests'[k] = X[j])
      BY <2>6, JoinedFrom
    <3> QED
      BY <2>7, <2>8, <3>1 DEF Lingers
  <2>10. Quiet'
    BY <2>1, <2>2, <2>9 DEF Quiet, Tells
  <2> QED
    BY <2>10, QuietBound, PTL
<1>8. CASE RolledBack \/ Bypassed
  BY <1>8, LetGoCases, DropsAreAll, DropsFacts, RestoringEnds
<1>9. CASE NotDeactivated
  <2>1. LetGo("other", <<>>) /\ <<>> \in Seq(Requests) /\ NoCreates(<<>>)
    BY <1>9, LetGoCases DEF NoCreates
  <2> QED
    BY <2>1, RestoringEnds
<1>10. CASE Unconfirmed
  BY <1>10, LetGoCases, RestoringEnds
<1> QED
  BY <1>1, <1>3, <1>4, <1>5, <1>6, <1>7, <1>8, <1>9, <1>10, BoundServe, BoundOthers, BoundDeliver
     DEF Next, Install, Leave

-----------------------------------------------------------------------------
(* Severed channels *)

\* How the server and others change what is severed, and what is announced of it.
LEMMA SeveredWorld ==
  ASSUME GraphInv, Serve \/ Others
  PROVE  /\ \A l \in links' : l.mode = "original" => l \in links
         /\ \A k \in 1 .. Len(requests') : \E j \in 1 .. Len(requests) : requests'[k] = requests[j]
         /\ \A c \in severed', k \in 1 .. Len(events') :
              Shows(k, Direct(c))' => k \in 1 .. Len(events) /\ Shows(k, Direct(c))
         /\ \A c \in severed' : c \notin severed =>
              \E l \in links : /\ l.mode = "original" /\ l.ends = Direct(c)
                               /\ \E j \in 1 .. Len(requests) : requests[j] = Destroy(l.id)
<1>1. Len(events) \in Nat
  BY LenProperties DEF GraphInv, TypeInv
<1>2. ASSUME NEW l, Made(l), l.mode # "original",
             severed' \subseteq severed, \A c \in severed' : Direct(c) # l.ends
      PROVE  /\ \A m \in links' : m.mode = "original" => m \in links
             /\ \A c \in severed', k \in 1 .. Len(events') :
                  Shows(k, Direct(c))' => k \in 1 .. Len(events) /\ Shows(k, Direct(c))
  <2>1. \A m \in links' : m.mode = "original" => m \in links
    BY <1>2 DEF Made
  <2>2. ASSUME NEW c \in severed', NEW k \in 1 .. Len(events'), Shows(k, Direct(c))'
        PROVE  k \in 1 .. Len(events) /\ Shows(k, Direct(c))
    <3>1. k \in 1 .. Len(events)
      <4> SUFFICES ASSUME k \notin 1 .. Len(events) PROVE FALSE
        OBVIOUS
      <4>1. events'[k] = Announced(l) \/ events'[k] = Bound(l)
        BY <1>1, <1>2 DEF Made
      <4>2. events'[k] = Announced(l)
        BY <2>2, <4>1, Messages DEF Shows
      <4>3. events'[k].link.ends = l.ends
        BY <4>2, Messages
      <4> QED
        BY <1>2, <2>2, <4>3 DEF Shows
    <3>2. events'[k] = events[k]
      BY <1>2, <3>1 DEF Made, Longer
    <3> QED
      BY <2>2, <3>1, <3>2 DEF Shows
  <2> QED
    BY <2>1, <2>2
<1>3. ASSUME NEW L, Lost(L)
      PROVE  /\ \A m \in links' : m.mode = "original" => m \in links
             /\ \A c \in severed', k \in 1 .. Len(events') :
                  Shows(k, Direct(c))' => k \in 1 .. Len(events) /\ Shows(k, Direct(c))
  <2>1. \A k \in 1 .. Len(events') : k \notin 1 .. Len(events) => events'[k].type = "removed"
    BY <1>1, <1>3, Messages DEF Lost
  <2>2. \A k \in 1 .. Len(events) : k \in 1 .. Len(events') /\ events'[k] = events[k]
    BY <1>3 DEF Lost, Longer
  <2>3. \A m \in links' : m \in links
    BY <1>3 DEF Lost
  <2> QED
    BY <2>1, <2>2, <2>3 DEF Shows
<1>4. CASE Others
  <2>1. /\ requests' = requests
        /\ \/ \E c \in Channels : \E l :
                Made(l) /\ l.ends = Direct(c) /\ l.mode = "other" /\ severed' = severed \ {c}
           \/ (\E L : Lost(L)) /\ severed' \subseteq severed
           \/ UNCHANGED <<links, events, severed>>
    BY <1>4, OthersCases
  <2>2. CASE \E c \in Channels : \E l :
               Made(l) /\ l.ends = Direct(c) /\ l.mode = "other" /\ severed' = severed \ {c}
    <3>1. PICK c \in Channels :
            \E l : Made(l) /\ l.ends = Direct(c) /\ l.mode = "other" /\ severed' = severed \ {c}
      BY <2>2
    <3>2. PICK l : Made(l) /\ l.ends = Direct(c) /\ l.mode = "other"
      BY <3>1
    <3>3. severed' \subseteq severed /\ \A d \in severed' : Direct(d) # l.ends
      BY <3>1, <3>2, Ranks
    <3> QED
      BY <1>2, <2>1, <3>2, <3>3
  <2>3. CASE (\E L : Lost(L)) /\ severed' \subseteq severed
    BY <1>3, <2>1, <2>3
  <2>4. CASE UNCHANGED <<links, events, severed>>
    BY <2>1, <2>4 DEF Shows
  <2> QED
    BY <2>1, <2>2, <2>3, <2>4
<1>5. CASE Serve
  <2> DEFINE r == Head(requests)
  <2>1. requests # <<>> /\ requests' = Tail(requests) /\ r \in Requests /\ requests \in Seq(Requests)
    BY <1>5, ServeCases DEF GraphInv, TypeInv
  <2>2. /\ r = requests[1] /\ 1 \in 1 .. Len(requests)
        /\ \A k \in 1 .. Len(requests') : k + 1 \in 1 .. Len(requests) /\ requests'[k] = requests[k + 1]
    BY <2>1, Served
  <2>3. \/ r.type = "create" /\ UNCHANGED <<links, events, severed>>
        \/ /\ r.type = "create"
           /\ \E l : Made(l) /\ l.ends = r.ends /\ l.mode = r.mode
           /\ severed' = severed \ {c \in Channels : Direct(c) = r.ends}
        \/ /\ r.type = "drop" /\ severed' = severed
           /\ Lost({l \in links : l.ends = r.ends /\ l.mode = "held"})
        \/ /\ r.type = "destroy" /\ Lost({l \in links : l.id = r.id})
           /\ severed' = severed \cup
                {c \in alive : \E l \in links :
                   l.id = r.id /\ l.ends = Direct(c) /\ l.mode = "original"}
    BY <1>5, ServeCases
  <2>4. r.type = "create" => r.mode # "original"
    BY <2>2 DEF GraphInv, ServerInv, ProperRequest
  <2>5. r.type = "destroy" => r = Destroy(r.id)
    BY <2>1, RequestCases
  <2>6. severed \subseteq Channels
    BY DEF GraphInv, TypeInv
  <2> HIDE DEF r
  <2>7. \A k \in 1 .. Len(requests') : \E j \in 1 .. Len(requests) : requests'[k] = requests[j]
    BY <2>2
  <2>8. CASE r.type = "create" /\ UNCHANGED <<links, events, severed>>
    BY <2>7, <2>8 DEF Shows
  <2>9. CASE /\ r.type = "create"
             /\ \E l : Made(l) /\ l.ends = r.ends /\ l.mode = r.mode
             /\ severed' = severed \ {c \in Channels : Direct(c) = r.ends}
    <3>1. PICK l : Made(l) /\ l.ends = r.ends /\ l.mode = r.mode
      BY <2>9
    <3>2. severed' \subseteq severed /\ \A d \in severed' : Direct(d) # l.ends
      BY <2>6, <2>9, <3>1
    <3> QED
      BY <1>2, <2>4, <2>7, <2>9, <3>1, <3>2
  <2>10. CASE severed' = severed /\ Lost({l \in links : l.ends = r.ends /\ l.mode = "held"})
    BY <1>3, <2>7, <2>10
  <2>11. CASE /\ r.type = "destroy" /\ Lost({l \in links : l.id = r.id})
              /\ severed' = severed \cup
                   {c \in alive : \E l \in links :
                      l.id = r.id /\ l.ends = Direct(c) /\ l.mode = "original"}
    <3>1. ASSUME NEW c \in severed', c \notin severed
          PROVE  \E l \in links : /\ l.mode = "original" /\ l.ends = Direct(c)
                                  /\ \E j \in 1 .. Len(requests) : requests[j] = Destroy(l.id)
      <4>1. PICK l \in links : l.id = r.id /\ l.ends = Direct(c) /\ l.mode = "original"
        BY <2>11, <3>1
      <4>2. requests[1] = Destroy(l.id)
        BY <2>2, <2>5, <2>11, <4>1
      <4> QED
        BY <2>2, <4>1, <4>2
    <3> QED
      BY <1>3, <2>7, <2>11, <3>1
  <2> QED
    BY <2>3, <2>8, <2>9, <2>10, <2>11
<1> QED
  BY <1>4, <1>5

\* The server and others keep a route's severed channels wanted and unseen.
LEMMA SeveredServe ==
  ASSUME GraphInv, OriginalInv, SeveredInv, Serve \/ Others
  PROVE  SeveredInv'
<1> SUFFICES ASSUME ~late', ~failed' PROVE SeveredInv'
  BY DEF SeveredInv
<1>1. UNCHANGED <<mirror, pc, plan, wanted, late, failed>>
  BY WorldCases
<1>2. /\ pc \in {"idle", "stage"} => severed = {}
      /\ \A c \in severed, k \in 1 .. Len(events) : ~Shows(k, Direct(c))
      /\ pc = "remove" => \A c \in severed, x \in mirror : x.ends = Direct(c) => x \in plan
      /\ pc \in {"rollback", "active", "bypass"} => \A c \in severed : Direct(c) \notin Ends(mirror)
      /\ Restoring => \A c \in severed : Direct(c) \in wanted
      /\ pc # "remove" => \A l \in links : l.mode = "original" =>
           \A k \in 1 .. Len(requests) : requests[k] # Destroy(l.id)
  BY <1>1 DEF SeveredInv
<1>3. /\ \A l \in links' : l.mode = "original" => l \in links
      /\ \A k \in 1 .. Len(requests') : \E j \in 1 .. Len(requests) : requests'[k] = requests[j]
      /\ \A c \in severed', k \in 1 .. Len(events') :
           Shows(k, Direct(c))' => k \in 1 .. Len(events) /\ Shows(k, Direct(c))
  BY SeveredWorld
<1>4. ASSUME NEW c \in severed', c \notin severed
      PROVE  /\ pc = "remove"
             /\ \A x \in mirror : x.ends = Direct(c) => x \in plan
             /\ \A k \in 1 .. Len(events) : ~Shows(k, Direct(c))
  <2>1. PICK l \in links : /\ l.mode = "original" /\ l.ends = Direct(c)
                           /\ \E j \in 1 .. Len(requests) : requests[j] = Destroy(l.id)
    BY <1>4, SeveredWorld
  <2>2. pc = "remove"
    BY <1>2, <2>1
  <2> QED
    BY <1>1, <2>1, <2>2 DEF OriginalInv
<1>5. \A c \in severed', k \in 1 .. Len(events') : ~Shows(k, Direct(c))'
  BY <1>2, <1>3, <1>4
<1>6. pc # "remove" => severed' \subseteq severed
  BY <1>4
<1>7. pc = "remove" => \A c \in severed', x \in mirror : x.ends = Direct(c) => x \in plan
  BY <1>2, <1>4
<1>8. pc # "remove" => \A l \in links' : l.mode = "original" =>
        \A k \in 1 .. Len(requests') : requests'[k] # Destroy(l.id)
  BY <1>2, <1>3
<1>9. /\ pc \in {"idle", "stage"} => severed' = {}
      /\ pc \in {"rollback", "active", "bypass"} => \A c \in severed' : Direct(c) \notin Ends(mirror)
      /\ Restoring => \A c \in severed' : Direct(c) \in wanted
  BY <1>2, <1>6 DEF Restoring
<1> QED
  BY <1>1, <1>5, <1>7, <1>8, <1>9 DEF SeveredInv, Ends, Restoring

\* So does the mirror.
LEMMA SeveredDeliver ==
  ASSUME GraphInv, SeveredInv, Deliver
  PROVE  SeveredInv'
<1> SUFFICES ASSUME ~late', ~failed' PROVE SeveredInv'
  BY DEF SeveredInv
<1>1. /\ UNCHANGED <<links, requests, pc, plan, wanted, late, failed, severed>> /\ 1 \in 1 .. Len(events)
      /\ \A k \in 1 .. Len(events') : k + 1 \in 1 .. Len(events) /\ events'[k] = events[k + 1]
      /\ mirror' = CASE events[1].type = "added"   -> mirror \cup {events[1].link}
                     [] events[1].type = "removed" -> {l \in mirror : l.id # events[1].id}
                     [] OTHER                      -> mirror
  BY Delivered
<1>2. /\ pc \in {"idle", "stage"} => severed = {}
      /\ \A c \in severed, k \in 1 .. Len(events) : ~Shows(k, Direct(c))
      /\ pc = "remove" => \A c \in severed, x \in mirror : x.ends = Direct(c) => x \in plan
      /\ pc \in {"rollback", "active", "bypass"} => \A c \in severed : Direct(c) \notin Ends(mirror)
      /\ Restoring => \A c \in severed : Direct(c) \in wanted
      /\ pc # "remove" => \A l \in links : l.mode = "original" =>
           \A k \in 1 .. Len(requests) : requests[k] # Destroy(l.id)
  BY <1>1 DEF SeveredInv
<1>3. \A x \in mirror' : x \in mirror \/ (events[1].type = "added" /\ x = events[1].link)
  <2>1. CASE events[1].type = "added"
    BY <1>1, <2>1
  <2>2. CASE events[1].type = "removed"
    BY <1>1, <2>2
  <2>3. CASE events[1].type # "added" /\ events[1].type # "removed"
    BY <1>1, <2>3
  <2> QED
    BY <2>1, <2>2, <2>3
<1>4. \A c \in severed, x \in mirror' : x.ends = Direct(c) => x \in mirror
  BY <1>1, <1>2, <1>3 DEF Shows
<1>5. \A c \in severed, k \in 1 .. Len(events') : ~Shows(k, Direct(c))'
  BY <1>1, <1>2 DEF Shows
<1>6. pc = "remove" => \A c \in severed, x \in mirror' : x.ends = Direct(c) => x \in plan
  BY <1>2, <1>4
<1>7. pc \in {"rollback", "active", "bypass"} => \A c \in severed : Direct(c) \notin Ends(mirror')
  BY <1>2, <1>4 DEF Ends
<1> QED
  BY <1>1, <1>2, <1>5, <1>6, <1>7 DEF SeveredInv, Ends, Restoring

\* The transitions of a route: what is severed when a cutover fails is wanted back,
\* and when it is back the restoration has ended.
LEMMA SeveredDaemon ==
  ASSUME GraphInv, FollowInv, OriginalInv, PlanInv, SeveredInv, Install \/ Leave
  PROVE  SeveredInv'
<1> SUFFICES ASSUME ~late', ~failed' PROVE SeveredInv'
  BY DEF SeveredInv
<1> DEFINE Unasked == \A l \in links : l.mode = "original" =>
                        \A k \in 1 .. Len(requests) : requests[k] # Destroy(l.id)
<1>1. ASSUME ~late, ~failed
      PROVE  /\ pc \in {"idle", "stage"} => severed = {}
             /\ \A c \in severed, k \in 1 .. Len(events) : ~Shows(k, Direct(c))
             /\ pc = "remove" => \A c \in severed, x \in mirror : x.ends = Direct(c) => x \in plan
             /\ pc \in {"rollback", "active", "bypass"} => \A c \in severed : Direct(c) \notin Ends(mirror)
             /\ Restoring => \A c \in severed : Direct(c) \in wanted
             /\ pc # "remove" => Unasked
  BY <1>1 DEF SeveredInv
<1>2. ASSUME pc' # "stage", severed' = {}, Unasked' PROVE SeveredInv'
  BY <1>2 DEF SeveredInv
<1>3. \A E : E \subseteq Directs(Channels) =>
        \A k \in 1 .. Len(Creates(E, "linger")) : \A i : Creates(E, "linger")[k] # Destroy(i)
  <2> SUFFICES ASSUME NEW E, E \subseteq Directs(Channels), NEW k \in 1 .. Len(Creates(E, "linger")), NEW i
               PROVE  Creates(E, "linger")[k] # Destroy(i)
    OBVIOUS
  <2>1. E \subseteq AllEnds /\ "linger" \in Modes
    BY DEF AllEnds, Modes
  <2>2. \E e \in E : Creates(E, "linger")[k] = Create(e, "linger")
    BY <2>1, CreatesFacts
  <2> QED
    BY <2>2, Messages
<1>4. \A k \in 1 .. Len(DropReplacements) : \A i : DropReplacements[k] # Destroy(i)
  BY DropsFacts, Messages
<1>5. ASSUME NEW X, Sends(X), \A k \in 1 .. Len(X) : \A i : X[k] # Destroy(i),
             Unasked \/ (\A l \in links : l.mode # "original") \/ requests = <<>>
      PROVE  Unasked'
  <2>1. /\ links' = links
        /\ \A k \in 1 .. Len(requests') :
             \/ \E j \in 1 .. Len(requests) : requests'[k] = requests[j]
             \/ \E j \in 1 .. Len(X) : requests'[k] = X[j]
    <3>1. links' = links /\ Joins(requests', requests, X)
      BY <1>5 DEF Sends
    <3> QED
      BY <3>1, JoinedFrom
  <2>2. CASE Unasked
    BY <1>5, <2>1, <2>2
  <2>3. CASE \A l \in links : l.mode # "original"
    BY <2>1, <2>3
  <2>4. CASE requests = <<>>
    <3>1. 1 .. Len(requests) = {}
      BY <2>4
    <3> QED
      BY <1>5, <2>1, <3>1
  <2> QED
    BY <1>5, <2>2, <2>3, <2>4
<1>6. ASSUME NEW X \in Seq(Requests), NEW m \in {"other", "stray"}, LetGo(m, X), Unasked,
             \A k \in 1 .. Len(X) : \A i : X[k] # Destroy(i)
      PROVE  Unasked'
  <2> DEFINE q == MarkedRequests({"linger"}, m)
  <2>1. m \in Modes /\ m # "held" /\ m # "original" /\ "held" \notin {"linger"}
    BY DEF Modes
  <2>2. links' = MarkedLinks({"linger"}, m) /\ Joins(requests', q, X)
    BY <1>6, <2>1, LettingGo
  <2>3. /\ Len(q) = Len(requests)
        /\ \A k \in 1 .. Len(requests) :
             /\ requests[k].type # "create" => q[k] = requests[k]
             /\ q[k].type = requests[k].type
    BY <2>1, MarkedQueue
  <2> HIDE DEF q
  <2>4. \A l \in links' : l.mode = "original" => \E k \in links : l.id = k.id /\ k.mode = "original"
    <3>1. \A l \in links' : \E k \in links : l.id = k.id /\ l.mode = IF k.mode \in {"linger"} THEN m ELSE k.mode
      BY <2>1, <2>2, MarkedSame
    <3> QED
      BY <2>1, <3>1
  <2>5. ASSUME NEW l \in links', l.mode = "original", NEW k \in 1 .. Len(q) PROVE q[k] # Destroy(l.id)
    <3>1. PICK n \in links : l.id = n.id /\ n.mode = "original"
      BY <2>4, <2>5
    <3>2. k \in 1 .. Len(requests) /\ requests[k] # Destroy(l.id)
      BY <1>6, <2>3, <3>1
    <3> QED
      BY <2>3, <3>2, Messages
  <2>6. \A k \in 1 .. Len(requests') :
          (\E j \in 1 .. Len(q) : requests'[k] = q[j]) \/ (\E j \in 1 .. Len(X) : requests'[k] = X[j])
    BY <2>2, JoinedFrom
  <2> QED
    BY <1>6, <2>5, <2>6
<1>7. CASE Stage
  <2>1. Drained /\ severed' = severed /\ pc' = "stage"
    BY <1>7 DEF Stage
  <2>2. Directs(Channels) \subseteq Ends(mirror)
    BY <1>7 DEF Stage
  <2>3. severed = {}
    <3> SUFFICES ASSUME NEW c \in severed PROVE FALSE
      OBVIOUS
    <3>1. c \in Channels
      BY DEF GraphInv, TypeInv
    <3>2. PICK x \in mirror : x.ends = Direct(c)
      BY <2>2, <3>1 DEF Directs, Ends
    <3>3. PICK l \in links : Seen(l) = x
      BY <2>1, <3>2, MirrorExact
    <3> QED
      BY <3>2, <3>3, Messages DEF GraphInv, ServerInv
  <2> DEFINE q == MarkedRequests({"stray"}, "other")
  <2> DEFINE X == Creates(Replacements, "held")
  <2>4. requests' = q \o X
    BY <1>7 DEF Stage
  <2>5. q \in Seq(Requests) /\ Len(q) = Len(requests)
    BY MarkedQueue DEF Modes
  <2>6. X \in Seq(Requests) /\ \A k \in 1 .. Len(X) : \E e \in Replacements : X[k] = Create(e, "held")
    BY CreatesFacts DEF AllEnds, Modes
  <2> HIDE DEF q, X
  <2>7. /\ 1 .. Len(q) = {}
        /\ \A k \in 1 .. Len(requests') :
             (\E j \in 1 .. Len(q) : requests'[k] = q[j]) \/ (\E j \in 1 .. Len(X) : requests'[k] = X[j])
    <3>1. Joins(requests', q, X)
      BY <2>4, <2>5, <2>6, Joined
    <3>2. Len(q) = 0
      BY <2>1, <2>5 DEF Drained
    <3> QED
      BY <3>1, <3>2, JoinedFrom
  <2>8. \A k \in 1 .. Len(X) : \A i : X[k] # Destroy(i)
    BY <2>6, Messages
  <2>9. \A k \in 1 .. Len(requests') : \A i : requests'[k] # Destroy(i)
    BY <2>7, <2>8
  <2>10. Unasked'
    BY <2>9
  <2> QED
    BY <2>1, <2>3, <2>10 DEF SeveredInv, Restoring
<1>8. CASE CutOver
  <2>1. severed' = {} /\ pc' = "remove"
    BY <1>1, <1>8 DEF CutOver
  <2> QED
    BY <2>1 DEF SeveredInv, Restoring
<1>9. CASE StageFailed
  <2>1. severed' = {} /\ pc' = "idle" /\ Unasked
    BY <1>1, <1>9 DEF StageFailed, Deadline, GraphInv, TypeInv
  <2>2. Unasked'
    BY <1>4, <1>5, <1>9, <2>1, SendCases
  <2> QED
    BY <1>2, <2>1, <2>2
<1>10. CASE Release
  <2>1. severed' = {} /\ pc' = "idle" /\ Unasked
    BY <1>1, <1>10 DEF Release
  <2>2. Unasked'
    BY <1>4, <1>5, <1>10, <2>1, SendCases
  <2> QED
    BY <1>2, <2>1, <2>2
<1>11. ASSUME pc = "remove", ~late, ~failed, LinksAbsent(plan)
       PROVE  /\ \A c \in severed : Direct(c) \notin Ends(mirror)
              /\ \A l \in links : l.mode # "original"
  <2>1. \A c \in severed, x \in mirror : x.ends = Direct(c) => x \in plan
    BY <1>1, <1>11
  <2>2. \A c \in severed : Direct(c) \notin Ends(mirror)
    BY <1>11, <2>1 DEF LinksAbsent, Ends
  <2>3. \A l \in links : l.mode # "original"
    BY <1>11, OriginalsGone
  <2> QED
    BY <2>2, <2>3
<1>12. \A c \in severed : Direct(c) \in Directs(Channels)
  BY DEF GraphInv, TypeInv, Directs
<1>13. CASE Activate
  <2>1. /\ UNCHANGED <<links, requests, events, mirror, late, failed, severed>>
        /\ pc = "remove" /\ LinksAbsent(plan) /\ pc' = "active"
    BY <1>13 DEF Activate, server, queues
  <2>2. /\ \A c \in severed : Direct(c) \notin Ends(mirror)
        /\ \A l \in links : l.mode # "original"
        /\ \A c \in severed, k \in 1 .. Len(events) : ~Shows(k, Direct(c))
    BY <1>1, <1>11, <2>1
  <2> QED
    BY <2>1, <2>2 DEF SeveredInv, Restoring, Shows, Ends
<1>14. CASE NotActivated
  <2>1. /\ pc = "remove" /\ LinksAbsent(plan) /\ pc' = "rollback" /\ wanted' = Ends(plan)
        /\ UNCHANGED <<late, failed, severed, events, mirror>>
    BY <1>14 DEF NotActivated, RestoreLinks
  <2>2. /\ \A c \in severed : Direct(c) \notin Ends(mirror)
        /\ \A l \in links : l.mode # "original"
        /\ \A c \in severed, k \in 1 .. Len(events) : ~Shows(k, Direct(c))
    BY <1>1, <1>11, <2>1
  <2>3. Ends(plan) = Directs(Channels)
    BY <2>1 DEF PlanInv
  <2>4. Unasked'
    BY <1>3, <1>5, <1>14, <2>2, <2>3, SendCases
  <2> QED
    BY <1>12, <2>1, <2>2, <2>3, <2>4 DEF SeveredInv, Restoring, Shows, Ends
<1>15. CASE Restore
  <2>1. /\ pc = "active" /\ pc' = "bypass" /\ wanted' = Ends(plan)
        /\ UNCHANGED <<late, failed, severed, events, mirror>>
    BY <1>15 DEF Restore, RestoreLinks
  <2>2. /\ \A c \in severed : Direct(c) \notin Ends(mirror)
        /\ Unasked
        /\ \A c \in severed, k \in 1 .. Len(events) : ~Shows(k, Direct(c))
    BY <1>1, <2>1
  <2>3. Ends(plan) = Directs(Channels)
    BY <2>1 DEF PlanInv
  <2>4. Unasked'
    BY <1>3, <1>5, <1>15, <2>2, <2>3, SendCases
  <2> QED
    BY <1>12, <2>1, <2>2, <2>3, <2>4 DEF SeveredInv, Restoring, Shows, Ends
<1>16. CASE RemovalFailed
  <2>1. /\ pc = "remove" /\ ~late /\ Drained /\ UNCHANGED <<failed, severed, events, mirror>>
        /\ \/ Missing # {} /\ pc' = "rollback" /\ wanted' = Missing
           \/ Missing = {} /\ pc' = "idle"
    BY <1>16 DEF RemovalFailed, RestoreLinks, Deadline, GraphInv, TypeInv
  <2>2. 1 .. Len(events') = {} /\ requests = <<>>
    BY <2>1 DEF Drained
  <2>3. \A c \in severed : Direct(c) \notin Ends(mirror)
    <3> SUFFICES ASSUME NEW c \in severed, NEW x \in mirror, x.ends = Direct(c) PROVE FALSE
      BY DEF Ends
    <3>1. PICK l \in links : Seen(l) = x
      BY <2>1, MirrorExact
    <3> QED
      BY <3>1, Messages DEF GraphInv, ServerInv
  <2>4. \A c \in severed : Direct(c) \in Missing
    <3> SUFFICES ASSUME NEW c \in severed PROVE Direct(c) \in Missing
      OBVIOUS
    <3>1. Direct(c) \in Ends(plan)
      BY <1>12, <2>1 DEF PlanInv
    <3>2. PICK x \in plan : x.ends = Direct(c)
      BY <3>1 DEF Ends
    <3>3. x \notin mirror
      BY <2>3, <3>2 DEF Ends
    <3> QED
      BY <3>2, <3>3 DEF Missing, Ends
  <2>5. Missing \subseteq Directs(Channels)
    BY DEF GraphInv, TypeInv, Missing, Ends
  <2>6. Sends(Creates(Missing, "linger")) \/ Sends(DropReplacements)
    BY <1>16, SendCases
  <2>7. Unasked'
    BY <1>3, <1>4, <1>5, <2>2, <2>5, <2>6
  <2> QED
    BY <2>1, <2>2, <2>3, <2>4, <2>7 DEF SeveredInv, Restoring, Ends
<1>17. ASSUME Restoring, LinksPresent(wanted), ~late, ~failed PROVE severed = {} /\ Unasked
  <2>1. \A c \in severed : Direct(c) \in wanted /\ Direct(c) \notin Ends(mirror)
    BY <1>1, <1>17 DEF Restoring
  <2>2. Unasked
    BY <1>1, <1>17 DEF Restoring
  <2> QED
    BY <1>17, <2>1, <2>2 DEF LinksPresent
<1>18. CASE RolledBack \/ Bypassed
  <2>1. /\ LetGo("other", DropReplacements) /\ pc' = "idle"
        /\ UNCHANGED <<late, failed, severed>>
    BY <1>18, LetGoCases
  <2>2. Restoring /\ LinksPresent(wanted)
    BY <1>18 DEF RolledBack, Bypassed, Restoring
  <2>3. severed = {} /\ Unasked
    BY <1>17, <2>1, <2>2
  <2>4. Unasked'
    BY <1>4, <1>6, <2>1, <2>3, DropsFacts
  <2> QED
    BY <1>2, <2>1, <2>3, <2>4
<1>19. CASE NotDeactivated
  <2>1. /\ LetGo("other", <<>>) /\ <<>> \in Seq(Requests) /\ Len(<<>>) = 0 /\ pc' = "active"
        /\ UNCHANGED <<late, failed, severed>>
    BY <1>19, LetGoCases
  <2>2. Restoring /\ LinksPresent(wanted)
    BY <1>19 DEF NotDeactivated, Restoring
  <2>3. severed = {} /\ Unasked
    BY <1>17, <2>1, <2>2
  <2>4. \A k \in 1 .. Len(<<>>) : \A i : <<>>[k] # Destroy(i)
    BY <2>1
  <2>5. Unasked'
    BY <1>6, <2>1, <2>3, <2>4
  <2> QED
    BY <1>2, <2>1, <2>3, <2>5
<1>20. CASE Unconfirmed
  BY <1>20 DEF Unconfirmed
<1> QED
  BY <1>7, <1>8, <1>9, <1>10, <1>13, <1>14, <1>15, <1>16, <1>18, <1>19, <1>20 DEF Install, Leave

\* Every step keeps it so.
LEMMA SeveredStep ==
  GraphInv /\ FollowInv /\ OriginalInv /\ PlanInv /\ SeveredInv /\ [Next]_vars => SeveredInv'
<1>1. SeveredInv /\ UNCHANGED vars => SeveredInv'
  BY DEF SeveredInv, Shows, Ends, Restoring, vars, server, queues, route
<1> QED
  BY <1>1, SeveredServe, SeveredDeliver, SeveredDaemon DEF Next

-----------------------------------------------------------------------------
(* The theorems *)

\* What is true of the backend in every state.
LinkInv ==
  /\ GraphInv /\ FollowInv /\ DropInv /\ OriginalInv
  /\ BoundInv /\ StrayInv /\ PlanInv /\ SeveredInv

\* At first nothing is under way and the mirror has what there is.
LEMMA LinkInit == Init => LinkInv
<1> SUFFICES ASSUME Init PROVE LinkInv
  OBVIOUS
<1>1. PICK id \in {f \in [Channels -> Ids] : IsInjective(f)} :
        links = {[id |-> id[c], ends |-> Direct(c), mode |-> "other"] : c \in Channels}
  BY DEF Init
<1>2. \A c, d \in Channels : id[c] \in Ids /\ (id[c] = id[d] => c = d)
  BY <1>1 DEF IsInjective
<1>3. \A l \in links : /\ IsLink(l) /\ l.mode = "other"
                        /\ \E c \in Channels : l.id = id[c] /\ l.ends = Direct(c)
  BY <1>1, <1>2 DEF IsLink, Modes, AllEnds, Directs
<1>4. /\ mirror = {Seen(l) : l \in links} /\ requests = <<>> /\ events = <<>> /\ bound = {}
      /\ pc = "idle" /\ plan = {} /\ wanted = {} /\ late = FALSE /\ failed = FALSE /\ severed = {}
      /\ alive = Channels
  BY DEF Init
<1>5. Proper(links)
  <2>1. \A l, m \in links : l.id = m.id \/ l.ends = m.ends => l = m
    <3> SUFFICES ASSUME NEW l \in links, NEW m \in links, l.id = m.id \/ l.ends = m.ends PROVE l = m
      OBVIOUS
    <3>1. PICK c \in Channels : l.id = id[c] /\ l.ends = Direct(c)
      BY <1>3
    <3>2. PICK d \in Channels : m.id = id[d] /\ m.ends = Direct(d)
      BY <1>3
    <3>3. c = d
      BY <1>2, <3>1, <3>2, Ranks
    <3>4. l.mode = m.mode /\ IsLink(l) /\ IsLink(m)
      BY <1>3
    <3> QED
      BY <3>1, <3>2, <3>3, <3>4 DEF IsLink
  <2>2. \A l \in links : l.ends \notin Replacements
    BY <1>3, Ranks DEF AllEnds, Directs
  <2> QED
    BY <1>3, <2>1, <2>2 DEF Proper
<1>6. 1 .. Len(requests) = {} /\ 1 .. Len(events) = {}
  BY <1>4
<1>7. GraphInv
  <2>1. mirror \subseteq Sights
    BY <1>3, <1>4, Messages, SightFacts DEF IsLink, Seen, Sights
  <2>2. requests \in Seq(Requests) /\ events \in Seq(Events)
    BY <1>4
  <2> QED
    BY <1>3, <1>4, <1>5, <1>6, <2>1, <2>2 DEF GraphInv, TypeInv, ServerInv, Ends
<1>8. FollowInv
  BY <1>4, <1>6 DEF FollowInv, Expected
<1>9. DropInv
  <2>1. \A e \in Replacements : e \notin Ends(links)
    BY <1>3, Ranks DEF AllEnds, Directs, Ends
  <2> QED
    BY <1>6, <2>1 DEF DropInv
<1>10. BoundInv
  <2>1. Quiet
    BY <1>3, <1>4, <1>6 DEF Quiet
  <2> QED
    BY <2>1, QuietBound
<1>11. OriginalInv /\ StrayInv /\ PlanInv /\ SeveredInv
  BY <1>3, <1>4, <1>6 DEF OriginalInv, StrayInv, PlanInv, SeveredInv, Restoring
<1> QED
  BY <1>7, <1>8, <1>9, <1>10, <1>11 DEF LinkInv

\* The invariant of the backend: what is there and what is under way agree.
THEOREM LinkCorrect == Spec => []LinkInv
<1>1. LinkInv /\ [Next]_vars => LinkInv'
  BY GraphStep, FollowStep, DropStep, OriginalStep, BoundStep, StrayStep, PlanStep, SeveredStep
     DEF LinkInv
<1> QED
  BY <1>1, LinkInit, PTL DEF Spec

\* A stream without a route ends up without links to or from its filter, also those
\* made after the daemon stopped waiting (RouteBackend::create_links, bypass, release).
THEOREM NoReplacementCorrect == Spec => []NoReplacementLeft
<1>1. LinkInv => NoReplacementLeft
  <2> SUFFICES ASSUME LinkInv, pc = "idle", Drained, NEW e \in Replacements, e \in Ends(links)
               PROVE  FALSE
    BY DEF NoReplacementLeft
  <2>1. \E m \in 1 .. Len(requests) : requests[m] = Drop(e)
    BY DEF LinkInv, DropInv
  <2>2. 1 .. Len(requests) = {}
    BY DEF Drained
  <2> QED
    BY <2>1, <2>2
<1> QED
  BY <1>1, LinkCorrect, PTL

\* The filter starts only when the originals are gone from the server, unless the plan
\* was drawn from a mirror that was behind (remove_originals, set_filter_active).
THEOREM CutoverCorrect == Spec => CutoverComplete
<1>1. LinkInv /\ [Next]_vars =>
        [pc = "remove" /\ pc' = "active" /\ ~late => \A l \in links : l.mode # "original"]_vars
  <2> SUFFICES ASSUME LinkInv, Next, pc = "remove", pc' = "active", ~late
               PROVE  \A l \in links : l.mode # "original"
    OBVIOUS
  <2>1. ~Serve /\ ~Others
    BY WorldCases DEF LinkInv
  <2>2. ~Deliver
    BY Delivered DEF LinkInv
  <2>3. LinksAbsent(plan)
    BY <2>1, <2>2 DEF Next, Install, Leave, Stage, CutOver, StageFailed, Activate, NotActivated,
       RemovalFailed, RolledBack, Restore, Bypassed, NotDeactivated, Unconfirmed, Release, RestoreLinks
  <2> QED
    BY <2>3, OriginalsGone DEF LinkInv
<1> QED
  BY <1>1, LinkCorrect, PTL DEF Spec, CutoverComplete

\* A stream whose route was given up has every direct link the daemon took away, unless
\* a wait ended early or the restoration was refused (rollback, restore_missing, bypass).
THEOREM AbandonedCorrect == Spec => []AbandonedRestored
<1>1. LinkInv => AbandonedRestored
  BY DEF LinkInv, SeveredInv, AbandonedRestored
<1> QED
  BY <1>1, LinkCorrect, PTL

\* Nothing is left of a restoration that was not confirmed, once the server has
\* answered all of it (create_confirmed_with, destroy_globals).
THEOREM LingeringCorrect == Spec => []LingeringDestroyed
<1>1. LinkInv => LingeringDestroyed
  <2> SUFFICES ASSUME LinkInv, Drained, ~late, NEW l \in links, l.mode = "stray"
               PROVE  FALSE
    BY DEF LingeringDestroyed
  <2>1. \E k \in 1 .. Len(requests) : requests[k] = Destroy(l.id)
    BY DEF LinkInv, StrayInv
  <2>2. 1 .. Len(requests) = {}
    BY DEF Drained
  <2> QED
    BY <2>1, <2>2
<1> QED
  BY <1>1, LinkCorrect, PTL

=============================================================================
