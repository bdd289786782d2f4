-------------------------- MODULE DiscoveryProofs --------------------------
(***************************************************************************)
(* Proofs about StreamDiscovery for every set of node ids, applications,   *)
(* layouts and policies, and for all settling times longer than the        *)
(* announcement of a stream.                                               *)
(***************************************************************************)
EXTENDS StreamDiscovery, TLAPS

USE TimesAssumption, NoneAssumption

(***************************************************************************)
(* The inductive invariant.  A filter is made of what the settler saw at   *)
(* several ticks; that it is the stream's whole layout and the             *)
(* application's own policy follows from the ages: a candidate older than  *)
(* the stream has seen a stream that was announced when it grew older.     *)
(***************************************************************************)

\* What the daemon keeps of a filter and of a candidate.
IsFilter(m) ==
  \E channels, state, health, joinable :
    m = [channels |-> channels, state |-> state, health |-> health, joinable |-> joinable]

\* A candidate is no older than its interval.
IsCandidate(c) == \E r, a : c = [readiness |-> r, age |-> a] /\ a \in 0 .. SettleFor(r)

\* A layout, and for how long it has been found.
IsLayout(f) == \E channels, a : f = [channels |-> channels, age |-> a] /\ a \in Nat

\* The types of what the steps read; young never exceeds an announcement.
TypeInv ==
  /\ identity \in [Ids -> Apps \cup {Anonymous, None}]
  /\ informed \in [Ids -> BOOLEAN]
  /\ young \in [Ids -> 0 .. Announce]
  /\ DOMAIN layout = Ids /\ DOMAIN ports = Ids
  /\ DOMAIN changed = Ids /\ DOMAIN vacant = Ids
  /\ DOMAIN managed = Ids /\ \A n \in Ids : managed[n] # None => IsFilter(managed[n])
  /\ \A n \in Ids : candidates[n] # None => IsCandidate(candidates[n])
  /\ \A n \in Ids : IsLayout(steady[n])

\* A stream has been announced before its info arrives, an id found without a
\* stream is forgotten, and a candidate that becomes a filter is dropped.
MemoryInv ==
  \A n \in Ids :
    /\ informed[n] => Present(n)
    /\ vacant[n] => ~Present(n) /\ managed[n] = None /\ skipped[n] = None /\ candidates[n] = None
    /\ managed[n] # None => candidates[n] = None

\* A candidate of the stream that has the id is no older than the stream, or the
\* stream has been announced; its layout is complete unless it has changed since.
AgeInv ==
  \A n \in Ids :
    Present(n) /\ "owner" \notin changed[n] /\ candidates[n] # None
      /\ candidates[n].age > young[n]
    => /\ informed[n]
       /\ "ports" \notin changed[n] => young[n] = Announce /\ ports[n] = DOMAIN layout[n]

\* A stream without its info has a candidate only under a policy that covers it.
OffInv ==
  \A n \in Ids :
    Present(n) /\ "owner" \notin changed[n] /\ candidates[n] # None /\ ~informed[n] => ~Off(n)

\* An id that went to another stream has changed in every respect.
OwnerInv == \A n \in Ids : "owner" \in changed[n] => changed[n] = Everything

\* What the policy said of a stream was asked after its info arrived.
DecidedInv ==
  \A n \in Ids :
    Present(n) /\ "owner" \notin changed[n] /\ (managed[n] # None \/ skipped[n] = "policy")
    => informed[n]

\* The invariant.
DiscoveryInv ==
  /\ TypeInv /\ MemoryInv /\ AgeInv /\ OffInv /\ OwnerInv /\ DecidedInv
  /\ CompleteWhenAdopted /\ PolicyRespected

-----------------------------------------------------------------------------
\* Only a stream that has ports is ready, with all the labels it shows.
LEMMA ReadinessReady ==
  ASSUME NEW n \in Ids, Readiness(n).kind = "ready"
  PROVE  ports[n] # {} /\ Readiness(n) = ReadyWith(Labels(n, ports[n]))
<1>1. \A p, P : Problem(n, p, P).kind # "ready"
  BY DEF Problem, Pending, Fine, SkippedFor
<1>2. CASE ports[n] = {} \/ Cardinality(ports[n]) > 2
  BY <1>2 DEF Readiness, Pending, SkippedFor
<1>3. CASE ~(ports[n] = {} \/ Cardinality(ports[n]) > 2) /\ Troubled(n) = {}
  BY <1>3 DEF Readiness
<1>4. CASE ~(ports[n] = {} \/ Cardinality(ports[n]) > 2) /\ Troubled(n) # {}
  <2>1. \E p : Readiness(n) = Problem(n, p, Earlier(n, p))
    BY <1>4 DEF Readiness
  <2> QED
    BY <1>1, <2>1
<1> QED
  BY <1>2, <1>3, <1>4

\* What the settler keeps after it has seen r.
LEMMA ObservedCases ==
  ASSUME NEW n \in Ids, NEW r
  PROVE  \/ Observed(n, r) = None
         \/ Observed(n, r) = candidates[n]
         \/ Observed(n, r) = [readiness |-> r, age |-> 0]
  BY DEF Observed

-----------------------------------------------------------------------------
\* What a tick makes of a managed entry: nothing, the same, or the same filter in
\* another state.
LEMMA ReconciledCases ==
  ASSUME NEW n \in Ids, NEW failing, IsFilter(managed[n]), Reconciled(n, failing) # None
  PROVE  /\ managed[n] # None \/ Reconciled(n, failing) = managed[n]
         /\ IsFilter(Reconciled(n, failing))
         /\ Reconciled(n, failing).channels = managed[n].channels
<1>1. PICK channels, state, health, joinable :
        managed[n] = [channels |-> channels, state |-> state, health |-> health, joinable |-> joinable]
  BY DEF IsFilter
<1> DEFINE released ==
      [channels |-> channels, state |-> "connecting", health |-> "healthy", joinable |-> joinable]
<1>2. [managed[n] EXCEPT !.state = "connecting", !.health = "healthy"] = released
  <2> DEFINE moving ==
        [channels |-> channels, state |-> "connecting", health |-> health, joinable |-> joinable]
  <2>1. [managed[n] EXCEPT !.state = "connecting"] = moving
    BY <1>1
  <2>2. [moving EXCEPT !.health = "healthy"] = released
    OBVIOUS
  <2>3. [managed[n] EXCEPT !.state = "connecting", !.health = "healthy"]
          = [[managed[n] EXCEPT !.state = "connecting"] EXCEPT !.health = "healthy"]
    OBVIOUS
  <2> HIDE DEF moving
  <2> QED
    BY <2>1, <2>2, <2>3
<1> HIDE DEF released
<1>3. Reconciled(n, failing) \in {None, managed[n], released}
  BY <1>2 DEF Reconciled
<1> QED
  BY <1>1, <1>3 DEF IsFilter, Reconciled, IsActive, released

\* What connect_pending_filters makes of one: the same, or the same filter active.
LEMMA ConnectedCases ==
  ASSUME NEW n \in Ids, NEW outcome, NEW failing, IsFilter(managed[n]),
         ConnectedAs(n, outcome, failing) # None
  PROVE  /\ IsFilter(ConnectedAs(n, outcome, failing))
         /\ ConnectedAs(n, outcome, failing).channels = managed[n].channels
<1>1. PICK channels, state, health, joinable :
        managed[n] = [channels |-> channels, state |-> state, health |-> health, joinable |-> joinable]
  BY DEF IsFilter
<1>2. ConnectedAs(n, outcome, failing) \in
        {None, managed[n], [channels |-> channels, state |-> "active", health |-> health, joinable |-> joinable]}
  BY <1>1 DEF ConnectedAs
<1> QED
  BY <1>1, <1>2 DEF IsFilter

\* An entry of managed that was there before the step, with the same filter.
Inherited(n) ==
  managed'[n] # None =>
    /\ managed[n] # None
    /\ IsFilter(managed'[n]) /\ managed'[n].channels = managed[n].channels

\* Discovery has made it in this step.
Adopted(n) ==
  /\ Discover /\ enabled /\ Adopts(n)
  /\ managed'[n] = FilterFor(Readiness(n).channels)

\* Disturbing a route, and a filter's announcement, leave its filter as it is.
LEMMA DisturbedInherits ==
  ASSUME TypeInv, NEW n \in Ids, managed[n] # None,
         NEW v,
         \/ managed' = [managed EXCEPT ![n].health = v]
         \/ managed' = [managed EXCEPT ![n].joinable = v]
  PROVE  DOMAIN managed' = Ids /\ \A k \in Ids : Inherited(k)
<1> USE DEF TypeInv
<1>1. \A k \in Ids : managed'[k] = managed[k] => Inherited(k)
  BY DEF Inherited
<1>2. PICK channels, state, health, joinable :
        managed[n] = [channels |-> channels, state |-> state, health |-> health, joinable |-> joinable]
  BY DEF IsFilter
<1> DEFINE disturbed ==
      [channels |-> channels, state |-> state, health |-> v, joinable |-> joinable]
<1> DEFINE announced ==
      [channels |-> channels, state |-> state, health |-> health, joinable |-> v]
<1>3. [managed[n] EXCEPT !.health = v] = disturbed
  BY <1>2
<1>4. [managed[n] EXCEPT !.joinable = v] = announced
  BY <1>2
<1>5. IsFilter(disturbed) /\ disturbed.channels = channels
  BY DEF IsFilter
<1>6. IsFilter(announced) /\ announced.channels = channels
  BY DEF IsFilter
<1> HIDE DEF disturbed, announced
<1>7. /\ DOMAIN managed' = Ids
      /\ \A k \in Ids : k # n => managed'[k] = managed[k]
      /\ managed'[n] \in {disturbed, announced}
  BY <1>3, <1>4
<1>8. Inherited(n)
  BY <1>2, <1>5, <1>6, <1>7 DEF Inherited
<1> QED
  BY <1>1, <1>7, <1>8

\* Every entry of managed is inherited or adopted.
LEMMA ManagedStep ==
  ASSUME TypeInv, [Next]_vars
  PROVE  DOMAIN managed' = Ids /\ \A n \in Ids : Inherited(n) \/ Adopted(n)
<1> USE DEF TypeInv
<1>1. CASE UNCHANGED managed
  BY <1>1 DEF Inherited
<1>2. ASSUME NEW n \in Ids, NEW health, Disturbed(n, health)
      PROVE  DOMAIN managed' = Ids /\ \A k \in Ids : Inherited(k)
  <2>1. CASE IsActive(n)
    <3>1. managed[n] # None /\ managed' = [managed EXCEPT ![n].health = health]
      BY <1>2, <2>1 DEF Disturbed, IsActive
    <3> QED
      BY <3>1, DisturbedInherits
  <2>2. CASE ~IsActive(n)
    BY <1>2, <2>2 DEF Disturbed, Inherited
  <2> QED
    BY <2>1, <2>2
<1>3. CASE \E n \in Ids : Disappear(n) \/ \E l \in Layouts : Reshape(n, l)
  BY <1>2, <1>3 DEF Disappear, Reshape
<1>4. CASE \E n \in Ids, health \in {"moved", "broken"} : Disturb(n, health)
  BY <1>2, <1>4 DEF Disturb
<1>5. CASE \E n \in Ids : FilterAnnounced(n)
  BY <1>5, DisturbedInherits DEF FilterAnnounced
<1>6. CASE Survey
  <2>1. PICK failing \in SUBSET Ids :
          managed' = [n \in Ids |-> IF Present(n) THEN Reconciled(n, failing) ELSE None]
    BY <1>6 DEF Survey
  <2>2. ASSUME NEW n \in Ids, managed'[n] # None
        PROVE  /\ managed[n] # None /\ IsFilter(managed'[n])
               /\ managed'[n].channels = managed[n].channels
    <3>1. managed'[n] = Reconciled(n, failing) /\ Reconciled(n, failing) # None
      BY <2>1, <2>2
    <3>2. managed[n] # None
      BY <3>1 DEF Reconciled, IsActive
    <3> QED
      BY <3>1, <3>2, ReconciledCases
  <2> QED
    BY <2>1, <2>2 DEF Inherited
<1>7. CASE Discover
  <2>1. CASE ~enabled
    BY <1>1, <1>7, <2>1 DEF Discover, memory
  <2>2. CASE enabled
    <3>1. PICK failing \in SUBSET Ids :
            managed' = [n \in Ids |-> IF Adopts(n) /\ n \notin failing
                                      THEN FilterFor(Readiness(n).channels) ELSE managed[n]]
      BY <1>7, <2>2 DEF Discover
    <3> QED
      BY <1>7, <2>2, <3>1 DEF Inherited, Adopted
  <2> QED
    BY <2>1, <2>2
<1>8. CASE Connect
  <2>1. PICK outcome, failing :
          managed' = [n \in Ids |->
            IF Pends(n) THEN ConnectedAs(n, outcome[n], failing) ELSE managed[n]]
    BY <1>8 DEF Connect
  <2>2. ASSUME NEW n \in Ids, managed'[n] # None
        PROVE  /\ managed[n] # None /\ IsFilter(managed'[n])
               /\ managed'[n].channels = managed[n].channels
    <3>1. CASE Pends(n)
      <4>1. managed'[n] = ConnectedAs(n, outcome[n], failing)
        BY <2>1, <3>1
      <4> QED
        BY <2>2, <3>1, <4>1, ConnectedCases DEF Pends
    <3>2. CASE ~Pends(n)
      BY <2>1, <2>2, <3>2
    <3> QED
      BY <3>1, <3>2
  <2> QED
    BY <2>1, <2>2 DEF Inherited
<1>9. CASE \E failing : BypassAll(failing)
  BY <1>9 DEF BypassAll, Inherited
<1> QED
  BY <1>1, <1>3, <1>4, <1>5, <1>6, <1>7, <1>8, <1>9
  DEF Next, Announcement, Tick, Environment, Requests, vars, memory, mode, mirror, history,
      Appear, PortAnnounced, Info, Rename, Relink, Pass, Enable, Disable, Reconfigure

-----------------------------------------------------------------------------
\* A candidate that was there before the step, and did not grow older.
SameCandidate(n) == candidates'[n] = candidates[n]

\* It has grown older by one unit.
Aged(n) ==
  /\ Pass /\ candidates[n] # None
  /\ candidates'[n].readiness = candidates[n].readiness
  /\ candidates'[n].age = candidates[n].age + 1

\* The settler has made it in this step.
Inserted(n) ==
  /\ Discover /\ Considered(n) /\ ~Off(n)
  /\ candidates'[n] = [readiness |-> Readiness(n), age |-> 0]

\* What a step may leave of a candidate.
LEMMA CandidateStep ==
  ASSUME TypeInv, [Next]_vars, NEW n \in Ids, candidates'[n] # None
  PROVE  IsCandidate(candidates'[n]) /\ (SameCandidate(n) \/ Aged(n) \/ Inserted(n))
<1> USE DEF TypeInv
<1>1. CASE candidates' = candidates
  BY <1>1 DEF SameCandidate
<1>2. CASE candidates' = Cleared
  BY <1>2 DEF Cleared
<1>3. CASE Pass
  <2>1. candidates'[n] = Older(candidates[n]) /\ candidates[n] # None
    BY <1>3 DEF Pass, Older
  <2>2. PICK r, a : candidates[n] = [readiness |-> r, age |-> a] /\ a \in 0 .. SettleFor(r)
    BY <2>1 DEF IsCandidate
  <2>3. SettleFor(r) \in Nat
    BY DEF SettleFor
  <2>4. CASE a = SettleFor(r)
    BY <2>1, <2>2, <2>4 DEF Older, IsCandidate, SameCandidate
  <2>5. CASE a # SettleFor(r)
    <3>1. candidates'[n] = [readiness |-> r, age |-> a + 1]
      BY <2>1, <2>2, <2>5 DEF Older
    <3>2. a + 1 \in 0 .. SettleFor(r)
      BY <2>2, <2>3, <2>5
    <3> QED
      BY <1>3, <2>1, <2>2, <3>1, <3>2 DEF IsCandidate, Aged
  <2> QED
    BY <2>4, <2>5
<1>4. CASE Survey
  BY <1>4 DEF Survey, Retained, Kept, SameCandidate
<1>5. CASE Discover
  <2>1. CASE ~enabled
    BY <1>1, <1>5, <2>1 DEF Discover, memory
  <2>2. CASE enabled /\ ~(Considered(n) /\ ~Off(n))
    BY <1>5, <2>2 DEF Discover, SameCandidate
  <2>3. CASE enabled /\ Considered(n) /\ ~Off(n)
    <3>1. candidates'[n] = Observed(n, Readiness(n))
      BY <1>5, <2>3 DEF Discover
    <3>2. CASE candidates'[n] = candidates[n]
      BY <3>2 DEF SameCandidate
    <3>3. CASE candidates'[n] = [readiness |-> Readiness(n), age |-> 0]
      <4>1. 0 \in 0 .. SettleFor(Readiness(n))
        BY DEF SettleFor
      <4>2. IsCandidate(candidates'[n])
        BY <3>3, <4>1 DEF IsCandidate
      <4> QED
        BY <1>5, <2>3, <3>3, <4>2 DEF Inserted
    <3> QED
      BY <3>1, <3>2, <3>3, ObservedCases
  <2> QED
    BY <2>1, <2>2, <2>3
<1> QED
  BY <1>1, <1>2, <1>3, <1>4, <1>5
  DEF Next, Announcement, Tick, Environment, Requests, vars, memory,
      Appear, PortAnnounced, Info, Rename, Disappear, Reshape, Relink, Disturb, FilterAnnounced,
      Connect, Enable, Disable, Reconfigure

\* The types are inductive.
LEMMA TypeStep == TypeInv /\ [Next]_vars => TypeInv'
<1> SUFFICES ASSUME TypeInv, [Next]_vars PROVE TypeInv'
  OBVIOUS
<1>1. /\ identity' \in [Ids -> Apps \cup {Anonymous, None}]
      /\ informed' \in [Ids -> BOOLEAN] /\ young' \in [Ids -> 0 .. Announce]
      /\ DOMAIN layout' = Ids /\ DOMAIN ports' = Ids
      /\ DOMAIN changed' = Ids /\ DOMAIN vacant' = Ids
  <2> USE DEF TypeInv
  <2>1. Forgetting => DOMAIN changed' = Ids
    BY DEF Forgetting
  <2>2. CASE \E n \in Ids, a \in Apps \cup {Anonymous}, l \in Layouts : Appear(n, a, l)
    BY <2>2 DEF Appear
  <2>3. CASE \E n \in Ids : PortAnnounced(n) \/ Info(n)
    <3>1. CASE \E n \in Ids : PortAnnounced(n)
      BY <3>1 DEF PortAnnounced, history
    <3>2. ASSUME NEW n \in Ids, Info(n)
          PROVE  identity' \in [Ids -> Apps \cup {Anonymous, None}]
      <4>1. PICK a \in Apps \cup {identity[n]} : identity' = [identity EXCEPT ![n] = a]
        BY <3>2 DEF Info
      <4>2. a \in Apps \cup {Anonymous, None}
        OBVIOUS
      <4> QED
        BY <4>1, <4>2
    <3>3. ASSUME NEW n \in Ids, Info(n)
          PROVE  /\ informed' \in [Ids -> BOOLEAN] /\ young' = young /\ layout' = layout
                 /\ ports' = ports /\ changed' = changed /\ vacant' = vacant
      BY <3>3 DEF Info, history
    <3> QED
      BY <2>3, <3>1, <3>2, <3>3
  <2>4. CASE \E n \in Ids : Disappear(n)
    BY <2>4 DEF Disappear, history
  <2>5. CASE \E n \in Ids : (\E l \in Layouts : Reshape(n, l)) \/ \E a \in Apps : Rename(n, a)
    BY <2>5 DEF Reshape, Rename
  <2>6. CASE Pass
    BY <2>6 DEF Pass
  <2>7. CASE Survey
    BY <2>1, <2>7 DEF Survey
  <2>8. CASE Discover \/ Connect
    BY <2>1, <2>8 DEF Discover, Connect, mirror
  <2>9. CASE Enable \/ Disable \/ \E next \in Policies : Reconfigure(next)
    BY <2>1, <2>9 DEF Enable, Disable, Reconfigure, mirror
  <2>10. CASE UNCHANGED vars
    BY <2>10 DEF vars, mirror, history
  <2>11. CASE \E n \in Ids : \/ \E p \in Ports, count \in 0 .. 2 : Relink(n, p, count)
                           \/ \E health \in {"moved", "broken"} : Disturb(n, health)
                           \/ FilterAnnounced(n)
    BY <2>11 DEF Relink, Disturb, FilterAnnounced, mirror, history
  <2> QED
    BY <2>2, <2>3, <2>4, <2>5, <2>6, <2>7, <2>8, <2>9, <2>10, <2>11
    DEF Next, Announcement, Tick, Environment, Requests
<1>2. DOMAIN managed' = Ids /\ \A n \in Ids : managed'[n] # None => IsFilter(managed'[n])
  BY ManagedStep DEF Inherited, Adopted, FilterFor, IsFilter
<1>3. \A n \in Ids : candidates'[n] # None => IsCandidate(candidates'[n])
  BY CandidateStep
<1>4. ASSUME NEW n \in Ids PROVE IsLayout(steady'[n])
  <2>1. PICK channels, a : steady[n] = [channels |-> channels, age |-> a] /\ a \in Nat
    BY DEF TypeInv, IsLayout
  <2>2. CASE steady' = steady
    BY <2>1, <2>2 DEF IsLayout
  <2>3. CASE Pass
    <3>1. [steady[n] EXCEPT !.age = @ + 1] = [channels |-> channels, age |-> a + 1]
      BY <2>1
    <3>2. steady'[n] = steady[n] \/ steady'[n] = [channels |-> channels, age |-> a + 1]
      BY <2>3, <3>1 DEF Pass
    <3>3. a + 1 \in Nat
      BY <2>1
    <3> QED
      BY <2>1, <3>2, <3>3, Zenon DEF IsLayout
  <2>4. CASE Discover
    BY <2>1, <2>4 DEF Discover, Found, NoLayout, IsLayout
  <2> QED
    BY <2>2, <2>3, <2>4
    DEF Next, Announcement, Tick, Environment, Requests, vars, history,
      Appear, PortAnnounced, Info, Rename, Disappear, Reshape, Relink, Disturb, FilterAnnounced,
      Survey, Connect, Enable, Disable, Reconfigure
<1> QED
  BY <1>1, <1>2, <1>3, <1>4 DEF TypeInv, IsFilter, IsCandidate, IsLayout

-----------------------------------------------------------------------------
(***************************************************************************)
(* What a step makes of one stream, seen from its id.                      *)
(***************************************************************************)
SameStream(n) ==
  /\ identity'[n] = identity[n] /\ informed'[n] = informed[n]
  /\ layout'[n] = layout[n] /\ ports'[n] = ports[n] /\ young'[n] = young[n]

\* A stream comes.
Appears(n) == \E a \in Apps \cup {Anonymous}, l \in Layouts : Appear(n, a, l)

\* The stream there changes its channels.
Reshapes(n) == \E l \in Layouts : Reshape(n, l)

\* A later info names its application.
Renames(n) == \E a \in Apps : Rename(n, a)

\* The daemon remembers nothing of the id, or looks at it anew.
Forgotten(n) ==
  /\ changed'[n] = {} /\ managed'[n] = None /\ skipped'[n] = None
  /\ candidates'[n] = None \/ candidates'[n] # candidates[n]

\* Only its own actions change a stream in the mirror, but for time.
LEMMA StreamStep ==
  ASSUME TypeInv, [Next]_vars, NEW n \in Ids
  PROVE  \/ SameStream(n) \/ Pass
         \/ PortAnnounced(n) \/ Info(n) \/ Disappear(n)
         \/ Appears(n) \/ Reshapes(n) \/ Renames(n)
<1> USE DEF TypeInv
<1>1. CASE \E k \in Ids, a \in Apps \cup {Anonymous}, l \in Layouts : Appear(k, a, l)
  <2>1. PICK k \in Ids, a \in Apps \cup {Anonymous}, l \in Layouts : Appear(k, a, l)
    BY <1>1
  <2>2. CASE k = n
    BY <2>1, <2>2 DEF Appears
  <2>3. CASE k # n
    BY <2>1, <2>3 DEF Appear, SameStream
  <2> QED
    BY <2>2, <2>3
<1>2. CASE \E k \in Ids : PortAnnounced(k) \/ Info(k) \/ Disappear(k)
  BY <1>2 DEF PortAnnounced, Info, Disappear, SameStream
<1>3. CASE \E k \in Ids, l \in Layouts : Reshape(k, l)
  <2>1. PICK k \in Ids, l \in Layouts : Reshape(k, l)
    BY <1>3
  <2>2. CASE k = n
    <3>1. vacant' = vacant
      BY <2>1 DEF Reshape
    <3> QED
      BY <2>1, <2>2, <3>1 DEF Reshapes
  <2>3. CASE k # n
    BY <2>1, <2>3 DEF Reshape, SameStream
  <2> QED
    BY <2>2, <2>3
<1>4. CASE \E k \in Ids : \/ \E p \in Ports, count \in 0 .. 2 : Relink(k, p, count)
                          \/ \E health \in {"moved", "broken"} : Disturb(k, health)
                          \/ FilterAnnounced(k)
  BY <1>4 DEF Relink, Disturb, FilterAnnounced, mirror, SameStream
<1>5. CASE Tick
  BY <1>5 DEF Tick, Survey, Discover, Connect, mirror, SameStream
<1>6. CASE Requests
  BY <1>6 DEF Requests, Enable, Disable, Reconfigure, mirror, SameStream
<1>7. CASE UNCHANGED vars
  BY <1>7 DEF vars, mirror, SameStream
<1>8. CASE \E k \in Ids, a \in Apps : Rename(k, a)
  <2>1. PICK k \in Ids, a \in Apps : Rename(k, a)
    BY <1>8
  <2>2. CASE k = n
    BY <2>1, <2>2 DEF Renames
  <2>3. CASE k # n
    BY <2>1, <2>3 DEF Rename, SameStream
  <2> QED
    BY <2>2, <2>3
<1> QED
  BY <1>1, <1>2, <1>3, <1>4, <1>5, <1>6, <1>7, <1>8 DEF Next, Announcement, Environment

\* What a step may write into the history of an id.
LEMMA HistoryStep ==
  ASSUME TypeInv, [Next]_vars, NEW n \in Ids
  PROVE  /\ \/ vacant'[n] = vacant[n] \/ Appears(n)
            \/ Survey /\ vacant'[n] = (vacant[n] \/ ~Present(n))
         /\ changed'[n] = changed[n] \/ Appears(n) \/ Reshapes(n) \/ Renames(n) \/ Forgotten(n)
<1> USE DEF TypeInv
<1>1. Forgetting => changed'[n] = changed[n] \/ Forgotten(n)
  BY DEF Forgetting, Forgotten
<1>2. CASE \E k \in Ids, a \in Apps \cup {Anonymous}, l \in Layouts : Appear(k, a, l)
  <2>1. PICK k \in Ids, a \in Apps \cup {Anonymous}, l \in Layouts : Appear(k, a, l)
    BY <1>2
  <2>2. CASE k = n
    BY <2>1, <2>2 DEF Appears
  <2>3. CASE k # n
    BY <2>1, <2>3 DEF Appear
  <2> QED
    BY <2>2, <2>3
<1>3. CASE \E k \in Ids : PortAnnounced(k) \/ Info(k) \/ Disappear(k)
  BY <1>3 DEF PortAnnounced, Info, Disappear, history
<1>4. CASE \E k \in Ids, l \in Layouts : Reshape(k, l)
  <2>1. PICK k \in Ids, l \in Layouts : Reshape(k, l)
    BY <1>4
  <2>2. CASE k = n
    <3>1. vacant' = vacant
      BY <2>1 DEF Reshape
    <3> QED
      BY <2>1, <2>2, <3>1 DEF Reshapes
  <2>3. CASE k # n
    BY <2>1, <2>3 DEF Reshape
  <2> QED
    BY <2>2, <2>3
<1>5. CASE \E k \in Ids : \/ \E p \in Ports, count \in 0 .. 2 : Relink(k, p, count)
                          \/ \E health \in {"moved", "broken"} : Disturb(k, health)
                          \/ FilterAnnounced(k)
  BY <1>5 DEF Relink, Disturb, FilterAnnounced, history
<1>6. CASE Survey
  BY <1>1, <1>6 DEF Survey
<1>7. CASE Discover \/ Connect \/ Requests
  BY <1>1, <1>7 DEF Discover, Connect, Requests, Enable, Disable, Reconfigure
<1>8. CASE UNCHANGED vars \/ Pass
  BY <1>8 DEF vars, history, Pass
<1>9. CASE \E k \in Ids, a \in Apps : Rename(k, a)
  <2>1. PICK k \in Ids, a \in Apps : Rename(k, a)
    BY <1>9
  <2>2. vacant' = vacant
    BY <2>1 DEF Rename
  <2>3. CASE k = n
    BY <2>1, <2>2, <2>3 DEF Renames
  <2>4. CASE k # n
    BY <2>1, <2>2, <2>4 DEF Rename
  <2> QED
    BY <2>3, <2>4
<1> QED
  BY <1>2, <1>3, <1>4, <1>5, <1>6, <1>7, <1>8, <1>9 DEF Next, Announcement, Environment, Tick

\* A skip is new only for a stream that discovery considers or whose filter
\* waits; for its policy, only when its info has arrived.
LEMMA SkippedStep ==
  ASSUME [Next]_vars, NEW n \in Ids, skipped'[n] # None
  PROVE  \/ skipped'[n] = skipped[n]
         \/ /\ Present(n) \/ managed[n] # None
            /\ pc # "wait" /\ policy' = policy /\ identity' = identity
            /\ skipped'[n] = "policy" => Off(n) /\ informed[n]
<1>1. CASE skipped' = skipped
  BY <1>1
<1>2. CASE skipped' = Cleared
  BY <1>2 DEF Cleared
<1>3. CASE Survey
  BY <1>3 DEF Survey, Kept
<1>4. CASE Discover
  <2>1. CASE ~enabled
    BY <1>1, <1>4, <2>1 DEF Discover, memory
  <2>2. CASE enabled
    <3>1. PICK failing : skipped'[n] = SkipReason(n, failing)
      BY <1>4, <2>2 DEF Discover
    <3> QED
      BY <1>4, <3>1 DEF Discover, SkipReason, Considered, mode, mirror
  <2> QED
    BY <2>1, <2>2
<1>5. CASE Connect
  <2>1. PICK outcome, failing :
          skipped' = [k \in Ids |->
            IF ~Pends(k) \/ outcome[k] = "wait" THEN skipped[k]
            ELSE IF outcome[k] = "skip" \/ k \in failing THEN "failed" ELSE skipped[k]]
    BY <1>5 DEF Connect
  <2>2. skipped'[n] = IF ~Pends(n) \/ outcome[n] = "wait" THEN skipped[n]
                      ELSE IF outcome[n] = "skip" \/ n \in failing THEN "failed" ELSE skipped[n]
    BY <2>1, Zenon
  <2>3. skipped'[n] = skipped[n] \/ (Pends(n) /\ skipped'[n] = "failed")
    <3>1. CASE ~Pends(n) \/ outcome[n] = "wait"
      BY <2>2, <3>1
    <3>2. CASE Pends(n) /\ outcome[n] # "wait"
      BY <2>2, <3>2
    <3> QED
      BY <3>1, <3>2
  <2> QED
    BY <1>5, <2>3 DEF Connect, Pends, mode, mirror
<1> QED
  BY <1>1, <1>2, <1>3, <1>4, <1>5
  DEF Next, Announcement, Tick, Environment, Requests, vars, memory,
      Appear, PortAnnounced, Info, Rename, Disappear, Reshape, Relink, Disturb, FilterAnnounced,
      Pass, Enable, Disable, Reconfigure

\* The policy changes only when nothing is left that was decided under the old one.
LEMMA PolicyStep ==
  ASSUME [Next]_vars, NEW n \in Ids
  PROVE  \/ policy' = policy
         \/ managed'[n] = None /\ skipped'[n] = None /\ candidates'[n] = None
<1>1. TRUE \in Bypassed => managed' = Cleared
  BY DEF Bypassed
<1>2. CASE \E next \in Policies : Reconfigure(next)
  <2>1. PICK next \in Policies : Reconfigure(next)
    BY <1>2
  <2>2. \/ FALSE \in Bypassed /\ policy' = policy
        \/ TRUE \in Bypassed /\ skipped' = Cleared /\ candidates' = Cleared
    BY <2>1 DEF Reconfigure
  <2> QED
    BY <1>1, <2>2 DEF Cleared
<1>3. CASE \E k \in Ids : \/ \E p \in Ports, count \in 0 .. 2 : Relink(k, p, count)
                          \/ \E health \in {"moved", "broken"} : Disturb(k, health)
                          \/ FilterAnnounced(k)
  BY <1>3 DEF Relink, Disturb, FilterAnnounced, mode
<1>4. CASE \E k \in Ids : Appears(k) \/ Reshapes(k) \/ Renames(k)
  BY <1>4 DEF Appears, Reshapes, Renames, Appear, Reshape, Rename, mode
<1>5. CASE \E k \in Ids : PortAnnounced(k) \/ Info(k) \/ Disappear(k)
  BY <1>5 DEF PortAnnounced, Info, Disappear, mode
<1>6. CASE Pass \/ Tick
  BY <1>6 DEF Pass, Tick, Survey, Discover, Connect, mode
<1>7. CASE Enable \/ Disable \/ UNCHANGED vars
  BY <1>7 DEF Enable, Disable, vars, mode
<1> QED
  BY <1>2, <1>3, <1>4, <1>5, <1>6, <1>7
  DEF Next, Requests, Announcement, Environment, Appears, Reshapes, Renames

-----------------------------------------------------------------------------
\* A stream that appears is another owner of the id, unless a tick has seen it go.
LEMMA AppearsCases ==
  ASSUME TypeInv, MemoryInv, NEW n \in Ids, Appears(n)
  PROVE  \/ "owner" \in changed'[n]
         \/ managed'[n] = None /\ skipped'[n] = None /\ candidates'[n] = None
  BY DEF TypeInv, MemoryInv, Appears, Appear, memory, Everything

\* A stream that replaces its ports is marked, and is the application's as before.
LEMMA ReshapesFacts ==
  ASSUME TypeInv, NEW n \in Ids, Reshapes(n)
  PROVE  /\ informed[n] /\ informed'[n]
         /\ identity'[n] = identity[n] /\ policy' = policy
         /\ "ports" \in changed'[n]
         /\ "owner" \in changed'[n] <=> "owner" \in changed[n]
         /\ skipped' = skipped /\ candidates' = candidates /\ vacant' = vacant
<1>1. PICK l \in Layouts : Reshape(n, l)
  BY DEF Reshapes
<1>2. changed'[n] = changed[n] \cup {"ports"}
  BY <1>1 DEF Reshape, TypeInv
<1> QED
  BY <1>1, <1>2 DEF Reshape, TypeInv, mode

\* A stream that a later info names has its info, and is marked when the daemon has
\* decided on it.
LEMMA RenamesFacts ==
  ASSUME TypeInv, NEW n \in Ids, Renames(n)
  PROVE  /\ identity[n] # None /\ identity'[n] # None /\ informed[n] /\ informed'[n]
         /\ layout' = layout /\ ports' = ports /\ young' = young /\ policy' = policy
         /\ managed' = managed /\ skipped' = skipped /\ candidates' = candidates
         /\ vacant' = vacant
         /\ changed'[n] \in {changed[n], changed[n] \cup {"identity"}}
         /\ managed[n] # None \/ skipped[n] # None => "identity" \in changed'[n]
<1>1. PICK a \in Apps : Rename(n, a)
  BY DEF Renames
<1>2. identity'[n] = a /\ a # None
  BY <1>1 DEF Rename, TypeInv
<1>3. changed'[n] = IF managed[n] = None /\ skipped[n] = None THEN changed[n]
                    ELSE changed[n] \cup {"identity"}
  BY <1>1 DEF Rename, TypeInv
<1> QED
  BY <1>1, <1>2, <1>3 DEF Rename, Present, mode, memory

\* Time leaves all of a stream as it is but its age.
LEMMA PassFacts ==
  ASSUME TypeInv, Pass, NEW n \in Ids
  PROVE  /\ identity' = identity /\ informed' = informed
         /\ layout' = layout /\ ports' = ports /\ policy' = policy
         /\ managed' = managed /\ skipped' = skipped /\ changed' = changed /\ vacant' = vacant
         /\ Present(n) /\ young[n] = Announce => Announced(n)
         /\ young'[n] = IF young[n] < Announce THEN young[n] + 1 ELSE young[n]
         /\ young[n] \in 0 .. Announce
  BY DEF TypeInv, Pass, mode

\* Discovery adopts a stream it considers, with all the ports the mirror has, when
\* the candidate is older than the announcement of a stream may take.
LEMMA AdoptedFacts ==
  ASSUME TypeInv, NEW n \in Ids, Adopted(n)
  PROVE  /\ Considered(n) /\ ~Off(n)
         /\ candidates[n] # None /\ candidates'[n] = None
         /\ candidates[n].readiness = Readiness(n) /\ Readiness(n).kind = "ready"
         /\ candidates[n].age >= Settle /\ candidates[n].age > young[n]
         /\ candidates[n].age \in Nat
         /\ ports[n] # {} /\ Readiness(n) = ReadyWith(Labels(n, ports[n]))
         /\ IsFilter(managed'[n]) /\ managed'[n].channels = Labels(n, ports[n])
         /\ mirror' = mirror /\ policy' = policy
<1>1. /\ Considered(n) /\ ~Off(n) /\ Settled(n, Readiness(n)) /\ Readiness(n).kind = "ready"
      /\ Discover /\ enabled /\ managed'[n] = FilterFor(Readiness(n).channels)
  BY DEF Adopted, Adopts
<1>2. candidates[n] # None /\ candidates[n].readiness = Readiness(n)
  BY <1>1 DEF Settled, Same
<1>3. PICK r, a : candidates[n] = [readiness |-> r, age |-> a] /\ a \in 0 .. SettleFor(r)
  BY <1>2 DEF TypeInv, IsCandidate
<1>4. SettleFor(Readiness(n)) = Settle
  BY <1>1 DEF SettleFor
<1>5. a >= Settle /\ a \in Nat /\ a > young[n]
  <2>1. a >= Settle
    BY <1>1, <1>3, <1>4 DEF Settled
  <2>2. a \in Nat /\ young[n] \in 0 .. Announce
    BY <1>2, <1>3, <1>4 DEF TypeInv
  <2> QED
    BY <2>1, <2>2
<1>6. ports[n] # {} /\ Readiness(n) = ReadyWith(Labels(n, ports[n]))
  BY <1>1, ReadinessReady
<1>7. candidates'[n] = None
  BY <1>1 DEF Discover, Observed
<1>8. IsFilter(managed'[n]) /\ managed'[n].channels = Labels(n, ports[n])
  <2>1. \A C : IsFilter(FilterFor(C))
    BY Zenon DEF FilterFor, IsFilter
  <2>2. \A C : FilterFor(C).channels = C
    BY DEF FilterFor
  <2>3. Readiness(n).channels = Labels(n, ports[n])
    BY <1>6 DEF ReadyWith
  <2> QED
    BY <1>1, <2>1, <2>2, <2>3
<1> QED
  BY <1>1, <1>2, <1>3, <1>5, <1>6, <1>7, <1>8 DEF Discover, mode

-----------------------------------------------------------------------------
\* The memory of an id is inductive.
LEMMA MemoryStep == TypeInv /\ MemoryInv /\ [Next]_vars => MemoryInv'
<1> SUFFICES ASSUME TypeInv, MemoryInv, [Next]_vars, NEW n \in Ids
             PROVE  /\ informed'[n] => identity'[n] # None
                    /\ vacant'[n] => /\ identity'[n] = None /\ managed'[n] = None
                                     /\ skipped'[n] = None /\ candidates'[n] = None
                    /\ managed'[n] # None => candidates'[n] = None
  BY DEF MemoryInv, Present
<1>1. /\ informed[n] => identity[n] # None
      /\ vacant[n] => /\ identity[n] = None /\ managed[n] = None
                      /\ skipped[n] = None /\ candidates[n] = None
      /\ managed[n] # None => candidates[n] = None
  BY DEF MemoryInv, Present
<1>2. informed'[n] => identity'[n] # None
  <2>1. CASE SameStream(n)
    BY <1>1, <2>1 DEF SameStream
  <2>2. CASE Pass
    BY <1>1, <2>2, PassFacts
  <2>3. CASE PortAnnounced(n) \/ Info(n) \/ Disappear(n) \/ Reshapes(n)
    BY <1>1, <2>3 DEF PortAnnounced, Info, Disappear, Reshapes, Reshape, TypeInv, Present
  <2>5. CASE Renames(n)
    BY <2>5, RenamesFacts
  <2>4. CASE Appears(n)
    BY <1>1, <2>4 DEF Appears, Appear, TypeInv, Present
  <2> QED
    BY <2>1, <2>2, <2>3, <2>4, <2>5, StreamStep
<1>3. ASSUME vacant'[n]
      PROVE  identity'[n] = None /\ managed'[n] = None /\ skipped'[n] = None /\ candidates'[n] = None
  <2>1. ~Appears(n)
    BY <1>3 DEF Appears, Appear, TypeInv
  <2>2. identity[n] = None
    BY <1>1, <1>3, <2>1, HistoryStep DEF Present
  <2>3. identity'[n] = None
    BY <2>1, <2>2, StreamStep, PassFacts, RenamesFacts
    DEF SameStream, PortAnnounced, Info, Disappear, Reshapes, Reshape, Present
  <2>4. CASE Survey
    BY <2>2, <2>4 DEF Survey, Retained, Kept, Present
  <2>5. CASE ~Survey
    <3>1. vacant[n]
      BY <1>3, <2>1, <2>5, HistoryStep
    <3>2. managed'[n] = None
      BY <1>1, <2>2, <3>1, ManagedStep, AdoptedFacts DEF Inherited, Considered, Present
    <3>3. skipped'[n] = None
      BY <1>1, <2>2, <3>1, SkippedStep DEF Present
    <3>4. candidates'[n] = None
      BY <1>1, <2>2, <3>1, CandidateStep DEF SameCandidate, Aged, Inserted, Considered, Present
    <3> QED
      BY <2>3, <3>2, <3>3, <3>4
  <2> QED
    BY <2>3, <2>4, <2>5
<1>4. ASSUME managed'[n] # None PROVE candidates'[n] = None
  <2>1. CASE Adopted(n)
    BY <2>1, AdoptedFacts
  <2>2. CASE Inherited(n)
    BY <1>1, <1>4, <2>2, CandidateStep
    DEF Inherited, SameCandidate, Aged, Inserted, Considered
  <2> QED
    BY <2>1, <2>2, ManagedStep
<1> QED
  BY <1>2, <1>3, <1>4

\* A candidate's age is a number of units of time.
LEMMA CandidateAge ==
  ASSUME TypeInv, NEW n \in Ids, candidates[n] # None
  PROVE  candidates[n].age \in Nat
<1>1. PICK r, a : candidates[n] = [readiness |-> r, age |-> a] /\ a \in 0 .. SettleFor(r)
  BY DEF TypeInv, IsCandidate
<1>2. SettleFor(r) \in Nat
  BY DEF SettleFor
<1> QED
  BY <1>1, <1>2

\* The ages are inductive.
LEMMA AgeStep == TypeInv /\ MemoryInv /\ AgeInv /\ [Next]_vars => AgeInv'
<1> SUFFICES ASSUME TypeInv, MemoryInv, AgeInv, [Next]_vars, NEW n \in Ids,
                    identity'[n] # None, "owner" \notin changed'[n], candidates'[n] # None,
                    candidates'[n].age > young'[n]
             PROVE  /\ informed'[n]
                    /\ "ports" \notin changed'[n] =>
                         young'[n] = Announce /\ ports'[n] = DOMAIN layout'[n]
  BY DEF AgeInv, Present
<1>1. /\ identity[n] # None /\ "owner" \notin changed[n] /\ candidates[n] # None
      /\ candidates[n].age > young[n]
      => /\ informed[n]
         /\ "ports" \notin changed[n] => young[n] = Announce /\ ports[n] = DOMAIN layout[n]
  BY DEF AgeInv, Present
<1>2. young[n] \in 0 .. Announce /\ young'[n] \in 0 .. Announce
  BY TypeStep DEF TypeInv
<1>3. ~Appears(n)
  BY AppearsCases
<1>4. CASE Reshapes(n)
  BY <1>4, ReshapesFacts
<1>5. CASE Inserted(n)
  BY <1>2, <1>5 DEF Inserted
<1>6. CASE Aged(n)
  <2>1. Pass /\ candidates[n] # None /\ candidates'[n].age = candidates[n].age + 1
    BY <1>6 DEF Aged
  <2>2. candidates[n].age \in Nat
    BY <2>1, CandidateAge
  <2>3. CASE young[n] = Announce
    BY <2>1, <2>3, PassFacts DEF Announced, Present
  <2>4. CASE young[n] # Announce
    <3>1. young'[n] = young[n] + 1
      BY <1>2, <2>1, <2>4, PassFacts
    <3>2. candidates[n].age > young[n]
      BY <1>2, <2>1, <2>2, <3>1
    <3> QED
      BY <1>1, <2>1, <2>4, <3>2, PassFacts
  <2> QED
    BY <2>3, <2>4
<1>7. CASE Renames(n)
  BY <1>1, <1>7, RenamesFacts
<1>8. CASE SameCandidate(n) /\ ~Reshapes(n) /\ ~Renames(n)
  <2>1. candidates'[n] = candidates[n] /\ changed'[n] = changed[n]
    BY <1>3, <1>8, HistoryStep DEF SameCandidate, Forgotten
  <2>2. CASE SameStream(n)
    BY <1>1, <2>1, <2>2 DEF SameStream
  <2>3. CASE Pass
    <3>1. candidates[n].age \in Nat
      BY <2>1, CandidateAge
    <3>2. candidates[n].age > young[n]
      BY <1>2, <2>1, <2>3, <3>1, PassFacts
    <3> QED
      BY <1>1, <2>1, <2>3, <3>2, PassFacts
  <2>4. CASE PortAnnounced(n)
    BY <1>1, <2>1, <2>4 DEF PortAnnounced
  <2>5. CASE Info(n)
    <3>1. /\ identity[n] # None /\ ~informed[n] /\ informed'[n]
          /\ layout' = layout /\ ports' = ports /\ young' = young
      BY <2>5 DEF Info, Present, TypeInv
    <3> QED
      BY <1>1, <2>1, <3>1
  <2>6. CASE Disappear(n)
    BY <2>6 DEF Disappear, TypeInv
  <2> QED
    BY <1>3, <1>8, <2>2, <2>3, <2>4, <2>5, <2>6, StreamStep
<1> QED
  BY <1>4, <1>5, <1>6, <1>7, <1>8, CandidateStep

\* What the candidates of unnamed streams show of the policy is inductive.
LEMMA OffStep == TypeInv /\ MemoryInv /\ OffInv /\ [Next]_vars => OffInv'
<1> SUFFICES ASSUME TypeInv, MemoryInv, OffInv, [Next]_vars, NEW n \in Ids,
                    identity'[n] # None, "owner" \notin changed'[n], candidates'[n] # None,
                    ~informed'[n]
             PROVE  ~Off(n)'
  BY DEF OffInv, Present
<1>1. policy' = policy
  BY PolicyStep
<1>2. ~Appears(n)
  BY AppearsCases
<1>3. ~Reshapes(n) /\ ~Renames(n)
  BY ReshapesFacts, RenamesFacts
<1>4. identity'[n] = identity[n] /\ informed'[n] = informed[n]
  BY <1>2, <1>3, StreamStep, PassFacts
  DEF SameStream, PortAnnounced, Info, Disappear, TypeInv
<1>5. Off(n)' <=> Off(n)
  BY <1>1, <1>4 DEF Off
<1>6. CASE Inserted(n)
  BY <1>5, <1>6 DEF Inserted
<1>7. CASE ~Inserted(n)
  <2>1. candidates[n] # None
    BY <1>7, CandidateStep DEF SameCandidate, Aged
  <2>2. changed'[n] = changed[n]
    BY <1>2, <1>3, <1>7, HistoryStep, CandidateStep, PassFacts DEF Forgotten, SameCandidate, Aged
  <2> QED
    BY <1>4, <1>5, <2>1, <2>2 DEF OffInv, Present
<1> QED
  BY <1>6, <1>7

\* What is known of another owner is inductive.
LEMMA OwnerStep == TypeInv /\ OwnerInv /\ [Next]_vars => OwnerInv'
<1> SUFFICES ASSUME TypeInv, OwnerInv, [Next]_vars, NEW n \in Ids, "owner" \in changed'[n]
             PROVE  changed'[n] = Everything
  BY DEF OwnerInv
<1>1. "owner" \in changed[n] => changed[n] = Everything
  BY DEF OwnerInv
<1>2. CASE Appears(n)
  <2>1. changed'[n] \in {{}, Everything}
    BY <1>2 DEF Appears, Appear, TypeInv
  <2> QED
    BY <2>1
<1>3. CASE Reshapes(n)
  <2>1. changed'[n] = changed[n] \cup {"ports"}
    BY <1>3 DEF Reshapes, Reshape, TypeInv
  <2> QED
    BY <1>1, <2>1 DEF Everything
<1>4. CASE Renames(n)
  BY <1>1, <1>4, RenamesFacts DEF Everything
<1> QED
  BY <1>1, <1>2, <1>3, <1>4, HistoryStep DEF Forgotten

\* A stream whose ports, or whose name, have not changed since the step before has
\* had the same owner.
LEMMA OwnerSame ==
  ASSUME OwnerInv, NEW n \in Ids, \E what \in {"ports", "identity"} : what \notin changed[n]
  PROVE  "owner" \notin changed[n]
  BY DEF OwnerInv, Everything

\* Complete filters are inductive.
LEMMA CompleteStep ==
  TypeInv /\ MemoryInv /\ AgeInv /\ OwnerInv /\ CompleteWhenAdopted /\ [Next]_vars
    => CompleteWhenAdopted'
<1> SUFFICES ASSUME TypeInv, MemoryInv, AgeInv, OwnerInv, CompleteWhenAdopted, [Next]_vars,
                    NEW n \in Ids,
                    identity'[n] # None, managed'[n] # None, "ports" \notin changed'[n]
             PROVE  managed'[n].channels = Labels(n, DOMAIN layout[n])'
  BY DEF CompleteWhenAdopted, Present
<1>1. ~Appears(n) /\ ~Reshapes(n)
  <2>1. "owner" \notin changed'[n]
    BY OwnerStep DEF OwnerInv, Everything
  <2> QED
    BY <2>1, AppearsCases, ReshapesFacts
<1>2. "ports" \notin changed[n]
  BY <1>1, HistoryStep, RenamesFacts DEF Forgotten
<1>3. identity[n] # None /\ layout'[n] = layout[n]
  BY <1>1, StreamStep, PassFacts, RenamesFacts
  DEF SameStream, PortAnnounced, Info, Disappear, TypeInv, Present
<1>4. Labels(n, DOMAIN layout[n])' = Labels(n, DOMAIN layout[n])
  BY <1>3 DEF Labels
<1>5. CASE Inherited(n)
  BY <1>2, <1>3, <1>4, <1>5 DEF CompleteWhenAdopted, Inherited, Present
<1>6. CASE Adopted(n)
  <2>1. ports[n] = DOMAIN layout[n]
    BY <1>2, <1>3, <1>6, AdoptedFacts, OwnerSame DEF AgeInv, Present
  <2> QED
    BY <1>4, <1>6, <2>1, AdoptedFacts
<1> QED
  BY <1>5, <1>6, ManagedStep

\* That decisions come after the info is inductive.
LEMMA DecidedStep ==
  TypeInv /\ MemoryInv /\ AgeInv /\ DecidedInv /\ [Next]_vars => DecidedInv'
<1> SUFFICES ASSUME TypeInv, MemoryInv, AgeInv, DecidedInv, [Next]_vars, NEW n \in Ids,
                    identity'[n] # None, "owner" \notin changed'[n],
                    managed'[n] # None \/ skipped'[n] = "policy"
             PROVE  informed'[n]
  BY DEF DecidedInv, Present
<1>1. ~Appears(n)
  <2>1. None # "policy"
    OBVIOUS
  <2> QED
    BY <2>1, AppearsCases
<1>2. CASE Renames(n) \/ Reshapes(n) \/ Info(n)
  BY <1>2, RenamesFacts, ReshapesFacts DEF Info, TypeInv
<1>3. CASE ~Renames(n) /\ ~Reshapes(n) /\ ~Info(n)
  <2>1. identity[n] # None /\ informed'[n] = informed[n]
    BY <1>1, <1>3, StreamStep, PassFacts DEF SameStream, PortAnnounced, Disappear, TypeInv
  <2>2. "owner" \notin changed[n]
    <3>1. None # "policy"
      OBVIOUS
    <3> QED
      BY <1>1, <1>3, <3>1, HistoryStep DEF Forgotten
  <2>3. managed[n] # None \/ skipped[n] = "policy" => informed[n]
    BY <2>1, <2>2 DEF DecidedInv, Present
  <2>4. CASE Adopted(n)
    BY <2>1, <2>2, <2>4, AdoptedFacts DEF AgeInv, Present
  <2>5. CASE Inherited(n) /\ managed'[n] # None
    BY <2>1, <2>3, <2>5 DEF Inherited
  <2>6. CASE skipped'[n] = "policy"
    <3>1. None # "policy"
      OBVIOUS
    <3> QED
      BY <2>1, <2>3, <2>6, <3>1, SkippedStep
  <2> QED
    BY <2>4, <2>5, <2>6, ManagedStep
<1> QED
  BY <1>2, <1>3

\* The policy's decisions are inductive: an info that arrives names a stream the
\* policy has not decided on, and a later one that names another leaves its mark.
LEMMA RespectStep ==
  TypeInv /\ MemoryInv /\ OwnerInv /\ DecidedInv /\ PolicyRespected /\ [Next]_vars
    => PolicyRespected'
<1> SUFFICES ASSUME TypeInv, MemoryInv, OwnerInv, DecidedInv, PolicyRespected, [Next]_vars,
                    NEW n \in Ids,
                    identity'[n] # None, "identity" \notin changed'[n],
                    managed'[n] # None \/ skipped'[n] = "policy"
             PROVE  /\ managed'[n] # None => identity'[n] \in policy'
                    /\ skipped'[n] = "policy" => identity'[n] \notin policy'
  BY DEF PolicyRespected, Present
<1>1. None # "policy"
  OBVIOUS
<1>2. policy' = policy
  BY <1>1, PolicyStep
<1>3. ~Appears(n)
  <2>1. "owner" \notin changed'[n]
    BY OwnerStep DEF OwnerInv, Everything
  <2> QED
    BY <1>1, <2>1, AppearsCases
<1>4. ~Renames(n)
  BY <1>1, RenamesFacts
<1>5. "identity" \notin changed[n]
  <2>1. Reshapes(n) => changed'[n] = changed[n] \cup {"ports"}
    BY DEF Reshapes, Reshape, TypeInv
  <2> QED
    BY <1>1, <1>3, <1>4, <2>1, HistoryStep DEF Forgotten
<1>6. identity[n] # None
  BY <1>3, <1>4, StreamStep, PassFacts, ReshapesFacts
  DEF SameStream, PortAnnounced, Info, Disappear, TypeInv, Present
<1>7. ~Info(n)
  <2>1. SUFFICES ASSUME Info(n) PROVE FALSE
    OBVIOUS
  <2>2. ~informed[n] /\ managed' = managed /\ skipped' = skipped
    BY <2>1 DEF Info, memory
  <2> QED
    BY <1>5, <1>6, <2>2, OwnerSame DEF DecidedInv, Present
<1>8. identity'[n] = identity[n]
  BY <1>3, <1>4, <1>7, StreamStep, PassFacts, ReshapesFacts
  DEF SameStream, PortAnnounced, Disappear, TypeInv
<1>9. /\ managed[n] # None => identity[n] \in policy
      /\ skipped[n] = "policy" => identity[n] \notin policy
  BY <1>5, <1>6 DEF PolicyRespected, Present
<1>10. managed'[n] # None => identity'[n] \in policy'
  BY <1>2, <1>8, <1>9, ManagedStep, AdoptedFacts DEF Inherited, Off
<1>11. skipped'[n] = "policy" => identity'[n] \notin policy'
  BY <1>1, <1>2, <1>8, <1>9, SkippedStep DEF Off
<1> QED
  BY <1>10, <1>11

-----------------------------------------------------------------------------
\* The invariant holds in every state.
LEMMA DiscoveryInvariant == Spec => []DiscoveryInv
<1>1. Init => DiscoveryInv
  <2> SUFFICES ASSUME Init PROVE DiscoveryInv
    OBVIOUS
  <2>1. TypeInv
    <3>1. \A n \in Ids : IsLayout(steady[n])
      BY DEF Init, NoLayout, IsLayout
    <3> QED
      BY <3>1 DEF Init, TypeInv
  <2>2. MemoryInv /\ AgeInv /\ OffInv /\ OwnerInv /\ DecidedInv
    BY DEF Init, MemoryInv, AgeInv, OffInv, OwnerInv, DecidedInv, Present
  <2>3. CompleteWhenAdopted /\ PolicyRespected
    BY DEF Init, CompleteWhenAdopted, PolicyRespected, Present
  <2> QED
    BY <2>1, <2>2, <2>3 DEF DiscoveryInv
<1>2. DiscoveryInv /\ [Next]_vars => DiscoveryInv'
  BY TypeStep, MemoryStep, AgeStep, OffStep, OwnerStep, DecidedStep, CompleteStep, RespectStep
  DEF DiscoveryInv
<1> QED
  BY <1>1, <1>2, PTL DEF Spec

\* The filter of a stream has the channels of the whole stream, not of the part
\* that had been announced: discover_streams creates it from what the settler has
\* seen unchanged for TOPOLOGY_SETTLE_INTERVAL, longer than an announcement takes.
\* Excepted are ids whose stream changed behind what the daemon remembers.
THEOREM CompleteCorrect == Spec => []CompleteWhenAdopted
<1>1. DiscoveryInv => CompleteWhenAdopted
  BY DEF DiscoveryInv
<1> QED
  BY <1>1, DiscoveryInvariant, PTL

\* No stream is normalized whose identity the policy excludes, and none is left
\* alone for its policy whose identity it covers, although the identity a stream is
\* announced with may be one the daemon makes up (discover_streams, application_id)
\* and any number of infos may name it.  A stream that an info renames after the
\* decision is excepted, as discover_streams does not look at it again.
THEOREM PolicyCorrect == Spec => []PolicyRespected
<1>1. DiscoveryInv => PolicyRespected
  BY DEF DiscoveryInv
<1> QED
  BY <1>1, DiscoveryInvariant, PTL

-----------------------------------------------------------------------------
(***************************************************************************)
(* How long discovery has found a layout.  A candidate says nothing of the *)
(* time it was not observed in: a daemon switched off, or a stream that is *)
(* skipped, must have lost it before discovery looks at the stream again.  *)
(***************************************************************************)

\* A disabled daemon manages nothing.
ModeInv == \A n \in Ids : ~enabled => managed[n] = None

\* While discovery observes a stream, the layout of a ready candidate is what
\* every tick has found at least since the candidate was inserted.
SteadyInv ==
  \A n \in Ids :
    enabled /\ Present(n) /\ "owner" \notin changed[n] /\ skipped[n] = None
      /\ candidates[n] # None /\ candidates[n].readiness.kind = "ready"
    => /\ candidates[n].readiness.channels # {}
       /\ steady[n].channels = candidates[n].readiness.channels
       /\ steady[n].age >= candidates[n].age

\* Only a disable that reaches its end, and finds nothing left, switches the daemon
\* off; only a step that empties the settler switches it on.
LEMMA ModeStep ==
  ASSUME Journaled = TRUE, TypeInv, ModeInv, [Next]_vars
  PROVE  /\ ModeInv'
         /\ \A n \in Ids : enabled' /\ candidates'[n] # None => enabled
<1>1. CASE Disable
  <2>1. PICK failing \in SUBSET Ids :
          BypassAll(failing) /\ \E ok \in Bypassed : enabled' = ~ok
    BY <1>1 DEF Disable
  <2>2. PICK ok \in Bypassed : enabled' = ~ok
    BY <2>1
  <2>3. CASE managed' = Cleared
    <3>1. ok = TRUE
      BY <2>2, <2>3 DEF Bypassed
    <3> QED
      BY <2>2, <2>3, <3>1 DEF ModeInv, Cleared
  <2>4. CASE managed' # Cleared
    <3>1. ok = FALSE
      BY <2>2, <2>4 DEF Bypassed
    <3>2. PICK n \in Ids : managed'[n] # None
      BY <2>1, <2>4 DEF BypassAll, Cleared
    <3>3. managed[n] # None
      BY <2>1, <3>2 DEF BypassAll
    <3> QED
      BY <2>2, <3>1, <3>3 DEF ModeInv
  <2> QED
    BY <2>3, <2>4
<1>2. CASE Enable
  BY <1>2 DEF Enable, Cleared, ModeInv
<1>3. CASE ~Disable /\ ~Enable
  <2>1. enabled' = enabled
    <3>1. CASE \E k \in Ids : \/ \E p \in Ports, count \in 0 .. 2 : Relink(k, p, count)
                              \/ \E health \in {"moved", "broken"} : Disturb(k, health)
                              \/ FilterAnnounced(k)
      BY <3>1 DEF Relink, Disturb, FilterAnnounced, mode
    <3>2. CASE \E k \in Ids : Appears(k) \/ Reshapes(k) \/ Renames(k)
      BY <3>2 DEF Appears, Reshapes, Renames, Appear, Reshape, Rename, mode
    <3>3. CASE \E k \in Ids : PortAnnounced(k) \/ Info(k) \/ Disappear(k)
      BY <3>3 DEF PortAnnounced, Info, Disappear, mode
    <3>4. CASE Pass \/ Tick
      BY <3>4 DEF Pass, Tick, Survey, Discover, Connect, mode
    <3>5. CASE UNCHANGED vars \/ \E next \in Policies : Reconfigure(next)
      BY <3>5 DEF vars, mode, Reconfigure
    <3> QED
      BY <1>3, <3>1, <3>2, <3>3, <3>4, <3>5
      DEF Next, Requests, Announcement, Environment, Appears, Reshapes, Renames
  <2> QED
    BY <2>1, ManagedStep DEF ModeInv, Inherited, Adopted
<1> QED
  BY <1>1, <1>2, <1>3

\* A skip is forgotten only with the candidate or with the stream.
LEMMA UnskippedStep ==
  ASSUME TypeInv, [Next]_vars, NEW n \in Ids,
         Present(n), candidates'[n] # None, skipped'[n] = None
  PROVE  skipped[n] = None
<1>1. CASE skipped' = skipped
  BY <1>1
<1>2. CASE candidates' = Cleared
  BY <1>2 DEF Cleared
<1>3. CASE Survey
  BY <1>3 DEF Survey, Kept
<1>4. CASE Discover
  BY <1>1, <1>4 DEF Discover, memory, SkipReason, Considered
<1>5. CASE Connect
  <2>1. PICK outcome, failing :
          skipped' = [k \in Ids |->
            IF ~Pends(k) \/ outcome[k] = "wait" THEN skipped[k]
            ELSE IF outcome[k] = "skip" \/ k \in failing THEN "failed" ELSE skipped[k]]
    BY <1>5 DEF Connect
  <2>2. skipped'[n] = IF ~Pends(n) \/ outcome[n] = "wait" THEN skipped[n]
                      ELSE IF outcome[n] = "skip" \/ n \in failing THEN "failed" ELSE skipped[n]
    BY <2>1, Zenon
  <2>3. skipped'[n] = skipped[n] \/ skipped'[n] = "failed"
    BY <2>2
  <2> QED
    BY <2>3
<1> QED
  BY <1>1, <1>2, <1>3, <1>4, <1>5
  DEF Next, Announcement, Tick, Environment, Requests, vars, memory,
      Appear, PortAnnounced, Info, Rename, Disappear, Reshape, Relink, Disturb, FilterAnnounced,
      Pass, Enable, Disable, Reconfigure

\* The times are inductive.
LEMMA SteadyStep ==
  ASSUME Journaled = TRUE, DiscoveryInv, ModeInv, SteadyInv, [Next]_vars
  PROVE  SteadyInv'
<1> SUFFICES ASSUME NEW n \in Ids, enabled', identity'[n] # None, "owner" \notin changed'[n],
                    skipped'[n] = None, candidates'[n] # None,
                    candidates'[n].readiness.kind = "ready"
             PROVE  /\ candidates'[n].readiness.channels # {}
                    /\ steady'[n].channels = candidates'[n].readiness.channels
                    /\ steady'[n].age >= candidates'[n].age
  BY DEF SteadyInv, Present
<1> USE DEF DiscoveryInv
<1>1. enabled /\ ~Appears(n)
  BY ModeStep, AppearsCases
<1>2. Present(n) /\ skipped[n] = None
  <2>1. Present(n)
    BY <1>1, StreamStep, PassFacts, ReshapesFacts, RenamesFacts
    DEF SameStream, PortAnnounced, Info, Disappear, TypeInv, Present
  <2> QED
    BY <2>1, UnskippedStep
<1>3. PICK C, b : steady[n] = [channels |-> C, age |-> b] /\ b \in Nat
  BY DEF TypeInv, IsLayout
<1>4. CASE Inserted(n)
  <2>1. /\ Discover /\ Considered(n)
        /\ candidates'[n].readiness = Readiness(n) /\ candidates'[n].age = 0
    BY <1>4 DEF Inserted
  <2>2. ports[n] # {} /\ Readiness(n) = ReadyWith(Labels(n, ports[n]))
    BY <2>1, ReadinessReady
  <2>3. Readiness(n).channels # {}
    <3>1. PICK p : p \in ports[n]
      BY <2>2
    <3>2. layout[n][p] \in Labels(n, ports[n])
      BY <3>1 DEF Labels
    <3>3. Readiness(n).channels = Labels(n, ports[n])
      BY <2>2 DEF ReadyWith
    <3> QED
      BY <3>2, <3>3
  <2>4. steady'[n] = Found(n)
    BY <2>1 DEF Discover
  <2>5. steady'[n].channels = Readiness(n).channels /\ steady'[n].age \in Nat
    BY <1>3, <2>1, <2>4 DEF Found, Considered
  <2> QED
    BY <2>1, <2>3, <2>5
<1>5. CASE ~Inserted(n)
  <2>1. candidates[n] # None /\ candidates[n].readiness = candidates'[n].readiness
    BY <1>5, CandidateStep DEF SameCandidate, Aged
  <2>2. "owner" \notin changed[n]
    BY <1>1, <1>5, HistoryStep, CandidateStep, PassFacts, ReshapesFacts, RenamesFacts
    DEF Forgotten, SameCandidate, Aged
  <2>3. /\ candidates[n].readiness.channels # {}
        /\ C = candidates[n].readiness.channels
        /\ b >= candidates[n].age
    BY <1>1, <1>2, <1>3, <2>1, <2>2 DEF SteadyInv
  <2>4. candidates[n].age \in Nat
    BY <2>1, CandidateAge
  <2>5. CASE Pass
    <3>1. steady[n] # NoLayout
      BY <1>3, <2>3 DEF NoLayout
    <3>2. steady'[n].channels = C /\ steady'[n].age = IF b < Settle THEN b + 1 ELSE b
      <4>1. [steady[n] EXCEPT !.age = @ + 1] = [channels |-> C, age |-> b + 1]
        BY <1>3
      <4>2. CASE b < Settle
        BY <1>3, <2>5, <3>1, <4>1, <4>2 DEF Pass
      <4>3. CASE ~(b < Settle)
        BY <1>3, <2>5, <3>1, <4>3 DEF Pass
      <4> QED
        BY <4>2, <4>3
    <3>3. \/ candidates'[n].age = candidates[n].age
          \/ candidates'[n].age = candidates[n].age + 1 /\ candidates[n].age < Settle
      <4>1. CASE SameCandidate(n)
        BY <4>1 DEF SameCandidate
      <4>2. CASE Aged(n)
        <5>1. PICK r, a : candidates'[n] = [readiness |-> r, age |-> a] /\ a \in 0 .. SettleFor(r)
          BY CandidateStep DEF IsCandidate
        <5>2. SettleFor(r) = Settle
          BY <5>1 DEF SettleFor
        <5> QED
          BY <2>4, <4>2, <5>1, <5>2 DEF Aged
      <4> QED
        BY <1>5, <4>1, <4>2, CandidateStep
    <3> QED
      BY <1>3, <2>1, <2>3, <2>4, <3>2, <3>3
  <2>6. CASE Discover
    <3>1. candidates'[n] = candidates[n]
      BY <1>5, <2>6, CandidateStep DEF SameCandidate, Aged, Discover, Pass
    <3>2. Considered(n)
      BY <1>2, <2>1 DEF MemoryInv, Considered
    <3>3. ~Off(n)
      <4>1. CASE informed[n]
        <5>1. PICK failing : skipped'[n] = SkipReason(n, failing)
          BY <1>1, <2>6 DEF Discover
        <5> QED
          BY <3>2, <4>1, <5>1 DEF SkipReason
      <4>2. CASE ~informed[n]
        BY <1>2, <2>1, <2>2, <4>2 DEF OffInv
      <4> QED
        BY <4>1, <4>2
    <3>4. candidates'[n] = Observed(n, Readiness(n))
      BY <1>1, <2>6, <3>2, <3>3 DEF Discover
    <3>5. candidates[n].readiness = Readiness(n)
      BY <3>1, <3>4 DEF Observed, Same
    <3>6. steady'[n] = steady[n]
      <4>1. steady'[n] = Found(n)
        BY <2>6 DEF Discover
      <4> QED
        BY <1>3, <2>1, <2>3, <3>2, <3>5, <4>1 DEF Found, Considered
    <3> QED
      BY <1>3, <2>1, <2>3, <3>1, <3>6
  <2>7. CASE ~Pass /\ ~Discover
    <3>1. candidates'[n] = candidates[n]
      BY <1>5, <2>7, CandidateStep DEF SameCandidate, Aged
    <3>2. steady' = steady
      BY <2>7 DEF Next, Announcement, Tick, Environment, Requests, vars, history,
        Appear, PortAnnounced, Info, Rename, Disappear, Reshape, Relink, Disturb, FilterAnnounced,
        Survey, Connect, Enable, Disable, Reconfigure
    <3> QED
      BY <1>3, <2>3, <3>1, <3>2
  <2> QED
    BY <2>5, <2>6, <2>7
<1> QED
  BY <1>4, <1>5

\* Every filter is created for a layout that each tick of the last
\* TOPOLOGY_SETTLE_INTERVAL has found (ChannelSettler::observe), whatever requests
\* came between: set_enabled and reconfigure empty the settler, a failed disable
\* does not.  If the journal cannot be written a disable fails on a daemon that is
\* disabled already, and leaves it enabled with candidates nobody observed.
THEOREM SettledCorrect ==
  ASSUME Journaled = TRUE
  PROVE  Spec => SettledWhenAdopted
<1>1. Init => ModeInv /\ SteadyInv
  BY DEF Init, ModeInv, SteadyInv
<1>2. DiscoveryInv /\ ModeInv /\ SteadyInv /\ [Next]_vars => (ModeInv /\ SteadyInv)'
  BY ModeStep, SteadyStep DEF DiscoveryInv
<1>3. DiscoveryInv /\ SteadyInv /\ [Next]_vars =>
        \A n \in Ids : managed[n] = None /\ managed'[n] # None /\ "owner" \notin changed[n] =>
          /\ steady[n].channels = managed'[n].channels
          /\ steady[n].age >= Settle
  <2> SUFFICES ASSUME DiscoveryInv, SteadyInv, [Next]_vars, NEW n \in Ids,
                      managed[n] = None, managed'[n] # None, "owner" \notin changed[n]
               PROVE  steady[n].channels = managed'[n].channels /\ steady[n].age >= Settle
    OBVIOUS
  <2>1. Adopted(n)
    BY ManagedStep DEF DiscoveryInv, Inherited
  <2>2. /\ Considered(n) /\ enabled
        /\ candidates[n] # None /\ candidates[n].readiness = Readiness(n)
        /\ Readiness(n).kind = "ready" /\ Readiness(n) = ReadyWith(Labels(n, ports[n]))
        /\ candidates[n].age >= Settle /\ candidates[n].age \in Nat
        /\ managed'[n].channels = Labels(n, ports[n])
    BY <2>1, AdoptedFacts DEF DiscoveryInv, Adopted
  <2>3. steady[n].channels = Readiness(n).channels /\ steady[n].age >= candidates[n].age
    BY <2>2 DEF SteadyInv, Considered
  <2>4. Readiness(n).channels = managed'[n].channels
    BY <2>2 DEF ReadyWith
  <2>5. steady[n].age \in Nat
    <3>1. PICK C, b : steady[n] = [channels |-> C, age |-> b] /\ b \in Nat
      BY DEF DiscoveryInv, TypeInv, IsLayout
    <3> QED
      BY <3>1
  <2> QED
    BY <2>2, <2>3, <2>4, <2>5
<1> QED
  BY <1>1, <1>2, <1>3, DiscoveryInvariant, PTL DEF Spec, SettledWhenAdopted

=============================================================================
