-------------------------- MODULE MeasurementProofs --------------------------
(***************************************************************************)
(* Proofs about what the callback measures and who watches it: MeterSeqlock*)
(* for any number of measurements and of publications, on both kinds of    *)
(* build; and SoakMonitor for any number of daemon processes, with ids     *)
(* used again, of streams and of samples.                                  *)
(***************************************************************************)
EXTENDS MeterSeqlock, SoakMonitor, FiniteSetTheorems, WellFoundedInduction, TLAPS

USE FieldCountAssumption, CyclesAssumption

-----------------------------------------------------------------------------
(* The seqlock (MeterSeqlock) *)

\* The publication in progress has overwritten the fields up to stored.
WriterInv ==
  \A f \in Fields :
    latest[f] = IF Odd(version) /\ f <= stored THEN Complete(version) + 1
                                               ELSE Complete(version)

\* What the reader has seen lies between the version it loaded and memory.
SeenInv ==
  /\ seenVersion <= version
  /\ \A f \in Fields : Complete(seenVersion) <= seen[f] /\ seen[f] <= latest[f]

\* A read that has loaded its first version, and some of the fields.
ReadInv ==
  pc # "before" =>
    /\ ~Odd(before) /\ before <= seenVersion
    /\ (pc = "fields") = (loaded < FieldCount)
    /\ \A f \in 1 .. loaded :
         /\ Complete(before) <= got[f]
         /\ ~reordering /\ version = before => got[f] = Complete(before)

SeqlockInv ==
  TypeOK /\ WriterInv /\ SeenInv /\ ReadInv /\ Coherent /\ NeverStale

-----------------------------------------------------------------------------
\* How completed publications count with the version.
LEMMA CompleteFacts ==
  ASSUME NEW v \in Nat
  PROVE  /\ Complete(v) \in Nat
         /\ Odd(v) => v = 2 * Complete(v) + 1
         /\ ~Odd(v) => v = 2 * Complete(v)
         /\ Odd(v + 1) <=> ~Odd(v)
         /\ Complete(v + 1) = IF Odd(v) THEN Complete(v) + 1 ELSE Complete(v)
  BY DEF Complete, Odd

\* A later version follows at least as many publications.
LEMMA CompleteMonotone ==
  ASSUME NEW v \in Nat, NEW w \in Nat, v <= w
  PROVE  Complete(v) <= Complete(w)
  BY DEF Complete

\* Nothing has been published or read.
LEMMA SeqlockInit == Init => SeqlockInv
  BY CompleteFacts DEF Init, SeqlockInv, TypeOK, WriterInv, SeenInv, ReadInv, Coherent, NeverStale,
     Fields, Complete, Odd

\* The writer's steps: the version moves on, and an unfinished read of the old
\* one can no longer return.
LEMMA WriterStep == SeqlockInv /\ Publish => SeqlockInv'
<1> SUFFICES ASSUME SeqlockInv, Publish PROVE SeqlockInv'
  OBVIOUS
<1>1. TypeOK /\ WriterInv /\ SeenInv /\ ReadInv /\ Coherent /\ NeverStale
  BY DEF SeqlockInv
<1>2. /\ version \in 0 .. 2 * Cycles /\ version \in Nat
      /\ before \in Nat /\ seenVersion \in Nat /\ stored \in 0 .. FieldCount
  BY <1>1 DEF TypeOK
<1>3. /\ Odd(version) => version = 2 * Complete(version) + 1
      /\ Odd(version + 1) <=> ~Odd(version)
      /\ Complete(version + 1) = IF Odd(version) THEN Complete(version) + 1
                                                 ELSE Complete(version)
      /\ Complete(version) \in Nat
  BY <1>2, CompleteFacts
<1>4. CASE BeginPublish
  <2>1. /\ version' = version + 1 /\ ~Odd(version) /\ stored' = 0
        /\ UNCHANGED <<reordering, latest, reader, snapshot>>
        /\ version + 1 \in 0 .. 2 * Cycles
    BY <1>2, <1>4 DEF BeginPublish
  <2>2. TypeOK'
    BY <1>1, <2>1 DEF TypeOK, reader
  <2>3. WriterInv'
    BY <1>1, <1>3, <2>1 DEF WriterInv, Fields
  <2>4. SeenInv' /\ ReadInv'
    BY <1>1, <1>2, <2>1 DEF SeenInv, ReadInv, reader
  <2>5. Coherent' /\ NeverStale'
    BY <1>1, <2>1 DEF Coherent, NeverStale
  <2> QED
    BY <2>2, <2>3, <2>4, <2>5 DEF SeqlockInv
<1>5. CASE Store
  <2> DEFINE i == stored + 1
  <2>1. /\ latest' = [latest EXCEPT ![i] = Complete(version) + 1]
        /\ stored' = i /\ version' = version /\ Odd(version) /\ stored < FieldCount
        /\ UNCHANGED <<reordering, reader, snapshot>>
    BY <1>5 DEF Store
  <2>2. i \in 0 .. FieldCount /\ i \in Fields
    BY <1>2, <2>1 DEF Fields
  <2>3. Complete(version) + 1 \in 0 .. Cycles
    BY <1>2, <1>3, <2>1
  <2>4. latest \in [Fields -> 0 .. Cycles]
    BY <1>1 DEF TypeOK
  <2>5. latest' \in [Fields -> 0 .. Cycles]
    BY <2>1, <2>3, <2>4
  <2>6. TypeOK'
    BY <1>1, <2>1, <2>2, <2>5 DEF TypeOK, reader
  <2>7. ASSUME NEW f \in Fields
        PROVE  latest'[f] = IF f <= i THEN Complete(version) + 1 ELSE Complete(version)
    <3>1. latest[f] = IF f <= stored THEN Complete(version) + 1 ELSE Complete(version)
      BY <1>1, <2>1 DEF WriterInv
    <3>2. CASE f = i
      BY <1>2, <2>1, <2>2, <2>4, <3>2
    <3>3. CASE f # i
      <4>1. latest'[f] = latest[f] /\ (f <= i <=> f <= stored)
        BY <1>2, <2>1, <2>4, <3>3 DEF Fields
      <4> QED
        BY <3>1, <4>1
    <3> QED
      BY <3>2, <3>3
  <2>8. WriterInv'
    BY <2>1, <2>7 DEF WriterInv
  <2>9. SeenInv'
    <3>1. ASSUME NEW f \in Fields PROVE latest[f] <= latest'[f]
      BY <1>1, <1>2, <1>3, <2>1, <2>2, <2>7 DEF WriterInv, Fields
    <3>2. ASSUME NEW f \in Fields
          PROVE  seen[f] \in Nat /\ latest[f] \in Nat /\ latest'[f] \in Nat
      BY <1>1, <2>5 DEF TypeOK
    <3> QED
      BY <1>1, <2>1, <3>1, <3>2 DEF SeenInv, reader
  <2>10. ReadInv' /\ Coherent' /\ NeverStale'
    BY <1>1, <2>1 DEF ReadInv, Coherent, NeverStale, reader
  <2> QED
    BY <2>6, <2>8, <2>9, <2>10 DEF SeqlockInv
<1>6. CASE EndPublish
  <2>1. /\ version' = version + 1 /\ Odd(version) /\ stored = FieldCount
        /\ UNCHANGED <<reordering, stored, latest, reader, snapshot>>
    BY <1>6 DEF EndPublish
  <2>2. version + 1 \in 0 .. 2 * Cycles
    BY <1>2, <1>3, <2>1
  <2>3. TypeOK'
    BY <1>1, <2>1, <2>2 DEF TypeOK, reader
  <2>4. WriterInv'
    BY <1>1, <1>3, <2>1 DEF WriterInv, Fields
  <2>5. SeenInv' /\ ReadInv'
    BY <1>1, <1>2, <2>1 DEF SeenInv, ReadInv, reader
  <2>6. Coherent' /\ NeverStale'
    BY <1>1, <2>1 DEF Coherent, NeverStale
  <2> QED
    BY <2>3, <2>4, <2>5, <2>6 DEF SeqlockInv
<1> QED
  BY <1>4, <1>5, <1>6 DEF Publish

\* A version the reader may load, and what it knows after that.
LEMMA SeeStep ==
  ASSUME SeqlockInv, NEW v \in Visible(seenVersion, version), See(v)
  PROVE  /\ v \in 0 .. 2 * Cycles /\ seenVersion <= v /\ v <= version
         /\ seenVersion' = v
         /\ seen' \in [Fields -> 0 .. Cycles]
         /\ \A f \in Fields : Complete(v) <= seen'[f] /\ seen'[f] <= latest[f]
<1>1. v \in 0 .. 2 * Cycles /\ seenVersion <= v /\ v <= version
  BY DEF Visible, SeqlockInv, TypeOK, SeenInv
<1>2. v \in Nat /\ version \in Nat
  BY DEF Visible, SeqlockInv, TypeOK
<1>3. Complete(v) \in Nat /\ Complete(version) \in Nat
  BY <1>2, CompleteFacts
<1>4. Complete(v) <= Complete(version)
  BY <1>1, <1>2, CompleteMonotone
<1>5. ASSUME NEW f \in Fields
      PROVE  /\ latest[f] \in 0 .. Cycles /\ seen[f] \in 0 .. Cycles
             /\ seen[f] <= latest[f] /\ Complete(version) <= latest[f]
  <2>1. latest[f] \in 0 .. Cycles /\ seen[f] \in 0 .. Cycles /\ seen[f] <= latest[f]
    BY DEF SeqlockInv, TypeOK, SeenInv
  <2>2. latest[f] = Complete(version) + 1 \/ latest[f] = Complete(version)
    BY DEF SeqlockInv, WriterInv
  <2> QED
    BY <1>3, <2>1, <2>2
<1>6. ASSUME NEW f \in Fields
      PROVE  seen'[f] \in 0 .. Cycles /\ Complete(v) <= seen'[f] /\ seen'[f] <= latest[f]
  BY <1>3, <1>4, <1>5 DEF See
<1>7. seen' \in [Fields -> 0 .. Cycles]
  BY <1>6 DEF See
<1> QED
  BY <1>1, <1>6, <1>7 DEF See

\* The reader's steps.
LEMMA ReaderStep == SeqlockInv /\ Read => SeqlockInv'
<1> SUFFICES ASSUME SeqlockInv, Read PROVE SeqlockInv'
  OBVIOUS
<1>1. TypeOK /\ WriterInv /\ SeenInv /\ ReadInv /\ Coherent /\ NeverStale
  BY DEF SeqlockInv
<1>2. /\ version \in Nat /\ before \in Nat /\ seenVersion \in Nat
      /\ before \in 0 .. 2 * Cycles /\ seenVersion <= version
  BY <1>1 DEF TypeOK, SeenInv
<1>3. CASE LoadVersion
  <2>1. PICK v \in Visible(seenVersion, version) :
          /\ See(v)
          /\ before' = v
          /\ pc' = IF v # 0 /\ ~Odd(v) THEN "fields" ELSE "before"
    BY <1>3 DEF LoadVersion
  <2>2. /\ v \in 0 .. 2 * Cycles /\ v <= version
        /\ seenVersion' = v
        /\ seen' \in [Fields -> 0 .. Cycles]
        /\ \A f \in Fields : Complete(v) <= seen'[f] /\ seen'[f] <= latest[f]
    BY <2>1, SeeStep
  <2>3. /\ loaded' = 0
        /\ UNCHANGED <<reordering, version, stored, latest, got, snapshot>>
    BY <1>3 DEF LoadVersion, writer
  <2>4. loaded' \in 0 .. FieldCount /\ pc' \in {"before", "fields", "after"}
    BY <2>1, <2>3
  <2>5. TypeOK'
    BY <1>1, <2>1, <2>2, <2>3, <2>4 DEF TypeOK
  <2>6. WriterInv' /\ Coherent' /\ NeverStale'
    BY <1>1, <2>3 DEF WriterInv, Coherent, NeverStale
  <2>7. SeenInv'
    BY <2>2, <2>3 DEF SeenInv
  <2>8. ReadInv'
    BY <2>1, <2>2, <2>3 DEF ReadInv
  <2> QED
    BY <2>5, <2>6, <2>7, <2>8 DEF SeqlockInv
<1>4. CASE LoadField
  <2> DEFINE i == loaded + 1
  <2>1. PICK k \in Visible(seen[i], latest[i]) :
          got' = [got EXCEPT ![i] = k] /\ seen' = [seen EXCEPT ![i] = k]
    BY <1>4 DEF LoadField
  <2>2. /\ pc = "fields" /\ loaded' = i
        /\ pc' = IF i = FieldCount THEN "after" ELSE "fields"
        /\ UNCHANGED <<reordering, version, stored, latest, before, seenVersion, snapshot>>
    BY <1>4 DEF LoadField, writer
  <2>3. ~Odd(before) /\ before <= seenVersion /\ loaded \in Nat /\ loaded < FieldCount
    BY <1>1, <2>2 DEF ReadInv, TypeOK
  <2>4. i \in 0 .. FieldCount /\ i \in Fields
    BY <2>3 DEF Fields
  <2>5. /\ latest[i] \in 0 .. Cycles /\ seen[i] \in 0 .. Cycles /\ seen[i] <= latest[i]
        /\ Complete(seenVersion) <= seen[i]
    BY <1>1, <2>4 DEF TypeOK, SeenInv
  <2>6. k \in 0 .. Cycles /\ seen[i] <= k /\ k <= latest[i] /\ (~reordering => k = latest[i])
    BY <2>1, <2>5 DEF Visible
  <2>7. Complete(before) \in Nat /\ Complete(seenVersion) \in Nat
    BY <1>2, CompleteFacts
  <2>8. Complete(before) <= Complete(seenVersion)
    BY <1>2, <2>3, CompleteMonotone
  <2>9. Complete(before) <= k
    BY <2>5, <2>6, <2>7, <2>8
  <2>10. ~reordering /\ version = before => k = Complete(before)
    BY <1>1, <2>3, <2>4, <2>6 DEF WriterInv
  <2>11. got \in [Fields -> 0 .. Cycles] /\ seen \in [Fields -> 0 .. Cycles]
    BY <1>1 DEF TypeOK
  <2>12. got' \in [Fields -> 0 .. Cycles] /\ seen' \in [Fields -> 0 .. Cycles]
    BY <2>1, <2>6, <2>11
  <2>13. TypeOK'
    BY <1>1, <2>2, <2>4, <2>12 DEF TypeOK
  <2>14. WriterInv' /\ Coherent' /\ NeverStale'
    BY <1>1, <2>2 DEF WriterInv, Coherent, NeverStale
  <2>15. SeenInv'
    <3>1. ASSUME NEW f \in Fields
          PROVE  Complete(seenVersion) <= seen'[f] /\ seen'[f] <= latest[f]
      <4>1. CASE f = i
        BY <2>1, <2>4, <2>5, <2>6, <2>7, <2>11, <4>1
      <4>2. CASE f # i
        BY <1>1, <2>1, <2>11, <4>2 DEF SeenInv
      <4> QED
        BY <4>1, <4>2
    <3> QED
      BY <1>2, <2>2, <3>1 DEF SeenInv
  <2>16. ReadInv'
    <3>1. ASSUME NEW f \in 1 .. i
          PROVE  /\ Complete(before) <= got'[f]
                 /\ ~reordering /\ version = before => got'[f] = Complete(before)
      <4>1. CASE f = i
        BY <2>1, <2>4, <2>9, <2>10, <2>11, <4>1
      <4>2. CASE f # i
        <5>1. f \in 1 .. loaded /\ f \in Fields
          BY <2>3, <4>2 DEF Fields
        <5> QED
          BY <1>1, <2>1, <2>2, <2>11, <4>2, <5>1 DEF ReadInv
      <4> QED
        BY <4>1, <4>2
    <3>2. (pc' = "fields") = (i < FieldCount)
      BY <2>2, <2>3
    <3> QED
      BY <2>2, <2>3, <3>1, <3>2 DEF ReadInv
  <2> QED
    BY <2>13, <2>14, <2>15, <2>16 DEF SeqlockInv
<1>5. CASE CheckVersion
  <2>1. PICK v \in Visible(seenVersion, version) :
          /\ See(v)
          /\ snapshot' = IF v = before
                           THEN [sequence |-> Complete(before), fields |-> got]
                           ELSE snapshot
    BY <1>5 DEF CheckVersion
  <2>2. /\ v \in 0 .. 2 * Cycles /\ v <= version
        /\ seenVersion' = v
        /\ seen' \in [Fields -> 0 .. Cycles]
        /\ \A f \in Fields : Complete(v) <= seen'[f] /\ seen'[f] <= latest[f]
    BY <2>1, SeeStep
  <2>3. /\ pc = "after" /\ pc' = "before"
        /\ UNCHANGED <<reordering, version, stored, latest, before, loaded, got>>
    BY <1>5 DEF CheckVersion, writer
  <2>4. loaded = FieldCount
    BY <1>1, <2>3 DEF ReadInv, TypeOK
  <2>5. ~reordering => v = version
    BY <2>1 DEF Visible
  <2>6. Complete(before) \in 0 .. Cycles
    <3>1. before \in 0 .. 2 * Cycles /\ ~Odd(before)
      BY <1>1, <2>3 DEF TypeOK, ReadInv
    <3>2. Complete(before) \in Nat /\ before = 2 * Complete(before)
      BY <3>1, CompleteFacts
    <3> QED
      BY <1>2, <3>1, <3>2
  <2>7. snapshot' \in [sequence : 0 .. Cycles, fields : [Fields -> 0 .. Cycles]]
    BY <1>1, <2>1, <2>6 DEF TypeOK
  <2>8. TypeOK'
    BY <1>1, <2>2, <2>3, <2>7 DEF TypeOK
  <2>9. WriterInv' /\ SeenInv' /\ ReadInv'
    BY <1>1, <2>2, <2>3 DEF WriterInv, SeenInv, ReadInv
  <2>10. \A f \in Fields :
           /\ Complete(before) <= got[f]
           /\ ~reordering /\ v = before => got[f] = Complete(before)
    BY <1>1, <2>3, <2>4, <2>5 DEF ReadInv, Fields
  <2>11. Coherent' /\ NeverStale'
    <3>1. CASE v = before
      BY <2>1, <2>3, <2>10, <3>1 DEF Coherent, NeverStale
    <3>2. CASE v # before
      BY <1>1, <2>1, <2>3, <3>2 DEF Coherent, NeverStale
    <3> QED
      BY <3>1, <3>2
  <2> QED
    BY <2>8, <2>9, <2>11 DEF SeqlockInv
<1> QED
  BY <1>3, <1>4, <1>5 DEF Read

\* The seqlock's invariant: what the writer has stored and the reader has seen
\* fits the version on both sides.
THEOREM SeqlockInvariant == Spec => []SeqlockInv
<1>1. SeqlockInv /\ UNCHANGED vars => SeqlockInv'
  BY DEF vars, writer, reader, SeqlockInv, TypeOK, WriterInv, SeenInv, ReadInv, Coherent, NeverStale
<1>2. SeqlockInv /\ [Next]_vars => SeqlockInv'
  BY <1>1, WriterStep, ReaderStep DEF Next
<1> QED
  BY SeqlockInit, <1>2, PTL DEF Spec

\* On a build that keeps loads in order every snapshot is one publication,
\* whole, for any number of measurements.
THEOREM SnapshotsCoherent == Spec => []Coherent
  BY SeqlockInvariant, PTL DEF SeqlockInv

\* On every build no field is older than the snapshot's sequence.
THEOREM SnapshotsNeverStale == Spec => []NeverStale
  BY SeqlockInvariant, PTL DEF SeqlockInv

-----------------------------------------------------------------------------
(* What the soak monitor adds up (SoakMonitor) *)

USE NoneAssumption, BoundsAssumption

\* The process that runs is the last that was started.
ProcessInv ==
  /\ lives \in 0 .. Lives
  /\ process # None =>
       process \in Processes /\ lives \in 1 .. Lives /\ process.start = lives

\* A set of ticks with a least and a greatest.
Spans(S, low, high) ==
  S \subseteq Nat /\ low \in S /\ high \in S /\ \A x \in S : low <= x /\ x <= high

\* Which ticks have been sampled of each process.
SampledInv ==
  /\ DOMAIN sampled = 1 .. Lives
  /\ \A k \in 1 .. Lives : sampled[k] # {} => \E low, high : Spans(sampled[k], low, high)

\* The last sample is the last of the last process sampled; if that one still runs it is
\* known by both, its id and its start.
PreviousInv ==
  /\ previous = None => \A k \in 1 .. Lives : sampled[k] = {}
  /\ previous # None =>
       /\ previous \in Processes
       /\ previous.start \in 1 .. lives
       /\ \E low : Spans(sampled[previous.start], low, previous.ticks)
       /\ \A k \in 1 .. Lives : k > previous.start => sampled[k] = {}
       /\ process # None /\ previous.start = process.start =>
            previous.pid = process.pid /\ previous.ticks <= process.ticks

\* Which processes have been sampled.
SeenProcesses == {k \in 1 .. Lives : sampled[k] # {}}

\* Each but the first was a restart.
CountInv == restarts = IF SeenProcesses = {} THEN 0 ELSE Cardinality(SeenProcesses) - 1

\* The sums f of what the first processes used lead up to the sum s.
SumsTo(f, s) ==
  /\ f[0] = 0
  /\ \A k \in 1 .. Lives : f[k - 1] \in Int /\ f[k] = f[k - 1] + Used(k)
  /\ f[Lives] = s

\* What was added up is such a sum.
SumInv == cpu \in Int /\ \E f : SumsTo(f, cpu)

\* The invariant of the accounts.
AccountingInv == ProcessInv /\ SampledInv /\ PreviousInv /\ CountInv /\ SumInv

\* The ends of such a set are its least and its greatest.
LEMMA SpanEnds ==
  ASSUME NEW S, NEW low, NEW high, Spans(S, low, high)
  PROVE  Min(S) = low /\ Max(S) = high
<1>1. \A z \in S : (\A y \in S : z >= y) => z = high
  BY SMT DEF Spans
<1>2. \A z \in S : (\A y \in S : z <= y) => z = low
  BY SMT DEF Spans
<1>3. /\ low \in S /\ \A y \in S : low <= y
      /\ high \in S /\ \A y \in S : high >= y
  BY SMT DEF Spans
<1>4. Max(S) = high
  BY <1>1, <1>3, Zenon DEF Max
<1>5. Min(S) = low
  BY <1>2, <1>3, Zenon DEF Min
<1> QED
  BY <1>4, <1>5

\* So a process used the difference.
LEMMA UsedFacts ==
  ASSUME SampledInv, NEW k \in 1 .. Lives
  PROVE  /\ Used(k) \in Int
         /\ sampled[k] = {} => Used(k) = 0
         /\ \A low, high : Spans(sampled[k], low, high) => Used(k) = high - low
<1>1. ASSUME NEW low, NEW high, Spans(sampled[k], low, high)
      PROVE  Used(k) = high - low /\ high - low \in Int
  <2>1. sampled[k] # {} /\ high \in Int /\ low \in Int
    BY <1>1 DEF Spans
  <2> QED
    BY <1>1, <2>1, SpanEnds DEF Used
<1>2. CASE sampled[k] = {}
  <2>1. Used(k) = 0
    BY <1>2 DEF Used
  <2> QED
    BY <1>1, <1>2, <2>1
<1>3. CASE sampled[k] # {}
  <2>1. PICK low, high : Spans(sampled[k], low, high)
    BY <1>3 DEF SampledInv
  <2> QED
    BY <1>1, <1>3, <2>1
<1> QED
  BY <1>2, <1>3

\* The same in the next state.
LEMMA UsedNext ==
  ASSUME SampledInv', NEW k \in 1 .. Lives
  PROVE  /\ Used(k)' \in Int
         /\ sampled'[k] = {} => Used(k)' = 0
         /\ \A low, high : Spans(sampled'[k], low, high) => Used(k)' = high - low
<1>1. ASSUME NEW low, NEW high, Spans(sampled'[k], low, high)
      PROVE  Used(k)' = high - low /\ high - low \in Int
  <2>1. sampled'[k] # {} /\ high \in Int /\ low \in Int
    BY <1>1 DEF Spans
  <2> QED
    BY <1>1, <2>1, SpanEnds DEF Used
<1>2. CASE sampled'[k] = {}
  <2>1. Used(k)' = 0
    BY <1>2 DEF Used
  <2> QED
    BY <1>1, <1>2, <2>1
<1>3. CASE sampled'[k] # {}
  <2>1. PICK low, high : Spans(sampled'[k], low, high)
    BY <1>3 DEF SampledInv
  <2> QED
    BY <1>1, <1>3, <2>1
<1> QED
  BY <1>2, <1>3

\* What one process has used more is added to every sum from there.
LEMMA SumStep ==
  ASSUME Lives \in Nat, SampledInv, SampledInv', SumInv, NEW p \in 1 .. Lives, NEW d \in Int,
         \A k \in 1 .. Lives : k # p => sampled'[k] = sampled[k],
         Used(p)' = Used(p) + d,
         cpu' = cpu + d
  PROVE  SumInv'
<1>1. PICK f : SumsTo(f, cpu)
  BY DEF SumInv
<1> DEFINE g == [k \in 0 .. Lives |-> IF k < p THEN f[k] ELSE f[k] + d]
<1>2. \A k \in 0 .. Lives : g[k] = IF k < p THEN f[k] ELSE f[k] + d
  OBVIOUS
<1>3. f[0] = 0 /\ f[Lives] = cpu /\ cpu \in Int /\ p \in Nat
  BY <1>1 DEF SumsTo, SumInv
<1> HIDE DEF g
<1>4. ASSUME NEW k \in 1 .. Lives PROVE g[k - 1] \in Int /\ g[k] = g[k - 1] + Used(k)'
  <2>1. /\ f[k - 1] \in Int /\ f[k] = f[k - 1] + Used(k) /\ f[k] \in Int
        /\ Used(k) \in Int /\ k \in 0 .. Lives /\ k - 1 \in 0 .. Lives /\ k \in Int
    BY <1>1, UsedFacts DEF SumsTo
  <2>2. k # p => Used(k)' = Used(k)
    BY DEF Used
  <2>3. /\ g[k] = IF k < p THEN f[k] ELSE f[k] + d
        /\ g[k - 1] = IF k - 1 < p THEN f[k - 1] ELSE f[k - 1] + d
    BY <1>2, <2>1
  <2>4. CASE k < p
    BY <2>1, <2>2, <2>3, <2>4, <1>3
  <2>5. CASE k = p
    BY <2>1, <2>3, <2>5, <1>3
  <2>6. CASE k > p
    BY <2>1, <2>2, <2>3, <2>6, <1>3
  <2> QED
    BY <1>3, <2>1, <2>4, <2>5, <2>6
<1>5. g[0] = 0 /\ g[Lives] = cpu' /\ cpu' \in Int
  BY <1>2, <1>3
<1>6. SumsTo(g, cpu)'
  BY <1>4, <1>5 DEF SumsTo
<1> QED
  BY <1>5, <1>6 DEF SumInv

\* One more process has been seen.
LEMMA CountStep ==
  ASSUME Lives \in Nat, CountInv, NEW p \in 1 .. Lives, sampled[p] = {}, sampled'[p] # {},
         \A k \in 1 .. Lives : k # p => sampled'[k] = sampled[k],
         restarts' = IF SeenProcesses = {} THEN restarts ELSE restarts + 1
  PROVE  CountInv'
<1>1. SeenProcesses' = SeenProcesses \cup {p} /\ p \notin SeenProcesses
  BY DEF SeenProcesses
<1>2. IsFiniteSet(SeenProcesses)
  <2>1. IsFiniteSet(1 .. Lives) /\ SeenProcesses \subseteq 1 .. Lives
    BY FS_Interval DEF SeenProcesses
  <2> QED
    BY <2>1, FS_Subset
<1>3. /\ Cardinality(SeenProcesses') = Cardinality(SeenProcesses) + 1
      /\ Cardinality(SeenProcesses) \in Nat
  BY <1>1, <1>2, FS_AddElement, FS_CardinalityType
<1>4. CASE SeenProcesses = {}
  <2>1. Cardinality(SeenProcesses) = 0
    BY <1>4, FS_EmptySet
  <2> QED
    BY <1>1, <1>3, <1>4, <2>1 DEF CountInv
<1>5. CASE SeenProcesses # {}
  BY <1>1, <1>3, <1>5 DEF CountInv
<1> QED
  BY <1>4, <1>5

\* A sample of the daemon's process.
LEMMA ObserveStep ==
  ASSUME AccountingInv, process # None, ObserveProcess, UNCHANGED <<lives, process>>
  PROVE  AccountingInv'
<1>0. PICK p \in 1 .. Lives, t \in Nat : p = process.start /\ t = process.ticks
  BY DEF AccountingInv, ProcessInv, Processes
<1>1. /\ Lives \in Nat /\ p \in 1 .. Lives /\ p = lives /\ t \in Nat
      /\ process \in Processes /\ lives \in Nat
  BY <1>0 DEF AccountingInv, ProcessInv, Processes
<1>2. /\ DOMAIN sampled' = 1 .. Lives
      /\ sampled'[p] = sampled[p] \cup {t}
      /\ \A k \in 1 .. Lives : k # p => sampled'[k] = sampled[k]
  BY <1>0, <1>1 DEF ObserveProcess, AccountingInv, SampledInv
<1>3. previous' = process /\ process' = process /\ lives' = lives
  BY DEF ObserveProcess
<1>4. ProcessInv'
  BY <1>3 DEF AccountingInv, ProcessInv
<1>5. CASE previous = None \/ previous.start # p
  <2>1. sampled[p] = {} /\ (SeenProcesses = {} <=> previous = None)
    <3>1. CASE previous = None
      BY <1>1, <3>1 DEF AccountingInv, PreviousInv, SeenProcesses
    <3>2. CASE previous # None
      <4>1. previous.start \in 1 .. Lives /\ p > previous.start /\ sampled[previous.start] # {}
        BY <1>1, <1>5, <3>2 DEF AccountingInv, PreviousInv, Spans
      <4> QED
        BY <1>1, <3>2, <4>1 DEF AccountingInv, PreviousInv, SeenProcesses
    <3> QED
      BY <3>1, <3>2
  <2>2. Spans(sampled'[p], t, t)
    BY <1>1, <1>2, <2>1 DEF Spans
  <2>3. SampledInv'
    BY <1>2, <2>2 DEF AccountingInv, SampledInv
  <2>4. /\ cpu' = cpu
        /\ restarts' = IF SeenProcesses = {} THEN restarts ELSE restarts + 1
    BY <1>0, <1>5, <2>1 DEF ObserveProcess, SameIncarnation
  <2>5. CountInv'
    <3>1. sampled'[p] # {}
      BY <1>2
    <3> QED
      BY <1>1, <1>2, <2>1, <2>4, <3>1, CountStep DEF AccountingInv
  <2>6. SumInv'
    <3>0. Used(p) = 0
      BY <1>1, <2>1, UsedFacts DEF AccountingInv
    <3>1. Used(p)' = t - t
      BY <1>1, <2>2, <2>3, UsedNext
    <3>2. Used(p)' = Used(p) + 0 /\ cpu' = cpu + 0
      BY <1>1, <2>4, <3>0, <3>1 DEF AccountingInv, SumInv
    <3> QED
      BY <1>1, <1>2, <2>3, <3>2, SumStep DEF AccountingInv
  <2>7. PreviousInv'
    <3>1. \A k \in 1 .. Lives : k > p => sampled'[k] = {}
      BY <1>1, <1>2, <1>5 DEF AccountingInv, PreviousInv
    <3>2. process.start = p /\ process.ticks = t
      BY <1>0
    <3>3. previous' # None
      BY <1>3
    <3> QED
      BY <1>1, <1>3, <2>2, <3>1, <3>2, <3>3 DEF PreviousInv
  <2> QED
    BY <1>4, <2>3, <2>5, <2>6, <2>7 DEF AccountingInv
<1>6. CASE previous # None /\ previous.start = p
  <2>1. PICK low, q : q = previous.ticks /\ Spans(sampled[p], low, q)
    BY <1>6 DEF AccountingInv, PreviousInv
  <2>2. q \in Nat /\ q <= t /\ low \in Nat /\ previous.pid = process.pid
    BY <1>0, <1>6, <2>1 DEF AccountingInv, PreviousInv, Spans
  <2>3. Spans(sampled'[p], low, t)
    <3>1. \A x \in sampled[p] : low <= x /\ x <= t
      BY <1>1, <2>1, <2>2 DEF Spans
    <3>2. low <= t /\ low \in sampled[p] /\ sampled[p] \subseteq Nat
      BY <2>1, <3>1 DEF Spans
    <3>3. \A x \in sampled'[p] : x \in Nat /\ low <= x /\ x <= t
      BY <1>1, <1>2, <3>1, <3>2
    <3> QED
      BY <1>2, <3>2, <3>3 DEF Spans
  <2>4. SampledInv'
    BY <1>2, <2>3 DEF AccountingInv, SampledInv
  <2>5. restarts' = restarts /\ cpu' = cpu + (t - q)
    <3>1. SameIncarnation(process, previous)
      BY <1>0, <1>6, <2>2 DEF SameIncarnation
    <3>2. restarts' = restarts /\ cpu' = cpu + IF t > q THEN t - q ELSE 0
      BY <1>0, <1>6, <2>1, <3>1 DEF ObserveProcess
    <3>3. (IF t > q THEN t - q ELSE 0) = t - q
      BY <1>1, <2>2
    <3> QED
      BY <3>2, <3>3
  <2>6. CountInv'
    <3>1. sampled[p] # {} /\ sampled'[p] # {}
      BY <2>1, <2>3 DEF Spans
    <3>2. SeenProcesses' = SeenProcesses
      BY <1>2, <3>1 DEF SeenProcesses
    <3> QED
      BY <2>5, <3>2 DEF AccountingInv, CountInv
  <2>7. SumInv'
    <3>0. Used(p) = q - low
      BY <1>1, <2>1, UsedFacts DEF AccountingInv
    <3>1. Used(p)' = t - low
      BY <1>1, <2>3, <2>4, UsedNext
    <3>2. Used(p)' = Used(p) + (t - q) /\ t - q \in Int
      BY <1>1, <2>2, <3>0, <3>1
    <3> QED
      BY <1>1, <1>2, <2>4, <2>5, <3>2, SumStep DEF AccountingInv
  <2>8. PreviousInv'
    <3>1. \A k \in 1 .. Lives : k > p => sampled'[k] = {}
      BY <1>1, <1>2, <1>6 DEF AccountingInv, PreviousInv
    <3>2. process.start = p /\ process.ticks = t
      BY <1>0
    <3> QED
      BY <1>1, <1>3, <1>6, <2>3, <3>1, <3>2 DEF PreviousInv
  <2> QED
    BY <1>4, <2>4, <2>6, <2>7, <2>8 DEF AccountingInv
<1> QED
  BY <1>5, <1>6

\* The sums go along with what was sampled.
LEMMA Untouched ==
  ASSUME SampledInv, CountInv, SumInv, UNCHANGED <<restarts, cpu, sampled>>
  PROVE  SampledInv' /\ CountInv' /\ SumInv'
<1>1. SampledInv' /\ CountInv'
  BY DEF SampledInv, CountInv, SeenProcesses
<1>2. \A k \in 1 .. Lives : Used(k)' = Used(k)
  BY DEF Used
<1>3. PICK f : SumsTo(f, cpu)
  BY DEF SumInv
<1>4. SumsTo(f, cpu)'
  BY <1>2, <1>3 DEF SumsTo
<1> QED
  BY <1>1, <1>4 DEF SumInv

\* Every step keeps the books.
LEMMA AccountingStep ==
  ASSUME AccountingInv, [MonitorNext]_monitorVars
  PROVE  AccountingInv'
<1>1. ASSUME UNCHANGED <<lives, process, previous, restarts, cpu, sampled>> PROVE AccountingInv'
  <2>1. ProcessInv' /\ PreviousInv'
    BY <1>1 DEF AccountingInv, ProcessInv, PreviousInv
  <2> QED
    BY <1>1, <2>1, Untouched DEF AccountingInv
<1>2. CASE Start
  <2>1. PICK pid \in Pids : process' = [pid |-> pid, start |-> lives + 1, ticks |-> 0]
    BY <1>2 DEF Start
  <2>2. /\ process = None /\ lives < Lives /\ lives' = lives + 1 /\ lives \in Nat
        /\ UNCHANGED <<previous, restarts, cpu, sampled>>
    BY <1>2 DEF Start, monitor, history, AccountingInv, ProcessInv
  <2>3. process' \in Processes /\ process'.start = lives' /\ lives' \in 1 .. Lives
    BY <2>1, <2>2 DEF Processes
  <2>4. ProcessInv'
    BY <2>3 DEF ProcessInv
  <2>5. PreviousInv'
    <3>1. previous # None => previous.start \in 1 .. lives /\ previous.start \in 1 .. lives'
                             /\ previous.start # process'.start
      BY <2>2, <2>3 DEF AccountingInv, PreviousInv
    <3> QED
      BY <2>2, <3>1 DEF AccountingInv, PreviousInv
  <2> QED
    BY <2>2, <2>4, <2>5, Untouched DEF AccountingInv
<1>3. CASE Stop
  <2>1. process' = None /\ UNCHANGED <<lives, previous, restarts, cpu, sampled>>
    BY <1>3 DEF Stop, monitor
  <2>2. ProcessInv' /\ PreviousInv'
    BY <2>1 DEF AccountingInv, ProcessInv, PreviousInv
  <2> QED
    BY <2>1, <2>2, Untouched DEF AccountingInv
<1>4. CASE Work
  <2>1. /\ process # None /\ process' = [process EXCEPT !.ticks = @ + 1]
        /\ UNCHANGED <<lives, previous, restarts, cpu, sampled>>
    BY <1>4 DEF Work, monitor, history
  <2>2. /\ process \in Processes /\ process' \in Processes
        /\ process'.start = process.start /\ process'.pid = process.pid
        /\ process'.ticks = process.ticks + 1 /\ process.ticks \in Nat
    BY <2>1 DEF AccountingInv, ProcessInv, Processes
  <2>3. ProcessInv'
    BY <2>1, <2>2 DEF AccountingInv, ProcessInv
  <2>4. PreviousInv'
    <3>1. previous # None => previous.ticks \in Nat
      BY DEF AccountingInv, PreviousInv, Spans
    <3>2. previous # None /\ previous.start = process.start =>
            previous.pid = process'.pid /\ previous.ticks <= process'.ticks
      BY <2>1, <2>2, <3>1 DEF AccountingInv, PreviousInv
    <3> QED
      BY <2>1, <2>2, <3>2 DEF AccountingInv, PreviousInv
  <2> QED
    BY <2>1, <2>3, <2>4, Untouched DEF AccountingInv
<1>5. ASSUME NEW n \in Nodes,
             Adopt(n) \/ Connect(n) \/ Release(n) \/ Detach(n) \/ Disturb(n)
               \/ PublishMeter(n) \/ HearSilence(n) \/ Update(n)
      PROVE  AccountingInv'
  BY <1>1, <1>5 DEF Adopt, Connect, Release, Detach, Disturb, PublishMeter,
       HearSilence, Update, daemon, monitor, history
<1>6. CASE Sample
  <2>1. process # None /\ UNCHANGED <<lives, process>>
    BY <1>6 DEF Sample, daemon
  <2>2. ObserveProcess \/ UNCHANGED <<previous, restarts, cpu, sampled>>
    BY <1>6 DEF Sample
  <2>3. CASE ObserveProcess
    BY <2>1, <2>3, ObserveStep
  <2>4. CASE UNCHANGED <<previous, restarts, cpu, sampled>>
    BY <1>1, <2>1, <2>4
  <2> QED
    BY <2>2, <2>3, <2>4
<1>7. CASE UNCHANGED monitorVars
  <2>1. UNCHANGED <<lives, process, previous, restarts, cpu, sampled>>
    BY <1>7 DEF monitorVars, daemon, monitor, history
  <2> QED
    BY <1>1, <2>1
<1> QED
  BY <1>2, <1>3, <1>4, <1>5, <1>6, <1>7 DEF MonitorNext

\* Nothing has been sampled at first.
LEMMA AccountingInit == MonitorInit => AccountingInv
<1> SUFFICES ASSUME MonitorInit PROVE AccountingInv
  OBVIOUS
<1>1. /\ Lives \in Nat /\ lives = 0 /\ process = None /\ previous = None
      /\ sampled = [k \in 1 .. Lives |-> {}] /\ restarts = 0 /\ cpu = 0
  BY DEF MonitorInit
<1>2. ProcessInv /\ SampledInv /\ PreviousInv
  BY <1>1 DEF ProcessInv, SampledInv, PreviousInv
<1>3. CountInv
  BY <1>1 DEF CountInv, SeenProcesses
<1>4. SumInv
  <2> DEFINE f == [k \in 0 .. Lives |-> 0]
  <2>1. \A k \in 1 .. Lives : k - 1 \in 0 .. Lives /\ k \in 0 .. Lives /\ Used(k) = 0
    BY <1>1, <1>2, UsedFacts
  <2>2. SumsTo(f, cpu)
    BY <1>1, <2>1 DEF SumsTo
  <2> QED
    BY <1>1, <2>2 DEF SumInv
<1> QED
  BY <1>2, <1>3, <1>4 DEF AccountingInv

\* A set of natural numbers that is not empty has a least element.
LEMMA LeastNatural ==
  ASSUME NEW T, T \subseteq Nat, T # {}
  PROVE  \E x \in T : \A y \in T : x <= y
<1> DEFINE R == OpToRel(<, Nat)
<1>1. \E x \in T : \A y \in T : ~(<<y, x>> \in R)
  <2>1. IsWellFoundedOn(R, Nat)
    BY NatLessThanWellFounded
  <2> HIDE DEF R
  <2> QED
    BY <2>1, WFMin
<1>2. \A x, y \in Nat : y < x => <<y, x>> \in R
  BY DEF OpToRel
<1> HIDE DEF R
<1>3. PICK x \in T : \A y \in T : ~(<<y, x>> \in R)
  BY <1>1
<1>4. ASSUME NEW y \in T PROVE x <= y
  <2>1. x \in Nat /\ y \in Nat
    OBVIOUS
  <2>2. ~(y < x)
    BY <1>2, <1>3, <2>1
  <2> QED
    BY <2>1, <2>2
<1> QED
  BY <1>4

\* Any sums f are those of the recursive function.
LEMMA SumsAreUsedBy ==
  ASSUME Lives \in Nat, NEW f, NEW s, SumsTo(f, s)
  PROVE  UsedBy[Lives] = s
<1> DEFINE Step(g) == [k \in 0 .. Lives |-> IF k = 0 THEN 0 ELSE g[k - 1] + Used(k)]
<1>1. \E g : g = Step(g)
  <2> DEFINE g == [k \in 0 .. Lives |-> f[k]]
  <2>1. ASSUME NEW k \in 0 .. Lives PROVE g[k] = Step(g)[k]
    <3>1. CASE k = 0
      BY <3>1 DEF SumsTo
    <3>2. CASE k # 0
      <4>1. k \in 1 .. Lives /\ k - 1 \in 0 .. Lives
        BY <3>2
      <4> QED
        BY <3>2, <4>1 DEF SumsTo
    <3> QED
      BY <3>1, <3>2
  <2>2. g = Step(g)
    BY <2>1
  <2> QED
    BY <2>2
<1>2. UsedBy = Step(UsedBy)
  BY <1>1 DEF UsedBy
<1>3. /\ UsedBy[0] = f[0]
      /\ \A k \in 1 .. Lives : UsedBy[k] = UsedBy[k - 1] + Used(k)
      /\ \A k \in 1 .. Lives : f[k] = f[k - 1] + Used(k)
  <2>1. \A k \in 0 .. Lives : UsedBy[k] = Step(UsedBy)[k]
    BY <1>2
  <2> QED
    BY <2>1 DEF SumsTo
<1>4. ASSUME \E k \in 0 .. Lives : UsedBy[k] # f[k] PROVE FALSE
  <2> DEFINE wrong == {k \in 0 .. Lives : UsedBy[k] # f[k]}
  <2>1. PICK k \in wrong : \A j \in wrong : k <= j
    <3>1. wrong \subseteq Nat /\ wrong # {}
      BY <1>4
    <3> HIDE DEF wrong
    <3> QED
      BY <3>1, LeastNatural
  <2>2. k # 0 /\ k \in 0 .. Lives
    BY <1>3
  <2>3. k - 1 \in 0 .. Lives /\ k - 1 < k /\ k \in 1 .. Lives
    BY <2>2
  <2>4. UsedBy[k - 1] = f[k - 1]
    <3>1. k - 1 \notin wrong
      BY <2>1, <2>3
    <3> QED
      BY <2>3, <3>1
  <2> QED
    BY <1>3, <2>1, <2>3, <2>4
<1> QED
  BY <1>4 DEF SumsTo

\* The monitor counts every process it has sampled but the first as a restart, and of
\* each the CPU time between its first and its last sample, whatever ids the processes
\* had and however often the daemon was restarted (SoakAccumulator::observe).
THEOREM AccountingCorrect == MonitorSpec => []AccountingSurvivesRestarts
<1>1. MonitorInit => AccountingInv
  BY AccountingInit
<1>2. AccountingInv /\ [MonitorNext]_monitorVars => AccountingInv'
  BY AccountingStep
<1>3. AccountingInv => AccountingSurvivesRestarts
  <2> SUFFICES ASSUME AccountingInv PROVE AccountingSurvivesRestarts
    OBVIOUS
  <2>1. cpu = UsedBy[Lives]
    BY SumsAreUsedBy DEF AccountingInv, SumInv
  <2> QED
    BY <2>1 DEF AccountingInv, CountInv, SeenProcesses, AccountingSurvivesRestarts
<1> QED
  BY <1>1, <1>2, <1>3, PTL DEF MonitorSpec
-----------------------------------------------------------------------------
(* Stalls *)

\* What is kept of a filter.
IsFilter(m) ==
  \E lifecycle \in {"connecting", "active"}, healthy \in BOOLEAN, published \in Nat,
     read \in Nat \cup {None}, decision \in Decisions \cup {None} :
    /\ m = [lifecycle |-> lifecycle, healthy |-> healthy, published |-> published,
            read |-> read, decision |-> decision]
    /\ read # None => read <= published /\ decision # None

\* A filter is not None.
LEMMA FilterFacts ==
  ASSUME NEW m, IsFilter(m)
  PROVE  m # None /\ m \in Streams
<1>1. m \in Streams
  BY DEF IsFilter, Streams
<1> QED
  BY <1>1

\* What the monitor remembers of a node, against what the controller of its filter has
\* read: the same while the controller has not been moved; less, if it has been moved
\* and the filter is still the one whose sequence was reported.
NodeInv(n) ==
  /\ managed[n] # None => IsFilter(managed[n])
  /\ sequences[n] \in Nat \cup {None}
  /\ n \notin replaced /\ sequences[n] # None =>
       managed[n] # None /\ managed[n].read # None /\ sequences[n] <= managed[n].read
  /\ n \notin replaced /\ n \in new =>
       managed[n] # None /\ managed[n].read # None /\ sequences[n] # managed[n].read
  /\ n \notin new /\ managed[n] # None /\ managed[n].read # None =>
       sequences[n] = managed[n].read

\* So it is for every node.
StallInv ==
  /\ DOMAIN managed = Nodes /\ DOMAIN sequences = Nodes
  /\ \A n \in Nodes : NodeInv(n)

\* A node whose filter keeps what the controller has read of it.
LEMMA SameReading ==
  ASSUME NEW n \in Nodes, NodeInv(n),
         managed[n] # None, managed'[n].read = managed[n].read, IsFilter(managed'[n]),
         UNCHANGED <<sequences, new, replaced>>
  PROVE  NodeInv(n)'
<1>1. managed'[n] # None
  BY FilterFacts
<1> QED
  BY <1>1 DEF NodeInv

\* Every step keeps that.
LEMMA StallStep ==
  ASSUME StallInv, [MonitorNext]_monitorVars
  PROVE  StallInv'
<1>1. ASSUME UNCHANGED <<managed, sequences, new, replaced>> PROVE StallInv'
  BY <1>1 DEF StallInv, NodeInv
<1>2. CASE Start \/ Work
  BY <1>1, <1>2 DEF Start, Work, monitor, history
<1>3. CASE Stop
  <2>1. /\ managed' = [n \in Nodes |-> None] /\ UNCHANGED <<sequences, new>>
        /\ replaced' = replaced \cup {n \in Nodes : managed[n] # None}
    BY <1>3 DEF Stop, monitor
  <2> QED
    BY <2>1 DEF StallInv, NodeInv
<1>4. ASSUME NEW n \in Nodes, Adopt(n) PROVE StallInv'
  <2> DEFINE m == [lifecycle |-> "connecting", healthy |-> TRUE, published |-> 0,
                  read |-> None, decision |-> None]
  <2>1. /\ managed[n] = None /\ managed' = [managed EXCEPT ![n] = m]
        /\ UNCHANGED <<sequences, new, replaced>>
    BY <1>4 DEF Adopt, monitor, history
  <2>2. m.read = None /\ IsFilter(m)
    <3>1. m.read = None
      OBVIOUS
    <3>2. 0 \in Nat /\ None \in Nat \cup {None} /\ None \in Decisions \cup {None}
          /\ "connecting" \in {"connecting", "active"} /\ TRUE \in BOOLEAN
      OBVIOUS
    <3>3. IsFilter(m)
      BY <3>2, Zenon DEF IsFilter
    <3> QED
      BY <3>1, <3>3
  <2> HIDE DEF m
  <2>3. NodeInv(n)'
    BY <2>1, <2>2 DEF StallInv, NodeInv
  <2> QED
    BY <2>1, <2>3 DEF StallInv, NodeInv
<1>5. ASSUME NEW n \in Nodes, Connect(n) \/ Release(n) \/ Disturb(n) \/ PublishMeter(n)
      PROVE  StallInv'
  <2>1. managed[n] # None /\ UNCHANGED <<sequences, new, replaced>>
    BY <1>5 DEF Connect, Release, Disturb, PublishMeter, Active, monitor, history
  <2>2. PICK lifecycle \in {"connecting", "active"}, healthy \in BOOLEAN, published \in Nat,
             read \in Nat \cup {None}, decision \in Decisions \cup {None} :
          /\ managed[n] = [lifecycle |-> lifecycle, healthy |-> healthy, published |-> published,
                           read |-> read, decision |-> decision]
          /\ read # None => read <= published /\ decision # None
    BY <2>1 DEF StallInv, NodeInv, IsFilter
  <2>3. DOMAIN managed' = Nodes /\ \A k \in Nodes : k # n => managed'[k] = managed[k]
    BY <1>5 DEF Connect, Release, Disturb, PublishMeter, StallInv
  <2>4. managed'[n].read = managed[n].read /\ IsFilter(managed'[n])
    <3>1. CASE Connect(n)
      <4>1. managed'[n] = [managed[n] EXCEPT !.lifecycle = "active"]
        BY <3>1 DEF Connect, StallInv
      <4>2. managed'[n] = [lifecycle |-> "active", healthy |-> healthy, published |-> published,
                           read |-> read, decision |-> decision]
        BY <2>2, <4>1
      <4> QED
        BY <2>2, <4>2 DEF IsFilter
    <3>2. CASE Disturb(n)
      <4>1. PICK other \in BOOLEAN : managed'[n] = [managed[n] EXCEPT !.healthy = other]
        BY <3>2 DEF Disturb, StallInv
      <4>2. managed'[n] = [lifecycle |-> lifecycle, healthy |-> other, published |-> published,
                           read |-> read, decision |-> decision]
        BY <2>2, <4>1
      <4> QED
        BY <2>2, <4>2 DEF IsFilter
    <3>3. CASE PublishMeter(n)
      <4>1. managed'[n] = [managed[n] EXCEPT !.published = managed[n].published + 1]
        BY <3>3 DEF PublishMeter, StallInv
      <4>2. managed'[n] = [lifecycle |-> lifecycle, healthy |-> healthy, published |-> published + 1,
                           read |-> read, decision |-> decision]
        BY <2>2, <4>1
      <4>3. published + 1 \in Nat /\ (read # None => read <= published + 1)
        BY <2>2
      <4> QED
        BY <2>2, <4>2, <4>3 DEF IsFilter
    <3>4. CASE Release(n)
      <4>1. PICK other \in BOOLEAN :
              managed'[n] = [[managed[n] EXCEPT !.lifecycle = "connecting"] EXCEPT !.healthy = other]
        BY <3>4 DEF Release, StallInv
      <4>2. [managed[n] EXCEPT !.lifecycle = "connecting"] =
              [lifecycle |-> "connecting", healthy |-> healthy, published |-> published,
               read |-> read, decision |-> decision]
        BY <2>2
      <4>3. managed'[n] = [lifecycle |-> "connecting", healthy |-> other, published |-> published,
                           read |-> read, decision |-> decision]
        BY <4>1, <4>2
      <4> QED
        BY <2>2, <4>3 DEF IsFilter
    <3> QED
      BY <1>5, <3>1, <3>2, <3>3, <3>4
  <2>5. NodeInv(n)'
    BY <2>1, <2>4, SameReading DEF StallInv
  <2> QED
    BY <2>1, <2>3, <2>5 DEF StallInv, NodeInv
<1>6. ASSUME NEW n \in Nodes, Detach(n) PROVE StallInv'
  <2>1. /\ managed' = [managed EXCEPT ![n] = None] /\ replaced' = replaced \cup {n}
        /\ UNCHANGED <<sequences, new>>
    BY <1>6 DEF Detach, monitor
  <2> QED
    BY <2>1 DEF StallInv, NodeInv
<1>7. ASSUME NEW n \in Nodes, Update(n) PROVE StallInv'
  <2>1. PICK decision \in Decisions :
          /\ managed' = [managed EXCEPT ![n].read = managed[n].published, ![n].decision = decision]
          /\ managed[n] # None /\ managed[n].read # managed[n].published
          /\ new' = new \cup {n} /\ UNCHANGED <<sequences, replaced>>
    BY <1>7 DEF Update, Active, monitor
  <2>2. PICK lifecycle \in {"connecting", "active"}, healthy \in BOOLEAN, published \in Nat,
             read \in Nat \cup {None}, was \in Decisions \cup {None} :
          /\ managed[n] = [lifecycle |-> lifecycle, healthy |-> healthy, published |-> published,
                           read |-> read, decision |-> was]
          /\ read # None => read <= published /\ was # None
    BY <2>1 DEF StallInv, NodeInv, IsFilter
  <2> DEFINE m == [lifecycle |-> lifecycle, healthy |-> healthy, published |-> published,
                  read |-> published, decision |-> decision]
  <2>3. managed'[n] = m
    <3>1. managed'[n] = [[managed[n] EXCEPT !.read = managed[n].published] EXCEPT !.decision = decision]
      BY <2>1 DEF StallInv
    <3>2. [managed[n] EXCEPT !.read = managed[n].published] =
            [lifecycle |-> lifecycle, healthy |-> healthy, published |-> published,
             read |-> published, decision |-> was]
      BY <2>2
    <3> QED
      BY <3>1, <3>2
  <2>4. decision # None /\ published # None
    BY <2>1
  <2>5. IsFilter(m) /\ m.read = published /\ m # None
    <3>1. published \in Nat \cup {None} /\ decision \in Decisions \cup {None} /\ published <= published
      OBVIOUS
    <3>2. IsFilter(m)
      BY <2>4, <3>1, Zenon DEF IsFilter
    <3> QED
      BY <3>2, FilterFacts
  <2> HIDE DEF m
  <2>6. managed[n].read = read /\ read # published
    BY <2>1, <2>2
  <2>7. sequences[n] # published \/ n \in replaced
    <3>1. ASSUME n \notin replaced, sequences[n] = published PROVE FALSE
      <4>1. read # None /\ sequences[n] <= read
        BY <2>4, <2>6, <3>1 DEF StallInv, NodeInv
      <4> QED
        BY <2>2, <2>6, <3>1, <4>1
    <3> QED
      BY <3>1
  <2>8. n \notin replaced /\ sequences[n] # None => sequences[n] <= published
    <3> SUFFICES ASSUME n \notin replaced, sequences[n] # None PROVE sequences[n] <= published
      OBVIOUS
    <3>1. read # None /\ sequences[n] <= read /\ sequences[n] \in Nat
      BY <2>6 DEF StallInv, NodeInv
    <3> QED
      BY <2>2, <3>1
  <2>9. managed'[n] = m /\ DOMAIN managed' = Nodes /\ \A k \in Nodes : k # n => managed'[k] = managed[k]
    BY <2>1, <2>3 DEF StallInv
  <2>10. NodeInv(n)'
    BY <2>1, <2>4, <2>5, <2>7, <2>8, <2>9 DEF StallInv, NodeInv
  <2> QED
    BY <2>1, <2>9, <2>10 DEF StallInv, NodeInv
<1>8. CASE Sample
  <2>1. /\ sequences' = [n \in Nodes |-> IF Reported(n) THEN managed[n].read ELSE sequences[n]]
        /\ new' = new \ {n \in Nodes : Reported(n)}
        /\ replaced' = replaced \ {n \in Nodes : Reported(n)}
        /\ managed' = managed
    BY <1>8 DEF Sample, daemon, Remembered
  <2>2. ASSUME NEW n \in Nodes PROVE NodeInv(n)'
    <3>1. CASE Reported(n)
      <4>1. /\ managed[n] # None /\ managed[n].read # None /\ sequences'[n] = managed[n].read
            /\ n \notin new' /\ n \notin replaced'
        BY <2>1, <3>1 DEF Reported
      <4>2. managed[n].read \in Nat
        BY <4>1 DEF StallInv, NodeInv, IsFilter
      <4> QED
        BY <2>1, <4>1, <4>2 DEF StallInv, NodeInv
    <3>2. CASE ~Reported(n)
      <4>1. /\ sequences'[n] = sequences[n] /\ (n \in new' <=> n \in new)
            /\ (n \in replaced' <=> n \in replaced)
        BY <2>1, <3>2
      <4> QED
        BY <2>1, <4>1 DEF StallInv, NodeInv
    <3> QED
      BY <3>1, <3>2
  <2> QED
    BY <2>1, <2>2 DEF StallInv
<1>9. CASE UNCHANGED monitorVars \/ \E n \in Nodes : HearSilence(n)
  BY <1>1, <1>9 DEF HearSilence, monitorVars, daemon, monitor, history
<1> QED
  BY <1>2, <1>3, <1>4, <1>5, <1>6, <1>7, <1>8, <1>9 DEF MonitorNext

\* A stall is counted on every sample of a stream that the monitor watches and whose
\* controller has read nothing since the last sample, and on no other, unless a filter
\* was replaced meanwhile (SoakAccumulator::observe, sequences).  Watched is a stream on
\* a healthy route that was not silent by the controller's last decision; nothing is
\* said of why nothing was read: a callback that stalled, or one that heard silence.
THEOREM StallsCorrect == MonitorSpec => StallsTrue
<1> DEFINE P == Sample => \A n \in Nodes :
                  /\ n \in stalled' => n \notin new \/ n \in replaced
                  /\ Reported(n) /\ n \notin new /\ Watched(managed[n], managed[n].decision)
                       => n \in stalled'
<1>1. MonitorInit => StallInv
  BY DEF MonitorInit, StallInv, NodeInv
<1>2. StallInv /\ [MonitorNext]_monitorVars => StallInv'
  BY StallStep
<1>3. StallInv => P
  <2> SUFFICES ASSUME StallInv, Sample, NEW n \in Nodes
               PROVE  /\ n \in stalled' => n \notin new \/ n \in replaced
                      /\ Reported(n) /\ n \notin new
                           /\ Watched(managed[n], managed[n].decision) => n \in stalled'
    OBVIOUS
  <2>1. PICK control :
          /\ control[n] \in IF managed[n] = None THEN {"waiting"} ELSE Control(managed[n])
          /\ n \in stalled' <=> Stalls(n, control[n])
    BY DEF Sample
  <2>2. n \in stalled' => n \notin new \/ n \in replaced
    BY <2>1 DEF Stalls, Reported, StallInv, NodeInv
  <2>3. ASSUME Reported(n), n \notin new, Watched(managed[n], managed[n].decision)
        PROVE  n \in stalled'
    <3>1. /\ managed[n] # None /\ managed[n].read # None /\ sequences[n] = managed[n].read
          /\ managed[n].decision \in Decisions /\ managed[n].decision # None
      BY <2>3 DEF Reported, StallInv, NodeInv, IsFilter
    <3>2. managed[n].decision \in {"hold", "adjust"}
      BY <2>3, <3>1 DEF Watched, Decisions
    <3>3. Control(managed[n]) \subseteq {"settled", "converging"}
      BY <3>1, <3>2 DEF Control
    <3>4. control[n] \in {"settled", "converging"}
      BY <2>1, <3>1, <3>3
    <3>5. Watched(managed[n], control[n])
      BY <2>3, <3>4 DEF Watched
    <3> QED
      BY <2>1, <2>3, <3>1, <3>5 DEF Stalls
  <2> QED
    BY <2>2, <2>3
<1>4. StallInv /\ [MonitorNext]_monitorVars => [P]_monitorVars
  BY <1>3
<1> QED
  BY <1>1, <1>2, <1>4, PTL DEF MonitorSpec, StallsTrue
=============================================================================
