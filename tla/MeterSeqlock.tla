---------------------------- MODULE MeterSeqlock ----------------------------
(***************************************************************************)
(* PublishedMetrics (pipewire/filter/process.rs): the audio callback       *)
(* publishes a set of measurements, the control loop reads them, and a     *)
(* version counter that is odd during a publication is all there is        *)
(* between the two.  Publication k writes k to every field.                *)
(*                                                                         *)
(* The measurements are stored and loaded with Relaxed ordering, the       *)
(* version with Acquire and Release.  On a build that keeps loads in order *)
(* (x86) a load returns the latest store.  On one that may reorder them    *)
(* (reordering = TRUE) a load of a location returns any store not older    *)
(* than what the reader has already seen of it, and loading the version    *)
(* makes everything seen that the writer had stored before it.             *)
(***************************************************************************)
EXTENDS Integers

CONSTANTS
  FieldCount,  \* measurements per publication
  Cycles       \* publications

ASSUME FieldCountAssumption == FieldCount \in Nat \ {0}
ASSUME CyclesAssumption == Cycles \in Nat

Fields == 1 .. FieldCount

VARIABLES
  reordering,  \* whether the build may reorder loads
  version,     \* odd while a publication is in progress
  stored,      \* fields stored by the publication in progress
  latest,      \* the publication each field was last written by
  pc,          \* the reader is about to load: "before", "fields", "after"
  before,      \* the version it loaded first
  loaded,      \* fields loaded since
  got,         \* what it loaded
  seen,        \* the oldest publication each field may still show it
  seenVersion, \* the oldest version it may still load
  snapshot     \* what the last read returned

writer == <<version, stored, latest>>
reader == <<pc, before, loaded, got, seen, seenVersion>>
vars   == <<reordering, writer, reader, snapshot>>

\* The publications that version v follows.
Complete(v) == v \div 2

Odd(v) == v % 2 = 1

TypeOK ==
  /\ reordering \in BOOLEAN
  /\ version \in 0 .. 2 * Cycles
  /\ stored \in 0 .. FieldCount
  /\ latest \in [Fields -> 0 .. Cycles]
  /\ pc \in {"before", "fields", "after"}
  /\ before \in 0 .. 2 * Cycles
  /\ loaded \in 0 .. FieldCount
  /\ got \in [Fields -> 0 .. Cycles]
  /\ seen \in [Fields -> 0 .. Cycles]
  /\ seenVersion \in 0 .. 2 * Cycles
  /\ snapshot \in [sequence : 0 .. Cycles, fields : [Fields -> 0 .. Cycles]]

Init ==
  /\ reordering \in BOOLEAN
  /\ version = 0 /\ stored = 0 /\ latest = [f \in Fields |-> 0]
  /\ pc = "before" /\ before = 0 /\ loaded = 0
  /\ got = [f \in Fields |-> 0]
  /\ seen = [f \in Fields |-> 0] /\ seenVersion = 0
  /\ snapshot = [sequence |-> 0, fields |-> [f \in Fields |-> 0]]

-----------------------------------------------------------------------------
(* The writer: PublishedMetrics::publish *)

BeginPublish ==
  /\ ~Odd(version) /\ version < 2 * Cycles
  /\ version' = version + 1
  /\ stored' = 0
  /\ UNCHANGED <<reordering, latest, reader, snapshot>>

Store ==
  /\ Odd(version) /\ stored < FieldCount
  /\ stored' = stored + 1
  /\ latest' = [latest EXCEPT ![stored + 1] = Complete(version) + 1]
  /\ UNCHANGED <<reordering, version, reader, snapshot>>

\* Slip: the version is set back to what it was before the publication.
EndPublishSame ==
  /\ Odd(version) /\ stored = FieldCount
  /\ version' = version - 1
  /\ UNCHANGED <<reordering, stored, latest, reader, snapshot>>

EndPublish ==
  /\ Odd(version) /\ stored = FieldCount
  /\ version' = version + 1
  /\ UNCHANGED <<reordering, stored, latest, reader, snapshot>>

-----------------------------------------------------------------------------
(* The reader: PublishedMetrics::read, called over and over *)

\* What a load may return of a location last written by n, of which the
\* reader has seen m.
Visible(m, n) == IF reordering THEN m .. n ELSE {n}

\* Slip: the version is loaded with Relaxed ordering.
SeeRelaxed(v) ==
  /\ seenVersion' = v
  /\ UNCHANGED seen

\* Version v is loaded with Acquire ordering.
See(v) ==
  /\ seenVersion' = v
  /\ seen' = [f \in Fields |-> IF seen[f] < Complete(v) THEN Complete(v) ELSE seen[f]]

\* The first load of the version: nothing has been published, or a
\* publication is in progress and the reader spins, or the fields are read.
LoadVersion ==
  /\ pc = "before"
  /\ \E v \in Visible(seenVersion, version) :
       /\ See(v)
       /\ before' = v
       /\ pc' = IF v # 0 /\ ~Odd(v) THEN "fields" ELSE "before"
  /\ loaded' = 0
  /\ UNCHANGED <<reordering, writer, got, snapshot>>

LoadField ==
  /\ pc = "fields"
  /\ \E k \in Visible(seen[loaded + 1], latest[loaded + 1]) :
       /\ got' = [got EXCEPT ![loaded + 1] = k]
       /\ seen' = [seen EXCEPT ![loaded + 1] = k]
  /\ loaded' = loaded + 1
  /\ pc' = IF loaded' = FieldCount THEN "after" ELSE "fields"
  /\ UNCHANGED <<reordering, writer, before, seenVersion, snapshot>>

\* Slip: the two versions are not compared.
CheckVersionNever ==
  /\ pc = "after"
  /\ \E v \in Visible(seenVersion, version) :
       /\ See(v)
       /\ snapshot' = [sequence |-> Complete(before), fields |-> got]
  /\ pc' = "before"
  /\ UNCHANGED <<reordering, writer, before, loaded, got>>

\* The second load of the version: the fields are returned if it is the same,
\* and loaded again if not.
CheckVersion ==
  /\ pc = "after"
  /\ \E v \in Visible(seenVersion, version) :
       /\ See(v)
       /\ snapshot' = IF v = before
                        THEN [sequence |-> Complete(before), fields |-> got]
                        ELSE snapshot
  /\ pc' = "before"
  /\ UNCHANGED <<reordering, writer, before, loaded, got>>

-----------------------------------------------------------------------------
Publish == BeginPublish \/ Store \/ EndPublish
Read == LoadVersion \/ LoadField \/ CheckVersion
Next == Publish \/ Read

Spec == Init /\ [][Next]_vars

(***************************************************************************)
(* Fairness.  The audio callback finishes a publication it has begun, the  *)
(* control loop reads again at every tick, and a store becomes visible     *)
(* after a finite time: a reader does not load an old version for ever.    *)
(***************************************************************************)
FairSpec ==
  /\ Spec
  /\ WF_vars(Store \/ EndPublish)
  /\ WF_vars(Read)
  /\ SF_vars(LoadVersion /\ seenVersion' = version)

-----------------------------------------------------------------------------
(* Properties *)

\* On a build that keeps loads in order a snapshot is one publication, whole,
\* however the audio callback and the control loop interleave.
Coherent ==
  ~reordering => \A f \in Fields : snapshot.fields[f] = snapshot.sequence

\* On every build no field of a snapshot is older than its sequence number
\* says: a controller that has seen a sequence never acts on a measurement
\* that precedes it.
NeverStale ==
  \A f \in Fields : snapshot.fields[f] >= snapshot.sequence

\* Once the audio callback stops publishing, the reader stops retrying and
\* gets the last publication.
Delivered ==
  <>[](~Odd(version) /\ snapshot.sequence = Complete(version))

=============================================================================
