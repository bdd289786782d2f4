---------------------------- MODULE LimiterProofs ----------------------------
(***************************************************************************)
(* Proofs about PeakLimiter and AudioCallback: for every lookahead, every  *)
(* level, every number of channels and prepared rates, and whatever the    *)
(* gain recovers by in a frame as long as two recoveries fit the guard.    *)
(***************************************************************************)
EXTENDS AudioCallback, TLAPS, SequenceTheorems, WellFoundedInduction

\* A set of natural numbers that is not empty has a least element.
LEMMA LeastNatural ==
  ASSUME NEW T, T \subseteq Nat, T # {}
  PROVE  \E x \in T : \A y \in T : x <= y
<1> DEFINE R == OpToRel(<, Nat)
<1>1. \E x \in T : \A y \in T : ~(<<y, x>> \in R)
  <2>1. IsWellFoundedOn(R, Nat)
    BY NatLessThanWellFounded
  <2> HIDE DEF R
  <2> QED
    BY <2>1, WFMin
<1>2. \A x, y \in Nat : y < x => <<y, x>> \in R
  BY DEF OpToRel
<1> HIDE DEF R
<1>3. PICK x \in T : \A y \in T : ~(<<y, x>> \in R)
  BY <1>1
<1>4. ASSUME NEW y \in T PROVE x <= y
  <2>1. x \in Nat /\ y \in Nat
    OBVIOUS
  <2>2. ~(y < x)
    BY <1>2, <1>3, <2>1
  <2> QED
    BY <2>1, <2>2
<1> QED
  BY <1>4

-----------------------------------------------------------------------------
(* The limiter *)

Entries == [at : Nat, peak : Int]

\* A window of peaks, entry by entry.
LEMMA WindowFacts ==
  ASSUME NEW w \in Seq(Entries)
  PROVE  /\ Len(w) \in Nat
         /\ \A i \in 1 .. Len(w) :
              w[i] \in Entries /\ w[i].at \in Nat /\ w[i].peak \in Int
<1>1. Len(w) \in Nat
  OBVIOUS
<1>2. ASSUME NEW i \in 1 .. Len(w)
      PROVE  w[i] \in Entries /\ w[i].at \in Nat /\ w[i].peak \in Int
  <2>1. w[i] \in Entries
    BY ElementOfSeq
  <2> QED
    BY <2>1 DEF Entries
<1> QED
  BY <1>1, <1>2

\* What LastLouder returns.
LEMMA LastLouderFacts ==
  ASSUME NEW w \in Seq(Entries), NEW peak \in Int
  PROVE  LET n == LastLouder(w, peak) IN
         /\ n \in 0 .. Len(w)
         /\ n = 0 \/ w[n].peak > peak
         /\ \A i \in n + 1 .. Len(w) : w[i].peak <= peak
<1> DEFINE T == {m \in 0 .. Len(w) : m = Len(w) \/ w[Len(w) - m].peak > peak}
<1>0. Len(w) \in Nat /\ \A i \in 1 .. Len(w) : w[i].peak \in Int
  BY WindowFacts
<1>1. Len(w) \in T /\ T \subseteq Nat
  BY <1>0
<1>2. PICK m \in T : \A k \in T : m <= k
  <2> HIDE DEF T
  <2> QED
    BY <1>1, LeastNatural
<1> DEFINE n == Len(w) - m
<1>3. n \in 0 .. Len(w) /\ (n = 0 \/ w[n].peak > peak)
  BY <1>0, <1>2
<1>4. ASSUME NEW i \in n + 1 .. Len(w) PROVE w[i].peak <= peak
  <2>1. Len(w) - i \in 0 .. Len(w) /\ Len(w) - i < m
    BY <1>0, <1>2
  <2>2. Len(w) - i \notin T
    BY <1>2, <2>1
  <2>3. ~(w[Len(w) - (Len(w) - i)].peak > peak)
    BY <2>1, <2>2
  <2>4. Len(w) - (Len(w) - i) = i /\ i \in 1 .. Len(w)
    BY <1>0, <1>2
  <2> QED
    BY <1>0, <2>3, <2>4
<1> HIDE DEF n
<1>5. \E k \in 0 .. Len(w) :
        /\ k = 0 \/ w[k].peak > peak
        /\ \A i \in k + 1 .. Len(w) : w[i].peak <= peak
  BY <1>3, <1>4
<1> QED
  BY <1>5 DEF LastLouder

\* What FirstRecent returns.
LEMMA FirstRecentFacts ==
  ASSUME NEW w \in Seq(Entries), NEW earliest \in Nat
  PROVE  LET n == FirstRecent(w, earliest) IN
         /\ n \in 1 .. Len(w) + 1
         /\ n = Len(w) + 1 \/ w[n].at >= earliest
         /\ \A i \in 1 .. n - 1 : w[i].at < earliest
<1> DEFINE T == {m \in 1 .. Len(w) + 1 : m = Len(w) + 1 \/ w[m].at >= earliest}
<1>0. Len(w) \in Nat /\ \A i \in 1 .. Len(w) : w[i].at \in Nat
  BY WindowFacts
<1>1. Len(w) + 1 \in T /\ T \subseteq Nat
  BY <1>0
<1>2. PICK n \in T : \A k \in T : n <= k
  <2> HIDE DEF T
  <2> QED
    BY <1>1, LeastNatural
<1>3. n \in 1 .. Len(w) + 1 /\ (n = Len(w) + 1 \/ w[n].at >= earliest)
  BY <1>2
<1>4. ASSUME NEW i \in 1 .. n - 1 PROVE w[i].at < earliest
  <2>1. i \notin T /\ i \in 1 .. Len(w)
    BY <1>0, <1>2
  <2> QED
    BY <1>0, <2>1
<1> HIDE DEF T
<1>5. \E k \in 1 .. Len(w) + 1 :
        /\ k = Len(w) + 1 \/ w[k].at >= earliest
        /\ \A i \in 1 .. k - 1 : w[i].at < earliest
  BY <1>3, <1>4
<1> QED
  BY <1>5 DEF FirstRecent

\* The window's peaks fall from the first to the last.
Falling(w) == \A i, j \in 1 .. Len(w) : i < j => w[i].peak > w[j].peak

\* A peak of at least level l, of frame a or a later one, is in the window.
Covers(w, a, l) == \E i \in 1 .. Len(w) : w[i].at >= a /\ w[i].peak >= l

\* The frame whose samples are in a slot of the delay line.
FrameIn(lim, slot) ==
  IF slot < lim.write THEN lim.sequence - lim.write + slot
                      ELSE lim.sequence - lim.write + slot - Lookahead

Limiters ==
  [delay : [Slots -> [level : Int, fresh : BOOLEAN]], write : Slots,
   window : Seq(Entries), sequence : Nat, gain : Int]

\* Each frame in the delay is below the threshold or has a peak in the window;
\* the gain is no more than one recovery above what the loudest peak requires.
LimiterInv(lim) ==
  /\ lim \in Limiters
  /\ lim.gain <= 0
  /\ Falling(lim.window)
  /\ lim.window # <<>> => 2 * lim.gain <= 2 * Required(lim.window[1].peak) + Guard
  /\ \A slot \in Slots :
       \/ lim.delay[slot].level <= Threshold
       \/ Covers(lim.window, FrameIn(lim, slot), lim.delay[slot].level)

\* Queueing a peak keeps the peaks falling and what they cover.
LEMMA QueuedFacts ==
  ASSUME NEW lim, lim.window \in Seq(Entries), lim.sequence \in Nat,
         Falling(lim.window), NEW peak \in Int
  PROVE  LET q == Queued(lim, peak) IN
         /\ q \in Seq(Entries)
         /\ Len(q) >= 1
         /\ Falling(q)
         /\ q[Len(q)] = [at |-> lim.sequence, peak |-> peak]
         /\ \A a, l \in Int :
              a <= lim.sequence /\ Covers(lim.window, a, l) => Covers(q, a, l)
<1> DEFINE w == lim.window
           n == LastLouder(w, peak)
           entry == [at |-> lim.sequence, peak |-> peak]
           kept == SubSeq(w, 1, n)
           q == Queued(lim, peak)
<1>1. /\ n \in 0 .. Len(w)
      /\ n = 0 \/ w[n].peak > peak
      /\ \A i \in n + 1 .. Len(w) : w[i].peak <= peak
  BY LastLouderFacts
<1>2. /\ Len(w) \in Nat
      /\ \A i \in 1 .. Len(w) : w[i] \in Entries /\ w[i].at \in Nat /\ w[i].peak \in Int
  BY WindowFacts
<1> HIDE DEF n
<1>3. /\ kept \in Seq(Entries) /\ Len(kept) = n
      /\ \A i \in 1 .. n : kept[i] = w[i]
  <2>1. \A i \in 1 .. n : w[i] \in Entries
    BY <1>1, <1>2
  <2>2. /\ kept \in Seq(Entries)
        /\ Len(kept) = IF 1 <= n THEN n - 1 + 1 ELSE 0
        /\ \A i \in 1 .. n - 1 + 1 : kept[i] = w[1 + i - 1]
    BY <1>1, <2>1, SubSeqProperties
  <2> QED
    BY <1>1, <2>2
<1>4. entry \in Entries /\ entry.at = lim.sequence /\ entry.peak = peak
  BY DEF Entries
<1>5. /\ q \in Seq(Entries) /\ Len(q) = n + 1
      /\ \A i \in 1 .. n : q[i] = w[i]
      /\ q[n + 1] = entry
  <2>1. q = Append(kept, entry)
    BY DEF Queued, n
  <2> HIDE DEF kept, entry, q
  <2>2. /\ q \in Seq(Entries) /\ Len(q) = Len(kept) + 1
        /\ \A i \in 1 .. Len(kept) : q[i] = kept[i]
        /\ q[Len(kept) + 1] = entry
    BY <1>3, <1>4, <2>1, AppendProperties
  <2> QED
    BY <1>3, <2>2
<1> HIDE DEF q, w, entry, kept
<1>6. \A i \in 1 .. n : w[i].peak > peak
  <2>1. ASSUME NEW i \in 1 .. n PROVE w[i].peak > peak
    <3>1. i \in 1 .. Len(w) /\ n \in 1 .. Len(w)
      BY <1>1, <1>2
    <3>2. w[n].peak > peak
      BY <1>1
    <3>3. i = n \/ w[i].peak > w[n].peak
      BY <3>1, <1>1 DEF Falling, w
    <3> QED
      BY <1>2, <3>1, <3>2, <3>3
  <2> QED
    BY <2>1
<1>7. Falling(q)
  <2> SUFFICES ASSUME NEW i \in 1 .. Len(q), NEW j \in 1 .. Len(q), i < j
               PROVE  q[i].peak > q[j].peak
    BY DEF Falling
  <2>1. i \in 1 .. n /\ q[i] = w[i]
    BY <1>1, <1>5
  <2>2. CASE j = n + 1
    BY <1>4, <1>5, <1>6, <2>1, <2>2
  <2>3. CASE j \in 1 .. n
    <3>1. q[j] = w[j] /\ i \in 1 .. Len(w) /\ j \in 1 .. Len(w)
      BY <1>1, <1>5, <2>1, <2>3
    <3> QED
      BY <2>1, <3>1 DEF Falling, w
  <2> QED
    BY <1>1, <1>5, <2>2, <2>3
<1>8. ASSUME NEW a \in Int, NEW l \in Int, a <= lim.sequence, Covers(w, a, l)
      PROVE  Covers(q, a, l)
  <2>1. PICK i \in 1 .. Len(w) : w[i].at >= a /\ w[i].peak >= l
    BY <1>8 DEF Covers
  <2>2. CASE i \in 1 .. n
    BY <1>1, <1>5, <2>1, <2>2 DEF Covers
  <2>3. CASE i \notin 1 .. n
    <3>1. i \in n + 1 .. Len(w)
      BY <1>1, <1>2, <2>3
    <3>2. w[i].peak <= peak
      BY <1>1, <3>1
    <3>3. q[n + 1].at >= a /\ q[n + 1].peak >= l /\ n + 1 \in 1 .. Len(q)
      BY <1>1, <1>2, <1>4, <1>5, <1>8, <2>1, <3>2
    <3> QED
      BY <3>3 DEF Covers
  <2> QED
    BY <2>2, <2>3
<1> QED
  BY <1>1, <1>5, <1>7, <1>8 DEF q, w, entry

\* So does dropping the peaks that are older than the window.
LEMMA WindowStep ==
  ASSUME NEW lim, lim.window \in Seq(Entries), lim.sequence \in Nat,
         Falling(lim.window), NEW peak \in Int
  PROVE  LET v == Window(lim, peak) IN
         /\ v \in Seq(Entries)
         /\ Len(v) >= 1
         /\ Falling(v)
         /\ v[Len(v)] = [at |-> lim.sequence, peak |-> peak]
         /\ \A a, l \in Int :
              /\ lim.sequence - (Lookahead - 1) <= a /\ a <= lim.sequence
              /\ Covers(lim.window, a, l)
              => Covers(v, a, l)
<1> DEFINE q == Queued(lim, peak)
           e == Earliest(lim)
           k == FirstRecent(q, e)
           v == Window(lim, peak)
           last == [at |-> lim.sequence, peak |-> peak]
<1>1. /\ q \in Seq(Entries) /\ Len(q) >= 1 /\ Falling(q) /\ q[Len(q)] = last
      /\ \A a, l \in Int :
           a <= lim.sequence /\ Covers(lim.window, a, l) => Covers(q, a, l)
  BY QueuedFacts
<1>2. e \in Nat /\ e <= lim.sequence /\ (e = 0 \/ e = lim.sequence - (Lookahead - 1))
  BY LookaheadAssumption DEF Earliest
<1> HIDE DEF q, e
<1>3. /\ k \in 1 .. Len(q) + 1
      /\ \A i \in 1 .. k - 1 : q[i].at < e
  BY <1>1, <1>2, FirstRecentFacts
<1>4. /\ Len(q) \in Nat
      /\ \A i \in 1 .. Len(q) : q[i] \in Entries /\ q[i].at \in Nat /\ q[i].peak \in Int
  BY <1>1, WindowFacts
<1> HIDE DEF k
<1>5. k \in 1 .. Len(q)
  <2>1. q[Len(q)].at = lim.sequence
    BY <1>1
  <2>2. ~(q[Len(q)].at < e)
    BY <1>2, <2>1
  <2>3. Len(q) \notin 1 .. k - 1
    BY <1>3, <2>2
  <2> QED
    BY <1>1, <1>3, <1>4, <2>3
<1>6. /\ v \in Seq(Entries) /\ Len(v) = Len(q) - k + 1
      /\ \A i \in 1 .. Len(v) : v[i] = q[k + i - 1]
  <2>1. v = SubSeq(q, k, Len(q))
    BY DEF Window, q, k, e
  <2>2. \A i \in k .. Len(q) : q[i] \in Entries
    BY <1>4, <1>5
  <2> HIDE DEF v
  <2>3. /\ v \in Seq(Entries)
        /\ Len(v) = IF k <= Len(q) THEN Len(q) - k + 1 ELSE 0
        /\ \A i \in 1 .. Len(q) - k + 1 : v[i] = q[k + i - 1]
    BY <1>4, <1>5, <2>1, <2>2, SubSeqProperties
  <2> QED
    BY <1>5, <2>3
<1> HIDE DEF v, last
<1>7. Falling(v)
  <2> SUFFICES ASSUME NEW i \in 1 .. Len(v), NEW j \in 1 .. Len(v), i < j
               PROVE  v[i].peak > v[j].peak
    BY DEF Falling
  <2>1. /\ k + i - 1 \in 1 .. Len(q) /\ k + j - 1 \in 1 .. Len(q)
        /\ k + i - 1 < k + j - 1
    BY <1>4, <1>5, <1>6
  <2>2. q[k + i - 1].peak > q[k + j - 1].peak
    BY <1>1, <2>1 DEF Falling
  <2> QED
    BY <1>6, <2>2
<1>8. v[Len(v)] = last
  <2>1. Len(v) \in 1 .. Len(v) /\ k + Len(v) - 1 = Len(q)
    BY <1>4, <1>5, <1>6
  <2> QED
    BY <1>1, <1>6, <2>1
<1>9. ASSUME NEW a \in Int, NEW l \in Int,
             lim.sequence - (Lookahead - 1) <= a, a <= lim.sequence,
             Covers(lim.window, a, l)
      PROVE  Covers(v, a, l)
  <2>1. Covers(q, a, l)
    BY <1>1, <1>9
  <2>2. PICK i \in 1 .. Len(q) : q[i].at >= a /\ q[i].peak >= l
    BY <2>1 DEF Covers
  <2>3. ~(q[i].at < e)
    BY <1>2, <1>4, <1>9, <2>2, LookaheadAssumption
  <2>4. i >= k
    BY <1>3, <1>5, <2>2, <2>3
  <2>5. i - k + 1 \in 1 .. Len(v) /\ k + (i - k + 1) - 1 = i
    BY <1>4, <1>5, <1>6, <2>4
  <2>6. v[i - k + 1] = q[i]
    BY <1>6, <2>5
  <2> QED
    BY <2>2, <2>5, <2>6 DEF Covers
<1>10. v \in Seq(Entries) /\ Len(v) >= 1
  BY <1>4, <1>5, <1>6
<1> QED
  BY <1>7, <1>8, <1>9, <1>10 DEF v, last

\* Slots follow each other, and the first one the last.
LEMMA NextSlot ==
  ASSUME NEW n \in Nat \ {0}, NEW w \in 0 .. n - 1
  PROVE  (w + 1) % n = IF w + 1 = n THEN 0 ELSE w + 1
<1>1. CASE w + 1 = n
  <2>1. n % n = 0
    OBVIOUS
  <2> QED
    BY <1>1, <2>1
<1>2. CASE w + 1 < n
  OBVIOUS
<1> QED
  BY <1>1, <1>2

\* The gain g becomes what is required, r, or recovers at most by rise.
LEMMA GainFacts ==
  ASSUME NEW g \in Int, NEW r \in Int, NEW rise \in Nat,
         g <= 0, r <= 0, Guard \in Nat, 2 * rise <= Guard
  PROVE  LET h == IF r < g THEN r ELSE IF g + rise < 0 THEN g + rise ELSE 0 IN
         h \in Int /\ h <= 0 /\ 2 * h <= 2 * r + Guard /\ h <= g + rise
<1>1. CASE r < g
  BY <1>1
<1>2. CASE r >= g /\ g + rise < 0
  BY <1>2
<1>3. CASE r >= g /\ g + rise >= 0
  BY <1>3
<1> QED
  BY <1>1, <1>2, <1>3

\* A new frame takes the oldest one's slot, and the others keep theirs.
LEMMA FrameFacts ==
  ASSUME NEW lim, NEW next, NEW slot \in Slots,
         lim.write \in Slots, lim.sequence \in Nat,
         next.write = IF lim.write + 1 = Lookahead THEN 0 ELSE lim.write + 1,
         next.sequence = lim.sequence + 1
  PROVE  /\ FrameIn(lim, slot) \in Int
         /\ slot = lim.write => FrameIn(next, slot) = lim.sequence
         /\ slot # lim.write =>
              /\ FrameIn(next, slot) = FrameIn(lim, slot)
              /\ lim.sequence - (Lookahead - 1) <= FrameIn(lim, slot)
              /\ FrameIn(lim, slot) <= lim.sequence
<1> DEFINE a == lim.write
           b == next.write
           t == lim.sequence
           u == next.sequence
<1>1. /\ Lookahead \in Nat \ {0} /\ a \in 0 .. Lookahead - 1 /\ slot \in 0 .. Lookahead - 1
      /\ t \in Nat /\ u = t + 1 /\ b = IF a + 1 = Lookahead THEN 0 ELSE a + 1
  BY LookaheadAssumption DEF Slots
<1>2. /\ FrameIn(lim, slot) = IF slot < a THEN t - a + slot ELSE t - a + slot - Lookahead
      /\ FrameIn(next, slot) = IF slot < b THEN u - b + slot ELSE u - b + slot - Lookahead
  BY DEF FrameIn
<1> HIDE DEF a, b, t, u
<1>3. FrameIn(lim, slot) \in Int
  BY <1>1, <1>2
<1> DEFINE was == FrameIn(lim, slot)
           is == FrameIn(next, slot)
           Fact == /\ slot = a => is = t
                   /\ slot # a => is = was /\ t - (Lookahead - 1) <= was /\ was <= t
<1>6. /\ was = IF slot < a THEN t - a + slot ELSE t - a + slot - Lookahead
      /\ is = IF slot < b THEN u - b + slot ELSE u - b + slot - Lookahead
  BY <1>2
<1> HIDE DEF was, is
<1>4. ASSUME a + 1 = Lookahead PROVE Fact
  <2>1. b = 0
    BY <1>1, <1>4
  <2> QED
    BY <1>1, <1>4, <1>6, <2>1
<1>5. ASSUME a + 1 < Lookahead PROVE Fact
  <2>1. b = a + 1
    BY <1>1, <1>5
  <2> QED
    BY <1>1, <1>5, <1>6, <2>1
<1> QED
  BY <1>1, <1>3, <1>4, <1>5 DEF a, t, was, is

\* A frame through the limiter: what it lets out is at most the guard above the
\* threshold, and what it keeps will be.
LEMMA LimiterStep ==
  ASSUME NEW lim, LimiterInv(lim), NEW rise \in Rises,
         NEW frame \in [level : Int, fresh : BOOLEAN]
  PROVE  /\ LimiterInv(Limited(lim, frame, rise))
         /\ Let(lim, frame, rise).level <= Threshold + Guard
<1> DEFINE next == Limited(lim, frame, rise)
           v == Window(lim, frame.level)
           gain_ == Gain(lim, frame.level, rise)
           w == lim.window
           out == lim.delay[lim.write].level
<1>1. /\ lim.delay \in [Slots -> [level : Int, fresh : BOOLEAN]] /\ lim.write \in Slots
      /\ w \in Seq(Entries) /\ lim.sequence \in Nat /\ lim.gain \in Int /\ lim.gain <= 0
      /\ Falling(w)
      /\ w # <<>> => 2 * lim.gain <= 2 * Required(w[1].peak) + Guard
      /\ frame.level \in Int
  BY DEF LimiterInv, Limiters
<1>2. /\ Lookahead \in Nat \ {0} /\ Threshold \in Int /\ Guard \in Nat
      /\ rise \in Nat /\ 2 * rise <= Guard
  BY LookaheadAssumption, LevelAssumption, GuardAssumption
<1>3. /\ v \in Seq(Entries) /\ Len(v) >= 1 /\ Falling(v)
      /\ v[Len(v)] = [at |-> lim.sequence, peak |-> frame.level]
      /\ \A a, l \in Int :
           /\ lim.sequence - (Lookahead - 1) <= a /\ a <= lim.sequence
           /\ Covers(w, a, l)
           => Covers(v, a, l)
  BY <1>1, WindowStep
<1>4. next = [delay    |-> [lim.delay EXCEPT ![lim.write] = frame],
              write    |-> (lim.write + 1) % Lookahead,
              window   |-> v,
              sequence |-> lim.sequence + 1,
              gain     |-> gain_]
  BY DEF Limited
<1>5. v[1].peak \in Int /\ Head(v) = v[1] /\ v # <<>> /\ Len(v) \in Nat
  BY <1>3, WindowFacts
<1>6. /\ gain_ \in Int /\ gain_ <= 0
      /\ 2 * gain_ <= 2 * Required(v[1].peak) + Guard
      /\ gain_ <= lim.gain + rise
  <2> DEFINE required == Required(v[1].peak)
  <2>1. required \in Int /\ required <= 0
    BY <1>2, <1>5 DEF Required
  <2>2. gain_ = IF required < lim.gain THEN required
                ELSE IF lim.gain + rise < 0 THEN lim.gain + rise ELSE 0
    BY <1>5 DEF Gain
  <2> HIDE DEF gain_
  <2> QED
    BY SMTT(30), <1>1, <1>2, <2>1, <2>2, GainFacts
<1> HIDE DEF v, gain_, next
<1>7. out \in Int /\ out + gain_ <= Threshold + Guard
  <2>1. out \in Int
    BY <1>1
  <2>2. CASE out <= Threshold
    BY <1>2, <1>6, <2>1, <2>2
  <2>3. CASE out > Threshold
    <3>1. Covers(w, FrameIn(lim, lim.write), out)
      BY <1>1, <1>2, <2>1, <2>3 DEF LimiterInv
    <3>2. PICK i \in 1 .. Len(w) : w[i].peak >= out
      BY <3>1 DEF Covers
    <3>3. /\ Len(w) \in Nat
          /\ \A j \in 1 .. Len(w) : w[j].peak \in Int
      BY <1>1, WindowFacts
    <3>4. w[1].peak >= out /\ w[1].peak \in Int /\ w # <<>>
      <4>1. i \in Nat /\ 1 <= i /\ i <= Len(w) /\ 1 \in 1 .. Len(w)
        BY <3>3
      <4>2. w[1].peak \in Int /\ w[i].peak \in Int
        BY <3>3, <4>1
      <4>3. w[1].peak >= w[i].peak
        <5>1. CASE i = 1
          BY <4>2, <5>1
        <5>2. CASE 1 < i
          <6>1. Falling(w)
            BY <1>1
          <6>2. w[1].peak > w[i].peak
            BY ONLY <6>1, <4>1, <5>2, i \in 1 .. Len(w) DEF Falling
          <6> QED
            BY <4>2, <6>2
        <5> QED
          BY <4>1, <5>1, <5>2
      <4>4. w # <<>>
        BY <4>1
      <4> HIDE DEF w, out
      <4> QED
        BY <2>1, <3>2, <4>2, <4>3, <4>4
    <3>5. Required(w[1].peak) <= Threshold - out /\ Required(w[1].peak) \in Int
      <4> DEFINE p == w[1].peak
      <4>1. p \in Int /\ p >= out
        BY <3>4
      <4> HIDE DEF p, out
      <4>2. p > Threshold
        BY <1>2, <2>1, <2>3, <4>1
      <4>3. Required(p) = Threshold - p
        BY <4>2 DEF Required
      <4> QED
        BY <1>2, <2>1, <4>1, <4>3 DEF p
    <3>6. 2 * lim.gain <= 2 * Required(w[1].peak) + Guard
      BY <1>1, <3>4
    <3> DEFINE g == lim.gain
               r == Required(w[1].peak)
    <3>7. /\ g \in Int /\ r \in Int /\ gain_ \in Int
          /\ 2 * g <= 2 * r + Guard /\ r <= Threshold - out /\ gain_ <= g + rise
      BY <1>1, <1>6, <3>5, <3>6
    <3> HIDE DEF g, r, out
    <3> QED
      BY <1>2, <2>1, <3>7
  <2> QED
    BY <1>2, <2>1, <2>2, <2>3
<1>8. Let(lim, frame, rise).level = out + gain_
  BY DEF Let, Frame, gain_
<1>9. /\ next.write = IF lim.write + 1 = Lookahead THEN 0 ELSE lim.write + 1
      /\ next.sequence = lim.sequence + 1
  BY <1>1, <1>2, <1>4, NextSlot DEF Slots
<1>10. next \in Limiters
  <2>1. next.write \in Slots
    <3>1. lim.write \in 0 .. Lookahead - 1
      BY <1>1 DEF Slots
    <3>2. next.write \in 0 .. Lookahead - 1
      BY <1>2, <1>9, <3>1
    <3> QED
      BY <3>2 DEF Slots
  <2>2. [lim.delay EXCEPT ![lim.write] = frame] \in [Slots -> [level : Int, fresh : BOOLEAN]]
    BY <1>1
  <2>3. next = [delay    |-> [lim.delay EXCEPT ![lim.write] = frame],
                write    |-> next.write,
                window   |-> v,
                sequence |-> lim.sequence + 1,
                gain     |-> gain_]
    BY <1>4
  <2>4. lim.sequence + 1 \in Nat
    BY <1>1
  <2> QED
    BY SMTT(30), <1>3, <1>6, <2>1, <2>2, <2>3, <2>4 DEF Limiters
<1>11. ASSUME NEW slot \in Slots
       PROVE  \/ next.delay[slot].level <= Threshold
              \/ Covers(next.window, FrameIn(next, slot), next.delay[slot].level)
  <2>1. CASE slot = lim.write
    <3>1. next.delay[slot] = frame /\ next.window = v
      BY <1>1, <1>4, <2>1
    <3>2. FrameIn(next, slot) = lim.sequence
      BY <1>1, <1>9, <2>1, FrameFacts
    <3>3. Covers(v, lim.sequence, frame.level)
      BY SMTT(30), <1>1, <1>3, <1>5 DEF Covers
    <3> QED
      BY <3>1, <3>2, <3>3
  <2>2. CASE slot # lim.write
    <3> DEFINE a == FrameIn(lim, slot)
               l == lim.delay[slot].level
    <3>1. next.delay[slot] = lim.delay[slot] /\ next.window = v /\ l \in Int
      BY <1>1, <1>4, <2>2
    <3>2. /\ FrameIn(next, slot) = a /\ a \in Int
          /\ lim.sequence - (Lookahead - 1) <= a /\ a <= lim.sequence
      BY SMTT(30), <1>1, <1>9, <2>2, FrameFacts
    <3>3. l <= Threshold \/ Covers(w, a, l)
      BY DEF LimiterInv
    <3> HIDE DEF a, l
    <3>4. l <= Threshold \/ Covers(v, a, l)
      BY <1>3, <3>1, <3>2, <3>3
    <3> QED
      BY <3>1, <3>2, <3>4 DEF l
  <2> QED
    BY <2>1, <2>2
<1>12. LimiterInv(next)
  <2>1. next.gain = gain_ /\ next.window = v
    BY <1>4
  <2> QED
    BY <1>3, <1>6, <1>10, <1>11, <2>1 DEF LimiterInv
<1> QED
  BY <1>7, <1>8, <1>12 DEF next

-----------------------------------------------------------------------------
(* The process callback *)

SafeLimiters == {lim \in Limiters : LimiterInv(lim)}

Meters == SUBSET {"before", "now"}

Cycles == [rate : Rates \cup {None}, length : Nat, frame : Nat,
           ins : SUBSET Channels, outs : SUBSET Channels, goal : Int]

AudioType ==
  /\ target \in Int
  /\ gain \in [Channels -> Int]
  /\ active \in Rates \cup {None}
  /\ limiters \in [Rates -> SafeLimiters]
  /\ source \in [Rates -> Meters] /\ output \in [Rates -> Meters]
  /\ cycle # None => cycle \in Cycles /\ cycle.rate = active

\* What the active state holds came in since it was chosen.
ActiveIsFresh ==
  active # None =>
    /\ \A slot \in Slots : limiters[active].delay[slot].fresh
    /\ source[active] \subseteq {"now"} /\ output[active] \subseteq {"now"}

AudioInv == AudioType /\ ActiveIsFresh /\ CeilingKept /\ NoStaleAudio /\ MeasuredSinceSwitch

\* A limiter that is reset is safe, whatever it held.
LEMMA ClearedIsSafe ==
  /\ Cleared \in SafeLimiters
  /\ \A slot \in Slots : Cleared.delay[slot].fresh
<1>1. 0 \in Slots /\ Quiet \in Int /\ Quiet <= Threshold
  BY LookaheadAssumption, LevelAssumption DEF Slots
<1>2. \A slot \in Slots : Cleared.delay[slot] = [level |-> Quiet, fresh |-> TRUE]
  BY DEF Cleared, Frame
<1>3. Cleared.delay \in [Slots -> [level : Int, fresh : BOOLEAN]]
  BY <1>1 DEF Cleared, Frame
<1>4. Cleared \in Limiters
  <2>1. <<>> \in Seq(Entries) /\ 0 \in Nat /\ 0 \in {g \in Int : g <= 0}
    OBVIOUS
  <2> DEFINE delay == Cleared.delay
  <2>2. Cleared = [delay |-> delay, write |-> 0, window |-> <<>>, sequence |-> 0, gain |-> 0]
    BY DEF Cleared
  <2> HIDE DEF delay
  <2>3. delay \in [Slots -> [level : Int, fresh : BOOLEAN]]
    BY <1>3 DEF delay
  <2> QED
    BY <1>1, <2>1, <2>2, <2>3 DEF Limiters
<1>5. Cleared.window = <<>> /\ Cleared.gain = 0
  BY DEF Cleared
<1>6. Falling(<<>>)
  BY DEF Falling
<1> QED
  BY <1>1, <1>2, <1>4, <1>5, <1>6 DEF SafeLimiters, LimiterInv

\* So is one that another state replaces: the levels it holds stay.
LEMMA AgedIsSafe ==
  ASSUME NEW lim \in SafeLimiters PROVE Aged(lim) \in SafeLimiters
<1>1. LimiterInv(lim) /\ lim \in Limiters
  BY DEF SafeLimiters
<1> DEFINE delay == [slot \in Slots |-> Frame(lim.delay[slot].level, FALSE)]
<1>2. /\ delay \in [Slots -> [level : Int, fresh : BOOLEAN]]
      /\ \A slot \in Slots : delay[slot].level = lim.delay[slot].level
  BY <1>1 DEF Limiters, Frame
<1> HIDE DEF delay
<1>3. Aged(lim) = [lim EXCEPT !.delay = delay]
  BY DEF Aged, delay
<1> HIDE DEF delay
<1>4. /\ Aged(lim).delay = delay /\ Aged(lim).write = lim.write
      /\ Aged(lim).window = lim.window /\ Aged(lim).sequence = lim.sequence
      /\ Aged(lim).gain = lim.gain /\ Aged(lim) \in Limiters
  BY <1>1, <1>2, <1>3 DEF Limiters
<1>5. \A slot \in Slots : FrameIn(Aged(lim), slot) = FrameIn(lim, slot)
  BY <1>4 DEF FrameIn
<1> QED
  BY <1>1, <1>2, <1>4, <1>5 DEF SafeLimiters, LimiterInv

\* Choosing a state leaves it reset, or as it was when it is active already.
LEMMA BeginStep == ASSUME AudioInv, Begin PROVE AudioInv'
<1>1. PICK rate \in Rates \cup {Unprepared, Invalid}, n \in 0 .. Longest,
           ins \in SUBSET Channels, outs \in SUBSET Channels :
        LET r == StateFor(rate) IN
        /\ active' = r
        /\ limiters' = ChosenLimiters(r)
        /\ source' = Metered(ChosenMeters(source, r), r, ins = Channels)
        /\ output' = ChosenMeters(output, r)
        /\ cycle' = [rate |-> r, length |-> n, frame |-> 0, ins |-> ins, outs |-> outs,
                     goal |-> IF r = None THEN 0 ELSE target]
        /\ published' = {}
        /\ UNCHANGED <<target, gain, heard>>
  BY DEF Begin
<1> DEFINE r == StateFor(rate)
           metered == ChosenMeters(source, r)
<1>2. r \in Rates \cup {None}
  BY DEF StateFor
<1>3. /\ target \in Int /\ gain \in [Channels -> Int] /\ active \in Rates \cup {None}
      /\ limiters \in [Rates -> SafeLimiters]
      /\ source \in [Rates -> Meters] /\ output \in [Rates -> Meters]
      /\ ActiveIsFresh /\ None \notin Rates
  BY RatesAssumption DEF AudioInv, AudioType
<1> HIDE DEF r
<1>4. /\ limiters' \in [Rates -> SafeLimiters]
      /\ r # None => \A slot \in Slots : limiters'[r].delay[slot].fresh
  <2>1. limiters' = [q \in Rates |-> IF r = active THEN limiters[q]
                       ELSE IF q = r /\ r # None /\ r # active THEN Cleared
                       ELSE Aged(limiters[q])]
    BY <1>1 DEF ChosenLimiters, Resets, r
  <2>2. limiters' \in [Rates -> SafeLimiters]
    BY <1>3, <2>1, ClearedIsSafe, AgedIsSafe
  <2>3. ASSUME r # None PROVE \A slot \in Slots : limiters'[r].delay[slot].fresh
    <3>1. CASE r = active
      BY <1>2, <1>3, <2>1, <2>3, <3>1 DEF ActiveIsFresh
    <3>2. CASE r # active
      <4>1. limiters'[r] = Cleared
        BY <1>2, <1>3, <2>1, <2>3, <3>2
      <4> QED
        BY <4>1, ClearedIsSafe
    <3> QED
      BY <3>1, <3>2
  <2> QED
    BY <2>2, <2>3
<1>5. ASSUME NEW m \in [Rates -> Meters],
             active # None => m[active] \subseteq {"now"}
      PROVE  LET c == ChosenMeters(m, r) IN
             /\ c \in [Rates -> Meters]
             /\ r # None => c[r] \subseteq {"now"}
  <2> DEFINE c == [q \in Rates |-> IF r = active THEN m[q]
                     ELSE IF q = r /\ r # None /\ r # active THEN {}
                     ELSE IF m[q] = {} THEN {} ELSE {"before"}]
  <2>1. ChosenMeters(m, r) = c
    BY DEF ChosenMeters, Resets, ResetMeter, AgedMeter
  <2>2. c \in [Rates -> Meters]
    BY DEF Meters
  <2>3. r # None => c[r] \subseteq {"now"}
    BY <1>2, <1>5
  <2> QED
    BY <2>1, <2>2, <2>3
<1>6. /\ metered \in [Rates -> Meters]
      /\ r # None => metered[r] \subseteq {"now"}
      /\ output' \in [Rates -> Meters]
      /\ r # None => output'[r] \subseteq {"now"}
  BY <1>1, <1>3, <1>5 DEF ActiveIsFresh, r
<1> HIDE DEF metered
<1>7. /\ source' \in [Rates -> Meters]
      /\ r # None => source'[r] \subseteq {"now"}
  <2>1. source' = IF r # None /\ ins = Channels
                  THEN [metered EXCEPT ![r] = @ \cup {"now"}] ELSE metered
    BY <1>1 DEF Metered, metered, r
  <2> QED
    BY <1>2, <1>6, <2>1 DEF Meters
<1>8. cycle' \in Cycles /\ cycle'.rate = active'
  <2>1. n \in Nat
    BY BoundsAssumption
  <2>2. (IF r = None THEN 0 ELSE target) \in Int
    BY <1>3
  <2> QED
    BY <1>1, <1>2, <2>1, <2>2 DEF Cycles, r
<1>9. AudioType'
  BY <1>1, <1>2, <1>3, <1>4, <1>6, <1>7, <1>8 DEF AudioType, r
<1>10. ActiveIsFresh'
  BY <1>1, <1>4, <1>6, <1>7 DEF ActiveIsFresh, r
<1>11. CeilingKept' /\ NoStaleAudio' /\ MeasuredSinceSwitch'
  BY <1>1 DEF AudioInv, CeilingKept, NoStaleAudio, MeasuredSinceSwitch
<1> QED
  BY <1>9, <1>10, <1>11 DEF AudioInv

\* A quotient is a whole number.
LEMMA Quotient ==
  ASSUME NEW x \in Int, NEW n \in Nat, n > 0 PROVE x \div n \in Int
OBVIOUS

\* So is a product.
LEMMA Product ==
  ASSUME NEW x \in Int, NEW y \in Int PROVE x * y \in Int
OBVIOUS

\* Every step of a gain's ramp is a gain.
LEMMA RampIsGain ==
  ASSUME AudioInv, cycle # None, cycle.frame < cycle.length, NEW c \in Channels
  PROVE  RampGain(c) \in Int
<1>1. /\ cycle.goal \in Int /\ cycle.length \in Nat /\ cycle.frame \in Nat
      /\ gain[c] \in Int
  BY DEF AudioInv, AudioType, Cycles
<1> DEFINE change == (cycle.goal - gain[c]) * cycle.frame
<1>2. change \in Int
  BY <1>1, Product
<1> HIDE DEF change
<1>3. CASE cycle.length = 1
  BY <1>1, <1>3 DEF RampGain
<1>4. CASE cycle.length # 1
  <2>1. cycle.length - 1 \in Nat /\ cycle.length - 1 > 0
    BY <1>1, <1>4
  <2>2. change \div (cycle.length - 1) \in Int
    BY <1>2, <2>1, Quotient
  <2>3. RampGain(c) = gain[c] + change \div (cycle.length - 1)
    BY <1>4 DEF RampGain, change
  <2> QED
    BY <1>1, <2>2, <2>3
<1> QED
  BY <1>3, <1>4

\* A frame that is limited leaves the limiter safe, and is itself safe and
\* fresh; the rest of the state stays.
LEMMA ProcessStep == ASSUME AudioInv, Process PROVE AudioInv'
<1>1. PICK level \in Levels, left \in Levels, rise \in Rises :
        /\ cycle # None
        /\ cycle.frame < cycle.length
        /\ \E mixed \in Mixed(level, left) : LET frame == Frame(mixed, TRUE) IN
           IF Limits
           THEN LET lim == limiters[cycle.rate] out == Let(lim, frame, rise) IN
                /\ limiters' = [limiters EXCEPT ![cycle.rate] = Limited(lim, frame, rise)]
                /\ heard' = [level |-> out.level, fresh |-> out.fresh, limited |-> TRUE]
           ELSE /\ heard' = [level |-> frame.level, fresh |-> TRUE, limited |-> FALSE]
                /\ UNCHANGED limiters
        /\ cycle' = [cycle EXCEPT !.frame = @ + 1]
        /\ UNCHANGED <<target, active, source, output, gain, published>>
  BY DEF Process
<1>2. /\ cycle \in Cycles /\ cycle.rate = active /\ active \in Rates \cup {None}
      /\ limiters \in [Rates -> SafeLimiters] /\ None \notin Rates
      /\ ActiveIsFresh /\ MeasuredSinceSwitch
  BY <1>1, RatesAssumption DEF AudioInv, AudioType
<1>3. PICK mixed \in Mixed(level, left) :
        IF Limits
        THEN /\ limiters' = [limiters EXCEPT ![cycle.rate] =
                  Limited(limiters[cycle.rate], Frame(mixed, TRUE), rise)]
             /\ heard' = [level |-> Let(limiters[cycle.rate], Frame(mixed, TRUE), rise).level,
                          fresh |-> Let(limiters[cycle.rate], Frame(mixed, TRUE), rise).fresh,
                          limited |-> TRUE]
        ELSE /\ heard' = [level |-> mixed, fresh |-> TRUE, limited |-> FALSE]
             /\ UNCHANGED limiters
  <2>1. \A mixed : Frame(mixed, TRUE).level = mixed
    BY DEF Frame
  <2> QED
    BY <1>1, <2>1
<1>4. mixed \in Int
  <2>1. level \in Int /\ left \in Int
    BY SourceAssumption
  <2>2. \A c \in Wired : RampGain(c) \in Int
    <3>1. Wired \subseteq Channels
      BY <1>2 DEF Wired, Cycles
    <3> QED
      BY <1>1, <3>1, RampIsGain
  <2>3. \A c \in Wired : level + RampGain(c) \in Int
    BY <2>1, <2>2
  <2> QED
    BY <2>1, <2>3 DEF Mixed
<1>5. cycle' \in Cycles /\ cycle'.rate = active'
  <2>1. cycle.frame + 1 \in Nat
    BY <1>2 DEF Cycles
  <2>2. cycle' \in Cycles
    BY <1>1, <1>2, <2>1 DEF Cycles
  <2>3. cycle'.rate = cycle.rate
    BY <1>1, <1>2 DEF Cycles
  <2> QED
    BY <1>1, <1>2, <2>2, <2>3
<1>6. CASE Limits
  <2> DEFINE lim == limiters[active]
             frame == Frame(mixed, TRUE)
             next == Limited(lim, frame, rise)
             out == Let(lim, frame, rise)
  <2>1. active \in Rates /\ active # None /\ lim \in SafeLimiters
    BY <1>2, <1>6 DEF Limits
  <2>2. frame \in [level : Int, fresh : BOOLEAN] /\ frame.fresh
    BY <1>4 DEF Frame
  <2>3. LimiterInv(lim) /\ lim \in Limiters
    BY <2>1 DEF SafeLimiters
  <2> HIDE DEF frame
  <2>4. LimiterInv(next) /\ out.level <= Threshold + Guard
    BY <2>2, <2>3, LimiterStep
  <2>5. next \in SafeLimiters
    BY <2>4 DEF SafeLimiters, LimiterInv
  <2>6. out.fresh
    <3>1. lim.delay[lim.write].fresh
      BY <1>2, <2>1, <2>3 DEF ActiveIsFresh, Limiters
    <3> QED
      BY <3>1 DEF Let, Frame
  <2>7. \A slot \in Slots : next.delay[slot].fresh
    <3>1. next.delay = [lim.delay EXCEPT ![lim.write] = frame]
      BY DEF Limited
    <3>2. lim.delay \in [Slots -> [level : Int, fresh : BOOLEAN]]
      BY <2>3 DEF Limiters
    <3> QED
      BY <1>2, <2>1, <2>2, <3>1, <3>2 DEF ActiveIsFresh
  <2>8. /\ limiters' = [limiters EXCEPT ![active] = next]
        /\ heard' = [level |-> out.level, fresh |-> out.fresh, limited |-> TRUE]
    BY <1>2, <1>3, <1>6 DEF frame
  <2> HIDE DEF lim, next, out
  <2>9. AudioType'
    BY <1>1, <1>2, <1>5, <2>1, <2>5, <2>8 DEF AudioInv, AudioType
  <2>10. ActiveIsFresh'
    BY <1>1, <1>2, <2>1, <2>7, <2>8 DEF ActiveIsFresh
  <2>11. CeilingKept' /\ NoStaleAudio'
    BY <2>4, <2>6, <2>8 DEF CeilingKept, NoStaleAudio
  <2>12. MeasuredSinceSwitch'
    BY <1>1, <1>2 DEF MeasuredSinceSwitch
  <2> QED
    BY <2>9, <2>10, <2>11, <2>12 DEF AudioInv
<1>7. CASE ~Limits
  <2>1. heard'.limited = FALSE /\ limiters' = limiters
    BY <1>3, <1>7
  <2>2. AudioType'
    BY <1>1, <1>2, <1>5, <2>1 DEF AudioInv, AudioType
  <2> QED
    BY <1>1, <1>2, <2>1, <2>2
       DEF AudioInv, ActiveIsFresh, CeilingKept, NoStaleAudio, MeasuredSinceSwitch
<1> QED
  BY <1>6, <1>7

\* What is published comes from the meters of the active state.
LEMMA EndStep == ASSUME AudioInv, End PROVE AudioInv'
<1>1. PICK loud \in BOOLEAN :
        /\ cycle # None
        /\ gain' = [c \in Channels |->
             IF c \in Wired /\ cycle.length > 0 THEN cycle.goal ELSE gain[c]]
        /\ output' = Metered(output, cycle.rate, cycle.outs = Channels)
        /\ published' =
             IF loud /\ cycle.rate # None /\ cycle.ins = Channels
             THEN source[cycle.rate] \cup
                    (IF cycle.outs = Channels THEN output'[cycle.rate] ELSE {})
             ELSE published
        /\ cycle' = None
        /\ heard' = Nothing
        /\ UNCHANGED <<target, active, limiters, source>>
  BY DEF End
<1>2. /\ cycle \in Cycles /\ cycle.rate = active /\ active \in Rates \cup {None}
      /\ AudioType /\ None \notin Rates /\ ActiveIsFresh /\ MeasuredSinceSwitch
  BY <1>1, RatesAssumption DEF AudioInv, AudioType
<1>3. gain' \in [Channels -> Int]
  BY <1>1, <1>2 DEF Cycles, AudioType
<1>4. output' \in [Rates -> Meters] /\ (active # None => output'[active] \subseteq {"now"})
  BY <1>1, <1>2 DEF Metered, AudioType, ActiveIsFresh, Meters
<1>5. AudioType'
  BY <1>1, <1>2, <1>3, <1>4 DEF AudioType
<1>6. ActiveIsFresh'
  BY <1>1, <1>2, <1>4 DEF ActiveIsFresh
<1>7. MeasuredSinceSwitch'
  BY <1>1, <1>2, <1>4 DEF MeasuredSinceSwitch, ActiveIsFresh
<1>8. CeilingKept' /\ NoStaleAudio'
  BY <1>1 DEF CeilingKept, NoStaleAudio, Nothing
<1> QED
  BY <1>5, <1>6, <1>7, <1>8 DEF AudioInv

\* The audio invariant holds throughout.
LEMMA AudioInvariant == Spec => []AudioInv
<1>1. Init => AudioInv
  <2> SUFFICES ASSUME Init PROVE AudioInv
    OBVIOUS
  <2>1. AudioType
    <3>1. limiters \in [Rates -> SafeLimiters]
      BY ClearedIsSafe DEF Init
    <3>2. source \in [Rates -> Meters] /\ output \in [Rates -> Meters]
      BY DEF Init, Meters
    <3>3. gain \in [Channels -> Int] /\ target \in Int
      BY DEF Init
    <3> QED
      BY <3>1, <3>2, <3>3 DEF Init, AudioType
  <2>2. None \notin Rates
    BY RatesAssumption
  <2> QED
    BY <2>1 DEF Init, AudioInv, ActiveIsFresh, CeilingKept, NoStaleAudio,
                MeasuredSinceSwitch, Nothing
<1>2. AudioInv /\ [Next]_vars => AudioInv'
  <2> SUFFICES ASSUME AudioInv, [Next]_vars PROVE AudioInv'
    OBVIOUS
  <2>1. CASE SetTarget
    <3>1. target' \in Int
      BY <2>1, SourceAssumption DEF SetTarget
    <3> QED
      BY <2>1, <3>1 DEF SetTarget, AudioInv, AudioType, ActiveIsFresh, CeilingKept,
                        NoStaleAudio, MeasuredSinceSwitch
  <2>2. CASE Begin
    BY <2>2, BeginStep
  <2>3. CASE Process
    BY <2>3, ProcessStep
  <2>4. CASE End
    BY <2>4, EndStep
  <2>5. CASE UNCHANGED vars
    BY <2>5 DEF vars, AudioInv, AudioType, ActiveIsFresh, CeilingKept, NoStaleAudio,
                MeasuredSinceSwitch
  <2> QED
    BY <2>1, <2>2, <2>3, <2>4, <2>5 DEF Next
<1> QED
  BY <1>1, <1>2, PTL DEF Spec

\* No frame leaves the limiter above the ceiling: whatever the lookahead, the
\* source, the targets, the rates and the cycles, as long as the gain recovers
\* by no more than half the guard in a frame (process_frame, gain.rs).
THEOREM CeilingCorrect == Spec => []CeilingKept
<1>1. AudioInv => CeilingKept
  BY DEF AudioInv
<1> QED
  BY <1>1, AudioInvariant, PTL

\* No sample from before a switch of the rate is played after it.
THEOREM FreshCorrect == Spec => []NoStaleAudio
<1>1. AudioInv => NoStaleAudio
  BY DEF AudioInv
<1> QED
  BY <1>1, AudioInvariant, PTL

\* No measurement that mixes audio of before a switch with audio of after it
\* is published.
THEOREM MeasuredCorrect == Spec => []MeasuredSinceSwitch
<1>1. AudioInv => MeasuredSinceSwitch
  BY DEF AudioInv
<1> QED
  BY <1>1, AudioInvariant, PTL
=============================================================================
