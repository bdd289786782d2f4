----------------------------- MODULE GainProofs -----------------------------
(***************************************************************************)
(* Proofs about GainControl for every set of valid configurations, of      *)
(* levels, of domains and of node ids.                                     *)
(***************************************************************************)
EXTENDS GainControl, TLAPS

\* Clamping a number to a range that is not empty puts it in the range.
LEMMA ClampFacts ==
  ASSUME NEW x \in Int, NEW low \in Int, NEW high \in Int, low <= high
  PROVE  Clamp(x, low, high) \in low .. high
  BY DEF Clamp

\* The limits of a valid configuration are a range around 0.
LEMMA LimitsFacts ==
  ASSUME NEW c \in Configs
  PROVE  /\ Valid(c)
         /\ Limits(c) \subseteq Int
         /\ 0 \in Limits(c)
         /\ \A x \in Int : Limited(c, x) \in Limits(c)
<1>1. Valid(c)
  BY ConfigsAssumption
<1>2. ASSUME NEW x \in Int PROVE Limited(c, x) \in Limits(c)
  <2>1. c.cut \in Nat /\ c.boost \in Nat
    BY <1>1 DEF Valid
  <2>2. -c.cut \in Int /\ c.boost \in Int /\ -c.cut <= c.boost
    BY <2>1
  <2>3. Clamp(x, -c.cut, c.boost) \in -c.cut .. c.boost
    BY <2>2, ClampFacts
  <2> QED
    BY <2>3 DEF Limited, Limits
<1>3. Limits(c) \subseteq Int /\ 0 \in Limits(c)
  <2>1. c.cut \in Nat /\ c.boost \in Nat
    BY <1>1 DEF Valid
  <2>2. -c.cut <= 0 /\ 0 <= c.boost /\ -c.cut \in Int /\ c.boost \in Int
    BY <2>1
  <2> QED
    BY <2>2 DEF Limits
<1> QED
  BY <1>1, <1>2, <1>3

\* An adjustment ends within the limits, between the old gain and the gain the
\* loudness calls for, and a gain within the limits moves by a step at most.
LEMMA AdjustedFacts ==
  ASSUME NEW c \in Configs, NEW g \in Int, NEW l \in Int
  PROVE  LET h == Adjusted(c, g, l) IN
         /\ h \in Limits(c)
         /\ h # g =>
              /\ \/ g < h /\ h <= Desired(c, l)
                 \/ Desired(c, l) <= h /\ h < g
              /\ g \in Limits(c) => g - c.cutStep <= h /\ h <= g + c.boostStep
<1> DEFINE want == Desired(c, l)
           delta == want - g
           step == IF delta > 0 THEN c.boostStep ELSE c.cutStep
           moved == Clamp(delta, -step, step)
           h == Adjusted(c, g, l)
<1>1. Valid(c)
  BY ConfigsAssumption
<1>2. c.target \in Int /\ c.boost \in Nat /\ c.cut \in Nat
      /\ c.boostStep \in Nat \ {0} /\ c.cutStep \in Nat \ {0}
  BY <1>1 DEF Valid
<1>3. want \in Int /\ -c.cut <= want /\ want <= c.boost
  BY <1>2, LimitsFacts DEF Desired, Limits
<1>4. h = Limited(c, g + moved)
  BY DEF Adjusted
<1>5. moved = IF delta > 0 THEN IF c.boostStep < delta THEN c.boostStep ELSE delta
                           ELSE IF delta < -c.cutStep THEN -c.cutStep ELSE delta
  BY <1>2, <1>3 DEF Clamp
<1> HIDE DEF moved
<1>6. moved \in Int
  BY <1>2, <1>3, <1>5
<1>7. h \in Limits(c)
  BY <1>4, <1>6, LimitsFacts
<1>8. h = IF g + moved < -c.cut THEN -c.cut
          ELSE IF c.boost < g + moved THEN c.boost ELSE g + moved
  BY <1>4 DEF Limited, Clamp
<1> HIDE DEF h, want
<1>9. h # g =>
        /\ \/ g < h /\ h <= want
           \/ want <= h /\ h < g
        /\ g \in Limits(c) => g - c.cutStep <= h /\ h <= g + c.boostStep
  BY <1>2, <1>3, <1>5, <1>6, <1>8 DEF Limits
<1> QED
  BY <1>7, <1>9 DEF h, want

-----------------------------------------------------------------------------
\* What an update does to the gains: one of them is observed.
LEMMA UpdateFacts ==
  ASSUME TypeOK, NEW n \in Nodes, Update(n)
  PROVE  \E l \in meter[n] :
           /\ l \in Int
           /\ domain[n] \in Domains
           /\ gain'[domain[n]][n] = Observe(config[domain[n]], gain[domain[n]][n], l)
           /\ \A d \in Domains, m \in Nodes :
                <<d, m>> # <<domain[n], n>> => gain'[d][m] = gain[d][m]
           /\ gain' \in [Domains -> [Nodes -> UNION {Limits(c) : c \in Configs}]]
<1> DEFINE Gains == UNION {Limits(c) : c \in Configs}
           e == domain[n]
<1>1. PICK l \in meter[n] : gain' = [gain EXCEPT ![e][n] = Observe(config[e], @, l)]
  BY DEF Update
<1>2. e \in Domains /\ config[e] \in Configs /\ l \in Int
  <2>1. l \in Levels
    BY DEF TypeOK
  <2>2. e \in Domains
    BY DEF TypeOK
  <2> QED
    BY <2>1, <2>2, LevelsAssumption DEF TypeOK
<1>3. gain \in [Domains -> [Nodes -> Gains]]
  BY DEF TypeOK
<1>4. gain[e][n] \in Gains /\ gain[e][n] \in Int
  BY <1>2, <1>3, LimitsFacts
<1>5. Observe(config[e], gain[e][n], l) \in Gains
  <2>1. Adjusted(config[e], gain[e][n], l) \in Limits(config[e])
    BY <1>2, <1>4, AdjustedFacts
  <2> QED
    BY <1>2, <1>4, <2>1 DEF Observe
<1> HIDE DEF Gains
<1>6. gain' \in [Domains -> [Nodes -> Gains]]
  BY <1>1, <1>2, <1>3, <1>5
<1>7. gain'[e][n] = Observe(config[e], gain[e][n], l)
  BY <1>1, <1>2, <1>3
<1>8. ASSUME NEW d \in Domains, NEW m \in Nodes, <<d, m>> # <<e, n>>
      PROVE  gain'[d][m] = gain[d][m]
  BY <1>1, <1>2, <1>3, <1>8
<1> QED
  BY <1>2, <1>6, <1>7, <1>8 DEF Gains

\* Every step keeps the types, gains in particular within some limits.
LEMMA TypeStep == TypeOK /\ [Next]_vars => TypeOK'
<1> SUFFICES ASSUME TypeOK, [Next]_vars PROVE TypeOK'
  OBVIOUS
<1> DEFINE Gains == UNION {Limits(c) : c \in Configs}
<1>1. CASE Reload
  BY <1>1 DEF Reload, TypeOK
<1>2. ASSUME NEW n \in Nodes, Update(n) PROVE TypeOK'
  <2>1. gain' \in [Domains -> [Nodes -> Gains]] /\ domain[n] \in Domains
    BY <1>2, UpdateFacts
  <2> HIDE DEF Gains
  <2>2. gain'[domain[n]][n] \in Gains
    BY <2>1
  <2>3. target' = [target EXCEPT ![n] = gain'[domain[n]][n]]
        /\ meter' = [meter EXCEPT ![n] = {}]
        /\ UNCHANGED <<config, life, domain, level>>
    BY <1>2 DEF Update, stream
  <2> QED
    BY <2>1, <2>2, <2>3 DEF TypeOK, Gains
<1>3. ASSUME NEW n \in Nodes, Attach(n) PROVE TypeOK'
  <2>1. 0 \in Gains
    <3>1. config[domain[n]] \in Configs
      BY DEF TypeOK
    <3> QED
      BY <3>1, LimitsFacts
  <2> QED
    BY <1>3, <2>1 DEF Attach, TypeOK
<1>4. ASSUME NEW n \in Nodes, Detach(n) PROVE TypeOK'
  BY <1>4 DEF Detach, TypeOK
<1>5. ASSUME NEW n \in Nodes, Open(n) PROVE TypeOK'
  <2>1. PICK d \in Domains, l \in Levels :
          /\ domain' = [domain EXCEPT ![n] = d]
          /\ level' = [level EXCEPT ![n] = l]
    BY <1>5 DEF Open
  <2> QED
    BY <1>5, <2>1 DEF Open, TypeOK
<1>6. ASSUME NEW n \in Nodes, Close(n) PROVE TypeOK'
  BY <1>6 DEF Close, TypeOK
<1>7. ASSUME NEW n \in Nodes, Fade(n) PROVE TypeOK'
  BY <1>7 DEF Fade, TypeOK
<1>8. ASSUME NEW n \in Nodes, Measure(n) PROVE TypeOK'
  BY <1>8 DEF Measure, stream, TypeOK
<1>9. ASSUME NEW n \in Nodes, Release(n) PROVE TypeOK'
  BY <1>9 DEF Release, TypeOK
<1>10. ASSUME NEW n \in Nodes, Reattach(n) PROVE TypeOK'
  BY <1>10 DEF Reattach, TypeOK
<1>11. CASE UNCHANGED vars
  BY <1>11 DEF vars, stream, TypeOK
<1> QED
  BY <1>1, <1>2, <1>3, <1>4, <1>5, <1>6, <1>7, <1>8, <1>9, <1>10, <1>11 DEF Next

\* Only an update of the stream changes a gain, and by an adjustment.
LEMMA ChangeFacts ==
  ASSUME TypeOK, [Next]_vars, NEW d \in Domains, NEW n \in Nodes,
         gain'[d][n] # gain[d][n]
  PROVE  /\ config[d] \in Configs /\ gain[d][n] \in Int
         /\ \E l \in meter[n] : l \in Int /\ gain'[d][n] = Adjusted(config[d], gain[d][n], l)
<1>1. PICK m \in Nodes : Update(m)
  BY DEF Next, Reload, Attach, Release, Reattach, Detach, Open, Close, Fade, Measure, vars
<1>2. d = domain[m] /\ n = m
  BY <1>1, UpdateFacts
<1>3. PICK l \in meter[n] : l \in Int /\ gain'[d][n] = Observe(config[d], gain[d][n], l)
  BY <1>1, <1>2, UpdateFacts
<1>4. gain'[d][n] = Adjusted(config[d], gain[d][n], l)
  BY <1>3 DEF Observe
<1>5. config[d] \in Configs
  BY DEF TypeOK
<1>6. gain[d][n] \in UNION {Limits(c) : c \in Configs}
  BY DEF TypeOK
<1> QED
  BY <1>3, <1>4, <1>5, <1>6, LimitsFacts

-----------------------------------------------------------------------------
\* Every variable keeps its type: no gain and no filter's target ever leaves
\* the limits of all configurations, however often they are changed.
THEOREM TypeCorrect == Spec => []TypeOK
<1>1. Init => TypeOK
  <2> SUFFICES ASSUME Init PROVE TypeOK
    OBVIOUS
  <2>1. ASSUME NEW d \in Domains PROVE 0 \in UNION {Limits(c) : c \in Configs}
    BY DefaultAssumption, LimitsFacts
  <2>2. ASSUME NEW n \in Nodes PROVE domain[n] \in Domains
    BY DEF Init
  <2> QED
    BY <2>1, <2>2, DefaultAssumption DEF Init, TypeOK
<1> QED
  BY <1>1, TypeStep, PTL DEF Spec

\* A gain that changes is within the limits in force afterwards.
THEOREM LimitsCorrect == Spec => AdjustedWithinLimits
<1> DEFINE P == \A d \in Domains, n \in Nodes :
                  gain'[d][n] # gain[d][n] => gain'[d][n] \in Limits(config[d])
<1>1. TypeOK /\ [Next]_vars => [P]_vars
  <2> SUFFICES ASSUME TypeOK, [Next]_vars, NEW d \in Domains, NEW n \in Nodes,
                      gain'[d][n] # gain[d][n]
               PROVE  gain'[d][n] \in Limits(config[d])
    OBVIOUS
  <2>1. /\ config[d] \in Configs /\ gain[d][n] \in Int
        /\ \E l \in meter[n] : l \in Int /\ gain'[d][n] = Adjusted(config[d], gain[d][n], l)
    BY ChangeFacts
  <2> QED
    BY <2>1, AdjustedFacts
<1> QED
  BY <1>1, TypeCorrect, PTL DEF Spec, AdjustedWithinLimits

\* Gains approach what the loudness calls for, never past it and by no more in
\* one update than the configured rate allows in one CONTROL_INTERVAL.
THEOREM SlewCorrect == Spec => SlewsTowardTarget
<1> DEFINE P == \A d \in Domains, n \in Nodes :
                  gain'[d][n] # gain[d][n] =>
                    LET c == config[d]
                        g == gain[d][n]
                        h == gain'[d][n]
                    IN  \E l \in meter[n] :
                          /\ \/ g < h /\ h <= Desired(c, l)
                             \/ Desired(c, l) <= h /\ h < g
                          /\ g \in Limits(c) => g - c.cutStep <= h /\ h <= g + c.boostStep
<1>1. TypeOK /\ [Next]_vars => [P]_vars
  <2> SUFFICES ASSUME TypeOK, [Next]_vars PROVE P
    OBVIOUS
  <2>1. ASSUME NEW d \in Domains, NEW n \in Nodes, gain'[d][n] # gain[d][n]
        PROVE  \E l \in meter[n] :
                 /\ \/ gain[d][n] < gain'[d][n] /\ gain'[d][n] <= Desired(config[d], l)
                    \/ Desired(config[d], l) <= gain'[d][n] /\ gain'[d][n] < gain[d][n]
                 /\ gain[d][n] \in Limits(config[d]) =>
                      /\ gain[d][n] - config[d].cutStep <= gain'[d][n]
                      /\ gain'[d][n] <= gain[d][n] + config[d].boostStep
    <3>1. config[d] \in Configs /\ gain[d][n] \in Int
      BY <2>1, ChangeFacts
    <3>2. PICK l \in meter[n] : l \in Int /\ gain'[d][n] = Adjusted(config[d], gain[d][n], l)
      BY <2>1, ChangeFacts
    <3> QED
      BY <2>1, <3>1, <3>2, AdjustedFacts
  <2> QED
    BY <2>1
<1> QED
  BY <1>1, TypeCorrect, PTL DEF Spec, SlewsTowardTarget

=============================================================================
