----------------------- MODULE ScaleControllerProofs -----------------------
(***************************************************************************)
(* Proofs about ScaleController, for any configs, metrics, values and      *)
(* durations, with hot reloads, restarts, failing calls, lost replies and  *)
(* foreign writes at any time.                                             *)
(***************************************************************************)
EXTENDS ScaleController, TLAPS, WellFoundedInduction, SequenceTheorems

(* The rules.  What is computed by recursion or by a maximum is shown to   *)
(* be a number by looking at the least counterexample.                     *)

(* Every non-empty set of naturals has a least element.                    *)
LEMMA LeastNatural ==
    ASSUME NEW T \in SUBSET Nat, T # {}
    PROVE  \E x \in T : \A y \in T : x <= y
<1> DEFINE R == OpToRel(<, Nat)
<1>1. IsWellFoundedOn(R, Nat)
      BY NatLessThanWellFounded
<1>2. \A x, y \in Nat : y < x => <<y, x>> \in R
      BY DEF OpToRel
<1> HIDE DEF R
<1>3. PICK x \in T : \A y \in T : ~ (<<y, x>> \in R)
      BY <1>1, WFMin
<1>4. ASSUME NEW y \in T PROVE x <= y
  <2>1. x \in Nat /\ y \in Nat
        OBVIOUS
  <2>2. ~ (y < x)
        BY <1>2, <1>3, <2>1
  <2>3. QED
        BY <2>1, <2>2
<1>5. QED
      BY <1>4

(* Max of the values of a function on a non-empty set of positions.        *)
LEMMA MaxOfPositions ==
    ASSUME NEW n \in Nat, NEW P \in SUBSET (1..n), P # {}, NEW f \in [1..n -> Int]
    PROVE  /\ Max({f[i] : i \in P}) \in {f[i] : i \in P}
           /\ \A i \in P : f[i] <= Max({f[j] : j \in P})
<1> DEFINE Top(k, i) == i \in P /\ i <= k /\ \A j \in P : j <= k => f[j] <= f[i]
           Good(k) == (\E i \in P : i <= k) => \E i \in P : Top(k, i)
           Bad == {k \in Nat : ~ Good(k)}
<1>0. \A i \in P : i \in Nat /\ i >= 1 /\ i <= n /\ f[i] \in Int
      OBVIOUS
<1>1. Bad = {}
  <2> SUFFICES ASSUME Bad # {} PROVE FALSE
      OBVIOUS
  <2>1. PICK k \in Bad : \A y \in Bad : k <= y
    <3>1. Bad \in SUBSET Nat
          OBVIOUS
    <3> HIDE DEF Bad
    <3>2. QED
          BY <3>1, LeastNatural
  <2>2. k \in Nat /\ ~ Good(k)
        BY <2>1
  <2>3. PICK i \in P : i <= k
        BY <2>2
  <2>4. k - 1 \in Nat
        BY <1>0, <2>2, <2>3
  <2>5. Good(k - 1)
    <3>1. k - 1 \notin Bad
      <4> HIDE DEF Bad
      <4> QED
          BY <2>1, <2>2, <2>4
    <3>2. QED
          BY <3>1, <2>4
  <2>6. \A j \in P : j <= k => j <= k - 1 \/ j = k
        BY <1>0, <2>2
  <2>7. CASE \E j \in P : j <= k - 1
    <3>1. PICK m \in P : Top(k - 1, m)
          BY <2>5, <2>7
    <3>2. m <= k
          BY <3>1, <1>0, <2>2
    <3> HIDE DEF Good, Bad
    <3>a. \A j \in P : j <= k - 1 => f[j] <= f[m]
          BY <3>1
    <3>b. f[m] \in Int
          BY <1>0
    <3>3. CASE k \in P /\ f[k] > f[m]
      <4>1. ASSUME NEW j \in P, j <= k PROVE f[j] <= f[k]
        <5>1. f[j] \in Int /\ f[k] \in Int
              BY <1>0, <3>3
        <5>2. j = k \/ f[j] <= f[m]
              BY <2>6, <3>a, <4>1
        <5>3. QED
              BY <5>1, <5>2, <3>b, <3>3
      <4>2. Top(k, k)
            BY <4>1, <3>3, <2>2
      <4>3. QED
            BY <4>2, <3>3, <2>2 DEF Good
    <3>4. CASE ~ (k \in P /\ f[k] > f[m])
      <4>1. ASSUME NEW j \in P, j <= k PROVE f[j] <= f[m]
        <5>1. f[j] \in Int
              BY <1>0
        <5>2. j = k \/ f[j] <= f[m]
              BY <2>6, <3>a, <4>1
        <5>3. QED
              BY <5>1, <5>2, <3>b, <3>4
      <4>2. Top(k, m)
            BY <4>1, <3>2
      <4>3. QED
            BY <4>2, <2>2 DEF Good
    <3>5. QED
          BY <3>3, <3>4
  <2>8. CASE ~ \E j \in P : j <= k - 1
    <3>1. \A j \in P : j <= k => j = k
          BY <2>6, <2>8
    <3>2. i = k
          BY <2>3, <3>1
    <3>3. Top(k, i)
          BY <3>1, <3>2, <2>3, <1>0
    <3>4. QED
          BY <3>3, <2>2
  <2>9. QED
        BY <2>7, <2>8
<1>2. PICK i \in P : \A j \in P : f[j] <= f[i]
  <2>1. Good(n)
        BY <1>1
  <2>2. PICK i \in P : Top(n, i)
        BY <2>1, <1>0
  <2>3. QED
        BY <2>2, <1>0
<1> DEFINE S == {f[j] : j \in P}
<1>3. \E x \in S : \A y \in S : x >= y
      BY <1>0, <1>2
<1>4. Max(S) \in S /\ \A y \in S : Max(S) >= y
  <2> HIDE DEF S
  <2> QED
      BY <1>3 DEF Max
<1>5. QED
      BY <1>0, <1>4

(* The recursion of SumTo has a solution on every prefix 0..k.             *)
LEMMA PartialSums ==
    ASSUME NEW n \in Nat, NEW f \in [1..n -> Int]
    PROVE  \E g \in [0..n -> Int] :
              g = [i \in 0..n |-> IF i = 0 THEN 0 ELSE g[i - 1] + f[i]]
<1> DEFINE Sol(g, k) == /\ g \in [0..k -> Int]
                        /\ g[0] = 0
                        /\ \A i \in 1..k : g[i] = g[i - 1] + f[i]
           Good(k) == \E g : Sol(g, k)
           Bad == {k \in 0..n : ~ Good(k)}
<1>1. Bad = {}
  <2> SUFFICES ASSUME Bad # {} PROVE FALSE
      OBVIOUS
  <2>1. PICK k \in Bad : \A y \in Bad : k <= y
    <3>1. Bad \in SUBSET Nat
          OBVIOUS
    <3> HIDE DEF Bad
    <3>2. QED
          BY <3>1, LeastNatural
  <2>2. k \in 0..n /\ ~ Good(k)
        BY <2>1
  <2>3. k # 0
    <3> DEFINE z == [i \in 0..0 |-> 0]
    <3>1. Sol(z, 0)
          OBVIOUS
    <3>2. QED
          BY <3>1, <2>2
  <2>4. k - 1 \in 0..n /\ k - 1 < k
        BY <2>2, <2>3
  <2>5. Good(k - 1)
    <3>1. k - 1 \notin Bad
      <4> HIDE DEF Bad
      <4>1. QED
            BY <2>1, <2>2, <2>4
    <3>2. QED
          BY <3>1, <2>4
  <2>6. PICK g : Sol(g, k - 1)
        BY <2>5
  <2> DEFINE h == [i \in 0..k |-> IF i = k THEN g[k - 1] + f[k] ELSE g[i]]
  <2>7. /\ g \in [0..(k - 1) -> Int]
        /\ g[0] = 0
        /\ \A i \in 1..(k - 1) : g[i] = g[i - 1] + f[i]
        BY <2>6
  <2>8. f[k] \in Int /\ g[k - 1] \in Int
        BY <2>2, <2>3, <2>4, <2>7
  <2>9. h \in [0..k -> Int]
    <3>1. ASSUME NEW i \in 0..k PROVE h[i] \in Int
      <4>1. CASE i = k
            BY <4>1, <2>8
      <4>2. CASE i # k
        <5>1. i \in 0..(k - 1)
              BY <4>2, <2>2
        <5>2. QED
              BY <5>1, <4>2, <2>7
      <4>3. QED
            BY <4>1, <4>2
    <3>2. QED
          BY <3>1
  <2>10. h[0] = 0
        BY <2>2, <2>3, <2>7
  <2>11. ASSUME NEW i \in 1..k PROVE h[i] = h[i - 1] + f[i]
    <3>1. i \in 0..k /\ i - 1 \in 0..k /\ i - 1 # k
          BY <2>2
    <3>2. h[i - 1] = g[i - 1]
          BY <3>1
    <3>3. CASE i = k
          BY <3>1, <3>2, <3>3
    <3>4. CASE i # k
      <4>1. i \in 1..(k - 1)
            BY <3>4, <2>2
      <4>2. g[i] = g[i - 1] + f[i]
            BY <4>1, <2>7
      <4>3. QED
            BY <3>1, <3>2, <3>4, <4>2
    <3>5. QED
          BY <3>3, <3>4
  <2>12. Sol(h, k)
    <3> HIDE DEF h
    <3> QED
        BY <2>9, <2>10, <2>11
  <2>13. QED
        BY <2>12, <2>2
<1>2. Good(n)
  <2>1. n \in 0..n
        OBVIOUS
  <2>2. n \notin Bad
    <3> HIDE DEF Bad
    <3> QED
        BY <1>1
  <2> HIDE DEF Good
  <2>3. QED
        BY <2>1, <2>2
<1>3. PICK g : Sol(g, n)
      BY <1>2
<1>4. /\ g \in [0..n -> Int]
      /\ g[0] = 0
      /\ \A i \in 1..n : g[i] = g[i - 1] + f[i]
      BY <1>3
<1>5. \A i \in 0..n : g[i] = IF i = 0 THEN 0 ELSE g[i - 1] + f[i]
  <2> TAKE i \in 0..n
  <2>1. i = 0 \/ i \in 1..n
        OBVIOUS
  <2>2. QED
        BY <2>1, <1>4
<1>6. g = [i \in 0..n |-> IF i = 0 THEN 0 ELSE g[i - 1] + f[i]]
  <2>1. g = [i \in 0..n |-> g[i]]
        BY <1>4
  <2>2. [i \in 0..n |-> g[i]] = [i \in 0..n |-> IF i = 0 THEN 0 ELSE g[i - 1] + f[i]]
        BY <1>5, Zenon
  <2>3. QED
        BY <2>1, <2>2, Zenon
<1>7. QED
      BY <1>4, <1>6

(* What the recursion of SumTo computes: an integer, and a positive one    *)
(* when all summands are natural and one of them is positive.              *)
LEMMA SumToType ==
    ASSUME NEW n \in Nat, NEW f \in [1..n -> Int]
    PROVE  /\ SumTo(f, n) \in Int
           /\ (/\ \A i \in 1..n : f[i] >= 0
               /\ \E i \in 1..n : f[i] > 0) => SumTo(f, n) > 0
<1> DEFINE F(g) == [i \in 0..n |-> IF i = 0 THEN 0 ELSE g[i - 1] + f[i]]
           sum == CHOOSE g : g = F(g)
<1>1. SumTo(f, n) = sum[n]
      BY DEF SumTo
<1>2. PICK g0 \in [0..n -> Int] : g0 = F(g0)
      BY PartialSums
<1>3. sum = F(sum)
  <2> HIDE DEF F
  <2> QED
      BY <1>2
<1> HIDE DEF sum
<1>4. /\ sum[0] = 0
      /\ \A i \in 1..n : sum[i] = sum[i - 1] + f[i]
  <2>1. \A i \in 0..n : sum[i] = IF i = 0 THEN 0 ELSE sum[i - 1] + f[i]
        BY <1>3
  <2>2. QED
        BY <2>1
<1> DEFINE Num(k) == /\ sum[k] \in Int
                     /\ (\A i \in 1..n : f[i] >= 0) =>
                           /\ sum[k] >= 0
                           /\ (\E i \in 1..n : i <= k /\ f[i] > 0) => sum[k] > 0
           Bad == {k \in 0..n : ~ Num(k)}
<1>5. Bad = {}
  <2> SUFFICES ASSUME Bad # {} PROVE FALSE
      OBVIOUS
  <2>1. PICK k \in Bad : \A y \in Bad : k <= y
    <3>1. Bad \in SUBSET Nat
          OBVIOUS
    <3> HIDE DEF Bad
    <3>2. QED
          BY <3>1, LeastNatural
  <2>2. k \in 0..n /\ ~ Num(k)
        BY <2>1
  <2>3. k # 0
    <3>1. Num(0)
          BY <1>4
    <3>2. QED
          BY <3>1, <2>2
  <2>4. k \in 1..n /\ k - 1 \in 0..n /\ k - 1 < k
        BY <2>2, <2>3
  <2>5. Num(k - 1)
    <3>1. k - 1 \notin Bad
      <4> HIDE DEF Bad
      <4>1. QED
            BY <2>1, <2>2, <2>4
    <3>2. QED
          BY <3>1, <2>4
  <2>6. sum[k] = sum[k - 1] + f[k] /\ f[k] \in Int
        BY <1>4, <2>4
  <2>7. sum[k] \in Int
        BY <2>5, <2>6, SMTT(30)
  <2>8. ASSUME \A i \in 1..n : f[i] >= 0 PROVE sum[k] >= 0
        BY <2>4, <2>5, <2>6, <2>8
  <2>9. ASSUME \A i \in 1..n : f[i] >= 0, NEW j \in 1..n, j <= k, f[j] > 0
        PROVE  sum[k] > 0
    <3>1. f[k] >= 0 /\ sum[k - 1] >= 0 /\ sum[k - 1] \in Int
          BY <2>4, <2>5, <2>9
    <3>2. CASE j = k
          BY <3>1, <3>2, <2>6, <2>9
    <3>3. CASE j <= k - 1
      <4>1. sum[k - 1] > 0
            BY <2>5, <2>9, <3>3
      <4>2. QED
            BY <3>1, <4>1, <2>6
    <3>4. QED
          BY <3>2, <3>3, <2>4, <2>9
  <2>10. Num(k)
        BY <2>7, <2>8, <2>9
  <2>11. QED
        BY <2>10, <2>2
<1>6. Num(n)
      BY <1>5
<1>7. QED
      BY <1>1, <1>6

-----------------------------------------------------------------------------
(* One metric's desired number of replicas is an integer, NaN included.    *)
LEMMA DesiredType ==
    ASSUME NEW spec \in MetricSpec, NEW value \in Value, NEW current \in Int
    PROVE  desiredReplicasForMetric(spec, value, current) \in Int
<1>1. spec.perReplica \in Int
      BY DEF MetricSpec
<1>2. ASSUME NEW a \in Int, NEW b \in Int, b > 0 PROVE CeilDiv(a, b) \in Int
      BY <1>2 DEF CeilDiv
<1>3. CASE spec.perReplica > 0 /\ value # NaN
  <2>1. value \in Int
        BY <1>3 DEF Value
  <2>2. QED
        BY <1>1, <1>2, <1>3, <2>1 DEF desiredReplicasForMetric
<1>4. CASE ~ (spec.perReplica > 0 /\ value # NaN)
      BY <1>4, NaNAssumption DEF desiredReplicasForMetric
<1>5. QED
      BY <1>3, <1>4

(* The positions of a config's metrics.                                    *)
LEMMA SpecAt ==
    ASSUME NEW c \in Config
    PROVE  /\ Len(c.metrics) \in Nat
           /\ \A i \in 1..Len(c.metrics) :
                 c.metrics[i] \in MetricSpec /\ c.metrics[i].name \in MetricNames(c)
<1>1. c.metrics \in Seq(MetricSpec)
      BY DEF Config
<1>2. QED
      BY <1>1 DEF MetricNames

(* The reactive target is an integer: with AggregationMax it is the        *)
(* maximum of a non-empty finite set, with AggregationWeightedAverage the  *)
(* total weight divided by is positive.                                    *)
LEMMA ReactiveType ==
    ASSUME NEW c \in Config, NEW values \in [MetricNames(c) -> Value], NEW current \in Int
    PROVE  computeReactiveTarget(c, values, current) \in Int
<1> DEFINE n       == Len(c.metrics)
           counted == Counted(c, values, current)
           want(i) == desiredReplicasForMetric(c.metrics[i], values[c.metrics[i].name], current)
           desired == [i \in 1..n |-> IF i \in counted THEN want(i) ELSE 0]
           weight  == [i \in 1..n |->
                         IF i \notin counted THEN 0
                         ELSE IF c.metrics[i].weight <= 0 THEN 1 ELSE c.metrics[i].weight]
<1>1. n \in Nat /\ counted \in SUBSET (1..n)
      BY SpecAt DEF Counted
<1>2. \A i \in 1..n : want(i) \in Int /\ c.metrics[i].weight \in Int
  <2> TAKE i \in 1..n
  <2>1. c.metrics[i] \in MetricSpec /\ values[c.metrics[i].name] \in Value
        BY SpecAt
  <2>2. QED
        BY <2>1, DesiredType DEF MetricSpec
<1> HIDE DEF n, counted
<1>3. desired \in [1..n -> Int]
  <2> HIDE DEF want
  <2> QED
      BY <1>2
<1>4. /\ weight \in [1..n -> Int]
      /\ \A i \in 1..n : weight[i] >= 0 /\ (i \in counted => weight[i] > 0)
      BY <1>2
<1>5. computeReactiveTarget(c, values, current) =
        IF counted = {} THEN current
        ELSE IF c.aggregation = "weighted_average" THEN weightedAverage(desired, weight, n)
        ELSE Max({desired[i] : i \in counted})
      BY Zenon DEF computeReactiveTarget, n, counted
<1> HIDE DEF desired, weight
<1>6. CASE counted = {}
      BY <1>5, <1>6
<1>7. CASE counted # {} /\ c.aggregation = "weighted_average"
  <2> DEFINE product == [i \in 1..n |-> desired[i] * weight[i]]
  <2>1. product \in [1..n -> Int]
        BY <1>3, <1>4
  <2>2. SumTo(product, n) \in Int
        BY <2>1, <1>1, SumToType
  <2>3. SumTo(weight, n) \in Int /\ SumTo(weight, n) > 0
        BY <1>1, <1>4, <1>7, SumToType
  <2>4. CeilDiv(SumTo(product, n), SumTo(weight, n)) \in Int
        BY <2>2, <2>3 DEF CeilDiv
  <2>5. QED
        BY <1>5, <1>7, <2>4 DEF weightedAverage
<1>8. CASE counted # {} /\ c.aggregation # "weighted_average"
  <2>1. Max({desired[i] : i \in counted}) \in {desired[i] : i \in counted}
        BY <1>1, <1>3, <1>8, MaxOfPositions
  <2>2. Max({desired[i] : i \in counted}) \in Int
        BY <2>1, <1>1, <1>3
  <2>3. QED
        BY <1>5, <1>8, <2>2
<1>9. QED
      BY <1>6, <1>7, <1>8

(* The predictive target is an integer, -1 and 0 included.                 *)
LEMMA PredictiveType ==
    ASSUME NEW c \in Config, NEW exists \in BOOLEAN, NEW current \in Int, NEW hist,
           NEW forecast \in Value \cup {NoForecast}
    PROVE  predictiveTarget(c, exists, current, hist, forecast) \in Int
<1> DEFINE specs == {i \in 1..Len(c.metrics) : c.metrics[i].name = c.prediction.metric}
<1>1. CASE c.prediction.enabled /\ exists /\ forecast # NoForecast /\ specs # {}
  <2>1. specs \in SUBSET Nat
        BY SpecAt
  <2>2. PICK x \in specs : \A y \in specs : x <= y
    <3> HIDE DEF specs
    <3> QED
        BY <1>1, <2>1, LeastNatural
  <2>3. Min(specs) \in specs
    <3> HIDE DEF specs
    <3> QED
        BY <2>2 DEF Min
  <2>4. c.metrics[Min(specs)] \in MetricSpec /\ forecast \in Value
        BY <1>1, <2>3, SpecAt
  <2>5. desiredReplicasForMetric(c.metrics[Min(specs)], forecast, current) \in Int
        BY <2>4, DesiredType
  <2>6. QED
        BY <1>1, <2>5 DEF predictiveTarget, computePredictiveTarget
<1>2. CASE ~ (c.prediction.enabled /\ exists /\ forecast # NoForecast /\ specs # {})
      BY <1>2 DEF predictiveTarget, computePredictiveTarget
<1>3. QED
      BY <1>1, <1>2

(* Decide's target is an integer; if it differs from the current number    *)
(* of instances it lies within the bounds, and if it is lower no guard     *)
(* metric is above its threshold.                                          *)
LEMMA DecideTarget ==
    ASSUME NEW c \in Config, validateConfig(c), NEW values, NEW current \in Int,
           NEW reactive \in Int, NEW predictive \in Int
    PROVE  LET target == decideTarget(c, values, current, reactive, predictive)
           IN  /\ target \in Int
               /\ target # current => target \in c.min..c.max
               /\ target < current => ~ guardBlocks(c, values)
               /\ (c.mode # "predictive" /\ target < current) =>
                     target >= reactive \/ target = c.max
<1> DEFINE wanted == modeTarget(c, current, reactive, predictive)
           clamped == clamp(wanted, c.min, c.max)
<1>1. wanted \in Int /\ (c.mode # "predictive" => wanted >= reactive)
      BY DEF modeTarget
<1>2. c.min \in Int /\ c.max \in Int /\ c.min <= c.max
      BY DEF Config, validateConfig
<1> HIDE DEF wanted
<1>3. clamped \in c.min..c.max /\ (clamped >= wanted \/ clamped = c.max)
      BY <1>1, <1>2 DEF clamp
<1>4. decideTarget(c, values, current, reactive, predictive)
        = IF clamped < current /\ guardBlocks(c, values) THEN current ELSE clamped
      BY DEF decideTarget, wanted
<1> HIDE DEF clamped
<1>5. clamped \in Int
      BY <1>2, <1>3
<1>6. CASE clamped < current /\ guardBlocks(c, values)
      BY <1>4, <1>6
<1>7. CASE ~ (clamped < current /\ guardBlocks(c, values))
      BY <1>1, <1>2, <1>3, <1>4, <1>5, <1>7
<1>8. QED
      BY <1>6, <1>7

-----------------------------------------------------------------------------
(* Records of the stabilization window, oldest first.                      *)
Records(A) == [age : A, target : Int]
Ordered(w) == \A i, j \in 1..Len(w) : i < j => w[i].age >= w[j].age

(* Appending a target and dropping the expired prefix keeps the window     *)
(* ordered, and drops every expired record.                                *)
LEMMA RecordTarget ==
    ASSUME NEW A \in SUBSET Nat, 0 \in A, NEW w \in Seq(Records(A)), Ordered(w),
           NEW raw \in Int, NEW width \in Int
    PROVE  LET r == recordTarget(w, raw, width)
           IN  /\ r \in Seq(Records(A))
               /\ Ordered(r)
               /\ width > 0 => \A i \in 1..Len(r) : r[i].age <= width
<1> DEFINE new == [age |-> 0, target |-> raw]
           all == Append(w, new)
           n == Len(all)
           live == {i \in 1..n : all[i].age <= width}
           r == SubSeq(all, Min(live), n)
<1>1. new \in Records(A)
      BY DEF Records
<1>2. /\ all \in Seq(Records(A))
      /\ n \in Nat /\ n = Len(w) + 1 /\ Len(w) \in Nat
      /\ all[n] = new
      /\ \A i \in 1..Len(w) : all[i] = w[i]
  <2> HIDE DEF new
  <2> QED
      BY <1>1, AppendProperties
<1>3. \A i \in 1..n : all[i].age \in Nat /\ all[i] \in Records(A)
  <2> HIDE DEF all
  <2>1. \A i \in 1..n : all[i] \in Records(A)
        BY <1>2
  <2>2. QED
        BY <2>1 DEF Records
<1>4. Ordered(all)
  <2> SUFFICES ASSUME NEW i \in 1..n, NEW j \in 1..n, i < j
               PROVE  all[i].age >= all[j].age
      BY DEF Ordered
  <2>1. i \in 1..Len(w)
        BY <1>2
  <2>2. CASE j = n
    <3>1. all[j].age = 0
          BY <1>2, <2>2
    <3>2. all[i].age \in Nat
          BY <1>3
    <3> HIDE DEF all
    <3>3. QED
          BY <3>1, <3>2
  <2>3. CASE j # n
    <3>1. j \in 1..Len(w)
          BY <1>2, <2>3
    <3>2. all[i] = w[i] /\ all[j] = w[j]
          BY <1>2, <2>1, <3>1
    <3>3. QED
          BY <2>1, <3>1, <3>2 DEF Ordered
  <2>4. QED
        BY <2>2, <2>3
<1>5. CASE width <= 0
      BY <1>5 DEF recordTarget
<1>6. CASE width > 0
  <2>1. recordTarget(w, raw, width) = r
    <3>1. ~ (width <= 0)
          BY <1>6
    <3>2. recordTarget(w, raw, width) = IF width <= 0 THEN w ELSE r
          BY Zenon DEF recordTarget
    <3> HIDE DEF r
    <3>3. QED
          BY <3>1, <3>2
  <2>2. n \in live
    <3>1. n \in 1..n
          BY <1>2
    <3>2. all[n].age = 0
          BY <1>2
    <3>3. QED
          BY <1>6, <3>1, <3>2
  <2> HIDE DEF all, n
  <2>3. live \in SUBSET Nat
        BY <1>2
  <2>4. PICK x \in live : \A y \in live : x <= y
    <3> HIDE DEF live
    <3> QED
        BY <2>2, <2>3, LeastNatural
  <2>5. Min(live) \in live /\ \A y \in live : Min(live) <= y
    <3> HIDE DEF live
    <3> QED
        BY <2>4 DEF Min
  <2> DEFINE k == Min(live)
  <2>6. k \in 1..n /\ all[k].age <= width
        BY <2>5
  <2> HIDE DEF live, k
  <2>7. /\ r \in Seq(Records(A))
        /\ Len(r) = n - k + 1
        /\ \A i \in 1..(n - k + 1) : r[i] = all[k + i - 1]
    <3>1. k \in Int /\ n \in Int /\ k <= n /\ r = SubSeq(all, k, n)
          BY <1>2, <2>6 DEF k
    <3>2. \A i \in k..n : all[i] \in Records(A)
          BY <1>3, <2>6, <3>1
    <3> HIDE DEF r
    <3>3. /\ SubSeq(all, k, n) \in Seq(Records(A))
          /\ Len(SubSeq(all, k, n)) = IF k <= n THEN n - k + 1 ELSE 0
          /\ \A i \in 1..(n - k + 1) : SubSeq(all, k, n)[i] = all[k + i - 1]
          BY <3>1, <3>2, SubSeqProperties
    <3>4. QED
          BY <3>1, <3>3
  <2> HIDE DEF r
  <2>8. \A i \in 1..Len(r) : k + i - 1 \in 1..n /\ r[i] = all[k + i - 1]
        BY <1>2, <2>6, <2>7
  <2>9. Ordered(r)
    <3> SUFFICES ASSUME NEW i \in 1..Len(r), NEW j \in 1..Len(r), i < j
                 PROVE  r[i].age >= r[j].age
        BY DEF Ordered
    <3>1. k + i - 1 \in 1..n /\ k + j - 1 \in 1..n /\ k + i - 1 < k + j - 1
          BY <2>6, <2>7, <2>8, <1>2
    <3>2. all[k + i - 1].age >= all[k + j - 1].age
          BY <3>1, <1>4 DEF Ordered, n
    <3>3. QED
          BY <2>8, <3>2
  <2>10. ASSUME NEW i \in 1..Len(r) PROVE r[i].age <= width
    <3>1. k + i - 1 \in 1..n /\ k <= k + i - 1
          BY <2>6, <2>7, <2>8, <1>2
    <3>2. all[k + i - 1].age <= all[k].age
      <4>1. CASE k + i - 1 = k
            BY <4>1, <1>3, <2>6
      <4>2. CASE k < k + i - 1
        <5>1. all[k].age >= all[k + i - 1].age
              BY <3>1, <4>2, <2>6, <1>4 DEF Ordered, n
        <5>2. QED
              BY <5>1, <1>3, <2>6, <3>1
      <4>3. QED
            BY <3>1, <4>1, <4>2, <2>6, <1>2
    <3>3. all[k + i - 1].age \in Nat /\ all[k].age \in Nat
          BY <1>3, <3>1, <2>6
    <3>4. r[i].age = all[k + i - 1].age
          BY <2>8
    <3>5. QED
          BY <2>6, <3>2, <3>3, <3>4
  <2>11. QED
        BY <2>1, <2>7, <2>9, <2>10
<1>7. QED
      BY <1>5, <1>6

(* The stabilized target is an integer and at least every target in the    *)
(* window.                                                                 *)
LEMMA StabilizedTarget ==
    ASSUME NEW A, NEW w \in Seq(Records(A)), NEW raw \in Int, NEW width \in Int
    PROVE  LET t == stabilizedReactiveTarget(w, raw, width)
           IN  /\ t \in Int
               /\ width > 0 => \A i \in 1..Len(w) : w[i].target <= t
<1> DEFINE n == Len(w) + 1
           f == [i \in 1..n |-> IF i = n THEN raw ELSE w[i].target]
           S == {raw} \cup {w[i].target : i \in 1..Len(w)}
           T == {f[i] : i \in 1..n}
<1>1. Len(w) \in Nat /\ \A i \in 1..Len(w) : w[i].target \in Int
  <2>1. Len(w) \in Nat /\ \A i \in 1..Len(w) : w[i] \in Records(A)
        OBVIOUS
  <2>2. \A x \in Records(A) : x.target \in Int
        BY DEF Records
  <2>3. QED
        BY <2>1, <2>2
<1>2. n \in Nat /\ n \in 1..n /\ \A i \in 1..n : i = n \/ i \in 1..Len(w)
      BY <1>1
<1>3. f \in [1..n -> Int]
  <2>1. \A i \in 1..n : (IF i = n THEN raw ELSE w[i].target) \in Int
        BY <1>1, <1>2
  <2> HIDE DEF n
  <2>2. QED
        BY <2>1
<1>4. \A i \in 1..Len(w) : i \in 1..n /\ i # n /\ f[i] = w[i].target
      BY <1>1
<1>5. f[n] = raw
      BY <1>2
<1>6. S = T
  <2> HIDE DEF f, n
  <2>1. ASSUME NEW x \in S PROVE x \in T
        BY <1>2, <1>4, <1>5
  <2>2. ASSUME NEW x \in T PROVE x \in S
    <3>1. PICK i \in 1..n : x = f[i]
          OBVIOUS
    <3>2. QED
          BY <3>1, <1>2, <1>4, <1>5
  <2> HIDE DEF S, T
  <2>3. QED
        BY <2>1, <2>2
<1> HIDE DEF f, n
<1>7. /\ Max(T) \in T
      /\ \A i \in 1..n : f[i] <= Max(T)
      BY <1>2, <1>3, MaxOfPositions
<1>8. Max(T) \in Int
      BY <1>3, <1>7
<1> HIDE DEF T
<1>9. \A i \in 1..Len(w) : w[i].target <= Max(S)
      BY <1>4, <1>6, <1>7
<1>10. stabilizedReactiveTarget(w, raw, width) = IF width <= 0 THEN raw ELSE Max(S)
      BY DEF stabilizedReactiveTarget
<1> HIDE DEF S
<1>11. QED
      BY <1>6, <1>8, <1>9, <1>10

-----------------------------------------------------------------------------
(* The controller.                                                         *)

(* A loaded config is well-typed and valid.                                *)
LEMMA LoadedConfig ==
    ASSUME NEW c \in Loadable
    PROVE  /\ c \in Config /\ c \in Configs /\ validateConfig(c)
           /\ c.min \in Int /\ c.max \in Int /\ c.min <= c.max
           /\ c.cooldown \in Int /\ c.window \in Int /\ c.poll \in Int
           /\ c.prediction.enabled \in BOOLEAN /\ c.prediction.metric \in Metrics
           /\ MetricNames(c) \in SUBSET Metrics
<1>1. c \in Config /\ c \in Configs /\ validateConfig(c)
      BY ConfigAssumption DEF Loadable
<1>2. /\ c.min \in Int /\ c.max \in Int
      /\ c.cooldown \in Int /\ c.window \in Int /\ c.poll \in Int
      /\ c.prediction.enabled \in BOOLEAN /\ c.prediction.metric \in Metrics
      BY <1>1 DEF Config
<1>3. MetricNames(c) \in SUBSET Metrics
      BY <1>1, SpecAt DEF MetricNames, MetricSpec
<1>4. QED
      BY <1>1, <1>2, <1>3 DEF validateConfig

(* Ages only grow, up to MaxAge.                                           *)
LEMMA OlderAge ==
    ASSUME NEW a \in Age
    PROVE  /\ Older(a) \in Age /\ Older(a) >= a
           /\ \A b \in Age : a >= b => Older(a) >= Older(b)
BY BoundAssumption DEF Age, Older

(* 0 is an age and Never is not.                                           *)
LEMMA AgeFacts ==
    /\ 0 \in Age /\ Never \notin Age /\ Never \in Int
    /\ \A a \in Age : a \in Nat /\ a \in Int
    /\ Age \in SUBSET Nat
BY BoundAssumption DEF Age, Never

(* The process starts with nothing remembered and nothing pending.         *)
LEMMA InitInv == Init => Inv
<1> SUFFICES ASSUME Init PROVE Inv
    OBVIOUS
<1>1. cfg \in Loadable /\ rcfg = cfg
      BY DEF Init
<1>2. TypeOK
  <2>1. predictor \in BOOLEAN /\ ticker \in [period : Int, left : Int, fired : BOOLEAN]
        BY <1>1, LoadedConfig DEF Init, NewTicker
  <2>2. lastGood \in [Metrics -> [value : Value, age : Age]]
        BY AgeFacts DEF Init, NoGoodValues, NoGood, Value
  <2>3. history \in [Metrics -> Seq(Age)] /\ window \in Seq(WindowRecord)
        BY DEF Init, NoHistory
  <2>4. decision \in [action : {"none", "scale_up", "scale_down"}, target : Int]
        BY DEF Init, NoDecision
  <2>5. snap.age \in Age /\ instances \in Int
        BY AgeFacts, ValueAssumption DEF Init, NoSnap
  <2>6. lastScale \in Age \cup {Never} /\ moved \in BOOLEAN /\ pc = "idle"
        BY DEF Init
  <2>7. QED
        BY <1>1, <2>1, <2>2, <2>3, <2>4, <2>5, <2>6 DEF TypeOK
<1>3. OldestFirst /\ SnapshotIsNewest /\ PendingDecision /\ ScaleDownJustified
      BY DEF Init, OldestFirst, SnapshotIsNewest, PendingDecision, ScaleDownJustified,
             NoHistory, NoSnap
<1>4. QED
      BY <1>2, <1>3 DEF Inv

-----------------------------------------------------------------------------
(* Time passing ages everything alike.                                     *)
LEMMA TickInv == Inv /\ Tick => Inv'
<1> SUFFICES ASSUME Inv, Tick PROVE Inv'
    OBVIOUS
<1>1. TypeOK /\ OldestFirst /\ SnapshotIsNewest /\ PendingDecision /\ ScaleDownJustified
      BY DEF Inv
<1>2. ticker' \in [period : Int, left : Int, fired : BOOLEAN]
  <2>1. ticker \in [period : Int, left : Int, fired : BOOLEAN] /\ ticker' = TickerAfterTick
        BY <1>1 DEF TypeOK, Tick
  <2>2. ticker.left \in Int /\ ticker.period \in Int
        BY <2>1
  <2>3. CASE ticker.left = 1
        BY <2>1, <2>2, <2>3 DEF TickerAfterTick
  <2>4. CASE ticker.left # 1
    <3>1. ticker.left - 1 \in Int
          BY <2>2
    <3>2. ticker' = [ticker EXCEPT !.left = ticker.left - 1]
          BY <2>1, <2>4 DEF TickerAfterTick
    <3>3. QED
          BY <2>1, <3>1, <3>2
  <2>5. QED
        BY <2>3, <2>4
<1>3. lastGood' \in [Metrics -> [value : Value, age : Age]]
  <2>1. lastGood' = [m \in Metrics |->
                      IF lastGood[m] = NoGood THEN NoGood
                      ELSE [lastGood[m] EXCEPT !.age = Older(lastGood[m].age)]]
        BY DEF Tick
  <2>2. ASSUME NEW m \in Metrics
        PROVE  (IF lastGood[m] = NoGood THEN NoGood
                ELSE [lastGood[m] EXCEPT !.age = Older(lastGood[m].age)])
                  \in [value : Value, age : Age]
    <3>1. lastGood[m] \in [value : Value, age : Age]
          BY <1>1 DEF TypeOK
    <3>2. Older(lastGood[m].age) \in Age
          BY <3>1, OlderAge
    <3>3. QED
          BY <3>1, <3>2
  <2>3. QED
        BY <2>1, <2>2
<1>4. ASSUME NEW m \in Metrics
      PROVE  /\ history'[m] \in Seq(Age)
             /\ Len(history'[m]) = Len(history[m])
             /\ \A i \in 1..Len(history[m]) :
                   history[m][i] \in Age /\ history'[m][i] = Older(history[m][i])
  <2>1. history[m] \in Seq(Age)
        BY <1>1 DEF TypeOK
  <2>2. history'[m] = [i \in 1..Len(history[m]) |-> Older(history[m][i])]
        BY DEF Tick
  <2>3. Len(history[m]) \in Nat /\ \A i \in 1..Len(history[m]) : history[m][i] \in Age
        BY <2>1
  <2>4. \A i \in 1..Len(history[m]) : Older(history[m][i]) \in Age
        BY <2>3, OlderAge
  <2>5. QED
        BY <2>2, <2>3, <2>4, IsASeq, LenProperties
<1>5. /\ window' \in Seq(WindowRecord)
      /\ Len(window') = Len(window)
      /\ \A i \in 1..Len(window) :
            /\ window[i].age \in Age
            /\ window'[i].age = Older(window[i].age)
            /\ window'[i].target = window[i].target
  <2>1. Len(window) \in Nat /\ \A i \in 1..Len(window) : window[i] \in WindowRecord
        BY <1>1 DEF TypeOK
  <2>2. window' = [i \in 1..Len(window) |-> [window[i] EXCEPT !.age = Older(window[i].age)]]
        BY DEF Tick
  <2>3. ASSUME NEW x \in WindowRecord
        PROVE  /\ x.age \in Age
               /\ [x EXCEPT !.age = Older(x.age)] \in WindowRecord
               /\ [x EXCEPT !.age = Older(x.age)].age = Older(x.age)
               /\ [x EXCEPT !.age = Older(x.age)].target = x.target
        BY OlderAge DEF WindowRecord
  <2>4. \A i \in 1..Len(window) : [window[i] EXCEPT !.age = Older(window[i].age)] \in WindowRecord
        BY <2>1, <2>3
  <2>5. window' \in Seq(WindowRecord) /\ Len(window') = Len(window)
        BY <2>1, <2>2, <2>4, IsASeq, LenProperties
  <2>6. QED
        BY <2>1, <2>2, <2>3, <2>5
<1>6. /\ lastScale' \in Age \cup {Never}
      /\ lastScale = Never => lastScale' = Never
      /\ lastScale # Never => lastScale \in Age /\ lastScale' >= lastScale
      BY <1>1, OlderAge DEF TypeOK, Tick
<1>7. /\ snap.age \in Age
      /\ snap'.age = IF pc = "observe" THEN Older(snap.age) ELSE snap.age
      /\ snap'.values = snap.values
      BY <1>1 DEF TypeOK, Tick
<1>8. TypeOK'
  <2>1. history' \in [Metrics -> Seq(Age)]
        BY <1>4 DEF Tick
  <2>2. snap'.age \in Age
        BY <1>7, OlderAge
  <2>3. QED
        BY <1>1, <1>2, <1>3, <1>5, <1>6, <1>7, <2>1, <2>2 DEF TypeOK, Tick, clusterVars
<1>9. OldestFirst'
  <2>1. ASSUME NEW i \in 1..Len(window'), NEW j \in 1..Len(window'), i < j
        PROVE  window'[i].age >= window'[j].age
        BY <1>1, <1>5, <2>1, OlderAge DEF OldestFirst
  <2>2. ASSUME NEW m \in Metrics, NEW i \in 1..Len(history'[m]), NEW j \in 1..Len(history'[m]),
               i < j
        PROVE  history'[m][i] >= history'[m][j]
        BY <1>1, <1>4, <2>2, OlderAge DEF OldestFirst
  <2>3. QED
        BY <2>1, <2>2 DEF OldestFirst
<1>10. SnapshotIsNewest'
  <2>1. pc' = pc
        BY DEF Tick
  <2>2. ASSUME pc \in {"idle", "polled", "observe"}, NEW m \in Metrics, NEW i \in 1..Len(history'[m])
        PROVE  history'[m][i] >= snap'.age
    <3>1. history[m][i] \in Age /\ history'[m][i] = Older(history[m][i])
          BY <1>4
    <3>2. history[m][i] >= snap.age
          BY <1>1, <1>4, <2>2 DEF SnapshotIsNewest
    <3>3. Older(history[m][i]) >= Older(snap.age) /\ Older(history[m][i]) >= history[m][i]
          BY <3>1, <3>2, <1>7, OlderAge
    <3>4. Older(history[m][i]) \in Int /\ history[m][i] \in Int /\ snap.age \in Int
          BY <3>1, <1>7, OlderAge, AgeFacts
    <3>5. QED
          BY <3>1, <3>2, <3>3, <3>4, <1>7
  <2>3. QED
        BY <1>1, <1>7, <2>1, <2>2 DEF SnapshotIsNewest
<1>11. PendingDecision'
  <2>1. ASSUME pc \in {"get", "update"}
        PROVE  lastScale' = Never \/ lastScale' >= rcfg.cooldown
    <3>1. rcfg.cooldown \in Int
          BY <1>1, LoadedConfig DEF TypeOK
    <3>2. CASE lastScale = Never
          BY <3>2, <1>6
    <3>3. CASE lastScale # Never
      <4>1. lastScale >= rcfg.cooldown /\ lastScale' >= lastScale
            BY <1>1, <1>6, <2>1, <3>3 DEF PendingDecision
      <4>2. lastScale \in Int /\ lastScale' \in Int
            BY <1>6, <3>3, AgeFacts
      <4>3. QED
            BY <3>1, <4>1, <4>2
    <3>4. QED
          BY <3>2, <3>3
  <2>2. QED
        BY <1>1, <2>1 DEF PendingDecision, Tick
<1>12. ScaleDownJustified'
  <2>1. pc' = pc /\ rcfg' = rcfg /\ decision' = decision
        BY DEF Tick
  <2>2. rcfg.window \in Int
        BY <1>1, LoadedConfig DEF TypeOK
  <2>3. ASSUME NEW i \in 1..Len(window'), window'[i].age <= rcfg.window
        PROVE  i \in 1..Len(window) /\ window[i].age <= rcfg.window
    <3>1. window[i].age \in Age /\ window'[i].age = Older(window[i].age)
          BY <1>5
    <3>2. Older(window[i].age) >= window[i].age /\ Older(window[i].age) \in Age
          BY <3>1, OlderAge
    <3>3. Older(window[i].age) \in Int /\ window[i].age \in Int
          BY <3>1, <3>2, AgeFacts
    <3>4. QED
          BY <1>5, <2>2, <2>3, <3>1, <3>2, <3>3
  <2>4. QED
        BY <1>1, <1>5, <1>7, <2>1, <2>3 DEF ScaleDownJustified
<1>13. QED
      BY <1>8, <1>9, <1>10, <1>11, <1>12 DEF Inv

-----------------------------------------------------------------------------
(* A hot reload changes neither what is remembered nor what is pending.    *)
LEMMA UpdateConfigInv == Inv /\ UpdateConfig => Inv'
BY DEF Inv, TypeOK, OldestFirst, SnapshotIsNewest, PendingDecision, ScaleDownJustified,
       UpdateConfig, memVars, loopVars, clusterVars

(* Whatever ends a reconcile leaves no decision behind.                    *)
LEMMA FinishTypes ==
    ASSUME Finish
    PROVE  /\ pc' = "idle" /\ snap'.age = 0 /\ snap'.age \in Age /\ moved' \in BOOLEAN
           /\ decision' \in [action : {"none", "scale_up", "scale_down"}, target : Int]
BY AgeFacts DEF Finish, NoSnap, NoDecision

(* A reconcile that ends with the memory of earlier polls intact, or with  *)
(* a new time of the last scaling.                                         *)
LEMMA FinishInv ==
    ASSUME Inv, Finish,
           UNCHANGED <<cfg, predictor, ticker, lastGood, history, window, rcfg>>,
           lastScale' \in Age \cup {Never}, instances' \in Int
    PROVE  Inv'
<1>1. pc' = "idle" /\ snap'.age = 0
      BY FinishTypes
<1>2. TypeOK'
      BY <1>1, FinishTypes DEF Inv, TypeOK
<1>3. OldestFirst' /\ PendingDecision' /\ ScaleDownJustified'
      BY <1>1 DEF Inv, OldestFirst, PendingDecision, ScaleDownJustified
<1>4. SnapshotIsNewest'
  <2>1. ASSUME NEW m \in Metrics, NEW i \in 1..Len(history[m]) PROVE history[m][i] >= 0
    <3>1. history[m] \in Seq(Age)
          BY DEF Inv, TypeOK
    <3>2. history[m][i] \in Age
          BY <3>1
    <3>3. history[m][i] \in Nat
          BY <3>2, AgeFacts
    <3>4. QED
          BY <3>3
  <2>2. QED
        BY <1>1, <2>1 DEF SnapshotIsNewest
<1>5. QED
      BY <1>2, <1>3, <1>4 DEF Inv

(* A restart forgets everything.                                           *)
LEMMA RestartInv == Inv /\ Restart => Inv'
<1> SUFFICES ASSUME Inv, Restart PROVE Inv'
    OBVIOUS
<1>1. cfg' \in Loadable /\ rcfg' = cfg' /\ pc' = "idle"
      BY DEF Restart
<1>2. TypeOK'
  <2>1. predictor' \in BOOLEAN /\ ticker' \in [period : Int, left : Int, fired : BOOLEAN]
        BY <1>1, LoadedConfig DEF Restart, NewTicker
  <2>2. lastGood' \in [Metrics -> [value : Value, age : Age]]
        BY AgeFacts DEF Restart, NoGoodValues, NoGood, Value
  <2>3. history' \in [Metrics -> Seq(Age)] /\ window' \in Seq(WindowRecord)
        BY DEF Restart, NoHistory
  <2>4. decision' \in [action : {"none", "scale_up", "scale_down"}, target : Int]
        BY DEF Restart, NoDecision
  <2>5. snap'.age \in Age /\ instances' \in Int
        BY AgeFacts DEF Restart, NoSnap, Inv, TypeOK
  <2>6. lastScale' \in Age \cup {Never} /\ moved' \in BOOLEAN
        BY DEF Restart
  <2>7. QED
        BY <1>1, <2>1, <2>2, <2>3, <2>4, <2>5, <2>6 DEF TypeOK
<1>3. OldestFirst' /\ SnapshotIsNewest' /\ PendingDecision' /\ ScaleDownJustified'
      BY <1>1 DEF Restart, OldestFirst, SnapshotIsNewest, PendingDecision, ScaleDownJustified,
                  NoHistory, NoSnap
<1>4. QED
      BY <1>2, <1>3 DEF Inv

(* A poll only touches the ticker.                                         *)
LEMMA PollInv == Inv /\ Poll => Inv'
<1> SUFFICES ASSUME Inv, Poll PROVE Inv'
    OBVIOUS
<1>1. ticker' \in [period : Int, left : Int, fired : BOOLEAN]
  <2>1. cfg.poll \in Int /\ ticker \in [period : Int, left : Int, fired : BOOLEAN]
        BY LoadedConfig DEF Inv, TypeOK
  <2>2. QED
        BY <2>1 DEF Poll, NewTicker
<1>2. TypeOK'
      BY <1>1 DEF Inv, TypeOK, Poll, memVars, clusterVars
<1>3. OldestFirst' /\ PendingDecision' /\ ScaleDownJustified' /\ SnapshotIsNewest'
      BY DEF Inv, OldestFirst, PendingDecision, ScaleDownJustified, SnapshotIsNewest,
             Poll, memVars
<1>4. QED
      BY <1>2, <1>3 DEF Inv

(* The reconcile that starts works with a loaded config.                   *)
LEMMA StartReconcileInv == Inv /\ StartReconcile => Inv'
BY DEF Inv, TypeOK, OldestFirst, SnapshotIsNewest, PendingDecision, ScaleDownJustified,
       StartReconcile, memVars, clusterVars

(* PatchInstances' Get.                                                    *)
LEMMA PatchGetInv == Inv /\ PatchGet => Inv'
BY DEF Inv, TypeOK, OldestFirst, SnapshotIsNewest, PendingDecision, ScaleDownJustified,
       PatchGet, memVars

(* PatchInstances' Update, acknowledged or not, and every error return.    *)
LEMMA EndOfReconcileInv ==
    Inv /\ (PatchUpdate \/ PatchReplyLost \/ ReconcileError) => Inv'
<1> SUFFICES ASSUME Inv, PatchUpdate \/ PatchReplyLost \/ ReconcileError PROVE Inv'
    OBVIOUS
<1>1. /\ Finish
      /\ UNCHANGED <<cfg, predictor, ticker, lastGood, history, window, rcfg>>
      /\ lastScale' = 0 \/ lastScale' = lastScale
      /\ instances' = decision.target \/ instances' = instances
      BY DEF PatchUpdate, PatchReplyLost, ReconcileError, memVars
<1>2. lastScale' \in Age \cup {Never} /\ instances' \in Int
      BY <1>1, AgeFacts DEF Inv, TypeOK
<1>3. QED
      BY <1>1, <1>2, FinishInv

(* Another client's write.                                                 *)
LEMMA ForeignWriteInv == Inv /\ ForeignWrite => Inv'
<1> SUFFICES ASSUME Inv, ForeignWrite PROVE Inv'
    OBVIOUS
<1>1. instances' \in Int /\ moved' \in BOOLEAN
      BY ValueAssumption DEF ForeignWrite
<1>2. QED
      BY <1>1 DEF Inv, TypeOK, OldestFirst, SnapshotIsNewest, PendingDecision,
                  ScaleDownJustified, ForeignWrite, memVars, loopVars

-----------------------------------------------------------------------------
(* appendPoint adds the newest point at the end and keeps the order.       *)
LEMMA AppendPoint ==
    ASSUME NEW points \in Seq(Age), NEW age \in Age,
           \A i, j \in 1..Len(points) : i < j => points[i] >= points[j],
           \A i \in 1..Len(points) : points[i] >= age
    PROVE  LET r == appendPoint(points, age)
           IN  /\ r \in Seq(Age)
               /\ \A i, j \in 1..Len(r) : i < j => r[i] >= r[j]
<1> DEFINE all == Append(points, age)
           n == Len(all)
           k == n - MaxHistory + 1
           r == SubSeq(all, k, n)
<1>1. /\ all \in Seq(Age) /\ n = Len(points) + 1 /\ Len(points) \in Nat /\ n \in Nat
      /\ all[n] = age
      /\ \A i \in 1..Len(points) : all[i] = points[i]
      BY AppendProperties
<1>2. ASSUME NEW i \in 1..n, NEW j \in 1..n, i < j PROVE all[i] >= all[j]
  <2>1. i \in 1..Len(points) /\ all[i] = points[i]
        BY <1>1, <1>2
  <2>2. CASE j = n
        BY <1>1, <2>1, <2>2
  <2>3. CASE j # n
    <3>1. j \in 1..Len(points) /\ all[j] = points[j]
          BY <1>1, <2>3
    <3>2. QED
          BY <1>2, <2>1, <3>1
  <2>4. QED
        BY <2>2, <2>3
<1>3. appendPoint(points, age) = IF n > MaxHistory THEN r ELSE all
      BY Zenon DEF appendPoint
<1> HIDE DEF all
<1>4. CASE n > MaxHistory
  <2>1. k \in 1..n
        BY <1>1, <1>4, BoundAssumption
  <2>2. /\ r \in Seq(Age) /\ Len(r) = n - k + 1
        /\ \A i \in 1..(n - k + 1) : r[i] = all[k + i - 1]
        BY <1>1, <2>1, SubSeqProperties
  <2>3. k \in Nat
        BY <2>1
  <2> HIDE DEF r, n, k
  <2>4. ASSUME NEW i \in 1..Len(r), NEW j \in 1..Len(r), i < j PROVE r[i] >= r[j]
    <3>1. k + i - 1 \in 1..n /\ k + j - 1 \in 1..n /\ k + i - 1 < k + j - 1
          BY <1>1, <2>1, <2>2, <2>3, <2>4
    <3>2. all[k + i - 1] >= all[k + j - 1]
          BY <1>2, <3>1
    <3>3. QED
          BY <2>2, <3>2
  <2>5. QED
        BY <1>3, <1>4, <2>2, <2>4
<1>5. CASE ~ (n > MaxHistory)
      BY <1>1, <1>2, <1>3, <1>5
<1>6. QED
      BY <1>4, <1>5

(* The snapshot holds a value for each metric of the config, and its point *)
(* is the newest of each history.                                          *)
LEMMA ObserveInv == Inv /\ Observe => Inv'
<1> SUFFICES ASSUME Inv, Observe PROVE Inv'
    OBVIOUS
<1>1. TypeOK /\ OldestFirst /\ SnapshotIsNewest /\ pc = "observe"
      BY DEF Inv, Observe
<1> DEFINE names == MetricNames(rcfg)
<1>2. names \in SUBSET Metrics
      BY <1>1, LoadedConfig DEF TypeOK
<1>3. PICK raw \in [names -> Values] :
        /\ snap' = [age |-> snap.age, raw |-> raw,
                    values |-> [m \in names |-> substitute(m, raw[m])]]
        /\ lastGood' = [m \in Metrics |->
                          IF m \in names THEN remember(m, raw[m]) ELSE lastGood[m]]
        /\ history' = [m \in Metrics |->
                         IF m \in names THEN appendPoint(history[m], snap.age)
                         ELSE history[m]]
      BY DEF Observe
<1> HIDE DEF names
<1>4. ASSUME NEW m \in names
      PROVE  /\ substitute(m, raw[m]) \in Value
             /\ remember(m, raw[m]) \in [value : Value, age : Age]
  <2>1. raw[m] \in Value /\ lastGood[m] \in [value : Value, age : Age]
        BY <1>1, <1>2, <1>3, ValueAssumption DEF TypeOK
  <2>2. QED
        BY <2>1, AgeFacts DEF substitute, remember
<1>5. ASSUME NEW m \in Metrics
      PROVE  /\ history'[m] \in Seq(Age)
             /\ \A i, j \in 1..Len(history'[m]) : i < j => history'[m][i] >= history'[m][j]
  <2>1. /\ history[m] \in Seq(Age)
        /\ snap.age \in Age
        BY <1>1 DEF TypeOK
  <2>2. \A i, j \in 1..Len(history[m]) : i < j => history[m][i] >= history[m][j]
        BY <1>1 DEF OldestFirst
  <2>3. \A i \in 1..Len(history[m]) : history[m][i] >= snap.age
        BY <1>1 DEF SnapshotIsNewest
  <2>4. CASE m \in names
    <3>1. history'[m] = appendPoint(history[m], snap.age)
          BY <1>3, <2>4
    <3>2. QED
          BY <2>1, <2>2, <2>3, <3>1, AppendPoint
  <2>5. CASE m \notin names
    <3>1. history'[m] = history[m]
          BY <1>3, <2>5
    <3>2. QED
          BY <2>1, <2>2, <3>1
  <2>6. QED
        BY <2>4, <2>5
<1>6. TypeOK'
  <2>1. snap'.age \in Age /\ snap'.values \in [names -> Value]
        BY <1>1, <1>3, <1>4 DEF TypeOK
  <2>2. lastGood' \in [Metrics -> [value : Value, age : Age]]
    <3>1. ASSUME NEW m \in Metrics
          PROVE  (IF m \in names THEN remember(m, raw[m]) ELSE lastGood[m])
                    \in [value : Value, age : Age]
          BY <1>1, <1>4 DEF TypeOK
    <3>2. QED
          BY <1>3, <3>1
  <2>3. history' \in [Metrics -> Seq(Age)]
    <3>1. history' = [m \in Metrics |-> history'[m]]
          BY <1>3
    <3>2. QED
          BY <1>5, <3>1
  <2>4. rcfg' = rcfg /\ pc' = "decide"
        BY DEF Observe
  <2>5. QED
        BY <1>1, <2>1, <2>2, <2>3, <2>4 DEF TypeOK, Observe, clusterVars, names
<1>7. OldestFirst'
      BY <1>1, <1>5 DEF OldestFirst, Observe
<1>8. SnapshotIsNewest' /\ PendingDecision' /\ ScaleDownJustified'
      BY DEF SnapshotIsNewest, PendingDecision, ScaleDownJustified, Observe
<1>9. QED
      BY <1>6, <1>7, <1>8 DEF Inv

(* What Decide computes outside the cooldown: a window in order, all of it *)
(* within the stabilization window, and a target that is within the bounds *)
(* if it differs from the current number of instances, and justified by    *)
(* the guard and by the window if it is lower.                             *)
LEMMA DecideFacts ==
    ASSUME Inv, pc = "decide", NEW forecast \in Forecasts
    PROVE  LET raw == computeReactiveTarget(rcfg, snap.values, instances)
               recorded == recordTarget(window, raw, rcfg.window)
               target == decideTarget(rcfg, snap.values, instances,
                    stabilizedReactiveTarget(recorded, raw, rcfg.window),
                    predictiveTarget(rcfg, predictor, instances,
                                     history[rcfg.prediction.metric], forecast))
           IN  /\ recorded \in Seq(WindowRecord)
               /\ Ordered(recorded)
               /\ target \in Int
               /\ target # instances => target \in rcfg.min..rcfg.max
               /\ target < instances => ~ guardBlocks(rcfg, snap.values)
               /\ (target < instances /\ rcfg.mode # "predictive" /\ rcfg.window > 0) =>
                     \A i \in 1..Len(recorded) :
                        target >= recorded[i].target \/ target = rcfg.max
<1> DEFINE raw == computeReactiveTarget(rcfg, snap.values, instances)
           recorded == recordTarget(window, raw, rcfg.window)
           reactive == stabilizedReactiveTarget(recorded, raw, rcfg.window)
           predictive == predictiveTarget(rcfg, predictor, instances,
                                          history[rcfg.prediction.metric], forecast)
           target == decideTarget(rcfg, snap.values, instances, reactive, predictive)
<1>1. /\ rcfg \in Loadable /\ instances \in Int /\ predictor \in BOOLEAN
      /\ snap.values \in [MetricNames(rcfg) -> Value]
      /\ window \in Seq(WindowRecord)
      BY DEF Inv, TypeOK
<1>2. rcfg \in Config /\ validateConfig(rcfg) /\ rcfg.window \in Int
      BY <1>1, LoadedConfig
<1>3. raw \in Int
      BY <1>1, <1>2, ReactiveType
<1> HIDE DEF raw
<1>4. WindowRecord = Records(Age) /\ Ordered(window)
      BY DEF Inv, OldestFirst, Ordered, WindowRecord, Records
<1>5. recorded \in Seq(Records(Age)) /\ Ordered(recorded)
      BY <1>1, <1>2, <1>3, <1>4, AgeFacts, RecordTarget
<1> HIDE DEF recorded
<1>6. /\ reactive \in Int
      /\ rcfg.window > 0 => \A i \in 1..Len(recorded) : recorded[i].target <= reactive
      BY <1>2, <1>3, <1>5, StabilizedTarget
<1> HIDE DEF reactive
<1>7. predictive \in Int
  <2>1. forecast \in Value \cup {NoForecast}
        BY ValueAssumption
  <2>2. QED
        BY <1>1, <1>2, <2>1, PredictiveType
<1> HIDE DEF predictive
<1>8. /\ target \in Int
      /\ target # instances => target \in rcfg.min..rcfg.max
      /\ target < instances => ~ guardBlocks(rcfg, snap.values)
      /\ (rcfg.mode # "predictive" /\ target < instances) =>
            target >= reactive \/ target = rcfg.max
      BY <1>1, <1>2, <1>6, <1>7, DecideTarget
<1> HIDE DEF target
<1>9. ASSUME target < instances, rcfg.mode # "predictive", rcfg.window > 0,
             NEW i \in 1..Len(recorded)
      PROVE  target >= recorded[i].target \/ target = rcfg.max
  <2>1. recorded[i] \in Records(Age)
        BY <1>5
  <2>2. recorded[i].target \in Int
        BY <2>1 DEF Records
  <2>3. recorded[i].target <= reactive /\ (target >= reactive \/ target = rcfg.max)
        BY <1>6, <1>8, <1>9
  <2>4. QED
        BY <1>6, <1>8, <2>2, <2>3
<1>10. QED
      BY <1>4, <1>5, <1>8, <1>9 DEF target, predictive, reactive, recorded, raw

(* Deciding, in and outside the cooldown.                                  *)
LEMMA DecideInv == Inv /\ Decide => Inv'
<1> SUFFICES ASSUME Inv, Decide PROVE Inv'
    OBVIOUS
<1>1. /\ pc = "decide"
      /\ UNCHANGED <<cfg, predictor, ticker, lastGood, history, lastScale, rcfg, instances>>
      BY DEF Decide
<1>2. /\ TypeOK /\ OldestFirst /\ lastScale \in Age \cup {Never} /\ instances \in Int
      /\ rcfg.cooldown \in Int
      BY LoadedConfig DEF Inv, TypeOK
<1>3. CASE inCooldown /\ Finish /\ window' = window
      BY <1>1, <1>2, <1>3, FinishInv
<1>4. CASE ~ inCooldown /\ ~ (Finish /\ window' = window)
  <2>1. PICK forecast \in Forecasts :
          \E raw \in {computeReactiveTarget(rcfg, snap.values, instances)} :
          \E recorded \in {recordTarget(window, raw, rcfg.window)} :
          \E target \in {decideTarget(rcfg, snap.values, instances,
               stabilizedReactiveTarget(recorded, raw, rcfg.window),
               predictiveTarget(rcfg, predictor, instances,
                                history[rcfg.prediction.metric], forecast))} :
            /\ window' = recorded
            /\ IF target = instances
                 THEN Finish
                 ELSE /\ decision' = [action |-> actionOf(target, instances),
                                      target |-> target]
                      /\ pc' = "get"
                      /\ UNCHANGED <<snap, moved>>
        BY <1>4, Zenon DEF Decide
  <2> DEFINE raw == computeReactiveTarget(rcfg, snap.values, instances)
             recorded == recordTarget(window, raw, rcfg.window)
             target == decideTarget(rcfg, snap.values, instances,
                  stabilizedReactiveTarget(recorded, raw, rcfg.window),
                  predictiveTarget(rcfg, predictor, instances,
                                   history[rcfg.prediction.metric], forecast))
  <2>2. /\ recorded \in Seq(WindowRecord)
        /\ Ordered(recorded)
        /\ target \in Int
        /\ target # instances => target \in rcfg.min..rcfg.max
        /\ target < instances => ~ guardBlocks(rcfg, snap.values)
        /\ (target < instances /\ rcfg.mode # "predictive" /\ rcfg.window > 0) =>
              \A i \in 1..Len(recorded) :
                 target >= recorded[i].target \/ target = rcfg.max
        BY <1>1, DecideFacts, Zenon
  <2>3. /\ window' = recorded
        /\ \/ target = instances /\ Finish
           \/ /\ target # instances
              /\ decision' = [action |-> actionOf(target, instances), target |-> target]
              /\ pc' = "get"
              /\ UNCHANGED <<snap, moved>>
        BY <2>1
  <2> HIDE DEF target, recorded
  <2>4. OldestFirst'
        BY <1>1, <1>2, <2>2, <2>3 DEF OldestFirst, Ordered
  <2>5. CASE target = instances /\ Finish
    <3>1. TypeOK'
          BY <1>1, <1>2, <2>2, <2>3, <2>5, FinishTypes DEF TypeOK
    <3>2. SnapshotIsNewest'
      <4>1. pc' = "idle" /\ snap'.age = 0 /\ history' = history
            BY <1>1, <2>5, FinishTypes
      <4>2. ASSUME NEW m \in Metrics, NEW i \in 1..Len(history[m]) PROVE history[m][i] >= 0
        <5>1. history[m] \in Seq(Age)
              BY <1>2 DEF TypeOK
        <5>2. history[m][i] \in Age
              BY <5>1
        <5>3. history[m][i] \in Nat
              BY <5>2, AgeFacts
        <5>4. QED
              BY <5>3
      <4>3. QED
            BY <4>1, <4>2 DEF SnapshotIsNewest
    <3>3. PendingDecision' /\ ScaleDownJustified'
          BY <2>5, FinishTypes DEF PendingDecision, ScaleDownJustified
    <3>4. QED
          BY <2>4, <3>1, <3>2, <3>3 DEF Inv
  <2>6. CASE /\ target # instances
             /\ decision' = [action |-> actionOf(target, instances), target |-> target]
             /\ pc' = "get"
             /\ UNCHANGED <<snap, moved>>
    <3>1. /\ decision'.target = target
          /\ decision' \in [action : {"none", "scale_up", "scale_down"}, target : Int]
          /\ decision'.action = "scale_down" => target < instances
          BY <1>2, <2>2, <2>6 DEF actionOf
    <3>2. TypeOK'
          BY <1>1, <1>2, <2>2, <2>3, <2>6, <3>1 DEF TypeOK
    <3>3. SnapshotIsNewest'
          BY <2>6 DEF SnapshotIsNewest
    <3>4. PendingDecision'
      <4>1. lastScale = Never \/ lastScale >= rcfg.cooldown
            BY <1>2, <1>4, AgeFacts DEF inCooldown
      <4>2. QED
            BY <1>1, <2>2, <2>6, <3>1, <4>1 DEF PendingDecision
    <3>5. ScaleDownJustified'
          BY <1>1, <2>2, <2>3, <2>6, <3>1 DEF ScaleDownJustified
    <3>6. QED
          BY <2>4, <3>2, <3>3, <3>4, <3>5 DEF Inv
  <2>7. QED
        BY <2>3, <2>5, <2>6
<1>5. CASE ~ inCooldown /\ Finish /\ window' = window
      BY <1>1, <1>2, <1>5, FinishInv
<1>6. QED
      BY <1>3, <1>4, <1>5 DEF Decide

-----------------------------------------------------------------------------
(* Every step keeps the invariant.                                         *)
LEMMA NextInv == Inv /\ [Next]_vars => Inv'
<1> SUFFICES ASSUME Inv, [Next]_vars PROVE Inv'
    OBVIOUS
<1>1. CASE UNCHANGED vars
      BY <1>1 DEF Inv, TypeOK, OldestFirst, SnapshotIsNewest, PendingDecision,
                  ScaleDownJustified, vars, memVars, loopVars, clusterVars
<1>2. CASE Next
      BY <1>2, TickInv, UpdateConfigInv, PollInv, StartReconcileInv, ObserveInv, DecideInv,
         PatchGetInv, EndOfReconcileInv, ForeignWriteInv, RestartInv DEF Next
<1>3. QED
      BY <1>1, <1>2

(* The inductive invariant holds in every reachable state.                 *)
THEOREM Invariance == Spec => []Inv
<1>1. QED
      BY InitInv, NextInv, PTL DEF Spec

(* Every variable keeps its type; in particular cfg is always a config     *)
(* that validateConfig accepted.                                           *)
THEOREM TypeCorrect == Spec => []TypeOK
<1>1. Inv => TypeOK
      BY DEF Inv
<1>2. QED
      BY <1>1, Invariance, PTL

(* The stabilization window and the histories stay ordered, oldest first.  *)
THEOREM KeepsOrder == Spec => []OldestFirst
<1>1. Inv => OldestFirst
      BY DEF Inv
<1>2. QED
      BY <1>1, Invariance, PTL

(* No scale-down is pending that a guard metric or a target of the         *)
(* stabilization window forbids.                                           *)
THEOREM ScaleDownsJustified == Spec => []ScaleDownJustified
<1>1. Inv => ScaleDownJustified
      BY DEF Inv
<1>2. QED
      BY <1>1, Invariance, PTL

(* Which steps are a write by the controller, and what they write.         *)
LEMMA PatchStep ==
    ASSUME Inv, [Next]_vars, Patched
    PROVE  instances' = decision.target /\ pc = "update"
<1>1. ~ (UNCHANGED vars)
      BY DEF Patched, vars, clusterVars
<1>2. pc = "update" /\ pc' = "idle" /\ instances' # instances
      BY DEF Patched
<1>3. QED
      BY <1>1, <1>2 DEF Next, Tick, UpdateConfig, Poll, StartReconcile, Observe, Decide, PatchGet,
         PatchUpdate, PatchReplyLost, ReconcileError, ForeignWrite, Restart,
         memVars, loopVars, clusterVars

(* Whatever the controller writes to spec.instances lies within the bounds *)
(* of the config of its reconcile.                                         *)
THEOREM PatchesWithinBounds == Spec => PatchWithinBounds
<1>1. Inv /\ [Next]_vars => [Patched => instances' \in rcfg.min..rcfg.max]_vars
      BY PatchStep DEF Inv, PendingDecision
<1>2. QED
      BY <1>1, Invariance, PTL DEF Spec, PatchWithinBounds

(* No update is sent before the cooldown since the last acknowledged one   *)
(* has passed, whatever happened in between.                               *)
THEOREM CooldownsHonoured == Spec => CooldownHonoured
<1>1. Inv /\ [Next]_vars => [Patched => lastScale = Never \/ lastScale >= rcfg.cooldown]_vars
      BY PatchStep DEF Inv, PendingDecision
<1>2. QED
      BY <1>1, Invariance, PTL DEF Spec, CooldownHonoured
=============================================================================
