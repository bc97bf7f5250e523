----------------------------- MODULE ScaleRules -----------------------------
(***************************************************************************)
(* The pure part of the scale controller (internal/scale/scale.go): how a  *)
(* reconcile turns a snapshot of metric values, the current number of      *)
(* instances and what it remembers of earlier polls into a target.         *)
(*                                                                         *)
(* Metric values are integers (in the unit of their thresholds) or NaN,    *)
(* which PromQL returns for 0/0.  Points in time are kept as ages: the     *)
(* age of an instant t is the number of time units since t.                *)
(***************************************************************************)
EXTENDS Integers, Sequences, FiniteSetsExt

CONSTANTS
    Metrics,        \* metric names
    NaN,            \* the float64 that compares false with everything
    IntOfNaN,       \* what int(NaN) is in the build: 0 on arm64, the least int on amd64
    NoForecast      \* Predict returned an error

ASSUME NaNAssumption == NaN \notin Int /\ IntOfNaN \in Int

Value == Int \cup {NaN}

(* The config file after LoadConfig.  A MetricSpec's TargetValuePerReplica *)
(* is perReplica (0: use the thresholds), ScaleUpOnly is upOnly and        *)
(* ScaleDownGuard is guard; a missing prediction block is a disabled one.  *)
MetricSpec == [name : Metrics, up : Int, down : Int, perReplica : Int,
               weight : Int, upOnly : BOOLEAN, guard : BOOLEAN]

Config == [min : Int, max : Int, metrics : Seq(MetricSpec),
           aggregation : {"max", "weighted_average"},
           cooldown : Int, poll : Int, window : Int,
           mode : {"reactive", "predictive", "hybrid", "unknown"},
           prediction : [enabled : BOOLEAN, metric : Metrics, minHistory : Int]]

MetricNames(c) == {c.metrics[i].name : i \in 1..Len(c.metrics)}

(* float64 comparisons: false as soon as NaN is involved.                  *)
Geq(v, t) == v # NaN /\ v >= t
Leq(v, t) == v # NaN /\ v <= t
Gtr(v, t) == v # NaN /\ v > t

(* math.Ceil(a / b) for b > 0.                                             *)
CeilDiv(a, b) == -((-a) \div b)

(* f[1] + ... + f[n].                                                      *)
SumTo(f, n) ==
    LET sum[i \in 0..n] == IF i = 0 THEN 0 ELSE sum[i - 1] + f[i]
    IN  sum[n]

(* Faulty variant of clamp: no upper bound.                                *)
clampNoUpper(v, min, max) == IF v < min THEN min ELSE v

clamp(v, min, max) == IF v < min THEN min ELSE IF v > max THEN max ELSE v

-----------------------------------------------------------------------------
desiredReplicasForMetric(spec, value, current) ==
    IF spec.perReplica > 0
      THEN IF value = NaN THEN IntOfNaN ELSE CeilDiv(value, spec.perReplica)
      ELSE IF Geq(value, spec.up) THEN current + 1
      ELSE IF Leq(value, spec.down) THEN current - 1
      ELSE current

(* The positions of cfg.metrics that take part in the aggregation.         *)
Counted(cfg, values, current) ==
    {i \in 1..Len(cfg.metrics) :
        LET spec == cfg.metrics[i]
        IN  /\ spec.name \in DOMAIN values
            /\ ~ ( /\ spec.upOnly
                   /\ desiredReplicasForMetric(spec, values[spec.name], current) < current )}

weightedAverage(desired, weight, n) ==
    CeilDiv(SumTo([i \in 1..n |-> desired[i] * weight[i]], n), SumTo(weight, n))

computeReactiveTarget(cfg, values, current) ==
    LET n       == Len(cfg.metrics)
        counted == Counted(cfg, values, current)
        desired == [i \in 1..n |->
                      IF i \in counted
                        THEN desiredReplicasForMetric(cfg.metrics[i], values[cfg.metrics[i].name], current)
                        ELSE 0]
        weight  == [i \in 1..n |->
                      IF i \notin counted THEN 0
                      ELSE IF cfg.metrics[i].weight <= 0 THEN 1 ELSE cfg.metrics[i].weight]
    IN  IF counted = {} THEN current
        ELSE IF cfg.aggregation = "weighted_average" THEN weightedAverage(desired, weight, n)
        ELSE Max({desired[i] : i \in counted})

-----------------------------------------------------------------------------
(* Faulty variant of recordTarget: the newest record in front.             *)
recordTargetInFront(window, raw, width) ==
    LET all  == <<[age |-> 0, target |-> raw]>> \o window
        last == Max({i \in 1..Len(all) : all[i].age <= width})
    IN  IF width <= 0 THEN window ELSE SubSeq(all, 1, last)

(* Scale-down stabilization.  reactiveTargetWindow is a sequence of        *)
(* [age, target] records, oldest first; a poll appends its raw target and  *)
(* drops the leading records older than the window.                        *)
recordTarget(window, raw, width) ==
    LET all   == Append(window, [age |-> 0, target |-> raw])
        first == Min({i \in 1..Len(all) : all[i].age <= width})
    IN  IF width <= 0 THEN window ELSE SubSeq(all, first, Len(all))

(* Faulty variant: the raw target, not the maximum.                        *)
stabilizedReactiveTargetRaw(window, raw, width) == raw

(* The maximum over the window that recordTarget just returned.            *)
stabilizedReactiveTarget(window, raw, width) ==
    IF width <= 0 THEN raw
    ELSE Max({raw} \cup {window[i].target : i \in 1..Len(window)})

-----------------------------------------------------------------------------
(* Prediction.  hist is the sequence of the ages of the history points of  *)
(* the predicted metric, oldest first; forecast is what Predict returned.  *)
(* -1 stands for "not ready"; an error leaves predictiveTarget at 0.       *)
computePredictiveTarget(cfg, current, hist, forecast) ==
    LET p     == cfg.prediction
        specs == {i \in 1..Len(cfg.metrics) : cfg.metrics[i].name = p.metric}
    IN  IF hist = <<>> \/ (p.minHistory > 0 /\ hist[1] < p.minHistory) THEN -1
        ELSE IF forecast = NoForecast \/ specs = {} THEN 0
        ELSE desiredReplicasForMetric(cfg.metrics[Min(specs)], forecast, current)

predictiveTarget(cfg, predictor, current, hist, forecast) ==
    IF cfg.prediction.enabled /\ predictor
      THEN computePredictiveTarget(cfg, current, hist, forecast)
      ELSE 0

(* The switch over cfg.ScalingMode.                                        *)
modeTarget(cfg, current, reactive, predictive) ==
    CASE cfg.mode = "reactive"   -> reactive
      [] cfg.mode = "predictive" -> IF predictive = -1 THEN current ELSE predictive
      [] OTHER                   -> IF predictive = -1 THEN reactive
                                    ELSE IF reactive >= predictive THEN reactive ELSE predictive

(* Faulty variant: a guard metric blocks whatever its value.               *)
guardBlocksAlways(cfg, values) ==
    \E i \in 1..Len(cfg.metrics) :
        cfg.metrics[i].guard /\ cfg.metrics[i].name \in DOMAIN values

guardBlocks(cfg, values) ==
    \E i \in 1..Len(cfg.metrics) :
        LET spec == cfg.metrics[i]
        IN  /\ spec.guard
            /\ spec.name \in DOMAIN values
            /\ Gtr(values[spec.name], spec.down)

(* The target after clamping and the scale-down guard.                     *)
decideTarget(cfg, values, current, reactive, predictive) ==
    LET target == clamp(modeTarget(cfg, current, reactive, predictive), cfg.min, cfg.max)
    IN  IF target < current /\ guardBlocks(cfg, values) THEN current ELSE target

actionOf(target, current) ==
    IF target > current THEN "scale_up" ELSE IF target < current THEN "scale_down" ELSE "none"

-----------------------------------------------------------------------------
(* validateConfig, and with it LoadConfig: a file that does not parse or   *)
(* convert is represented by a record that does not validate.              *)
validateConfig(cfg) ==
    /\ cfg.mode \in {"reactive", "predictive", "hybrid"}
    /\ cfg.min >= 1
    /\ cfg.max >= cfg.min
    /\ cfg.poll > 0
=============================================================================
