--------------------------- MODULE ScaleController ---------------------------
(***************************************************************************)
(* The scale controller process (internal/scale, cmd/scale-controller):    *)
(*   - Run's ticker and the reconcile loop Observe -> Decide -> Act,       *)
(*   - UpdateConfig, called by the goroutine that watches the config file  *)
(*     (module ConfigWatcher) whenever it loaded a valid one,              *)
(*   - the Cluster resource, which other clients also write.               *)
(*                                                                         *)
(* Time is not bounded: every remembered instant is kept as an age that    *)
(* Tick increments up to MaxAge, and MaxAge exceeds every duration an age  *)
(* is ever compared with, so a saturated age compares as the real one.     *)
(***************************************************************************)
EXTENDS ScaleRules

CONSTANTS
    Values,             \* what QueryScalar may return
    Forecasts,          \* what a predictor may return
    Configs,            \* what the config file may hold, valid or not
    InitialInstances,   \* spec.instances when the process starts
    ForeignInstances,   \* values other clients write to spec.instances
    LastGoodValueTTL,   \* flag --last-good-value-ttl
    MaxHistory,         \* maxHistorySize
    MaxAge,             \* where ages saturate
    MayReload,          \* whether the config file may change
    MayRestart          \* whether the process may crash and be restarted

ASSUME ConfigAssumption == Configs \subseteq Config

ASSUME ValueAssumption ==
    /\ Values \subseteq Value
    /\ Forecasts \subseteq Value \cup {NoForecast}
    /\ InitialInstances \subseteq Nat \ {0}
    /\ ForeignInstances \subseteq Nat \ {0}

ASSUME BoundAssumption ==
    /\ MaxAge \in Nat
    /\ MaxHistory \in Nat \ {0}
    /\ MayReload \in BOOLEAN /\ MayRestart \in BOOLEAN
    /\ LastGoodValueTTL \in Int /\ LastGoodValueTTL < MaxAge
    /\ \A c \in Configs : /\ c.cooldown <= MaxAge
                          /\ c.window < MaxAge
                          /\ c.prediction.minHistory <= MaxAge

VARIABLES
    cfg,            \* ScaleController.cfg
    predictor,      \* ScaleController.predictor # nil
    ticker,         \* Run's ticker: [period, left, fired]
    lastGood,       \* PrometheusMetricsObserver.lastGoodValues
    history,        \* ScaleController.history, the ages of the points
    window,         \* ScaleController.reactiveTargetWindow
    lastScale,      \* the age of lastScaleAt, or Never
    pc,             \* where reconcileOnce is
    rcfg,           \* the config this reconcile works with
    snap,           \* the snapshot: [age, raw, values]
    decision,       \* the ScaleDecision: [action, target]
    instances,      \* the Cluster resource's spec.instances
    moved           \* its resourceVersion moved since PatchInstances' Get

memVars   == <<lastGood, history, window, lastScale>>
loopVars  == <<pc, rcfg, snap, decision>>
clusterVars == <<instances, moved>>
vars == <<cfg, predictor, ticker, memVars, loopVars, clusterVars>>

Age    == 0..MaxAge
Never  == -1
NoGood == [value |-> 0, age |-> 0]
NoSnap == [age |-> 0, raw |-> <<>>, values |-> <<>>]
NoDecision == [action |-> "none", target |-> 0]

Older(age) == IF age < MaxAge THEN age + 1 ELSE MaxAge

-----------------------------------------------------------------------------
(* LoadConfig returns only what validateConfig accepts.                    *)
Loadable == {c \in Configs : validateConfig(c)}

(* main: NewScaleController, BuildPredictor and Run's NewTicker.           *)
NewTicker(c) == [period |-> c.poll, left |-> c.poll, fired |-> FALSE]
NoGoodValues == [m \in Metrics |-> NoGood]
NoHistory    == [m \in Metrics |-> <<>>]

Init ==
    /\ cfg \in Loadable
    /\ predictor = cfg.prediction.enabled
    /\ ticker = NewTicker(cfg)
    /\ lastGood = NoGoodValues
    /\ history = NoHistory
    /\ window = <<>>
    /\ lastScale = Never
    /\ pc = "idle"
    /\ rcfg = cfg
    /\ snap = NoSnap
    /\ decision = NoDecision
    /\ instances \in InitialInstances
    /\ moved = FALSE

(* The process dies anywhere and its pod is restarted: everything held in  *)
(* memory is lost, the Cluster is not; main loads the config again.        *)
Restart ==
    /\ MayRestart
    /\ cfg' \in Loadable
    /\ predictor' = cfg'.prediction.enabled
    /\ ticker' = NewTicker(cfg')
    /\ lastGood' = NoGoodValues
    /\ history' = NoHistory
    /\ window' = <<>>
    /\ lastScale' = Never
    /\ pc' = "idle"
    /\ rcfg' = cfg'
    /\ snap' = NoSnap
    /\ decision' = NoDecision
    /\ moved' = FALSE
    /\ UNCHANGED instances

-----------------------------------------------------------------------------
(* One unit of time passes; Run's ticker fires into a channel of size one. *)
TickerAfterTick ==
    IF ticker.left = 1
      THEN [period |-> ticker.period, left |-> ticker.period, fired |-> TRUE]
      ELSE [ticker EXCEPT !.left = ticker.left - 1]

Tick ==
    /\ ticker' = TickerAfterTick
    /\ lastGood' = [m \in Metrics |->
                      IF lastGood[m] = NoGood THEN NoGood
                      ELSE [lastGood[m] EXCEPT !.age = Older(lastGood[m].age)]]
    /\ history' = [m \in Metrics |->
                      [i \in 1..Len(history[m]) |-> Older(history[m][i])]]
    /\ window' = [i \in 1..Len(window) |->
                      [window[i] EXCEPT !.age = Older(window[i].age)]]
    /\ lastScale' = IF lastScale = Never THEN Never ELSE Older(lastScale)
    /\ snap' = IF pc = "observe"
                 THEN [age |-> Older(snap.age), raw |-> snap.raw, values |-> snap.values]
                 ELSE snap
    /\ UNCHANGED <<cfg, predictor, pc, rcfg, decision, clusterVars>>

-----------------------------------------------------------------------------
(* Faulty variant: a config is applied without validation.                 *)
UpdateConfigUnchecked ==
    /\ MayReload
    /\ cfg' \in Configs
    /\ UNCHANGED <<predictor, ticker, memVars, loopVars, clusterVars>>

(* WatchConfig's onChange: the predictor is not rebuilt, and the reconcile *)
(* in progress keeps its own copy of the config.                           *)
UpdateConfig ==
    /\ MayReload
    /\ cfg' \in Loadable
    /\ UNCHANGED <<predictor, ticker, memVars, loopVars, clusterVars>>

-----------------------------------------------------------------------------
(* reconcileOnce.                                                          *)
Finish ==
    /\ pc' = "idle"
    /\ snap' = NoSnap
    /\ decision' = NoDecision
    /\ moved' = FALSE

(* Run receives a tick and resets the ticker if the poll interval changed. *)
Poll ==
    /\ pc = "idle"
    /\ ticker.fired
    /\ ticker' = IF cfg.poll # ticker.period THEN NewTicker(cfg)
                 ELSE [ticker EXCEPT !.fired = FALSE]
    /\ pc' = "polled"
    /\ UNCHANGED <<cfg, predictor, memVars, rcfg, snap, decision, clusterVars>>

(* reconcileOnce reads the config once more and works with that copy;      *)
(* Observe notes the time and starts the queries.                          *)
StartReconcile ==
    /\ pc = "polled"
    /\ rcfg' = cfg
    /\ pc' = "observe"
    /\ UNCHANGED <<cfg, predictor, ticker, memVars, snap, decision, clusterVars>>

(* The value used for metric m when QueryScalar returned v.                *)
substitute(m, v) ==
    IF /\ v = 0
       /\ ~ Leq(lastGood[m].value, 0)
       /\ LastGoodValueTTL > 0 => lastGood[m].age <= LastGoodValueTTL
      THEN lastGood[m].value
      ELSE v

(* Faulty variant: the substituted value counts as a new good value.       *)
rememberSubstitute(m, v) == [value |-> substitute(m, v), age |-> 0]

remember(m, v) == IF v = 0 THEN lastGood[m] ELSE [value |-> v, age |-> 0]

(* Faulty variant: a full history starts over.                             *)
appendPointStartsOver(points, age) ==
    IF Len(points) >= MaxHistory THEN <<age>> ELSE Append(points, age)

appendPoint(points, age) ==
    LET all == Append(points, age)
    IN  IF Len(all) > MaxHistory THEN SubSeq(all, Len(all) - MaxHistory + 1, Len(all)) ELSE all

(* All queries answered: the observer replaces zeros by last good values,  *)
(* and reconcileOnce appends the snapshot to the history.                  *)
Observe ==
    /\ pc = "observe"
    /\ \E raw \in [MetricNames(rcfg) -> Values] :
        /\ snap' = [age |-> snap.age, raw |-> raw,
                    values |-> [m \in MetricNames(rcfg) |-> substitute(m, raw[m])]]
        /\ lastGood' = [m \in Metrics |->
                          IF m \in MetricNames(rcfg) THEN remember(m, raw[m]) ELSE lastGood[m]]
        /\ history' = [m \in Metrics |->
                         IF m \in MetricNames(rcfg) THEN appendPoint(history[m], snap.age)
                         ELSE history[m]]
    /\ pc' = "decide"
    /\ UNCHANGED <<cfg, predictor, ticker, window, lastScale, rcfg, decision, clusterVars>>

(* Faulty variants: off by one; the comparison reversed.                   *)
inCooldownOffByOne == lastScale # Never /\ lastScale + 1 < rcfg.cooldown
inCooldownReversed == lastScale # Never /\ lastScale >= rcfg.cooldown

inCooldown == lastScale # Never /\ lastScale < rcfg.cooldown

(* Decide; a decision "none" makes Act return at once.                     *)
Decide ==
    /\ pc = "decide"
    /\ \/ /\ inCooldown
          /\ Finish
          /\ window' = window
       \/ /\ ~ inCooldown
          /\ \E forecast \in Forecasts,
               raw \in {computeReactiveTarget(rcfg, snap.values, instances)} :
               \E recorded \in {recordTarget(window, raw, rcfg.window)} :
               \E target \in {decideTarget(rcfg, snap.values, instances,
                    stabilizedReactiveTarget(recorded, raw, rcfg.window),
                    predictiveTarget(rcfg, predictor, instances,
                                     history[rcfg.prediction.metric], forecast))} :
                 /\ window' = recorded
                 /\ IF target = instances
                      THEN Finish
                      ELSE /\ decision' = [action |-> actionOf(target, instances),
                                           target |-> target]
                           /\ pc' = "get"
                           /\ UNCHANGED <<snap, moved>>
    /\ UNCHANGED <<cfg, predictor, ticker, lastGood, history, lastScale, rcfg, instances>>

(* PatchInstances: Get, then Update with the resourceVersion Get returned. *)
PatchGet ==
    /\ pc = "get"
    /\ pc' = "update"
    /\ moved' = FALSE
    /\ UNCHANGED <<cfg, predictor, ticker, memVars, rcfg, snap, decision, instances>>

PatchUpdate ==
    /\ pc = "update"
    /\ ~ moved
    /\ instances' = decision.target
    /\ lastScale' = 0
    /\ Finish
    /\ UNCHANGED <<cfg, predictor, ticker, lastGood, history, window, rcfg>>

(* The update is applied but its answer never arrives: Act returns the     *)
(* client's error and leaves lastScaleAt alone.                            *)
PatchReplyLost ==
    /\ pc = "update"
    /\ ~ moved
    /\ instances' = decision.target
    /\ Finish
    /\ UNCHANGED <<cfg, predictor, ticker, memVars, rcfg>>

(* A query, a Get or the Update fails (a conflict included): reconcileOnce *)
(* returns the error and Run logs it.                                      *)
ReconcileError ==
    /\ pc \notin {"idle", "polled"}
    /\ Finish
    /\ UNCHANGED <<cfg, predictor, ticker, memVars, rcfg, instances>>

(* Another client updates the Cluster resource: a user, the storage        *)
(* controller, the experiment runner.                                      *)
ForeignWrite ==
    /\ \E n \in ForeignInstances : instances' = n
    /\ moved' = (pc = "update")
    /\ UNCHANGED <<cfg, predictor, ticker, memVars, loopVars>>

Next ==
    \/ Tick
    \/ UpdateConfig
    \/ Poll \/ StartReconcile \/ Observe \/ Decide
    \/ PatchGet \/ PatchUpdate \/ PatchReplyLost \/ ReconcileError
    \/ ForeignWrite \/ Restart

Spec == Init /\ [][Next]_vars

(* Time passes, Run's goroutine is scheduled, and a call that is made  *)
(* again and again is eventually answered.                                 *)
Fairness ==
    /\ WF_vars(Tick)
    /\ WF_vars(Poll) /\ WF_vars(StartReconcile)
    /\ SF_vars(Observe) /\ SF_vars(Decide) /\ SF_vars(PatchGet) /\ SF_vars(PatchUpdate)

FairSpec == Spec /\ Fairness

-----------------------------------------------------------------------------
(* The type of every variable.                                             *)
WindowRecord == [age : Age, target : Int]

TypeOK ==
    /\ cfg \in Loadable
    /\ predictor \in BOOLEAN
    /\ ticker \in [period : Int, left : Int, fired : BOOLEAN]
    /\ lastGood \in [Metrics -> [value : Value, age : Age]]
    /\ history \in [Metrics -> Seq(Age)]
    /\ window \in Seq(WindowRecord)
    /\ lastScale \in Age \cup {Never}
    /\ pc \in {"idle", "polled", "observe", "decide", "get", "update"}
    /\ rcfg \in Loadable
    /\ snap.age \in Age
    /\ pc \in {"decide", "get", "update"} => snap.values \in [MetricNames(rcfg) -> Value]
    /\ decision \in [action : {"none", "scale_up", "scale_down"}, target : Int]
    /\ instances \in Int
    /\ moved \in BOOLEAN

(* Whatever is written to spec.instances by the controller lies within the *)
(* bounds of the config the reconcile started with, although the guard can *)
(* make Decide's target exceed MaxInstances, the config may be swapped and *)
(* the Cluster rewritten while the reconcile runs.                         *)
Patched == pc = "update" /\ pc' = "idle" /\ instances' # instances

PatchWithinBounds ==
    [][Patched => instances' \in rcfg.min..rcfg.max]_vars

(* An update is sent only when the last acknowledged scaling is at least   *)
(* one cooldown old, however long the reconcile took and whatever became   *)
(* of the updates in between (Decide's cooldown guard, Act's lastScaleAt). *)
CooldownHonoured ==
    [][Patched => lastScale = Never \/ lastScale >= rcfg.cooldown]_vars

(* A pending scale-down has no guard metric above its threshold and, where *)
(* reactive targets count, goes below none of the targets recorded during  *)
(* the stabilization window (unless the maximum forces it).                *)
ScaleDownJustified ==
    (pc \in {"get", "update"} /\ decision.action = "scale_down") =>
        /\ ~ guardBlocks(rcfg, snap.values)
        /\ (rcfg.mode # "predictive" /\ rcfg.window > 0) =>
              \A i \in 1..Len(window) :
                  window[i].age <= rcfg.window =>
                      \/ decision.target >= window[i].target
                      \/ decision.target = rcfg.max

(* The window and the histories are ordered, oldest first: dropping the    *)
(* expired prefix drops every expired record, and history[0] is the        *)
(* oldest point.                                                           *)
OldestFirst ==
    /\ \A i, j \in 1..Len(window) : i < j => window[i].age >= window[j].age
    /\ \A m \in Metrics : \A i, j \in 1..Len(history[m]) :
          i < j => history[m][i] >= history[m][j]

(* In predictive mode a cluster within its bounds is left alone while no   *)
(* prediction is available (comment on ScalingModePredictive).             *)
PredictiveFallsBackToCurrent ==
    (/\ pc = "get"
     /\ rcfg.mode = "predictive"
     /\ instances \in rcfg.min..rcfg.max)
        => (rcfg.prediction.enabled /\ predictor)

-----------------------------------------------------------------------------
(* What makes these properties inductive: a pending decision lies within   *)
(* the bounds and was taken outside the cooldown, and the snapshot being   *)
(* taken is no older than any point of the history.                        *)
PendingDecision ==
    pc \in {"get", "update"} =>
        /\ decision.target \in rcfg.min..rcfg.max
        /\ lastScale = Never \/ lastScale >= rcfg.cooldown

SnapshotIsNewest ==
    /\ pc \in {"idle", "polled"} => snap.age = 0
    /\ pc \in {"idle", "polled", "observe"} =>
          \A m \in Metrics : \A i \in 1..Len(history[m]) : history[m][i] >= snap.age

Inv == TypeOK /\ OldestFirst /\ SnapshotIsNewest /\ PendingDecision /\ ScaleDownJustified

-----------------------------------------------------------------------------
(* What the metrics of a reconcile say when it decides: all of them, with  *)
(* last good values, ask for more than there is or for the maximum; all of *)
(* them, as queried, ask for less than there is or for the minimum and     *)
(* release their guards.                                                   *)
DemandAbove == pc = "decide" =>
    \A i \in 1..Len(rcfg.metrics) :
        LET spec == rcfg.metrics[i]
            v    == snap.values[spec.name]
        IN  Geq(v, spec.up) /\ (spec.perReplica > 0 => v > spec.perReplica * (rcfg.max - 1))

DemandBelow == pc = "decide" =>
    \A i \in 1..Len(rcfg.metrics) :
        LET spec == rcfg.metrics[i]
            v    == snap.raw[spec.name]
        IN  Leq(v, spec.down) /\ (spec.perReplica > 0 => v <= spec.perReplica * rcfg.min)

(* Sustained high demand drives the cluster to MaxInstances of the config  *)
(* that stays, through the cooldown, low forecasts, failing calls and lost *)
(* answers.                                                                *)
HighDemandReachesMax ==
    \A c \in Loadable :
        c.mode # "predictive" =>
            (<>[](cfg = c /\ DemandAbove) => <>[](instances >= c.max))

(* Sustained low demand drives the cluster down to MinInstances of the     *)
(* config that stays: the window drains, and no scale-down guard, cooldown *)
(* or stale last good value blocks forever.                                *)
(* (Reactive mode: in the others a high forecast keeps the cluster up.)    *)
LowDemandReachesMin ==
    LastGoodValueTTL > 0 =>
    \A c \in Loadable :
        c.mode = "reactive" /\ (\E i \in 1..Len(c.metrics) : ~ c.metrics[i].upOnly) =>
            (<>[](cfg = c /\ DemandBelow) => <>[](instances <= c.min))

(* A metric that really is zero is eventually seen as zero: substituting   *)
(* the last good value does not keep that value alive.                     *)
ZeroEventuallySeen ==
    LastGoodValueTTL > 0 =>
    \A m \in Metrics :
        <>[](pc = "decide" /\ m \in DOMAIN snap.raw => snap.raw[m] = 0)
            => <>[](pc = "decide" /\ m \in DOMAIN snap.raw => snap.values[m] = 0)

(* The history is long enough for a prediction under the config in use.    *)
PredictionReady ==
    cfg.prediction.enabled =>
        computePredictiveTarget(cfg, instances, history[cfg.prediction.metric], NoForecast) # -1

(* With a cap that leaves room for MinHistoryDuration, predictions are     *)
(* ready from some time on, and in a process that is not restarted they    *)
(* stay ready while the config stays: appendHistory does not drop the      *)
(* oldest points before the ones it keeps are old enough, however late or  *)
(* close together polls come and whichever fail.                           *)
PredictionBecomesReady ==
    /\ <>[](pc = "decide" => PredictionReady)
    /\ [][PredictionReady /\ cfg' = cfg => PredictionReady']_vars
=============================================================================
