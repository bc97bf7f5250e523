-------------------------- MODULE StorageController --------------------------
(***************************************************************************)
(* The storage controller process (pkg/storage, cmd/storage-controller):   *)
(* Run's ticker and reconcileOnce, which observes both volumes, decides    *)
(* and acts on pgdata, then decides and acts on the WAL volume with the    *)
(* same snapshot; around it the Cluster resource, which other clients also *)
(* write, and the volumes, which fill up and are expanded asynchronously.  *)
(*                                                                         *)
(* Remembered instants are ages that saturate at MaxAge, which no duration *)
(* they are compared with exceeds.  The goroutines that only measure how   *)
(* long an expansion took are left out.                                    *)
(***************************************************************************)
EXTENDS StorageRules

CONSTANTS
    Cfg,            \* Config: a record per volume
    Guards,         \* SafetyGuardsConfig
    PollInterval,
    Signals,        \* observed archive backlog and replication lag
    Growths,        \* observed worst-case growth rates
    Outages,        \* sets of queries <<volume, metric>> that fail, or are empty, together
    InitialSizes,   \* [Volumes -> Size] the Cluster may start with
    ForeignSizes,   \* sizes other clients write
    MaxAge,
    MayRestart

Volumes == {"pgdata", "wal"}
Queries == {"usage", "capacity", "available", "growth"}

(* Percentages are of the volume, max is in Gi; horizon stands for         *)
(* PreemptiveResizeIfFullInHours, which the WAL config does not have.      *)
VolumeConfig == [enabled : BOOLEAN, up : Int, critical : Int, step : Int,
                 max : Int, cooldown : Int, horizon : Int]

(* validateConfig.                                                         *)
validVolume(c) ==
    c.enabled => /\ c.up > 0 /\ c.up < 100
                 /\ c.critical > c.up
                 /\ c.step > 0
                 /\ c.max > 0

ASSUME ConfigAssumption ==
    /\ Cfg \in [Volumes -> VolumeConfig]
    /\ Cfg["pgdata"].enabled
    /\ Cfg["wal"].horizon = 0
    /\ \A v \in Volumes : validVolume(Cfg[v]) /\ Cfg[v].cooldown <= MaxAge
    /\ Guards \in [pending : Int, lag : Int]
    /\ PollInterval \in Nat \ {0}
    /\ MaxAge \in Nat
    /\ MayRestart \in BOOLEAN

ASSUME InputAssumption ==
    /\ Signals \subseteq [pending : Metric, lag : Metric]
    /\ Growths \subseteq Metric
    /\ \A o \in Outages : o \in SUBSET (Volumes \X Queries)
    /\ \A s \in InitialSizes : s \in [Volumes -> Size]
    /\ ForeignSizes \subseteq Nat \ {0}

VARIABLES
    size,           \* the Cluster's spec.storage.size and spec.walStorage.size
    cap,            \* the capacity the kubelet reports for each volume
    used,           \* what is used of it
    last,           \* lastPGDataResizeAt and lastWALResizeAt, as ages, or Never
    ticker,         \* Run's ticker: [left, fired]
    pc,             \* where reconcileOnce is
    vol,            \* the volume it is working on
    snap,           \* StorageSnapshot: what Decide reads off it, per volume
    decision,       \* [size, trigger] once ShouldResize
    moved           \* the Cluster's resourceVersion moved since the actor's Get

loopVars == <<pc, vol, snap, decision, moved>>
vars == <<size, cap, used, last, ticker, loopVars>>

Age   == 0..MaxAge
Never == -1
Older(age) == IF age < MaxAge THEN age + 1 ELSE MaxAge

Triggers == {"critical", "preemptive", "reactive"}
NoDecision == [size |-> 0, trigger |-> "reactive"]
Nothing == [size |-> NoSize, usable |-> FALSE, blocked |-> FALSE, critical |-> FALSE,
            above |-> FALSE, preemptive |-> FALSE, propagating |-> FALSE]
NoSnap == [v \in Volumes |-> Nothing]
NewTicker == [left |-> PollInterval, fired |-> FALSE]

Init ==
    /\ size \in InitialSizes
    /\ cap = [v \in Volumes |-> IF size[v] = NoSize THEN 1 ELSE size[v]]
    /\ used = [v \in Volumes |-> 0]
    /\ last = [v \in Volumes |-> Never]
    /\ ticker = NewTicker
    /\ pc = "idle" /\ vol = "pgdata" /\ snap = NoSnap
    /\ decision = NoDecision /\ moved = FALSE

-----------------------------------------------------------------------------
(* The environment: time, the database, the CSI driver, other clients.     *)
Tick ==
    /\ last' = [v \in Volumes |-> IF last[v] = Never THEN Never ELSE Older(last[v])]
    /\ ticker' = IF ticker.left = 1
                   THEN [left |-> PollInterval, fired |-> TRUE]
                   ELSE [left |-> ticker.left - 1, fired |-> ticker.fired]
    /\ UNCHANGED <<size, cap, used, loopVars>>

Fill ==
    /\ \E v \in Volumes :
          /\ used[v] < cap[v]
          /\ used' = [used EXCEPT ![v] = used[v] + 1]
    /\ UNCHANGED <<size, cap, last, ticker, loopVars>>

Expand ==
    /\ \E v \in Volumes :
          /\ cap[v] < size[v]
          /\ cap' = [cap EXCEPT ![v] = size[v]]
    /\ UNCHANGED <<size, used, last, ticker, loopVars>>

ForeignWrite ==
    /\ \E v \in Volumes, s \in ForeignSizes :
          /\ size[v] # NoSize
          /\ s > size[v]
          /\ size' = [size EXCEPT ![v] = s]
    /\ moved' = (pc = "update")
    /\ UNCHANGED <<cap, used, last, ticker, pc, vol, snap, decision>>

Restart ==
    /\ MayRestart
    /\ last' = [v \in Volumes |-> Never]
    /\ ticker' = NewTicker
    /\ pc' = "idle" /\ vol' = "pgdata" /\ snap' = NoSnap
    /\ decision' = NoDecision /\ moved' = FALSE
    /\ UNCHANGED <<size, cap, used>>

-----------------------------------------------------------------------------
(* Observe: what a query returns if the metric has the given value: NaN if *)
(* it fails, and 0, the sum of no samples, if Prometheus has none.         *)
reading(v, query, value, failed, empty) ==
    IF <<v, query>> \in failed THEN NaN
    ELSE IF <<v, query>> \in empty THEN 0
    ELSE value

(* The usage percentage is kept times the capacity, and compared with      *)
(* thresholds times the capacity.                                          *)
observed(v, failed, empty, growth, signal) ==
    LET usage     == reading(v, "usage", used[v] * 100, failed, empty)
        capacity  == reading(v, "capacity", cap[v], failed, empty)
        available == reading(v, "available", cap[v] - used[v], failed, empty)
        rate      == reading(v, "growth", growth, failed, empty)
    IN  [size        |-> size[v],
         usable      |-> usage # NaN,
         blocked     |-> checkSafetyGuards(signal, Guards),
         critical    |-> AtLeast(usage, Cfg[v].critical * cap[v]),
         above       |-> AtLeast(usage, Cfg[v].up * cap[v]),
         preemptive  |-> isPreemptiveNeeded(effectiveAvailable(available, capacity, size[v]),
                                            rate, Cfg[v].horizon),
         propagating |-> isResizePropagating(capacity, size[v])]

Observe ==
    /\ pc = "idle"
    /\ ticker.fired
    /\ ticker' = [left |-> ticker.left, fired |-> FALSE]
    /\ \E failed, empty \in Outages, growth \in Growths, signal \in Signals :
          snap' = [v \in Volumes |-> observed(v, failed, empty, growth, signal)]
    /\ pc' = "decide" /\ vol' = "pgdata"
    /\ UNCHANGED <<size, cap, used, last, decision, moved>>

(* currentSizes fails: the reconcile ends.                                 *)
ObserveError ==
    /\ pc = "idle"
    /\ ticker.fired
    /\ ticker' = [left |-> ticker.left, fired |-> FALSE]
    /\ UNCHANGED <<size, cap, used, last, loopVars>>

-----------------------------------------------------------------------------
(* The end of a volume's turn: the WAL volume is next, or the next poll.   *)
NextVolume ==
    /\ decision' = NoDecision
    /\ moved' = FALSE
    /\ IF vol = "pgdata"
         THEN pc' = "decide" /\ vol' = "wal" /\ snap' = snap
         ELSE pc' = "idle" /\ vol' = "pgdata" /\ snap' = NoSnap

(* Faulty variant: critical usage counts while a resize propagates.        *)
isCriticalAnyway(s) == s.critical

(* While a resize propagates the usage is that of the old capacity, and    *)
(* only a preemptive resize is considered.                                 *)
isCritical(s) == s.critical /\ ~ s.propagating

(* Faulty variant: a resize in flight does not matter.                     *)
triggeredAnyway(s) == s.above \/ s.preemptive

triggered(s) ==
    IF s.propagating THEN s.preemptive ELSE s.above \/ s.preemptive

inCooldown(v) == last[v] # Never /\ last[v] < Cfg[v].cooldown

newSize(v) == computeNewSize(snap[v].size, Cfg[v].step, Cfg[v].max)

shouldResize(v) ==
    /\ Cfg[v].enabled
    /\ snap[v].size # NoSize
    /\ snap[v].usable
    /\ ~ snap[v].blocked
    /\ triggered(snap[v])
    /\ isCritical(snap[v]) \/ ~ inCooldown(v)
    /\ newSize(v) # AtMax

(* DecidePGData and DecideWAL.                                             *)
Decide ==
    /\ pc = "decide"
    /\ \/ /\ shouldResize(vol)
          /\ decision' = [size    |-> newSize(vol),
                          trigger |-> IF isCritical(snap[vol]) THEN "critical"
                                      ELSE IF snap[vol].preemptive THEN "preemptive"
                                      ELSE "reactive"]
          /\ pc' = "get"
          /\ UNCHANGED <<vol, snap, moved>>
       \/ /\ ~ shouldResize(vol)
          /\ NextVolume
    /\ UNCHANGED <<size, cap, used, last, ticker>>

(* ResizePGData and ResizeWAL: Get, then Update with its resourceVersion.  *)
ResizeGet ==
    /\ pc = "get"
    /\ pc' = "update"
    /\ moved' = FALSE
    /\ UNCHANGED <<size, cap, used, last, ticker, vol, snap, decision>>

ResizeUpdate ==
    /\ pc = "update"
    /\ ~ moved
    /\ size' = [size EXCEPT ![vol] = decision.size]
    /\ last' = [last EXCEPT ![vol] = 0]
    /\ NextVolume
    /\ UNCHANGED <<cap, used, ticker>>

(* The update is applied but its answer is lost: an error for the actor.   *)
ResizeReplyLost ==
    /\ pc = "update"
    /\ ~ moved
    /\ size' = [size EXCEPT ![vol] = decision.size]
    /\ NextVolume
    /\ UNCHANGED <<cap, used, last, ticker>>

(* The Get or the Update fails: logged, and the reconcile goes on.         *)
ResizeError ==
    /\ pc \in {"get", "update"}
    /\ NextVolume
    /\ UNCHANGED <<size, cap, used, last, ticker>>

Next ==
    \/ Tick \/ Fill \/ Expand \/ ForeignWrite \/ Restart
    \/ Observe \/ ObserveError \/ Decide
    \/ ResizeGet \/ ResizeUpdate \/ ResizeReplyLost \/ ResizeError

Spec == Init /\ [][Next]_vars

(* Time passes, the CSI driver completes an expansion, and a step that is  *)
(* reached again and again is eventually completed: neither a failing call *)
(* nor a restart hits it every time.                                       *)
FairSpec ==
    /\ Spec
    /\ WF_vars(Tick) /\ WF_vars(Expand)
    /\ SF_vars(Observe)
    /\ \A v \in Volumes : /\ SF_vars(Decide /\ vol = v)
                          /\ SF_vars(ResizeGet /\ vol = v)
                          /\ SF_vars(ResizeUpdate /\ vol = v)

-----------------------------------------------------------------------------
(* The type of every variable.                                             *)
Observation == [size : Size, usable : BOOLEAN, blocked : BOOLEAN, critical : BOOLEAN,
                above : BOOLEAN, preemptive : BOOLEAN, propagating : BOOLEAN]

TypeOK ==
    /\ size \in [Volumes -> Size]
    /\ cap \in [Volumes -> Nat]
    /\ used \in [Volumes -> Nat]
    /\ last \in [Volumes -> Age \cup {Never}]
    /\ ticker \in [left : 1..PollInterval, fired : BOOLEAN]
    /\ pc \in {"idle", "decide", "get", "update"}
    /\ vol \in Volumes
    /\ snap \in [Volumes -> Observation]
    /\ decision \in [size : Nat, trigger : Triggers]
    /\ moved \in BOOLEAN

(* The controller wrote the size of the volume it is working on.           *)
Resized == pc = "update" /\ ~ (pc' = "update") /\ size' # size

(* A request is at most the configured maximum, whatever others wrote, and *)
(* unless another client wrote a new size after Observe, it is larger than *)
(* the one in the spec: the controller never asks to shrink a volume on    *)
(* its own account.                                                        *)
ResizeGrowsToMax ==
    [][Resized => /\ size'[vol] <= GiB * Cfg[vol].max
                  /\ size'[vol] > size[vol] \/ size[vol] # snap[vol].size]_vars

(* A resize within the cooldown since the last acknowledged resize of the  *)
(* same volume happens only for critical usage that is not merely the lag  *)
(* of an expansion in flight.                                              *)
CooldownUnlessCritical ==
    [][Resized => \/ last[vol] = Never
                  \/ last[vol] >= Cfg[vol].cooldown
                  \/ snap[vol].critical /\ ~ snap[vol].propagating]_vars

(* What makes these two properties inductive: the decision that is being   *)
(* carried out is larger than the size it was based on, within the         *)
(* maximum, and was allowed when it was taken.                             *)
PendingResize ==
    pc \in {"get", "update"} =>
        /\ decision.size > 0 /\ decision.size <= GiB * Cfg[vol].max
        /\ decision.size > snap[vol].size
        /\ \/ last[vol] = Never
           \/ last[vol] >= Cfg[vol].cooldown
           \/ snap[vol].critical /\ ~ snap[vol].propagating

Inv == TypeOK /\ PendingResize

-----------------------------------------------------------------------------
(* A volume is asked for nothing past 105% of what it has, or for the step *)
(* that follows such a size.                                               *)
Settled(v) == size[v] * 100 <= cap[v] * 105

WithinOneStep(v) ==
    \/ size[v] = NoSize
    \/ Settled(v)
    \/ \E s \in 0..size[v] :
          s * 100 <= cap[v] * 105 /\ size[v] = computeNewSize(s, Cfg[v].step, Cfg[v].max)

(* With every capacity query answered, nobody else resizing and no resize  *)
(* for time-to-full, a request is at most one step past 105% of what the   *)
(* volume has: critical usage does not pile up requests while the metrics  *)
(* lag behind.                                                             *)
OneStepAhead == \A v \in Volumes : WithinOneStep(v)

(* The circumstances it speaks of.                                         *)
Undistorted ==
    /\ ForeignSizes = {}
    /\ \A v \in Volumes : Cfg[v].horizon <= 0
    /\ \A o \in Outages, v \in Volumes : <<v, "capacity">> \notin o

(* What makes it inductive: until a volume's turn is over, the snapshot    *)
(* has its size as it is, and a volume that is not propagating, as the one *)
(* being resized, is settled.                                              *)
SnapshotAgrees(v) ==
    /\ snap[v].size = size[v]
    /\ ~ snap[v].preemptive
    /\ snap[v].propagating \/ size[v] = NoSize \/ Settled(v)

SnapshotHolds ==
    /\ \A v \in Volumes : cap[v] >= 1
    /\ pc # "idle" => SnapshotAgrees(vol) /\ SnapshotAgrees("wal")
    /\ pc \in {"get", "update"} => /\ size[vol] # NoSize /\ Settled(vol)
                                  /\ decision.size = newSize(vol)

StepInv == Inv /\ SnapshotHolds /\ OneStepAhead

(* Below the threshold, or at the maximum.                                 *)
Relieved(v) ==
    \/ size[v] = NoSize
    \/ used[v] * 100 < Cfg[v].up * cap[v]
    \/ size[v] >= GiB * Cfg[v].max

Unblocked(v) == pc = "decide" => snap[v].usable /\ ~ snap[v].blocked

(* Pressure is relieved: unless a safety guard or a missing usage metric   *)
(* keeps blocking, each managed volume eventually stays below its          *)
(* threshold or has been given its maximum.                                *)
PressureRelieved ==
    \A v \in {u \in Volumes : Cfg[u].enabled} : <>[]Unblocked(v) => <>[]Relieved(v)
=============================================================================
