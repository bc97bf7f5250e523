---------------------------- MODULE StorageProofs ----------------------------
(***************************************************************************)
(* Proofs about StorageController, for any config, any unit of size, any   *)
(* metrics and outages, with restarts, lost replies and foreign writes.    *)
(***************************************************************************)
EXTENDS StorageController, TLAPS

(* Rounding up: CeilDiv(a, b) is the least q with b * q >= a.              *)
LEMMA CeilDivBounds ==
    ASSUME NEW a \in Int, NEW b \in Nat \ {0}
    PROVE  CeilDiv(a, b) \in Int /\ b * CeilDiv(a, b) >= a
<1> DEFINE q == (-a) \div b
<1>1. q \in Int /\ b * q <= -a
      OBVIOUS
<1> HIDE DEF q
<1>2. CeilDiv(a, b) = -q
      BY DEF CeilDiv, q
<1>3. b * (-q) = -(b * q) /\ b * q \in Int
      BY <1>1
<1>4. QED
      BY <1>1, <1>2, <1>3

(* computeNewSize returns AtMax or a size that is larger than the current  *)
(* one and at most the maximum, however small the step.                    *)
LEMMA NewSize ==
    ASSUME NEW current \in Nat, NEW stepPercent \in Int, NEW maxSizeGi \in Int
    PROVE  LET new == computeNewSize(current, stepPercent, maxSizeGi)
           IN  new = AtMax \/ (new \in Nat /\ new > current /\ new <= GiB * maxSizeGi)
<1> DEFINE currentGi == CeilDiv(current, GiB)
           grownGi == CeilDiv(current * (100 + stepPercent), 100 * GiB)
           cappedGi == IF grownGi > maxSizeGi THEN maxSizeGi ELSE grownGi
           newGi == IF cappedGi <= currentGi THEN currentGi + 1 ELSE cappedGi
<1>1. GiB \in Nat \ {0} /\ 100 * GiB \in Nat \ {0}
      BY UnitAssumption
<1>2. currentGi \in Int /\ GiB * currentGi >= current
      BY <1>1, CeilDivBounds
<1>3. grownGi \in Int
      BY <1>1, CeilDivBounds
<1>4. computeNewSize(current, stepPercent, maxSizeGi)
        = IF currentGi >= maxSizeGi THEN AtMax ELSE GiB * newGi
      BY Zenon DEF computeNewSize
<1> HIDE DEF currentGi, grownGi
<1>5. ASSUME ~ (currentGi >= maxSizeGi)
      PROVE  newGi \in Int /\ newGi >= currentGi + 1 /\ newGi <= maxSizeGi
      BY <1>2, <1>3, <1>5
<1> HIDE DEF newGi
<1>6. ASSUME NEW x \in Int, NEW y \in Int, x <= y PROVE GiB * x <= GiB * y
      BY <1>1, <1>6
<1>7. CASE ~ (currentGi >= maxSizeGi)
  <2>1. newGi \in Int /\ newGi >= currentGi + 1 /\ newGi <= maxSizeGi
        BY <1>5, <1>7
  <2>2. GiB * newGi <= GiB * maxSizeGi
        BY <2>1, <1>6
  <2>3. GiB * (currentGi + 1) <= GiB * newGi /\ currentGi + 1 \in Int
        BY <2>1, <1>2, <1>6
  <2>4. GiB * (currentGi + 1) = GiB * currentGi + GiB
        BY <1>1, <1>2
  <2>5. GiB * currentGi \in Int /\ GiB * newGi \in Int
        BY <1>1, <1>2, <2>1
  <2>6. GiB * newGi > current /\ GiB * newGi \in Nat
        BY <1>1, <1>2, <2>3, <2>4, <2>5
  <2>7. QED
        BY <1>4, <1>7, <2>2, <2>6
<1>8. CASE currentGi >= maxSizeGi
      BY <1>4, <1>8
<1>9. QED
      BY <1>7, <1>8

-----------------------------------------------------------------------------
(* The config of a volume.                                                 *)
LEMMA VolumeFacts ==
    ASSUME NEW v \in Volumes
    PROVE  /\ Cfg[v] \in VolumeConfig
           /\ Cfg[v].step \in Int /\ Cfg[v].max \in Int /\ Cfg[v].cooldown \in Int
BY ConfigAssumption DEF VolumeConfig

(* Ages are naturals and stay within their range.                          *)
LEMMA AgeFacts ==
    /\ 0 \in Age /\ Never \notin Age
    /\ \A a \in Age : a \in Nat /\ Older(a) \in Age /\ Older(a) >= a
BY ConfigAssumption DEF Age, Never, Older

(* The process starts with nothing remembered and nothing pending.         *)
LEMMA InitInv == Init => Inv
<1> SUFFICES ASSUME Init PROVE Inv
    OBVIOUS
<1>1. size \in [Volumes -> Size]
      BY InputAssumption DEF Init
<1>2. cap \in [Volumes -> Nat]
  <2>1. \A v \in Volumes : (IF size[v] = NoSize THEN 1 ELSE size[v]) \in Nat
        BY <1>1 DEF Size
  <2>2. QED
        BY <2>1 DEF Init
<1>3. used \in [Volumes -> Nat] /\ last \in [Volumes -> Age \cup {Never}]
      BY DEF Init
<1>4. ticker \in [left : 1..PollInterval, fired : BOOLEAN]
      BY ConfigAssumption DEF Init, NewTicker
<1>5. snap \in [Volumes -> Observation]
      BY DEF Init, NoSnap, Nothing, Observation, Size
<1>6. decision \in [size : Nat, trigger : Triggers]
      BY DEF Init, NoDecision, Triggers
<1>7. pc = "idle" /\ vol = "pgdata" /\ moved = FALSE
      BY DEF Init
<1>8. QED
      BY <1>1, <1>2, <1>3, <1>4, <1>5, <1>6, <1>7 DEF Inv, TypeOK, PendingResize, Volumes

(* The end of a volume's turn leaves nothing pending.                      *)
LEMMA NextVolumeInv ==
    ASSUME Inv, NextVolume, size' \in [Volumes -> Size],
           last' \in [Volumes -> Age \cup {Never}], UNCHANGED <<cap, used, ticker>>
    PROVE  Inv'
<1>1. /\ decision' \in [size : Nat, trigger : Triggers]
      /\ moved' \in BOOLEAN
      BY DEF NextVolume, NoDecision, Triggers
<1>2. /\ pc' \in {"idle", "decide"} /\ vol' \in Volumes
      /\ snap' = snap \/ snap' = NoSnap
      BY DEF NextVolume, Volumes
<1>3. NoSnap \in [Volumes -> Observation]
      BY DEF NoSnap, Nothing, Observation, Size
<1>4. snap' \in [Volumes -> Observation]
      BY <1>2, <1>3 DEF Inv, TypeOK
<1>5. TypeOK'
      BY <1>1, <1>2, <1>4 DEF Inv, TypeOK
<1>6. PendingResize'
      BY <1>2 DEF PendingResize
<1>7. QED
      BY <1>5, <1>6 DEF Inv

(* Time passing can only end a cooldown.                                   *)
LEMMA TickInv == Inv /\ Tick => Inv'
<1> SUFFICES ASSUME Inv, Tick PROVE Inv'
    OBVIOUS
<1>1. /\ last \in [Volumes -> Age \cup {Never}] /\ vol \in Volumes
      /\ ticker \in [left : 1..PollInterval, fired : BOOLEAN]
      BY DEF Inv, TypeOK
<1>2. ASSUME NEW v \in Volumes
      PROVE  /\ last'[v] \in Age \cup {Never}
             /\ last[v] = Never => last'[v] = Never
             /\ last[v] # Never => last[v] \in Age /\ last'[v] \in Age /\ last'[v] >= last[v]
  <2>1. last'[v] = IF last[v] = Never THEN Never ELSE Older(last[v])
        BY DEF Tick
  <2>2. QED
        BY <1>1, <2>1, AgeFacts
<1>3. last' \in [Volumes -> Age \cup {Never}]
      BY <1>2 DEF Tick
<1>4. ticker' \in [left : 1..PollInterval, fired : BOOLEAN]
  <2>1. ticker.left \in 1..PollInterval /\ ticker.fired \in BOOLEAN
        BY <1>1
  <2>2. PollInterval \in 1..PollInterval /\ (ticker.left # 1 => ticker.left - 1 \in 1..PollInterval)
        BY <2>1, ConfigAssumption
  <2>3. QED
        BY <2>1, <2>2 DEF Tick
<1>5. TypeOK'
      BY <1>3, <1>4 DEF Inv, TypeOK, Tick, loopVars
<1>6. PendingResize'
  <2>1. /\ pc' = pc /\ vol' = vol /\ snap' = snap /\ decision' = decision
        BY DEF Tick, loopVars
  <2>2. Cfg[vol].cooldown \in Int
        BY <1>1, VolumeFacts
  <2>3. ASSUME last[vol] = Never \/ last[vol] >= Cfg[vol].cooldown
        PROVE  last'[vol] = Never \/ last'[vol] >= Cfg[vol].cooldown
    <3>1. CASE last[vol] = Never
          BY <1>1, <1>2, <3>1
    <3>2. CASE last[vol] # Never
      <4>1. last[vol] \in Nat /\ last'[vol] \in Nat /\ last'[vol] >= last[vol]
            BY <1>1, <1>2, <3>2, AgeFacts
      <4>2. QED
            BY <2>2, <2>3, <3>2, <4>1
    <3>3. QED
          BY <3>1, <3>2
  <2>4. QED
        BY <2>1, <2>3 DEF Inv, PendingResize
<1>7. QED
      BY <1>5, <1>6 DEF Inv

(* The database, the CSI driver and other clients do not touch what is     *)
(* pending.                                                                *)
LEMMA EnvironmentInv == Inv /\ (Fill \/ Expand \/ ForeignWrite) => Inv'
<1> SUFFICES ASSUME Inv, Fill \/ Expand \/ ForeignWrite PROVE Inv'
    OBVIOUS
<1>1. /\ size \in [Volumes -> Size] /\ cap \in [Volumes -> Nat] /\ used \in [Volumes -> Nat]
      BY DEF Inv, TypeOK
<1>2. CASE Fill
  <2>1. used' \in [Volumes -> Nat]
        BY <1>1, <1>2 DEF Fill
  <2>2. QED
        BY <1>2, <2>1 DEF Fill, Inv, TypeOK, PendingResize, loopVars
<1>3. CASE Expand
  <2>1. PICK v \in Volumes : cap[v] < size[v] /\ cap' = [cap EXCEPT ![v] = size[v]]
        BY <1>3 DEF Expand
  <2>2. size[v] \in Nat
        BY <1>1, <2>1 DEF Size, NoSize
  <2>3. cap' \in [Volumes -> Nat]
        BY <1>1, <2>1, <2>2
  <2>4. QED
        BY <1>3, <2>3 DEF Expand, Inv, TypeOK, PendingResize, loopVars
<1>4. CASE ForeignWrite
  <2>1. size' \in [Volumes -> Size]
        BY <1>1, <1>4, InputAssumption DEF ForeignWrite, Size
  <2>2. moved' \in BOOLEAN
        BY <1>4 DEF ForeignWrite
  <2>3. QED
        BY <1>4, <2>1, <2>2 DEF ForeignWrite, Inv, TypeOK, PendingResize
<1>5. QED
      BY <1>2, <1>3, <1>4

(* A restart forgets the resizes.                                          *)
LEMMA RestartInv == Inv /\ Restart => Inv'
<1> SUFFICES ASSUME Inv, Restart PROVE Inv'
    OBVIOUS
<1>1. last' \in [Volumes -> Age \cup {Never}]
      BY DEF Restart
<1>2. ticker' \in [left : 1..PollInterval, fired : BOOLEAN]
      BY ConfigAssumption DEF Restart, NewTicker
<1>3. snap' \in [Volumes -> Observation]
      BY DEF Restart, NoSnap, Nothing, Observation, Size
<1>4. decision' \in [size : Nat, trigger : Triggers]
      BY DEF Restart, NoDecision, Triggers
<1>5. /\ pc' = "idle" /\ vol' = "pgdata" /\ moved' = FALSE
      /\ UNCHANGED <<size, cap, used>>
      BY DEF Restart
<1>6. QED
      BY <1>1, <1>2, <1>3, <1>4, <1>5 DEF Inv, TypeOK, PendingResize, Volumes

(* Observing, whatever the queries return.                                 *)
LEMMA ObserveInv == Inv /\ (Observe \/ ObserveError) => Inv'
<1> SUFFICES ASSUME Inv, Observe \/ ObserveError PROVE Inv'
    OBVIOUS
<1>1. ticker' \in [left : 1..PollInterval, fired : BOOLEAN]
  <2>1. ticker.left \in 1..PollInterval
        BY DEF Inv, TypeOK
  <2>2. ticker' = [left |-> ticker.left, fired |-> FALSE]
        BY DEF Observe, ObserveError
  <2>3. QED
        BY <2>1, <2>2
<1>2. CASE Observe
  <2>1. PICK failed \in Outages, empty \in Outages, growth \in Growths, signal \in Signals :
          snap' = [v \in Volumes |-> observed(v, failed, empty, growth, signal)]
        BY <1>2 DEF Observe
  <2>2. ASSUME NEW v \in Volumes
        PROVE  observed(v, failed, empty, growth, signal) \in Observation
    <3>1. size[v] \in Size
          BY DEF Inv, TypeOK
    <3>2. QED
          BY <3>1, Zenon DEF observed, Observation, checkSafetyGuards, AtLeast,
             isPreemptiveNeeded, isResizePropagating
  <2>3. snap' \in [Volumes -> Observation]
        BY <2>1, <2>2
  <2>4. /\ pc' = "decide" /\ vol' = "pgdata"
        /\ UNCHANGED <<size, cap, used, last, decision, moved>>
        BY <1>2 DEF Observe
  <2>5. QED
        BY <1>1, <2>3, <2>4 DEF Inv, TypeOK, PendingResize, Volumes
<1>3. CASE ObserveError
      BY <1>1, <1>3 DEF ObserveError, Inv, TypeOK, PendingResize, loopVars
<1>4. QED
      BY <1>2, <1>3

(* Deciding.                                                               *)
LEMMA DecideInv == Inv /\ Decide => Inv'
<1> SUFFICES ASSUME Inv, Decide PROVE Inv'
    OBVIOUS
<1>1. /\ vol \in Volumes /\ snap[vol] \in Observation /\ snap[vol].size \in Size
      /\ size \in [Volumes -> Size] /\ last \in [Volumes -> Age \cup {Never}]
      /\ last[vol] \in Age \cup {Never}
  <2>1. /\ vol \in Volumes /\ snap \in [Volumes -> Observation]
        /\ size \in [Volumes -> Size] /\ last \in [Volumes -> Age \cup {Never}]
        BY DEF Inv, TypeOK
  <2>2. snap[vol] \in Observation
        BY <2>1
  <2>3. QED
        BY <2>1, <2>2 DEF Observation
<1>2. UNCHANGED <<size, cap, used, last, ticker>>
      BY DEF Decide
<1>3. CASE NextVolume
      BY <1>1, <1>2, <1>3, NextVolumeInv
<1>4. CASE /\ shouldResize(vol)
           /\ decision' = [size    |-> newSize(vol),
                           trigger |-> IF isCritical(snap[vol]) THEN "critical"
                                       ELSE IF snap[vol].preemptive THEN "preemptive"
                                       ELSE "reactive"]
           /\ pc' = "get"
           /\ UNCHANGED <<vol, snap, moved>>
  <2>1. /\ snap[vol].size # NoSize /\ newSize(vol) # AtMax
        /\ isCritical(snap[vol]) \/ ~ inCooldown(vol)
        BY <1>4 DEF shouldResize
  <2>2. snap[vol].size \in Nat \ {0}
        BY <1>1, <2>1 DEF Size
  <2>3. newSize(vol) \in Nat /\ newSize(vol) > snap[vol].size /\ newSize(vol) <= GiB * Cfg[vol].max
        BY <1>1, <2>1, <2>2, VolumeFacts, NewSize DEF newSize
  <2>4. decision' \in [size : Nat, trigger : Triggers] /\ decision'.size = newSize(vol)
        BY <1>4, <2>3 DEF Triggers
  <2>5. \/ last[vol] = Never
        \/ last[vol] >= Cfg[vol].cooldown
        \/ snap[vol].critical /\ ~ snap[vol].propagating
    <3>1. CASE isCritical(snap[vol])
          BY <3>1 DEF isCritical
    <3>2. CASE ~ inCooldown(vol)
      <4>1. last[vol] = Never \/ ~ (last[vol] < Cfg[vol].cooldown)
            BY <3>2 DEF inCooldown
      <4>2. last[vol] # Never => last[vol] \in Nat
            BY <1>1, AgeFacts
      <4>3. QED
            BY <4>1, <4>2, <1>1, VolumeFacts
    <3>3. QED
          BY <2>1, <3>1, <3>2
  <2>6. TypeOK'
        BY <1>2, <1>4, <2>4 DEF Inv, TypeOK
  <2>7. PendingResize'
        BY <1>2, <1>4, <2>2, <2>3, <2>4, <2>5 DEF PendingResize
  <2>8. QED
        BY <2>6, <2>7 DEF Inv
<1>5. QED
      BY <1>3, <1>4 DEF Decide

(* Carrying out the decision, with every outcome.                          *)
LEMMA ResizeInv ==
    Inv /\ (ResizeGet \/ ResizeUpdate \/ ResizeReplyLost \/ ResizeError) => Inv'
<1> SUFFICES ASSUME Inv, ResizeGet \/ ResizeUpdate \/ ResizeReplyLost \/ ResizeError PROVE Inv'
    OBVIOUS
<1>1. CASE ResizeGet
      BY <1>1 DEF ResizeGet, Inv, TypeOK, PendingResize
<1>2. CASE ResizeUpdate \/ ResizeReplyLost \/ ResizeError
  <2>1. /\ NextVolume /\ UNCHANGED <<cap, used, ticker>>
        /\ size' = size \/ size' = [size EXCEPT ![vol] = decision.size]
        /\ last' = last \/ last' = [last EXCEPT ![vol] = 0]
        BY <1>2 DEF ResizeUpdate, ResizeReplyLost, ResizeError
  <2>2. /\ size \in [Volumes -> Size] /\ last \in [Volumes -> Age \cup {Never}]
        /\ decision.size \in Nat
        BY DEF Inv, TypeOK
  <2>3. size' \in [Volumes -> Size]
    <3>1. decision.size \in Size \/ size' = size
          BY <1>2, <2>2 DEF Inv, PendingResize, Size, ResizeUpdate, ResizeReplyLost, ResizeError
    <3>2. QED
          BY <2>1, <2>2, <3>1
  <2>4. last' \in [Volumes -> Age \cup {Never}]
        BY <2>1, <2>2, AgeFacts
  <2>5. QED
        BY <2>1, <2>3, <2>4, NextVolumeInv
<1>3. QED
      BY <1>1, <1>2

(* Every step keeps the invariant.                                         *)
LEMMA NextInv == Inv /\ [Next]_vars => Inv'
<1> SUFFICES ASSUME Inv, [Next]_vars PROVE Inv'
    OBVIOUS
<1>1. CASE UNCHANGED vars
      BY <1>1 DEF Inv, TypeOK, PendingResize, vars, loopVars
<1>2. CASE Next
      BY <1>2, TickInv, EnvironmentInv, RestartInv, ObserveInv, DecideInv, ResizeInv DEF Next
<1>3. QED
      BY <1>1, <1>2

(* The inductive invariant of the storage controller.                      *)
THEOREM StorageInvariance == Spec => []Inv
<1>1. QED
      BY InitInv, NextInv, PTL DEF Spec

(* Every variable keeps its type.                                          *)
THEOREM StorageTypeCorrect == Spec => []TypeOK
<1>1. Inv => TypeOK
      BY DEF Inv
<1>2. QED
      BY <1>1, StorageInvariance, PTL

(* A step that resizes a volume writes the pending decision.               *)
LEMMA ResizeStep ==
    ASSUME Inv, [Next]_vars, Resized
    PROVE  pc = "update" /\ vol \in Volumes /\ size'[vol] = decision.size
<1>1. pc = "update" /\ pc' # "update" /\ size' # size
      BY DEF Resized
<1>2. size' = [size EXCEPT ![vol] = decision.size]
      BY <1>1 DEF Next, Tick, Fill, Expand, ForeignWrite, Restart, Observe, ObserveError, Decide,
         ResizeGet, ResizeUpdate, ResizeReplyLost, ResizeError, vars, loopVars
<1>3. vol \in Volumes /\ size \in [Volumes -> Size]
      BY DEF Inv, TypeOK
<1>4. QED
      BY <1>1, <1>2, <1>3

(* Whatever is requested is at most the maximum, and no request shrinks a  *)
(* volume whose size is still the one the decision was based on.           *)
THEOREM ResizesGrowToMax == Spec => ResizeGrowsToMax
<1>1. Inv /\ [Next]_vars =>
        [Resized => /\ size'[vol] <= GiB * Cfg[vol].max
                    /\ size'[vol] > size[vol] \/ size[vol] # snap[vol].size]_vars
  <2> SUFFICES ASSUME Inv, [Next]_vars, Resized
               PROVE  /\ size'[vol] <= GiB * Cfg[vol].max
                      /\ size'[vol] > size[vol] \/ size[vol] # snap[vol].size
      OBVIOUS
  <2>1. pc = "update" /\ size'[vol] = decision.size
        BY ResizeStep
  <2>2. decision.size <= GiB * Cfg[vol].max /\ decision.size > snap[vol].size
        BY <2>1 DEF Inv, PendingResize
  <2>3. QED
        BY <2>1, <2>2
<1>2. QED
      BY <1>1, StorageInvariance, PTL DEF Spec, ResizeGrowsToMax

(* Only critical usage that is not the lag of an expansion in flight goes  *)
(* past the cooldown.                                                      *)
THEOREM CooldownsUnlessCritical == Spec => CooldownUnlessCritical
<1>1. Inv /\ [Next]_vars =>
        [Resized => \/ last[vol] = Never
                    \/ last[vol] >= Cfg[vol].cooldown
                    \/ snap[vol].critical /\ ~ snap[vol].propagating]_vars
      BY ResizeStep DEF Inv, PendingResize
<1>2. QED
      BY <1>1, StorageInvariance, PTL DEF Spec, CooldownUnlessCritical

-----------------------------------------------------------------------------
(* A volume whose size stays and whose capacity does not shrink stays      *)
(* settled, and within one step.                                           *)
LEMMA StaysWithin ==
    ASSUME NEW v \in Volumes, size[v] \in Size, cap[v] \in Nat, cap'[v] \in Nat,
           size'[v] = size[v], cap'[v] >= cap[v]
    PROVE  /\ Settled(v) => Settled(v)'
           /\ WithinOneStep(v) => WithinOneStep(v)'
<1>1. size[v] \in Int
      BY DEF Size, NoSize
<1>2. cap[v] * 105 <= cap'[v] * 105 /\ cap[v] * 105 \in Int /\ cap'[v] * 105 \in Int
      OBVIOUS
<1>3. Settled(v) => Settled(v)'
      BY <1>1, <1>2 DEF Settled
<1>4. ASSUME NEW s \in 0..size[v], s * 100 <= cap[v] * 105,
             size[v] = computeNewSize(s, Cfg[v].step, Cfg[v].max)
      PROVE  WithinOneStep(v)'
  <2>1. s * 100 <= cap'[v] * 105 /\ s \in 0..size'[v]
        BY <1>2, <1>4
  <2>2. QED
        BY <1>4, <2>1 DEF WithinOneStep
<1>5. QED
      BY <1>3, <1>4 DEF WithinOneStep

(* At the start every volume has what it is asked for.                     *)
LEMMA InitStep == Init => StepInv
<1> SUFFICES ASSUME Init PROVE StepInv
    OBVIOUS
<1>1. Inv /\ pc = "idle"
      BY InitInv DEF Init
<1>2. ASSUME NEW v \in Volumes PROVE cap[v] >= 1 /\ WithinOneStep(v)
  <2>1. size[v] \in Size /\ cap[v] = IF size[v] = NoSize THEN 1 ELSE size[v]
        BY <1>1 DEF Init, Inv, TypeOK
  <2>2. CASE size[v] = NoSize
        BY <2>1, <2>2 DEF WithinOneStep
  <2>3. CASE size[v] # NoSize
    <3>1. size[v] \in Nat /\ size[v] >= 1 /\ cap[v] = size[v]
          BY <2>1, <2>3 DEF Size
    <3>2. QED
          BY <3>1 DEF WithinOneStep, Settled
  <2>4. QED
        BY <2>2, <2>3
<1>3. QED
      BY <1>1, <1>2 DEF StepInv, SnapshotHolds, OneStepAhead

(* The clock, the database, an expansion and a restart.                    *)
LEMMA WorldStep ==
    ASSUME StepInv, Tick \/ Fill \/ Expand \/ Restart \/ UNCHANGED vars
    PROVE  SnapshotHolds' /\ OneStepAhead'
<1>1. /\ size \in [Volumes -> Size] /\ cap \in [Volumes -> Nat] /\ vol \in Volumes
      /\ \A v \in Volumes : cap[v] >= 1
      BY DEF StepInv, Inv, TypeOK, SnapshotHolds
<1>2. size' = size
      BY DEF Tick, Fill, Expand, Restart, vars, loopVars
<1>3. ASSUME NEW v \in Volumes PROVE cap'[v] \in Nat /\ cap'[v] >= cap[v]
  <2>1. CASE Expand
    <3>1. PICK u \in Volumes : cap[u] < size[u] /\ cap' = [cap EXCEPT ![u] = size[u]]
          BY <2>1 DEF Expand
    <3>2. size[u] \in Int
          BY <1>1, <3>1 DEF Size, NoSize
    <3>3. cap[u] \in Nat /\ cap[v] \in Nat
          BY <1>1, <3>1
    <3>4. cap'[v] = IF v = u THEN size[u] ELSE cap[v]
          BY <1>1, <3>1
    <3>5. QED
          BY <3>1, <3>2, <3>3, <3>4
  <2>2. CASE ~ Expand
        BY <1>1, <2>2 DEF Tick, Fill, Restart, vars, loopVars
  <2>3. QED
        BY <2>1, <2>2
<1>4. ASSUME NEW v \in Volumes
      PROVE  /\ cap'[v] >= 1
             /\ Settled(v) => Settled(v)'
             /\ WithinOneStep(v)'
  <2>1. size[v] \in Size /\ cap[v] \in Nat /\ cap[v] >= 1 /\ size'[v] = size[v]
        BY <1>1, <1>2
  <2>2. WithinOneStep(v)
        BY DEF StepInv, OneStepAhead
  <2>3. QED
        BY <1>3, <2>1, <2>2, StaysWithin
<1>5. OneStepAhead'
      BY <1>4 DEF OneStepAhead
<1>6. CASE Restart
  <2>1. pc' = "idle"
        BY <1>6 DEF Restart
  <2>2. \A v \in Volumes : cap'[v] >= 1
        BY <1>4
  <2>3. QED
        BY <1>5, <2>1, <2>2 DEF SnapshotHolds
<1>7. CASE ~ Restart
  <2>1. pc' = pc /\ vol' = vol /\ snap' = snap /\ decision' = decision
        BY <1>7 DEF Tick, Fill, Expand, vars, loopVars
  <2>2. ASSUME NEW v \in Volumes, SnapshotAgrees(v) PROVE SnapshotAgrees(v)'
        BY <1>2, <1>4, <2>1, <2>2 DEF SnapshotAgrees
  <2>3. pc' # "idle" => SnapshotAgrees(vol)' /\ SnapshotAgrees("wal")'
    <3>1. pc # "idle" => SnapshotAgrees(vol) /\ SnapshotAgrees("wal")
          BY DEF StepInv, SnapshotHolds
    <3>2. "wal" \in Volumes
          BY DEF Volumes
    <3>3. QED
          BY <1>1, <2>1, <2>2, <3>1, <3>2
  <2>4. pc' \in {"get", "update"} => /\ size'[vol'] # NoSize /\ Settled(vol)'
                                     /\ decision'.size = newSize(vol)'
    <3>1. pc \in {"get", "update"} => /\ size[vol] # NoSize /\ Settled(vol)
                                      /\ decision.size = newSize(vol)
          BY DEF StepInv, SnapshotHolds
    <3>2. Settled(vol) => Settled(vol)'
          BY <1>1, <1>4, <2>1
    <3>3. newSize(vol)' = newSize(vol)
          BY <2>1 DEF newSize
    <3>4. QED
          BY <1>2, <2>1, <3>1, <3>2, <3>3
  <2>5. \A v \in Volumes : cap'[v] >= 1
        BY <1>4
  <2>6. QED
        BY <1>5, <2>3, <2>4, <2>5 DEF SnapshotHolds
<1>8. QED
      BY <1>6, <1>7

(* A capacity that is read and not propagating settles the volume, and     *)
(* without a horizon no resize is preemptive.                              *)
LEMMA ObserveStep ==
    ASSUME Undistorted, StepInv, Observe \/ ObserveError
    PROVE  SnapshotHolds' /\ OneStepAhead'
<1>1. /\ size \in [Volumes -> Size] /\ cap \in [Volumes -> Nat]
      /\ \A v \in Volumes : cap[v] >= 1
      BY DEF StepInv, Inv, TypeOK, SnapshotHolds
<1>2. pc = "idle" /\ size' = size /\ cap' = cap
      BY DEF Observe, ObserveError
<1>3. OneStepAhead'
  <2>1. ASSUME NEW v \in Volumes PROVE WithinOneStep(v)'
        BY <1>2 DEF StepInv, OneStepAhead, WithinOneStep, Settled
  <2>2. QED
        BY <2>1 DEF OneStepAhead
<1>4. \A v \in Volumes : cap'[v] >= 1
      BY <1>1, <1>2
<1>5. CASE Observe
  <2>1. PICK failed \in Outages, empty \in Outages, growth \in Growths, signal \in Signals :
          snap' = [v \in Volumes |-> observed(v, failed, empty, growth, signal)]
        BY <1>5 DEF Observe
  <2>2. ASSUME NEW v \in Volumes PROVE SnapshotAgrees(v)'
    <3>1. snap'[v] = observed(v, failed, empty, growth, signal)
          BY <2>1
    <3>2. reading(v, "capacity", cap[v], failed, empty) = cap[v]
          BY DEF Undistorted, reading
    <3>3. snap'[v].size = size[v]
          BY <3>1 DEF observed
    <3>4. snap'[v].propagating = isResizePropagating(cap[v], size[v])
          BY <3>1, <3>2 DEF observed
    <3>5. ~ snap'[v].preemptive
      <4>1. ~ (Cfg[v].horizon > 0)
            BY ConfigAssumption DEF Undistorted, VolumeConfig
      <4>2. QED
            BY <3>1, <4>1 DEF observed, isPreemptiveNeeded
    <3>6. ~ isResizePropagating(cap[v], size[v]) => size[v] = NoSize \/ Settled(v)
      <4>1. cap[v] \in Nat /\ cap[v] >= 1 /\ size[v] \in Int
            BY <1>1 DEF Size, NoSize
      <4>2. cap[v] # NaN
            BY <4>1, UnitAssumption
      <4>3. QED
            BY <4>1, <4>2 DEF isResizePropagating, Above, Settled
    <3>7. QED
          BY <1>2, <3>3, <3>4, <3>5, <3>6 DEF SnapshotAgrees, Settled
  <2>3. pc' = "decide" /\ vol' = "pgdata"
        BY <1>5 DEF Observe
  <2>4. SnapshotAgrees(vol)' /\ SnapshotAgrees("wal")'
    <3>1. SnapshotAgrees("pgdata")' /\ SnapshotAgrees("wal")'
          BY <2>2 DEF Volumes
    <3>2. QED
          BY <2>3, <3>1 DEF SnapshotAgrees, Settled
  <2>5. QED
        BY <1>3, <1>4, <2>3, <2>4 DEF SnapshotHolds
<1>6. CASE ObserveError
  <2>1. pc' = "idle"
        BY <1>2, <1>6 DEF ObserveError, loopVars
  <2>2. QED
        BY <1>3, <1>4, <2>1 DEF SnapshotHolds
<1>7. QED
      BY <1>5, <1>6

(* The end of a volume's turn: the snapshot still holds of the WAL volume, *)
(* which nobody has resized.                                               *)
LEMMA NextVolumeStep ==
    ASSUME StepInv, pc # "idle", NextVolume, cap' = cap,
           vol = "pgdata" => size'["wal"] = size["wal"]
    PROVE  SnapshotHolds'
<1>1. \A v \in Volumes : cap'[v] >= 1
      BY DEF StepInv, SnapshotHolds
<1>2. CASE vol = "pgdata"
  <2>1. pc' = "decide" /\ vol' = "wal" /\ snap' = snap
        BY <1>2 DEF NextVolume
  <2>2. SnapshotAgrees("wal")
        BY DEF StepInv, SnapshotHolds
  <2>3. SnapshotAgrees("wal")'
        BY <1>2, <2>1, <2>2 DEF SnapshotAgrees, Settled
  <2>4. SnapshotAgrees(vol)'
        BY <2>1, <2>3 DEF SnapshotAgrees, Settled
  <2>5. QED
        BY <1>1, <2>1, <2>3, <2>4 DEF SnapshotHolds
<1>3. CASE vol # "pgdata"
  <2>1. pc' = "idle"
        BY <1>3 DEF NextVolume
  <2>2. QED
        BY <1>1, <2>1 DEF SnapshotHolds
<1>4. QED
      BY <1>2, <1>3

(* What is decided without a horizon is decided for a settled volume.      *)
LEMMA DecideStep ==
    ASSUME StepInv, Decide
    PROVE  SnapshotHolds' /\ OneStepAhead'
<1>1. pc = "decide" /\ size' = size /\ cap' = cap
      BY DEF Decide
<1>2. OneStepAhead'
  <2>1. ASSUME NEW v \in Volumes PROVE WithinOneStep(v)'
        BY <1>1 DEF StepInv, OneStepAhead, WithinOneStep, Settled
  <2>2. QED
        BY <2>1 DEF OneStepAhead
<1>3. CASE NextVolume
      BY <1>1, <1>2, <1>3, NextVolumeStep
<1>4. CASE shouldResize(vol) /\ decision'.size = newSize(vol) /\ pc' = "get"
           /\ UNCHANGED <<vol, snap, moved>>
  <2>1. SnapshotAgrees(vol) /\ SnapshotAgrees("wal")
        BY <1>1 DEF StepInv, SnapshotHolds
  <2>2. size[vol] # NoSize /\ Settled(vol)
        BY <1>4, <2>1 DEF SnapshotAgrees, shouldResize, triggered
  <2>3. SnapshotAgrees(vol)' /\ SnapshotAgrees("wal")'
        BY <1>1, <1>4, <2>1 DEF SnapshotAgrees, Settled
  <2>4. size'[vol'] # NoSize /\ Settled(vol)'
        BY <1>1, <1>4, <2>2 DEF Settled
  <2>5. decision'.size = newSize(vol)'
        BY <1>4 DEF newSize
  <2>6. \A v \in Volumes : cap'[v] >= 1
        BY <1>1 DEF StepInv, SnapshotHolds
  <2>7. QED
        BY <1>2, <2>3, <2>4, <2>5, <2>6 DEF SnapshotHolds
<1>5. QED
      BY <1>3, <1>4 DEF Decide

(* A resize takes a settled volume one step further.                       *)
LEMMA ResizeStepAhead ==
    ASSUME StepInv, ResizeGet \/ ResizeUpdate \/ ResizeReplyLost \/ ResizeError
    PROVE  SnapshotHolds' /\ OneStepAhead'
<1>1. /\ size \in [Volumes -> Size] /\ vol \in Volumes /\ cap' = cap
      /\ pc \in {"get", "update"} /\ \A v \in Volumes : cap[v] >= 1
      BY DEF StepInv, Inv, TypeOK, SnapshotHolds, ResizeGet, ResizeUpdate, ResizeReplyLost, ResizeError
<1>2. size[vol] # NoSize /\ Settled(vol) /\ decision.size = newSize(vol)
      BY <1>1 DEF StepInv, SnapshotHolds
<1>3. SnapshotAgrees(vol) /\ SnapshotAgrees("wal")
      BY <1>1 DEF StepInv, SnapshotHolds
<1>4. ASSUME NEW v \in Volumes, size'[v] = size[v] PROVE WithinOneStep(v)'
      BY <1>1, <1>4 DEF StepInv, OneStepAhead, WithinOneStep, Settled
<1>5. CASE ResizeGet
  <2>1. pc' = "update" /\ UNCHANGED <<size, vol, snap, decision>>
        BY <1>5 DEF ResizeGet
  <2>2. SnapshotAgrees(vol)' /\ SnapshotAgrees("wal")'
        BY <1>1, <1>3, <2>1 DEF SnapshotAgrees, Settled
  <2>3. size'[vol'] # NoSize /\ Settled(vol)'
        BY <1>1, <1>2, <2>1 DEF Settled
  <2>4. decision'.size = newSize(vol)'
        BY <1>2, <2>1 DEF newSize
  <2>5. OneStepAhead'
        BY <1>4, <2>1 DEF OneStepAhead
  <2>6. QED
        BY <1>1, <2>2, <2>3, <2>4, <2>5 DEF SnapshotHolds
<1>6. CASE size' = size /\ NextVolume
  <2>1. SnapshotHolds'
        BY <1>1, <1>6, NextVolumeStep
  <2>2. OneStepAhead'
        BY <1>4, <1>6 DEF OneStepAhead
  <2>3. QED
        BY <2>1, <2>2
<1>7. CASE size' = [size EXCEPT ![vol] = decision.size] /\ NextVolume
  <2>1. size'[vol] = decision.size
        BY <1>1, <1>7
  <2>2. PICK w \in Volumes : w = vol
        BY <1>1
  <2>3. /\ size[w] \in Nat /\ size[w] * 100 <= cap[w] * 105
        /\ size'[w] = computeNewSize(size[w], Cfg[w].step, Cfg[w].max)
        /\ size'[w] \in Nat /\ size[w] < size'[w]
    <3>1. snap[w].size = size[w]
          BY <1>3, <2>2 DEF SnapshotAgrees
    <3>2. size[w] \in Nat
          BY <1>1, <1>2, <2>2 DEF Size
    <3>3. decision.size \in Nat /\ decision.size > snap[w].size
          BY <1>1, <2>2 DEF StepInv, Inv, TypeOK, PendingResize
    <3>4. size'[w] = newSize(w)
          BY <1>2, <2>1, <2>2
    <3>5. QED
          BY <1>2, <2>1, <2>2, <3>1, <3>2, <3>3, <3>4 DEF Settled, newSize
  <2>4. size[w] \in 0..size'[w] /\ cap'[w] = cap[w]
        BY <1>1, <2>3
  <2>5. WithinOneStep(w)'
        BY <2>3, <2>4 DEF WithinOneStep
  <2>6. ASSUME NEW v \in Volumes, v # w PROVE WithinOneStep(v)'
    <3>1. size'[v] = size[v]
          BY <1>1, <1>7, <2>2, <2>6
    <3>2. QED
          BY <1>4, <3>1
  <2>7. OneStepAhead'
        BY <2>5, <2>6 DEF OneStepAhead
  <2>8. vol = "pgdata" => size'["wal"] = size["wal"]
        BY <1>1, <1>7 DEF Volumes
  <2>9. SnapshotHolds'
        BY <1>1, <1>7, <2>8, NextVolumeStep
  <2>10. QED
         BY <2>7, <2>9
<1>8. QED
      BY <1>5, <1>6, <1>7 DEF ResizeUpdate, ResizeReplyLost, ResizeError

(* Every step of an undistorted controller keeps the invariant.            *)
LEMMA NextStep == Undistorted /\ StepInv /\ [Next]_vars => StepInv'
<1> SUFFICES ASSUME Undistorted, StepInv, [Next]_vars PROVE StepInv'
    OBVIOUS
<1>1. Inv'
      BY NextInv DEF StepInv
<1>2. ~ ForeignWrite
      BY DEF Undistorted, ForeignWrite
<1>3. SnapshotHolds' /\ OneStepAhead'
      BY <1>2, WorldStep, ObserveStep, DecideStep, ResizeStepAhead DEF Next
<1>4. QED
      BY <1>1, <1>3 DEF StepInv

(* Requests do not run ahead of the metrics: as long as every capacity     *)
(* query is answered, nobody else resizes and no horizon is configured,    *)
(* the size in the Cluster is at most one computeNewSize step past 105% of *)
(* the capacity the kubelet reports, through restarts, which forget every  *)
(* cooldown, and updates whose reply is lost.                              *)
THEOREM StaysOneStepAhead == ASSUME Undistorted PROVE Spec => []OneStepAhead
<1>1. StepInv /\ [Next]_vars => StepInv'
      BY NextStep
<1>2. StepInv => OneStepAhead
      BY DEF StepInv
<1>3. QED
      BY <1>1, <1>2, InitStep, PTL DEF Spec
=============================================================================
