---------------------------- MODULE StorageRules ----------------------------
(***************************************************************************)
(* The pure part of the storage controller (pkg/storage/decider.go and     *)
(* observer.go): what is read off the metrics, and the size of the next    *)
(* volume.  Sizes are counted in units, GiB units make one Gi; a size that *)
(* the Cluster does not have ("") is NoSize.  A metric is an integer, or   *)
(* NaN when its query failed.                                              *)
(***************************************************************************)
EXTENDS Integers

CONSTANTS
    NaN,            \* the value of a metric whose query failed
    GiB             \* units per Gi

ASSUME UnitAssumption == NaN \notin Int /\ GiB \in Nat \ {0}

NoSize == -1
AtMax  == 0

Metric == Int \cup {NaN}
Size   == (Nat \ {0}) \cup {NoSize}

Above(v, t) == v # NaN /\ v > t
AtLeast(v, t) == v # NaN /\ v >= t

(* math.Ceil(a / b) for b > 0.                                             *)
CeilDiv(a, b) == -((-a) \div b)

(* Faulty variants of computeNewSize: the cap is missing; rounding may     *)
(* return the current size.                                                *)
computeNewSizeUncapped(current, stepPercent, maxSizeGi) ==
    IF CeilDiv(current, GiB) >= maxSizeGi THEN AtMax
    ELSE GiB * CeilDiv(current * (100 + stepPercent), 100 * GiB)

computeNewSizeRoundedDown(current, stepPercent, maxSizeGi) ==
    IF CeilDiv(current, GiB) >= maxSizeGi THEN AtMax
    ELSE GiB * ((current * (100 + stepPercent)) \div (100 * GiB))

(* The next size: stepPercent more, in whole Gi, at least one Gi more and  *)
(* at most maxSizeGi; AtMax when the volume has that size already.         *)
computeNewSize(current, stepPercent, maxSizeGi) ==
    LET currentGi == CeilDiv(current, GiB)
        grownGi   == CeilDiv(current * (100 + stepPercent), 100 * GiB)
        cappedGi  == IF grownGi > maxSizeGi THEN maxSizeGi ELSE grownGi
        newGi     == IF cappedGi <= currentGi THEN currentGi + 1 ELSE cappedGi
    IN  IF currentGi >= maxSizeGi THEN AtMax ELSE GiB * newGi

(* The spec asks for over 5% more than the capacity the kubelet reports.   *)
isResizePropagating(capacity, spec) ==
    /\ Above(capacity, 0)
    /\ spec # NoSize
    /\ spec * 100 > capacity * 105

(* Space left, counting a resize in flight as done.                        *)
effectiveAvailable(available, capacity, spec) ==
    LET adjusted == spec - (capacity - available)
    IN  IF /\ available # NaN
           /\ isResizePropagating(capacity, spec)
           /\ adjusted > available
          THEN adjusted
          ELSE available

(* time-to-full = available / growth lies in (0, horizon); the quotient is *)
(* compared without dividing.                                              *)
isPreemptiveNeeded(available, growth, horizon) ==
    /\ horizon > 0
    /\ Above(growth, 0)
    /\ Above(available, 0)
    /\ available < horizon * growth

(* guards: the limits, 0 for none; signal: the values observed.            *)
checkSafetyGuards(signal, guards) ==
    \/ guards.pending > 0 /\ Above(signal.pending, guards.pending)
    \/ guards.lag > 0 /\ Above(signal.lag, guards.lag)
=============================================================================
