---------------------------- MODULE LoadPattern ----------------------------
(***************************************************************************)
(* The load generator's scenarios (pattern.StepPattern): steps of a        *)
(* duration, a rate and the rate to reach at the end of the step.  Time is *)
(* counted in ticks of drivePattern.  A rate is counted in 1/Scale         *)
(* requests a second, so that an interpolated rate is exact wherever the   *)
(* durations divide Scale.                                                 *)
(***************************************************************************)
EXTENDS Integers, Sequences

CONSTANT Scale

ASSUME ScaleAssumption == Scale \in Nat \ {0}

(* LoadFile refuses a scenario without steps; negative rates and durations *)
(* are not refused, nor is a duration of zero.                             *)
Step == [duration : Int, rps : Int, endRps : Int]
IsPattern(p) ==
    /\ p \in Seq(Step)
    /\ p # <<>>
    /\ \A i \in DOMAIN p : p[i].duration > 0 => Scale % p[i].duration = 0

(* When step i + 1 begins.                                                 *)
Cumul(p) ==
    LET cumul[i \in 0..Len(p)] == IF i = 0 THEN 0 ELSE cumul[i - 1] + p[i].duration
    IN  cumul

TotalDuration(p) == Cumul(p)[Len(p)]

(* The first step that time t falls in, if any.  (After a step of negative *)
(* duration there may be more than one.)                                   *)
At(p, t) ==
    LET In(i) == t - Cumul(p)[i - 1] \in 0..(p[i].duration - 1)
    IN  {i \in DOMAIN p : In(i) /\ \A j \in 1..(i - 1) : ~In(j)}

(* Linear interpolation within the step; an end of 0 means no ramp.        *)
Within(s, t) ==
    IF s.endRps = 0 THEN Scale * s.rps
    ELSE Scale * s.rps + t * (Scale \div s.duration) * (s.endRps - s.rps)

(* After the last step its rate holds.                                     *)
Held(p) == LET s == p[Len(p)] IN Scale * (IF s.endRps # 0 THEN s.endRps ELSE s.rps)

RPS(p, t) ==
    IF At(p, t) = {} THEN Held(p)
    ELSE LET i == CHOOSE i \in At(p, t) : TRUE
         IN  Within(p[i], t - Cumul(p)[i - 1])
=============================================================================
