---------------------------- MODULE MCLoadEngine ----------------------------
(* Two workers: discovery without a scenario; a fixed pool without one,    *)
(* with a ramp down under a rate cap, and with a ramp from 0 without one.  *)
EXTENDS LoadEngine

RampDown == <<[duration |-> 2, rps |-> 2, endRps |-> 1]>>
RampUp   == <<[duration |-> 2, rps |-> 0, endRps |-> 1]>>

Line(m, c, r, s, k) == [mode |-> m, conns |-> c, maxRPS |-> r, scenario |-> s, tokens |-> k]

SomeFlags ==
    { Line("discovery", 4, 0, <<>>, 1), Line("fixed", 1, 1, <<>>, 1),
      Line("fixed", 4, 1, RampDown, 2), Line("fixed", 4, 0, RampUp, 1) }
SomeWaves == { <<{"a", "b"}, {"b", "u"}>>, <<{"a"}, {"b"}>> }
=============================================================================
