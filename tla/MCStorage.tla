------------------------------ MODULE MCStorage ------------------------------
(* Instances of StorageController for TLC.                                 *)
EXTENDS StorageController

data == [enabled |-> TRUE, up |-> 70, critical |-> 90, step |-> 50,
         max |-> 3, cooldown |-> 2, horizon |-> 0]

BothVolumes == [pgdata |-> [data EXCEPT !.horizon = 2, !.max = 4],
                wal    |-> [data EXCEPT !.up = 60, !.cooldown = 1, !.max = 2]]
SmallSteps == [pgdata |-> [data EXCEPT !.step = 3], wal |-> [data EXCEPT !.up = 60, !.cooldown = 1]]

TwoGuards == [pending |-> 1, lag |-> 1]
Noisy     == {[pending |-> 0, lag |-> NaN], [pending |-> 2, lag |-> 0]}

NoOutage   == {{}}
AnyOutage  == {{}, {<<"pgdata", "usage">>}, {<<"pgdata", "capacity">>},
               {<<"pgdata", "available">>, <<"wal", "capacity">>}}

TwoVolumes == {[pgdata |-> 3, wal |-> 2]}
=============================================================================
