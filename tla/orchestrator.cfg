SPECIFICATION FairSpec
CONSTANTS
    Runs = {r1, r2}
    Clients = {c1, c2}
    Slots = {s1, s2}
    ControlCap = 2
    NoRun = NoRun
    NoSlot = NoSlot
VIEW AllButDeployed
INVARIANTS OneLoop RunningIffExecuted MatrixConsistent
PROPERTIES KeepsQueue StopTakesEffect
