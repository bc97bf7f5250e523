SPECIFICATION Spec
CONSTANTS
    Contents = {c1, c2, bad}
    Valid = {c1, c2}
    MaxEdits = 3
    c1 = c1
    c2 = c2
    bad = bad
INVARIANTS TypeOK SkippedOnlyIfCurrent
PROPERTIES EditsTakeEffect
