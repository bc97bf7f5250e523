SPECIFICATION Spec
CONSTANTS
    Requests = {q1, q2}
    Names <- TwoAndOne
    Contents = {v, w}
    Second = w
    Empty = Empty
    NoFile = NoFile
    Missing = Missing
CONSTRAINTS OverlapInConfigs TwoContentsInFirst
SYMMETRY Symmetry
INVARIANTS AnsweredIsDurable SuccessAligns
