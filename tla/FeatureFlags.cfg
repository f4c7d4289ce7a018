SPECIFICATION Spec
CONSTANTS
    r1 = r1
    r2 = r2
    Slots = {r1, r2}
    KeyCounts = {1, 2}
    Answers <- FewAnswers
    ChildMin = 4
    ChildMax = 10
    MinGap = 12
SYMMETRY Alike
INVARIANT FlagsInv
INVARIANT ApprovedIffFamily
INVARIANT MarkAgrees
INVARIANT PauseAudited
PROPERTY OffIsEarned
