SPECIFICATION Spec
CONSTANTS
    c1 = c1
    p1 = p1
    p2 = p2
    Callers = {c1}
    NumKeys = 2
    Apis = {p1, p2}
    Max = 2
    Rpm = 1
    Window = 2
    MaxCharges = 4
    MaxFaults = 1
SYMMETRY Alike
INVARIANT LimitsInv
INVARIANT CallerLimited
INVARIANT KeyLimited
