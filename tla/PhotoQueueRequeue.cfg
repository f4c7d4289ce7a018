SPECIFICATION Spec
CONSTANTS
    i1 = i1
    i2 = i2
    i3 = i3
    p1 = p1
    p2 = p2
    w1 = w1
    w2 = w2
    NoId = NoId
    Ids = {i1, i2, i3}
    Apis = {p1, p2}
    Workers = {w1, w2}
    MaxQueue = 1
    Rpm = 1
    MaxFaults = 0
PROPERTY RequeuePutsBack
