\* Two submits under one key, across one tick of the clock.
CONSTANTS
    Requests = {r1, r2}
    Ids = {i1, i2}
    NoId = NoId
    Keys = {k1}
    NoKey = NoKey
    MaxTime = 1
SPECIFICATION Spec
INVARIANTS ReplayIndistinguishable
\* every attempt ends, so the bounded system stops
CHECK_DEADLOCK FALSE
