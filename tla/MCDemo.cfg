CONSTANTS
    Requests = {0, 1, 2, 3}
    Ids = {i1, i2}
    NoId = NoId
    Keys = {0, 1}
    NoKey = NoKey
    MaxTime = 0
    MaxSubmits = 4
SPECIFICATION DemoSpec
SYMMETRY Symmetry
CONSTRAINT Backlog
INVARIANTS NoFalseAlarm CountersTellPairs
\* the producer stops, and every attempt ends
CHECK_DEADLOCK FALSE
