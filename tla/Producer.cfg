\* One pair, and two scrapers: one may hang while the other is answered.
CONSTANTS
    Requests = {0, 1}
    Ids = {i1, i2}
    NoId = NoId
    Keys = {0}
    NoKey = NoKey
    MaxTime = 0
    MaxSubmits = 2
    Scrapers = {s1, s2}
SPECIFICATION FairProducer
INVARIANTS ExitTellsWhy
PROPERTIES LoopGoesOn SignalStops
\* the process ends, so the system stops
CHECK_DEADLOCK FALSE
