\* One connection for two submits of one task, or for a submit and a GET.
\* No symmetry: TLC's liveness check does not allow it.
CONSTANTS
    Requests = {r1, r2}
    Ids = {i1}
    NoId = NoId
    Keys = {k1}
    NoKey = NoKey
    MaxTime = 1
    MaxConns = 1
SPECIFICATION PooledFairSpec
INVARIANTS PoolTypeOK NoHoldAndWait NoAnswerWithoutQuery
PROPERTIES ImplementsSubmit Served CloseReturns
\* every attempt ends, so the bounded system stops
CHECK_DEADLOCK FALSE
