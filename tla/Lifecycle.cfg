\* Three requests for two connections.  No symmetry: TLC's liveness check
\* does not allow it.
CONSTANTS
    Handlers = {h1, h2, h3}
    MaxConns = 2
    MaxQueries = 2
SPECIFICATION FairSpec
INVARIANTS SuccessCutsNothing ListenFailureSurfaces DrainedSpansFlushed InitIsUndone
PROPERTIES SignalEnds
\* the process exits
CHECK_DEADLOCK FALSE
