CONSTANTS
    Handlers = {h1}
    MaxConns = 1
    MaxQueries = 2
SPECIFICATION HangSpec
PROPERTIES SignalFlushes
\* the process exits
CHECK_DEADLOCK FALSE
