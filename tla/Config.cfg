\* Numbers on both sides of the largest int32; one setting, or one bare
\* section, in each of the file and the environment.
CONSTANTS
    MaxInt32 = 3
    MaxEntries = 1
SPECIFICATION Spec
INVARIANTS Precedence PoolAsAsked ObsAsAsked
\* start-up ends
CHECK_DEADLOCK FALSE
