\* Three attempts: two under the key, or one without a key as bystander, and
\* a replay or a GET to compare their answers with, in this second or the next.
CONSTANTS
    Requests = {r1, r2, r3}
    Ids = {i1, i2}
    NoId = NoId
    Keys = {k1}
    NoKey = NoKey
    MaxTime = 1
SPECIFICATION Spec
SYMMETRY Symmetry
CONSTRAINT Quiet
INVARIANTS
    IInv
    SameTaskIffSameKey
    CreatedIsStored
    EachRowHasItsSubmit
    StableView
PROPERTIES ReadYourWrites ImplementsPromise
\* every attempt ends, so the bounded system stops
CHECK_DEADLOCK FALSE
