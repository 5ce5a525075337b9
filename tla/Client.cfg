\* A length on each side of both ends of the valid range.
CONSTANTS
    Lengths = {0, 1, 128, 129}
    Absent = Absent
SPECIFICATION ClientFairSpec
INVARIANTS
    OnlyValidReachesService
    EnvelopeFits
    SpanTellsTheWire
    EveryAnswerParses
    ResultIsTrue
    SpansAgree
PROPERTIES CallReturns
