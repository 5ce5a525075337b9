\* A length on each side of both ends of the valid range.
CONSTANTS
    Lengths = {0, 1, 128, 129}
    Absent = Absent
SPECIFICATION Spec
INVARIANTS DeclaredStatusOnly
