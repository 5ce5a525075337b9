\* Four members: all the fields of a Task or a request and a duplicate, or a
\* stranger among them; two proper words to tell the last from the first,
\* two orders for a payload to be written in.
CONSTANTS
    Proper = {w1, w2}
    Odd = Odd
    Fraction = w1
    Whole = w2
    Unset = Unset
    Orders = {o1, o2}
    MaxMembers = 4
SPECIFICATION Spec
INVARIANTS LastWins VerdictDeserved MissingNamed RoundTrip
\* every body ends, so the bounded system stops
CHECK_DEADLOCK FALSE
