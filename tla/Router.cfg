\* Five tokens: the prefix, the slash and an id of three.
CONSTANTS
    MaxTokens = 5
SPECIFICATION Spec
INVARIANTS OnlyTemplates IdDecodedOnce CopiesAgree
\* every request ends, so the bounded system stops
CHECK_DEADLOCK FALSE
