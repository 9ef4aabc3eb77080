\* Ranges over the infinities, two values between them, 0 and NaN.
CONSTANTS
    Sources <- MCSources
    Nodes <- MCNodes
    Names <- MCNames
    Raws <- MCRaws
    Blank = {""}
    BlankNodes = {0}
    Coloned = {"a:b"}
    Inf = 2
SPECIFICATION Spec
INVARIANTS
    Resolves
    Unambiguous
    RefusedForCause
    NeverPanics
CHECK_DEADLOCK FALSE
