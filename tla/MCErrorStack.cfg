\* Three nodes: a stack that owns another one, on top of a third error.
CONSTANTS
    Node = {n1, n2, n3}
    Code = {INVALID_OP, Other}
    Other = Other
    Static = Static
    NULL = NULL
SYMMETRY Symmetry
SPECIFICATION Spec
INVARIANTS
    Freeable
PROPERTIES
    ErrorStays
    AnswerStable
\* A program that frees what is freed stops.
CHECK_DEADLOCK FALSE
