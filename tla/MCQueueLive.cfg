\* Three threads and one pointer, no symmetry: it is unsound for liveness.
CONSTANTS
    Thread = {t1, t2, t3}
    Data = {d1}
    NULL = NULL
SPECIFICATION FairSpec
PROPERTIES
    DeinitReturns
    NoStall
