\* Three threads and two pointers: two sleepers under a closer, a producer or
\* a destroyer.
CONSTANTS
    Thread = {t1, t2, t3}
    Data = {d1, d2}
    NULL = NULL
SPECIFICATION Spec
SYMMETRY Symmetric
INVARIANTS
    CountsExact
    NoUseAfterFree
    NoLostWakeup
PROPERTY RefinesFifo
