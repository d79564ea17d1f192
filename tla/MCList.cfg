\* Four items: a first, two middle ones and a last one.
CONSTANTS
    Item = {i1, i2, i3, i4}
    Null = Null
SPECIFICATION Spec
INVARIANTS
    ChainIsSeq
    TailNeverDangles
    NeverCrashes
\* A crashed program stops, and so does one whose caller only inserts.
CHECK_DEADLOCK FALSE
