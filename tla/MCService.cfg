\* Two packets, and two blocks: one more than a callback needs.
CONSTANTS
    Packet = {p1, p2}
    Block = {b1, b2}
    Stack = Stack
    NULL = NULL
    Backlog = 2
    Signal = {TERM, INT}
    TERM = TERM
SPECIFICATION FairSpec
INVARIANTS
    StopsSoon
    PacketOwned
    CleanupFollowsRun
    ZeroMeansWell
    Truthful
PROPERTIES
    StopEnds
    ServiceStops
\* A process that exited stops.
CHECK_DEADLOCK FALSE
