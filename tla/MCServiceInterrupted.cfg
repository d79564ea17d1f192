\* One packet is enough: recvfrom is interrupted before it comes.
CONSTANTS
    Packet = {p1}
    Block = {b1}
    Stack = Stack
    NULL = NULL
    Backlog = 1
    Signal = {TERM, INT}
    TERM = TERM
SPECIFICATION Spec
INVARIANT CalledWithPacket
CHECK_DEADLOCK FALSE
