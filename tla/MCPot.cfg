\* Three values, so that equal and different ones meet in heaps of five: two
\* full levels and a part of the third.  Uninitialised memory holds zeros.
CONSTANTS
    Value = {1, 2, 3}
    Garbage = {0}
    Sizes = {0, 3}
    Cap = 5
SPECIFICATION Spec
INVARIANTS
    HeapOrder
    ContentsKept
PROPERTY RemovesFirst
