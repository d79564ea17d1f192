\* Three blocks, sizes that are no, one and two words, or none, and strings of
\* two characters.  Three buffers, so that a batch of two finds a vector with
\* one, in three items; names whose terminator fits, or just fits, or does not.
\* Errors with the number zero and with another; texts that take up to three
\* writes; the last two of three directories are the bytes, and two processes
\* make them.
CONSTANTS
    Block = {b1, b2, b3}
    Sizes = {0, 2, 3, 4}
    Word = 2
    NULL = NULL
    MaxLen = 2
    Item = {i1, i2, i3}
    Data = {1, 2, 4}
    Lengths = {3, 15}
    Slacks = {0, 1, 2, 17}
    MaxBuffer = 20
    Code = {0, 2}
    Resource = {"file", "socket"}
    MaxReports = 3
    MaxCalls = 3
    Length = 3
    MaxErrors = 2
    Proc = {1, 2}
    Depth = 3
    MaxTries = 4
SYMMETRY Symmetry
SPECIFICATION LibSpec
INVARIANTS
    Accounted
    StringsFit
    VecIsAdded
    BuffersOwned
    RetryHelps
    LogSafe
    CleanTells
    DiesOnce
    StreamsExact
    LosesToOthers
\* A program that died, freed twice, or got its answer, stops.
CHECK_DEADLOCK FALSE
