\* A value that is less than what the zeroed memory of slot 0 holds.
CONSTANTS
    Value <- AroundZero
    Garbage = {0}
    Sizes = {0}
    Cap = 3
SPECIFICATION Spec
PROPERTY NumberedFromOne
