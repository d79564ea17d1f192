\* Two keys whose difference does not fit an int.
CONSTANTS
    p1 = p1
    q1 = q1
    p2 = p2
    p3 = p3
    p4 = p4
    Node = {p1, p2, n}
    Key <- WideKeys
    Ptr <- WidePtrs
    KeyOf <- WideKeyOfPtr
    Val = {v1, v2}
    NULL = NULL
    Frees = {FALSE}
    Half = 4
SYMMETRY Symmetry
SPECIFICATION Spec
PROPERTY ReplacesSame
