\* Four keys, one of them behind two pointers: trees of all shapes with up to
\* four nodes, among them a node whose two subtrees are merged below a node that
\* has a subtree already.
CONSTANTS
    p1 = p1
    q1 = q1
    p2 = p2
    p3 = p3
    p4 = p4
    Node = {p1, q1, p2, p3, p4, n}
    Key <- Keys
    Ptr <- Ptrs
    KeyOf <- KeyOfPtr
    Val = {v1, v2, v3, v4}
    NULL = NULL
    Frees = {TRUE}
    Half = 4
SYMMETRY Symmetry
SPECIFICATION Spec
INVARIANTS
    SearchTree
    Ownership
PROPERTY RefinesDict
