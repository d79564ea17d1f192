\* Three keys, one of them behind two pointers, and four puts between two
\* cleans: two extensions, up to four chains, collisions and duplicates.
CONSTANTS
    k1 = k1
    k2 = k2
    k3 = k3
    p1 = p1
    q1 = q1
    p2 = p2
    p3 = p3
    Key <- Keys
    Ptr <- Ptrs
    KeyOf <- KeyOfPtr
    HashOf <- HashOfKey
    Val = {v1, v2, v3}
    NULL = NULL
    Cap = 4
SYMMETRY Symmetry
SPECIFICATION Spec
INVARIANTS
    Bucketed
    LoadBounded
    Ownership
PROPERTY RefinesDict
