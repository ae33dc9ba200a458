\* intersection leaves a node with no value below it, which remove and
\* difference never do.
CONSTANTS
    v1 = v1
    v2 = v2
    a = a
    b = b
    None = None
    Keys <- MCKeys
    Values <- MCValues
    Handles <- MCHandles
SPECIFICATION Spec
INVARIANT Pruned
