\* Every BytesTrieMap operation and iterator step against the abstract map.
CONSTANTS
    v1 = v1
    v2 = v2
    a = a
    b = b
    None = None
    Keys <- MCKeys
    Values <- MCValues
    Handles <- MCHandles
SPECIFICATION Spec
PROPERTY Refinement
