CONSTANTS
    NoVal = NoVal
    Structures <- MCStructures
    Patterns <- MCPatterns
    Ids <- MCIds
    MaxId = 4
SPECIFICATION Spec
INVARIANT QuerySound
