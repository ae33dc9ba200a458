\* The order in which matches reach the action callback.
CONSTANTS
    Universe <- GroundUniverse
    Patterns <- VarPatterns
SPECIFICATION Spec
INVARIANT ActionsInByteOrder
CHECK_DEADLOCK FALSE
