\* Variable patterns against Spaces holding the empty compound ().
CONSTANTS
    Universe <- UnitUniverse
    Patterns <- VarPatterns
SPECIFICATION Spec
INVARIANT QueryExact
CHECK_DEADLOCK FALSE
