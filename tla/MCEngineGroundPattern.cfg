\* A ground pattern queried against Spaces that may not hold it.
CONSTANTS
    Universe <- GroundUniverse
    Patterns <- GroundPatterns
SPECIFICATION Spec
INVARIANT QueryExact
CHECK_DEADLOCK FALSE
