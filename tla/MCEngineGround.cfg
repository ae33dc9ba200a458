\* Variable patterns over ground Spaces: exact results, pure calls, termination.
CONSTANTS
    Universe <- PassUniverse
    Patterns <- VarPatterns
SPECIFICATION Spec
INVARIANT TypeOK
INVARIANT QueryExact
INVARIANT ReferWithinPath
PROPERTY PureCall
PROPERTY Termination
\* the query returns: the final state has no successor
CHECK_DEADLOCK FALSE
