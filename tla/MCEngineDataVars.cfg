\* Variable patterns over Spaces whose expressions hold variables themselves
\* (bidirectional matching): the call discipline and the reads of captures.
CONSTANTS
    Universe <- VarUniverse
    Patterns <- VarPatterns
SPECIFICATION Spec
INVARIANT ReferWithinPath
PROPERTY PureCall
PROPERTY Termination
\* the query returns: the final state has no successor
CHECK_DEADLOCK FALSE
