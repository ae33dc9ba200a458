\* Multi-pattern transforms whose patterns share one prefix; the pass ends when it returns.
CONSTANTS
    Spaces <- MCSpaces
    Jobs <- SamePrefixJobs
    Bytes <- MCBytes
    BufSize = 512
SPECIFICATION Spec
INVARIANT TransformExact
CHECK_DEADLOCK FALSE
