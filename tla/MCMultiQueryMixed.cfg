\* A conjunction of patterns under two different prefixes.
CONSTANTS
    Spaces <- MCSpaces
    Jobs <- MixedJobs
    Bytes <- MCBytes
    BufSize = 512
SPECIFICATION Spec
INVARIANT TransformExact
CHECK_DEADLOCK FALSE
