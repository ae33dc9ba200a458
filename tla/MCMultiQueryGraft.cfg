\* Every job, the mixed-prefix conjunction included: what the pass writes.
CONSTANTS
    Spaces <- MCSpaces
    Jobs <- MCAllJobs
    Bytes <- MCBytes
    BufSize = 512
SPECIFICATION Spec
INVARIANT GraftedFromFirst
CHECK_DEADLOCK FALSE
