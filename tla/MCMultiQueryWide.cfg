\* A template that instantiates to more bytes than the buffer holds.
CONSTANTS
    Spaces <- MCSpaces
    Jobs <- WideJobs
    Bytes <- MCBytes
    BufSize = 512
SPECIFICATION Spec
INVARIANT BufferFits
CHECK_DEADLOCK FALSE
