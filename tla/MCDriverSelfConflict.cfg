\* One thread alone on DefaultSpace runs transform, load or dump.
SPECIFICATION Spec
CONSTANTS
    Threads = {t1}
    Paths <- MCPaths
    Jobs <- MCJobs
    MaxPasses = 1
    HooksShareHead = TRUE
    IoFails = FALSE
CHECK_DEADLOCK FALSE
INVARIANT NoSelfConflict
