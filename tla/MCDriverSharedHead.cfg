\* The Space trait's own hooks on DefaultSpace: hook permits and the
\* pass's cursors live in the same ZipperHead.
SPECIFICATION Spec
CONSTANTS
    Threads = {t1, t2}
    Paths <- MCPaths
    Jobs <- MCJobs
    MaxPasses = 2
    HooksShareHead = TRUE
    IoFails = TRUE
\* each thread makes at most MaxPasses calls and then stops
CHECK_DEADLOCK FALSE
INVARIANT TypeOK
INVARIANT SharedHeadBlocksWriters
PROPERTY PassesReturn
