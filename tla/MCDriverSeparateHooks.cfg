\* Hooks that register no permit in the ZipperHead the pass uses: no
\* Space under src/ does this; it is the setting in which passes succeed.
SPECIFICATION Spec
CONSTANTS
    Threads = {t1, t2}
    Paths <- MCPaths
    Jobs <- MCJobs
    MaxPasses = 2
    HooksShareHead = FALSE
    IoFails = TRUE
\* each thread makes at most MaxPasses calls and then stops
CHECK_DEADLOCK FALSE
INVARIANT WritesIsolated
PROPERTY PassesReturn
