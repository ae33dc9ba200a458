\* One thread makes two dump_as_sexpr calls; the writer may fail.
SPECIFICATION Spec
CONSTANTS
    Threads = {t1}
    Paths <- MCPaths
    Jobs <- MCDumps
    MaxPasses = 2
    HooksShareHead = TRUE
    IoFails = TRUE
CHECK_DEADLOCK FALSE
INVARIANT NoUseAfterFree
