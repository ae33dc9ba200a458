\* Queries and query_multiple calls over two documents with the default
\* configuration (max_depth 100, caching on).
CONSTANTS
    Docs <- MCDocs
    PathStrs <- MCPathStrs
    PathLists <- MCPathLists
    KeyOrder <- MCKeyOrder
    MaxDepth = 100
    EnableCaching = TRUE
    CompilePath <- Compile
    EvaluatePath <- Evaluate
SPECIFICATION Spec
INVARIANT DescendantsExact
INVARIANT MultiAgreesWithSingle
