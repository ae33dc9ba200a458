\* Slices of the array [1, 2, 1], one starting before the array.
CONSTANTS
    Docs <- MCDocs
    PathStrs <- MCSlicePaths
    PathLists <- MCPathLists
    KeyOrder <- MCKeyOrder
    MaxDepth = 100
    EnableCaching = TRUE
    CompilePath <- Compile
    EvaluatePath <- Evaluate
SPECIFICATION Spec
INVARIANT SliceExact
