\* compile_pattern on a string holding a two-byte char.
CONSTANTS
    NoMax = NoMax
    MaxDepth = 3
    EnableCaching = TRUE
    Strings <- MCWideStrings
    WideChars = {"w"}
    Exprs <- MCExprs
    Compiled <- MCAltCompiled
    ExtraConstraints <- MCExtra
    ExprLists <- MCExprLists
SPECIFICATION Spec
INVARIANT NoPanic
