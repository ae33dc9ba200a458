\* Every engine call on ASCII pattern strings and hand-built patterns.
CONSTANTS
    NoMax = NoMax
    MaxDepth = 3
    EnableCaching = TRUE
    Strings <- MCStrings
    WideChars = {"w"}
    Exprs <- MCExprs
    Compiled <- MCAltCompiled
    ExtraConstraints <- MCExtra
    ExprLists <- MCExprLists
SPECIFICATION Spec
INVARIANTS UnifySound UnifyComplete
