\* unify with an Alternative against its alternatives tried one by one.
CONSTANTS
    NoMax = NoMax
    MaxDepth = 3
    EnableCaching = TRUE
    Strings <- MCStrings
    WideChars = {"w"}
    Exprs <- MCExprs
    Compiled <- MCAltCompiled
    ExtraConstraints <- MCExtra
    ExprLists <- MCExprLists
SPECIFICATION Spec
INVARIANT AltIsOr
