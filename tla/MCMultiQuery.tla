--------------------------- MODULE MCMultiQuery ----------------------------
(* Tokens: arity bytes (1 byte), the symbols f, g, a, b (a size byte and *)
(* one byte) and big, a 63-byte symbol (64 bytes).  Patterns are         *)
(* [2] f $ and [2] g $; templates are small, or repeat a capture nine    *)
(* times.                                                                 *)
EXTENDS MultiQuery

MCBytes == [t \in {"A2", "A3", "A9", "f", "g", "a", "b", "big"} |->
               CASE t = "big" -> 64 [] t \in {"A2", "A3", "A9"} -> 1 [] OTHER -> 2]

T(t) == [tok |-> t]
R(i) == [ref |-> i]
F == <<"A2", "f">>
G == <<"A2", "g">>

MCUniverse == {<<"A2", "f", "a">>, <<"A2", "f", "b">>, <<"A2", "g", "a">>, <<"A2", "g", "big">>}
MCSpaces == SUBSET MCUniverse

\* every pattern under one prefix, as in the transform_multi test; two templates
SamePrefixJobs ==
    {[pats |-> <<F, F>>, tpls |-> <<<<T("A3"), T("f"), R(1), R(2)>>, <<T("A2"), T("g"), R(2)>>>>],
     [pats |-> <<G>>, tpls |-> <<<<T("A2"), T("f"), R(1)>>, <<T("A2"), T("g"), R(1)>>>>]}

\* a conjunction over two prefixes
MixedJobs == {[pats |-> <<F, G>>, tpls |-> <<<<T("A3"), T("f"), R(1), R(2)>>>>]}

\* a template that copies its capture nine times
WideJobs == {[pats |-> <<G>>, tpls |-> <<<<T("A9")>> \o [i \in 1 .. 9 |-> R(1)]>>]}

\* every job above
MCAllJobs == SamePrefixJobs \cup MixedJobs \cup WideJobs
============================================================================
