----------------------------- MODULE MCJsonPath -----------------------------
(* Two documents: an object {"a": [1, {"a": 2}], "b": {"a": null}} whose   *)
(* key a occurs at three depths, and the array [1, 2, 1] with a repeated *)
(* value.  The paths reach every kind of segment the parser builds, the   *)
(* compile errors and the zero-step error.                                *)
EXTENDS JsonPath

Num(n) == [t |-> "num", n |-> n]
Null == [t |-> "null"]
Arr(s) == [t |-> "arr", a |-> s]
Obj(f) == [t |-> "obj", o |-> f]
KA == <<"a">>
KB == <<"b">>

MCKeyOrder == <<KA, KB>>

NestedDoc == Obj(KA :> Arr(<<Num(1), Obj(KA :> Num(2))>>) @@ KB :> Obj(KA :> Null))
FlatDoc == Arr(<<Num(1), Num(2), Num(1)>>)
MCDocs == {NestedDoc, FlatDoc}

DescA     == <<"$", ".", ".", "a">>
DescAll   == <<"$", ".", ".", "*">>
DescFirst == <<"$", ".", ".", "[", "0", "]">>
AllOfA    == <<"$", ".", "a", "[", "*", "]">>
ZeroStep  == <<"$", "[", "0", ":", "2", ":", "0", "]">>
UnionA    == <<"$", ".", "a", "[", "0", ",", " ", "b", "]">>
Filter    == <<"$", "[", "?", "x", "]">>
BracketB  == <<"$", "[", "b", "]">>
Open      == <<"$", "[">>
Relative  == <<"b", ".", "a">>

MCPathStrs == {DescA, DescAll, DescFirst, AllOfA, ZeroStep, UnionA, Filter, BracketB, Open, Relative}

\* a failing path after a good one; a repeated path
MCPathLists == {<<DescA, Open>>, <<AllOfA, DescAll, AllOfA>>}

\* slices: from the start, from before it, and backwards
MCSlicePaths == {<<"$", "[", "1", ":", "]">>, <<"$", "[", "-", "2", ":", "]">>,
                 <<"$", "[", ":", ":", "-", "1", "]">>}
============================================================================
