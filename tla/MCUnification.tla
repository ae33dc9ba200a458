--------------------------- MODULE MCUnification ---------------------------
(* Symbols a and b, a variable, compounds of arity 2 of depth 2 and 3;   *)
(* hand-built patterns that use one variable twice, a Compound-typed     *)
(* variable, a pattern as deep as max_depth, an alternative whose first  *)
(* branch binds before it fails, a condition over a sequence pattern,    *)
(* and a NotEqual constraint.  The char "w" stands for a char of two     *)
(* UTF-8 bytes.                                                          *)
EXTENDS Unification

Sym(n) == [kind |-> "sym", name |-> n]
Cmp(a, ch) == [kind |-> "cmp", arity |-> a, ch |-> ch]
PVar(v) == [kind |-> "pvar", var |-> v]
PCmp(ps) == [kind |-> "pcmp", arity |-> Len(ps), pats |-> ps]
PWild == [kind |-> "wild"]
CP(i, p, cs) == [id |-> i, structure |-> p, constraints |-> cs]

Sa == Sym(<<"a">>)
Sb == Sym(<<"b">>)
Vx == [kind |-> "var", name |-> <<"x">>]
Cab == Cmp(2, <<Sa, Sb>>)
Caa == Cmp(2, <<Sa, Sa>>)
Cdeep == Cmp(2, <<Cab, Sa>>)

X == [name |-> "x", id |-> 1, type |-> "Expression"]
Y == [name |-> "y", id |-> 2, type |-> "Expression"]
C == [name |-> "c", id |-> 3, type |-> "Compound"]

MCExprs == {Sa, Vx, Cab, Caa, Cdeep}

PSame == CP(2, PCmp(<<PVar(X), PVar(X)>>), <<>>)
PTyped == CP(3, PCmp(<<PVar(C), PWild>>), <<>>)
PDeep == CP(4, PCmp(<<PCmp(<<PVar(Y), PWild>>), PVar(X)>>), <<>>)
PAlt == CP(5, [kind |-> "alt",
               alts |-> <<PCmp(<<PVar(X), [kind |-> "psym", name |-> <<"b">>]>>), PVar(X)>>],
           <<>>)
PCond == CP(6, [kind |-> "cond",
                cond |-> [kind |-> "prop", check |-> [kind |-> "ContainsSymbol", s |-> <<"a">>]],
                pat |-> [kind |-> "seq", pats |-> <<PVar(X), PWild>>, min |-> 1, max |-> 2]],
            <<>>)
PDistinct == CP(7, PCmp(<<PVar(X), PVar(Y)>>),
                <<[kind |-> "NotEqual", v1 |-> X, v2 |-> Y]>>)

MCCompiled == {PSame, PTyped, PDeep, PCond, PDistinct}
MCAltCompiled == MCCompiled \cup {PAlt}

MCExtra == {<<[kind |-> "Type", v |-> X, t |-> "Symbol"]>>,
            <<[kind |-> "Structure", v |-> Y,
               sc |-> [kind |-> "Size", min |-> 1, max |-> 3]]>>}

MCStrings == {<<"(", "a", " ", "?", " ", "*", ")">>, <<"?">>, <<"(", "b">>}
MCWideStrings == {<<"(", "w", ")">>}

MCExprLists == {<<Sa, Cab, Caa>>}
============================================================================
