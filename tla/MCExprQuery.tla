---------------------------- MODULE MCExprQuery ----------------------------
(* Symbols a = <<97>>, b = <<98>>, and the one-symbol name a\x01b whose   *)
(* encoding runs into that of two symbols; a variable x; compounds with a *)
(* repeated symbol, a nested compound of the same arity, and an arity    *)
(* that disagrees with the number of children (the fields are public).   *)
EXTENDS ExprQuery

Sym(n) == [kind |-> "sym", name |-> n]
Var(n) == [kind |-> "var", name |-> n]
Cmp(a, ch) == [kind |-> "cmp", arity |-> a, ch |-> ch]

Sa == Sym(<<97>>)
Sb == Sym(<<98>>)
Vx == Var(<<120>>)
Cab == Cmp(2, <<Sa, Sb>>)
Caa == Cmp(2, <<Sa, Sa>>)
Cglued == Cmp(2, <<Sym(<<97, 1, 98>>)>>)
Cnest == Cmp(2, <<Cab, Vx>>)

MCStructures == {Sa, Vx, Cab, Caa, Cglued, Cnest}

PAny == [kind |-> "any"]
MCPatterns ==
    {PAny, [kind |-> "sym", name |-> <<97>>], [kind |-> "var", name |-> <<120>>],
     Cmp(2, <<PAny, PAny>>), Cmp(2, <<[kind |-> "sym", name |-> <<97>>], PAny>>),
     [kind |-> "pred", holds |-> TRUE]}

MCIds == {1, 2}
============================================================================
