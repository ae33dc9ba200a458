------------------------------ MODULE MCDriver ------------------------------
(* Small instances of Driver: prefixes over the bytes 1..3, and passes   *)
(* that write and read disjoint, nested and equal prefixes.              *)
EXTENDS Driver

E == <<>>
P1 == <<1>>
P12 == <<1, 2>>
P2 == <<2>>
P3 == <<3>>

MCPaths == {E, P1, P12, P2, P3}

\* transform: rewrite matches under 2 into 1
TA == [kind |-> "transform", tpl |-> <<P1>>, pat |-> <<P2>>]
\* transform with two templates and one pattern
TB == [kind |-> "transform", tpl |-> <<P2, P3>>, pat |-> <<P12>>]
\* transform with two patterns (a conjunction)
TM == [kind |-> "transform", tpl |-> <<P3>>, pat |-> <<P12, P2>>]
\* transform that rewrites inside the region it reads
TI == [kind |-> "transform", tpl |-> <<P12>>, pat |-> <<P1>>]
\* dump of the 1 subtree, and of everything (a pattern that starts with $)
D1 == [kind |-> "dump", tpl |-> <<>>, pat |-> <<P1>>]
DE == [kind |-> "dump", tpl |-> <<>>, pat |-> <<E>>]
\* load_sexpr with a template under 1 2
L12 == [kind |-> "load", tpl |-> <<P12>>, pat |-> <<>>]

MCJobs == {TA, TB, TM, TI, D1, DE, L12}
MCDumps == {D1, DE}
====
