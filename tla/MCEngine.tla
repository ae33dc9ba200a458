------------------------------ MODULE MCEngine ------------------------------
(***************************************************************************)
(* Small Spaces and patterns for the Engine.  Symbols are 1-byte `a`, `b` *)
(* and 2-byte `ab`, `ba` (so ITER_AT_DEPTH walks two levels and a swapped *)
(* payload is visible); compounds are binary (Arity 2).                   *)
(***************************************************************************)
EXTENDS Engine

a  == <<193, 97>>
b  == <<193, 98>>
ab == <<194, 97, 98>>
ba == <<194, 98, 97>>
C(x, y) == <<2>> \o x \o y
V == <<NewVar>>
R(i) == <<128 + i>>
Unit == <<0>>                \* Arity(0), the empty compound ()

\* ground data, no ()
GroundUniverse == {a, ab, ba, C(a, a), C(ab, ba), C(ba, a), C(C(a, b), C(a, b)), C(C(a, b), a)}
\* the ground data of the passing run: without the compound ((a b) a)
PassUniverse == GroundUniverse \ {C(C(a, b), a)}
\* data with variables
VarUniverse == {V, C(V, a), C(V, R(0)), C(a, V), C(ab, V), C(ba, V), C(C(a, b), V)}
\* data with ()
UnitUniverse == {Unit, C(Unit, a)}

\* patterns with at least one variable
VarPatterns == {V, C(V, R(0)), C(V, ab), C(V, C(a, V)), C(C(V, b), V)}
\* ground patterns
GroundPatterns == {a, C(a, a)}
====
