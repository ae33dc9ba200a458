----------------------------- MODULE MCTrieMap -----------------------------
(* Two maps over keys of at most two bytes, one a prefix of the others,   *)
(* so that removals clean up, unions graft and intersections diverge.     *)
EXTENDS TrieMap

CONSTANTS v1, v2, a, b

MCKeys == {<<1>>, <<1, 1>>, <<1, 2>>}
MCValues == {v1, v2}
MCHandles == {a, b}
============================================================================
