----------------------------- MODULE FiniteMap -----------------------------
(***************************************************************************)
(* What the TrieMap trait of triemap_derivation.rs promises: a finite map  *)
(* from byte-string keys to values, with insert/get/remove/len, the three  *)
(* relational operations and an iterator.  A map is a function over the    *)
(* set of its keys; the maps a program holds are named by Handles.  This   *)
(* is the abstract specification that TrieMap (the BytesTrieMap nodes)     *)
(* is shown to implement.                                                  *)
(***************************************************************************)
EXTENDS Integers, Sequences, FiniteSets

CONSTANTS Keys, Values, Handles, None

VARIABLES maps, ret, itw, rest

avars == <<maps, ret, itw, rest>>

Lookup(d, k) == IF k \in DOMAIN d THEN d[k] ELSE None

(* Byte-lexicographic order: a proper prefix comes first. *)
KeyLess(x, y) ==
    \/ Len(x) < Len(y) /\ SubSeq(y, 1, Len(x)) = x
    \/ \E i \in 1 .. Len(x) :
          /\ i <= Len(y) /\ x[i] < y[i]
          /\ SubSeq(x, 1, i - 1) = SubSeq(y, 1, i - 1)

Least(S) == CHOOSE k \in S : \A l \in S : l = k \/ KeyLess(k, l)

(* A handle is free for &mut self unless an iterator borrows it. *)
Free(w) == itw # w

AInit ==
    /\ maps = [w \in Handles |-> [k \in {} |-> None]]
    /\ ret = None /\ itw = None /\ rest = {}

AInsert(w, k, v) ==
    /\ Free(w)
    /\ maps' = [maps EXCEPT ![w] = [x \in DOMAIN @ \cup {k} |->
                                        IF x = k THEN v ELSE @[x]]]
    /\ ret' = Lookup(maps[w], k)
    /\ UNCHANGED <<itw, rest>>

AGet(w, k) ==
    /\ ret' = Lookup(maps[w], k)
    /\ UNCHANGED <<maps, itw, rest>>

ARemove(w, k) ==
    /\ Free(w)
    /\ maps' = [maps EXCEPT ![w] = [x \in DOMAIN @ \ {k} |-> @[x]]]
    /\ ret' = Lookup(maps[w], k)
    /\ UNCHANGED <<itw, rest>>

ALen(w) ==
    /\ ret' = [len |-> Cardinality(DOMAIN maps[w])]
    /\ UNCHANGED <<maps, itw, rest>>

(* x = x.union(&y): y's entries for the keys x lacks. *)
AUnion(x, y) ==
    /\ Free(x)
    /\ maps' = [maps EXCEPT ![x] =
                  [k \in DOMAIN maps[x] \cup DOMAIN maps[y] |->
                      IF k \in DOMAIN maps[x] THEN maps[x][k] ELSE maps[y][k]]]
    /\ ret' = None
    /\ UNCHANGED <<itw, rest>>

(* x = x.intersection(&y): x's entries for the keys both have. *)
AIntersection(x, y) ==
    /\ Free(x)
    /\ maps' = [maps EXCEPT ![x] =
                  [k \in DOMAIN maps[x] \cap DOMAIN maps[y] |-> maps[x][k]]]
    /\ ret' = None
    /\ UNCHANGED <<itw, rest>>

(* x = x.difference(&y): x's entries for the keys y lacks. *)
ADifference(x, y) ==
    /\ Free(x)
    /\ maps' = [maps EXCEPT ![x] =
                  [k \in DOMAIN maps[x] \ DOMAIN maps[y] |-> maps[x][k]]]
    /\ ret' = None
    /\ UNCHANGED <<itw, rest>>

(* iter(): every key is still to come. *)
AIterStart(w) ==
    /\ itw = None
    /\ itw' = w /\ rest' = DOMAIN maps[w]
    /\ UNCHANGED <<maps, ret>>

(* next(): the least key not yet yielded, or None and the iterator ends. *)
AIterNext ==
    /\ itw # None
    /\ IF rest = {}
          THEN ret' = None /\ itw' = None /\ rest' = {}
          ELSE ret' = [key |-> Least(rest)] /\ rest' = rest \ {Least(rest)} /\ itw' = itw
    /\ UNCHANGED maps

AIterDrop ==
    /\ itw # None
    /\ itw' = None /\ rest' = {}
    /\ UNCHANGED <<maps, ret>>

ANext ==
    \/ \E w \in Handles, k \in Keys :
          AGet(w, k) \/ ARemove(w, k) \/ \E v \in Values : AInsert(w, k, v)
    \/ \E w \in Handles : ALen(w) \/ AIterStart(w)
    \/ \E x, y \in Handles : AUnion(x, y) \/ AIntersection(x, y) \/ ADifference(x, y)
    \/ AIterNext \/ AIterDrop

ASpec == AInit /\ [][ANext]_avars

============================================================================
