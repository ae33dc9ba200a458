------------------------------ MODULE TrieMap ------------------------------
(***************************************************************************)
(* BytesTrieMap (triemap_derivation.rs): a tree of TrieNodes, each with an *)
(* optional value and a BTreeMap from byte to child.  A node is a record   *)
(* [value, children] whose children is a function from bytes to nodes.     *)
(* Each operation is the recursion of the Rust code; the maps a program    *)
(* holds are named by Handles, and x = x.union(&y) and its siblings        *)
(* replace x by the result.  The refinement mapping AbsDict reads the      *)
(* abstract FiniteMap off the nodes.                                       *)
(***************************************************************************)
EXTENDS Integers, Sequences, SequencesExt, FiniteSetsExt, Functions

CONSTANTS Keys, Values, Handles, None

VARIABLES tries, ret, itw, stack

vars == <<tries, ret, itw, stack>>

(* TrieNode::new() *)
EmptyNode == [value |-> None, children |-> <<>>]

IsEmptyNode(c) == c.value = None /\ DOMAIN c.children = {}

(* node.children.entry(byte).or_insert_with(TrieNode::new) *)
Kid(n, b) == IF b \in DOMAIN n.children THEN n.children[b] ELSE EmptyNode

SetKid(n, b, c) == [n EXCEPT !.children = (b :> c) @@ @]

(* insert: walk the key creating children, then value.replace(value). *)
RECURSIVE InsertWalk(_, _, _, _)
InsertWalk(n, key, i, v) ==
    IF i > Len(key) THEN [node |-> [n EXCEPT !.value = v], old |-> n.value]
    ELSE LET r == InsertWalk(Kid(n, key[i]), key, i + 1, v)
         IN  [node |-> SetKid(n, key[i], r.node), old |-> r.old]

(* get: follow the key, None at the first missing child. *)
RECURSIVE GetAt(_, _, _)
GetAt(n, key, i) ==
    IF i > Len(key) THEN n.value
    ELSE IF key[i] \in DOMAIN n.children THEN GetAt(n.children[key[i]], key, i + 1)
    ELSE None

(* remove_recursive: take the value at the end of the key, and on the way *)
(* back drop each child left with no value and no children.               *)
RECURSIVE RemoveRecursive(_, _, _)
RemoveRecursive(n, key, i) ==
    IF i > Len(key) THEN [node |-> [n EXCEPT !.value = None], old |-> n.value]
    ELSE IF key[i] \notin DOMAIN n.children THEN [node |-> n, old |-> None]
    ELSE LET r == RemoveRecursive(n.children[key[i]], key, i + 1)
         IN  [node |-> IF IsEmptyNode(r.node)
                         THEN [n EXCEPT !.children = Restrict(@, DOMAIN @ \ {key[i]})]
                         ELSE SetKid(n, key[i], r.node),
              old |-> r.old]

(* count_values *)
RECURSIVE CountValues(_)
CountValues(n) ==
    (IF n.value # None THEN 1 ELSE 0)
      + MapThenSumSet(LAMBDA b : CountValues(n.children[b]), DOMAIN n.children)

(* union_recursive: take other's value where self has none, and recurse   *)
(* into every child of other, creating the child in self when missing.   *)
RECURSIVE UnionRecursive(_, _)
UnionRecursive(n, o) ==
    [value |-> IF n.value = None /\ o.value # None THEN o.value ELSE n.value,
     children |-> [b \in DOMAIN n.children \cup DOMAIN o.children |->
                     IF b \in DOMAIN o.children
                        THEN UnionRecursive(Kid(n, b), o.children[b])
                        ELSE n.children[b]]]

(* intersection_recursive into a fresh result node: the value when both   *)
(* nodes have one, and a result child for every byte both have.          *)
RECURSIVE IntersectionRecursive(_, _)
IntersectionRecursive(n1, n2) ==
    [value |-> IF n1.value # None /\ n2.value # None THEN n1.value ELSE None,
     children |-> [b \in DOMAIN n1.children \cap DOMAIN n2.children |->
                     IntersectionRecursive(n1.children[b], n2.children[b])]]

(* difference_recursive: drop the value when other has one, recurse into  *)
(* the children other also has, then retain the non-empty children.      *)
RECURSIVE DifferenceRecursive(_, _)
DifferenceRecursive(n, o) ==
    LET kids == [b \in DOMAIN n.children |->
                   IF b \in DOMAIN o.children
                      THEN DifferenceRecursive(n.children[b], o.children[b])
                      ELSE n.children[b]]
    IN  [value |-> IF o.value # None THEN None ELSE n.value,
         children |-> Restrict(kids, {b \in DOMAIN kids : ~IsEmptyNode(kids[b])})]

(* TrieMapIterator::next: the children of the popped node pushed in       *)
(* descending byte order, so the least byte is popped next.              *)
PushAscending(e) ==
    LET bs == SetToSortSeq(DOMAIN e.node.children, <)
    IN  [i \in 1 .. Len(bs) |-> [path |-> Append(e.path, bs[i]), node |-> e.node.children[bs[i]]]]

Pushed(e) ==
    LET bs == SetToSortSeq(DOMAIN e.node.children, >)
    IN  [i \in 1 .. Len(bs) |-> [path |-> Append(e.path, bs[i]), node |-> e.node.children[bs[i]]]]

(* pop until a node with a value; None when the stack runs out *)
RECURSIVE NextFrom(_)
NextFrom(st) ==
    IF st = <<>> THEN [stack |-> <<>>, item |-> None]
    ELSE LET e == st[Len(st)]
             st2 == SubSeq(st, 1, Len(st) - 1) \o Pushed(e)
         IN  IF e.node.value # None THEN [stack |-> st2, item |-> [key |-> e.path]]
             ELSE NextFrom(st2)
-----------------------------------------------------------------------------
Free(w) == itw # w

Init ==
    /\ tries = [w \in Handles |-> EmptyNode]
    /\ ret = None /\ itw = None /\ stack = <<>>

Insert(w, k, v) ==
    /\ Free(w)
    /\ LET r == InsertWalk(tries[w], k, 1, v)
       IN  tries' = [tries EXCEPT ![w] = r.node] /\ ret' = r.old
    /\ UNCHANGED <<itw, stack>>

Get(w, k) ==
    /\ ret' = GetAt(tries[w], k, 1)
    /\ UNCHANGED <<tries, itw, stack>>

RemoveKey(w, k) ==
    /\ Free(w)
    /\ LET r == RemoveRecursive(tries[w], k, 1)
       IN  tries' = [tries EXCEPT ![w] = r.node] /\ ret' = r.old
    /\ UNCHANGED <<itw, stack>>

Length(w) ==
    /\ ret' = [len |-> CountValues(tries[w])]
    /\ UNCHANGED <<tries, itw, stack>>

Union(x, y) ==
    /\ Free(x)
    /\ tries' = [tries EXCEPT ![x] = UnionRecursive(tries[x], tries[y])]
    /\ ret' = None
    /\ UNCHANGED <<itw, stack>>

Intersection(x, y) ==
    /\ Free(x)
    /\ tries' = [tries EXCEPT ![x] = IntersectionRecursive(tries[x], tries[y])]
    /\ ret' = None
    /\ UNCHANGED <<itw, stack>>

Difference(x, y) ==
    /\ Free(x)
    /\ tries' = [tries EXCEPT ![x] = DifferenceRecursive(tries[x], tries[y])]
    /\ ret' = None
    /\ UNCHANGED <<itw, stack>>

(* TrieMapIterator::new: the root with the empty path *)
IterStart(w) ==
    /\ itw = None
    /\ itw' = w /\ stack' = <<[path |-> <<>>, node |-> tries[w]]>>
    /\ UNCHANGED <<tries, ret>>

IterNext ==
    /\ itw # None
    /\ LET r == NextFrom(stack)
       IN  /\ stack' = r.stack /\ ret' = r.item
           /\ itw' = IF r.item = None THEN None ELSE itw
    /\ UNCHANGED tries

IterDrop ==
    /\ itw # None
    /\ itw' = None /\ stack' = <<>>
    /\ UNCHANGED <<tries, ret>>

Next ==
    \/ \E w \in Handles, k \in Keys :
          Get(w, k) \/ RemoveKey(w, k) \/ \E v \in Values : Insert(w, k, v)
    \/ \E w \in Handles : Length(w) \/ IterStart(w)
    \/ \E x, y \in Handles : Union(x, y) \/ Intersection(x, y) \/ Difference(x, y)
    \/ IterNext \/ IterDrop

Spec == Init /\ [][Next]_vars
-----------------------------------------------------------------------------
(* The keys that hold a value in the subtree of n at path p. *)
RECURSIVE KeysOf(_, _)
KeysOf(n, p) ==
    (IF n.value # None THEN {p} ELSE {})
      \cup UNION {KeysOf(n.children[b], Append(p, b)) : b \in DOMAIN n.children}

(* Every node below n at path p, with its path. *)
RECURSIVE NodesOf(_, _)
NodesOf(n, p) ==
    {[path |-> p, node |-> n]}
      \cup UNION {NodesOf(n.children[b], Append(p, b)) : b \in DOMAIN n.children}

AbsDict(n) == [k \in KeysOf(n, <<>>) |-> GetAt(n, k, 1)]

Abs == INSTANCE FiniteMap WITH
           maps <- [w \in Handles |-> AbsDict(tries[w])],
           rest <- UNION {KeysOf(e.node, e.path) : e \in ToSet(stack)}

(* Every operation of BytesTrieMap, and each next() of its iterator, does *)
(* what the TrieMap trait promises of a finite map: the values insert and *)
(* remove return, len(), the left-biased union, the intersection and the  *)
(* difference, and keys yielded once each in byte-lexicographic order.   *)
Refinement == Abs!ASpec

(* No map keeps a branch without a value below it: remove_recursive and   *)
(* difference_recursive drop the children they empty ("Clean up empty    *)
(* nodes"), so a node other than the root always leads to a value.       *)
Pruned ==
    \A w \in Handles : \A e \in NodesOf(tries[w], <<>>) :
        e.path # <<>> => KeysOf(e.node, e.path) # {}
============================================================================
