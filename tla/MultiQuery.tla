----------------------------- MODULE MultiQuery -----------------------------
(***************************************************************************)
(* The data a multi-pattern pass of space_temporary.rs reads and writes:  *)
(* query_multi_impl opens the read cursor at the first pattern's prefix,  *)
(* builds one temporary BytesTrieMap per further pattern, and runs the    *)
(* engine over the ProductZipper; transform_multi_multi_impl's effect     *)
(* substitutes each template into its 512-byte buffer and writes it.     *)
(* The permits the pass takes are the Driver module; the opcode-level     *)
(* matching of one pattern is the Engine module.  Here a pattern is its  *)
(* constant prefix followed by one variable that captures the rest of the *)
(* path, so reference i is the capture of pattern i.  A path is a        *)
(* sequence of tokens, each with its size in bytes.                       *)
(***************************************************************************)
EXTENDS Integers, Sequences, SequencesExt, FiniteSets

CONSTANTS
    Spaces,     \* the Spaces a pass may start on (sets of paths)
    Jobs,       \* [pats : prefixes, tpls : templates]
    Bytes,      \* Bytes[t]: the encoded size of token t
    BufSize     \* the length of transform_multi_multi_impl's buffer

VARIABLES
    space,      \* the Space's paths (read-only during the pass)
    job,        \* the pass's patterns and templates
    pc,         \* "open", "graft", "run", "done"
    rz,         \* paths below the first prefix, seen by the primary cursor
    tmp,        \* tmp_maps: the paths of each temporary trie
    written,    \* the paths set_value'd through the template cursors
    overflow    \* a substitution ran past the end of the buffer

vars == <<space, job, pc, rz, tmp, written, overflow>>

ASSUME BufAssumption == BufSize \in Nat

\* paths are token strings; patterns[0] is indexed, so a job has a pattern
ASSUME JobsAssumption ==
    /\ Spaces \subseteq SUBSET Seq(DOMAIN Bytes)
    /\ \A jb \in Jobs : jb.pats \in Seq(Seq(DOMAIN Bytes)) /\ Len(jb.pats) >= 1

(* the remainders of the paths of S below prefix p *)
Below(S, p) == {SubSeq(x, Len(p) + 1, Len(x)) : x \in {y \in S : IsPrefix(p, y) /\ Len(y) > Len(p)}}

ByteLen(x) == FoldLeft(LAMBDA n, t : n + Bytes[t], 0, x)

Pre(i) == job.pats[i]

(* template.substitute(refs, oz): an item is [tok |-> t] or [ref |-> i] *)
Subst(tpl, caps) ==
    FoldLeft(LAMBDA acc, it : acc \o (IF "tok" \in DOMAIN it THEN <<it.tok>> ELSE caps[it.ref]),
             <<>>, tpl)

Init ==
    /\ space \in Spaces
    /\ job \in Jobs
    /\ pc = "open"
    /\ rz = {} /\ tmp = <<>> /\ written = {} /\ overflow = FALSE

(* read_zipper_at_path(first_pattern_prefix) *)
Open ==
    /\ pc = "open"
    /\ rz' = Below(space, Pre(1))
    /\ pc' = IF Len(job.pats) > 1 THEN "graft" ELSE "run"
    /\ UNCHANGED <<space, job, tmp, written, overflow>>

(* for p in patterns[1..]: a new BytesTrieMap, and at p's prefix the graft *)
(* of the Space's subtrie at first_pattern_prefix                          *)
Graft ==
    /\ pc = "graft"
    /\ tmp' = Append(tmp, {Pre(Len(tmp) + 2) \o s : s \in Below(space, Pre(1))})
    /\ pc' = IF Len(tmp) + 2 = Len(job.pats) THEN "run" ELSE "graft"
    /\ UNCHANGED <<space, job, rz, written, overflow>>

(* the matches the ProductZipper enumerates: one remainder per cursor, *)
(* secondary i read at pattern i's prefix in tmp_maps[i]               *)
Captures == {c \in [1 .. Len(job.pats) -> UNION ({rz} \cup {Below(tmp[i], Pre(i + 1)) : i \in DOMAIN tmp})] :
                /\ c[1] \in rz
                /\ \A i \in DOMAIN tmp : c[i + 1] \in Below(tmp[i], Pre(i + 1))}

(* mutant: the effect writes the first template only *)
RunFirstTemplate ==
    /\ pc = "run"
    /\ written' = {Subst(Head(job.tpls), c) : c \in Captures}
    /\ overflow' = \E c \in Captures : ByteLen(Subst(Head(job.tpls), c)) > BufSize
    /\ pc' = "done"
    /\ UNCHANGED <<space, job, rz, tmp>>

(* the effect, for every match and every template *)
Run ==
    /\ pc = "run"
    /\ written' = {Subst(t, c) : t \in ToSet(job.tpls), c \in Captures}
    /\ overflow' = \E t \in ToSet(job.tpls), c \in Captures : ByteLen(Subst(t, c)) > BufSize
    /\ pc' = "done"
    /\ UNCHANGED <<space, job, rz, tmp>>

Next == Open \/ Graft \/ Run

Spec == Init /\ [][Next]_vars
-----------------------------------------------------------------------------
(* A multi-pattern transform writes the template instances of exactly the *)
(* conjunctive matches in the Space: pattern i ranges over the Space's    *)
(* paths under pattern i's own prefix.                                    *)
TransformExact ==
    pc = "done" =>
        written = {Subst(t, c) : t \in ToSet(job.tpls),
                                 c \in {c \in [1 .. Len(job.pats) -> UNION {Below(space, Pre(i)) : i \in DOMAIN job.pats}] :
                                           \A i \in DOMAIN job.pats : c[i] \in Below(space, Pre(i))}}

(* What the pass computes whatever its prefixes: every pattern, the      *)
(* first and each grafted one, ranges over the Space's paths under the   *)
(* FIRST pattern's prefix, since each temporary trie grafts the subtrie  *)
(* at first_pattern_prefix (737) under its own pattern's prefix.         *)
GraftedFromFirst ==
    pc = "done" =>
        written = {Subst(t, c) : t \in ToSet(job.tpls),
                                 c \in [1 .. Len(job.pats) -> Below(space, Pre(1))]}

(* Every template instance the effect substitutes fits in the buffer it is *)
(* written to: the substitution writes through a raw pointer and the      *)
(* slice &buffer[prefix.len()..oz.loc] is taken after it.                  *)
BufferFits == ~overflow
============================================================================
