--------------------------- MODULE MultiQueryProofs ---------------------------
(***************************************************************************)
(* Proofs about one multi-pattern pass (MultiQuery) for every Space, every *)
(* list of patterns and templates and every token size: the pass writes   *)
(* the instances of the product of the FIRST prefix's subtrie with itself *)
(* (GraftedFromFirst), so it is exact when every pattern has that prefix  *)
(* (TransformExact).                                                      *)
(***************************************************************************)
EXTENDS MultiQuery, TLAPS, SequenceTheorems

Tok == DOMAIN Bytes

\* the pattern prefixes of the pass, and the subtrie the first one reads
Pn == Len(job.pats)
B == Below(space, Pre(1))
\* the paths of the i-th temporary trie: the subtrie under Pre(i + 1)
Grafted(i) == {Pre(i + 1) \o s : s \in B}

-----------------------------------------------------------------------------
(* Lemmas about Below, the remainders of the paths under a prefix.        *)

\* every remainder is a non-empty token string
LEMMA BelowNonEmpty ==
    ASSUME NEW S \in SUBSET Seq(Tok), NEW q \in Seq(Tok), NEW s \in Below(S, q)
    PROVE  s \in Seq(Tok) /\ Len(s) > 0
<1>1. PICK x \in S : IsPrefix(q, x) /\ Len(x) > Len(q) /\ s = SubSeq(x, Len(q) + 1, Len(x))
  BY DEF Below
<1>2. x \in Seq(Tok) /\ Len(x) \in Nat /\ Len(q) \in Nat
  BY <1>1, LenProperties
<1>3. \A i \in Len(q) + 1 .. Len(x) : x[i] \in Tok
  BY <1>2, ElementOfSeq
<1>4. s \in Seq(Tok) /\ Len(s) = Len(x) - Len(q)
  BY <1>1, <1>2, <1>3, SubSeqProperties
<1> QED BY <1>1, <1>2, <1>4

\* p is a proper prefix of p \o s, with s after it
LEMMA ConcatBelow ==
    ASSUME NEW p \in Seq(Tok), NEW s \in Seq(Tok), Len(s) > 0
    PROVE  /\ IsPrefix(p, p \o s)
           /\ Len(p \o s) > Len(p)
           /\ SubSeq(p \o s, Len(p) + 1, Len(p \o s)) = s
<1>1. Len(p \o s) = Len(p) + Len(s) /\ Len(p) \in Nat /\ Len(s) \in Nat
  BY ConcatProperties, LenProperties
<1>2. Len(p) <= Len(p \o s) /\ Len(p \o s) > Len(p)
  BY <1>1
<1>3. SubSeq(p, 1, Len(p)) = SubSeq(p \o s, 1, Len(p))
  <2>1. CASE Len(p) = 0
    BY <2>1, SubSeqEmpty
  <2>2. CASE Len(p) > 0
    <3>1. SubSeq(p \o s, 1, Len(p)) = SubSeq(p, 1, Len(p))
      BY <1>1, <2>2, SubSeqOfConcat1
    <3> QED BY <3>1
  <2> QED BY <1>1, <2>1, <2>2
<1>4. SubSeq(p \o s, Len(p) + 1, Len(p \o s)) = SubSeq(s, 1, Len(s))
  BY <1>1, SubSeqOfConcat2
<1>5. SubSeq(s, 1, Len(s)) = s
  BY SubSeqFull
<1> QED BY <1>2, <1>3, <1>4, <1>5 DEF IsPrefix

\* the trie grafted under p reads back, at p, the subtrie it was given
LEMMA BelowGraft ==
    ASSUME NEW S \in SUBSET Seq(Tok), NEW p \in Seq(Tok), NEW q \in Seq(Tok)
    PROVE  Below({p \o s : s \in Below(S, q)}, p) = Below(S, q)
<1> DEFINE G == {p \o s : s \in Below(S, q)}
<1>1. ASSUME NEW s \in Below(S, q)
      PROVE  /\ p \o s \in {y \in G : IsPrefix(p, y) /\ Len(y) > Len(p)}
             /\ SubSeq(p \o s, Len(p) + 1, Len(p \o s)) = s
  BY BelowNonEmpty, ConcatBelow
<1>2. ASSUME NEW y \in {y \in G : IsPrefix(p, y) /\ Len(y) > Len(p)}
      PROVE  SubSeq(y, Len(p) + 1, Len(y)) \in Below(S, q)
  <2>1. PICK s \in Below(S, q) : y = p \o s
    OBVIOUS
  <2> QED BY <2>1, <1>1
<1> QED BY <1>1, <1>2 DEF Below

-----------------------------------------------------------------------------
(* The inductive invariant: where the pass is, what it has built so far.  *)
PcSet == {"open", "graft", "run", "done"}

MInv ==
    /\ space \in Spaces /\ job \in Jobs /\ pc \in PcSet
    /\ tmp \in Seq(SUBSET Seq(Tok))
    /\ pc = "open" => tmp = <<>>
    /\ pc # "open" => rz = B
    /\ \A i \in 1 .. Len(tmp) : tmp[i] = Grafted(i)
    /\ pc = "graft" => Len(tmp) + 2 <= Pn
    /\ pc \in {"run", "done"} => Len(tmp) = Pn - 1
    /\ pc = "done" => written = {Subst(t, c) : t \in ToSet(job.tpls), c \in Captures}

\* the facts of JobsAssumption about the pass's own job and Space
LEMMA PassFacts ==
    ASSUME space \in Spaces, job \in Jobs
    PROVE  /\ space \in SUBSET Seq(Tok)
           /\ job.pats \in Seq(Seq(Tok)) /\ Pn \in Nat /\ Pn >= 1
           /\ \A i \in 1 .. Pn : Pre(i) \in Seq(Tok)
           /\ B \in SUBSET Seq(Tok)
<1>1. space \in SUBSET Seq(Tok) /\ job.pats \in Seq(Seq(Tok)) /\ Pn >= 1
  BY JobsAssumption DEF Pn, Tok
<1>2. Pn \in Nat /\ \A i \in 1 .. Pn : Pre(i) \in Seq(Tok)
  BY <1>1, LenProperties, ElementOfSeq DEF Pn, Pre
<1>3. B \in SUBSET Seq(Tok)
  BY <1>1, <1>2, BelowNonEmpty DEF B
<1> QED BY <1>1, <1>2, <1>3

\* every grafted trie reads back, at its own prefix, the first prefix's subtrie
LEMMA GraftedReadsFirst ==
    ASSUME space \in Spaces, job \in Jobs, NEW i \in 1 .. Pn - 1
    PROVE  Below(Grafted(i), Pre(i + 1)) = B
<1>1. Pre(i + 1) \in Seq(Tok) /\ Pre(1) \in Seq(Tok) /\ space \in SUBSET Seq(Tok)
  BY PassFacts
<1> QED BY <1>1, BelowGraft DEF Grafted, B

LEMMA MInvInit == Init => MInv
BY DEF Init, MInv, PcSet

\* a step that leaves the Space and the job alone leaves the prefixes, the
\* first prefix's subtrie and the grafted sets alone
LEMMA PassFrame ==
    ASSUME space' = space, job' = job
    PROVE  /\ Pn' = Pn /\ B' = B
           /\ \A i : Pre(i)' = Pre(i) /\ Grafted(i)' = Grafted(i)
BY DEF Pn, B, Pre, Grafted

\* the i-th grafted set is a set of token strings
LEMMA GraftedType ==
    ASSUME space \in Spaces, job \in Jobs, NEW i \in 1 .. Pn - 1
    PROVE  Grafted(i) \in SUBSET Seq(Tok)
<1>1. Pre(i + 1) \in Seq(Tok) /\ B \in SUBSET Seq(Tok)
  BY PassFacts
<1>2. ASSUME NEW s \in B PROVE Pre(i + 1) \o s \in Seq(Tok)
  <2>1. s \in Seq(Tok)
    BY <1>1
  <2> QED BY <1>1, <2>1, ConcatProperties
<1> QED BY <1>2 DEF Grafted

LEMMA MInvStep == MInv /\ [Next]_vars => MInv'
<1> SUFFICES ASSUME MInv, [Next]_vars PROVE MInv'
  OBVIOUS
<1>0. /\ space \in SUBSET Seq(Tok) /\ Pn \in Nat /\ Pn >= 1
      /\ \A i \in 1 .. Pn : Pre(i) \in Seq(Tok)
      /\ B \in SUBSET Seq(Tok)
  BY PassFacts DEF MInv
<1>1. CASE Open
  <2>1. /\ rz' = B /\ pc' = IF Pn > 1 THEN "graft" ELSE "run"
        /\ UNCHANGED <<space, job, tmp, written, overflow>>
    BY <1>1 DEF Open, B, Pn
  <2>2. tmp = <<>> /\ Len(tmp) = 0
    BY <1>1 DEF Open, MInv
  <2>3. Pn' = Pn /\ B' = B
    BY <2>1, PassFrame
  <2>4. /\ space' \in Spaces /\ job' \in Jobs /\ pc' \in PcSet
        /\ tmp' \in Seq(SUBSET Seq(Tok)) /\ Len(tmp') = 0
    BY <2>1, <2>2 DEF MInv, PcSet
  <2>5. /\ pc' # "open" => rz' = B'
        /\ pc' = "graft" => Len(tmp') + 2 <= Pn'
        /\ pc' \in {"run", "done"} => Len(tmp') = Pn' - 1
        /\ pc' # "done" /\ pc' # "open"
    BY <1>0, <2>1, <2>3, <2>4
  <2> QED BY <2>4, <2>5 DEF MInv
<1>2. CASE Graft
  <2>1. pc = "graft" /\ Len(tmp) + 2 <= Pn /\ tmp \in Seq(SUBSET Seq(Tok))
    BY <1>2 DEF Graft, MInv
  <2> DEFINE n == Len(tmp)
  <2>2. n \in Nat
    BY <2>1, LenProperties
  <2>3. Grafted(n + 1) \in SUBSET Seq(Tok)
    BY <1>0, <2>1, <2>2, GraftedType DEF MInv
  <2>4. tmp' = Append(tmp, Grafted(n + 1))
    BY <1>2 DEF Graft, Grafted, B
  <2>5. /\ tmp' \in Seq(SUBSET Seq(Tok)) /\ Len(tmp') = n + 1
        /\ \A i \in 1 .. n + 1 : tmp'[i] = IF i <= n THEN tmp[i] ELSE Grafted(n + 1)
    BY <2>1, <2>3, <2>4, AppendProperties
  <2>6. pc' = IF n + 2 = Pn THEN "run" ELSE "graft"
    BY <1>2 DEF Graft, Pn
  <2>7. UNCHANGED <<space, job, rz, written, overflow>>
    BY <1>2 DEF Graft
  <2>8. /\ Pn' = Pn /\ B' = B
        /\ \A i : Grafted(i)' = Grafted(i)
    BY <2>7, PassFrame
  <2>9. \A i \in 1 .. Len(tmp') : tmp'[i] = Grafted(i)'
    <3> TAKE i \in 1 .. Len(tmp')
    <3>1. CASE i <= n
      <4>1. tmp'[i] = tmp[i] /\ tmp[i] = Grafted(i)
        BY <2>2, <2>5, <3>1 DEF MInv
      <4> QED BY <4>1, <2>8
    <3>2. CASE i = n + 1
      BY <2>5, <2>8, <3>2
    <3> QED BY <2>2, <2>5, <3>1, <3>2
  <2>10. /\ space' \in Spaces /\ job' \in Jobs /\ pc' \in PcSet
         /\ pc' # "open" /\ pc' # "done"
    BY <2>6, <2>7 DEF MInv, PcSet
  <2>11. rz' = B'
    BY <2>1, <2>7, <2>8 DEF MInv
  <2>12. /\ pc' = "graft" => Len(tmp') + 2 <= Pn'
         /\ pc' \in {"run", "done"} => Len(tmp') = Pn' - 1
    BY <1>0, <2>1, <2>2, <2>5, <2>6, <2>8
  <2> QED BY <2>5, <2>9, <2>10, <2>11, <2>12 DEF MInv
<1>3. CASE Run
  <2>1. pc = "run" /\ pc' = "done"
    BY <1>3 DEF Run
  <2>2. written' = {Subst(t, c) : t \in ToSet(job.tpls), c \in Captures}
    BY <1>3 DEF Run
  <2>3. UNCHANGED <<space, job, rz, tmp>>
    BY <1>3 DEF Run
  <2>4. Captures' = Captures /\ Pn' = Pn /\ B' = B
        /\ \A i : Grafted(i)' = Grafted(i)
    BY <2>3, PassFrame DEF Captures, Pre
  <2>5. written' = {Subst(t, c) : t \in ToSet(job.tpls), c \in Captures}'
    BY <2>2, <2>3, <2>4
  <2>6. /\ space' \in Spaces /\ job' \in Jobs /\ pc' \in PcSet
        /\ tmp' \in Seq(SUBSET Seq(Tok)) /\ rz' = B'
        /\ \A i \in 1 .. Len(tmp') : tmp'[i] = Grafted(i)'
        /\ Len(tmp') = Pn' - 1
    BY <2>1, <2>3, <2>4 DEF MInv, PcSet
  <2> QED BY <2>1, <2>5, <2>6 DEF MInv
<1>4. CASE UNCHANGED vars
  <2>1. UNCHANGED <<space, job, pc, rz, tmp, written>>
    BY <1>4 DEF vars
  <2>2. Captures' = Captures /\ Pn' = Pn /\ B' = B
        /\ \A i : Grafted(i)' = Grafted(i)
    BY <2>1, PassFrame DEF Captures, Pre
  <2> QED BY <2>1, <2>2 DEF MInv
<1> QED BY <1>1, <1>2, <1>3, <1>4 DEF Next

-----------------------------------------------------------------------------
(* When the pass is done, the product zipper enumerates exactly the       *)
(* tuples whose every component is in the first prefix's subtrie.        *)
LEMMA CapturesAtEnd ==
    ASSUME MInv, pc = "done"
    PROVE  Captures = [1 .. Pn -> B]
<1>0. /\ Pn \in Nat /\ Pn >= 1 /\ Len(tmp) = Pn - 1 /\ rz = B
      /\ tmp \in Seq(SUBSET Seq(Tok))
  BY PassFacts DEF MInv
<1>1. DOMAIN tmp = 1 .. Pn - 1
  BY <1>0
<1>2. \A i \in DOMAIN tmp : Below(tmp[i], Pre(i + 1)) = B
  <2> TAKE i \in DOMAIN tmp
  <2>1. i \in 1 .. Pn - 1 /\ tmp[i] = Grafted(i)
    BY <1>0, <1>1 DEF MInv
  <2> QED BY <2>1, GraftedReadsFirst DEF MInv
<1>3. UNION ({rz} \cup {Below(tmp[i], Pre(i + 1)) : i \in DOMAIN tmp}) = B
  BY <1>0, <1>2
<1>4. ASSUME NEW c \in [1 .. Pn -> B] PROVE c \in Captures
  BY <1>0, <1>1, <1>2, <1>3 DEF Captures, Pn
<1>5. ASSUME NEW c \in Captures PROVE c \in [1 .. Pn -> B]
  BY <1>3 DEF Captures, Pn
<1> QED BY <1>4, <1>5

(* For every Space, job and token sizes, a finished multi-pattern pass   *)
(* has written the template instances of every tuple of paths under the *)
(* first pattern's prefix (see GraftedFromFirst): the further patterns'  *)
(* own prefixes select nothing.                                          *)
THEOREM ReadsFirstPrefix == Spec => []GraftedFromFirst
<1>1. MInv => GraftedFromFirst
  BY CapturesAtEnd DEF MInv, GraftedFromFirst, Pn, B
<1> QED BY <1>1, MInvInit, MInvStep, PTL DEF Spec

(* When every pattern of every job has the first pattern's constant      *)
(* prefix (as in the transform_multi test), the pass writes the template *)
(* instances of exactly the conjunctive matches (see TransformExact).    *)
THEOREM SamePrefixExact ==
    ASSUME \A jb \in Jobs : \A i \in DOMAIN jb.pats : jb.pats[i] = jb.pats[1]
    PROVE  Spec => []TransformExact
<1>1. MInv => TransformExact
  <2> SUFFICES ASSUME MInv, pc = "done"
               PROVE  TransformExact
    BY DEF TransformExact
  <2>1. /\ Pn \in Nat /\ Pn >= 1 /\ job.pats \in Seq(Seq(Tok))
    BY PassFacts DEF MInv
  <2>2. DOMAIN job.pats = 1 .. Pn /\ \A i \in DOMAIN job.pats : Pre(i) = Pre(1)
    BY <2>1 DEF MInv, Pre, Pn
  <2>3. \A i \in DOMAIN job.pats : Below(space, Pre(i)) = B
    BY <2>2 DEF B
  <2>4. 1 \in DOMAIN job.pats
    BY <2>1, <2>2
  <2>5. UNION {Below(space, Pre(i)) : i \in DOMAIN job.pats} = B
    BY <2>3, <2>4
  <2>6. {c \in [1 .. Len(job.pats) -> UNION {Below(space, Pre(i)) : i \in DOMAIN job.pats}] :
            \A i \in DOMAIN job.pats : c[i] \in Below(space, Pre(i))}
        = [1 .. Pn -> B]
    BY <2>2, <2>3, <2>5 DEF Pn
  <2>7. written = {Subst(t, c) : t \in ToSet(job.tpls), c \in [1 .. Pn -> B]}
    BY CapturesAtEnd DEF MInv
  <2> QED BY <2>6, <2>7 DEF TransformExact
<1> QED BY <1>1, MInvInit, MInvStep, PTL DEF Spec
============================================================================
