------------------------- MODULE JsonPathCacheProofs -------------------------
(***************************************************************************)
(* Proofs about JsonPathCache for every compiler, evaluator, set of       *)
(* documents and of path lists whose results are Results                  *)
(* (ParamsAssumption): the compiled_cache never changes an answer, and     *)
(* query_multiple answers every path as a fresh query of it would.         *)
(***************************************************************************)
EXTENDS JsonPathCache, TLAPS

\* every entry of a cache is what compile_path makes of its key
SoundCache(c) ==
    /\ DOMAIN c \subseteq Queried
    /\ \A p \in DOMAIN c : CompilePath(p).ok = TRUE /\ c[p] = CompilePath(p).segs

\* a query_multiple call in progress has answered its first i - 1 paths,
\* each as a fresh query would and without error
Running ==
    /\ DOMAIN multi = {"on", "doc", "paths", "i", "res"}
    /\ multi.on = TRUE
    /\ multi.doc \in Docs
    /\ multi.paths \in PathLists
    /\ multi.i \in 1 .. Len(multi.paths) + 1
    /\ DOMAIN multi.res = {multi.paths[k] : k \in 1 .. multi.i - 1}
    /\ \A k \in 1 .. multi.i - 1 :
          /\ Single(multi.doc, multi.paths[k]).ok = TRUE
          /\ multi.res[multi.paths[k]] = Single(multi.doc, multi.paths[k]).vals

\* the inductive invariant behind MultiAgreesWithSingle
JInv ==
    /\ SoundCache(cache)
    /\ multi = Idle \/ Running
    /\ MultiAgreesWithSingle
-----------------------------------------------------------------------------
\* A path list is a sequence of queried paths.
LEMMA PathListFacts ==
    ASSUME ParamsWellFormed, NEW ps \in PathLists
    PROVE  /\ ps \in Seq(Queried)
           /\ Len(ps) \in Nat
           /\ DOMAIN ps = 1 .. Len(ps)
           /\ \A k \in 1 .. Len(ps) : ps[k] \in Queried
BY DEF ParamsWellFormed

\* A fresh query of a queried path on a queried document succeeds or fails.
LEMMA SingleOk ==
    ASSUME ParamsWellFormed, NEW doc \in Docs, NEW p \in Queried
    PROVE  Single(doc, p).ok \in BOOLEAN
BY DEF ParamsWellFormed, Single, Err

\* query through a sound cache answers as a fresh query would, and leaves
\* the cache sound.
LEMMA QueryOnSound ==
    ASSUME ParamsWellFormed, NEW c, SoundCache(c), NEW doc \in Docs, NEW p \in Queried
    PROVE  /\ QueryOn(c, doc, p).res = Single(doc, p)
           /\ SoundCache(QueryOn(c, doc, p).cache)
<1>0. EnableCaching \in BOOLEAN /\ CompilePath(p).ok \in BOOLEAN
  BY DEF ParamsWellFormed
<1>1. CASE EnableCaching /\ p \in DOMAIN c
  <2>1. CompilePath(p).ok = TRUE /\ c[p] = CompilePath(p).segs
    BY <1>1 DEF SoundCache
  <2>2. QueryOn(c, doc, p) = [cache |-> c, res |-> EvaluatePath(doc, c[p]), hit |-> TRUE]
    BY <1>0, <1>1 DEF QueryOn
  <2> QED BY <2>1, <2>2 DEF Single
<1>2. CASE ~(EnableCaching /\ p \in DOMAIN c) /\ CompilePath(p).ok
  <2>1. QueryOn(c, doc, p) =
          [cache |-> IF EnableCaching THEN Put(c, p, CompilePath(p).segs) ELSE c,
           res |-> EvaluatePath(doc, CompilePath(p).segs), hit |-> FALSE]
    BY <1>0, <1>2 DEF QueryOn
  <2>2. SoundCache(Put(c, p, CompilePath(p).segs))
    BY <1>0, <1>2 DEF SoundCache, Put
  <2> QED BY <1>0, <1>2, <2>1, <2>2 DEF Single
<1>3. CASE ~(EnableCaching /\ p \in DOMAIN c) /\ ~CompilePath(p).ok
  <2>1. QueryOn(c, doc, p) = [cache |-> c, res |-> Err("parse"), hit |-> FALSE]
    BY <1>0, <1>3 DEF QueryOn
  <2> QED BY <1>3, <2>1 DEF Single
<1> QED BY <1>0, <1>1, <1>2, <1>3
-----------------------------------------------------------------------------
\* The empty cache, no call in progress and no call returned.
LEMMA InitJInv == Init => JInv
BY DEF Init, JInv, SoundCache, EmptyMap, Idle, MultiAgreesWithSingle

\* query, clear_cache and cache_stats run between query_multiple calls:
\* they keep the cache sound and return no query_multiple result.
LEMMA OtherStepsJInv ==
    ASSUME ParamsWellFormed, JInv,
           \/ \E doc \in Docs, p \in PathStrs : Query(doc, p)
           \/ ClearCache \/ CacheStats \/ UNCHANGED vars
    PROVE  JInv'
<1>1. CASE \E doc \in Docs, p \in PathStrs : Query(doc, p)
  <2>1. PICK doc \in Docs, p \in PathStrs : Query(doc, p)
    BY <1>1
  <2>2. p \in Queried
    BY DEF Queried
  <2>3. SoundCache(cache')
    BY <2>1, <2>2, QueryOnSound DEF JInv, Query
  <2>4. multi' = multi /\ last'.op = "query"
    BY <2>1 DEF Query
  <2> QED BY <2>3, <2>4 DEF JInv, Running, MultiAgreesWithSingle
<1>2. CASE ClearCache
  BY <1>2 DEF ClearCache, JInv, SoundCache, EmptyMap, Running, MultiAgreesWithSingle
<1>3. CASE CacheStats
  BY <1>3 DEF CacheStats, JInv, SoundCache, Running, MultiAgreesWithSingle
<1>4. CASE UNCHANGED vars
  BY <1>4 DEF vars, JInv, SoundCache, Running, MultiAgreesWithSingle
<1> QED BY <1>1, <1>2, <1>3, <1>4

\* query_multiple starts with an empty result map at the first path.
LEMMA MultiStartJInv ==
    ASSUME ParamsWellFormed, JInv, NEW doc \in Docs, NEW ps \in PathLists,
           MultiStart(doc, ps)
    PROVE  JInv'
<1>1. Len(ps) \in Nat
  BY PathListFacts
<1>2. Running'
  BY <1>1 DEF MultiStart, Running, EmptyMap
<1> QED BY <1>2 DEF MultiStart, JInv, SoundCache, MultiAgreesWithSingle

\* query_multiple returns Ok once every path is answered.
LEMMA MultiEndJInv ==
    ASSUME ParamsWellFormed, JInv, MultiEnd
    PROVE  JInv'
<1>1. Running
  BY DEF MultiEnd, JInv, Idle
<1>2. Len(multi.paths) \in Nat /\ DOMAIN multi.paths = 1 .. Len(multi.paths)
  BY <1>1, PathListFacts DEF Running
<1>3. multi.i = Len(multi.paths) + 1
  BY <1>1, <1>2 DEF Running, MultiEnd
<1>4. /\ last' = [op |-> "multi", doc |-> multi.doc, paths |-> multi.paths,
                  ok |-> TRUE, res |-> multi.res]
      /\ multi' = Idle /\ cache' = cache
  BY DEF MultiEnd
<1>5. \A k \in DOMAIN multi.paths :
          /\ Single(multi.doc, multi.paths[k]).ok = TRUE
          /\ multi.res[multi.paths[k]] = Single(multi.doc, multi.paths[k]).vals
  BY <1>1, <1>2, <1>3 DEF Running
<1>6. MultiAgreesWithSingle'
  BY <1>4, <1>5 DEF MultiAgreesWithSingle
<1> QED BY <1>4, <1>6 DEF JInv, SoundCache

\* One turn of query_multiple's loop: an answered path joins the results,
\* a failed one ends the call with Err, as a fresh query of it would fail.
LEMMA MultiStepJInv ==
    ASSUME ParamsWellFormed, JInv, MultiStep
    PROVE  JInv'
<1> DEFINE d == multi.doc
           ps == multi.paths
           i == multi.i
           p == ps[i]
           q == QueryOn(cache, d, p)
<1>1. Running
  BY DEF MultiStep, JInv, Idle
<1>2. /\ ps \in Seq(Queried) /\ Len(ps) \in Nat /\ DOMAIN ps = 1 .. Len(ps)
      /\ \A k \in 1 .. Len(ps) : ps[k] \in Queried
  BY <1>1, PathListFacts DEF Running
<1>3. i \in 1 .. Len(ps) /\ p \in Queried /\ d \in Docs
  BY <1>1, <1>2 DEF Running, MultiStep
<1>4. q.res = Single(d, p) /\ SoundCache(q.cache) /\ Single(d, p).ok \in BOOLEAN
  BY <1>3, QueryOnSound, SingleOk DEF JInv
<1>5. cache' = q.cache
  BY DEF MultiStep
<1>6. CASE Single(d, p).ok = TRUE
  <2>1. multi' = [multi EXCEPT !.i = @ + 1, !.res = Put(@, p, Single(d, p).vals)]
        /\ last' = last
    BY <1>4, <1>6 DEF MultiStep
  <2>2. /\ DOMAIN multi' = {"on", "doc", "paths", "i", "res"}
        /\ multi'.on = TRUE /\ multi'.doc = d /\ multi'.paths = ps
        /\ multi'.i = i + 1 /\ multi'.res = Put(multi.res, p, Single(d, p).vals)
        /\ multi'.i \in 1 .. Len(multi'.paths) + 1
        /\ multi'.i - 1 = i
    BY <1>1, <1>2, <1>3, <2>1 DEF Running
  <2>3. DOMAIN multi'.res = {multi'.paths[k] : k \in 1 .. multi'.i - 1}
    BY <1>1, <1>3, <2>2 DEF Running, Put
  <2>4. \A k \in 1 .. multi'.i - 1 :
          /\ Single(multi'.doc, multi'.paths[k]).ok = TRUE
          /\ multi'.res[multi'.paths[k]] = Single(multi'.doc, multi'.paths[k]).vals
    <3> SUFFICES ASSUME NEW k \in 1 .. i
                 PROVE  /\ Single(d, ps[k]).ok = TRUE
                        /\ Put(multi.res, p, Single(d, p).vals)[ps[k]] = Single(d, ps[k]).vals
      BY <1>3, <2>2
    <3>1. CASE k = i
      BY <1>6, <3>1 DEF Put
    <3>2. CASE k # i
      <4>1. k \in 1 .. i - 1
        BY <1>3, <3>2
      <4>2. ps[k] \in DOMAIN multi.res
        BY <1>1, <4>1 DEF Running
      <4> QED BY <1>1, <4>1, <4>2 DEF Running, Put
    <3> QED BY <3>1, <3>2
  <2>5. Running'
    BY <1>1, <2>2, <2>3, <2>4 DEF Running
  <2> QED BY <1>4, <1>5, <2>1, <2>5 DEF JInv, MultiAgreesWithSingle
<1>7. CASE Single(d, p).ok = FALSE
  <2>1. /\ multi' = Idle
        /\ last' = [op |-> "multi", doc |-> d, paths |-> ps, ok |-> FALSE, res |-> multi.res]
    BY <1>4, <1>7 DEF MultiStep
  <2>2. ~\A k \in DOMAIN ps : Single(d, ps[k]).ok
    BY <1>2, <1>3, <1>7
  <2>3. MultiAgreesWithSingle'
    BY <2>1, <2>2 DEF MultiAgreesWithSingle
  <2> QED BY <1>4, <1>5, <2>1, <2>3 DEF JInv
<1> QED BY <1>4, <1>6, <1>7

\* Every step of the engine keeps JInv.
LEMMA NextJInv ==
    ASSUME ParamsWellFormed, JInv, [Next]_vars
    PROVE  JInv'
<1>1. CASE \E doc \in Docs, ps \in PathLists : MultiStart(doc, ps)
  BY <1>1, MultiStartJInv
<1>2. CASE MultiStep
  BY <1>2, MultiStepJInv
<1>3. CASE MultiEnd
  BY <1>3, MultiEndJInv
<1> QED BY <1>1, <1>2, <1>3, OtherStepsJInv DEF Next

(* Theorem: for any compiler and evaluator that return Results, every    *)
(* query_multiple that returns (jsonpath_engine.rs 190-200) fails exactly *)
(* when one of its paths fails on its own and otherwise maps each path to *)
(* what a fresh query of it returns, whatever the compiled_cache held     *)
(* from earlier query, query_multiple and clear_cache calls.              *)
THEOREM CacheTransparent == Spec => []MultiAgreesWithSingle
<1>1. Init => JInv
  BY InitJInv
<1>2. JInv /\ [Next]_vars => JInv'
  BY NextJInv, ParamsAssumption
<1>3. JInv => MultiAgreesWithSingle
  BY DEF JInv
<1> QED BY <1>1, <1>2, <1>3, PTL DEF Spec
====
