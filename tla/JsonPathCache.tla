--------------------------- MODULE JsonPathCache ---------------------------
(***************************************************************************)
(* The public operations of JsonPathEngine (jsonpath_engine.rs 152-212)  *)
(* over its compiled_cache: query, query_multiple, clear_cache and        *)
(* cache_stats.  The module is parameterised by compile_path and          *)
(* evaluate_path, which JsonPath (extending this module) defines and its  *)
(* runs substitute; what is said here holds for any compiler and          *)
(* evaluator.  A compiled path is [ok |-> TRUE, segs |-> ...] or          *)
(* [ok |-> FALSE]; an evaluation is [ok |-> TRUE, vals |-> ...] or        *)
(* [ok |-> FALSE, err |-> ...].                                           *)
(*                                                                         *)
(* Every operation takes &mut self (or &self), so no two calls overlap;   *)
(* query_multiple's loop is one step per path so that the state between   *)
(* two of its queries can be reasoned about.                              *)
(***************************************************************************)
EXTENDS Integers, Sequences, FiniteSets

CONSTANTS
    Docs,               \* the JSON documents queried
    PathStrs,           \* the path strings passed to query
    PathLists,          \* the path lists passed to query_multiple
    EnableCaching,      \* JsonPathConfig::enable_caching
    CompilePath(_),     \* compile_path
    EvaluatePath(_, _)  \* evaluate_path

VARIABLES
    cache,  \* compiled_cache: path string -> compiled segments
    last,   \* what the last call returned
    multi   \* the query_multiple call in progress: document, paths, loop index, results

vars == <<cache, last, multi>>

\* every path string the engine is asked about
Queried == PathStrs \cup UNION {{ps[i] : i \in DOMAIN ps} : ps \in PathLists}

(* What the parameters are: enable_caching is a bool, path lists are     *)
(* sequences, and compile_path of a queried path, and evaluate_path of    *)
(* what it compiles to on a queried document, are Results: they succeed   *)
(* or fail.                                                                *)
ParamsWellFormed ==
    /\ EnableCaching \in BOOLEAN
    /\ PathLists \subseteq Seq(Queried)
    /\ \A p \in Queried : CompilePath(p).ok \in BOOLEAN
    /\ \A p \in Queried, doc \in Docs :
         CompilePath(p).ok => EvaluatePath(doc, CompilePath(p).segs).ok \in BOOLEAN

ASSUME ParamsAssumption == ParamsWellFormed

Err(e) == [ok |-> FALSE, err |-> e]

\* HashMap::insert: k now maps to v
Put(f, k, v) == [x \in DOMAIN f \cup {k} |-> IF x = k THEN v ELSE f[x]]

EmptyMap == [x \in {} |-> <<>>]

\* no query_multiple call is in progress
Idle == [on |-> FALSE]

(* query on a cache: the compiled path (from the cache when caching is on *)
(* and the path is there, else compile_path, inserted when caching is on  *)
(* and it compiled), then evaluate_path; compile errors return before the *)
(* insert, evaluation errors after it                                     *)
QueryOn(c, doc, p) ==
    LET hit == EnableCaching /\ p \in DOMAIN c
        cp  == IF hit THEN [ok |-> TRUE, segs |-> c[p]] ELSE CompilePath(p)
    IN  IF ~cp.ok THEN [cache |-> c, res |-> Err("parse"), hit |-> FALSE]
        ELSE [cache |-> IF EnableCaching /\ ~hit THEN Put(c, p, cp.segs) ELSE c,
              res   |-> EvaluatePath(doc, cp.segs),
              hit   |-> hit]

Init ==
    /\ cache = EmptyMap
    /\ last = [op |-> "none"]
    /\ multi = Idle

Query(doc, p) ==
    /\ ~multi.on
    /\ LET q == QueryOn(cache, doc, p)
       IN  /\ cache' = q.cache
           /\ last' = [op |-> "query", doc |-> doc, path |-> p, res |-> q.res, hit |-> q.hit]
    /\ UNCHANGED multi

\* query_multiple 191: an empty HashMap of results, then the loop
MultiStart(doc, ps) ==
    /\ ~multi.on
    /\ multi' = [on |-> TRUE, doc |-> doc, paths |-> ps, i |-> 1, res |-> EmptyMap]
    /\ UNCHANGED <<cache, last>>

\* mutant: a path that fails goes on to the next one
MultiStepSkip ==
    /\ multi.on /\ multi.i <= Len(multi.paths)
    /\ LET p == multi.paths[multi.i]
           q == QueryOn(cache, multi.doc, p)
       IN  /\ cache' = q.cache
           /\ multi' = [multi EXCEPT !.i = @ + 1,
                                     !.res = IF q.res.ok THEN Put(@, p, q.res.vals) ELSE @]
    /\ UNCHANGED last

(* 193-196: query the next path; its error returns at once (`?`), the    *)
(* cache keeping what this and the earlier queries inserted; otherwise   *)
(* its result is inserted, a repeated path overwriting its earlier one    *)
MultiStep ==
    /\ multi.on /\ multi.i <= Len(multi.paths)
    /\ LET p == multi.paths[multi.i]
           q == QueryOn(cache, multi.doc, p)
       IN  /\ cache' = q.cache
           /\ IF q.res.ok
              THEN /\ multi' = [multi EXCEPT !.i = @ + 1, !.res = Put(@, p, q.res.vals)]
                   /\ UNCHANGED last
              ELSE /\ multi' = Idle
                   /\ last' = [op |-> "multi", doc |-> multi.doc, paths |-> multi.paths,
                               ok |-> FALSE, res |-> multi.res]

\* 199: every path answered
MultiEnd ==
    /\ multi.on /\ multi.i > Len(multi.paths)
    /\ last' = [op |-> "multi", doc |-> multi.doc, paths |-> multi.paths,
                ok |-> TRUE, res |-> multi.res]
    /\ multi' = Idle
    /\ UNCHANGED cache

ClearCache ==
    /\ ~multi.on
    /\ cache' = EmptyMap
    /\ last' = [op |-> "clear"]
    /\ UNCHANGED multi

CacheStats ==
    /\ ~multi.on
    /\ last' = [op |-> "stats", size |-> Cardinality(DOMAIN cache), enabled |-> EnableCaching]
    /\ UNCHANGED <<cache, multi>>

Next ==
    \/ \E doc \in Docs, p \in PathStrs : Query(doc, p)
    \/ \E doc \in Docs, ps \in PathLists : MultiStart(doc, ps)
    \/ MultiStep
    \/ MultiEnd
    \/ ClearCache
    \/ CacheStats

Spec == Init /\ [][Next]_vars
-----------------------------------------------------------------------------
(* A path queried on its own, compiled afresh. *)
Single(doc, p) ==
    IF CompilePath(p).ok THEN EvaluatePath(doc, CompilePath(p).segs) ELSE Err("parse")

(* query_multiple answers every path as a fresh query of that path alone  *)
(* would, through a cache that earlier calls filled, and fails exactly    *)
(* when one of its paths fails on its own.                                 *)
MultiAgreesWithSingle ==
    last.op = "multi" =>
        /\ last.ok = \A i \in DOMAIN last.paths : Single(last.doc, last.paths[i]).ok
        /\ last.ok => \A i \in DOMAIN last.paths :
                          last.res[last.paths[i]] = Single(last.doc, last.paths[i]).vals
====
