---------------------------- MODULE Unification ----------------------------
(***************************************************************************)
(* UnificationEngine and PatternParser (pattern_matching.rs).              *)
(*                                                                         *)
(* An expression is an ExprStructure record of kind "sym", "var" or "cmp"; *)
(* a pattern a PatternStructure record of kind "wild", "pvar", "psym",     *)
(* "pcmp", "cond", "alt" or "seq"; a Variable a record [name, id, type].   *)
(* unify_recursive threads its MatchingContext by value: each call takes   *)
(* the depth and the bindings and returns [ok, vs], the bindings as the    *)
(* call leaves them.  A predicate (a fn pointer) is the set of             *)
(* expressions it accepts.  A pattern string is a sequence of chars; a     *)
(* char of WideChars takes two bytes in UTF-8, the others one.             *)
(* The engine's state is its two caches; last records the answer of the   *)
(* latest call, or that the program panicked.                              *)
(***************************************************************************)
EXTENDS Integers, Sequences, SequencesExt, FiniteSets, Functions, TLC

CONSTANTS MaxDepth,        \* UnificationConfig.max_depth
          EnableCaching,   \* UnificationConfig.enable_caching
          Strings,         \* pattern strings handed to compile_pattern
          WideChars,       \* chars of two bytes
          Exprs,           \* expressions handed to unify
          Compiled,        \* CompiledPatterns built by hand
          ExtraConstraints,\* constraint lists for unify_with_constraints
          ExprLists,       \* expression slices for find_matches
          NoMax            \* max_matches = None, Size { max: None }

VARIABLES patternCache, unifCache, last

vars == <<patternCache, unifCache, last>>

ASSUME DepthAssumption == MaxDepth \in Nat

Ws == {" "}
-----------------------------------------------------------------------------
(* Helpers on expressions *)

(* expressions_equal compares every field, so it is equality. *)
ExpressionsEqual(e1, e2) == e1 = e2

TypeCompatible(e, t) ==
    \/ t = "Expression"
    \/ e.kind = "sym" /\ t = "Symbol"
    \/ e.kind = "cmp" /\ t = "Compound"

RECURSIVE ContainsSymbol(_, _)
ContainsSymbol(e, s) ==
    CASE e.kind = "sym" -> e.name = s
      [] e.kind = "var" -> FALSE
      [] OTHER -> \E i \in 1 .. Len(e.ch) : ContainsSymbol(e.ch[i], s)

RECURSIVE CalculateDepth(_)
CalculateDepth(e) ==
    IF e.kind # "cmp" THEN 1
    ELSE 1 + FoldLeft(LAMBDA m, c : IF CalculateDepth(c) > m THEN CalculateDepth(c) ELSE m,
                      0, e.ch)

RECURSIVE CalculateSize(_)
CalculateSize(e) ==
    IF e.kind # "cmp" THEN 1
    ELSE 1 + FoldLeft(LAMBDA s, c : s + CalculateSize(c), 0, e.ch)

CheckProperty(e, pc) ==
    CASE pc.kind = "IsSymbol" -> e.kind = "sym"
      [] pc.kind = "IsVariable" -> e.kind = "var"
      [] pc.kind = "IsCompound" -> e.kind = "cmp"
      [] pc.kind = "HasArity" -> e.kind = "cmp" /\ e.arity = pc.n
      [] pc.kind = "ContainsSymbol" -> ContainsSymbol(e, pc.s)
      [] pc.kind = "DepthEquals" -> CalculateDepth(e) = pc.n
      [] pc.kind = "DepthGreaterThan" -> CalculateDepth(e) > pc.n
      [] pc.kind = "DepthLessThan" -> CalculateDepth(e) < pc.n

(* Condition::Unifiable is only tried against a wildcard or a symbol. *)
CheckCondition(e, c) ==
    CASE c.kind = "pred" -> e \in c.accepts
      [] c.kind = "prop" -> CheckProperty(e, c.check)
      [] c.kind = "unifiable" ->
            \/ c.pat.kind = "wild"
            \/ e.kind = "sym" /\ c.pat.kind = "psym" /\ e.name = c.pat.name
-----------------------------------------------------------------------------
(* unify_recursive and the helpers it calls *)

(* mutant: a bound variable is bound again instead of compared *)
BindVariableNoCheck(e, v, vs) ==
    IF TypeCompatible(e, v.type) THEN [ok |-> TRUE, vs |-> (v :> e) @@ vs]
    ELSE [ok |-> FALSE, vs |-> vs]

(* bind_variable: a bound variable must meet an equal expression; an *)
(* unbound one binds when the type admits the expression.            *)
BindVariable(e, v, vs) ==
    IF v \in DOMAIN vs THEN [ok |-> ExpressionsEqual(e, vs[v]), vs |-> vs]
    ELSE IF TypeCompatible(e, v.type) THEN [ok |-> TRUE, vs |-> (v :> e) @@ vs]
    ELSE [ok |-> FALSE, vs |-> vs]

RECURSIVE UnifyRec(_, _, _, _), UnifyAll(_, _, _, _, _), UnifyAny(_, _, _, _, _)

(* zip(..).all(..): stop at the first child that fails; bindings made  *)
(* so far stay in the context.                                         *)
UnifyAll(cs, ps, i, d, vs) ==
    IF i > Len(cs) THEN [ok |-> TRUE, vs |-> vs]
    ELSE LET r == UnifyRec(cs[i], ps[i], d, vs)
         IN  IF r.ok THEN UnifyAll(cs, ps, i + 1, d, r.vs) ELSE r

(* alternatives.iter().any(..): each alternative starts from the       *)
(* bindings the failed ones before it left.                            *)
UnifyAny(e, alts, i, d, vs) ==
    IF i > Len(alts) THEN [ok |-> FALSE, vs |-> vs]
    ELSE LET r == UnifyRec(e, alts[i], d, vs)
         IN  IF r.ok THEN r ELSE UnifyAny(e, alts, i + 1, d, r.vs)

(* mutant: a slice as long as max_matches is refused *)
MatchSequenceAtMax(cs, ps, mn, mx, d, vs) ==
    IF Len(cs) < mn \/ (mx # NoMax /\ Len(cs) >= mx) \/ Len(ps) # Len(cs)
       THEN [ok |-> FALSE, vs |-> vs]
       ELSE UnifyAll(cs, ps, 1, d, vs)

MatchSequence(cs, ps, mn, mx, d, vs) ==
    IF Len(cs) < mn \/ (mx # NoMax /\ Len(cs) > mx) \/ Len(ps) # Len(cs)
       THEN [ok |-> FALSE, vs |-> vs]
       ELSE UnifyAll(cs, ps, 1, d, vs)

(* d is context.depth on entry; the call at depth d runs its children at d + 1. *)
UnifyRec(e, p, d, vs) ==
    IF d >= MaxDepth THEN [ok |-> FALSE, vs |-> vs]
    ELSE CASE p.kind = "wild" -> [ok |-> TRUE, vs |-> vs]
           [] p.kind = "pvar" -> BindVariable(e, p.var, vs)
           [] p.kind = "psym" -> [ok |-> e.kind = "sym" /\ e.name = p.name, vs |-> vs]
           [] p.kind = "pcmp" ->
                 IF e.kind = "cmp" /\ e.arity = p.arity /\ Len(e.ch) = Len(p.pats)
                    THEN UnifyAll(e.ch, p.pats, 1, d + 1, vs)
                    ELSE [ok |-> FALSE, vs |-> vs]
           [] p.kind = "cond" ->
                 IF CheckCondition(e, p.cond) THEN UnifyRec(e, p.pat, d + 1, vs)
                 ELSE [ok |-> FALSE, vs |-> vs]
           [] p.kind = "alt" -> UnifyAny(e, p.alts, 1, d + 1, vs)
           [] p.kind = "seq" /\ e.kind = "cmp" ->
                 MatchSequence(e.ch, p.pats, p.min, p.max, d + 1, vs)
           [] OTHER -> [ok |-> FALSE, vs |-> vs]

CheckStructuralConstraint(e, sc) ==
    CASE sc.kind = "Arity" -> e.kind = "cmp" /\ e.arity = sc.n
      [] sc.kind = "ContainsSymbol" -> ContainsSymbol(e, sc.s)
      [] sc.kind = "Depth" -> CalculateDepth(e) = sc.n
      [] sc.kind = "Size" -> /\ sc.min = NoMax \/ CalculateSize(e) >= sc.min
                             /\ sc.max = NoMax \/ CalculateSize(e) <= sc.max

(* check_constraints, one constraint: an unbound variable fails every   *)
(* constraint but NotEqual, which then holds.                           *)
ConstraintSatisfied(c, B) ==
    CASE c.kind = "Type" -> c.v \in DOMAIN B /\ TypeCompatible(B[c.v], c.t)
      [] c.kind = "Equal" -> {c.v1, c.v2} \subseteq DOMAIN B
                               /\ ExpressionsEqual(B[c.v1], B[c.v2])
      [] c.kind = "NotEqual" -> {c.v1, c.v2} \subseteq DOMAIN B
                                  => ~ExpressionsEqual(B[c.v1], B[c.v2])
      [] c.kind = "Structure" -> c.v \in DOMAIN B /\ CheckStructuralConstraint(B[c.v], c.sc)
      [] c.kind = "Predicate" -> c.v \in DOMAIN B /\ B[c.v] \in c.accepts

(* unify: a cached result for (pattern.id, 0) if there is one, else a   *)
(* fresh MatchingContext; success needs every constraint satisfied.     *)
UnifyResult(e, cp) ==
    IF EnableCaching /\ <<cp.id, 0>> \in DOMAIN unifCache
       THEN unifCache[<<cp.id, 0>>]
       ELSE LET r == UnifyRec(e, cp.structure, 0, <<>>)
                csat == \A i \in 1 .. Len(cp.constraints) :
                           ConstraintSatisfied(cp.constraints[i], r.vs)
            IN  [success |-> r.ok /\ csat, bindings |-> r.vs, csat |-> csat]
-----------------------------------------------------------------------------
(* PatternParser.  position counts chars (current_char is chars().nth), *)
(* but is compared with input.len(), which counts bytes, and the slices *)
(* input[start..position] take byte offsets.                            *)

Width(c) == IF c \in WideChars THEN 2 ELSE 1

(* the byte offset of the k-th char *)
ByteOff(s, k) == FoldLeft(LAMBDA n, c : n + Width(c), 0, SubSeq(s, 1, k))

ByteLen(s) == ByteOff(s, Len(s))

CurrentChar(s, pos) == IF pos < Len(s) THEN s[pos + 1] ELSE "nul"

Panic == [kind |-> "panic"]
ParseError == [kind |-> "err"]
Ok(p, pos, nv) == [kind |-> "ok", pat |-> p, pos |-> pos, nv |-> nv]

(* &input[a..b]: the chars between two byte offsets; it panics unless *)
(* both offsets fall on char boundaries.                              *)
OnBoundary(s, a) == \E i \in 0 .. Len(s) : ByteOff(s, i) = a

Slice(s, a, b) ==
    LET i == CHOOSE i \in 0 .. Len(s) : ByteOff(s, i) = a
        j == CHOOSE j \in 0 .. Len(s) : ByteOff(s, j) = b
    IN  SubSeq(s, i + 1, j)

RECURSIVE SkipWhitespace(_, _)
SkipWhitespace(s, pos) ==
    IF pos < ByteLen(s) /\ CurrentChar(s, pos) \in Ws THEN SkipWhitespace(s, pos + 1) ELSE pos

RECURSIVE IdentEnd(_, _)
IdentEnd(s, pos) ==
    IF pos < ByteLen(s) /\ CurrentChar(s, pos) \notin Ws \cup {"(", ")"}
       THEN IdentEnd(s, pos + 1) ELSE pos

RECURSIVE QuoteEnd(_, _)
QuoteEnd(s, pos) ==
    IF pos < ByteLen(s) /\ CurrentChar(s, pos) # "\"" THEN QuoteEnd(s, pos + 1) ELSE pos

(* parse_identifier, as a Symbol pattern *)
ParseIdentifier(s, start, nv) ==
    LET e == IdentEnd(s, start)
    IN  IF start = e THEN ParseError
        ELSE IF ~(OnBoundary(s, start) /\ OnBoundary(s, e)) THEN Panic
        ELSE Ok([kind |-> "psym", name |-> Slice(s, start, e)], e, nv)

ParseStringPattern(s, pos, nv) ==
    LET e == QuoteEnd(s, pos + 1)
    IN  IF e >= ByteLen(s) THEN ParseError
        ELSE IF ~(OnBoundary(s, pos + 1) /\ OnBoundary(s, e)) THEN Panic
        ELSE Ok([kind |-> "psym", name |-> Slice(s, pos + 1, e)], e + 1, nv)

RECURSIVE ParsePattern(_, _, _), CompoundLoop(_, _, _, _)

(* the loop of parse_compound_pattern, from the char after '(' *)
CompoundLoop(s, pos, nv, pats) ==
    LET done(p) == IF p >= ByteLen(s) THEN ParseError
                   ELSE Ok([kind |-> "pcmp", arity |-> Len(pats), pats |-> pats], p + 1, nv)
        p1 == SkipWhitespace(s, pos)
        r == ParsePattern(s, p1, nv)
    IN  IF pos < ByteLen(s) /\ CurrentChar(s, pos) # ")"
           THEN IF CurrentChar(s, p1) = ")" THEN done(p1)
                ELSE IF r.kind # "ok" THEN r
                ELSE CompoundLoop(s, SkipWhitespace(s, r.pos), r.nv, Append(pats, r.pat))
           ELSE done(pos)

(* parse_pattern: '?' is a fresh Expression variable named var_<id> *)
ParsePattern(s, pos, nv) ==
    LET p0 == SkipWhitespace(s, pos)
        ch == CurrentChar(s, p0)
    IN  IF p0 >= ByteLen(s) THEN ParseError
        ELSE CASE ch = "*" -> Ok([kind |-> "wild"], p0 + 1, nv)
               [] ch = "?" -> Ok([kind |-> "pvar",
                                  var |-> [name |-> "var_" \o ToString(nv), id |-> nv,
                                         type |-> "Expression"]],
                                 p0 + 1, nv + 1)
               [] ch = "(" -> CompoundLoop(s, p0 + 1, nv, <<>>)
               [] ch = "\"" -> ParseStringPattern(s, p0, nv)
               [] OTHER -> ParseIdentifier(s, p0, nv)

(* PatternParser::parse: id 1, no constraints; text after the first *)
(* pattern is ignored.                                              *)
Parse(s) ==
    LET r == ParsePattern(s, 0, 1)
    IN  IF r.kind = "ok"
           THEN [kind |-> "ok", cp |-> [id |-> 1, structure |-> r.pat, constraints |-> <<>>]]
           ELSE r
-----------------------------------------------------------------------------
(* The engine *)

Running == last.op # "panic"

Init ==
    /\ patternCache = <<>>
    /\ unifCache = <<>>
    /\ last = [op |-> "none"]

(* compile_pattern: the cached pattern, else parse and cache it when  *)
(* caching is on; a panic in the parser ends the program.             *)
CompilePattern(str) ==
    IF str \in DOMAIN patternCache
       THEN /\ last' = [op |-> "compile", res |-> [kind |-> "ok", cp |-> patternCache[str]]]
            /\ UNCHANGED <<patternCache, unifCache>>
       ELSE LET r == Parse(str)
            IN  /\ last' = IF r = Panic THEN [op |-> "panic"] ELSE [op |-> "compile", res |-> r]
                /\ patternCache' = IF r.kind = "ok" /\ EnableCaching
                                      THEN (str :> r.cp) @@ patternCache
                                      ELSE patternCache
                /\ UNCHANGED unifCache

(* the patterns a caller holds: built by hand or compiled *)
Patterns == Compiled \cup Range(patternCache)

Unify(e, cp) ==
    /\ last' = [op |-> "unify", expr |-> e, pat |-> cp, res |-> UnifyResult(e, cp)]
    /\ UNCHANGED <<patternCache, unifCache>>

(* the indices (from 0) of the expressions that unify *)
Matching(cp, es) == SelectSeq([i \in 1 .. Len(es) |-> i],
                              LAMBDA i : UnifyResult(es[i], cp).success)

FindMatches(cp, es) ==
    /\ last' = [op |-> "find", idxs |-> [i \in 1 .. Len(Matching(cp, es)) |->
                                            Matching(cp, es)[i] - 1]]
    /\ UNCHANGED <<patternCache, unifCache>>

(* multi_pattern_match over a slice of two patterns *)
MultiPatternMatch(cp1, cp2, es) ==
    /\ last' = [op |-> "multi", counts |-> <<Len(Matching(cp1, es)), Len(Matching(cp2, es))>>]
    /\ UNCHANGED <<patternCache, unifCache>>

UnifyWithConstraints(e, cp, extra) ==
    LET enhanced == [cp EXCEPT !.constraints = @ \o extra]
    IN  /\ last' = [op |-> "unify", expr |-> e, pat |-> enhanced,
                    res |-> UnifyResult(e, enhanced)]
        /\ UNCHANGED <<patternCache, unifCache>>

(* generate_unifications: each alternative unified on its own *)
GenerateUnifications(e, cp) ==
    LET alts == IF cp.structure.kind = "alt" THEN cp.structure.alts ELSE <<cp.structure>>
        res == [i \in 1 .. Len(alts) |-> UnifyResult(e, [cp EXCEPT !.structure = alts[i]])]
        ok == IF cp.structure.kind = "alt" THEN SelectSeq(res, LAMBDA r : r.success) ELSE res
    IN  /\ last' = [op |-> "generate", expr |-> e, pat |-> cp,
                    successes |-> Len(SelectSeq(ok, LAMBDA r : r.success))]
        /\ UNCHANGED <<patternCache, unifCache>>

ClearCache ==
    /\ patternCache' = <<>> /\ unifCache' = <<>>
    /\ last' = [op |-> "clear"]

Stats ==
    /\ last' = [op |-> "stats", patterns |-> Cardinality(DOMAIN patternCache),
                unifications |-> Cardinality(DOMAIN unifCache), enabled |-> EnableCaching]
    /\ UNCHANGED <<patternCache, unifCache>>

Next ==
    /\ Running
    /\ \/ \E s \in Strings : CompilePattern(s)
       \/ \E e \in Exprs, cp \in Patterns :
             \/ Unify(e, cp) \/ GenerateUnifications(e, cp)
             \/ \E extra \in ExtraConstraints : UnifyWithConstraints(e, cp, extra)
       \/ \E es \in ExprLists, cp1, cp2 \in Patterns :
             FindMatches(cp1, es) \/ MultiPatternMatch(cp1, cp2, es)
       \/ ClearCache
       \/ Stats

Spec == Init /\ [][Next]_vars
-----------------------------------------------------------------------------
(* What a unification means, stated without a context: e matches p     *)
(* under the bindings s, every occurrence of a variable meeting its one *)
(* binding, an Alternative meeting one of its alternatives.             *)
RECURSIVE RefMatch(_, _, _)
RefMatch(e, p, s) ==
    CASE p.kind = "wild" -> TRUE
      [] p.kind = "pvar" -> p.var \in DOMAIN s /\ s[p.var] = e /\ TypeCompatible(e, p.var.type)
      [] p.kind = "psym" -> e.kind = "sym" /\ e.name = p.name
      [] p.kind = "pcmp" -> /\ e.kind = "cmp" /\ e.arity = p.arity /\ Len(e.ch) = Len(p.pats)
                            /\ \A i \in 1 .. Len(p.pats) : RefMatch(e.ch[i], p.pats[i], s)
      [] p.kind = "cond" -> CheckCondition(e, p.cond) /\ RefMatch(e, p.pat, s)
      [] p.kind = "alt" -> \E i \in 1 .. Len(p.alts) : RefMatch(e, p.alts[i], s)
      [] p.kind = "seq" -> /\ e.kind = "cmp" /\ Len(e.ch) >= p.min
                           /\ p.max = NoMax \/ Len(e.ch) <= p.max
                           /\ Len(e.ch) = Len(p.pats)
                           /\ \A i \in 1 .. Len(p.pats) : RefMatch(e.ch[i], p.pats[i], s)
      [] OTHER -> FALSE

(* the sub-patterns of p *)
SubPats(p) ==
    CASE p.kind \in {"pcmp", "seq"} -> Range(p.pats)
      [] p.kind = "cond" -> {p.pat}
      [] p.kind = "alt" -> Range(p.alts)
      [] OTHER -> {}

RECURSIVE VarsOf(_), SubTerms(_), AltFree(_), PatDepth(_)
VarsOf(p) == (IF p.kind = "pvar" THEN {p.var} ELSE {}) \cup UNION {VarsOf(q) : q \in SubPats(p)}
SubTerms(e) == {e} \cup (IF e.kind = "cmp" THEN UNION {SubTerms(c) : c \in Range(e.ch)} ELSE {})
AltFree(p) == p.kind # "alt" /\ \A q \in SubPats(p) : AltFree(q)
(* the deepest nesting of unify_recursive calls the pattern can cause *)
PatDepth(p) == 1 + FoldSet(LAMBDA q, m : IF PatDepth(q) > m THEN PatDepth(q) ELSE m,
                           0, SubPats(p))

(* unify never reports success for an expression the pattern does not    *)
(* describe: bind_variable's check of a bound variable, the arity and    *)
(* length checks and the conditions all hold of the bindings returned.   *)
UnifySound ==
    last.op = "unify" /\ last.res.success =>
        RefMatch(last.expr, last.pat.structure, last.res.bindings)

(* unify finds every match of a pattern without alternatives that stays  *)
(* within max_depth: bindings threaded through the children, the type    *)
(* checks and the constraint checks never reject a valid match.          *)
UnifyComplete ==
    /\ last.op = "unify"
    /\ AltFree(last.pat.structure)
    /\ PatDepth(last.pat.structure) <= MaxDepth
    /\ \E s \in [VarsOf(last.pat.structure) -> SubTerms(last.expr)] :
          /\ RefMatch(last.expr, last.pat.structure, s)
          /\ \A i \in 1 .. Len(last.pat.constraints) :
                ConstraintSatisfied(last.pat.constraints[i], s)
    => last.res.success

(* "Alternative patterns (OR)": unify with an Alternative succeeds       *)
(* exactly when one of its alternatives unifies, as generate_unifications *)
(* tries them each on its own.                                           *)
AltIsOr ==
    last.op = "unify" /\ last.pat.structure.kind = "alt" =>
        (last.res.success <=>
            \E i \in 1 .. Len(last.pat.structure.alts) :
                UnifyResult(last.expr, [last.pat EXCEPT !.structure = @.alts[i]]).success)

(* compile_pattern reports a malformed pattern string as a ParseError;   *)
(* the parser never panics, whatever chars the string holds.             *)
NoPanic == last.op # "panic"
============================================================================
