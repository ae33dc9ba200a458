----------------------------- MODULE ExprQuery -----------------------------
(***************************************************************************)
(* ExprQueryEngine (expr_query.rs): expressions stored by id, a symbol     *)
(* index and an arity index (BTreeMaps to Vecs of ids), and a structure    *)
(* index that is a BytesTrieMap over encode_structure's byte keys; the     *)
(* trie's own operations are those of the TrieMap module.  Expressions are *)
(* records: [kind |-> "sym", name], [kind |-> "var", name] (names are byte *)
(* sequences) and [kind |-> "cmp", arity, ch] with ch a sequence.          *)
(* The per-expression metadata (depth, counts, created_at) and the query   *)
(* statistics are written and never read by the engine: they are left out.*)
(***************************************************************************)
EXTENDS Integers, Sequences, SequencesExt, FiniteSets, Functions

CONSTANTS Structures,  \* the expressions a caller inserts
          Patterns,    \* the patterns a caller queries with
          Ids,         \* ids a caller passes to remove
          MaxId,       \* bound on next_id
          NoVal

VARIABLES exprs, symIdx, arIdx, strIdx, nextId, last

vars == <<exprs, symIdx, arIdx, strIdx, nextId, last>>

TM == INSTANCE TrieMap WITH Keys <- {}, Values <- {}, Handles <- {}, None <- NoVal,
                            tries <- <<>>, ret <- NoVal, itw <- NoVal, stack <- <<>>

(* entry(k).or_default().push(id) *)
Push(f, k, id) == IF k \in DOMAIN f THEN [f EXCEPT ![k] = Append(@, id)] ELSE (k :> <<id>>) @@ f

(* get_mut(k): retain(|&x| x != id), then remove(k) once empty *)
RetainKeepEmpty(f, k, id) ==
    IF k \notin DOMAIN f THEN f ELSE [f EXCEPT ![k] = SelectSeq(@, LAMBDA x : x # id)]

RetainDropKey(f, k, id) == IF k \notin DOMAIN f THEN f ELSE Restrict(f, DOMAIN f \ {k})

Retain(f, k, id) ==
    IF k \notin DOMAIN f THEN f
    ELSE LET r == SelectSeq(f[k], LAMBDA x : x # id)
         IN  IF r = <<>> THEN Restrict(f, DOMAIN f \ {k}) ELSE [f EXCEPT ![k] = r]

(* arity.to_be_bytes() of a 64-bit usize; the arities a model uses are   *)
(* below 2^31, so the four high bytes are zero.                          *)
BeBytes(n) == <<0, 0, 0, 0>> \o [i \in 1 .. 4 |-> (n \div (256 ^ (4 - i))) % 256]

(* encode_structure: a marker byte, then the symbol or variable bytes, or  *)
(* the arity's eight bytes and the children's encodings.                 *)
RECURSIVE EncodeStructure(_)
EncodeStructure(s) ==
    CASE s.kind = "sym" -> <<1>> \o s.name
      [] s.kind = "var" -> <<2>> \o s.name
      [] s.kind = "cmp" -> FoldLeft(LAMBDA acc, c : acc \o EncodeStructure(c),
                                    <<3>> \o BeBytes(s.arity), s.ch)

(* index_expression: the symbol, or the arity, the children in order and *)
(* then the compound's structural key mapped to vec![id].                *)
RECURSIVE IndexExpression(_, _, _)
IndexExpression(st, id, s) ==
    CASE s.kind = "sym" -> [st EXCEPT !.sym = Push(@, s.name, id)]
      [] s.kind = "var" -> st
      [] s.kind = "cmp" ->
            LET kids == FoldLeft(LAMBDA acc, c : IndexExpression(acc, id, c),
                                 [st EXCEPT !.ar = Push(@, s.arity, id)], s.ch)
            IN  [kids EXCEPT !.str = TM!InsertWalk(@, EncodeStructure(s), 1, <<id>>).node]

UnindexTopOnly(st, id, s) ==
    CASE s.kind = "sym" -> [st EXCEPT !.sym = Retain(@, s.name, id)]
      [] s.kind = "var" -> st
      [] s.kind = "cmp" ->
            [st EXCEPT !.ar = Retain(@, s.arity, id),
                       !.str = TM!RemoveRecursive(@, EncodeStructure(s), 1).node]

(* unindex_expression: the same walk, retaining the other ids and        *)
(* removing the structural key.                                          *)
RECURSIVE UnindexExpression(_, _, _)
UnindexExpression(st, id, s) ==
    CASE s.kind = "sym" -> [st EXCEPT !.sym = Retain(@, s.name, id)]
      [] s.kind = "var" -> st
      [] s.kind = "cmp" ->
            LET kids == FoldLeft(LAMBDA acc, c : UnindexExpression(acc, id, c),
                                 [st EXCEPT !.ar = Retain(@, s.arity, id)], s.ch)
            IN  [kids EXCEPT !.str = TM!RemoveRecursive(@, EncodeStructure(s), 1).node]

(* matches_pattern *)
RECURSIVE MatchesPattern(_, _)
MatchesPattern(s, p) ==
    CASE p.kind = "any" -> TRUE
      [] p.kind = "pred" -> p.holds
      [] p.kind = "sym" /\ s.kind = "sym" -> s.name = p.name
      [] p.kind = "var" /\ s.kind = "var" -> s.name = p.name
      [] p.kind = "cmp" /\ s.kind = "cmp" ->
            /\ s.arity = p.arity /\ Len(s.ch) = Len(p.ch)
            /\ \A i \in 1 .. Len(s.ch) : MatchesPattern(s.ch[i], p.ch[i])
      [] OTHER -> FALSE

Lookup(f, k) == IF k \in DOMAIN f THEN f[k] ELSE <<>>

QueryBySymbol(name) == Lookup(symIdx, name)

QueryByArity(n) == Lookup(arIdx, n)

StoredIds == SetToSortSeq(DOMAIN exprs, <)

Scan(p) == SelectSeq(StoredIds, LAMBDA id : MatchesPattern(exprs[id], p))

(* find_matches: Any lists every id, Symbol reads the symbol index,      *)
(* Variable and Predicate scan, Compound filters the arity index.        *)
FindMatches(p) ==
    CASE p.kind = "any" -> StoredIds
      [] p.kind = "sym" -> QueryBySymbol(p.name)
      [] p.kind \in {"var", "pred"} -> Scan(p)
      [] p.kind = "cmp" ->
            SelectSeq(QueryByArity(p.arity),
                      LAMBDA id : id \in DOMAIN exprs /\ MatchesPattern(exprs[id], p))
-----------------------------------------------------------------------------
Init ==
    /\ exprs = <<>> /\ symIdx = <<>> /\ arIdx = <<>>
    /\ strIdx = TM!EmptyNode
    /\ nextId = 1
    /\ last = [op |-> "none"]

Index(id, s) == IndexExpression([sym |-> symIdx, ar |-> arIdx, str |-> strIdx], id, s)

(* insert: take next_id, store the expression, index it *)
Insert(s) ==
    /\ nextId < MaxId
    /\ LET st == Index(nextId, s)
       IN  /\ exprs' = (nextId :> s) @@ exprs
           /\ symIdx' = st.sym /\ arIdx' = st.ar /\ strIdx' = st.str
    /\ nextId' = nextId + 1
    /\ last' = [op |-> "insert", id |-> nextId]

(* remove: if stored, take it out and unindex it *)
RemoveExpr(id) ==
    /\ IF id \in DOMAIN exprs
          THEN LET st == UnindexExpression([sym |-> symIdx, ar |-> arIdx, str |-> strIdx],
                                           id, exprs[id])
               IN  /\ exprs' = Restrict(exprs, DOMAIN exprs \ {id})
                   /\ symIdx' = st.sym /\ arIdx' = st.ar /\ strIdx' = st.str
          ELSE UNCHANGED <<exprs, symIdx, arIdx, strIdx>>
    /\ last' = [op |-> "remove", found |-> id \in DOMAIN exprs]
    /\ UNCHANGED nextId

Query(p) ==
    /\ last' = [op |-> "query", pat |-> p, ids |-> FindMatches(p)]
    /\ UNCHANGED <<exprs, symIdx, arIdx, strIdx, nextId>>

(* query_and: empty for no patterns, else the intersection as a HashSet *)
QueryAnd(ps) ==
    /\ last' = [op |-> "and", pats |-> ps,
                set |-> IF ps = <<>> THEN {}
                        ELSE FoldLeft(LAMBDA acc, p : acc \cap ToSet(FindMatches(p)),
                                      ToSet(FindMatches(Head(ps))), Tail(ps))]
    /\ UNCHANGED <<exprs, symIdx, arIdx, strIdx, nextId>>

(* query_or: the union as a HashSet *)
QueryOr(ps) ==
    /\ last' = [op |-> "or", pats |-> ps,
                set |-> FoldLeft(LAMBDA acc, p : acc \cup ToSet(FindMatches(p)), {}, ps)]
    /\ UNCHANGED <<exprs, symIdx, arIdx, strIdx, nextId>>

Next ==
    \/ \E s \in Structures : Insert(s)
    \/ \E id \in Ids : RemoveExpr(id)
    \/ \E p \in Patterns : Query(p)
    \/ \E p, q \in Patterns : QueryAnd(<<p, q>>) \/ QueryOr(<<p, q>>)

Spec == Init /\ [][Next]_vars
-----------------------------------------------------------------------------
(* The number of occurrences of a symbol name, or of compounds of an      *)
(* arity, in an expression, counting nested ones.                        *)
RECURSIVE SymCount(_, _)
SymCount(s, n) ==
    CASE s.kind = "sym" -> IF s.name = n THEN 1 ELSE 0
      [] s.kind = "var" -> 0
      [] s.kind = "cmp" -> FoldLeft(LAMBDA acc, c : acc + SymCount(c, n), 0, s.ch)

RECURSIVE ArCount(_, _)
ArCount(s, a) ==
    CASE s.kind = "sym" -> 0
      [] s.kind = "var" -> 0
      [] s.kind = "cmp" -> FoldLeft(LAMBDA acc, c : acc + ArCount(c, a), IF s.arity = a THEN 1 ELSE 0, s.ch)

RECURSIVE Compounds(_)
Compounds(s) ==
    IF s.kind = "cmp" THEN {s} \cup UNION {Compounds(s.ch[i]) : i \in 1 .. Len(s.ch)} ELSE {}

RECURSIVE SubTerms(_)
SubTerms(s) ==
    {s} \cup IF s.kind = "cmp" THEN UNION {SubTerms(s.ch[i]) : i \in 1 .. Len(s.ch)} ELSE {}

SymNames == {t.name : t \in {t \in UNION {SubTerms(s) : s \in Structures} : t.kind = "sym"}}

Arities == {t.arity : t \in {t \in UNION {SubTerms(s) : s \in Structures} : t.kind = "cmp"}}

Occ(seq, id) == Cardinality({i \in 1 .. Len(seq) : seq[i] = id})

Stored(id) == IF id \in DOMAIN exprs THEN exprs[id] ELSE [kind |-> "var", name |-> <<>>]

TypeOK ==
    /\ nextId \in 1 .. MaxId
    /\ DOMAIN exprs \subseteq 1 .. nextId - 1
    /\ \A id \in DOMAIN exprs : exprs[id] \in Structures
    /\ \A k \in DOMAIN symIdx : symIdx[k] \in Seq(DOMAIN exprs)
    /\ \A k \in DOMAIN arIdx : arIdx[k] \in Seq(DOMAIN exprs)

(* After any sequence of inserts and removes, the symbol and arity        *)
(* indexes hold exactly one entry per occurrence of a symbol (or compound *)
(* of an arity) in each stored expression, nested ones included, and no  *)
(* key with an empty Vec: insert pushes per occurrence, remove's retain  *)
(* drops them all, and an emptied key is removed.                        *)
IndexExact ==
    /\ \A k \in DOMAIN symIdx : symIdx[k] # <<>>
    /\ \A k \in DOMAIN arIdx : arIdx[k] # <<>>
    /\ \A id \in 1 .. MaxId :
          /\ \A n \in SymNames : Occ(Lookup(symIdx, n), id) = SymCount(Stored(id), n)
          /\ \A a \in Arities : Occ(Lookup(arIdx, a), id) = ArCount(Stored(id), a)

(* query(p) returns every stored expression that matches p by            *)
(* matches_pattern: the index a query reads is never missing an id after *)
(* removals of other expressions that share its symbols or arities.      *)
QueryComplete ==
    last.op = "query" =>
        \A id \in DOMAIN exprs :
            MatchesPattern(exprs[id], last.pat) => id \in ToSet(last.ids)

(* query(p) returns only stored expressions that match p ("Query         *)
(* expressions matching a pattern").                                     *)
QuerySound ==
    last.op = "query" =>
        \A id \in ToSet(last.ids) : id \in DOMAIN exprs /\ MatchesPattern(exprs[id], last.pat)

(* query(p) returns each matching id once, as the module's tests expect  *)
(* (query_by_symbol(b"add") == vec![id1]).                              *)
QueryNoDuplicates ==
    last.op = "query" => IsInjective(last.ids)

(* The structure index holds the structural key of every compound of    *)
(* every stored expression, nested ones included, and no other key.     *)
StructureIndexExact ==
    TM!KeysOf(strIdx, <<>>) =
        {EncodeStructure(c) : c \in UNION {Compounds(exprs[id]) : id \in DOMAIN exprs}}
============================================================================
