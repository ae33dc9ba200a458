----------------------------- MODULE JsonPath -----------------------------
(***************************************************************************)
(* JsonPathEngine (jsonpath_engine.rs): the PathParser that compiles a    *)
(* path and the evaluation of a compiled path over a serde_json Value;    *)
(* the calls over the compile cache are JsonPathCache's, with Compile and *)
(* Evaluate substituted for its parameters by the runs.  A path string is *)
(* a sequence of one-character strings; a JSON value is a record tagged   *)
(* by t: "num" (n), "str", "null", "arr" (a, a sequence) or "obj" (o, a   *)
(* function from keys to values, iterated in KeyOrder as serde_json's     *)
(* BTreeMap does).  The path strings of the results are formatting and    *)
(* are left out; a result is the sequence of selected values.             *)
(***************************************************************************)
EXTENDS JsonPathCache, Integers, Sequences, SequencesExt, FiniteSets, Bags, BagsExt, TLC

CONSTANTS
    KeyOrder,       \* the object keys in byte order
    MaxDepth        \* JsonPathConfig::max_depth

ASSUME ConfigAssumption == MaxDepth \in Nat

Digits == [d \in {"0", "1", "2", "3", "4", "5", "6", "7", "8", "9"} |->
              CHOOSE n \in 0 .. 9 : <<"0", "1", "2", "3", "4", "5", "6", "7", "8", "9">>[n + 1] = d]

(* str::parse::<i64>: an optional sign, then one or more decimal digits *)
ParseInt(s) ==
    LET sign == IF s # <<>> /\ s[1] \in {"+", "-"} THEN 1 ELSE 0
        ds   == SubSeq(s, sign + 1, Len(s))
        mag  == FoldLeft(LAMBDA n, c : 10 * n + Digits[c], 0, ds)
    IN  IF ds # <<>> /\ \A i \in DOMAIN ds : ds[i] \in DOMAIN Digits
           THEN [ok |-> TRUE, n |-> IF sign = 1 /\ s[1] = "-" THEN -mag ELSE mag]
           ELSE [ok |-> FALSE]

(* str::trim over the one whitespace character the paths use *)
Trim(s) ==
    LET in == {i \in DOMAIN s : s[i] # " "}
    IN  IF in = {} THEN <<>>
        ELSE SubSeq(s, CHOOSE i \in in : \A j \in in : i <= j, CHOOSE i \in in : \A j \in in : i >= j)

(* str::split(c): the pieces between the occurrences of c *)
Split(s, c) ==
    LET cuts == <<0>> \o SelectSeq([i \in DOMAIN s |-> IF s[i] = c THEN i ELSE 0], LAMBDA i : i > 0)
                      \o <<Len(s) + 1>>
    IN  [k \in 1 .. Len(cuts) - 1 |-> SubSeq(s, cuts[k] + 1, cuts[k + 1] - 1)]

(* .parse().ok() on a non-empty piece, None on an empty or absent one *)
OptInt(parts, k) ==
    IF Len(parts) >= k /\ parts[k] # <<>> /\ ParseInt(parts[k]).ok
       THEN [some |-> ParseInt(parts[k]).n] ELSE [none |-> TRUE]

Dummy == <<"d", "u", "m", "m", "y">>

(* parse_bracket_content *)
ParseBracketContent(raw) ==
    LET c == Trim(raw)
        parts(ch) == Split(c, ch)
    IN  CASE c = <<"*">> -> [k |-> "wild"]
          [] c # <<>> /\ c[1] = "?" -> [k |-> "exists", field |-> Dummy]
          [] ":" \in ToSet(c) ->
                [k |-> "slice", start |-> OptInt(parts(":"), 1),
                 end |-> OptInt(parts(":"), 2), step |-> OptInt(parts(":"), 3)]
          [] "," \in ToSet(c) ->
                [k |-> "union",
                 segs |-> [i \in DOMAIN parts(",") |->
                             LET p == Trim(parts(",")[i])
                             IN  IF ParseInt(p).ok THEN [k |-> "index", i |-> ParseInt(p).n]
                                 ELSE [k |-> "child", key |-> p]]]
          [] ParseInt(c).ok -> [k |-> "index", i |-> ParseInt(c).n]
          [] OTHER -> [k |-> "child", key |-> c]

(* the position after the ] that closes the [ before pos, or 0 *)
RECURSIVE BracketEnd(_, _, _)
BracketEnd(s, pos, count) ==
    IF pos > Len(s) \/ count = 0 THEN IF count = 0 THEN pos ELSE 0
    ELSE BracketEnd(s, pos + 1, count + (IF s[pos] = "[" THEN 1 ELSE IF s[pos] = "]" THEN -1 ELSE 0))

RECURSIVE IdentEnd(_, _)
IdentEnd(s, pos) == IF pos > Len(s) \/ s[pos] \in {".", "["} THEN pos ELSE IdentEnd(s, pos + 1)

(* PathParser::parse, with parse_bracket_expression and parse_identifier *)
RECURSIVE ParseFrom(_, _, _)
ParseFrom(s, pos, segs) ==
    IF pos > Len(s) THEN [ok |-> TRUE, segs |-> segs]
    ELSE CASE s[pos] = "." ->
                IF pos + 1 <= Len(s) /\ s[pos + 1] = "."
                   THEN ParseFrom(s, pos + 2, Append(segs, [k |-> "desc"]))
                   ELSE ParseFrom(s, pos + 1, segs)
           [] s[pos] = "[" ->
                IF pos + 1 > Len(s) THEN [ok |-> FALSE]
                ELSE LET e == BracketEnd(s, pos + 1, 1)
                     IN  IF e = 0 THEN [ok |-> FALSE]
                         ELSE ParseFrom(s, e, Append(segs, ParseBracketContent(SubSeq(s, pos + 1, e - 2))))
           [] OTHER ->
                LET e == IdentEnd(s, pos)
                    id == SubSeq(s, pos, e - 1)
                IN  IF id = <<>> THEN [ok |-> FALSE]
                    ELSE ParseFrom(s, e, Append(segs, IF id = <<"*">> THEN [k |-> "wild"]
                                                      ELSE [k |-> "child", key |-> id]))

(* compile_path: an empty path is an error; a leading $ is skipped; the  *)
(* runs substitute it for JsonPathCache's CompilePath                     *)
Compile(s) ==
    IF s = <<>> THEN [ok |-> FALSE]
    ELSE ParseFrom(s, IF s[1] = "$" THEN 2 ELSE 1, <<>>)
-----------------------------------------------------------------------------
(* The children of a value in the order the code visits them. *)
Children(v) ==
    CASE v.t = "arr" -> v.a
      [] v.t = "obj" -> LET ks == SelectSeq(KeyOrder, LAMBDA k : k \in DOMAIN v.o)
                        IN  [i \in DOMAIN ks |-> v.o[ks[i]]]
      [] OTHER -> <<>>

Out(vs) == [ok |-> TRUE, vals |-> vs]

(* apply_child_access *)
ChildAccess(v, key) ==
    IF v.t = "obj" /\ key \in DOMAIN v.o THEN <<v.o[key]>> ELSE <<>>

(* apply_index_access: a negative index counts from the end *)
IndexAccess(v, idx) ==
    IF v.t # "arr" THEN <<>>
    ELSE LET index == IF idx < 0 THEN Len(v.a) + idx ELSE idx
         IN  IF index >= 0 /\ index < Len(v.a) THEN <<v.a[index + 1]>> ELSE <<>>

(* the while loop of apply_slice_access: the indices it pushes, with its *)
(* iteration count `index` and the break once that count passes len     *)
RECURSIVE SliceLoop(_, _, _, _, _)
SliceLoop(len, i, end, step, index) ==
    IF ~((step > 0 /\ i < end /\ i < len) \/ (step < 0 /\ i > end /\ i >= 0)) THEN <<>>
    ELSE (IF i >= 0 /\ i < len THEN <<i>> ELSE <<>>)
         \o (IF index + 1 > len THEN <<>> ELSE SliceLoop(len, i + step, end, step, index + 1))

Get(o, d) == IF "some" \in DOMAIN o THEN o.some ELSE d

(* apply_slice_access *)
SliceAccess(v, seg) ==
    IF v.t # "arr" THEN Out(<<>>)
    ELSE LET len  == Len(v.a)
             step == Get(seg.step, 1)
         IN  IF step = 0 THEN Err("step")
             ELSE LET is == SliceLoop(len, Get(seg.start, IF step > 0 THEN 0 ELSE len - 1),
                                      Get(seg.end, IF step > 0 THEN len ELSE -1), step, 0)
                  IN  Out([k \in DOMAIN is |-> v.a[is[k] + 1]])

(* mutant: the queue is fed the members of objects only *)
RECURSIVE BfsSkipArrays(_)
BfsSkipArrays(queue) ==
    IF queue = <<>> THEN <<>>
    ELSE <<Head(queue)>> \o BfsSkipArrays(Tail(queue) \o (IF Head(queue).t = "obj" THEN Children(Head(queue)) ELSE <<>>))

(* apply_recursive_descent: breadth-first from the input, every node *)
(* pushed to the output as it leaves the queue                        *)
RECURSIVE Bfs(_)
Bfs(queue) ==
    IF queue = <<>> THEN <<>> ELSE <<Head(queue)>> \o Bfs(Tail(queue) \o Children(Head(queue)))

(* evaluate_filter on FilterExpression::Exists, the only filter the *)
(* parser builds                                                     *)
Exists(v, field) == v.t = "obj" /\ field \in DOMAIN v.o

(* apply_segment on one input value, at recursion depth d *)
RECURSIVE ApplyOne(_, _, _)
ApplyOne(v, seg, d) ==
    CASE seg.k = "child" -> Out(ChildAccess(v, seg.key))
      [] seg.k = "index" -> Out(IndexAccess(v, seg.i))
      [] seg.k = "slice" -> SliceAccess(v, seg)
      [] seg.k = "wild"  -> Out(Children(v))
      [] seg.k = "desc"  -> IF d >= MaxDepth THEN Err("recursion") ELSE Out(Bfs(<<v>>))
      [] seg.k = "exists" -> Out(SelectSeq(Children(v), LAMBDA c : Exists(c, seg.field)))
      [] seg.k = "union" ->
            FoldLeft(LAMBDA r, s : IF ~r.ok THEN r
                                   ELSE LET x == ApplyOne(v, s, d)
                                        IN  IF x.ok THEN Out(r.vals \o x.vals) ELSE x,
                     Out(<<>>), seg.segs)

(* apply_segment: every input in turn; the first error ends the segment *)
ApplySegment(r, seg) ==
    FoldLeft(LAMBDA acc, v : IF ~acc.ok THEN acc
                             ELSE LET x == ApplyOne(v, seg, 0)
                                  IN  IF x.ok THEN Out(acc.vals \o x.vals) ELSE x,
             Out(<<>>), r.vals)

(* evaluate_path: from the document, each segment in order *)
Evaluate(doc, segs) ==
    FoldLeft(LAMBDA r, seg : IF r.ok THEN ApplySegment(r, seg) ELSE r, Out(<<doc>>), segs)
-----------------------------------------------------------------------------
(* The values of the selector sel applied at every node of v, counted     *)
(* once per position: a declarative reading of a descent, with no queue.  *)
RECURSIVE AtEveryNode(_, _)
AtEveryNode(v, sel) ==
    ToBag(IF sel.k = "self" THEN <<v>> ELSE ApplyOne(v, sel, 0).vals)
      (+) FoldLeft(LAMBDA b, c : b (+) AtEveryNode(c, sel), EmptyBag, Children(v))

(* A descent "..", alone or followed by one selector, returns that        *)
(* selector's values at every node of the document (the document itself   *)
(* included), each once: apply_recursive_descent's breadth-first queue     *)
(* visits every node exactly once, whatever the nesting of objects and     *)
(* arrays.                                                                 *)
DescendantsExact ==
    last.op = "query" /\ last.res.ok =>
        LET segs == CompilePath(last.path).segs
        IN  (/\ segs # <<>> /\ segs[1].k = "desc" /\ Len(segs) <= 2
             /\ Len(segs) = 2 => segs[2].k # "desc")
            => ToBag(last.res.vals)
                 = AtEveryNode(last.doc, IF Len(segs) = 1 THEN [k |-> "self"] ELSE segs[2])

(* apply_slice_access returns every index its loop condition admits that *)
(* lies inside the array: the "Prevent infinite loops" counter never cuts *)
(* the walk short of those.                                               *)
SliceExact ==
    last.op = "query" /\ last.res.ok =>
        LET cp == CompilePath(last.path)
            RECURSIVE Admitted(_, _, _, _)
            Admitted(len, i, end, step) ==
                IF ~((step > 0 /\ i < end /\ i < len) \/ (step < 0 /\ i > end /\ i >= 0)) THEN <<>>
                ELSE (IF i >= 0 /\ i < len THEN <<i>> ELSE <<>>) \o Admitted(len, i + step, end, step)
        IN  Len(cp.segs) = 1 /\ cp.segs[1].k = "slice" /\ last.doc.t = "arr"
            => LET arr  == last.doc.a
                   seg  == cp.segs[1]
                   step == Get(seg.step, 1)
                   is   == Admitted(Len(arr), Get(seg.start, IF step > 0 THEN 0 ELSE Len(arr) - 1),
                                    Get(seg.end, IF step > 0 THEN Len(arr) ELSE -1), step)
               IN  last.res.vals = [k \in DOMAIN is |-> arr[is[k] + 1]]
============================================================================
