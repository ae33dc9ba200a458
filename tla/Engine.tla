------------------------------- MODULE Engine -------------------------------
(***************************************************************************)
(* The pattern-matching transition engine of space_temporary.rs: the      *)
(* compiler referential_bidirectional_matching_stack_traverse and the      *)
(* opcode-stack interpreter referential_transition, run by one query of   *)
(* query_multi_impl with a single pattern.                                  *)
(*                                                                         *)
(* The host recursion of referential_transition is an explicit sequence   *)
(* `frames` of activations.  A caller pushes an activation in pc "call"; *)
(* the callee pops the opcode (the CALL macro), runs the handler, and in  *)
(* pc "ret" the Return step pushes the opcode back and resumes the caller. *)
(* The interpreter's raw stack pointer `last` is Len(stk): the stack is   *)
(* the bytes up to and including *last.  The cursor is `loc`, the path    *)
(* below the query root Root (the pattern's constant prefix).             *)
(***************************************************************************)
EXTENDS Integers, Sequences, SequencesExt, FiniteSets

CONSTANTS
    Universe,   \* the expressions (byte sequences) a Space may hold
    Patterns    \* the patterns a query may be given

VARIABLES
    space,      \* the set of paths of the Space (fixed during a query)
    pattern,    \* the query's pattern (fixed)
    loc,        \* cursor path below Root
    stk,        \* opcode stack, top = last element
    refs,       \* references: absolute start offsets of captures
    frames,     \* activations of referential_transition
    out         \* paths passed to the action callback, in order

vars == <<space, pattern, loc, stk, refs, frames, out>>

-----------------------------------------------------------------------------
(* Tag bytes (item_byte / byte_item) and the masks SIZES, ARITIES, VARS.   *)
NewVar  == 192
VARS    == 128 .. 192           \* VarRef(0..63) and NewVar
SIZES   == 193 .. 255           \* SymbolSize(1..63)
ARITIES == 1 .. 63              \* Arity(1..63): the mask omits Arity(0)

(* byte_item: the size of a SymbolSize, the arity of an Arity tag.        *)
ItemValueAsSize(b) == b - 192
ItemValue(b) == b % 64

(* Opcodes of mod stack_actions that compiled programs contain.           *)
ITER_AT_DEPTH   == 0
ITER_EXPR       == 5
ITER_NESTED     == 6
ITER_VAR_SYMBOL == 9
ITER_VAR_ARITY  == 10
ACTION_OP       == 11
BEGIN_RANGE     == 12
FINALIZE_RANGE  == 13
REFER_RANGE     == 14

-----------------------------------------------------------------------------
(* Expression structure (mork_bytestring traversal, prefix, span).        *)
TokLen(b) == IF b \in SIZES THEN b - 191 ELSE 1

RECURSIVE Walk(_, _, _)
Walk(s, k, pending) ==
    IF pending = 0 THEN k
    ELSE IF k > Len(s) THEN Len(s) + 2
    ELSE LET b == s[k] IN
         Walk(s, k + TokLen(b), pending - 1 + (IF b \in 0 .. 63 THEN b ELSE 0))

\* last position of the expression of s that starts at position k
\* (Len(s) + 1 when s ends before the expression does)
ExprEnd(s, k) == Walk(s, k, 1) - 1

RECURSIVE Starts(_, _)
Starts(s, k) == IF k > Len(s) THEN <<>> ELSE <<k>> \o Starts(s, k + TokLen(s[k]))

\* token start positions of s
Toks(s) == Starts(s, 1)

\* Tok(s, k) for every token of s from position k on, concatenated
RECURSIVE Concat(_, _, _)
Concat(Tok(_, _), s, k) ==
    IF k > Len(s) THEN <<>> ELSE Tok(s, k) \o Concat(Tok, s, k + TokLen(s[k]))

\* the same, reversed (Reverse(Concat(Tok, s, k)))
RECURSIVE RevConcat(_, _, _)
RevConcat(Tok(_, _), s, k) ==
    IF k > Len(s) THEN <<>> ELSE RevConcat(Tok, s, k + TokLen(s[k])) \o Reverse(Tok(s, k))

\* the constant prefix: the bytes before the first variable, or the whole
\* expression when it is ground (prefix().unwrap_or_else(|_| span()))
Prefix(p) ==
    LET vs == {k \in ToSet(Toks(p)) : p[k] \in VARS}
    IN  IF vs = {} THEN p ELSE SubSeq(p, 1, Min(vs) - 1)

-----------------------------------------------------------------------------
(* referential_bidirectional_matching_stack_traverse(e, from): one opcode *)
(* group per token at offset >= from, the whole stream reversed.          *)
CompileTokRefOffByOne(p, k) ==
    CASE p[k] = NewVar -> <<BEGIN_RANGE, ITER_EXPR, FINALIZE_RANGE>>
      [] p[k] \in VARS -> <<REFER_RANGE, p[k] - 127>>
      [] p[k] \in SIZES -> <<ITER_VAR_SYMBOL, p[k] - 192>> \o SubSeq(p, k + 1, k + p[k] - 192)
      [] OTHER -> <<ITER_VAR_ARITY, p[k]>>

CompileTok(p, k) ==
    CASE p[k] = NewVar -> <<BEGIN_RANGE, ITER_EXPR, FINALIZE_RANGE>>
      [] p[k] \in VARS -> <<REFER_RANGE, p[k] - 128>>
      [] p[k] \in SIZES -> <<ITER_VAR_SYMBOL, p[k] - 192>> \o SubSeq(p, k + 1, k + p[k] - 192)
      [] OTHER -> <<ITER_VAR_ARITY, p[k]>>

Compile(p, from) ==
    RevConcat(LAMBDA q, k : IF k - 1 >= from THEN CompileTok(q, k) ELSE <<>>, p, 1)

(* The stack query_multi_impl builds: [ACTION] ++ compiled pattern.       *)
Program(p) == <<ACTION_OP>> \o Compile(p, Len(Prefix(p)))

(* REFER_RANGE's on-the-fly compilation of a captured expression e.      *)
ReferTok(e, k) ==
    CASE e[k] \in VARS -> <<ITER_EXPR>>
      [] e[k] \in SIZES -> <<ITER_VAR_SYMBOL, e[k] - 192>> \o SubSeq(e, k + 1, k + e[k] - 192)
      [] OTHER -> <<ITER_VAR_ARITY, e[k]>>

ReferCode(e) == RevConcat(ReferTok, e, 1)

-----------------------------------------------------------------------------
(* The read cursor: the trie of `space`, rooted at Root.                  *)
Root == Prefix(pattern)
Here == Root \o loc

Kids(p) == {x[Len(p) + 1] : x \in {y \in space : Len(y) > Len(p) /\ IsPrefix(p, y)}}
Exists(p) == \E y \in space : IsPrefix(p, y)

MinB(S) == CHOOSE x \in S : \A y \in S : x <= y

\* to_next_sibling_byte: false at the cursor root or at the last sibling
HasSib == loc # <<>> /\ \E c \in Kids(Root \o Front(loc)) : c > Last(loc)
Sib == Append(Front(loc), MinB({c \in Kids(Root \o Front(loc)) : c > Last(loc)}))

-----------------------------------------------------------------------------
(* Activations.                                                           *)
Activation(s, l, r) ==
    [pc |-> "call", op |-> 0, arg |-> 0, pay |-> <<>>, i |-> 0, ph |-> "-",
     todo |-> {}, ext |-> <<>>, lv |-> 0, est |-> s, elo |-> l, ere |-> r]

Top == frames[Len(frames)]
SetTop(f) == [frames EXCEPT ![Len(frames)] = f]

\* referential_transition(last, loc, references, f) from the top frame,
\* which is left as f, with stack s, cursor l and references r
Invoke(f, s, l, r) ==
    /\ frames' = Append(SetTop(f), Activation(s, l, r))
    /\ stk' = s /\ loc' = l /\ refs' = r

Calling(opc) == frames # <<>> /\ Top.pc = "call" /\ Last(stk) = opc
Resuming(opc, p) == frames # <<>> /\ Top.op = opc /\ Top.pc = p
\* the stack below the dispatched opcode and its n operands
Below(n) == SubSeq(stk, 1, Len(stk) - 1 - n)
Operand == stk[Len(stk) - 1]

-----------------------------------------------------------------------------
(* ACTION: call the effect with the absolute cursor path.                 *)
ActionRelativePath ==
    /\ Calling(ACTION_OP)
    /\ out' = Append(out, loc)
    /\ stk' = Front(stk)
    /\ frames' = SetTop([Top EXCEPT !.op = ACTION_OP, !.pc = "ret"])
    /\ UNCHANGED <<space, pattern, loc, refs>>

Action ==
    /\ Calling(ACTION_OP)
    /\ out' = Append(out, Here)
    /\ stk' = Front(stk)
    /\ frames' = SetTop([Top EXCEPT !.op = ACTION_OP, !.pc = "ret"])
    /\ UNCHANGED <<space, pattern, loc, refs>>

(* The CALL macro's epilogue: push the dispatched opcode back, return.    *)
Return ==
    /\ frames # <<>> /\ Top.pc = "ret"
    /\ stk' = Append(stk, Top.op)
    /\ frames' = Front(frames)
    /\ UNCHANGED <<space, pattern, loc, refs, out>>

-----------------------------------------------------------------------------
(* ITER_AT_DEPTH: pop level, visit every path `level` bytes below.        *)
AtDepthEnter ==
    /\ Calling(ITER_AT_DEPTH)
    /\ stk' = Below(1)
    /\ frames' = SetTop([Top EXCEPT !.op = ITER_AT_DEPTH, !.arg = Operand,
                                    !.i = 0, !.pc = IF Operand > 0 THEN "down" ELSE "iter"])
    /\ UNCHANGED <<space, pattern, loc, refs, out>>

\* first while loop: descend_first_byte, else to_next_sibling_byte,
\* else ascend_byte, else break with i = 0
AtDepthDown ==
    /\ Resuming(ITER_AT_DEPTH, "down")
    /\ LET f == Top
           i2 == CASE Kids(Here) # {} -> f.i + 1
                   [] HasSib -> f.i
                   [] loc # <<>> -> f.i - 1
                   [] OTHER -> 0
       IN /\ loc' = CASE Kids(Here) # {} -> Append(loc, MinB(Kids(Here)))
                      [] HasSib -> Sib
                      [] loc # <<>> -> Front(loc)
                      [] OTHER -> loc
          /\ frames' = SetTop([f EXCEPT !.i = i2,
                 !.pc = IF i2 < f.arg /\ (Kids(Here) # {} \/ HasSib \/ loc # <<>>)
                        THEN "down" ELSE "iter"])
    /\ UNCHANGED <<space, pattern, stk, refs, out>>

\* second while loop, one iteration; at i = 0 push level back and return
AtDepthIter ==
    /\ Resuming(ITER_AT_DEPTH, "iter")
    /\ \/ /\ Top.i = 0
          /\ stk' = Append(stk, Top.arg)
          /\ frames' = SetTop([Top EXCEPT !.pc = "ret"])
          /\ UNCHANGED <<loc, refs>>
       \/ /\ Top.i = Top.arg /\ Top.i > 0
          /\ Invoke([Top EXCEPT !.pc = "after"], stk, loc, refs)
       \/ /\ 0 < Top.i /\ Top.i < Top.arg /\ HasSib
          /\ loc' = Sib
          /\ frames' = SetTop([Top EXCEPT !.pc = "dive"])
          /\ UNCHANGED <<stk, refs>>
       \/ /\ 0 < Top.i /\ Top.i < Top.arg /\ ~HasSib
          /\ loc' = Front(loc)
          /\ frames' = SetTop([Top EXCEPT !.i = @ - 1])
          /\ UNCHANGED <<stk, refs>>
    /\ UNCHANGED <<space, pattern, out>>

\* while i < level && descend_first_byte() { i += 1 }
AtDepthDiveUnbounded ==
    /\ Resuming(ITER_AT_DEPTH, "dive")
    /\ IF Kids(Here) # {}
       THEN /\ loc' = Append(loc, MinB(Kids(Here)))
            /\ frames' = SetTop([Top EXCEPT !.i = @ + 1])
       ELSE /\ frames' = SetTop([Top EXCEPT !.pc = "iter"])
            /\ UNCHANGED loc
    /\ UNCHANGED <<space, pattern, stk, refs, out>>

AtDepthDive ==
    /\ Resuming(ITER_AT_DEPTH, "dive")
    /\ IF Top.i < Top.arg /\ Kids(Here) # {}
       THEN /\ loc' = Append(loc, MinB(Kids(Here)))
            /\ frames' = SetTop([Top EXCEPT !.i = @ + 1])
       ELSE /\ frames' = SetTop([Top EXCEPT !.pc = "iter"])
            /\ UNCHANGED loc
    /\ UNCHANGED <<space, pattern, stk, refs, out>>

\* after the recursive call: to_next_sibling_byte, else assert ascend_byte
AtDepthAfter ==
    /\ Resuming(ITER_AT_DEPTH, "after")
    /\ IF HasSib
       THEN /\ loc' = Sib
            /\ frames' = SetTop([Top EXCEPT !.pc = "iter"])
       ELSE /\ loc' = Front(loc)
            /\ frames' = SetTop([Top EXCEPT !.i = @ - 1, !.pc = "iter"])
    /\ UNCHANGED <<space, pattern, stk, refs, out>>

-----------------------------------------------------------------------------
(* ITER_EXPR and the loops it inlines: ITER_VARIABLES, ITER_SYMBOLS       *)
(* (push ITER_AT_DEPTH, ITER_SYMBOL_SIZE), push ITER_NESTED, ITER_ARITIES. *)
(* Phase "vars"/"syms"/"ars" is the loop running; `todo` what remains of  *)
(* child_mask & mask, visited in ascending byte order (ByteMask::iter).   *)
ExprLoop(f) == [f EXCEPT !.ph = "vars", !.todo = Kids(Here) \cap VARS, !.pc = "loop"]

ExprEnter ==
    /\ Calling(ITER_EXPR)
    /\ stk' = Below(0)
    /\ frames' = SetTop(ExprLoop([Top EXCEPT !.op = ITER_EXPR]))
    /\ UNCHANGED <<space, pattern, loc, refs, out>>

(* ITER_NESTED: pop arity, push arity-1 copies of ITER_EXPR and run      *)
(* ITER_EXPR inline.  Its arity == 0 branch is dead: ITER_NESTED is only   *)
(* pushed by the arities loop, whose mask ARITIES omits Arity(0).         *)
NestedEnter ==
    /\ Calling(ITER_NESTED)
    /\ stk' = Below(1) \o [k \in 1 .. Operand - 1 |-> ITER_EXPR]
    /\ frames' = SetTop(ExprLoop([Top EXCEPT !.op = ITER_NESTED, !.arg = Operand]))
    /\ UNCHANGED <<space, pattern, loc, refs, out>>

(* One loop body: descend the child byte b; for a size or an arity,       *)
(* insert s or a below the top of the stack (lastv); recurse.            *)
IterChild ==
    /\ frames # <<>> /\ Top.pc = "loop" /\ Top.todo # {}
    /\ LET b == MinB(Top.todo)
           s == IF Top.ph = "vars" THEN stk
                ELSE Front(stk) \o <<ItemValue(b), Last(stk)>>
       IN  Invoke([Top EXCEPT !.todo = @ \ {b}, !.ext = <<b>>, !.lv = Last(stk),
                              !.pc = "back"], s, Append(loc, b), refs)
    /\ UNCHANGED <<space, pattern, out>>

(* The stack the handler leaves when its last loop is done.               *)
EpiloguePayloadInOrder(f) ==
    CASE f.op = ITER_EXPR -> Front(stk)
      [] f.op = ITER_NESTED -> Append(SubSeq(stk, 1, Len(stk) - 1 - (f.arg - 1)), f.arg)
      [] f.op = ITER_VAR_SYMBOL -> stk \o f.pay \o <<f.arg>>
      [] f.op = ITER_VAR_ARITY -> Append(stk, f.arg)

Epilogue(f) ==
    CASE f.op = ITER_EXPR -> Front(stk)
      [] f.op = ITER_NESTED -> Append(SubSeq(stk, 1, Len(stk) - 1 - (f.arg - 1)), f.arg)
      [] f.op = ITER_VAR_SYMBOL -> stk \o Reverse(f.pay) \o <<f.arg>>
      [] f.op = ITER_VAR_ARITY -> Append(stk, f.arg)

(* Back from a loop body: restore the stack (last -= 2; push lastv) and   *)
(* ascend what was descended.                                             *)
IterBack ==
    /\ frames # <<>> /\ Top.pc = "back"
    /\ loc' = SubSeq(loc, 1, Len(loc) - Len(Top.ext))
    /\ stk' = IF Top.ph \in {"syms", "ars"}
              THEN Append(SubSeq(stk, 1, Len(stk) - 2), Top.lv)
              ELSE IF Top.ph = "exact" THEN Epilogue(Top) ELSE stk
    /\ frames' = SetTop([Top EXCEPT !.pc = IF Top.ph = "exact" THEN "ret" ELSE "loop"])
    /\ UNCHANGED <<space, pattern, refs, out>>

(* The end of a handler's loop: move to its next loop, or finish.  For   *)
(* ITER_VAR_SYMBOL / ITER_VAR_ARITY, after ITER_VARIABLES comes the exact  *)
(* descent (descend_to_byte, descend_to), recursing only if it exists.    *)
PhaseEnd ==
    /\ frames # <<>> /\ Top.pc = "loop" /\ Top.todo = {}
    /\ LET f == Top
           ext == IF f.op = ITER_VAR_SYMBOL THEN <<192 + f.arg>> \o f.pay ELSE <<f.arg>>
       IN CASE f.op \in {ITER_EXPR, ITER_NESTED} /\ f.ph = "vars" ->
                 /\ stk' = Append(stk, ITER_AT_DEPTH)
                 /\ frames' = SetTop([f EXCEPT !.ph = "syms", !.todo = Kids(Here) \cap SIZES])
                 /\ UNCHANGED <<loc, refs>>
            [] f.op \in {ITER_EXPR, ITER_NESTED} /\ f.ph = "syms" ->
                 /\ stk' = Append(Front(stk), ITER_NESTED)
                 /\ frames' = SetTop([f EXCEPT !.ph = "ars", !.todo = Kids(Here) \cap ARITIES])
                 /\ UNCHANGED <<loc, refs>>
            [] f.op \in {ITER_VAR_SYMBOL, ITER_VAR_ARITY} /\ Exists(Here \o ext) ->
                 Invoke([f EXCEPT !.ph = "exact", !.ext = ext, !.pc = "back"],
                        stk, loc \o ext, refs)
            [] OTHER ->
                 /\ stk' = Epilogue(f)
                 /\ frames' = SetTop([f EXCEPT !.pc = "ret"])
                 /\ UNCHANGED <<loc, refs>>
    /\ UNCHANGED <<space, pattern, out>>

(* ITER_VAR_SYMBOL: pop size and the size payload bytes, then            *)
(* ITER_VARIABLES (a data variable matches the symbol), then the symbol.  *)
VarSymbolEnter ==
    /\ Calling(ITER_VAR_SYMBOL)
    /\ LET size == Operand IN
         /\ stk' = Below(1 + size)
         /\ frames' = SetTop(ExprLoop([Top EXCEPT !.op = ITER_VAR_SYMBOL, !.arg = size,
                               \* v[i] = *last; last -= 1, i in 0..size
                               !.pay = [k \in 1 .. size |-> stk[Len(stk) - 1 - k]]]))
    /\ UNCHANGED <<space, pattern, loc, refs, out>>

(* ITER_VAR_ARITY: pop arity, ITER_VARIABLES, then the arity byte.       *)
VarArityEnter ==
    /\ Calling(ITER_VAR_ARITY)
    /\ stk' = Below(1)
    /\ frames' = SetTop(ExprLoop([Top EXCEPT !.op = ITER_VAR_ARITY, !.arg = Operand]))
    /\ UNCHANGED <<space, pattern, loc, refs, out>>

-----------------------------------------------------------------------------
(* BEGIN_RANGE: push origin_path().len() as a reference, recurse, pop.  *)
BeginRange ==
    /\ Calling(BEGIN_RANGE)
    /\ Invoke([Top EXCEPT !.op = BEGIN_RANGE, !.pc = "after"],
              Below(0), loc, Append(refs, Len(Here)))
    /\ UNCHANGED <<space, pattern, out>>

RangeAfter ==
    /\ Resuming(BEGIN_RANGE, "after")
    /\ refs' = Front(refs)
    /\ frames' = SetTop([Top EXCEPT !.pc = "ret"])
    /\ UNCHANGED <<space, pattern, loc, stk, out>>

(* FINALIZE_RANGE: recurse.                                               *)
FinalizeRange ==
    /\ Calling(FINALIZE_RANGE)
    /\ Invoke([Top EXCEPT !.op = FINALIZE_RANGE, !.pc = "after"], Below(0), loc, refs)
    /\ UNCHANGED <<space, pattern, out>>

FinalizeAfter ==
    /\ Resuming(FINALIZE_RANGE, "after")
    /\ frames' = SetTop([Top EXCEPT !.pc = "ret"])
    /\ UNCHANGED <<space, pattern, loc, stk, refs, out>>

(* REFER_RANGE: pop index and read references[index] out of the live    *)
(* path; then push its compiled form (the pushed region reversed) and     *)
(* recurse; after the call, last = v0 and push index back.               *)
Captured(r) == SubSeq(Here, r + 1, ExprEnd(Here, r + 1))

ReferRange ==
    /\ Calling(REFER_RANGE)
    /\ stk' = Below(1)
    /\ frames' = SetTop([Top EXCEPT !.op = REFER_RANGE, !.arg = Operand, !.lv = Len(Below(1)),
                                    !.pay = Captured(refs[Operand + 1]), !.pc = "refer"])
    /\ UNCHANGED <<space, pattern, loc, refs, out>>

ReferRun ==
    /\ Resuming(REFER_RANGE, "refer")
    /\ Invoke([Top EXCEPT !.pc = "after"], stk \o ReferCode(Top.pay), loc, refs)
    /\ UNCHANGED <<space, pattern, out>>

ReferAfter ==
    /\ Resuming(REFER_RANGE, "after")
    /\ stk' = Append(SubSeq(stk, 1, Top.lv), Top.arg)
    /\ frames' = SetTop([Top EXCEPT !.pc = "ret"])
    /\ UNCHANGED <<space, pattern, loc, refs, out>>

-----------------------------------------------------------------------------
(* query_multi_impl with one pattern: the read cursor at the prefix, the *)
(* stack [ACTION] ++ compiled pattern, one call of referential_transition. *)
Init ==
    /\ space \in SUBSET Universe
    /\ pattern \in Patterns
    /\ loc = <<>> /\ refs = <<>> /\ out = <<>>
    /\ stk = Program(pattern)
    /\ frames = <<Activation(Program(pattern), <<>>, <<>>)>>

Next ==
    \/ Action \/ Return
    \/ AtDepthEnter \/ AtDepthDown \/ AtDepthIter \/ AtDepthDive \/ AtDepthAfter
    \/ ExprEnter \/ NestedEnter \/ IterChild \/ IterBack \/ PhaseEnd
    \/ VarSymbolEnter \/ VarArityEnter
    \/ BeginRange \/ RangeAfter \/ FinalizeRange \/ FinalizeAfter
    \/ ReferRange \/ ReferRun \/ ReferAfter

(* The engine is single-threaded and CPU-bound: nothing can stop the     *)
(* thread running it, so the next step is eventually taken.              *)
Spec == Init /\ [][Next]_vars /\ WF_vars(Next)

Done == frames = <<>>
-----------------------------------------------------------------------------
Byte == 0 .. 255
Pcs == {"call", "down", "iter", "dive", "after", "loop", "back", "refer", "ret"}

TypeOK ==
    /\ space \subseteq Universe /\ pattern \in Patterns
    /\ loc \in Seq(Byte) /\ stk \in Seq(Byte) /\ refs \in Seq(Nat)
    /\ out \in Seq(Seq(Byte))
    /\ \A k \in DOMAIN frames :
         /\ frames[k].pc \in Pcs /\ frames[k].i \in 0 .. 63
         /\ frames[k].ph \in {"-", "vars", "syms", "ars", "exact"}

(* Reference semantics of a match (spec 8.3): the pattern with its        *)
(* NewVars replaced by subexpressions of d, each VarRef(i) by the i-th    *)
(* NewVar's, is d byte for byte.                                          *)
SubExprs(d) == {SubSeq(d, k, ExprEnd(d, k)) : k \in ToSet(Toks(d))}
VarNo(p, k) == Cardinality({m \in ToSet(Toks(p)) : m <= k /\ p[m] = NewVar})
SubstTok(p, k, sigma) ==
    CASE p[k] = NewVar -> sigma[VarNo(p, k)]
      [] p[k] \in VARS -> sigma[p[k] - 127]
      [] OTHER -> SubSeq(p, k, k + TokLen(p[k]) - 1)
Subst(p, sigma) == Concat(LAMBDA q, k : SubstTok(q, k, sigma), p, 1)
Matches ==
    {d \in space : \E sigma \in [1 .. VarNo(pattern, Len(pattern)) -> SubExprs(d)] :
                      Subst(pattern, sigma) = d}

(* query_multi_impl over ground data: every path handed to the effect    *)
(* matches the pattern, none is handed twice, and when referential_      *)
(* transition returns every matching path of the Space has been handed.  *)
QueryExact ==
    /\ ToSet(out) \subseteq Matches
    /\ Len(out) = Cardinality(ToSet(out))
    /\ Done => ToSet(out) = Matches

(* The pure-interpreter discipline of referential_transition: a call      *)
(* returns with the opcode stack, the cursor and the references exactly   *)
(* as it found them, whatever its handler pushed, popped and descended.   *)
PureCall ==
    [][Return => /\ stk' = Top.est
                 /\ loc' = Top.elo
                 /\ refs' = Top.ere]_vars

(* REFER_RANGE reads references[index] out of the cursor's live path     *)
(* buffer: the index is in bounds and the captured expression lies wholly *)
(* within the current path, not in stale bytes past its end.              *)
ReferWithinPath ==
    Calling(REFER_RANGE) =>
        /\ Operand < Len(refs)
        /\ refs[Operand + 1] < Len(Here)
        /\ ExprEnd(Here, refs[Operand + 1] + 1) <= Len(Here)

(* The query terminates: every referential_transition call returns.      *)
Termination == <>Done

(* Spec 5: within one cursor iteration is byte-lexicographic and the     *)
(* actions are invoked in that order.                                     *)
LexLess(x, y) ==
    \E k \in 1 .. Len(y) : k - 1 <= Len(x) /\ SubSeq(x, 1, k - 1) = SubSeq(y, 1, k - 1)
                           /\ (k > Len(x) \/ x[k] < y[k])
ActionsInByteOrder ==
    \A i, j \in 1 .. Len(out) : i < j => LexLess(out[i], out[j])
====
