# Formal models of the MORK kernel

This directory holds TLA+ models of the MORK kernel in `src/kernel/src`. There are TLC configurations that check them on small instances and TLAPS proofs of safety invariants of the drivers, of a multi-pattern pass and of the JSONPath compile cache, and of the drivers' refinement of an abstract specification. Every definition that models code is listed in `PROJECT.json` ("map"), together with the source lines it translates.

## 1. The system

The kernel stores expressions as byte paths in a trie (`pathmap`) behind a `Space`. Each expression is a prefix-encoded byte string. The tag bytes come from `item_byte` (`stubs.rs`):

- `NewVar` = 192;
- `SymbolSize(s)` = 192+s, followed by `s` symbol bytes;
- `VarRef(i)` = 128+i;
- `Arity(a)` = a.

The parts that interact are these:

| Part | Source | Role |
|---|---|---|
| Tag encoding | `stubs.rs` 319-334, `space_temporary.rs` 629-666 | `item_byte` / `byte_item`, and the `SIZES`, `ARITIES` and `VARS` child masks |
| Pattern compiler | `space_temporary.rs` 803-832 | Turns a pattern into a reversed opcode stack, one opcode group per token |
| Transition engine | `space_temporary.rs` 361-626 | `referential_transition` interprets the stack over a read cursor. It recurses through the host stack. `ACTION` calls the effect with the current path and the references bound by the pattern's variables. |
| Drivers | `space_temporary.rs` 680-956 | `query_multi_impl`, `transform_multi_multi_impl`, `dump_as_sexpr_impl` and `load_sexpr_impl` acquire permits and cursors, compile the pattern, run the engine and surface errors through a thread-local `RET` slot and `setjmp`/`longjmp` |
| Access authority | `Space::reader_hook` / `writer_hook` (180-187), `DefaultSpace::new_reader` / `new_writer` (221-264) | pathmap's `ZipperHead`. A writer permit is refused while any live permit overlaps its path, and a reader while a writer overlaps it (spec 4.8). |
| BytesTrieMap derivation | `triemap_derivation.rs` | A byte trie implementing the `TrieMap` trait (insert, get, remove, len, union, intersection, difference, iterator) |
| ExprQueryEngine | `expr_query.rs` | Expressions by id, with symbol, arity and structure indexes; the structure index is a `BytesTrieMap` |
| UnificationEngine, PatternParser | `pattern_matching.rs` | Pattern compilation from text, unification with variables, conditions, alternatives and sequences, and the compile cache |
| JsonPathEngine | `jsonpath_engine.rs` | A JSONPath parser, a compile cache and the evaluation of paths over `serde_json` values |

One call works like this. A thread calls `transform_multi_multi(patterns, templates)`:

1. For each template prefix, it asks for a writer hook permit and then an exclusive write zipper.
2. For each pattern, it asks for a reader hook permit and a read zipper.
3. It compiles the first pattern, pushes the program and runs the engine.
4. The effect substitutes each match into the templates.
5. On return, every permit is dropped.

Several threads may do this at once (spec line 188). Passes exclude each other only through the permits.

## 2. Modules

| Module | Models | Kind |
|---|---|---|
| `Engine` | compiler, tag masks, `referential_transition`, the per-query setup of `query_multi_impl` | state machine over one query (TLC only: it uses RECURSIVE operators) |
| `MCEngine` | the Space contents, the patterns and the bounds | model-checking instance |
| `Driver` | threads running transform/query/dump/load passes against the permit authority | state machine over several threads; provable |
| `MCDriver` | paths, jobs | model-checking instance |
| `DriverProofs` | TLAPS proofs for `Driver` | theorems |
| `IsolatedPasses` | what the drivers promise concurrent callers (spec 6): each pass is refused before it touches the trie, or claims all its prefixes in one step | abstract specification |
| `DriverRefinement` | TLAPS proof that `Driver` implements `IsolatedPasses` | theorems |
| `MultiQuery`, `MCMultiQuery` | what a multi-pattern pass reads and writes: the grafted temporary tries, the product of matches, the template buffer | state machine over one pass; provable |
| `MultiQueryProofs` | TLAPS proofs for `MultiQuery` | theorems |
| `FiniteMap` | what the `TrieMap` trait promises: a finite map with an iterator | abstract specification |
| `TrieMap`, `MCTrieMap` | `BytesTrieMap`'s node recursion, shown to implement `FiniteMap` | state machine with refinement |
| `ExprQuery`, `MCExprQuery` | `ExprQueryEngine`, composed with `TrieMap` for its structure index | state machine |
| `Unification`, `MCUnification` | `UnificationEngine` and `PatternParser` | state machine over the caches (TLC only) |
| `JsonPathCache` | `JsonPathEngine`'s public calls over its compile cache, for any `compile_path` and `evaluate_path` | state machine; provable |
| `JsonPathCacheProofs` | TLAPS proofs for `JsonPathCache` | theorems |
| `JsonPath`, `MCJsonPath` | `PathParser` and `evaluate_path`; extends `JsonPathCache`, whose parameters the runs set to them | parser and evaluator (TLC only) |

### Engine

The state is the one query's machine:

- `space`: the set of stored expressions, any subset of a small `Universe`.
- `pattern`: the pattern being queried.
- `stk`: the reversed opcode program, as pushed at lines 750-756.
- `loc`: the read cursor's path.
- `refs`: the reference table of (start, length) pairs into the path.
- `frames`: the host recursion, as explicit activations. Each records the stack, `last` and the resume point.
- `out`: the sequence of (path, references) pairs handed to `ACTION`.

Each handler of `referential_transition` is an action with the same name (AT_DEPTH, EXPR, NESTED, VAR_SYMBOL, VAR_ARITY, BEGIN_RANGE, FINALIZE_RANGE, REFER_RANGE, ACTION).

A handler that loops over children is split at each recursive call. `Invoke` pushes an activation, and the action named `…After` or `IterBack` resumes it after the callee returns. This is exactly the point at which the Rust frame resumes.

The loop over a child mask follows the code's order: VARS, then SIZES, then ARITIES (481-491).

The trie is abstracted to the set `Space` of stored byte strings. `Kids`, `Exists` and `Sib` are the pathmap cursor operations; they are `spec_modelled` because pathmap is not in the repository. The engine's behaviour on the stored set is modelled byte by byte.

`ITER_SYMBOL` and `ITER_ARITY` have handlers but no compiler emits them, so they are not actions.

### Driver

Each thread `t` has:

- `pc[t]`: its place in the driver, one of idle, whook, wzip, rhook, rzip, run, fin, load.
- `job[t]`: the call being made, with its kind, template prefixes and pattern prefixes.
- `j[t]`: the loop index over templates or patterns.
- `hk[t]`: whether the last hook succeeded.
- `ret[t]`: the thread-local `RET` slot.
- `res[t]`: the last result.
- `refusedBy[t]`: whose permits refused it.
- `passes[t]`: calls made so far.

The shared `live` set holds the permits, each a record of owner, role, index, kind and path.

The actions follow the code's order of calls:

- `Start`;
- `WriterHook` (line 695, `writer_hook(p)`);
- `WriteZipper` (`write_zipper_at_exclusive_path(p)`, then `hook?` and `each?`, 695-698);
- `ReaderHook` / `ReadZipper` (726-737);
- `Run` (the engine under `setjmp`, 774-790);
- `Return` (the `RET` read and dealloc, 791-799);
- `Load` (`load_sexpr_impl`).

`Finish` models the early returns. Rust's drops release all of the thread's permits at once.

`WriteZipper` evaluates the zipper before it looks at the hook's result, as the tuple in the code does. So a refused hook still returns `PathConflict` with the hook's error (`res = "hook"`).

The constant `HooksShareHead` chooses the `Space` implementation:

- `TRUE` is `DefaultSpace`. `new_reader`/`new_writer` take permits from `self.map`, and `root()` returns the same `self.map`, so a pass's hook permit and its own zipper meet in one `ZipperHead`.
- `FALSE` is a `Space` whose `new_reader`/`new_writer` register no permit in the pass's `ZipperHead` and never refuse. No `Space` under `src/` works this way; the hooks are no-ops here, so the passes' own cursors are the only permits. This is the configuration in which transforms and loads can succeed at all, so the isolation property is checked and proved there. Both are instances of the same module.

`IsolatedPasses` states the drivers' promise without cursors. A pass is `pending` while it asks for cursors. It is then either refused (`ARefuse`, result `conflict` or `hook`) or it claims every prefix it writes (its templates) and reads (its first pattern's prefix) in one step (`AClaim`). The claim is allowed only if it is `Compatible` with every pass `active` at that moment. A transform or dump then runs its effect (`AEffect`) and returns (`AReturn`); a load returns straight from its record loop.

`Driver` maps onto it through `Phase`:

- `idle` stays idle;
- the hook and zipper places are `pending`;
- `run` and `load` are `active`;
- `fin` is `done`.

`job` and `res` map to themselves. Every driver step is a step of the same thread, or a stutter: the last granted cursor is `AClaim`, and every other granted cursor or hook is a stutter.

The abstract results are left loose on purpose. A transform may return `io` in the abstract spec: after finding (e), a transform that follows a failed dump on the same thread does return the stale `io` error.

### MultiQuery

One multi-pattern transform (`query_multi_impl` 720-760 with `transform_multi_multi_impl`'s effect 680-700). A pattern is modelled as its constant prefix followed by one capturing variable. The opcode-level matching of a single pattern is the Engine module's business.

- `Open` opens the primary cursor at the first prefix.
- `Graft` builds one temporary trie per further pattern, as the code does: the Space's subtrie at the *first* prefix is grafted under that pattern's own prefix.
- `Run` enumerates the product of the cursors (`Captures`) and substitutes every template. A token has its byte size (`Bytes`), and `overflow` records a substitution longer than the 512-byte buffer.

`GraftedFromFirst` states what the pass computes for every job, mixed prefixes included: the templates are instantiated with every capture vector whose entries all range over the subtrie of the *first* prefix. `TransformExact` is the spec's statement, where pattern *i* ranges over its own prefix. The two agree when all patterns share the first prefix.

### FiniteMap and TrieMap (refinement)

`FiniteMap` is the abstract map: a function per handle, `Lookup`, a left-biased union, intersection, difference, and an iterator that yields the least key not yet yielded (`rest`). `TrieMap` keeps the nodes themselves: `[value, children]` records. Each operation is the recursion in the Rust code (`InsertWalk`, `RemoveRecursive` with its clean-up of empty children, `UnionRecursive`, `IntersectionRecursive`, `DifferenceRecursive`). The iterator is the explicit stack of `TrieMapIterator`, with children pushed in descending byte order.

The refinement mapping reads the abstract state off the nodes. `AbsDict` gives a handle's keys and values, and `rest` is the union of the keys below the nodes still on the iterator's stack. `Refinement == Abs!ASpec` is checked as a temporal property.

### ExprQuery (composition with TrieMap)

The state is `exprs` (id to expression), the symbol and arity indexes (key to a sequence of ids, as the `Vec`s), the structure index (a trie node), `nextId` and `last`. The structure index is built and read with `TrieMap`'s own operators through `INSTANCE TrieMap`, so the trie is the one modelled and refined above. `EncodeStructure` is `encode_structure` byte by byte. `Insert`, `RemoveExpr`, `Query`, `QueryAnd` and `QueryOr` are the public operations. The per-expression statistics are written and never read, so they are left out.

### Unification

`unify_recursive` threads its `MatchingContext` through every call. The model makes that explicit: each call takes the depth and the bindings, and returns `[ok, vs]` with the bindings as the call leaves them. So a failed branch's bindings stay visible to the next branch, exactly as they do in the code. The depth check comes first (`d >= MaxDepth` refuses), then one case per pattern kind. The parser works on a sequence of characters; a character of `WideChars` is two bytes in UTF-8. `position` counts characters, as `chars().nth` does, but it is compared with the byte length and used as a byte offset in slices (`OnBoundary`). `CompilePattern` caches a compiled pattern and records a panic. After a panic nothing else happens (`Running`).

### JsonPath

The state is the compile cache and `last`, the answer of the latest call. A path string is a sequence of one-character strings. A JSON value is a record tagged `num`, `str`, `null`, `arr` or `obj`; object members are visited in `KeyOrder`, as a `BTreeMap` does.

- `Compile` (`compile_path`) is `PathParser` with its bracket and identifier scanners. `ParseInt`, `Trim` and `Split` model `str::parse::<i64>`, `trim` and `split` by what they do.
- `ApplyOne` is `apply_segment` for one input: child, index (negative from the end), slice (the loop of `apply_slice_access`, its iteration counter and its break included), wildcard, the breadth-first descent `Bfs`, the filter and the union.
- `Evaluate` is `evaluate_path`.
- The public calls live in `JsonPathCache`, which takes `CompilePath` and `EvaluatePath` as constant operators. `JsonPath` extends it, and its runs substitute `Compile` and `Evaluate` for them in the cfg. This keeps the cache protocol free of recursion, so it can be proved about.
- `QueryOn` is `query` on a given cache. `Query`, `ClearCache` and `CacheStats` are the calls of the same names.
- `query_multiple` is one action per point of its loop, with the call in progress in the variable `multi`: `MultiStart` (the empty result map), `MultiStep` (one path queried through the shared cache; an error returns at once, keeping what the cache gained), `MultiEnd` (`Ok(results)`). The other calls are guarded by `~multi.on`: they take `&mut self`, so they cannot overlap a call in progress.
- `ParamsAssumption` in `JsonPathCache` states what the parameters are: `enable_caching` is a bool, and compile and evaluate return `Result`s on the inputs queried. TLC evaluates it with the real parser and evaluator.

The parser only ever builds the filter `Exists("dummy")`, so `Compare`, `Logical`, `Regex` and `compare_values` cannot be reached through the API; they are not modelled. The result path strings are formatting and are left out.

## 3. Runs

The bounds are these:

- Engine: `space` ranges over every subset of a Universe of up to 8 expressions (7 in the passing run). Symbols are 1 and 2 bytes long; compounds have arity 2 and nesting depth up to 2. A variable Universe has `$` and `_1` in the data, and a unit Universe contains `()`. The patterns are `$`, `($ _1)`, `($ ab)`, `($ (a $))` and `(($ b) $)`. Together these cover every opcode, a back reference and a nested pattern.
- Driver:
  - 2 threads, 2 passes each;
  - 7 jobs over 5 paths (`()`, `[1]`, `[1,2]`, `[2]`, `[3]`), which cover:
    - disjoint, prefix-related and equal prefixes;
    - a two-template transform and a two-pattern transform;
    - an in-place rewrite;
    - dumps at a leaf and at the root, and a load.

  Every conflict pattern between two passes occurs. A third thread adds no new kind of overlap.
- MultiQuery: every subset of 4 paths under the prefixes `[2] f` and `[2] g`, with a symbol of 64 bytes; jobs with two patterns on one prefix and two templates.
- TrieMap: two handles, keys `[1]`, `[1,1]`, `[1,2]` (one a prefix of the others, so removals clean up and intersections leave branches), two values.
- ExprQuery: six expressions: a symbol, a variable, `(a b)`, `(a a)`, a nested compound of the same arity, and a compound of arity 2 with the single symbol `a\x01b`, whose encoding runs into that of two symbols. There are six patterns and ids up to 4 (`MaxId`).
- Unification: max depth 3, five expressions (one nested to depth 3) and one expression list. The patterns have a repeated variable, a typed variable, a depth-3 compound, an alternative, a condition over a sequence and a `NotEqual` constraint. The passing run uses ASCII pattern strings; `parse_wide` uses one with a two-byte character.
- JsonPath: the object `{"a": [1, {"a": 2}], "b": {"a": null}}` (key `a` at three depths) and the array `[1, 2, 1]`; ten paths that build every kind of segment the parser builds, plus the two compile errors and the zero-step error; two `query_multiple` lists, one failing on its second path and one repeating a path.

| Run | Properties | Result |
|---|---|---|
| `engine_ground` | TypeOK, QueryExact, ReferWithinPath, PureCall, Termination | pass (41k states) |
| `driver_shared_head` | TypeOK, SharedHeadBlocksWriters, PassesReturn | pass (23k states) |
| `driver_separate_hooks` | WritesIsolated, PassesReturn | pass (78k states) |
| `driver_self_conflict` | NoSelfConflict | violation, finding (d) |
| `driver_ret_freed` | NoUseAfterFree | violation, finding (e) |
| `trie_refinement` | Refinement | pass (34k states) |
| `exprquery_index` | TypeOK, IndexExact, QueryComplete | pass (37k states) |
| `unify` | UnifySound, UnifyComplete | pass (646 states) |
| `parse_wide` | NoPanic | violation, finding (f) |
| `multi_same_prefix` | TransformExact | pass (112 states) |
| `multi_wide_template` | BufferFits | violation, finding (g) |
| `jsonpath` | DescendantsExact, MultiAgreesWithSingle | pass (99.9k states) |

Further configurations reproduce disagreements that TLC found while the models were built. They are not among the listed runs, and each is named in the hazard it belongs to in `PROJECT.json`:

| Configuration | Property violated | What it shows |
|---|---|---|
| `MCEngineGroundPattern.cfg` | QueryExact | finding (a) |
| `MCEngineEmptyCompound.cfg` | QueryExact | finding (b) |
| `MCEngineOrder.cfg` | ActionsInByteOrder | finding (c) |
| `MCEngineDataVars.cfg` | none: passes | the engine's properties with variables in the data |
| `MCTrieMapPruned.cfg` | Pruned | `intersection_recursive` leaves empty branches (line 171) |
| `MCExprQuerySound.cfg` | QuerySound | a symbol query returns every expression that *contains* the symbol (line 241) |
| `MCExprQueryDup.cfg` | QueryNoDuplicates | an id is pushed once per occurrence, so `query(Symbol(a))` on `(a a)` returns it twice (line 310) |
| `MCExprQueryStruct.cfg` | StructureIndexExact | symbol bytes are encoded without their length, so `(a b)` and a one-child compound collide, and removing one drops the other's key (line 358) |
| `MCUnificationAlt.cfg` | AltIsOr | a failed alternative's bindings stay, so `Alt[(?x b), ?x]` fails on `(a a)` (line 357) |
| `MCMultiQueryMixed.cfg` | TransformExact | secondary patterns see the first pattern's subtrie (line 737) |
| `MCMultiQueryGraft.cfg` | none: passes | `GraftedFromFirst` on every job, mixed prefixes included (the TLC side of `ReadsFirstPrefix`) |
| `MCJsonPathSlice.cfg` | SliceExact | `[-2:]` on `[1, 2, 1]` returns `[1, 2]`: the loop counter breaks before the last index (line 327) |

### Engine properties

- `QueryExact`: the paths handed to `ACTION` are exactly the stored expressions that are instances of the pattern, each handed once. The references passed with them are not compared here; `ReferWithinPath` checks that they point into the path. `Matches` defines this by substitution (`Subst`), independently of the engine.
- `ReferWithinPath`: every reference that REFER_RANGE compares against lies within the cursor's current path. The code keeps raw pointers into the path buffer.
- `PureCall`: every handler returns with the cursor, the stack and `last` as it found them.
- `Termination`: every query reaches `Done`.

### Driver properties

- `WritesIsolated`: while a pass writes under its template prefixes, no other pass reads or writes an overlapping prefix.
- `SharedHeadBlocksWriters`: on `DefaultSpace` (`HooksShareHead`), no pass with a template ever gets past its cursors to its engine run or record loop. This is finding (d) stated positively, for every interleaving of two threads.
- `PassesReturn`: every call returns (`~>` under weak fairness).

`CHECK_DEADLOCK FALSE` is set in every run because each system really stops. In the engine runs, the query returns (`Done`: no frames). In the driver runs, each thread stops after `MaxPasses` calls. `Termination` checks that the engine reaches `Done`, and `PassesReturn` checks that no driver call is stuck.

### MultiQuery, TrieMap, ExprQuery, Unification and JsonPath properties

- `TransformExact`: a multi-pattern transform writes the template instances of exactly the conjunctive matches in the Space, pattern *i* ranging over the paths under its own prefix.
- `BufferFits`: every substituted template fits the 512-byte buffer it is written into through a raw pointer.
- `Refinement`: every `BytesTrieMap` operation and iterator step is a step of `FiniteMap`, including the values returned and byte-lexicographic iteration.
- `IndexExact`: after any sequence of inserts and removes, the symbol and arity indexes hold one entry per occurrence, nested ones included, and no empty `Vec`.
- `QueryComplete`: a query returns every stored expression that `matches_pattern` accepts.
- `UnifySound`: a successful unification's bindings make the pattern match, checked against a declarative matcher `RefMatch`.
- `UnifyComplete`: an alternative-free pattern within the depth bound that matches under some assignment satisfying the constraints does unify.
- `NoPanic`: compiling a pattern string never panics.
- `DescendantsExact`: `..`, alone or followed by one selector, returns that selector's values at every node of the document, each once. The reference `AtEveryNode` sums over the tree and uses no queue.
- `MultiAgreesWithSingle`: `query_multiple` fails exactly when one of its paths fails on its own. Otherwise it answers each path as a fresh query of that path would, even though the cache is shared with earlier calls.

### Fairness

The only fairness assumed is weak fairness of each thread's steps (`WF_vars(Step(t))`).

The code never blocks: a conflicting permit is an immediate `Err`, not a wait. So a thread that has started a call keeps running unless the OS stops scheduling it, which weak fairness excludes. New calls (`Start`) are not fair; a thread may stay idle.

The engine is one thread, and `Termination` is checked under weak fairness of `Next`.

### Mutants

Each property of a passing run is broken by a plausible bug in a mapped definition:

- an ARITIES/SIZES decode swap;
- an absolute/relative path mix-up in ACTION;
- an off-by-one reference offset in the compiler;
- a payload epilogue done in the wrong order;
- an unbounded AT_DEPTH dive;
- a template index not reset;
- a writers-only conflict rule;
- a read zipper not tracked;
- a `writer_hook` permit not registered with the head;
- a retry loop instead of an error return;
- the trie iterator pushing children in ascending order;
- an index `retain` that keeps emptied keys, or drops a whole key;
- unindexing only the top level;
- binding a variable without its type check;
- a sequence refusing at its maximum;
- an effect that writes only the first template;
- a descent queue fed only with object members;
- a `query_multiple` that skips a failing path.

## 4. Findings

- (a) A ground pattern compiles to `ACTION` alone: `prefix()` is the whole pattern, and nothing checks that the path exists. So the effect runs once even when the Space does not hold the expression (line 724).
- (b) `ARITIES` is built for 1..63, so `$` never matches `()` (line 645).
- (c) Children are visited by mask class (variables, symbols, arities), so actions are not in byte order (line 481).
- (d) On `DefaultSpace` every transform with a template, and every `load_sexpr`/`load_csv`, is refused by its own hook permit. The spec (4.8) refuses only *another* live permit (line 695).
- (e) `RET` is deallocated after an error but never reset. The next query on the thread reads the freed box and frees it again (line 796).
- (f) `PatternParser` counts `position` in chars but compares it with `input.len()` in bytes and slices `input[start..position]`. A pattern string with a multi-byte character makes a slice end off a char boundary, and the program panics (`pattern_matching.rs` 753).
- (g) Template substitution writes into a 512-byte stack buffer with no bound check. A template that repeats a capture nine times over a 64-byte symbol overruns it (`space_temporary.rs` 691).

Observations from modelling that no configuration checks:

- `triemap_derivation.rs`'s `remove` and `union_with` pass `&mut self.root` to a `&mut self` method, and `jsonpath_engine.rs`'s `query` calls `results.into_iter()` twice. Neither compiles as written; the models follow the evident intent.
- `VariableType::Sequence` can never bind, `UnificationError::RecursionLimit` is never returned, and `unification_cache` is never filled.
- The JSONPath parser turns every filter into `Exists("dummy")`, and slices do not count a negative start from the end, although single indexes do.

## 5. Proofs

`tlapm` checks every proof in `DriverProofs`, `DriverRefinement`, `MultiQueryProofs` and `JsonPathCacheProofs`. Each theorem holds for every value of the constants that satisfies the module's named assumptions:

- `Driver`:
  - `JobsAssumption`: a job's kind, and the shape of its template and pattern lists;
  - `PathsAssumption`: a prefix is a byte string;
  - `ConstAssumption`: the types of the remaining constants.
- `MultiQuery`: `JobsAssumption`. Paths are token strings, and a job has at least one pattern, since `patterns[0]` is indexed at 724.

- `JsonPathCache`: `ParamsAssumption`. `enable_caching` is a bool and path lists are sequences. Compiling a queried path succeeds or fails, and so does evaluating what it compiles to. The `jsonpath` run evaluates this with `Compile` and `Evaluate`.

TLC evaluates all of these assumptions in the passing runs.

### Driver (`DriverProofs`)

- `TypeCorrect`: `Spec => []TypeOK`. The type invariant carries the loop-index bounds: `j` stays within the template or pattern list, which the index arithmetic in `WriteZipper` and `ReadZipper` needs.
- `Isolation`: `Spec => []WritesIsolated`.
- `SelfRefusal`: `Spec => []SharedHeadBlocksWriters`. Finding (d) holds for every instance.

`WritesIsolated` is not inductive by itself: it talks about a pass's prefixes, not about permits. The strengthening is

    IInv == TypeOK /\ PermitsExclusive /\ AllHeld

`AllHeld` says that each thread holds exactly the permits its place in the driver implies:

- one `wz` writer permit per template already passed;
- the `rz` reader permit of the first pattern once it has been granted.

With `AllHeld`, a pass in `run` or `load` holds writer permits on all its templates. `PermitsExclusive` then forbids any other thread's overlapping permit, and `AllHeld` for that thread turns this into the statement about its prefixes (`IsolatedByPermits`).

`PermitsExclusive` is pathmap's `ZipperHead` rule: every grant is guarded by `Conflicts = {}`, so it holds whatever the drivers do, and it is not a property of any run. It is kept only as a conjunct of `IInv` (`ExclusiveStep`, with `GrantExclusive` and `DropExclusive`). What the drivers contribute is `AllHeld`: each cursor is held from its grant until the pass returns.

`IInv` was checked with TLC as an invariant of both passing driver runs before it was proved. The induction step has one case per action (`HeldStep`, `IInvInductive`).

`SharedHeadBlocksWriters` needs its own strengthening, `BInv`. It conjoins `TypeOK` with two facts that hold under `HooksShareHead`:

- `Blocked`: a thread past its template cursors has no templates;
- `OwnHook`: a thread at `wzip` whose hook succeeded holds that hook's writer permit.

By `OwnHook`, the permit is in `Conflicts` for the very prefix the thread asks for next, because every prefix overlaps itself (`SelfOverlap`). So `WriteZipper` can only take its early return.

### Refinement (`DriverRefinement`)

- `Refinement`: `Spec => IsolatedRefinement`, where `IsolatedRefinement == Atomic!ASpec` in `Driver`. No run checks it: on the model checker's instances it is caught by the same mistakes as `WritesIsolated`, which the `driver_separate_hooks` run checks.

The proof has two parts:

- Initial states map to `AInit`.
- `StepMaps` shows that every driver step is an `IsolatedPasses` step or a stutter, with one case per action and per branch of the action:
  - the early returns are `ARefuse` (`RefuseMaps`);
  - a granted cursor or hook that is not the last one keeps every phase (`StutterMaps`);
  - the last one is `AClaim` (`ClaimMaps`);
  - `Run` is `AEffect`;
  - `Return` and `Load` are `AReturn`.

`AClaim`'s guard is the only part that needs more than the shape of the actions. The guard is the abstract isolation invariant `CompatibleRunning`, taken in the state after the step.

`CompatibleRunning` follows from `WritesIsolated`, which `IInv` gives, together with `LoadKind`: only `load_sexpr` reaches `load`, and it never reaches the reading places. `ClaimsCovered` connects them: the prefixes a running pass claims in the abstract spec are the ones its cursors cover.

### MultiQuery (`MultiQueryProofs`)

- `ReadsFirstPrefix`: `Spec => []GraftedFromFirst`, for every job.
- `SamePrefixExact`: `Spec => []TransformExact`, under the hypothesis that every pattern of every job has the first pattern's prefix.
  - The hypothesis is satisfiable: the jobs of the `multi_same_prefix` run satisfy it.
  - It is necessary: `MCMultiQueryMixed.cfg` violates `TransformExact` without it.

The inductive invariant `MInv` records the following:

- each temporary trie built so far is the graft of the first prefix's subtrie (`Grafted(i)`);
- the loop counters' bounds;
- once the pass is done, `written` is the set of substituted templates over `Captures`.

`BelowGraft` is the lemma that carries the code's behaviour: reading a grafted trie back under its prefix gives back the first prefix's subtrie. `CapturesAtEnd` then turns the product of cursors into the set of capture vectors over that subtrie.

### JsonPath cache (`JsonPathCacheProofs`)

- `CacheTransparent`: `Spec => []MultiAgreesWithSingle`, for every compiler, evaluator, set of documents and path lists, with caching on or off. The `jsonpath` run checks the same property with the real parser and evaluator.

The inductive invariant `JInv` has three parts:

- `SoundCache`: every cache entry is what `compile_path` makes of its key;
- `Running`: a `query_multiple` in progress has answered its first `i - 1` paths, each without error and as a fresh query would;
- `MultiAgreesWithSingle` itself.

`QueryOnSound` carries the argument: through a sound cache, `query` answers as a fresh compile would, and leaves the cache sound. A hit uses the stored segments, which equal the compiled ones. A miss compiles and inserts what it compiled. A compile error returns before the insert. `MultiStepJInv` then takes each loop turn. A repeated path overwrites its earlier result with an equal one. A failing path makes the conjunct `last.ok = \A ...` false on both sides. `JInv` was checked with TLC on the `jsonpath` instance, with caching on and off, before it was proved.

### Left to TLC

- Liveness: `PassesReturn` and `Termination`. The prover's backends do not handle `ENABLED` and fairness.
- Everything about `Engine`, `TrieMap`, `ExprQuery`, `Unification` and `JsonPath`'s parser and evaluator (`DescendantsExact`), including the refinement of `FiniteMap` by `TrieMap`:
  - their operators are RECURSIVE, and the SMT backend is lost in any module that reaches a RECURSIVE declaration;
  - their properties are statements about what a recursive definition computes for every input, which needs induction over data, and the library's induction rules cannot be instantiated by the installed provers.
- `BufferFits`, which is violated (finding (g)).

## 6. Not modelled

- Parsers, serializers, and JSON/CSV/neo4j I/O. These are conversions and I/O; the parser crates are not in the repository.
- `stubs.rs`, apart from the tag encoding: placeholders for external crates, with no behaviour.
- `lib.rs` and `integration_tests.rs`: module declarations and tests.
- The JSONPath filters the parser never builds (`Compare`, `Logical`, `Regex`) and the result path strings.
- The unification engine's statistics and the expression query engine's metadata, which are written and never read.
