------------------------------- MODULE Driver -------------------------------
(***************************************************************************)
(* The drivers of space_temporary.rs that take permits: transform_multi_  *)
(* multi_impl and query_multi_impl (with dump_as_sexpr_impl as the query  *)
(* whose effect can fail) and load_sexpr / load_sexpr_impl, run by        *)
(* several host threads on one Space.                                     *)
(*                                                                         *)
(* A permit is a live cursor registered with the Space's ZipperHead       *)
(* (pathmap, spec 4.8): a writer excludes every overlapping cursor, a     *)
(* reader excludes overlapping writers.  The Space trait's writer_hook /  *)
(* reader_hook call new_writer / new_reader and keep the permit until the *)
(* pass returns; transform_multi_multi_impl then opens its own cursors on *)
(* s = root(), which for DefaultSpace is the same ZipperHead.             *)
(* The matching itself is the Engine module; here a pass's engine run is  *)
(* one step whose only outcome that matters is the effect's result.      *)
(***************************************************************************)
EXTENDS Integers, Sequences, FiniteSets

CONSTANTS
    Threads,         \* host threads running passes
    Paths,           \* constant prefixes of templates and patterns
    Jobs,            \* passes a thread may run
    MaxPasses,       \* passes per thread
    HooksShareHead,  \* the hooks register in the ZipperHead the pass uses
    IoFails          \* dump's writer may fail

ASSUME JobsAssumption ==
    \A jb \in Jobs :
        /\ jb.kind \in {"transform", "dump", "load"}
        /\ jb.tpl \in Seq(Paths) /\ jb.pat \in Seq(Paths)
        /\ jb.kind # "load" => Len(jb.pat) >= 1
        /\ jb.kind = "dump" => jb.tpl = <<>>
        /\ jb.kind = "load" => Len(jb.tpl) = 1

\* a prefix is a byte string
ASSUME PathsAssumption == Paths \subseteq Seq(Nat)

ASSUME ConstAssumption ==
    Jobs # {} /\ MaxPasses \in Nat /\ HooksShareHead \in BOOLEAN /\ IoFails \in BOOLEAN

VARIABLES
    live,       \* permits of live cursors: [t, role, j, k, p]
    pc,         \* where each thread is in its pass
    job,        \* the pass each thread runs
    j,          \* loop index over templates, then patterns
    hk,         \* result of the pending writer_hook call
    ret,        \* thread-local RET slot of query_multi_impl
    res,        \* result of each thread's last pass
    refusedBy,  \* owners of the permits that refused the last pass
    passes      \* passes each thread has run

vars == <<live, pc, job, j, hk, ret, res, refusedBy, passes>>

-----------------------------------------------------------------------------
IsPre(p, q) == Len(p) <= Len(q) /\ SubSeq(q, 1, Len(p)) = p
Overlap(p, q) == IsPre(p, q) \/ IsPre(q, p)

Permit(t, role, i, k, p) == [t |-> t, role |-> role, j |-> i, k |-> k, p |-> p]

\* the live cursors a new cursor of kind k at p would overlap (ZipperHead)
Conflicts(k, p) == {x \in live : "write" \in {x.k, k} /\ Overlap(x.p, p)}

\* a pass returns: every permit and cursor it holds is dropped
Finish(t, r, by) ==
    /\ live' = {x \in live : x.t # t}
    /\ pc' = [pc EXCEPT ![t] = "idle"]
    /\ res' = [res EXCEPT ![t] = r]
    /\ refusedBy' = [refusedBy EXCEPT ![t] = by]
    /\ passes' = [passes EXCEPT ![t] = @ + 1]

Tpl(t) == job[t].tpl[j[t]]
First(t) == job[t].pat[1]

-----------------------------------------------------------------------------
(* A thread calls transform_multi_multi, dump_as_sexpr or load_sexpr.     *)
Start(t) ==
    /\ pc[t] = "idle" /\ passes[t] < MaxPasses
    /\ \E jb \in Jobs :
         /\ job' = [job EXCEPT ![t] = jb]
         /\ pc' = [pc EXCEPT ![t] = IF jb.tpl # <<>> THEN "whook" ELSE "rhook"]
    /\ j' = [j EXCEPT ![t] = 1]
    /\ UNCHANGED <<live, hk, ret, res, refusedBy, passes>>

\* mutant: the hook's permit is not registered with the head
WriterHookUntracked(t) ==
    /\ pc[t] = "whook"
    /\ LET ok == ~HooksShareHead \/ Conflicts("write", Tpl(t)) = {}
       IN  /\ hk' = [hk EXCEPT ![t] = ok]
           /\ refusedBy' = [refusedBy EXCEPT ![t] = {x.t : x \in Conflicts("write", Tpl(t))}]
    /\ pc' = [pc EXCEPT ![t] = "wzip"]
    /\ UNCHANGED <<live, job, j, ret, res, passes>>

(* transform_multi_multi_impl 695: writer_hook(p) for the j-th template   *)
(* prefix: new_writer registers an exclusive permit, or fails.            *)
WriterHook(t) ==
    /\ pc[t] = "whook"
    /\ LET ok == ~HooksShareHead \/ Conflicts("write", Tpl(t)) = {}
       IN  /\ live' = IF HooksShareHead /\ ok
                      THEN live \cup {Permit(t, "whook", j[t], "write", Tpl(t))} ELSE live
           /\ hk' = [hk EXCEPT ![t] = ok]
           /\ refusedBy' = [refusedBy EXCEPT ![t] = {x.t : x \in Conflicts("write", Tpl(t))}]
    /\ pc' = [pc EXCEPT ![t] = "wzip"]
    /\ UNCHANGED <<job, j, ret, res, passes>>

\* where a pass goes after its last template cursor
AfterTemplates(t) == IF job[t].kind = "load" THEN "load" ELSE "rhook"

\* mutant: a refused cursor is requested again until it is granted
WriteZipperSpin(t) ==
    /\ pc[t] = "wzip"
    /\ LET c == Conflicts("write", Tpl(t)) IN
       CASE ~hk[t] -> Finish(t, "hook", refusedBy[t]) /\ UNCHANGED j
         [] hk[t] /\ c # {} -> UNCHANGED <<live, pc, res, refusedBy, passes, j>>
         [] hk[t] /\ c = {} ->
              /\ live' = live \cup {Permit(t, "wz", j[t], "write", Tpl(t))}
              /\ pc' = [pc EXCEPT ![t] = IF j[t] < Len(job[t].tpl) THEN "whook" ELSE AfterTemplates(t)]
              /\ j' = [j EXCEPT ![t] = IF j[t] < Len(job[t].tpl) THEN @ + 1 ELSE 1]
              /\ UNCHANGED <<res, refusedBy, passes>>
    /\ UNCHANGED <<job, hk, ret>>

(* transform 695-698 and load_sexpr 101-102: write_zipper_at_exclusive_  *)
(* path(p) on root(); then the hook's error, else the conflict, returns   *)
(* early (dropping every cursor of the pass); else the zipper is kept.    *)
(* load_sexpr returns on the hook's error before it asks for the cursor;  *)
(* the cursor it would get is dropped unused either way.                  *)
WriteZipper(t) ==
    /\ pc[t] = "wzip"
    /\ LET c == Conflicts("write", Tpl(t)) IN
       CASE ~hk[t] -> Finish(t, "hook", refusedBy[t])
         [] hk[t] /\ c # {} -> Finish(t, "conflict", {x.t : x \in c})
         [] hk[t] /\ c = {} ->
              /\ live' = live \cup {Permit(t, "wz", j[t], "write", Tpl(t))}
              /\ pc' = [pc EXCEPT ![t] = IF j[t] < Len(job[t].tpl) THEN "whook" ELSE AfterTemplates(t)]
              /\ UNCHANGED <<res, refusedBy, passes>>
    /\ j' = [j EXCEPT ![t] = IF j[t] < Len(job[t].tpl) THEN @ + 1 ELSE 1]
    /\ UNCHANGED <<job, hk, ret>>

(* query_multi_impl 726 and 734: reader_hook(first_pattern_prefix), once  *)
(* for the first pattern and again for every further one.                 *)
ReaderHook(t) ==
    /\ pc[t] = "rhook"
    /\ LET c == Conflicts("read", First(t)) IN
       IF HooksShareHead /\ c # {}
       THEN /\ Finish(t, "hook", {x.t : x \in c})
            /\ UNCHANGED j
       ELSE /\ live' = IF HooksShareHead
                       THEN live \cup {Permit(t, "rhook", j[t], "read", First(t))} ELSE live
            /\ pc' = [pc EXCEPT ![t] = "rzip"]
            /\ UNCHANGED <<j, res, refusedBy, passes>>
    /\ UNCHANGED <<job, hk, ret>>

\* mutant: the primary read cursor is not registered with the head
ReadZipperUntracked(t) ==
    /\ pc[t] = "rzip" /\ Conflicts("read", First(t)) = {}
    /\ pc' = [pc EXCEPT ![t] = IF j[t] < Len(job[t].pat) THEN "rhook" ELSE "run"]
    /\ j' = [j EXCEPT ![t] = IF j[t] < Len(job[t].pat) THEN @ + 1 ELSE @]
    /\ UNCHANGED <<live, job, hk, ret, res, refusedBy, passes>>

\* mutant: one pattern too many is walked (patterns[1..=n])
ReadZipperOffByOne(t) ==
    /\ pc[t] = "rzip"
    /\ LET c == Conflicts("read", First(t)) IN
       IF c # {}
       THEN /\ Finish(t, "conflict", {x.t : x \in c})
            /\ UNCHANGED j
       ELSE /\ live' = IF j[t] = 1
                       THEN live \cup {Permit(t, "rz", 1, "read", First(t))} ELSE live
            /\ pc' = [pc EXCEPT ![t] = IF j[t] <= Len(job[t].pat) THEN "rhook" ELSE "run"]
            /\ j' = [j EXCEPT ![t] = IF j[t] <= Len(job[t].pat) THEN @ + 1 ELSE @]
            /\ UNCHANGED <<res, refusedBy, passes>>
    /\ UNCHANGED <<job, hk, ret>>

\* mutant: a refused read cursor is requested again until it is granted
ReadZipperSpin(t) ==
    /\ pc[t] = "rzip"
    /\ LET c == Conflicts("read", First(t)) IN
       IF c # {}
       THEN UNCHANGED vars
       ELSE /\ live' = IF j[t] = 1
                       THEN live \cup {Permit(t, "rz", 1, "read", First(t))} ELSE live
            /\ pc' = [pc EXCEPT ![t] = IF j[t] < Len(job[t].pat) THEN "rhook" ELSE "run"]
            /\ j' = [j EXCEPT ![t] = IF j[t] < Len(job[t].pat) THEN @ + 1 ELSE @]
            /\ UNCHANGED <<job, hk, ret, res, refusedBy, passes>>

(* 727 and 735-737: s.read_zipper_at_path(first_pattern_prefix): the     *)
(* primary cursor, kept; for a further pattern a cursor that is grafted   *)
(* into a temporary map and dropped.  After the last pattern the engine.  *)
ReadZipper(t) ==
    /\ pc[t] = "rzip"
    /\ LET c == Conflicts("read", First(t)) IN
       IF c # {}
       THEN /\ Finish(t, "conflict", {x.t : x \in c})
            /\ UNCHANGED j
       ELSE /\ live' = IF j[t] = 1
                       THEN live \cup {Permit(t, "rz", 1, "read", First(t))} ELSE live
            /\ pc' = [pc EXCEPT ![t] = IF j[t] < Len(job[t].pat) THEN "rhook" ELSE "run"]
            /\ j' = [j EXCEPT ![t] = IF j[t] < Len(job[t].pat) THEN @ + 1 ELSE @]
            /\ UNCHANGED <<res, refusedBy, passes>>
    /\ UNCHANGED <<job, hk, ret>>

(* 774-789: referential_transition under setjmp.  transform's effect     *)
(* always returns Ok; dump's returns the writer's io error, which is     *)
(* boxed into RET and longjmp'd out of the engine.                        *)
Run(t) ==
    /\ pc[t] = "run"
    /\ \/ UNCHANGED ret
       \/ /\ IoFails /\ job[t].kind = "dump"
          /\ ret' = [ret EXCEPT ![t] = "set"]
    /\ pc' = [pc EXCEPT ![t] = "fin"]
    /\ UNCHANGED <<live, job, j, hk, res, refusedBy, passes>>

(* 791-799: RET.with: null means Ok(candidate); otherwise read the error *)
(* and dealloc it -- RET is never set back to null.                       *)
Return(t) ==
    /\ pc[t] = "fin"
    /\ Finish(t, IF ret[t] = "null" THEN "ok" ELSE "io", {})
    /\ ret' = [ret EXCEPT ![t] = IF @ = "null" THEN "null" ELSE "freed"]
    /\ UNCHANGED <<job, j, hk>>

(* load_sexpr_impl 927-953: parse each record, rewrite it and write it  *)
(* under the template prefix; a parse error returns with the records     *)
(* before it written (partial ingest is allowed, spec 7).                *)
Load(t) ==
    /\ pc[t] = "load"
    /\ \E r \in {"ok", "parse"} : Finish(t, r, {})
    /\ UNCHANGED <<job, j, hk, ret>>

-----------------------------------------------------------------------------
Init ==
    /\ live = {}
    /\ pc = [t \in Threads |-> "idle"]
    /\ job = [t \in Threads |-> CHOOSE jb \in Jobs : TRUE]
    /\ j = [t \in Threads |-> 1]
    /\ hk = [t \in Threads |-> TRUE]
    /\ ret = [t \in Threads |-> "null"]
    /\ res = [t \in Threads |-> "none"]
    /\ refusedBy = [t \in Threads |-> {}]
    /\ passes = [t \in Threads |-> 0]

Step(t) == WriterHook(t) \/ WriteZipper(t) \/ ReaderHook(t) \/ ReadZipper(t)
           \/ Run(t) \/ Return(t) \/ Load(t)

Next == \E t \in Threads : Start(t) \/ Step(t)

(* A pass never blocks (permits are tried, never awaited) and each host  *)
(* thread is scheduled: a thread inside a pass keeps taking steps.  A    *)
(* thread need not start another pass.                                    *)
Spec == Init /\ [][Next]_vars /\ \A t \in Threads : WF_vars(Step(t))
-----------------------------------------------------------------------------
Pcs == {"idle", "whook", "wzip", "rhook", "rzip", "run", "fin", "load"}
PermitType == [t : Threads, role : {"whook", "wz", "rhook", "rz"}, j : Nat,
               k : {"read", "write"}, p : Paths]

(* Every variable holds a value of its kind, and the loop index of a pass *)
(* stays within the template list (695) or the pattern list (730) it is   *)
(* walking.                                                               *)
TypeOK ==
    /\ live \subseteq PermitType
    /\ pc \in [Threads -> Pcs]
    /\ job \in [Threads -> Jobs]
    /\ j \in [Threads -> Nat \ {0}]
    /\ hk \in [Threads -> BOOLEAN]
    /\ ret \in [Threads -> {"null", "set", "freed"}]
    /\ res \in [Threads -> {"none", "ok", "conflict", "hook", "io", "parse"}]
    /\ refusedBy \in [Threads -> SUBSET Threads]
    /\ passes \in [Threads -> Nat]
    /\ \A t \in Threads :
         /\ pc[t] \in {"whook", "wzip"} => j[t] <= Len(job[t].tpl)
         /\ pc[t] \in {"rhook", "rzip"} => j[t] <= Len(job[t].pat)

(* The ZipperHead's rule (spec 3.3, 4.8), which Conflicts guards every  *)
(* grant with: of any two live cursors and hook permits, neither is a     *)
(* writer overlapping the other.  Not a run's property (it holds by that   *)
(* guard whatever the drivers do); a conjunct of DriverProofs' IInv.       *)
PermitsExclusive ==
    \A x, y \in live : x # y /\ "write" \in {x.k, y.k} => ~Overlap(x.p, y.p)

\* the prefixes a thread's engine run or record loop writes under, and reads
Writes(t) == IF pc[t] \in {"run", "load"}
             THEN {job[t].tpl[i] : i \in 1..Len(job[t].tpl)} ELSE {}
Reads(t) == IF pc[t] = "run" THEN {First(t)} ELSE {}

(* Concurrent passes are isolated (spec 6): while a transform's effect or *)
(* load_sexpr's loop writes under a template prefix, no other thread's    *)
(* engine reads, and no other thread writes, under an overlapping prefix. *)
(* It holds only if every cursor of a pass is taken before the pass       *)
(* touches the trie and is held until it returns.                         *)
WritesIsolated ==
    \A t, u \in Threads :
        t # u => \A w \in Writes(u), q \in Reads(t) \cup Writes(t) : ~Overlap(w, q)

\* the phase of a pass as IsolatedPasses sees it: every cursor is taken
\* before "run" and "load", the engine has run at "fin"
Phase == [idle |-> "idle", whook |-> "pending", wzip |-> "pending",
          rhook |-> "pending", rzip |-> "pending", run |-> "active",
          load |-> "active", fin |-> "done"]

Atomic == INSTANCE IsolatedPasses
            WITH apc <- [th \in Threads |-> Phase[pc[th]]], ajob <- job, ares <- res

(* The drivers implement IsolatedPasses: taking a pass's cursors one by   *)
(* one, each checked only against the cursors live at that moment, and    *)
(* returning early on the first refusal, is indistinguishable from        *)
(* claiming all its prefixes at once against the passes then running; a   *)
(* refused pass never reaches its effect and returns conflict or hook.    *)
IsolatedRefinement == Atomic!ASpec

(* Every pass returns: the drivers never wait for a permit, so a thread   *)
(* that called transform, dump or load gets a result.                     *)
PassesReturn == \A t \in Threads : pc[t] # "idle" ~> pc[t] = "idle"

(* Spec 4.8: new_writer succeeds unless another live permit overlaps, so *)
(* a pass refused with PathConflict or a permission error was refused by  *)
(* a permit of another thread.                                            *)
NoSelfConflict ==
    \A t \in Threads : res[t] \in {"conflict", "hook"} => refusedBy[t] \ {t} # {}

(* On DefaultSpace (the hooks register in the ZipperHead that root()     *)
(* returns) no pass with a template ever reaches its engine run or its    *)
(* record loop: the writer_hook permit of its first template refuses the  *)
(* write_zipper_at_exclusive_path the same pass asks for next (695-698),  *)
(* so every transform that writes and every load_sexpr returns an error.  *)
(* Only template-free passes (dumps) get past their cursors.              *)
SharedHeadBlocksWriters ==
    HooksShareHead =>
        \A t \in Threads :
            pc[t] \in {"rhook", "rzip", "run", "fin", "load"} => job[t].tpl = <<>>

(* query_multi_impl 791-798 reads RET after the engine returns: it must  *)
(* never read an error box that an earlier query on this thread freed.    *)
NoUseAfterFree == \A t \in Threads : pc[t] = "fin" => ret[t] # "freed"
====
