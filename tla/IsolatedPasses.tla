--------------------------- MODULE IsolatedPasses ---------------------------
(***************************************************************************)
(* What the drivers of space_temporary.rs promise the threads that share  *)
(* a Space (spec 6, concurrent passes are isolated).  A pass that a       *)
(* thread starts is pending while it asks for its cursors; it is either   *)
(* refused, returning an error before it touched the trie, or it claims   *)
(* every prefix it writes and reads in one step, against the passes that  *)
(* are running at that moment.  A transform or dump then runs its effect  *)
(* and returns; load_sexpr's record loop returns directly.                *)
(*                                                                         *)
(* Driver implements this specification under the mapping in Driver.tla *)
(* (IsolatedRefinement): cursors taken one at a time, each checked        *)
(* against the live cursors only, are as good as one atomic claim.        *)
(***************************************************************************)
EXTENDS Integers, Sequences

CONSTANTS Threads, Paths, Jobs

VARIABLES
    apc,    \* "idle", "pending", "active" or "done" per thread
    ajob,   \* the pass each thread runs
    ares    \* result of each thread's last pass

avars == <<apc, ajob, ares>>

IsPre(p, q) == Len(p) <= Len(q) /\ SubSeq(q, 1, Len(p)) = p
Overlap(p, q) == IsPre(p, q) \/ IsPre(q, p)

\* the prefixes a pass writes under (its templates) and reads under (the
\* prefix of its first pattern; load_sexpr reads nothing of the space)
Wr(jb) == {jb.tpl[i] : i \in 1..Len(jb.tpl)}
Rd(jb) == IF jb.kind = "load" THEN {} ELSE {jb.pat[1]}

\* two passes may run together: neither writes where the other reads or writes
Compatible(a, b) ==
    /\ \A w \in Wr(a), q \in Rd(b) \cup Wr(b) : ~Overlap(w, q)
    /\ \A w \in Wr(b), q \in Rd(a) : ~Overlap(w, q)

-----------------------------------------------------------------------------
\* transform_multi_multi, dump_as_sexpr or load_sexpr is called
AStart(t) ==
    /\ apc[t] = "idle"
    /\ \E jb \in Jobs : ajob' = [ajob EXCEPT ![t] = jb]
    /\ apc' = [apc EXCEPT ![t] = "pending"]
    /\ UNCHANGED ares

\* a hook or a cursor is refused: the pass returns an error, having written nothing
ARefuse(t) ==
    /\ apc[t] = "pending"
    /\ \E r \in {"conflict", "hook"} : ares' = [ares EXCEPT ![t] = r]
    /\ apc' = [apc EXCEPT ![t] = "idle"]
    /\ UNCHANGED ajob

\* the pass holds all its cursors: compatible with every running pass
AClaim(t) ==
    /\ apc[t] = "pending"
    /\ \A u \in Threads \ {t} : apc[u] = "active" => Compatible(ajob[t], ajob[u])
    /\ apc' = [apc EXCEPT ![t] = "active"]
    /\ UNCHANGED <<ajob, ares>>

\* the engine run of a transform or dump ends
AEffect(t) ==
    /\ apc[t] = "active" /\ ajob[t].kind # "load"
    /\ apc' = [apc EXCEPT ![t] = "done"]
    /\ UNCHANGED <<ajob, ares>>

\* the pass returns, releasing its claim: a record loop with ok or a parse
\* error, an engine run with ok or an io error
AReturn(t) ==
    /\ \/ apc[t] = "active" /\ ajob[t].kind = "load"
          /\ \E r \in {"ok", "parse"} : ares' = [ares EXCEPT ![t] = r]
       \/ apc[t] = "done"
          /\ \E r \in {"ok", "io"} : ares' = [ares EXCEPT ![t] = r]
    /\ apc' = [apc EXCEPT ![t] = "idle"]
    /\ UNCHANGED ajob

AInit ==
    /\ apc = [t \in Threads |-> "idle"]
    /\ ajob \in [Threads -> Jobs]
    /\ ares = [t \in Threads |-> "none"]

ANext == \E t \in Threads :
            AStart(t) \/ ARefuse(t) \/ AClaim(t) \/ AEffect(t) \/ AReturn(t)

ASpec == AInit /\ [][ANext]_avars
====
