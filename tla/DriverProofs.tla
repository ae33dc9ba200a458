---------------------------- MODULE DriverProofs ----------------------------
(***************************************************************************)
(* Proofs about Driver for every set of threads, prefixes and jobs:      *)
(* type correctness, the isolation of concurrent passes (resting on the  *)
(* ZipperHead's check of every grant), and DefaultSpace's self-refusal.  *)
(***************************************************************************)
EXTENDS Driver, TLAPS, SequenceTheorems

USE ConstAssumption

Results == {"none", "ok", "conflict", "hook", "io", "parse"}

\* What a job's lists are, from JobsAssumption.
LEMMA JobFacts ==
    ASSUME NEW jb \in Jobs
    PROVE  /\ jb.tpl \in Seq(Paths) /\ jb.pat \in Seq(Paths)
           /\ Len(jb.tpl) \in Nat /\ Len(jb.pat) \in Nat
           /\ jb.kind # "load" => Len(jb.pat) >= 1
           /\ jb.kind = "load" => Len(jb.tpl) = 1
           /\ jb.tpl # <<>> => Len(jb.tpl) >= 1
BY JobsAssumption, EmptySeq, LenProperties

\* The prefix a pass works on at its loop index is a prefix of the model.
LEMMA CursorPaths ==
    ASSUME TypeOK, NEW t \in Threads
    PROVE  /\ pc[t] \in {"whook", "wzip"} => Tpl(t) \in Paths
           /\ pc[t] \in {"rhook", "rzip"} => First(t) \in Paths
<1>1. job[t] \in Jobs /\ j[t] \in Nat \ {0}
  BY DEF TypeOK
<1>2. job[t].tpl \in Seq(Paths) /\ job[t].pat \in Seq(Paths)
  BY <1>1, JobFacts
<1>3. pc[t] \in {"whook", "wzip"} => Tpl(t) \in Paths
  BY <1>1, <1>2, ElementOfSeq DEF TypeOK, Tpl
<1>4. pc[t] \in {"rhook", "rzip"} => First(t) \in Paths
  BY <1>1, <1>2, ElementOfSeq DEF TypeOK, First
<1> QED BY <1>3, <1>4

\* A returning pass keeps every variable Finish sets within its type.
LEMMA FinishType ==
    ASSUME TypeOK, NEW t \in Threads, NEW r \in Results, NEW by \in SUBSET Threads,
           Finish(t, r, by)
    PROVE  /\ live' \subseteq PermitType
           /\ pc' \in [Threads -> Pcs] /\ pc'[t] = "idle"
           /\ \A u \in Threads \ {t} : pc'[u] = pc[u]
           /\ res' \in [Threads -> Results]
           /\ refusedBy' \in [Threads -> SUBSET Threads]
           /\ passes' \in [Threads -> Nat]
BY DEF TypeOK, Finish, Pcs, Results

\* A step that returns a pass and leaves the job, the template index, the
\* hook flag and RET alone keeps the whole state within its type.
LEMMA FinishKeepsType ==
    ASSUME TypeOK, NEW t \in Threads, NEW r \in Results, NEW by \in SUBSET Threads,
           Finish(t, r, by), UNCHANGED <<j, job, hk, ret>>
    PROVE  TypeOK'
<1>1. /\ live' \subseteq PermitType
      /\ pc' \in [Threads -> Pcs] /\ pc'[t] = "idle"
      /\ \A u \in Threads \ {t} : pc'[u] = pc[u]
      /\ res' \in [Threads -> Results]
      /\ refusedBy' \in [Threads -> SUBSET Threads]
      /\ passes' \in [Threads -> Nat]
  BY FinishType
<1>2. job' = job /\ j' = j /\ hk' = hk /\ ret' = ret
  OBVIOUS
<1>3. \A u \in Threads :
        /\ pc'[u] \in {"whook", "wzip"} => j'[u] <= Len(job'[u].tpl)
        /\ pc'[u] \in {"rhook", "rzip"} => j'[u] <= Len(job'[u].pat)
  <2> TAKE u \in Threads
  <2>1. CASE u = t
    BY <1>1, <2>1
  <2>2. CASE u # t
    BY <1>1, <1>2, <2>2 DEF TypeOK
  <2> QED BY <2>1, <2>2
<1>4. /\ job' \in [Threads -> Jobs] /\ j' \in [Threads -> Nat \ {0}]
      /\ hk' \in [Threads -> BOOLEAN] /\ ret' \in [Threads -> {"null", "set", "freed"}]
  BY <1>2 DEF TypeOK
<1> QED BY <1>1, <1>3, <1>4 DEF TypeOK, Results

-----------------------------------------------------------------------------
(* Type correctness: every step of every thread keeps each variable in   *)
(* its type and each loop index within the list its loop walks.          *)
LEMMA TypeInit == Init => TypeOK
BY JobsAssumption DEF Init, TypeOK, Pcs

LEMMA TypeStep == TypeOK /\ [Next]_vars => TypeOK'
<1> SUFFICES ASSUME TypeOK, [Next]_vars PROVE TypeOK'
  OBVIOUS
<1>1. ASSUME NEW t \in Threads, Start(t) PROVE TypeOK'
  <2>1. PICK jb \in Jobs :
          /\ job' = [job EXCEPT ![t] = jb]
          /\ pc' = [pc EXCEPT ![t] = IF jb.tpl # <<>> THEN "whook" ELSE "rhook"]
    BY <1>1 DEF Start
  <2>2. jb.tpl # <<>> => 1 <= Len(jb.tpl)
    BY JobFacts
  <2>3. jb.tpl = <<>> => 1 <= Len(jb.pat)
    <3>1. Len(<<>>) = 0
      BY EmptySeq
    <3>2. /\ jb.kind = "load" => Len(jb.tpl) = 1
          /\ jb.kind # "load" => Len(jb.pat) >= 1
      BY JobFacts
    <3> QED BY <3>1, <3>2
  <2> QED BY <1>1, <2>1, <2>2, <2>3 DEF Start, TypeOK, Pcs
<1>2. ASSUME NEW t \in Threads, WriterHook(t) PROVE TypeOK'
  <2>1. Tpl(t) \in Paths
    BY <1>2, CursorPaths DEF WriterHook
  <2> QED BY <1>2, <2>1 DEF WriterHook, TypeOK, Pcs, PermitType, Permit, Conflicts
<1>3. ASSUME NEW t \in Threads, WriteZipper(t) PROVE TypeOK'
  <2>1. Tpl(t) \in Paths /\ job[t] \in Jobs
    BY <1>3, CursorPaths DEF WriteZipper, TypeOK
  <2>2. CASE ~hk[t]
    <3>1. Finish(t, "hook", refusedBy[t])
      BY <1>3, <2>2 DEF WriteZipper
    <3> QED BY <3>1, FinishType, <1>3 DEF WriteZipper, TypeOK, Results
  <2>3. CASE hk[t] /\ Conflicts("write", Tpl(t)) # {}
    <3>1. Finish(t, "conflict", {x.t : x \in Conflicts("write", Tpl(t))})
      BY <1>3, <2>3 DEF WriteZipper
    <3>2. {x.t : x \in Conflicts("write", Tpl(t))} \in SUBSET Threads
      BY DEF TypeOK, Conflicts, PermitType
    <3> QED BY <3>1, <3>2, FinishType, <1>3 DEF WriteZipper, TypeOK, Results
  <2>4. CASE hk[t] /\ Conflicts("write", Tpl(t)) = {}
    <3>1. /\ live' = live \cup {Permit(t, "wz", j[t], "write", Tpl(t))}
          /\ pc' = [pc EXCEPT ![t] = IF j[t] < Len(job[t].tpl) THEN "whook" ELSE AfterTemplates(t)]
          /\ UNCHANGED <<res, refusedBy, passes>>
      BY <1>3, <2>4 DEF WriteZipper
    <3>2. AfterTemplates(t) = "rhook" => 1 <= Len(job[t].pat)
      BY <2>1, JobFacts DEF AfterTemplates
    <3>3. j[t] <= Len(job[t].tpl) /\ Len(job[t].tpl) \in Nat
      BY <1>3, <2>1, JobFacts DEF WriteZipper, TypeOK
    <3> QED BY <1>3, <2>1, <3>1, <3>2, <3>3
            DEF WriteZipper, TypeOK, Pcs, PermitType, Permit, AfterTemplates
  <2> QED BY <2>2, <2>3, <2>4 DEF TypeOK
<1>4. ASSUME NEW t \in Threads, ReaderHook(t) PROVE TypeOK'
  <2>1. First(t) \in Paths
    BY <1>4, CursorPaths DEF ReaderHook
  <2>2. CASE HooksShareHead /\ Conflicts("read", First(t)) # {}
    <3>1. Finish(t, "hook", {x.t : x \in Conflicts("read", First(t))})
      BY <1>4, <2>2 DEF ReaderHook
    <3>2. {x.t : x \in Conflicts("read", First(t))} \in SUBSET Threads
      BY DEF TypeOK, Conflicts, PermitType
    <3>3. UNCHANGED <<j, job, hk, ret>>
      BY <1>4, <2>2 DEF ReaderHook
    <3> QED BY <3>1, <3>2, <3>3, FinishKeepsType DEF Results
  <2>3. CASE ~(HooksShareHead /\ Conflicts("read", First(t)) # {})
    <3>1. /\ live' \in {live, live \cup {Permit(t, "rhook", j[t], "read", First(t))}}
          /\ pc' = [pc EXCEPT ![t] = "rzip"]
          /\ UNCHANGED <<j, res, refusedBy, passes, job, hk, ret>>
      BY <1>4, <2>3 DEF ReaderHook
    <3>2. Permit(t, "rhook", j[t], "read", First(t)) \in PermitType
      BY <2>1 DEF TypeOK, PermitType, Permit
    <3> QED BY <1>4, <3>1, <3>2 DEF ReaderHook, TypeOK, Pcs
  <2> QED BY <2>2, <2>3
<1>5. ASSUME NEW t \in Threads, ReadZipper(t) PROVE TypeOK'
  <2>1. First(t) \in Paths /\ Len(job[t].pat) \in Nat
    BY <1>5, CursorPaths, JobFacts DEF ReadZipper, TypeOK
  <2>2. CASE Conflicts("read", First(t)) # {}
    <3>1. Finish(t, "conflict", {x.t : x \in Conflicts("read", First(t))})
      BY <1>5, <2>2 DEF ReadZipper
    <3>2. {x.t : x \in Conflicts("read", First(t))} \in SUBSET Threads
      BY DEF TypeOK, Conflicts, PermitType
    <3>3. UNCHANGED <<j, job, hk, ret>>
      BY <1>5, <2>2 DEF ReadZipper
    <3> QED BY <3>1, <3>2, <3>3, FinishKeepsType DEF Results
  <2>3. CASE Conflicts("read", First(t)) = {}
    <3>1. /\ live' \in {live, live \cup {Permit(t, "rz", 1, "read", First(t))}}
          /\ pc' = [pc EXCEPT ![t] = IF j[t] < Len(job[t].pat) THEN "rhook" ELSE "run"]
          /\ j' = [j EXCEPT ![t] = IF j[t] < Len(job[t].pat) THEN @ + 1 ELSE @]
          /\ UNCHANGED <<res, refusedBy, passes, job, hk, ret>>
      BY <1>5, <2>3 DEF ReadZipper
    <3>2. Permit(t, "rz", 1, "read", First(t)) \in PermitType
      BY <2>1 DEF PermitType, Permit
    <3> QED BY <1>5, <2>1, <3>1, <3>2 DEF ReadZipper, TypeOK, Pcs
  <2> QED BY <2>2, <2>3
<1>6. ASSUME NEW t \in Threads, Run(t) PROVE TypeOK'
  BY <1>6 DEF Run, TypeOK, Pcs
<1>7. ASSUME NEW t \in Threads, Return(t) PROVE TypeOK'
  <2>1. Finish(t, IF ret[t] = "null" THEN "ok" ELSE "io", {})
    BY <1>7 DEF Return
  <2> QED BY <1>7, <2>1, FinishType DEF Return, TypeOK, Results
<1>8. ASSUME NEW t \in Threads, Load(t) PROVE TypeOK'
  <2>1. PICK r \in {"ok", "parse"} : Finish(t, r, {})
    BY <1>8 DEF Load
  <2> QED BY <1>8, <2>1, FinishType DEF Load, TypeOK, Results
<1>9. CASE UNCHANGED vars
  BY <1>9 DEF vars, TypeOK
<1> QED BY <1>1, <1>2, <1>3, <1>4, <1>5, <1>6, <1>7, <1>8, <1>9 DEF Next, Step

(* Type correctness of the driver model (see TypeOK).                      *)
THEOREM TypeCorrect == Spec => []TypeOK
BY TypeInit, TypeStep, PTL DEF Spec
-----------------------------------------------------------------------------
(* The cursors a pass holds.  transform_multi_multi_impl keeps every      *)
(* template cursor it took in template_wzs until it returns, and          *)
(* query_multi_impl keeps its primary read cursor rz until it returns.    *)
WzPermit(t, i) == Permit(t, "wz", i, "write", job[t].tpl[i])
RzPermit(t) == Permit(t, "rz", 1, "read", First(t))

Held(t) ==
    /\ pc[t] \in {"whook", "wzip"} => \A i \in 1..(j[t] - 1) : WzPermit(t, i) \in live
    /\ pc[t] \in {"rhook", "rzip", "run", "load"} =>
         \A i \in 1..Len(job[t].tpl) : WzPermit(t, i) \in live
    /\ pc[t] = "run" \/ (pc[t] \in {"rhook", "rzip"} /\ j[t] > 1) => RzPermit(t) \in live

AllHeld == \A t \in Threads : Held(t)

\* The inductive invariant: WritesIsolated alone is not preserved by the
\* step that starts a write, which needs the permits behind it.
IInv == TypeOK /\ PermitsExclusive /\ AllHeld
\* A permit granted against an empty conflict set keeps the head exclusive.
LEMMA GrantExclusive ==
    ASSUME PermitsExclusive, NEW n, Conflicts(n.k, n.p) = {}, live' = live \cup {n}
    PROVE  PermitsExclusive'
BY DEF PermitsExclusive, Conflicts, Overlap

\* Dropping cursors keeps the head exclusive.
LEMMA DropExclusive ==
    ASSUME PermitsExclusive, live' \subseteq live
    PROVE  PermitsExclusive'
BY DEF PermitsExclusive

(* Every step leaves no two live permits where a writer overlaps another: *)
(* each cursor the drivers take is granted only against an empty set of   *)
(* conflicts, and a returning pass only drops cursors.                    *)
LEMMA ExclusiveStep == TypeOK /\ PermitsExclusive /\ [Next]_vars => PermitsExclusive'
<1> SUFFICES ASSUME TypeOK, PermitsExclusive, [Next]_vars PROVE PermitsExclusive'
  OBVIOUS
<1>1. ASSUME NEW t \in Threads, Start(t) \/ Run(t) PROVE PermitsExclusive'
  BY <1>1 DEF Start, Run, PermitsExclusive
<1>2. ASSUME NEW t \in Threads, WriterHook(t) PROVE PermitsExclusive'
  <2>1. CASE HooksShareHead /\ Conflicts("write", Tpl(t)) = {}
    <3>1. live' = live \cup {Permit(t, "whook", j[t], "write", Tpl(t))}
      BY <1>2, <2>1 DEF WriterHook
    <3> QED BY <3>1, <2>1, GrantExclusive DEF Permit
  <2>2. CASE ~(HooksShareHead /\ Conflicts("write", Tpl(t)) = {})
    BY <1>2, <2>2, DropExclusive DEF WriterHook
  <2> QED BY <2>1, <2>2
<1>3. ASSUME NEW t \in Threads, WriteZipper(t) PROVE PermitsExclusive'
  <2>1. CASE hk[t] /\ Conflicts("write", Tpl(t)) = {}
    <3>1. live' = live \cup {Permit(t, "wz", j[t], "write", Tpl(t))}
      BY <1>3, <2>1 DEF WriteZipper
    <3> QED BY <3>1, <2>1, GrantExclusive DEF Permit
  <2>2. CASE ~hk[t] \/ Conflicts("write", Tpl(t)) # {}
    <3>1. live' \subseteq live
      BY <1>3, <2>2 DEF WriteZipper, Finish
    <3> QED BY <3>1, DropExclusive
  <2> QED BY <2>1, <2>2
<1>4. ASSUME NEW t \in Threads, ReaderHook(t) PROVE PermitsExclusive'
  <2>1. CASE HooksShareHead /\ Conflicts("read", First(t)) = {}
    <3>1. live' = live \cup {Permit(t, "rhook", j[t], "read", First(t))}
      BY <1>4, <2>1 DEF ReaderHook
    <3> QED BY <3>1, <2>1, GrantExclusive DEF Permit
  <2>2. CASE ~(HooksShareHead /\ Conflicts("read", First(t)) = {})
    <3>1. live' \subseteq live
      BY <1>4, <2>2 DEF ReaderHook, Finish
    <3> QED BY <3>1, DropExclusive
  <2> QED BY <2>1, <2>2
<1>5. ASSUME NEW t \in Threads, ReadZipper(t) PROVE PermitsExclusive'
  <2>1. CASE Conflicts("read", First(t)) = {} /\ j[t] = 1
    <3>1. live' = live \cup {Permit(t, "rz", 1, "read", First(t))}
      BY <1>5, <2>1 DEF ReadZipper
    <3> QED BY <3>1, <2>1, GrantExclusive DEF Permit
  <2>2. CASE ~(Conflicts("read", First(t)) = {} /\ j[t] = 1)
    <3>1. live' \subseteq live
      BY <1>5, <2>2 DEF ReadZipper, Finish
    <3> QED BY <3>1, DropExclusive
  <2> QED BY <2>1, <2>2
<1>6. ASSUME NEW t \in Threads, Return(t) \/ Load(t) PROVE PermitsExclusive'
  <2>1. live' \subseteq live
    BY <1>6 DEF Return, Load, Finish
  <2> QED BY <2>1, DropExclusive
<1>7. CASE UNCHANGED vars
  BY <1>7 DEF vars, PermitsExclusive
<1> QED BY <1>1, <1>2, <1>3, <1>4, <1>5, <1>6, <1>7 DEF Next, Step


\* A thread's held cursors survive a step of another thread that does not
\* drop them.
LEMMA OtherHeld ==
    ASSUME NEW u \in Threads, Held(u),
           pc'[u] = pc[u], job'[u] = job[u], j'[u] = j[u],
           \A x \in live : x.t = u => x \in live'
    PROVE  Held(u)'
BY DEF Held, WzPermit, RzPermit, Permit, First

\* The frame of a step of thread t, seen from another thread u.
Frame(t) ==
    \A u \in Threads \ {t} :
        /\ pc'[u] = pc[u] /\ job'[u] = job[u] /\ j'[u] = j[u]
        /\ \A x \in live : x.t = u => x \in live'

(* Every pass holds the cursors of the templates it has passed and,      *)
(* once its first pattern is past, its primary read cursor.              *)
LEMMA HeldStep == IInv /\ [Next]_vars => AllHeld'
<1> SUFFICES ASSUME IInv, [Next]_vars PROVE AllHeld'
  OBVIOUS
<1> USE DEF IInv
<1>0. ASSUME NEW t \in Threads, Frame(t), Held(t)'
      PROVE  AllHeld'
  BY <1>0, OtherHeld DEF AllHeld, Frame
<1>1. ASSUME NEW t \in Threads, Start(t) PROVE AllHeld'
  <2>1. Frame(t)
    BY <1>1 DEF Start, Frame, TypeOK
  <2>2. PICK jb \in Jobs :
          /\ job' = [job EXCEPT ![t] = jb]
          /\ pc' = [pc EXCEPT ![t] = IF jb.tpl # <<>> THEN "whook" ELSE "rhook"]
    BY <1>1 DEF Start
  <2>3. jb.tpl = <<>> => Len(jb.tpl) = 0
    BY EmptySeq
  <2>4. Held(t)'
    BY <1>1, <2>2, <2>3 DEF Start, Held, TypeOK
  <2> QED BY <2>1, <2>4, <1>0
<1>2. ASSUME NEW t \in Threads, WriterHook(t) PROVE AllHeld'
  <2>1. live \subseteq live'
    BY <1>2 DEF WriterHook
  <2>2. Frame(t)
    BY <1>2, <2>1 DEF WriterHook, Frame, TypeOK
  <2>3. Held(t)'
    BY <1>2, <2>1 DEF WriterHook, Held, AllHeld, TypeOK, WzPermit, RzPermit, Permit
  <2> QED BY <2>2, <2>3, <1>0
<1>3. ASSUME NEW t \in Threads,
             live' = {x \in live : x.t # t}, pc' = [pc EXCEPT ![t] = "idle"],
             job' = job, \A u \in Threads \ {t} : j'[u] = j[u]
      PROVE  AllHeld'
  <2>1. Frame(t)
    BY <1>3 DEF Frame, TypeOK
  <2>2. Held(t)'
    BY <1>3 DEF Held, TypeOK
  <2> QED BY <2>1, <2>2, <1>0
<1>4. ASSUME NEW t \in Threads, WriteZipper(t) PROVE AllHeld'
  <2>1. CASE hk[t] /\ Conflicts("write", Tpl(t)) = {}
    <3>1. /\ live' = live \cup {WzPermit(t, j[t])}
          /\ pc' = [pc EXCEPT ![t] = IF j[t] < Len(job[t].tpl) THEN "whook" ELSE AfterTemplates(t)]
          /\ j' = [j EXCEPT ![t] = IF j[t] < Len(job[t].tpl) THEN @ + 1 ELSE 1]
          /\ job' = job
      BY <1>4, <2>1 DEF WriteZipper, WzPermit, Tpl
    <3>2. Frame(t)
      BY <3>1 DEF Frame, TypeOK
    <3>3. j[t] \in Nat \ {0} /\ j[t] <= Len(job[t].tpl) /\ pc[t] = "wzip"
      BY <1>4 DEF WriteZipper, TypeOK
    <3>4. \A i \in 1..(j[t] - 1) : WzPermit(t, i) \in live
      BY <3>3 DEF Held, AllHeld
    <3>5. \A i \in 1..j[t] : WzPermit(t, i) \in live'
      BY <3>1, <3>3, <3>4
    <3>6. AfterTemplates(t) \in {"rhook", "load"}
      BY DEF AfterTemplates
    <3>7. Held(t)'
      BY <3>1, <3>3, <3>5, <3>6 DEF Held, TypeOK, WzPermit, RzPermit
    <3> QED BY <3>2, <3>7, <1>0
  <2>2. CASE ~hk[t]
    <3>1. /\ live' = {x \in live : x.t # t} /\ pc' = [pc EXCEPT ![t] = "idle"]
          /\ job' = job /\ \A u \in Threads \ {t} : j'[u] = j[u]
      BY <1>4, <2>2 DEF WriteZipper, Finish, TypeOK
    <3> QED BY <3>1, <1>3
  <2>3. CASE hk[t] /\ Conflicts("write", Tpl(t)) # {}
    <3>1. /\ live' = {x \in live : x.t # t} /\ pc' = [pc EXCEPT ![t] = "idle"]
          /\ job' = job /\ \A u \in Threads \ {t} : j'[u] = j[u]
      BY <1>4, <2>3 DEF WriteZipper, Finish, TypeOK
    <3> QED BY <3>1, <1>3
  <2> QED BY <2>1, <2>2, <2>3
<1>5. ASSUME NEW t \in Threads, ReaderHook(t) PROVE AllHeld'
  <2>1. CASE HooksShareHead /\ Conflicts("read", First(t)) # {}
    <3>1. /\ live' = {x \in live : x.t # t} /\ pc' = [pc EXCEPT ![t] = "idle"]
          /\ job' = job /\ \A u \in Threads \ {t} : j'[u] = j[u]
      BY <1>5, <2>1 DEF ReaderHook, Finish, TypeOK
    <3> QED BY <3>1, <1>3
  <2>2. CASE ~(HooksShareHead /\ Conflicts("read", First(t)) # {})
    <3>1. /\ live \subseteq live'
          /\ pc' = [pc EXCEPT ![t] = "rzip"]
          /\ UNCHANGED <<j, job>>
      BY <1>5, <2>2 DEF ReaderHook
    <3>2. Frame(t)
      BY <3>1 DEF Frame, TypeOK
    <3>3. Held(t)'
      BY <1>5, <3>1 DEF ReaderHook, Held, AllHeld, TypeOK, WzPermit, RzPermit, Permit, First
    <3> QED BY <3>2, <3>3, <1>0
  <2> QED BY <2>1, <2>2
<1>6. ASSUME NEW t \in Threads, ReadZipper(t) PROVE AllHeld'
  <2>1. CASE Conflicts("read", First(t)) # {}
    <3>1. /\ live' = {x \in live : x.t # t} /\ pc' = [pc EXCEPT ![t] = "idle"]
          /\ job' = job /\ \A u \in Threads \ {t} : j'[u] = j[u]
      BY <1>6, <2>1 DEF ReadZipper, Finish, TypeOK
    <3> QED BY <3>1, <1>3
  <2>2. CASE Conflicts("read", First(t)) = {}
    <3>1. /\ live' = IF j[t] = 1 THEN live \cup {RzPermit(t)} ELSE live
          /\ pc' = [pc EXCEPT ![t] = IF j[t] < Len(job[t].pat) THEN "rhook" ELSE "run"]
          /\ j' = [j EXCEPT ![t] = IF j[t] < Len(job[t].pat) THEN @ + 1 ELSE @]
          /\ job' = job
      BY <1>6, <2>2 DEF ReadZipper, RzPermit
    <3>2. Frame(t)
      BY <3>1 DEF Frame, TypeOK
    <3>3. j[t] \in Nat \ {0} /\ pc[t] = "rzip"
      BY <1>6 DEF ReadZipper, TypeOK
    <3>4. RzPermit(t) \in live'
      BY <3>1, <3>3 DEF Held, AllHeld
    <3>5. \A i \in 1..Len(job[t].tpl) : WzPermit(t, i) \in live'
      BY <3>1, <3>3 DEF Held, AllHeld
    <3>6. Held(t)'
      BY <3>1, <3>3, <3>4, <3>5 DEF Held, TypeOK, WzPermit, RzPermit, Permit, First
    <3> QED BY <3>2, <3>6, <1>0
  <2> QED BY <2>1, <2>2
<1>7. ASSUME NEW t \in Threads, Run(t) PROVE AllHeld'
  <2>1. Frame(t)
    BY <1>7 DEF Run, Frame, TypeOK
  <2>2. Held(t)'
    BY <1>7 DEF Run, Held, TypeOK
  <2> QED BY <2>1, <2>2, <1>0
<1>8. ASSUME NEW t \in Threads, Return(t) \/ Load(t) PROVE AllHeld'
  <2>1. /\ live' = {x \in live : x.t # t} /\ pc' = [pc EXCEPT ![t] = "idle"]
        /\ job' = job /\ j' = j
    BY <1>8 DEF Return, Load, Finish
  <2> QED BY <2>1, <1>3
<1>9. CASE UNCHANGED vars
  BY <1>9 DEF vars, AllHeld, Held, WzPermit, RzPermit, Permit, First
<1> QED BY <1>1, <1>2, <1>4, <1>5, <1>6, <1>7, <1>8, <1>9 DEF Next, Step

LEMMA IInvInductive == Spec => []IInv
<1>1. Init => IInv
  BY TypeInit DEF Init, IInv, PermitsExclusive, AllHeld, Held
<1>2. IInv /\ [Next]_vars => IInv'
  BY TypeStep, ExclusiveStep, HeldStep DEF IInv
<1> QED BY <1>1, <1>2, PTL DEF Spec

\* the permits IInv keeps give isolation in every state
LEMMA IsolatedByPermits == IInv => WritesIsolated
<1> SUFFICES ASSUME IInv, NEW t \in Threads, NEW u \in Threads, t # u,
                    NEW w \in Writes(u), NEW q \in Reads(t) \cup Writes(t)
             PROVE  ~Overlap(w, q)
  BY DEF WritesIsolated
<1>1. PICK x \in live : x.t = u /\ x.k = "write" /\ x.p = w
  BY DEF IInv, AllHeld, Held, Writes, WzPermit, Permit
<1>2. PICK y \in live : y.t = t /\ y.p = q
  BY DEF IInv, AllHeld, Held, Writes, Reads, WzPermit, RzPermit, Permit
<1> QED BY <1>1, <1>2 DEF IInv, PermitsExclusive

(* Concurrent passes are isolated for every number of threads, prefixes *)
(* and jobs: while one pass writes under its template prefixes no other  *)
(* pass reads or writes an overlapping prefix (see WritesIsolated).      *)
THEOREM Isolation == Spec => []WritesIsolated
BY IsolatedByPermits, IInvInductive, PTL
-----------------------------------------------------------------------------
(* DefaultSpace refuses every writing pass.  With HooksShareHead the     *)
(* permit writer_hook registers for a template stays live while the same *)
(* pass asks root() for its write zipper at that very prefix.            *)

\* every prefix overlaps itself
LEMMA SelfOverlap ==
    ASSUME NEW p \in Paths
    PROVE  Overlap(p, p)
<1>1. p \in Seq(Nat)
  BY PathsAssumption
<1>2. SubSeq(p, 1, Len(p)) = p /\ Len(p) \in Nat
  BY <1>1, SubSeqFull, LenProperties
<1> QED BY <1>2 DEF Overlap, IsPre

\* a pass that is past its template loop has no template; a pass about to
\* open its write zipper with a granted hook holds that hook's permit
Blocked(t) == pc[t] \in {"rhook", "rzip", "run", "fin", "load"} => job[t].tpl = <<>>
OwnHook(t) == pc[t] = "wzip" /\ hk[t] => Permit(t, "whook", j[t], "write", Tpl(t)) \in live

\* The inductive invariant: SharedHeadBlocksWriters is not preserved on its
\* own, since the step that refuses the zipper needs the hook's permit.
BInv == TypeOK /\ (HooksShareHead => \A t \in Threads : Blocked(t) /\ OwnHook(t))

\* A step of another thread leaves t's place, job, loop index, hook flag
\* and permits alone.
LEMMA BlockFrame ==
    ASSUME NEW t, Blocked(t), OwnHook(t),
           pc'[t] = pc[t], job'[t] = job[t], j'[t] = j[t], hk'[t] = hk[t],
           \A x \in live : x.t = t => x \in live'
    PROVE  Blocked(t)' /\ OwnHook(t)'
BY DEF Blocked, OwnHook, Tpl, Permit

LEMMA BlockStep == BInv /\ [Next]_vars => BInv'
<1> SUFFICES ASSUME TypeOK, HooksShareHead => \A t \in Threads : Blocked(t) /\ OwnHook(t),
                    [Next]_vars
             PROVE  BInv'
  BY DEF BInv
<1>0. TypeOK'
  BY TypeStep
<1> SUFFICES ASSUME HooksShareHead, NEW t \in Threads
             PROVE  Blocked(t)' /\ OwnHook(t)'
  BY <1>0 DEF BInv
<1>1. Blocked(t) /\ OwnHook(t)
  OBVIOUS
\* the frame of every action of a thread u other than t
<1>2. ASSUME NEW u \in Threads, u # t, Start(u) \/ Step(u)
      PROVE  /\ pc'[t] = pc[t] /\ job'[t] = job[t] /\ j'[t] = j[t] /\ hk'[t] = hk[t]
             /\ \A x \in live : x.t = t => x \in live'
  BY <1>2 DEF Start, Step, WriterHook, WriteZipper, ReaderHook, ReadZipper, Run, Return,
              Load, Finish, TypeOK
<1>3. ASSUME Start(t) PROVE Blocked(t)' /\ OwnHook(t)'
  BY <1>3 DEF Start, Blocked, OwnHook, TypeOK
<1>4. ASSUME WriterHook(t) PROVE Blocked(t)' /\ OwnHook(t)'
  BY <1>4 DEF WriterHook, Blocked, OwnHook, TypeOK, Tpl
<1>5. ASSUME WriteZipper(t) PROVE Blocked(t)' /\ OwnHook(t)'
  <2>1. pc[t] = "wzip"
    BY <1>5 DEF WriteZipper
  <2>2. CASE ~hk[t]
    <3>1. Finish(t, "hook", refusedBy[t])
      BY <1>5, <2>2 DEF WriteZipper
    <3> QED BY <3>1 DEF Finish, Blocked, OwnHook, TypeOK
  <2>3. CASE hk[t]
    <3>1. Permit(t, "whook", j[t], "write", Tpl(t)) \in live
      BY <1>1, <2>1, <2>3 DEF OwnHook
    <3>2. Tpl(t) \in Paths
      BY <2>1, CursorPaths
    <3>3. Permit(t, "whook", j[t], "write", Tpl(t)) \in Conflicts("write", Tpl(t))
      BY <3>1, <3>2, SelfOverlap DEF Conflicts, Permit
    <3>4. Finish(t, "conflict", {x.t : x \in Conflicts("write", Tpl(t))})
      BY <1>5, <2>3, <3>3 DEF WriteZipper
    <3> QED BY <3>4 DEF Finish, Blocked, OwnHook, TypeOK
  <2> QED BY <2>2, <2>3
<1>6. ASSUME ReaderHook(t) \/ ReadZipper(t) PROVE Blocked(t)' /\ OwnHook(t)'
  <2>1. pc[t] \in {"rhook", "rzip"} /\ job'[t] = job[t]
    BY <1>6 DEF ReaderHook, ReadZipper
  <2>2. job[t].tpl = <<>>
    BY <1>1, <2>1 DEF Blocked
  <2>3. pc'[t] \in {"rhook", "rzip", "run", "idle"}
    BY <1>6 DEF ReaderHook, ReadZipper, Finish, TypeOK
  <2> QED BY <2>1, <2>2, <2>3 DEF Blocked, OwnHook
<1>7. ASSUME Run(t) \/ Return(t) \/ Load(t) PROVE Blocked(t)' /\ OwnHook(t)'
  BY <1>1, <1>7 DEF Run, Return, Load, Finish, Blocked, OwnHook, TypeOK
<1>8. CASE UNCHANGED vars
  BY <1>1, <1>8 DEF vars, Blocked, OwnHook, Tpl, Permit
<1>9. ASSUME NEW u \in Threads, u # t, Start(u) \/ Step(u) PROVE Blocked(t)' /\ OwnHook(t)'
  BY <1>1, <1>2, <1>9, BlockFrame
<1> QED BY <1>3, <1>4, <1>5, <1>6, <1>7, <1>8, <1>9 DEF Next, Step

(* On DefaultSpace, for every number of threads, prefixes and jobs, no    *)
(* transform that writes and no load_sexpr ever reaches its engine run or *)
(* record loop (see SharedHeadBlocksWriters): finding (d) holds for every *)
(* instance, not only the one TLC explores.                               *)
THEOREM SelfRefusal == Spec => []SharedHeadBlocksWriters
<1>1. Init => BInv
  BY TypeInit DEF Init, BInv, Blocked, OwnHook
<1>2. BInv /\ [Next]_vars => BInv'
  BY BlockStep
<1>3. BInv => SharedHeadBlocksWriters
  BY DEF BInv, Blocked, SharedHeadBlocksWriters
<1> QED BY <1>1, <1>2, <1>3, PTL DEF Spec
====
