-------------------------- MODULE DriverRefinement --------------------------
(***************************************************************************)
(* Driver implements IsolatedPasses (IsolatedRefinement) for every set   *)
(* of threads, prefixes and jobs.  The mapping sends each driver pc to   *)
(* the phase of its pass (Phase); every driver step is an abstract step  *)
(* of the same thread or a stutter.  The one step that needs more than   *)
(* the shape of the actions is a pass's last cursor: that the pass is    *)
(* then compatible with every running pass is WritesIsolated after the   *)
(* step, which the inductive invariant IInv of DriverProofs provides.     *)
(***************************************************************************)
EXTENDS DriverProofs

\* only load_sexpr reaches its record loop, and it never reads the space
LoadKind ==
    \A t \in Threads :
        /\ pc[t] = "load" => job[t].kind = "load"
        /\ pc[t] \in {"rhook", "rzip", "run", "fin"} => job[t].kind # "load"

\* the abstract invariant on the mapped state: running passes are compatible
CompatibleRunning ==
    \A t, u \in Threads :
        t # u /\ Phase[pc[t]] = "active" /\ Phase[pc[u]] = "active" =>
            Atomic!Compatible(job[t], job[u])

LEMMA LoadKindStep == TypeOK /\ LoadKind /\ [Next]_vars => LoadKind'
<1> SUFFICES ASSUME TypeOK, LoadKind, [Next]_vars, NEW t \in Threads
             PROVE  /\ pc'[t] = "load" => job'[t].kind = "load"
                    /\ pc'[t] \in {"rhook", "rzip", "run", "fin"} => job'[t].kind # "load"
  BY DEF LoadKind
<1>1. ASSUME NEW u \in Threads, Start(u) \/ Step(u)
      PROVE  /\ pc'[t] = "load" => job'[t].kind = "load"
             /\ pc'[t] \in {"rhook", "rzip", "run", "fin"} => job'[t].kind # "load"
  <2>1. CASE u = t /\ Start(t)
    <3>1. PICK jb \in Jobs :
            /\ job' = [job EXCEPT ![t] = jb]
            /\ pc' = [pc EXCEPT ![t] = IF jb.tpl # <<>> THEN "whook" ELSE "rhook"]
      BY <2>1 DEF Start
    <3>2. jb.kind = "load" => jb.tpl # <<>>
      <4>1. Len(<<>>) = 0
        BY EmptySeq
      <4>2. jb.kind = "load" => Len(jb.tpl) = 1
        BY JobFacts
      <4> QED BY <4>1, <4>2
    <3> QED BY <3>1, <3>2 DEF TypeOK
  <2>3. CASE u = t /\ Step(t)
    BY <2>3 DEF Step, WriterHook, WriteZipper, ReaderHook, ReadZipper, Run,
                Return, Load, Finish, AfterTemplates, TypeOK, LoadKind
  <2>2. CASE u # t
    BY <1>1, <2>2 DEF Start, Step, WriterHook, WriteZipper, ReaderHook, ReadZipper, Run,
                      Return, Load, Finish, TypeOK, LoadKind
  <2> QED BY <1>1, <2>1, <2>2, <2>3
<1>2. CASE UNCHANGED vars
  BY <1>2 DEF vars, LoadKind
<1> QED BY <1>1, <1>2 DEF Next

\* the two Overlap operators are one
LEMMA OverlapSame ==
    ASSUME NEW p, NEW q PROVE Atomic!Overlap(p, q) = Overlap(p, q)
BY DEF Atomic!Overlap, Atomic!IsPre, Overlap, IsPre

\* the claims of a running pass are the prefixes its cursors cover
LEMMA ClaimsCovered ==
    ASSUME TypeOK, LoadKind, NEW t \in Threads, Phase[pc[t]] = "active"
    PROVE  /\ Atomic!Wr(job[t]) = Writes(t)
           /\ Atomic!Rd(job[t]) \subseteq Reads(t)
<1>1. pc[t] \in {"run", "load"}
  BY DEF TypeOK, Pcs, Phase
<1> QED BY <1>1 DEF LoadKind, Atomic!Wr, Atomic!Rd, Writes, Reads, First

LEMMA RunningCompatible ==
    TypeOK /\ LoadKind /\ WritesIsolated => CompatibleRunning
<1> SUFFICES ASSUME TypeOK, LoadKind, WritesIsolated, NEW t \in Threads, NEW u \in Threads,
                    t # u, Phase[pc[t]] = "active", Phase[pc[u]] = "active"
             PROVE  Atomic!Compatible(job[t], job[u])
  BY DEF CompatibleRunning
<1>1. /\ Atomic!Wr(job[t]) = Writes(t) /\ Atomic!Rd(job[t]) \subseteq Reads(t)
      /\ Atomic!Wr(job[u]) = Writes(u) /\ Atomic!Rd(job[u]) \subseteq Reads(u)
  BY ClaimsCovered
<1>2. \A w \in Writes(t), q \in Reads(u) \cup Writes(u) : ~Overlap(w, q)
  BY DEF WritesIsolated
<1>3. \A w \in Writes(u), q \in Reads(t) : ~Overlap(w, q)
  BY DEF WritesIsolated
<1> QED BY <1>1, <1>2, <1>3, OverlapSame DEF Atomic!Compatible
-----------------------------------------------------------------------------
\* the mapped phase of every thread
AP == [th \in Threads |-> Phase[pc[th]]]

\* a step that sets one thread's pc sets that thread's phase, and no other
LEMMA PhaseSet ==
    ASSUME TypeOK, NEW t \in Threads, NEW v \in Pcs, pc' = [pc EXCEPT ![t] = v]
    PROVE  AP' = [AP EXCEPT ![t] = Phase[v]]
BY DEF AP, TypeOK, Pcs, Phase

\* a pass refused at a hook or a cursor returns to idle with conflict or hook
LEMMA RefuseMaps ==
    ASSUME TypeOK, NEW t \in Threads, Phase[pc[t]] = "pending",
           NEW r \in {"conflict", "hook"}, NEW by, Finish(t, r, by), UNCHANGED job
    PROVE  Atomic!ARefuse(t)
<1>1. AP' = [AP EXCEPT ![t] = "idle"]
  BY PhaseSet DEF Finish, Pcs, Phase
<1> QED BY <1>1 DEF Atomic!ARefuse, AP, Finish

\* a step that keeps every phase, job and result is an abstract stutter
LEMMA StutterMaps ==
    ASSUME TypeOK, NEW t \in Threads, NEW v \in Pcs, pc' = [pc EXCEPT ![t] = v],
           Phase[v] = Phase[pc[t]], UNCHANGED <<job, res>>
    PROVE  UNCHANGED Atomic!avars
<1>1. AP' = AP
  BY PhaseSet DEF AP, TypeOK
<1> QED BY <1>1 DEF Atomic!avars, AP

\* a pass that takes its last cursor is compatible with every running pass
LEMMA ClaimMaps ==
    ASSUME TypeOK, CompatibleRunning', NEW t \in Threads, Phase[pc[t]] = "pending",
           NEW v \in {"run", "load"}, pc' = [pc EXCEPT ![t] = v], UNCHANGED <<job, res>>
    PROVE  Atomic!AClaim(t)
<1>1. AP' = [AP EXCEPT ![t] = "active"]
  BY PhaseSet DEF Pcs, Phase
<1>2. ASSUME NEW u \in Threads \ {t}, Phase[pc[u]] = "active"
      PROVE  Atomic!Compatible(job[t], job[u])
  <2>1. Phase[pc'[t]] = "active" /\ Phase[pc'[u]] = "active"
    BY <1>2 DEF TypeOK, Phase
  <2> QED BY <1>2, <2>1 DEF CompatibleRunning
<1> QED BY <1>1, <1>2 DEF Atomic!AClaim, AP

\* every driver step is a step of IsolatedPasses or leaves its state alone
LEMMA StepMaps ==
    TypeOK /\ LoadKind /\ CompatibleRunning' /\ [Next]_vars => [Atomic!ANext]_Atomic!avars
<1> SUFFICES ASSUME TypeOK, LoadKind, CompatibleRunning', [Next]_vars
             PROVE  [Atomic!ANext]_Atomic!avars
  OBVIOUS
<1> USE DEF Pcs, Phase
<1>1. ASSUME NEW t \in Threads, Start(t) PROVE Atomic!AStart(t)
  <2>1. PICK jb \in Jobs :
          /\ job' = [job EXCEPT ![t] = jb]
          /\ pc' = [pc EXCEPT ![t] = IF jb.tpl # <<>> THEN "whook" ELSE "rhook"]
    BY <1>1 DEF Start
  <2>2. AP' = [AP EXCEPT ![t] = "pending"]
    BY <2>1, PhaseSet
  <2>3. AP[t] = "idle" /\ UNCHANGED res
    BY <1>1 DEF Start, AP, TypeOK
  <2> QED BY <2>1, <2>2, <2>3 DEF Atomic!AStart, AP
<1>2. ASSUME NEW t \in Threads, WriterHook(t) PROVE UNCHANGED Atomic!avars
  <2>1. pc[t] = "whook" /\ pc' = [pc EXCEPT ![t] = "wzip"] /\ UNCHANGED <<job, res>>
    BY <1>2 DEF WriterHook
  <2>2. "wzip" \in Pcs /\ Phase["wzip"] = Phase[pc[t]]
    BY <2>1
  <2> QED BY <2>1, <2>2, StutterMaps
\* a refusal, an abstract step of t
<1>0. ASSUME NEW t \in Threads, pc[t] \in {"wzip", "rhook", "rzip"},
             NEW r \in {"conflict", "hook"}, NEW by, Finish(t, r, by), UNCHANGED job
      PROVE  [Atomic!ANext]_Atomic!avars
  <2>1. Atomic!ARefuse(t)
    BY <1>0, RefuseMaps
  <2> QED BY <2>1 DEF Atomic!ANext
<1>3. ASSUME NEW t \in Threads, WriteZipper(t) PROVE [Atomic!ANext]_Atomic!avars
  <2>0. pc[t] = "wzip" /\ UNCHANGED job
    BY <1>3 DEF WriteZipper
  <2>1. CASE ~hk[t]
    <3>1. Finish(t, "hook", refusedBy[t])
      BY <1>3, <2>1 DEF WriteZipper
    <3> QED BY <2>0, <3>1, <1>0
  <2>2. CASE hk[t] /\ Conflicts("write", Tpl(t)) # {}
    <3>1. Finish(t, "conflict", {x.t : x \in Conflicts("write", Tpl(t))})
      BY <1>3, <2>2 DEF WriteZipper
    <3> QED BY <2>0, <3>1, <1>0
  <2>3. CASE hk[t] /\ Conflicts("write", Tpl(t)) = {}
    <3>1. /\ pc' = [pc EXCEPT ![t] = IF j[t] < Len(job[t].tpl) THEN "whook" ELSE AfterTemplates(t)]
          /\ UNCHANGED <<job, res>>
      BY <1>3, <2>3 DEF WriteZipper
    <3>2. CASE j[t] < Len(job[t].tpl)
      <4>1. pc' = [pc EXCEPT ![t] = "whook"]
        BY <3>1, <3>2
      <4>2. "whook" \in Pcs /\ Phase["whook"] = Phase[pc[t]]
        BY <2>0
      <4> QED BY <2>0, <3>1, <4>1, <4>2, StutterMaps
    <3>3. CASE ~(j[t] < Len(job[t].tpl)) /\ job[t].kind # "load"
      <4>1. pc' = [pc EXCEPT ![t] = "rhook"]
        BY <3>1, <3>3 DEF AfterTemplates
      <4>2. "rhook" \in Pcs /\ Phase["rhook"] = Phase[pc[t]]
        BY <2>0
      <4> QED BY <2>0, <3>1, <4>1, <4>2, StutterMaps
    <3>4. CASE ~(j[t] < Len(job[t].tpl)) /\ job[t].kind = "load"
      <4>1. pc' = [pc EXCEPT ![t] = "load"]
        BY <3>1, <3>4 DEF AfterTemplates
      <4>2. Phase[pc[t]] = "pending" /\ "load" \in {"run", "load"}
        BY <2>0
      <4>3. Atomic!AClaim(t)
        BY <3>1, <4>1, <4>2, ClaimMaps
      <4> QED BY <4>3 DEF Atomic!ANext
    <3> QED BY <3>2, <3>3, <3>4
  <2> QED BY <2>1, <2>2, <2>3
<1>4. ASSUME NEW t \in Threads, ReaderHook(t) PROVE [Atomic!ANext]_Atomic!avars
  <2>0. pc[t] = "rhook" /\ UNCHANGED job
    BY <1>4 DEF ReaderHook
  <2>1. CASE HooksShareHead /\ Conflicts("read", First(t)) # {}
    <3>1. Finish(t, "hook", {x.t : x \in Conflicts("read", First(t))})
      BY <1>4, <2>1 DEF ReaderHook
    <3> QED BY <2>0, <3>1, <1>0
  <2>2. CASE ~(HooksShareHead /\ Conflicts("read", First(t)) # {})
    <3>1. pc' = [pc EXCEPT ![t] = "rzip"] /\ UNCHANGED res
      BY <1>4, <2>2 DEF ReaderHook
    <3>2. "rzip" \in Pcs /\ Phase["rzip"] = Phase[pc[t]]
      BY <2>0
    <3> QED BY <2>0, <3>1, <3>2, StutterMaps
  <2> QED BY <2>1, <2>2
<1>5. ASSUME NEW t \in Threads, ReadZipper(t) PROVE [Atomic!ANext]_Atomic!avars
  <2>0. pc[t] = "rzip" /\ UNCHANGED job
    BY <1>5 DEF ReadZipper
  <2>1. CASE Conflicts("read", First(t)) # {}
    <3>1. Finish(t, "conflict", {x.t : x \in Conflicts("read", First(t))})
      BY <1>5, <2>1 DEF ReadZipper
    <3> QED BY <2>0, <3>1, <1>0
  <2>2. CASE Conflicts("read", First(t)) = {} /\ j[t] < Len(job[t].pat)
    <3>1. pc' = [pc EXCEPT ![t] = "rhook"] /\ UNCHANGED res
      BY <1>5, <2>2 DEF ReadZipper
    <3>2. "rhook" \in Pcs /\ Phase["rhook"] = Phase[pc[t]]
      BY <2>0
    <3> QED BY <2>0, <3>1, <3>2, StutterMaps
  <2>3. CASE Conflicts("read", First(t)) = {} /\ ~(j[t] < Len(job[t].pat))
    <3>1. pc' = [pc EXCEPT ![t] = "run"] /\ UNCHANGED res
      BY <1>5, <2>3 DEF ReadZipper
    <3>2. Phase[pc[t]] = "pending" /\ "run" \in {"run", "load"}
      BY <2>0
    <3>3. Atomic!AClaim(t)
      BY <2>0, <3>1, <3>2, ClaimMaps
    <3> QED BY <3>3 DEF Atomic!ANext
  <2> QED BY <2>1, <2>2, <2>3
<1>6. ASSUME NEW t \in Threads, Run(t) PROVE [Atomic!ANext]_Atomic!avars
  <2>1. pc[t] = "run" /\ pc' = [pc EXCEPT ![t] = "fin"] /\ UNCHANGED <<job, res>>
    BY <1>6 DEF Run
  <2>2. AP' = [AP EXCEPT ![t] = "done"]
    BY <2>1, PhaseSet
  <2>3. AP[t] = "active" /\ job[t].kind # "load"
    BY <2>1 DEF AP, LoadKind
  <2>4. Atomic!AEffect(t)
    BY <2>1, <2>2, <2>3 DEF Atomic!AEffect, AP
  <2> QED BY <2>4 DEF Atomic!ANext
<1>7. ASSUME NEW t \in Threads, Return(t) \/ Load(t) PROVE [Atomic!ANext]_Atomic!avars
  <2>1. AP' = [AP EXCEPT ![t] = "idle"] /\ UNCHANGED job
    BY <1>7, PhaseSet DEF Return, Load, Finish
  <2>2. CASE Return(t)
    <3>1. /\ AP[t] = "done"
          /\ res' = [res EXCEPT ![t] = IF ret[t] = "null" THEN "ok" ELSE "io"]
      BY <2>2 DEF Return, Finish, AP
    <3>2. Atomic!AReturn(t)
      BY <2>1, <3>1 DEF Atomic!AReturn, AP
    <3> QED BY <3>2 DEF Atomic!ANext
  <2>3. CASE Load(t)
    <3>1. PICK r \in {"ok", "parse"} : Finish(t, r, {})
      BY <2>3 DEF Load
    <3>2. pc[t] = "load"
      BY <2>3 DEF Load
    <3>3. /\ AP[t] = "active" /\ job[t].kind = "load"
          /\ res' = [res EXCEPT ![t] = r]
      BY <3>1, <3>2 DEF Finish, AP, LoadKind
    <3>4. Atomic!AReturn(t)
      BY <2>1, <3>3 DEF Atomic!AReturn, AP
    <3> QED BY <3>4 DEF Atomic!ANext
  <2> QED BY <1>7, <2>2, <2>3
<1>8. CASE UNCHANGED vars
  BY <1>8 DEF vars, Atomic!avars
<1> QED BY <1>1, <1>2, <1>3, <1>4, <1>5, <1>6, <1>7, <1>8 DEF Next, Step, Atomic!ANext

(* The drivers implement IsolatedPasses for every number of threads,     *)
(* prefixes and jobs (see IsolatedRefinement): acquiring a pass's        *)
(* cursors one at a time, with an early return on the first refusal, is *)
(* an atomic claim of all its prefixes against the running passes.       *)
THEOREM Refinement == Spec => IsolatedRefinement
<1>1. Init => Atomic!AInit
  <2>1. (CHOOSE jb \in Jobs : TRUE) \in Jobs
    BY ConstAssumption
  <2> QED BY <2>1 DEF Init, Atomic!AInit, Phase
<1>2. Init => TypeOK /\ LoadKind
  BY TypeInit DEF Init, LoadKind
<1>3. TypeOK /\ LoadKind /\ [Next]_vars => (TypeOK /\ LoadKind)'
  BY TypeStep, LoadKindStep
<1>4. IInv /\ LoadKind => CompatibleRunning
  BY IsolatedByPermits, RunningCompatible DEF IInv
<1>5. Spec => [](TypeOK /\ LoadKind)
  BY <1>2, <1>3, PTL DEF Spec
<1>6. Spec => []CompatibleRunning
  BY <1>4, <1>5, IInvInductive, PTL
<1>7. TypeOK /\ LoadKind /\ CompatibleRunning' /\ [Next]_vars => [Atomic!ANext]_Atomic!avars
  BY StepMaps
<1> QED BY <1>1, <1>5, <1>6, <1>7, PTL DEF Spec, IsolatedRefinement, Atomic!ASpec
====
