------------------------ MODULE ScaleDownGuardProofs ------------------------
(***************************************************************************)
(* Proofs about the /scaledownz guard, for every set of pods, ports,       *)
(* replies and workers and every bound: its rules, its type, the counter   *)
(* of errored rounds, and that its flusher keeps to what one KSvc sees of  *)
(* the Manager.                                                            *)
(***************************************************************************)
EXTENDS ScaleDownGuard, TLAPS

\* While no API call has failed, the status in memory starts from the stored
\* one, which no one else writes, and its counter follows the rounds.
CountInv ==
  /\ pc = "idle" => Errors(probe) = streak
  /\ pc # "idle" => base = probe /\ Errors(mem) = streak
  /\ pc = "guard" => mem = probe
  /\ pc # "idle" /\ mem = None => probe = None

-----------------------------------------------------------------------------
(* The rules.                                                              *)

LEMMA VoteType ==
  ASSUME NEW r PROVE Vote(r) \in {"AllowZero", "Block", "NoPods"}
BY DEF Vote

LEMMA ErrorsType ==
  ASSUME NEW p \in ProbeStatus \cup {None} PROVE Errors(p) \in Nat
BY GuardAssumption DEF Errors, ProbeStatus

LEMMA MergeType ==
  ASSUME NEW prev \in ProbeStatus \cup {None}, NEW o \in {"AllowZero", "Block", "NoPods"},
         NEW e \in BOOLEAN
  PROVE  /\ mergeProbeStatus(prev, o, e) \in ProbeStatus
         /\ Errors(mergeProbeStatus(prev, o, e)) = IF e THEN Errors(prev) + 1 ELSE 0
<1>1. mergeProbeStatus(prev, o, e) \in ProbeStatus
  <2>1. (IF ~e THEN 0 ELSE IF prev = None THEN 1 ELSE prev.errors + 1) \in Nat
    BY GuardAssumption DEF ProbeStatus
  <2>2. QED
    BY <2>1 DEF mergeProbeStatus, ProbeStatus
<1>2. mergeProbeStatus(prev, o, e) # None
  BY <1>1, GuardAssumption
<1>3. QED
  BY <1>1, <1>2 DEF mergeProbeStatus, Errors

LEMMA BumpType ==
  ASSUME NEW prev \in ProbeStatus \cup {None}
  PROVE  /\ bumpProbeError(prev) \in ProbeStatus
         /\ Errors(bumpProbeError(prev)) = Errors(prev) + 1
<1>1. bumpProbeError(prev) \in ProbeStatus
  <2>1. (IF prev = None THEN 1 ELSE prev.errors + 1) \in Nat
    BY GuardAssumption DEF ProbeStatus
  <2>2. QED
    BY <2>1 DEF bumpProbeError, ProbeStatus
<1>2. bumpProbeError(prev) # None
  BY <1>1, GuardAssumption
<1>3. QED
  BY <1>1, <1>2 DEF bumpProbeError, Errors

LEMMA EffectiveMinScaleType ==
  ASSUME NEW m \in MinScales \cup {None}, NEW p
  PROVE  EffectiveMinScale(m, p) \in Nat
BY GuardAssumption DEF EffectiveMinScale

\* Scaling to zero is unanimous: a guarded KSvc whose last round reached at
\* least one pod gets min-scale 0 only if every pod it reached allowed it.  An
\* error, a missing port and an unclear answer all count as a refusal.
THEOREM ZeroNeedsUnanimity ==
  ASSUME NEW m \in MinScales \cup {None}, NEW prev \in ProbeStatus \cup {None},
         NEW r, DOMAIN r # {},
         EffectiveMinScale(m, mergeProbeStatus(prev, Vote(r), HasErrors(r))) = 0
  PROVE  \A p \in DOMAIN r : r[p] = "allowed"
<1> SUFFICES ASSUME NEW p \in DOMAIN r, r[p] # "allowed"
             PROVE  FALSE
  OBVIOUS
<1>1. Vote(r) = "Block"
  BY DEF Vote
<1>2. mergeProbeStatus(prev, Vote(r), HasErrors(r)).result = "false"
  BY <1>1 DEF mergeProbeStatus
<1>3. mergeProbeStatus(prev, Vote(r), HasErrors(r)) # None
  <2>1. HasErrors(r) \in BOOLEAN
    BY DEF HasErrors
  <2>2. QED
    BY <2>1, VoteType, MergeType, GuardAssumption
<1>4. guardBlocked(mergeProbeStatus(prev, Vote(r), HasErrors(r)))
  BY <1>2, <1>3 DEF guardBlocked
<1>5. QED
  BY <1>4, GuardAssumption DEF EffectiveMinScale

-----------------------------------------------------------------------------
(* Type correctness.                                                       *)

LEMMA DispatchType ==
  ASSUME TypeOK, NEW d \in {0, 1}, dispatch(d)
  PROVE  job' \in [Workers -> Job \cup {None}]
BY DEF dispatch, TypeOK, Job

LEMMA EnqueueType ==
  ASSUME TypeOK, NEW d \in {0, 1}, enqueueMinScale(d)
  PROVE  pending' \in {None, 0} /\ job' \in [Workers -> Job \cup {None}]
<1>1. CASE d = 1
  BY <1>1, DispatchType DEF enqueueMinScale
<1>2. CASE d = 0
  BY <1>2 DEF enqueueMinScale, TypeOK
<1>3. QED
  BY <1>1, <1>2

LEMMA RoundFacts ==
  ASSUME TypeOK, runScaleDownGuard
  PROVE  /\ verdict' \in {"AllowZero", "Block", "NoPods"}
         /\ mem' \in ProbeStatus
         /\ Errors(mem)' = IF HasErrors(probeAll) THEN Errors(mem) + 1 ELSE 0
         /\ streak' = IF HasErrors(probeAll) THEN streak + 1 ELSE 0
         /\ HasErrors(probeAll) \in BOOLEAN
<1>1. HasErrors(probeAll) \in BOOLEAN /\ verdict' \in {"AllowZero", "Block", "NoPods"}
  BY VoteType DEF HasErrors, runScaleDownGuard
<1>2. mem \in ProbeStatus \cup {None}
  BY DEF TypeOK
<1>3. mem' = mergeProbeStatus(mem, verdict', HasErrors(probeAll))
  BY DEF runScaleDownGuard
<1>4. mem' \in ProbeStatus /\ Errors(mem') = IF HasErrors(probeAll) THEN Errors(mem) + 1 ELSE 0
  BY <1>1, <1>2, <1>3, MergeType
<1>5. QED
  BY <1>1, <1>4 DEF runScaleDownGuard, Errors

LEMMA MergePatchedType ==
  ASSUME TypeOK
  PROVE  /\ MergePatched \in ProbeStatus \cup {None}
         /\ mem # None => MergePatched \in ProbeStatus
<1>1. Errors(base) \in Nat /\ Errors(mem) \in Nat /\ Errors(probe) \in Nat
  BY ErrorsType DEF TypeOK
<1>2. CASE mem = None
  BY <1>2 DEF MergePatched, TypeOK
<1>3. CASE mem # None
  <2>1. mem.result \in {"true", "false", "unknown"}
    BY <1>3 DEF TypeOK, ProbeStatus
  <2>2. probe # None => probe.result \in {"true", "false", "unknown"}
    BY DEF TypeOK, ProbeStatus
  <2>3. QED
    BY <1>1, <1>3, <2>1, <2>2 DEF MergePatched, ProbeStatus
<1>4. QED
  BY <1>2, <1>3

\* The type invariant of the guard holds in every reachable state.
THEOREM GuardTypeCorrect == Spec => []TypeOK
<1>1. Init => TypeOK
  BY EffectiveMinScaleType, GuardAssumption DEF Init, TypeOK
<1>2. TypeOK /\ [Next]_vars => TypeOK'
  <2> SUFFICES ASSUME TypeOK, [Next]_vars
               PROVE  TypeOK'
    OBVIOUS
  <2> USE GuardAssumption DEF passVars, flushVars, ghosts
  <2>1. CASE Reconcile
    BY <2>1 DEF Reconcile, TypeOK, ViewProbe
  <2>2. CASE guardSkipped
    BY <2>2 DEF guardSkipped, TypeOK
  <2>3. CASE runScaleDownGuard
    <3>1. /\ verdict' \in {"AllowZero", "Block", "NoPods"} /\ mem' \in ProbeStatus
          /\ streak' \in Nat
      BY <2>3, RoundFacts DEF TypeOK
    <3>2. pending' \in {None, 0} /\ job' \in [Workers -> Job \cup {None}]
      BY <2>3, EnqueueType, Zenon DEF runScaleDownGuard
    <3>3. QED
      BY <2>3, <3>1, <3>2 DEF runScaleDownGuard, TypeOK
  <2>4. CASE guardListFails
    <3>1. mem' \in ProbeStatus
      BY <2>4, BumpType DEF guardListFails, TypeOK
    <3>2. QED
      BY <2>4, <3>1 DEF guardListFails, Fault, TypeOK
  <2>5. CASE applyKSvc
    <3>1. EffectiveMinScale(memSpec, mem) \in Nat
      BY EffectiveMinScaleType DEF TypeOK
    <3>2. QED
      BY <2>5, <3>1 DEF applyKSvc, Fault, TypeOK
  <2>6. CASE patchStatus
    BY <2>6, MergePatchedType DEF patchStatus, Fault, TypeOK
  <2>7. CASE Crash
    BY <2>7 DEF Crash, Fault, TypeOK
  <2>8. CASE Sync
    BY <2>8 DEF Sync, TypeOK
  <2>9. CASE Change
    <3>1. pods' \in [Pods -> [port : Ports, reply : Replies] \cup {None}]
      <4> DEFINE R == [port : Ports, reply : Replies] \cup {None}
      <4>1. \/ pods' = pods
            \/ \E p \in Pods, r \in R : pods' = [pods EXCEPT ![p] = r]
        BY <2>9, Zenon DEF Change
      <4>2. pods \in [Pods -> R]
        BY DEF TypeOK
      <4> HIDE DEF R
      <4>3. pods' \in [Pods -> R]
        BY <4>1, <4>2
      <4>4. QED
        BY <4>3 DEF R
    <3>2. spec' \in MinScales /\ ready' \in BOOLEAN
      BY <2>9, Zenon DEF Change, TypeOK
    <3>3. ops' \in 0..MaxOps
      BY <2>9 DEF Change, TypeOK
    <3>4. QED
      BY <2>9, <3>1, <3>2, <3>3 DEF Change, TypeOK
  <2>10. CASE flushSlow
    <3>1. job' \in [Workers -> Job \cup {None}]
      BY <2>10, DispatchType, Zenon DEF flushSlow, TypeOK
    <3>2. QED
      BY <2>10, <3>1 DEF flushSlow, TypeOK
  <2>11. ASSUME NEW w \in Workers, PatchReads(w)
         PROVE  TypeOK'
    BY <2>11 DEF PatchReads, Done, TypeOK, Job
  <2>12. ASSUME NEW w \in Workers, PatchWrites(w)
         PROVE  TypeOK'
    BY <2>12 DEF PatchWrites, Done, Fault, TypeOK, Job
  <2>13. CASE UNCHANGED vars
    BY <2>13 DEF vars, TypeOK
  <2>14. QED
    BY <2>1, <2>2, <2>3, <2>4, <2>5, <2>6, <2>7, <2>8, <2>9, <2>10, <2>11, <2>12,
       <2>13 DEF Next, Pass
<1>3. QED
  BY <1>1, <1>2, PTL DEF Spec

-----------------------------------------------------------------------------
(* The counter.                                                            *)

\* A step that fails no call keeps faults at 0 and is not one of the steps
\* that stand for a failure.
LEMMA NoFault ==
  ASSUME TypeOK, [Next]_vars, faults' = 0
  PROVE  faults = 0 /\ ~Fault
<1>1. ~Fault
  BY DEF Fault, TypeOK
<1>2. QED
  BY <1>1 DEF Next, Pass, Reconcile, guardSkipped, runScaleDownGuard, guardListFails,
              applyKSvc, patchStatus, Crash, Sync, Change, flushSlow, PatchReads,
              PatchWrites, vars

LEMMA CountInvStep ==
  ASSUME "cr" \notin Lagging, TypeOK, CountInv, [Next]_vars, ~Fault
  PROVE  CountInv'
<1> USE DEF passVars, ghosts
<1>1. CASE UNCHANGED <<pc, base, mem, probe, streak>>
  BY <1>1 DEF CountInv, Errors
<1>2. CASE Reconcile
  BY <1>2 DEF Reconcile, ViewProbe, CountInv, Errors
<1>3. CASE guardSkipped
  BY <1>3 DEF guardSkipped, CountInv, Errors
<1>4. CASE runScaleDownGuard
  <2>1. /\ pc = "guard" /\ pc' = "apply" /\ UNCHANGED <<base, probe>>
    BY <1>4 DEF runScaleDownGuard
  <2>2. Errors(mem)' = streak'
    BY <1>4, <2>1, RoundFacts DEF CountInv
  <2>3. mem' # None
    BY <1>4, RoundFacts, GuardAssumption
  <2>4. QED
    BY <2>1, <2>2, <2>3 DEF CountInv
<1>5. CASE applyKSvc
  BY <1>5 DEF applyKSvc, CountInv, Errors
<1>6. CASE patchStatus
  <2>1. /\ pc # "idle" /\ pc' = "idle" /\ UNCHANGED streak
        /\ probe' = IF mem = base THEN probe ELSE MergePatched
    BY <1>6 DEF patchStatus
  <2>2. base = probe /\ Errors(mem) = streak /\ (mem = None => probe = None)
    BY <2>1 DEF CountInv
  <2>3. Errors(probe') = streak
    <3>1. CASE mem = base
      BY <2>1, <2>2, <3>1
    <3>2. CASE mem # base
      <4>1. mem # None /\ probe' = MergePatched
        BY <2>1, <2>2, <3>2
      <4>2. probe'.errors = Errors(mem) /\ probe' # None
        <5>1. probe' = [result |-> IF base # None /\ base.result = mem.result /\ probe # None
                                   THEN probe.result ELSE mem.result,
                        errors |-> IF Errors(base) = Errors(mem) THEN Errors(probe)
                                   ELSE Errors(mem)]
          BY <4>1 DEF MergePatched
        <5>2. probe'.errors = Errors(mem)
          BY <5>1, <2>2
        <5>3. QED
          BY <4>1, <5>1, <5>2, MergePatchedType, GuardAssumption
      <4>3. QED
        BY <2>2, <4>2 DEF Errors
    <3>3. QED
      BY <3>1, <3>2
  <2>4. QED
    BY <2>1, <2>3 DEF CountInv, Errors
<1>7. QED
  BY <1>1, <1>2, <1>3, <1>4, <1>5, <1>6
     DEF Next, Pass, guardListFails, Crash, Sync, Change, flushSlow, PatchReads,
         PatchWrites, vars

\* When the CR is read uncached or its cache is up to date, and no call has
\* failed, the stored counter of errored rounds is exact between two passes,
\* although only the fields that differ from the base are sent.
THEOREM CountExact ==
  ASSUME "cr" \notin Lagging
  PROVE  Spec => [](faults = 0 => ErrorCountExact)
<1> DEFINE Inv == faults = 0 => CountInv
<1>1. Init => Inv
  BY DEF Init, CountInv, Errors
<1>2. TypeOK /\ Inv /\ [Next]_vars => Inv'
  BY CountInvStep, NoFault
<1>3. Inv => (faults = 0 => ErrorCountExact)
  BY DEF CountInv, ErrorCountExact
<1>4. QED
  BY <1>1, <1>2, <1>3, GuardTypeCorrect, PTL DEF Spec
-----------------------------------------------------------------------------
(* The guard and the flusher.                                              *)

\* A decision that goes out takes a free worker.
LEMMA DispatchJoins ==
  ASSUME TypeOK, NEW d \in {0, 1}, dispatch(d)
  PROVE  \E w \in Workers \ (Carriers(0) \cup Carriers(1)) :
           /\ Carriers(d)' = Carriers(d) \cup {w}
           /\ Carriers(1 - d)' = Carriers(1 - d)
<1>1. PICK w \in Workers :
        job[w] = None /\ job' = [job EXCEPT ![w] = [val |-> d, step |-> "queued"]]
  BY Zenon DEF dispatch
<1>2. \A v \in Workers : job'[v] = IF v = w THEN [val |-> d, step |-> "queued"] ELSE job[v]
  BY <1>1 DEF TypeOK
<1>3. [val |-> d, step |-> "queued"] \in Job
  BY DEF Job
<1>4. [val |-> d, step |-> "queued"] # None
  BY <1>3, GuardAssumption
<1>5. w \notin Carriers(0) \cup Carriers(1)
  BY <1>1 DEF Carriers
<1>6. Carriers(d)' = Carriers(d) \cup {w}
  BY <1>1, <1>2, <1>4 DEF Carriers
<1>7. Carriers(1 - d)' = Carriers(1 - d)
  BY <1>1, <1>2, <1>4 DEF Carriers
<1>8. QED
  BY <1>5, <1>6, <1>7

LEMMA DoneLeaves ==
  ASSUME TypeOK, NEW w \in Workers, job[w] # None, Done(w)
  PROVE  /\ Carriers(0)' = Carriers(0) \ {w} /\ Carriers(1)' = Carriers(1) \ {w}
         /\ w \in Carriers(0) \cup Carriers(1)
         /\ job[w].val = IF w \in Carriers(1) THEN 1 ELSE 0
         /\ pending' = pending
<1>1. job[w] \in Job /\ pending' = pending
  BY DEF TypeOK, Done
<1>2. job[w].val \in {0, 1}
  BY <1>1 DEF Job
<1>3. \A v \in Workers : job'[v] = IF v = w THEN None ELSE job[v]
  BY DEF Done, TypeOK
<1>4. QED
  BY <1>1, <1>2, <1>3 DEF Carriers

LEMMA LaneStep ==
  ASSUME TypeOK, [Next]_vars
  PROVE  [Lane!Next]_(Lane!vars)
<1> USE DEF passVars, flushVars, ghosts
<1>1. CASE \/ Reconcile \/ guardSkipped \/ guardListFails \/ applyKSvc \/ patchStatus
           \/ Sync \/ Change \/ UNCHANGED vars
  <2>1. UNCHANGED <<pending, job>>
    BY <1>1, Zenon
       DEF Reconcile, guardSkipped, guardListFails, applyKSvc, patchStatus, Sync, Change, vars
  <2>2. Carriers(0)' = Carriers(0) /\ Carriers(1)' = Carriers(1)
    BY <2>1 DEF Carriers
  <2>3. Lane!Overwrite
    BY <2>1, <2>2 DEF Lane!Overwrite
  <2>4. QED
    BY <2>3 DEF Lane!Next
<1>2. CASE runScaleDownGuard
  <2>1. min' = min
    BY <1>2, Zenon DEF runScaleDownGuard
  <2>2. CASE enqueueMinScale(1)
    <3>1. pending' = None /\ dispatch(1)
      BY <2>2 DEF enqueueMinScale
    <3>2. \E w \in Workers \ (Carriers(0) \cup Carriers(1)) :
            Carriers(1)' = Carriers(1) \cup {w} /\ Carriers(0)' = Carriers(0)
      BY <3>1, DispatchJoins
    <3>3. Lane!Refuse
      BY <2>1, <3>1, <3>2 DEF Lane!Refuse, Lane!Free
    <3>4. QED
      BY <3>3 DEF Lane!Next
  <2>3. CASE enqueueMinScale(0)
    <3>1. pending' = 0 /\ job' = job
      BY <2>3 DEF enqueueMinScale
    <3>2. Carriers(0)' = Carriers(0) /\ Carriers(1)' = Carriers(1)
      BY <3>1 DEF Carriers
    <3>3. Lane!Permit
      BY <2>1, <3>1, <3>2, GuardAssumption DEF Lane!Permit
    <3>4. QED
      BY <3>3 DEF Lane!Next
  <2>4. QED
    BY <1>2, <2>2, <2>3, Zenon DEF runScaleDownGuard
<1>3. CASE Crash
  <2>1. pending' = None /\ min' = min /\ job' = [w \in Workers |-> None]
    BY <1>3, Zenon DEF Crash
  <2>2. Carriers(0)' = {} /\ Carriers(1)' = {}
    BY <2>1 DEF Carriers
  <2>3. Lane!Restart
    BY <2>1, <2>2 DEF Lane!Restart
  <2>4. QED
    BY <2>3 DEF Lane!Next
<1>4. CASE flushSlow
  <2>1. pending = 0 /\ pending' = None /\ min' = min /\ dispatch(0)
    BY <1>4 DEF flushSlow, TypeOK
  <2>2. \E w \in Workers \ (Carriers(0) \cup Carriers(1)) :
          Carriers(0)' = Carriers(0) \cup {w} /\ Carriers(1)' = Carriers(1)
    BY <2>1, DispatchJoins
  <2>3. Lane!Flush
    BY <2>1, <2>2, GuardAssumption DEF Lane!Flush, Lane!Free
  <2>4. QED
    BY <2>3 DEF Lane!Next
<1>5. ASSUME NEW w \in Workers, PatchReads(w)
      PROVE  [Lane!Next]_(Lane!vars)
  <2>0. job[w] # None /\ min' = min /\ pending' = pending
    BY <1>5, Zenon DEF PatchReads, Done
  <2>1. CASE Done(w)
    <3>1. Lane!Lose(w)
      BY <2>0, <2>1, DoneLeaves DEF Lane!Lose, Lane!Over
    <3>2. QED
      BY <3>1 DEF Lane!Next
  <2>2. CASE job' = [job EXCEPT ![w].step = "patching"]
    <3>1. job[w] \in Job
      BY <2>0 DEF TypeOK
    <3>2. job'[w] \in Job /\ job'[w].val = job[w].val
      BY <2>2, <3>1 DEF TypeOK, Job
    <3>3. job'[w] # None
      BY <3>2, GuardAssumption
    <3>4. \A v \in Workers : v # w => job'[v] = job[v]
      BY <2>2 DEF TypeOK
    <3>5. Carriers(0)' = Carriers(0) /\ Carriers(1)' = Carriers(1)
      BY <2>0, <3>2, <3>3, <3>4 DEF Carriers
    <3>6. QED
      BY <2>0, <3>5 DEF Lane!vars
  <2>3. QED
    BY <1>5, <2>1, <2>2 DEF PatchReads
<1>6. ASSUME NEW w \in Workers, PatchWrites(w)
      PROVE  [Lane!Next]_(Lane!vars)
  <2>1. job[w] # None /\ Done(w) /\ (min' = job[w].val \/ min' = min)
    BY <1>6, Zenon DEF PatchWrites
  <2>2. Lane!Land(w) \/ Lane!Lose(w)
    BY <2>1, DoneLeaves DEF Lane!Land, Lane!Lose, Lane!Over
  <2>3. QED
    BY <2>2 DEF Lane!Next
<1>7. QED
  BY <1>1, <1>2, <1>3, <1>4, <1>5, <1>6, Zenon DEF Next, Pass

\* The two variables that stand for the flusher here keep to what the Manager is
\* shown to be for one KSvc (KSvcLane), for any pods, replies, bounds and faults:
\* no permission is lost but to a refusal or a restart, and a decision writes its
\* own value and is over with that.
THEOREM GuardKeepsToLane == Spec => KeepsToLane
<1>1. Init => Lane!Init
  <2> SUFFICES ASSUME Init PROVE Lane!Init
    OBVIOUS
  <2>1. pending = None /\ job = [w \in Workers |-> None]
    BY Zenon DEF Init
  <2>2. Carriers(0) = {} /\ Carriers(1) = {}
    BY <2>1 DEF Carriers
  <2>3. QED
    BY <2>1, <2>2 DEF Lane!Init
<1>2. TypeOK /\ [Next]_vars => [Lane!Next]_(Lane!vars)
  BY LaneStep
<1>3. QED
  BY <1>1, <1>2, GuardTypeCorrect, PTL DEF Spec, KeepsToLane, Lane!Spec
=============================================================================
