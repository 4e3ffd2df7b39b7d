--------------------------- MODULE ScaleDownGuard ---------------------------
(***************************************************************************)
(* The guard at work on one adopted KSvc: passes of the reconciler that    *)
(* probe the pods, hand a decision to the flusher, apply the KSvc and store *)
(* the verdict; and the workers of the flusher that patch the same         *)
(* min-scale annotation.  The flusher is the lane of module Flusher, seen   *)
(* from one key: a pending decision and the workers that carry drained ones.*)
(***************************************************************************)
EXTENDS Guard

CONSTANTS
  Pods,
  Replies,    \* the replies a pod may give
  Ports,      \* the first ports a pod may declare; 0: none
  Override,   \* spec.scaleDownProbe.port; 0: unset
  MinScales,  \* values of spec.autoscaling.minScale
  Workers,    \* bound on the decisions drained and not settled
  Lagging,    \* which of the caches "cr" and "ksvc" may lag
  MaxErrors,  \* bound on the errored rounds in a row
  MaxOps,     \* bound on the changes of pods, spec and readiness
  MaxFaults   \* bound on crashes and failed API calls

\* A decision on its way: drained, or about to be written.
Job == [val : {0, 1}, step : {"queued", "patching"}]

ASSUME GuardAssumption ==
  /\ Replies \subseteq Reply /\ Ports \subseteq Nat /\ Override \in Nat
  /\ MinScales \subseteq Nat \cup {None}
  /\ None \notin Nat /\ None \notin ProbeStatus /\ None \notin Job
  /\ Lagging \subseteq {"cr", "ksvc"}
  /\ MaxErrors \in Nat /\ MaxOps \in Nat /\ MaxFaults \in Nat

VARIABLES
  pods,      \* running pods: their port and what they reply; None: no such pod
  spec,      \* spec.autoscaling.minScale
  ready,     \* the KSvc is Ready
  min,       \* the min-scale annotation of the KSvc
  probe,     \* status.lastScaleDownProbe
  seen,      \* the cached probe status and annotation
  pc,        \* where the pass is
  base,      \* the status the patch is computed against
  mem,       \* the status in memory
  memSpec,   \* the spec in memory
  pending,   \* the decision waiting for the debounce timer
  job,       \* job[w]: the decision worker w carries
  verdict,   \* history: outcome of the last round
  streak,    \* history: errored rounds since the last round without an error
  ops, faults

passVars == <<pc, base, mem, memSpec>>
flushVars == <<pending, job>>
ghosts == <<verdict, streak>>
vars == <<pods, spec, ready, min, probe, seen, passVars, flushVars, ghosts, ops, faults>>

ViewProbe == IF "cr" \in Lagging THEN seen.probe ELSE probe
ViewMin == IF "ksvc" \in Lagging THEN seen.min ELSE min

\* An adopted KSvc, Ready, before the first round.
Init ==
  /\ pods \in [Pods -> [port : Ports, reply : Replies] \cup {None}]
  /\ spec \in MinScales
  /\ ready = TRUE
  /\ min = EffectiveMinScale(spec, None)
  /\ probe = None
  /\ seen = [probe |-> probe, min |-> min]
  /\ pc = "idle" /\ base = None /\ mem = None /\ memSpec = None
  /\ pending = None
  /\ job = [w \in Workers |-> None]
  /\ verdict = None
  /\ streak = 0
  /\ ops = 0 /\ faults = 0

Fault == faults < MaxFaults /\ faults' = faults + 1

-----------------------------------------------------------------------------
(* The flusher, for one KSvc.                                              *)

\* A drained decision goes to a free worker.
dispatch(d) ==
  \E w \in Workers :
    /\ job[w] = None
    /\ job' = [job EXCEPT ![w] = [val |-> d, step |-> "queued"]]

\* Mutant of enqueueMinScale: a refusal leaves the pending permission behind.
enqueueMinScaleKeepsPending(d) ==
  \/ d = 1 /\ UNCHANGED pending /\ dispatch(1)
  \/ d = 0 /\ pending' = 0 /\ UNCHANGED job

\* enqueueMinScale: 1 goes out at once and replaces what is pending; 0 waits.
enqueueMinScale(d) ==
  \/ d = 1 /\ pending' = None /\ dispatch(1)
  \/ d = 0 /\ pending' = 0 /\ UNCHANGED job

flushSlow ==
  /\ pending # None
  /\ pending' = None
  /\ dispatch(pending)
  /\ UNCHANGED <<pods, spec, ready, min, probe, seen, passVars, ghosts, ops, faults>>

Done(w) == job' = [job EXCEPT ![w] = None] /\ UNCHANGED pending

\* KSvcMinScalePatcher.Patch reads the KSvc and skips an equal value...
PatchReads(w) ==
  /\ job[w] # None /\ job[w].step = "queued"
  /\ \/ /\ ViewMin = job[w].val
        /\ Done(w)
     \/ /\ ViewMin # job[w].val
        /\ job' = [job EXCEPT ![w].step = "patching"]
        /\ UNCHANGED pending
  /\ UNCHANGED <<pods, spec, ready, min, probe, seen, passVars, ghosts, ops, faults>>

\* ... and patches the annotation otherwise.  A failed patch is not retried.
PatchWrites(w) ==
  /\ job[w] # None /\ job[w].step = "patching"
  /\ \/ min' = job[w].val /\ UNCHANGED faults
     \/ Fault /\ UNCHANGED min
  /\ Done(w)
  /\ UNCHANGED <<pods, spec, ready, probe, seen, passVars, ghosts, ops>>

-----------------------------------------------------------------------------
(* A pass of the reconciler.                                               *)

Reconcile ==
  /\ pc = "idle"
  /\ pc' = "guard"
  /\ base' = ViewProbe /\ mem' = ViewProbe
  /\ memSpec' = spec
  /\ UNCHANGED <<pods, spec, ready, min, probe, seen, flushVars, ghosts, ops, faults>>

Errors(p) == IF p = None THEN 0 ELSE p.errors

\* listKSvcPods and probeAll.
probeAll ==
  [p \in {q \in Pods : pods[q] # None} |->
     Probe(resolveProbePort(Override, pods[p].port), pods[p].reply)]

\* maybeRunGuard when the guard is off or the KSvc is not Ready.
guardSkipped ==
  /\ pc = "guard"
  /\ ~guardEnabled(memSpec) \/ ~ready
  /\ pc' = "apply"
  /\ UNCHANGED <<pods, spec, ready, min, probe, seen, base, mem, memSpec, flushVars,
                 ghosts, ops, faults>>

\* A round of runScaleDownGuard: every running pod is probed, the votes are
\* counted and a decision is enqueued, after a round without pods as well.
runScaleDownGuard ==
  /\ pc = "guard"
  /\ guardEnabled(memSpec) /\ ready
  /\ HasErrors(probeAll) => Errors(mem) < MaxErrors /\ streak < MaxErrors
  /\ pc' = "apply"
  /\ verdict' = Vote(probeAll)
  /\ mem' = mergeProbeStatus(mem, verdict', HasErrors(probeAll))
  /\ streak' = IF HasErrors(probeAll) THEN streak + 1 ELSE 0
  /\ enqueueMinScale(IF verdict' = "Block" THEN 1 ELSE 0)
  /\ UNCHANGED <<pods, spec, ready, min, probe, seen, base, memSpec, ops, faults>>

\* A round in which the pods cannot be listed: OutcomeBlock, and no decision.
guardListFails ==
  /\ pc = "guard"
  /\ guardEnabled(memSpec) /\ ready
  /\ Errors(mem) < MaxErrors /\ streak < MaxErrors
  /\ Fault
  /\ pc' = "apply"
  /\ verdict' = "Block"
  /\ mem' = bumpProbeError(mem)
  /\ streak' = streak + 1
  /\ UNCHANGED <<pods, spec, ready, min, probe, seen, base, memSpec, flushVars, ops>>

\* Translate and applyKnativeService: the annotation follows the status in
\* memory.  The fault stands for every step of the pass that returns before or
\* with the apply.
applyKSvc ==
  /\ pc = "apply"
  /\ pc' = "patchStatus"
  /\ \/ min' = EffectiveMinScale(memSpec, mem) /\ UNCHANGED faults
     \/ Fault /\ UNCHANGED min
  /\ UNCHANGED <<pods, spec, ready, probe, seen, base, mem, memSpec, flushVars, ghosts, ops>>

\* What a merge patch from base to mem makes of the stored status: a field goes
\* on the wire when it differs from the base, and errors is omitted when 0.
MergePatched ==
  IF mem = None THEN probe
  ELSE [result |-> IF base # None /\ base.result = mem.result /\ probe # None
                   THEN probe.result ELSE mem.result,
        errors |-> IF Errors(base) = Errors(mem) THEN Errors(probe) ELSE Errors(mem)]

patchStatus ==
  /\ pc = "patchStatus"
  /\ \/ probe' = (IF mem = base THEN probe ELSE MergePatched) /\ UNCHANGED faults
     \/ mem # base /\ Fault /\ UNCHANGED probe
  /\ pc' = "idle" /\ base' = None /\ mem' = None /\ memSpec' = None
  /\ UNCHANGED <<pods, spec, ready, min, seen, flushVars, ghosts, ops>>

\* The operator restarts: the pass and the flusher's queue are gone.
Crash ==
  /\ Fault
  /\ pc' = "idle" /\ base' = None /\ mem' = None /\ memSpec' = None
  /\ pending' = None
  /\ job' = [w \in Workers |-> None]
  /\ seen' = [probe |-> probe, min |-> min]
  /\ UNCHANGED <<pods, spec, ready, min, probe, ghosts, ops>>

Sync ==
  /\ seen' \in {[seen EXCEPT !.probe = probe], [seen EXCEPT !.min = min]}
  /\ seen' # seen
  /\ UNCHANGED <<pods, spec, ready, min, probe, passVars, flushVars, ghosts, ops, faults>>

\* Pods come, go and change their minds, the user edits the spec, and the KSvc
\* loses or regains readiness.
Change ==
  /\ ops < MaxOps
  /\ ops' = ops + 1
  /\ \/ /\ \E p \in Pods, r \in [port : Ports, reply : Replies] \cup {None} :
             pods[p] # r /\ pods' = [pods EXCEPT ![p] = r]
        /\ UNCHANGED <<spec, ready>>
     \/ /\ spec' \in MinScales \ {spec}
        /\ UNCHANGED <<pods, ready>>
     \/ /\ ready' = ~ready
        /\ UNCHANGED <<pods, spec>>
  /\ UNCHANGED <<min, probe, seen, passVars, flushVars, ghosts, faults>>

Pass ==
  \/ Reconcile \/ guardSkipped \/ runScaleDownGuard \/ guardListFails \/ applyKSvc
  \/ patchStatus

Next ==
  \/ Pass \/ Crash \/ Sync \/ Change \/ flushSlow
  \/ \E w \in Workers : PatchReads(w) \/ PatchWrites(w)

Spec == Init /\ [][Next]_vars

\* A pass follows every RequeueAfter and every change of an owned KSvc; the
\* timer fires, workers run and caches catch up.
Fairness ==
  /\ WF_vars(Pass) /\ WF_vars(flushSlow) /\ WF_vars(Sync)
  /\ \A w \in Workers : WF_vars(PatchReads(w)) /\ WF_vars(PatchWrites(w))

FairSpec == Spec /\ Fairness

-----------------------------------------------------------------------------
(* Properties.                                                             *)

\* Every variable has its type.
TypeOK ==
  /\ pods \in [Pods -> [port : Ports, reply : Replies] \cup {None}]
  /\ spec \in MinScales /\ ready \in BOOLEAN /\ min \in Nat
  /\ probe \in ProbeStatus \cup {None}
  /\ seen \in [probe : ProbeStatus \cup {None}, min : Nat]
  /\ pc \in {"idle", "guard", "apply", "patchStatus"}
  /\ base \in ProbeStatus \cup {None} /\ mem \in ProbeStatus \cup {None}
  /\ memSpec \in MinScales \cup {None}
  /\ pending \in {None, 0}
  /\ job \in [Workers -> Job \cup {None}]
  /\ verdict \in {None, "AllowZero", "Block", "NoPods"}
  /\ streak \in Nat /\ ops \in 0..MaxOps /\ faults \in 0..MaxFaults

\* What the pods and the spec ask for now.
Wanted ==
  IF ~guardEnabled(spec) THEN spec
  ELSE IF Vote(probeAll) = "Block" THEN 1 ELSE 0

\* Once pods and spec stay as they are and the KSvc is Ready, the annotation
\* settles on what they ask for: neither a decision still in the flusher nor a
\* status that was not stored can win over the passes for good.
MinScaleConverges == <>[](ready => min = Wanted)

\* Between two passes the stored counter is the number of errored rounds since
\* the last one without an error: the counter goes through the cache, through
\* memory and through a merge patch that sends only the fields that changed.
ErrorCountExact == pc = "idle" => Errors(probe) = streak

Carriers(v) == {w \in Workers : job[w] # None /\ job[w].val = v}

Lane ==
  INSTANCE KSvcLane WITH
    Slots <- Workers, waiting <- (pending # None),
    allows <- Carriers(0), pins <- Carriers(1), min <- min

\* The flusher of this module does nothing that the flusher as one KSvc sees it
\* does not, whatever rounds, crashes and failed patches come between: a decision
\* waits, is cancelled by the refusal of a later round, goes out and is written
\* as in KSvcLane, which the Manager with its lanes implements as well.
KeepsToLane == Lane!Spec
=============================================================================
