----------------------------- MODULE Conditions -----------------------------
(***************************************************************************)
(* status.conditions of one KnativeAdoption that is not being deleted.     *)
(* Two writers share the list: the passes of the reconciler, whose stages  *)
(* set and clear conditions in memory and store them at the end, and the   *)
(* failure sink of the flusher.  Both store it with a merge patch, which   *)
(* replaces the list as a whole.                                           *)
(*                                                                         *)
(* A condition other than Degraded is in the set "on" when its status is   *)
(* True; False, Unknown and absent are not told apart.  Degraded carries   *)
(* its cause.                                                              *)
(***************************************************************************)
EXTENDS Guard

CONSTANTS
  Stages,     \* the steps of a pass and the flusher's patches that may fail
  Replies,    \* what the pod of the KSvc may reply
  Services,   \* the same-name Services a user may create
  MinScale,   \* spec.autoscaling.minScale
  Threshold,  \* spec.scaleDownProbe.consecutiveFailureThreshold
  Lag,        \* whether the cached CR may lag
  MaxOps,     \* bound on the changes of the world
  MaxSinks,   \* bound on the calls of the failure sink
  MaxFaults   \* bound on the status patches that fail

ASSUME ConditionsAssumption ==
  /\ Stages \subseteq {"getSource", "listPods", "translate", "getService", "deleteService",
                       "traffic", "apply", "readBack", "ready", "quiesce", "flush"}
  /\ Replies \subseteq Reply /\ Services \subseteq {"plain", "refused"}
  /\ Lag \in BOOLEAN /\ Threshold \in Nat \ {0}
  /\ MaxOps \in Nat /\ MaxSinks \in Nat /\ MaxFaults \in Nat

VARIABLES
  broken,   \* the stages that fail now
  source,   \* the source Deployment exists
  service,  \* the same-name Service: None, "plain" or "refused"
  ksvc,     \* the KSvc was applied
  pod,      \* what the pod replies; None: no pod
  traffic,  \* spec.traffic.enabled
  stored,   \* the stored status
  seen,     \* the cached status
  pc,       \* the next stage of the pass
  base,     \* the status the patch is computed against
  mem,      \* the status in memory
  asked,    \* the guard has handed a decision to the flusher
  sink,     \* the status the failure sink has read; None: no call
  streak,   \* history: errored rounds since the last one without an error
  stale,    \* history: a pass has read a status that was not the stored one
  ops, sinks, faults

world == <<broken, source, service, ksvc, pod, traffic>>
passVars == <<pc, base, mem>>
vars == <<world, stored, seen, passVars, asked, sink, streak, stale, ops, sinks, faults>>

readyAggregateFailures ==
  {"TrafficDegraded", "TranslationDegraded", "ServiceAdoptionRefused", "SourceMissing"}

readyAggregatePositives ==
  {"Adopted", "ServiceAdopted", "SourceQuiesced"} \cup (IF traffic THEN {"TrafficReady"} ELSE {})

Cause == {"probe", "flush", "apply", "delete"}

\* errors is ConsecutiveErrors up to the threshold, which is all that is asked
\* of it.
Status ==
  [on : SUBSET (readyAggregateFailures \cup
                {"Adopted", "ServiceAdopted", "SourceQuiesced", "TrafficReady", "Ready",
                 "ScaleDownAllowed"}),
   degraded : Cause \cup {None},
   errors : 0..Threshold]

ASSUME NoneAssumption == None \notin Cause /\ None \notin Status

On(s, T) == [s EXCEPT !.on = @ \cup T]
Off(s, T) == [s EXCEPT !.on = @ \ T]

Init ==
  /\ broken = {} /\ source = TRUE /\ service \in Services \cup {None}
  /\ ksvc = FALSE /\ pod \in Replies \cup {None} /\ traffic \in BOOLEAN
  /\ stored = [on |-> {}, degraded |-> None, errors |-> 0]
  /\ seen = stored
  /\ pc = "idle" /\ base = stored /\ mem = stored
  /\ asked = FALSE /\ sink = None
  /\ streak = 0 /\ stale = FALSE
  /\ ops = 0 /\ sinks = 0 /\ faults = 0

-----------------------------------------------------------------------------
(* The reconciler.                                                         *)

\* setCondition and clearConditionIfReason on Degraded.  The guard and the
\* flusher's sink use the same reason.
Degrade(s, cause) == [s EXCEPT !.degraded = cause]

Reason(cause) == IF cause = "flush" THEN "probe" ELSE cause

\* Mutant of clearConditionIfReason: nothing is cleared.
clearConditionIfReasonNever(s, reason) == s

clearConditionIfReason(s, reason) ==
  IF s.degraded # None /\ Reason(s.degraded) = reason THEN Degrade(s, None) ELSE s

\* Mutant of recomputeReady: Degraded does not count.
recomputeReadyIgnoresDegraded(s) ==
  IF s.on \cap readyAggregateFailures = {} /\ readyAggregatePositives \subseteq s.on
  THEN On(s, {"Ready"}) ELSE Off(s, {"Ready"})

recomputeReady(s) ==
  IF /\ s.degraded = None
     /\ s.on \cap readyAggregateFailures = {}
     /\ readyAggregatePositives \subseteq s.on
  THEN On(s, {"Ready"}) ELSE Off(s, {"Ready"})

\* A stage ends: the pass goes on with stage p and status s.
Goto(p, s) ==
  /\ pc' = p /\ mem' = s
  /\ UNCHANGED <<broken, source, service, pod, traffic, stored, seen, base, sink, stale, ops, sinks, faults>>

\* The setReady(False) of a branch that returns is overwritten by
\* recomputeReady.
Return(s) == Goto("patchStatus", s)

Reconcile ==
  /\ pc = "idle"
  /\ pc' = "getSource"
  /\ base' = (IF Lag THEN seen ELSE stored) /\ mem' = base'
  /\ stale' = (stale \/ base' # stored)
  /\ UNCHANGED <<world, stored, seen, asked, sink, streak, ops, sinks, faults>>

getSourceDeployment ==
  /\ pc = "getSource"
  /\ \/ "getSource" \in broken /\ Return(mem)
     \/ "getSource" \notin broken /\ ~source /\ Return(On(Off(mem, {"Adopted"}), {"SourceMissing"}))
     \/ "getSource" \notin broken /\ source /\ Goto("guard", Off(mem, {"SourceMissing"}))
  /\ UNCHANGED <<ksvc, asked, streak>>

\* Mutant of maybeMarkDegraded: one error too early.
maybeMarkDegradedEarly(s) == IF s.errors + 1 >= Threshold /\ s.errors > 0 THEN Degrade(s, "probe") ELSE s

maybeMarkDegraded(s) == IF s.errors >= Threshold THEN Degrade(s, "probe") ELSE s

Capped(n) == IF n > Threshold THEN Threshold ELSE n

\* The round's results: of the only pod, or of none.
results == [p \in IF pod = None THEN {} ELSE {"pod"} |-> Probe(1, pod)]

\* Mutant of countErrors: the counter decays instead of being reset.
countErrorsDecays(n, hadError) == IF hadError THEN Capped(n + 1) ELSE n - 1

\* The counter in mergeProbeStatus and bumpProbeError.
countErrors(n, hadError) == IF hadError THEN Capped(n + 1) ELSE 0

\* The branch of the outcome.
Judge(s) ==
  LET t == [s EXCEPT !.errors = countErrors(@, HasErrors(results))] IN
  IF Vote(results) = "Block" THEN Off(t, {"ScaleDownAllowed"})
  ELSE clearConditionIfReason(On(t, {"ScaleDownAllowed"}), "probe")

runScaleDownGuard ==
  \/ /\ "listPods" \in broken
     /\ streak' = Capped(streak + 1) /\ UNCHANGED asked
     /\ Goto("translate",
             maybeMarkDegraded(Off([mem EXCEPT !.errors = countErrors(@, TRUE)], {"ScaleDownAllowed"})))
  \/ /\ "listPods" \notin broken
     /\ streak' = (IF HasErrors(results) THEN Capped(streak + 1) ELSE 0) /\ asked' = TRUE
     /\ Goto("translate", maybeMarkDegraded(Judge(mem)))

guardRuns == guardEnabled(MinScale) /\ ksvc /\ "ready" \notin broken

maybeRunGuard ==
  /\ pc = "guard"
  /\ \/ guardRuns /\ runScaleDownGuard
     \/ ~guardRuns /\ Goto("translate", mem) /\ UNCHANGED <<asked, streak>>
  /\ UNCHANGED ksvc

Translate ==
  /\ pc = "translate"
  /\ \/ "translate" \in broken /\ Return(On(Off(mem, {"Adopted"}), {"TranslationDegraded"}))
     \/ "translate" \notin broken /\ Goto("swap", Off(mem, {"TranslationDegraded"}))
  /\ UNCHANGED <<ksvc, asked, streak>>

\* swapService; a Service that is taken over is deleted.
swapService ==
  /\ pc = "swap"
  /\ \/ "getService" \in broken /\ Return(mem)
     \/ /\ "getService" \notin broken /\ service = None
        /\ Goto("traffic", Off(mem, {"ServiceAdoptionRefused"}))
     \/ /\ "getService" \notin broken /\ service = "refused"
        /\ Return(On(Off(mem, {"ServiceAdopted", "Adopted"}), {"ServiceAdoptionRefused"}))
     \/ /\ "getService" \notin broken /\ service = "plain" /\ "deleteService" \in broken
        /\ Return(Degrade(Off(mem, {"ServiceAdoptionRefused", "ServiceAdopted"}), "delete"))
  /\ UNCHANGED <<ksvc, asked, streak>>

takeOver ==
  /\ pc = "swap"
  /\ service = "plain" /\ broken \cap {"getService", "deleteService"} = {}
  /\ service' = None
  /\ pc' = "patchStatus" /\ mem' = Off(mem, {"ServiceAdoptionRefused", "ServiceAdopted"})
  /\ UNCHANGED <<broken, source, ksvc, pod, traffic, stored, seen, base, asked, sink, streak, stale,
                 ops, sinks, faults>>

trafficReconcile ==
  /\ pc = "traffic"
  /\ \/ traffic /\ "traffic" \in broken /\ Return(On(Off(mem, {"TrafficReady"}), {"TrafficDegraded"}))
     \/ /\ traffic /\ "traffic" \notin broken
        /\ Goto("apply", On(Off(mem, {"TrafficDegraded"}), {"TrafficReady"}))
     \/ ~traffic /\ Goto("apply", Off(mem, {"TrafficDegraded", "TrafficReady"}))
  /\ UNCHANGED <<ksvc, asked, streak>>

applyKnativeService ==
  /\ pc = "apply"
  /\ \/ "apply" \in broken /\ Return(Degrade(mem, "apply")) /\ UNCHANGED ksvc
     \/ /\ "apply" \notin broken
        /\ ksvc' = TRUE
        /\ Goto("readBack", On(clearConditionIfReason(mem, "apply"), {"Adopted"}))
  /\ UNCHANGED <<asked, streak>>

\* The live KSvc is read back and judged.
serviceReady ==
  /\ pc = "readBack"
  /\ \/ "readBack" \in broken /\ Return(mem)
     \/ "readBack" \notin broken /\ "ready" \in broken /\ Return(Off(mem, {"ServiceAdopted"}))
     \/ broken \cap {"readBack", "ready"} = {} /\ Goto("quiesce", On(mem, {"ServiceAdopted"}))
  /\ UNCHANGED <<ksvc, asked, streak>>

quiesceSource ==
  /\ pc = "quiesce"
  /\ \/ "quiesce" \in broken /\ Return(Off(mem, {"SourceQuiesced"}))
     \/ "quiesce" \notin broken /\ Return(On(mem, {"SourceQuiesced"}))
  /\ UNCHANGED <<ksvc, asked, streak>>

\* What a merge patch from b to s makes of the stored status.  Messages are
\* not modelled: a list that is the same but for a message is sent as well.
MergePatched(b, s) ==
  LET errors == IF s.errors # b.errors THEN s.errors ELSE stored.errors
      sent == [s EXCEPT !.errors = errors]
      kept == [stored EXCEPT !.errors = errors]
  IN  IF s.on # b.on \/ s.degraded # b.degraded THEN {sent} ELSE {sent, kept}

patchStatus ==
  /\ pc = "patchStatus"
  /\ \/ stored' \in MergePatched(base, recomputeReady(mem)) /\ UNCHANGED faults
     \/ faults < MaxFaults /\ faults' = faults + 1 /\ UNCHANGED stored
  /\ pc' = "idle" /\ base' = [on |-> {}, degraded |-> None, errors |-> 0] /\ mem' = base'
  /\ UNCHANGED <<world, seen, asked, sink, streak, stale, ops, sinks>>

-----------------------------------------------------------------------------
(* The failure sink, the cache and the world.                              *)

\* The sink of NewFlusherFailureSink reads the CR...
SinkReads ==
  /\ "flush" \in broken /\ asked /\ sink = None /\ sinks < MaxSinks
  /\ sinks' = sinks + 1
  /\ sink' = (IF Lag THEN seen ELSE stored)
  /\ UNCHANGED <<world, stored, seen, passVars, asked, streak, stale, ops, faults>>

\* ... and stores its list with Degraded set.
SinkWrites ==
  /\ sink # None
  /\ stored' = [Degrade(sink, "flush") EXCEPT !.errors = stored.errors]
  /\ sink' = None
  /\ UNCHANGED <<world, seen, passVars, asked, streak, stale, ops, sinks, faults>>

Sync ==
  /\ Lag /\ seen # stored
  /\ seen' = stored
  /\ UNCHANGED <<world, stored, passVars, asked, sink, streak, stale, ops, sinks, faults>>

\* A stage starts or stops failing, the source comes or goes, a user creates or
\* deletes the Service, the pod changes its reply.
Change ==
  /\ ops < MaxOps
  /\ ops' = ops + 1
  /\ \/ \E s \in Stages :
          broken' = (broken \cup {s}) \ (broken \cap {s}) /\ UNCHANGED <<source, service, pod>>
     \/ source' = ~source /\ UNCHANGED <<broken, service, pod>>
     \/ service' \in (Services \cup {None}) \ {service} /\ UNCHANGED <<broken, source, pod>>
     \/ pod' \in (Replies \cup {None}) \ {pod} /\ UNCHANGED <<broken, source, service>>
  /\ UNCHANGED <<ksvc, traffic, stored, seen, passVars, asked, sink, streak, stale, sinks, faults>>

Pass ==
  \/ Reconcile \/ getSourceDeployment \/ maybeRunGuard \/ Translate \/ swapService \/ takeOver
  \/ trafficReconcile \/ applyKnativeService \/ serviceReady \/ quiesceSource \/ patchStatus

Next == Pass \/ SinkReads \/ SinkWrites \/ Sync \/ Change

Spec == Init /\ [][Next]_vars

\* Every change of the world is a watch event, a requeue after an error or a
\* RequeueAfter; a call of the sink that has begun goes on.
FairSpec == Spec /\ WF_vars(Pass) /\ WF_vars(SinkWrites) /\ WF_vars(Sync)

-----------------------------------------------------------------------------
(* Properties.                                                             *)

\* Every variable has its type.
TypeOK ==
  /\ broken \subseteq Stages /\ source \in BOOLEAN /\ service \in Services \cup {None}
  /\ ksvc \in BOOLEAN /\ pod \in Replies \cup {None} /\ traffic \in BOOLEAN
  /\ stored \in Status /\ seen \in Status /\ base \in Status /\ mem \in Status
  /\ pc \in {"idle", "getSource", "guard", "translate", "swap", "traffic", "apply", "readBack",
             "quiesce", "patchStatus"}
  /\ asked \in BOOLEAN /\ sink \in Status \cup {None}
  /\ streak \in 0..Threshold /\ stale \in BOOLEAN
  /\ ops \in 0..MaxOps /\ sinks \in 0..MaxSinks /\ faults \in 0..MaxFaults

\* Until the failure sink is called, the stored Ready agrees with the stored
\* conditions it aggregates, whichever branch returned, whatever the cache said
\* and whichever patches were lost.
ReadyConsistent ==
  sinks = 0 =>
    ("Ready" \in stored.on <=>
       /\ stored.degraded = None
       /\ stored.on \cap readyAggregateFailures = {}
       /\ readyAggregatePositives \subseteq stored.on)

\* Nothing has come between the stored counter and the rounds yet: no stale
\* read, no lost patch, no call of the sink.
Undisturbed == ~stale /\ faults = 0 /\ sinks = 0

\* Undisturbed, a pass raises Degraded for the guard only after as many errored
\* rounds in a row as the threshold says.
DegradedEarned ==
  [][Undisturbed /\ stored'.degraded = "probe" /\ stored.degraded # "probe"
       => streak >= Threshold]_vars

\* Everything a pass needs works, and the pod consents or is gone.
Healthy ==
  /\ broken = {} /\ source /\ service # "refused"
  /\ pod = None \/ Vote(results) = "AllowZero"

\* Once everything works for good, Ready comes and stays, whatever conditions
\* earlier failures left behind and however the two writers overwrote each
\* other; the only cause nobody clears is a Service that could not be deleted.
Recovers == <>[]Healthy => <>[]("Ready" \in stored.on \/ stored.degraded = "delete")
=============================================================================
