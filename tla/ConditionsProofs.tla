-------------------------- MODULE ConditionsProofs --------------------------
(***************************************************************************)
(* What holds of the condition list for any stages, replies, threshold and *)
(* bounds.                                                                 *)
(***************************************************************************)
EXTENDS Conditions, TLAPS

Stage == {"getSource", "guard", "translate", "swap", "traffic", "apply", "readBack",
          "quiesce", "patchStatus"}

Names == readyAggregateFailures \cup
         {"Adopted", "ServiceAdopted", "SourceQuiesced", "TrafficReady", "Ready", "ScaleDownAllowed"}

-----------------------------------------------------------------------------
(* The operations on a status.                                             *)

LEMMA StatusIs ==
  ASSUME NEW s
  PROVE  s \in Status <=> s \in [on : SUBSET Names, degraded : Cause \cup {None},
                                 errors : 0..Threshold]
BY DEF Status, Names

LEMMA OnOff ==
  ASSUME NEW s \in Status, NEW T \in SUBSET Names
  PROVE  /\ On(s, T) \in Status /\ On(s, T).on = s.on \cup T
         /\ Off(s, T) \in Status /\ Off(s, T).on = s.on \ T
         /\ On(s, T).errors = s.errors /\ Off(s, T).errors = s.errors
         /\ On(s, T).degraded = s.degraded /\ Off(s, T).degraded = s.degraded
BY StatusIs DEF On, Off

LEMMA DegradeIs ==
  ASSUME NEW s \in Status, NEW c \in Cause \cup {None}
  PROVE  /\ Degrade(s, c) \in Status /\ Degrade(s, c).degraded = c
         /\ Degrade(s, c).errors = s.errors /\ Degrade(s, c).on = s.on
BY StatusIs DEF Degrade

LEMMA ClearIs ==
  ASSUME NEW s \in Status, NEW r
  PROVE  /\ clearConditionIfReason(s, r) \in Status
         /\ clearConditionIfReason(s, r).errors = s.errors
         /\ clearConditionIfReason(s, r).degraded \in {s.degraded, None}
BY DegradeIs DEF clearConditionIfReason

LEMMA CountIs ==
  ASSUME NEW n \in 0..Threshold, NEW b \in BOOLEAN
  PROVE  countErrors(n, b) \in 0..Threshold /\ Capped(n + 1) \in 0..Threshold
BY ConditionsAssumption DEF countErrors, Capped

LEMMA WithErrors ==
  ASSUME NEW s \in Status, NEW n \in 0..Threshold
  PROVE  LET t == [s EXCEPT !.errors = n] IN
         t \in Status /\ t.errors = n /\ t.degraded = s.degraded /\ t.on = s.on
BY StatusIs

LEMMA MarkIs ==
  ASSUME NEW s \in Status
  PROVE  /\ maybeMarkDegraded(s) \in Status
         /\ maybeMarkDegraded(s).errors = s.errors
         /\ maybeMarkDegraded(s).degraded = "probe" => s.degraded = "probe" \/ s.errors >= Threshold
BY DegradeIs DEF maybeMarkDegraded, Cause

-----------------------------------------------------------------------------
(* The stages of a pass between its read and its status patch.             *)

\* What a stage hands on, apart from the guard: no stage touches the counter or
\* blames the guard.
Plain(s) == s \in Status /\ s.errors = mem.errors /\ (s.degraded = "probe" => mem.degraded = "probe")

LEMMA NamesHave ==
  {"Adopted", "ServiceAdopted", "SourceQuiesced", "SourceMissing", "TranslationDegraded",
   "ServiceAdoptionRefused", "TrafficDegraded", "TrafficReady", "ScaleDownAllowed", "Ready"}
    \subseteq Names
BY DEF Names, readyAggregateFailures

LEMMA PlainOnOff ==
  ASSUME NEW s, Plain(s), NEW T \in SUBSET Names
  PROVE  Plain(On(s, T)) /\ Plain(Off(s, T))
BY OnOff DEF Plain

LEMMA PlainDegrade ==
  ASSUME NEW s, Plain(s), NEW c \in {"apply", "delete", None}
  PROVE  Plain(Degrade(s, c))
BY DegradeIs, NoneAssumption DEF Plain, Cause

LEMMA PlainClear ==
  ASSUME NEW s, Plain(s), NEW r
  PROVE  Plain(clearConditionIfReason(s, r))
BY ClearIs, NoneAssumption DEF Plain, Cause

\* Off without a name of the list changes nothing.
LEMMA PlainOffAny ==
  ASSUME NEW s, Plain(s), NEW T
  PROVE  Plain(Off(s, T))
BY StatusIs DEF Plain, Off

PlainStage ==
  \/ getSourceDeployment \/ Translate \/ swapService \/ takeOver \/ trafficReconcile
  \/ applyKnativeService \/ serviceReady \/ quiesceSource

Frame ==
  UNCHANGED <<broken, source, pod, traffic, stored, seen, base, asked, sink, streak, stale, ops,
              sinks, faults>>

\* A stage other than the guard hands on a plain status and leaves the rest alone.
LEMMA StageStep ==
  ASSUME TypeOK, PlainStage
  PROVE  /\ Plain(mem') /\ pc \in Stage /\ pc' \in Stage /\ Frame
         /\ pc' \in {"getSource", "guard"} => pc = "getSource"
         /\ ksvc' \in BOOLEAN /\ service' \in {service, None}
<1>0. Plain(mem) /\ ksvc \in BOOLEAN
  BY DEF TypeOK, Plain
<1>1. CASE getSourceDeployment
  <2>1. Plain(On(Off(mem, {"Adopted"}), {"SourceMissing"})) /\ Plain(Off(mem, {"SourceMissing"}))
    BY <1>0, PlainOnOff, NamesHave
  <2> QED BY <1>0, <1>1, <2>1 DEF getSourceDeployment, Return, Goto, Frame, Stage
<1>2. CASE Translate
  <2>1. /\ Plain(On(Off(mem, {"Adopted"}), {"TranslationDegraded"}))
        /\ Plain(Off(mem, {"TranslationDegraded"}))
    BY <1>0, PlainOnOff, NamesHave
  <2> QED BY <1>0, <1>2, <2>1 DEF Translate, Return, Goto, Frame, Stage
<1>3. CASE swapService
  <2>1. /\ Plain(Off(mem, {"ServiceAdoptionRefused"}))
        /\ Plain(On(Off(mem, {"ServiceAdopted", "Adopted"}), {"ServiceAdoptionRefused"}))
        /\ Plain(Off(mem, {"ServiceAdoptionRefused", "ServiceAdopted"}))
    BY <1>0, PlainOnOff, PlainOffAny, NamesHave
  <2>2. Plain(Degrade(Off(mem, {"ServiceAdoptionRefused", "ServiceAdopted"}), "delete"))
    BY <2>1, PlainDegrade
  <2> QED BY <1>0, <1>3, <2>1, <2>2 DEF swapService, Return, Goto, Frame, Stage
<1>4. CASE takeOver
  <2>1. Plain(Off(mem, {"ServiceAdoptionRefused", "ServiceAdopted"}))
    BY <1>0, PlainOffAny
  <2> QED BY <1>0, <1>4, <2>1 DEF takeOver, Frame, Stage
<1>5. CASE trafficReconcile
  <2>1. /\ Plain(On(Off(mem, {"TrafficReady"}), {"TrafficDegraded"}))
        /\ Plain(On(Off(mem, {"TrafficDegraded"}), {"TrafficReady"}))
        /\ Plain(Off(mem, {"TrafficDegraded", "TrafficReady"}))
    BY <1>0, PlainOnOff, PlainOffAny, NamesHave
  <2> QED BY <1>0, <1>5, <2>1 DEF trafficReconcile, Return, Goto, Frame, Stage
<1>6. CASE applyKnativeService
  <2>1. Plain(Degrade(mem, "apply")) /\ Plain(On(clearConditionIfReason(mem, "apply"), {"Adopted"}))
    BY <1>0, PlainDegrade, PlainClear, PlainOnOff, NamesHave
  <2> QED BY <1>0, <1>6, <2>1, Zenon DEF applyKnativeService, Return, Goto, Frame, Stage
<1>7. CASE serviceReady
  <2>1. Plain(Off(mem, {"ServiceAdopted"})) /\ Plain(On(mem, {"ServiceAdopted"}))
    BY <1>0, PlainOnOff, NamesHave
  <2> QED BY <1>0, <1>7, <2>1 DEF serviceReady, Return, Goto, Frame, Stage
<1>8. CASE quiesceSource
  <2>1. Plain(Off(mem, {"SourceQuiesced"})) /\ Plain(On(mem, {"SourceQuiesced"}))
    BY <1>0, PlainOnOff, NamesHave
  <2> QED BY <1>0, <1>8, <2>1 DEF quiesceSource, Return, Goto, Frame, Stage
<1> QED BY <1>1, <1>2, <1>3, <1>4, <1>5, <1>6, <1>7, <1>8, Zenon DEF PlainStage

\* The round's outcome keeps the counter it was given and never blames the guard.
LEMMA JudgeIs ==
  ASSUME NEW s \in Status
  PROVE  /\ Judge(s) \in Status
         /\ Judge(s).errors = countErrors(s.errors, HasErrors(results))
         /\ Judge(s).degraded = "probe" => s.degraded = "probe"
<1> DEFINE t == [s EXCEPT !.errors = countErrors(s.errors, HasErrors(results))]
<1>1. HasErrors(results) \in BOOLEAN
  BY DEF HasErrors
<1>2. countErrors(s.errors, HasErrors(results)) \in 0..Threshold
  BY <1>1, CountIs, StatusIs
<1>3. /\ t \in Status /\ t.degraded = s.degraded
      /\ t.errors = countErrors(s.errors, HasErrors(results))
  BY <1>2, WithErrors
<1>4. Judge(s) = IF Vote(results) = "Block" THEN Off(t, {"ScaleDownAllowed"})
                 ELSE clearConditionIfReason(On(t, {"ScaleDownAllowed"}), "probe")
  BY DEF Judge
<1> HIDE DEF t
<1>5. /\ Off(t, {"ScaleDownAllowed"}) \in Status /\ On(t, {"ScaleDownAllowed"}) \in Status
      /\ Off(t, {"ScaleDownAllowed"}).errors = t.errors
      /\ On(t, {"ScaleDownAllowed"}).errors = t.errors
      /\ Off(t, {"ScaleDownAllowed"}).degraded = t.degraded
      /\ On(t, {"ScaleDownAllowed"}).degraded = t.degraded
  BY <1>3, OnOff, NamesHave
<1>6. LET u == clearConditionIfReason(On(t, {"ScaleDownAllowed"}), "probe") IN
      u \in Status /\ u.errors = t.errors /\ u.degraded \in {t.degraded, None}
  BY <1>5, ClearIs
<1> QED BY <1>3, <1>4, <1>5, <1>6, NoneAssumption DEF Cause

\* The guard counts the round in the status as the history does, and raises
\* Degraded only at the threshold.
LEMMA GuardStep ==
  ASSUME TypeOK, maybeRunGuard
  PROVE  /\ pc = "guard" /\ pc' = "translate" /\ mem' \in Status
         /\ streak' \in 0..Threshold /\ asked' \in BOOLEAN
         /\ UNCHANGED <<world, stored, seen, base, sink, stale, ops, sinks, faults>>
         /\ mem.errors = streak => mem'.errors = streak'
         /\ mem'.degraded = "probe" => mem.degraded = "probe" \/ mem'.errors >= Threshold
<1>0. mem \in Status /\ mem.errors \in 0..Threshold /\ streak \in 0..Threshold /\ asked \in BOOLEAN
  BY StatusIs DEF TypeOK
<1>1. /\ pc = "guard" /\ pc' = "translate"
      /\ UNCHANGED <<world, stored, seen, base, sink, stale, ops, sinks, faults>>
  BY DEF maybeRunGuard, runScaleDownGuard, Goto, world
<1>2. CASE guardRuns /\ "listPods" \in broken /\ runScaleDownGuard
  <2> DEFINE t == [mem EXCEPT !.errors = countErrors(mem.errors, TRUE)]
  <2>1. countErrors(mem.errors, TRUE) = Capped(mem.errors + 1)
    BY DEF countErrors
  <2>2. /\ t \in Status /\ t.errors = Capped(mem.errors + 1) /\ t.degraded = mem.degraded
    <3>1. countErrors(mem.errors, TRUE) \in 0..Threshold
      BY <1>0, CountIs, Zenon
    <3> QED BY <1>0, <2>1, <3>1, WithErrors, Zenon
  <2>3. /\ mem' = maybeMarkDegraded(Off(t, {"ScaleDownAllowed"}))
        /\ streak' = Capped(streak + 1) /\ asked' = asked
    BY <1>2 DEF runScaleDownGuard, Goto
  <2> HIDE DEF t
  <2>4. /\ Off(t, {"ScaleDownAllowed"}) \in Status
        /\ Off(t, {"ScaleDownAllowed"}).errors = t.errors
        /\ Off(t, {"ScaleDownAllowed"}).degraded = t.degraded
    BY <2>2, OnOff, NamesHave
  <2>5. /\ mem' \in Status /\ mem'.errors = t.errors
        /\ mem'.degraded = "probe" => t.degraded = "probe" \/ t.errors >= Threshold
    BY <2>3, <2>4, MarkIs
  <2>6. streak' \in 0..Threshold
    BY <1>0, <2>3, CountIs
  <2> QED BY <1>0, <1>1, <2>2, <2>3, <2>5, <2>6
<1>3. CASE guardRuns /\ "listPods" \notin broken /\ runScaleDownGuard
  <2>1. /\ mem' = maybeMarkDegraded(Judge(mem)) /\ asked' = TRUE
        /\ streak' = countErrors(streak, HasErrors(results))
    BY <1>3 DEF runScaleDownGuard, Goto, countErrors
  <2>2. /\ Judge(mem) \in Status
        /\ Judge(mem).errors = countErrors(mem.errors, HasErrors(results))
        /\ Judge(mem).degraded = "probe" => mem.degraded = "probe"
    BY <1>0, JudgeIs
  <2>3. /\ mem' \in Status /\ mem'.errors = countErrors(mem.errors, HasErrors(results))
        /\ mem'.degraded = "probe" => mem.degraded = "probe" \/ mem'.errors >= Threshold
    BY <2>1, <2>2, MarkIs
  <2>4. HasErrors(results) \in BOOLEAN
    BY DEF HasErrors
  <2>5. streak' \in 0..Threshold
    BY <1>0, <2>1, <2>4, CountIs
  <2> QED BY <1>1, <2>1, <2>3, <2>5
<1>4. CASE ~guardRuns
  BY <1>0, <1>1, <1>4 DEF maybeRunGuard, Goto
<1> QED BY <1>2, <1>3, <1>4, Zenon DEF maybeRunGuard, runScaleDownGuard

-----------------------------------------------------------------------------
(* The status patch.                                                       *)

LEMMA RecomputeIs ==
  ASSUME NEW s \in Status
  PROVE  /\ recomputeReady(s) \in Status
         /\ recomputeReady(s).errors = s.errors /\ recomputeReady(s).degraded = s.degraded
         /\ "Ready" \in recomputeReady(s).on <=>
              /\ s.degraded = None
              /\ s.on \cap readyAggregateFailures = {}
              /\ readyAggregatePositives \subseteq s.on
         /\ recomputeReady(s).on \ {"Ready"} = s.on \ {"Ready"}
<1>1. /\ On(s, {"Ready"}) \in Status /\ On(s, {"Ready"}).on = s.on \cup {"Ready"}
      /\ Off(s, {"Ready"}) \in Status /\ Off(s, {"Ready"}).on = s.on \ {"Ready"}
      /\ On(s, {"Ready"}).errors = s.errors /\ Off(s, {"Ready"}).errors = s.errors
      /\ On(s, {"Ready"}).degraded = s.degraded /\ Off(s, {"Ready"}).degraded = s.degraded
  BY OnOff, NamesHave
<1> QED BY <1>1 DEF recomputeReady

\* A patch stores the whole list it computed or leaves the whole list alone,
\* and stores the counter only when the pass changed it.
LEMMA PatchIs ==
  ASSUME TypeOK, NEW b \in Status, NEW s \in Status, NEW t \in MergePatched(b, s)
  PROVE  /\ t \in Status
         /\ t.errors = IF s.errors # b.errors THEN s.errors ELSE stored.errors
         /\ \/ t.on = s.on /\ t.degraded = s.degraded
            \/ t.on = stored.on /\ t.degraded = stored.degraded
<1>1. PICK n : n = IF s.errors # b.errors THEN s.errors ELSE stored.errors
  OBVIOUS
<1>2. stored \in Status /\ n \in 0..Threshold
  BY <1>1, StatusIs DEF TypeOK
<1>3. t = [s EXCEPT !.errors = n] \/ t = [stored EXCEPT !.errors = n]
  BY <1>1 DEF MergePatched
<1>4. CASE t = [s EXCEPT !.errors = n]
  BY <1>1, <1>2, <1>4, WithErrors, ZenonT(40)
<1>5. CASE t = [stored EXCEPT !.errors = n]
  BY <1>1, <1>2, <1>5, WithErrors, ZenonT(40)
<1> QED BY <1>3, <1>4, <1>5, Zenon

LEMMA ZeroStatus ==
  LET z == [on |-> {}, degraded |-> None, errors |-> 0] IN
  z \in Status /\ z.on = {} /\ z.degraded = None /\ z.errors = 0
BY StatusIs, ConditionsAssumption

-----------------------------------------------------------------------------
(* Types.                                                                  *)

LEMMA InitType == Init => TypeOK
<1> SUFFICES ASSUME Init PROVE TypeOK
  OBVIOUS
<1>1. stored \in Status
  BY ZeroStatus DEF Init
<1>2. /\ streak \in 0..Threshold
      /\ ops \in 0..MaxOps /\ sinks \in 0..MaxSinks /\ faults \in 0..MaxFaults
  BY ConditionsAssumption DEF Init
<1> QED BY <1>1, <1>2, Zenon DEF Init, TypeOK

LEMMA NextType == TypeOK /\ [Next]_vars => TypeOK'
<1> SUFFICES ASSUME TypeOK, [Next]_vars PROVE TypeOK'
  OBVIOUS
<1>1. CASE Reconcile
  BY <1>1 DEF Reconcile, TypeOK, world
<1>2. CASE maybeRunGuard
  BY <1>2, GuardStep DEF TypeOK, world
<1>3. CASE PlainStage
  <2>1. /\ mem' \in Status /\ pc' \in Stage /\ Frame /\ ksvc' \in BOOLEAN
        /\ service' \in {service, None}
    BY <1>3, StageStep DEF Plain
  <2> QED BY <2>1 DEF TypeOK, Frame, Stage
<1>4. CASE patchStatus
  <2>1. recomputeReady(mem) \in Status /\ base \in Status
    BY RecomputeIs DEF TypeOK
  <2>2. stored' \in Status
    <3>1. CASE stored' \in MergePatched(base, recomputeReady(mem))
      BY <2>1, <3>1, PatchIs
    <3> QED BY <1>4, <3>1 DEF patchStatus, TypeOK
  <2>3. faults' \in 0..MaxFaults
    BY <1>4, ConditionsAssumption DEF patchStatus, TypeOK
  <2>4. base' \in Status /\ mem' \in Status
    BY <1>4, ZeroStatus DEF patchStatus
  <2> QED BY <1>4, <2>2, <2>3, <2>4 DEF patchStatus, TypeOK, world
<1>5. CASE SinkReads
  BY <1>5, ConditionsAssumption DEF SinkReads, TypeOK, world, passVars
<1>6. CASE SinkWrites
  <2>1. sink \in Status /\ stored.errors \in 0..Threshold
    BY <1>6, StatusIs DEF SinkWrites, TypeOK
  <2>2. Degrade(sink, "flush") \in Status
    BY <2>1, DegradeIs DEF Cause
  <2>3. stored' \in Status
    BY <1>6, <2>1, <2>2, WithErrors DEF SinkWrites
  <2> QED BY <1>6, <2>3 DEF SinkWrites, TypeOK, world, passVars
<1>7. CASE Sync
  BY <1>7 DEF Sync, TypeOK, world, passVars
<1>8. CASE Change
  <2>1. ops' \in 0..MaxOps
    BY <1>8, ConditionsAssumption DEF Change, TypeOK
  <2>2. /\ broken' \subseteq Stages /\ source' \in BOOLEAN /\ service' \in Services \cup {None}
        /\ pod' \in Replies \cup {None}
    BY <1>8, Zenon DEF Change, TypeOK
  <2> QED BY <1>8, <2>1, <2>2 DEF Change, TypeOK, passVars
<1>9. CASE UNCHANGED vars
  BY <1>9 DEF vars, TypeOK, world, passVars
<1> QED
  BY <1>1, <1>2, <1>3, <1>4, <1>5, <1>6, <1>7, <1>8, <1>9, Zenon DEF Next, Pass, PlainStage

\* Every variable keeps its type.
THEOREM ConditionsTypeCorrect == Spec => []TypeOK
BY InitType, NextType, PTL DEF Spec

-----------------------------------------------------------------------------
(* Ready.                                                                  *)

\* ReadyConsistent only speaks of the stored status, which the patch at the end
\* of a pass and the failure sink write.
ReadyInv == TypeOK /\ (sinks = 0 => sink = None) /\ ReadyConsistent

\* Until the failure sink is called, the stored Ready agrees with the conditions
\* it aggregates, for any stages, any lag of the cache and any lost patches.
THEOREM ReadyAgrees == Spec => []ReadyConsistent
<1>1. Init => ReadyInv
  <2> SUFFICES ASSUME Init PROVE ReadyInv
    OBVIOUS
  <2>1. stored.on = {} /\ sink = None /\ sinks = 0
    BY ZeroStatus DEF Init
  <2>2. ReadyConsistent
    BY <2>1 DEF ReadyConsistent, readyAggregatePositives
  <2> QED BY <2>1, <2>2, InitType DEF ReadyInv
<1>2. ReadyInv /\ [Next]_vars => ReadyInv'
  <2> SUFFICES ASSUME ReadyInv, [Next]_vars PROVE ReadyInv'
    OBVIOUS
  <2>0. TypeOK /\ TypeOK' /\ (sinks = 0 => sink = None) /\ ReadyConsistent
    BY NextType DEF ReadyInv
  <2>1. CASE UNCHANGED <<stored, traffic, sink, sinks>>
    BY <2>0, <2>1 DEF ReadyInv, ReadyConsistent, readyAggregatePositives
  <2>2. CASE patchStatus
    <3>1. UNCHANGED <<traffic, sink, sinks>>
      BY <2>2 DEF patchStatus, world
    <3>2. CASE stored' \in MergePatched(base, recomputeReady(mem))
      <4>1. mem \in Status /\ base \in Status
        BY <2>0 DEF TypeOK
      <4>2. PICK s \in Status : s = recomputeReady(mem)
        BY <4>1, RecomputeIs
      <4>3. "Ready" \in s.on <=> /\ s.degraded = None
                                 /\ s.on \cap readyAggregateFailures = {}
                                 /\ readyAggregatePositives \subseteq s.on
        BY <4>1, <4>2, RecomputeIs DEF readyAggregateFailures, readyAggregatePositives
      <4>4. \/ stored'.on = s.on /\ stored'.degraded = s.degraded
            \/ stored'.on = stored.on /\ stored'.degraded = stored.degraded
        BY <2>0, <3>2, <4>1, <4>2, PatchIs
      <4>5. ReadyConsistent'
        BY <2>0, <3>1, <4>3, <4>4
           DEF ReadyConsistent, readyAggregateFailures, readyAggregatePositives
      <4> QED BY <2>0, <3>1, <4>5 DEF ReadyInv
    <3>3. CASE UNCHANGED stored
      BY <2>1, <3>1, <3>3
    <3> QED BY <2>2, <3>2, <3>3 DEF patchStatus
  <2>3. CASE SinkReads \/ SinkWrites
    <3>1. sinks' # 0
      BY <2>0, <2>3, ConditionsAssumption DEF SinkReads, SinkWrites, TypeOK
    <3> QED BY <2>0, <3>1 DEF ReadyInv, ReadyConsistent
  <2>4. CASE maybeRunGuard
    BY <2>0, <2>1, <2>4, GuardStep DEF world
  <2>5. CASE PlainStage
    BY <2>0, <2>1, <2>5, StageStep DEF Frame
  <2>6. CASE Reconcile \/ Sync \/ Change \/ UNCHANGED vars
    BY <2>1, <2>6 DEF Reconcile, Sync, Change, vars, world
  <2> QED BY <2>2, <2>3, <2>4, <2>5, <2>6, Zenon DEF Next, Pass, PlainStage
<1>3. ReadyInv => ReadyConsistent
  BY DEF ReadyInv
<1> QED BY <1>1, <1>2, <1>3, PTL DEF Spec

-----------------------------------------------------------------------------
(* Degraded.                                                               *)

\* Between passes the stored counter is the history; during one the status in
\* memory counts along, against a base that is still what is stored.  The guard
\* may reset the counter, so what it finds must not rest on the counter.
EarnedInv ==
  /\ TypeOK /\ (sinks = 0 => sink = None)
  /\ Undisturbed /\ pc = "idle" => stored.errors = streak
  /\ Undisturbed /\ pc # "idle" =>
       /\ base = stored /\ mem.errors = streak
       /\ mem.degraded = "probe" =>
            stored.degraded = "probe" \/ (pc \notin {"getSource", "guard"} /\ streak >= Threshold)

\* As long as no pass has read a stale status, no status patch was lost and the
\* failure sink was not called, Degraded is raised for the guard only after as
\* many errored rounds in a row as the threshold says.
THEOREM DegradedOnlyEarned == Spec => DegradedEarned
<1> DEFINE Raised == Undisturbed /\ stored'.degraded = "probe" /\ stored.degraded # "probe"
<1>1. Init => EarnedInv
  <2> SUFFICES ASSUME Init PROVE EarnedInv
    OBVIOUS
  <2> QED BY InitType, ZeroStatus DEF Init, EarnedInv
<1>2. ASSUME EarnedInv, [Next]_vars
      PROVE  EarnedInv' /\ (Raised => streak >= Threshold)
  <2>0. TypeOK /\ TypeOK' /\ (sinks = 0 => sink = None)
    BY <1>2, NextType DEF EarnedInv
  <2>1. CASE Reconcile
    <3>1. /\ pc = "idle" /\ pc' = "getSource" /\ mem' = base' /\ (~stale' => base' = stored /\ ~stale)
          /\ UNCHANGED <<stored, streak, sink, sinks, faults>>
      BY <2>0, <2>1, Zenon DEF Reconcile, TypeOK
    <3> QED BY <1>2, <2>0, <3>1 DEF EarnedInv, Undisturbed
  <2>2. CASE maybeRunGuard
    <3>1. /\ pc = "guard" /\ pc' = "translate"
          /\ UNCHANGED <<stored, base, stale, sink, sinks, faults>>
          /\ mem.errors = streak => mem'.errors = streak'
          /\ mem'.degraded = "probe" => mem.degraded = "probe" \/ mem'.errors >= Threshold
      BY <2>0, <2>2, GuardStep
    <3> QED BY <1>2, <2>0, <3>1 DEF EarnedInv, Undisturbed
  <2>3. CASE PlainStage
    <3>1. /\ pc \in Stage /\ pc' \in Stage
          /\ pc' \in {"getSource", "guard"} => pc = "getSource"
          /\ UNCHANGED <<stored, base, streak, stale, sink, sinks, faults>>
          /\ mem'.errors = mem.errors /\ (mem'.degraded = "probe" => mem.degraded = "probe")
      BY <2>0, <2>3, StageStep DEF Frame, Plain
    <3> QED BY <1>2, <2>0, <3>1 DEF EarnedInv, Undisturbed, Stage
  <2>4. CASE patchStatus
    <3>1. /\ pc = "patchStatus" /\ pc' = "idle" /\ UNCHANGED <<streak, stale, sink, sinks>>
      BY <2>4 DEF patchStatus
    <3>2. Undisturbed =>
            /\ base = stored /\ mem.errors = streak
            /\ mem.degraded = "probe" => stored.degraded = "probe" \/ streak >= Threshold
      BY <1>2, <3>1 DEF EarnedInv
    <3>3. mem \in Status /\ base \in Status
      BY <2>0 DEF TypeOK
    <3>4. PICK s \in Status : /\ s = recomputeReady(mem)
                              /\ s.errors = mem.errors /\ s.degraded = mem.degraded
      BY <3>3, RecomputeIs
    <3>5. CASE stored' \in MergePatched(base, recomputeReady(mem)) /\ UNCHANGED faults
      <4>1. /\ stored'.errors = IF s.errors # base.errors THEN s.errors ELSE stored.errors
            /\ stored'.degraded \in {s.degraded, stored.degraded}
        BY <2>0, <3>3, <3>4, <3>5, PatchIs
      <4> QED BY <2>0, <3>1, <3>2, <3>4, <3>5, <4>1 DEF EarnedInv, Undisturbed
    <3>6. CASE faults' = faults + 1 /\ UNCHANGED stored
      <4>1. faults' # 0
        BY <2>0, <3>6, ConditionsAssumption DEF TypeOK
      <4> QED BY <2>0, <3>1, <3>6, <4>1 DEF EarnedInv, Undisturbed
    <3> QED BY <2>4, <3>5, <3>6 DEF patchStatus
  <2>5. CASE SinkReads \/ SinkWrites
    <3>1. sinks' # 0 /\ (SinkReads => UNCHANGED stored) /\ (SinkWrites => sinks # 0)
      BY <2>0, <2>5, ConditionsAssumption DEF SinkReads, SinkWrites, TypeOK
    <3> QED BY <2>0, <2>5, <3>1 DEF EarnedInv, Undisturbed
  <2>6. CASE Sync \/ Change \/ UNCHANGED vars
    <3>1. UNCHANGED <<stored, pc, base, mem, streak, stale, sink, sinks, faults>>
      BY <2>6 DEF Sync, Change, vars, passVars
    <3> QED BY <1>2, <2>0, <3>1 DEF EarnedInv, Undisturbed
  <2> QED BY <1>2, <2>1, <2>2, <2>3, <2>4, <2>5, <2>6, Zenon DEF Next, Pass, PlainStage
<1>3. EarnedInv /\ [Next]_vars => EarnedInv'
  BY <1>2
<1>4. EarnedInv /\ [Next]_vars => [Raised => streak >= Threshold]_vars
  BY <1>2
<1> QED BY <1>1, <1>3, <1>4, PTL DEF Spec, DegradedEarned
=============================================================================
