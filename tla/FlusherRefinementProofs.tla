----------------------- MODULE FlusherRefinementProofs -----------------------
(***************************************************************************)
(* The counters of Flusher (the slots taken, the inflight gauges and the   *)
(* number of workers Stop waits for), and: Flusher implements              *)
(* DecisionQueue and, seen from any one KSvc, KSvcLane, for every value of  *)
(* the constants.                                                          *)
(***************************************************************************)
EXTENDS FlusherRefinement, FlusherProofs, FiniteSetTheorems

\* The three counters count what they stand for.
CounterInv ==
  /\ wg = Cardinality(ActiveCalls)
  /\ \A ns \in Namespaces :
       /\ sem[ns] = Cardinality(Holders(ns))
       /\ sem[ns] <= MaxInFlight
       /\ inflight[ns] = Cardinality(Invokers(ns))

-----------------------------------------------------------------------------
(* The counters: wg, the slots of the semaphores, the inflight gauges.     *)

Bit(b) == IF b THEN 1 ELSE 0

\* The size of a set of calls after c may have joined or left it.
LEMMA CountMove ==
  ASSUME NEW S \in SUBSET Calls, NEW T \in SUBSET Calls, NEW c \in Calls,
         \A e \in Calls : e # c => (e \in T <=> e \in S)
  PROVE  /\ Cardinality(S) \in Nat /\ Cardinality(T) \in Nat
         /\ Cardinality(T) = Cardinality(S) + Bit(c \in T) - Bit(c \in S)
<1>1. IsFiniteSet(S) /\ IsFiniteSet(T)
  BY FlusherAssumption, FS_Subset, Zenon
<1>2. Cardinality(S) \in Nat /\ Cardinality(T) \in Nat
  BY <1>1, FS_CardinalityType, Zenon
<1>3. CASE c \in T /\ c \notin S
  <2>1. T = S \cup {c}
    BY <1>3, Zenon
  <2>2. QED
    BY <1>1, <1>2, <1>3, <2>1, FS_AddElement DEF Bit
<1>4. CASE c \notin T /\ c \in S
  <2>1. T = S \ {c}
    BY <1>4, Zenon
  <2>2. QED
    BY <1>1, <1>2, <1>4, <2>1, FS_RemoveElement DEF Bit
<1>5. CASE c \in T <=> c \in S
  <2>1. T = S
    BY <1>5
  <2>2. QED
    BY <1>2, <1>5, <2>1 DEF Bit
<1>6. QED
  BY <1>3, <1>4, <1>5, Zenon

\* A step of the worker of c that moves each counter by what the worker gains
\* or gives back.
WorkerMoves(c) ==
  /\ dec' = dec
  /\ \A e \in Calls : e # c => worker'[e] = worker[e]
  /\ wg' = wg + Bit(Active(c)') - Bit(Active(c))
  /\ \A ns \in Namespaces : ns # NsOf(c) =>
       sem'[ns] = sem[ns] /\ inflight'[ns] = inflight[ns]
  /\ sem'[NsOf(c)] = sem[NsOf(c)] + Bit(Holding(c)') - Bit(Holding(c))
  /\ inflight'[NsOf(c)] = inflight[NsOf(c)] + Bit(Invoking(c)') - Bit(Invoking(c))
  /\ sem'[NsOf(c)] <= MaxInFlight

LEMMA CounterMove ==
  ASSUME TypeOK, TypeOK', CounterInv, NEW c \in Calls, WorkerMoves(c)
  PROVE  CounterInv'
<1> USE NsOfType DEF WorkerMoves
<1>1. wg' = Cardinality(ActiveCalls')
  <2>1. /\ ActiveCalls \in SUBSET Calls /\ ActiveCalls' \in SUBSET Calls
        /\ \A e \in Calls : e # c => (e \in ActiveCalls' <=> e \in ActiveCalls)
        /\ c \in ActiveCalls <=> Active(c)
        /\ c \in ActiveCalls' <=> Active(c)'
    BY Zenon DEF ActiveCalls, Active
  <2>2. Cardinality(ActiveCalls') = Cardinality(ActiveCalls)
          + Bit(c \in ActiveCalls') - Bit(c \in ActiveCalls)
    BY <2>1, CountMove
  <2>3. QED
    BY <2>1, <2>2, Zenon DEF CounterInv, Bit
<1>2. ASSUME NEW ns \in Namespaces
      PROVE  /\ sem'[ns] = Cardinality(Holders(ns)') /\ sem'[ns] <= MaxInFlight
             /\ inflight'[ns] = Cardinality(Invokers(ns)')
  <2>1. /\ Holders(ns) \in SUBSET Calls /\ Holders(ns)' \in SUBSET Calls
        /\ \A e \in Calls : e # c => (e \in Holders(ns)' <=> e \in Holders(ns))
        /\ c \in Holders(ns) <=> ns = NsOf(c) /\ Holding(c)
        /\ c \in Holders(ns)' <=> ns = NsOf(c) /\ Holding(c)'
    BY Zenon DEF Holders, Holding, NsOf
  <2>2. /\ Invokers(ns) \in SUBSET Calls /\ Invokers(ns)' \in SUBSET Calls
        /\ \A e \in Calls : e # c => (e \in Invokers(ns)' <=> e \in Invokers(ns))
        /\ c \in Invokers(ns) <=> ns = NsOf(c) /\ Invoking(c)
        /\ c \in Invokers(ns)' <=> ns = NsOf(c) /\ Invoking(c)'
    BY Zenon DEF Invokers, Invoking, NsOf
  <2>3. /\ Cardinality(Holders(ns)) \in Nat
        /\ Cardinality(Holders(ns)') = Cardinality(Holders(ns))
             + Bit(c \in Holders(ns)') - Bit(c \in Holders(ns))
    BY <2>1, CountMove
  <2>4. /\ Cardinality(Invokers(ns)) \in Nat
        /\ Cardinality(Invokers(ns)') = Cardinality(Invokers(ns))
             + Bit(c \in Invokers(ns)') - Bit(c \in Invokers(ns))
    BY <2>2, CountMove
  <2>5. /\ sem[ns] = Cardinality(Holders(ns)) /\ sem[ns] <= MaxInFlight
        /\ inflight[ns] = Cardinality(Invokers(ns))
    BY Zenon DEF CounterInv
  <2>6. CASE ns = NsOf(c)
    <3>1. /\ sem'[ns] = sem[ns] + Bit(Holding(c)') - Bit(Holding(c))
          /\ inflight'[ns] = inflight[ns] + Bit(Invoking(c)') - Bit(Invoking(c))
          /\ sem'[ns] <= MaxInFlight
      BY <2>6, Zenon
    <3>2. /\ Bit(c \in Holders(ns)) = Bit(Holding(c))
          /\ Bit(c \in Holders(ns)') = Bit(Holding(c)')
      BY <2>1, <2>6, Zenon DEF Bit
    <3>3. /\ Bit(c \in Invokers(ns)) = Bit(Invoking(c))
          /\ Bit(c \in Invokers(ns)') = Bit(Invoking(c)')
      BY <2>2, <2>6, Zenon DEF Bit
    <3>4. QED
      BY <2>3, <2>4, <2>5, <3>1, <3>2, <3>3
  <2>7. CASE ns # NsOf(c)
    <3>1. sem'[ns] = sem[ns] /\ inflight'[ns] = inflight[ns]
      BY <2>7, Zenon
    <3>2. /\ Bit(c \in Holders(ns)) = 0 /\ Bit(c \in Holders(ns)') = 0
          /\ Bit(c \in Invokers(ns)) = 0 /\ Bit(c \in Invokers(ns)') = 0
      BY <2>1, <2>2, <2>7, Zenon DEF Bit
    <3>3. QED
      BY <2>3, <2>4, <2>5, <3>1, <3>2
  <2>8. QED
    BY <2>6, <2>7, Zenon
<1>3. QED
  BY <1>1, <1>2, Zenon DEF CounterInv

LEMMA CounterInvInit == Init => CounterInv
<1> SUFFICES ASSUME Init PROVE CounterInv
  OBVIOUS
<1>1. ActiveCalls = {}
  BY Zenon DEF Init, ActiveCalls, Active
<1>2. \A ns \in Namespaces : Holders(ns) = {} /\ Invokers(ns) = {}
  BY Zenon DEF Init, Holders, Holding, Invokers, Invoking
<1>3. Cardinality({}) = 0
  BY FS_EmptySet, Zenon
<1>4. wg = 0 /\ \A ns \in Namespaces : sem[ns] = 0 /\ inflight[ns] = 0
  BY Zenon DEF Init
<1>5. QED
  BY <1>1, <1>2, <1>3, <1>4, FlusherAssumption DEF CounterInv

LEMMA CounterInvStep ==
  TypeOK /\ TypeOK' /\ Placement /\ CounterInv /\ [Next]_vars => CounterInv'
<1> SUFFICES ASSUME TypeOK, TypeOK', Placement, CounterInv, [Next]_vars
             PROVE  CounterInv'
  OBVIOUS
<1> USE NsOfType, FlusherAssumption
<1>0. /\ \A ns \in Namespaces : sem[ns] <= MaxInFlight /\ sem[ns] \in Int
      /\ inflight \in [Namespaces -> Int] /\ sem \in [Namespaces -> Int]
      /\ wg \in Int /\ worker \in [Calls -> WorkerState]
  BY Zenon DEF CounterInv, TypeOK
<1>1. ASSUME UNCHANGED <<dec, worker, wg, sem, inflight>>
      PROVE  CounterInv'
  <2>1. ActiveCalls' = ActiveCalls
    BY <1>1, Zenon DEF ActiveCalls, Active
  <2>2. \A ns \in Namespaces : Holders(ns)' = Holders(ns) /\ Invokers(ns)' = Invokers(ns)
    BY <1>1, Zenon DEF Holders, Holding, Invokers, Invoking, NsOf
  <2>3. QED
    BY <1>1, <2>1, <2>2, Zenon DEF CounterInv
<1>2. ASSUME NEW c \in Calls, Enqueue(c) \/ enqueue(c) \/ Fire(c) \/ flushSlow(c)
      PROVE  CounterInv'
  BY <1>1, <1>2, Zenon DEF Enqueue, enqueue, Fire, flushSlow, runVars
<1>3. ASSUME NEW c \in Calls, NEW d \in Calls, dispatch(c, d)
      PROVE  CounterInv'
  <2>1. worker[d] = "none"
    BY <1>3, Zenon DEF dispatch, Placement, FlushedAtMostOnce, Drained
  <2>2. WorkerMoves(d)
    BY <1>0, <1>3, <2>1
       DEF dispatch, WorkerMoves, Bit, Active, Holding, Invoking
  <2>3. QED
    BY <2>2, CounterMove, Zenon
<1>4. ASSUME NEW c \in Calls, acquire(c)
      PROVE  CounterInv'
  <2>1. WorkerMoves(c)
    BY <1>0, <1>4 DEF acquire, WorkerMoves, Bit, Active, Holding, Invoking
  <2>2. QED
    BY <2>1, CounterMove, Zenon
<1>5. ASSUME NEW c \in Calls, giveUp(c)
      PROVE  CounterInv'
  <2>1. WorkerMoves(c)
    BY <1>0, <1>5 DEF giveUp, WorkerMoves, Bit, Active, Holding, Invoking
  <2>2. QED
    BY <2>1, CounterMove
<1>6. ASSUME NEW c \in Calls, startPatch(c)
      PROVE  CounterInv'
  <2>1. WorkerMoves(c)
    BY <1>0, <1>6 DEF startPatch, WorkerMoves, Bit, Active, Holding, Invoking
  <2>2. QED
    BY <2>1, CounterMove
<1>7. ASSUME NEW c \in Calls, PatchLands(c)
      PROVE  CounterInv'
  <2>1. WorkerMoves(c)
    BY <1>0, <1>7 DEF PatchLands, WorkerMoves, Bit, Active, Holding, Invoking
  <2>2. QED
    BY <2>1, CounterMove
<1>8. ASSUME NEW c \in Calls, patchOK(c)
      PROVE  CounterInv'
  <2>1. WorkerMoves(c)
    BY <1>0, <1>8
       DEF patchOK, leave, WorkerMoves, Bit, Active, Holding, Invoking
  <2>2. QED
    BY <2>1, CounterMove
<1>9. ASSUME NEW c \in Calls, patchFailed(c)
      PROVE  CounterInv'
  <2>1. ASSUME worker' = [worker EXCEPT ![c] = "escalating"] /\ UNCHANGED <<sem, wg>>
        PROVE  WorkerMoves(c)
    BY <1>0, <1>9, <2>1
       DEF patchFailed, WorkerMoves, Bit, Active, Holding, Invoking
  <2>2. ASSUME leave(c)
        PROVE  WorkerMoves(c)
    BY <1>0, <1>9, <2>2
       DEF patchFailed, leave, WorkerMoves, Bit, Active, Holding, Invoking
  <2>3. WorkerMoves(c)
    BY <1>9, <2>1, <2>2, Zenon DEF patchFailed
  <2>4. QED
    BY <2>3, CounterMove
<1>10. ASSUME NEW c \in Calls, sinkReturns(c)
       PROVE  CounterInv'
  <2>1. WorkerMoves(c)
    BY <1>0, <1>10
       DEF sinkReturns, leave, WorkerMoves, Bit, Active, Holding, Invoking
  <2>2. QED
    BY <2>1, CounterMove
<1>11. CASE Stop \/ cancel \/ Wait \/ \E ns \in Namespaces : stopTimer(ns)
  BY <1>1, <1>11, Zenon DEF Stop, cancel, Wait, stopTimer, runVars
<1>12. CASE UNCHANGED vars
  BY <1>1, <1>12, Zenon DEF vars, runVars
<1>13. QED
  BY <1>2, <1>3, <1>4, <1>5, <1>6, <1>7, <1>8, <1>9, <1>10, <1>11, <1>12
     DEF Next

\* The counters are exact in every reachable state.
LEMMA Counters == Spec => [](TypeOK /\ CounterInv)
<1>1. Init => Placement /\ CounterInv
  BY PlacementInit, CounterInvInit, Zenon
<1>2. TypeOK /\ TypeOK' /\ Placement /\ CounterInv /\ [Next]_vars
        => Placement' /\ CounterInv'
  BY PlacementStep, CounterInvStep, Zenon
<1>3. QED
  BY <1>1, <1>2, TypeCorrect, PTL DEF Spec

\* At most MaxInFlight Patcher invocations run at once in a namespace and the
\* inflight gauge is their number.  A worker invokes the Patcher only while it
\* holds a slot, and the slots taken never exceed the semaphore's capacity.
THEOREM ConcurrencyCap == Spec => []InFlightBound
<1>1. TypeOK /\ CounterInv => InFlightBound
  <2> SUFFICES ASSUME TypeOK, CounterInv, NEW ns \in Namespaces
               PROVE  /\ inflight[ns] = Cardinality(Invokers(ns))
                      /\ Cardinality(Invokers(ns)) <= MaxInFlight
    BY Zenon DEF InFlightBound
  <2>1. Invokers(ns) \subseteq Holders(ns) /\ Holders(ns) \in SUBSET Calls
    BY Zenon DEF Invokers, Invoking, Holders, Holding
  <2>2. IsFiniteSet(Holders(ns))
    BY <2>1, FlusherAssumption, FS_Subset, Zenon
  <2>3. /\ Cardinality(Invokers(ns)) <= Cardinality(Holders(ns))
        /\ Cardinality(Invokers(ns)) \in Nat /\ Cardinality(Holders(ns)) \in Nat
    BY <2>1, <2>2, FS_Subset, FS_CardinalityType, Zenon
  <2>4. QED
    BY <2>3, FlusherAssumption DEF CounterInv
<1>2. QED
  BY <1>1, Counters, PTL

\* Stop returns only when every worker dispatched so far has finished.
THEOREM StopWaits == Spec => StopDrainsWorkers
<1>1. TypeOK /\ CounterInv /\ [Next]_vars
        => [stop # "returned" /\ stop' = "returned" => ActiveCalls = {}]_vars
  <2> SUFFICES ASSUME CounterInv, Next, stop # "returned", stop' = "returned"
               PROVE  ActiveCalls = {}
    BY SMTT(30)
  <2>1. Wait
    BY Zenon
       DEF Next, Enqueue, enqueue, Fire, flushSlow, dispatch, acquire, giveUp,
           startPatch, PatchLands, patchOK, patchFailed, sinkReturns, Stop,
           stopTimer, cancel, mgrVars
  <2>2. Cardinality(ActiveCalls) = 0
    BY <2>1, Zenon DEF Wait, CounterInv
  <2>3. IsFiniteSet(ActiveCalls)
    BY FlusherAssumption, FS_Subset, Zenon DEF ActiveCalls
  <2>4. QED
    BY <2>2, <2>3, FS_EmptySet, Zenon
<1>2. QED
  BY <1>1, Counters, PTL DEF Spec, StopDrainsWorkers

-----------------------------------------------------------------------------
(* The refinement.                                                         *)

\* What the steps of the refinement rest on.
RefInv ==
  /\ Placement /\ OrderInv /\ CounterInv
  /\ stop \in {"waiting", "returned"} <=> cancelled

LEMMA ModeStep ==
  ASSUME [Next]_vars, stop \in {"waiting", "returned"} <=> cancelled
  PROVE  /\ (stop \in {"waiting", "returned"} <=> cancelled)'
         /\ mode' = mode \/ cancel \/ Wait
<1>1. CASE UNCHANGED <<stop, cancelled>>
  BY <1>1, Zenon DEF mode
<1>2. CASE ~UNCHANGED <<stop, cancelled>>
  <2>1. Stop \/ cancel \/ Wait
    BY <1>2, Zenon
       DEF Next, vars, Enqueue, enqueue, Fire, flushSlow, dispatch, acquire, giveUp,
           startPatch, PatchLands, patchOK, patchFailed, sinkReturns, stopTimer, mgrVars
  <2>2. QED
    BY <2>1 DEF Stop, cancel, Wait, mode
<1>3. QED
  BY <1>1, <1>2, Zenon

LEMMA PhaseDomain ==
  /\ phase = [c \in Calls |-> phase[c]]
  /\ phase' = [c \in Calls |-> phase'[c]]
BY Zenon DEF phase

\* A step that leaves every decision where it is leaves its phase.
LEMMA PhaseKept ==
  ASSUME \A e \in Calls :
           /\ worker'[e] = "done" <=> worker[e] = "done"
           /\ Holding(e)' <=> Holding(e)
           /\ (worker[e] = "waiting" \/ Queued(e) \/ Drained(e))'
                <=> (worker[e] = "waiting" \/ Queued(e) \/ Drained(e))
           /\ call'[e] = "accepted" <=> call[e] = "accepted"
  PROVE  phase' = phase
BY Zenon DEF phase

\* A step of one worker changes the phase of its own decision only.
LEMMA PhaseOfWorker ==
  ASSUME TypeOK, UNCHANGED <<dec, mgrVars, laneVars>>, NEW c \in Calls, NEW w,
         worker' = [worker EXCEPT ![c] = w], w # "none", worker[c] # "none"
  PROVE  phase' = [phase EXCEPT ![c] =
                     IF w = "done" THEN "done"
                     ELSE IF w \in {"acquired", "patching", "written", "escalating"}
                     THEN "running"
                     ELSE IF w = "waiting" \/ Queued(c) \/ Drained(c) THEN "waiting"
                     ELSE IF call[c] = "accepted" THEN "dropped"
                     ELSE "new"]
<1>1. \A e \in Calls : worker'[e] = IF e = c THEN w ELSE worker[e]
  BY Zenon DEF TypeOK
<1>2. \A e \in Calls : (Queued(e)' <=> Queued(e)) /\ (Drained(e)' <=> Drained(e))
  BY Zenon DEF laneVars, Queued, Drained
<1>3. call' = call
  BY Zenon DEF laneVars
<1>4. QED
  BY <1>1, <1>2, <1>3, ZenonT(30) DEF phase, Holding

-----------------------------------------------------------------------------
(* The lanes.                                                              *)

\* Where the decisions are after a lane has accepted the one of c: those of the
\* same key that were queued are not queued any more.
LEMMA EnqueueMoves ==
  ASSUME TypeOK, Placement, NEW c \in Calls, enqueue(c)
  PROVE  \A e \in Calls :
           (Queued(e)' \/ Drained(e)') <=>
             \/ e = c
             \/ Drained(e)
             \/ Queued(e) /\ dec[e].key # dec[c].key
<1>1. \A e \in Calls : Drained(e)' <=> e \in batch'[c] \/ Drained(e)
  BY EnqueueEffect DEF Drained
<1>2. QED
  BY <1>1, EnqueueEffect

LEMMA EnqueueRefines ==
  ASSUME TypeOK, Placement, OrderInv, NEW c \in Calls, enqueue(c), mode' = mode
  PROVE  Queue!Next
<1>1. /\ dec' = dec /\ worker' = worker
      /\ \A e \in Calls : call'[e] = "accepted" <=> e = c \/ call[e] = "accepted"
      /\ phase[c] = "new"
      /\ ~Queued(c) /\ ~Drained(c) /\ worker[c] = "none"
  BY Zenon DEF enqueue, runVars, TypeOK, Placement, Untouched, phase, Holding
<1>3. CASE pending[dec[c].key] = None
  <2>1. \A e \in Calls : Queued(e) => dec[e].key # dec[c].key
    BY <1>3, FlusherAssumption, Zenon DEF Queued
  <2>2. \A e \in Calls : e # c => (Queued(e)' \/ Drained(e)' <=> Queued(e) \/ Drained(e))
    BY <2>1, EnqueueMoves, Zenon
  <2>3. Queued(c)' \/ Drained(c)'
    BY EnqueueMoves, Zenon
  <2>4. phase' = [phase EXCEPT ![c] = "waiting"]
    <3>1. phase'[c] = "waiting"
      BY <1>1, <2>3, Zenon DEF phase, Holding
    <3>2. \A e \in Calls : e # c => phase'[e] = phase[e]
      BY <1>1, <2>2, Zenon DEF phase, Holding
    <3>3. QED
      BY <3>1, <3>2, PhaseDomain, Zenon
  <2>5. QED
    BY <1>1, <2>4, Zenon DEF Queue!Next, Queue!Submit
<1>4. CASE pending[dec[c].key] # None
  <2>0. PICK d \in Calls : d = pending[dec[c].key]
    BY <1>4, NsOfType DEF TypeOK
  <2>1. /\ d # c /\ dec[d].key = dec[c].key /\ dec[d].min = 0
        /\ Queued(d) /\ ~Drained(d) /\ worker[d] = "none" /\ call[d] = "accepted"
    BY <1>1, <1>4, <2>0, NsOfType
       DEF TypeOK, Placement, KeysMatch, FlushedAtMostOnce, Untouched, OrderInv, Queued
  <2>2. \A e \in Calls : Queued(e) /\ dec[e].key = dec[c].key => e = d
    BY <2>0, Zenon DEF Queued
  <2>3. \A e \in Calls : e # c /\ e # d => (Queued(e)' \/ Drained(e)' <=> Queued(e) \/ Drained(e))
    BY <2>2, EnqueueMoves, Zenon
  <2>4. (Queued(c)' \/ Drained(c)') /\ ~Queued(d)' /\ ~Drained(d)'
    BY <2>1, EnqueueMoves, Zenon
  <2>5. phase[d] = "waiting"
    BY <2>1, Zenon DEF phase, Holding
  <2>6. phase' = [phase EXCEPT ![c] = "waiting", ![d] = "dropped"]
    <3>1. phase'[c] = "waiting"
      BY <1>1, <2>4, Zenon DEF phase, Holding
    <3>2. phase'[d] = "dropped"
      BY <1>1, <2>1, <2>4, Zenon DEF phase, Holding
    <3>3. \A e \in Calls : e # c /\ e # d => phase'[e] = phase[e]
      BY <1>1, <2>3, Zenon DEF phase, Holding
    <3>4. QED
      BY <2>1, <3>1, <3>2, <3>3, PhaseDomain, Zenon
  <2>7. Queue!Supersede(c, d)
    BY <1>1, <2>1, <2>5, <2>6, Zenon DEF Queue!Supersede
  <2>8. QED
    BY <2>1, <2>7, Zenon DEF Queue!Next
<1>5. QED
  BY <1>3, <1>4, Zenon

\* Draining and dispatching keep a waiting decision waiting.
LEMMA FlushSlowRefines ==
  ASSUME TypeOK, Placement, NEW c \in Calls, flushSlow(c)
  PROVE  phase' = phase
<1>1. \A e \in Calls : Queued(e)' \/ Drained(e)' <=> Queued(e) \/ Drained(e)
  BY FlushSlowEffect, Zenon DEF Drained
<1>2. QED
  BY <1>1, FlushSlowEffect, PhaseKept, Zenon DEF Holding

LEMMA DispatchRefines ==
  ASSUME TypeOK, Placement, NEW c \in Calls, NEW d \in Calls, dispatch(c, d)
  PROVE  phase' = phase
BY DispatchEffect, PhaseKept, Zenon DEF Holding

-----------------------------------------------------------------------------
(* The workers.                                                            *)

LEMMA AcquireRefines ==
  ASSUME TypeOK, CounterInv, NEW c \in Calls, acquire(c), mode' = mode
  PROVE  Queue!Next
<1>1. /\ phase' = [phase EXCEPT ![c] = "running"]
      /\ dec' = dec
  BY PhaseOfWorker, Zenon DEF acquire
<1>2. phase[c] = "waiting"
  BY Zenon DEF acquire, phase, Holding
<1>3. Queue!Running(NsOf(c)) = Holders(NsOf(c))
  BY Zenon DEF Queue!Running, Holders, phase, Holding, NsOf
<1>4. Queue!Cardinality(Queue!Running(dec[c].key[1])) < MaxInFlight
  <2>1. Cardinality(Queue!Running(dec[c].key[1])) < MaxInFlight
    BY <1>3, NsOfType, Zenon DEF CounterInv, acquire, NsOf
  <2>2. Queue!Cardinality(Queue!Running(dec[c].key[1])) = Cardinality(Queue!Running(dec[c].key[1]))
    BY Zenon DEF Queue!Cardinality, Cardinality
  <2>3. QED
    BY <2>1, <2>2, Zenon
<1>5. Queue!Start(c)
  BY <1>1, <1>2, <1>4, Zenon DEF Queue!Start
<1>6. QED
  BY <1>5, Zenon DEF Queue!Next

LEMMA WorkerRefines ==
  ASSUME TypeOK, NEW c \in Calls, mode' = mode, cancelled => mode # "open",
         \/ giveUp(c) \/ startPatch(c) \/ PatchLands(c)
         \/ patchOK(c) \/ patchFailed(c) \/ sinkReturns(c)
  PROVE  Queue!Next \/ UNCHANGED <<dec, phase, mode>>
<1>0. UNCHANGED <<dec, mgrVars, laneVars>>
  BY WorkerFrame, Zenon
<1>1. CASE giveUp(c)
  <2>1. phase' = [phase EXCEPT ![c] = "done"]
    BY <1>0, <1>1, PhaseOfWorker, Zenon DEF giveUp
  <2>2. phase[c] = "waiting"
    BY <1>1, Zenon DEF giveUp, phase, Holding
  <2>3. Queue!Skip(c)
    BY <1>0, <1>1, <2>1, <2>2, Zenon DEF Queue!Skip, giveUp
  <2>4. QED
    BY <2>3, Zenon DEF Queue!Next
<1>2. ASSUME Holding(c), worker' = [worker EXCEPT ![c] = "done"]
      PROVE  Queue!Next
  <2>1. phase' = [phase EXCEPT ![c] = "done"]
    BY <1>0, <1>2, PhaseOfWorker, Zenon DEF Holding
  <2>2. phase[c] = "running"
    BY <1>2, Zenon DEF phase, Holding
  <2>3. Queue!Finish(c)
    BY <1>0, <2>1, <2>2, Zenon DEF Queue!Finish
  <2>4. QED
    BY <2>3, Zenon DEF Queue!Next
<1>3. ASSUME Holding(c), NEW w \in {"patching", "written", "escalating"},
             worker' = [worker EXCEPT ![c] = w]
      PROVE  phase' = phase
  <2>1. \A e \in Calls : worker'[e] = IF e = c THEN w ELSE worker[e]
    BY <1>3, Zenon DEF TypeOK
  <2>2. \A e \in Calls : (Queued(e)' <=> Queued(e)) /\ (Drained(e)' <=> Drained(e))
    BY <1>0, Zenon DEF laneVars, Queued, Drained
  <2>3. call' = call
    BY <1>0, Zenon DEF laneVars
  <2>4. QED
    BY <1>3, <2>1, <2>2, <2>3 DEF phase, Holding
<1>4. CASE startPatch(c) \/ PatchLands(c)
  BY <1>0, <1>3, <1>4, Zenon DEF startPatch, PatchLands, Holding
<1>5. CASE patchOK(c) \/ sinkReturns(c)
  BY <1>2, <1>5, Zenon DEF patchOK, sinkReturns, leave, Holding
<1>6. CASE patchFailed(c)
  BY <1>0, <1>2, <1>3, <1>6, Zenon DEF patchFailed, leave, Holding
<1>7. QED
  BY <1>1, <1>4, <1>5, <1>6, Zenon

-----------------------------------------------------------------------------
(* The Manager, and the theorem.                                           *)

LEMMA InitRefines == Init => Queue!Init
<1> SUFFICES ASSUME Init PROVE Queue!Init
  OBVIOUS
<1>1. \A c \in Calls : ~Queued(c) /\ ~Drained(c)
  BY FlusherAssumption, Zenon DEF Init, Queued, Drained, Decision
<1>2. phase = [c \in Calls |-> "new"]
  BY <1>1, Zenon DEF Init, phase, Holding
<1>3. QED
  BY <1>2, Zenon DEF Init, Queue!Init, mode, Decision, Key

LEMMA StepRefines ==
  ASSUME TypeOK, RefInv, [Next]_vars
  PROVE  Queue!Next \/ UNCHANGED <<dec, phase, mode>>
<1>0. mode' = mode \/ cancel \/ Wait
  BY ModeStep, Zenon DEF RefInv
<1>1. cancelled => mode # "open"
  BY Zenon DEF mode
<1>2. ASSUME UNCHANGED <<dec, worker, pending, batch>>, mode' = mode,
             \A e \in Calls : call'[e] = "accepted" <=> call[e] = "accepted"
      PROVE  UNCHANGED <<dec, phase, mode>>
  BY <1>2, PhaseKept, Zenon DEF Queued, Drained, Holding
<1>3. CASE cancel
  <2>1. phase' = phase
    BY <1>3, PhaseKept, Zenon DEF cancel, laneVars, runVars, Queued, Drained, Holding
  <2>2. mode = "open" /\ mode' = "cancelled" /\ dec' = dec
    BY <1>3, Zenon DEF cancel, mode, RefInv
  <2>3. QED
    BY <2>1, <2>2, Zenon DEF Queue!Next, Queue!Cancel
<1>4. CASE Wait
  <2>1. phase' = phase
    BY <1>4, PhaseKept, Zenon DEF Wait, laneVars, runVars, Queued, Drained, Holding
  <2>2. mode = "cancelled" /\ mode' = "closed" /\ dec' = dec
    BY <1>4, Zenon DEF Wait, mode, RefInv
  <2>3. ActiveCalls = {}
    <3>1. Cardinality(ActiveCalls) = 0
      BY <1>4, Zenon DEF Wait, RefInv, CounterInv
    <3>2. IsFiniteSet(ActiveCalls)
      BY FlusherAssumption, FS_Subset, Zenon DEF ActiveCalls
    <3>3. QED
      BY <3>1, <3>2, FS_EmptySet, Zenon
  <2>4. \A c \in Calls : phase[c] # "running"
    BY <2>3, Zenon DEF ActiveCalls, Active, phase, Holding
  <2>5. QED
    BY <2>1, <2>2, <2>4, Zenon DEF Queue!Next, Queue!Close
<1>5. ASSUME NEW c \in Calls, Enqueue(c), mode' = mode
      PROVE  UNCHANGED <<dec, phase, mode>>
  <2>1. /\ UNCHANGED <<dec, worker, pending, batch>>
        /\ \A e \in Calls : call'[e] = "accepted" <=> call[e] = "accepted"
    BY <1>5, Zenon DEF Enqueue, runVars, TypeOK
  <2>2. QED
    BY <1>2, <1>5, <2>1, Zenon
<1>6. ASSUME NEW c \in Calls, Fire(c), mode' = mode
      PROVE  UNCHANGED <<dec, phase, mode>>
  BY <1>2, <1>6, Zenon DEF Fire, runVars
<1>7. ASSUME mode' = mode, Stop \/ (\E ns \in Namespaces : stopTimer(ns)) \/ UNCHANGED vars
      PROVE  UNCHANGED <<dec, phase, mode>>
  <2>1. UNCHANGED <<dec, worker, pending, batch, call>>
    BY <1>7, Zenon DEF Stop, stopTimer, vars, laneVars, runVars
  <2>2. QED
    BY <1>2, <1>7, <2>1, Zenon
<1>8. ASSUME NEW c \in Calls, flushSlow(c) \/ (\E d \in Calls : dispatch(c, d)), mode' = mode
      PROVE  UNCHANGED <<dec, phase, mode>>
  <2>1. dec' = dec
    BY <1>8, Zenon DEF flushSlow, dispatch
  <2>2. QED
    BY <1>8, <2>1, FlushSlowRefines, DispatchRefines, Zenon DEF RefInv
<1>9. ASSUME NEW c \in Calls, enqueue(c) \/ acquire(c), mode' = mode
      PROVE  Queue!Next
  BY <1>9, EnqueueRefines, AcquireRefines, Zenon DEF RefInv
<1>10. ASSUME NEW c \in Calls, mode' = mode,
              \/ giveUp(c) \/ startPatch(c) \/ PatchLands(c)
              \/ patchOK(c) \/ patchFailed(c) \/ sinkReturns(c)
       PROVE  Queue!Next \/ UNCHANGED <<dec, phase, mode>>
  BY <1>1, <1>10, WorkerRefines, Zenon
<1>11. QED
  BY <1>0, <1>3, <1>4, <1>5, <1>6, <1>7, <1>8, <1>9, <1>10 DEF Next

\* Under the refinement mapping, every behaviour of the flusher is one of the
\* abstract queue.
THEOREM RefinesQueue == Spec => Queue!Spec
<1>1. Init => RefInv
  <2>1. Init => (stop \in {"waiting", "returned"} <=> cancelled)
    BY Zenon DEF Init
  <2>2. QED
    BY <2>1, PlacementInit, OrderInvInit, CounterInvInit, Zenon DEF RefInv
<1>2. TypeOK /\ TypeOK' /\ RefInv /\ [Next]_vars => RefInv'
  BY PlacementStep, OrderInvStep, CounterInvStep, ModeStep, Zenon DEF RefInv
<1>3. TypeOK /\ RefInv /\ [Next]_vars => [Queue!Next]_(Queue!vars)
  BY StepRefines, Zenon DEF Queue!vars
<1>4. QED
  BY <1>1, <1>2, <1>3, InitRefines, TypeCorrect, PTL DEF Spec, Queue!Spec

\* Every behaviour of the lanes, timers, batches and workers is one the callers
\* of the queue are promised.
THEOREM Refines == Spec => ImplementsQueue
BY RefinesQueue DEF ImplementsQueue
-----------------------------------------------------------------------------
(* The flusher seen from one KSvc.                                         *)

\* A decision is carried from the drain of its lane until its write lands.
LEMMA CarriersKept ==
  ASSUME dec' = dec, NEW k, \A e \in Calls : dec[e].key = k => (Carried(e)' <=> Carried(e))
  PROVE  Carriers(k, 0)' = Carriers(k, 0) /\ Carriers(k, 1)' = Carriers(k, 1)
BY Zenon DEF Carriers

LEMMA CarrierJoins ==
  ASSUME dec' = dec, NEW k, NEW c \in Calls, dec[c].key = k, Carried(c)',
         \A e \in Calls : dec[e].key = k /\ e # c => (Carried(e)' <=> Carried(e))
  PROVE  /\ dec[c].min = 0 => /\ Carriers(k, 0)' = Carriers(k, 0) \cup {c}
                              /\ Carriers(k, 1)' = Carriers(k, 1)
         /\ dec[c].min = 1 => /\ Carriers(k, 1)' = Carriers(k, 1) \cup {c}
                              /\ Carriers(k, 0)' = Carriers(k, 0)
BY DEF Carriers

LEMMA CarrierLeaves ==
  ASSUME dec' = dec, NEW k, NEW c \in Calls, dec[c].key = k, ~Carried(c)',
         \A e \in Calls : dec[e].key = k /\ e # c => (Carried(e)' <=> Carried(e))
  PROVE  /\ Carriers(k, 0)' = Carriers(k, 0) \ {c}
         /\ Carriers(k, 1)' = Carriers(k, 1) \ {c}
BY DEF Carriers

LEMMA AnnotationKept ==
  ASSUME dec' = dec, landed' = landed, NEW k
  PROVE  Annotation(k)' = Annotation(k)
BY Zenon DEF Annotation

LEMMA LaneStutters ==
  ASSUME dec' = dec, NEW k \in Key, Annotation(k)' = Annotation(k), pending'[k] = pending[k],
         \A e \in Calls : dec[e].key = k => (Carried(e)' <=> Carried(e))
  PROVE  UNCHANGED Lane(k)!vars
BY CarriersKept, Zenon DEF Lane!vars

\* A drain of the lane sends out what the KSvc has waiting, if anything.
LEMMA DrainLane ==
  ASSUME TypeOK, Placement, OrderInv, NEW c \in Calls, NEW k \in Key,
         UNCHANGED <<dec, worker, landed>>, batch[c] = {},
         \A e \in Calls : e # c => batch'[e] = batch[e],
         pending'[k] \in {None, pending[k]},
         \A d \in Calls : dec[d].key = k =>
           /\ Queued(d)' \/ d \in batch'[c] <=> Queued(d)
           /\ ~(Queued(d)' /\ d \in batch'[c])
  PROVE  Lane(k)!Next \/ UNCHANGED Lane(k)!vars
<1>1. \A e \in Calls : Drained(e)' <=> Drained(e) \/ e \in batch'[c]
  BY DEF Drained
<1>2. \A e \in Calls : Carried(e)' <=> Carried(e) \/ e \in batch'[c]
  BY <1>1, Zenon DEF Carried
<1>3. Annotation(k)' = Annotation(k)
  BY AnnotationKept
<1>4. \A e \in Calls : dec[e].key = k => (Queued(e) <=> pending[k] = e) /\ (Queued(e)' <=> pending'[k] = e)
  BY Zenon DEF Queued
<1>5. CASE pending'[k] = pending[k]
  <2>1. \A e \in Calls : dec[e].key = k => e \notin batch'[c]
    BY <1>4, <1>5, Zenon
  <2>2. QED
    BY <1>2, <1>3, <1>5, <2>1, LaneStutters, Zenon
<1>6. CASE pending'[k] = None /\ pending[k] # None
  <2>1. PICK d \in Calls : d = pending[k]
    BY <1>6, Zenon DEF TypeOK
  <2>2. /\ dec[d].key = k /\ dec[d].min = 0 /\ Queued(d)
        /\ ~Drained(d) /\ worker[d] = "none"
    <3>1. dec[d].key = k /\ dec[d].min = 0
      BY <1>6, <2>1, Zenon DEF Placement, KeysMatch, OrderInv
    <3>2. QED
      BY <1>4, <2>1, <3>1, Zenon DEF Placement, FlushedAtMostOnce
  <2>3. d \in batch'[c]
    BY <1>4, <1>6, <2>1, <2>2, FlusherAssumption, Zenon
  <2>4. \A e \in Calls : dec[e].key = k /\ e # d => e \notin batch'[c]
    BY <1>4, <2>1, Zenon
  <2>5. Carriers(k, 0)' = Carriers(k, 0) \cup {d} /\ Carriers(k, 1)' = Carriers(k, 1)
    <3>1. Carried(d)' /\ \A e \in Calls : dec[e].key = k /\ e # d => (Carried(e)' <=> Carried(e))
      BY <1>2, <2>3, <2>4, Zenon
    <3>2. QED
      BY <2>2, <3>1, CarrierJoins, Zenon
  <2>6. d \notin Carriers(k, 0) /\ d \notin Carriers(k, 1)
    BY <2>2, Zenon DEF Carriers, Carried
  <2>7. Lane(k)!Flush
    BY <1>3, <1>6, <2>5, <2>6, Zenon DEF Lane!Flush, Lane!Free
  <2>8. QED
    BY <2>7, Zenon DEF Lane!Next
<1>7. QED
  BY <1>5, <1>6, Zenon

LEMMA EnqueueLane ==
  ASSUME TypeOK, Placement, OrderInv, NEW c \in Calls, NEW k \in Key, enqueue(c)
  PROVE  Lane(k)!Next \/ UNCHANGED Lane(k)!vars
<1>1. UNCHANGED <<dec, worker, landed>>
  BY Zenon DEF enqueue, runVars
<1>2. CASE dec[c].key # k
  <2>1. /\ batch[c] = {}
        /\ \A e \in Calls : e # c => batch'[e] = batch[e]
        /\ pending'[k] \in {None, pending[k]}
        /\ \A d \in Calls : dec[d].key = k =>
             /\ Queued(d)' \/ d \in batch'[c] <=> Queued(d)
             /\ ~(Queued(d)' /\ d \in batch'[c])
    BY <1>2, EnqueueEffect
  <2>2. QED
    BY <1>1, <2>1, DrainLane, Zenon
<1>3. CASE dec[c].key = k /\ dec[c].min = 1
  <2>1. /\ batch[c] = {} /\ ~Queued(c) /\ ~Drained(c) /\ worker[c] = "none"
        /\ \A e \in Calls : e # c => batch'[e] = batch[e]
        /\ pending'[k] \in {None, pending[k]}
        /\ \A d \in Calls : dec[d].key = k => (Queued(d)' \/ d \in batch'[c] <=> d = c)
    BY <1>3, EnqueueEffect
  <2>2. \A e \in Calls : dec[e].key = k => (Queued(e) <=> pending[k] = e) /\ (Queued(e)' <=> pending'[k] = e)
    BY <1>1, Zenon DEF Queued
  <2>3. pending'[k] = None
    <3>1. SUFFICES ASSUME pending'[k] # None PROVE FALSE
      OBVIOUS
    <3>2. PICK d \in Calls : d = pending[k] /\ pending'[k] = pending[k] /\ pending[k] # None
      BY <2>1, <3>1, Zenon DEF TypeOK
    <3>3. dec[d].key = k
      BY <3>2, Zenon DEF Placement, KeysMatch
    <3>4. d = c
      BY <2>1, <2>2, <3>2, <3>3, Zenon
    <3>5. QED
      BY <1>3, <2>1, <2>2, <3>2, <3>4, Zenon
  <2>4. c \in batch'[c]
    BY <1>3, <2>1, <2>2, <2>3, FlusherAssumption, Zenon
  <2>5. \A e \in Calls : dec[e].key = k /\ e # c => e \notin batch'[c]
    BY <2>1, Zenon
  <2>6. \A e \in Calls : Drained(e)' <=> Drained(e) \/ e \in batch'[c]
    BY <2>1 DEF Drained
  <2>7. \A e \in Calls : Carried(e)' <=> Carried(e) \/ e \in batch'[c]
    BY <1>1, <2>6, Zenon DEF Carried
  <2>8. Carriers(k, 1)' = Carriers(k, 1) \cup {c} /\ Carriers(k, 0)' = Carriers(k, 0)
    BY <1>1, <1>3, <2>4, <2>5, <2>7, CarrierJoins
  <2>9. c \notin Carriers(k, 0) /\ c \notin Carriers(k, 1)
    BY <2>1, Zenon DEF Carriers, Carried
  <2>10. Annotation(k)' = Annotation(k)
    BY <1>1, AnnotationKept
  <2>11. Lane(k)!Refuse
    BY <2>3, <2>8, <2>9, <2>10, Zenon DEF Lane!Refuse, Lane!Free
  <2>12. QED
    BY <2>11, Zenon DEF Lane!Next
<1>4. CASE dec[c].key = k /\ dec[c].min # 1
  <2>1. pending' = [pending EXCEPT ![k] = c] /\ batch' = batch
    BY <1>4, Zenon DEF enqueue
  <2>2. pending'[k] # None
    BY <2>1, FlusherAssumption, Zenon DEF TypeOK
  <2>3. \A e \in Calls : Carried(e)' <=> Carried(e)
    BY <1>1, <2>1, Zenon DEF Carried, Drained
  <2>4. Carriers(k, 0)' = Carriers(k, 0) /\ Carriers(k, 1)' = Carriers(k, 1)
    BY <1>1, <2>3, CarriersKept
  <2>5. Annotation(k)' = Annotation(k)
    BY <1>1, AnnotationKept
  <2>6. Lane(k)!Permit
    BY <2>2, <2>4, <2>5, Zenon DEF Lane!Permit
  <2>7. QED
    BY <2>6, Zenon DEF Lane!Next
<1>5. QED
  BY <1>2, <1>3, <1>4, Zenon

\* What a worker does to its KSvc: nothing, the write, or it ends without one.
LEMMA WorkerLane ==
  ASSUME TypeOK, Placement, NEW c \in Calls, NEW k \in Key,
         \/ acquire(c) \/ giveUp(c) \/ startPatch(c) \/ PatchLands(c)
         \/ patchOK(c) \/ patchFailed(c) \/ sinkReturns(c)
  PROVE  Lane(k)!Next \/ UNCHANGED Lane(k)!vars
<1>0. UNCHANGED <<dec, batch, pending>>
  BY WorkerFrame, Zenon DEF laneVars
<1>1. \A e \in Calls : Drained(e)' <=> Drained(e)
  BY <1>0, Zenon DEF Drained
<1>2. /\ worker[c] # "none" /\ worker'[c] # "none"
      /\ \A e \in Calls : e # c => worker'[e] = worker[e]
      /\ landed' = landed \/ PatchLands(c)
      /\ worker'[c] \in {"waiting", "acquired", "patching"}
           => worker[c] \in {"waiting", "acquired", "patching"}
  <2>1. CASE acquire(c) \/ giveUp(c)
    BY <2>1 DEF acquire, giveUp, TypeOK
  <2>2. CASE startPatch(c) \/ PatchLands(c)
    BY <2>2 DEF startPatch, PatchLands, TypeOK
  <2>3. CASE patchOK(c) \/ sinkReturns(c)
    BY <2>3 DEF patchOK, sinkReturns, leave, TypeOK
  <2>4. CASE patchFailed(c)
    BY <2>4 DEF patchFailed, leave, TypeOK
  <2>5. QED
    BY <2>1, <2>2, <2>3, <2>4
<1>3. ~Drained(c)
  BY <1>2, Zenon DEF Placement, FlushedAtMostOnce
<1>4. \A e \in Calls : e # c => (Carried(e)' <=> Carried(e))
  BY <1>1, <1>2, Zenon DEF Carried
<1>5. Carried(c)' => Carried(c)
  BY <1>1, <1>2, Zenon DEF Carried
<1>6. CASE PatchLands(c)
  <2>1. Carried(c) /\ ~Carried(c)' /\ landed' = [landed EXCEPT ![dec[c].key] = c]
    BY <1>1, <1>3, <1>6 DEF PatchLands, Carried, TypeOK
  <2>2. CASE dec[c].key = k
    <3>1. Annotation(k)' = dec[c].min
      BY <1>0, <2>1, <2>2, FlusherAssumption, Zenon DEF Annotation, TypeOK
    <3>2. /\ Carriers(k, 0)' = Carriers(k, 0) \ {c}
          /\ Carriers(k, 1)' = Carriers(k, 1) \ {c}
      BY <1>0, <1>4, <2>1, <2>2, CarrierLeaves, Zenon
    <3>3. dec[c].min \in {0, 1}
      BY Zenon DEF TypeOK, Decision
    <3>4. /\ c \in Carriers(k, 0) \cup Carriers(k, 1)
          /\ dec[c].min = IF c \in Carriers(k, 1) THEN 1 ELSE 0
      BY <2>1, <2>2, <3>3 DEF Carriers
    <3>5. Lane(k)!Land(c)
      BY <1>0, <3>1, <3>2, <3>4, Zenon DEF Lane!Land, Lane!Over
    <3>6. QED
      BY <3>5, Zenon DEF Lane!Next
  <2>3. CASE dec[c].key # k
    <3>1. landed'[k] = landed[k]
      BY <2>1, <2>3, Zenon DEF TypeOK
    <3>2. Annotation(k)' = Annotation(k)
      BY <1>0, <3>1, Zenon DEF Annotation
    <3>3. QED
      BY <1>0, <1>4, <2>3, <3>2, LaneStutters, Zenon
  <2>4. QED
    BY <2>2, <2>3
<1>7. CASE ~PatchLands(c)
  <2>1. Annotation(k)' = Annotation(k)
    BY <1>0, <1>2, <1>7, AnnotationKept, Zenon
  <2>2. CASE dec[c].key = k /\ Carried(c) /\ ~Carried(c)'
    <3>1. /\ Carriers(k, 0)' = Carriers(k, 0) \ {c}
          /\ Carriers(k, 1)' = Carriers(k, 1) \ {c}
      BY <1>0, <1>4, <2>2, CarrierLeaves, Zenon
    <3>2. dec[c].min \in {0, 1}
      BY Zenon DEF TypeOK, Decision
    <3>3. c \in Carriers(k, 0) \cup Carriers(k, 1)
      BY <2>2, <3>2 DEF Carriers
    <3>4. Lane(k)!Lose(c)
      BY <1>0, <2>1, <3>1, <3>3, Zenon DEF Lane!Lose, Lane!Over
    <3>5. QED
      BY <3>4, Zenon DEF Lane!Next
  <2>3. CASE ~(dec[c].key = k /\ Carried(c) /\ ~Carried(c)')
    <3>1. \A e \in Calls : dec[e].key = k => (Carried(e)' <=> Carried(e))
      BY <1>4, <1>5, <2>3, Zenon
    <3>2. QED
      BY <1>0, <2>1, <3>1, LaneStutters, Zenon
  <2>4. QED
    BY <2>2, <2>3
<1>8. QED
  BY <1>6, <1>7

LEMMA LaneStep ==
  ASSUME TypeOK, Placement, OrderInv, [Next]_vars, NEW k \in Key
  PROVE  Lane(k)!Next \/ UNCHANGED Lane(k)!vars
<1>1. ASSUME NEW c \in Calls, flushSlow(c)
      PROVE  Lane(k)!Next \/ UNCHANGED Lane(k)!vars
  <2>1. landed' = landed
    BY <1>1, Zenon DEF flushSlow, runVars
  <2>2. QED
    BY <1>1, <2>1, FlushSlowEffect, DrainLane, Zenon
<1>2. ASSUME NEW c \in Calls, NEW d \in Calls, dispatch(c, d)
      PROVE  Lane(k)!Next \/ UNCHANGED Lane(k)!vars
  <2>1. \A e \in Calls : Carried(e)' <=> Carried(e)
    BY <1>2, DispatchEffect, Zenon DEF Carried
  <2>2. UNCHANGED <<dec, pending, landed>>
    BY <1>2, Zenon DEF dispatch
  <2>3. QED
    BY <2>1, <2>2, AnnotationKept, LaneStutters, Zenon
<1>3. CASE \/ \E c \in Calls : Enqueue(c) \/ Fire(c)
           \/ \E ns \in Namespaces : stopTimer(ns)
           \/ Stop \/ cancel \/ Wait \/ UNCHANGED vars
  <2>1. UNCHANGED <<dec, batch, pending, worker, landed>>
    BY <1>3, Zenon
       DEF Enqueue, Fire, stopTimer, Stop, cancel, Wait, vars, laneVars, runVars
  <2>2. \A e \in Calls : Carried(e)' <=> Carried(e)
    BY <2>1, Zenon DEF Carried, Drained
  <2>3. QED
    BY <2>1, <2>2, AnnotationKept, LaneStutters, Zenon
<1>4. QED
  BY <1>1, <1>2, <1>3, EnqueueLane, WorkerLane, Zenon DEF Next

\* Seen from any one KSvc, the Manager is the queue that the scale-down guard
\* relies on, for any calls, namespaces and limits: a refusal replaces the
\* permission that waits, a permission goes out once, at the latest with its
\* timer and maybe with a drain that another KSvc of the namespace caused, and
\* each decision that has gone out is written at most once.
THEOREM LanePerKSvc == Spec => ImplementsLane
<1>1. Init => Placement /\ OrderInv
  BY PlacementInit, OrderInvInit, Zenon
<1>2. TypeOK /\ TypeOK' /\ Placement /\ OrderInv /\ [Next]_vars => Placement' /\ OrderInv'
  BY PlacementStep, OrderInvStep, Zenon
<1>3. Init => \A k \in Key : Lane(k)!Init
  <2> SUFFICES ASSUME Init, NEW k \in Key PROVE Lane(k)!Init
    BY Zenon
  <2>1. \A c \in Calls : ~Carried(c)
    BY Zenon DEF Init, Carried, Drained
  <2>2. Carriers(k, 0) = {} /\ Carriers(k, 1) = {} /\ pending[k] = None
    BY <2>1, Zenon DEF Carriers, Init
  <2>3. QED
    BY <2>2, Zenon DEF Lane!Init
<1>4. TypeOK /\ Placement /\ OrderInv /\ [Next]_vars
        => [\A k \in Key : Lane(k)!Next \/ UNCHANGED Lane(k)!vars]_vars
  BY LaneStep, Zenon
<1>5. QED
  BY <1>1, <1>2, <1>3, <1>4, TypeCorrect, PTL DEF Spec, ImplementsLane
=============================================================================
