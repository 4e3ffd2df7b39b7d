--------------------------- MODULE FlusherProofs ---------------------------
(***************************************************************************)
(* Proofs about Flusher, for every set of calls, namespaces and KSvcs and  *)
(* every value of the two limits: its type, where a decision may be, that   *)
(* a pending decision keeps a timer and that only a superseded one is      *)
(* dropped.                                                                *)
(***************************************************************************)
EXTENDS Flusher, TLAPS

\* The pending map is keyed by the key of the decision it holds.
KeysMatch ==
  \A k \in Key : pending[k] # None => dec[pending[k]].key = k

\* A call that is not accepted yet has left no trace.
Untouched ==
  \A c \in Calls : call[c] # "accepted" =>
    /\ ~Queued(c) /\ ~Drained(c)
    /\ worker[c] = "none" /\ clock[c] = "none" /\ batch[c] = {}

\* A timer whose callback has not run owns no batch.
NoEarlyBatch ==
  \A c \in Calls : clock[c] \in {"armed", "fired", "stopped"} => batch[c] = {}

\* Where the decision of a call may be.
Placement == FlushedAtMostOnce /\ KeysMatch /\ Untouched /\ NoEarlyBatch

\* A lane's timer belongs to the lane and is live; only Stop removes it from
\* a lane with pending entries.
TimerInv ==
  /\ \A ns \in Namespaces : timer[ns] # None =>
       /\ NsOf(timer[ns]) = ns
       /\ clock[timer[ns]] \in {"armed", "fired"}
  /\ \A k \in Key : pending[k] # None /\ ~stopped => timer[k[1]] # None
  /\ halting # {} => stopped

\* Tickets grow, are given on acceptance only, and the queue holds slow-lane
\* decisions only.
OrderInv ==
  /\ OnlySupersededDropped
  /\ \A c \in Calls : ticket[c] <= accepted
  /\ \A c \in Calls : ticket[c] # 0 => call[c] = "accepted"
  /\ \A k \in Key : pending[k] # None => dec[pending[k]].min = 0

-----------------------------------------------------------------------------
(* Type correctness.                                                       *)

LEMMA HaltType ==
  ASSUME NEW clk \in [Calls -> TimerState], NEW t
  PROVE  Halt(clk, t) \in [Calls -> TimerState]
BY Zenon DEF Halt, TimerState

\* What drainLocked leaves behind has the types of the lane's variables.
LEMMA DrainType ==
  ASSUME TypeOK, NEW ns \in Namespaces, NEW p \in [Key -> Calls \cup {None}],
         NEW clk \in [Calls -> TimerState], NEW c \in Calls,
         drainLocked(ns, p, clk, c)
  PROVE  /\ batch' \in [Calls -> SUBSET Calls]
         /\ pending' \in [Key -> Calls \cup {None}]
         /\ timer' \in [Namespaces -> Calls \cup {None}]
         /\ clock' \in [Calls -> TimerState]
<1>1. {p[k] : k \in LaneKeys(ns)} \ {None} \in SUBSET Calls
  BY Zenon DEF LaneKeys
<1>2. clock' \in [Calls -> TimerState]
  BY HaltType, Zenon DEF drainLocked
<1>3. QED
  BY <1>1, <1>2, Zenon DEF drainLocked, TypeOK

LEMMA NsOfType == TypeOK => \A c \in Calls : dec[c].key \in Key /\ NsOf(c) \in Namespaces
BY Zenon DEF TypeOK, NsOf, Decision, Key

\* A worker's steps leave the Manager and the lanes' maps and timers alone, and
\* no worker appears or vanishes.
LEMMA WorkerFrame ==
  ASSUME TypeOK, NEW c \in Calls,
         \/ acquire(c) \/ giveUp(c) \/ startPatch(c) \/ PatchLands(c)
         \/ patchOK(c) \/ patchFailed(c) \/ sinkReturns(c)
  PROVE  /\ UNCHANGED <<dec, mgrVars, laneVars>>
         /\ \A e \in Calls : worker'[e] = "none" <=> worker[e] = "none"
<1>1. CASE acquire(c) \/ giveUp(c)
  BY <1>1, Zenon DEF acquire, giveUp, TypeOK
<1>2. CASE startPatch(c) \/ PatchLands(c)
  BY <1>2, Zenon DEF startPatch, PatchLands, TypeOK
<1>3. CASE patchOK(c) \/ sinkReturns(c)
  BY <1>3, Zenon DEF patchOK, sinkReturns, leave, TypeOK
<1>4. CASE patchFailed(c)
  BY <1>4, Zenon DEF patchFailed, leave, TypeOK
<1>5. QED
  BY <1>1, <1>2, <1>3, <1>4, Zenon

\* The type invariant of the queue holds in every reachable state.
THEOREM TypeCorrect == Spec => []TypeOK
<1>1. Init => TypeOK
  <2> SUFFICES ASSUME Init PROVE TypeOK
    OBVIOUS
  <2>1. /\ batch \in [Calls -> SUBSET Calls]
        /\ lanes \subseteq Namespaces /\ halting \subseteq Namespaces
        /\ stopped \in BOOLEAN /\ cancelled \in BOOLEAN
    BY Zenon DEF Init
  <2>2. QED
    BY <2>1 DEF Init, TypeOK, CallState, TimerState, WorkerState
<1>2. TypeOK /\ [Next]_vars => TypeOK'
  <2> SUFFICES ASSUME TypeOK, [Next]_vars
               PROVE  TypeOK'
    OBVIOUS
  <2> USE NsOfType DEF mgrVars, laneVars, runVars
  <2>1. ASSUME NEW c \in Calls, Enqueue(c)
        PROVE  TypeOK'
    BY <2>1, Zenon DEF Enqueue, TypeOK, CallState
  <2>2. ASSUME NEW c \in Calls, enqueue(c)
        PROVE  TypeOK'
    <3> DEFINE p == [pending EXCEPT ![dec[c].key] = c]
    <3>1. p \in [Key -> Calls \cup {None}]
      BY Zenon DEF TypeOK
    <3>2. /\ batch' \in [Calls -> SUBSET Calls]
          /\ pending' \in [Key -> Calls \cup {None}]
          /\ timer' \in [Namespaces -> Calls \cup {None}]
          /\ clock' \in [Calls -> TimerState]
      <4>1. CASE drainLocked(NsOf(c), p, clock, c)
        BY <4>1, <3>1, DrainType, Zenon DEF TypeOK
      <4>2. CASE ~drainLocked(NsOf(c), p, clock, c)
        <5>1. /\ batch' = batch /\ pending' = p
              /\ \/ timer' = timer /\ clock' = clock
                 \/ /\ timer' = [timer EXCEPT ![NsOf(c)] = c]
                    /\ clock' = [clock EXCEPT ![c] = "armed"]
          BY <4>2, <2>2, Zenon DEF enqueue
        <5>2. /\ batch \in [Calls -> SUBSET Calls]
              /\ timer \in [Namespaces -> Calls \cup {None}]
              /\ clock \in [Calls -> TimerState] /\ "armed" \in TimerState
          BY Zenon DEF TypeOK, TimerState
        <5> HIDE DEF p
        <5>3. QED
          BY <5>1, <5>2, <3>1, Zenon
      <4>3. QED
        BY <4>1, <4>2, Zenon
    <3>3. QED
      BY <3>2, <2>2 DEF enqueue, TypeOK, CallState
  <2>3. ASSUME NEW c \in Calls, Fire(c)
        PROVE  TypeOK'
    BY <2>3, Zenon DEF Fire, TypeOK, TimerState
  <2>4. ASSUME NEW c \in Calls, flushSlow(c)
        PROVE  TypeOK'
    <3>1. [clock EXCEPT ![c] = "ran"] \in [Calls -> TimerState]
      BY Zenon DEF TypeOK, TimerState
    <3>2. pending \in [Key -> Calls \cup {None}]
      BY Zenon DEF TypeOK
    <3>3. /\ batch' \in [Calls -> SUBSET Calls]
          /\ pending' \in [Key -> Calls \cup {None}]
          /\ timer' \in [Namespaces -> Calls \cup {None}]
          /\ clock' \in [Calls -> TimerState]
      BY <2>4, <3>1, <3>2, DrainType, Zenon DEF flushSlow
    <3>4. QED
      BY <2>4, <3>3, Zenon DEF flushSlow, TypeOK
  <2>5. ASSUME NEW c \in Calls, NEW d \in Calls, dispatch(c, d)
        PROVE  TypeOK'
    BY <2>5 DEF dispatch, TypeOK, WorkerState
  <2>6. ASSUME NEW c \in Calls,
               acquire(c) \/ giveUp(c) \/ startPatch(c) \/ PatchLands(c)
        PROVE  TypeOK'
    <3>1. CASE acquire(c) \/ giveUp(c)
      BY <3>1 DEF acquire, giveUp, TypeOK, WorkerState
    <3>2. CASE startPatch(c) \/ PatchLands(c)
      BY <3>2 DEF startPatch, PatchLands, TypeOK, WorkerState
    <3>3. QED
      BY <2>6, <3>1, <3>2, Zenon
  <2>7. ASSUME NEW c \in Calls, patchOK(c) \/ patchFailed(c) \/ sinkReturns(c)
        PROVE  TypeOK'
    <3>1. CASE patchOK(c)
      BY <3>1 DEF patchOK, leave, TypeOK, WorkerState
    <3>2. CASE patchFailed(c)
      BY <3>2 DEF patchFailed, leave, TypeOK, WorkerState
    <3>3. CASE sinkReturns(c)
      BY <3>3 DEF sinkReturns, leave, TypeOK, WorkerState
    <3>4. QED
      BY <2>7, <3>1, <3>2, <3>3, Zenon
  <2>8. CASE Stop \/ cancel \/ Wait
    BY <2>8, Zenon DEF Stop, cancel, Wait, TypeOK
  <2>9. ASSUME NEW ns \in Namespaces, stopTimer(ns)
        PROVE  TypeOK'
    <3>1. clock' \in [Calls -> TimerState]
      BY <2>9, HaltType, Zenon DEF stopTimer, TypeOK
    <3>2. QED
      BY <2>9, <3>1, Zenon DEF stopTimer, TypeOK
  <2>10. CASE UNCHANGED vars
    BY <2>10, Zenon DEF vars, TypeOK
  <2>11. QED
    BY <2>1, <2>2, <2>3, <2>4, <2>5, <2>6, <2>7, <2>8, <2>9, <2>10, Zenon DEF Next
<1>3. QED
  BY <1>1, <1>2, PTL DEF Spec

-----------------------------------------------------------------------------
(* Where a decision may be.                                                *)

\* drainLocked moves exactly the entries of the lane into the batch of c and
\* leaves the other lanes and batches alone.
LEMMA DrainEffect ==
  ASSUME TypeOK, dec' = dec, NEW ns \in Namespaces,
         NEW p \in [Key -> Calls \cup {None}],
         NEW clk, NEW c \in Calls, drainLocked(ns, p, clk, c),
         \A k \in Key : p[k] # None => dec[p[k]].key = k
  PROVE  /\ \A d \in Calls : d \in batch'[c] <=> NsOf(d) = ns /\ p[dec[d].key] = d
         /\ \A d \in Calls : Queued(d)' <=> NsOf(d) # ns /\ p[dec[d].key] = d
         /\ \A e \in Calls : e # c => batch'[e] = batch[e]
         /\ \A k \in Key : pending'[k] = IF k[1] = ns THEN None ELSE p[k]
         /\ \A e \in Calls : clk[e] # "armed" => clock'[e] = clk[e]
         /\ \A e \in Calls : clock'[e] \in {clk[e], "stopped"}
<1> USE NsOfType, FlusherAssumption
<1>1. batch'[c] = {p[k] : k \in LaneKeys(ns)} \ {None}
  BY Zenon DEF drainLocked, TypeOK
<1>2. \A d \in Calls : d \in batch'[c] <=> NsOf(d) = ns /\ p[dec[d].key] = d
  <2> TAKE d \in Calls
  <2>1. ASSUME d \in batch'[c] PROVE NsOf(d) = ns /\ p[dec[d].key] = d
    <3>1. PICK k \in LaneKeys(ns) : d = p[k]
      BY <1>1, <2>1
    <3>2. k \in Key /\ k[1] = ns /\ d # None
      BY Zenon DEF LaneKeys
    <3>3. QED
      BY <3>1, <3>2, Zenon DEF NsOf
  <2>2. ASSUME NsOf(d) = ns, p[dec[d].key] = d PROVE d \in batch'[c]
    BY <1>1, <2>2, Zenon DEF LaneKeys, NsOf
  <2>3. QED
    BY <2>1, <2>2, Zenon
<1>3. \A k \in Key : pending'[k] = IF k[1] = ns THEN None ELSE p[k]
  BY Zenon DEF drainLocked
<1>4. \A d \in Calls : Queued(d)' <=> NsOf(d) # ns /\ p[dec[d].key] = d
  BY <1>3 DEF Queued, NsOf
<1>5. \A e \in Calls : e # c => batch'[e] = batch[e]
  BY Zenon DEF drainLocked, TypeOK
<1>6. /\ \A e \in Calls : clk[e] # "armed" => clock'[e] = clk[e]
      /\ \A e \in Calls : clock'[e] \in {clk[e], "stopped"}
  BY Zenon DEF drainLocked, Halt
<1>7. QED
  BY <1>2, <1>3, <1>4, <1>5, <1>6, Zenon

\* A lane that accepts the decision of c queues it or puts it in the batch of
\* c, in the place of a queued decision of the same key.
LEMMA EnqueueEffect ==
  ASSUME TypeOK, Placement, NEW c \in Calls, enqueue(c)
  PROVE  /\ UNCHANGED <<dec, worker>>
         /\ \A d \in Calls : call'[d] = IF d = c THEN "accepted" ELSE call[d]
         /\ ~Queued(c) /\ ~Drained(c) /\ worker[c] = "none" /\ clock[c] = "none"
         /\ batch[c] = {} /\ call[c] # "accepted"
         /\ \A d \in Calls : Queued(d)' \/ d \in batch'[c] <=>
              d = c \/ (Queued(d) /\ dec[d].key # dec[c].key)
         /\ \A d \in Calls : ~(Queued(d)' /\ d \in batch'[c])
         /\ \A e \in Calls : e # c => batch'[e] = batch[e]
         /\ \A k \in Key : \/ pending'[k] \in {None, pending[k]}
                           \/ k = dec[c].key /\ pending'[k] = c /\ dec[c].min # 1
         /\ \A e \in Calls : e # c =>
              clock'[e] = clock[e] \/ (clock[e] = "armed" /\ clock'[e] = "stopped")
         /\ clock'[c] = "none" \/ batch'[c] = {}
<1> DEFINE p == [pending EXCEPT ![dec[c].key] = c]
<1>0. p = [pending EXCEPT ![dec[c].key] = c]
  OBVIOUS
<1> HIDE DEF p
<1>1. /\ p \in [Key -> Calls \cup {None}]
      /\ \A k \in Key : p[k] = IF k = dec[c].key THEN c ELSE pending[k]
      /\ \A k \in Key : p[k] # None => dec[p[k]].key = k
      /\ \A d \in Calls : p[dec[d].key] = d <=>
           d = c \/ (Queued(d) /\ dec[d].key # dec[c].key)
  BY <1>0, NsOfType, FlusherAssumption, Zenon DEF TypeOK, Placement, KeysMatch, Queued
<1>2. /\ UNCHANGED <<dec, worker>>
      /\ \A d \in Calls : call'[d] = IF d = c THEN "accepted" ELSE call[d]
      /\ ~Queued(c) /\ ~Drained(c) /\ worker[c] = "none" /\ clock[c] = "none"
      /\ batch[c] = {} /\ call[c] # "accepted"
  BY Zenon DEF enqueue, Placement, Untouched, TypeOK, runVars
<1>3. CASE dec[c].min = 1
  <2>1. drainLocked(NsOf(c), p, clock, c) /\ NsOf(c) \in Namespaces
    BY <1>3, NsOfType, Zenon DEF enqueue, p
  <2>2. /\ \A d \in Calls : d \in batch'[c] <=> NsOf(d) = NsOf(c) /\ p[dec[d].key] = d
        /\ \A d \in Calls : Queued(d)' <=> NsOf(d) # NsOf(c) /\ p[dec[d].key] = d
        /\ \A e \in Calls : e # c => batch'[e] = batch[e]
        /\ \A k \in Key : pending'[k] = IF k[1] = NsOf(c) THEN None ELSE p[k]
        /\ \A e \in Calls : clock[e] # "armed" => clock'[e] = clock[e]
        /\ \A e \in Calls : clock'[e] \in {clock[e], "stopped"}
    BY <2>1, <1>1, <1>2, DrainEffect
  <2>3. \A k \in Key : pending'[k] \in {None, pending[k]}
    BY <1>1, <2>2 DEF NsOf
  <2>4. QED
    BY <1>1, <1>2, <2>2, <2>3, ZenonT(30)
<1>4. CASE dec[c].min # 1
  <2>1. /\ pending' = p /\ batch' = batch
        /\ \A e \in Calls : e # c => clock'[e] = clock[e]
    BY <1>4, Zenon DEF enqueue, p, TypeOK
  <2>2. \A d \in Calls : Queued(d)' <=> p[dec[d].key] = d
    BY <2>1, <1>2, Zenon DEF Queued
  <2>3. QED
    BY <1>1, <1>2, <1>4, <2>1, <2>2, Zenon
<1>5. QED
  BY <1>3, <1>4, Zenon

\* The callback of a timer moves what its lane has queued into its batch.
LEMMA FlushSlowEffect ==
  ASSUME TypeOK, Placement, NEW c \in Calls, flushSlow(c)
  PROVE  /\ UNCHANGED <<dec, worker, call, ticket, accepted>>
         /\ clock[c] = "fired" /\ batch[c] = {} /\ call[c] = "accepted"
         /\ \A d \in Calls : Queued(d)' \/ d \in batch'[c] <=> Queued(d)
         /\ \A d \in Calls : ~(Queued(d)' /\ d \in batch'[c])
         /\ \A e \in Calls : e # c => batch'[e] = batch[e]
         /\ \A k \in Key : pending'[k] \in {None, pending[k]}
         /\ \A e \in Calls : e # c =>
              clock'[e] = clock[e] \/ (clock[e] = "armed" /\ clock'[e] = "stopped")
         /\ clock'[c] = "ran"
<1> DEFINE clk == [clock EXCEPT ![c] = "ran"]
<1>1. /\ UNCHANGED <<dec, worker, call, ticket, accepted>>
      /\ drainLocked(NsOf(c), pending, clk, c)
      /\ clock[c] = "fired" /\ batch[c] = {} /\ call[c] = "accepted"
  BY Zenon DEF flushSlow, Placement, NoEarlyBatch, Untouched, runVars
<1>2. \A e \in Calls : clk[e] = IF e = c THEN "ran" ELSE clock[e]
  BY Zenon DEF TypeOK
<1> HIDE DEF clk
<1>3. /\ pending \in [Key -> Calls \cup {None}] /\ NsOf(c) \in Namespaces
      /\ \A k \in Key : pending[k] # None => dec[pending[k]].key = k
      /\ \A d \in Calls : Queued(d) <=> pending[dec[d].key] = d
  BY NsOfType, Zenon DEF TypeOK, Placement, KeysMatch, Queued
<1>4. /\ \A d \in Calls : d \in batch'[c] <=> NsOf(d) = NsOf(c) /\ Queued(d)
      /\ \A d \in Calls : Queued(d)' <=> NsOf(d) # NsOf(c) /\ Queued(d)
      /\ \A e \in Calls : e # c => batch'[e] = batch[e]
      /\ \A k \in Key : pending'[k] = IF k[1] = NsOf(c) THEN None ELSE pending[k]
      /\ \A e \in Calls : clk[e] # "armed" => clock'[e] = clk[e]
      /\ \A e \in Calls : clock'[e] \in {clk[e], "stopped"}
  BY <1>1, <1>3, DrainEffect
<1>5. QED
  BY <1>1, <1>2, <1>4, Zenon

\* A dispatched decision leaves the one batch it was in and gets a worker.
LEMMA DispatchEffect ==
  ASSUME TypeOK, Placement, NEW c \in Calls, NEW d \in Calls, dispatch(c, d)
  PROVE  /\ UNCHANGED <<dec, pending, timer, clock, call, ticket, accepted, mgrVars>>
         /\ \A e \in Calls : batch'[e] = IF e = c THEN batch[c] \ {d} ELSE batch[e]
         /\ \A e \in Calls : worker'[e] = IF e = d THEN "waiting" ELSE worker[e]
         /\ Drained(d) /\ ~Queued(d) /\ worker[d] = "none"
         /\ \A e \in Calls : /\ Queued(e)' <=> Queued(e)
                             /\ Drained(e)' <=> e # d /\ Drained(e)
<1>1. /\ UNCHANGED <<dec, pending, timer, clock, call, ticket, accepted, mgrVars>>
      /\ d \in batch[c]
      /\ \A e \in Calls : batch'[e] = IF e = c THEN batch[c] \ {d} ELSE batch[e]
      /\ \A e \in Calls : worker'[e] = IF e = d THEN "waiting" ELSE worker[e]
  BY Zenon DEF dispatch, TypeOK
<1>2. /\ Drained(d) /\ ~Queued(d) /\ worker[d] = "none"
      /\ \A e \in Calls : d \in batch[e] => e = c
  BY <1>1, Zenon DEF Placement, FlushedAtMostOnce, Drained
<1>3. \A e \in Calls : /\ Queued(e)' <=> Queued(e)
                       /\ Drained(e)' <=> e # d /\ Drained(e)
  BY <1>1, <1>2, Zenon DEF Queued, Drained
<1>4. QED
  BY <1>1, <1>2, <1>3, Zenon

\* The steps that accept, drain and dispatch nothing.
Quiet ==
  \/ \E c \in Calls :
       \/ Enqueue(c) \/ Fire(c) \/ acquire(c) \/ giveUp(c) \/ startPatch(c)
       \/ PatchLands(c) \/ patchOK(c) \/ patchFailed(c) \/ sinkReturns(c)
  \/ \E ns \in Namespaces : stopTimer(ns)
  \/ Stop \/ cancel \/ Wait \/ UNCHANGED vars

\* They leave every decision where it is.
LEMMA QuietFrame ==
  ASSUME TypeOK, Quiet
  PROVE  /\ UNCHANGED <<dec, batch, pending, ticket, accepted>>
         /\ \A e \in Calls : /\ worker'[e] = "none" <=> worker[e] = "none"
                             /\ call'[e] = "accepted" <=> call[e] = "accepted"
                             /\ clock'[e] = "none" <=> clock[e] = "none"
                             /\ clock'[e] = "ran" <=> clock[e] = "ran"
         /\ \A e \in Calls : /\ Queued(e)' <=> Queued(e)
                             /\ Drained(e)' <=> Drained(e)
<1>1. /\ UNCHANGED <<dec, batch, pending, ticket, accepted>>
      /\ \A e \in Calls : /\ worker'[e] = "none" <=> worker[e] = "none"
                          /\ call'[e] = "accepted" <=> call[e] = "accepted"
                          /\ clock'[e] = "none" <=> clock[e] = "none"
                          /\ clock'[e] = "ran" <=> clock[e] = "ran"
  <2>1. ASSUME NEW c \in Calls, Enqueue(c) \/ Fire(c)
        PROVE  <1>1!:
    BY <2>1, Zenon DEF Enqueue, Fire, runVars, TypeOK
  <2>2. ASSUME NEW c \in Calls,
               \/ acquire(c) \/ giveUp(c) \/ startPatch(c) \/ PatchLands(c)
               \/ patchOK(c) \/ patchFailed(c) \/ sinkReturns(c)
        PROVE  <1>1!:
    BY <2>2, WorkerFrame, Zenon DEF laneVars
  <2>3. ASSUME NEW ns \in Namespaces, stopTimer(ns)
        PROVE  <1>1!:
    BY <2>3, Zenon DEF stopTimer, Halt, runVars, TypeOK
  <2>4. CASE Stop \/ cancel \/ Wait \/ UNCHANGED vars
    BY <2>4, Zenon DEF Stop, cancel, Wait, vars, laneVars, runVars
  <2>5. QED
    BY <2>1, <2>2, <2>3, <2>4, Zenon DEF Quiet
<1>2. QED
  BY <1>1, Zenon DEF Queued, Drained

LEMMA PlacementInit == Init => Placement
BY FlusherAssumption, NsOfType
   DEF Init, Placement, FlushedAtMostOnce, KeysMatch, Untouched, NoEarlyBatch,
       Queued, Drained, Decision, Key

LEMMA PlacementStep == TypeOK /\ TypeOK' /\ Placement /\ [Next]_vars => Placement'
<1> SUFFICES ASSUME TypeOK, TypeOK', Placement, [Next]_vars
             PROVE  Placement'
  OBVIOUS
<1>0. /\ FlushedAtMostOnce /\ KeysMatch /\ Untouched /\ NoEarlyBatch
      /\ clock \in [Calls -> TimerState] /\ clock' \in [Calls -> TimerState]
  BY Zenon DEF Placement, TypeOK
<1>1. CASE Quiet
  <2>1. FlushedAtMostOnce' /\ KeysMatch' /\ Untouched'
    BY <1>0, <1>1, QuietFrame, ZenonT(30) DEF FlushedAtMostOnce, KeysMatch, Untouched
  <2>2. NoEarlyBatch'
    BY <1>0, <1>1, QuietFrame, Zenon DEF NoEarlyBatch, TimerState
  <2>3. QED
    BY <2>1, <2>2, Zenon DEF Placement
<1>2. ASSUME NEW c \in Calls, enqueue(c)
      PROVE  Placement'
  <2>1. \A d \in Calls : Drained(d)' <=> d \in batch'[c] \/ Drained(d)
    BY <1>2, EnqueueEffect, ZenonT(30) DEF Drained
  <2>2. FlushedAtMostOnce'
    BY <1>0, <1>2, <2>1, EnqueueEffect DEF FlushedAtMostOnce, Drained
  <2>3. KeysMatch'
    BY <1>0, <1>2, EnqueueEffect DEF KeysMatch
  <2>4. Untouched'
    BY <1>0, <1>2, <2>1, EnqueueEffect DEF Untouched
  <2>5. NoEarlyBatch'
    BY <1>0, <1>2, EnqueueEffect DEF NoEarlyBatch, TimerState
  <2>6. QED
    BY <2>2, <2>3, <2>4, <2>5, Zenon DEF Placement
<1>3. ASSUME NEW c \in Calls, flushSlow(c)
      PROVE  Placement'
  <2>1. \A d \in Calls : Drained(d)' <=> d \in batch'[c] \/ Drained(d)
    BY <1>3, FlushSlowEffect, Zenon DEF Drained
  <2>2. FlushedAtMostOnce'
    BY <1>0, <1>3, <2>1, FlushSlowEffect DEF FlushedAtMostOnce, Drained
  <2>3. KeysMatch'
    BY <1>0, <1>3, FlushSlowEffect, Zenon DEF KeysMatch
  <2>4. Untouched'
    BY <1>0, <1>3, <2>1, FlushSlowEffect DEF Untouched
  <2>5. NoEarlyBatch'
    BY <1>0, <1>3, FlushSlowEffect, Zenon DEF NoEarlyBatch, TimerState
  <2>6. QED
    BY <2>2, <2>3, <2>4, <2>5 DEF Placement
<1>4. ASSUME NEW c \in Calls, NEW d \in Calls, dispatch(c, d)
      PROVE  Placement'
  <2>0. /\ \A e \in Calls : batch'[e] = IF e = c THEN batch[c] \ {d} ELSE batch[e]
        /\ \A e \in Calls : worker'[e] = IF e = d THEN "waiting" ELSE worker[e]
        /\ ~Queued(d)
        /\ \A e \in Calls : /\ Queued(e)' <=> Queued(e)
                            /\ Drained(e)' <=> e # d /\ Drained(e)
    BY <1>4, DispatchEffect
  <2>1. FlushedAtMostOnce'
    BY <1>0, <2>0 DEF FlushedAtMostOnce
  <2>2. KeysMatch' /\ NoEarlyBatch'
    BY <1>0, <1>4, DispatchEffect, Zenon DEF KeysMatch, NoEarlyBatch
  <2>3. Untouched'
    BY <1>0, <1>4, DispatchEffect, Zenon DEF Untouched
  <2>4. QED
    BY <2>1, <2>2, <2>3, Zenon DEF Placement
<1>5. QED
  BY <1>1, <1>2, <1>3, <1>4, Zenon DEF Next, Quiet

\* No decision is flushed twice, for any number of calls, lanes and KSvcs.
THEOREM FlushedOnce == Spec => []FlushedAtMostOnce
<1>1. Init => Placement
  BY PlacementInit, Zenon
<1>2. TypeOK /\ TypeOK' /\ Placement /\ [Next]_vars => Placement'
  BY PlacementStep, Zenon
<1>3. Placement => FlushedAtMostOnce
  BY Zenon DEF Placement
<1>4. QED
  BY <1>1, <1>2, <1>3, TypeCorrect, PTL DEF Spec

-----------------------------------------------------------------------------
(* No decision is stranded.                                                *)

LEMMA TimerInvInit == Init => TimerInv
BY DEF Init, TimerInv

\* Draining a lane takes its timer and its entries away together; the timers
\* of the other lanes stay live.
LEMMA TimerInvDrain ==
  ASSUME TypeOK, TimerInv, dec' = dec, halting' = halting, stopped' = stopped,
         NEW ns \in Namespaces, NEW p, NEW clk, NEW c \in Calls, NsOf(c) = ns,
         drainLocked(ns, p, clk, c),
         \A k \in Key : k[1] # ns => p[k] = pending[k],
         \A e \in Calls : e # c => clk[e] = clock[e]
  PROVE  TimerInv'
<1> USE NsOfType, FlusherAssumption
<1>1. /\ \A k \in Key : pending'[k] = IF k[1] = ns THEN None ELSE p[k]
      /\ \A m \in Namespaces : timer'[m] = IF m = ns THEN None ELSE timer[m]
  BY Zenon DEF drainLocked, TypeOK
<1>2. \A m \in Namespaces : m # ns /\ timer[m] # None => timer[m] \in Calls /\ timer[m] # c
  BY ZenonT(30) DEF TimerInv, TypeOK
<1>3. \A m \in Namespaces : m # ns /\ timer[m] # None => timer[m] # timer[ns]
  BY DEF TimerInv, TypeOK
<1>4. \A m \in Namespaces : m # ns /\ timer[m] # None => clock'[timer[m]] = clock[timer[m]]
  BY <1>2, <1>3, Zenon DEF drainLocked, Halt
<1>5. \A m \in Namespaces : timer'[m] # None =>
        dec'[timer'[m]].key[1] = m /\ clock'[timer'[m]] \in {"armed", "fired"}
  BY <1>1, <1>4 DEF TimerInv, NsOf
<1>6. \A k \in Key : k[1] \in Namespaces
  BY Zenon DEF Key
<1>7. \A k \in Key : pending'[k] # None /\ ~stopped' => timer'[k[1]] # None
  BY <1>1, <1>6, Zenon DEF TimerInv
<1>8. QED
  BY <1>5, <1>7, Zenon DEF TimerInv, NsOf

LEMMA TimerInvStep == TypeOK /\ TypeOK' /\ Placement /\ TimerInv /\ [Next]_vars => TimerInv'
<1> SUFFICES ASSUME TypeOK, TypeOK', Placement, TimerInv, [Next]_vars
             PROVE  TimerInv'
  OBVIOUS
<1> USE NsOfType, FlusherAssumption
<1>0. ASSUME UNCHANGED <<dec, timer, clock, pending, halting>>, stopped => stopped'
      PROVE  TimerInv'
  BY <1>0, Zenon DEF TimerInv, NsOf
<1>1. ASSUME NEW c \in Calls, Enqueue(c)
      PROVE  TimerInv'
  BY <1>0, <1>1, Zenon DEF Enqueue
<1>2. ASSUME NEW c \in Calls, enqueue(c)
      PROVE  TimerInv'
  <2> DEFINE p == [pending EXCEPT ![dec[c].key] = c]
  <2>1. \A k \in Key : p[k] = IF k = dec[c].key THEN c ELSE pending[k]
    BY Zenon DEF TypeOK
  <2>2. CASE dec[c].min = 1
    <3>1. drainLocked(NsOf(c), p, clock, c)
      BY <1>2, <2>2, Zenon DEF enqueue
    <3>2. \A k \in Key : k[1] # NsOf(c) => p[k] = pending[k]
      BY <2>1, Zenon DEF NsOf
    <3> HIDE DEF p
    <3>3. QED
      BY <1>2, <3>1, <3>2, TimerInvDrain DEF enqueue, mgrVars
  <2>3. CASE dec[c].min # 1 /\ timer[NsOf(c)] = None
    <3>1. /\ dec' = dec /\ stopped' = stopped /\ halting' = halting
          /\ \A ns \in Namespaces : timer'[ns] = IF ns = NsOf(c) THEN c ELSE timer[ns]
          /\ \A e \in Calls : clock'[e] = IF e = c THEN "armed" ELSE clock[e]
          /\ pending' = p
      BY <1>2, <2>3 DEF enqueue, TypeOK, mgrVars
    <3> HIDE DEF p
    <3>2. \A k \in Key : k # dec[c].key => pending'[k] = pending[k]
      BY <2>1, <3>1, Zenon
    <3>3. \A ns \in Namespaces : timer[ns] # None => timer[ns] \in Calls
      BY Zenon DEF TypeOK
    <3>4. \A k \in Key : k[1] \in Namespaces
      BY Zenon DEF Key
    <3>5. ASSUME NEW ns \in Namespaces, timer'[ns] # None
          PROVE  NsOf(timer[ns])' = ns /\ clock'[timer'[ns]] \in {"armed", "fired"}
      <4>1. CASE ns = NsOf(c)
        BY <3>1, <4>1, Zenon DEF NsOf
      <4>2. CASE ns # NsOf(c)
        <5>1. timer'[ns] = timer[ns] /\ timer[ns] \in Calls
          BY <3>1, <3>3, <3>5, <4>2, Zenon
        <5>2. NsOf(timer[ns]) = ns /\ clock[timer[ns]] \in {"armed", "fired"}
          BY <3>5, <5>1, Zenon DEF TimerInv
        <5>3. QED
          BY <3>1, <5>1, <5>2, Zenon DEF NsOf
      <4>3. QED
        BY <4>1, <4>2, Zenon
    <3>6. ASSUME NEW k \in Key, pending'[k] # None, ~stopped'
          PROVE  timer'[k[1]] # None
      <4>1. CASE k[1] = NsOf(c)
        BY <3>1, <3>4, <4>1, Zenon
      <4>2. CASE k[1] # NsOf(c)
        <5>1. pending[k] # None /\ ~stopped
          BY <3>1, <3>2, <3>6, <4>2, Zenon DEF NsOf
        <5>2. timer[k[1]] # None
          BY <5>1, Zenon DEF TimerInv
        <5>3. QED
          BY <3>1, <3>4, <4>2, <5>2, Zenon
      <4>3. QED
        BY <4>1, <4>2, Zenon
    <3>7. halting' # {} => stopped'
      BY <3>1, Zenon DEF TimerInv
    <3>8. QED
      BY <3>5, <3>6, <3>7, Zenon DEF TimerInv
  <2>4. CASE dec[c].min # 1 /\ timer[NsOf(c)] # None
    <3>1. /\ dec' = dec /\ stopped' = stopped /\ halting' = halting
          /\ timer' = timer /\ clock' = clock /\ pending' = p
      BY <1>2, <2>4, Zenon DEF enqueue, mgrVars
    <3> HIDE DEF p
    <3>2. QED
      BY <2>1, <2>4, <3>1, Zenon DEF TimerInv, NsOf
  <2>5. QED
    BY <2>2, <2>3, <2>4, Zenon
<1>3. ASSUME NEW c \in Calls, Fire(c)
      PROVE  TimerInv'
  <2>1. /\ UNCHANGED <<dec, timer, pending, halting, stopped>>
        /\ \A e \in Calls : clock'[e] = IF e = c THEN "fired" ELSE clock[e]
    BY <1>3, Zenon DEF Fire, mgrVars, TypeOK
  <2>2. \A ns \in Namespaces : timer[ns] # None => timer[ns] \in Calls
    BY DEF TypeOK
  <2>3. QED
    BY <2>1, <2>2, Zenon DEF TimerInv, NsOf
<1>4. ASSUME NEW c \in Calls, flushSlow(c)
      PROVE  TimerInv'
  <2> DEFINE clk == [clock EXCEPT ![c] = "ran"]
  <2>1. /\ drainLocked(NsOf(c), pending, clk, c)
        /\ \A e \in Calls : e # c => clk[e] = clock[e]
    BY <1>4, Zenon DEF flushSlow, TypeOK
  <2> HIDE DEF clk
  <2>2. dec' = dec /\ halting' = halting /\ stopped' = stopped
    BY <1>4, Zenon DEF flushSlow, mgrVars
  <2>3. NsOf(c) \in Namespaces
    BY NsOfType, Zenon
  <2>4. QED
    BY <2>1, <2>2, <2>3, TimerInvDrain, Zenon
<1>5. ASSUME NEW c \in Calls,
             \/ \E d \in Calls : dispatch(c, d)
             \/ acquire(c) \/ giveUp(c) \/ startPatch(c) \/ PatchLands(c)
             \/ patchOK(c) \/ patchFailed(c) \/ sinkReturns(c)
      PROVE  TimerInv'
  BY <1>0, <1>5, WorkerFrame, Zenon DEF dispatch, laneVars, mgrVars
<1>6. CASE Stop \/ cancel \/ Wait
  BY <1>6, Zenon DEF Stop, cancel, Wait, TimerInv, NsOf, laneVars
<1>7. ASSUME NEW ns \in Namespaces, stopTimer(ns)
      PROVE  TimerInv'
  <2>1. /\ stopped /\ stopped' /\ dec' = dec
        /\ \A m \in Namespaces : timer'[m] = IF m = ns THEN None ELSE timer[m]
    BY <1>7, Zenon DEF stopTimer, TimerInv, TypeOK
  <2>2. \A m \in Namespaces : m # ns /\ timer[m] # None =>
          timer[m] # timer[ns] /\ timer[m] \in Calls
    BY Zenon DEF TimerInv, TypeOK
  <2>3. \A m \in Namespaces : m # ns /\ timer[m] # None => clock'[timer[m]] = clock[timer[m]]
    BY <1>7, <2>2, Zenon DEF stopTimer, Halt
  <2>4. QED
    BY <2>1, <2>3, Zenon DEF TimerInv, NsOf
<1>8. CASE UNCHANGED vars
  BY <1>8, <1>0, Zenon DEF vars, laneVars, mgrVars
<1>9. QED
  BY <1>1, <1>2, <1>3, <1>4, <1>5, <1>6, <1>7, <1>8, Zenon DEF Next

\* Until Stop, a pending decision always has a timer or a timer callback that
\* is going to drain its lane.
THEOREM NeverStranded == Spec => []PendingHasFlusher
<1>1. Init => Placement /\ TimerInv
  BY PlacementInit, TimerInvInit, Zenon
<1>2. TypeOK /\ TypeOK' /\ Placement /\ TimerInv /\ [Next]_vars => Placement' /\ TimerInv'
  BY PlacementStep, TimerInvStep, Zenon
<1>3. TypeOK /\ TimerInv => PendingHasFlusher
  BY Zenon DEF TypeOK, TimerInv, PendingHasFlusher, Key
<1>4. QED
  BY <1>1, <1>2, <1>3, TypeCorrect, PTL DEF Spec

-----------------------------------------------------------------------------
(* Nothing is dropped but what is superseded.                              *)

LEMMA OrderInvInit == Init => OrderInv
BY NsOfType DEF Init, OrderInv, OnlySupersededDropped, Decision

\* A step that accepts no decision and leaves none without a place that had
\* one keeps the order.
LEMMA OrderInvKept ==
  ASSUME TypeOK, OrderInv, UNCHANGED <<dec, ticket, accepted>>,
         \A c \in Calls : call[c] = "accepted" <=> call'[c] = "accepted",
         \A c \in Calls : Queued(c) \/ Drained(c) \/ worker[c] # "none" =>
                          Queued(c)' \/ Drained(c)' \/ worker'[c] # "none",
         \A k \in Key : pending'[k] \in {pending[k], None}
  PROVE  OrderInv'
<1>1. OnlySupersededDropped'
  BY Zenon DEF OrderInv, OnlySupersededDropped
<1>2. QED
  BY <1>1, Zenon DEF OrderInv

LEMMA OrderInvEnqueue ==
  ASSUME TypeOK, Placement, OrderInv, NEW c \in Calls, enqueue(c)
  PROVE  OrderInv'
<1>1. /\ accepted' = accepted + 1 /\ dec' = dec
      /\ \A d \in Calls : ticket'[d] = IF d = c THEN accepted + 1 ELSE ticket[d]
      /\ accepted \in Nat /\ \A d \in Calls : ticket[d] \in Nat /\ ticket[d] <= accepted
  BY Zenon DEF enqueue, OrderInv, TypeOK
<1>2. /\ \A d \in Calls : d = c \/ call[d] = "accepted" <=> call'[d] = "accepted"
      /\ \A d \in Calls : Drained(d) => Drained(d)'
  BY EnqueueEffect DEF Drained
<1>3. OnlySupersededDropped'
  <2> SUFFICES ASSUME NEW e \in Calls, call'[e] = "accepted", ~Queued(e)',
                      ~Drained(e)', worker'[e] = "none"
               PROVE  /\ dec'[e].min = 0
                      /\ \E d \in Calls : dec'[d].key = dec'[e].key /\ ticket'[d] > ticket'[e]
    BY Zenon DEF OnlySupersededDropped
  <2>1. e \notin batch'[c]
    BY Zenon DEF Drained
  <2>2. /\ e # c /\ call[e] = "accepted" /\ ~Drained(e) /\ worker[e] = "none"
        /\ Queued(e) => dec[e].key = dec[c].key
    BY <1>2, <2>1, EnqueueEffect, Zenon
  <2>3. CASE Queued(e)
    <3>1. dec[e].min = 0 /\ dec[e].key = dec[c].key
      BY <2>2, <2>3, NsOfType, FlusherAssumption, Zenon DEF OrderInv, Queued
    <3>2. ticket'[c] > ticket'[e]
      BY <1>1, <2>2
    <3>3. QED
      BY <1>1, <3>1, <3>2, Zenon
  <2>4. CASE ~Queued(e)
    <3>1. /\ dec[e].min = 0
          /\ \E d \in Calls : dec[d].key = dec[e].key /\ ticket[d] > ticket[e]
      BY <2>2, <2>4, Zenon DEF OrderInv, OnlySupersededDropped
    <3>2. PICK d \in Calls : dec[d].key = dec[e].key /\ ticket[d] > ticket[e]
      BY <3>1, Zenon
    <3>3. d # c
      BY <3>2, <1>1, EnqueueEffect DEF OrderInv
    <3>4. QED
      BY <1>1, <2>2, <3>1, <3>2, <3>3, Zenon
  <2>5. QED
    BY <2>3, <2>4, Zenon
<1>4. \A k \in Key : pending'[k] # None => dec'[pending'[k]].min = 0
  <2>1. dec[c].min # 1 => dec[c].min = 0
    BY Zenon DEF TypeOK, Decision
  <2>2. QED
    BY <1>1, <2>1, EnqueueEffect DEF OrderInv
<1>5. QED
  BY <1>1, <1>2, <1>3, <1>4 DEF OrderInv

LEMMA OrderInvStep ==
  TypeOK /\ TypeOK' /\ Placement /\ OrderInv /\ [Next]_vars => OrderInv'
<1> SUFFICES ASSUME TypeOK, TypeOK', Placement, OrderInv, [Next]_vars
             PROVE  OrderInv'
  OBVIOUS
<1>1. CASE Quiet
  <2>1. \A k \in Key : pending'[k] \in {pending[k], None}
    BY <1>1, QuietFrame, Zenon
  <2>2. QED
    BY <1>1, <2>1, QuietFrame, OrderInvKept, Zenon
<1>2. ASSUME NEW c \in Calls, flushSlow(c)
      PROVE  OrderInv'
  <2>1. \A d \in Calls : Queued(d) \/ Drained(d) => Queued(d)' \/ Drained(d)'
    BY <1>2, FlushSlowEffect, Zenon DEF Drained
  <2>2. QED
    BY <1>2, <2>1, FlushSlowEffect, OrderInvKept, Zenon
<1>3. ASSUME NEW c \in Calls, NEW d \in Calls, dispatch(c, d)
      PROVE  OrderInv'
  BY <1>3, DispatchEffect, OrderInvKept, Zenon
<1>4. QED
  BY <1>1, <1>2, <1>3, OrderInvEnqueue, Zenon DEF Next, Quiet

\* A decision leaves the queue without being run only when it asked for
\* min-scale=0 and a later decision for the same KSvc replaced it.
THEOREM NothingElseDropped == Spec => []OnlySupersededDropped
<1>1. Init => Placement /\ OrderInv
  BY PlacementInit, OrderInvInit
<1>2. TypeOK /\ TypeOK' /\ Placement /\ OrderInv /\ [Next]_vars => Placement' /\ OrderInv'
  BY PlacementStep, OrderInvStep
<1>3. OrderInv => OnlySupersededDropped
  BY Zenon DEF OrderInv
<1>4. QED
  BY <1>1, <1>2, <1>3, TypeCorrect, PTL DEF Spec
=============================================================================
