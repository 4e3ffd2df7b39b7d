------------------------------- MODULE Flusher -------------------------------
(***************************************************************************)
(* The namespace-level coalescing queue of internal/flusher: Manager, its  *)
(* lanes (one per namespace), the debounce timers, the worker goroutines   *)
(* that run PATCHes, and Stop.                                             *)
(*                                                                         *)
(* A process of this model is one call of Manager.Enqueue.  The call c     *)
(* names the decision it submits, the debounce timer it may arm (a slow    *)
(* call arms at most one) and the worker goroutine that runs the decision  *)
(* (a decision is dispatched at most once: see FlushedAtMostOnce).  The    *)
(* sections the code runs under Manager.mu or nsLane.mu are atomic; what   *)
(* happens between two of them interleaves.                                *)
(***************************************************************************)
EXTENDS Integers, FiniteSets

CONSTANTS
  Calls,        \* the calls of Enqueue
  Namespaces,
  KSvcs,
  MaxInFlight,  \* Config.MaxInFlight, after withDefaults
  MaxFailures,  \* Config.MaxFailures, after withDefaults
  None          \* a nil timer, an absent map entry

\* withDefaults leaves both limits positive (a negative MaxInFlight, which
\* disables the semaphore, is used by tests only).
ASSUME FlusherAssumption ==
  /\ IsFiniteSet(Calls)
  /\ None \notin Calls
  /\ MaxInFlight \in Nat \ {0}
  /\ MaxFailures \in Nat \ {0}

Key == Namespaces \X KSvcs
Decision == [key : Key, min : {0, 1}]

VARIABLES
  dec,        \* dec[c]: the Decision that call c submits
  call,       \* call[c]: how far Enqueue(dec[c]) has got
  batch,      \* batch[c]: drained decisions that call c, or the flushSlow
              \*   callback of its timer, has not dispatched yet
  clock,      \* clock[c]: the timer armed by call c and its callback
  lanes,      \* Manager.lanes: the namespaces that have a lane
  stopped,    \* Manager.stopped
  cancelled,  \* Manager.ctx is done
  wg,         \* Manager.wg
  stop,       \* how far Stop has got
  halting,    \* lanes whose timer Stop has yet to stop
  pending,    \* nsLane.pending, of all lanes
  failures,   \* nsLane.failures, of all lanes; 0 is an absent entry
  timer,      \* nsLane.timer: the call that armed it, or None
  inflight,   \* nsLane.inflight
  sem,        \* slots taken in nsLane.sem
  worker,     \* worker[c]: the goroutine running runOne(dec[c])
  ticket,     \* ticket[c]: rank of c in the order of acceptance by the lanes
  accepted,   \* number of decisions accepted (history)
  landed      \* landed[k]: the last decision whose write reached the KSvc k

mgrVars == <<lanes, stopped, cancelled, stop, halting>>
laneVars == <<pending, timer, batch, clock, call, ticket, accepted>>
runVars == <<worker, wg, sem, inflight, failures, landed>>
vars == <<dec, mgrVars, laneVars, runVars>>

NsOf(c) == dec[c].key[1]
LaneKeys(ns) == {k \in Key : k[1] = ns}

CallState == {"idle", "admitted", "accepted", "refused"}
TimerState == {"none", "armed", "stopped", "fired", "ran"}
WorkerState == {"none", "waiting", "acquired", "patching", "written",
                "escalating", "done"}

Init ==
  /\ dec \in [Calls -> Decision]
  /\ call = [c \in Calls |-> "idle"]
  /\ batch = [c \in Calls |-> {}]
  /\ clock = [c \in Calls |-> "none"]
  /\ lanes = {}
  /\ stopped = FALSE
  /\ cancelled = FALSE
  /\ wg = 0
  /\ stop = "running"
  /\ halting = {}
  /\ pending = [k \in Key |-> None]
  /\ failures = [k \in Key |-> 0]
  /\ timer = [ns \in Namespaces |-> None]
  /\ inflight = [ns \in Namespaces |-> 0]
  /\ sem = [ns \in Namespaces |-> 0]
  /\ worker = [c \in Calls |-> "none"]
  /\ ticket = [c \in Calls |-> 0]
  /\ accepted = 0
  /\ landed = [k \in Key |-> None]

-----------------------------------------------------------------------------
(* Enqueue: the section under Manager.mu, then nsLane.enqueue.             *)

Enqueue(c) ==
  /\ call[c] = "idle"
  /\ \/ /\ stopped
        /\ call' = [call EXCEPT ![c] = "refused"]
        /\ UNCHANGED lanes
     \/ /\ ~stopped
        /\ call' = [call EXCEPT ![c] = "admitted"]
        /\ lanes' = lanes \cup {NsOf(c)}
  /\ UNCHANGED <<dec, stopped, cancelled, stop, halting, pending, timer,
                 batch, clock, ticket, accepted, runVars>>

\* Timer.Stop on timer t: a timer that has fired keeps its callback.
Halt(clk, t) ==
  [c \in Calls |-> IF c = t /\ clk[c] = "armed" THEN "stopped" ELSE clk[c]]

\* Mutants of drainLocked: the timer is stopped but not set to nil; the map is
\* not replaced; the whole map is replaced but only c's decision is returned.
drainLockedKeepsTimer(ns, p, clk, c) ==
  /\ batch' = [batch EXCEPT ![c] = {p[k] : k \in LaneKeys(ns)} \ {None}]
  /\ pending' = [k \in Key |-> IF k[1] = ns THEN None ELSE p[k]]
  /\ clock' = Halt(clk, timer[ns])
  /\ UNCHANGED timer

drainLockedKeepsPending(ns, p, clk, c) ==
  /\ batch' = [batch EXCEPT ![c] = {p[k] : k \in LaneKeys(ns)} \ {None}]
  /\ pending' = p
  /\ timer' = [timer EXCEPT ![ns] = None]
  /\ clock' = Halt(clk, timer[ns])

drainLockedDropsOthers(ns, p, clk, c) ==
  /\ batch' = [batch EXCEPT ![c] = {p[dec[c].key]} \ {None}]
  /\ pending' = [k \in Key |-> IF k[1] = ns THEN None ELSE p[k]]
  /\ timer' = [timer EXCEPT ![ns] = None]
  /\ clock' = Halt(clk, timer[ns])

\* drainLocked on the lane of ns whose pending map is p, on behalf of c, after
\* the timers have become clk: the lane is left empty and without a timer.
drainLocked(ns, p, clk, c) ==
  /\ batch' = [batch EXCEPT ![c] = {p[k] : k \in LaneKeys(ns)} \ {None}]
  /\ pending' = [k \in Key |-> IF k[1] = ns THEN None ELSE p[k]]
  /\ timer' = [timer EXCEPT ![ns] = None]
  /\ clock' = Halt(clk, timer[ns])

\* nsLane.enqueue.  min-scale=1 drains the whole lane; min-scale=0 arms the
\* timer unless the lane has one.
enqueue(c) ==
  LET p == [pending EXCEPT ![dec[c].key] = c] IN
  /\ call[c] = "admitted"
  /\ call' = [call EXCEPT ![c] = "accepted"]
  /\ accepted' = accepted + 1
  /\ ticket' = [ticket EXCEPT ![c] = accepted + 1]
  /\ \/ /\ dec[c].min = 1
        /\ drainLocked(NsOf(c), p, clock, c)
     \/ /\ dec[c].min # 1
        /\ timer[NsOf(c)] = None
        /\ timer' = [timer EXCEPT ![NsOf(c)] = c]
        /\ clock' = [clock EXCEPT ![c] = "armed"]
        /\ pending' = p
        /\ UNCHANGED batch
     \/ /\ dec[c].min # 1
        /\ timer[NsOf(c)] # None
        /\ pending' = p
        /\ UNCHANGED <<timer, clock, batch>>
  /\ UNCHANGED <<dec, mgrVars, runVars>>

-----------------------------------------------------------------------------
(* The debounce timer and its callback.                                    *)

\* Clock.AfterFunc: the window has passed and the callback goroutine exists.
Fire(c) ==
  /\ clock[c] = "armed"
  /\ clock' = [clock EXCEPT ![c] = "fired"]
  /\ UNCHANGED <<dec, mgrVars, pending, timer, batch, call, ticket, accepted,
                 runVars>>

flushSlow(c) ==
  /\ clock[c] = "fired"
  /\ drainLocked(NsOf(c), pending, [clock EXCEPT ![c] = "ran"], c)
  /\ UNCHANGED <<dec, mgrVars, call, ticket, accepted, runVars>>

\* Mutant of dispatch: no wg.Add(1).
dispatchNoAdd(c, d) ==
  /\ d \in batch[c]
  /\ batch' = [batch EXCEPT ![c] = @ \ {d}]
  /\ worker' = [worker EXCEPT ![d] = "waiting"]
  /\ UNCHANGED <<dec, mgrVars, pending, timer, clock, call, ticket, accepted,
                 wg, sem, inflight, failures, landed>>

\* One turn of the loop of dispatch: wg.Add(1) and go runOne(dec[d]).
dispatch(c, d) ==
  /\ d \in batch[c]
  /\ batch' = [batch EXCEPT ![c] = @ \ {d}]
  /\ worker' = [worker EXCEPT ![d] = "waiting"]
  /\ wg' = wg + 1
  /\ UNCHANGED <<dec, mgrVars, pending, timer, clock, call, ticket, accepted,
                 sem, inflight, failures, landed>>

-----------------------------------------------------------------------------
(* runOne.  Its select takes either branch when both are ready.            *)

\* Mutant of acquire: the semaphore does not block.
acquireUncapped(c) ==
  /\ worker[c] = "waiting"
  /\ sem' = [sem EXCEPT ![NsOf(c)] = @ + 1]
  /\ worker' = [worker EXCEPT ![c] = "acquired"]
  /\ UNCHANGED <<dec, mgrVars, laneVars, wg, inflight, failures, landed>>

acquire(c) ==
  /\ worker[c] = "waiting"
  /\ sem[NsOf(c)] < MaxInFlight
  /\ sem' = [sem EXCEPT ![NsOf(c)] = @ + 1]
  /\ worker' = [worker EXCEPT ![c] = "acquired"]
  /\ UNCHANGED <<dec, mgrVars, laneVars, wg, inflight, failures, landed>>

\* Mutant of giveUp: returns without wg.Done.
giveUpNoDone(c) ==
  /\ worker[c] = "waiting"
  /\ cancelled
  /\ worker' = [worker EXCEPT ![c] = "done"]
  /\ UNCHANGED <<dec, mgrVars, laneVars, wg, sem, inflight, failures, landed>>

giveUp(c) ==
  /\ worker[c] = "waiting"
  /\ cancelled
  /\ worker' = [worker EXCEPT ![c] = "done"]
  /\ wg' = wg - 1
  /\ UNCHANGED <<dec, mgrVars, laneVars, sem, inflight, failures, landed>>

startPatch(c) ==
  /\ worker[c] = "acquired"
  /\ worker' = [worker EXCEPT ![c] = "patching"]
  /\ inflight' = [inflight EXCEPT ![NsOf(c)] = @ + 1]
  /\ UNCHANGED <<dec, mgrVars, laneVars, wg, sem, failures, landed>>

\* The Patcher (an interface): the write of the annotation reaches the KSvc.
\* A call of Patch that is skipped, or that fails early, never takes this step.
PatchLands(c) ==
  /\ worker[c] = "patching"
  /\ worker' = [worker EXCEPT ![c] = "written"]
  /\ landed' = [landed EXCEPT ![dec[c].key] = c]
  /\ UNCHANGED <<dec, mgrVars, laneVars, wg, sem, inflight, failures>>

\* runOne returns: the deferred release of the slot, then wg.Done.
leave(c) ==
  /\ worker' = [worker EXCEPT ![c] = "done"]
  /\ sem' = [sem EXCEPT ![NsOf(c)] = @ - 1]
  /\ wg' = wg - 1

\* Mutant of patchOK: the counter is decremented instead of deleted.
patchOKDecrements(c) ==
  /\ worker[c] \in {"patching", "written"}
  /\ inflight' = [inflight EXCEPT ![NsOf(c)] = @ - 1]
  /\ failures' = [failures EXCEPT ![dec[c].key] = @ - 1]
  /\ leave(c)
  /\ UNCHANGED <<dec, mgrVars, laneVars, landed>>

\* Patch returned nil (written or skipped): the counter of the key is deleted.
patchOK(c) ==
  /\ worker[c] \in {"patching", "written"}
  /\ inflight' = [inflight EXCEPT ![NsOf(c)] = @ - 1]
  /\ failures' = [failures EXCEPT ![dec[c].key] = 0]
  /\ leave(c)
  /\ UNCHANGED <<dec, mgrVars, laneVars, landed>>

\* Patch returned an error (the write may have landed all the same): at the
\* threshold the worker goes on to call the FailureSink.
patchFailed(c) ==
  /\ worker[c] \in {"patching", "written"}
  /\ inflight' = [inflight EXCEPT ![NsOf(c)] = @ - 1]
  /\ failures' = [failures EXCEPT ![dec[c].key] = @ + 1]
  /\ \/ /\ failures[dec[c].key] + 1 >= MaxFailures
        /\ worker' = [worker EXCEPT ![c] = "escalating"]
        /\ UNCHANGED <<sem, wg>>
     \/ /\ failures[dec[c].key] + 1 < MaxFailures
        /\ leave(c)
  /\ UNCHANGED <<dec, mgrVars, laneVars, landed>>

\* The FailureSink returns.
sinkReturns(c) ==
  /\ worker[c] = "escalating"
  /\ leave(c)
  /\ UNCHANGED <<dec, mgrVars, laneVars, inflight, failures, landed>>

-----------------------------------------------------------------------------
(* Stop.                                                                   *)

Stop ==
  /\ stop = "running"
  /\ stop' = "timers"
  /\ stopped' = TRUE
  /\ halting' = lanes
  /\ UNCHANGED <<dec, lanes, cancelled, laneVars, runVars>>

stopTimer(ns) ==
  /\ ns \in halting
  /\ halting' = halting \ {ns}
  /\ timer' = [timer EXCEPT ![ns] = None]
  /\ clock' = Halt(clock, timer[ns])
  /\ UNCHANGED <<dec, lanes, stopped, cancelled, stop, pending, batch, call,
                 ticket, accepted, runVars>>

cancel ==
  /\ stop = "timers"
  /\ halting = {}
  /\ cancelled' = TRUE
  /\ stop' = "waiting"
  /\ UNCHANGED <<dec, lanes, stopped, halting, laneVars, runVars>>

\* wg.Wait returns, and Stop with it.
Wait ==
  /\ stop = "waiting"
  /\ wg = 0
  /\ stop' = "returned"
  /\ UNCHANGED <<dec, lanes, stopped, cancelled, halting, laneVars, runVars>>

Next ==
  \/ \E c \in Calls :
       \/ Enqueue(c) \/ enqueue(c) \/ Fire(c) \/ flushSlow(c)
       \/ \E d \in Calls : dispatch(c, d)
       \/ acquire(c) \/ giveUp(c) \/ startPatch(c) \/ PatchLands(c)
       \/ patchOK(c) \/ patchFailed(c) \/ sinkReturns(c)
  \/ Stop
  \/ \E ns \in Namespaces : stopTimer(ns)
  \/ cancel
  \/ Wait

Spec == Init /\ [][Next]_vars

-----------------------------------------------------------------------------
(* Fairness.  Go runs every runnable goroutine, a time.Timer that is not    *)
(* stopped fires, a Patcher and a FailureSink return, and a channel serves *)
(* its blocked senders in order (hence SF on the slot).  Nothing forces a  *)
(* caller to call Enqueue or Stop.                                         *)

\* What becomes of call c until its decisions have workers: the call itself,
\* its timer, the callback and the loop follow one another.
Delivery(c) ==
  enqueue(c) \/ Fire(c) \/ flushSlow(c) \/ \E d \in Calls : dispatch(c, d)

\* The worker of c, which can do one of these at a time.
runOne(c) ==
  giveUp(c) \/ startPatch(c) \/ patchOK(c) \/ patchFailed(c) \/ sinkReturns(c)

Stopping == cancel \/ Wait \/ \E ns \in Namespaces : stopTimer(ns)

Fairness ==
  /\ \A c \in Calls : WF_vars(Delivery(c)) /\ SF_vars(acquire(c)) /\ WF_vars(runOne(c))
  /\ WF_vars(Stopping)

FairSpec == Spec /\ Fairness

-----------------------------------------------------------------------------
(* Properties.                                                             *)

\* Every variable has its type; in particular a failure counter of a lane
\* never goes below zero.
TypeOK ==
  /\ dec \in [Calls -> Decision]
  /\ call \in [Calls -> CallState]
  /\ batch \in [Calls -> SUBSET Calls]
  /\ clock \in [Calls -> TimerState]
  /\ lanes \subseteq Namespaces
  /\ stopped \in BOOLEAN
  /\ cancelled \in BOOLEAN
  /\ wg \in Int
  /\ stop \in {"running", "timers", "waiting", "returned"}
  /\ halting \subseteq Namespaces
  /\ pending \in [Key -> Calls \cup {None}]
  /\ failures \in [Key -> Nat]
  /\ timer \in [Namespaces -> Calls \cup {None}]
  /\ inflight \in [Namespaces -> Int]
  /\ sem \in [Namespaces -> Int]
  /\ worker \in [Calls -> WorkerState]
  /\ ticket \in [Calls -> Nat]
  /\ accepted \in Nat
  /\ landed \in [Key -> Calls \cup {None}]

Active(c) == worker[c] \notin {"none", "done"}
Holding(c) == worker[c] \in {"acquired", "patching", "written", "escalating"}
Invoking(c) == worker[c] \in {"patching", "written"}

ActiveCalls == {c \in Calls : Active(c)}
Holders(ns) == {c \in Calls : NsOf(c) = ns /\ Holding(c)}
Invokers(ns) == {c \in Calls : NsOf(c) = ns /\ Invoking(c)}

Queued(c) == pending[dec[c].key] = c
Drained(c) == \E b \in Calls : c \in batch[b]

\* At most MaxInFlight Patcher invocations run at once in a namespace, and the
\* gauge the lane reports (nsLane.inflight) is their exact number, whatever
\* the interleaving of drains, workers, failures, escalations and Stop.
InFlightBound ==
  \A ns \in Namespaces :
    /\ inflight[ns] = Cardinality(Invokers(ns))
    /\ Cardinality(Invokers(ns)) <= MaxInFlight

\* A decision waiting in a lane is never stranded: until Stop, a lane with a
\* pending entry has a timer that is still to fire, or that has fired and
\* whose flushSlow is still to drain the lane.  (A fast-lane drain may have
\* raced the callback of an older timer and armed a new one since.)
PendingHasFlusher ==
  \A k \in Key :
    pending[k] # None /\ ~stopped =>
      /\ timer[k[1]] # None
      /\ clock[timer[k[1]]] \in {"armed", "fired"}

\* No decision is flushed twice: the decision of a call is in at most one of
\* the pending map, one drained batch, and one worker, although flushSlow,
\* fast-lane calls and late timer callbacks all drain the same map.
FlushedAtMostOnce ==
  \A c \in Calls :
    /\ Queued(c) => ~Drained(c) /\ worker[c] = "none"
    /\ Drained(c) => worker[c] = "none"
    /\ \A a, b \in Calls : c \in batch[a] /\ c \in batch[b] => a = b

\* Coalescing loses nothing but what it may: an accepted decision that is
\* neither queued, drained nor run asked for min-scale=0, and a decision for
\* the same KSvc was accepted after it.  In particular a min-scale=1 decision
\* is never overridden in the queue.
OnlySupersededDropped ==
  \A c \in Calls :
    call[c] = "accepted" /\ ~Queued(c) /\ ~Drained(c) /\ worker[c] = "none" =>
      /\ dec[c].min = 0
      /\ \E d \in Calls : dec[d].key = dec[c].key /\ ticket[d] > ticket[c]

\* Stop returns only at a moment when every worker dispatched so far has
\* finished, on whichever of its paths (gave up, patched, failed, escalated).
StopDrainsWorkers ==
  [][stop # "returned" /\ stop' = "returned" => ActiveCalls = {}]_vars

Outstanding(c) == call[c] = "admitted" \/ Queued(c) \/ Drained(c) \/ Active(c)

\* Every decision that was admitted is eventually run to the end, or superseded
\* in the queue, unless the Manager is being stopped.  There are finitely many
\* calls and what is settled stays so: each decision settles if and only if time
\* and again none is outstanding.
DecisionSettles == []<>(stopped \/ \A c \in Calls : ~Outstanding(c))

\* Stop returns, even when calls and timer callbacks keep dispatching work.
StopReturns == stop = "timers" ~> stop = "returned"
=============================================================================
