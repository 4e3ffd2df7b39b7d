-------------------------- MODULE FlusherRefinement --------------------------
(***************************************************************************)
(* Flusher implements DecisionQueue and, seen from any one KSvc, KSvcLane.  *)
(***************************************************************************)
EXTENDS Flusher

\* A decision waits in the pending map of a lane, in a drained batch or for a
\* slot; it runs from the moment its worker has one.
phase ==
  [c \in Calls |->
     IF worker[c] = "done" THEN "done"
     ELSE IF Holding(c) THEN "running"
     ELSE IF worker[c] = "waiting" \/ Queued(c) \/ Drained(c) THEN "waiting"
     ELSE IF call[c] = "accepted" THEN "dropped"
     ELSE "new"]

mode == IF stop = "returned" THEN "closed" ELSE IF cancelled THEN "cancelled" ELSE "open"

Queue == INSTANCE DecisionQueue WITH phase <- phase, mode <- mode

\* The lanes, timers, batches and workers implement the queue their callers are
\* promised: each of their steps is a step of it or invisible to it.
ImplementsQueue == Queue!Spec

\* The decision of c has left the lane, and its write has not landed.
Carried(c) == Drained(c) \/ worker[c] \in {"waiting", "acquired", "patching"}

Carriers(k, m) == {c \in Calls : dec[c].key = k /\ dec[c].min = m /\ Carried(c)}

Annotation(k) == IF landed[k] = None THEN None ELSE dec[landed[k]].min

Lane(k) ==
  INSTANCE KSvcLane WITH
    Slots <- Calls, waiting <- (pending[k] # None),
    allows <- Carriers(k, 0), pins <- Carriers(k, 1), min <- Annotation(k)

\* To each KSvc the Manager is the queue that the guard relies on, although the
\* lanes are shared by the KSvcs of a namespace.
ImplementsLane ==
  /\ \A k \in Key : Lane(k)!Init
  /\ [][\A k \in Key : Lane(k)!Next \/ UNCHANGED Lane(k)!vars]_vars
=============================================================================
