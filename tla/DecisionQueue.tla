---------------------------- MODULE DecisionQueue ----------------------------
(***************************************************************************)
(* What internal/flusher promises its callers, without lanes, timers,      *)
(* batches, goroutines or locks: every decision submitted is run once, by  *)
(* at most MaxInFlight at a time in a namespace, except that a newer       *)
(* decision for the same KSvc may take the place of one min-scale=0        *)
(* decision that still waits, and that a cancelled Manager may skip what   *)
(* waits.  Stop returns when nothing runs.                                 *)
(***************************************************************************)
EXTENDS Naturals, FiniteSets

CONSTANTS Calls, Namespaces, KSvcs, MaxInFlight

VARIABLES
  dec,    \* dec[c]: the decision of call c
  phase,  \* phase[c]: what has become of it
  mode    \* the Manager: open, cancelled or closed (Stop has returned)

vars == <<dec, phase, mode>>

Running(ns) == {c \in Calls : dec[c].key[1] = ns /\ phase[c] = "running"}

Init ==
  /\ dec \in [Calls -> [key : Namespaces \X KSvcs, min : {0, 1}]]
  /\ phase = [c \in Calls |-> "new"]
  /\ mode = "open"

Submit(c) ==
  /\ phase[c] = "new"
  /\ phase' = [phase EXCEPT ![c] = "waiting"]
  /\ UNCHANGED <<dec, mode>>

\* c takes the place of d.
Supersede(c, d) ==
  /\ phase[c] = "new"
  /\ phase[d] = "waiting"
  /\ dec[d].key = dec[c].key
  /\ dec[d].min = 0
  /\ phase' = [phase EXCEPT ![c] = "waiting", ![d] = "dropped"]
  /\ UNCHANGED <<dec, mode>>

Start(c) ==
  /\ phase[c] = "waiting"
  /\ Cardinality(Running(dec[c].key[1])) < MaxInFlight
  /\ phase' = [phase EXCEPT ![c] = "running"]
  /\ UNCHANGED <<dec, mode>>

Finish(c) ==
  /\ phase[c] = "running"
  /\ phase' = [phase EXCEPT ![c] = "done"]
  /\ UNCHANGED <<dec, mode>>

Skip(c) ==
  /\ mode # "open"
  /\ phase[c] = "waiting"
  /\ phase' = [phase EXCEPT ![c] = "done"]
  /\ UNCHANGED <<dec, mode>>

Cancel ==
  /\ mode = "open"
  /\ mode' = "cancelled"
  /\ UNCHANGED <<dec, phase>>

Close ==
  /\ mode = "cancelled"
  /\ \A c \in Calls : phase[c] # "running"
  /\ mode' = "closed"
  /\ UNCHANGED <<dec, phase>>

Next ==
  \/ \E c \in Calls :
       \/ Submit(c) \/ Start(c) \/ Finish(c) \/ Skip(c)
       \/ \E d \in Calls : Supersede(c, d)
  \/ Cancel
  \/ Close

Spec == Init /\ [][Next]_vars
=============================================================================
