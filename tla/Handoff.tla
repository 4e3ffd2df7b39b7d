------------------------------- MODULE Handoff -------------------------------
(***************************************************************************)
(* What the operator promises the owner of a workload, without passes,     *)
(* caches, patches or snapshots.  The workload is handed from its          *)
(* Deployment to a KSvc and back in an order that never leaves it to       *)
(* nobody: a KSvc is created and the source parked at 0 replicas only      *)
(* under a claim, the source is parked only when a KSvc has become Ready,  *)
(* the claim is given up only when the KSvc is gone, and the source comes  *)
(* back after that.  The user may interfere at any time.                   *)
(***************************************************************************)
EXTENDS Naturals

CONSTANT Lossless  \* no write is lost and no Deployment is read late

VARIABLES
  claim,   \* held: a CR guards the workload; torn: it is being released
  ksvc,    \* the KSvc
  parked,  \* the source is at 0 because the operator put it there
  moves    \* number of actions of the user so far

vars == <<claim, ksvc, parked, moves>>

Init == claim = "none" /\ ksvc = "gone" /\ parked = FALSE /\ moves = 0

Claim ==
  /\ claim = "none" /\ claim' = "held"
  /\ UNCHANGED <<ksvc, parked, moves>>

Deploy ==
  /\ claim = "held"
  /\ ksvc = "gone" /\ ksvc' = "pending"
  /\ UNCHANGED <<claim, parked, moves>>

\* Knative makes the KSvc Ready, takes that back and finishes its deletion.
Serve ==
  /\ <<ksvc, ksvc'>> \in {<<"pending", "ready">>, <<"ready", "pending">>, <<"terminating", "gone">>}
  /\ UNCHANGED <<claim, parked, moves>>

\* A KSvc that is being deleted may still say that it is Ready.
Park ==
  /\ claim = "held" /\ ksvc \in {"ready", "terminating"}
  /\ parked' = TRUE
  /\ UNCHANGED <<claim, ksvc, moves>>

Withdraw ==
  /\ claim = "held"
  /\ ksvc \in {"pending", "ready"} /\ ksvc' = "terminating"
  /\ UNCHANGED <<claim, parked, moves>>

Tear ==
  /\ claim = "held" /\ ksvc = "gone"
  /\ claim' = "torn"
  /\ UNCHANGED <<ksvc, parked, moves>>

Restore ==
  /\ claim # "held" /\ ksvc = "gone"
  /\ parked' = FALSE
  /\ UNCHANGED <<claim, ksvc, moves>>

Release ==
  /\ claim = "torn"
  /\ Lossless => ~parked
  /\ claim' = "none"
  /\ UNCHANGED <<ksvc, parked, moves>>

\* The user scales or deletes the Deployment, deletes the KSvc, or does
\* something that does not matter here.
Interfere ==
  /\ moves' = moves + 1
  /\ parked' \in {parked, FALSE}
  /\ ksvc' = ksvc \/ (ksvc \in {"pending", "ready"} /\ ksvc' = "terminating")
  /\ UNCHANGED claim

Next ==
  \/ Claim \/ Deploy \/ Serve \/ Park \/ Withdraw \/ Tear \/ Restore \/ Release
  \/ Interfere

Spec == Init /\ [][Next]_vars
=============================================================================
