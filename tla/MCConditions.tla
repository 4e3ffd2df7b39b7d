---------------------------- MODULE MCConditions ----------------------------
(* What the repository says of the conditions that does not hold.          *)
EXTENDS Conditions

\* What Reconcile says of recomputeReady: callers that only watch Ready "see a
\* consistent picture regardless of which branch wrote which sub-condition".
\* The failure sink writes one, too.
ReadyPicture ==
  "Ready" \in stored.on => stored.degraded = None /\ stored.on \cap readyAggregateFailures = {}

\* What clearConditionIfReason says: "each writer (guard / apply / swap) must
\* clear only the cause it owns".  The swap clears its own once the Service is
\* gone.
SwapClearsItsCause == <>[]Healthy => <>[](stored.degraded # "delete")

\* ... and nobody clears the Degraded of the flusher while it cannot patch.
FlushCauseKept ==
  [][stored.degraded = "flush" /\ stored'.degraded = None => "flush" \notin broken]_vars

\* What the design says of Degraded: /scaledownz cannot be reached, round after
\* round.  It does not outlast the rounds that reach every pod.
ReachablePodClears ==
  <>[](broken = {} /\ ~HasErrors(results)) => <>[](stored.degraded # "probe")
=============================================================================
