-------------------------- MODULE MCScaleDownGuard --------------------------
(* Instances of ScaleDownGuard for TLC, and what the repository says of it   *)
(* that does not hold.                                                     *)
EXTENDS ScaleDownGuard, TLC

Symmetry == Permutations(Pods) \cup Permutations(Workers)

\* What vote.go says of OutcomeBlock: "Operator must pin min-scale=1 until the
\* next round flips it back".  Between two passes, with nothing left in the
\* flusher, a KSvc whose last round was blocked has min-scale 1.
BlockPins ==
  /\ pc = "idle" /\ pending = None /\ \A w \in Workers : job[w] = None
  /\ verdict = "Block" /\ guardEnabled(spec)
  => min = 1

\* What vote.go says of OutcomeNoPods: "The caller should skip the patch".
NoPodsSkipsPatch ==
  [][verdict' = "NoPods" /\ pc = "guard" /\ pc' = "apply" /\ ready /\ guardEnabled(memSpec)
       => UNCHANGED flushVars]_vars

\* What ProbeStatus.ConsecutiveErrors says: it "counts back-to-back guard rounds"
\* and "is reset to zero on any error-free round".
ErrorsBackToBack == pc = "idle" => Errors(probe) <= streak
=============================================================================
