------------------------- MODULE AdoptionRefinement -------------------------
(***************************************************************************)
(* Adoption implements Handoff.                                            *)
(***************************************************************************)
EXTENDS Adoption

\* Both finalizers are set; the first one is gone.
claim ==
  IF cr = None THEN "none" ELSE IF cr.fin = Fin THEN "held"
  ELSE IF cr.fin = {} THEN "none" ELSE "torn"

service == IF ksvc = None THEN "gone" ELSE ksvc

Workload ==
  INSTANCE Handoff WITH
    Lossless <- (MaxFaults = 0 /\ "dep" \notin Lagging),
    claim <- claim, ksvc <- service, parked <- (quiesced # None), moves <- ops

\* Passes, caches, patches and finalizers implement the hand-over that the owner
\* of the workload is promised: each step is a step of it or invisible to it.
ImplementsHandoff == Workload!Spec
=============================================================================
