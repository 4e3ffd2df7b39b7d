----------------------------- MODULE MCAdoption -----------------------------
(* Instances of Adoption for TLC, and what the repository says of it that   *)
(* does not hold.                                                          *)
EXTENDS AdoptionRefinement, TLC

\* What restore.go says of a Create that finds the name taken: "Either way the
\* post-condition (a Service of that name exists) is satisfied".  When the CR
\* is gone, the Service whose spec was held is back.
ReleaseRestoresService ==
  [][Releases /\ want # None /\ ServiceHeld
       => svc # None /\ ~IsDerived(svc) /\ svc.spec = want]_vars

\* What restore.go says of the trigger label: "we guarantee that the next
\* watcher reconcile observes 'no label, no CR'".
ReleaseConsumesLabel ==
  [][Releases /\ pc = "removeSourceFinalizer" => dep = None \/ ~dep.label]_vars

\* What labels.go says of the managed-by-watcher label: "user-authored CRs are
\* left untouched", by a watcher that checks a cached CR and deletes or applies by
\* name.
WatcherSparesUserCR ==
  [][Watch /\ cr # None /\ ~cr.watcher => cr' = cr]_vars

\* What restore.go says of a released workload: "to re-adopt the workload the
\* user re-applies the label".
ReadoptionCompletes ==
  Adoptable ~> ksvc = "ready" \/ ~Adoptable
=============================================================================
