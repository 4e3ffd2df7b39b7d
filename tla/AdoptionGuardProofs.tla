------------------------- MODULE AdoptionGuardProofs -------------------------
(***************************************************************************)
(* Proofs about Adoption that need more than types.  A live KSvc always has *)
(* a CR with both finalizers: PassInv carries what the cached CR says       *)
(* (CacheInv) through a pass.  The Deployment comes back last: TornInv says *)
(* what is gone once the first finalizer of a CR being deleted is.  What    *)
(* the operator takes from the user stays known until the release: HoldInv  *)
(* relates the snapshots of the CR, its cached version and the two copies   *)
(* of a pass, QuiescedInv relates them to a source scaled to 0.  With these *)
(* and LeaveInv, which says that a release past its first finalizer has no  *)
(* guarded CR, each step is one of Handoff or invisible to it.              *)
(***************************************************************************)
EXTENDS AdoptionProofs, AdoptionRefinement

Adopting == {"getSource", "swapService", "applyKSvc"}
Deleting == {"deleteKSvc", "awaitChildren", "rebuildService", "removeServiceFinalizer",
             "restoreDeployment", "removeSourceFinalizer"}

PassInv ==
  /\ pc \in Adopting => Guarded(cr)
  /\ pc = "ensureFinalizers" /\ mem.fin = Fin => Guarded(cr)
  /\ pc \in Deleting /\ cr # None /\ cr.uid = mem.uid
       => cr.deleting /\ CRView # None /\ CRView.deleting
  /\ pc \in {"awaitChildren", "rebuildService", "removeServiceFinalizer"}
       => ksvc \in {None, "terminating"}
  /\ pc \in {"restoreDeployment", "removeSourceFinalizer"} => "service" \notin mem.fin

GuardInv == TypeOK /\ CacheInv /\ PassInv /\ KSvcHasGuardian

\* The steps of a pass that neither add nor remove a finalizer.
LEMMA PassMoves ==
  ASSUME TypeOK, NEW o \in Outcome,
         \/ Reconcile \/ getSource \/ awaitChildren \/ Crash \/ swapService(o)
         \/ applyKSvc(o) \/ quiesceSource(o) \/ patchStatus(o) \/ deleteKSvcIfPresent(o)
         \/ rebuildSnapshotService(o) \/ restoreDeploymentSpec(o)
  PROVE  /\ KeepsCR
         /\ CreatesNoKSvc \/ (pc = "applyKSvc" /\ pc' \in {"quiesceSource", "patchStatus"})
         /\ \/ mem' = None \/ mem' = CRView
            \/ mem # None /\ mem' # None /\ mem'.uid = mem.uid /\ mem'.fin = mem.fin
<1>1. CASE Reconcile \/ getSource \/ awaitChildren \/ Crash
  <2>1. UNCHANGED <<cr, crs, ksvc>>
    BY <1>1 DEF Reconcile, getSource, awaitChildren, Crash
  <2>2. mem' = None \/ mem' = CRView \/ (mem # None /\ mem' = mem)
    <3>1. CASE Reconcile
      BY <3>1 DEF Reconcile, CRView
    <3>2. CASE getSource
      BY <3>2 DEF getSource, TypeOK
    <3>3. CASE awaitChildren
      BY <3>3 DEF awaitChildren, Goto, TypeOK
    <3>4. CASE Crash
      BY <3>4 DEF Crash, Return
    <3>5. QED
      BY <1>1, <3>1, <3>2, <3>3, <3>4
  <2>3. QED
    BY <2>1, <2>2 DEF KeepsCR, CreatesNoKSvc
<1>2. CASE swapService(o) \/ quiesceSource(o)
  <2>0. TypeOK' /\ pc' # "idle"
    BY <1>2, AdoptType DEF swapService, quiesceSource
  <2>1. mem \in CR
    BY <1>2 DEF swapService, quiesceSource, TypeOK
  <2>2. UNCHANGED <<cr, crs, ksvc>>
    BY <1>2 DEF swapService, quiesceSource
  <2>3. mem' # None /\ mem'.uid = mem.uid /\ mem'.fin = mem.fin
    <3>1. \/ mem' = mem
          \/ \E x : mem' = [mem EXCEPT !.snapSvc = x]
          \/ \E x : mem' = [mem EXCEPT !.snapRep = x]
      BY <1>2 DEF swapService, snapshotAndDeleteService, quiesceSource
    <3>2. mem' # None
      BY <2>0 DEF TypeOK
    <3>3. QED
      BY <2>1, <3>1, <3>2, Zenon DEF CR
  <2>4. mem # None
    BY <2>1, AdoptionAssumption
  <2>5. QED
    BY <2>2, <2>3, <2>4 DEF KeepsCR, CreatesNoKSvc
<1>3. CASE applyKSvc(o)
  <2>1. /\ UNCHANGED <<cr, crs, mem>> /\ pc = "applyKSvc"
        /\ pc' \in {"quiesceSource", "patchStatus"}
    BY <1>3 DEF applyKSvc, Goto
  <2>2. mem # None
    BY <2>1 DEF TypeOK
  <2>3. QED
    BY <2>1, <2>2 DEF KeepsCR
<1>4. CASE patchStatus(o)
  <2>1. KeepsCR
    <3>1. CASE cr' = cr
      BY <1>4, <3>1 DEF patchStatus, KeepsCR
    <3>2. CASE cr' # cr
      <4>1. cr \in CR /\ mem \in CR
        BY <1>4, <3>2, SMTT(30) DEF patchStatus, TypeOK
      <4>2. \E x \in Replicas \cup {None}, y \in Specs \cup {None} :
               cr' = [cr EXCEPT !.snapRep = x, !.snapSvc = y]
        BY <1>4, <3>2, <4>1, Zenon DEF patchStatus, CR
      <4>3. cr' \in CR /\ cr'.uid = cr.uid /\ cr'.fin = cr.fin /\ cr'.deleting = cr.deleting
        BY <4>1, <4>2, Zenon DEF CR
      <4>4. QED
        BY <1>4, <4>1, <4>3, AdoptionAssumption DEF patchStatus, KeepsCR
    <3>3. QED
      BY <3>1, <3>2
  <2>2. QED
    BY <1>4, <2>1 DEF patchStatus, Return, CreatesNoKSvc
<1>5. CASE deleteKSvcIfPresent(o) \/ rebuildSnapshotService(o) \/ restoreDeploymentSpec(o)
  <2>1. UNCHANGED <<cr, crs, mem>> /\ pc # "idle"
    BY <1>5 DEF deleteKSvcIfPresent, rebuildSnapshotService, restoreDeploymentSpec, Goto
  <2>2. mem # None
    BY <2>1 DEF TypeOK
  <2>3. ksvc' = ksvc \/ ksvc' = "terminating"
    BY <1>5 DEF deleteKSvcIfPresent, rebuildSnapshotService, restoreDeploymentSpec
  <2>4. CreatesNoKSvc
    <3>1. CASE ksvc' = ksvc
      BY <3>1 DEF CreatesNoKSvc
    <3>2. CASE ksvc' # ksvc
      BY <1>5, <3>2
         DEF deleteKSvcIfPresent, rebuildSnapshotService, restoreDeploymentSpec, CreatesNoKSvc
    <3>3. QED
      BY <3>1, <3>2
  <2>5. QED
    BY <2>1, <2>2, <2>4 DEF KeepsCR
<1>6. QED
  BY <1>1, <1>2, <1>3, <1>4, <1>5, SMTT(30)

-----------------------------------------------------------------------------
(* GuardInv is inductive.                                                  *)

LEMMA KeepFacts ==
  ASSUME GuardInv, TypeOK', KeepsCR, CRView' = CRView \/ CRView' = cr'
  PROVE  /\ Guarded(cr) => Guarded(cr')
         /\ pc \in Deleting /\ cr' # None /\ cr'.uid = mem.uid
              => cr'.deleting /\ CRView' # None /\ CRView'.deleting
<1>1. Fin # {}
  BY DEF Fin
<1>2. Guarded(cr) => Guarded(cr')
  BY <1>1 DEF KeepsCR, Guarded
<1>3. ASSUME pc \in Deleting, cr' # None, cr'.uid = mem.uid
      PROVE  cr'.deleting /\ CRView' # None /\ CRView'.deleting
  <2>1. mem \in CR /\ mem.uid <= crs /\ crs \in Nat /\ mem.uid \in Nat
    BY <1>3, AdoptionAssumption DEF GuardInv, TypeOK, CacheInv, CR, Deleting
  <2>2. cr # None /\ cr.uid = mem.uid /\ (cr.deleting => cr'.deleting)
    BY <1>3, <2>1 DEF KeepsCR
  <2>3. QED
    BY <1>3, <2>2 DEF GuardInv, PassInv
<1>4. QED
  BY <1>2, <1>3

LEMMA GuardEnvStep ==
  ASSUME GuardInv, TypeOK', Next,
         Watch \/ (\E k \in Lagging : Sync(k)) \/ Knative \/ User
  PROVE  GuardInv'
<1>0. TypeOK
  BY DEF GuardInv
<1>1. KeepsCR /\ CreatesNoKSvc /\ UNCHANGED <<pc, mem>>
  BY <1>0, EnvMoves
<1>2. CRView' = CRView \/ CRView' = cr'
  BY <1>0, CRViewStep
<1>3. CacheInv'
  BY <1>0, <1>1, <1>2, CacheStep DEF GuardInv
<1>4. /\ Guarded(cr) => Guarded(cr')
      /\ pc \in Deleting /\ cr' # None /\ cr'.uid = mem.uid
           => cr'.deleting /\ CRView' # None /\ CRView'.deleting
  BY <1>1, <1>2, KeepFacts
<1>5. ksvc \in {None, "terminating"} => ksvc' \in {None, "terminating"}
  BY <1>1, AdoptionAssumption DEF CreatesNoKSvc, TypeOK
<1>6. PassInv'
  BY <1>1, <1>4, <1>5 DEF GuardInv, PassInv, Guarded, Adopting, Deleting
<1>7. KSvcHasGuardian'
  BY <1>1, <1>4 DEF GuardInv, KSvcHasGuardian, Guarded, CreatesNoKSvc
<1>8. QED
  BY <1>3, <1>6, <1>7 DEF GuardInv

LEMMA GuardPassStep ==
  ASSUME GuardInv, TypeOK', Next, NEW o \in Outcome,
         \/ Reconcile \/ getSource \/ awaitChildren \/ Crash \/ swapService(o)
         \/ applyKSvc(o) \/ quiesceSource(o) \/ patchStatus(o) \/ deleteKSvcIfPresent(o)
         \/ rebuildSnapshotService(o) \/ restoreDeploymentSpec(o)
  PROVE  GuardInv'
<1>0. TypeOK
  BY DEF GuardInv
<1>1. /\ KeepsCR
      /\ CreatesNoKSvc \/ (pc = "applyKSvc" /\ pc' \in {"quiesceSource", "patchStatus"})
      /\ \/ mem' = None \/ mem' = CRView
         \/ mem # None /\ mem' # None /\ mem'.uid = mem.uid /\ mem'.fin = mem.fin
  BY <1>0, PassMoves
<1>2. CRView' = CRView \/ CRView' = cr'
  BY <1>0, CRViewStep
<1>3. CacheInv'
  BY <1>0, <1>1, <1>2, CacheStep DEF GuardInv
<1>4. /\ Guarded(cr) => Guarded(cr')
      /\ pc \in Deleting /\ cr' # None /\ cr'.uid = mem.uid
           => cr'.deleting /\ CRView' # None /\ CRView'.deleting
  BY <1>1, <1>2, KeepFacts
<1>5. KSvcHasGuardian'
  BY <1>1, <1>4
     DEF GuardInv, KSvcHasGuardian, PassInv, Guarded, Adopting, CreatesNoKSvc
<1>6. PassInv'
  <2>1. CASE Reconcile
    <3>1. CRView # None /\ mem' = CRView /\ UNCHANGED <<cr, ksvc>>
      BY <2>1 DEF Reconcile, CRView
    <3>2. CASE ~CRView.deleting
      <4>1. pc' = "ensureFinalizers"
        BY <2>1, <3>2 DEF Reconcile, CRView
      <4>2. QED
        BY <3>1, <3>2, <4>1
           DEF GuardInv, CacheInv, PassInv, Guarded, Adopting, Deleting
    <3>3. CASE CRView.deleting
      <4>1. /\ pc' \in {"deleteKSvc", "restoreDeployment", "patchStatus"}
            /\ pc' = "restoreDeployment" => "service" \notin CRView.fin
        BY <2>1, <3>3 DEF Reconcile, CRView
      <4>2. cr' # None /\ cr'.uid = mem'.uid => cr'.deleting /\ CRView' # None /\ CRView'.deleting
        BY <1>2, <3>1, <3>3 DEF GuardInv, CacheInv
      <4>3. QED
        BY <3>1, <4>1, <4>2 DEF PassInv, Adopting, Deleting
    <3>4. QED
      BY <3>2, <3>3
  <2>2. CASE pc' \in {"idle", "patchStatus", "quiesceSource"}
    BY <2>2 DEF PassInv, Adopting, Deleting
  <2>3. CASE getSource \/ swapService(o)
    <3>1. pc \in Adopting /\ pc' \in {"swapService", "applyKSvc", "patchStatus"}
      BY <2>3, SMTT(30) DEF getSource, swapService, Adopting
    <3>2. QED
      BY <1>4, <3>1 DEF GuardInv, PassInv, Adopting, Deleting, Guarded
  <2>4. CASE deleteKSvcIfPresent(o) \/ awaitChildren \/ rebuildSnapshotService(o)
    <3>1. /\ pc \in Deleting /\ mem' = mem
          /\ pc' \in {"awaitChildren", "rebuildService", "removeServiceFinalizer", "patchStatus"}
      BY <2>4, ZenonT(30)
         DEF deleteKSvcIfPresent, awaitChildren, rebuildSnapshotService, Goto, Deleting
    <3>2. pc' # "patchStatus" => ksvc' \in {None, "terminating"}
      <4>1. CASE deleteKSvcIfPresent(o)
        BY <4>1, SMTT(30) DEF deleteKSvcIfPresent, Goto, Landed
      <4>2. CASE awaitChildren
        BY <4>2, SMTT(30) DEF awaitChildren, Goto, GuardInv, PassInv
      <4>3. CASE rebuildSnapshotService(o)
        BY <4>3, SMTT(30) DEF rebuildSnapshotService, Goto, GuardInv, PassInv
      <4>4. QED
        BY <2>4, <4>1, <4>2, <4>3
    <3>3. QED
      BY <1>4, <3>1, <3>2, SMTT(30) DEF PassInv, Adopting, Deleting
  <2>5. CASE restoreDeploymentSpec(o)
    <3>1. /\ pc = "restoreDeployment" /\ pc' \in {"removeSourceFinalizer", "patchStatus"}
          /\ mem' = mem
      BY <2>5 DEF restoreDeploymentSpec, Goto
    <3>2. QED
      BY <1>4, <3>1 DEF GuardInv, PassInv, Adopting, Deleting
  <2>6. QED
    BY <2>1, <2>2, <2>3, <2>4, <2>5
    DEF Crash, Return, applyKSvc, quiesceSource, patchStatus, Goto
<1>7. QED
  BY <1>3, <1>5, <1>6 DEF GuardInv

LEMMA GuardEnsureStep ==
  ASSUME GuardInv, TypeOK', Next, NEW o \in Outcome, ensureFinalizers(o)
  PROVE  GuardInv'
<1>0. TypeOK /\ crs' = crs /\ ksvc' = ksvc /\ pc = "ensureFinalizers"
  BY DEF GuardInv, ensureFinalizers
<1>1. CRView' = CRView \/ CRView' = cr'
  BY <1>0, CRViewStep
<1>2. CASE cr' = cr
  <2>1. mem' \in {mem, None, cr}
    BY <1>2 DEF ensureFinalizers, Goto, Return
  <2>2. CacheInv'
    BY <1>0, <1>1, <1>2, <2>1 DEF GuardInv, CacheInv, Guarded
  <2>3. /\ pc' \in {"getSource", "idle"}
        /\ pc' = "getSource" => mem.fin = Fin \/ (cr # None /\ cr'.fin = Fin)
    <3>1. CASE mem.fin = Fin
      BY <3>1 DEF ensureFinalizers, Goto
    <3>2. CASE mem.fin # Fin
      <4>1. CASE cr = None \/ (cr.deleting /\ cr.fin # Fin) \/ ~Landed(o)
        BY <3>2, <4>1 DEF ensureFinalizers, Return
      <4>2. CASE ~(cr = None \/ (cr.deleting /\ cr.fin # Fin) \/ ~Landed(o))
        BY <1>0, <3>2, <4>2 DEF ensureFinalizers, Return, TypeOK, CR
      <4>3. QED
        BY <4>1, <4>2
    <3>3. QED
      BY <3>1, <3>2
  <2>4. PassInv'
    BY <1>0, <1>2, <2>3 DEF GuardInv, PassInv, Adopting, Deleting, Guarded
  <2>5. KSvcHasGuardian'
    BY <1>0, <1>2 DEF GuardInv, KSvcHasGuardian
  <2>6. QED
    BY <2>2, <2>4, <2>5 DEF GuardInv
<1>3. CASE cr' # cr
  <2>1. /\ cr # None /\ cr' = [cr EXCEPT !.fin = Fin]
        /\ pc' \in {"getSource", "idle"} /\ mem' \in {cr', None}
    BY <1>3 DEF ensureFinalizers, Return
  <2>2. cr \in CR
    BY <1>0, <2>1 DEF TypeOK
  <2>3. cr'.uid = cr.uid /\ cr'.deleting = cr.deleting /\ cr'.fin = Fin /\ cr' \in CR
    BY <2>1, <2>2 DEF CR
  <2>4. Guarded(cr')
    BY <2>3, AdoptionAssumption DEF Guarded
  <2>5. CacheInv'
    BY <1>0, <1>1, <2>1, <2>3, <2>4, Zenon DEF GuardInv, CacheInv, Guarded
  <2>6. PassInv'
    BY <2>1, <2>4 DEF PassInv, Adopting, Deleting, Guarded
  <2>7. KSvcHasGuardian'
    BY <2>4 DEF KSvcHasGuardian, Guarded
  <2>8. QED
    BY <2>5, <2>6, <2>7 DEF GuardInv
<1>4. QED
  BY <1>2, <1>3

\* What a removal of a finalizer that takes effect does.
LEMMA RemoveEffect ==
  ASSUME TypeOK, pc # "idle", NEW f, NEW next, NEW o \in Outcome,
         removeFinalizer(f, next, o), cr' # cr \/ mem' # mem
  PROVE  /\ cr = mem /\ cr # None
         /\ mem' = mem \/ (mem'.uid = mem.uid /\ mem'.fin = mem.fin \ {f})
         /\ \/ cr' = None
            \/ /\ cr'.uid = cr.uid /\ cr'.deleting = cr.deleting /\ cr'.fin = cr.fin \ {f}
               /\ ~(cr.deleting /\ cr'.fin = {})
         /\ cr' = None => cr.deleting /\ cr.fin \ {f} = {}
<1>1. mem \in CR
  BY DEF TypeOK
<1>2. cr = mem /\ cr' = Stored([cr EXCEPT !.fin = @ \ {f}])
      /\ (mem' = mem \/ mem' = [mem EXCEPT !.fin = @ \ {f}])
  BY DEF removeFinalizer, Goto
<1> DEFINE c == [cr EXCEPT !.fin = @ \ {f}]
<1>3. c \in CR /\ c.uid = cr.uid /\ c.deleting = cr.deleting /\ c.fin = cr.fin \ {f}
  BY <1>1, <1>2 DEF CR
<1>4. QED
  BY <1>1, <1>2, <1>3, AdoptionAssumption, Zenon DEF Stored

LEMMA GuardRemoveStep ==
  ASSUME GuardInv, TypeOK', Next, NEW o \in Outcome,
         removeServiceFinalizer(o) \/ removeSourceFinalizer(o)
  PROVE  GuardInv'
<1>0. TypeOK /\ crs' = crs /\ ksvc' = ksvc
  BY
     DEF GuardInv, removeServiceFinalizer, removeSourceFinalizer, removeFinalizer
<1>1. CRView' = CRView \/ CRView' = cr'
  BY <1>0, CRViewStep
<1>2. PICK f \in Fin, next \in {"restoreDeployment", "patchStatus"} :
        /\ removeFinalizer(f, next, o)
        /\ \/ pc = "removeServiceFinalizer" /\ f = "service"
           \/ pc = "removeSourceFinalizer" /\ f = "source" /\ next = "patchStatus"
  BY DEF removeServiceFinalizer, removeSourceFinalizer, Fin
<1>3. CASE cr' = cr /\ mem' = mem
  <2>1. pc' = "patchStatus" \/ (pc' = next /\ o = "ok")
    BY <1>2 DEF removeFinalizer, Goto
  <2>2. pc' = "restoreDeployment" => "service" \notin mem'.fin
    <3>1. mem \in CR
      BY <1>0, <1>2 DEF TypeOK
    <3>2. QED
      BY <1>2, <1>3, <2>1, <3>1 DEF removeFinalizer, Goto, CR
  <2>3. CacheInv'
    BY <1>0, <1>1, <1>3 DEF GuardInv, CacheInv, Guarded
  <2>4. PassInv'
    <3>1. pc \in Deleting /\ pc' \in {"restoreDeployment", "patchStatus"}
      BY <1>2, <2>1 DEF Deleting
    <3>2. /\ pc' \notin Adopting
          /\ pc' \notin {"awaitChildren", "rebuildService", "removeServiceFinalizer"}
          /\ pc' \notin {"ensureFinalizers", "removeSourceFinalizer"}
      BY <3>1 DEF Adopting
    <3>3. cr' # None /\ cr'.uid = mem'.uid =>
            cr'.deleting /\ CRView' # None /\ CRView'.deleting
      BY <1>1, <1>3, <3>1 DEF GuardInv, PassInv
    <3>4. QED
      BY <2>2, <3>2, <3>3 DEF PassInv
  <2>5. KSvcHasGuardian'
    BY <1>0, <1>3 DEF GuardInv, KSvcHasGuardian
  <2>6. QED
    BY <2>3, <2>4, <2>5 DEF GuardInv
<1>4. CASE cr' # cr \/ mem' # mem
  <2>1. /\ cr = mem /\ cr # None
        /\ mem' = mem \/ (mem'.uid = mem.uid /\ mem'.fin = mem.fin \ {f})
        /\ \/ cr' = None
           \/ cr'.uid = cr.uid /\ cr'.deleting = cr.deleting
    BY <1>0, <1>2, <1>4, RemoveEffect, SMTT(30)
  <2>2. cr.deleting /\ CRView # None /\ CRView.deleting
    BY <1>2, <2>1 DEF GuardInv, PassInv, Deleting
  <2>3. CacheInv'
    BY <1>0, <1>1, <2>1, <2>2, Zenon DEF GuardInv, CacheInv, Guarded
  <2>4. ksvc \notin {"pending", "ready"}
    <3>1. CASE pc = "removeServiceFinalizer"
      BY <3>1, AdoptionAssumption DEF GuardInv, PassInv
    <3>2. CASE pc = "removeSourceFinalizer"
      BY <2>1, <3>2 DEF GuardInv, PassInv, KSvcHasGuardian, Fin
    <3>3. QED
      BY <1>2, <3>1, <3>2
  <2>5. /\ pc' \in {"restoreDeployment", "patchStatus"}
        /\ pc' = "restoreDeployment" => "service" \notin mem'.fin
    <3>1. mem \in CR
      BY <1>0, <1>2 DEF TypeOK
    <3>2. QED
      BY <1>2, <3>1 DEF removeFinalizer, Goto, CR
  <2>6. PassInv'
    BY <1>1, <2>1, <2>2, <2>5, Zenon DEF PassInv, Adopting, Deleting
  <2>7. QED
    BY <1>0, <2>3, <2>4, <2>6, SMTT(30) DEF GuardInv, KSvcHasGuardian
<1>5. QED
  BY <1>3, <1>4

LEMMA GuardInit == Init => GuardInv
<1> SUFFICES ASSUME Init PROVE GuardInv
  OBVIOUS
<1>1. TypeOK
  BY InitType
<1>2. CRView = None /\ cr = None /\ mem = None /\ pc = "idle" /\ ksvc = None
  BY DEF Init, CRView, View, Live
<1>3. QED
  BY <1>1, <1>2, AdoptionAssumption
  DEF GuardInv, CacheInv, PassInv, KSvcHasGuardian, Adopting, Deleting

LEMMA GuardStep == GuardInv /\ [Next]_vars => GuardInv'
<1> SUFFICES ASSUME GuardInv, [Next]_vars PROVE GuardInv'
  OBVIOUS
<1>1. TypeOK'
  BY StepType DEF GuardInv
<1>2. CASE UNCHANGED vars
  <2>1. UNCHANGED <<cr, crs, mem, pc, ksvc>> /\ CRView' = CRView
    BY <1>2 DEF vars, passVars, ghosts, CRView, View, Live
  <2>2. QED
    BY <1>1, <2>1 DEF GuardInv, CacheInv, PassInv, KSvcHasGuardian, Guarded
<1>3. CASE Next
  BY <1>1, <1>3, GuardEnvStep, GuardPassStep, GuardEnsureStep, GuardRemoveStep
  DEF Next, ReconcilerStep, Outcome
<1>4. QED
  BY <1>2, <1>3

\* A live KSvc always has a CR with both finalizers, whichever caches lag,
\* whatever writes fail and however many CRs come and go: ensureFinalizers runs
\* before applyKSvc on the CR that is stored, and handleDeletion deletes the
\* KSvc before it lets go of the first finalizer.
THEOREM GuardianStays == Spec => []KSvcHasGuardian
<1>1. GuardInv => KSvcHasGuardian
  BY DEF GuardInv
<1>2. QED
  BY <1>1, GuardInit, GuardStep, PTL DEF Spec

-----------------------------------------------------------------------------
(* The Deployment comes back last.                                         *)

Torn(c) == c # None /\ c.deleting /\ "service" \notin c.fin

TornInv ==
  /\ cr # None /\ ~cr.deleting => cr.fin \in {{}, Fin}
  /\ pc \in {"rebuildService", "removeServiceFinalizer", "restoreDeployment",
             "removeSourceFinalizer"} => ksvc = None
  /\ Torn(cr) => CRView # None /\ CRView.deleting
  /\ Torn(cr) \/ Torn(CRView) => ksvc = None /\ pc \notin Adopting \cup {"ensureFinalizers"}

-----------------------------------------------------------------------------
(* TornInv is inductive when the cache of KSvcs does not lag.               *)

LEMMA TornKeep ==
  ASSUME TypeOK, TornInv, KeepsCR, CRView' = CRView \/ CRView' = cr'
  PROVE  /\ cr' # None /\ ~cr'.deleting => cr'.fin \in {{}, Fin}
         /\ Torn(cr') => CRView' # None /\ CRView'.deleting
         /\ Torn(cr') \/ Torn(CRView') => Torn(cr) \/ Torn(CRView)
<1>1. "service" \in Fin
  BY DEF Fin
<1>2. Torn(cr') => Torn(cr)
  BY <1>1 DEF Torn, TornInv, KeepsCR
<1>3. cr' # None /\ ~cr'.deleting => cr'.fin \in {{}, Fin}
  BY DEF TornInv, KeepsCR
<1>4. QED
  BY <1>2, <1>3 DEF Torn, TornInv

LEMMA TornEnvStep ==
  ASSUME GuardInv, TornInv, Next,
         Watch \/ (\E k \in Lagging : Sync(k)) \/ Knative \/ User
  PROVE  TornInv'
<1>1. TypeOK
  BY DEF GuardInv
<1>2. KeepsCR /\ CreatesNoKSvc /\ UNCHANGED <<pc, mem>>
  BY <1>1, EnvMoves
<1>3. CRView' = CRView \/ CRView' = cr'
  BY <1>1, CRViewStep
<1>4. /\ cr' # None /\ ~cr'.deleting => cr'.fin \in {{}, Fin}
      /\ Torn(cr') => CRView' # None /\ CRView'.deleting
      /\ Torn(cr') \/ Torn(CRView') => Torn(cr) \/ Torn(CRView)
  BY <1>1, <1>2, <1>3, TornKeep, SMTT(30)
<1>5. QED
  BY <1>2, <1>4 DEF TornInv, Torn, CreatesNoKSvc

LEMMA TornPassStep ==
  ASSUME "ksvc" \notin Lagging, GuardInv, TornInv, Next, NEW o \in Outcome,
         \/ Reconcile \/ getSource \/ awaitChildren \/ Crash \/ swapService(o)
         \/ applyKSvc(o) \/ quiesceSource(o) \/ patchStatus(o) \/ deleteKSvcIfPresent(o)
         \/ rebuildSnapshotService(o) \/ restoreDeploymentSpec(o)
  PROVE  TornInv'
<1> DEFINE Late == {"rebuildService", "removeServiceFinalizer", "restoreDeployment",
                    "removeSourceFinalizer"}
           Early == Adopting \cup {"ensureFinalizers"}
<1>1. TypeOK
  BY DEF GuardInv
<1>2. KeepsCR /\ (CreatesNoKSvc \/ (pc = "applyKSvc" /\ pc' \in {"quiesceSource", "patchStatus"}))
  BY <1>1, PassMoves
<1>3. CRView' = CRView \/ CRView' = cr'
  BY <1>1, CRViewStep
<1>4. /\ cr' # None /\ ~cr'.deleting => cr'.fin \in {{}, Fin}
      /\ Torn(cr') => CRView' # None /\ CRView'.deleting
      /\ Torn(cr') \/ Torn(CRView') => Torn(cr) \/ Torn(CRView)
  BY <1>1, <1>2, <1>3, TornKeep
<1>5. Torn(cr) \/ Torn(CRView) => ksvc' = None
  BY <1>2 DEF TornInv, CreatesNoKSvc, Adopting
<1>6. Torn(cr) \/ Torn(CRView) => pc' \notin Early
  <2>1. CASE Reconcile
    <3>1. /\ pc' \in {"ensureFinalizers", "deleteKSvc", "restoreDeployment", "patchStatus"}
          /\ pc' = "ensureFinalizers" => ~CRView.deleting
      BY <2>1 DEF Reconcile, CRView
    <3>2. QED
      BY <3>1 DEF TornInv, Torn, Adopting
  <2>2. CASE getSource \/ swapService(o) \/ applyKSvc(o)
    <3>1. pc \in Early
      BY <2>2 DEF getSource, swapService, applyKSvc, Adopting
    <3>2. QED
      BY <3>1 DEF TornInv
  <2>3. CASE Crash \/ quiesceSource(o) \/ patchStatus(o)
    <3>1. pc' \in {"idle", "patchStatus"}
      BY <2>3 DEF Crash, quiesceSource, patchStatus, Return
    <3>2. QED
      BY <3>1 DEF Adopting
  <2>4. CASE deleteKSvcIfPresent(o) \/ awaitChildren \/ rebuildSnapshotService(o)
              \/ restoreDeploymentSpec(o)
    <3>1. pc' \in {"awaitChildren", "patchStatus", "rebuildService",
                   "removeServiceFinalizer", "removeSourceFinalizer"}
      BY <2>4, Zenon DEF deleteKSvcIfPresent, awaitChildren, rebuildSnapshotService,
           restoreDeploymentSpec, Goto
    <3>2. QED
      BY <3>1 DEF Adopting
  <2>5. QED
    BY <2>1, <2>2, <2>3, <2>4
<1>7. pc' \in Late => ksvc' = None
  <2>1. CASE Reconcile
    <3>1. /\ pc' \in {"ensureFinalizers", "deleteKSvc", "restoreDeployment", "patchStatus"}
          /\ pc' = "restoreDeployment" =>
               CRView # None /\ CRView.deleting /\ "service" \notin CRView.fin
          /\ ksvc' = ksvc
      BY <2>1 DEF Reconcile, CRView
    <3>2. QED
      BY <3>1 DEF TornInv, Torn
  <2>2. CASE awaitChildren
    BY <2>2, ZenonT(30) DEF awaitChildren, Goto, isKSvcGone, View, Live
  <2>3. CASE rebuildSnapshotService(o) \/ restoreDeploymentSpec(o)
    BY <2>3 DEF rebuildSnapshotService, restoreDeploymentSpec, Goto, TornInv
  <2>4. CASE Crash \/ patchStatus(o) \/ getSource \/ swapService(o) \/ applyKSvc(o)
              \/ quiesceSource(o) \/ deleteKSvcIfPresent(o)
    <3>1. pc' \in {"idle", "swapService", "applyKSvc", "patchStatus", "quiesceSource",
                   "awaitChildren"}
      <4>1. CASE Crash \/ patchStatus(o) \/ getSource
        BY <4>1 DEF Crash, patchStatus, Return, getSource
      <4>2. CASE swapService(o) \/ quiesceSource(o)
        BY <4>2 DEF swapService, quiesceSource
      <4>3. CASE applyKSvc(o) \/ deleteKSvcIfPresent(o)
        BY <4>3 DEF applyKSvc, Goto, deleteKSvcIfPresent
      <4>4. QED
        BY <2>4, <4>1, <4>2, <4>3
    <3>2. QED
      BY <3>1
  <2>5. QED
    BY <2>1, <2>2, <2>3, <2>4, SMTT(30)
<1>8. QED
  BY <1>4, <1>5, <1>6, <1>7 DEF TornInv, Torn, Adopting

LEMMA TornFinalizerStep ==
  ASSUME GuardInv, TornInv, Next, NEW o \in Outcome,
         ensureFinalizers(o) \/ removeServiceFinalizer(o) \/ removeSourceFinalizer(o)
  PROVE  TornInv'
<1>0. TypeOK
  BY DEF GuardInv
<1>1. CRView' = CRView \/ CRView' = cr'
  BY <1>0, CRViewStep, SMTT(30)
<1>2. CASE ensureFinalizers(o)
  <2>1. pc = "ensureFinalizers" /\ ~Torn(cr) /\ ~Torn(CRView)
    BY <1>2 DEF ensureFinalizers, TornInv
  <2>2. cr' = cr \/ (cr # None /\ cr' = [cr EXCEPT !.fin = Fin])
    BY <1>2 DEF ensureFinalizers
  <2>3. ~Torn(cr') /\ (cr' # None /\ ~cr'.deleting => cr'.fin \in {{}, Fin})
    BY <1>0, <2>1, <2>2 DEF Torn, TornInv, TypeOK, CR, Fin
  <2>4. pc' \in {"getSource", "idle"}
    BY <1>2 DEF ensureFinalizers, Goto, Return
  <2>5. ~Torn(CRView')
    BY <1>1, <2>1, <2>3 DEF Torn
  <2>6. QED
    BY <2>3, <2>4, <2>5 DEF TornInv
<1>3. CASE removeServiceFinalizer(o) \/ removeSourceFinalizer(o)
  <2>1. PICK f \in Fin, next \in {"restoreDeployment", "patchStatus"} :
          /\ removeFinalizer(f, next, o)
          /\ pc \in {"removeServiceFinalizer", "removeSourceFinalizer"}
    BY <1>3 DEF removeServiceFinalizer, removeSourceFinalizer, Fin
  <2>2. ksvc' = None /\ pc' \in {"restoreDeployment", "patchStatus"}
    BY <2>1 DEF TornInv, removeFinalizer, Goto
  <2>3. /\ cr' # None /\ ~cr'.deleting => cr'.fin \in {{}, Fin}
        /\ Torn(cr') => CRView' # None /\ CRView'.deleting
    <3>1. CASE cr' = cr
      BY <1>1, <3>1 DEF TornInv, Torn
    <3>2. CASE cr' # cr
      <4>1. cr = mem /\ cr # None /\ (cr' = None \/ cr'.deleting = cr.deleting)
        BY <1>0, <2>1, <3>2, RemoveEffect
      <4>2. cr.deleting /\ CRView # None /\ CRView.deleting
        BY <2>1, <4>1 DEF GuardInv, PassInv, Deleting
      <4>3. QED
        BY <1>1, <4>1, <4>2, Zenon DEF Torn
    <3>3. QED
      BY <3>1, <3>2
  <2>4. QED
    BY <2>2, <2>3 DEF TornInv, Torn, Adopting
<1>4. QED
  BY <1>2, <1>3

LEMMA TornInit == Init => TornInv
<1> SUFFICES ASSUME Init PROVE TornInv
  OBVIOUS
<1>1. CRView = None /\ cr = None /\ pc = "idle"
  BY DEF Init, CRView, View, Live
<1>2. QED
  BY <1>1 DEF TornInv, Torn

LEMMA TornStep ==
  ASSUME "ksvc" \notin Lagging
  PROVE  GuardInv /\ TornInv /\ [Next]_vars => TornInv'
<1> SUFFICES ASSUME GuardInv, TornInv, [Next]_vars PROVE TornInv'
  OBVIOUS
<1>1. CASE UNCHANGED vars
  <2>1. UNCHANGED <<cr, pc, ksvc>> /\ CRView' = CRView
    BY <1>1, SMTT(30) DEF vars, passVars, ghosts, CRView, View, Live
  <2>2. QED
    BY <2>1 DEF TornInv, Torn
<1>2. CASE Next
  BY <1>2, TornEnvStep, TornPassStep, TornFinalizerStep
     DEF Next, ReconcilerStep, Outcome
<1>3. QED
  BY <1>1, <1>2

\* A step that raises the replicas of the source without the user is the
\* restore, and TornInv has the KSvc gone by then.
LEMMA ScaleUpStep ==
  ASSUME TypeOK, TornInv, Next, ops' = ops, dep # None, dep' # None,
         dep'.replicas > dep.replicas
  PROVE  ksvc = None
<1>1. dep \in Dep /\ dep' # dep /\ dep.replicas \in Nat
  BY DEF TypeOK, Dep, Replicas
<1>2. ~User
  BY DEF User, TypeOK
<1>3. CASE \E o \in Outcome : quiesceSource(o)
  <2>1. dep' = [dep EXCEPT !.replicas = 0]
    BY <1>1, <1>3 DEF quiesceSource
  <2>2. QED
    BY <1>1, <2>1 DEF Dep
<1>4. CASE \E o \in Outcome : restoreDeploymentSpec(o)
  BY <1>4 DEF restoreDeploymentSpec, TornInv
<1>5. QED
  BY <1>1, <1>2, <1>3, <1>4, SMTT(30)
     DEF Next, ReconcilerStep, Reconcile, getSource, awaitChildren,
     ensureFinalizers, swapService, applyKSvc, patchStatus, deleteKSvcIfPresent,
     rebuildSnapshotService, removeServiceFinalizer, removeSourceFinalizer, removeFinalizer,
     Crash, Watch, Sync, Knative

\* "Deployment last", for every bound, with the caches of CRs, Deployments and
\* Services lagging and any write failing.  The KSvc cache is the exception: a
\* KSvc deleted and applied again behind a lagging cache is taken for gone.
THEOREM SourceRestoredLast ==
  ASSUME "ksvc" \notin Lagging
  PROVE  Spec => DeploymentLast
<1>1. Init => GuardInv /\ TornInv
  BY GuardInit, TornInit
<1>2. GuardInv /\ TornInv /\ [Next]_vars => (GuardInv /\ TornInv)'
  BY GuardStep, TornStep
<1>3. GuardInv /\ TornInv /\ [Next]_vars =>
        [ops' = ops /\ dep # None /\ dep' # None /\ dep'.replicas > dep.replicas
           => ksvc = None]_vars
  BY ScaleUpStep DEF GuardInv
<1>4. QED
  BY <1>1, <1>2, <1>3, PTL DEF Spec, DeploymentLast

-----------------------------------------------------------------------------
(* What is taken from the user is kept until the release.                  *)

NonZero(c) == c # None => c.snapRep # 0

\* d has a snapshot of everything c has one of.
Covers(c, d) ==
  /\ c.snapRep # None => d.snapRep # None
  /\ c.snapSvc # None => d.snapSvc # None

Agree(c, d) == c.snapRep = d.snapRep /\ c.snapSvc = d.snapSvc

\* The part of a pass in which it takes the Service and the replicas over.
Taking == {"getSource", "swapService", "applyKSvc", "quiesceSource"}

ViewHeld ==
  /\ NonZero(CRView)
  /\ CRView # None /\ cr # None /\ cr.uid = CRView.uid => Covers(CRView, cr)
  /\ CRView # None /\ ~CRView.deleting /\ CRView.fin = Fin => cr # None /\ cr.uid = CRView.uid

\* No snapshot is of 0 replicas; a stored CR has every snapshot an older
\* version of it has; the status patch only fills in what its original lacks;
\* and a snapshot that is only in memory belongs to a guarded CR and is about
\* to be stored.
HoldInv ==
  /\ NonZero(cr) /\ NonZero(base) /\ NonZero(mem) /\ ViewHeld
  /\ pc = "idle" => base = None /\ mem = None
  /\ pc # "idle" =>
       /\ base.uid = mem.uid
       /\ cr # None /\ cr.uid = base.uid => Covers(base, cr)
       /\ mem.snapRep # base.snapRep => base.snapRep = None
       /\ mem.snapSvc # base.snapSvc => base.snapSvc = None
       /\ ~Agree(base, mem) => pc = "patchStatus" /\ Guarded(cr) /\ cr.uid = base.uid
  /\ pc = "ensureFinalizers" /\ mem.fin = Fin => cr # None /\ cr.uid = base.uid
  /\ pc \in Taking => Guarded(cr) /\ cr.uid = base.uid

\* A source the operator keeps at 0 has a CR with the source finalizer and a
\* snapshot of the replicas, stored or about to be, and the finalizer does not
\* go while that is so.
QuiescedInv ==
  /\ quiesced # None =>
       /\ dep # None /\ dep.replicas = 0 /\ cr # None /\ "source" \in cr.fin
       /\ cr.snapRep # None \/ (pc = "patchStatus" /\ mem.snapRep # None /\ base.snapRep = None)
  /\ pc = "removeSourceFinalizer" /\ mem.snapRep # None => quiesced = None

\* What every step does to the snapshots of the CR: none gets lost while the CR
\* lives.
SnapshotsStay ==
  /\ cr # None /\ cr' # None => cr'.uid = cr.uid /\ Covers(cr, cr')
  /\ cr = None /\ cr' # None => cr'.uid = crs + 1
  /\ NonZero(cr')

\* The cached CR stays an older version of the stored one.
LEMMA HeldView ==
  ASSUME GuardInv, GuardInv', HoldInv, CRView' = CRView \/ CRView' = cr', SnapshotsStay
  PROVE  ViewHeld'
<1>1. NonZero(CRView')
  BY Zenon DEF HoldInv, ViewHeld, SnapshotsStay
<1>2. CASE CRView' = cr'
  BY <1>1, <1>2, Zenon DEF Covers, ViewHeld
<1>3. CASE CRView' = CRView
  <2>1. CRView # None /\ cr' # None /\ cr'.uid = CRView.uid => cr # None /\ cr.uid = CRView.uid
    <3>1. CRView # None => CRView.uid \in Nat /\ CRView.uid <= crs /\ crs \in Nat
      <4>1. CRView \in CR \cup {None} /\ crs \in 0..MaxCRs
        BY ViewType, Zenon DEF GuardInv, TypeOK, CRView
      <4>2. CRView # None => CRView.uid \in Nat /\ CRView.uid <= crs
        BY <4>1, Zenon DEF GuardInv, CacheInv, CR
      <4>3. crs \in Nat
        BY <4>1, AdoptionAssumption
      <4>4. QED
        BY <4>2, <4>3, Zenon
    <3>2. CRView # None => CRView.uid # crs + 1
      BY <3>1
    <3>3. QED
      BY <3>2, Zenon DEF SnapshotsStay
  <2>2. CRView # None /\ cr' # None /\ cr'.uid = CRView.uid => Covers(CRView, cr')
    BY <2>1, Zenon DEF HoldInv, ViewHeld, SnapshotsStay, Covers
  <2>3. CRView # None /\ ~CRView.deleting /\ CRView.fin = Fin => cr' # None /\ cr'.uid = CRView.uid
    <3>1. CRView' # None /\ ~CRView'.deleting /\ CRView'.fin = Fin => Guarded(cr')
      BY Zenon DEF GuardInv, CacheInv
    <3>2. QED
      BY <1>3, <3>1, Zenon DEF HoldInv, ViewHeld, SnapshotsStay, Guarded
  <2>4. QED
    BY <1>1, <1>3, <2>2, <2>3, Zenon DEF ViewHeld
<1>4. QED
  BY <1>2, <1>3, Zenon

\* So does the original of a pass.
LEMMA HeldBase ==
  ASSUME GuardInv, HoldInv, SnapshotsStay, pc # "idle"
  PROVE  cr' # None /\ cr'.uid = base.uid => /\ cr # None /\ cr.uid = base.uid
                                             /\ Covers(base, cr')
<1>1. base.uid # crs + 1
  <2>1. base.uid = mem.uid /\ mem.uid \in Nat /\ mem.uid <= crs /\ crs \in Nat
    <3>1. mem \in CR /\ mem # None /\ crs \in 0..MaxCRs
      BY Zenon DEF GuardInv, TypeOK
    <3>2. base.uid = mem.uid /\ mem.uid \in Nat /\ mem.uid <= crs
      BY <3>1, Zenon DEF GuardInv, CacheInv, CR, HoldInv
    <3>3. crs \in Nat
      BY <3>1, AdoptionAssumption
    <3>4. QED
      BY <3>2, <3>3, Zenon
  <2>2. QED
    BY <2>1
<1>2. QED
  BY <1>1, Zenon DEF HoldInv, SnapshotsStay, Covers

\* Nothing in the pass changes.
LEMMA HeldFrame ==
  ASSUME GuardInv, GuardInv', HoldInv, CRView' = CRView \/ CRView' = cr', SnapshotsStay,
         Guarded(cr) => Guarded(cr'), UNCHANGED <<pc, base, mem>>
  PROVE  HoldInv'
<1>1. ViewHeld'
  BY HeldView, Zenon
<1>2. NonZero(cr') /\ NonZero(base') /\ NonZero(mem')
  BY Zenon DEF SnapshotsStay, HoldInv
<1>3. pc' = "idle" => base' = None /\ mem' = None
  BY Zenon DEF HoldInv
<1>4. pc' # "idle" =>
        /\ base'.uid = mem'.uid
        /\ cr' # None /\ cr'.uid = base'.uid => Covers(base', cr')
        /\ mem'.snapRep # base'.snapRep => base'.snapRep = None
        /\ mem'.snapSvc # base'.snapSvc => base'.snapSvc = None
        /\ ~Agree(base', mem') => pc' = "patchStatus"
  BY HeldBase, Zenon DEF HoldInv
<1>5. Guarded(cr) => cr # None /\ cr' # None /\ cr'.uid = cr.uid
  BY Zenon DEF Guarded, SnapshotsStay
<1>6. pc' # "idle" /\ ~Agree(base', mem') => Guarded(cr') /\ cr'.uid = base'.uid
  BY <1>5, Zenon DEF HoldInv
<1>7. pc' = "ensureFinalizers" /\ mem'.fin = Fin => cr' # None /\ cr'.uid = base'.uid
  <2>1. pc = "ensureFinalizers" /\ mem.fin = Fin => Guarded(cr) /\ cr.uid = base.uid
    BY Zenon DEF HoldInv, GuardInv, PassInv
  <2>2. QED
    BY <1>5, <2>1, Zenon
<1>8. pc' \in Taking => Guarded(cr') /\ cr'.uid = base'.uid
  BY <1>5, Zenon DEF HoldInv
<1>9. QED
  BY <1>1, <1>2, <1>3, <1>4, <1>6, <1>7, <1>8, Zenon DEF HoldInv

\* The pass goes on, and its copy of the CR keeps its snapshots.
LEMMA HeldGoto ==
  ASSUME GuardInv, GuardInv', HoldInv, CRView' = CRView \/ CRView' = cr', SnapshotsStay,
         pc \notin {"idle", "patchStatus"}, pc' \notin {"idle", "ensureFinalizers"}, base' = base,
         mem'.uid = mem.uid, Agree(mem, mem'), pc' \in Taking => Guarded(cr') /\ cr'.uid = base.uid
  PROVE  HoldInv'
<1>1. ViewHeld'
  BY HeldView, Zenon
<1>2. base.uid = mem.uid /\ Agree(base, mem) /\ NonZero(base) /\ base # None
  BY Zenon DEF HoldInv, GuardInv, TypeOK
<1>3. Agree(base', mem') /\ base'.uid = mem'.uid
  BY <1>2, Zenon DEF Agree
<1>4. NonZero(cr') /\ NonZero(base') /\ NonZero(mem')
  BY <1>2, <1>3, Zenon DEF SnapshotsStay, NonZero, Agree
<1>5. cr' # None /\ cr'.uid = base'.uid => Covers(base', cr')
  BY HeldBase, Zenon
<1>6. QED
  BY <1>1, <1>3, <1>4, <1>5, Zenon DEF HoldInv, Agree

\* The pass ends.
LEMMA HeldReturn ==
  ASSUME GuardInv, GuardInv', HoldInv, CRView' = CRView \/ CRView' = cr', SnapshotsStay, Return
  PROVE  HoldInv'
<1>1. ViewHeld'
  BY HeldView, Zenon
<1>2. pc' = "idle" /\ base' = None /\ mem' = None
  BY Zenon DEF Return
<1>3. NonZero(cr') /\ NonZero(base') /\ NonZero(mem')
  BY <1>2, Zenon DEF SnapshotsStay, NonZero
<1>4. QED
  BY <1>1, <1>2, <1>3, Zenon DEF HoldInv, Taking

\* The pass works on a copy of the CR it has just read.
LEMMA HeldFresh ==
  ASSUME GuardInv, GuardInv', HoldInv, CRView' = CRView \/ CRView' = cr', SnapshotsStay,
         pc' # "idle", base' = mem', NonZero(mem'),
         cr' # None /\ cr'.uid = mem'.uid => Covers(mem', cr'),
         pc' = "ensureFinalizers" /\ mem'.fin = Fin => cr' # None /\ cr'.uid = mem'.uid,
         pc' \in Taking => Guarded(cr') /\ cr'.uid = mem'.uid
  PROVE  HoldInv'
<1>1. ViewHeld'
  BY HeldView, Zenon
<1>2. NonZero(cr')
  BY Zenon DEF SnapshotsStay
<1>3. Agree(base', mem')
  BY Zenon DEF Agree
<1>4. QED
  BY <1>1, <1>2, <1>3, Zenon DEF HoldInv, Agree

LEMMA SnapshotsSame ==
  ASSUME HoldInv, cr' = cr
  PROVE  SnapshotsStay
BY Zenon DEF SnapshotsStay, HoldInv, Covers

\* What does not touch the snapshots.
LEMMA EnvSnapshots ==
  ASSUME TypeOK, HoldInv, Watch \/ (\E k \in Lagging : Sync(k)) \/ Knative \/ User
  PROVE  SnapshotsStay /\ UNCHANGED <<pc, base, mem>>
<1>1. UNCHANGED <<pc, base, mem>>
  BY Zenon DEF Watch, Sync, Knative, User, passVars
<1>2. CASE cr' = cr
  BY <1>1, <1>2, SnapshotsSame, Zenon
<1>3. CASE cr' = DeletedCR
  <2>1. CASE cr = None
    BY <1>1, <1>3, <2>1, SnapshotsSame, Zenon DEF DeletedCR
  <2>2. CASE cr # None
    <3> DEFINE c == [cr EXCEPT !.deleting = TRUE]
    <3>1. c.uid = cr.uid /\ c.snapRep = cr.snapRep /\ c.snapSvc = cr.snapSvc
      BY <2>2, Zenon DEF TypeOK, CR
    <3>2. cr' = None \/ cr' = c
      BY <1>3, <2>2, Zenon DEF DeletedCR, Stored
    <3> HIDE DEF c
    <3>3. QED
      BY <1>1, <2>2, <3>1, <3>2, Zenon DEF SnapshotsStay, HoldInv, Covers, NonZero
  <2>3. QED
    BY <2>1, <2>2, Zenon
<1>4. CASE cr = None /\ (cr' = NewCR(TRUE) \/ cr' = NewCR(FALSE))
  <2>1. cr'.uid = crs + 1 /\ cr'.snapRep = None
    BY <1>4 DEF NewCR
  <2>2. None # 0
    BY AdoptionAssumption DEF Replicas
  <2>3. QED
    BY <1>1, <1>4, <2>1, <2>2, Zenon DEF SnapshotsStay, NonZero
<1>5. CASE cr # None /\ cr' = [cr EXCEPT !.watcher = TRUE]
  <2>1. cr'.uid = cr.uid /\ cr'.snapRep = cr.snapRep /\ cr'.snapSvc = cr.snapSvc
    BY <1>5, Zenon DEF TypeOK, CR
  <2>2. QED
    BY <1>1, <1>5, <2>1, Zenon DEF SnapshotsStay, HoldInv, Covers, NonZero
<1>6. QED
  BY <1>2, <1>3, <1>4, <1>5, Zenon
     DEF Watch, deleteIfWatcherOwned, applyAdoption, Sync, Knative, User, UserUpdatesDeployment,
         UserDeletesDeployment, UserCreatesCR, UserDeletesCR, UserCreatesService,
         UserDeletesService, UserDeletesKSvc

\* patchStatus writes only the fields the pass has filled in, and HoldInv has
\* them non-nil.
LEMMA PatchKeeps ==
  ASSUME GuardInv, HoldInv, NEW o \in Outcome, patchStatus(o)
  PROVE  SnapshotsStay
<1>1. CASE cr' = cr
  BY <1>1, SnapshotsSame, Zenon
<1>2. CASE cr' # cr
  <2>1. /\ cr # None /\ mem # None /\ pc = "patchStatus"
        /\ cr' = [cr EXCEPT
                   !.snapRep = IF mem.snapRep # base.snapRep THEN mem.snapRep ELSE @,
                   !.snapSvc = IF mem.snapSvc # base.snapSvc THEN mem.snapSvc ELSE @]
    BY <1>2, Zenon DEF patchStatus, GuardInv, TypeOK
  <2>2. cr \in CR
    BY <2>1, Zenon DEF GuardInv, TypeOK
  <2>3. /\ cr'.uid = cr.uid
        /\ cr'.snapRep = IF mem.snapRep # base.snapRep THEN mem.snapRep ELSE cr.snapRep
        /\ cr'.snapSvc = IF mem.snapSvc # base.snapSvc THEN mem.snapSvc ELSE cr.snapSvc
    BY <2>1, <2>2, Zenon DEF CR
  <2>4. /\ mem.snapRep # base.snapRep => base.snapRep = None
        /\ mem.snapSvc # base.snapSvc => base.snapSvc = None
        /\ NonZero(cr) /\ NonZero(mem)
    BY <2>1, Zenon DEF HoldInv
  <2>5. QED
    BY <2>1, <2>3, <2>4, Zenon DEF SnapshotsStay, Covers, NonZero
<1>3. QED
  BY <1>1, <1>2, Zenon

\* ensureFinalizers and removeFinalizer write the finalizers and nothing else.
LEMMA FinalizersOnly ==
  ASSUME GuardInv, HoldInv, NEW F, cr # None, cr' \in {cr, None, [cr EXCEPT !.fin = F]}
  PROVE  SnapshotsStay
<1>1. CASE cr' = cr \/ cr' = None
  BY <1>1, Zenon DEF SnapshotsStay, HoldInv, Covers, NonZero
<1>2. CASE cr' = [cr EXCEPT !.fin = F]
  <2>1. cr \in CR
    BY Zenon DEF GuardInv, TypeOK
  <2>2. cr'.uid = cr.uid /\ cr'.snapRep = cr.snapRep /\ cr'.snapSvc = cr.snapSvc
    BY <1>2, <2>1, Zenon DEF CR
  <2>3. QED
    BY <2>2, Zenon DEF SnapshotsStay, HoldInv, Covers, NonZero
<1>3. QED
  BY <1>1, <1>2, Zenon

LEMMA SnapshotsStep ==
  ASSUME GuardInv, HoldInv, Next
  PROVE  SnapshotsStay
<1>1. CASE Watch \/ (\E k \in Lagging : Sync(k)) \/ Knative \/ User
  BY <1>1, EnvSnapshots, Zenon DEF GuardInv
<1>2. CASE cr' = cr
  BY <1>2, SnapshotsSame, Zenon
<1>3. CASE \E o \in Outcome : patchStatus(o)
  BY <1>3, PatchKeeps, Zenon
<1>4. CASE cr' # cr /\ \E o \in Outcome : ensureFinalizers(o)
  <2>1. cr # None /\ cr' = [cr EXCEPT !.fin = Fin]
    BY <1>4, Zenon DEF ensureFinalizers
  <2>2. QED
    BY <2>1, FinalizersOnly, Zenon
<1>5. CASE cr' # cr /\ \E o \in Outcome : removeServiceFinalizer(o) \/ removeSourceFinalizer(o)
  <2>1. mem # None
    BY <1>5 DEF removeServiceFinalizer, removeSourceFinalizer, GuardInv, TypeOK
  <2>2. PICK f : cr = mem /\ cr' = Stored([cr EXCEPT !.fin = @ \ {f}])
    BY <1>5, Zenon DEF removeServiceFinalizer, removeSourceFinalizer, removeFinalizer
  <2>3. cr' = None \/ cr' = [cr EXCEPT !.fin = cr.fin \ {f}]
    BY <2>2, Zenon DEF Stored
  <2>4. QED
    BY <2>1, <2>2, <2>3, FinalizersOnly, Zenon
<1>6. QED
  BY <1>1, <1>2, <1>3, <1>4, <1>5, Zenon
     DEF Next, ReconcilerStep, Reconcile, getSource, awaitChildren, swapService, applyKSvc,
         quiesceSource, deleteKSvcIfPresent, rebuildSnapshotService, restoreDeploymentSpec, Crash

\* The pass takes a snapshot, in memory, and goes on to store it.
LEMMA HeldSnapshot ==
  ASSUME GuardInv, GuardInv', HoldInv, CRView' = CRView \/ CRView' = cr',
         SnapshotsStay, cr' = cr,
         pc \in Taking, pc' = "patchStatus", base' = base, mem'.uid = mem.uid,
         mem'.snapRep # mem.snapRep => mem.snapRep = None /\ mem'.snapRep # 0,
         mem'.snapSvc # mem.snapSvc => mem.snapSvc = None
  PROVE  HoldInv'
<1>1. ViewHeld'
  BY HeldView, Zenon
<1>2. pc # "idle" /\ pc # "patchStatus"
  BY Zenon DEF Taking
<1>3. /\ base.uid = mem.uid /\ Agree(base, mem) /\ NonZero(base) /\ NonZero(mem) /\ mem # None
      /\ Guarded(cr) /\ cr.uid = base.uid
  BY <1>2, Zenon DEF HoldInv, GuardInv, TypeOK
<1>4. NonZero(cr') /\ NonZero(base') /\ NonZero(mem')
  BY <1>3, Zenon DEF SnapshotsStay, NonZero
<1>5. /\ mem'.snapRep # base'.snapRep => base'.snapRep = None
      /\ mem'.snapSvc # base'.snapSvc => base'.snapSvc = None
  BY <1>3, Zenon DEF Agree
<1>6. cr' # None /\ cr'.uid = base'.uid => Covers(base', cr')
  BY <1>2, HeldBase, Zenon
<1>7. "patchStatus" \notin Taking
  BY DEF Taking
<1>8. QED
  BY <1>1, <1>3, <1>4, <1>5, <1>6, <1>7, Zenon DEF HoldInv

\* Steps of a pass that write neither the CR nor its copy.
LEMMA HoldQuietStep ==
  ASSUME GuardInv, GuardInv', HoldInv, CRView' = CRView \/ CRView' = cr',
         SnapshotsStay, NEW o \in Outcome,
         \/ getSource \/ awaitChildren \/ applyKSvc(o) \/ deleteKSvcIfPresent(o)
         \/ rebuildSnapshotService(o) \/ restoreDeploymentSpec(o)
  PROVE  HoldInv'
<1>1. cr' = cr /\ base' = base /\ mem' = mem
  BY Zenon DEF getSource, awaitChildren, applyKSvc, deleteKSvcIfPresent, rebuildSnapshotService,
               restoreDeploymentSpec, Goto
<1>2. /\ pc \notin {"idle", "patchStatus"} /\ pc' \notin {"idle", "ensureFinalizers"}
      /\ pc' \in Taking => pc \in Taking
  <2>1. CASE getSource \/ applyKSvc(o)
    <3>1. /\ pc \in {"getSource", "applyKSvc"}
          /\ pc' \in {"swapService", "quiesceSource", "patchStatus"}
      BY <2>1, Zenon DEF getSource, applyKSvc, Goto
    <3>2. QED
      BY <3>1 DEF Taking
  <2>2. CASE \/ awaitChildren \/ deleteKSvcIfPresent(o) \/ rebuildSnapshotService(o)
             \/ restoreDeploymentSpec(o)
    <3>1. /\ pc \in {"awaitChildren", "deleteKSvc", "rebuildService", "restoreDeployment"}
          /\ pc' \in {"rebuildService", "awaitChildren", "removeServiceFinalizer",
                      "removeSourceFinalizer", "patchStatus"}
      BY <2>2, Zenon DEF awaitChildren, deleteKSvcIfPresent, rebuildSnapshotService,
                         restoreDeploymentSpec, Goto
    <3>2. QED
      BY <3>1 DEF Taking
  <2>3. QED
    BY <2>1, <2>2, Zenon
<1>3. pc' \in Taking => Guarded(cr') /\ cr'.uid = base.uid
  BY <1>1, <1>2, Zenon DEF HoldInv
<1>4. mem'.uid = mem.uid /\ Agree(mem, mem')
  BY <1>1, Zenon DEF Agree
<1>5. QED
  BY <1>1, <1>2, <1>3, <1>4, HeldGoto, Zenon

LEMMA HoldTakeStep ==
  ASSUME GuardInv, GuardInv', HoldInv, CRView' = CRView \/ CRView' = cr',
         SnapshotsStay, NEW o \in Outcome,
         swapService(o) \/ quiesceSource(o)
  PROVE  HoldInv'
<1>1. mem \in CR /\ None # 0
  BY AdoptionAssumption DEF GuardInv, TypeOK, swapService, quiesceSource, Replicas
<1>2. CASE swapService(o)
  <2>1. /\ cr' = cr /\ base' = base /\ pc = "swapService" /\ pc' \in {"applyKSvc", "patchStatus"}
        /\ \/ mem' = mem
           \/ /\ pc' = "patchStatus" /\ mem.snapSvc = None
              /\ \E x : mem' = [mem EXCEPT !.snapSvc = x]
    BY <1>2, Zenon DEF swapService, snapshotAndDeleteService
  <2>2. CASE mem' = mem
    <3>1. /\ pc \notin {"idle", "patchStatus"} /\ pc' \notin {"idle", "ensureFinalizers"}
          /\ pc \in Taking
      BY <2>1 DEF Taking
    <3>2. pc' \in Taking => Guarded(cr') /\ cr'.uid = base.uid
      BY <2>1, <3>1, Zenon DEF HoldInv
    <3>3. mem'.uid = mem.uid /\ Agree(mem, mem')
      BY <2>2, Zenon DEF Agree
    <3>4. QED
      BY <2>1, <3>1, <3>2, <3>3, HeldGoto, Zenon
  <2>3. CASE mem' # mem
    <3>1. mem'.uid = mem.uid /\ mem'.snapRep = mem.snapRep
      BY <1>1, <2>1, <2>3, Zenon DEF CR
    <3>2. pc \in Taking
      BY <2>1, Zenon DEF Taking
    <3>3. QED
      BY <2>1, <2>3, <3>1, <3>2, HeldSnapshot, Zenon
  <2>4. QED
    BY <2>2, <2>3, Zenon
<1>3. CASE quiesceSource(o)
  <2>1. /\ cr' = cr /\ base' = base /\ pc = "quiesceSource" /\ pc' = "patchStatus"
        /\ \/ mem' = mem
           \/ /\ mem.snapRep = None /\ memDep.replicas # 0
              /\ mem' = [mem EXCEPT !.snapRep = memDep.replicas]
    BY <1>3, Zenon DEF quiesceSource
  <2>2. /\ mem'.uid = mem.uid /\ mem'.snapSvc = mem.snapSvc
        /\ mem'.snapRep # mem.snapRep => mem.snapRep = None /\ mem'.snapRep # 0
    BY <1>1, <2>1, Zenon DEF CR
  <2>3. pc \in Taking
    BY <2>1, Zenon DEF Taking
  <2>4. QED
    BY <2>1, <2>2, <2>3, HeldSnapshot, Zenon
<1>4. QED
  BY <1>2, <1>3, Zenon

LEMMA HoldEndsStep ==
  ASSUME GuardInv, GuardInv', HoldInv, CRView' = CRView \/ CRView' = cr',
         SnapshotsStay, NEW o \in Outcome,
         Reconcile \/ patchStatus(o) \/ Crash
  PROVE  HoldInv'
<1>1. CASE Reconcile
  <2>1. /\ cr' = cr /\ base' = CRView /\ mem' = CRView /\ CRView # None
        /\ pc' \in {"ensureFinalizers", "deleteKSvc", "restoreDeployment", "patchStatus"}
        /\ pc' = "ensureFinalizers" => ~CRView.deleting
    BY <1>1, Zenon DEF Reconcile, CRView
  <2>2. pc' # "idle" /\ pc' \notin Taking
    BY <2>1 DEF Taking
  <2>3. /\ NonZero(CRView) /\ (cr # None /\ cr.uid = CRView.uid => Covers(CRView, cr))
        /\ ~CRView.deleting /\ CRView.fin = Fin => cr # None /\ cr.uid = CRView.uid
    BY <2>1, Zenon DEF HoldInv, ViewHeld
  <2>4. QED
    BY <2>1, <2>2, <2>3, HeldFresh, Zenon
<1>2. CASE patchStatus(o)
  <2>1. Return
    BY <1>2, Zenon DEF patchStatus
  <2>2. QED
    BY <2>1, HeldReturn, Zenon
<1>3. CASE Crash
  <2>1. Return /\ cr' = cr
    BY <1>3, Zenon DEF Crash
  <2>2. QED
    BY <2>1, HeldReturn, Zenon
<1>4. QED
  BY <1>1, <1>2, <1>3, Zenon

LEMMA HoldEnsureStep ==
  ASSUME GuardInv, GuardInv', HoldInv, CRView' = CRView \/ CRView' = cr',
         SnapshotsStay, NEW o \in Outcome,
         ensureFinalizers(o)
  PROVE  HoldInv'
<1>1. pc = "ensureFinalizers"
  BY Zenon DEF ensureFinalizers
<1>2. CASE mem.fin = Fin
  <2>1. cr' = cr /\ base' = base /\ mem' = mem /\ pc' = "getSource"
    BY <1>2, Zenon DEF ensureFinalizers, Goto
  <2>2. Guarded(cr') /\ cr'.uid = base.uid
    BY <1>1, <1>2, <2>1, Zenon DEF HoldInv, GuardInv, PassInv
  <2>3. mem'.uid = mem.uid /\ Agree(mem, mem')
    BY <2>1, Zenon DEF Agree
  <2>4. pc \notin {"idle", "patchStatus"} /\ pc' \notin {"idle", "ensureFinalizers"}
    BY <1>1, <2>1
  <2>5. QED
    BY <2>1, <2>2, <2>3, <2>4, HeldGoto, Zenon
<1>3. CASE mem.fin # Fin
  <2>1. \/ cr' = cr /\ Return
        \/ /\ cr # None /\ cr' = [cr EXCEPT !.fin = Fin]
           /\ Return \/ (pc' = "getSource" /\ mem' = cr' /\ base' = cr')
    BY <1>3, Zenon DEF ensureFinalizers
  <2>2. CASE Return
    BY <2>2, HeldReturn, Zenon
  <2>3. CASE ~Return
    <3>1. /\ cr # None /\ pc' = "getSource" /\ mem' = cr' /\ base' = cr'
          /\ cr' = [cr EXCEPT !.fin = Fin]
      BY <2>1, <2>3, Zenon
    <3>2. cr \in CR
      BY <3>1, Zenon DEF GuardInv, TypeOK
    <3>3. cr' \in CR /\ cr'.fin = Fin
      BY <3>1, <3>2, Zenon DEF CR
    <3>4. Guarded(cr')
      BY <3>3, AdoptionAssumption, Zenon DEF Guarded
    <3>5. NonZero(mem') /\ Covers(mem', cr')
      BY <3>1, Zenon DEF SnapshotsStay, Covers
    <3>6. pc' # "idle" /\ pc' # "ensureFinalizers"
      BY <3>1
    <3>7. QED
      BY <3>1, <3>4, <3>5, <3>6, HeldFresh, Zenon
  <2>4. QED
    BY <2>2, <2>3, Zenon
<1>4. QED
  BY <1>2, <1>3, Zenon

LEMMA HoldRemoveStep ==
  ASSUME GuardInv, GuardInv', HoldInv, CRView' = CRView \/ CRView' = cr',
         SnapshotsStay, NEW o \in Outcome,
         removeServiceFinalizer(o) \/ removeSourceFinalizer(o)
  PROVE  HoldInv'
<1>1. PICK f \in Fin, next \in {"restoreDeployment", "patchStatus"} :
        /\ removeFinalizer(f, next, o)
        /\ pc \in {"removeServiceFinalizer", "removeSourceFinalizer"}
  BY DEF removeServiceFinalizer, removeSourceFinalizer, Fin
<1>2. /\ cr' = cr \/ (cr = mem /\ cr' = Stored([cr EXCEPT !.fin = @ \ {f}]))
      /\ mem' = mem \/ mem' = [mem EXCEPT !.fin = @ \ {f}]
      /\ pc' \in {"restoreDeployment", "patchStatus"} /\ base' = base
  BY <1>1, Zenon DEF removeFinalizer, Goto
<1>3. mem \in CR
  BY <1>1, Zenon DEF GuardInv, TypeOK
<1>4. mem'.uid = mem.uid /\ Agree(mem, mem')
  BY <1>2, <1>3, Zenon DEF CR, Agree
<1>5. /\ pc \notin {"idle", "patchStatus"} /\ pc' \notin {"idle", "ensureFinalizers"}
      /\ pc' \notin Taking
  BY <1>1, <1>2 DEF Taking
<1>6. QED
  BY <1>2, <1>4, <1>5, HeldGoto, Zenon

LEMMA HoldInit == Init => HoldInv
<1> SUFFICES ASSUME Init PROVE HoldInv
  OBVIOUS
<1>1. CRView = None /\ cr = None /\ mem = None /\ base = None /\ pc = "idle"
  BY DEF Init, CRView, View, Live
<1>2. QED
  BY <1>1 DEF HoldInv, ViewHeld, NonZero, Taking

LEMMA HoldStep == GuardInv /\ HoldInv /\ [Next]_vars => HoldInv'
<1> SUFFICES ASSUME GuardInv, HoldInv, [Next]_vars PROVE HoldInv'
  OBVIOUS
<1>1. GuardInv'
  BY GuardStep, Zenon
<1>2. CASE UNCHANGED vars
  <2>1. UNCHANGED <<cr, crs, mem, base, pc>> /\ CRView' = CRView
    BY <1>2 DEF vars, passVars, ghosts, CRView, View, Live
  <2>2. QED
    BY <2>1, Zenon DEF HoldInv, ViewHeld
<1>3. CASE Next
  <2>1. CRView' = CRView \/ CRView' = cr'
    BY <1>3, CRViewStep, Zenon DEF GuardInv
  <2>2. SnapshotsStay
    BY <1>3, SnapshotsStep, Zenon
  <2>3. CASE Watch \/ (\E k \in Lagging : Sync(k)) \/ Knative \/ User
    <3>1. UNCHANGED <<pc, base, mem>>
      BY <2>3, EnvSnapshots, Zenon DEF GuardInv
    <3>2. TypeOK /\ TypeOK'
      BY <1>1, Zenon DEF GuardInv
    <3>3. KeepsCR
      BY <2>3, <3>2, EnvMoves, Zenon
    <3>4. Guarded(cr) => Guarded(cr')
      BY <2>1, <3>2, <3>3, KeepFacts, Zenon
    <3>5. QED
      BY <1>1, <2>2, <2>1, <3>1, <3>4, HeldFrame, Zenon
  <2>4. CASE ReconcilerStep \/ Crash
    <3>1. PICK o \in Outcome :
            \/ Reconcile \/ patchStatus(o) \/ Crash \/ getSource \/ awaitChildren
            \/ applyKSvc(o) \/ deleteKSvcIfPresent(o) \/ rebuildSnapshotService(o)
            \/ restoreDeploymentSpec(o) \/ swapService(o) \/ quiesceSource(o)
            \/ ensureFinalizers(o) \/ removeServiceFinalizer(o) \/ removeSourceFinalizer(o)
      BY <2>4, Zenon DEF ReconcilerStep, Outcome
    <3>2. QED
      BY <1>1, <2>2, <2>1, <3>1, HoldQuietStep, HoldTakeStep, HoldEndsStep, HoldEnsureStep,
         HoldRemoveStep, Zenon
  <2>5. QED
    BY <1>3, <2>3, <2>4, Zenon DEF Next
<1>4. QED
  BY <1>2, <1>3, Zenon

-----------------------------------------------------------------------------
(* Without faults and with an up-to-date Deployment, the replicas are kept. *)

\* Without faults every write succeeds and the process does not die.
LEMMA NoFaults ==
  ASSUME MaxFaults = 0, TypeOK
  PROVE  ~Crash /\ \A o \in Outcome : Spend(o) => o = "ok"
BY DEF TypeOK, Crash, Spend

\* Only removeSourceFinalizer takes the source finalizer off a CR.
LEMMA SourceFinStays ==
  ASSUME GuardInv, Next, cr # None, "source" \in cr.fin,
         ~\E o \in Outcome : removeSourceFinalizer(o)
  PROVE  cr' # None /\ "source" \in cr'.fin
<1>1. TypeOK /\ cr \in CR
  BY Zenon DEF GuardInv, TypeOK
<1>2. CASE KeepsCR
  BY <1>2, Zenon DEF KeepsCR
<1>3. CASE \E o \in Outcome : ensureFinalizers(o)
  <2>1. cr' = cr \/ cr' = [cr EXCEPT !.fin = Fin]
    BY <1>3, Zenon DEF ensureFinalizers
  <2>2. cr' = cr \/ (cr' \in CR /\ cr'.fin = Fin)
    BY <1>1, <2>1, Zenon DEF CR
  <2>3. "source" \in Fin
    BY DEF Fin
  <2>4. QED
    BY <2>2, <2>3, AdoptionAssumption, Zenon
<1>4. CASE \E o \in Outcome : removeServiceFinalizer(o)
  <2>1. cr' = cr \/ cr' = Stored([cr EXCEPT !.fin = @ \ {"service"}])
    BY <1>4, Zenon DEF removeServiceFinalizer, removeFinalizer
  <2> DEFINE c == [cr EXCEPT !.fin = @ \ {"service"}]
  <2>2. c \in CR /\ c.fin = cr.fin \ {"service"}
    BY <1>1, Zenon DEF CR
  <2>3. "source" \in c.fin
    BY <2>2
  <2> HIDE DEF c
  <2>4. cr' = cr \/ cr' = Stored(c)
    BY <2>1 DEF c
  <2>5. QED
    BY <2>2, <2>3, <2>4, AdoptionAssumption, Zenon DEF Stored
<1>5. CASE Watch \/ (\E k \in Lagging : Sync(k)) \/ Knative \/ User
  BY <1>1, <1>2, <1>5, EnvMoves, Zenon
<1>6. QED
  BY <1>1, <1>2, <1>3, <1>4, <1>5, PassMoves, Zenon DEF Next, ReconcilerStep, Outcome

LEMMA QuiescedQuietStep ==
  ASSUME GuardInv, HoldInv, QuiescedInv, Next,
         quiesced' # None => quiesced # None /\ dep' # None /\ dep'.replicas = 0,
         quiesced # None => /\ ~\E o \in Outcome : removeSourceFinalizer(o)
                            /\ (pc' = pc /\ mem' = mem /\ base' = base) \/ pc # "patchStatus"
                            /\ pc' = "removeSourceFinalizer" => pc' = pc /\ mem' = mem
  PROVE  QuiescedInv'
<1> SUFFICES ASSUME quiesced' # None
             PROVE  /\ dep' # None /\ dep'.replicas = 0 /\ cr' # None /\ "source" \in cr'.fin
                    /\ \/ cr'.snapRep # None
                       \/ pc' = "patchStatus" /\ mem'.snapRep # None /\ base'.snapRep = None
                    /\ ~(pc' = "removeSourceFinalizer" /\ mem'.snapRep # None)
  BY Zenon DEF QuiescedInv
<1>1. /\ quiesced # None /\ cr # None /\ "source" \in cr.fin
      /\ cr.snapRep # None \/ (pc = "patchStatus" /\ mem.snapRep # None /\ base.snapRep = None)
      /\ ~(pc = "removeSourceFinalizer" /\ mem.snapRep # None)
  BY Zenon DEF QuiescedInv
<1>2. cr' # None /\ "source" \in cr'.fin
  BY <1>1, SourceFinStays, Zenon
<1>3. cr.snapRep # None => cr'.snapRep # None
  BY <1>1, <1>2, SnapshotsStep, Zenon DEF SnapshotsStay, Covers
<1>4. QED
  BY <1>1, <1>2, <1>3

LEMMA QuiescedEnvStep ==
  ASSUME GuardInv, HoldInv, QuiescedInv, Next,
         Watch \/ (\E k \in Lagging : Sync(k)) \/ Knative \/ User
  PROVE  QuiescedInv'
<1>1. UNCHANGED <<pc, base, mem>>
  BY EnvSnapshots, Zenon DEF GuardInv
<1>2. quiesced' # None => quiesced # None /\ dep' # None /\ dep'.replicas = 0
  <2>1. CASE quiesced' = quiesced /\ dep' = dep
    BY <2>1, Zenon DEF QuiescedInv
  <2>2. CASE UserUpdatesDeployment
    <3>1. quiesced' # None => quiesced # None /\ dep'.replicas = 0
      BY <2>2, Zenon DEF UserUpdatesDeployment
    <3>2. dep' # None
      <4>1. dep \in Dep
        BY <2>2, Zenon DEF UserUpdatesDeployment, GuardInv, TypeOK
      <4>2. 1 \in Replicas
        BY AdoptionAssumption DEF Replicas
      <4>3. dep' \in Dep
        BY <2>2, <4>1, <4>2, Zenon DEF UserUpdatesDeployment, Dep, Scaled
      <4>4. QED
        BY <4>3, AdoptionAssumption, Zenon
    <3>3. QED
      BY <3>1, <3>2, Zenon
  <2>3. CASE UserDeletesDeployment
    BY <2>3, Zenon DEF UserDeletesDeployment
  <2>4. QED
    BY <2>1, <2>2, <2>3, Zenon
       DEF Watch, Sync, Knative, User, UserCreatesCR, UserDeletesCR, UserCreatesService,
           UserDeletesService, UserDeletesKSvc, ghosts
<1>3. ~\E o \in Outcome : removeSourceFinalizer(o)
  BY <1>1 DEF removeSourceFinalizer, removeFinalizer, Goto
<1>4. QED
  BY <1>1, <1>2, <1>3, QuiescedQuietStep, Zenon

LEMMA SwapMoves ==
  ASSUME NEW o, swapService(o)
  PROVE  pc = "swapService" /\ (pc' = "applyKSvc" \/ pc' = "patchStatus")
BY Zenon DEF swapService

LEMMA QuiescedPassStep ==
  ASSUME GuardInv, HoldInv, QuiescedInv, Next, NEW o \in Outcome,
         \/ Reconcile \/ getSource \/ awaitChildren \/ ensureFinalizers(o) \/ swapService(o)
         \/ applyKSvc(o) \/ deleteKSvcIfPresent(o) \/ rebuildSnapshotService(o)
         \/ removeServiceFinalizer(o)
  PROVE  QuiescedInv'
<1>1. dep' = dep /\ quiesced' = quiesced
  BY Zenon DEF Reconcile, getSource, awaitChildren, ensureFinalizers, swapService, applyKSvc,
           deleteKSvcIfPresent, rebuildSnapshotService, removeServiceFinalizer,
           removeFinalizer, ghosts
<1>2. quiesced' # None => quiesced # None /\ dep' # None /\ dep'.replicas = 0
  BY <1>1, Zenon DEF QuiescedInv
<1>3. /\ pc \in {"idle", "getSource", "awaitChildren", "ensureFinalizers", "swapService",
               "applyKSvc", "deleteKSvc", "rebuildService", "removeServiceFinalizer"}
      /\ pc' # "removeSourceFinalizer"
  <2>1. CASE Reconcile \/ getSource \/ awaitChildren \/ ensureFinalizers(o)
    BY <2>1 DEF Reconcile, getSource, awaitChildren, ensureFinalizers, Goto, Return
  <2>2. CASE swapService(o)
    <3>1. pc = "swapService" /\ (pc' = "applyKSvc" \/ pc' = "patchStatus")
      BY <2>2, SwapMoves, Zenon
    <3>2. QED
      BY <3>1
  <2>3. CASE applyKSvc(o) \/ deleteKSvcIfPresent(o) \/ rebuildSnapshotService(o)
    BY <2>3, Zenon DEF applyKSvc, deleteKSvcIfPresent, rebuildSnapshotService, Goto
  <2>4. CASE removeServiceFinalizer(o)
    BY <2>4 DEF removeServiceFinalizer, removeFinalizer, Goto
  <2>5. QED
    BY <2>1, <2>2, <2>3, <2>4, Zenon
<1>4. pc # "patchStatus" /\ ~\E p \in Outcome : removeSourceFinalizer(p)
  BY <1>3 DEF removeSourceFinalizer
<1>5. QED
  BY <1>2, <1>3, <1>4, QuiescedQuietStep, Zenon

\* The snapshot in memory reaches the CR.
LEMMA QuiescedPatchStep ==
  ASSUME GuardInv, HoldInv, QuiescedInv, Next, patchStatus("ok")
  PROVE  QuiescedInv'
<1> SUFFICES ASSUME quiesced # None
             PROVE  /\ dep' # None /\ dep'.replicas = 0 /\ cr' # None /\ "source" \in cr'.fin
                    /\ cr'.snapRep # None /\ pc' # "removeSourceFinalizer"
  <2>1. quiesced' = quiesced
    BY Zenon DEF patchStatus, ghosts
  <2>2. QED
    BY <2>1, Zenon DEF QuiescedInv
<1>1. dep' = dep /\ pc = "patchStatus" /\ pc' = "idle"
  BY Zenon DEF patchStatus, Return
<1>2. /\ dep # None /\ dep.replicas = 0 /\ cr # None /\ "source" \in cr.fin
      /\ cr.snapRep # None \/ (mem.snapRep # None /\ base.snapRep = None)
  BY Zenon DEF QuiescedInv
<1>3. ~\E o \in Outcome : removeSourceFinalizer(o)
  BY <1>1 DEF removeSourceFinalizer
<1>4. cr' # None /\ "source" \in cr'.fin
  BY <1>2, <1>3, SourceFinStays, Zenon
<1>5. cr'.snapRep # None
  <2>1. CASE cr.snapRep # None
    BY <1>2, <1>4, <2>1, SnapshotsStep, Zenon DEF SnapshotsStay, Covers
  <2>2. CASE mem.snapRep # None /\ base.snapRep = None
    <3>1. cr \in CR
      <4>1. cr \in CR \cup {None}
        BY Zenon DEF GuardInv, TypeOK
      <4>2. QED
        BY <1>2, <4>1, Zenon
    <3>2. \E y : cr' = [cr EXCEPT !.snapRep = mem.snapRep, !.snapSvc = y]
      BY <1>2, <2>2, Zenon DEF patchStatus, Landed
    <3>3. cr'.snapRep = mem.snapRep
      BY <3>1, <3>2, Zenon DEF CR
    <3>4. QED
      BY <2>2, <3>3, Zenon
  <2>3. QED
    BY <1>2, <2>1, <2>2, Zenon
<1>6. pc' # "removeSourceFinalizer"
  BY <1>1
<1>7. QED
  BY <1>1, <1>2, <1>4, <1>5, <1>6, Zenon

\* The snapshot is in memory, or in the CR already, when replicas=0 is applied.
LEMMA QuiesceStep ==
  ASSUME GuardInv, HoldInv, QuiescedInv, Next, quiesceSource("ok")
  PROVE  QuiescedInv'
<1>1. /\ pc = "quiesceSource" /\ pc' = "patchStatus" /\ cr' = cr /\ base' = base
      /\ mem' = mem \/ mem' = [mem EXCEPT !.snapRep = memDep.replicas]
  BY Zenon DEF quiesceSource
<1>2. mem \in CR /\ memDep \in Dep
  BY <1>1, Zenon DEF GuardInv, TypeOK
<1>3. memDep.replicas # None
  BY <1>2, AdoptionAssumption DEF Dep
<1>4. mem' = mem \/ mem'.snapRep = memDep.replicas
  BY <1>1, <1>2, Zenon DEF CR
<1>5. cr # None /\ "source" \in cr.fin /\ Agree(base, mem) /\ Covers(base, cr)
  <2>1. pc \in Taking /\ pc # "idle" /\ pc # "patchStatus" /\ "source" \in Fin
    BY <1>1 DEF Taking, Fin
  <2>2. QED
    BY <2>1, Zenon DEF HoldInv, Guarded
<1>6. CASE quiesced' = quiesced /\ dep' = dep
  <2>1. quiesced # None => dep # None /\ dep.replicas = 0 /\ cr.snapRep # None
    BY <1>1 DEF QuiescedInv
  <2>2. pc' # "removeSourceFinalizer"
    BY <1>1
  <2>3. QED
    BY <1>1, <1>5, <1>6, <2>1, <2>2, Zenon DEF QuiescedInv
<1>7. CASE ~(quiesced' = quiesced /\ dep' = dep)
  <2>1. /\ dep # None /\ dep' = [dep EXCEPT !.replicas = 0]
        /\ mem' = IF mem.snapRep = None THEN [mem EXCEPT !.snapRep = memDep.replicas] ELSE mem
    BY <1>7, Zenon DEF quiesceSource
  <2>2. dep' # None /\ dep'.replicas = 0
    <3>1. dep \in Dep /\ 0 \in Replicas
      BY <2>1, AdoptionAssumption DEF GuardInv, TypeOK, Replicas
    <3>2. dep' \in Dep /\ dep'.replicas = 0
      BY <2>1, <3>1, Zenon DEF Dep
    <3>3. QED
      BY <3>2, AdoptionAssumption, Zenon
  <2>3. cr.snapRep # None \/ (mem'.snapRep # None /\ base.snapRep = None)
    <3>1. CASE mem.snapRep = None
      <4>1. mem'.snapRep = memDep.replicas
        BY <1>2, <2>1, <3>1, Zenon DEF CR
      <4>2. QED
        BY <1>3, <1>5, <3>1, <4>1, Zenon DEF Agree
    <3>2. CASE mem.snapRep # None
      BY <1>5, <3>2, Zenon DEF Agree, Covers
    <3>3. QED
      BY <3>1, <3>2, Zenon
  <2>4. pc' # "removeSourceFinalizer"
    BY <1>1
  <2>5. QED
    BY <1>1, <1>5, <2>2, <2>3, <2>4, Zenon DEF QuiescedInv
<1>8. QED
  BY <1>6, <1>7, Zenon

\* With an up-to-date Deployment in hand, the restore leaves no 0 behind.
LEMMA RestoreStep ==
  ASSUME "dep" \notin Lagging, GuardInv, HoldInv, QuiescedInv, Next, restoreDeploymentSpec("ok")
  PROVE  QuiescedInv'
<1>1. /\ pc = "restoreDeployment" /\ cr' = cr /\ mem' = mem /\ base' = base
      /\ pc' \in {"removeSourceFinalizer", "patchStatus"}
  BY Zenon DEF restoreDeploymentSpec, Goto
<1>2. View("dep") = dep
  BY DEF View, Live
<1>3. mem # None /\ (mem.snapRep # 0)
  BY <1>1, Zenon DEF HoldInv, NonZero, GuardInv, TypeOK
<1>4. quiesced # None => /\ dep # None /\ dep.replicas = 0 /\ cr # None /\ "source" \in cr.fin
                         /\ cr.snapRep # None
  BY <1>1 DEF QuiescedInv
<1>5. CASE quiesced' = quiesced /\ dep' = dep
  <2>1. mem.snapRep # None => quiesced = None
    <3> SUFFICES ASSUME mem.snapRep # None, quiesced # None PROVE FALSE
      OBVIOUS
    <3>1. /\ dep # None /\ dep.replicas # mem.snapRep
      BY <1>3, <1>4, Zenon
    <3>2. quiesced' = IF dep'.replicas # 0 THEN None ELSE quiesced
      BY <1>2, <3>1 DEF restoreDeploymentSpec, Landed
    <3>3. dep' = [dep EXCEPT !.replicas = mem.snapRep, !.label = IF dep.label THEN FALSE ELSE @]
      BY <1>2, <3>1, Zenon DEF restoreDeploymentSpec, Landed
    <3>4. dep \in Dep
      BY <3>1, Zenon DEF GuardInv, TypeOK
    <3>5. dep'.replicas = mem.snapRep
      BY <3>3, <3>4, Zenon DEF Dep
    <3>6. QED
      BY <1>3, <1>5, <3>2, <3>5, Zenon
  <2>2. QED
    BY <1>1, <1>4, <1>5, <2>1, Zenon DEF QuiescedInv
<1>6. CASE ~(quiesced' = quiesced /\ dep' = dep)
  <2>1. /\ dep # None
        /\ dep' = [dep EXCEPT !.replicas = IF dep.replicas # mem.snapRep THEN mem.snapRep ELSE @,
                              !.label = IF dep.label THEN FALSE ELSE @]
        /\ quiesced' = IF dep'.replicas # 0 THEN None ELSE quiesced
    BY <1>2, <1>6, Zenon DEF restoreDeploymentSpec
  <2>2. dep \in Dep
    BY <2>1, Zenon DEF GuardInv, TypeOK
  <2>3. dep'.replicas = mem.snapRep
    BY <2>1, <2>2, Zenon DEF Dep
  <2>4. quiesced' = None
    BY <1>3, <2>1, <2>3, Zenon
  <2>5. QED
    BY <2>4, Zenon DEF QuiescedInv
<1>7. QED
  BY <1>5, <1>6, Zenon

LEMMA ReleaseStep ==
  ASSUME GuardInv, HoldInv, QuiescedInv, Next, removeSourceFinalizer("ok")
  PROVE  QuiescedInv'
<1>1. /\ pc = "removeSourceFinalizer" /\ quiesced' = quiesced /\ dep' = dep
      /\ cr' = cr \/ cr = mem
  BY Zenon DEF removeSourceFinalizer, removeFinalizer, Goto, ghosts
<1>2. quiesced # None => /\ dep # None /\ dep.replicas = 0 /\ cr # None /\ "source" \in cr.fin
                         /\ cr.snapRep # None /\ mem.snapRep = None
  BY <1>1 DEF QuiescedInv
<1>3. quiesced # None => cr' = cr
  BY <1>1, <1>2, Zenon
<1>4. pc' # "removeSourceFinalizer"
  BY DEF removeSourceFinalizer, removeFinalizer, Goto
<1>5. QED
  BY <1>1, <1>2, <1>3, <1>4, Zenon DEF QuiescedInv

LEMMA QuiescedStep ==
  ASSUME MaxFaults = 0, "dep" \notin Lagging
  PROVE  GuardInv /\ HoldInv /\ QuiescedInv /\ [Next]_vars => QuiescedInv'
<1> SUFFICES ASSUME GuardInv, HoldInv, QuiescedInv, [Next]_vars PROVE QuiescedInv'
  OBVIOUS
<1>1. CASE UNCHANGED vars
  <2>1. UNCHANGED <<cr, dep, mem, base, pc, quiesced>>
    BY <1>1 DEF vars, passVars, ghosts
  <2>2. QED
    BY <2>1, Zenon DEF QuiescedInv
<1>2. CASE Next
  <2>1. ~Crash /\ \A o \in Outcome : Spend(o) => o = "ok"
    BY NoFaults, Zenon DEF GuardInv
  <2>2. CASE Watch \/ (\E k \in Lagging : Sync(k)) \/ Knative \/ User
    BY <1>2, <2>2, QuiescedEnvStep, Zenon
  <2>3. CASE \E o \in Outcome :
               \/ patchStatus(o) \/ quiesceSource(o) \/ restoreDeploymentSpec(o)
               \/ removeSourceFinalizer(o)
    <3>1. PICK o \in Outcome :
            \/ patchStatus(o) \/ quiesceSource(o) \/ restoreDeploymentSpec(o)
            \/ removeSourceFinalizer(o)
      BY <2>3, Zenon
    <3>2. patchStatus(o) => Spend(o)
      BY Zenon DEF patchStatus
    <3>3. quiesceSource(o) => o = "ok" \/ Spend(o)
      BY Zenon DEF quiesceSource
    <3>4. restoreDeploymentSpec(o) \/ removeSourceFinalizer(o) => Spend(o)
      BY Zenon DEF restoreDeploymentSpec, removeSourceFinalizer, removeFinalizer
    <3>5. o = "ok"
      BY <2>1, <3>1, <3>2, <3>3, <3>4, Zenon
    <3>6. QED
      BY <1>2, <3>1, <3>5, QuiescedPatchStep, QuiesceStep, RestoreStep, ReleaseStep, Zenon
  <2>4. QED
    BY <1>2, <2>1, <2>2, <2>3, QuiescedPassStep, Zenon DEF Next, ReconcilerStep, Outcome
<1>3. QED
  BY <1>1, <1>2, Zenon

LEMMA QuiescedInit == Init => QuiescedInv
<1> SUFFICES ASSUME Init PROVE QuiescedInv
  OBVIOUS
<1>1. quiesced = None
  BY Zenon DEF Init
<1>2. QED
  BY <1>1, Zenon DEF QuiescedInv

\* Nothing that writes the CR touches the Deployment.
LEMMA ReleaseLeavesSource ==
  ASSUME Next, cr' # cr
  PROVE  quiesced' = quiesced
<1>1. CASE ReconcilerStep \/ Crash
  BY <1>1, Zenon
     DEF ReconcilerStep, Reconcile, getSource, awaitChildren, ensureFinalizers, swapService,
         applyKSvc, quiesceSource, patchStatus, deleteKSvcIfPresent, rebuildSnapshotService,
         removeServiceFinalizer, restoreDeploymentSpec, removeSourceFinalizer, removeFinalizer,
         Crash, ghosts
<1>2. CASE Watch \/ (\E k \in Lagging : Sync(k)) \/ Knative \/ User
  BY <1>2, Zenon
     DEF Watch, Sync, Knative, User, UserUpdatesDeployment, UserDeletesDeployment,
         UserCreatesCR, UserDeletesCR, UserCreatesService, UserDeletesService,
         UserDeletesKSvc, ghosts
<1>3. QED
  BY <1>1, <1>2, Zenon DEF Next

\* While the source is at the 0 that quiesceSource applied, the CR knows a
\* replica count to go back to, or the pass in progress is about to write it.
THEOREM ReplicasKept ==
  ASSUME MaxFaults = 0, "dep" \notin Lagging
  PROVE  Spec => ReplicasHeldUntilRelease
<1>1. Init => GuardInv /\ HoldInv /\ QuiescedInv
  BY GuardInit, HoldInit, QuiescedInit
<1>2. GuardInv /\ HoldInv /\ QuiescedInv /\ [Next]_vars => (GuardInv /\ HoldInv /\ QuiescedInv)'
  BY GuardStep, HoldStep, QuiescedStep
<1>3. GuardInv' /\ QuiescedInv' => (quiesced' # None => ReplicasHeld' \/ Releases)
  BY DEF GuardInv, TypeOK, QuiescedInv, ReplicasHeld
<1>4. GuardInv /\ HoldInv /\ QuiescedInv /\ [Next]_vars =>
        [quiesced' # None => ReplicasHeld' \/ Releases]_vars
  BY <1>2, <1>3, Zenon
<1>5. QED
  BY <1>1, <1>2, <1>4, PTL DEF Spec, ReplicasHeldUntilRelease

\* A CR is not released while its source is at the 0 that quiesceSource applied:
\* restoreDeploymentSpec has written the snapshot back before the source
\* finalizer goes.
THEOREM ReleasedWithReplicas ==
  ASSUME MaxFaults = 0, "dep" \notin Lagging
  PROVE  Spec => ReleaseRestoresReplicas
<1>1. Init => GuardInv /\ HoldInv /\ QuiescedInv
  BY GuardInit, HoldInit, QuiescedInit
<1>2. GuardInv /\ HoldInv /\ QuiescedInv /\ [Next]_vars => (GuardInv /\ HoldInv /\ QuiescedInv)'
  BY GuardStep, HoldStep, QuiescedStep
<1>3. GuardInv /\ HoldInv /\ QuiescedInv /\ [Next]_vars => [Releases => quiesced = None]_vars
  <2> SUFFICES ASSUME GuardInv, HoldInv, QuiescedInv, Next, Releases PROVE quiesced = None
    BY Zenon
  <2>1. quiesced' = quiesced
    BY ReleaseLeavesSource, Zenon DEF Releases
  <2>2. QuiescedInv'
    BY <1>2, Zenon
  <2>3. QED
    BY <2>1, <2>2, Zenon DEF QuiescedInv, Releases
<1>4. QED
  BY <1>1, <1>2, <1>3, PTL DEF Spec, ReleaseRestoresReplicas

-----------------------------------------------------------------------------
(* A Service is taken only by an adoption that can give it back.           *)

\* What a step does to a Service that is not Knative's: only the swap and the
\* user remove it.
LEMMA ServiceMoves ==
  ASSUME TypeOK, Next, svc # None, ~IsDerived(svc), svc' = None, ops' = ops
  PROVE  \E o \in Outcome : /\ swapService(o) /\ snapshotAndDeleteService(o)
                              /\ ClassifyServiceForSwap(View("svc")) = "SwapTakenOver"
<1>1. ~Knative
  BY Zenon
     DEF Knative, CreateRoute, CreateDerivedService, BecomeReady, BecomeUnready,
         FinishKSvcDeletion, CollectRoute, CollectDerivedService
<1>2. ~User
  <2>1. ops' # ops + 1
    BY DEF TypeOK
  <2>2. QED
    BY <2>1, Zenon DEF User
<1>3. CASE \E o \in Outcome : swapService(o)
  BY <1>3, Zenon DEF swapService
<1>4. ~Reconcile /\ ~getSource /\ ~awaitChildren /\ ~Crash /\ ~Watch /\ ~\E k \in Lagging : Sync(k)
  BY Zenon DEF Reconcile, getSource, awaitChildren, Crash, Watch, Sync
<1>5. ASSUME NEW o \in Outcome
      PROVE  /\ ~ensureFinalizers(o) /\ ~applyKSvc(o) /\ ~quiesceSource(o) /\ ~patchStatus(o)
             /\ ~deleteKSvcIfPresent(o) /\ ~rebuildSnapshotService(o)
             /\ ~removeServiceFinalizer(o) /\ ~restoreDeploymentSpec(o)
             /\ ~removeSourceFinalizer(o)
  BY Zenon DEF ensureFinalizers, applyKSvc, quiesceSource, patchStatus, deleteKSvcIfPresent,
               rebuildSnapshotService, removeServiceFinalizer, restoreDeploymentSpec,
               removeSourceFinalizer, removeFinalizer
<1>6. QED
  BY <1>1, <1>2, <1>3, <1>4, <1>5, Zenon DEF Next, ReconcilerStep

\* A Service the swap classifies as one to take over has a spec.
LEMMA TakenOverHasSpec ==
  ASSUME NEW s \in Svc \cup {None}, ClassifyServiceForSwap(s) = "SwapTakenOver"
  PROVE  s.spec \in Specs
<1>1. s # None
  BY DEF ClassifyServiceForSwap
<1>2. s \in Svc /\ s.kind \in {"plain", "refused", "rebuilt", "derived"}
  BY <1>1 DEF Svc
<1>3. s.kind = "plain"
  BY <1>1, <1>2 DEF ClassifyServiceForSwap
<1>4. QED
  BY <1>2, <1>3 DEF Svc

\* A swap works on a guarded CR, and leaves a snapshot there or in memory.
LEMMA SwapRemembers ==
  ASSUME GuardInv, HoldInv, NEW o \in Outcome, swapService(o), snapshotAndDeleteService(o),
         ClassifyServiceForSwap(View("svc")) = "SwapTakenOver"
  PROVE  /\ cr # None /\ cr.fin = Fin
         /\ cr.snapSvc # None \/ (mem'.snapSvc # None /\ base'.snapSvc = None)
<1>1. pc = "swapService" /\ base' = base
  BY Zenon DEF swapService
<1>2. cr # None /\ cr.fin = Fin /\ Agree(base, mem) /\ Covers(base, cr)
  <2>1. pc \in Taking /\ pc # "idle" /\ pc # "patchStatus"
    BY <1>1 DEF Taking
  <2>2. QED
    BY <2>1, Zenon DEF HoldInv, Guarded
<1>3. mem \in CR
  BY <1>1, Zenon DEF GuardInv, TypeOK
<1>4. CASE mem.snapSvc = None
  <2>1. View("svc").spec \in Specs
    BY TakenOverHasSpec, ViewType, Zenon DEF GuardInv
  <2>2. mem' = [mem EXCEPT !.snapSvc = View("svc").spec]
    BY <1>4, Zenon DEF snapshotAndDeleteService
  <2>3. mem'.snapSvc = View("svc").spec
    BY <1>3, <2>2, Zenon DEF CR
  <2>4. None \notin Specs
    BY AdoptionAssumption, Zenon
  <2>5. mem'.snapSvc # None /\ base'.snapSvc = None
    BY <1>1, <1>2, <1>4, <2>1, <2>3, <2>4, Zenon DEF Agree
  <2>6. QED
    BY <1>2, <2>5, Zenon
<1>5. CASE mem.snapSvc # None
  BY <1>2, <1>5, Zenon DEF Agree, Covers
<1>6. QED
  BY <1>4, <1>5, Zenon

\* For any staleness of the caches, any crashes and failed writes and any number
\* of Services: swapService deletes one only for a CR whose finalizers bring the
\* release and with a snapshot in the CR or in memory, and no later status patch
\* erases a snapshot.
THEOREM TakenUnderClaim == Spec => TakenServiceRemembered
<1>1. Init => GuardInv /\ HoldInv
  BY GuardInit, HoldInit
<1>2. GuardInv /\ HoldInv /\ [Next]_vars => (GuardInv /\ HoldInv)'
  BY GuardStep, HoldStep
<1>3. GuardInv /\ HoldInv /\ [Next]_vars =>
        [/\ svc # None /\ ~IsDerived(svc) /\ svc' = None /\ ops' = ops =>
              /\ cr # None /\ cr.fin = Fin
              /\ cr.snapSvc # None \/ (mem'.snapSvc # None /\ base'.snapSvc = None)
         /\ cr # None /\ cr' # None /\ cr.snapSvc # None => cr'.snapSvc # None]_vars
  <2> SUFFICES ASSUME GuardInv, HoldInv, Next
               PROVE  /\ svc # None /\ ~IsDerived(svc) /\ svc' = None /\ ops' = ops =>
                           /\ cr # None /\ cr.fin = Fin
                           /\ cr.snapSvc # None \/ (mem'.snapSvc # None /\ base'.snapSvc = None)
                      /\ cr # None /\ cr' # None /\ cr.snapSvc # None => cr'.snapSvc # None
    OBVIOUS
  <2>1. TypeOK
    BY Zenon DEF GuardInv
  <2>2. ASSUME svc # None, ~IsDerived(svc), svc' = None, ops' = ops
        PROVE  /\ cr # None /\ cr.fin = Fin
               /\ cr.snapSvc # None \/ (mem'.snapSvc # None /\ base'.snapSvc = None)
    <3>1. PICK o \in Outcome : /\ swapService(o) /\ snapshotAndDeleteService(o)
                               /\ ClassifyServiceForSwap(View("svc")) = "SwapTakenOver"
      BY <2>1, <2>2, ServiceMoves, Zenon
    <3>2. QED
      BY <3>1, SwapRemembers, Zenon
  <2>3. cr # None /\ cr' # None /\ cr.snapSvc # None => cr'.snapSvc # None
    BY SnapshotsStep, Zenon DEF SnapshotsStay, Covers
  <2>4. QED
    BY <2>2, <2>3, Zenon
<1>4. QED
  BY <1>1, <1>2, <1>3, PTL DEF Spec, TakenServiceRemembered

-----------------------------------------------------------------------------
(* Adoption implements Handoff.                                            *)

\* A pass that restores the source works on a CR that is given up: the claim is
\* not taken again before the cache has seen the next CR.
LeaveInv ==
  Torn(CRView) \/ pc \in {"restoreDeployment", "removeSourceFinalizer"} => ~Guarded(cr)

LEMMA LeaveKeep ==
  ASSUME LeaveInv, KeepsCR, CRView' = CRView \/ CRView' = cr',
         pc' \in {"restoreDeployment", "removeSourceFinalizer"}
           => pc \in {"restoreDeployment", "removeSourceFinalizer"} \/ Torn(CRView)
  PROVE  LeaveInv'
<1>1. "service" \in Fin /\ Fin # {}
  BY DEF Fin
<1>2. Guarded(cr') => Guarded(cr)
  BY <1>1 DEF KeepsCR, Guarded
<1>3. Torn(cr') => ~Guarded(cr')
  BY <1>1, Zenon DEF Torn, Guarded
<1>4. QED
  BY <1>2, <1>3, Zenon DEF LeaveInv

LEMMA LeaveInit == Init => LeaveInv
<1> SUFFICES ASSUME Init PROVE LeaveInv
  OBVIOUS
<1>1. cr = None
  BY Zenon DEF Init
<1>2. QED
  BY <1>1, Zenon DEF LeaveInv, Guarded

LEMMA LeaveStep ==
  GuardInv /\ TornInv /\ LeaveInv /\ [Next]_vars => LeaveInv'
<1> SUFFICES ASSUME GuardInv, TornInv, LeaveInv, [Next]_vars PROVE LeaveInv'
  OBVIOUS
<1>1. CASE UNCHANGED vars
  <2>1. UNCHANGED <<cr, pc>> /\ CRView' = CRView
    BY <1>1, SMTT(30) DEF vars, passVars, ghosts, CRView, View, Live
  <2>2. QED
    BY <2>1, Zenon DEF LeaveInv
<1>2. CASE Next
  <2>0. TypeOK
    BY DEF GuardInv
  <2>1. CRView' = CRView \/ CRView' = cr'
    BY <1>2, <2>0, CRViewStep
  <2>2. CASE Watch \/ (\E k \in Lagging : Sync(k)) \/ Knative \/ User
    BY <2>0, <2>1, <2>2, EnvMoves, LeaveKeep
  <2>3. ASSUME NEW o \in Outcome,
               \/ Reconcile \/ getSource \/ awaitChildren \/ Crash \/ swapService(o)
               \/ applyKSvc(o) \/ quiesceSource(o) \/ patchStatus(o) \/ deleteKSvcIfPresent(o)
               \/ rebuildSnapshotService(o) \/ restoreDeploymentSpec(o)
        PROVE  LeaveInv'
    <3>1. KeepsCR
      BY <2>0, <2>3, PassMoves
    <3>2. pc' \in {"restoreDeployment", "removeSourceFinalizer"}
            => pc = "restoreDeployment" \/ Torn(CRView)
      <4>1. CASE Reconcile
        BY <4>1 DEF Reconcile, Torn, CRView
      <4>2. CASE ~Reconcile
        BY <2>3, <4>2
           DEF getSource, awaitChildren, Crash, swapService, applyKSvc, quiesceSource,
               patchStatus, deleteKSvcIfPresent, rebuildSnapshotService, restoreDeploymentSpec,
               Goto, Return
      <4>3. QED
        BY <4>1, <4>2
    <3>3. QED
      BY <2>1, <3>1, <3>2, LeaveKeep
  <2>4. ASSUME NEW o \in Outcome, ensureFinalizers(o)
        PROVE  LeaveInv'
    <3>1. pc = "ensureFinalizers" /\ pc' \in {"getSource", "idle"} /\ ~Torn(CRView)
      BY <2>4 DEF ensureFinalizers, Goto, Return, TornInv
    <3>2. Torn(cr') => ~Guarded(cr')
      BY DEF Torn, Guarded, Fin
    <3>3. QED
      BY <2>1, <3>1, <3>2 DEF LeaveInv
  <2>5. ASSUME NEW o \in Outcome, removeServiceFinalizer(o) \/ removeSourceFinalizer(o)
        PROVE  LeaveInv'
    <3>1. PICK f \in Fin, next \in {"restoreDeployment", "patchStatus"} :
            removeFinalizer(f, next, o)
      BY <2>5 DEF removeServiceFinalizer, removeSourceFinalizer, Fin
    <3>2. pc # "idle"
      BY <2>5 DEF removeServiceFinalizer, removeSourceFinalizer
    <3>3. CASE cr' = cr /\ mem' = mem
      <4>1. pc' = "patchStatus" \/ pc' = next
        BY <3>1 DEF removeFinalizer, Goto
      <4>2. pc' = "restoreDeployment" => ~Guarded(cr')
        <5>1. SUFFICES ASSUME pc' = "restoreDeployment" PROVE ~Guarded(cr')
          OBVIOUS
        <5>2. cr = mem /\ mem' = [mem EXCEPT !.fin = @ \ {f}] /\ mem \in CR
          BY <2>0, <3>1, <3>2, <5>1 DEF removeFinalizer, Goto, TypeOK
        <5>3. mem'.fin = mem.fin \ {f}
          BY <5>2 DEF CR
        <5>4. f \notin cr'.fin
          BY <3>3, <5>2, <5>3
        <5>5. QED
          BY <3>1, <5>4 DEF Guarded
      <4>3. Torn(CRView') => ~Guarded(cr')
        <5>1. Torn(cr') => ~Guarded(cr')
          BY DEF Torn, Guarded, Fin
        <5>2. QED
          BY <2>1, <3>3, <5>1 DEF LeaveInv
      <4>4. QED
        BY <3>1, <4>1, <4>2, <4>3 DEF LeaveInv
    <3>4. CASE cr' # cr \/ mem' # mem
      <4>1. cr' = None \/ cr'.fin = cr.fin \ {f}
        BY <2>0, <3>1, <3>2, <3>4, RemoveEffect
      <4>2. ~Guarded(cr')
        BY <3>1, <4>1 DEF Guarded
      <4>3. QED
        BY <4>2 DEF LeaveInv
    <3>5. QED
      BY <3>3, <3>4
  <2>6. "ok" \in Outcome
    BY DEF Outcome
  <2>7. QED
    BY <1>2, <2>2, <2>3, <2>4, <2>5, <2>6, Zenon DEF Next, ReconcilerStep
<1>3. QED
  BY <1>1, <1>2

-----------------------------------------------------------------------------
(* Each step is a step of Handoff, or invisible to it.                     *)

LEMMA ClaimKept ==
  ASSUME KeepsCR
  PROVE  claim' = claim
<1>1. Fin # {}
  BY DEF Fin
<1>2. QED
  BY <1>1 DEF KeepsCR, claim

LEMMA HandoffEnvStep ==
  ASSUME TypeOK, Watch \/ (\E k \in Lagging : Sync(k)) \/ Knative \/ User
  PROVE  [Workload!Next]_(Workload!vars)
<1>1. claim' = claim
  BY EnvMoves, ClaimKept
<1>2. CASE Watch \/ \E k \in Lagging : Sync(k)
  <2>1. UNCHANGED <<ksvc, quiesced, ops>>
    BY <1>2, Zenon DEF Watch, Sync, ghosts
  <2>2. QED
    BY <1>1, <2>1 DEF Workload!vars, service
<1>3. CASE Knative
  <2>1. UNCHANGED <<quiesced, ops>>
    BY <1>3, Zenon DEF Knative, ghosts
  <2>2. \/ ksvc' = ksvc
        \/ <<ksvc, ksvc'>> \in {<<"pending", "ready">>, <<"ready", "pending">>, <<"terminating", None>>}
    BY <1>3
       DEF Knative, CreateRoute, CreateDerivedService, BecomeReady, BecomeUnready,
           FinishKSvcDeletion, CollectRoute, CollectDerivedService
  <2>3. CASE ksvc' = ksvc
    BY <1>1, <2>1, <2>3 DEF Workload!vars, service
  <2>4. CASE ksvc' # ksvc
    <3>1. <<service, service'>> \in
            {<<"pending", "ready">>, <<"ready", "pending">>, <<"terminating", "gone">>}
      BY <2>2, <2>4, AdoptionAssumption DEF service
    <3>2. Workload!Serve
      BY <1>1, <2>1, <3>1 DEF Workload!Serve
    <3>3. QED
      BY <3>2 DEF Workload!Next
  <2>5. QED
    BY <2>3, <2>4
<1>4. CASE User
  <2>1. ops' = ops + 1
    BY <1>4, Zenon DEF User
  <2>2. quiesced' = quiesced \/ quiesced' = None
    BY <1>4, Zenon
       DEF User, UserUpdatesDeployment, UserDeletesDeployment, UserCreatesCR, UserDeletesCR,
           UserCreatesService, UserDeletesService, UserDeletesKSvc, ghosts
  <2>3. ksvc' = ksvc \/ (ksvc \in {"pending", "ready"} /\ ksvc' = "terminating")
    BY <1>4, Zenon
       DEF User, UserUpdatesDeployment, UserDeletesDeployment, UserCreatesCR, UserDeletesCR,
           UserCreatesService, UserDeletesService, UserDeletesKSvc
  <2>4. service' = service \/ (service \in {"pending", "ready"} /\ service' = "terminating")
    BY <2>3, AdoptionAssumption DEF service
  <2>5. (quiesced' # None) \in {quiesced # None, FALSE}
    BY <2>2, Zenon
  <2>6. Workload!Interfere
    BY <1>1, <2>1, <2>4, <2>5, Zenon DEF Workload!Interfere
  <2>7. QED
    BY <2>6 DEF Workload!Next
<1>5. QED
  BY <1>2, <1>3, <1>4

LEMMA HandoffPassStep ==
  ASSUME "ksvc" \notin Lagging, GuardInv, TornInv, HoldInv, LeaveInv, NEW o \in Outcome,
         \/ Reconcile \/ getSource \/ awaitChildren \/ Crash \/ swapService(o)
         \/ applyKSvc(o) \/ quiesceSource(o) \/ patchStatus(o) \/ deleteKSvcIfPresent(o)
         \/ rebuildSnapshotService(o) \/ restoreDeploymentSpec(o)
  PROVE  [Workload!Next]_(Workload!vars)
<1>0. TypeOK /\ KSvcHasGuardian
  BY DEF GuardInv
<1>1. claim' = claim
  BY <1>0, PassMoves, ClaimKept
<1>2. Guarded(cr) => claim = "held"
  BY DEF Guarded, claim
<1>3. CASE \/ Reconcile \/ getSource \/ awaitChildren \/ Crash \/ swapService(o)
           \/ patchStatus(o) \/ rebuildSnapshotService(o)
  <2>1. UNCHANGED <<ksvc, quiesced, ops>>
    BY <1>3, Zenon
       DEF Reconcile, getSource, awaitChildren, Crash, swapService, patchStatus,
           rebuildSnapshotService, ghosts
  <2>2. QED
    BY <1>1, <2>1 DEF Workload!vars, service
<1>4. CASE applyKSvc(o)
  <2>1. /\ UNCHANGED <<quiesced, ops>> /\ pc = "applyKSvc"
        /\ ksvc' = ksvc \/ (ksvc = None /\ ksvc' = "pending")
    BY <1>4, Zenon DEF applyKSvc, ghosts
  <2>2. claim = "held"
    BY <1>2, <2>1 DEF HoldInv, Taking
  <2>3. CASE ksvc' = ksvc
    BY <1>1, <2>1, <2>3 DEF Workload!vars, service
  <2>4. CASE ksvc' # ksvc
    <3>1. service = "gone" /\ service' = "pending"
      BY <2>1, <2>4, AdoptionAssumption DEF service
    <3>2. QED
      BY <1>1, <2>1, <2>2, <3>1 DEF Workload!Next, Workload!Deploy
  <2>5. QED
    BY <2>3, <2>4
<1>5. CASE quiesceSource(o)
  <2>1. UNCHANGED <<ksvc, ops>> /\ pc = "quiesceSource"
    BY <1>5, Zenon DEF quiesceSource
  <2>2. claim = "held"
    BY <1>2, <2>1 DEF HoldInv, Taking
  <2>3. CASE quiesced' = quiesced
    BY <1>1, <2>1, <2>3 DEF Workload!vars, service
  <2>4. CASE quiesced' # quiesced
    <3>1. "True" \in knativeServiceReady(View("ksvc")) /\ dep # None /\ quiesced' = dep.replicas
      BY <1>5, <2>4, ZenonT(30) DEF quiesceSource
    <3>2. ksvc \in {"ready", "terminating"}
      BY <3>1 DEF View, Live, knativeServiceReady
    <3>3. quiesced' # None
      BY <1>0, <3>1, AdoptionAssumption DEF TypeOK, Dep
    <3>4. service \in {"ready", "terminating"} /\ service' = service
      BY <2>1, <3>2, AdoptionAssumption DEF service
    <3>5. QED
      BY <1>1, <2>1, <2>2, <3>3, <3>4 DEF Workload!Next, Workload!Park
  <2>5. QED
    BY <2>3, <2>4
<1>6. CASE deleteKSvcIfPresent(o)
  <2>1. UNCHANGED <<quiesced, ops>> /\ (ksvc' = ksvc \/ (ksvc # None /\ ksvc' = "terminating"))
    BY <1>6, Zenon DEF deleteKSvcIfPresent, ghosts
  <2>2. CASE ksvc' = ksvc
    BY <1>1, <2>1, <2>2 DEF Workload!vars, service
  <2>3. CASE ksvc' # ksvc
    <3>1. ksvc \in {"pending", "ready"} /\ ksvc' = "terminating"
      BY <1>0, <2>1, <2>3 DEF TypeOK
    <3>2. claim = "held"
      BY <1>0, <1>2, <3>1 DEF KSvcHasGuardian, Guarded
    <3>3. service \in {"pending", "ready"} /\ service' = "terminating"
      BY <3>1, AdoptionAssumption DEF service
    <3>4. QED
      BY <1>1, <2>1, <3>2, <3>3 DEF Workload!Next, Workload!Withdraw
  <2>4. QED
    BY <2>2, <2>3
<1>7. CASE restoreDeploymentSpec(o)
  <2>1. UNCHANGED <<ksvc, ops>> /\ pc = "restoreDeployment" /\ quiesced' \in {quiesced, None}
    BY <1>7, Zenon DEF restoreDeploymentSpec
  <2>2. ksvc = None /\ ~Guarded(cr)
    BY <2>1 DEF TornInv, LeaveInv
  <2>3. claim # "held" /\ service = "gone" /\ service' = service
    BY <2>1, <2>2 DEF claim, service, Guarded
  <2>4. CASE quiesced' = quiesced
    BY <1>1, <2>1, <2>3, <2>4 DEF Workload!vars
  <2>5. CASE quiesced' = None
    BY <1>1, <2>1, <2>3, <2>5 DEF Workload!Next, Workload!Restore
  <2>6. QED
    BY <2>1, <2>4, <2>5
<1>8. QED
  BY <1>3, <1>4, <1>5, <1>6, <1>7

LEMMA HandoffFinalizerStep ==
  ASSUME GuardInv, TornInv, NEW o \in Outcome,
         ensureFinalizers(o) \/ removeServiceFinalizer(o) \/ removeSourceFinalizer(o),
         MaxFaults = 0 /\ "dep" \notin Lagging => QuiescedInv'
  PROVE  [Workload!Next]_(Workload!vars)
<1>0. TypeOK
  BY DEF GuardInv
<1>1. UNCHANGED <<ksvc, quiesced, ops>>
  BY Zenon
     DEF ensureFinalizers, removeServiceFinalizer, removeSourceFinalizer, removeFinalizer, ghosts
<1>2. service' = service
  BY <1>1 DEF service
<1>3. CASE claim' = claim
  BY <1>1, <1>2, <1>3 DEF Workload!vars
<1>4. CASE claim' # claim /\ ensureFinalizers(o)
  <2>1. pc = "ensureFinalizers" /\ ~Torn(cr) /\ cr # None
        /\ ~(cr.deleting /\ cr.fin # Fin) /\ cr' = [cr EXCEPT !.fin = Fin]
    <3>1. cr' # cr
      BY <1>4 DEF claim
    <3>2. QED
      BY <1>4, <3>1, Zenon DEF ensureFinalizers, TornInv
  <2>2. cr \in CR /\ cr'.fin = Fin /\ cr' \in CR
    BY <1>0, <2>1 DEF TypeOK, CR
  <2>3. cr' # None
    BY <2>2, AdoptionAssumption
  <2>4. cr.fin \in {{}, Fin}
    BY <2>1, <2>2 DEF TornInv, CR
  <2>5. claim = "none" /\ claim' = "held"
    BY <1>4, <2>1, <2>2, <2>3, <2>4 DEF claim
  <2>6. QED
    BY <1>1, <1>2, <2>5 DEF Workload!Next, Workload!Claim
<1>5. CASE claim' # claim /\ (removeServiceFinalizer(o) \/ removeSourceFinalizer(o))
  <2>1. PICK f \in Fin, next \in {"restoreDeployment", "patchStatus"} :
          removeFinalizer(f, next, o)
    BY <1>5 DEF removeServiceFinalizer, removeSourceFinalizer, Fin
  <2>2. pc \in {"removeServiceFinalizer", "removeSourceFinalizer"}
    BY <1>5 DEF removeServiceFinalizer, removeSourceFinalizer
  <2>3. cr' # cr
    BY <1>5 DEF claim
  <2>4. /\ cr # None /\ cr' = None => cr.fin \ {f} = {}
        /\ cr # None /\ (cr' = None \/ cr'.fin = cr.fin \ {f})
    BY <1>0, <2>1, <2>2, <2>3, RemoveEffect
  <2>5. cr.fin \in SUBSET Fin
    BY <1>0, <2>4 DEF TypeOK, CR
  <2>6. CASE cr.fin = Fin
    <3>1. cr.fin \ {f} # {} /\ cr.fin \ {f} # Fin
      BY <2>1, <2>6 DEF Fin
    <3>2. claim = "held" /\ claim' = "torn"
      BY <2>4, <2>6, <3>1 DEF claim
    <3>3. ksvc = None
      BY <2>2 DEF TornInv
    <3>4. service = "gone"
      BY <3>3 DEF service
    <3>5. QED
      BY <1>1, <1>2, <3>2, <3>4 DEF Workload!Next, Workload!Tear
  <2>7. CASE cr.fin # Fin
    <3>1. cr.fin # {}
      BY <1>5, <2>4 DEF claim
    <3>2. claim = "torn"
      BY <2>4, <2>7, <3>1 DEF claim
    <3>3. cr.fin \ {f} # Fin
      BY <2>1
    <3>4. claim' = "none" /\ (cr' = None \/ cr'.fin = {})
      BY <1>5, <2>4, <3>2, <3>3 DEF claim
    <3>5. MaxFaults = 0 /\ "dep" \notin Lagging => quiesced = None
      BY <1>1, <3>4 DEF QuiescedInv
    <3>6. QED
      BY <1>1, <1>2, <3>2, <3>4, <3>5 DEF Workload!Next, Workload!Release
  <2>8. QED
    BY <2>6, <2>7
<1>6. QED
  BY <1>3, <1>4, <1>5

LEMMA HandoffInit == Init => Workload!Init
<1> SUFFICES ASSUME Init PROVE Workload!Init
  OBVIOUS
<1>1. cr = None /\ ksvc = None /\ quiesced = None /\ ops = 0
  BY Zenon DEF Init
<1>2. claim = "none" /\ service = "gone"
  BY <1>1 DEF claim, service
<1>3. QED
  BY <1>1, <1>2 DEF Workload!Init

HandoffInv ==
  /\ GuardInv /\ TornInv /\ HoldInv /\ LeaveInv
  /\ MaxFaults = 0 /\ "dep" \notin Lagging => QuiescedInv

\* The operator hands the workload to the KSvc and back in the order of Handoff,
\* for every bound, with any write failing and the caches of CRs, Deployments and
\* Services lagging: the source is put to 0 only when the KSvc is Ready and under
\* a claim, the claim is given up only when the KSvc is gone, and the source comes
\* back only after that.  When no write fails and Deployments are read fresh, a
\* released source is not left at that 0.
THEOREM HandedOverInOrder ==
  ASSUME "ksvc" \notin Lagging
  PROVE  Spec => ImplementsHandoff
<1>1. Init => HandoffInv
  BY GuardInit, TornInit, HoldInit, LeaveInit, QuiescedInit DEF HandoffInv
<1>2. HandoffInv /\ [Next]_vars => HandoffInv'
  <2> SUFFICES ASSUME HandoffInv, [Next]_vars PROVE HandoffInv'
    OBVIOUS
  <2>1. GuardInv' /\ TornInv' /\ HoldInv' /\ LeaveInv'
    BY GuardStep, TornStep, HoldStep, LeaveStep DEF HandoffInv
  <2>2. MaxFaults = 0 /\ "dep" \notin Lagging => QuiescedInv'
    BY QuiescedStep DEF HandoffInv
  <2>3. QED
    BY <2>1, <2>2 DEF HandoffInv
<1>3. HandoffInv /\ HandoffInv' /\ [Next]_vars => [Workload!Next]_(Workload!vars)
  <2> SUFFICES ASSUME HandoffInv, HandoffInv', [Next]_vars
               PROVE  [Workload!Next]_(Workload!vars)
    OBVIOUS
  <2>0. TypeOK /\ GuardInv /\ TornInv /\ HoldInv /\ LeaveInv
    BY DEF HandoffInv, GuardInv
  <2>1. CASE UNCHANGED vars
    <3>1. UNCHANGED <<cr, ksvc, quiesced, ops>>
      BY <2>1 DEF vars, ghosts
    <3>2. QED
      BY <3>1 DEF Workload!vars, claim, service
  <2>2. CASE Watch \/ (\E k \in Lagging : Sync(k)) \/ Knative \/ User
    BY <2>0, <2>2, HandoffEnvStep
  <2>3. CASE \/ Reconcile \/ getSource \/ awaitChildren \/ Crash
             \/ \E o \in Outcome :
                  \/ swapService(o) \/ applyKSvc(o) \/ quiesceSource(o) \/ patchStatus(o)
                  \/ deleteKSvcIfPresent(o) \/ rebuildSnapshotService(o)
                  \/ restoreDeploymentSpec(o)
    <3>1. "ok" \in Outcome
      BY DEF Outcome
    <3>2. QED
      BY <2>0, <2>3, <3>1, HandoffPassStep, Zenon
  <2>4. CASE \E o \in Outcome :
               ensureFinalizers(o) \/ removeServiceFinalizer(o) \/ removeSourceFinalizer(o)
    BY <2>0, <2>4, HandoffFinalizerStep, Zenon DEF HandoffInv
  <2>5. QED
    BY <2>1, <2>2, <2>3, <2>4, Zenon DEF Next, ReconcilerStep
<1>4. QED
  BY <1>1, <1>2, <1>3, HandoffInit, PTL DEF Spec, ImplementsHandoff, Workload!Spec
=============================================================================
