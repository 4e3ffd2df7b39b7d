--------------------------- MODULE AdoptionProofs ---------------------------
(***************************************************************************)
(* Proofs about Adoption, for every bound and every set of lagging caches. *)
(***************************************************************************)
EXTENDS Adoption, TLAPS

\* The cached objects have the types of the objects.
LEMMA ViewType ==
  ASSUME TypeOK
  PROVE  /\ View("cr") \in CR \cup {None}
         /\ View("dep") \in Dep \cup {None}
         /\ View("svc") \in Svc \cup {None}
         /\ Live \in [cr : CR \cup {None}, dep : Dep \cup {None}, svc : Svc \cup {None},
                      ksvc : {"pending", "ready", "terminating", None}]
BY DEF TypeOK, View, Live

LEMMA InitType == Init => TypeOK
<1> SUFFICES ASSUME Init PROVE TypeOK
  OBVIOUS
<1>1. /\ dep \in Dep
      /\ svc \in Svc \cup {None} /\ ksvc = None /\ cr = None
  BY DEF Init, Dep
<1>2. want \in Specs \cup {None}
  BY DEF Init, Svc
<1>3. Live \in [cr : CR \cup {None}, dep : Dep \cup {None}, svc : Svc \cup {None},
                ksvc : {"pending", "ready", "terminating", None}]
  BY <1>1 DEF Live
<1>4. crs \in 0..MaxCRs /\ ops \in 0..MaxOps /\ faults \in 0..MaxFaults
  BY AdoptionAssumption DEF Init
<1>5. route \in BOOLEAN /\ pc = "idle" /\ base = None /\ mem = None /\ memDep = None
      /\ quiesced = None /\ seen = Live
  BY Zenon DEF Init
<1>6. QED
  BY <1>1, <1>2, <1>3, <1>4, <1>5 DEF TypeOK, PC

LEMMA PassType ==
  ASSUME TypeOK, Reconcile \/ getSource \/ awaitChildren \/ Crash
  PROVE  TypeOK'
<1> USE ViewType, AdoptionAssumption DEF passVars, ghosts
<1>1. CASE Reconcile
  BY <1>1 DEF Reconcile, TypeOK, PC
<1>2. CASE getSource
  BY <1>2 DEF getSource, TypeOK, PC
<1>3. CASE awaitChildren
  BY <1>3 DEF awaitChildren, Goto, TypeOK, PC
<1>4. CASE Crash
  BY <1>4 DEF Crash, Return, TypeOK, PC
<1>5. QED
  BY <1>1, <1>2, <1>3, <1>4

LEMMA AdoptType ==
  ASSUME TypeOK, NEW o \in Outcome,
         \/ ensureFinalizers(o) \/ swapService(o) \/ applyKSvc(o) \/ quiesceSource(o)
         \/ patchStatus(o)
  PROVE  TypeOK'
<1> USE ViewType, AdoptionAssumption DEF passVars, ghosts
<1>1. CASE ensureFinalizers(o)
  BY <1>1 DEF ensureFinalizers, Goto, Return, Spend, TypeOK, PC, CR
<1>2. CASE swapService(o)
  BY <1>2
     DEF swapService, snapshotAndDeleteService, ClassifyServiceForSwap, Spend,
              TypeOK, PC, CR, Svc
<1>3. CASE applyKSvc(o)
  BY <1>3 DEF applyKSvc, Goto, Spend, TypeOK, PC
<1>4. CASE quiesceSource(o)
  <2>1. mem \in CR /\ memDep \in Dep
    BY <1>4 DEF quiesceSource, TypeOK
  <2>2. mem' \in CR
    BY <1>4, <2>1 DEF quiesceSource, CR, Dep
  <2>3. dep' \in Dep \cup {None} /\ quiesced' \in Replicas \cup {None}
    BY <1>4 DEF quiesceSource, TypeOK, Dep, Replicas
  <2>4. faults' \in 0..MaxFaults
    BY <1>4 DEF quiesceSource, Spend, TypeOK
  <2>5. QED
    BY <1>4, <2>1, <2>2, <2>3, <2>4 DEF quiesceSource, TypeOK, PC
<1>5. CASE patchStatus(o)
  <2>1. mem \in CR /\ base \in CR
    BY <1>5 DEF patchStatus, TypeOK
  <2>2. cr' \in CR \cup {None}
    <3>1. CASE cr = None \/ ~Landed(o)
      BY <1>5, <3>1 DEF patchStatus, TypeOK
    <3>2. CASE cr # None /\ Landed(o)
      <4>1. PICK x \in Replicas \cup {None}, y \in Specs \cup {None} :
              cr' = [cr EXCEPT !.snapRep = x, !.snapSvc = y]
        <5>1. \A c \in CR : c.snapRep \in Replicas \cup {None} /\ c.snapSvc \in Specs \cup {None}
          BY DEF CR
        <5>2. cr \in CR
          BY <3>2 DEF TypeOK
        <5>3. QED
          BY <1>5, <2>1, <3>2, <5>1, <5>2, Zenon DEF patchStatus
      <4>2. cr \in CR
        BY <3>2 DEF TypeOK
      <4>3. QED
        BY <4>1, <4>2, Zenon DEF CR
    <3>3. QED
      BY <3>1, <3>2
  <2>3. faults' \in 0..MaxFaults
    BY <1>5 DEF patchStatus, Spend, TypeOK
  <2>4. QED
    BY <1>5, <2>2, <2>3 DEF patchStatus, Return, TypeOK, PC
<1>6. QED
  BY <1>1, <1>2, <1>3, <1>4, <1>5

\* Removing a finalizer, and with the last one the CR, keeps the types.
LEMMA RemoveType ==
  ASSUME TypeOK, NEW f, NEW next \in {"restoreDeployment", "patchStatus"},
         NEW o \in Outcome, pc # "idle", removeFinalizer(f, next, o)
  PROVE  TypeOK'
<1>1. mem \in CR
  BY DEF TypeOK
<1>2. cr' \in CR \cup {None} /\ mem' \in CR
  BY <1>1 DEF removeFinalizer, Stored, Goto, TypeOK, CR
<1>3. faults' \in 0..MaxFaults
  BY AdoptionAssumption DEF removeFinalizer, Spend, TypeOK
<1>4. pc' \in {"restoreDeployment", "patchStatus"} /\ UNCHANGED <<base, memDep>>
  BY DEF removeFinalizer, Goto
<1>5. QED
  BY <1>1, <1>2, <1>3, <1>4, AdoptionAssumption
     DEF removeFinalizer, TypeOK, PC, ghosts

LEMMA RestoreType ==
  ASSUME TypeOK, NEW o \in Outcome,
         \/ deleteKSvcIfPresent(o) \/ rebuildSnapshotService(o) \/ removeServiceFinalizer(o)
         \/ restoreDeploymentSpec(o) \/ removeSourceFinalizer(o)
  PROVE  TypeOK'
<1> USE ViewType, AdoptionAssumption DEF passVars, ghosts
<1>1. CASE deleteKSvcIfPresent(o)
  BY <1>1 DEF deleteKSvcIfPresent, Goto, Spend, TypeOK, PC
<1>2. CASE rebuildSnapshotService(o)
  <2>1. svc' \in Svc \cup {None}
    BY <1>2 DEF rebuildSnapshotService, TypeOK, CR, Svc
  <2>2. QED
    BY <1>2, <2>1 DEF rebuildSnapshotService, Goto, Spend, TypeOK, PC
<1>3. CASE removeServiceFinalizer(o)
  BY <1>3, RemoveType DEF removeServiceFinalizer
<1>4. CASE removeSourceFinalizer(o)
  BY <1>4, RemoveType DEF removeSourceFinalizer
<1>5. CASE restoreDeploymentSpec(o)
  <2>1. mem \in CR
    BY <1>5 DEF restoreDeploymentSpec, TypeOK
  <2>2. dep' \in Dep \cup {None} /\ quiesced' \in Replicas \cup {None}
    <3>1. CASE UNCHANGED <<dep, quiesced>>
      BY <3>1 DEF TypeOK
    <3>2. CASE ~UNCHANGED <<dep, quiesced>>
      <4>1. dep \in Dep /\ mem.snapRep \in Replicas
        BY <1>5, <2>1, <3>2 DEF restoreDeploymentSpec, TypeOK, CR
      <4>2. \E n \in Replicas, l \in BOOLEAN :
               dep' = [dep EXCEPT !.replicas = n, !.label = l]
        BY <1>5, <3>2, <4>1, ZenonT(30) DEF restoreDeploymentSpec, Dep
      <4>3. dep' \in Dep
        BY <4>1, <4>2, Zenon DEF Dep
      <4>4. quiesced' \in Replicas \cup {None}
        BY <1>5, <3>2 DEF restoreDeploymentSpec, TypeOK
      <4>5. QED
        BY <4>3, <4>4
    <3>3. QED
      BY <3>1, <3>2
  <2>3. /\ pc' \in {"removeSourceFinalizer", "patchStatus"}
        /\ UNCHANGED <<base, mem, memDep>>
    BY <1>5 DEF restoreDeploymentSpec, Goto
  <2>4. faults' \in 0..MaxFaults
    BY <1>5 DEF restoreDeploymentSpec, Spend, TypeOK
  <2>5. QED
    BY <1>5, <2>1, <2>2, <2>3, <2>4 DEF restoreDeploymentSpec, TypeOK, PC
<1>6. QED
  BY <1>1, <1>2, <1>3, <1>4, <1>5

LEMMA DeletedType ==
  ASSUME TypeOK
  PROVE  DeletedCR \in CR \cup {None}
BY Zenon DEF DeletedCR, Stored, TypeOK, CR

LEMMA NewCRType ==
  ASSUME TypeOK
  PROVE  NewCR(TRUE) \in CR /\ NewCR(FALSE) \in CR
<1>1. crs + 1 \in Nat
  BY AdoptionAssumption DEF TypeOK
<1>2. QED
  BY <1>1 DEF NewCR, CR

LEMMA EnvType ==
  ASSUME TypeOK, Watch \/ (\E k \in Lagging : Sync(k)) \/ Knative \/ User
  PROVE  TypeOK'
<1> USE AdoptionAssumption DEF passVars, ghosts
<1>1. CASE Watch
  <2>1. cr' \in CR \cup {None} /\ crs' \in 0..MaxCRs
    <3>1. CASE deleteIfWatcherOwned
      BY <3>1, DeletedType DEF deleteIfWatcherOwned, TypeOK
    <3>2. CASE applyAdoption /\ cr = None
      <4>1. cr' \in CR
        BY <3>2, NewCRType, Zenon DEF applyAdoption
      <4>2. crs' \in 0..MaxCRs
        BY <3>2 DEF applyAdoption, TypeOK
      <4>3. QED
        BY <4>1, <4>2
    <3>3. CASE applyAdoption /\ cr # None
      BY <3>3, ZenonT(40) DEF applyAdoption, TypeOK, CR
    <3>4. QED
      BY <1>1, <3>1, <3>2, <3>3 DEF Watch
  <2>2. QED
    BY <1>1, <2>1 DEF Watch, TypeOK, PC
<1>2. ASSUME NEW k \in Lagging, Sync(k) PROVE TypeOK'
  <2>1. seen' \in [cr : CR \cup {None}, dep : Dep \cup {None}, svc : Svc \cup {None},
                   ksvc : {"pending", "ready", "terminating", None}]
    BY <1>2, ViewType DEF Sync, TypeOK, Kinds, Live
  <2>2. QED
    BY <1>2, <2>1 DEF Sync, TypeOK, PC
<1>3. CASE Knative
  <2>1. /\ svc' \in Svc \cup {None}
        /\ ksvc' \in {"pending", "ready", "terminating", None}
        /\ route' \in BOOLEAN
    <3>1. CASE CreateRoute \/ CollectRoute
      BY <3>1, Zenon DEF CreateRoute, CollectRoute, TypeOK
    <3>2. CASE CreateDerivedService \/ CollectDerivedService
      BY <3>2 DEF CreateDerivedService, CollectDerivedService, TypeOK, Svc
    <3>3. CASE BecomeReady \/ BecomeUnready \/ FinishKSvcDeletion
      BY <3>3 DEF BecomeReady, BecomeUnready, FinishKSvcDeletion, TypeOK
    <3>4. QED
      BY <1>3, <3>1, <3>2, <3>3 DEF Knative
  <2>2. QED
    BY <1>3, <2>1 DEF Knative, TypeOK, PC
<1>4. CASE User
  <2>0. ops' \in 0..MaxOps
    BY <1>4 DEF User, TypeOK
  <2>1. CASE UserUpdatesDeployment \/ UserDeletesDeployment
    <3>1. dep' \in Dep \cup {None}
      <4>1. CASE UserUpdatesDeployment
        <5>1. dep \in Dep
          BY <4>1 DEF UserUpdatesDeployment, TypeOK
        <5>2. 1 \in Replicas
          BY AdoptionAssumption DEF Replicas
        <5>3. \/ dep' = [dep EXCEPT !.label = ~@]
              \/ \E n \in Replicas : dep' = [dep EXCEPT !.replicas = n]
              \/ dep' = [dep EXCEPT !.translatable = ~@]
              \/ dep' = [dep EXCEPT !.admissible = ~@]
          BY <4>1, <5>2, Zenon DEF UserUpdatesDeployment, Scaled
        <5>4. QED
          BY <5>1, <5>3, Zenon DEF Dep
      <4>2. CASE UserDeletesDeployment
        BY <4>2 DEF UserDeletesDeployment
      <4>3. QED
        BY <2>1, <4>1, <4>2
    <3>2. UNCHANGED <<cr, svc, ksvc, crs, want>> /\ quiesced' \in {quiesced, None}
      BY <2>1, Zenon DEF UserUpdatesDeployment, UserDeletesDeployment
    <3>3. QED
      BY <1>4, <2>0, <3>1, <3>2 DEF User, TypeOK, PC
  <2>2. CASE UserCreatesCR \/ UserDeletesCR
    <3>1. cr' \in CR \cup {None} /\ crs' \in 0..MaxCRs
      <4>1. cr' \in CR \cup {None}
        BY <2>2, DeletedType, NewCRType, Zenon DEF UserCreatesCR, UserDeletesCR
      <4>2. crs' = crs \/ (crs < MaxCRs /\ crs' = crs + 1)
        BY <2>2, Zenon DEF UserCreatesCR, UserDeletesCR
      <4>3. QED
        BY <4>1, <4>2 DEF TypeOK
    <3>2. UNCHANGED <<dep, svc, ksvc, want, quiesced>>
      BY <2>2, Zenon DEF UserCreatesCR, UserDeletesCR
    <3>3. QED
      BY <1>4, <2>0, <3>1, <3>2 DEF User, TypeOK, PC
  <2>3. CASE UserCreatesService \/ UserDeletesService
    <3>1. svc' \in Svc \cup {None} /\ want' \in Specs \cup {None}
      BY <2>3 DEF UserCreatesService, UserDeletesService, TypeOK, Svc
    <3>2. QED
      BY <1>4, <2>0, <2>3, <3>1
         DEF User, UserCreatesService, UserDeletesService, TypeOK, PC
  <2>4. CASE UserDeletesKSvc
    BY <1>4, <2>0, <2>4 DEF User, UserDeletesKSvc, TypeOK, PC
  <2>5. QED
    BY <1>4, <2>1, <2>2, <2>3, <2>4 DEF User
<1>5. QED
  BY <1>1, <1>2, <1>3, <1>4

LEMMA StepType == TypeOK /\ [Next]_vars => TypeOK'
<1> SUFFICES ASSUME TypeOK, [Next]_vars PROVE TypeOK'
  OBVIOUS
<1>1. CASE UNCHANGED vars
  BY <1>1 DEF vars, passVars, ghosts, TypeOK
<1>2. CASE Next
  BY <1>2, PassType, AdoptType, RestoreType, EnvType DEF Next, ReconcilerStep
<1>3. QED
  BY <1>1, <1>2

\* Every variable keeps its type, the memory of a pass included: no step of the
\* reconciler reads a CR or a Deployment it has not fetched.
THEOREM AdoptionTypeCorrect == Spec => []TypeOK
BY InitType, StepType, PTL DEF Spec

-----------------------------------------------------------------------------
(* What a pass may rely on is what its cached CR says about the stored one: *)
(* CacheInv.                                                               *)

CRView == View("cr")
Guarded(c) == c # None /\ c.fin = Fin

CacheInv ==
  /\ cr # None => cr.uid <= crs
  /\ CRView # None => CRView.uid <= crs
  /\ mem # None => mem.uid <= crs
  /\ CRView # None /\ ~CRView.deleting /\ CRView.fin = Fin => Guarded(cr)
  /\ CRView # None /\ CRView.deleting /\ cr # None /\ cr.uid = CRView.uid => cr.deleting

(* What every step but ensureFinalizers and removeFinalizer does to the CR: *)
(* nothing, a creation, a write that keeps the finalizers, or the removal   *)
(* of a CR that has none.                                                  *)
KeepsCR ==
  \/ cr' = cr /\ crs' = crs
  \/ /\ cr = None /\ cr' # None /\ crs' = crs + 1
     /\ cr'.uid = crs + 1 /\ ~cr'.deleting /\ cr'.fin = {}
  \/ /\ cr # None /\ cr' # None /\ crs' = crs
     /\ cr'.uid = cr.uid /\ cr'.fin = cr.fin
     /\ cr.deleting => cr'.deleting
     /\ cr'.deleting => cr.deleting \/ cr.fin # {}
  \/ cr # None /\ cr.fin = {} /\ cr' = None /\ crs' = crs

\* What every step but applyKSvc does to the KSvc.
CreatesNoKSvc ==
  /\ ksvc' \in {"pending", "ready"} => ksvc \in {"pending", "ready"}
  /\ ksvc = None => ksvc' = None

\* The cached CR stays, or is the newest one.
LEMMA CRViewStep ==
  ASSUME TypeOK, Next
  PROVE  CRView' = CRView \/ CRView' = cr'
<1>1. CASE "cr" \notin Lagging
  BY <1>1 DEF CRView, View, Live
<1>2. CASE "cr" \in Lagging
  <2>0. CRView = seen.cr /\ CRView' = seen'.cr
    BY <1>2 DEF CRView, View
  <2>1. CASE \E k \in Lagging : Sync(k)
    BY <2>0, <2>1, AdoptionAssumption DEF Sync, Live, TypeOK, Kinds
  <2>2. CASE Crash
    BY <2>0, <2>2 DEF Crash, Live
  <2>3. CASE ReconcilerStep
    BY <2>0, <2>3
       DEF ReconcilerStep, Reconcile, getSource, awaitChildren, ensureFinalizers,
         swapService, applyKSvc, quiesceSource, patchStatus, deleteKSvcIfPresent,
         rebuildSnapshotService, removeServiceFinalizer, restoreDeploymentSpec,
         removeSourceFinalizer, removeFinalizer
  <2>4. CASE Watch \/ Knative \/ User
    BY <2>0, <2>4 DEF Watch, Knative, User
  <2>5. QED
    BY <2>1, <2>2, <2>3, <2>4 DEF Next
<1>3. QED
  BY <1>1, <1>2

LEMMA CacheStep ==
  ASSUME TypeOK, TypeOK', CacheInv, KeepsCR, CRView' = CRView \/ CRView' = cr',
         mem' = None \/ mem' = CRView \/ (mem # None /\ mem' # None /\ mem'.uid = mem.uid)
  PROVE  CacheInv'
<1>1. /\ CRView \in CR \cup {None} /\ CRView' \in CR \cup {None}
      /\ cr \in CR \cup {None} /\ cr' \in CR \cup {None} /\ crs \in Nat
      /\ mem \in CR \cup {None} /\ mem' \in CR \cup {None}
  BY ViewType, AdoptionAssumption DEF TypeOK, CRView
<1>2. Fin # {}
  BY DEF Fin
<1>3. /\ cr' # None => cr'.uid <= crs'
      /\ CRView' # None => CRView'.uid <= crs'
      /\ mem' # None => mem'.uid <= crs'
  BY <1>1 DEF CacheInv, KeepsCR, CR
<1>4. CRView' # None /\ ~CRView'.deleting /\ CRView'.fin = Fin => Guarded(cr')
  BY <1>1, <1>2 DEF CacheInv, KeepsCR, Guarded
<1>5. CRView' # None /\ CRView'.deleting /\ cr' # None /\ cr'.uid = CRView'.uid
        => cr'.deleting
  BY <1>1 DEF CacheInv, KeepsCR, CR
<1>6. QED
  BY <1>3, <1>4, <1>5 DEF CacheInv, Guarded

LEMMA DeletedKeeps ==
  ASSUME TypeOK, cr' = DeletedCR, crs' = crs
  PROVE  KeepsCR
<1>1. CASE cr = None
  BY <1>1 DEF DeletedCR, KeepsCR
<1>2. CASE cr # None
  <2>1. cr \in CR
    BY <1>2 DEF TypeOK
  <2> DEFINE c == [cr EXCEPT !.deleting = TRUE]
  <2>2. c \in CR /\ c.uid = cr.uid /\ c.fin = cr.fin /\ c.deleting
    BY <2>1, Zenon DEF CR
  <2>3. cr' = IF cr.fin = {} THEN None ELSE c
    BY <1>2, <2>2 DEF DeletedCR, Stored
  <2>4. QED
    BY <1>2, <2>2, <2>3, AdoptionAssumption, Zenon DEF KeepsCR
<1>3. QED
  BY <1>1, <1>2

LEMMA CreatedKeeps ==
  ASSUME TypeOK, cr = None, crs' = crs + 1, cr' = NewCR(TRUE) \/ cr' = NewCR(FALSE)
  PROVE  KeepsCR
<1>1. cr' # None
  BY NewCRType, AdoptionAssumption, Zenon
<1>2. cr'.uid = crs + 1 /\ ~cr'.deleting /\ cr'.fin = {}
  BY DEF NewCR
<1>3. QED
  BY <1>1, <1>2 DEF KeepsCR

LEMMA EnvMoves ==
  ASSUME TypeOK, Watch \/ (\E k \in Lagging : Sync(k)) \/ Knative \/ User
  PROVE  KeepsCR /\ CreatesNoKSvc /\ UNCHANGED <<pc, mem>>
<1> USE AdoptionAssumption DEF passVars
<1>1. CASE Watch
  <2>1. CASE deleteIfWatcherOwned
    BY <1>1, <2>1, DeletedKeeps DEF deleteIfWatcherOwned, Watch, CreatesNoKSvc
  <2>2. CASE applyAdoption
    <3>1. KeepsCR
      <4>1. CASE cr = None
        BY <2>2, <4>1, CreatedKeeps, Zenon DEF applyAdoption
      <4>2. CASE cr # None
        <5>1. cr \in CR /\ cr' = [cr EXCEPT !.watcher = TRUE] /\ crs' = crs
          BY <2>2, <4>2, Zenon DEF applyAdoption, TypeOK
        <5>2. cr' \in CR /\ cr'.uid = cr.uid /\ cr'.fin = cr.fin /\ cr'.deleting = cr.deleting
          BY <5>1, Zenon DEF CR
        <5>3. QED
          BY <4>2, <5>1, <5>2, Zenon DEF KeepsCR
      <4>3. QED
        BY <4>1, <4>2
    <3>2. QED
      BY <1>1, <3>1 DEF Watch, CreatesNoKSvc
  <2>3. QED
    BY <1>1, <2>1, <2>2 DEF Watch
<1>2. CASE \E k \in Lagging : Sync(k)
  <2>1. UNCHANGED <<cr, crs, ksvc, pc, mem>>
    BY <1>2 DEF Sync
  <2>2. QED
    BY <2>1 DEF KeepsCR, CreatesNoKSvc
<1>3. CASE Knative
  <2>1. CreatesNoKSvc
    <3>1. CASE CreateRoute \/ CreateDerivedService \/ CollectRoute \/ CollectDerivedService
      BY <3>1 DEF CreateRoute, CreateDerivedService, CollectRoute, CollectDerivedService,
                  CreatesNoKSvc
    <3>2. CASE BecomeReady \/ BecomeUnready \/ FinishKSvcDeletion
      BY <3>2 DEF BecomeReady, BecomeUnready, FinishKSvcDeletion, CreatesNoKSvc
    <3>3. QED
      BY <1>3, <3>1, <3>2 DEF Knative
  <2>2. UNCHANGED <<cr, crs, pc, mem>>
    BY <1>3 DEF Knative
  <2>3. QED
    BY <2>1, <2>2 DEF KeepsCR
<1>4. CASE User
  <2>1. CASE UserDeletesCR
    BY <1>4, <2>1, DeletedKeeps DEF UserDeletesCR, User, CreatesNoKSvc
  <2>2. CASE UserCreatesCR
    <3>1. KeepsCR
      BY <2>2, CreatedKeeps, ZenonT(40) DEF UserCreatesCR
    <3>2. QED
      BY <1>4, <2>2, <3>1 DEF User, UserCreatesCR, CreatesNoKSvc
  <2>3. CASE UserUpdatesDeployment \/ UserDeletesDeployment \/ UserCreatesService
              \/ UserDeletesService \/ UserDeletesKSvc
    <3>1. cr' = cr /\ crs' = crs
      BY <2>3, Zenon
         DEF UserUpdatesDeployment, UserDeletesDeployment, UserCreatesService,
           UserDeletesService, UserDeletesKSvc
    <3>2. CreatesNoKSvc
      BY <2>3, Zenon
         DEF UserUpdatesDeployment, UserDeletesDeployment, UserCreatesService,
           UserDeletesService, UserDeletesKSvc, CreatesNoKSvc
    <3>3. QED
      BY <1>4, <3>1, <3>2 DEF User, KeepsCR
  <2>4. QED
    BY <1>4, <2>1, <2>2, <2>3 DEF User
<1>5. QED
  BY <1>1, <1>2, <1>3, <1>4
=============================================================================
