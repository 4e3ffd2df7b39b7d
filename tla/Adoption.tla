------------------------------ MODULE Adoption ------------------------------
(***************************************************************************)
(* The adoption of one Deployment: the KnativeAdoption reconciler with its *)
(* service swap, quiesce and restore chain, the DeploymentWatcher that     *)
(* creates and deletes the CR, and around them the API server's objects,   *)
(* the informer caches, Knative, the garbage collector and the user.       *)
(*                                                                         *)
(* The Deployment, the CR, the Knative Service (KSvc) and the core Service *)
(* share one name, as they do for every CR the watcher creates.  A step of *)
(* the reconciler is one write to the API server together with the cached  *)
(* reads just before it; everything else interleaves between the writes.   *)
(***************************************************************************)
EXTENDS Naturals

CONSTANTS
  MaxReplicas,  \* largest replica count of the Deployment
  Specs,        \* specs of Services the user may create
  Lagging,      \* the kinds of object whose informer cache may lag
  MaxCRs,       \* bound on the CRs created
  MaxOps,       \* bound on the actions of the user
  MaxFaults,    \* bound on crashes and failed API writes
  None

Kinds == {"cr", "dep", "svc", "ksvc"}
Fin == {"service", "source"}  \* restore-source-service, restore-source
Replicas == 0..MaxReplicas

\* KnativeAdoption: metadata, and the two snapshots of status.sourceSnapshot.
CR == [uid : Nat, deleting : BOOLEAN, fin : SUBSET Fin, watcher : BOOLEAN,
       snapRep : Replicas \cup {None}, snapSvc : Specs \cup {None}]

\* The source Deployment; translatable says whether Translate accepts it,
\* admissible whether the webhook of the CR does: the primary container is
\* clear and no HPA scales the Deployment.
Dep == [label : BOOLEAN, replicas : Replicas, translatable : BOOLEAN, admissible : BOOLEAN]

\* The core Service: plain (ClusterIP, no controller), refused (a type or a
\* controller the swapper refuses), derived (created by Knative for the KSvc),
\* rebuilt (created from the snapshot, with the managed-by annotation).
Svc == [kind : {"plain", "refused", "rebuilt"}, spec : Specs]
         \cup [kind : {"derived"}, spec : {None}]

ASSUME AdoptionAssumption ==
  /\ MaxReplicas \in Nat \ {0} /\ MaxCRs \in Nat /\ MaxOps \in Nat /\ MaxFaults \in Nat
  /\ Lagging \subseteq Kinds
  /\ None \notin Specs /\ None \notin Replicas
  /\ None \notin CR /\ None \notin Dep /\ None \notin Svc
  /\ None \notin {"pending", "ready", "terminating"}

IsDerived(s) == s # None /\ s.kind = "derived"

VARIABLES
  cr, dep, svc, ksvc,  \* the objects in the API server; None: absent
  route,     \* the KSvc's Route exists
  crs,       \* number of CRs created so far
  seen,      \* seen[k]: the cached object of a lagging kind
  pc,        \* where the pass of the reconciler is
  base,      \* the CR the status patch is computed against (original)
  mem,       \* the CR in memory (adoption)
  memDep,    \* the Deployment read by getSourceDeployment
  ops,       \* actions taken by the user
  faults,    \* crashes and failed writes so far
  want,      \* history: spec of the Service the user created and did not delete
  quiesced   \* history: replicas the operator replaced by 0, not restored yet

passVars == <<pc, base, mem, memDep>>
ghosts == <<want, quiesced>>
vars == <<cr, dep, svc, ksvc, route, crs, seen, passVars, ops, faults, ghosts>>

Live == [cr |-> cr, dep |-> dep, svc |-> svc, ksvc |-> ksvc]

\* A read through the manager's client: from the cache of that kind.
View(k) == IF k \in Lagging THEN seen[k] ELSE Live[k]

Init ==
  /\ cr = None
  /\ dep \in Dep
  /\ svc \in Svc \cup {None}
  /\ svc # None => svc.kind \in {"plain", "refused"}
  /\ ksvc = None
  /\ route = FALSE
  /\ crs = 0
  /\ seen = Live
  /\ pc = "idle"
  /\ base = None
  /\ mem = None
  /\ memDep = None
  /\ ops = 0
  /\ faults = 0
  /\ want = IF svc = None THEN None ELSE svc.spec
  /\ quiesced = None

-----------------------------------------------------------------------------
(* Outcomes of an API write: it succeeds, it fails, or it takes effect but  *)
(* the caller gets an error.                                               *)

Outcome == {"ok", "error", "lost"}
Landed(o) == o # "error"

Spend(o) ==
  /\ o # "ok" => faults < MaxFaults
  /\ faults' = IF o = "ok" THEN faults ELSE faults + 1

\* An API server write of a CR without finalizers that is being deleted
\* removes it.
Stored(c) == IF c.deleting /\ c.fin = {} THEN None ELSE c

NewCR(watcher) ==
  [uid |-> crs + 1, deleting |-> FALSE, fin |-> {}, watcher |-> watcher,
   snapRep |-> None, snapSvc |-> None]

\* KnativeAdoptionCustomValidator, which the API server asks about every create
\* and update of a CR and which reads the API server, not a cache.
validateSpec == dep # None /\ dep.admissible

ValidateUpdateCR(c) == c.deleting \/ validateSpec

\* Delete by name, without preconditions.
DeletedCR == IF cr = None THEN None ELSE Stored([cr EXCEPT !.deleting = TRUE])

Goto(l) == pc' = l /\ UNCHANGED <<base, mem, memDep>>
Return == pc' = "idle" /\ base' = None /\ mem' = None /\ memDep' = None

-----------------------------------------------------------------------------
(* KnativeAdoptionReconciler.Reconcile, outside deletion.                  *)

\* Reconcile reads the CR and branches on its deletionTimestamp.
Reconcile ==
  /\ pc = "idle"
  /\ View("cr") # None
  /\ base' = View("cr")
  /\ mem' = View("cr")
  /\ pc' = IF ~View("cr").deleting THEN "ensureFinalizers"
           ELSE IF "service" \in View("cr").fin THEN "deleteKSvc"
           ELSE IF "source" \in View("cr").fin THEN "restoreDeployment"
           ELSE "patchStatus"
  /\ UNCHANGED <<cr, dep, svc, ksvc, route, crs, seen, memDep, ops, faults, ghosts>>

\* Mutant of ensureFinalizers: the error of the patch is ignored.
ensureFinalizersIgnoresError(o) ==
  /\ pc = "ensureFinalizers"
  /\ cr' = IF cr = None \/ (cr.deleting /\ cr.fin # Fin) \/ ~Landed(o)
           THEN cr ELSE [cr EXCEPT !.fin = Fin]
  /\ Goto("getSource")
  /\ Spend(o)
  /\ UNCHANGED <<dep, svc, ksvc, route, crs, seen, ops, ghosts>>

\* One merge patch adds the missing finalizers, and its response replaces the
\* CR in memory.  The API server refuses new finalizers on a CR being deleted.
ensureFinalizers(o) ==
  /\ pc = "ensureFinalizers"
  /\ \/ /\ o = "ok"
        /\ mem.fin = Fin
        /\ Goto("getSource")
        /\ UNCHANGED cr
     \/ /\ mem.fin # Fin
        /\ IF cr = None \/ (cr.deleting /\ cr.fin # Fin) \/ ~ValidateUpdateCR(cr) \/ ~Landed(o)
           THEN UNCHANGED cr /\ Return
           ELSE /\ cr' = [cr EXCEPT !.fin = Fin]
                /\ IF o = "ok"
                   THEN pc' = "getSource" /\ mem' = cr' /\ base' = cr' /\ UNCHANGED memDep
                   ELSE Return
  /\ Spend(o)
  /\ UNCHANGED <<dep, svc, ksvc, route, crs, seen, ops, ghosts>>

\* getSourceDeployment, then Translate.
getSource ==
  /\ pc = "getSource"
  /\ memDep' = View("dep")
  /\ pc' = IF View("dep") # None /\ View("dep").translatable
           THEN "swapService" ELSE "patchStatus"
  /\ UNCHANGED <<cr, dep, svc, ksvc, route, crs, seen, base, mem, ops, faults, ghosts>>

\* Mutant of ClassifyServiceForSwap: a Service of Knative's is taken over.
ClassifyServiceForSwapTakesDerived(s) ==
  CASE s = None -> "SwapPass"
    [] s # None /\ s.kind = "rebuilt" -> "SwapPass"
    [] s # None /\ s.kind = "refused" -> "SwapRefused"
    [] s # None /\ s.kind \in {"plain", "derived"} -> "SwapTakenOver"

ClassifyServiceForSwap(s) ==
  CASE s = None -> "SwapPass"
    [] s # None /\ s.kind \in {"rebuilt", "derived"} -> "SwapPass"
    [] s # None /\ s.kind = "refused" -> "SwapRefused"
    [] s # None /\ s.kind = "plain" -> "SwapTakenOver"

\* Mutant of snapshotAndDeleteService: no snapshot.
snapshotAndDeleteServiceNoSnapshot(o) ==
  /\ svc' = IF Landed(o) THEN None ELSE svc
  /\ Spend(o)
  /\ UNCHANGED mem

\* The first Service taken over is snapshotted, in memory; then the Service is
\* deleted by name.
snapshotAndDeleteService(o) ==
  /\ mem' = IF mem.snapSvc = None THEN [mem EXCEPT !.snapSvc = View("svc").spec] ELSE mem
  /\ svc' = IF Landed(o) THEN None ELSE svc
  /\ Spend(o)

swapService(o) ==
  /\ pc = "swapService"
  /\ \/ /\ ClassifyServiceForSwap(View("svc")) = "SwapPass"
        /\ o = "ok"
        /\ pc' = "applyKSvc"
        /\ UNCHANGED <<svc, mem, faults>>
     \/ /\ ClassifyServiceForSwap(View("svc")) = "SwapRefused"
        /\ o = "ok"
        /\ pc' = "patchStatus"
        /\ UNCHANGED <<svc, mem, faults>>
     \/ /\ ClassifyServiceForSwap(View("svc")) = "SwapTakenOver"
        /\ pc' = "patchStatus"
        /\ snapshotAndDeleteService(o)
  /\ UNCHANGED <<cr, dep, ksvc, route, crs, seen, base, memDep, ops, ghosts>>

\* applyKnativeService: server-side apply creates the KSvc or leaves it.
applyKSvc(o) ==
  /\ pc = "applyKSvc"
  /\ ksvc' = IF Landed(o) /\ ksvc = None THEN "pending" ELSE ksvc
  /\ Goto(IF o = "ok" THEN "quiesceSource" ELSE "patchStatus")
  /\ Spend(o)
  /\ UNCHANGED <<cr, dep, svc, route, crs, seen, ops, ghosts>>

\* Mutant of knativeServiceReady: a KSvc that exists counts as Ready.
knativeServiceReadyOnceApplied(k) == {IF k = None THEN "False" ELSE "True"}

\* The possible answers: a KSvc that is being deleted keeps the Ready condition
\* Knative wrote last, and its deletionTimestamp is not looked at.
knativeServiceReady(k) ==
  IF k = "terminating" THEN {"True", "False"} ELSE {IF k = "ready" THEN "True" ELSE "False"}

\* Mutant of quiesceSource: no snapshot.
quiesceSourceNoSnapshot(o) ==
  /\ pc = "quiesceSource"
  /\ pc' = "patchStatus"
  /\ dep' = IF "True" \in knativeServiceReady(View("ksvc")) /\ dep # None /\ Landed(o)
            THEN [dep EXCEPT !.replicas = 0] ELSE dep
  /\ quiesced' = IF dep' # dep THEN dep.replicas ELSE quiesced
  /\ Spend(o)
  /\ UNCHANGED <<cr, svc, ksvc, route, crs, seen, base, mem, memDep, ops, want>>

\* The KSvc is read back; if it is Ready, quiesceSource snapshots the replicas
\* read by getSource, in memory, and applies replicas=0.
quiesceSource(o) ==
  /\ pc = "quiesceSource"
  /\ pc' = "patchStatus"
  /\ \/ /\ "False" \in knativeServiceReady(View("ksvc")) \/ memDep.replicas = 0
        /\ o = "ok"
        /\ UNCHANGED <<dep, mem, faults, quiesced>>
     \/ /\ "True" \in knativeServiceReady(View("ksvc"))
        /\ memDep.replicas # 0
        /\ mem' = IF mem.snapRep = None THEN [mem EXCEPT !.snapRep = memDep.replicas] ELSE mem
        /\ \/ /\ dep # None
              /\ Landed(o)
              /\ dep' = [dep EXCEPT !.replicas = 0]
              /\ quiesced' = IF dep.replicas # 0 THEN dep.replicas ELSE quiesced
           \/ /\ dep = None \/ ~Landed(o)
              /\ UNCHANGED <<dep, quiesced>>
        /\ Spend(o)
  /\ UNCHANGED <<cr, svc, ksvc, route, crs, seen, base, memDep, ops, want>>

\* Mutant of patchStatus: the whole status is written, not the difference.
patchStatusOverwrites(o) ==
  /\ pc = "patchStatus"
  /\ cr' = IF cr = None \/ ~Landed(o) THEN cr
           ELSE [cr EXCEPT !.snapRep = mem.snapRep, !.snapSvc = mem.snapSvc]
  /\ Return
  /\ Spend(o)
  /\ UNCHANGED <<dep, svc, ksvc, route, crs, seen, ops, ghosts>>

\* patchStatus: a merge patch, by name, of the status fields that differ from
\* the original.  Then Reconcile returns.
patchStatus(o) ==
  /\ pc = "patchStatus"
  /\ cr' = IF cr = None \/ ~Landed(o) THEN cr
           ELSE [cr EXCEPT
                   !.snapRep = IF mem.snapRep # base.snapRep THEN mem.snapRep ELSE @,
                   !.snapSvc = IF mem.snapSvc # base.snapSvc THEN mem.snapSvc ELSE @]
  /\ Return
  /\ Spend(o)
  /\ UNCHANGED <<dep, svc, ksvc, route, crs, seen, ops, ghosts>>

-----------------------------------------------------------------------------
(* handleDeletion: the restore chain.                                      *)

\* Mutant of deleteKSvcIfPresent: a KSvc that is not found is an error.
deleteKSvcIfPresentStrict(o) ==
  /\ pc = "deleteKSvc"
  /\ ksvc' = IF Landed(o) /\ ksvc # None THEN "terminating" ELSE ksvc
  /\ Goto(IF o = "ok" /\ ksvc # None THEN "awaitChildren" ELSE "patchStatus")
  /\ Spend(o)
  /\ UNCHANGED <<cr, dep, svc, route, crs, seen, ops, ghosts>>

deleteKSvcIfPresent(o) ==
  /\ pc = "deleteKSvc"
  /\ ksvc' = IF Landed(o) /\ ksvc # None THEN "terminating" ELSE ksvc
  /\ Goto(IF o = "ok" THEN "awaitChildren" ELSE "patchStatus")
  /\ Spend(o)
  /\ UNCHANGED <<cr, dep, svc, route, crs, seen, ops, ghosts>>

\* Mutant of isKSvcGone: a KSvc being deleted counts as gone.
isKSvcGoneOnceDeleted == View("ksvc") \in {None, "terminating"}

isKSvcGone == View("ksvc") = None
isDerivedServiceGone == ~IsDerived(View("svc"))

awaitChildren ==
  /\ pc = "awaitChildren"
  /\ Goto(IF isKSvcGone /\ isDerivedServiceGone THEN "rebuildService" ELSE "patchStatus")
  /\ UNCHANGED <<cr, dep, svc, ksvc, route, crs, seen, ops, faults, ghosts>>

\* Mutant of rebuildSnapshotService: a nil snapshot is not checked for.
rebuildSnapshotServiceNoNilCheck(o) ==
  /\ pc = "rebuildService"
  /\ svc' = IF svc = None /\ Landed(o)
            THEN [kind |-> "rebuilt", spec |-> mem.snapSvc] ELSE svc
  /\ Goto(IF o = "ok" THEN "removeServiceFinalizer" ELSE "patchStatus")
  /\ Spend(o)
  /\ UNCHANGED <<cr, dep, ksvc, route, crs, seen, ops, ghosts>>

\* Create; AlreadyExists counts as success.
rebuildSnapshotService(o) ==
  /\ pc = "rebuildService"
  /\ svc' = IF mem.snapSvc # None /\ svc = None /\ Landed(o)
            THEN [kind |-> "rebuilt", spec |-> mem.snapSvc] ELSE svc
  /\ Goto(IF o = "ok" THEN "removeServiceFinalizer" ELSE "patchStatus")
  /\ mem.snapSvc = None => o = "ok"
  /\ Spend(o)
  /\ UNCHANGED <<cr, dep, ksvc, route, crs, seen, ops, ghosts>>

\* Mutant of removeFinalizer: a patch without optimistic locking.
removeFinalizerUnlocked(f, next, o) ==
  /\ IF cr = None \/ ~Landed(o)
     THEN UNCHANGED cr /\ Goto("patchStatus")
     ELSE /\ cr' = Stored([cr EXCEPT !.fin = @ \ {f}])
          /\ pc' = next
          /\ mem' = [mem EXCEPT !.fin = @ \ {f}]
          /\ UNCHANGED <<base, memDep>>
  /\ Spend(o)
  /\ UNCHANGED <<dep, svc, ksvc, route, crs, seen, ops, ghosts>>

\* An Update, refused unless the CR is still the version in memory; its
\* response replaces the CR in memory.
removeFinalizer(f, next, o) ==
  /\ IF cr # mem \/ ~ValidateUpdateCR(mem) \/ ~Landed(o)
     THEN UNCHANGED cr /\ Goto("patchStatus")
     ELSE /\ cr' = Stored([cr EXCEPT !.fin = @ \ {f}])
          /\ IF o = "ok"
             THEN /\ pc' = next
                  /\ mem' = [mem EXCEPT !.fin = @ \ {f}]
                  /\ UNCHANGED <<base, memDep>>
             ELSE Goto("patchStatus")
  /\ Spend(o)
  /\ UNCHANGED <<dep, svc, ksvc, route, crs, seen, ops, ghosts>>

\* Mutant of removeServiceFinalizer: the restore of the source is skipped.
removeServiceFinalizerSkipsRestore(o) ==
  /\ pc = "removeServiceFinalizer"
  /\ removeFinalizer("service", "removeSourceFinalizer", o)

removeServiceFinalizer(o) ==
  /\ pc = "removeServiceFinalizer"
  /\ removeFinalizer("service",
       IF "source" \in mem.fin THEN "restoreDeployment" ELSE "patchStatus", o)

\* restoreDeploymentSpec.  Without a snapshot it returns at once.  The merge
\* patch carries only what differs from the cached Deployment.
restoreDeploymentSpec(o) ==
  LET d == View("dep")
      toPatch == /\ mem.snapRep # None
                 /\ d # None
                 /\ d.replicas # mem.snapRep \/ d.label IN
  /\ pc = "restoreDeployment"
  /\ \/ /\ ~toPatch
        /\ o = "ok"
        /\ Goto("removeSourceFinalizer")
        /\ UNCHANGED <<dep, quiesced>>
     \/ /\ toPatch
        /\ IF dep = None \/ ~Landed(o)
           THEN UNCHANGED <<dep, quiesced>>
           ELSE /\ dep' = [dep EXCEPT
                             !.replicas = IF d.replicas # mem.snapRep THEN mem.snapRep ELSE @,
                             !.label = IF d.label THEN FALSE ELSE @]
                /\ quiesced' = IF dep'.replicas # 0 THEN None ELSE quiesced
        /\ Goto(IF dep # None /\ o = "ok" THEN "removeSourceFinalizer" ELSE "patchStatus")
  /\ Spend(o)
  /\ UNCHANGED <<cr, svc, ksvc, route, crs, seen, ops, want>>

removeSourceFinalizer(o) ==
  /\ pc = "removeSourceFinalizer"
  /\ removeFinalizer("source", "patchStatus", o)

\* The operator process dies and restarts with fresh caches.
Crash ==
  /\ faults < MaxFaults
  /\ faults' = faults + 1
  /\ Return
  /\ seen' = Live
  /\ UNCHANGED <<cr, dep, svc, ksvc, route, crs, ops, ghosts>>

-----------------------------------------------------------------------------
(* DeploymentWatcher.                                                      *)

isAdoptionLabelEnabled(d) == d # None /\ d.label

deleteIfWatcherOwned ==
  /\ View("cr") # None /\ View("cr").watcher
  /\ cr' = DeletedCR
  /\ UNCHANGED crs

\* Server-side apply of a watcher-owned CR, unless a user-authored one exists.
applyAdoption ==
  /\ ~(View("cr") # None /\ ~View("cr").watcher)
  /\ \/ /\ cr = None
        /\ crs < MaxCRs
        /\ validateSpec
        /\ cr' = NewCR(TRUE)
        /\ crs' = crs + 1
     \/ /\ cr # None
        /\ ValidateUpdateCR(cr)
        /\ cr' = [cr EXCEPT !.watcher = TRUE]
        /\ UNCHANGED crs

Watch ==
  /\ \/ /\ ~isAdoptionLabelEnabled(View("dep"))
        /\ deleteIfWatcherOwned
     \/ /\ isAdoptionLabelEnabled(View("dep"))
        /\ applyAdoption
  /\ UNCHANGED <<dep, svc, ksvc, route, seen, passVars, ops, faults, ghosts>>

\* An informer delivers the newest version of a lagging kind.
Sync(k) ==
  /\ seen[k] # Live[k]
  /\ seen' = [seen EXCEPT ![k] = Live[k]]
  /\ UNCHANGED <<cr, dep, svc, ksvc, route, crs, passVars, ops, faults, ghosts>>

-----------------------------------------------------------------------------
(* Knative and the garbage collector (external).                           *)

CreateRoute ==
  /\ ksvc \in {"pending", "ready"}
  /\ ~route
  /\ route' = TRUE
  /\ UNCHANGED <<svc, ksvc>>

CreateDerivedService ==
  /\ route
  /\ svc = None
  /\ svc' = [kind |-> "derived", spec |-> None]
  /\ UNCHANGED <<ksvc, route>>

BecomeReady ==
  /\ ksvc = "pending"
  /\ route
  /\ IsDerived(svc)
  /\ ksvc' = "ready"
  /\ UNCHANGED <<svc, route>>

BecomeUnready ==
  /\ ksvc = "ready"
  /\ ~IsDerived(svc)
  /\ ksvc' = "pending"
  /\ UNCHANGED <<svc, route>>

FinishKSvcDeletion ==
  /\ ksvc = "terminating"
  /\ ksvc' = None
  /\ UNCHANGED <<svc, route>>

CollectRoute ==
  /\ route
  /\ ksvc = None
  /\ route' = FALSE
  /\ UNCHANGED <<svc, ksvc>>

CollectDerivedService ==
  /\ ~route
  /\ IsDerived(svc)
  /\ svc' = None
  /\ UNCHANGED <<ksvc, route>>

Knative ==
  /\ \/ CreateRoute \/ CreateDerivedService \/ BecomeReady \/ BecomeUnready
     \/ FinishKSvcDeletion \/ CollectRoute \/ CollectDerivedService
  /\ UNCHANGED <<cr, dep, crs, seen, passVars, ops, faults, ghosts>>

-----------------------------------------------------------------------------
(* The user.                                                               *)

\* DeploymentCustomValidator.ValidateUpdate, for a client other than the
\* operator; declares says whether the client owns spec.replicas afterwards.
ValidateUpdate(old, new, declares) ==
  ~(new.label /\ old.replicas = 0 /\ new.replicas > 0 /\ declares)

\* DeploymentScaleValidator.Handle, for a write of /scale.
Handle(n) == ~(dep.replicas = 0 /\ n > 0 /\ dep.label)

Scaled(n) == [dep EXCEPT !.replicas = n]

\* A client that drops spec.replicas from what it applies no longer owns it,
\* and the API server fills in 1.
UserUpdatesDeployment ==
  /\ dep # None
  /\ \/ dep' = [dep EXCEPT !.label = ~@] /\ ValidateUpdate(dep, dep', FALSE)
     \/ dep' = [dep EXCEPT !.translatable = ~@] /\ ValidateUpdate(dep, dep', FALSE)
     \/ dep' = [dep EXCEPT !.admissible = ~@] /\ ValidateUpdate(dep, dep', FALSE)
     \/ dep' = Scaled(1) /\ ValidateUpdate(dep, dep', FALSE)
     \/ \E n \in Replicas \ {dep.replicas} :
          dep' = Scaled(n) /\ (ValidateUpdate(dep, dep', TRUE) \/ Handle(n))
  /\ quiesced' = IF dep'.replicas # 0 THEN None ELSE quiesced
  /\ UNCHANGED <<cr, svc, ksvc, crs, want>>

UserDeletesDeployment ==
  /\ dep # None
  /\ dep' = None
  /\ quiesced' = None
  /\ UNCHANGED <<cr, svc, ksvc, crs, want>>

UserCreatesCR ==
  /\ cr = None
  /\ crs < MaxCRs
  /\ validateSpec
  /\ cr' = NewCR(FALSE)
  /\ crs' = crs + 1
  /\ UNCHANGED <<dep, svc, ksvc, ghosts>>

UserDeletesCR ==
  /\ cr # None /\ ~cr.deleting
  /\ cr' = DeletedCR
  /\ UNCHANGED <<dep, svc, ksvc, crs, ghosts>>

UserCreatesService ==
  /\ svc = None
  /\ svc' \in [kind : {"plain", "refused"}, spec : Specs]
  /\ want' = svc'.spec
  /\ UNCHANGED <<cr, dep, ksvc, crs, quiesced>>

UserDeletesService ==
  /\ svc # None
  /\ svc' = None
  /\ want' = IF IsDerived(svc) THEN want ELSE None
  /\ UNCHANGED <<cr, dep, ksvc, crs, quiesced>>

UserDeletesKSvc ==
  /\ ksvc \in {"pending", "ready"}
  /\ ksvc' = "terminating"
  /\ UNCHANGED <<cr, dep, svc, crs, ghosts>>

User ==
  /\ ops < MaxOps
  /\ ops' = ops + 1
  /\ \/ UserUpdatesDeployment \/ UserDeletesDeployment \/ UserCreatesCR
     \/ UserDeletesCR \/ UserCreatesService \/ UserDeletesService
     \/ UserDeletesKSvc
  /\ UNCHANGED <<route, seen, passVars, faults>>

-----------------------------------------------------------------------------

\* A step of the pass in progress, or the start of one.
ReconcilerStep ==
  \/ Reconcile \/ getSource \/ awaitChildren
  \/ \E o \in Outcome :
       \/ ensureFinalizers(o) \/ swapService(o) \/ applyKSvc(o) \/ quiesceSource(o)
       \/ patchStatus(o) \/ deleteKSvcIfPresent(o) \/ rebuildSnapshotService(o)
       \/ removeServiceFinalizer(o) \/ restoreDeploymentSpec(o)
       \/ removeSourceFinalizer(o)

Next ==
  \/ ReconcilerStep \/ Crash \/ Watch
  \/ \E k \in Lagging : Sync(k)
  \/ Knative \/ User

Spec == Init /\ [][Next]_vars

\* controller-runtime runs a pass for every event, error and RequeueAfter,
\* informers catch up, and Knative and the garbage collector do their work.
\* Nothing obliges the user to act, and nothing has to fail.
Fairness ==
  /\ WF_vars(ReconcilerStep) /\ WF_vars(Watch)
  /\ \A k \in Lagging : WF_vars(Sync(k))
  /\ WF_vars(CreateRoute /\ Knative) /\ WF_vars(CreateDerivedService /\ Knative)
  /\ WF_vars(BecomeReady /\ Knative) /\ WF_vars(FinishKSvcDeletion /\ Knative)
  /\ WF_vars(CollectRoute /\ Knative) /\ WF_vars(CollectDerivedService /\ Knative)

FairSpec == Spec /\ Fairness

-----------------------------------------------------------------------------
(* Properties.                                                             *)

PC == {"idle", "ensureFinalizers", "getSource", "swapService", "applyKSvc",
       "quiesceSource", "patchStatus", "deleteKSvc", "awaitChildren",
       "rebuildService", "removeServiceFinalizer", "restoreDeployment",
       "removeSourceFinalizer"}

\* Every variable has its type.
TypeOK ==
  /\ cr \in CR \cup {None}
  /\ dep \in Dep \cup {None}
  /\ svc \in Svc \cup {None}
  /\ ksvc \in {"pending", "ready", "terminating", None}
  /\ route \in BOOLEAN
  /\ crs \in 0..MaxCRs
  /\ seen \in [cr : CR \cup {None}, dep : Dep \cup {None}, svc : Svc \cup {None},
               ksvc : {"pending", "ready", "terminating", None}]
  /\ pc \in PC
  /\ base \in CR \cup {None}
  /\ mem \in CR \cup {None}
  /\ pc # "idle" => base # None /\ mem # None
  /\ memDep \in Dep \cup {None}
  /\ pc \in {"swapService", "applyKSvc", "quiesceSource"} => memDep # None
  /\ ops \in 0..MaxOps
  /\ faults \in 0..MaxFaults
  /\ want \in Specs \cup {None}
  /\ quiesced \in Replicas \cup {None}

\* A KSvc that has not been deleted has a CR that holds both finalizers, at
\* every moment: whatever the caches show and wherever a pass is cut short,
\* the restore chain still has to come for it.
KSvcHasGuardian ==
  ksvc \in {"pending", "ready"} => cr # None /\ cr.fin = Fin

\* "Deployment last": the operator scales the source up only when the KSvc is
\* gone, so the two never serve together because of a release.
DeploymentLast ==
  [][ops' = ops /\ dep # None /\ dep' # None /\ dep'.replicas > dep.replicas
       => ksvc = None]_vars

ServiceHeld ==
  \/ svc # None /\ ~IsDerived(svc) /\ svc.spec = want
  \/ cr # None /\ cr.snapSvc = want
  \/ cr # None /\ mem # None /\ mem.snapSvc = want /\ base.snapSvc # want

ReplicasHeld ==
  \/ cr # None /\ cr.snapRep # None
  \/ cr # None /\ mem # None /\ mem.snapRep # None /\ base.snapRep = None

Releases == cr # None /\ cr' = None

\* Whatever the caches show and whatever fails, the operator deletes a Service only
\* under a CR that holds both finalizers and has a snapshot of a Service, or whose
\* pass is about to store one; and a stored snapshot, on which the release relies,
\* is never erased again, by a pass that read an older version of the CR either.
TakenServiceRemembered ==
  [][/\ svc # None /\ ~IsDerived(svc) /\ svc' = None /\ ops' = ops =>
          /\ cr # None /\ cr.fin = Fin
          /\ cr.snapSvc # None \/ (mem'.snapSvc # None /\ base'.snapSvc = None)
     /\ cr # None /\ cr' # None /\ cr.snapSvc # None => cr'.snapSvc # None]_vars

\* From the moment the user's Service exists until the CR is released (or the
\* user removes or replaces the Service), its spec is in the cluster, in the
\* CR's snapshot or in the memory of the pass that is about to store it.
ServiceHeldUntilRelease ==
  [][want # None /\ want' = want /\ ServiceHeld => ServiceHeld' \/ Releases]_vars

\* As long as the source is at 0 because the operator put it there, the CR or
\* the pass about to store it knows a replica count to go back to.
ReplicasHeldUntilRelease ==
  [][quiesced' # None => ReplicasHeld' \/ Releases]_vars

\* A release that removes the CR leaves no Deployment at the 0 the operator
\* wrote: the snapshotted count has been written back.
ReleaseRestoresReplicas ==
  [][Releases => quiesced = None]_vars

\* A CR that is being deleted is eventually gone.
ReleaseCompletes == cr # None /\ cr.deleting ~> cr = None

Adoptable ==
  /\ cr # None /\ ~cr.deleting
  /\ dep # None /\ dep.translatable /\ dep.admissible
  /\ ~(svc # None /\ svc.kind = "refused")

\* An adoptable workload gets a Ready KSvc and a source scaled to 0, unless it
\* stops being adoptable or finds a Service rebuilt by an earlier release.
AdoptionCompletes ==
  Adoptable ~> \/ ksvc = "ready" /\ dep # None /\ dep.replicas = 0
               \/ ~Adoptable
               \/ svc # None /\ svc.kind = "rebuilt"
=============================================================================
