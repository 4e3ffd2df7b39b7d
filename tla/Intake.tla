------------------------------- MODULE Intake -------------------------------
(***************************************************************************)
(* The way of a labelled Deployment into its Knative Service (KSvc).  The  *)
(* DeploymentWatcher projects the annotations into the spec of the CR, the *)
(* admission webhook checks that spec against the Deployment, and passes   *)
(* of the reconciler translate Deployment and CR into the KSvc.  Nothing   *)
(* polls: a pass follows an event of an informer, an error or a            *)
(* RequeueAfter, and both controllers read caches that lag.                *)
(*                                                                         *)
(* Finalizers, the Service swap, traffic, quiescing and the guard's rounds *)
(* are in the other modules; an error in one of the stages between the     *)
(* translation and the apply is a failed apply here.                       *)
(***************************************************************************)
EXTENDS Guard, Integers, Sequences

CONSTANTS
  Templates,    \* pod templates the user may give the Deployment
  Annotations,  \* annotations the user may give it: functions from keys to texts
  MaxOps,       \* bound on the edits of the user
  MaxFaults     \* bound on crashes and failed API calls

\* The annotations with a number: those that set a pointer, and those that set
\* a plain int32, for which 0 means unset.
Pointers == {"min-scale", "max-scale", "target-concurrency", "scaledown-port"}
Plain == {"scaledown-interval-seconds", "scaledown-timeout-seconds", "scaledown-failure-threshold"}

\* What of a pod template the controllers look at.  host: it asks for the
\* network, the processes or the IPC of the node, or for one of its ports.  A text
\* is a name; the empty one is "empty".
Volume == [name : STRING, source : STRING]
Env == [name : STRING, from : {"value", "configMap", "secret", "fieldRef", "resourceFieldRef"}]
Port == [number : Nat, name : STRING, protocol : STRING, host : BOOLEAN]
Container == [name : STRING, ports : Seq(Port), env : SUBSET Env, mounts : SUBSET STRING]
Template == [host : BOOLEAN, containers : Seq(Container), volumes : SUBSET Volume]

\* The texts of the annotations, and that of an absent one.
Texts == {"empty"} \cup UNION {{ann[k] : k \in DOMAIN ann} : ann \in Annotations}

\* What a stored CR holds: a spec that passed the schema, whether the
\* finalizers are set, and TranslationDegraded.
CRSpec ==
  [mode : {"serving", "eventing"}, primary : Texts, broker : Texts,
   path : Texts \cup {"/scaledownz"},
   pointers : [Pointers -> Nat \cup {None}], plain : [Plain -> Nat]]

CR == [spec : CRSpec, fin : BOOLEAN, refused : BOOLEAN]

\* Kubernetes refuses a pod template without containers and one with two
\* containers of one name.
ASSUME IntakeAssumption ==
  /\ Templates \subseteq Template
  /\ \A t \in Templates :
       /\ Len(t.containers) > 0
       /\ \A i, j \in DOMAIN t.containers :
            t.containers[i].name = t.containers[j].name => i = j
  /\ None \notin Int /\ None \notin Container /\ None \notin CR
  /\ MaxOps \in Nat /\ MaxFaults \in Nat

VARIABLES
  dep,     \* the Deployment: template and annotations
  hpa,     \* a HorizontalPodAutoscaler scales the Deployment
  cr,      \* the CR: spec, finalizers set, TranslationDegraded; None: absent
  ksvc,    \* the KSvc; None: absent
  seen,    \* the cached Deployment and CR
  queue,   \* the controllers that have a request queued
  pc,      \* where the pass of the reconciler is
  base,    \* the TranslationDegraded the status patch is computed against
  mem,     \* the CR in memory
  ops, faults

passVars == <<pc, base, mem>>
vars == <<dep, hpa, cr, ksvc, seen, queue, passVars, ops, faults>>

Init ==
  /\ dep \in [template : Templates, ann : Annotations]
  /\ hpa \in BOOLEAN
  /\ cr = None /\ ksvc = None
  /\ seen = [dep |-> dep, cr |-> None]
  /\ queue = {"watcher"}
  /\ pc = "idle" /\ base = FALSE /\ mem = None
  /\ ops = 0 /\ faults = 0

-----------------------------------------------------------------------------
(* The projector.                                                          *)

\* What ParseInt makes of a text; any other text, a number that does not fit
\* included, is an error.
ParseInt(text) ==
  CASE text = "minus" -> -1 [] text = "zero" -> 0 [] text = "one" -> 1
    [] text = "two" -> 2 [] text = "large" -> 65536 [] OTHER -> None

Text(ann, k) == IF k \in DOMAIN ann THEN ann[k] ELSE "empty"

parseInt32(ann, k) == IF Text(ann, k) = "empty" THEN None ELSE ParseInt(Text(ann, k))

FromDeployment(ann) ==
  [mode |-> IF Text(ann, "mode") = "empty" THEN "serving" ELSE Text(ann, "mode"),
   primary |-> Text(ann, "primary-container"),
   broker |-> Text(ann, "eventing-broker"),
   path |-> Text(ann, "scaledown-path"),
   pointers |-> [k \in Pointers |-> parseInt32(ann, k)],
   plain |-> [k \in Plain |-> IF parseInt32(ann, k) = None THEN 0 ELSE parseInt32(ann, k)]]

-----------------------------------------------------------------------------
(* What the API server makes of a CR.                                      *)

\* The objects of a spec that are serialised: autoscaling and scaleDownProbe are
\* left out when nothing in them is set.
Objects(s) ==
  (IF \E k \in Pointers \ {"scaledown-port"} : s.pointers[k] # None THEN {"autoscaling"} ELSE {})
    \cup (IF \/ s.path # "empty" \/ s.pointers["scaledown-port"] # None
             \/ \E k \in Plain : s.plain[k] # 0
          THEN {"scaleDownProbe"} ELSE {})

ProbeDefault(k) ==
  CASE k = "scaledown-interval-seconds" -> 30
    [] k = "scaledown-timeout-seconds" -> 2
    [] k = "scaledown-failure-threshold" -> 20

\* Mutant of Defaulted: minScale has no default.
DefaultedProbeOnly(s, objects) ==
  IF "scaleDownProbe" \in objects
  THEN [s EXCEPT !.path = IF s.path = "empty" THEN "/scaledownz" ELSE s.path,
                 !.plain = [k \in Plain |-> IF s.plain[k] = 0 THEN ProbeDefault(k) ELSE s.plain[k]]]
  ELSE s

\* The defaults of the schema are inside the two objects, and the objects have
\* none: what is not there is not filled in.  A plain 0 is not serialised.
Defaulted(s, objects) ==
  [s EXCEPT
     !.path = IF "scaleDownProbe" \in objects /\ s.path = "empty" THEN "/scaledownz" ELSE s.path,
     !.pointers = [s.pointers EXCEPT !["min-scale"] =
       IF "autoscaling" \in objects /\ s.pointers["min-scale"] = None THEN 0
       ELSE s.pointers["min-scale"]],
     !.plain = [k \in Plain |->
       IF "scaleDownProbe" \in objects /\ s.plain[k] = 0 THEN ProbeDefault(k) ELSE s.plain[k]]]

Minimum(k) == IF k \in {"min-scale", "max-scale"} THEN 0 ELSE 1

\* The enum and the ranges of the schema.
Schema(s) ==
  /\ s.mode \in {"serving", "eventing"}
  /\ \A k \in Pointers : s.pointers[k] # None => s.pointers[k] >= Minimum(k)
  /\ s.pointers["scaledown-port"] # None => s.pointers["scaledown-port"] <= 65535
  /\ \A k \in Plain : s.plain[k] # 0 => s.plain[k] >= Minimum(k)

checkEventing(s) == s.mode = "eventing" => s.broker \notin {"empty", "blank"}

\* Mutant of checkPrimaryContainer: several containers need no choice.
checkPrimaryContainerLax(s, cs) == s.primary # "empty" => \E i \in DOMAIN cs : cs[i].name = s.primary

checkPrimaryContainer(s, cs) ==
  IF s.primary # "empty" THEN \E i \in DOMAIN cs : cs[i].name = s.primary ELSE Len(cs) <= 1

\* validateSpec reads the API server, not a cache.  The keys of the watcher's CR
\* are not reserved, and its source exists.
validateSpec(s) == checkEventing(s) /\ checkPrimaryContainer(s, dep.template.containers) /\ ~hpa

Admitted(s) == Schema(s) /\ validateSpec(s)

-----------------------------------------------------------------------------
(* The translator.                                                         *)

guardPodSpec(t) ==
  /\ ~t.host
  /\ \A i \in DOMAIN t.containers : LET ports == t.containers[i].ports IN
       \A n \in DOMAIN ports : ~ports[n].host

\* None: the choice is ambiguous or there is no such container.
pickPrimaryContainer(t, s) ==
  LET cs == t.containers IN
  IF s.primary # "empty"
  THEN IF \E i \in DOMAIN cs : cs[i].name = s.primary
       THEN cs[CHOOSE i \in DOMAIN cs : cs[i].name = s.primary] ELSE None
  ELSE IF Len(cs) > 1 THEN None ELSE cs[1]

pickUserPort(c) == Len(c.ports) # 0 /\ c.ports[1].protocol \in {"empty", "TCP"}

\* Mutant of sanitizePorts: the name stays.
sanitizePortsKeepsName(ports) == <<[ports[1] EXCEPT !.host = FALSE]>>

\* The first port only; its name and its host port are cleared.
sanitizePorts(ports) == <<[ports[1] EXCEPT !.name = "empty", !.host = FALSE]>>

\* A variable with a reference to a field of the pod is dropped.
sanitizeEnv(env) == {e \in env : e.from \notin {"fieldRef", "resourceFieldRef"}}

sanitizeVolumes(volumes) ==
  {v \in volumes : v.source \in {"configMap", "secret", "emptyDir", "projected", "downwardAPI"}}

\* Lifecycle, devices and terminal settings are dropped; mounts are copied.
sanitizeContainer(c) ==
  [name |-> c.name, ports |-> sanitizePorts(c.ports), env |-> sanitizeEnv(c.env), mounts |-> c.mounts]

\* Before a round of the guard has refused.
buildKPAAnnotations(s) ==
  [min |-> EffectiveMinScale(s.pointers["min-scale"], None),
   max |-> s.pointers["max-scale"], target |-> s.pointers["target-concurrency"]]

\* None: the translation is refused.
Translate(t, s) ==
  LET c == pickPrimaryContainer(t, s) IN
  IF ~guardPodSpec(t) \/ c = None THEN None
  ELSE IF ~pickUserPort(c) THEN None
  ELSE [container |-> sanitizeContainer(c), volumes |-> sanitizeVolumes(t.volumes),
        scale |-> buildKPAAnnotations(s)]

\* Knative refuses a KSvc with a mount of a volume it does not declare.
MountsDeclared(k) == \A m \in k.container.mounts : \E v \in k.volumes : v.name = m

-----------------------------------------------------------------------------
(* The settings of the guard.                                              *)

\* Mutant of defaultGuard: the copy of a default has drifted.
defaultGuardDrifted(k) == IF k = "scaledown-failure-threshold" THEN 2 ELSE ProbeDefault(k)

\* The constants of the guard repeat the defaults of the schema.
defaultGuard(k) ==
  CASE k = "scaledown-interval-seconds" -> 30
    [] k = "scaledown-timeout-seconds" -> 2
    [] k = "scaledown-failure-threshold" -> 20

guardConfig(s) ==
  [path |-> IF s.path = "empty" THEN "/scaledownz" ELSE s.path,
   plain |-> [k \in Plain |-> IF s.plain[k] <= 0 THEN defaultGuard(k) ELSE s.plain[k]]]

-----------------------------------------------------------------------------
(* The controllers.                                                        *)

Fault == faults < MaxFaults /\ faults' = faults + 1

\* What the API server may store for an applied spec.  No one owns the defaults
\* an earlier apply left in an object, so that the object may stay.
Stored(f) ==
  {Defaulted(f, Objects(f) \cup kept) :
     kept \in SUBSET (IF cr = None THEN {} ELSE Objects(cr.spec))}

\* DeploymentWatcher.Reconcile on a labelled Deployment: server-side apply of
\* the CR.  A refusal is an error, and the request is queued again.
applyAdoption ==
  /\ "watcher" \in queue
  /\ \/ \E s \in Stored(FromDeployment(seen.dep.ann)) :
          /\ IF Admitted(s)
             THEN /\ cr' = IF cr = None THEN [spec |-> s, fin |-> FALSE, refused |-> FALSE]
                           ELSE [cr EXCEPT !.spec = s]
                  /\ queue' = queue \ {"watcher"}
             ELSE UNCHANGED <<cr, queue>>
          /\ UNCHANGED faults
     \/ Fault /\ UNCHANGED <<cr, queue>>
  /\ UNCHANGED <<dep, hpa, ksvc, seen, passVars, ops>>

Reconcile ==
  /\ pc = "idle" /\ "adoption" \in queue
  /\ queue' = queue \ {"adoption"}
  /\ \/ seen.cr = None /\ UNCHANGED passVars
     \/ /\ seen.cr # None
        /\ pc' = "ensureFinalizers" /\ mem' = seen.cr /\ UNCHANGED base
  /\ UNCHANGED <<dep, hpa, cr, ksvc, seen, ops, faults>>

\* The pass ends with an error and is queued again.
Retry ==
  /\ queue' = queue \cup {"adoption"}
  /\ pc' = "idle" /\ base' = FALSE /\ mem' = None

\* The patch goes through the webhook; its response replaces the CR in memory.
ensureFinalizers ==
  /\ pc = "ensureFinalizers"
  /\ \/ /\ mem.fin
        /\ pc' = "translate" /\ base' = mem.refused
        /\ UNCHANGED <<cr, queue, mem, faults>>
     \/ /\ ~mem.fin /\ validateSpec(cr.spec)
        /\ cr' = [cr EXCEPT !.fin = TRUE]
        /\ pc' = "translate" /\ base' = cr'.refused /\ mem' = cr'
        /\ UNCHANGED <<queue, faults>>
     \/ ~mem.fin /\ ~validateSpec(cr.spec) /\ Retry /\ UNCHANGED <<cr, faults>>
     \/ ~mem.fin /\ Fault /\ Retry /\ UNCHANGED cr
  /\ UNCHANGED <<dep, hpa, ksvc, seen, ops>>

\* TranslationDegraded goes once the translation is accepted.
removeCondition(m) == [m EXCEPT !.refused = FALSE]

\* An error, an event of the KSvc and the interval of the guard queue a pass.
applyKnativeService(k) ==
  \/ /\ MountsDeclared(k)
     /\ ksvc' = k
     /\ queue' = IF k # ksvc \/ guardEnabled(mem.spec.pointers["min-scale"])
                 THEN queue \cup {"adoption"} ELSE queue
     /\ UNCHANGED faults
  \/ /\ IF MountsDeclared(k) THEN Fault ELSE UNCHANGED faults
     /\ queue' = queue \cup {"adoption"}
     /\ UNCHANGED ksvc

\* A refused translation queues nothing and relies on the watches.
reconcileAdoption ==
  /\ pc = "translate" /\ pc' = "patchStatus"
  /\ LET k == Translate(seen.dep.template, mem.spec) IN
     \/ /\ k = None
        /\ mem' = [mem EXCEPT !.refused = TRUE]
        /\ UNCHANGED <<ksvc, queue, faults>>
     \/ k # None /\ mem' = removeCondition(mem) /\ applyKnativeService(k)
  /\ UNCHANGED <<dep, hpa, cr, seen, base, ops>>

\* Mutant of patchStatus: the base is no copy of its own, so that nothing differs.
patchStatusAliased ==
  /\ pc = "patchStatus"
  /\ pc' = "idle" /\ base' = FALSE /\ mem' = None
  /\ UNCHANGED <<dep, hpa, cr, ksvc, seen, queue, ops, faults>>

\* Only what differs from the base is sent.
patchStatus ==
  /\ pc = "patchStatus"
  /\ \/ /\ cr' = IF mem.refused # base THEN [cr EXCEPT !.refused = mem.refused] ELSE cr
        /\ pc' = "idle" /\ base' = FALSE /\ mem' = None
        /\ UNCHANGED <<queue, faults>>
     \/ mem.refused # base /\ Fault /\ Retry /\ UNCHANGED cr
  /\ UNCHANGED <<dep, hpa, ksvc, seen, ops>>

-----------------------------------------------------------------------------
(* The caches and the user.                                                *)

\* Mutant of mapDeploymentToAdoptions: no adoption is found.
mapDeploymentToAdoptionsNone(c) == {}

\* The requests for an event of the Deployment: the cached CRs that name it.
mapDeploymentToAdoptions(c) == IF c = None THEN {} ELSE {"adoption"}

\* An informer catches up and delivers the event.
Sync ==
  /\ \/ /\ seen.dep # dep
        /\ seen' = [seen EXCEPT !.dep = dep]
        /\ queue' = queue \cup {"watcher"} \cup mapDeploymentToAdoptions(seen.cr)
     \/ /\ seen.cr # cr
        /\ seen' = [seen EXCEPT !.cr = cr]
        /\ queue' = queue \cup {"adoption"}
  /\ UNCHANGED <<dep, hpa, cr, ksvc, passVars, ops, faults>>

\* The operator restarts: the caches are filled and everything is queued.
Crash ==
  /\ Fault
  /\ seen' = [dep |-> dep, cr |-> cr]
  /\ queue' = {"watcher", "adoption"}
  /\ pc' = "idle" /\ base' = FALSE /\ mem' = None
  /\ UNCHANGED <<dep, hpa, cr, ksvc, ops>>

\* The user edits the Deployment, or creates or deletes an HPA.
Edit ==
  /\ ops < MaxOps /\ ops' = ops + 1
  /\ \/ \E t \in Templates : dep' = [dep EXCEPT !.template = t] /\ UNCHANGED hpa
     \/ \E a \in Annotations : dep' = [dep EXCEPT !.ann = a] /\ UNCHANGED hpa
     \/ hpa' = ~hpa /\ UNCHANGED dep
  /\ UNCHANGED <<cr, ksvc, seen, queue, passVars, faults>>

Pass == Reconcile \/ ensureFinalizers \/ reconcileAdoption \/ patchStatus

Next == applyAdoption \/ Pass \/ Sync \/ Crash \/ Edit

Spec == Init /\ [][Next]_vars

\* A queued request is worked on and the informers catch up.
Fairness == WF_vars(applyAdoption) /\ WF_vars(Pass) /\ WF_vars(Sync)

FairSpec == Spec /\ Fairness

-----------------------------------------------------------------------------
(* Properties.                                                             *)

Deployment == [template : Templates, ann : Annotations]

\* Each of the two objects is absent or has all its defaults.
Complete(s) ==
  /\ "autoscaling" \in Objects(s) => s.pointers["min-scale"] # None
  /\ "scaleDownProbe" \in Objects(s) => s.path # "empty" /\ \A k \in Plain : s.plain[k] # 0

StoredCR == {c \in CR : Schema(c.spec) /\ Complete(c.spec)}

\* Every variable has its type; the spec of a CR, stored, cached or in memory,
\* satisfies the schema, and its autoscaling and its scaleDownProbe are absent or
\* complete.
TypeOK ==
  /\ dep \in Deployment /\ hpa \in BOOLEAN
  /\ cr \in StoredCR \cup {None}
  /\ seen \in [dep : Deployment, cr : StoredCR \cup {None}]
  /\ queue \subseteq {"watcher", "adoption"}
  /\ pc \in {"idle", "ensureFinalizers", "translate", "patchStatus"}
  /\ base \in BOOLEAN /\ mem \in StoredCR \cup {None}
  /\ ops \in 0..MaxOps /\ faults \in 0..MaxFaults

\* Whatever texts the annotations had and whatever Deployment and CR a pass read,
\* the container of the KSvc has one port, unnamed, TCP and not of the node, and
\* no variable from a field of the pod, and the bounds are numbers in range.  The
\* name is cleared because Knative rejects most (translator.go:261).
\* Nothing is said of the volumes: translator.go:290 keeps a source that the
\* design drops (VolumesAsDesigned of MCIntake).
KSvcWellFormed ==
  ksvc # None =>
    /\ Len(ksvc.container.ports) = 1
    /\ LET p == ksvc.container.ports[1] IN
       p.name = "empty" /\ p.protocol \in {"empty", "TCP"} /\ ~p.host
    /\ \A e \in ksvc.container.env : e.from \in {"value", "configMap", "secret"}
    /\ ksvc.scale.min \in Nat
    /\ ksvc.scale.max \in Nat \cup {None}
    /\ ksvc.scale.target \in (Nat \ {0}) \cup {None}

\* The webhook and the translator, written apart, refuse the choice of a
\* container "for the same condition" (knativeadoption_webhook.go:248): for any CR
\* a pass holds and any Deployment it reads, however stale, they agree.
AdmissionAgrees ==
  mem # None =>
    (checkPrimaryContainer(mem.spec, seen.dep.template.containers)
       <=> pickPrimaryContainer(seen.dep.template, mem.spec) # None)

\* The number an annotation gives, or the default.
Given(k, default) ==
  IF k \in DOMAIN dep.ann /\ dep.ann[k] \in {"zero", "one", "two"}
  THEN CASE dep.ann[k] = "zero" -> 0 [] dep.ann[k] = "one" -> 1 [] dep.ann[k] = "two" -> 2
  ELSE default

\* k is a KSvc for the Deployment as it is now.
Reflects(k) ==
  /\ k # None
  /\ \E i \in DOMAIN dep.template.containers : LET c == dep.template.containers[i] IN
       /\ c.name = k.container.name /\ c.mounts = k.container.mounts
       /\ c.ports[1].number = k.container.ports[1].number
       /\ {e \in c.env : e.from # "fieldRef"} = k.container.env
       /\ IF "primary-container" \in DOMAIN dep.ann /\ dep.ann["primary-container"] # "empty"
          THEN c.name = dep.ann["primary-container"] ELSE Len(dep.template.containers) = 1
  /\ k.volumes = {v \in dep.template.volumes : v.source \notin {"hostPath", "pvc"}}
  /\ k.scale = [min |-> Given("min-scale", 0), max |-> Given("max-scale", None),
                target |-> Given("target-concurrency", None)]

\* The Deployment and its annotations can be adopted as they are now.
Adoptable ==
  LET f == FromDeployment(dep.ann)
      s == Defaulted(f, Objects(f))
      k == Translate(dep.template, s)
  IN  Admitted(s) /\ k # None /\ (k # None => MountsDeclared(k))

\* Once the user leaves the Deployment alone in a state that can be adopted, the
\* KSvc becomes what it and its annotations say and stays so: no event that a
\* refused, stale or failed pass relied on is lost.
KSvcFollows == <>[](Adoptable => Reflects(ksvc))

\* The settings of the guard for the Deployment as it is now; 0 is the default.
Settings ==
  [path |-> IF "scaledown-path" \in DOMAIN dep.ann THEN dep.ann["scaledown-path"] ELSE "/scaledownz",
   plain |-> [k \in Plain |->
     IF Given(k, 0) # 0 THEN Given(k, 0)
     ELSE CASE k = "scaledown-interval-seconds" -> 30
            [] k = "scaledown-timeout-seconds" -> 2
            [] k = "scaledown-failure-threshold" -> 20]]

\* Once the user leaves an adoptable Deployment alone, the guard works with the
\* settings its annotations give, or with the documented defaults: it makes no
\* difference whether the API server filled them in, left them out with an empty
\* object, or kept those of an earlier apply, since guardConfig repeats them.
SettingsFollow == <>[](Adoptable => cr # None /\ guardConfig(cr.spec) = Settings)

\* Once a CR has its finalizers, TranslationDegraded ends up saying whether the
\* Deployment can be translated with it, although a refused pass is not queued
\* again and a stale pass may patch nothing.
RefusalShown ==
  <>[](cr # None => (cr.fin => (cr.refused <=> Translate(dep.template, cr.spec) = None)))
=============================================================================
