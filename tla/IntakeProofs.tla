---------------------------- MODULE IntakeProofs ----------------------------
(***************************************************************************)
(* Proofs about Intake, for every set of pod templates and annotations:    *)
(* its type, what the KSvc may contain, and that webhook and translator    *)
(* agree on the choice of the container.                                   *)
(***************************************************************************)
EXTENDS Intake, TLAPS

\* TypeOK, and: the CR of this model is never deleted, so that one that was
\* cached or is being worked on is there.
TypeInv ==
  /\ TypeOK
  /\ seen.cr # None => cr # None
  /\ pc # "idle" => mem # None /\ cr # None

-----------------------------------------------------------------------------
(* The translator.                                                         *)

LEMMA TemplateType ==
  ASSUME NEW t \in Templates
  PROVE  /\ t.containers \in Seq(Container)
         /\ Len(t.containers) \in Nat \ {0} /\ t.containers[1] \in Container
         /\ \A i \in DOMAIN t.containers : t.containers[i] \in Container
<1>1. t.containers \in Seq(Container) /\ Len(t.containers) > 0
  BY IntakeAssumption DEF Template
<1>2. QED
  BY <1>1

\* The container Translate picks is one of the template.
LEMMA PickType ==
  ASSUME NEW t \in Templates, NEW s
  PROVE  pickPrimaryContainer(t, s) \in Container \cup {None}
<1> DEFINE cs == t.containers
<1>1. ASSUME \E i \in DOMAIN cs : cs[i].name = s.primary
      PROVE  cs[CHOOSE i \in DOMAIN cs : cs[i].name = s.primary] \in Container
  <2>1. (CHOOSE i \in DOMAIN cs : cs[i].name = s.primary) \in DOMAIN cs
    BY <1>1, Zenon
  <2>2. QED
    BY <2>1, TemplateType, Zenon
<1>2. QED
  BY <1>1, TemplateType DEF pickPrimaryContainer

\* Webhook and translator agree on the choice of the container, for every
\* template and every spec.
LEMMA ChecksAgree ==
  ASSUME NEW t \in Templates, NEW s
  PROVE  checkPrimaryContainer(s, t.containers) <=> pickPrimaryContainer(t, s) # None
<1> DEFINE cs == t.containers
<1>1. CASE s.primary # "empty" /\ \E i \in DOMAIN cs : cs[i].name = s.primary
  <2>1. cs[CHOOSE i \in DOMAIN cs : cs[i].name = s.primary] \in Container
    <3>1. (CHOOSE i \in DOMAIN cs : cs[i].name = s.primary) \in DOMAIN cs
      BY <1>1, Zenon
    <3>2. QED
      BY <3>1, TemplateType, Zenon
  <2>2. QED
    BY <1>1, <2>1, IntakeAssumption DEF pickPrimaryContainer, checkPrimaryContainer
<1>2. CASE s.primary # "empty" /\ ~\E i \in DOMAIN cs : cs[i].name = s.primary
  BY <1>2 DEF pickPrimaryContainer, checkPrimaryContainer
<1>3. CASE s.primary = "empty"
  BY <1>3, TemplateType, IntakeAssumption DEF pickPrimaryContainer, checkPrimaryContainer
<1>4. QED
  BY <1>1, <1>2, <1>3

LEMMA SanitizePortsEffect ==
  ASSUME NEW c \in Container, pickUserPort(c)
  PROVE  /\ Len(sanitizePorts(c.ports)) = 1
         /\ sanitizePorts(c.ports)[1].name = "empty"
         /\ sanitizePorts(c.ports)[1].protocol \in {"empty", "TCP"}
         /\ ~sanitizePorts(c.ports)[1].host
<1>1. c.ports \in Seq(Port) /\ Len(c.ports) # 0
  BY DEF Container, pickUserPort
<1>2. c.ports[1] \in Port /\ c.ports[1].protocol \in {"empty", "TCP"}
  BY <1>1 DEF pickUserPort
<1> DEFINE p == [c.ports[1] EXCEPT !.name = "empty", !.host = FALSE]
<1>3. p.name = "empty" /\ p.host = FALSE /\ p.protocol = c.ports[1].protocol
  BY <1>2 DEF Port
<1>4. sanitizePorts(c.ports) = <<p>>
  BY DEF sanitizePorts
<1> HIDE DEF p
<1>5. QED
  BY <1>2, <1>3, <1>4

\* KSvcWellFormed of one KSvc.
WellFormed(k) ==
  /\ Len(k.container.ports) = 1
  /\ LET p == k.container.ports[1] IN
     p.name = "empty" /\ p.protocol \in {"empty", "TCP"} /\ ~p.host
  /\ \A e \in k.container.env : e.from \in {"value", "configMap", "secret"}
  /\ k.scale.min \in Nat
  /\ k.scale.max \in Nat \cup {None}
  /\ k.scale.target \in (Nat \ {0}) \cup {None}

LEMMA PointersType ==
  ASSUME NEW s, s \in CRSpec, Schema(s)
  PROVE  /\ s.pointers["min-scale"] \in Nat \cup {None}
         /\ s.pointers["max-scale"] \in Nat \cup {None}
         /\ s.pointers["target-concurrency"] \in (Nat \ {0}) \cup {None}
<1>1. s.pointers \in [Pointers -> Nat \cup {None}]
  BY DEF CRSpec
<1>2. \A k \in Pointers : s.pointers[k] # None => s.pointers[k] >= Minimum(k)
  BY DEF Schema
<1>3. /\ "min-scale" \in Pointers /\ "max-scale" \in Pointers
      /\ "target-concurrency" \in Pointers /\ Minimum("target-concurrency") = 1
  BY DEF Pointers, Minimum
<1>4. QED
  BY <1>1, <1>2, <1>3

\* What Translate makes of a Deployment and a spec that passed the schema, if
\* anything, is well-formed.
LEMMA TranslateWellFormed ==
  ASSUME NEW t \in Templates, NEW s, s \in CRSpec, Schema(s), Translate(t, s) # None
  PROVE  WellFormed(Translate(t, s))
<1> DEFINE c == pickPrimaryContainer(t, s)
<1>1. /\ c \in Container /\ pickUserPort(c)
      /\ Translate(t, s) = [container |-> sanitizeContainer(c),
                            volumes |-> sanitizeVolumes(t.volumes),
                            scale |-> buildKPAAnnotations(s)]
  BY PickType DEF Translate
<1> HIDE DEF c
<1> DEFINE k == Translate(t, s)
<1>2. /\ k.container.ports = sanitizePorts(c.ports) /\ k.container.env = sanitizeEnv(c.env)
      /\ k.scale = buildKPAAnnotations(s)
  BY <1>1 DEF sanitizeContainer
<1> HIDE DEF k
<1>3. /\ Len(k.container.ports) = 1
      /\ LET p == k.container.ports[1] IN
         p.name = "empty" /\ p.protocol \in {"empty", "TCP"} /\ ~p.host
  BY <1>1, <1>2, SanitizePortsEffect
<1>4. \A e \in k.container.env : e.from \in {"value", "configMap", "secret"}
  <2>1. c.env \in SUBSET Env
    BY <1>1 DEF Container
  <2>2. QED
    BY <1>2, <2>1 DEF sanitizeEnv, Env
<1>5. /\ k.scale.min \in Nat /\ k.scale.max \in Nat \cup {None}
      /\ k.scale.target \in (Nat \ {0}) \cup {None}
  <2>1. EffectiveMinScale(s.pointers["min-scale"], None) \in Nat
    BY PointersType DEF EffectiveMinScale
  <2>2. QED
    BY <1>2, <2>1, PointersType DEF buildKPAAnnotations
<1>6. QED
  BY <1>3, <1>4, <1>5 DEF WellFormed, k

-----------------------------------------------------------------------------
(* The projector and the API server.                                       *)

LEMMA ParseIntType ==
  ASSUME NEW t PROVE ParseInt(t) \in Int \cup {None}
<1>1. -1 \in Int
  OBVIOUS
<1>2. QED
  BY <1>1 DEF ParseInt

LEMMA ParseType ==
  ASSUME NEW ann \in Annotations, NEW k
  PROVE  Text(ann, k) \in Texts /\ parseInt32(ann, k) \in Int \cup {None}
<1>1. \A l \in DOMAIN ann : ann[l] \in Texts
  BY SMT DEF Texts
<1>2. "empty" \in Texts
  BY Zenon DEF Texts
<1>3. Text(ann, k) \in Texts
  BY <1>1, <1>2, Zenon DEF Text
<1>4. QED
  BY <1>3, ParseIntType, Zenon DEF parseInt32

\* What the projector makes of the annotations, before the API server has it.
LEMMA FromDeploymentType ==
  ASSUME NEW ann \in Annotations
  PROVE  LET f == FromDeployment(ann) IN
         /\ f = [mode |-> f.mode, primary |-> f.primary, broker |-> f.broker, path |-> f.path,
                 pointers |-> f.pointers, plain |-> f.plain]
         /\ f.primary \in Texts /\ f.broker \in Texts /\ f.path \in Texts
         /\ f.pointers \in [Pointers -> Int \cup {None}]
         /\ f.plain \in [Plain -> Int]
<1>1. \A k \in Plain : (IF parseInt32(ann, k) = None THEN 0 ELSE parseInt32(ann, k)) \in Int
  BY ParseType
<1>2. QED
  BY <1>1, ParseType DEF FromDeployment

LEMMA ProbeDefaultType == \A k \in Plain : ProbeDefault(k) \in Nat \ {0}
BY DEF Plain, ProbeDefault

\* A projected and defaulted spec that passes the schema has its type, and each
\* of its objects is absent or complete, whichever further objects were kept:
\* every default is in the range of its field.
LEMMA ProjectedType ==
  ASSUME NEW ann \in Annotations, NEW objects,
         Objects(FromDeployment(ann)) \subseteq objects,
         Schema(Defaulted(FromDeployment(ann), objects))
  PROVE  /\ Defaulted(FromDeployment(ann), objects) \in CRSpec
         /\ Complete(Defaulted(FromDeployment(ann), objects))
<1> DEFINE f == FromDeployment(ann)
           s == Defaulted(f, objects)
<1>1. /\ f = [mode |-> f.mode, primary |-> f.primary, broker |-> f.broker, path |-> f.path,
              pointers |-> f.pointers, plain |-> f.plain]
      /\ f.primary \in Texts /\ f.broker \in Texts /\ f.path \in Texts
      /\ f.pointers \in [Pointers -> Int \cup {None}]
      /\ f.plain \in [Plain -> Int]
  BY FromDeploymentType, Zenon
<1>2. Objects(f) \subseteq objects /\ Schema(s)
  OBVIOUS
<1> HIDE DEF f
<1> DEFINE d == [k \in Plain |-> IF "scaleDownProbe" \in objects /\ f.plain[k] = 0
                                 THEN ProbeDefault(k) ELSE f.plain[k]]
           q == [f.pointers EXCEPT !["min-scale"] =
                   IF "autoscaling" \in objects /\ f.pointers["min-scale"] = None THEN 0
                   ELSE f.pointers["min-scale"]]
           p == IF "scaleDownProbe" \in objects /\ f.path = "empty" THEN "/scaledownz" ELSE f.path
<1>3. /\ d \in [Plain -> Int]
      /\ \A k \in Plain : IF "scaleDownProbe" \in objects THEN d[k] # 0 ELSE d[k] = f.plain[k]
  BY <1>1, ProbeDefaultType
<1>4. /\ q \in [Pointers -> Int \cup {None}]
      /\ IF "autoscaling" \in objects THEN q["min-scale"] # None ELSE q = f.pointers
      /\ q["scaledown-port"] = f.pointers["scaledown-port"]
  BY <1>1, IntakeAssumption DEF Pointers
<1>5. /\ p \in Texts \cup {"/scaledownz"}
      /\ IF "scaleDownProbe" \in objects THEN p # "empty" ELSE p = f.path
  BY <1>1
<1>6. s = [mode |-> f.mode, primary |-> f.primary, broker |-> f.broker, path |-> p,
           pointers |-> q, plain |-> d]
  <2>1. s = [f EXCEPT !.path = p, !.pointers = q, !.plain = d]
    BY Zenon DEF Defaulted
  <2> HIDE DEF p, q, d, s
  <2>2. QED
    BY <1>1, <2>1, Zenon
<1> HIDE DEF p, q, d, s
<1>7. /\ s.primary = f.primary /\ s.broker = f.broker /\ s.path = p
      /\ s.pointers = q /\ s.plain = d
  BY <1>6
<1>8. s \in CRSpec
  <2>1. /\ s.mode \in {"serving", "eventing"}
        /\ \A k \in Pointers : s.pointers[k] # None => s.pointers[k] >= Minimum(k)
        /\ \A k \in Plain : s.plain[k] # 0 => s.plain[k] >= Minimum(k)
    BY <1>2 DEF Schema
  <2>2. s.pointers \in [Pointers -> Nat \cup {None}] /\ s.plain \in [Plain -> Nat]
    BY <1>3, <1>4, <1>7, <2>1 DEF Minimum, Plain
  <2>3. QED
    BY <1>1, <1>5, <1>6, <1>7, <2>1, <2>2 DEF CRSpec
<1>9. Complete(s)
  <2>1. ASSUME "autoscaling" \in Objects(s) PROVE s.pointers["min-scale"] # None
    <3>1. "autoscaling" \in objects
      BY <1>2, <1>4, <1>7, <2>1 DEF Objects
    <3>2. QED
      BY <1>4, <1>7, <3>1
  <2>2. ASSUME "scaleDownProbe" \in Objects(s)
        PROVE  s.path # "empty" /\ \A k \in Plain : s.plain[k] # 0
    <3>1. "scaleDownProbe" \in objects
      BY <1>2, <1>3, <1>4, <1>5, <1>7, <2>2 DEF Objects
    <3>2. QED
      BY <1>3, <1>5, <1>7, <3>1
  <2>3. QED
    BY <2>1, <2>2, Zenon DEF Complete
<1>10. QED
  BY <1>8, <1>9 DEF s, f

-----------------------------------------------------------------------------
(* The controllers.                                                        *)

LEMMA StoredNotNone == None \notin StoredCR
BY IntakeAssumption DEF StoredCR

\* A CR keeps its type when only its finalizers or its condition change.
LEMMA StoredExcept ==
  ASSUME NEW c \in StoredCR, NEW b \in BOOLEAN
  PROVE  [c EXCEPT !.fin = b] \in StoredCR /\ [c EXCEPT !.refused = b] \in StoredCR
BY DEF StoredCR, CR

\* The counters of edits and of failures stay within their bounds.
LEMMA BoundsStep ==
  ASSUME TypeOK, [Next]_vars
  PROVE  ops' \in 0..MaxOps /\ faults' \in 0..MaxFaults
<1>1. UNCHANGED ops \/ (ops < MaxOps /\ ops' = ops + 1)
  BY Zenon DEF Next, Pass, applyAdoption, Reconcile, ensureFinalizers, reconcileAdoption,
               patchStatus, Sync, Crash, Edit, vars
<1>2. UNCHANGED faults \/ Fault
  BY Zenon DEF Next, Pass, applyAdoption, Reconcile, ensureFinalizers, reconcileAdoption,
               applyKnativeService, patchStatus, Sync, Crash, Edit, vars
<1>3. ops \in 0..MaxOps /\ faults \in 0..MaxFaults
  BY DEF TypeOK
<1>4. QED
  BY <1>1, <1>2, <1>3, IntakeAssumption DEF Fault

\* The type invariant, and that a CR a pass works on exists.
LEMMA TypeInvStep == TypeInv /\ [Next]_vars => TypeInv'
<1> SUFFICES ASSUME TypeInv, [Next]_vars
             PROVE  TypeInv'
  OBVIOUS
<1>0. ops' \in 0..MaxOps /\ faults' \in 0..MaxFaults
  BY BoundsStep DEF TypeInv
<1> USE StoredNotNone DEF TypeInv, TypeOK, passVars
<1>1. CASE applyAdoption
  <2> DEFINE f == FromDeployment(seen.dep.ann)
  <2>1. ASSUME NEW s \in Stored(f), Admitted(s),
               cr' = IF cr = None THEN [spec |-> s, fin |-> FALSE, refused |-> FALSE]
                     ELSE [cr EXCEPT !.spec = s]
        PROVE  TypeInv'
    <3>1. s \in CRSpec /\ Schema(s) /\ Complete(s)
      <4>1. seen.dep.ann \in Annotations
        BY DEF Deployment
      <4>2. PICK kept : s = Defaulted(f, Objects(f) \cup kept)
        BY <2>1, Zenon DEF Stored
      <4>3. Objects(f) \subseteq Objects(f) \cup kept /\ Schema(s)
        BY <2>1 DEF Admitted
      <4>4. QED
        BY <4>1, <4>2, <4>3, ProjectedType, Zenon
    <3>2. cr' \in StoredCR
      <4>1. CASE cr = None
        BY <2>1, <3>1, <4>1 DEF StoredCR, CR
      <4>2. CASE cr \in StoredCR
        BY <2>1, <3>1, <4>2 DEF StoredCR, CR
      <4>3. QED
        BY <4>1, <4>2
    <3>3. QED
      BY <1>0, <1>1, <3>2, Zenon DEF applyAdoption
  <2>2. CASE UNCHANGED <<cr, queue>>
    BY <1>0, <1>1, <2>2, Zenon DEF applyAdoption
  <2>3. QED
    BY <1>1, <2>1, <2>2, Zenon DEF applyAdoption
<1>2. CASE Reconcile
  <2>1. seen.cr \in StoredCR \cup {None}
    OBVIOUS
  <2>2. QED
    BY <1>0, <1>2, <2>1, Zenon DEF Reconcile
<1>3. CASE ensureFinalizers
  <2>1. mem \in StoredCR /\ cr \in StoredCR /\ mem.refused \in BOOLEAN
    BY <1>3 DEF ensureFinalizers, StoredCR, CR
  <2>2. [cr EXCEPT !.fin = TRUE] \in StoredCR /\ [cr EXCEPT !.fin = TRUE].refused \in BOOLEAN
    BY <2>1, StoredExcept, Zenon DEF StoredCR, CR
  <2>3. /\ cr' \in StoredCR /\ mem' \in StoredCR \cup {None} /\ base' \in BOOLEAN
        /\ pc' \in {"idle", "translate"} /\ (pc' # "idle" => mem' # None)
        /\ queue' \subseteq {"watcher", "adoption"}
    BY <1>3, <2>1, <2>2, Zenon DEF ensureFinalizers, Retry
  <2>4. QED
    BY <1>0, <1>3, <2>3, Zenon DEF ensureFinalizers
<1>4. CASE reconcileAdoption
  <2>1. mem \in StoredCR
    BY <1>4 DEF reconcileAdoption
  <2>2. mem' \in StoredCR
    BY <1>4, <2>1, StoredExcept, Zenon DEF reconcileAdoption, removeCondition
  <2>3. queue' \subseteq {"watcher", "adoption"}
    BY <1>4, Zenon DEF reconcileAdoption, applyKnativeService
  <2>4. QED
    BY <1>0, <1>4, <2>2, <2>3, Zenon DEF reconcileAdoption
<1>5. CASE patchStatus
  <2>1. mem \in StoredCR /\ cr \in StoredCR /\ mem.refused \in BOOLEAN
    BY <1>5 DEF patchStatus, StoredCR, CR
  <2>2. cr' \in StoredCR
    BY <1>5, <2>1, StoredExcept, Zenon DEF patchStatus
  <2>3. QED
    BY <1>0, <1>5, <2>2, Zenon DEF patchStatus, Retry
<1>6. CASE Sync
  <2>1. /\ seen' \in [dep : Deployment, cr : StoredCR \cup {None}]
        /\ seen'.cr # None => cr # None
    BY <1>6 DEF Sync
  <2>2. queue' \subseteq {"watcher", "adoption"}
    BY <1>6, Zenon DEF Sync, mapDeploymentToAdoptions
  <2>3. QED
    BY <1>0, <1>6, <2>1, <2>2, Zenon DEF Sync
<1>7. CASE Crash
  <2>1. /\ seen' \in [dep : Deployment, cr : StoredCR \cup {None}]
        /\ seen'.cr # None => cr # None
    BY <1>7 DEF Crash
  <2>2. QED
    BY <1>0, <1>7, <2>1, Zenon DEF Crash
<1>8. CASE Edit
  <2>1. dep' \in Deployment /\ hpa' \in BOOLEAN
    <3>1. dep \in Deployment
      OBVIOUS
    <3>2. QED
      BY <1>8, <3>1, Zenon DEF Edit, Deployment
  <2>2. QED
    BY <1>0, <1>8, <2>1, Zenon DEF Edit
<1>9. CASE UNCHANGED vars
  BY <1>0, <1>9, Zenon DEF vars
<1>10. QED
  BY <1>1, <1>2, <1>3, <1>4, <1>5, <1>6, <1>7, <1>8, <1>9, Zenon DEF Next, Pass

LEMMA TypeInvInit == Init => TypeInv
<1> SUFFICES ASSUME Init PROVE TypeInv
  OBVIOUS
<1>1. seen \in [dep : Deployment, cr : StoredCR \cup {None}] /\ seen.cr = None
  BY DEF Init, Deployment
<1>2. ops \in 0..MaxOps /\ faults \in 0..MaxFaults
  BY IntakeAssumption DEF Init
<1>3. QED
  BY <1>1, <1>2, Zenon DEF Init, TypeInv, TypeOK, Deployment

\* Every variable has its type; in particular every CR that is stored, cached or
\* worked on satisfies the schema, and its autoscaling and its scaleDownProbe are
\* absent or have all their defaults.
THEOREM IntakeTypeCorrect == Spec => []TypeOK
<1>1. TypeInv => TypeOK
  BY DEF TypeInv
<1>2. QED
  BY <1>1, TypeInvInit, TypeInvStep, PTL DEF Spec

\* For any CR a pass holds and any Deployment it reads, webhook and translator
\* agree on whether a container can be chosen.
THEOREM AdmissionMatches == Spec => []AdmissionAgrees
<1>1. TypeOK => AdmissionAgrees
  BY ChecksAgree DEF TypeOK, Deployment, AdmissionAgrees
<1>2. QED
  BY <1>1, IntakeTypeCorrect, PTL

\* Whatever the annotations say and whatever was read when, the KSvc has one
\* unnamed TCP port, no variable from a field of the pod and bounds in range.
THEOREM KSvcStaysWellFormed == Spec => []KSvcWellFormed
<1>1. Init => KSvcWellFormed
  BY DEF Init, KSvcWellFormed
<1>2. TypeInv /\ KSvcWellFormed /\ [Next]_vars => KSvcWellFormed'
  <2> SUFFICES ASSUME TypeInv, KSvcWellFormed, [Next]_vars
               PROVE  KSvcWellFormed'
    OBVIOUS
  <2>1. CASE ksvc' = ksvc
    BY <2>1 DEF KSvcWellFormed
  <2>2. CASE reconcileAdoption
    <3> DEFINE k == Translate(seen.dep.template, mem.spec)
    <3>1. mem \in StoredCR /\ seen.dep.template \in Templates
      BY <2>2 DEF reconcileAdoption, TypeInv, TypeOK, Deployment
    <3>2. mem.spec \in CRSpec /\ Schema(mem.spec)
      BY <3>1 DEF StoredCR, CR
    <3>3. k # None => WellFormed(k)
      BY <3>1, <3>2, TranslateWellFormed
    <3>4. ksvc' = ksvc \/ (k # None /\ ksvc' = k)
      BY <2>2 DEF reconcileAdoption, applyKnativeService
    <3> HIDE DEF k
    <3>5. WellFormed(k) /\ ksvc' = k => KSvcWellFormed'
      BY Zenon DEF WellFormed, KSvcWellFormed
    <3>6. QED
      BY <2>1, <3>3, <3>4, <3>5
  <2>3. QED
    BY <2>1, <2>2 DEF Next, Pass, applyAdoption, Reconcile, ensureFinalizers, patchStatus,
                      Sync, Crash, Edit, vars
<1>3. QED
  BY <1>1, <1>2, TypeInvInit, TypeInvStep, PTL DEF Spec
=============================================================================
