--------------------------- MODULE TrafficAdapter ---------------------------
(***************************************************************************)
(* Traffic adaptation: reconcileTraffic rewrites the Istio objects a CR    *)
(* declares, in place, after keeping a snapshot of each in the CR's status; *)
(* on deletion restoreTrafficSnapshots writes the snapshots back before the *)
(* service finalizer goes.                                                 *)
(*                                                                         *)
(* A spec is the list of its destinations; a DestinationRule is one entry, *)
(* without a port, whose subset says whether spec.subsets is there.  A host *)
(* is its normalised labels; an empty name is "empty".  Istio objects are  *)
(* unstructured, which the manager's client reads from the API server; the *)
(* CR comes from a cache.                                                  *)
(* The rest of the pass and of the deletion branch is in module Adoption.  *)
(***************************************************************************)
EXTENDS Naturals, Sequences

CONSTANTS
  None,
  Service, Namespace,  \* labels of the adopted Service's name and namespace
  VSRefs, DRRefs,      \* spec.traffic.istio: the declared names, in order
  VSSpecs, DRSpecs,    \* specs a user may give the objects
  ServicePort,         \* spec.traffic.servicePort, or None
  LivePorts,           \* first ports the Service may have
  Lag,                 \* whether the cached CR may lag
  MaxOps,              \* bound on the actions of users
  MaxFaults            \* bound on crashes and failed requests

Kinds == {"vs", "dr"}

\* virtualServiceRefs, then destinationRuleRefs.
Refs == [i \in 1..Len(VSRefs) |-> [kind |-> "vs", name |-> VSRefs[i]]]
          \o [i \in 1..Len(DRRefs) |-> [kind |-> "dr", name |-> DRRefs[i]]]

Objects == {o \in {Refs[n] : n \in DOMAIN Refs} : o.name # "empty"}
UserSpecs(o) == IF o.kind = "vs" THEN VSSpecs ELSE DRSpecs

Destination == [host : Seq(STRING), port : Nat \cup {None}, subset : BOOLEAN]
Object == [spec : Seq(Destination), by : {"user", "ifaas"}]
Snapshot == [name : STRING, spec : Seq(Destination), by : {"user", "ifaas"}]

\* status.sourceSnapshot.traffic, status.traffic.observedRoutes (whether each is
\* ready) and the two traffic conditions, with the metadata the passes look at.
CR == [deleting : BOOLEAN, fin : BOOLEAN, enabled : BOOLEAN,
       snap : [Kinds -> Seq(Snapshot)], routes : Seq(BOOLEAN), ready : BOOLEAN \cup {None}]

ASSUME TrafficAssumption ==
  /\ MaxOps \in Nat /\ MaxFaults \in Nat /\ Lag \in BOOLEAN
  /\ VSRefs \in Seq(STRING) /\ DRRefs \in Seq(STRING)
  /\ VSSpecs \subseteq Seq(Destination) /\ DRSpecs \subseteq Seq(Destination)
  /\ \A s \in DRSpecs : Len(s) = 1
  /\ LivePorts \subseteq Nat /\ ServicePort \in Nat \cup {None}
  /\ None \notin Nat /\ None \notin Object /\ None \notin CR

VARIABLES
  obj,      \* the Istio objects: spec, and (history) whose it is; None: absent
  port,     \* first port of the Service of that name, None without one
  cr, seen, \* the CR in the API server and in the cache
  pc,       \* where the pass of the reconciler is
  base,     \* the CR the status patch is computed against (original)
  mem,      \* the CR in memory (adoption)
  target,   \* targetServicePort
  i,        \* position in the declared refs, or in the snapshots
  read,     \* the object as the pass has just read it
  ops, faults,
  lossy,    \* history: a pass was cut short, read a stale CR or could not store
  edited    \* history: objects users changed since the pass last read them

passVars == <<pc, base, mem, target, i, read>>
vars == <<obj, port, cr, seen, passVars, ops, faults, lossy, edited>>

NewCR ==
  [deleting |-> FALSE, fin |-> FALSE, enabled |-> TRUE,
   snap |-> [k \in Kinds |-> <<>>], routes |-> <<>>, ready |-> None]

ByUser(s) == [spec |-> s, by |-> "user"]

Init ==
  /\ obj \in {f \in [Objects -> {ByUser(s) : s \in VSSpecs \cup DRSpecs} \cup {None}] :
                \A o \in Objects : f[o] # None => f[o].spec \in UserSpecs(o)}
  /\ port \in LivePorts \cup {None}
  /\ cr = NewCR /\ seen = cr
  /\ pc = "idle" /\ base = None /\ mem = None /\ target = None /\ i = 0 /\ read = None
  /\ ops = 0 /\ faults = 0
  /\ lossy = FALSE /\ edited = {}

-----------------------------------------------------------------------------
(* The rewriting of a spec.                                                *)

serviceHostMatches(h) ==
  \/ h \in {<<Service>>, <<Service, Namespace>>}
  \/ Len(h) > 2 /\ SubSeq(h, 1, 3) = <<Service, Namespace, "svc">>

\* Mutant of trafficManagedPortSet: only the port to go to is managed.
trafficManagedPortSetTargetOnly(t) == {t} \ {None}

trafficManagedPortSet(t) == {ServicePort, t} \ {None}

destinationMatchesManagedPort(d, ports) == ports = {} \/ d.port \in ports

Rewritten(d, t) == [d EXCEPT !.subset = FALSE, !.port = IF t = None THEN @ ELSE t]

stripSubsetFromTargetDestinations(s, t) ==
  [n \in DOMAIN s |->
     IF /\ serviceHostMatches(s[n].host)
        /\ destinationMatchesManagedPort(s[n], trafficManagedPortSet(t))
     THEN Rewritten(s[n], t) ELSE s[n]]

stripTargetServiceSubsets(s) ==
  [n \in DOMAIN s |-> IF serviceHostMatches(s[n].host) THEN Rewritten(s[n], None) ELSE s[n]]

Adapted(o, s, t) ==
  IF o.kind = "vs" THEN stripSubsetFromTargetDestinations(s, t) ELSE stripTargetServiceSubsets(s)

\* What a merge patch from one spec to another makes of the live spec: lists
\* are replaced as a whole, the fields of a DestinationRule one by one.
MergePatched(o, live, from, to) ==
  IF from = to THEN live
  ELSE IF o.kind = "vs" THEN to
  ELSE [n \in DOMAIN live |-> [f \in DOMAIN live[n] |->
          IF from[n][f] # to[n][f] THEN to[n][f] ELSE live[n][f]]]

-----------------------------------------------------------------------------
(* Requests to the API server.                                             *)

Outcome == {"ok", "error", "lost"}
Landed(r) == r # "error"

Spend(r) ==
  /\ r # "ok" => faults < MaxFaults
  /\ faults' = IF r = "ok" THEN faults ELSE faults + 1

Return == pc' = "idle" /\ base' = None /\ mem' = None /\ target' = None /\ i' = 0 /\ read' = None

-----------------------------------------------------------------------------
(* The adoption pass.                                                      *)

\* A pass reads the CR.  Outside deletion, ensureFinalizers adds the finalizer
\* when the copy read has none, and takes over the CR the patch returns.
Reconcile ==
  LET v == IF Lag THEN seen ELSE cr IN
  /\ pc = "idle" /\ v # None
  /\ \/ /\ v.deleting
        /\ UNCHANGED cr
        /\ base' = v
        /\ pc' = IF \A k \in Kinds : Len(v.snap[k]) = 0 THEN "release" ELSE "restoreGet"
     \/ /\ ~v.deleting /\ v.fin
        /\ UNCHANGED cr
        /\ base' = v
        /\ pc' = "resolve"
     \/ /\ ~v.deleting /\ ~v.fin /\ cr # None
        /\ cr' = [cr EXCEPT !.fin = TRUE]
        /\ base' = cr'
        /\ pc' = "resolve"
  /\ mem' = base' /\ i' = 1
  /\ lossy' = (lossy \/ (cr' # None /\ base'.snap # cr'.snap))
  /\ UNCHANGED <<obj, port, seen, target, read, ops, faults, edited>>

\* The first port of the Service, else that of the spec.
resolveTrafficTargetServicePort == IF port # None THEN port ELSE ServicePort

\* The start of reconcileTraffic.  Disabled, only the conditions are removed.
reconcileTraffic(r) ==
  /\ pc = "resolve" /\ r # "lost"
  /\ \/ /\ ~mem.enabled /\ r = "ok"
        /\ mem' = [mem EXCEPT !.ready = None]
        /\ pc' = "patchStatus" /\ UNCHANGED target
     \/ /\ mem.enabled /\ r = "error"
        /\ mem' = [mem EXCEPT !.routes = <<FALSE>>, !.ready = FALSE]
        /\ pc' = "patchStatus" /\ UNCHANGED target
     \/ /\ mem.enabled /\ r = "ok"
        /\ target' = resolveTrafficTargetServicePort
        /\ mem' = [mem EXCEPT !.routes = <<>>, !.ready = TRUE]
        /\ pc' = IF Len(Refs) = 0 THEN "patchStatus" ELSE "get"
  /\ Spend(r)
  /\ UNCHANGED <<obj, port, cr, seen, base, i, read, ops, lossy, edited>>

\* Mutant of Observe: the first failure ends the loop.
ObserveStops(m, ok) ==
  /\ mem' = [m EXCEPT !.routes = Append(@, ok), !.ready = @ /\ ok]
  /\ i' = i + 1
  /\ pc' = IF i = Len(Refs) \/ ~ok THEN "patchStatus" ELSE "get"

\* One entry of observedRoutes, and on to the next object.
Observe(m, ok) ==
  /\ mem' = [m EXCEPT !.routes = Append(@, ok), !.ready = @ /\ ok]
  /\ i' = i + 1
  /\ pc' = IF i = Len(Refs) THEN "patchStatus" ELSE "get"

hasTrafficObjectSnapshot(m, o) == \E n \in DOMAIN m.snap[o.kind] : m.snap[o.kind][n].name = o.name

\* Mutant of snapshotOnce: the newest spec is kept.
snapshotLatest(m, o, x) ==
  [m EXCEPT !.snap[o.kind] = Append(SelectSeq(@, LAMBDA it : it.name # o.name),
                                    [name |-> o.name, spec |-> x.spec, by |-> x.by])]

\* Mutant of snapshotOnce: the list is not searched first.
snapshotAlways(m, o, x) ==
  [m EXCEPT !.snap[o.kind] = Append(@, [name |-> o.name, spec |-> x.spec, by |-> x.by])]

\* snapshotVirtualServiceOnce, snapshotDestinationRuleOnce.
snapshotOnce(m, o, x) ==
  IF hasTrafficObjectSnapshot(m, o) THEN m
  ELSE [m EXCEPT !.snap[o.kind] = Append(@, [name |-> o.name, spec |-> x.spec, by |-> x.by])]

\* The first half of reconcileVirtualService and reconcileDestinationRule: Get,
\* snapshot, strip.  An empty name and an object that cannot be read are
\* recorded, and the loop goes on.
GetObject(r) ==
  LET o == Refs[i] IN
  /\ pc = "get" /\ r # "lost"
  /\ \/ /\ o.name = "empty" /\ r = "ok"
        /\ Observe(mem, FALSE)
        /\ UNCHANGED <<read, edited>>
     \/ /\ o.name # "empty"
        /\ r = "error" \/ obj[o] = None
        /\ Observe(mem, FALSE)
        /\ UNCHANGED <<read, edited>>
     \/ /\ o.name # "empty" /\ r = "ok" /\ obj[o] # None
        /\ edited' = edited \ {o}
        /\ IF Adapted(o, obj[o].spec, target) = obj[o].spec
           THEN Observe(snapshotOnce(mem, o, obj[o]), TRUE) /\ UNCHANGED read
           ELSE mem' = snapshotOnce(mem, o, obj[o]) /\ read' = obj[o] /\ pc' = "patch" /\ UNCHANGED i
  /\ Spend(r)
  /\ UNCHANGED <<obj, port, cr, seen, base, target, ops, lossy>>

\* The second half: the merge patch.
PatchObject(r) ==
  LET o == Refs[i] IN
  /\ pc = "patch"
  /\ obj' = IF obj[o] = None \/ ~Landed(r) THEN obj
            ELSE [obj EXCEPT ![o] =
                    [spec |-> MergePatched(o, obj[o].spec, read.spec, Adapted(o, read.spec, target)),
                     by |-> "ifaas"]]
  /\ Observe(mem, obj[o] # None /\ r = "ok")
  /\ read' = None
  /\ Spend(r)
  /\ UNCHANGED <<port, cr, seen, base, target, ops, lossy, edited>>

\* patchStatus: a merge patch of what differs from the original, lists as a
\* whole.  Then the pass ends.
patchStatus(r) ==
  LET Patched(new, old, live) == IF new # old THEN new ELSE live IN
  /\ pc = "patchStatus"
  /\ cr' = IF cr = None \/ ~Landed(r) THEN cr
           ELSE [cr EXCEPT
                   !.snap = [k \in Kinds |-> Patched(mem.snap[k], base.snap[k], @[k])],
                   !.routes = Patched(mem.routes, base.routes, @),
                   !.ready = Patched(mem.ready, base.ready, @)]
  /\ Return
  /\ Spend(r)
  /\ lossy' = (lossy \/ ~Landed(r))
  /\ UNCHANGED <<obj, port, seen, ops, edited>>

-----------------------------------------------------------------------------
(* The deletion branch: restoreTrafficSnapshots and the finalizer.         *)

\* The snapshots in the order they are written back.
Item(k, x) == [o |-> [kind |-> k, name |-> x.name], spec |-> x.spec, by |-> x.by]
Items(c) == [n \in DOMAIN c.snap["vs"] |-> Item("vs", c.snap["vs"][n])]
              \o [n \in DOMAIN c.snap["dr"] |-> Item("dr", c.snap["dr"][n])]

NextItem ==
  /\ i' = i + 1
  /\ pc' = IF i = Len(Items(mem)) THEN "release" ELSE "restoreGet"

\* An error ends the pass; the status it would store is of no concern here.
Abort == Return

\* The decoded snapshot has floating point numbers, the live spec integers:
\* DeepEqual never holds of two specs with a port.
DeepEqual(live, snap) == live = snap /\ \A n \in DOMAIN live : live[n].port = None

\* What the object is once its snapshot is in force.
Restored(s) == [spec |-> s, by |-> Items(mem)[i].by]

\* Mutant of restoreGet: an object that is gone is an error.
restoreGetNotFoundFails(r) ==
  LET o == Items(mem)[i].o IN
  /\ pc = "restoreGet" /\ r # "lost"
  /\ \/ (r = "error" \/ obj[o] = None) /\ Abort /\ UNCHANGED <<obj, edited>>
     \/ /\ r = "ok" /\ obj[o] # None
        /\ edited' = edited \ {o}
        /\ IF DeepEqual(obj[o].spec, Items(mem)[i].spec)
           THEN obj' = [obj EXCEPT ![o] = Restored(obj[o].spec)] /\ NextItem /\ UNCHANGED read
           ELSE pc' = "restoreWrite" /\ read' = obj[o] /\ UNCHANGED <<obj, i>>
        /\ UNCHANGED <<base, mem, target>>
  /\ Spend(r)
  /\ UNCHANGED <<port, cr, seen, ops, lossy>>

\* restoreTrafficObjectSnapshot: Get and compare.
restoreGet(r) ==
  LET o == Items(mem)[i].o IN
  /\ pc = "restoreGet" /\ r # "lost"
  /\ \/ r = "error" /\ Abort /\ UNCHANGED <<obj, edited>>
     \/ /\ r = "ok"
        /\ edited' = edited \ {o}
        /\ IF obj[o] # None /\ DeepEqual(obj[o].spec, Items(mem)[i].spec)
           THEN obj' = [obj EXCEPT ![o] = Restored(obj[o].spec)] /\ NextItem /\ UNCHANGED read
           ELSE pc' = "restoreWrite" /\ read' = obj[o] /\ UNCHANGED <<obj, i>>
        /\ UNCHANGED <<base, mem, target>>
  /\ Spend(r)
  /\ UNCHANGED <<port, cr, seen, ops, lossy>>

\* Create when there was none (AlreadyExists counts as success), else a merge
\* patch to the snapshot.
restoreWrite(r) ==
  LET o == Items(mem)[i].o IN
  /\ pc = "restoreWrite"
  /\ obj' = IF ~Landed(r) \/ (read = None) # (obj[o] = None) THEN obj
            ELSE [obj EXCEPT ![o] = Restored(IF read = None THEN Items(mem)[i].spec
                    ELSE MergePatched(o, obj[o].spec, read.spec, Items(mem)[i].spec))]
  /\ IF r = "ok" /\ ~(read # None /\ obj[o] = None)
     THEN NextItem /\ read' = None /\ UNCHANGED <<base, mem, target>>
     ELSE Abort
  /\ Spend(r)
  /\ UNCHANGED <<port, cr, seen, ops, lossy, edited>>

\* Mutant of removeFinalizer: a patch without optimistic locking.
removeFinalizerUnlocked(r) ==
  /\ pc = "release"
  /\ cr' = IF Landed(r) THEN None ELSE cr
  /\ Return
  /\ Spend(r)
  /\ UNCHANGED <<obj, port, seen, ops, lossy, edited>>

\* removeFinalizer: an Update, refused unless the CR is the version read.  The
\* source's finalizer, and so the end of the CR, follow in module Adoption.
removeFinalizer(r) ==
  /\ pc = "release"
  /\ cr' = IF cr = base /\ Landed(r) THEN None ELSE cr
  /\ Return
  /\ Spend(r)
  /\ UNCHANGED <<obj, port, seen, ops, lossy, edited>>

-----------------------------------------------------------------------------
(* Everything around it.                                                   *)

Crash ==
  /\ faults < MaxFaults /\ faults' = faults + 1
  /\ pc # "idle"
  /\ Return
  /\ seen' = cr
  /\ lossy' = TRUE
  /\ UNCHANGED <<obj, port, cr, ops, edited>>

Sync ==
  /\ Lag /\ seen # cr
  /\ seen' = cr
  /\ UNCHANGED <<obj, port, cr, passVars, ops, faults, lossy, edited>>

UserEditsObject ==
  \E o \in Objects, x \in {ByUser(s) : s \in VSSpecs \cup DRSpecs} \cup {None} :
    /\ x # None => x.spec \in UserSpecs(o)
    /\ x # obj[o]
    /\ obj' = [obj EXCEPT ![o] = x]
    /\ edited' = edited \cup {o}
    /\ UNCHANGED <<port, cr>>

UserTogglesTraffic ==
  /\ cr # None /\ ~cr.deleting
  /\ cr' = [cr EXCEPT !.enabled = ~@]
  /\ UNCHANGED <<obj, port, edited>>

UserDeletesCR ==
  /\ cr # None /\ ~cr.deleting
  /\ cr' = IF cr.fin THEN [cr EXCEPT !.deleting = TRUE] ELSE None
  /\ UNCHANGED <<obj, port, edited>>

ServiceChanges ==
  /\ port' \in (LivePorts \cup {None}) \ {port}
  /\ UNCHANGED <<obj, cr, edited>>

Environment ==
  /\ ops < MaxOps /\ ops' = ops + 1
  /\ UserEditsObject \/ UserTogglesTraffic \/ UserDeletesCR \/ ServiceChanges
  /\ UNCHANGED <<seen, passVars, faults, lossy>>

Pass ==
  \/ Reconcile
  \/ \E r \in Outcome :
       \/ reconcileTraffic(r) \/ GetObject(r) \/ PatchObject(r) \/ patchStatus(r)
       \/ restoreGet(r) \/ restoreWrite(r) \/ removeFinalizer(r)

Next == Pass \/ Crash \/ Sync \/ Environment

Spec == Init /\ [][Next]_vars

\* Events, errors and resyncs bring the next pass, and the cache catches up.
FairSpec == Spec /\ WF_vars(Pass) /\ WF_vars(Sync)

-----------------------------------------------------------------------------
(* Properties.                                                             *)

\* Every variable has its type.  The position never passes the end of the
\* declared objects: there is at most one snapshot of each.
TypeOK ==
  /\ obj \in [Objects -> Object \cup {None}]
  /\ port \in LivePorts \cup {None}
  /\ cr \in CR \cup {None} /\ seen \in CR \cup {None}
  /\ pc \in {"idle", "resolve", "get", "patch", "patchStatus", "restoreGet", "restoreWrite",
             "release"}
  /\ base \in CR \cup {None} /\ mem \in CR \cup {None}
  /\ target \in LivePorts \cup {ServicePort, None}
  /\ i \in 0..(Len(Refs) + 1)
  /\ read \in Object \cup {None}
  /\ ops \in 0..MaxOps /\ faults \in 0..MaxFaults
  /\ lossy \in BOOLEAN /\ edited \subseteq Objects

\* What adapted means, whatever the code does: every destination that leads to
\* the Service, on the port declared for it or the one it has, leads to port t
\* and to no subset.  Without any such port, every destination is meant.
LeadsTo(o, s, t) ==
  \A n \in DOMAIN s :
    /\ serviceHostMatches(s[n].host)
    /\ o.kind = "vs" => s[n].port \in {ServicePort, t} \ {None} \/ {ServicePort, t} = {None}
    => ~s[n].subset /\ (o.kind = "vs" /\ t # None => s[n].port = t)

SnapshotsOf(c, o) == {n \in DOMAIN c.snap[o.kind] : c.snap[o.kind][n].name = o.name}

\* Between passes, an object that carries the operator's rewriting has in the
\* CR a snapshot of what its user wrote, and once the CR is released no object
\* carries it any more.
OriginalsKept ==
  pc = "idle" =>
    \A o \in Objects : obj[o] # None /\ obj[o].by = "ifaas" =>
      /\ cr # None
      /\ \E n \in SnapshotsOf(cr, o) : cr.snap[o.kind][n].by = "user"

\* ... unless a pass was cut short, could not store its status or read a stale
\* CR.
OriginalsKeptUnlessLost == ~lossy => OriginalsKept

\* The service finalizer goes only when every snapshot of the CR has been
\* written back, whatever failed on the way and whatever the cache showed, and
\* only users have changed the objects since.
ReleaseRestores ==
  [][cr # None /\ cr' = None /\ ops' = ops =>
       \A o \in Objects \ edited : \A n \in SnapshotsOf(cr, o) :
         obj[o] # None /\ obj[o].spec = cr.snap[o.kind][n].spec]_vars

\* An object may be declared twice.
LastOf(n) == \A m \in DOMAIN Refs : m > n => Refs[m] # Refs[n]

\* observedRoutes has one entry per declared object, and an entry that says
\* ready is true of its object, whatever became of the objects before it.  Of
\* several entries for one object it is the last that counts.
ObservedRoutesExact ==
  pc = "patchStatus" /\ mem.enabled /\ ~(i = 1 /\ mem.routes = <<FALSE>>) =>
    /\ Len(mem.routes) = Len(Refs)
    /\ \A n \in DOMAIN Refs : mem.routes[n] /\ LastOf(n) /\ Refs[n] \notin edited =>
         /\ obj[Refs[n]] # None
         /\ LeadsTo(Refs[n], obj[Refs[n]].spec, target)

CurrentTarget == IF port # None THEN port ELSE ServicePort

\* While traffic adaptation stays enabled, every declared object that exists is
\* in the end adapted to the Service's port, whatever failed before, whichever
\* other declared object is missing or has no name.
Adapts ==
  <>[](cr # None /\ ~cr.deleting /\ cr.enabled) =>
    <>[](\A o \in Objects : obj[o] # None => LeadsTo(o, obj[o].spec, CurrentTarget))

\* A CR that is being deleted is eventually released.
TrafficReleased == cr # None /\ cr.deleting ~> cr = None
=============================================================================
