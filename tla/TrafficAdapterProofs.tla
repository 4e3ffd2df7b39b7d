------------------------ MODULE TrafficAdapterProofs ------------------------
(***************************************************************************)
(* Theorems about traffic adaptation, for any refs, specs, ports and       *)
(* bounds, with or without a lagging cache.                                *)
(*                                                                         *)
(* The inductive invariant IInv says where a pass is and what it has       *)
(* already done: Lists (the snapshots of every copy of the CR), Place (the *)
(* position), Life (what the cache may show of a deleted CR), Exact (the   *)
(* routes observed so far), WrittenBack (the objects restored so far) and  *)
(* Kept (where the original of a rewritten object is).                     *)
(***************************************************************************)
EXTENDS TrafficAdapter, FiniteSetTheorems, TLAPS

Adopting == {"resolve", "get", "patch", "patchStatus"}
Restoring == {"restoreGet", "restoreWrite", "release"}

\* A list of snapshots of one kind: at most one of each declared object.
GoodList(k, l) ==
  \A n \in DOMAIN l :
    /\ [kind |-> k, name |-> l[n].name] \in Objects
    /\ k = "dr" => Len(l[n].spec) = 1
    /\ \A m \in DOMAIN l : l[m].name = l[n].name => m = n

Good(c) == c # None => c \in CR /\ \A k \in Kinds : GoodList(k, c.snap[k])

Lists == Good(cr) /\ Good(seen) /\ Good(base) /\ Good(mem)

\* The spec of a DestinationRule is one entry.
Shaped(o, x) == x # None /\ o.kind = "dr" => Len(x.spec) = 1

Place ==
  /\ \A o \in Objects : Shaped(o, obj[o])
  /\ IF pc = "idle" THEN base = None /\ mem = None /\ i = 0 ELSE base # None /\ mem # None
  /\ pc = "resolve" => i = 1
  /\ pc \in {"get", "patch"} =>
       /\ i \in DOMAIN Refs /\ mem.enabled
       /\ Len(mem.routes) = i - 1 /\ mem.ready \in BOOLEAN
  /\ pc = "patch" =>
       /\ Refs[i] \in Objects /\ read # None /\ Shaped(Refs[i], read)
       /\ SnapshotsOf(mem, Refs[i]) # {}
       /\ Refs[i] \notin edited => obj[Refs[i]] = read
  /\ pc = "patchStatus" =>
       \/ i = 1 /\ ~mem.enabled
       \/ i = 1 /\ mem.routes = <<FALSE>>
       \/ i = Len(Refs) + 1 /\ Len(mem.routes) = Len(Refs)
  /\ pc \in Restoring => mem = base
  /\ pc \in {"restoreGet", "restoreWrite"} => i \in DOMAIN Items(mem)
  /\ pc = "restoreWrite" =>
       /\ Shaped(Items(mem)[i].o, read)
       /\ Items(mem)[i].o \notin edited => obj[Items(mem)[i].o] = read
  /\ pc = "release" => i = Len(Items(mem)) + 1

Life ==
  /\ Lag /\ cr = None => seen = None \/ seen.deleting \/ ~seen.fin
  /\ Lag /\ cr # None /\ seen # None => (seen.fin => cr.fin) /\ (seen.deleting => cr.deleting)
  /\ pc \in Adopting => cr # None /\ cr.fin
  /\ pc \in Restoring =>
       /\ base.deleting
       /\ cr # None => cr.deleting
       /\ Lag /\ seen # None => seen.deleting

Exact ==
  pc \in {"get", "patch", "patchStatus"} =>
    \A n \in 1..(i - 1) : mem.routes[n] /\ LastOf(n) /\ Refs[n] \notin edited =>
      /\ Refs[n] \in Objects /\ obj[Refs[n]] # None
      /\ LeadsTo(Refs[n], obj[Refs[n]].spec, target)

WrittenBack ==
  pc \in Restoring =>
    \A n \in DOMAIN Items(mem) : n < i /\ Items(mem)[n].o \notin edited =>
      obj[Items(mem)[n].o] # None /\ obj[Items(mem)[n].o].spec = Items(mem)[n].spec

Ours(o) == obj[o] # None /\ obj[o].by = "ifaas"
ByUsers(c) == c # None => \A k \in Kinds : \A n \in DOMAIN c.snap[k] : c.snap[k][n].by = "user"

Kept ==
  ~lossy =>
    /\ ByUsers(cr) /\ ByUsers(seen) /\ ByUsers(base) /\ ByUsers(mem)
    /\ pc # "idle" /\ cr # None => base.snap = cr.snap
    /\ \A o \in Objects : Ours(o) =>
         /\ cr # None /\ cr.fin
         /\ pc = "idle" => SnapshotsOf(cr, o) # {}
         /\ pc \in Adopting => SnapshotsOf(mem, o) # {}
         /\ pc \in Restoring => \E n \in DOMAIN Items(mem) : n >= i /\ Items(mem)[n].o = o
    /\ pc = "restoreWrite" /\ read = None => ~Ours(Items(mem)[i].o)

\* The types of what Lists and Counters do not speak of.
TypeRest ==
  /\ obj \in [Objects -> Object \cup {None}]
  /\ port \in LivePorts \cup {None}
  /\ pc \in {"idle", "resolve", "get", "patch", "patchStatus", "restoreGet", "restoreWrite",
             "release"}
  /\ target \in LivePorts \cup {ServicePort, None}
  /\ i \in 0..(Len(Refs) + 1)
  /\ read \in Object \cup {None}
  /\ lossy \in BOOLEAN /\ edited \subseteq Objects

Strong == TypeRest /\ Lists /\ Place /\ Life /\ Exact /\ WrittenBack /\ Kept

Counters == ops \in 0..MaxOps /\ faults \in 0..MaxFaults

IInv == Counters /\ Strong

-----------------------------------------------------------------------------
(* The rewriting of a spec.                                                *)

LEMMA RewrittenType ==
  ASSUME NEW d \in Destination, NEW t \in Nat \cup {None}
  PROVE  Rewritten(d, t) \in Destination
BY Zenon DEF Rewritten, Destination

LEMMA AdaptedType ==
  ASSUME NEW o, NEW s \in Seq(Destination), NEW t \in Nat \cup {None}
  PROVE  Adapted(o, s, t) \in Seq(Destination) /\ Len(Adapted(o, s, t)) = Len(s)
<1>1. \A n \in DOMAIN s : s[n] \in Destination
  OBVIOUS
<1>2. \A n \in DOMAIN s : Rewritten(s[n], t) \in Destination /\ Rewritten(s[n], None) \in Destination
  BY <1>1, RewrittenType, Zenon
<1>3. CASE o.kind = "vs"
  BY <1>1, <1>2, <1>3 DEF Adapted, stripSubsetFromTargetDestinations
<1>4. CASE o.kind # "vs"
  BY <1>1, <1>2, <1>4 DEF Adapted, stripTargetServiceSubsets
<1>5. QED
  BY <1>3, <1>4

\* The rewriting does what adapted means: no destination on a managed port keeps
\* its subset or another port.
LEMMA AdaptedLeads ==
  ASSUME NEW o, NEW s \in Seq(Destination), NEW t \in Nat \cup {None}
  PROVE  LeadsTo(o, Adapted(o, s, t), t)
<1> DEFINE a == Adapted(o, s, t)
<1> SUFFICES ASSUME NEW n \in DOMAIN a, serviceHostMatches(a[n].host),
                    o.kind = "vs" => \/ a[n].port \in {ServicePort, t} \ {None}
                                     \/ {ServicePort, t} = {None}
             PROVE  ~a[n].subset /\ (o.kind = "vs" /\ t # None => a[n].port = t)
  BY Zenon DEF LeadsTo
<1>1. n \in DOMAIN s
  BY AdaptedType
<1>2. s[n] \in Destination
  BY <1>1
<1>3. \A u : /\ Rewritten(s[n], u).host = s[n].host /\ ~Rewritten(s[n], u).subset
             /\ Rewritten(s[n], u).port = IF u = None THEN s[n].port ELSE u
  BY <1>2, Zenon DEF Rewritten, Destination
<1>4. CASE o.kind = "vs"
  <2> DEFINE managed == /\ serviceHostMatches(s[n].host)
                        /\ destinationMatchesManagedPort(s[n], trafficManagedPortSet(t))
  <2>1. a[n] = IF managed THEN Rewritten(s[n], t) ELSE s[n]
    BY <1>1, <1>4, Zenon DEF Adapted, stripSubsetFromTargetDestinations
  <2>2. CASE managed
    BY <1>3, <2>1, <2>2, Zenon
  <2>3. CASE ~managed
    <3>1. a[n] = s[n]
      BY <2>1, <2>3, Zenon
    <3> HIDE DEF a
    <3>2. QED
      BY <1>4, <2>3, <3>1, Zenon DEF destinationMatchesManagedPort, trafficManagedPortSet
  <2>4. QED
    BY <2>2, <2>3, Zenon
<1>5. CASE o.kind # "vs"
  <2>1. a[n] = IF serviceHostMatches(s[n].host) THEN Rewritten(s[n], None) ELSE s[n]
    BY <1>1, <1>5, Zenon DEF Adapted, stripTargetServiceSubsets
  <2> HIDE DEF a
  <2>2. QED
    BY <1>3, <1>5, <2>1, Zenon
<1>6. QED
  BY <1>4, <1>5, Zenon

\* A merge patch keeps the type, and the one entry of a DestinationRule.
LEMMA MergedType ==
  ASSUME NEW o, NEW live \in Seq(Destination), NEW from \in Seq(Destination),
         NEW to \in Seq(Destination), o.kind # "vs" => Len(live) = 1 /\ Len(from) = 1 /\ Len(to) = 1
  PROVE  /\ MergePatched(o, live, from, to) \in Seq(Destination)
         /\ o.kind # "vs" => Len(MergePatched(o, live, from, to)) = 1
<1>1. CASE from = to \/ o.kind = "vs"
  BY <1>1 DEF MergePatched
<1>2. CASE from # to /\ o.kind # "vs"
  <2> DEFINE e(n) == [f \in DOMAIN live[n] |->
                        IF from[n][f] # to[n][f] THEN to[n][f] ELSE live[n][f]]
  <2>1. \A n \in DOMAIN live : live[n] \in Destination /\ to[n] \in Destination
    BY <1>2
  <2>2. \A n \in DOMAIN live : e(n) \in Destination
    BY <2>1, Zenon DEF Destination
  <2>3. MergePatched(o, live, from, to) = [n \in DOMAIN live |-> e(n)]
    BY <1>2 DEF MergePatched
  <2> HIDE DEF e
  <2>4. QED
    BY <1>2, <2>2, <2>3
<1>3. QED
  BY <1>1, <1>2

\* A merge patch computed from the live spec leads to the spec it is to lead to.
LEMMA MergedSame ==
  ASSUME NEW o, NEW from \in Seq(Destination), NEW to \in Seq(Destination),
         o.kind # "vs" => Len(from) = 1 /\ Len(to) = 1
  PROVE  MergePatched(o, from, from, to) = to
<1>1. CASE from = to \/ o.kind = "vs"
  BY <1>1 DEF MergePatched
<1>2. CASE from # to /\ o.kind # "vs"
  <2> DEFINE e(n) == [f \in DOMAIN from[n] |->
                        IF from[n][f] # to[n][f] THEN to[n][f] ELSE from[n][f]]
  <2>1. \A n \in DOMAIN from : from[n] \in Destination /\ to[n] \in Destination
    BY <1>2
  <2>2. \A n \in DOMAIN from : e(n) = to[n]
    BY <2>1 DEF Destination
  <2>3. MergePatched(o, from, from, to) = [n \in DOMAIN from |-> e(n)]
    BY <1>2 DEF MergePatched
  <2>4. DOMAIN from = DOMAIN to
    BY <1>2
  <2> HIDE DEF e
  <2>5. [n \in DOMAIN from |-> e(n)] = [n \in DOMAIN to |-> to[n]]
    BY <2>2, <2>4
  <2>6. QED
    BY <2>3, <2>5
<1>3. QED
  BY <1>1, <1>2

-----------------------------------------------------------------------------
(* Refs, objects and snapshots.                                            *)

LEMMA Concat ==
  ASSUME NEW S, NEW p \in Seq(S), NEW q \in Seq(S)
  PROVE  /\ p \o q \in Seq(S) /\ Len(p \o q) = Len(p) + Len(q)
         /\ \A n \in DOMAIN (p \o q) : \/ n \in DOMAIN p /\ (p \o q)[n] = p[n]
                                       \/ n - Len(p) \in DOMAIN q /\ (p \o q)[n] = q[n - Len(p)]
         /\ \A n \in DOMAIN p : n \in DOMAIN (p \o q) /\ (p \o q)[n] = p[n]
         /\ \A n \in DOMAIN q : Len(p) + n \in DOMAIN (p \o q) /\ (p \o q)[Len(p) + n] = q[n]
OBVIOUS

LEMMA Elements ==
  ASSUME NEW S, NEW s \in Seq(S)
  PROVE  Len(s) \in Nat /\ DOMAIN s = 1..Len(s) /\ \A n \in DOMAIN s : s[n] \in S
OBVIOUS

LEMMA RefsType == Refs \in Seq([kind : Kinds, name : STRING])
<1> DEFINE S == [kind : Kinds, name : STRING]
           p == [n \in 1..Len(VSRefs) |-> [kind |-> "vs", name |-> VSRefs[n]]]
           q == [n \in 1..Len(DRRefs) |-> [kind |-> "dr", name |-> DRRefs[n]]]
<1>1. VSRefs \in Seq(STRING) /\ DRRefs \in Seq(STRING)
  BY TrafficAssumption
<1>2. p \in Seq(S) /\ q \in Seq(S)
  BY <1>1 DEF Kinds
<1>3. Refs = p \o q
  BY Zenon DEF Refs
<1> HIDE DEF p, q, S
<1>4. Refs \in Seq(S)
  BY <1>2, <1>3, Concat
<1>5. QED
  BY <1>4 DEF S

LEMMA ObjectsType ==
  /\ \A o \in Objects : /\ o.kind \in Kinds /\ o.name \in STRING
                        /\ o = [kind |-> o.kind, name |-> o.name]
                        /\ \E n \in DOMAIN Refs : Refs[n] = o
  /\ \A n \in DOMAIN Refs : Refs[n].name # "empty" => Refs[n] \in Objects
<1>1. \A n \in DOMAIN Refs : Refs[n] \in [kind : Kinds, name : STRING]
  BY RefsType, Elements, Zenon
<1>2. QED
  BY <1>1, Zenon DEF Objects

LEMMA UserSpecsType ==
  ASSUME NEW o, NEW s \in UserSpecs(o)
  PROVE  s \in Seq(Destination) /\ ByUser(s) \in Object /\ Shaped(o, ByUser(s))
<1>1. s \in Seq(Destination) /\ (o.kind = "dr" => Len(s) = 1)
  BY TrafficAssumption DEF UserSpecs
<1>2. QED
  BY <1>1, Zenon DEF ByUser, Object, Shaped

\* The snapshots are written back one by one, and none is left out.
LEMMA ItemsFacts ==
  ASSUME NEW c \in CR
  PROVE  /\ DOMAIN Items(c) = 1..Len(Items(c)) /\ Len(Items(c)) \in Nat
         /\ \A n \in DOMAIN Items(c) :
              \/ n \in DOMAIN c.snap["vs"] /\ Items(c)[n] = Item("vs", c.snap["vs"][n])
              \/ LET m == n - Len(c.snap["vs"]) IN
                 m \in DOMAIN c.snap["dr"] /\ Items(c)[n] = Item("dr", c.snap["dr"][m])
         /\ \A k \in Kinds : \A m \in DOMAIN c.snap[k] : \E n \in DOMAIN Items(c) :
              Items(c)[n] = Item(k, c.snap[k][m])
         /\ Len(Items(c)) = 0 <=> \A k \in Kinds : Len(c.snap[k]) = 0
<1> DEFINE v == c.snap["vs"]
           d == c.snap["dr"]
           S == {Item("vs", v[n]) : n \in DOMAIN v} \cup {Item("dr", d[n]) : n \in DOMAIN d}
           p == [n \in DOMAIN v |-> Item("vs", v[n])]
           q == [n \in DOMAIN d |-> Item("dr", d[n])]
           I == p \o q
<1>1. v \in Seq(Snapshot) /\ d \in Seq(Snapshot)
  BY DEF CR, Kinds
<1> HIDE DEF v, d
<1>2. p \in Seq(S) /\ q \in Seq(S) /\ Len(p) = Len(v) /\ Len(q) = Len(d)
  BY <1>1
<1>3. /\ \A n \in DOMAIN v : p[n] = Item("vs", v[n])
      /\ \A n \in DOMAIN d : q[n] = Item("dr", d[n])
      /\ DOMAIN p = DOMAIN v /\ DOMAIN q = DOMAIN d
  BY Zenon
<1> HIDE DEF p, q, S
<1>4. /\ I \in Seq(S) /\ Len(I) = Len(p) + Len(q)
      /\ \A n \in DOMAIN I : \/ n \in DOMAIN p /\ I[n] = p[n]
                             \/ n - Len(p) \in DOMAIN q /\ I[n] = q[n - Len(p)]
      /\ \A n \in DOMAIN p : n \in DOMAIN I /\ I[n] = p[n]
      /\ \A n \in DOMAIN q : Len(p) + n \in DOMAIN I /\ I[Len(p) + n] = q[n]
  BY <1>2
<1> HIDE DEF I
<1>5. DOMAIN I = 1..Len(I) /\ Len(I) \in Nat
  BY <1>4
<1>6. Len(I) = 0 <=> Len(v) = 0 /\ Len(d) = 0
  BY <1>1, <1>2, <1>4
<1>7. \A n \in DOMAIN I :
        \/ n \in DOMAIN v /\ I[n] = Item("vs", v[n])
        \/ n - Len(v) \in DOMAIN d /\ I[n] = Item("dr", d[n - Len(v)])
  <2>1. Len(p) = Len(v)
    BY <1>2, Zenon
  <2>2. QED
    BY <1>3, <1>4, <2>1
<1>8. /\ \A m \in DOMAIN v : \E n \in DOMAIN I : I[n] = Item("vs", v[m])
      /\ \A m \in DOMAIN d : \E n \in DOMAIN I : I[n] = Item("dr", d[m])
  BY <1>3, <1>4
<1>9. /\ \A k \in Kinds : \A m \in DOMAIN c.snap[k] : \E n \in DOMAIN I :
           I[n] = Item(k, c.snap[k][m])
      /\ Len(I) = 0 <=> \A k \in Kinds : Len(c.snap[k]) = 0
  BY <1>6, <1>8, Zenon DEF Kinds, v, d
<1>10. QED
  BY <1>5, <1>7, <1>9, Zenon DEF Items, I, p, q, v, d

\* Every snapshot is of a declared object and has a type; no object has two.
LEMMA GoodItems ==
  ASSUME NEW c, c # None, Good(c)
  PROVE  /\ \A n \in DOMAIN Items(c) :
              /\ Items(c)[n].o \in Objects
              /\ Items(c)[n].spec \in Seq(Destination) /\ Items(c)[n].by \in {"user", "ifaas"}
              /\ Items(c)[n].o.kind = "dr" => Len(Items(c)[n].spec) = 1
         /\ \A n, m \in DOMAIN Items(c) : Items(c)[n].o = Items(c)[m].o => n = m
         /\ Len(Items(c)) <= Len(Refs)
<1> DEFINE v == c.snap["vs"]
           d == c.snap["dr"]
<1>1. c \in CR /\ GoodList("vs", v) /\ GoodList("dr", d)
  BY Zenon DEF Good, Kinds
<1>2. v \in Seq(Snapshot) /\ d \in Seq(Snapshot)
  BY <1>1 DEF CR, Kinds
<1>3. \A n \in DOMAIN Items(c) :
        \/ n \in DOMAIN v /\ Items(c)[n] = Item("vs", v[n])
        \/ n - Len(v) \in DOMAIN d /\ Items(c)[n] = Item("dr", d[n - Len(v)])
  BY <1>1, ItemsFacts, Zenon
<1> HIDE DEF v, d
<1>4. \A n, m \in DOMAIN Items(c) : Items(c)[n].o = Items(c)[m].o => n = m
  <2> SUFFICES ASSUME NEW n \in DOMAIN Items(c), NEW m \in DOMAIN Items(c), Items(c)[n].o = Items(c)[m].o
               PROVE  n = m
    OBVIOUS
  <2>1. CASE n \in DOMAIN v /\ Items(c)[n] = Item("vs", v[n])
    <3>1. Items(c)[m].o.kind = "vs"
      BY <2>1 DEF Item
    <3>2. m \in DOMAIN v /\ Items(c)[m] = Item("vs", v[m])
      BY <1>3, <3>1 DEF Item
    <3>3. v[n].name = v[m].name
      BY <2>1, <3>2 DEF Item
    <3>4. QED
      BY <1>1, <2>1, <3>2, <3>3, Zenon DEF GoodList
  <2>2. CASE n - Len(v) \in DOMAIN d /\ Items(c)[n] = Item("dr", d[n - Len(v)])
    <3>1. Items(c)[m].o.kind = "dr"
      BY <2>2 DEF Item
    <3>2. m - Len(v) \in DOMAIN d /\ Items(c)[m] = Item("dr", d[m - Len(v)])
      BY <1>3, <3>1 DEF Item
    <3>3. d[n - Len(v)].name = d[m - Len(v)].name
      BY <2>2, <3>2 DEF Item
    <3>4. n - Len(v) = m - Len(v)
      BY <1>1, <2>2, <3>2, <3>3, Zenon DEF GoodList
    <3>5. n \in Nat /\ m \in Nat /\ Len(v) \in Nat
      BY <1>1, <1>2, ItemsFacts
    <3>6. QED
      BY <3>4, <3>5
  <2>3. QED
    BY <1>3, <2>1, <2>2, Zenon
<1>5. \A n \in DOMAIN Items(c) :
        /\ Items(c)[n].o \in Objects
        /\ Items(c)[n].spec \in Seq(Destination) /\ Items(c)[n].by \in {"user", "ifaas"}
        /\ Items(c)[n].o.kind = "dr" => Len(Items(c)[n].spec) = 1
  <2>1. \A x \in Snapshot : x.spec \in Seq(Destination) /\ x.by \in {"user", "ifaas"}
    BY DEF Snapshot
  <2>2. (\A n \in DOMAIN v : v[n] \in Snapshot) /\ (\A n \in DOMAIN d : d[n] \in Snapshot)
    BY <1>2
  <2>3. \A k, x : Item(k, x).o = [kind |-> k, name |-> x.name] /\ Item(k, x).spec = x.spec
                 /\ Item(k, x).by = x.by /\ Item(k, x).o.kind = k
    BY Zenon DEF Item
  <2>4. \A n \in DOMAIN v : [kind |-> "vs", name |-> v[n].name] \in Objects
    BY <1>1, Zenon DEF GoodList
  <2>5. \A n \in DOMAIN d : [kind |-> "dr", name |-> d[n].name] \in Objects /\ Len(d[n].spec) = 1
    BY <1>1, Zenon DEF GoodList
  <2>6. "vs" # "dr"
    OBVIOUS
  <2> SUFFICES ASSUME NEW n \in DOMAIN Items(c)
               PROVE  /\ Items(c)[n].o \in Objects
                      /\ Items(c)[n].spec \in Seq(Destination) /\ Items(c)[n].by \in {"user", "ifaas"}
                      /\ Items(c)[n].o.kind = "dr" => Len(Items(c)[n].spec) = 1
    OBVIOUS
  <2>7. CASE n \in DOMAIN v /\ Items(c)[n] = Item("vs", v[n])
    <3>1. /\ Items(c)[n].o = [kind |-> "vs", name |-> v[n].name] /\ Items(c)[n].spec = v[n].spec
          /\ Items(c)[n].by = v[n].by /\ Items(c)[n].o.kind = "vs"
      BY <2>3, <2>7
    <3>2. QED
      BY <2>1, <2>2, <2>4, <2>6, <2>7, <3>1, Zenon
  <2>8. CASE n - Len(v) \in DOMAIN d /\ Items(c)[n] = Item("dr", d[n - Len(v)])
    <3> DEFINE m == n - Len(v)
    <3>1. /\ Items(c)[n].o = [kind |-> "dr", name |-> d[m].name] /\ Items(c)[n].spec = d[m].spec
          /\ Items(c)[n].by = d[m].by /\ m \in DOMAIN d
      BY <2>3, <2>8
    <3> HIDE DEF m
    <3>2. QED
      BY <2>1, <2>2, <2>5, <3>1, Zenon
  <2>9. QED
    BY <1>3, <2>7, <2>8, Zenon
<1>6. Len(Items(c)) <= Len(Refs)
  <2> DEFINE f == [n \in DOMAIN Items(c) |-> CHOOSE m \in DOMAIN Refs : Refs[m] = Items(c)[n].o]
             a == Len(Items(c))
             b == Len(Refs)
  <2>1. \A n \in DOMAIN Items(c) : f[n] \in DOMAIN Refs /\ Refs[f[n]] = Items(c)[n].o
    BY <1>5, ObjectsType, Zenon
  <2>2. /\ DOMAIN Items(c) = 1..a /\ DOMAIN Refs = 1..b /\ a \in Nat /\ b \in Nat
    BY <1>1, ItemsFacts, RefsType
  <2>3. f \in [1..a -> 1..b]
    BY <2>1, <2>2, Zenon
  <2> HIDE DEF f, a, b
  <2>4. \A n, m \in 1..a : f[n] = f[m] => n = m
    BY <1>4, <2>1, <2>2, Zenon
  <2>5. /\ IsFiniteSet(1..a) /\ Cardinality(1..a) = a
        /\ IsFiniteSet(1..b) /\ Cardinality(1..b) = b
    BY <2>2, FS_Interval
  <2>6. ~(b < a)
    <3> SUFFICES ASSUME b < a PROVE FALSE
      OBVIOUS
    <3>1. \E n, m \in 1..a : n # m /\ f[n] = f[m]
      BY <2>3, <2>5, FS_PigeonHole, Zenon
    <3>2. QED
      BY <2>4, <3>1
  <2>7. a <= b
    BY <2>2, <2>6
  <2>8. QED
    BY <2>7 DEF a, b
<1>7. QED
  BY <1>4, <1>5, <1>6

-----------------------------------------------------------------------------
(* Updates of a CR.                                                        *)

\* Everything but the snapshots, the routes and the condition.
SameMeta(c, e) == e.deleting = c.deleting /\ e.fin = c.fin /\ e.enabled = c.enabled

LEMMA FinUpdate ==
  ASSUME NEW c \in CR, NEW b \in BOOLEAN, NEW e, e = [c EXCEPT !.fin = b]
  PROVE  e \in CR /\ e.snap = c.snap /\ e.fin = b /\ e.deleting = c.deleting
BY Zenon DEF CR

LEMMA DeletingUpdate ==
  ASSUME NEW c \in CR, NEW b \in BOOLEAN, NEW e, e = [c EXCEPT !.deleting = b]
  PROVE  e \in CR /\ e.snap = c.snap /\ e.fin = c.fin /\ e.deleting = b
BY Zenon DEF CR

LEMMA EnabledUpdate ==
  ASSUME NEW c \in CR, NEW b \in BOOLEAN, NEW e, e = [c EXCEPT !.enabled = b]
  PROVE  e \in CR /\ e.snap = c.snap /\ e.fin = c.fin /\ e.deleting = c.deleting
BY Zenon DEF CR

\* What snapshotOnce's append does to a list.
LEMMA AppendFacts ==
  ASSUME NEW S, NEW q \in Seq(S), NEW it \in S, NEW l, l = Append(q, it)
  PROVE  /\ l \in Seq(S)
         /\ \A n \in DOMAIN l : \/ n \in DOMAIN q /\ l[n] = q[n]
                                \/ n = Len(q) + 1 /\ l[n] = it
         /\ \A n \in DOMAIN q : n \in DOMAIN l /\ l[n] = q[n]
         /\ Len(q) + 1 \in DOMAIN l /\ l[Len(q) + 1] = it
<1>1. l \in Seq(S) /\ Len(l) = Len(q) + 1
  OBVIOUS
<1>2. DOMAIN l = 1 .. Len(q) + 1 /\ DOMAIN q = 1 .. Len(q) /\ Len(q) \in Nat
  BY <1>1
<1>3. \A n \in 1 .. Len(q) : l[n] = q[n]
  OBVIOUS
<1>4. l[Len(q) + 1] = it
  OBVIOUS
<1>5. /\ \A n \in DOMAIN l : n \in DOMAIN q \/ n = Len(q) + 1
      /\ \A n \in DOMAIN q : n \in DOMAIN l
      /\ Len(q) + 1 \in DOMAIN l
  BY <1>2
<1>6. QED
  BY <1>1, <1>2, <1>3, <1>4, <1>5, Zenon

\* snapshotOnce keeps what is there and leaves the object with a snapshot.
LEMMA SnapshotOnceFacts ==
  ASSUME NEW m \in CR, Good(m), NEW o \in Objects, NEW x \in Object, Shaped(o, x)
  PROVE  LET e == snapshotOnce(m, o, x) IN
         /\ e \in CR /\ Good(e) /\ SameMeta(m, e) /\ e.routes = m.routes /\ e.ready = m.ready
         /\ SnapshotsOf(e, o) # {}
         /\ \A p \in Objects : SnapshotsOf(m, p) # {} => SnapshotsOf(e, p) # {}
         /\ ByUsers(m) /\ (x.by = "user" \/ SnapshotsOf(m, o) # {}) => ByUsers(e)
<1> DEFINE k == o.kind
           it == [name |-> o.name, spec |-> x.spec, by |-> x.by]
           l == Append(m.snap[k], it)
           e == snapshotOnce(m, o, x)
<1>0. m # None /\ x # None
  BY TrafficAssumption, Zenon
<1>1. CASE hasTrafficObjectSnapshot(m, o)
  <2>1. e = m
    BY <1>1, Zenon DEF snapshotOnce
  <2>2. SnapshotsOf(m, o) # {}
    BY <1>1, Zenon DEF hasTrafficObjectSnapshot, SnapshotsOf
  <2>3. QED
    BY <2>1, <2>2, Zenon DEF SameMeta
<1>2. CASE ~hasTrafficObjectSnapshot(m, o)
  <2>1. k \in Kinds /\ o.name \in STRING /\ o = [kind |-> k, name |-> o.name]
    BY ObjectsType, Zenon
  <2>2. it \in Snapshot
    BY <2>1, Zenon DEF Snapshot, Object
  <2>3. m.snap[k] \in Seq(Snapshot)
    BY <2>1 DEF CR
  <2>4. /\ l \in Seq(Snapshot)
        /\ \A n \in DOMAIN l : \/ n \in DOMAIN m.snap[k] /\ l[n] = m.snap[k][n]
                               \/ n = Len(m.snap[k]) + 1 /\ l[n] = it
        /\ \A n \in DOMAIN m.snap[k] : n \in DOMAIN l /\ l[n] = m.snap[k][n]
        /\ Len(m.snap[k]) + 1 \in DOMAIN l /\ l[Len(m.snap[k]) + 1] = it
    <3> HIDE DEF it
    <3>1. l = Append(m.snap[k], it)
      OBVIOUS
    <3> HIDE DEF k, l
    <3>2. QED
      BY <2>2, <2>3, <3>1, AppendFacts, SMTT(20)
  <2>5. e = [m EXCEPT !.snap[k] = l]
    BY <1>2, Zenon DEF snapshotOnce
  <2> HIDE DEF l, e
  <2>6. /\ e \in CR /\ SameMeta(m, e) /\ e.routes = m.routes /\ e.ready = m.ready
        /\ e.snap[k] = l /\ \A j \in Kinds \ {k} : e.snap[j] = m.snap[j]
    <3>1. k \in Kinds /\ l \in Seq(Snapshot)
      BY <2>1, <2>4, Zenon
    <3> HIDE DEF k
    <3>2. QED
      BY <2>5, <3>1, Zenon DEF CR, SameMeta
  <2>7. it.name = o.name /\ it.spec = x.spec /\ it.by = x.by
    BY Zenon
  <2> HIDE DEF it
  <2>8. \A n \in DOMAIN m.snap[k] : m.snap[k][n].name # o.name
    BY <1>2, Zenon DEF hasTrafficObjectSnapshot
  <2>9. GoodList(k, l)
    <3>1. GoodList(k, m.snap[k])
      BY <1>0, <2>1, Zenon DEF Good
    <3>2. \A n \in DOMAIN l : [kind |-> k, name |-> l[n].name] \in Objects
      BY <2>1, <2>4, <2>7, <3>1, Zenon DEF GoodList
    <3>3. \A n \in DOMAIN l : k = "dr" => Len(l[n].spec) = 1
      BY <1>0, <2>4, <2>7, <3>1, Zenon DEF GoodList, Shaped
    <3>4. \A n, j \in DOMAIN l : l[j].name = l[n].name => j = n
      <4> SUFFICES ASSUME NEW n \in DOMAIN l, NEW j \in DOMAIN l, l[j].name = l[n].name
                   PROVE  j = n
        OBVIOUS
      <4>1. CASE n \in DOMAIN m.snap[k] /\ j \in DOMAIN m.snap[k]
        BY <2>4, <3>1, <4>1, Zenon DEF GoodList
      <4>2. CASE n \in DOMAIN m.snap[k] /\ l[j] = it
        BY <2>4, <2>7, <2>8, <4>2, Zenon
      <4>3. CASE l[n] = it /\ j \in DOMAIN m.snap[k]
        BY <2>4, <2>7, <2>8, <4>3, Zenon
      <4>4. QED
        BY <2>4, <4>1, <4>2, <4>3, Zenon
    <3>5. QED
      BY <3>2, <3>3, <3>4, Zenon DEF GoodList
  <2>10. Good(e)
    BY <1>0, <2>6, <2>9, Zenon DEF Good
  <2>11. SnapshotsOf(e, o) # {}
    BY <2>4, <2>6, <2>7, Zenon DEF SnapshotsOf
  <2>12. \A p \in Objects : SnapshotsOf(m, p) # {} => SnapshotsOf(e, p) # {}
    <3> SUFFICES ASSUME NEW p \in Objects, SnapshotsOf(m, p) # {}
                 PROVE  SnapshotsOf(e, p) # {}
      OBVIOUS
    <3>1. PICK n \in DOMAIN m.snap[p.kind] : m.snap[p.kind][n].name = p.name
      BY Zenon DEF SnapshotsOf
    <3>2. n \in DOMAIN e.snap[p.kind] /\ e.snap[p.kind][n].name = p.name
      BY <2>4, <2>6, <3>1, ObjectsType, Zenon
    <3>3. QED
      BY <3>2, Zenon DEF SnapshotsOf
  <2>13. ASSUME ByUsers(m), x.by = "user" \/ SnapshotsOf(m, o) # {} PROVE ByUsers(e)
    <3>1. x.by = "user"
      BY <1>2, <2>13, Zenon DEF SnapshotsOf, hasTrafficObjectSnapshot
    <3>2. QED
      <4> SUFFICES ASSUME NEW j \in Kinds, NEW n \in DOMAIN e.snap[j] PROVE e.snap[j][n].by = "user"
        BY Zenon DEF ByUsers
      <4>1. \A h \in Kinds : \A a \in DOMAIN m.snap[h] : m.snap[h][a].by = "user"
        BY <1>0, <2>13, Zenon DEF ByUsers
      <4>2. CASE j = k
        <5>1. n \in DOMAIN l /\ e.snap[j][n] = l[n]
          BY <2>6, <4>2, Zenon
        <5>2. l[n].by = "user"
          BY <2>1, <2>4, <2>7, <3>1, <4>1, <5>1, Zenon
        <5>3. QED
          BY <5>1, <5>2, Zenon
      <4>3. CASE j # k
        BY <2>6, <4>1, <4>3, Zenon
      <4>4. QED
        BY <4>2, <4>3, Zenon
  <2>14. QED
    BY <2>6, <2>10, <2>11, <2>12, <2>13, Zenon DEF e
<1>3. QED
  BY <1>1, <1>2, Zenon

-----------------------------------------------------------------------------
(* Steps that many actions share.                                          *)

\* The counters of actions of users and of failures stay within their bounds.
LEMMA BoundsStep ==
  ASSUME Counters, [Next]_vars
  PROVE  Counters'
<1>1. UNCHANGED ops \/ (ops < MaxOps /\ ops' = ops + 1)
  BY Zenon DEF Next, Pass, Reconcile, reconcileTraffic, GetObject, PatchObject, patchStatus,
     restoreGet, restoreWrite, removeFinalizer, Crash, Sync, Environment, vars
<1>2. UNCHANGED faults \/ (faults < MaxFaults /\ faults' = faults + 1)
  BY Zenon DEF Next, Pass, Reconcile, reconcileTraffic, GetObject, PatchObject, patchStatus,
     restoreGet, restoreWrite, removeFinalizer, Crash, Sync, Environment, vars, Spend
<1>3. /\ ops \in 0..MaxOps /\ faults \in 0..MaxFaults
      /\ MaxOps \in Nat /\ MaxFaults \in Nat
  BY TrafficAssumption, Zenon DEF Counters
<1>4. QED
  BY <1>1, <1>2, <1>3 DEF Counters

LEMMA NoneApart ==
  /\ \A x \in Object : x # None
  /\ \A c \in CR : c # None
BY TrafficAssumption, Zenon

LEMMA RefsLength == Len(Refs) \in Nat /\ DOMAIN Refs = 1..Len(Refs)
BY RefsType, Elements, Zenon

\* After a Return the pass claims nothing.
LEMMA Returned ==
  ASSUME Return, \A o \in Objects : Shaped(o, obj'[o])
  PROVE  /\ Place' /\ Exact' /\ WrittenBack'
         /\ Good(base') /\ Good(mem')
         /\ pc' \in {"idle"} /\ target' = None /\ i' \in 0..(Len(Refs) + 1) /\ read' = None
<1>1. 0 \in 0..(Len(Refs) + 1)
  BY RefsLength
<1>2. QED
  BY <1>1, Zenon DEF Return, Place, Exact, WrittenBack, Good, Restoring, Shaped

\* What goes on outside the pass does not disturb it.
LEMMA PassFrame ==
  ASSUME Place, Exact, WrittenBack, UNCHANGED <<obj, edited, passVars>>
  PROVE  Place' /\ Exact' /\ WrittenBack'
<1>1. Place'
  BY Zenon DEF Place, passVars
<1>2. Exact'
  BY Zenon DEF Exact, passVars
<1>3. WrittenBack'
  BY Zenon DEF WrittenBack, passVars
<1>4. QED
  BY <1>1, <1>2, <1>3

LEMMA ObserveFacts ==
  ASSUME NEW m \in CR, Good(m), NEW ok \in BOOLEAN, i \in DOMAIN Refs, m.enabled,
         Len(m.routes) = i - 1, m.ready \in BOOLEAN, Observe(m, ok)
  PROVE  /\ mem' \in CR /\ Good(mem') /\ SameMeta(m, mem') /\ mem'.snap = m.snap
         /\ i' = i + 1 /\ i' \in 0..(Len(Refs) + 1) /\ pc' \in {"get", "patchStatus"}
         /\ Len(mem'.routes) = i /\ mem'.ready \in BOOLEAN
         /\ pc' = "get" => i' \in DOMAIN Refs
         /\ pc' = "patchStatus" => i = Len(Refs)
         /\ \A n \in 1..(i - 1) : mem'.routes[n] = m.routes[n]
         /\ mem'.routes[i] = ok
<1> DEFINE r == Append(m.routes, ok)
           d == m.ready /\ ok
<1>1. m.routes \in Seq(BOOLEAN)
  BY DEF CR
<1>2. i \in Nat /\ i >= 1 /\ i <= Len(Refs)
  BY RefsLength
<1>3. /\ r \in Seq(BOOLEAN) /\ Len(r) = i /\ r[i] = ok
      /\ \A n \in 1..(i - 1) : r[n] = m.routes[n]
  BY <1>1, <1>2
<1>4. d \in BOOLEAN /\ d \in BOOLEAN \cup {None}
  BY Zenon
<1>5. mem' = [m EXCEPT !.routes = r, !.ready = d]
  BY Zenon DEF Observe
<1> HIDE DEF r, d
<1>6. mem' \in CR /\ SameMeta(m, mem') /\ mem'.snap = m.snap /\ mem'.routes = r /\ mem'.ready = d
  <2>1. r \in Seq(BOOLEAN) /\ d \in BOOLEAN \cup {None}
    BY <1>3, <1>4, Zenon
  <2>2. QED
    BY <1>5, <2>1, Zenon DEF CR, SameMeta
<1>7. Good(mem')
  BY <1>6, NoneApart, Zenon DEF Good
<1>8. i' = i + 1 /\ pc' = IF i = Len(Refs) THEN "patchStatus" ELSE "get"
  BY Zenon DEF Observe
<1>9. /\ i' \in 0..(Len(Refs) + 1) /\ pc' \in {"get", "patchStatus"}
      /\ pc' = "get" => i' \in DOMAIN Refs
      /\ pc' = "patchStatus" => i = Len(Refs)
  BY <1>2, <1>8, RefsLength
<1>10. QED
  BY <1>3, <1>4, <1>6, <1>7, <1>8, <1>9, Zenon

LEMMA NextItemFacts ==
  ASSUME mem # None, Good(mem), i \in DOMAIN Items(mem), NextItem
  PROVE  /\ i' = i + 1 /\ i' \in 0..(Len(Refs) + 1) /\ pc' \in {"restoreGet", "release"}
         /\ pc' = "restoreGet" => i' \in DOMAIN Items(mem)
         /\ pc' = "release" => i' = Len(Items(mem)) + 1
         /\ \A n \in DOMAIN Items(mem) : n < i' <=> n < i \/ n = i
<1>1. /\ DOMAIN Items(mem) = 1..Len(Items(mem)) /\ Len(Items(mem)) \in Nat
      /\ Len(Items(mem)) <= Len(Refs)
  BY GoodItems, ItemsFacts, Zenon DEF Good
<1>2. i' = i + 1 /\ pc' = IF i = Len(Items(mem)) THEN "release" ELSE "restoreGet"
  BY Zenon DEF NextItem
<1>3. QED
  BY <1>1, <1>2, RefsLength

-----------------------------------------------------------------------------
(* The initial states, then one lemma per action: each preserves the       *)
(* invariant.                                                              *)

LEMMA InitStrong == Init => Strong
<1> SUFFICES ASSUME Init PROVE Strong
  OBVIOUS
<1> DEFINE e == [k \in Kinds |-> <<>>]
<1>1. <<>> \in Seq(Snapshot) /\ <<>> \in Seq(BOOLEAN) /\ DOMAIN <<>> = {}
  OBVIOUS
<1>2. e \in [Kinds -> Seq(Snapshot)] /\ \A k \in Kinds : DOMAIN e[k] = {}
  BY <1>1, Zenon
<1> HIDE DEF e
<1>3. cr \in CR /\ cr.snap = e /\ ~cr.fin /\ ~cr.deleting /\ seen = cr
  BY <1>1, <1>2, Zenon DEF Init, NewCR, CR, e
<1>4. Good(cr) /\ ByUsers(cr)
  BY <1>2, <1>3, Zenon DEF Good, GoodList, ByUsers
<1>5. Lists
  BY <1>3, <1>4, Zenon DEF Init, Lists, Good
<1>6. /\ obj \in [Objects -> Object \cup {None}]
      /\ \A o \in Objects : Shaped(o, obj[o]) /\ ~Ours(o)
  <2>0. \A o \in Objects : obj[o] # None => obj[o].spec \in UserSpecs(o)
    BY DEF Init
  <2>1. obj \in [Objects -> {ByUser(s) : s \in VSSpecs \cup DRSpecs} \cup {None}]
    BY Zenon DEF Init
  <2>2. ASSUME NEW o \in Objects, obj[o] # None
        PROVE  obj[o] \in Object /\ Shaped(o, obj[o]) /\ obj[o].by = "user"
    <3>1. obj[o].spec \in UserSpecs(o)
      BY <2>0, <2>2, Zenon
    <3>2. PICK s \in VSSpecs \cup DRSpecs : obj[o] = ByUser(s)
      BY <2>1, <2>2, Zenon
    <3>3. obj[o].spec = s /\ obj[o].by = "user"
      BY <3>2 DEF ByUser
    <3>4. QED
      BY <3>1, <3>2, <3>3, UserSpecsType, Zenon
  <2>3. QED
    BY <2>1, <2>2, Zenon DEF Ours, Shaped
<1>7. 0 \in 0..(Len(Refs) + 1)
  BY RefsLength
<1>8. TypeRest
  BY <1>6, <1>7, Zenon DEF Init, TypeRest
<1>9. Place /\ Exact /\ WrittenBack
  BY <1>6, Zenon DEF Init, Place, Exact, WrittenBack, Restoring
<1>10. Life
  BY <1>3, NoneApart, Zenon DEF Init, Life, Adopting, Restoring
<1>11. Kept
  BY <1>3, <1>4, <1>6, Zenon DEF Init, Kept, ByUsers
<1>12. QED
  BY <1>5, <1>8, <1>9, <1>10, <1>11, Zenon DEF Strong

\* Nothing but the counters and the port of the Service changes.
LEMMA PortStep ==
  ASSUME Strong, UNCHANGED <<obj, cr, seen, passVars, lossy, edited>>,
         port' \in LivePorts \cup {None}
  PROVE  Strong'
<1>1. Place' /\ Exact' /\ WrittenBack'
  BY PassFrame, Zenon DEF Strong
<1>2. TypeRest' /\ Lists'
  BY Zenon DEF Strong, TypeRest, Lists, passVars
<1>3. Life'
  BY Zenon DEF Strong, Life, passVars
<1>4. Kept'
  BY Zenon DEF Strong, Kept, passVars, Ours
<1>5. QED
  BY <1>1, <1>2, <1>3, <1>4, Zenon DEF Strong

LEMMA UserEditsObjectStep ==
  ASSUME Strong, UserEditsObject, UNCHANGED <<seen, passVars, lossy>>
  PROVE  Strong'
<1>1. PICK o \in Objects, x \in {ByUser(s) : s \in VSSpecs \cup DRSpecs} \cup {None} :
        /\ x # None => x.spec \in UserSpecs(o)
        /\ obj' = [obj EXCEPT ![o] = x]
        /\ edited' = edited \cup {o}
        /\ UNCHANGED <<port, cr>>
  BY Zenon DEF UserEditsObject
<1>2. x # None => x \in Object /\ Shaped(o, x) /\ x.by = "user"
  <2> SUFFICES ASSUME x # None PROVE x \in Object /\ Shaped(o, x) /\ x.by = "user"
    OBVIOUS
  <2>1. PICK s : x = ByUser(s)
    BY <1>1, Zenon
  <2>2. x.spec = s /\ x.by = "user"
    BY <2>1, Zenon DEF ByUser
  <2>3. QED
    BY <1>1, <2>1, <2>2, UserSpecsType, Zenon
<1>3. /\ obj \in [Objects -> Object \cup {None}]
      /\ obj'[o] = x /\ \A p \in Objects \ {o} : obj'[p] = obj[p]
  BY <1>1, Zenon DEF Strong, TypeRest
<1>4. obj' \in [Objects -> Object \cup {None}]
  BY <1>1, <1>2, <1>3, Zenon
<1>5. TypeRest' /\ Lists' /\ Life'
  <2>1. TypeRest'
    BY <1>1, <1>4, Zenon DEF Strong, TypeRest, passVars
  <2>2. Lists' /\ Life'
    BY <1>1, Zenon DEF Strong, Lists, Life, passVars
  <2>3. QED
    BY <2>1, <2>2
<1>6. Place'
  <2>1. \A p \in Objects : Shaped(p, obj'[p])
    BY <1>2, <1>3, Zenon DEF Strong, Place, Shaped
  <2>2. pc = "patch" /\ Refs[i] \notin edited' => obj'[Refs[i]] = read
    BY <1>1, <1>3, Zenon DEF Strong, Place
  <2>3. pc = "restoreWrite" => Items(mem)[i].o \in Objects
    BY GoodItems, Zenon DEF Strong, Place, Lists
  <2>4. pc = "restoreWrite" /\ Items(mem)[i].o \notin edited' => obj'[Items(mem)[i].o] = read
    BY <1>1, <1>3, <2>3, Zenon DEF Strong, Place
  <2>5. QED
    BY <2>1, <2>2, <2>4, Zenon DEF Strong, Place, passVars
<1>7. Exact'
  BY <1>1, <1>3, Zenon DEF Strong, Exact, passVars
<1>8. WrittenBack'
  <2>1. pc \in Restoring => \A n \in DOMAIN Items(mem) : Items(mem)[n].o \in Objects
    BY GoodItems, Zenon DEF Strong, Place, Lists, Restoring
  <2>2. QED
    BY <1>1, <1>3, <2>1, Zenon DEF Strong, WrittenBack, passVars
<1>9. Kept'
  <2>1. \A p \in Objects : Ours(p)' => Ours(p)
    BY <1>2, <1>3, Zenon DEF Ours
  <2>2. pc = "restoreWrite" => Items(mem)[i].o \in Objects
    BY GoodItems, Zenon DEF Strong, Place, Lists
  <2>3. QED
    BY <1>1, <2>1, <2>2, Zenon DEF Strong, Kept, passVars
<1>10. QED
  BY <1>5, <1>6, <1>7, <1>8, <1>9, Zenon DEF Strong

\* A user may change the CR: its snapshots stay, a deletion is for good.
LEMMA UserChangesCRStep ==
  ASSUME Strong, UserTogglesTraffic \/ UserDeletesCR, UNCHANGED <<seen, passVars, lossy>>
  PROVE  Strong'
<1>1. /\ cr # None /\ ~cr.deleting /\ cr \in CR /\ Good(cr)
      /\ UNCHANGED <<obj, port, edited>>
  BY Zenon DEF Strong, Lists, Good, UserTogglesTraffic, UserDeletesCR
<1>2. cr.fin \in BOOLEAN /\ cr.enabled \in BOOLEAN /\ (~cr.enabled) \in BOOLEAN
  BY <1>1, Zenon DEF CR
<1>3. \/ /\ cr' \in CR /\ cr'.snap = cr.snap /\ cr'.fin = cr.fin
         /\ cr.deleting => cr'.deleting
      \/ cr' = None /\ ~cr.fin
  <2>1. CASE UserTogglesTraffic
    <3>1. cr' = [cr EXCEPT !.enabled = ~cr.enabled]
      BY <2>1, Zenon DEF UserTogglesTraffic
    <3>2. QED
      BY <1>1, <1>2, <3>1, EnabledUpdate, Zenon
  <2>2. CASE UserDeletesCR
    <3>1. cr' = IF cr.fin THEN [cr EXCEPT !.deleting = TRUE] ELSE None
      BY <2>2, Zenon DEF UserDeletesCR
    <3>2. QED
      BY <1>1, <3>1, DeletingUpdate, Zenon
  <2>3. QED
    BY <2>1, <2>2, Zenon
<1>4. Place' /\ Exact' /\ WrittenBack'
  BY <1>1, PassFrame, Zenon DEF Strong
<1>5. TypeRest'
  BY <1>1, Zenon DEF Strong, TypeRest, passVars
<1>6. Lists'
  <2>1. Good(cr')
    BY <1>1, <1>3, Zenon DEF Good
  <2>2. QED
    BY <2>1, Zenon DEF Strong, Lists, passVars
<1>7. Life'
  <2>1. pc \in Restoring => cr.deleting
    BY <1>1, Zenon DEF Strong, Life
  <2>2. pc \in Adopting => cr.fin
    BY <1>1, Zenon DEF Strong, Life
  <2>3. Lag /\ seen # None => (seen.fin => cr.fin) /\ (seen.deleting => cr.deleting)
    BY <1>1, Zenon DEF Strong, Life
  <2>4. pc \in Restoring =>
          /\ base.deleting
          /\ Lag /\ seen # None => seen.deleting
    BY Zenon DEF Strong, Life
  <2>5. CASE cr' \in CR /\ cr'.fin = cr.fin /\ (cr.deleting => cr'.deleting)
    BY <2>1, <2>2, <2>3, <2>4, <2>5, NoneApart, Zenon DEF Life, passVars
  <2>6. CASE cr' = None /\ ~cr.fin
    BY <2>2, <2>3, <2>4, <2>6, Zenon DEF Life, passVars
  <2>7. QED
    BY <1>3, <2>5, <2>6, Zenon
<1>8. Kept'
  <2> SUFFICES ASSUME ~lossy PROVE Kept'
    BY Zenon DEF Kept
  <2>1. /\ ByUsers(cr) /\ ByUsers(seen) /\ ByUsers(base) /\ ByUsers(mem)
        /\ pc # "idle" => base.snap = cr.snap
        /\ \A o \in Objects : Ours(o) =>
             /\ cr.fin
             /\ pc = "idle" => SnapshotsOf(cr, o) # {}
             /\ pc \in Adopting => SnapshotsOf(mem, o) # {}
             /\ pc \in Restoring => \E n \in DOMAIN Items(mem) : n >= i /\ Items(mem)[n].o = o
        /\ pc = "restoreWrite" /\ read = None => ~Ours(Items(mem)[i].o)
    BY <1>1, Zenon DEF Strong, Kept
  <2>2. /\ pc' = pc /\ base' = base /\ mem' = mem /\ i' = i /\ read' = read /\ seen' = seen
        /\ \A o : Ours(o)' <=> Ours(o)
    BY <1>1, Zenon DEF passVars, Ours
  <2>3. CASE cr' \in CR /\ cr'.snap = cr.snap /\ cr'.fin = cr.fin
    <3>1. ByUsers(cr') /\ \A o \in Objects : SnapshotsOf(cr', o) = SnapshotsOf(cr, o)
      BY <1>1, <2>1, <2>3, Zenon DEF ByUsers, SnapshotsOf
    <3>2. cr' # None
      BY <2>3, NoneApart, Zenon
    <3>3. QED
      BY <2>1, <2>2, <2>3, <3>1, <3>2, Zenon DEF Kept
  <2>4. CASE cr' = None /\ ~cr.fin
    <3>1. \A o \in Objects : ~Ours(o)'
      BY <2>1, <2>2, <2>4, Zenon
    <3>2. ByUsers(cr')
      BY <2>4, Zenon DEF ByUsers
    <3>3. QED
      BY <2>1, <2>2, <2>4, <3>1, <3>2, Zenon DEF Kept
  <2>5. QED
    BY <1>3, <2>3, <2>4, Zenon
<1>9. QED
  BY <1>4, <1>5, <1>6, <1>7, <1>8, Zenon DEF Strong

-----------------------------------------------------------------------------
(* The end of a pass.                                                      *)

LEMMA SyncStep ==
  ASSUME Strong, Sync
  PROVE  Strong'
<1>1. UNCHANGED <<obj, port, cr, passVars, lossy, edited>> /\ seen' = cr
  BY Zenon DEF Sync
<1>2. Place' /\ Exact' /\ WrittenBack'
  BY <1>1, PassFrame, Zenon DEF Strong
<1>3. TypeRest' /\ Lists'
  BY <1>1, Zenon DEF Strong, TypeRest, Lists, passVars
<1>4. Life'
  BY <1>1, Zenon DEF Strong, Life, passVars
<1>5. Kept'
  BY <1>1, Zenon DEF Strong, Kept, Ours, passVars
<1>6. QED
  BY <1>2, <1>3, <1>4, <1>5, Zenon DEF Strong

LEMMA CrashStep ==
  ASSUME Strong, Crash
  PROVE  Strong'
<1>1. Return /\ UNCHANGED <<obj, port, cr, edited>> /\ seen' = cr /\ lossy' = TRUE
  BY Zenon DEF Crash
<1>2. \A o \in Objects : Shaped(o, obj'[o])
  BY <1>1, Zenon DEF Strong, Place
<1>3. /\ Place' /\ Exact' /\ WrittenBack' /\ Good(base') /\ Good(mem')
      /\ pc' \in {"idle"} /\ target' = None /\ i' \in 0..(Len(Refs) + 1) /\ read' = None
  BY <1>1, <1>2, Returned, Zenon
<1>4. TypeRest'
  BY <1>1, <1>3, Zenon DEF Strong, TypeRest
<1>5. Lists' /\ Life' /\ Kept'
  BY <1>1, <1>3, Zenon DEF Strong, Lists, Life, Kept, Adopting, Restoring
<1>6. QED
  BY <1>3, <1>4, <1>5, Zenon DEF Strong

\* At the release no object is the operator's any more.
LEMMA NothingLeft ==
  ASSUME Strong, pc = "release", ~lossy, NEW o \in Objects
  PROVE  ~Ours(o)
<1> SUFFICES ASSUME Ours(o) PROVE FALSE
  OBVIOUS
<1>1. /\ DOMAIN Items(mem) = 1..Len(Items(mem)) /\ Len(Items(mem)) \in Nat
  BY ItemsFacts, Zenon DEF Strong, Place, Lists, Good
<1>2. i = Len(Items(mem)) + 1
  BY Zenon DEF Strong, Place
<1>3. \E n \in DOMAIN Items(mem) : n >= i
  BY Zenon DEF Strong, Kept, Restoring
<1>4. QED
  BY <1>1, <1>2, <1>3

LEMMA removeFinalizerStep ==
  ASSUME Strong, NEW r \in Outcome, removeFinalizer(r)
  PROVE  Strong'
<1>1. /\ pc = "release" /\ Return /\ UNCHANGED <<obj, port, seen, lossy, edited>>
      /\ cr' = cr \/ cr' = None
  BY Zenon DEF removeFinalizer
<1>2. \A o \in Objects : Shaped(o, obj'[o])
  BY <1>1, Zenon DEF Strong, Place
<1>3. /\ Place' /\ Exact' /\ WrittenBack' /\ Good(base') /\ Good(mem')
      /\ pc' \in {"idle"} /\ target' = None /\ i' \in 0..(Len(Refs) + 1) /\ read' = None
  BY <1>1, <1>2, Returned, Zenon
<1>4. TypeRest'
  BY <1>1, <1>3, Zenon DEF Strong, TypeRest
<1>5. Lists'
  BY <1>1, <1>3, Zenon DEF Strong, Lists, Good
<1>6. Life'
  BY <1>1, <1>3, Zenon DEF Strong, Life, Adopting, Restoring
<1>7. Kept'
  <2> SUFFICES ASSUME ~lossy PROVE Kept'
    BY <1>1, Zenon DEF Kept
  <2>1. \A o \in Objects : ~Ours(o)'
    <3>1. \A o \in Objects : ~Ours(o)
      BY <1>1, NothingLeft, Zenon
    <3>2. QED
      BY <1>1, <3>1, Zenon DEF Ours
  <2>2. ByUsers(cr') /\ ByUsers(seen') /\ ByUsers(base') /\ ByUsers(mem')
    <3>1. ByUsers(cr) /\ ByUsers(seen)
      BY Zenon DEF Strong, Kept
    <3>2. base' = None /\ mem' = None
      BY <1>1, Zenon DEF Return
    <3>3. QED
      BY <1>1, <3>1, <3>2, Zenon DEF ByUsers
  <2>3. QED
    BY <1>3, <2>1, <2>2, Zenon DEF Kept
<1>8. QED
  BY <1>3, <1>4, <1>5, <1>6, <1>7, Zenon DEF Strong

LEMMA patchStatusStep ==
  ASSUME Strong, NEW r \in Outcome, patchStatus(r)
  PROVE  Strong' /\ cr' # None
<1> DEFINE sn == [k \in Kinds |-> IF mem.snap[k] # base.snap[k] THEN mem.snap[k] ELSE cr.snap[k]]
           rt == IF mem.routes # base.routes THEN mem.routes ELSE cr.routes
           rd == IF mem.ready # base.ready THEN mem.ready ELSE cr.ready
<1>1. /\ pc = "patchStatus" /\ Return /\ UNCHANGED <<obj, port, seen, edited>>
      /\ lossy' = (lossy \/ ~Landed(r))
      /\ cr' = IF cr = None \/ ~Landed(r) THEN cr
               ELSE [cr EXCEPT !.snap = sn, !.routes = rt, !.ready = rd]
  BY Zenon DEF patchStatus
<1>2. \A o \in Objects : Shaped(o, obj'[o])
  BY <1>1, Zenon DEF Strong, Place
<1>3. /\ Place' /\ Exact' /\ WrittenBack' /\ Good(base') /\ Good(mem')
      /\ pc' \in {"idle"} /\ target' = None /\ i' \in 0..(Len(Refs) + 1) /\ read' = None
  BY <1>1, <1>2, Returned, Zenon
<1>4. lossy' \in BOOLEAN /\ (~lossy' => ~lossy /\ Landed(r))
  BY <1>1, Zenon DEF Strong, TypeRest, Landed
<1>5. TypeRest'
  BY <1>1, <1>3, <1>4, Zenon DEF Strong, TypeRest
<1>6. /\ cr # None /\ cr.fin /\ Good(cr) /\ Good(mem)
      /\ cr \in CR /\ mem \in CR /\ base \in CR
  BY <1>1, Zenon DEF Strong, Life, Adopting, Lists, Place, Good
<1>7. sn \in [Kinds -> Seq(Snapshot)] /\ rt \in Seq(BOOLEAN) /\ rd \in BOOLEAN \cup {None}
  BY <1>6, Zenon DEF CR
<1>8. \A k \in Kinds : sn[k] = mem.snap[k] \/ sn[k] = cr.snap[k]
  BY Zenon
<1>9. base.snap = cr.snap => \A k \in Kinds : sn[k] = mem.snap[k]
  BY Zenon
<1> HIDE DEF sn, rt, rd
<1>10. /\ cr' \in CR /\ SameMeta(cr, cr')
       /\ cr'.snap = cr.snap \/ cr'.snap = sn
       /\ Landed(r) => cr'.snap = sn
  <2>1. CASE Landed(r)
    <3>1. cr' = [cr EXCEPT !.snap = sn, !.routes = rt, !.ready = rd]
      BY <1>1, <1>6, <2>1, Zenon
    <3>2. QED
      BY <1>6, <1>7, <3>1, Zenon DEF CR, SameMeta
  <2>2. CASE ~Landed(r)
    BY <1>1, <1>6, <2>2, Zenon DEF SameMeta
  <2>3. QED
    BY <2>1, <2>2, Zenon
<1>11. cr' # None
  BY <1>10, NoneApart, Zenon
<1>12. Lists'
  <2>1. \A k \in Kinds : GoodList(k, cr.snap[k]) /\ GoodList(k, mem.snap[k])
    BY <1>1, <1>6, NoneApart, Zenon DEF Good
  <2>2. \A k \in Kinds : GoodList(k, cr'.snap[k])
    BY <1>8, <1>10, <2>1, Zenon
  <2>3. Good(cr')
    BY <1>10, <2>2, Zenon DEF Good
  <2>4. QED
    BY <1>1, <1>3, <2>3, Zenon DEF Strong, Lists
<1>13. Life'
  BY <1>1, <1>3, <1>6, <1>10, <1>11, Zenon DEF Strong, Life, Adopting, Restoring, SameMeta
<1>14. Kept'
  <2> SUFFICES ASSUME ~lossy, Landed(r) PROVE Kept'
    BY <1>4, Zenon DEF Kept
  <2>1. /\ ByUsers(seen) /\ ByUsers(mem) /\ base.snap = cr.snap
        /\ \A o \in Objects : Ours(o)' => SnapshotsOf(mem, o) # {}
    BY <1>1, <1>6, Zenon DEF Strong, Kept, Ours, Adopting
  <2>2. cr'.snap = sn /\ \A k \in Kinds : sn[k] = mem.snap[k]
    BY <1>9, <1>10, <2>1, Zenon
  <2>3. ByUsers(cr')
    BY <1>6, <2>1, <2>2, NoneApart, Zenon DEF ByUsers
  <2>4. \A o \in Objects : SnapshotsOf(cr', o) = SnapshotsOf(mem, o)
    BY <2>2, ObjectsType, Zenon DEF SnapshotsOf
  <2>5. ByUsers(base') /\ ByUsers(mem')
    BY <1>1, Zenon DEF Return, ByUsers
  <2>6. QED
    BY <1>1, <1>3, <1>6, <1>10, <1>11, <2>1, <2>3, <2>4, <2>5, Zenon
       DEF Kept, Adopting, Restoring, SameMeta
<1>15. QED
  BY <1>3, <1>5, <1>11, <1>12, <1>13, <1>14, Zenon DEF Strong

-----------------------------------------------------------------------------
(* The adoption pass.                                                      *)

LEMMA ReconcileStep ==
  ASSUME Strong, Reconcile
  PROVE  Strong'
<1> DEFINE v == IF Lag THEN seen ELSE cr
<1>1. /\ pc = "idle" /\ v # None /\ Good(v) /\ v \in CR
      /\ UNCHANGED <<obj, port, seen, target, read, edited>>
      /\ mem' = base' /\ i' = 1
      /\ lossy' = (lossy \/ (cr' # None /\ base'.snap # cr'.snap))
  BY Zenon DEF Reconcile, Strong, Lists, Good
<1>2. \/ /\ v.deleting /\ cr' = cr /\ base' = v
         /\ pc' = IF \A k \in Kinds : Len(v.snap[k]) = 0 THEN "release" ELSE "restoreGet"
      \/ ~v.deleting /\ v.fin /\ cr' = cr /\ base' = v /\ pc' = "resolve"
      \/ ~v.deleting /\ ~v.fin /\ cr # None /\ cr' = [cr EXCEPT !.fin = TRUE] /\ base' = cr' /\ pc' = "resolve"
  BY Zenon DEF Reconcile
<1>3. /\ Good(cr') /\ Good(base') /\ base' \in CR /\ base' # None
      /\ cr # None => cr' # None /\ cr'.snap = cr.snap /\ cr'.deleting = cr.deleting
                      /\ (cr.fin => cr'.fin)
      /\ cr = None => cr' = None
  <2>1. CASE cr' = cr /\ base' = v
    BY <1>1, <2>1, Zenon DEF Strong, Lists
  <2>2. CASE cr # None /\ cr' = [cr EXCEPT !.fin = TRUE] /\ base' = cr'
    <3>1. cr \in CR /\ Good(cr)
      BY <2>2, Zenon DEF Strong, Lists, Good
    <3>2. cr' \in CR /\ cr'.snap = cr.snap /\ cr'.fin /\ cr'.deleting = cr.deleting
      BY <2>2, <3>1, FinUpdate, Zenon
    <3>3. Good(cr') /\ cr' # None
      BY <2>2, <3>1, <3>2, NoneApart, Zenon DEF Good
    <3>4. QED
      BY <2>2, <3>2, <3>3, Zenon
  <2>3. QED
    BY <1>2, <2>1, <2>2, Zenon
<1>4. pc' \in {"resolve", "restoreGet", "release"}
  BY <1>2, Zenon
<1>5. TypeRest'
  <2>1. 1 \in 0..(Len(Refs) + 1)
    BY RefsLength
  <2>2. lossy' \in BOOLEAN
    BY <1>1, Zenon DEF Strong, TypeRest
  <2>3. QED
    BY <1>1, <1>4, <2>1, <2>2, Zenon DEF Strong, TypeRest
<1>6. Lists'
  BY <1>1, <1>3, Zenon DEF Strong, Lists
<1>7. pc' \in Restoring =>
        /\ base' = v /\ v.deleting /\ cr' = cr
        /\ pc' = "restoreGet" => i' \in DOMAIN Items(mem')
        /\ pc' = "release" => i' = Len(Items(mem')) + 1
  <2> SUFFICES ASSUME pc' \in Restoring
               PROVE  /\ base' = v /\ v.deleting /\ cr' = cr
                      /\ pc' = "restoreGet" => i' \in DOMAIN Items(mem')
                      /\ pc' = "release" => i' = Len(Items(mem')) + 1
    OBVIOUS
  <2>1. /\ base' = v /\ v.deleting /\ cr' = cr
        /\ pc' = IF \A k \in Kinds : Len(v.snap[k]) = 0 THEN "release" ELSE "restoreGet"
    BY <1>2, Zenon DEF Restoring
  <2> HIDE DEF v
  <2>2. /\ DOMAIN Items(v) = 1..Len(Items(v)) /\ Len(Items(v)) \in Nat
        /\ Len(Items(v)) = 0 <=> \A k \in Kinds : Len(v.snap[k]) = 0
    BY <1>1, ItemsFacts, Zenon
  <2>3. pc' = (IF Len(Items(v)) = 0 THEN "release" ELSE "restoreGet") /\ i' = 1
    BY <1>1, <2>1, <2>2, Zenon
  <2>4. /\ pc' = "restoreGet" => i' \in DOMAIN Items(v)
        /\ pc' = "release" => i' = Len(Items(v)) + 1
    BY <2>2, <2>3
  <2>5. QED
    BY <1>1, <2>1, <2>4, Zenon
<1>8. Place'
  <2>1. \A o \in Objects : Shaped(o, obj'[o])
    BY <1>1, Zenon DEF Strong, Place
  <2>2. QED
    BY <1>1, <1>3, <1>4, <1>7, <2>1, Zenon DEF Place, Restoring
<1>9. Exact'
  BY <1>4, Zenon DEF Exact
<1>10. WrittenBack'
  <2> SUFFICES ASSUME pc' \in Restoring PROVE \A n \in DOMAIN Items(mem') : ~(n < i')
    BY Zenon DEF WrittenBack
  <2>1. DOMAIN Items(mem') = 1..Len(Items(mem')) /\ Len(Items(mem')) \in Nat
    BY <1>1, <1>3, ItemsFacts, Zenon
  <2>2. QED
    BY <1>1, <2>1
<1>11. Life'
  <2>1. /\ Lag /\ cr = None => seen = None \/ seen.deleting \/ ~seen.fin
        /\ Lag /\ cr # None /\ seen # None => (seen.fin => cr.fin) /\ (seen.deleting => cr.deleting)
    BY Zenon DEF Strong, Life
  <2>2. /\ Lag /\ cr' = None => seen' = None \/ seen'.deleting \/ ~seen'.fin
        /\ Lag /\ cr' # None /\ seen' # None => (seen'.fin => cr'.fin) /\ (seen'.deleting => cr'.deleting)
    BY <1>1, <1>3, <2>1, Zenon
  <2>3. pc' \in Adopting => cr' # None /\ cr'.fin
    <3>1. CASE ~v.deleting /\ v.fin /\ cr' = cr
      BY <1>1, <2>1, <3>1, Zenon
    <3>2. CASE cr # None /\ cr' = [cr EXCEPT !.fin = TRUE]
      <4>1. cr \in CR
        BY <3>2, Zenon DEF Strong, Lists, Good
      <4>2. QED
        BY <1>3, <3>2, <4>1, FinUpdate, Zenon
    <3>3. QED
      BY <1>2, <3>1, <3>2, Zenon DEF Adopting
  <2>4. pc' \in Restoring =>
          /\ base'.deleting
          /\ cr' # None => cr'.deleting
          /\ Lag /\ seen' # None => seen'.deleting
    BY <1>1, <1>7, <2>1, Zenon
  <2>5. QED
    BY <2>2, <2>3, <2>4, Zenon DEF Life
<1>12. Kept'
  <2> SUFFICES ASSUME ~lossy, cr' # None => base'.snap = cr'.snap PROVE Kept'
    BY <1>1, Zenon DEF Kept
  <2>1. /\ ByUsers(cr) /\ ByUsers(seen)
        /\ \A o \in Objects : Ours(o)' => cr # None /\ cr.fin /\ SnapshotsOf(cr, o) # {}
    BY <1>1, Zenon DEF Strong, Kept, Ours
  <2>2. ByUsers(cr') /\ ByUsers(base')
    <3>1. ByUsers(cr')
      BY <1>3, <2>1, Zenon DEF ByUsers
    <3>2. QED
      BY <1>1, <1>2, <2>1, <3>1, Zenon
  <2>3. ASSUME NEW o \in Objects, Ours(o)'
        PROVE  /\ cr' # None /\ cr'.fin /\ SnapshotsOf(mem', o) # {}
               /\ pc' \in Restoring => \E n \in DOMAIN Items(mem') : n >= i' /\ Items(mem')[n].o = o
    <3>1. cr' # None /\ cr'.fin /\ SnapshotsOf(cr, o) # {} /\ cr'.snap = cr.snap
      BY <1>3, <2>1, <2>3, Zenon
    <3>2. mem'.snap = cr.snap
      BY <1>1, <3>1, Zenon
    <3>3. PICK m \in DOMAIN mem'.snap[o.kind] : mem'.snap[o.kind][m].name = o.name
      BY <3>1, <3>2, Zenon DEF SnapshotsOf
    <3>4. o.kind \in Kinds /\ o = [kind |-> o.kind, name |-> o.name] /\ mem' \in CR
      BY <1>1, <1>3, ObjectsType, Zenon
    <3>5. PICK n \in DOMAIN Items(mem') : Items(mem')[n] = Item(o.kind, mem'.snap[o.kind][m])
      BY <3>3, <3>4, ItemsFacts, Zenon
    <3>6. Items(mem')[n].o = o
      BY <3>3, <3>4, <3>5 DEF Item
    <3>7. n >= i'
      <4>1. DOMAIN Items(mem') = 1..Len(Items(mem'))
        BY <3>4, ItemsFacts, Zenon
      <4>2. QED
        BY <1>1, <3>5, <4>1
    <3>8. SnapshotsOf(mem', o) # {}
      BY <3>3, Zenon DEF SnapshotsOf
    <3>9. QED
      BY <3>1, <3>5, <3>6, <3>7, <3>8, Zenon
  <2>4. QED
    BY <1>1, <1>4, <2>1, <2>2, <2>3, Zenon DEF Kept
<1>13. QED
  BY <1>5, <1>6, <1>8, <1>9, <1>10, <1>11, <1>12, Zenon DEF Strong

LEMMA reconcileTrafficStep ==
  ASSUME Strong, NEW r \in Outcome, reconcileTraffic(r)
  PROVE  Strong'
<1>1. /\ pc = "resolve" /\ i = 1 /\ mem # None /\ mem \in CR /\ Good(mem)
      /\ UNCHANGED <<obj, port, cr, seen, base, i, read, lossy, edited>>
  BY Zenon DEF reconcileTraffic, Strong, Place, Lists, Good
<1>2. \/ /\ ~mem.enabled /\ mem' = [mem EXCEPT !.ready = None]
         /\ pc' = "patchStatus" /\ target' = target
      \/ /\ mem.enabled /\ mem' = [mem EXCEPT !.routes = <<FALSE>>, !.ready = FALSE]
         /\ pc' = "patchStatus" /\ target' = target
      \/ /\ mem.enabled /\ mem' = [mem EXCEPT !.routes = <<>>, !.ready = TRUE]
         /\ target' = resolveTrafficTargetServicePort
         /\ pc' = IF Len(Refs) = 0 THEN "patchStatus" ELSE "get"
  BY Zenon DEF reconcileTraffic
<1>3. /\ <<FALSE>> \in Seq(BOOLEAN) /\ <<>> \in Seq(BOOLEAN) /\ Len(<<>>) = 0
      /\ FALSE \in BOOLEAN \cup {None} /\ TRUE \in BOOLEAN \cup {None}
  OBVIOUS
<1> DEFINE Started == \/ pc' = "patchStatus" /\ ~mem'.enabled
                      \/ pc' = "patchStatus" /\ mem'.routes = <<FALSE>>
                      \/ /\ mem'.enabled /\ Len(mem'.routes) = 0 /\ mem'.ready \in BOOLEAN
                         /\ pc' = IF Len(Refs) = 0 THEN "patchStatus" ELSE "get"
<1>4. mem' \in CR /\ SameMeta(mem, mem') /\ mem'.snap = mem.snap /\ Started
  <2>1. CASE ~mem.enabled /\ mem' = [mem EXCEPT !.ready = None] /\ pc' = "patchStatus"
    <3>1. mem' \in CR /\ SameMeta(mem, mem') /\ mem'.snap = mem.snap
      BY <1>1, <2>1, Zenon DEF CR, SameMeta
    <3>2. QED
      BY <2>1, <3>1, Zenon DEF SameMeta
  <2>2. CASE mem.enabled /\ mem' = [mem EXCEPT !.routes = <<FALSE>>, !.ready = FALSE] /\ pc' = "patchStatus"
    <3>1. mem' \in CR /\ SameMeta(mem, mem') /\ mem'.snap = mem.snap /\ mem'.routes = <<FALSE>>
      BY <1>1, <1>3, <2>2, Zenon DEF CR, SameMeta
    <3>2. QED
      BY <2>2, <3>1, Zenon
  <2>3. CASE /\ mem.enabled /\ mem' = [mem EXCEPT !.routes = <<>>, !.ready = TRUE]
             /\ pc' = IF Len(Refs) = 0 THEN "patchStatus" ELSE "get"
    <3>1. mem' \in CR /\ SameMeta(mem, mem') /\ mem'.snap = mem.snap /\ mem'.routes = <<>> /\ mem'.ready = TRUE
      BY <1>1, <1>3, <2>3, Zenon DEF CR, SameMeta
    <3>2. Len(mem'.routes) = 0 /\ mem'.ready \in BOOLEAN
      BY <1>3, <3>1, Zenon
    <3>3. QED
      BY <2>3, <3>1, <3>2, Zenon DEF SameMeta
  <2>4. QED
    BY <1>2, <2>1, <2>2, <2>3, Zenon
<1> HIDE DEF Started
<1>5. pc' \in {"get", "patchStatus"} /\ mem' # None
  BY <1>2, <1>4, NoneApart, Zenon
<1>6. TypeRest'
  <2>1. target' \in LivePorts \cup {ServicePort, None}
    BY <1>2, Zenon DEF Strong, TypeRest, resolveTrafficTargetServicePort
  <2>2. QED
    BY <1>1, <1>5, <2>1, Zenon DEF Strong, TypeRest
<1>7. Lists'
  BY <1>1, <1>4, <1>5, Zenon DEF Strong, Lists, Good
<1>8. Place'
  <2>1. \A o \in Objects : Shaped(o, obj'[o])
    BY <1>1, Zenon DEF Strong, Place
  <2>2. pc' = "get" => i' \in DOMAIN Refs /\ mem'.enabled /\ Len(mem'.routes) = i' - 1 /\ mem'.ready \in BOOLEAN
    <3>1. (Len(Refs) # 0 => 1 \in DOMAIN Refs) /\ 1 - 1 = 0
      BY RefsLength
    <3>2. QED
      BY <1>1, <1>4, <3>1, Zenon DEF Started
  <2>3. pc' = "patchStatus" => \/ i' = 1 /\ ~mem'.enabled
                               \/ i' = 1 /\ mem'.routes = <<FALSE>>
                               \/ i' = Len(Refs) + 1 /\ Len(mem'.routes) = Len(Refs)
    <3>1. Len(Refs) = 0 => 1 = Len(Refs) + 1
      BY RefsLength
    <3>2. QED
      BY <1>1, <1>4, <3>1, Zenon DEF Started
  <2>4. base' # None
    BY <1>1, Zenon DEF Strong, Place
  <2>5. QED
    BY <1>5, <2>1, <2>2, <2>3, <2>4, Zenon DEF Place, Restoring
<1>9. Exact'
  <2>1. 1..(i' - 1) = {}
    BY <1>1
  <2>2. QED
    BY <2>1, Zenon DEF Exact
<1>10. WrittenBack'
  BY <1>5, Zenon DEF WrittenBack, Restoring
<1>11. Life'
  BY <1>1, <1>5, Zenon DEF Strong, Life, Adopting, Restoring
<1>12. Kept'
  <2> SUFFICES ASSUME ~lossy PROVE Kept'
    BY <1>1, Zenon DEF Kept
  <2>1. /\ ByUsers(cr) /\ ByUsers(seen) /\ ByUsers(base) /\ ByUsers(mem)
        /\ cr # None => base.snap = cr.snap
        /\ \A o \in Objects : Ours(o)' => cr # None /\ cr.fin /\ SnapshotsOf(mem, o) # {}
    BY <1>1, Zenon DEF Strong, Kept, Ours, Adopting
  <2>2. ByUsers(mem') /\ \A o \in Objects : SnapshotsOf(mem', o) = SnapshotsOf(mem, o)
    <3>1. mem'.snap = mem.snap /\ mem # None /\ ByUsers(mem)
      BY <1>1, <1>4, <2>1, Zenon
    <3>2. ByUsers(mem')
      BY <3>1, Zenon DEF ByUsers
    <3>3. QED
      BY <3>1, <3>2, Zenon DEF SnapshotsOf
  <2>3. pc' # "idle" /\ pc' # "restoreWrite" /\ pc' \notin Restoring
    BY <1>5, Zenon DEF Restoring
  <2>4. cr' = cr /\ seen' = seen /\ base' = base
    BY <1>1, Zenon
  <2>5. QED
    BY <2>1, <2>2, <2>3, <2>4, Zenon DEF Kept
<1>13. QED
  BY <1>6, <1>7, <1>8, <1>9, <1>10, <1>11, <1>12, Zenon DEF Strong

\* What a step of the loop over the refs leaves when it goes on to the next
\* object: m is the CR in memory after the snapshot, ok what is observed.
LEMMA LoopStep ==
  ASSUME Strong, pc \in {"get", "patch"}, NEW m \in CR, Good(m), SameMeta(mem, m), m.routes = mem.routes,
         m.ready = mem.ready, NEW ok \in BOOLEAN, Observe(m, ok),
         UNCHANGED <<port, cr, seen, base, target, lossy>>,
         obj' \in [Objects -> Object \cup {None}], \A o \in Objects : Shaped(o, obj'[o]),
         edited' \subseteq Objects, read' \in Object \cup {None},
         \A o \in Objects \ {Refs[i]} : obj'[o] = obj[o] /\ (o \in edited' <=> o \in edited),
         ok /\ Refs[i] \notin edited' =>
           Refs[i] \in Objects /\ obj'[Refs[i]] # None /\ LeadsTo(Refs[i], obj'[Refs[i]].spec, target),
         ~lossy => /\ ByUsers(m)
                   /\ \A o \in Objects : Ours(o)' => SnapshotsOf(m, o) # {}
  PROVE  Strong'
<1>1. /\ i \in DOMAIN Refs /\ mem.enabled /\ Len(mem.routes) = i - 1 /\ mem.ready \in BOOLEAN
      /\ base # None /\ cr # None /\ cr.fin /\ pc # "idle" /\ pc \in Adopting
  BY Zenon DEF Strong, Place, Life, Adopting
<1>2. /\ mem' \in CR /\ Good(mem') /\ SameMeta(m, mem') /\ mem'.snap = m.snap
      /\ i' = i + 1 /\ i' \in 0..(Len(Refs) + 1) /\ pc' \in {"get", "patchStatus"}
      /\ Len(mem'.routes) = i /\ mem'.ready \in BOOLEAN
      /\ pc' = "get" => i' \in DOMAIN Refs
      /\ pc' = "patchStatus" => i = Len(Refs)
      /\ \A n \in 1..(i - 1) : mem'.routes[n] = m.routes[n]
      /\ mem'.routes[i] = ok
  <2>1. m.enabled
    BY <1>1, Zenon DEF SameMeta
  <2>2. QED
    BY <1>1, <2>1, ObserveFacts, Zenon
<1>3. mem' # None /\ m # None
  BY <1>2, NoneApart, Zenon
<1>4. TypeRest'
  BY <1>2, Zenon DEF Strong, TypeRest
<1>5. Lists'
  BY <1>2, Zenon DEF Strong, Lists
<1>6. Place'
  <2>1. mem'.enabled
    BY <1>1, <1>2, Zenon DEF SameMeta
  <2>2. i' - 1 = i /\ i \in Nat
    BY <1>1, <1>2, RefsLength
  <2>3. QED
    BY <1>1, <1>2, <1>3, <2>1, <2>2, Zenon DEF Place, Restoring
<1>7. Exact'
  <2> SUFFICES ASSUME NEW n \in 1..(i' - 1), mem'.routes[n], LastOf(n), Refs[n] \notin edited'
               PROVE  /\ Refs[n] \in Objects /\ obj'[Refs[n]] # None
                      /\ LeadsTo(Refs[n], obj'[Refs[n]].spec, target)
    BY Zenon DEF Exact
  <2>1. n = i \/ (n \in 1..(i - 1) /\ i > n)
    BY <1>1, <1>2, RefsLength
  <2>2. CASE n = i
    BY <1>2, <2>2, Zenon
  <2>3. CASE n \in 1..(i - 1) /\ i > n
    <3>1. Refs[i] # Refs[n]
      BY <1>1, <2>3, Zenon DEF LastOf
    <3>2. mem.routes[n]
      BY <1>2, <2>3, Zenon
    <3>3. Refs[n] \notin edited => Refs[n] \in Objects /\ obj[Refs[n]] # None
                                    /\ LeadsTo(Refs[n], obj[Refs[n]].spec, target)
      BY <2>3, <3>2, Zenon DEF Strong, Exact
    <3>4. Refs[n] \notin edited
      BY <1>1, <2>3, <3>1, Zenon DEF Strong, TypeRest
    <3>5. QED
      BY <3>1, <3>3, <3>4, Zenon
  <2>4. QED
    BY <2>1, <2>2, <2>3, Zenon
<1>8. WrittenBack'
  BY <1>2, Zenon DEF WrittenBack, Restoring
<1>9. Life'
  BY <1>1, <1>2, Zenon DEF Strong, Life, Adopting, Restoring
<1>10. Kept'
  <2> SUFFICES ASSUME ~lossy PROVE Kept'
    BY Zenon DEF Kept
  <2>1. /\ ByUsers(cr) /\ ByUsers(seen) /\ ByUsers(base) /\ base.snap = cr.snap
    BY <1>1, Zenon DEF Strong, Kept
  <2>2. ByUsers(mem') /\ \A o \in Objects : SnapshotsOf(mem', o) = SnapshotsOf(m, o)
    BY <1>2, <1>3, Zenon DEF ByUsers, SnapshotsOf
  <2>3. QED
    BY <1>1, <1>2, <2>1, <2>2, Zenon DEF Kept, Restoring
<1>11. QED
  BY <1>4, <1>5, <1>6, <1>7, <1>8, <1>9, <1>10, Zenon DEF Strong

LEMMA TargetType ==
  ASSUME Strong
  PROVE  target \in Nat \cup {None}
<1>1. LivePorts \subseteq Nat /\ ServicePort \in Nat \cup {None}
  BY TrafficAssumption, Zenon
<1>2. QED
  BY <1>1, Zenon DEF Strong, TypeRest

LEMMA GetObjectStep ==
  ASSUME Strong, NEW r \in Outcome, GetObject(r)
  PROVE  Strong'
<1>0. PICK o : o = Refs[i]
  OBVIOUS
<1> DEFINE e == snapshotOnce(mem, o, obj[o])
<1>1. /\ pc = "get" /\ mem \in CR /\ Good(mem) /\ mem # None /\ i \in DOMAIN Refs
      /\ UNCHANGED <<obj, port, cr, seen, base, target, lossy>>
      /\ obj \in [Objects -> Object \cup {None}] /\ read \in Object \cup {None}
      /\ edited \subseteq Objects /\ target \in Nat \cup {None}
      /\ \A p \in Objects : Shaped(p, obj[p])
  <2>1. pc = "get" /\ UNCHANGED <<obj, port, cr, seen, base, target, lossy>>
    BY Zenon DEF GetObject
  <2>2. /\ mem \in CR /\ Good(mem) /\ mem # None /\ i \in DOMAIN Refs
        /\ \A p \in Objects : Shaped(p, obj[p])
    BY <2>1, Zenon DEF Strong, Place, Lists, Good
  <2>3. QED
    BY <2>1, <2>2, TargetType, Zenon DEF Strong, TypeRest
<1>2. \A p \in Objects : (Ours(p)' => Ours(p))
  BY <1>1, Zenon DEF Ours
<1>3. ~lossy => /\ ByUsers(mem)
                /\ \A p \in Objects : Ours(p)' => SnapshotsOf(mem, p) # {}
  BY <1>1, <1>2, Zenon DEF Strong, Kept, Adopting
<1>4. CASE Observe(mem, FALSE) /\ UNCHANGED <<read, edited>>
  BY <1>1, <1>3, <1>4, LoopStep, Zenon DEF SameMeta
<1>5. CASE /\ o.name # "empty" /\ obj[o] # None /\ edited' = edited \ {o}
           /\ IF Adapted(o, obj[o].spec, target) = obj[o].spec
              THEN Observe(e, TRUE) /\ UNCHANGED read
              ELSE mem' = e /\ read' = obj[o] /\ pc' = "patch" /\ UNCHANGED i
  <2>1. o \in Objects /\ obj[o] \in Object /\ Shaped(o, obj[o])
    <3>1. o \in Objects
      BY <1>0, <1>1, <1>5, ObjectsType, Zenon
    <3>2. QED
      BY <1>1, <1>5, <3>1, Zenon
  <2>2. obj[o].spec \in Seq(Destination) /\ obj[o].by \in {"user", "ifaas"}
    BY <2>1, Zenon DEF Object
  <2>3. /\ e \in CR /\ Good(e) /\ SameMeta(mem, e) /\ e.routes = mem.routes /\ e.ready = mem.ready
        /\ SnapshotsOf(e, o) # {}
        /\ \A p \in Objects : SnapshotsOf(mem, p) # {} => SnapshotsOf(e, p) # {}
        /\ ByUsers(mem) /\ (obj[o].by = "user" \/ SnapshotsOf(mem, o) # {}) => ByUsers(e)
    BY <1>1, <2>1, SnapshotOnceFacts, Zenon
  <2> HIDE DEF e
  <2>4. ~lossy => /\ ByUsers(e)
                  /\ \A p \in Objects : Ours(p)' => SnapshotsOf(e, p) # {}
    <3>1. obj[o].by = "user" \/ Ours(o)'
      BY <1>1, <1>5, <2>2, Zenon DEF Ours
    <3>2. QED
      BY <1>3, <2>1, <2>3, <3>1, Zenon
  <2>5. edited' \subseteq Objects /\ \A p \in Objects \ {o} : p \in edited' <=> p \in edited
    BY <1>1, <1>5, Zenon
  <2>6. CASE Adapted(o, obj[o].spec, target) = obj[o].spec
    <3>1. LeadsTo(o, obj[o].spec, target)
      <4>1. LeadsTo(o, Adapted(o, obj[o].spec, target), target)
        BY <1>1, <2>2, AdaptedLeads, Zenon
      <4>2. QED
        BY <2>6, <4>1, Zenon
    <3>2. Observe(e, TRUE) /\ UNCHANGED read
      BY <1>5, <2>6, Zenon
    <3>3. QED
      BY <1>1, <1>5, <2>1, <2>3, <2>4, <2>5, <3>1, <3>2, <1>0, LoopStep, Zenon
  <2>7. CASE Adapted(o, obj[o].spec, target) # obj[o].spec
    <3>1. mem' = e /\ read' = obj[o] /\ pc' = "patch" /\ i' = i
      BY <1>5, <2>7, Zenon
    <3>2. TypeRest'
      BY <1>1, <2>1, <2>5, <3>1, Zenon DEF Strong, TypeRest
    <3>3. Lists'
      BY <1>1, <2>3, <3>1, Zenon DEF Strong, Lists
    <3>4. Place'
      <4>1. /\ base # None /\ e # None
            /\ mem.enabled /\ Len(mem.routes) = i - 1 /\ mem.ready \in BOOLEAN
        BY <1>1, <2>3, NoneApart, Zenon DEF Strong, Place
      <4>2. e.enabled /\ Len(e.routes) = i - 1 /\ e.ready \in BOOLEAN
        BY <2>3, <4>1, Zenon DEF SameMeta
      <4>3. QED
        <5>1. /\ \A p \in Objects : Shaped(p, obj'[p])
              /\ i' \in DOMAIN Refs /\ Refs[i'] = o /\ obj'[o] = read' /\ read' # None
          BY <1>0, <1>1, <1>5, <3>1, Zenon
        <5>2. QED
          BY <2>1, <2>3, <3>1, <4>1, <4>2, <5>1, <1>1, Zenon DEF Place, Restoring
    <3>5. Exact'
      <4> SUFFICES ASSUME NEW n \in 1..(i - 1), mem.routes[n], LastOf(n), Refs[n] \notin edited'
                   PROVE  /\ Refs[n] \in Objects /\ obj[Refs[n]] # None
                          /\ LeadsTo(Refs[n], obj[Refs[n]].spec, target)
        BY <1>1, <2>3, <3>1, Zenon DEF Exact
      <4>1. i > n
        BY <1>1, RefsLength
      <4>2. o # Refs[n]
        BY <1>1, <4>1, <1>0, Zenon DEF LastOf
      <4>3. Refs[n] \notin edited
        BY <1>5, <4>2, Zenon
      <4>4. QED
        BY <1>1, <4>3, Zenon DEF Strong, Exact
    <3>6. WrittenBack'
      BY <3>1, Zenon DEF WrittenBack, Restoring
    <3>7. Life'
      BY <1>1, <3>1, Zenon DEF Strong, Life, Adopting, Restoring
    <3>8. Kept'
      <4> SUFFICES ASSUME ~lossy PROVE Kept'
        BY <1>1, Zenon DEF Kept
      <4>1. /\ ByUsers(cr) /\ ByUsers(seen) /\ ByUsers(base)
            /\ cr # None => base.snap = cr.snap
            /\ \A p \in Objects : Ours(p)' => cr # None /\ cr.fin
        BY <1>1, <1>2, Zenon DEF Strong, Kept
      <4>2. cr' = cr /\ seen' = seen /\ base' = base
        BY <1>1, Zenon
      <4>3. QED
        BY <2>4, <3>1, <4>1, <4>2, Zenon DEF Kept, Restoring
    <3>9. QED
      BY <3>2, <3>3, <3>4, <3>5, <3>6, <3>7, <3>8, Zenon DEF Strong
  <2>8. QED
    BY <2>6, <2>7, Zenon
<1>6. QED
  BY <1>0, <1>4, <1>5, Zenon DEF GetObject

LEMMA PatchObjectStep ==
  ASSUME Strong, NEW r \in Outcome, PatchObject(r)
  PROVE  Strong'
<1>0. PICK o : o = Refs[i]
  OBVIOUS
<1> DEFINE a == Adapted(o, read.spec, target)
           s == MergePatched(o, obj[o].spec, read.spec, a)
           ok == obj[o] # None /\ r = "ok"
<1>1. /\ pc = "patch" /\ UNCHANGED <<port, cr, seen, base, target, lossy, edited>>
      /\ read' = None
      /\ obj' = IF obj[o] = None \/ ~Landed(r) THEN obj
                ELSE [obj EXCEPT ![o] = [spec |-> s, by |-> "ifaas"]]
      /\ Observe(mem, ok)
  BY <1>0, Zenon DEF PatchObject
<1>2. /\ mem \in CR /\ Good(mem) /\ mem # None /\ i \in DOMAIN Refs
      /\ \A p \in Objects : Shaped(p, obj[p])
      /\ o \in Objects /\ read # None /\ Shaped(o, read) /\ SnapshotsOf(mem, o) # {}
      /\ o \notin edited => obj[o] = read
  BY <1>0, <1>1, Zenon DEF Strong, Place, Lists, Good
<1>3. /\ obj \in [Objects -> Object \cup {None}] /\ read \in Object
      /\ edited \subseteq Objects /\ target \in Nat \cup {None}
  BY <1>2, TargetType, Zenon DEF Strong, TypeRest
<1>4. read.spec \in Seq(Destination) /\ (o.kind = "dr" => Len(read.spec) = 1)
  BY <1>2, <1>3, Zenon DEF Object, Shaped
<1>5. a \in Seq(Destination) /\ Len(a) = Len(read.spec) /\ LeadsTo(o, a, target)
  BY <1>3, <1>4, AdaptedType, AdaptedLeads, Zenon
<1> HIDE DEF a
<1>6. o.kind # "vs" => o.kind = "dr"
  BY <1>2, ObjectsType, Zenon DEF Kinds
<1>7. obj[o] # None => /\ s \in Seq(Destination) /\ (o.kind = "dr" => Len(s) = 1)
                       /\ obj[o] = read => s = a
  <2> SUFFICES ASSUME obj[o] # None
               PROVE  /\ s \in Seq(Destination) /\ (o.kind = "dr" => Len(s) = 1)
                      /\ obj[o] = read => s = a
    OBVIOUS
  <2>1. obj[o].spec \in Seq(Destination) /\ (o.kind = "dr" => Len(obj[o].spec) = 1)
    BY <1>2, <1>3, Zenon DEF Object, Shaped
  <2>2. o.kind # "vs" => Len(obj[o].spec) = 1 /\ Len(read.spec) = 1 /\ Len(a) = 1
    BY <1>4, <1>5, <1>6, <2>1, Zenon
  <2>3. s \in Seq(Destination) /\ (o.kind # "vs" => Len(s) = 1)
    BY <1>4, <1>5, <2>1, <2>2, MergedType, Zenon
  <2>4. MergePatched(o, read.spec, read.spec, a) = a
    BY <1>4, <1>5, <2>2, MergedSame, Zenon
  <2>5. "dr" # "vs"
    OBVIOUS
  <2>6. QED
    BY <2>3, <2>4, <2>5, Zenon
<1> HIDE DEF s
<1>8. obj[o] # None /\ Landed(r) => /\ [spec |-> s, by |-> "ifaas"] \in Object
                                   /\ Shaped(o, [spec |-> s, by |-> "ifaas"])
  BY <1>7, Zenon DEF Object, Shaped
<1>9. /\ obj' \in [Objects -> Object \cup {None}]
      /\ \A p \in Objects : Shaped(p, obj'[p])
      /\ \A p \in Objects \ {o} : obj'[p] = obj[p]
      /\ obj[o] = None \/ ~Landed(r) => obj' = obj
      /\ obj[o] # None /\ Landed(r) => obj'[o] = [spec |-> s, by |-> "ifaas"]
  <2>1. CASE obj[o] = None \/ ~Landed(r)
    BY <1>1, <1>2, <1>3, <2>1, Zenon
  <2>2. CASE obj[o] # None /\ Landed(r)
    <3>1. obj' = [obj EXCEPT ![o] = [spec |-> s, by |-> "ifaas"]]
      BY <1>1, <2>2, Zenon
    <3>2. /\ obj' \in [Objects -> Object \cup {None}]
          /\ \A p \in Objects \ {o} : obj'[p] = obj[p]
          /\ obj'[o] = [spec |-> s, by |-> "ifaas"]
      BY <1>2, <1>3, <1>8, <2>2, <3>1, Zenon
    <3>3. QED
      BY <1>2, <1>8, <2>2, <3>2, Zenon
  <2>3. QED
    BY <2>1, <2>2, Zenon
<1>10. ok /\ o \notin edited => obj'[o] # None /\ LeadsTo(o, obj'[o].spec, target)
  <2> SUFFICES ASSUME ok, o \notin edited
               PROVE  obj'[o] # None /\ LeadsTo(o, obj'[o].spec, target)
    OBVIOUS
  <2>1. obj[o] # None /\ Landed(r) /\ obj[o] = read
    BY <1>2, Zenon DEF Landed
  <2>2. obj'[o] = [spec |-> a, by |-> "ifaas"] /\ obj'[o] \in Object
    BY <1>7, <1>8, <1>9, <2>1, Zenon
  <2>3. obj'[o].spec = a
    BY <2>2
  <2>4. QED
    BY <1>5, <2>2, <2>3, NoneApart, Zenon
<1>11. ~lossy => /\ ByUsers(mem)
                 /\ \A p \in Objects : Ours(p)' => SnapshotsOf(mem, p) # {}
  <2> SUFFICES ASSUME ~lossy
               PROVE  ByUsers(mem) /\ \A p \in Objects : Ours(p)' => SnapshotsOf(mem, p) # {}
    OBVIOUS
  <2>1. ByUsers(mem) /\ \A p \in Objects : Ours(p) => SnapshotsOf(mem, p) # {}
    BY <1>1, Zenon DEF Strong, Kept, Adopting
  <2>2. \A p \in Objects \ {o} : Ours(p)' => Ours(p)
    BY <1>9, Zenon DEF Ours
  <2>3. QED
    BY <1>2, <2>1, <2>2, Zenon
<1>12. mem \in CR /\ SameMeta(mem, mem) /\ ok \in BOOLEAN /\ read' \in Object \cup {None}
  BY <1>1, <1>2, Zenon DEF SameMeta
<1> HIDE DEF ok
<1>13. \A p \in Objects \ {Refs[i]} : obj'[p] = obj[p] /\ (p \in edited' <=> p \in edited)
  BY <1>0, <1>1, <1>9, Zenon
<1>14. ok /\ Refs[i] \notin edited' =>
         Refs[i] \in Objects /\ obj'[Refs[i]] # None /\ LeadsTo(Refs[i], obj'[Refs[i]].spec, target)
  BY <1>0, <1>1, <1>2, <1>10, Zenon
<1>15. /\ pc \in {"get", "patch"} /\ Observe(mem, ok) /\ edited' \subseteq Objects
       /\ UNCHANGED <<port, cr, seen, base, target, lossy>>
       /\ obj' \in [Objects -> Object \cup {None}] /\ \A p \in Objects : Shaped(p, obj'[p])
  BY <1>1, <1>3, <1>9, Zenon
<1>16. QED
  BY <1>2, <1>11, <1>12, <1>13, <1>14, <1>15, LoopStep, Zenon

-----------------------------------------------------------------------------
(* The deletion branch.                                                    *)

\* Where a pass that writes snapshots back is.
LEMMA RestoringFacts ==
  ASSUME Strong, pc \in {"restoreGet", "restoreWrite"}
  PROVE  /\ mem = base /\ mem # None /\ mem \in CR /\ Good(mem) /\ i \in DOMAIN Items(mem)
         /\ Items(mem)[i].o \in Objects /\ Items(mem)[i].spec \in Seq(Destination)
         /\ Items(mem)[i].by \in {"user", "ifaas"}
         /\ Items(mem)[i].o.kind = "dr" => Len(Items(mem)[i].spec) = 1
         /\ \A n \in DOMAIN Items(mem) : Items(mem)[n].o = Items(mem)[i].o => n = i
<1>1. /\ mem = base /\ mem # None /\ mem \in CR /\ Good(mem) /\ i \in DOMAIN Items(mem)
  BY Zenon DEF Strong, Place, Lists, Good, Restoring
<1>2. QED
  BY <1>1, GoodItems, Zenon

\* What is written back is in the CR.
LEMMA ItemSnapshot ==
  ASSUME NEW c \in CR, NEW n \in DOMAIN Items(c)
  PROVE  /\ SnapshotsOf(c, Items(c)[n].o) # {}
         /\ ByUsers(c) => Items(c)[n].by = "user"
<1>1. PICK k \in Kinds : \E m \in DOMAIN c.snap[k] : Items(c)[n] = Item(k, c.snap[k][m])
  <2>1. "vs" \in Kinds /\ "dr" \in Kinds
    BY Zenon DEF Kinds
  <2>2. QED
    BY <2>1, ItemsFacts, Zenon
<1>2. PICK m \in DOMAIN c.snap[k] : Items(c)[n] = Item(k, c.snap[k][m])
  BY <1>1, Zenon
<1>3. /\ Items(c)[n].o.kind = k /\ Items(c)[n].o.name = c.snap[k][m].name
      /\ Items(c)[n].by = c.snap[k][m].by
  BY <1>2 DEF Item
<1>4. m \in SnapshotsOf(c, Items(c)[n].o)
  BY <1>3, Zenon DEF SnapshotsOf
<1>5. QED
  BY <1>3, <1>4, NoneApart, Zenon DEF ByUsers

\* A pass that fails while it writes snapshots back.
LEMMA AbortStep ==
  ASSUME Strong, pc \in {"restoreGet", "restoreWrite"}, Abort,
         UNCHANGED <<port, cr, seen, lossy>>, edited' \subseteq Objects,
         obj' \in [Objects -> Object \cup {None}], \A o \in Objects : Shaped(o, obj'[o]),
         ~lossy => \A o \in Objects : Ours(o)' => Ours(o)
  PROVE  Strong'
<1>1. Return /\ pc \in Restoring
  BY Zenon DEF Abort, Restoring
<1>2. /\ Place' /\ Exact' /\ WrittenBack' /\ Good(base') /\ Good(mem')
      /\ pc' \in {"idle"} /\ target' = None /\ i' \in 0..(Len(Refs) + 1) /\ read' = None
  BY <1>1, Returned, Zenon
<1>3. TypeRest'
  BY <1>2, Zenon DEF Strong, TypeRest
<1>4. Lists'
  BY <1>2, Zenon DEF Strong, Lists
<1>5. Life'
  BY <1>2, Zenon DEF Strong, Life, Adopting, Restoring
<1>6. Kept'
  <2> SUFFICES ASSUME ~lossy PROVE Kept'
    BY Zenon DEF Kept
  <2>1. ByUsers(cr) /\ ByUsers(seen) /\ (cr # None => mem.snap = cr.snap)
    <3>1. mem = base /\ pc # "idle"
      BY RestoringFacts, Zenon
    <3>2. QED
      BY <3>1, Zenon DEF Strong, Kept
  <2>2. ByUsers(base') /\ ByUsers(mem')
    BY <1>1, Zenon DEF Return, ByUsers
  <2>3. ASSUME NEW o \in Objects, Ours(o)'
        PROVE  cr # None /\ cr.fin /\ SnapshotsOf(cr, o) # {}
    <3>1. /\ cr # None /\ cr.fin
          /\ \E n \in DOMAIN Items(mem) : Items(mem)[n].o = o
      BY <1>1, <2>3, Zenon DEF Strong, Kept
    <3>2. SnapshotsOf(mem, o) # {}
      BY <3>1, RestoringFacts, ItemSnapshot, Zenon
    <3>3. QED
      BY <2>1, <3>1, <3>2, Zenon DEF SnapshotsOf
  <2>4. QED
    BY <1>2, <2>1, <2>2, <2>3, Zenon DEF Kept, Adopting, Restoring
<1>7. QED
  BY <1>2, <1>3, <1>4, <1>5, <1>6, Zenon DEF Strong

\* A pass that goes on to the next snapshot.
LEMMA NextItemStep ==
  ASSUME Strong, pc \in {"restoreGet", "restoreWrite"}, NextItem,
         UNCHANGED <<port, cr, seen, lossy, base, mem, target>>,
         edited' \subseteq Objects, read' \in Object \cup {None},
         obj' \in [Objects -> Object \cup {None}], \A o \in Objects : Shaped(o, obj'[o]),
         NEW p, p = Items(mem)[i].o,
         \A o \in Objects \ {p} : obj'[o] = obj[o] /\ (o \in edited' <=> o \in edited),
         p \notin edited' => obj'[p] # None /\ obj'[p].spec = Items(mem)[i].spec,
         ~lossy => ~Ours(p)'
  PROVE  Strong'
<1>1. /\ mem = base /\ mem # None /\ mem \in CR /\ Good(mem) /\ i \in DOMAIN Items(mem)
      /\ \A n \in DOMAIN Items(mem) : Items(mem)[n].o \in Objects
      /\ \A n \in DOMAIN Items(mem) : Items(mem)[n].o = p => n = i
  BY RestoringFacts, GoodItems, Zenon
<1>2. /\ i' = i + 1 /\ i' \in 0..(Len(Refs) + 1) /\ pc' \in {"restoreGet", "release"}
      /\ pc' = "restoreGet" => i' \in DOMAIN Items(mem)
      /\ pc' = "release" => i' = Len(Items(mem)) + 1
      /\ \A n \in DOMAIN Items(mem) : n < i' <=> n < i \/ n = i
  BY <1>1, NextItemFacts, Zenon
<1>3. pc \in Restoring /\ pc' \in Restoring /\ pc' \notin Adopting
  BY <1>2, Zenon DEF Restoring, Adopting
<1>4. TypeRest'
  BY <1>2, Zenon DEF Strong, TypeRest
<1>5. Lists'
  BY Zenon DEF Strong, Lists
<1>6. Place'
  BY <1>1, <1>2, Zenon DEF Place
<1>7. Life'
  BY <1>3, Zenon DEF Strong, Life
<1>8. Exact'
  BY <1>2, Zenon DEF Exact
<1>9. WrittenBack'
  <2> SUFFICES ASSUME NEW n \in DOMAIN Items(mem), n < i', Items(mem)[n].o \notin edited'
               PROVE  obj'[Items(mem)[n].o] # None /\ obj'[Items(mem)[n].o].spec = Items(mem)[n].spec
    BY Zenon DEF WrittenBack
  <2>1. CASE n = i
    BY <2>1, Zenon
  <2>2. CASE n # i
    <3>1. n < i /\ Items(mem)[n].o \in Objects \ {p}
      BY <1>1, <1>2, <2>2, Zenon
    <3>2. Items(mem)[n].o \notin edited /\ obj'[Items(mem)[n].o] = obj[Items(mem)[n].o]
      BY <3>1, Zenon
    <3>3. QED
      BY <1>3, <3>1, <3>2, Zenon DEF Strong, WrittenBack
  <2>3. QED
    BY <2>1, <2>2, Zenon
<1>10. Kept'
  <2> SUFFICES ASSUME ~lossy PROVE Kept'
    BY Zenon DEF Kept
  <2>1. /\ ByUsers(cr) /\ ByUsers(seen) /\ ByUsers(base) /\ ByUsers(mem)
        /\ cr # None => base.snap = cr.snap
    BY Zenon DEF Strong, Kept
  <2>2. ASSUME NEW o \in Objects, Ours(o)'
        PROVE  /\ cr # None /\ cr.fin
               /\ \E n \in DOMAIN Items(mem) : n >= i' /\ Items(mem)[n].o = o
    <3>1. o # p /\ Ours(o)
      BY <2>2, Zenon DEF Ours
    <3>2. /\ cr # None /\ cr.fin
          /\ \E n \in DOMAIN Items(mem) : n >= i /\ Items(mem)[n].o = o
      BY <1>3, <3>1, Zenon DEF Strong, Kept
    <3>3. PICK n \in DOMAIN Items(mem) : n >= i /\ Items(mem)[n].o = o
      BY <3>2, Zenon
    <3>4. n # i
      BY <3>1, <3>3, Zenon
    <3>5. DOMAIN Items(mem) = 1..Len(Items(mem)) /\ Len(Items(mem)) \in Nat
      BY <1>1, ItemsFacts, Zenon
    <3>6. n >= i'
      BY <1>1, <1>2, <3>3, <3>4, <3>5
    <3>7. QED
      BY <3>2, <3>3, <3>6, Zenon
  <2>3. pc' # "idle" /\ pc' # "restoreWrite"
    BY <1>2, Zenon
  <2>4. cr' = cr /\ seen' = seen /\ base' = base /\ mem' = mem
    OBVIOUS
  <2>5. \A o \in Objects : Ours(o)' =>
          /\ cr' # None /\ cr'.fin
          /\ \E n \in DOMAIN Items(mem') : n >= i' /\ Items(mem')[n].o = o
    BY <2>2, <2>4, Zenon
  <2>6. /\ ByUsers(cr') /\ ByUsers(seen') /\ ByUsers(base') /\ ByUsers(mem')
        /\ cr' # None => base'.snap = cr'.snap
    BY <2>1, <2>4, Zenon
  <2>7. QED
    BY <1>3, <2>3, <2>5, <2>6, Zenon DEF Kept
<1>11. QED
  BY <1>4, <1>5, <1>6, <1>7, <1>8, <1>9, <1>10, Zenon DEF Strong

LEMMA restoreGetStep ==
  ASSUME Strong, NEW r \in Outcome, restoreGet(r)
  PROVE  Strong'
<1>0. PICK p : p = Items(mem)[i].o
  OBVIOUS
<1>1. pc = "restoreGet" /\ UNCHANGED <<port, cr, seen, lossy>>
  BY Zenon DEF restoreGet
<1>2. /\ mem = base /\ mem # None /\ mem \in CR /\ Good(mem) /\ i \in DOMAIN Items(mem)
      /\ p \in Objects /\ Items(mem)[i].by \in {"user", "ifaas"}
      /\ ByUsers(mem) => Items(mem)[i].by = "user"
  BY <1>0, <1>1, RestoringFacts, ItemSnapshot, Zenon
<1>3. /\ obj \in [Objects -> Object \cup {None}] /\ read \in Object \cup {None}
      /\ edited \subseteq Objects /\ \A o \in Objects : Shaped(o, obj[o])
  BY Zenon DEF Strong, TypeRest, Place
<1>4. CASE Abort /\ UNCHANGED <<obj, edited>>
  BY <1>1, <1>3, <1>4, AbortStep, Zenon DEF Ours
<1>5. CASE /\ edited' = edited \ {p} /\ UNCHANGED <<base, mem, target>>
           /\ obj[p] # None /\ obj[p].spec = Items(mem)[i].spec
           /\ obj' = [obj EXCEPT ![p] = Restored(obj[p].spec)] /\ NextItem /\ UNCHANGED read
  <2> DEFINE x == Restored(obj[p].spec)
  <2>1. x \in Object /\ Shaped(p, x) /\ x.spec = Items(mem)[i].spec /\ x.by = Items(mem)[i].by
    <3>1. obj[p].spec \in Seq(Destination) /\ (p.kind = "dr" => Len(obj[p].spec) = 1)
      BY <1>2, <1>3, <1>5, Zenon DEF Object, Shaped
    <3>2. x.spec = obj[p].spec /\ x.by = Items(mem)[i].by
      BY Zenon DEF Restored
    <3>3. x \in Object
      BY <1>2, <3>1, Zenon DEF Restored, Object
    <3>4. QED
      BY <1>5, <3>1, <3>2, <3>3, Zenon DEF Shaped
  <2> HIDE DEF x
  <2>2. /\ obj' \in [Objects -> Object \cup {None}] /\ obj'[p] = x
        /\ \A o \in Objects \ {p} : obj'[o] = obj[o]
    <3>1. obj' = [obj EXCEPT ![p] = x]
      BY <1>5, Zenon DEF x
    <3>2. QED
      BY <1>2, <1>3, <2>1, <3>1, Zenon
  <2>3. /\ \A o \in Objects : Shaped(o, obj'[o])
        /\ edited' \subseteq Objects
        /\ \A o \in Objects \ {p} : obj'[o] = obj[o] /\ (o \in edited' <=> o \in edited)
    BY <1>3, <1>5, <2>1, <2>2, Zenon
  <2>4. ~lossy => ~Ours(p)'
    <3>1. ~lossy => x.by = "user"
      BY <1>2, <2>1, Zenon DEF Strong, Kept
    <3>2. "user" # "ifaas"
      OBVIOUS
    <3>3. QED
      BY <2>2, <3>1, <3>2, Zenon DEF Ours
  <2>5. obj'[p] # None /\ obj'[p].spec = Items(mem)[i].spec
    BY <2>1, <2>2, NoneApart, Zenon
  <2>6. /\ pc \in {"restoreGet", "restoreWrite"} /\ NextItem /\ read' \in Object \cup {None}
        /\ UNCHANGED <<port, cr, seen, lossy, base, mem, target>>
    BY <1>1, <1>3, <1>5, Zenon
  <2>7. QED
    BY <1>0, <2>2, <2>3, <2>4, <2>5, <2>6, NextItemStep, Zenon
<1>6. CASE /\ edited' = edited \ {p} /\ UNCHANGED <<base, mem, target, obj, i>>
           /\ pc' = "restoreWrite" /\ read' = obj[p]
  <2>1. TypeRest'
    BY <1>1, <1>2, <1>3, <1>6, Zenon DEF Strong, TypeRest
  <2>2. Lists'
    BY <1>1, <1>6, Zenon DEF Strong, Lists
  <2>3. Place'
    <3>1. Items(mem')[i'].o = p /\ obj'[p] = read' /\ Shaped(p, read') /\ i' \in DOMAIN Items(mem')
      BY <1>0, <1>2, <1>3, <1>6, Zenon
    <3>2. (\A o \in Objects : Shaped(o, obj'[o])) /\ mem' = base' /\ mem' # None
      BY <1>2, <1>3, <1>6, Zenon
    <3>3. QED
      BY <1>6, <3>1, <3>2, Zenon DEF Place, Restoring
  <2>4. Life'
    BY <1>1, <1>6, Zenon DEF Strong, Life, Adopting, Restoring
  <2>5. Exact'
    BY <1>6, Zenon DEF Exact
  <2>6. WrittenBack'
    <3> SUFFICES ASSUME NEW n \in DOMAIN Items(mem), n < i, Items(mem)[n].o \notin edited'
                 PROVE  obj[Items(mem)[n].o] # None /\ obj[Items(mem)[n].o].spec = Items(mem)[n].spec
      BY <1>6, Zenon DEF WrittenBack
    <3>1. DOMAIN Items(mem) = 1..Len(Items(mem)) /\ Len(Items(mem)) \in Nat
      BY <1>2, ItemsFacts, Zenon
    <3>2. n # i
      BY <1>2, <3>1
    <3>3. Items(mem)[n].o # p
      BY <1>0, <1>1, <3>2, RestoringFacts, Zenon
    <3>4. Items(mem)[n].o \notin edited
      BY <1>6, <3>3, Zenon
    <3>5. QED
      BY <1>1, <3>4, Zenon DEF Strong, WrittenBack, Restoring
  <2>7. Kept'
    <3> SUFFICES ASSUME ~lossy PROVE Kept'
      BY <1>1, Zenon DEF Kept
    <3>1. /\ ByUsers(cr) /\ ByUsers(seen) /\ ByUsers(base) /\ ByUsers(mem)
          /\ cr # None => base.snap = cr.snap
          /\ \A o \in Objects : Ours(o) =>
               /\ cr # None /\ cr.fin
               /\ \E n \in DOMAIN Items(mem) : n >= i /\ Items(mem)[n].o = o
      BY <1>1, Zenon DEF Strong, Kept, Restoring
    <3>2. cr' = cr /\ seen' = seen /\ base' = base /\ mem' = mem /\ i' = i /\ obj' = obj
      BY <1>1, <1>6, Zenon
    <3>3. \A o \in Objects : Ours(o)' =>
            /\ cr' # None /\ cr'.fin
            /\ \E n \in DOMAIN Items(mem') : n >= i' /\ Items(mem')[n].o = o
      BY <3>1, <3>2, Zenon DEF Ours
    <3>4. /\ ByUsers(cr') /\ ByUsers(seen') /\ ByUsers(base') /\ ByUsers(mem')
          /\ cr' # None => base'.snap = cr'.snap
      BY <3>1, <3>2, Zenon
    <3>5. read' = None => ~Ours(Items(mem)[i].o)'
      BY <1>0, <1>6, <3>2, Zenon DEF Ours
    <3>6. pc' # "idle" /\ pc' \notin Adopting
      BY <1>6, Zenon DEF Adopting
    <3>7. QED
      BY <3>3, <3>4, <3>5, <3>6, Zenon DEF Kept
  <2>8. QED
    BY <2>1, <2>2, <2>3, <2>4, <2>5, <2>6, <2>7, Zenon DEF Strong
<1>7. QED
  <2>1. DeepEqual(obj[p].spec, Items(mem)[i].spec) => obj[p].spec = Items(mem)[i].spec
    BY Zenon DEF DeepEqual
  <2>2. QED
    BY <1>0, <1>4, <1>5, <1>6, <2>1, Zenon DEF restoreGet

LEMMA restoreWriteStep ==
  ASSUME Strong, NEW r \in Outcome, restoreWrite(r)
  PROVE  Strong'
<1>0. PICK p : p = Items(mem)[i].o
  OBVIOUS
<1> DEFINE it == Items(mem)[i]
           s == IF read = None THEN it.spec ELSE MergePatched(p, obj[p].spec, read.spec, it.spec)
           x == Restored(s)
           kept == ~Landed(r) \/ (read = None) # (obj[p] = None)
<1>1. /\ pc = "restoreWrite" /\ UNCHANGED <<port, cr, seen, lossy, edited>>
      /\ obj' = IF kept THEN obj ELSE [obj EXCEPT ![p] = x]
      /\ \/ /\ r = "ok" /\ ~(read # None /\ obj[p] = None)
            /\ NextItem /\ read' = None /\ UNCHANGED <<base, mem, target>>
         \/ Abort
  BY <1>0, Zenon DEF restoreWrite
<1>2. /\ mem \in CR /\ p \in Objects /\ i \in DOMAIN Items(mem)
      /\ it.by \in {"user", "ifaas"} /\ it.spec \in Seq(Destination)
      /\ p.kind = "dr" => Len(it.spec) = 1
      /\ ByUsers(mem) => it.by = "user"
  BY <1>0, <1>1, RestoringFacts, ItemSnapshot, Zenon
<1>3. /\ obj \in [Objects -> Object \cup {None}] /\ read \in Object \cup {None}
      /\ edited \subseteq Objects /\ \A o \in Objects : Shaped(o, obj[o])
      /\ Shaped(p, read) /\ (p \notin edited => obj[p] = read)
  BY <1>0, <1>1, Zenon DEF Strong, TypeRest, Place
<1> HIDE DEF it
<1>4. p.kind # "vs" => p.kind = "dr"
  BY <1>2, ObjectsType, Zenon DEF Kinds
<1>5. ~kept => /\ s \in Seq(Destination) /\ (p.kind = "dr" => Len(s) = 1)
               /\ obj[p] = read => s = it.spec
  <2>1. CASE read = None
    BY <1>2, <2>1, Zenon
  <2>2. CASE read # None
    <3> SUFFICES ASSUME ~kept
                 PROVE  /\ s \in Seq(Destination) /\ (p.kind = "dr" => Len(s) = 1)
                        /\ obj[p] = read => s = it.spec
      OBVIOUS
    <3>0. obj[p] # None /\ s = MergePatched(p, obj[p].spec, read.spec, it.spec)
      BY <2>2, Zenon
    <3> HIDE DEF s, kept
    <3>1. /\ obj[p].spec \in Seq(Destination) /\ (p.kind = "dr" => Len(obj[p].spec) = 1)
          /\ read.spec \in Seq(Destination) /\ (p.kind = "dr" => Len(read.spec) = 1)
      BY <1>2, <1>3, <2>2, <3>0, Zenon DEF Object, Shaped
    <3>2. p.kind # "vs" => Len(obj[p].spec) = 1 /\ Len(read.spec) = 1 /\ Len(it.spec) = 1
      BY <1>2, <1>4, <3>1, Zenon
    <3>3. s \in Seq(Destination) /\ (p.kind # "vs" => Len(s) = 1)
      BY <1>2, <3>0, <3>1, <3>2, MergedType, Zenon
    <3>4. MergePatched(p, read.spec, read.spec, it.spec) = it.spec
      BY <1>2, <3>1, <3>2, MergedSame, Zenon
    <3>5. "dr" # "vs"
      OBVIOUS
    <3>6. QED
      BY <3>0, <3>3, <3>4, <3>5, Zenon
  <2>3. QED
    BY <2>1, <2>2, Zenon
<1> HIDE DEF s
<1>6. ~kept => x \in Object /\ Shaped(p, x) /\ x.spec = s /\ x.by = it.by
  <2>1. x = [spec |-> s, by |-> it.by]
    BY Zenon DEF Restored, it
  <2> HIDE DEF x
  <2>2. x.spec = s /\ x.by = it.by
    BY <2>1
  <2>3. ~kept => x \in Object
    BY <1>2, <1>5, <2>1, Zenon DEF Object
  <2>4. QED
    BY <1>5, <2>2, <2>3, Zenon DEF Shaped
<1> HIDE DEF x
<1>7. /\ obj' \in [Objects -> Object \cup {None}]
      /\ \A o \in Objects : Shaped(o, obj'[o])
      /\ \A o \in Objects \ {p} : obj'[o] = obj[o]
      /\ kept => obj' = obj
      /\ ~kept => obj'[p] = x
  <2>1. CASE kept
    BY <1>1, <1>3, <2>1, Zenon
  <2>2. CASE ~kept
    <3>1. obj' = [obj EXCEPT ![p] = x]
      BY <1>1, <2>2, Zenon
    <3> HIDE DEF kept
    <3>2. /\ obj' \in [Objects -> Object \cup {None}]
          /\ \A o \in Objects \ {p} : obj'[o] = obj[o]
          /\ obj'[p] = x
      BY <1>2, <1>3, <1>6, <2>2, <3>1, Zenon
    <3>3. QED
      BY <1>3, <1>6, <2>2, <3>2, Zenon
  <2>3. QED
    BY <2>1, <2>2, Zenon
<1>8. ~lossy /\ ~kept => ~Ours(p)'
  <2>1. ~lossy => it.by = "user"
    BY <1>2, Zenon DEF Strong, Kept
  <2>2. "user" # "ifaas"
    OBVIOUS
  <2> HIDE DEF kept
  <2>3. QED
    BY <1>6, <1>7, <2>1, <2>2, Zenon DEF Ours
<1>9. ~lossy /\ read = None => ~Ours(p)
  BY <1>0, <1>1, Zenon DEF Strong, Kept
<1>10. CASE Abort
  <2>1. ~lossy => \A o \in Objects : Ours(o)' => Ours(o)
    <3> HIDE DEF kept
    <3>1. \A o \in Objects \ {p} : Ours(o)' => Ours(o)
      BY <1>7, Zenon DEF Ours
    <3>2. kept => (Ours(p)' => Ours(p))
      BY <1>7, Zenon DEF Ours
    <3>3. QED
      BY <1>8, <3>1, <3>2, Zenon
  <2>2. QED
    BY <1>1, <1>3, <1>7, <1>10, <2>1, AbortStep, Zenon
<1>11. CASE /\ r = "ok" /\ ~(read # None /\ obj[p] = None)
            /\ NextItem /\ read' = None /\ UNCHANGED <<base, mem, target>>
  <2>1. kept <=> read = None /\ obj[p] # None
    BY <1>11, Zenon DEF Landed
  <2> HIDE DEF kept
  <2>2. p \notin edited' => obj'[p] # None /\ obj'[p].spec = Items(mem)[i].spec
    <3> SUFFICES ASSUME p \notin edited' PROVE obj'[p] # None /\ obj'[p].spec = it.spec
      BY Zenon DEF it
    <3>1. obj[p] = read
      BY <1>1, <1>3, Zenon
    <3>2. ~kept
      BY <2>1, <3>1, Zenon
    <3>3. QED
      BY <1>5, <1>6, <1>7, <3>1, <3>2, NoneApart, Zenon
  <2>3. ~lossy => ~Ours(p)'
    <3>1. kept /\ ~lossy => ~Ours(p)'
      BY <1>7, <1>9, <2>1, Zenon DEF Ours
    <3>2. QED
      BY <1>8, <3>1, Zenon
  <2>4. /\ \A o \in Objects \ {p} : obj'[o] = obj[o] /\ (o \in edited' <=> o \in edited)
        /\ edited' \subseteq Objects
    BY <1>1, <1>3, <1>7, Zenon
  <2>5. /\ pc \in {"restoreGet", "restoreWrite"} /\ NextItem /\ read' \in Object \cup {None}
        /\ UNCHANGED <<port, cr, seen, lossy, base, mem, target>>
    BY <1>1, <1>11, Zenon
  <2>6. QED
    BY <1>0, <1>7, <2>2, <2>3, <2>4, <2>5, NextItemStep, Zenon
<1>12. QED
  BY <1>1, <1>10, <1>11, Zenon

-----------------------------------------------------------------------------
(* The theorems.                                                           *)

LEMMA StrongStep ==
  ASSUME Strong, [Next]_vars
  PROVE  Strong'
<1>1. CASE UNCHANGED vars
  BY <1>1, PortStep, Zenon DEF vars, Strong, TypeRest
<1>2. CASE Reconcile
  BY <1>2, ReconcileStep, Zenon
<1>3. ASSUME NEW r \in Outcome,
             \/ reconcileTraffic(r) \/ GetObject(r) \/ PatchObject(r) \/ patchStatus(r)
             \/ restoreGet(r) \/ restoreWrite(r) \/ removeFinalizer(r)
      PROVE  Strong'
  BY <1>3, reconcileTrafficStep, GetObjectStep, PatchObjectStep, patchStatusStep,
     restoreGetStep, restoreWriteStep, removeFinalizerStep, Zenon
<1>4. CASE Crash \/ Sync
  BY <1>4, CrashStep, SyncStep, Zenon
<1>5. CASE Environment
  <2>1. UNCHANGED <<seen, passVars, lossy>>
    BY <1>5, Zenon DEF Environment
  <2>2. CASE UserEditsObject
    BY <2>1, <2>2, UserEditsObjectStep, Zenon
  <2>3. CASE UserTogglesTraffic \/ UserDeletesCR
    BY <2>1, <2>3, UserChangesCRStep, Zenon
  <2>4. CASE ServiceChanges
    <3>1. UNCHANGED <<obj, cr, edited>> /\ port' \in LivePorts \cup {None}
      BY <2>4, Zenon DEF ServiceChanges
    <3>2. QED
      BY <2>1, <3>1, PortStep, Zenon
  <2>5. QED
    BY <1>5, <2>2, <2>3, <2>4, Zenon DEF Environment
<1>6. QED
  BY <1>1, <1>2, <1>3, <1>4, <1>5, Zenon DEF Next, Pass

\* The inductive invariant holds in every reachable state.
THEOREM TrafficInvariant == Spec => []IInv
<1>1. Init => IInv
  <2>1. Init => Counters
    BY TrafficAssumption DEF Init, Counters
  <2>2. QED
    BY <2>1, InitStrong, Zenon DEF IInv
<1>2. IInv /\ [Next]_vars => IInv'
  BY BoundsStep, StrongStep, Zenon DEF IInv
<1>3. QED
  BY <1>1, <1>2, PTL DEF Spec

\* Every variable has its type, and the position of a pass stays within the
\* declared refs and the snapshots: snapshotVirtualServiceOnce and
\* snapshotDestinationRuleOnce keep at most one snapshot of each declared
\* object, however often it is declared.
THEOREM TrafficTypeCorrect == Spec => []TypeOK
<1>1. IInv => TypeOK
  <2>1. Lists => cr \in CR \cup {None} /\ seen \in CR \cup {None} /\ base \in CR \cup {None} /\ mem \in CR \cup {None}
    BY Zenon DEF Lists, Good
  <2>2. QED
    BY <2>1, Zenon DEF IInv, Strong, Counters, TypeRest, TypeOK
<1>2. QED
  BY <1>1, TrafficInvariant, PTL

\* Between passes the CR keeps what a user wrote in every object the operator
\* has rewritten, unless a pass was cut short, read a stale CR or could not store
\* its status; and a CR that is gone leaves no rewritten object behind.
THEOREM OriginalsStay == Spec => []OriginalsKeptUnlessLost
<1>1. IInv => OriginalsKeptUnlessLost
  <2> SUFFICES ASSUME IInv, ~lossy, pc = "idle", NEW o \in Objects, Ours(o)
               PROVE  cr # None /\ \E n \in SnapshotsOf(cr, o) : cr.snap[o.kind][n].by = "user"
    BY Zenon DEF OriginalsKeptUnlessLost, OriginalsKept, Ours
  <2>1. cr # None /\ SnapshotsOf(cr, o) # {} /\ ByUsers(cr)
    BY Zenon DEF IInv, Strong, Kept
  <2>2. PICK n \in SnapshotsOf(cr, o) : TRUE
    BY <2>1, Zenon
  <2>3. o.kind \in Kinds /\ n \in DOMAIN cr.snap[o.kind]
    BY <2>2, ObjectsType, Zenon DEF SnapshotsOf
  <2>4. QED
    BY <2>1, <2>2, <2>3, Zenon DEF ByUsers
<1>2. QED
  BY <1>1, TrafficInvariant, PTL

\* When reconcileTraffic is about to store its status, observedRoutes has one
\* entry per declared object, and the last entry for an object that says ready
\* is true of it unless a user has changed it since.
THEOREM RoutesExact == Spec => []ObservedRoutesExact
<1>1. IInv => ObservedRoutesExact
  <2> SUFFICES ASSUME IInv, pc = "patchStatus", mem.enabled, ~(i = 1 /\ mem.routes = <<FALSE>>)
               PROVE  /\ Len(mem.routes) = Len(Refs)
                      /\ \A n \in DOMAIN Refs : mem.routes[n] /\ LastOf(n) /\ Refs[n] \notin edited =>
                           /\ obj[Refs[n]] # None
                           /\ LeadsTo(Refs[n], obj[Refs[n]].spec, target)
    BY Zenon DEF ObservedRoutesExact
  <2>1. i = Len(Refs) + 1 /\ Len(mem.routes) = Len(Refs)
    BY Zenon DEF IInv, Strong, Place
  <2>2. DOMAIN Refs = 1..(i - 1)
    BY <2>1, RefsLength
  <2>3. QED
    BY <2>1, <2>2, Zenon DEF IInv, Strong, Exact
<1>2. QED
  BY <1>1, TrafficInvariant, PTL

\* Only an action of users, or the release, takes the CR away.
LEMMA ReleaseOnly ==
  ASSUME IInv, [Next]_vars, cr # None, cr' = None, ops' = ops
  PROVE  pc = "release" /\ cr = base
<1>1. cr \in CR /\ ops \in Nat
  <2>1. cr \in CR
    BY Zenon DEF IInv, Strong, Lists, Good
  <2>2. ops \in 0..MaxOps
    BY Zenon DEF IInv, Counters
  <2>3. QED
    BY <2>1, <2>2
<1>2. ~Environment
  <2>1. ops' # ops + 1
    BY <1>1
  <2>2. QED
    BY <2>1, Zenon DEF Environment
<1>3. ~Reconcile
  <2>1. cr' # [cr EXCEPT !.fin = TRUE]
    <3>1. [cr EXCEPT !.fin = TRUE] \in CR
      BY <1>1, FinUpdate, Zenon
    <3>2. QED
      BY <3>1, NoneApart, Zenon
  <2>2. QED
    BY <2>1, Zenon DEF Reconcile
<1>4. \A r \in Outcome : ~patchStatus(r)
  BY patchStatusStep, Zenon DEF IInv
<1>5. PICK r \in Outcome : removeFinalizer(r)
  BY <1>2, <1>3, <1>4, Zenon
     DEF Next, Pass, reconcileTraffic, GetObject, PatchObject, restoreGet, restoreWrite,
         Crash, Sync, vars
<1>6. QED
  BY <1>5, Zenon DEF removeFinalizer

\* The service finalizer goes only when every snapshot of the CR has been
\* written back, whatever failed on the way and whatever the cache showed:
\* removeFinalizer is refused unless the CR is the one restoreTrafficSnapshots
\* worked from.
THEOREM ReleasedAfterRestore == Spec => ReleaseRestores
<1>1. IInv /\ [Next]_vars =>
        [cr # None /\ cr' = None /\ ops' = ops =>
           \A o \in Objects \ edited : \A n \in SnapshotsOf(cr, o) :
             obj[o] # None /\ obj[o].spec = cr.snap[o.kind][n].spec]_vars
  <2> SUFFICES ASSUME IInv, [Next]_vars, cr # None, cr' = None, ops' = ops,
                      NEW o \in Objects \ edited, NEW n \in SnapshotsOf(cr, o)
               PROVE  obj[o] # None /\ obj[o].spec = cr.snap[o.kind][n].spec
    OBVIOUS
  <2>1. pc = "release" /\ cr = base
    BY ReleaseOnly, Zenon
  <2>2. /\ cr = mem /\ mem \in CR /\ i = Len(Items(mem)) + 1
        /\ \A m \in DOMAIN Items(mem) : m < i /\ Items(mem)[m].o \notin edited =>
             obj[Items(mem)[m].o] # None /\ obj[Items(mem)[m].o].spec = Items(mem)[m].spec
    BY <2>1, Zenon DEF IInv, Strong, Place, Lists, Good, WrittenBack, Restoring
  <2>3. o.kind \in Kinds /\ n \in DOMAIN cr.snap[o.kind] /\ cr.snap[o.kind][n].name = o.name
    BY ObjectsType, Zenon DEF SnapshotsOf
  <2>4. PICK m \in DOMAIN Items(mem) : Items(mem)[m] = Item(o.kind, cr.snap[o.kind][n])
    BY <2>2, <2>3, ItemsFacts, Zenon
  <2>5. /\ Items(mem)[m].o = [kind |-> o.kind, name |-> cr.snap[o.kind][n].name]
        /\ Items(mem)[m].spec = cr.snap[o.kind][n].spec
    BY <2>4 DEF Item
  <2>6. Items(mem)[m].o = o
    BY <2>3, <2>5, ObjectsType, Zenon
  <2>7. m < i
    <3>1. DOMAIN Items(mem) = 1..Len(Items(mem)) /\ Len(Items(mem)) \in Nat
      BY <2>2, ItemsFacts, Zenon
    <3>2. QED
      BY <2>2, <3>1
  <2>8. QED
    BY <2>2, <2>5, <2>6, <2>7, Zenon
<1>2. QED
  BY <1>1, TrafficInvariant, PTL DEF Spec, ReleaseRestores
=============================================================================
