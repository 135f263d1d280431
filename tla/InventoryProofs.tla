-------------------------- MODULE InventoryProofs --------------------------
(***************************************************************************)
(* What Inventory keeps for any inventory, any views, any weights and any  *)
(* checks that raise: an object that stayed neither goes nor comes in the  *)
(* log, what a check finds is among what it judges when the score is asked *)
(* for, unless what it was compared with is gone, and resolving a finding  *)
(* that is covered so, or the gravest of its check, never lowers the       *)
(* score.  In a plausible vCenter, what a scan newly finds comes with a    *)
(* change, and who follows the changes knows what the last snapshot has.   *)
(***************************************************************************)
EXTENDS Inventory, FiniteSetTheorems, FunctionTheorems, WellFoundedInduction, TLAPS

\* What a function of finitely many arguments reaches is no more than they are.
LEMMA Reached ==
  ASSUME NEW S, IsFiniteSet(S), NEW T, NEW f \in [S -> T], \A t \in T : \E s \in S : f[s] = t
  PROVE  IsFiniteSet(T) /\ Cardinality(T) <= Cardinality(S)
<1>1. f \in Surjection(S, T) BY DEF Surjection
<1>. QED BY <1>1, FS_Surjection

LEMMA Parts ==
  ASSUME NEW S, IsFiniteSet(S), NEW T, T \subseteq S
  PROVE  IsFiniteSet(T) /\ Cardinality(T) \in Nat /\ Cardinality(S) \in Nat /\ Cardinality(T) <= Cardinality(S)
BY FS_Subset, FS_CardinalityType

\* A scan stores what it found, and an older snapshot goes.
Stores == \E raising \in Raising : Store(raising)
Thins == \E i \in 1..MaxOlder : Thin(i)

-----------------------------------------------------------------------------
(* Resources *)

\* An object makes a resource of the type of its kind, with its reference for an id, or none.
LEMMA OneResource ==
  ASSUME NEW inv, NEW m
  PROVE  /\ IsFiniteSet(Built(inv, m))
         /\ \A r \in Built(inv, m) : /\ r.type = TypeOf(inv[m].kind) /\ r.id = Rid(r.type, m)
                                     /\ TypeOf(inv[m].kind) # None
         /\ TypeOf(inv[m].kind) # None => Built(inv, m) # {}
<1>. DEFINE kind == inv[m].kind
<1>1. ASSUME NEW r, NEW type, NEW o, NEW parent, NEW rels, NEW props,
             r = Resource(type, m, o, parent, rels, props)
      PROVE  r.type = type /\ r.id = Rid(type, m)
  BY <1>1 DEF Resource
<1>2. BuildDatacenter(inv, m).type = "datacenter" /\ BuildDatacenter(inv, m).id = Rid("datacenter", m)
  BY DEF BuildDatacenter, Resource
<1>3. BuildCluster(inv, m).type = "cluster" /\ BuildCluster(inv, m).id = Rid("cluster", m)
  BY DEF BuildCluster, Resource
<1>4. BuildHost(inv, m).type = "host" /\ BuildHost(inv, m).id = Rid("host", m)
  BY DEF BuildHost, Resource
<1>5. BuildVm(inv, m).type = "vm" /\ BuildVm(inv, m).id = Rid("vm", m)
  BY DEF BuildVm, Resource
<1>6. BuildDatastore(inv, m).type = "datastore" /\ BuildDatastore(inv, m).id = Rid("datastore", m)
  BY DEF BuildDatastore, Resource
<1>7. BuildNetwork(inv, m).type = "network" /\ BuildNetwork(inv, m).id = Rid("network", m)
  BY DEF BuildNetwork, Resource
<1>8. \A r : IsFiniteSet({r}) BY FS_Singleton
<1>9. IsFiniteSet({}) BY FS_EmptySet
<1>10. {"vcenter", "datacenter", "cluster", "host", "vm", "datastore", "network"} = Types /\ None \notin Types
  BY InventoryAssumption DEF Types
<1>. HIDE DEF kind
<1>11. Built(inv, m) =
         CASE kind = "Datacenter" -> {BuildDatacenter(inv, m)}
           [] kind = "ClusterComputeResource" -> {BuildCluster(inv, m)}
           [] kind = "HostSystem" -> {BuildHost(inv, m)}
           [] kind = "VirtualMachine" -> {BuildVm(inv, m)}
           [] kind = "Datastore" -> {BuildDatastore(inv, m)}
           [] kind \in {"Network", "DistributedVirtualPortgroup", "OpaqueNetwork"} -> {BuildNetwork(inv, m)}
           [] OTHER -> {}
  BY DEF Built, kind
<1>12. CASE kind = "Datacenter"
  BY <1>2, <1>8, <1>10, <1>11, <1>12 DEF TypeOf, kind
<1>13. CASE kind = "ClusterComputeResource"
  BY <1>3, <1>8, <1>10, <1>11, <1>13 DEF TypeOf, kind
<1>14. CASE kind = "HostSystem"
  BY <1>4, <1>8, <1>10, <1>11, <1>14 DEF TypeOf, kind
<1>15. CASE kind = "VirtualMachine"
  BY <1>5, <1>8, <1>10, <1>11, <1>15 DEF TypeOf, kind
<1>16. CASE kind = "Datastore"
  BY <1>6, <1>8, <1>10, <1>11, <1>16 DEF TypeOf, kind
<1>17. CASE kind \in {"Network", "DistributedVirtualPortgroup", "OpaqueNetwork"}
  BY <1>7, <1>8, <1>10, <1>11, <1>17 DEF TypeOf, kind
<1>18. CASE kind \notin {"Datacenter", "ClusterComputeResource", "HostSystem", "VirtualMachine", "Datastore",
                         "Network", "DistributedVirtualPortgroup", "OpaqueNetwork"}
  BY <1>9, <1>11, <1>18 DEF TypeOf, kind
<1>. QED BY <1>12, <1>13, <1>14, <1>15, <1>16, <1>17, <1>18

\* A complete collection shows what was there all the time.
LEMMA SnapshotOf ==
  ASSUME NEW inv, NEW stayed,
         \A m \in DOMAIN inv : m \in DOMAIN Start /\ inv[m].kind = Start[m].kind /\ Viewed(m, Len(Views) + 1),
         \A m \in stayed : Viewed(m, Len(Views) + 1) => m \in DOMAIN inv
  PROVE  ShownIn(Normalized(inv), stayed)
<1>. DEFINE B == [m \in DOMAIN inv |-> Built(inv, m)]
            All == {B[m] : m \in DOMAIN inv}
<1>1. Normalized(inv) = {VCenterResource} \cup UNION All BY DEF Normalized
<1>2. IsFiniteSet(Normalized(inv))
  <2>1. IsFiniteSet(DOMAIN inv) BY InventoryAssumption, Parts
  <2>2. B \in [DOMAIN inv -> All] /\ \A x \in All : \E m \in DOMAIN inv : B[m] = x OBVIOUS
  <2>. HIDE DEF B
  <2>3. IsFiniteSet(All) BY <2>1, <2>2, Reached
  <2>4. \A x \in All : IsFiniteSet(x) BY OneResource DEF B
  <2>5. IsFiniteSet(UNION All) /\ IsFiniteSet({VCenterResource}) BY <2>3, <2>4, FS_UNION, FS_Singleton
  <2>. HIDE DEF All
  <2>6. IsFiniteSet({VCenterResource} \cup UNION All) BY <2>5, FS_Union
  <2>. QED BY <1>1, <2>6
<1>3. ASSUME NEW r \in Normalized(inv)
      PROVE  (r.type = "vcenter" /\ r.id = VCenter) \/ \E m \in Shown : Names(r, m)
  <2>1. CASE r = VCenterResource BY <2>1 DEF VCenterResource
  <2>2. CASE r # VCenterResource
    <3>1. PICK m \in DOMAIN inv : r \in Built(inv, m) BY <1>1, <1>3, <2>2
    <3>2. r.type = TypeOf(inv[m].kind) /\ r.id = Rid(r.type, m) /\ TypeOf(inv[m].kind) # None
      BY <3>1, OneResource
    <3>. QED BY <3>2 DEF Shown, Names
  <2>. QED BY <2>1, <2>2
<1>4. ASSUME NEW m \in stayed \cap Shown PROVE \E r \in Normalized(inv) : Names(r, m)
  <2>1. m \in DOMAIN inv /\ inv[m].kind = Start[m].kind /\ TypeOf(Start[m].kind) # None BY DEF Shown
  <2>2. Built(inv, m) # {} BY <2>1, OneResource
  <2>3. PICK r : r \in Built(inv, m) BY <2>2
  <2>4. r.type = TypeOf(inv[m].kind) /\ r.id = Rid(r.type, m) BY <2>3, OneResource
  <2>5. r \in Normalized(inv) BY <1>1, <2>1, <2>3
  <2>. QED BY <2>1, <2>4, <2>5 DEF Names
<1>5. VCenterResource \in Normalized(inv) /\ VCenterResource.type = "vcenter" /\ VCenterResource.id = VCenter
  BY <1>1 DEF VCenterResource
<1>. QED BY <1>2, <1>3, <1>4, <1>5 DEF ShownIn

\* An id names resources of one type only.
LEMMA OneType ==
  ASSUME NEW olds, NEW news, NEW before, NEW after, ShownIn(olds, before), ShownIn(news, after),
         NEW r \in olds, NEW s \in news, r.id = s.id
  PROVE  r.type = s.type
<1>1. \A m \in Shown : m \in DOMAIN Start /\ TypeOf(Start[m].kind) \in Types
  BY DEF Shown, TypeOf, Types
<1>2. ASSUME NEW rs, NEW stayed, ShownIn(rs, stayed), NEW x \in rs
      PROVE  x.type \in Types /\ \E m \in DOMAIN Start \cup {"vc"} : x.id = Rid(x.type, m)
  <2>2. (x.type = "vcenter" /\ x.id = VCenter) \/ \E m \in Shown : Names(x, m) BY <1>2 DEF ShownIn
  <2>3. CASE x.type = "vcenter" /\ x.id = VCenter BY <2>3 DEF VCenter, Types
  <2>4. CASE \E m \in Shown : Names(x, m) BY <1>1, <2>4 DEF Names
  <2>. QED BY <2>2, <2>3, <2>4
<1>3. r.type \in Types /\ s.type \in Types BY <1>2
<1>4. PICK m \in DOMAIN Start \cup {"vc"} : r.id = Rid(r.type, m) BY <1>2
<1>5. PICK n \in DOMAIN Start \cup {"vc"} : s.id = Rid(s.type, n) BY <1>2
<1>. QED BY <1>3, <1>4, <1>5, InventoryAssumption

\* Of what stayed all the time between two snapshots, nothing goes or comes.
LEMMA NothingGoes ==
  ASSUME NEW olds, NEW news, NEW stayed, stayed \subseteq DOMAIN Start,
         ShownIn(olds, stayed), ShownIn(news, stayed),
         NEW c \in Changes(olds, news, "low"), c.change # "modified"
  PROVE  c.id \notin {Rid(c.type, m) : m \in stayed}
<1>1. \A m \in Shown : m \in DOMAIN Start /\ TypeOf(Start[m].kind) \in Types
  BY DEF Shown, TypeOf, Types
<1>3. \A r \in olds, s \in news : r.id = s.id => r.type = s.type BY OneType
<1>4. ASSUME NEW rs \in {olds, news}, NEW r \in rs, NEW other \in {olds, news},
             NEW m \in stayed, r.id = Rid(r.type, m)
      PROVE  \E s \in other : s.id = r.id
  <2>1. ShownIn(rs, stayed) /\ ShownIn(other, stayed) BY <1>4
  <2>2. CASE r.type = "vcenter" /\ r.id = VCenter BY <2>1, <2>2 DEF ShownIn
  <2>3. CASE \E n \in Shown : Names(r, n)
    <3>1. PICK n \in Shown : Names(r, n) BY <2>3
    <3>2. n = m /\ r.type = TypeOf(Start[m].kind) BY <1>1, <1>4, <3>1, InventoryAssumption DEF Names
    <3>3. PICK s \in other : Names(s, m) BY <2>1, <3>1, <3>2 DEF ShownIn
    <3>. QED BY <1>4, <3>2, <3>3 DEF Names
  <2>. QED BY <2>1, <2>2, <2>3 DEF ShownIn
<1>. SUFFICES ASSUME NEW m \in stayed, c.id = Rid(c.type, m) PROVE FALSE OBVIOUS
<1>5. \/ \E s \in news : c = Added(s) /\ \A r \in olds : r.id # s.id
      \/ \E r \in olds : c = Removed(r) /\ \A s \in news : s.id # r.id
      \/ \E r \in olds, s \in news : r.id = s.id /\ r.type = s.type /\ c \in Modified(r, s, olds, news)
  BY <1>3 DEF Changes
<1>6. CASE \E s \in news : c = Added(s) /\ \A r \in olds : r.id # s.id
  <2>1. PICK s \in news : c = Added(s) /\ \A r \in olds : r.id # s.id BY <1>6
  <2>2. c.id = s.id /\ c.type = s.type BY <2>1 DEF Added
  <2>. QED BY <1>4, <2>1, <2>2
<1>7. CASE \E r \in olds : c = Removed(r) /\ \A s \in news : s.id # r.id
  <2>1. PICK r \in olds : c = Removed(r) /\ \A s \in news : s.id # r.id BY <1>7
  <2>2. c.id = r.id /\ c.type = r.type BY <2>1 DEF Removed
  <2>. QED BY <1>4, <2>1, <2>2
<1>8. CASE \E r \in olds, s \in news : r.id = s.id /\ r.type = s.type /\ c \in Modified(r, s, olds, news)
  BY <1>8 DEF Modified
<1>. QED BY <1>5, <1>6, <1>7, <1>8

-----------------------------------------------------------------------------
(* The steps *)

\* What vCenter becomes consists of the objects it began with.
LEMMA WorldKinds ==
  ASSUME KindsKept, Next
  PROVE  KindsKept'
<1>. USE InventoryAssumption
<1>. DEFINE Kept(w) == \A m \in DOMAIN w : /\ m \in DOMAIN Start /\ w[m].kind = Start[m].kind
                                           /\ DOMAIN w[m] = {"kind", "props"}
<1>1. Kept(world) BY DEF KindsKept
<1>2. KindsKept' <=> Kept(world') BY DEF KindsKept
<1>3. ASSUME NEW w, Kept(w), NEW S PROVE Kept(Without(w, S)) BY <1>3 DEF Without, Only
<1>4. ASSUME NEW w, Kept(w), NEW h, NEW cluster PROVE Kept(Placed(w, h, cluster)) BY <1>4 DEF Placed
<1>5. ASSUME NEW w, Kept(w), NEW m, NEW props PROVE Kept([w EXCEPT ![m].props = props]) BY <1>5
<1>. HIDE DEF Kept
<1>6. ASSUME NEW e, SetValue(e) PROVE Kept(world')
  <2>1. PICK props : world' = [world EXCEPT ![e.object].props = props]
    BY <1>6 DEF SetValue, WorldBecomes
  <2>. QED BY <1>1, <1>5, <2>1
<1>7. ASSUME NEW h, NEW state, Disconnect(h, state) PROVE Kept(world')
  <2>1. PICK props : world' = [world EXCEPT ![h].props = props]
    BY <1>7 DEF Disconnect, WorldBecomes
  <2>. QED BY <1>1, <1>5, <2>1
<1>8. ASSUME NEW h, Reconnect(h) PROVE Kept(world')
  <2>1. PICK props : world' = [world EXCEPT ![h].props = props]
    BY <1>8 DEF Reconnect, WorldBecomes
  <2>. QED BY <1>1, <1>5, <2>1
<1>9. ASSUME NEW h, NEW cluster, Move(h, cluster) PROVE Kept(world')
  BY <1>1, <1>4, <1>9 DEF Move, WorldBecomes
<1>10. ASSUME NEW m, Remove(m) PROVE Kept(world')
  <2>1. world' \in {Without(Placed(world, m, None), {m}), Without(world, {m})}
    BY <1>10 DEF Remove, WorldBecomes
  <2>. QED BY <1>1, <1>3, <1>4, <2>1
<1>11. ASSUME NEW m, Return(m) PROVE Kept(world')
  <2>. DEFINE w == [x \in DOMAIN world \cup {m} |-> IF x = m THEN Start[m] ELSE world[x]]
  <2>1. m \in DOMAIN Start BY <1>11 DEF Return
  <2>2. Kept(w) BY <1>1, <2>1 DEF Kept
  <2>3. world' = Placed(w, m, Get(Start[m], "parent")) \/ world' = w BY <1>11 DEF Return, WorldBecomes
  <2>. HIDE DEF w
  <2>. QED BY <1>4, <2>2, <2>3
<1>12. ASSUME WeekPasses \/ Begin \/ Retrieve \/ Stores \/ Thins \/ CollectionFails PROVE Kept(world')
  BY <1>1, <1>12 DEF WeekPasses, Begin, Retrieve, Stores, Store, Thins, Thin, CollectionFails, vcenter
<1>. QED BY <1>2, <1>6, <1>7, <1>8, <1>9, <1>10, <1>11, <1>12 DEF Next, Stores, Thins

\* What vCenter does leaves the scans and their results alone.
LEMMA Outside ==
  ASSUME Next
  PROVE  \/ \E w : WorldBecomes(w)
         \/ WeekPasses \/ Begin \/ Retrieve \/ Stores \/ Thins \/ CollectionFails
BY DEF Next, Stores, Thins, SetValue, Disconnect, Reconnect, Move, Remove, Return

\* A collection merges what the views return.
LEMMA CollectedSteps ==
  ASSUME KindsKept, Collected, Next
  PROVE  Collected'
<1>. USE InventoryAssumption
<1>1. CASE \E w : WorldBecomes(w)
  BY <1>1 DEF Collected, WorldBecomes, Viewed
<1>2. CASE WeekPasses
  BY <1>2 DEF Collected, WeekPasses, Viewed
<1>3. CASE Begin
  BY <1>3 DEF Collected, Begin, Viewed, vcenter
<1>4. CASE Retrieve
  <2>. DEFINE view == Views[step]
              returned == {m \in DOMAIN world : world[m].kind \in Kinds(view)}
              seen == [m \in returned |-> [kind |-> world[m].kind, props |-> Only(world[m].props, Specs(view))]]
  <2>1. /\ step \in 1..Len(Views) /\ step' = step + 1 /\ raw' = Merged(seen)
        /\ UNCHANGED <<world, alive, steady>>
    BY <1>4 DEF Retrieve, vcenter
  <2>2. DOMAIN seen = returned /\ \A m \in returned : seen[m].kind = world[m].kind OBVIOUS
  <2>3. \A m \in returned : m \in DOMAIN Start /\ world[m].kind = Start[m].kind BY DEF KindsKept
  <2>. HIDE DEF seen
  <2>4. /\ DOMAIN Merged(seen) = DOMAIN raw \cup returned
        /\ \A m \in DOMAIN raw \ returned : Merged(seen)[m] = raw[m]
        /\ \A m \in returned : Merged(seen)[m].kind = seen[m].kind
    BY <2>2 DEF Merged
  <2>5. \A m : Viewed(m, step) => Viewed(m, step + 1) BY <2>1 DEF Viewed
  <2>6. \A m \in returned : Viewed(m, step + 1) BY <2>1, <2>3 DEF Viewed
  <2>7. \A m \in alive : Viewed(m, step + 1) => Viewed(m, step) \/ m \in returned
    BY <2>1 DEF Viewed, Collected, KindsKept
  <2>. HIDE DEF returned
  <2>8. \A m \in DOMAIN raw' : m \in DOMAIN Start /\ raw'[m].kind = Start[m].kind /\ Viewed(m, step + 1)
    BY <2>1, <2>2, <2>3, <2>4, <2>5, <2>6 DEF Collected
  <2>9. \A m \in alive : Viewed(m, step + 1) => m \in DOMAIN raw'
    BY <2>1, <2>4, <2>7 DEF Collected
  <2>10. \A m : Viewed(m, step)' <=> Viewed(m, step + 1) BY <2>1 DEF Viewed
  <2>11. step' \in 0..(Len(Views) + 1) BY <2>1
  <2>. QED BY <2>1, <2>8, <2>9, <2>10, <2>11 DEF Collected
<1>5. CASE Stores
  BY <1>5 DEF Collected, Stores, Store
<1>6. CASE CollectionFails
  BY <1>6 DEF Collected, CollectionFails
<1>7. CASE Thins
  BY <1>7 DEF Collected, Thins, Thin, Viewed
<1>. QED BY <1>1, <1>2, <1>3, <1>4, <1>5, <1>6, <1>7, Outside

\* A snapshot is stored of a complete collection only.
LEMMA Stored ==
  ASSUME Collected, Stores
  PROVE  /\ step # 0 /\ step' = 0 /\ current' = Normalized(raw) /\ ShownIn(current', steady) /\ ShownIn(current', alive)
         /\ steady \subseteq alive /\ alive \subseteq DOMAIN world /\ alive' = alive /\ steady' = steady
         /\ changes' = IF current = None THEN {} ELSE Changes(current, current', "low")
<1>. USE InventoryAssumption
<1>1. step = Len(Views) + 1 /\ step' = 0 /\ current' = Normalized(raw) /\ UNCHANGED <<alive, steady>>
  BY DEF Stores, Store
<1>2. step > 0 BY <1>1
<1>3. \A m \in DOMAIN raw : m \in DOMAIN Start /\ raw[m].kind = Start[m].kind /\ Viewed(m, Len(Views) + 1)
  BY <1>1 DEF Collected
<1>4. \A m \in alive : Viewed(m, Len(Views) + 1) => m \in DOMAIN raw
  BY <1>1, <1>2 DEF Collected
<1>5. steady \subseteq alive /\ alive \subseteq DOMAIN world BY DEF Collected
<1>6. ShownIn(Normalized(raw), alive) /\ ShownIn(Normalized(raw), steady)
  BY <1>3, <1>4, <1>5, SnapshotOf
<1>7. changes' = IF current = None THEN {} ELSE Changes(current, Normalized(raw), "low")
  BY DEF Stores, Store
<1>. QED BY <1>1, <1>2, <1>5, <1>6, <1>7

\* The last snapshot shows what was there all the time from the beginning of its collection.
LEMMA SnapshotSteps ==
  ASSUME Collected, SnapshotShown, Next
  PROVE  SnapshotShown'
<1>. USE InventoryAssumption
<1>1. ASSUME NEW rs, NEW stayed, NEW fewer, ShownIn(rs, stayed), fewer \subseteq stayed
      PROVE  ShownIn(rs, fewer)
  BY <1>1 DEF ShownIn
<1>2. ASSUME current' = current, Stayed' \subseteq Stayed PROVE SnapshotShown'
  BY <1>1, <1>2 DEF SnapshotShown
<1>3. CASE \E w : WorldBecomes(w)
  <2>1. current' = current /\ step' = step /\ alive' \subseteq alive /\ steady' \subseteq steady
    BY <1>3 DEF WorldBecomes, results, scan
  <2>. QED BY <1>2, <2>1 DEF Stayed
<1>4. CASE WeekPasses
  <2>1. current' = current /\ step' = step /\ alive' = alive /\ steady' = steady
    BY <1>4 DEF WeekPasses, results, scan
  <2>. QED BY <1>2, <2>1 DEF Stayed
<1>5. CASE Begin
  <2>1. current' = current /\ step = 0 /\ step' = 1 /\ steady' = alive BY <1>5 DEF Begin, results, scan
  <2>. QED BY <1>2, <2>1 DEF Stayed
<1>6. CASE Retrieve
  <2>1. current' = current /\ step # 0 /\ step' # 0 /\ steady' = steady BY <1>6 DEF Retrieve, results, scan
  <2>. QED BY <1>2, <2>1 DEF Stayed
<1>7. CASE Stores BY <1>7, Stored DEF SnapshotShown, Stayed
<1>8. CASE CollectionFails
  <2>1. current' = current /\ step # 0 /\ step' = 0 /\ alive' = steady BY <1>8 DEF CollectionFails, results, scan
  <2>. QED BY <1>2, <2>1 DEF Stayed
<1>9. CASE Thins
  <2>1. current' = current /\ step' = step /\ alive' = alive /\ steady' = steady
    BY <1>9 DEF Thins, Thin, scan
  <2>. QED BY <1>2, <2>1 DEF Stayed
<1>. QED BY <1>3, <1>4, <1>5, <1>6, <1>7, <1>8, <1>9, Outside

\* What a step does to the changes that are told.
LEMMA IdentitySteps ==
  ASSUME KindsKept, Collected, SnapshotShown, IdentityStable, Next
  PROVE  IdentityStable'
<1>. USE InventoryAssumption
<1>1. ASSUME current' = current, step' = step, changes' = changes, steady' \subseteq steady
      PROVE  IdentityStable'
  BY <1>1 DEF IdentityStable, Between
<1>2. ASSUME step' # 0 PROVE IdentityStable'
  BY <1>2 DEF IdentityStable, Between
<1>3. CASE \E w : WorldBecomes(w)
  BY <1>1, <1>3 DEF WorldBecomes, results, scan
<1>4. CASE WeekPasses
  BY <1>1, <1>4 DEF WeekPasses, results, scan
<1>5. CASE Begin \/ Retrieve
  BY <1>2, <1>5 DEF Begin, Retrieve
<1>6. CASE Stores
  <2>1. /\ step # 0 /\ ShownIn(current', steady) /\ steady \subseteq DOMAIN Start /\ steady' = steady
        /\ changes' = IF current = None THEN {} ELSE Changes(current, current', "low")
    BY <1>6, Stored DEF KindsKept
  <2>2. current # None => ShownIn(current, steady) BY <2>1 DEF SnapshotShown, Stayed
  <2>3. ASSUME NEW c \in changes', c.change # "modified"
        PROVE  c.id \notin {Rid(c.type, m) : m \in steady}
    <3>1. current # None /\ c \in Changes(current, current', "low") BY <2>1, <2>3
    <3>. QED BY <2>1, <2>2, <2>3, <3>1, NothingGoes
  <2>. QED BY <2>1, <2>3 DEF IdentityStable
<1>7. CASE CollectionFails
  BY <1>7 DEF CollectionFails, IdentityStable
<1>8. CASE Thins
  BY <1>1, <1>8 DEF Thins, Thin, scan
<1>. QED BY <1>3, <1>4, <1>5, <1>6, <1>7, <1>8, Outside

-----------------------------------------------------------------------------
(* The checks *)

\* A verdict has at most one finding about an object, and only about objects it judged.
Sound(v) ==
  /\ IsFiniteSet(v.judged)
  /\ \A f \in v.found : f[1] \in v.judged /\ f[2] \in Severity
  /\ \A f, g \in v.found : f[1] = g[1] => f[2] = g[2]

LEMMA OneSeverity ==
  ASSUME NEW rs, IsFiniteSet(rs), NEW judged, judged \subseteq rs, NEW found, found \subseteq judged,
         NEW severity \in Severity
  PROVE  Sound(Verdict(judged, Each(found, severity)))
<1>1. IsFiniteSet(judged) BY Parts
<1>. QED BY <1>1 DEF Sound, Verdict, Each

LEMMA HostChecksSound ==
  ASSUME NEW rs, IsFiniteSet(rs)
  PROVE  /\ Sound(HostDisconnected(rs)) /\ Sound(HostNotResponding(rs)) /\ Sound(HostMaintenanceMode(rs))
         /\ Sound(HostNtpNotConfigured(rs)) /\ Sound(HostVersionMismatch(rs))
<1>. USE DEF Severity
<1>1. Sound(HostDisconnected(rs))
  BY OneSeverity DEF HostDisconnected, HavingState, OfType
<1>2. Sound(HostNotResponding(rs))
  BY OneSeverity DEF HostNotResponding, HavingState, OfType
<1>3. Sound(HostMaintenanceMode(rs))
  BY OneSeverity DEF HostMaintenanceMode, OfType
<1>4. Sound(HostNtpNotConfigured(rs))
  BY OneSeverity DEF HostNtpNotConfigured, OfType
<1>5. Sound(HostVersionMismatch(rs))
  <2>. DEFINE Reporting(c) == {h \in OfType(rs, "host") : h.id \in Members(rs, c.id) /\ Prop(h, "version") # None}
              Builds(c) == {<<Prop(h, "version"), Prop(h, "build")>> : h \in Reporting(c)}
              clusters == OfType(rs, "cluster")
              judged == {c \in clusters : Cardinality(Reporting(c)) >= 2}
              found == {c \in clusters : Cardinality(Builds(c)) >= 2}
  \* There are no more builds than hosts that report one.
  <2>1. ASSUME NEW c \in clusters, Cardinality(Builds(c)) >= 2 PROVE Cardinality(Reporting(c)) >= 2
    <3>. DEFINE hosts == Reporting(c)
                builds == Builds(c)
                build == [h \in hosts |-> <<Prop(h, "version"), Prop(h, "build")>>]
    <3>1. hosts \subseteq rs BY DEF OfType
    <3>2. build \in [hosts -> builds] /\ \A b \in builds : \E h \in hosts : build[h] = b OBVIOUS
    <3>3. Cardinality(builds) >= 2 BY <2>1
    <3>. HIDE DEF hosts, builds, build
    <3>4. IsFiniteSet(hosts) /\ Cardinality(hosts) \in Nat BY <3>1, Parts
    <3>5. IsFiniteSet(builds) /\ Cardinality(builds) <= Cardinality(hosts) BY <3>2, <3>4, Reached
    <3>6. Cardinality(builds) \in Nat BY <3>5, FS_CardinalityType
    <3>7. Cardinality(hosts) >= 2 BY <3>3, <3>4, <3>5, <3>6
    <3>. QED BY <3>7 DEF hosts
  <2>2. found \subseteq judged BY <2>1
  <2>3. judged \subseteq rs BY DEF OfType
  <2>4. HostVersionMismatch(rs) = Verdict(judged, Each(found, "warning")) BY DEF HostVersionMismatch
  <2>. HIDE DEF judged, found
  <2>. QED BY <2>2, <2>3, <2>4, OneSeverity
<1>. QED BY <1>1, <1>2, <1>3, <1>4, <1>5

LEMMA ClusterChecksSound ==
  ASSUME NEW rs, IsFiniteSet(rs), NEW previous
  PROVE  /\ Sound(ClusterHostCountChange(rs, previous)) /\ Sound(HostCountLow(rs))
         /\ Sound(ClusterHaDisabled(rs)) /\ Sound(ClusterDrsDisabled(rs))
<1>. USE DEF Severity
<1>1. Sound(ClusterHostCountChange(rs, previous))
  BY OneSeverity DEF ClusterHostCountChange, OfType
<1>2. Sound(HostCountLow(rs))
  BY OneSeverity DEF HostCountLow, OfType
<1>3. Sound(ClusterHaDisabled(rs))
  BY OneSeverity DEF ClusterHaDisabled, OfType
<1>4. Sound(ClusterDrsDisabled(rs))
  BY OneSeverity DEF ClusterDrsDisabled, OfType
<1>. QED BY <1>1, <1>2, <1>3, <1>4

LEMMA DatastoreChecksSound ==
  ASSUME NEW rs, IsFiniteSet(rs)
  PROVE  Sound(DatastoreHighUsage(rs)) /\ Sound(DatastoreInaccessible(rs))
<1>. USE DEF Severity
\* No datastore is both full and filling.
<1>1. Sound(DatastoreHighUsage(rs))
  <2>. DEFINE known == {d \in OfType(rs, "datastore") : Usage(d) # None}
              full == {d \in known : Usage(d) >= 950}
              filling == {d \in known \ full : Usage(d) >= 850}
  <2>1. DatastoreHighUsage(rs) = Verdict(known, Each(filling, "warning") \cup Each(full, "critical"))
    BY DEF DatastoreHighUsage
  <2>2. known \subseteq rs /\ full \subseteq known /\ filling \subseteq known /\ full \cap filling = {}
    BY DEF OfType
  <2>. HIDE DEF known, full, filling
  <2>3. IsFiniteSet(known) BY <2>2, Parts
  <2>. QED BY <2>1, <2>2, <2>3 DEF Sound, Verdict, Each
<1>2. Sound(DatastoreInaccessible(rs))
  BY OneSeverity DEF DatastoreInaccessible, OfType
<1>. QED BY <1>1, <1>2

LEMMA MachineChecksSound ==
  ASSUME NEW rs, IsFiniteSet(rs), NEW now
  PROVE  /\ Sound(VmPoweredOff(rs)) /\ Sound(VmOrphanedOrInaccessible(rs))
         /\ Sound(VmSnapshotStale(rs, now)) /\ Sound(VmToolsNotRunning(rs))
<1>. USE DEF Severity
<1>1. Sound(VmPoweredOff(rs))
  BY OneSeverity DEF VmPoweredOff, Machines, OfType
<1>2. Sound(VmOrphanedOrInaccessible(rs))
  BY OneSeverity DEF VmOrphanedOrInaccessible, OfType
<1>3. Sound(VmSnapshotStale(rs, now))
  BY OneSeverity DEF VmSnapshotStale, OfType
<1>4. Sound(VmToolsNotRunning(rs))
  BY OneSeverity DEF VmToolsNotRunning, Machines, OfType
<1>. QED BY <1>1, <1>2, <1>3, <1>4

LEMMA RemovalChecksSound ==
  ASSUME NEW rs, NEW previous, IsFiniteSet(Before(previous))
  PROVE  Sound(NetworkRemoved(rs, previous)) /\ Sound(ResourceRemoved(rs, previous))
<1>. USE DEF Severity
<1>1. Sound(NetworkRemoved(rs, previous))
  BY OneSeverity DEF NetworkRemoved, Gone, OfType
<1>2. Sound(ResourceRemoved(rs, previous))
  <2>. DEFINE Expected(r) == r.type # "network" /\ ~(r.type = "vm" /\ r.name \in Transient)
              judged == {r \in Before(previous) : Expected(r)}
              found == {r \in Gone(rs, previous) : Expected(r)}
  <2>1. judged \subseteq Before(previous) /\ found \subseteq judged BY DEF Gone
  <2>2. ResourceRemoved(rs, previous) = Verdict(judged, Each(found, "warning")) BY DEF ResourceRemoved
  <2>. HIDE DEF judged, found
  <2>. QED BY <2>1, <2>2, OneSeverity
<1>. QED BY <1>1, <1>2

\* The checks of a scan.
LEMMA VerdictsSound ==
  ASSUME NEW rs, IsFiniteSet(rs), NEW previous, IsFiniteSet(Before(previous)), NEW now
  PROVE  LET vs == Verdicts(rs, previous, now)
         IN IsFiniteSet(DOMAIN vs) /\ \A c \in DOMAIN vs : Sound(vs[c])
<1>. DEFINE vs == Verdicts(rs, previous, now)
            names == <<"HOST_DISCONNECTED", "HOST_NOT_RESPONDING", "HOST_MAINTENANCE_MODE",
                       "HOST_NTP_NOT_CONFIGURED", "HOST_VERSION_MISMATCH", "CLUSTER_HOST_COUNT_CHANGE",
                       "HOST_COUNT_LOW", "CLUSTER_HA_DISABLED", "CLUSTER_DRS_DISABLED",
                       "DATASTORE_HIGH_USAGE", "DATASTORE_INACCESSIBLE", "VM_POWERED_OFF",
                       "VM_ORPHANED_OR_INACCESSIBLE", "VM_SNAPSHOT_STALE", "VM_TOOLS_NOT_RUNNING",
                       "NETWORK_REMOVED", "RESOURCE_REMOVED">>
<1>1. DOMAIN vs = {"HOST_DISCONNECTED", "HOST_NOT_RESPONDING", "HOST_MAINTENANCE_MODE",
                   "HOST_NTP_NOT_CONFIGURED", "HOST_VERSION_MISMATCH", "CLUSTER_HOST_COUNT_CHANGE",
                   "HOST_COUNT_LOW", "CLUSTER_HA_DISABLED", "CLUSTER_DRS_DISABLED",
                   "DATASTORE_HIGH_USAGE", "DATASTORE_INACCESSIBLE", "VM_POWERED_OFF",
                   "VM_ORPHANED_OR_INACCESSIBLE", "VM_SNAPSHOT_STALE", "VM_TOOLS_NOT_RUNNING",
                   "NETWORK_REMOVED", "RESOURCE_REMOVED"}
  BY DEF Verdicts
<1>2. IsFiniteSet(DOMAIN vs)
  <2>1. names \in [1..17 -> DOMAIN vs] BY <1>1
  <2>2. \A c \in DOMAIN vs : \E i \in 1..17 : names[i] = c BY <1>1
  <2>. HIDE DEF names, vs
  <2>3. IsFiniteSet(1..17)
    <3>1. 1 \in Int /\ 17 \in Int OBVIOUS
    <3>. QED BY <3>1, FS_Interval
  <2>. QED BY <2>1, <2>2, <2>3, Reached
<1>3. \A c \in DOMAIN vs : Sound(vs[c])
  BY <1>1, HostChecksSound, ClusterChecksSound, DatastoreChecksSound, MachineChecksSound, RemovalChecksSound
     DEF Verdicts
<1>. QED BY <1>2, <1>3

-----------------------------------------------------------------------------
(* What is found and what was judged *)

Finding(c, f) == [check |-> c, resource |-> f[1].id, type |-> f[1].type, severity |-> f[2]]

\* There are no more findings of a sound verdict than objects they are about.
LEMMA NoMoreFindings ==
  ASSUME NEW c, NEW v, Sound(v), NEW J, IsFiniteSet(J), NEW T,
         \A t \in T : \E f \in v.found : f[1] \in J /\ t = Finding(c, f)
  PROVE  IsFiniteSet(T) /\ Cardinality(T) <= Cardinality(J)
<1>. DEFINE D == {r \in J : \E f \in v.found : f[1] = r /\ Finding(c, f) \in T}
            Of(r) == CHOOSE f \in v.found : f[1] = r /\ Finding(c, f) \in T
            told == [r \in D |-> Finding(c, Of(r))]
<1>1. \A r \in D : Of(r) \in v.found /\ Of(r)[1] = r /\ Finding(c, Of(r)) \in T OBVIOUS
<1>. HIDE DEF Of
<1>2. told \in [D -> T] BY <1>1
<1>3. ASSUME NEW t \in T PROVE \E r \in D : told[r] = t
  <2>1. PICK f \in v.found : f[1] \in J /\ t = Finding(c, f) OBVIOUS
  <2>2. f[1] \in D BY <2>1
  <2>3. Of(f[1])[1] = f[1] /\ Of(f[1])[2] = f[2] BY <1>1, <2>1, <2>2 DEF Sound
  <2>4. Finding(c, Of(f[1])) = Finding(c, f) BY <2>3 DEF Finding
  <2>. QED BY <2>1, <2>2, <2>4
<1>4. D \subseteq J OBVIOUS
<1>. HIDE DEF D, told
<1>5. IsFiniteSet(D) /\ Cardinality(D) \in Nat /\ Cardinality(J) \in Nat /\ Cardinality(D) <= Cardinality(J)
  BY <1>4, Parts
<1>6. IsFiniteSet(T) /\ Cardinality(T) <= Cardinality(D) BY <1>2, <1>3, <1>5, Reached
<1>7. Cardinality(T) \in Nat BY <1>6, FS_CardinalityType
<1>. QED BY <1>5, <1>6, <1>7

\* What was found is of the checks there are, and counted where what a check judges is
\* counted again from the same objects.
LEMMA VerdictsCharged ==
  ASSUME NEW vs, IsFiniteSet(DOMAIN vs), \A c \in DOMAIN vs : Sound(vs[c]), NEW raising,
         NEW ws, DOMAIN ws = DOMAIN vs
  PROVE  LET found == RunAll(vs, raising)
             judged == Coverage(ws, {})
         IN /\ IsFiniteSet(found)
            /\ \A t \in found : /\ t.check \in DOMAIN vs /\ t.check \in DOMAIN judged /\ t.severity \in Severity
                                /\ vs[t.check].judged = ws[t.check].judged => Covered(t, found, judged)
<1>. DEFINE Group(c, r) == IF c = "RESOURCE_REMOVED" THEN r.type ELSE "all"
            Groups(c) == {Group(c, r) : r \in ws[c].judged}
            J(c, g) == {r \in ws[c].judged : Group(c, r) = g}
            Found(c) == {Finding(c, f) : f \in vs[c].found}
            ran == DOMAIN vs \ raising
            found == RunAll(vs, raising)
            judged == Coverage(ws, {})
<1>1. judged = [c \in DOMAIN vs |-> [typed |-> c = "RESOURCE_REMOVED",
                                     count |-> [g \in Groups(c) |-> Cardinality(J(c, g))]]]
  BY DEF Coverage
<1>2. found = UNION {Found(c) : c \in ran}
  BY DEF RunAll, Finding
<1>3. ASSUME NEW c \in DOMAIN vs, NEW f \in vs[c].found
      PROVE  /\ f[1] \in vs[c].judged /\ f[2] \in Severity
             /\ Finding(c, f).check = c /\ Finding(c, f).severity = f[2]
             /\ GroupOf(Finding(c, f), judged) = Group(c, f[1])
  <2>1. f[1] \in vs[c].judged /\ f[2] \in Severity BY DEF Sound
  <2>. HIDE DEF J, Groups
  <2>2. judged[c].typed = (c = "RESOURCE_REMOVED") BY <1>1
  <2>. HIDE DEF judged
  <2>. QED BY <2>1, <2>2 DEF Finding, GroupOf
<1>4. IsFiniteSet(found)
  <2>1. ASSUME NEW c \in DOMAIN vs PROVE IsFiniteSet(Found(c))
    <3>1. IsFiniteSet(vs[c].judged) BY DEF Sound
    <3>2. \A t \in Found(c) : \E f \in vs[c].found : f[1] \in vs[c].judged /\ t = Finding(c, f) BY <1>3
    <3>3. Sound(vs[c]) OBVIOUS
    <3>. DEFINE v == vs[c]
                all == Found(c)
                ground == v.judged
    <3>4. Sound(v) /\ IsFiniteSet(ground) BY <3>1, <3>3
    <3>5. \A t \in all : \E f \in v.found : f[1] \in ground /\ t = Finding(c, f) BY <3>2
    <3>. HIDE DEF v, all, ground
    <3>6. IsFiniteSet(all) /\ Cardinality(all) <= Cardinality(ground) BY <3>4, <3>5, NoMoreFindings
    <3>. QED BY <3>6 DEF all
  <2>. DEFINE F == [c \in ran |-> Found(c)]
              All == {Found(c) : c \in ran}
  <2>2. F \in [ran -> All] /\ \A x \in All : \E c \in ran : F[c] = x OBVIOUS
  <2>3. IsFiniteSet(ran) /\ ran \subseteq DOMAIN vs BY FS_Subset
  <2>. HIDE DEF F, ran
  <2>4. IsFiniteSet(All) BY <2>2, <2>3, Reached
  <2>5. \A x \in All : IsFiniteSet(x) BY <2>1, <2>3
  <2>6. found = UNION All BY <1>2
  <2>. HIDE DEF All, found
  <2>. QED BY <2>4, <2>5, <2>6, FS_UNION
<1>5. ASSUME NEW t \in found
      PROVE  /\ t.check \in DOMAIN vs /\ t.check \in DOMAIN judged /\ t.severity \in Severity
             /\ vs[t.check].judged = ws[t.check].judged => Covered(t, found, judged)
  <2>1. PICK c \in ran : t \in Found(c) BY <1>2
  <2>2. PICK f \in vs[c].found : t = Finding(c, f) BY <2>1
  <2>3. t.check = c /\ t.severity \in Severity /\ c \in DOMAIN vs /\ c \in DOMAIN judged
    BY <1>1, <1>3, <2>1, <2>2
  <2>4. ASSUME vs[c].judged = ws[c].judged PROVE Covered(t, found, judged)
    <3>. DEFINE G == GroupOf(t, judged)
                T == Peers(t, found, judged)
    <3>1. G \in Groups(c) BY <1>3, <2>2, <2>3, <2>4
    <3>2. ASSUME NEW g \in T PROVE \E e \in vs[c].found : e[1] \in J(c, G) /\ g = Finding(c, e)
      <4>1. g \in found /\ g.check = c /\ GroupOf(g, judged) = G BY <2>3 DEF Peers
      <4>2. PICK d \in ran : g \in Found(d) BY <1>2, <4>1
      <4>3. PICK e \in vs[d].found : g = Finding(d, e) BY <4>2
      <4>4. d = c BY <1>3, <4>1, <4>2, <4>3
      <4>. QED BY <1>3, <2>3, <2>4, <4>1, <4>3, <4>4
    <3>3. IsFiniteSet(J(c, G))
      <4>1. IsFiniteSet(vs[c].judged) /\ J(c, G) \subseteq vs[c].judged BY <2>3, <2>4 DEF Sound
      <4>. HIDE DEF J
      <4>. QED BY <4>1, Parts
    <3>. HIDE DEF T, J, G, Groups, judged, found
    <3>4. judged[t.check].count = [g \in Groups(c) |-> Cardinality(J(c, g))] BY <1>1, <2>3
    <3>5. Sound(vs[c]) BY <2>3
    <3>6. Cardinality(T) <= Cardinality(J(c, G)) BY <3>2, <3>3, <3>5, NoMoreFindings
    <3>7. G \in DOMAIN judged[t.check].count /\ judged[t.check].count[G] = Cardinality(J(c, G)) BY <3>1, <3>4
    <3>. QED BY <3>6, <3>7 DEF Covered, T, G
  <2>. QED BY <2>3, <2>4
<1>. HIDE DEF found, judged
<1>6. /\ IsFiniteSet(found)
      /\ \A t \in found : /\ t.check \in DOMAIN vs /\ t.check \in DOMAIN judged /\ t.severity \in Severity
                          /\ vs[t.check].judged = ws[t.check].judged => Covered(t, found, judged)
  BY <1>4, <1>5
<1>. QED BY <1>6 DEF found, judged

\* The findings are of the checks that are counted, and every count is a number.
Counted(found, judged) ==
  /\ IsFiniteSet(found) /\ IsFiniteSet(DOMAIN judged)
  /\ \A c \in DOMAIN judged : \A g \in DOMAIN judged[c].count : judged[c].count[g] \in Nat
  /\ \A f \in found : f.check \in DOMAIN judged /\ f.severity \in Severity

LEMMA CoverageCounts ==
  ASSUME NEW ws, IsFiniteSet(DOMAIN ws), \A c \in DOMAIN ws : Sound(ws[c]), NEW raising
  PROVE  /\ DOMAIN Coverage(ws, raising) = DOMAIN ws
         /\ \A c \in DOMAIN ws : \A g \in DOMAIN Coverage(ws, raising)[c].count :
              Coverage(ws, raising)[c].count[g] \in Nat
<1>. DEFINE Typed(c) == c = "RESOURCE_REMOVED" /\ c \notin raising
            Objects(c) == IF c \in raising THEN {} ELSE ws[c].judged
            Group(c, r) == IF Typed(c) THEN r.type ELSE "all"
            J(c, g) == {r \in Objects(c) : Group(c, r) = g}
            Groups(c) == {Group(c, r) : r \in Objects(c)}
            judged == Coverage(ws, raising)
<1>1. judged = [c \in DOMAIN ws |-> [typed |-> Typed(c), count |-> [g \in Groups(c) |-> Cardinality(J(c, g))]]]
  BY DEF Coverage
<1>2. ASSUME NEW c \in DOMAIN ws, NEW g PROVE Cardinality(J(c, g)) \in Nat
  <2>1. IsFiniteSet(Objects(c)) BY FS_EmptySet DEF Sound
  <2>2. J(c, g) \subseteq Objects(c) OBVIOUS
  <2>. HIDE DEF J, Objects
  <2>. QED BY <2>1, <2>2, Parts
<1>. HIDE DEF J, Groups, Typed, judged
<1>3. \A c \in DOMAIN ws : \A g \in DOMAIN judged[c].count : judged[c].count[g] \in Nat BY <1>1, <1>2
<1>4. DOMAIN judged = DOMAIN ws BY <1>1
<1>. QED BY <1>3, <1>4 DEF judged

\* What a check judges does not depend on the day, nor, unless it compares, on the
\* snapshot before.
LEMMA JudgedAgain ==
  ASSUME NEW rs, NEW p, NEW q, NEW d, NEW e, NEW c \in DOMAIN Verdicts(rs, p, d),
         c \in Comparing => p = q
  PROVE  /\ DOMAIN Verdicts(rs, q, e) = DOMAIN Verdicts(rs, p, d)
         /\ Verdicts(rs, p, d)[c].judged = Verdicts(rs, q, e)[c].judged
<1>1. DOMAIN Verdicts(rs, q, e) = DOMAIN Verdicts(rs, p, d) BY DEF Verdicts
<1>2. CASE c \in Comparing
  <2>1. p = q /\ c # "VM_SNAPSHOT_STALE" BY <1>2 DEF Comparing
  <2>. QED BY <1>1, <2>1 DEF Verdicts
<1>3. CASE c = "VM_SNAPSHOT_STALE"
  BY <1>1, <1>3 DEF Verdicts, VmSnapshotStale, Verdict
<1>4. CASE c \notin Comparing /\ c # "VM_SNAPSHOT_STALE"
  BY <1>1, <1>4 DEF Verdicts, Comparing
<1>. QED BY <1>2, <1>3, <1>4

\* A check that judges the same objects is counted the same.
LEMMA CountedAgain ==
  ASSUME NEW vs, NEW ws, NEW c \in DOMAIN vs \cap DOMAIN ws, vs[c].judged = ws[c].judged, NEW raising
  PROVE  Coverage(vs, raising)[c] = Coverage(ws, raising)[c]
BY DEF Coverage

LEMMA OlderSteps ==
  ASSUME SnapshotShown, OlderKept, Next
  PROVE  OlderKept'
<1>. DEFINE Sets == {rs \in Range(older) \cup {current} : IsFiniteSet(rs)}
<1>1. older \in Seq(Sets) /\ Len(older) \in Nat
  <2>1. older \in Seq(Range(older)) /\ \A i \in 1..Len(older) : IsFiniteSet(older[i]) BY DEF OlderKept
  <2>2. \A i \in 1..Len(older) : older[i] \in Sets BY <2>1 DEF OlderKept
  <2>. QED BY <2>1, <2>2
<1>2. ASSUME older' \in Seq(Sets) PROVE OlderKept'
  <2>. DEFINE s == older'
  <2>1. s \in Seq(Sets) /\ DOMAIN s = 1..Len(s) /\ \A i \in 1..Len(s) : s[i] \in Sets BY <1>2
  <2>2. \A i \in DOMAIN s : IsFiniteSet(s[i]) BY <2>1
  <2>3. s \in Seq(Range(s))
    <3>1. \A i \in 1..Len(s) : s[i] \in Range(s) BY <2>1 DEF Range
    <3>. QED BY <2>1, <3>1
  <2>. QED BY <1>2, <2>2, <2>3 DEF OlderKept
<1>3. CASE Stores
  <2>. DEFINE n == IF Len(older) < MaxOlder THEN Len(older) ELSE MaxOlder - 1
  <2>1. older' = (IF current = None THEN <<>> ELSE <<current>> \o SubSeq(older, 1, n))
    BY <1>3 DEF Stores, Store
  <2>2. n \in Nat /\ n <= Len(older) BY <1>1, ScoreAssumption
  <2>3. CASE current = None
    <3>1. older' = <<>> BY <2>1, <2>3
    <3>. QED BY <1>2, <3>1
  <2>4. CASE current # None
    <3>1. IsFiniteSet(current) BY <2>4 DEF SnapshotShown, ShownIn
    <3>2. <<current>> \in Seq(Sets) BY <3>1
    <3>. HIDE DEF Sets, n
    <3>3. SubSeq(older, 1, n) \in Seq(Sets) BY <1>1, <2>2
    <3>4. older' \in Seq(Sets) BY <2>1, <2>4, <3>2, <3>3
    <3>. QED BY <1>2, <3>4
  <2>. QED BY <2>3, <2>4
<1>4. CASE Thins
  <2>1. PICK i \in 1..MaxOlder : i \in DOMAIN older /\ Thin(i) BY <1>4 DEF Thins, Thin
  <2>2. older' = SubSeq(older, 1, i - 1) \o SubSeq(older, i + 1, Len(older)) /\ current' = current
    BY <2>1 DEF Thin, scan
  <2>3. i \in 1..Len(older) BY <1>1, <2>1
  <2>. HIDE DEF Sets
  <2>4. SubSeq(older, 1, i - 1) \in Seq(Sets) /\ SubSeq(older, i + 1, Len(older)) \in Seq(Sets) BY <1>1, <2>3
  <2>5. older' \in Seq(Sets) BY <2>2, <2>4
  <2>. QED BY <1>2, <2>5
<1>5. ASSUME UNCHANGED results PROVE OlderKept'
  BY <1>5 DEF results, scan, OlderKept
<1>6. ASSUME \E w : WorldBecomes(w) PROVE UNCHANGED results BY <1>6 DEF WorldBecomes
<1>7. ASSUME WeekPasses \/ Begin \/ Retrieve \/ CollectionFails PROVE UNCHANGED results
  BY <1>7 DEF WeekPasses, Begin, Retrieve, CollectionFails
<1>. QED BY <1>3, <1>4, <1>5, <1>6, <1>7, Outside

\* As long as the snapshots looked at are the same, what is charged stays covered.
LEMMA ChargedStays ==
  ASSUME FindingsCharged, current' = current, findings' = findings,
         compared' => compared /\ Second' = Second
  PROVE  FindingsCharged'
<1>. SUFFICES ASSUME current # None, NEW f \in findings
              PROVE  /\ f.check \in DOMAIN Judged({})' /\ f.severity \in Severity
                     /\ Comparable(f)' => Covered(f, findings, Judged({})')
  BY DEF FindingsCharged
<1>. DEFINE vs == Verdicts(current, Second, day)
            ws == Verdicts(current, Second', day')
            c == f.check
<1>1. Judged({}) = Coverage(vs, {}) /\ Judged({})' = Coverage(ws, {}) BY DEF Judged
<1>2. DOMAIN Coverage(vs, {}) = DOMAIN vs /\ DOMAIN Coverage(ws, {}) = DOMAIN ws BY DEF Coverage
<1>3. DOMAIN ws = DOMAIN vs BY DEF Verdicts
<1>4. c \in DOMAIN vs /\ f.severity \in Severity /\ (Comparable(f) => Covered(f, findings, Coverage(vs, {})))
  BY <1>1, <1>2 DEF FindingsCharged
<1>5. ASSUME Comparable(f)' PROVE Covered(f, findings, Coverage(ws, {}))
  <2>1. c \in Comparing => compared /\ Second' = Second BY <1>5 DEF Comparable
  <2>2. vs[c].judged = ws[c].judged BY <1>4, <2>1, JudgedAgain
  <2>. HIDE DEF vs, ws
  <2>3. Coverage(vs, {})[c] = Coverage(ws, {})[c] BY <1>3, <1>4, <2>2, CountedAgain
  <2>4. Covered(f, findings, Coverage(vs, {})) BY <1>4, <2>1 DEF Comparable
  <2>5. \A g \in findings : g.check = c => GroupOf(g, Coverage(vs, {})) = GroupOf(g, Coverage(ws, {}))
    BY <2>3 DEF GroupOf
  <2>6. Peers(f, findings, Coverage(vs, {})) = Peers(f, findings, Coverage(ws, {})) BY <2>5 DEF Peers
  <2>. QED BY <2>3, <2>4, <2>5, <2>6 DEF Covered
<1>. HIDE DEF vs, ws
<1>. QED BY <1>1, <1>2, <1>3, <1>4, <1>5

LEMMA ChargedSteps ==
  ASSUME Collected, SnapshotShown, OlderKept, FindingsCharged, Next
  PROVE  FindingsCharged'
<1>1. CASE Stores
  <2>. DEFINE rs == Normalized(raw)
              vs == Verdicts(rs, current, day)
              ws == Verdicts(rs, Second', day')
  <2>1. PICK raising \in Raising : Store(raising) BY <1>1 DEF Stores
  <2>2. current' = rs /\ findings' = RunAll(vs, raising) /\ Judged({})' = Coverage(ws, {})
    BY <2>1 DEF Store, Judged
  <2>3. Second' = current
    <3>. DEFINE n == IF Len(older) < MaxOlder THEN Len(older) ELSE MaxOlder - 1
    <3>1. older' = (IF current = None THEN <<>> ELSE <<current>> \o SubSeq(older, 1, n)) BY <2>1 DEF Store
    <3>2. older \in Seq(Range(older)) /\ n \in Nat /\ n <= Len(older) BY ScoreAssumption DEF OlderKept
    <3>. DEFINE rest == SubSeq(older, 1, n)
    <3>3. rest \in Seq(Range(older)) BY <3>2
    <3>. HIDE DEF rest
    <3>4. <<current>> \o rest # <<>> /\ (<<current>> \o rest)[1] = current BY <3>3
    <3>. QED BY <3>1, <3>4 DEF Second, rest
  <2>4. IsFiniteSet(rs) BY <1>1, <2>2, Stored DEF ShownIn
  <2>5. IsFiniteSet(Before(current)) BY FS_EmptySet DEF Before, SnapshotShown, ShownIn
  <2>6. IsFiniteSet(DOMAIN vs) /\ \A c \in DOMAIN vs : Sound(vs[c]) BY <2>4, <2>5, VerdictsSound
  <2>7. DOMAIN ws = DOMAIN vs /\ \A c \in DOMAIN vs : vs[c].judged = ws[c].judged
    <3>1. DOMAIN ws = DOMAIN vs BY DEF Verdicts
    <3>. QED BY <2>3, <3>1, JudgedAgain
  <2>. HIDE DEF vs, ws
  <2>8. /\ IsFiniteSet(findings')
        /\ \A t \in findings' : /\ t.check \in DOMAIN Coverage(ws, {}) /\ t.severity \in Severity
                                /\ Covered(t, findings', Coverage(ws, {}))
    BY <2>2, <2>6, <2>7, VerdictsCharged
  <2>. QED BY <2>2, <2>8 DEF FindingsCharged
<1>2. CASE Thins
  <2>1. PICK i \in 1..MaxOlder : Thin(i) BY <1>2 DEF Thins
  <2>2. /\ i \in DOMAIN older /\ current' = current /\ findings' = findings /\ compared' = (compared /\ i # 1)
        /\ older' = SubSeq(older, 1, i - 1) \o SubSeq(older, i + 1, Len(older))
    BY <2>1 DEF Thin, scan
  <2>3. ASSUME i # 1 PROVE Second' = Second
    <3>. DEFINE head == SubSeq(older, 1, i - 1)
                tail == SubSeq(older, i + 1, Len(older))
    <3>1. older \in Seq(Range(older)) /\ i \in 2..Len(older) BY <2>2, <2>3 DEF OlderKept
    <3>2. /\ head \in Seq(Range(older)) /\ tail \in Seq(Range(older))
          /\ Len(head) = i - 1 /\ head[1] = older[1]
      BY <3>1
    <3>. HIDE DEF head, tail
    <3>3. Len(head \o tail) >= 1 /\ (head \o tail)[1] = head[1] BY <3>1, <3>2
    <3>4. older # <<>> /\ head \o tail # <<>> BY <3>1, <3>3
    <3>. QED BY <2>2, <3>2, <3>3, <3>4 DEF Second, head, tail
  <2>. QED BY <2>2, <2>3, ChargedStays
<1>3. ASSUME UNCHANGED results PROVE FindingsCharged'
  BY <1>3, ChargedStays DEF results, scan, Second
<1>4. ASSUME \E w : WorldBecomes(w) PROVE UNCHANGED results BY <1>4 DEF WorldBecomes
<1>5. ASSUME WeekPasses \/ Begin \/ Retrieve \/ CollectionFails PROVE UNCHANGED results
  BY <1>5 DEF WeekPasses, Begin, Retrieve, CollectionFails
<1>. QED BY <1>1, <1>2, <1>3, <1>4, <1>5, Outside

-----------------------------------------------------------------------------
(* Sums *)

\* Of the sizes of some sets one is the smallest.
LEMMA Smallest ==
  ASSUME NEW sizes \in SUBSET Nat, sizes # {}
  PROVE  \E n \in sizes : \A k \in sizes : n <= k
<1>1. PICK n \in sizes : \A k \in sizes : <<k, n>> \notin OpToRel(<, Nat)
  BY NatLessThanWellFounded, WFMin, Zenon
<1>2. ASSUME NEW k \in sizes PROVE n <= k
  <2>1. k \in Nat /\ n \in Nat OBVIOUS
  <2>2. ~ (k < n) BY <1>1, <2>1, Zenon DEF OpToRel
  <2>. QED BY <2>1, <2>2
<1>. QED BY <1>2

\* What a set has if it has it without one of its elements, whichever, every subset has.
LEMMA OneByOne ==
  ASSUME NEW S, IsFiniteSet(S), NEW Good,
         \A s \in SUBSET S : (\A x \in s : s \ {x} \in Good) => s \in Good
  PROVE  \A s \in SUBSET S : s \in Good
<1>. DEFINE Bad == {s \in SUBSET S : s \notin Good}
            sizes == {Cardinality(s) : s \in Bad}
<1>. SUFFICES ASSUME Bad # {} PROVE FALSE OBVIOUS
<1>1. \A s \in SUBSET S : IsFiniteSet(s) /\ Cardinality(s) \in Nat BY Parts
<1>2. sizes \in SUBSET Nat /\ sizes # {} BY <1>1
<1>3. PICK n \in sizes : \A k \in sizes : n <= k
  <2>. HIDE DEF sizes
  <2>. QED BY <1>2, Smallest
<1>4. PICK s \in Bad : n = Cardinality(s) BY <1>3
<1>5. PICK x \in s : s \ {x} \notin Good BY <1>4
<1>6. s \ {x} \in Bad BY <1>4, <1>5
<1>7. n <= Cardinality(s \ {x}) BY <1>3, <1>6
<1>8. Cardinality(s \ {x}) = Cardinality(s) - 1 BY <1>1, <1>4, <1>5, FS_RemoveElement
<1>9. Cardinality(s) \in Nat BY <1>1, <1>4
<1>. HIDE DEF Bad, sizes
<1>. QED BY <1>4, <1>7, <1>8, <1>9

\* The sums MapThenSumSet goes through, an element chosen after the other.
Pick(s) == CHOOSE x \in s : TRUE
Totals(f, S, it) ==
  it = [s \in SUBSET S |-> IF s = {} THEN 0 ELSE f[Pick(s)] + it[s \ {Pick(s)}]]
Total(f, S) == (CHOOSE it : Totals(f, S, it))[S]

LEMMA TotalsExist ==
  ASSUME NEW S, IsFiniteSet(S), NEW f
  PROVE  \E it : Totals(f, S, it)
<1>. DEFINE Upto(n) == {s \in SUBSET S : Cardinality(s) <= n}
            Next1(s, it) == IF s = {} THEN 0 ELSE f[Pick(s)] + it[s \ {Pick(s)}]
            Has(n) == \E it : it = [s \in Upto(n) |-> Next1(s, it)]
            missing == {n \in Nat : ~ Has(n)}
<1>1. \A s \in SUBSET S : IsFiniteSet(s) /\ Cardinality(s) \in Nat BY Parts
<1>2. \A s \in SUBSET S : s # {} => Pick(s) \in s /\ Cardinality(s \ {Pick(s)}) = Cardinality(s) - 1
  <2>1. \A s : s # {} => Pick(s) \in s BY DEF Pick
  <2>. QED BY <1>1, <2>1, FS_RemoveElement
<1>3. \A s \in SUBSET S : Cardinality(s) = 0 <=> s = {} BY <1>1, FS_EmptySet
<1>4. Has(0)
  <2>. DEFINE it == [s \in Upto(0) |-> 0]
  <2>1. \A s \in Upto(0) : s = {}
    <3>1. ASSUME NEW s \in Upto(0) PROVE s = {}
      <4>1. Cardinality(s) \in Nat /\ Cardinality(s) <= 0 BY <1>1
      <4>2. Cardinality(s) = 0 BY <4>1
      <4>. QED BY <1>3, <4>2
    <3>. QED BY <3>1
  <2>. HIDE DEF Upto
  <2>2. it = [s \in Upto(0) |-> Next1(s, it)] BY <2>1
  <2>. QED BY <2>2
<1>5. missing = {}
  <2>. SUFFICES ASSUME missing # {} PROVE FALSE OBVIOUS
  <2>1. missing \in SUBSET Nat OBVIOUS
  <2>. HIDE DEF missing
  <2>2. PICK n \in missing : \A k \in missing : n <= k BY <2>1, Smallest
  <2>3. n \in Nat /\ ~ Has(n) BY <2>2 DEF missing
  <2>4. n # 0 BY <1>4, <2>3, ZenonT(60)
  <2>5. n - 1 \in Nat /\ n - 1 \notin missing BY <2>1, <2>2, <2>3, <2>4
  <2>6. Has(n - 1) BY <2>5 DEF missing
  <2>7. PICK it : it = [s \in Upto(n - 1) |-> Next1(s, it)] BY <2>6
  <2>. DEFINE g == [s \in Upto(n) |-> Next1(s, it)]
  <2>8. \A s \in Upto(n - 1) : s \in Upto(n) /\ it[s] = Next1(s, it)
    <3>1. ASSUME NEW s \in Upto(n - 1) PROVE s \in Upto(n)
      <4>1. Cardinality(s) \in Nat /\ Cardinality(s) <= n - 1 BY <1>1
      <4>2. Cardinality(s) <= n BY <2>3, <4>1
      <4>. QED BY <4>2
    <3>. HIDE DEF Next1, Upto
    <3>2. \A s \in Upto(n - 1) : it[s] = Next1(s, it) BY <2>7
    <3>. QED BY <3>1, <3>2
  <2>9. \A s \in Upto(n - 1) : g[s] = it[s]
    <3>. HIDE DEF Next1, Upto
    <3>. QED BY <2>8
  <2>10. \A s \in Upto(n) : s # {} => s \ {Pick(s)} \in Upto(n - 1)
    <3>. SUFFICES ASSUME NEW s \in Upto(n), s # {} PROVE s \ {Pick(s)} \in Upto(n - 1) OBVIOUS
    <3>1. Cardinality(s) \in Nat /\ Cardinality(s) <= n BY <1>1
    <3>2. Cardinality(s \ {Pick(s)}) = Cardinality(s) - 1 BY <1>2
    <3>3. Cardinality(s \ {Pick(s)}) <= n - 1 BY <2>3, <3>1, <3>2
    <3>. QED BY <3>3
  <2>11. \A s \in Upto(n) : Next1(s, g) = Next1(s, it)
    <3>. HIDE DEF Upto, g
    <3>. QED BY <2>9, <2>10
  <2>12. g = [s \in Upto(n) |-> Next1(s, g)]
    <3>. HIDE DEF Next1, Upto
    <3>. QED BY <2>11
  <2>13. Has(n)
    <3>. HIDE DEF Next1, Upto, g
    <3>. QED BY <2>12
  <2>. QED BY <2>3, <2>13
<1>6. Cardinality(S) \in Nat BY FS_CardinalityType
<1>7. Upto(Cardinality(S)) = SUBSET S
  <2>1. \A s \in SUBSET S : Cardinality(s) <= Cardinality(S) BY Parts
  <2>. QED BY <2>1
<1>8. Has(Cardinality(S)) BY <1>5, <1>6
<1>9. PICK it : it = [s \in SUBSET S |-> Next1(s, it)] BY <1>7, <1>8
<1>. QED BY <1>9 DEF Totals

\* There is one way to sum, it gives numbers, and the order does not matter.
LEMMA TotalsAre ==
  ASSUME NEW S, IsFiniteSet(S), NEW f \in [S -> Nat], NEW it, Totals(f, S, it)
  PROVE  /\ it \in [SUBSET S -> Nat] /\ it[{}] = 0
         /\ \A s \in SUBSET S : \A x \in s : it[s] = f[x] + it[s \ {x}]
         /\ it[S] = Total(f, S)
<1>1. /\ DOMAIN it = SUBSET S /\ it[{}] = 0
      /\ \A s \in SUBSET S : s # {} => Pick(s) \in s /\ it[s] = f[Pick(s)] + it[s \ {Pick(s)}]
  <2>1. \A s : s # {} => Pick(s) \in s BY DEF Pick
  <2>2. it = [s \in SUBSET S |-> IF s = {} THEN 0 ELSE f[Pick(s)] + it[s \ {Pick(s)}]] BY DEF Totals
  <2>. QED BY <2>1, <2>2
<1>2. \A s \in SUBSET S : it[s] \in Nat
  <2>. DEFINE Good == {s \in SUBSET S : it[s] \in Nat}
  <2>1. ASSUME NEW s \in SUBSET S, \A x \in s : s \ {x} \in Good PROVE s \in Good
    <3>1. CASE s = {} BY <1>1, <3>1
    <3>2. CASE s # {}
      <4>1. it[s \ {Pick(s)}] \in Nat /\ f[Pick(s)] \in Nat BY <1>1, <2>1, <3>2
      <4>. QED BY <1>1, <3>2, <4>1
    <3>. QED BY <3>1, <3>2
  <2>. HIDE DEF Good
  <2>2. \A s \in SUBSET S : s \in Good BY <2>1, OneByOne
  <2>. QED BY <2>2 DEF Good
<1>3. \A s \in SUBSET S : \A x \in s : it[s] = f[x] + it[s \ {x}]
  <2>. DEFINE Good == {s \in SUBSET S : \A x \in s : it[s] = f[x] + it[s \ {x}]}
  <2>1. ASSUME NEW s \in SUBSET S, \A x \in s : s \ {x} \in Good PROVE s \in Good
    <3>1. ASSUME NEW x \in s PROVE it[s] = f[x] + it[s \ {x}]
      <4>. DEFINE p == Pick(s)
      <4>1. p \in s /\ it[s] = f[p] + it[s \ {p}] BY <1>1, <3>1
      <4>. HIDE DEF p
      <4>2. CASE p = x BY <4>1, <4>2
      <4>3. CASE p # x
        <5>1. it[s \ {p}] = f[x] + it[(s \ {p}) \ {x}] BY <2>1, <3>1, <4>1, <4>3
        <5>2. it[s \ {x}] = f[p] + it[(s \ {x}) \ {p}] BY <2>1, <3>1, <4>1, <4>3
        <5>3. (s \ {p}) \ {x} = (s \ {x}) \ {p} OBVIOUS
        <5>4. it[(s \ {p}) \ {x}] \in Nat /\ f[x] \in Nat /\ f[p] \in Nat BY <1>2, <3>1, <4>1
        <5>. DEFINE a == f[x]
                    b == f[p]
                    c == it[(s \ {p}) \ {x}]
        <5>5. it[s] = b + (a + c) /\ it[s \ {x}] = b + c /\ a \in Nat /\ b \in Nat /\ c \in Nat
          BY <4>1, <5>1, <5>2, <5>3, <5>4
        <5>. HIDE DEF a, b, c
        <5>6. b + (a + c) = a + (b + c) BY <5>5
        <5>. QED BY <5>5, <5>6 DEF a
      <4>. QED BY <4>2, <4>3
    <3>. QED BY <3>1
  <2>. HIDE DEF Good
  <2>2. \A s \in SUBSET S : s \in Good BY <2>1, OneByOne
  <2>. QED BY <2>2 DEF Good
<1>4. it[S] = Total(f, S)
  <2>. DEFINE to == CHOOSE t : Totals(f, S, t)
  <2>1. Totals(f, S, to) OBVIOUS
  <2>. HIDE DEF to
  <2>2. \A s \in SUBSET S : to[s] = IF s = {} THEN 0 ELSE f[Pick(s)] + to[s \ {Pick(s)}]
    BY <2>1 DEF Totals
  <2>. DEFINE Good == {s \in SUBSET S : it[s] = to[s]}
  <2>3. ASSUME NEW s \in SUBSET S, \A x \in s : s \ {x} \in Good PROVE s \in Good
    <3>1. CASE s = {} BY <1>1, <2>2, <3>1
    <3>2. CASE s # {} BY <1>1, <2>2, <2>3, <3>2
    <3>. QED BY <3>1, <3>2
  <2>. HIDE DEF Good
  <2>4. \A s \in SUBSET S : s \in Good BY <2>3, OneByOne
  <2>5. it[S] = to[S] BY <2>4 DEF Good
  <2>. QED BY <2>5 DEF Total, to
<1>5. it \in [SUBSET S -> Nat] BY <1>1, <1>2 DEF Totals
<1>. QED BY <1>1, <1>3, <1>4, <1>5

\* A sum is one of its terms and the sum of the others.
LEMMA TotalWithout ==
  ASSUME NEW S, IsFiniteSet(S), NEW f \in [S -> Nat], NEW x \in S
  PROVE  Total(f, S) = f[x] + Total([y \in S \ {x} |-> f[y]], S \ {x})
<1>. DEFINE R == S \ {x}
            g == [y \in R |-> f[y]]
<1>1. IsFiniteSet(R) /\ R \subseteq S BY Parts
<1>2. g \in [R -> Nat] /\ \A y \in R : g[y] = f[y] OBVIOUS
<1>. HIDE DEF R, g
<1>3. PICK it : Totals(f, S, it) BY TotalsExist
<1>4. PICK to : Totals(g, R, to) BY <1>1, TotalsExist
<1>5. /\ it \in [SUBSET S -> Nat] /\ it[{}] = 0
      /\ \A s \in SUBSET S : \A y \in s : it[s] = f[y] + it[s \ {y}]
      /\ it[S] = Total(f, S)
  BY <1>3, TotalsAre
<1>6. /\ to \in [SUBSET R -> Nat] /\ to[{}] = 0
      /\ \A s \in SUBSET R : \A y \in s : to[s] = g[y] + to[s \ {y}]
      /\ to[R] = Total(g, R)
  <2>1. IsFiniteSet(R) BY <1>1
  <2>2. g \in [R -> Nat] BY <1>2
  <2>. QED BY ONLY <1>4, <2>1, <2>2, TotalsAre
<1>. DEFINE Good == {s \in SUBSET R : it[s] = to[s]}
<1>7. ASSUME NEW s \in SUBSET R, \A y \in s : s \ {y} \in Good PROVE s \in Good
  <2>1. CASE s = {} BY <1>5, <1>6, <2>1
  <2>2. CASE s # {}
    <3>1. PICK y \in s : TRUE BY <2>2
    <3>2. it[s \ {y}] = to[s \ {y}] /\ g[y] = f[y] BY <1>2, <1>7, <3>1
    <3>3. it[s] = f[y] + it[s \ {y}] /\ to[s] = g[y] + to[s \ {y}] BY <1>1, <1>5, <1>6, <3>1
    <3>. QED BY <3>2, <3>3
  <2>. QED BY <2>1, <2>2
<1>. HIDE DEF Good
<1>8. \A s \in SUBSET R : s \in Good BY <1>1, <1>7, OneByOne
<1>9. it[R] = to[R] BY <1>8 DEF Good
<1>10. it[S] = f[x] + it[S \ {x}] BY <1>5
<1>. QED BY <1>5, <1>6, <1>9, <1>10 DEF R, g

\* A sum is no more than its largest term as often as it has terms.
LEMMA TotalBounded ==
  ASSUME NEW S, IsFiniteSet(S), NEW f \in [S -> Nat], NEW w \in Nat, \A x \in S : f[x] <= w
  PROVE  Total(f, S) <= Cardinality(S) * w
<1>1. PICK it : Totals(f, S, it) BY TotalsExist
<1>2. /\ it \in [SUBSET S -> Nat] /\ it[{}] = 0
      /\ \A s \in SUBSET S : \A x \in s : it[s] = f[x] + it[s \ {x}]
      /\ it[S] = Total(f, S)
  BY <1>1, TotalsAre
<1>. DEFINE Good == {s \in SUBSET S : it[s] <= Cardinality(s) * w}
<1>3. ASSUME NEW s \in SUBSET S, \A x \in s : s \ {x} \in Good PROVE s \in Good
  <2>1. CASE s = {}
    <3>1. Cardinality(s) = 0 BY <2>1, FS_EmptySet
    <3>. QED BY <1>2, <2>1, <3>1
  <2>2. CASE s # {}
    <3>1. PICK x \in s : TRUE BY <2>2
    <3>. DEFINE n == Cardinality(s \ {x})
                a == f[x]
                b == it[s \ {x}]
    <3>2. IsFiniteSet(s) /\ IsFiniteSet(s \ {x}) /\ n \in Nat /\ Cardinality(s) \in Nat BY Parts
    <3>3. n = Cardinality(s) - 1 BY <3>1, <3>2, FS_RemoveElement
    <3>4. it[s] = a + b /\ a \in Nat /\ b \in Nat /\ a <= w /\ b <= n * w BY <1>2, <1>3, <3>1
    <3>. HIDE DEF n, a, b
    <3>5. Cardinality(s) = n + 1 BY <3>2, <3>3
    <3>6. (n + 1) * w = n * w + w /\ n * w \in Int BY <3>2
    <3>7. it[s] <= (n + 1) * w BY <3>4, <3>6
    <3>. QED BY <3>5, <3>7
  <2>. QED BY <2>1, <2>2
<1>. HIDE DEF Good
<1>4. \A s \in SUBSET S : s \in Good BY <1>3, OneByOne
<1>. QED BY <1>2, <1>4 DEF Good

\* A sum does not fall when terms are added or grow.
LEMMA TotalGrows ==
  ASSUME NEW T, IsFiniteSet(T), NEW S \in SUBSET T, NEW f \in [S -> Nat], NEW g \in [T -> Nat],
         \A x \in S : f[x] <= g[x]
  PROVE  Total(f, S) \in Nat /\ Total(g, T) \in Nat /\ Total(f, S) <= Total(g, T)
<1>1. IsFiniteSet(S) BY Parts
<1>2. PICK it : Totals(f, S, it) BY <1>1, TotalsExist
<1>3. PICK to : Totals(g, T, to) BY TotalsExist
<1>4. /\ it \in [SUBSET S -> Nat] /\ it[{}] = 0
      /\ \A s \in SUBSET S : \A x \in s : it[s] = f[x] + it[s \ {x}]
      /\ it[S] = Total(f, S)
  BY <1>1, <1>2, TotalsAre
<1>5. /\ to \in [SUBSET T -> Nat] /\ to[{}] = 0
      /\ \A s \in SUBSET T : \A x \in s : to[s] = g[x] + to[s \ {x}]
      /\ to[T] = Total(g, T)
  BY <1>3, TotalsAre
<1>. DEFINE Good == {s \in SUBSET T : it[s \cap S] <= to[s]}
<1>6. ASSUME NEW s \in SUBSET T, \A x \in s : s \ {x} \in Good PROVE s \in Good
  <2>1. CASE s = {}
    <3>1. s \cap S = {} BY <2>1
    <3>. QED BY <1>4, <1>5, <2>1, <3>1
  <2>2. CASE s # {}
    <3>1. PICK x \in s : TRUE BY <2>2
    <3>2. it[(s \ {x}) \cap S] <= to[s \ {x}] BY <1>6, <3>1
    <3>3. to[s] = g[x] + to[s \ {x}] BY <1>5, <3>1
    <3>4. it[(s \ {x}) \cap S] \in Nat /\ to[s \ {x}] \in Nat /\ g[x] \in Nat BY <1>4, <1>5, <3>1
    <3>5. CASE x \in S
      <4>1. (s \cap S) \ {x} = (s \ {x}) \cap S OBVIOUS
      <4>2. it[s \cap S] = f[x] + it[(s \ {x}) \cap S]
        <5>. DEFINE u == s \cap S
        <5>1. u \in SUBSET S /\ x \in u BY <3>1, <3>5
        <5>. HIDE DEF u
        <5>2. it[u] = f[x] + it[u \ {x}] BY <1>4, <5>1
        <5>. QED BY <4>1, <5>2 DEF u
      <4>3. f[x] \in Nat /\ f[x] <= g[x] BY <3>5
      <4>. DEFINE a == f[x]
                  b == g[x]
                  c == it[(s \ {x}) \cap S]
                  d == to[s \ {x}]
      <4>4. a \in Nat /\ b \in Nat /\ c \in Nat /\ d \in Nat /\ a <= b /\ c <= d BY <3>2, <3>4, <4>3
      <4>. HIDE DEF a, b, c, d
      <4>5. a + c <= b + d BY <4>4
      <4>. QED BY <3>3, <4>2, <4>5 DEF a, b, c, d
    <3>6. CASE x \notin S
      <4>1. s \cap S = (s \ {x}) \cap S BY <3>6
      <4>. DEFINE b == g[x]
                  c == it[(s \ {x}) \cap S]
                  d == to[s \ {x}]
      <4>2. b \in Nat /\ c \in Nat /\ d \in Nat /\ c <= d BY <3>2, <3>4
      <4>. HIDE DEF b, c, d
      <4>3. c <= b + d BY <4>2
      <4>. QED BY <3>3, <4>1, <4>3 DEF b, c, d
    <3>. QED BY <3>5, <3>6
  <2>. QED BY <2>1, <2>2
<1>. HIDE DEF Good
<1>7. \A s \in SUBSET T : s \in Good BY <1>6, OneByOne
<1>8. it[T \cap S] <= to[T] BY <1>7 DEF Good
<1>9. it[S] <= to[T]
  <2>1. T \cap S = S OBVIOUS
  <2>. QED BY <1>8, <2>1
<1>10. it[S] \in Nat /\ to[T] \in Nat BY <1>4, <1>5
<1>. QED BY <1>4, <1>5, <1>9, <1>10

-----------------------------------------------------------------------------
(* The score *)

\* A larger amount is not a smaller share.
LEMMA Shares ==
  ASSUME NEW a \in Nat, NEW b \in Nat, a <= b, NEW d \in Nat, d > 0
  PROVE  a \div d \in Nat /\ b \div d \in Nat /\ a \div d <= b \div d
<1>. DEFINE p == a \div d
            q == b \div d
<1>1. p \in Int /\ d * p <= a /\ a < d * p + d OBVIOUS
<1>2. q \in Int /\ d * q <= b /\ b < d * q + d OBVIOUS
<1>. HIDE DEF p, q
<1>3. ASSUME NEW x \in Int, NEW y \in Nat, NEW z \in Int, d * x <= y, y < d * z + d PROVE x <= z
  <2>. SUFFICES ASSUME x >= z + 1 PROVE FALSE BY <1>3
  <2>1. d * x >= d * (z + 1) BY Z3
  <2>2. d * (z + 1) = d * z + d OBVIOUS
  <2>3. d * x \in Int /\ d * z \in Int OBVIOUS
  <2>. QED BY <1>3, <2>1, <2>2, <2>3
<1>4. p <= q BY <1>1, <1>2, <1>3
<1>5. 0 <= p
  <2>1. d * 0 <= a OBVIOUS
  <2>. QED BY <1>1, <1>3, <2>1
<1>6. p \in Nat /\ q \in Nat /\ p <= q BY <1>1, <1>2, <1>4, <1>5
<1>. QED BY <1>6 DEF p, q

LEMMA LargerOf ==
  ASSUME NEW a \in Nat, NEW b \in Nat, b <= a
  PROVE  Max({a, b}) = a
BY DEF Max

Cap == 100 * Max({Weights[s] : s \in DOMAIN Weights})

LEMMA CapIs == Cap \in Nat
<1>. DEFINE W == {Weights[s] : s \in DOMAIN Weights}
            a == Weights["critical"]
            b == Weights["warning"]
            c == Weights["info"]
<1>1. DOMAIN Weights = {"critical", "warning", "info"} BY WeightsAssumption DEF Severity
<1>2. W = {a, b, c} BY <1>1
<1>3. a \in Nat /\ b \in Nat /\ c \in Nat BY WeightsAssumption DEF Severity
<1>. HIDE DEF W, a, b, c
<1>4. \E x \in W : \A y \in W : x >= y
  <2>1. CASE a >= b /\ a >= c BY <1>2, <1>3, <2>1
  <2>2. CASE b >= a /\ b >= c BY <1>2, <1>3, <2>2
  <2>3. CASE c >= a /\ c >= b BY <1>2, <1>3, <2>3
  <2>. QED BY <1>3, <2>1, <2>2, <2>3
<1>5. Max(W) \in W BY <1>4 DEF Max
<1>6. Max(W) \in Nat BY <1>2, <1>3, <1>5
<1>. QED BY <1>6 DEF Cap, W

WeightsOf(fs) == [f \in fs |-> Weights[f.severity]]

LEMMA WeightIs ==
  ASSUME NEW fs, IsFiniteSet(fs), \A f \in fs : f.severity \in Severity
  PROVE  WeightsOf(fs) \in [fs -> Nat] /\ Weight(fs) = Total(WeightsOf(fs), fs)
<1>. DEFINE F == WeightsOf(fs)
            Is(it) == it = [s \in SUBSET fs |-> IF s = {} THEN 0
                              ELSE Weights[(CHOOSE x \in s : TRUE).severity] + it[s \ {CHOOSE x \in s : TRUE}]]
<1>1. F \in [fs -> Nat] BY WeightsAssumption DEF WeightsOf
<1>2. ASSUME NEW it PROVE Is(it) <=> Totals(F, fs, it)
  <2>1. \A s \in SUBSET fs : s # {} => (CHOOSE x \in s : TRUE) \in fs OBVIOUS
  <2>2. \A s \in SUBSET fs : s # {} => F[CHOOSE x \in s : TRUE] = Weights[(CHOOSE x \in s : TRUE).severity]
    BY <2>1 DEF WeightsOf
  <2>3. [s \in SUBSET fs |-> IF s = {} THEN 0
           ELSE Weights[(CHOOSE x \in s : TRUE).severity] + it[s \ {CHOOSE x \in s : TRUE}]]
        = [s \in SUBSET fs |-> IF s = {} THEN 0
             ELSE F[CHOOSE x \in s : TRUE] + it[s \ {CHOOSE x \in s : TRUE}]]
    <3>. HIDE DEF F
    <3>. QED BY <2>2
  <2>. QED BY <2>3 DEF Totals, Pick
<1>3. \E it : Is(it)
  <2>1. PICK it : Totals(F, fs, it) BY TotalsExist
  <2>. HIDE DEF Is, F
  <2>. QED BY <1>2, <2>1
<1>4. \E it : Is(it) /\ Weight(fs) = it[fs] BY <1>3 DEF Weight, MapThenSumSet, MapThenFoldSet
<1>5. PICK it : Totals(F, fs, it) /\ Weight(fs) = it[fs] BY <1>2, <1>4
<1>. HIDE DEF F
<1>6. it[fs] = Total(F, fs) BY <1>1, <1>5, TotalsAre
<1>. QED BY <1>1, <1>5, <1>6 DEF F

\* Fewer findings do not weigh more.
LEMMA WeightGrows ==
  ASSUME NEW more, IsFiniteSet(more), NEW fewer \in SUBSET more, \A f \in more : f.severity \in Severity
  PROVE  Weight(fewer) \in Nat /\ Weight(more) \in Nat /\ Weight(fewer) <= Weight(more)
<1>1. IsFiniteSet(fewer) /\ \A f \in fewer : f.severity \in Severity BY Parts
<1>2. WeightsOf(fewer) \in [fewer -> Nat] /\ Weight(fewer) = Total(WeightsOf(fewer), fewer) BY <1>1, WeightIs
<1>3. WeightsOf(more) \in [more -> Nat] /\ Weight(more) = Total(WeightsOf(more), more) BY WeightIs
<1>4. \A f \in fewer : WeightsOf(fewer)[f] <= WeightsOf(more)[f]
  <2>1. \A f \in fewer : WeightsOf(fewer)[f] = WeightsOf(more)[f] BY DEF WeightsOf
  <2>. QED BY <1>2, <2>1
<1>. QED BY <1>2, <1>3, <1>4, TotalGrows

GroupsOf(c, H, judged) == {GroupOf(f, judged) : f \in {f \in H : f.check = c}}
FindingsOf(c, g, H, judged) == {f \in {f \in H : f.check = c} : GroupOf(f, judged) = g}
Ground(c, g, judged) == IF g \in DOMAIN judged[c].count THEN judged[c].count[g] ELSE 0
Charge(c, g, H, judged) ==
  (100 * Weight(FindingsOf(c, g, H, judged)))
    \div Max({Ground(c, g, judged), Cardinality(FindingsOf(c, g, H, judged))})
Charges(c, H, judged) == [g \in GroupsOf(c, H, judged) |-> Charge(c, g, H, judged)]

LEMMA DeductionIs ==
  ASSUME NEW c, NEW H, NEW judged, IsFiniteSet(GroupsOf(c, H, judged)),
         Charges(c, H, judged) \in [GroupsOf(c, H, judged) -> Nat]
  PROVE  Deduction(c, H, judged) = IF Total(Charges(c, H, judged), GroupsOf(c, H, judged)) < Cap
                                   THEN Total(Charges(c, H, judged), GroupsOf(c, H, judged)) ELSE Cap
<1>. DEFINE Gs == GroupsOf(c, H, judged)
            F == Charges(c, H, judged)
            Is(it) == it = [s \in SUBSET Gs |-> IF s = {} THEN 0
                              ELSE Charge(c, CHOOSE x \in s : TRUE, H, judged) + it[s \ {CHOOSE x \in s : TRUE}]]
<1>1. F \in [Gs -> Nat] OBVIOUS
<1>2. ASSUME NEW it PROVE Is(it) <=> Totals(F, Gs, it)
  <2>. HIDE DEF Gs
  <2>1. \A s \in SUBSET Gs : s # {} => (CHOOSE x \in s : TRUE) \in Gs OBVIOUS
  <2>2. \A s \in SUBSET Gs : s # {} => F[CHOOSE x \in s : TRUE] = Charge(c, CHOOSE x \in s : TRUE, H, judged)
    BY <2>1 DEF Charges, Gs
  <2>3. [s \in SUBSET Gs |-> IF s = {} THEN 0
           ELSE Charge(c, CHOOSE x \in s : TRUE, H, judged) + it[s \ {CHOOSE x \in s : TRUE}]]
        = [s \in SUBSET Gs |-> IF s = {} THEN 0
             ELSE F[CHOOSE x \in s : TRUE] + it[s \ {CHOOSE x \in s : TRUE}]]
    <3>. HIDE DEF F
    <3>. QED BY <2>2
  <2>. QED BY <2>3 DEF Totals, Pick
<1>3. \E it : Is(it)
  <2>1. PICK it : Totals(F, Gs, it) BY TotalsExist
  <2>. HIDE DEF Is, F, Gs
  <2>. QED BY <1>2, <2>1
<1>4. \E it : Is(it) /\ Deduction(c, H, judged) = IF it[Gs] < Cap THEN it[Gs] ELSE Cap
  BY <1>3 DEF Deduction, MapThenSumSet, MapThenFoldSet, Cap, GroupsOf, FindingsOf, Charge, Ground
<1>5. PICK it : Totals(F, Gs, it) /\ Deduction(c, H, judged) = IF it[Gs] < Cap THEN it[Gs] ELSE Cap
  BY <1>2, <1>4
<1>6. it[Gs] = Total(F, Gs)
  <2>1. IsFiniteSet(Gs) OBVIOUS
  <2>. HIDE DEF F, Gs
  <2>. QED BY <1>1, <1>5, <2>1, TotalsAre
<1>. QED BY <1>5, <1>6

LEMMA Quotient ==
  ASSUME NEW a \in Nat, NEW d \in Nat, d > 0
  PROVE  a \div d \in Int /\ d * (a \div d) <= a /\ a < d * (a \div d) + d
OBVIOUS

\* Without its gravest term a mean does not grow.
LEMMA Means ==
  ASSUME NEW w \in Nat, NEW v \in Nat, NEW m \in Nat, m > 0, v <= m * w
  PROVE  (100 * v) \div m <= (100 * (w + v)) \div (m + 1)
<1>. DEFINE p == (100 * v) \div m
            q == (100 * (w + v)) \div (m + 1)
            k == m + 1
            x == 100 * v
            y == 100 * w
            z == 100 * (w + v)
<1>1. k \in Nat /\ k > 0 /\ x \in Nat /\ y \in Nat /\ z = y + x OBVIOUS
<1>2. p \in Int /\ m * p <= x
  <2>. HIDE DEF x
  <2>. QED BY <1>1, Quotient
<1>3. q \in Int /\ z < k * q + k
  <2>1. z \in Nat /\ k \in Nat /\ k > 0 BY <1>1
  <2>2. q = z \div k OBVIOUS
  <2>. HIDE DEF q, z, k
  <2>. QED BY <2>1, <2>2, Quotient
<1>4. x <= m * y
  <2>1. m * y = 100 * (m * w) OBVIOUS
  <2>2. m * w \in Int OBVIOUS
  <2>. QED BY <2>1, <2>2
<1>. HIDE DEF p, q, x, y, z
<1>5. SUFFICES ASSUME p >= q + 1 PROVE FALSE BY <1>2, <1>3 DEF p, q, z, k
<1>6. k * p >= k * (q + 1)
  <2>. HIDE DEF k
  <2>. QED BY <1>1, <1>2, <1>3, <1>5, Z3
<1>7. k * (q + 1) = k * q + k /\ k * q \in Int BY <1>3
<1>8. k * p = m * p + p /\ m * p \in Int BY <1>2
<1>9. p > y BY <1>1, <1>2, <1>3, <1>6, <1>7, <1>8
<1>10. m * p >= m * (y + 1) BY <1>1, <1>2, <1>9, Z3
<1>11. m * (y + 1) = m * y + m /\ m * y \in Int BY <1>1
<1>. QED BY <1>1, <1>2, <1>4, <1>10, <1>11

LEMMA Largest ==
  ASSUME NEW a \in Nat, NEW b \in Nat
  PROVE  Max({a, b}) = IF b <= a THEN a ELSE b
<1>1. CASE b <= a BY <1>1, LargerOf
<1>2. CASE ~ (b <= a)
  <2>1. {a, b} = {b, a} /\ a <= b BY <1>2
  <2>. QED BY <1>2, <2>1, LargerOf
<1>. QED BY <1>1, <1>2

\* A group of findings does not cost more without one of them, if it judged no fewer
\* objects than they are, or if it is the gravest.
LEMMA ShareFalls ==
  ASSUME NEW all, IsFiniteSet(all), \A x \in all : x.severity \in Severity, NEW f \in all, all \ {f} # {},
         NEW d \in Nat, Cardinality(all) <= d \/ \A x \in all : Weights[x.severity] <= Weights[f.severity]
  PROVE  LET few == all \ {f}
             less == (100 * Weight(few)) \div Max({d, Cardinality(few)})
             more == (100 * Weight(all)) \div Max({d, Cardinality(all)})
         IN less \in Nat /\ more \in Nat /\ less <= more
<1>. DEFINE few == all \ {f}
            w == Weights[f.severity]
            m == Cardinality(few)
            n == Cardinality(all)
            v == Weight(few)
            u == Weight(all)
<1>1. IsFiniteSet(few) /\ few \subseteq all /\ m \in Nat /\ n \in Nat BY Parts
<1>2. n = m + 1
  <2>1. m = n - 1 BY FS_RemoveElement
  <2>. QED BY <1>1, <2>1
<1>3. m > 0
  <2>. HIDE DEF few
  <2>1. few # {} BY DEF few
  <2>2. m # 0 BY <1>1, <2>1, FS_EmptySet
  <2>. QED BY <1>1, <2>2
<1>4. w \in Nat BY WeightsAssumption
<1>5. v \in Nat /\ u = w + v
  <2>1. WeightsOf(all) \in [all -> Nat] /\ u = Total(WeightsOf(all), all) BY WeightIs
  <2>2. WeightsOf(few) \in [few -> Nat] /\ v = Total(WeightsOf(few), few) BY <1>1, WeightIs
  <2>3. [y \in few |-> WeightsOf(all)[y]] = WeightsOf(few) BY DEF WeightsOf
  <2>4. WeightsOf(all)[f] = w BY DEF WeightsOf
  <2>. DEFINE ws == WeightsOf(all)
  <2>5. u = w + v
    <3>1. ws \in [all -> Nat] BY <2>1
    <3>2. Total(ws, all) = ws[f] + Total([y \in all \ {f} |-> ws[y]], all \ {f})
      <4>. HIDE DEF ws
      <4>. QED BY <3>1, TotalWithout
    <3>3. Total([y \in all \ {f} |-> ws[y]], all \ {f}) = v BY <2>2, <2>3
    <3>. QED BY <2>1, <2>4, <3>2, <3>3
  <2>6. v \in Nat
    <3>. DEFINE vs == WeightsOf(few)
    <3>. HIDE DEF few
    <3>1. vs \in [few -> Nat] BY <2>2
    <3>2. Total(vs, few) \in Nat
      <4>. HIDE DEF vs
      <4>1. \A x \in few : vs[x] <= vs[x] BY <3>1
      <4>. QED BY <1>1, <3>1, <4>1, TotalGrows
    <3>. QED BY <2>2, <3>2
  <2>. QED BY <2>5, <2>6
<1>6. (\A x \in all : Weights[x.severity] <= w) => v <= m * w
  <2>1. WeightsOf(few) \in [few -> Nat] /\ v = Total(WeightsOf(few), few) BY <1>1, WeightIs
  <2>2. \A x \in few : WeightsOf(few)[x] = Weights[x.severity] BY DEF WeightsOf
  <2>3. few \subseteq all OBVIOUS
  <2>. HIDE DEF few, w
  <2>. QED BY <1>1, <1>4, <2>1, <2>2, <2>3, TotalBounded
<1>7. n <= d \/ v <= m * w BY <1>6
<1>. DEFINE low == 100 * v
            high == 100 * (w + v)
<1>8. low \in Nat /\ high \in Nat /\ low <= high BY <1>4, <1>5
<1>. HIDE DEF few, w, m, n, v, u
<1>9. CASE d >= n
  <2>1. Max({d, m}) = d /\ Max({d, n}) = d BY <1>1, <1>2, <1>9, Largest
  <2>2. d > 0 BY <1>1, <1>2, <1>9
  <2>. HIDE DEF low, high
  <2>3. low \div d \in Nat /\ high \div d \in Nat /\ low \div d <= high \div d BY <1>8, <2>2, Shares
  <2>. QED BY <1>5, <2>1, <2>3 DEF low, high, few, m, n, v, u, w
<1>10. CASE ~ (d >= n)
  <2>1. d <= m /\ ~ (n <= d) BY <1>1, <1>2, <1>10
  <2>2. Max({d, m}) = m /\ Max({d, n}) = n
    <3>1. Max({d, n}) = n BY <1>1, <2>1, Largest
    <3>2. Max({d, m}) = m BY <1>1, <2>1, Largest
    <3>. QED BY <3>1, <3>2
  <2>3. low \div m <= high \div n
    <3>1. v <= m * w BY <1>7, <2>1
    <3>. QED BY <1>1, <1>2, <1>3, <1>4, <1>5, <3>1, Means
  <2>. HIDE DEF low, high
  <2>4. low \div m \in Nat /\ high \div n \in Nat BY <1>1, <1>2, <1>3, <1>8, Shares
  <2>. QED BY <1>5, <2>2, <2>3, <2>4 DEF low, high, few, m, n, v, u, w
<1>. QED BY <1>9, <1>10

\* So it is with the check.
LEMMA DeductionFalls ==
  ASSUME NEW more, NEW judged, Counted(more, judged), NEW f \in more,
         Covered(f, more, judged) \/ Gravest(f, more), NEW c \in DOMAIN judged
  PROVE  LET fewer == more \ {f}
         IN /\ Deduction(c, fewer, judged) \in Nat /\ Deduction(c, more, judged) \in Nat
            /\ Deduction(c, fewer, judged) <= Deduction(c, more, judged)
<1>. DEFINE fewer == more \ {f}
<1>1. ASSUME NEW H \in SUBSET more
      PROVE  /\ IsFiniteSet(GroupsOf(c, H, judged))
             /\ GroupsOf(c, H, judged) \subseteq GroupsOf(c, more, judged)
  <2>. DEFINE fs == {x \in H : x.check = c}
              Gs == GroupsOf(c, H, judged)
              group == [x \in fs |-> GroupOf(x, judged)]
  <2>1. IsFiniteSet(fs)
    <3>1. IsFiniteSet(more) /\ fs \subseteq more BY DEF Counted
    <3>. HIDE DEF fs
    <3>. QED BY <3>1, Parts
  <2>2. group \in [fs -> Gs] /\ \A g \in Gs : \E x \in fs : group[x] = g BY DEF GroupsOf
  <2>3. Gs \subseteq GroupsOf(c, more, judged) BY DEF GroupsOf
  <2>. HIDE DEF fs, Gs, group
  <2>4. IsFiniteSet(Gs) BY <2>1, <2>2, Reached
  <2>. QED BY <2>3, <2>4 DEF Gs
<1>2. ASSUME NEW H \in SUBSET more, NEW g \in GroupsOf(c, H, judged)
      PROVE  /\ IsFiniteSet(FindingsOf(c, g, H, judged)) /\ FindingsOf(c, g, H, judged) # {}
             /\ \A x \in FindingsOf(c, g, H, judged) : x.severity \in Severity
             /\ Charge(c, g, H, judged) \in Nat
  <2>. DEFINE all == FindingsOf(c, g, H, judged)
              d == Ground(c, g, judged)
  <2>1. all # {} BY DEF FindingsOf, GroupsOf
  <2>2. all \subseteq more BY DEF FindingsOf
  <2>3. d \in Nat BY DEF Counted, Ground
  <2>4. Charge(c, g, H, judged) = (100 * Weight(all)) \div Max({d, Cardinality(all)}) BY DEF Charge
  <2>. HIDE DEF all, d
  <2>5. IsFiniteSet(all) /\ (\A x \in all : x.severity \in Severity) /\ Cardinality(all) \in Nat
    BY <2>2, Parts DEF Counted
  <2>6. Cardinality(all) # 0 BY <2>1, <2>5, FS_EmptySet
  <2>. DEFINE n == Cardinality(all)
              k == Max({d, n})
              a == 100 * Weight(all)
  <2>7. k \in Nat /\ k > 0
    <3>1. n \in Nat /\ n # 0 BY <2>5, <2>6
    <3>2. k = IF n <= d THEN d ELSE n BY <2>3, <3>1, Largest
    <3>. HIDE DEF n, k
    <3>. QED BY <2>3, <3>1, <3>2
  <2>8. Weight(all) \in Nat BY <2>5, WeightGrows
  <2>9. a \in Nat BY <2>8
  <2>. HIDE DEF k, a
  <2>10. a \div k \in Nat BY <2>7, <2>9, Shares
  <2>. QED BY <2>1, <2>4, <2>5, <2>10 DEF all, a, k, n
<1>3. ASSUME NEW g \in GroupsOf(c, fewer, judged)
      PROVE  Charge(c, g, fewer, judged) <= Charge(c, g, more, judged)
  <2>. DEFINE few == FindingsOf(c, g, fewer, judged)
              all == FindingsOf(c, g, more, judged)
              d == Ground(c, g, judged)
  <2>1. fewer \in SUBSET more /\ more \in SUBSET more /\ g \in GroupsOf(c, more, judged) BY <1>1
  <2>2. few = all \ {f} BY DEF FindingsOf
  <2>3. /\ IsFiniteSet(all) /\ few # {} /\ \A x \in all : x.severity \in Severity
        /\ Charge(c, g, fewer, judged) \in Nat
    BY <1>2, <2>1
  <2>4. CASE f \notin all
    <3>1. few = all BY <2>2, <2>4
    <3>2. Charge(c, g, fewer, judged) = Charge(c, g, more, judged) BY <3>1 DEF Charge
    <3>. QED BY <2>3, <3>2
  <2>5. CASE f \in all
    <3>1. f.check = c /\ GroupOf(f, judged) = g BY <2>5 DEF FindingsOf
    <3>2. d \in Nat BY DEF Counted, Ground
    <3>3. Cardinality(all) <= d \/ \A x \in all : Weights[x.severity] <= Weights[f.severity]
      <4>1. CASE Covered(f, more, judged)
        <5>1. Peers(f, more, judged) = all BY <3>1 DEF Peers, FindingsOf
        <5>. HIDE DEF all
        <5>. QED BY <3>1, <4>1, <5>1 DEF Covered, Ground
      <4>2. CASE Gravest(f, more) BY <3>1, <4>2 DEF Gravest, FindingsOf
      <4>. QED BY <4>1, <4>2
    <3>4. /\ Charge(c, g, fewer, judged) = (100 * Weight(all \ {f})) \div Max({d, Cardinality(all \ {f})})
          /\ Charge(c, g, more, judged) = (100 * Weight(all)) \div Max({d, Cardinality(all)})
      BY <2>2 DEF Charge
    <3>. HIDE DEF few, all, d
    <3>. QED BY <2>2, <2>3, <2>5, <3>2, <3>3, <3>4, ShareFalls
  <2>. QED BY <2>4, <2>5
<1>4. ASSUME NEW H \in SUBSET more PROVE Charges(c, H, judged) \in [GroupsOf(c, H, judged) -> Nat]
  BY <1>2 DEF Charges
<1>. DEFINE t == Total(Charges(c, fewer, judged), GroupsOf(c, fewer, judged))
            u == Total(Charges(c, more, judged), GroupsOf(c, more, judged))
<1>5. \A g \in GroupsOf(c, fewer, judged) : Charges(c, fewer, judged)[g] <= Charges(c, more, judged)[g]
  <2>1. ASSUME NEW g \in GroupsOf(c, fewer, judged)
        PROVE  /\ Charges(c, fewer, judged)[g] = Charge(c, g, fewer, judged)
               /\ Charges(c, more, judged)[g] = Charge(c, g, more, judged)
    BY <1>1 DEF Charges
  <2>. QED BY <1>3, <2>1
<1>6. fewer \in SUBSET more /\ more \in SUBSET more OBVIOUS
<1>. HIDE DEF fewer
<1>7. t \in Nat /\ u \in Nat /\ t <= u
  <2>1. /\ IsFiniteSet(GroupsOf(c, more, judged))
        /\ GroupsOf(c, fewer, judged) \in SUBSET GroupsOf(c, more, judged)
        /\ Charges(c, fewer, judged) \in [GroupsOf(c, fewer, judged) -> Nat]
        /\ Charges(c, more, judged) \in [GroupsOf(c, more, judged) -> Nat]
    BY <1>1, <1>4, <1>6
  <2>. QED BY <1>5, <2>1, TotalGrows
<1>8. /\ Deduction(c, fewer, judged) = IF t < Cap THEN t ELSE Cap
      /\ Deduction(c, more, judged) = IF u < Cap THEN u ELSE Cap
  BY <1>1, <1>4, <1>6, DeductionIs
<1>. HIDE DEF t, u
<1>. QED BY <1>7, <1>8, CapIs DEF fewer

\* What the checks cost together.
Costs(H, judged) == [c \in DOMAIN judged |-> Deduction(c, H, judged)]

LEMMA ScoreIs ==
  ASSUME NEW H, NEW judged, IsFiniteSet(DOMAIN judged), Costs(H, judged) \in [DOMAIN judged -> Nat]
  PROVE  Score(H, judged) = LET lost == Total(Costs(H, judged), DOMAIN judged)
                            IN IF lost >= 10000 THEN 0 ELSE (10000 - lost + 50) \div 100
<1>. DEFINE Cs == DOMAIN judged
            F == Costs(H, judged)
            Is(it) == it = [s \in SUBSET Cs |-> IF s = {} THEN 0
                              ELSE Deduction(CHOOSE x \in s : TRUE, H, judged) + it[s \ {CHOOSE x \in s : TRUE}]]
<1>1. F \in [Cs -> Nat] OBVIOUS
<1>2. ASSUME NEW it PROVE Is(it) <=> Totals(F, Cs, it)
  <2>. HIDE DEF Cs
  <2>1. \A s \in SUBSET Cs : s # {} => (CHOOSE x \in s : TRUE) \in Cs OBVIOUS
  <2>2. \A s \in SUBSET Cs : s # {} => F[CHOOSE x \in s : TRUE] = Deduction(CHOOSE x \in s : TRUE, H, judged)
    BY <2>1 DEF Costs, Cs
  <2>3. [s \in SUBSET Cs |-> IF s = {} THEN 0
           ELSE Deduction(CHOOSE x \in s : TRUE, H, judged) + it[s \ {CHOOSE x \in s : TRUE}]]
        = [s \in SUBSET Cs |-> IF s = {} THEN 0
             ELSE F[CHOOSE x \in s : TRUE] + it[s \ {CHOOSE x \in s : TRUE}]]
    <3>. HIDE DEF F
    <3>. QED BY <2>2
  <2>. QED BY <2>3 DEF Totals, Pick
<1>3. \E it : Is(it)
  <2>1. PICK it : Totals(F, Cs, it) BY TotalsExist
  <2>. HIDE DEF Is, F, Cs
  <2>. QED BY <1>2, <2>1
<1>. DEFINE lost == MapThenSumSet(LAMBDA c : Deduction(c, H, judged), Cs)
<1>4. \E it : Is(it) /\ lost = it[Cs]
  BY <1>3 DEF MapThenSumSet, MapThenFoldSet
<1>5. Score(H, judged) = IF lost >= 10000 THEN 0 ELSE (10000 - lost + 50) \div 100
  BY DEF Score, MapThenSumSet, MapThenFoldSet
<1>. HIDE DEF lost, Is
<1>6. PICK it : Totals(F, Cs, it) /\ lost = it[Cs] BY <1>2, <1>4
<1>7. it[Cs] = Total(F, Cs)
  <2>1. IsFiniteSet(Cs) OBVIOUS
  <2>. HIDE DEF F, Cs
  <2>. QED BY <1>1, <1>6, <2>1, TotalsAre
<1>. QED BY <1>5, <1>6, <1>7

\* A finding less does not lower the score.
LEMMA ScoreRises ==
  ASSUME NEW more, NEW judged, Counted(more, judged), NEW f \in more,
         Covered(f, more, judged) \/ Gravest(f, more)
  PROVE  Score(more \ {f}, judged) >= Score(more, judged)
<1>. DEFINE fewer == more \ {f}
            t == Total(Costs(fewer, judged), DOMAIN judged)
            u == Total(Costs(more, judged), DOMAIN judged)
<1>1. IsFiniteSet(DOMAIN judged) BY DEF Counted
<1>2. /\ Costs(fewer, judged) \in [DOMAIN judged -> Nat] /\ Costs(more, judged) \in [DOMAIN judged -> Nat]
      /\ \A c \in DOMAIN judged : Costs(fewer, judged)[c] <= Costs(more, judged)[c]
  BY DeductionFalls DEF Costs
<1>. HIDE DEF fewer
<1>3. t \in Nat /\ u \in Nat /\ t <= u BY <1>1, <1>2, TotalGrows
<1>4. /\ Score(fewer, judged) = IF t >= 10000 THEN 0 ELSE (10000 - t + 50) \div 100
      /\ Score(more, judged) = IF u >= 10000 THEN 0 ELSE (10000 - u + 50) \div 100
  BY <1>1, <1>2, ScoreIs
<1>. HIDE DEF t, u
<1>. QED BY <1>3, <1>4 DEF fewer

-----------------------------------------------------------------------------
(* The invariant *)

LEMMA InventoryStart ==
  ASSUME Init
  PROVE  InventoryInv
<1>1. KindsKept BY InventoryAssumption DEF Init, KindsKept
<1>2. Collected BY InventoryAssumption DEF Init, Collected
<1>3. SnapshotShown /\ IdentityStable /\ FindingsCharged
  BY DEF Init, SnapshotShown, IdentityStable, Between, FindingsCharged
<1>4. OlderKept BY DEF Init, OlderKept
<1>. QED BY <1>1, <1>2, <1>3, <1>4 DEF InventoryInv

LEMMA InventorySteps ==
  ASSUME InventoryInv, [Next]_vars
  PROVE  InventoryInv'
<1>1. CASE Next
  BY <1>1, WorldKinds, CollectedSteps, SnapshotSteps, IdentitySteps, OlderSteps, ChargedSteps
     DEF InventoryInv
<1>2. CASE UNCHANGED vars
  <2>1. FindingsCharged' BY <1>2, ChargedStays DEF vars, results, scan, Second, InventoryInv
  <2>2. OlderKept' BY <1>2 DEF vars, results, OlderKept, InventoryInv
  <2>. QED BY <1>2, <2>1, <2>2 DEF vars, vcenter, results, scan, InventoryInv, KindsKept, Collected, Viewed,
                                   SnapshotShown, Stayed, IdentityStable, Between
<1>. QED BY <1>1, <1>2

\* The invariant holds in every inventory: objects keep their kinds, a collection has what
\* stayed, a snapshot shows it, and the findings are of checks there are and, but for what
\* was compared with a snapshot that is gone, no more than these judge when they are asked
\* again (normalize.py, registry.py: run_all, coverage; router.py: _health_inputs).
THEOREM InventoryInvariant == Spec => []InventoryInv
<1>. QED BY InventoryStart, InventorySteps, PTL DEF Spec

\* An object that was in vCenter from the beginning of one collection to the end of the
\* next is neither removed nor added by the changes of the scan (client.py, normalize.py,
\* diff/engine.py), whatever else changed while they read.
THEOREM ObjectsKeepTheirIdentity == Spec => []IdentityStable
<1>1. InventoryInv => IdentityStable BY DEF InventoryInv
<1>. QED BY <1>1, InventoryInvariant, PTL

\* What any of the seventeen checks has found is among what it judges when the score is
\* asked for, group by group; of those that compare, as long as the snapshot compared with
\* is there (checks/*.py; registry.py: coverage; router.py: _health_inputs).
THEOREM FindingsAreCovered == Spec => []WithinCoverage
<1>1. InventoryInv => WithinCoverage
  BY DEF InventoryInv, WithinCoverage, Between, FindingsCharged
<1>. QED BY <1>1, InventoryInvariant, PTL

\* Whatever the weights, whichever older snapshots are gone and whichever checks raise when
\* they are asked what they judged: resolving the gravest finding of a check, or one of a
\* check that judged no fewer objects than it has findings, does not lower the score
\* (scoring.py: compute_health).
THEOREM FixingNeverHurts == Spec => []FixingHelps
<1>1. InventoryInv => FixingHelps
  <2>. SUFFICES ASSUME InventoryInv, current # None, NEW raising \in Raising, NEW f \in findings,
                       Covered(f, findings, Judged(raising)) \/ Gravest(f, findings)
                PROVE  Score(findings \ {f}, Judged(raising)) >= Score(findings, Judged(raising))
    BY DEF FixingHelps, Between
  <2>. DEFINE ws == Verdicts(current, Second, day)
              judged == Coverage(ws, raising)
  <2>1. IsFiniteSet(current) BY DEF InventoryInv, SnapshotShown, ShownIn
  <2>2. IsFiniteSet(Before(Second)) BY FS_EmptySet DEF InventoryInv, OlderKept, Second, Before
  <2>3. IsFiniteSet(DOMAIN ws) /\ \A c \in DOMAIN ws : Sound(ws[c]) BY <2>1, <2>2, VerdictsSound
  <2>4. Judged(raising) = judged /\ Judged({}) = Coverage(ws, {}) BY DEF Judged
  <2>. HIDE DEF ws
  <2>5. DOMAIN Coverage(ws, {}) = DOMAIN ws BY <2>3, CoverageCounts
  <2>6. IsFiniteSet(findings) /\ \A x \in findings : x.check \in DOMAIN ws /\ x.severity \in Severity
    BY <2>4, <2>5 DEF InventoryInv, FindingsCharged
  <2>7. Counted(findings, judged) BY <2>3, <2>6, CoverageCounts DEF Counted
  <2>. HIDE DEF judged
  <2>. QED BY <2>4, <2>7, ScoreRises
<1>. QED BY <1>1, InventoryInvariant, PTL

-----------------------------------------------------------------------------
(* What is plausible stays plausible *)

Conn == "runtime.connectionState"

\* An object with other properties.
LEMMA NewProps ==
  ASSUME NEW o, DOMAIN o = {"kind", "props"}, NEW props, NEW n, n = [o EXCEPT !.props = props]
  PROVE  /\ n.kind = o.kind /\ n.props = props /\ DOMAIN n = {"kind", "props"}
         /\ \A p : Get(n, p) = IF p \in DOMAIN props THEN props[p] ELSE None
BY DEF Get

\* Edits do not lead out of it.
LEMMA EditPlausible ==
  ASSUME PlausibleWorld, NEW e \in Edits, NEW o, Plausible(o), DOMAIN o = {"kind", "props"},
         e.object \in DOMAIN Start, o.kind = Start[e.object].kind, e.path \in DOMAIN o.props,
         NEW n, n = [o EXCEPT !.props = IF e.value = None THEN Without(o.props, {e.path})
                                        ELSE Put(e.path, e.value, o.props)]
  PROVE  Plausible(n)
<1>. DEFINE props == IF e.value = None THEN Without(o.props, {e.path}) ELSE Put(e.path, e.value, o.props)
<1>1. /\ e.value = None => DOMAIN props = DOMAIN o.props \ {e.path}
      /\ e.value # None => DOMAIN props = DOMAIN o.props /\ props[e.path] = e.value
      /\ \A p \in DOMAIN props : p # e.path => p \in DOMAIN o.props /\ props[p] = o.props[p]
  BY DEF Without, Only, Put
<1>. HIDE DEF props
<1>2. /\ n.kind = o.kind /\ n.props = props
      /\ \A p : Get(n, p) = IF p \in DOMAIN props THEN props[p] ELSE None
  BY NewProps DEF props
<1>3. Linked(n)
  <2>. SUFFICES ASSUME n.kind = "HostSystem" PROVE Linked(n) BY DEF Linked
  <2>1. e.path # Conn BY <1>2 DEF PlausibleWorld, Conn
  <2>2. Get(n, Conn) = Get(o, Conn) BY <1>1, <1>2, <2>1 DEF Get
  <2>3. e.path \in VersionPaths => e.value # None BY DEF PlausibleWorld
  <2>4. Linked(o) /\ o.kind = "HostSystem" BY <1>2 DEF Plausible
  <2>5. CASE Get(o, Conn) = "connected"
    <3>1. \A p \in VersionPaths : p \in DOMAIN o.props /\ o.props[p] # None BY <2>4, <2>5 DEF Linked, Conn
    <3>2. \A p \in VersionPaths : p \in DOMAIN props /\ props[p] # None BY <1>1, <2>3, <3>1
    <3>. QED BY <1>2, <2>2, <2>5, <3>2 DEF Linked, Conn
  <2>6. CASE Get(o, Conn) # "connected"
    <3>1. VersionPaths \cap DOMAIN o.props = {} BY <2>4, <2>6 DEF Linked, Conn
    <3>2. VersionPaths \cap DOMAIN props = {} BY <1>1, <3>1
    <3>. QED BY <1>2, <2>2, <2>6, <3>2 DEF Linked, Conn
  <2>. QED BY <2>5, <2>6
<1>4. Sized(n)
  <2>1. e.path \in SizePaths => e.value = None \/ e.value \in Nat BY DEF PlausibleWorld
  <2>. QED BY <1>1, <1>2, <2>1 DEF Plausible, Sized
<1>5. Placing(n)
  <2>1. e.path = "host" => e.value = None \/ e.value \subseteq DOMAIN Start BY DEF PlausibleWorld
  <2>. QED BY <1>1, <1>2, <2>1 DEF Plausible, Placing, Listed, Get
<1>. QED BY <1>3, <1>4, <1>5 DEF Plausible

\* Nor does the connection of a host.
LEMMA ConnectionPlausible ==
  ASSUME PlausibleWorld, NEW o, Plausible(o), DOMAIN o = {"kind", "props"}, NEW n
  PROVE  /\ \A state \in {"disconnected", "notResponding"} :
              n = [o EXCEPT !.props = Put(Conn, state, Without(o.props, ConfigPaths \cup VersionPaths))]
                => Plausible(n)
         /\ \A h \in Loose :
              o.kind = Start[h].kind /\ n = [o EXCEPT !.props = Over(Start[h].props, o.props)] => Plausible(n)
<1>1. ASSUME NEW state \in {"disconnected", "notResponding"},
             n = [o EXCEPT !.props = Put(Conn, state, Without(o.props, ConfigPaths \cup VersionPaths))]
      PROVE  Plausible(n)
  <2>. DEFINE props == Put(Conn, state, Without(o.props, ConfigPaths \cup VersionPaths))
  <2>1. /\ Conn \in DOMAIN props /\ props[Conn] = state /\ VersionPaths \cap DOMAIN props = {}
        /\ \A p \in DOMAIN props : p # Conn => p \in DOMAIN o.props /\ props[p] = o.props[p]
    BY DEF Without, Only, Put, VersionPaths, Conn
  <2>. HIDE DEF props
  <2>2. /\ n.kind = o.kind /\ n.props = props
        /\ \A p : Get(n, p) = IF p \in DOMAIN props THEN props[p] ELSE None
    BY <1>1, NewProps DEF props
  <2>3. Linked(n) BY <2>1, <2>2 DEF Linked, Conn
  <2>4. Sized(n) BY <2>1, <2>2 DEF Plausible, Sized, SizePaths, Conn
  <2>5. Placing(n) BY <2>1, <2>2 DEF Plausible, Placing, Listed, Get, Conn
  <2>. QED BY <2>3, <2>4, <2>5 DEF Plausible
<1>2. ASSUME NEW h \in Loose, o.kind = Start[h].kind, n = [o EXCEPT !.props = Over(Start[h].props, o.props)]
      PROVE  Plausible(n)
  <2>. DEFINE props == Over(Start[h].props, o.props)
  <2>1. /\ DOMAIN props = DOMAIN Start[h].props \cup DOMAIN o.props
        /\ \A p \in DOMAIN props : props[p] = IF p \in DOMAIN Start[h].props THEN Start[h].props[p] ELSE o.props[p]
    BY DEF Over
  <2>. HIDE DEF props
  <2>2. /\ n.kind = o.kind /\ n.props = props
        /\ \A p : Get(n, p) = IF p \in DOMAIN props THEN props[p] ELSE None
    BY <1>2, NewProps DEF props
  <2>3. /\ h \in DOMAIN Start /\ Plausible(Start[h])
        /\ Conn \in DOMAIN Start[h].props /\ Start[h].props[Conn] = "connected"
    BY InventoryAssumption DEF PlausibleWorld, Conn
  <2>4. Linked(n)
    <3>. SUFFICES ASSUME n.kind = "HostSystem" PROVE Linked(n) BY DEF Linked
    <3>1. \A p \in VersionPaths : p \in DOMAIN Start[h].props /\ Start[h].props[p] # None
      BY <1>2, <2>2, <2>3 DEF Plausible, Linked, Get, Conn
    <3>2. \A p \in VersionPaths : p \in DOMAIN props /\ props[p] # None BY <2>1, <3>1
    <3>3. Get(n, Conn) = "connected" BY <2>1, <2>2, <2>3
    <3>. QED BY <2>2, <3>2, <3>3 DEF Linked, Conn
  <2>5. Sized(n) BY <2>1, <2>2, <2>3 DEF Plausible, Sized
  <2>6. Placing(n) BY <1>2, <2>1, <2>2, <2>3 DEF Plausible, Placing, Listed, Get
  <2>. QED BY <2>4, <2>5, <2>6 DEF Plausible
<1>. QED BY <1>1, <1>2

\* Nor does a move of a host.
LEMMA PutPlausible ==
  ASSUME NEW o, Plausible(o), DOMAIN o = {"kind", "props"}, NEW p \in {"parent", "host"}, NEW v,
         p = "host" => v \subseteq DOMAIN Start,
         NEW n, n = [o EXCEPT !.props = Put(p, v, o.props)]
  PROVE  Plausible(n)
<1>. DEFINE props == Put(p, v, o.props)
<1>1. /\ DOMAIN props = DOMAIN o.props \cup {p} /\ props[p] = v
      /\ \A q \in DOMAIN props : q # p => props[q] = o.props[q]
  BY DEF Put
<1>. HIDE DEF props
<1>2. /\ n.kind = o.kind /\ n.props = props
      /\ \A q : Get(n, q) = IF q \in DOMAIN props THEN props[q] ELSE None
  BY NewProps DEF props
<1>3. Get(n, Conn) = Get(o, Conn) BY <1>1, <1>2 DEF Get, Conn
<1>4. /\ VersionPaths \cap DOMAIN props = VersionPaths \cap DOMAIN o.props
      /\ \A q \in VersionPaths \cap DOMAIN props : props[q] = o.props[q]
  BY <1>1 DEF VersionPaths
<1>5. Linked(n) BY <1>2, <1>3, <1>4 DEF Plausible, Linked, Conn
<1>6. Sized(n) BY <1>1, <1>2 DEF Plausible, Sized, SizePaths
<1>7. Placing(n) BY <1>1, <1>2 DEF Plausible, Placing, Listed, Get
<1>. QED BY <1>5, <1>6, <1>7 DEF Plausible

LEMMA PlacedPlausible ==
  ASSUME NEW w, \A m \in DOMAIN w : Plausible(w[m]) /\ DOMAIN w[m] = {"kind", "props"},
         NEW h \in DOMAIN Start, NEW cluster
  PROVE  /\ DOMAIN Placed(w, h, cluster) = DOMAIN w
         /\ \A m \in DOMAIN w : Plausible(Placed(w, h, cluster)[m])
<1>1. DOMAIN Placed(w, h, cluster) = DOMAIN w BY DEF Placed
<1>2. ASSUME NEW m \in DOMAIN w PROVE Plausible(Placed(w, h, cluster)[m])
  <2>. DEFINE hosts == IF m = cluster THEN Listed(w[m], "host") \cup {h} ELSE Listed(w[m], "host") \ {h}
  <2>1. CASE m = h
    <3>1. Placed(w, h, cluster)[m] = [w[m] EXCEPT !.props = Put("parent", cluster, w[m].props)]
      BY <2>1 DEF Placed
    <3>. QED BY <3>1, PutPlausible
  <2>2. CASE m # h /\ w[m].kind # "ClusterComputeResource"
    BY <2>2 DEF Placed
  <2>3. CASE m # h /\ w[m].kind = "ClusterComputeResource"
    <3>1. Placed(w, h, cluster)[m] = [w[m] EXCEPT !.props = Put("host", hosts, w[m].props)]
      BY <2>3 DEF Placed
    <3>2. hosts \subseteq DOMAIN Start BY <2>3 DEF Plausible, Placing
    <3>. HIDE DEF hosts
    <3>. QED BY <3>1, <3>2, PutPlausible
  <2>. QED BY <2>1, <2>2, <2>3
<1>. QED BY <1>1, <1>2

LEMMA WorldPlausible ==
  ASSUME PlausibleWorld, KindsKept, \A m \in DOMAIN world : Plausible(world[m]), Next
  PROVE  \A m \in DOMAIN world' : Plausible(world'[m])
<1>. DEFINE Good(w) == \A m \in DOMAIN w : Plausible(w[m])
<1>1. Good(world) OBVIOUS
<1>2. \A m \in DOMAIN world : /\ m \in DOMAIN Start /\ world[m].kind = Start[m].kind
                              /\ DOMAIN world[m] = {"kind", "props"}
  BY DEF KindsKept
<1>3. ASSUME NEW w, Good(w), NEW S PROVE Good(Without(w, S)) BY <1>3 DEF Without, Only
<1>4. ASSUME NEW m, NEW props, \A n : n = [world[m] EXCEPT !.props = props] => Plausible(n)
      PROVE  Good([world EXCEPT ![m].props = props])
  <2>. DEFINE n == [world[m] EXCEPT !.props = props]
              w == [world EXCEPT ![m].props = props]
  <2>1. DOMAIN w = DOMAIN world /\ \A x \in DOMAIN world : w[x] = IF x = m THEN n ELSE world[x] OBVIOUS
  <2>2. Plausible(n) BY <1>4
  <2>. HIDE DEF n, w
  <2>3. Good(w) BY <1>1, <2>1, <2>2
  <2>. QED BY <2>3 DEF w
<1>. HIDE DEF Good
<1>5. ASSUME NEW e \in Edits, SetValue(e) PROVE Good(world')
  <2>. DEFINE o == world[e.object]
              props == IF e.value = None THEN Without(o.props, {e.path}) ELSE Put(e.path, e.value, o.props)
  <2>1. /\ e.object \in DOMAIN world /\ e.path \in DOMAIN o.props
        /\ world' = [world EXCEPT ![e.object].props = props]
    BY <1>5 DEF SetValue, WorldBecomes
  <2>2. Plausible(o) /\ DOMAIN o = {"kind", "props"} /\ e.object \in DOMAIN Start /\ o.kind = Start[e.object].kind
    BY <1>1, <1>2, <2>1 DEF Good
  <2>3. \A n : n = [o EXCEPT !.props = props] => Plausible(n) BY <2>1, <2>2, EditPlausible
  <2>. HIDE DEF props
  <2>. QED BY <1>4, <2>1, <2>3
<1>6. ASSUME NEW h \in Loose, NEW state \in {"disconnected", "notResponding"}, Disconnect(h, state)
      PROVE  Good(world')
  <2>. DEFINE o == world[h]
              props == Put(Conn, state, Without(o.props, ConfigPaths \cup VersionPaths))
  <2>1. h \in DOMAIN world /\ world' = [world EXCEPT ![h].props = props]
    BY <1>6 DEF Disconnect, WorldBecomes, Conn, VersionPaths
  <2>2. Plausible(o) /\ DOMAIN o = {"kind", "props"} BY <1>1, <1>2, <2>1 DEF Good
  <2>3. \A n : n = [o EXCEPT !.props = props] => Plausible(n) BY <2>2, ConnectionPlausible
  <2>. HIDE DEF props
  <2>. QED BY <1>4, <2>1, <2>3
<1>7. ASSUME NEW h \in Loose, Reconnect(h) PROVE Good(world')
  <2>. DEFINE o == world[h]
              props == Over(Start[h].props, o.props)
  <2>1. h \in DOMAIN world /\ world' = [world EXCEPT ![h].props = props]
    BY <1>7 DEF Reconnect, WorldBecomes
  <2>2. Plausible(o) /\ DOMAIN o = {"kind", "props"} /\ o.kind = Start[h].kind BY <1>1, <1>2, <2>1 DEF Good
  <2>3. \A n : n = [o EXCEPT !.props = props] => Plausible(n) BY <2>2, ConnectionPlausible
  <2>. HIDE DEF props
  <2>. QED BY <1>4, <2>1, <2>3
<1>8. ASSUME NEW h \in DOMAIN Start, NEW cluster PROVE Good(Placed(world, h, cluster))
  BY <1>1, <1>2, PlacedPlausible DEF Good
<1>9. ASSUME NEW h \in Loose, NEW cluster, Move(h, cluster) PROVE Good(world')
  <2>1. h \in DOMAIN Start BY InventoryAssumption
  <2>. QED BY <1>8, <1>9, <2>1 DEF Move, WorldBecomes
<1>10. ASSUME NEW m \in Restless, Remove(m) PROVE Good(world')
  <2>1. m \in DOMAIN Start BY InventoryAssumption
  <2>2. world' \in {Without(Placed(world, m, None), {m}), Without(world, {m})}
    BY <1>10 DEF Remove, WorldBecomes
  <2>. QED BY <1>1, <1>3, <1>8, <2>1, <2>2
<1>11. ASSUME NEW m \in Restless, Return(m) PROVE Good(world')
  <2>. DEFINE w == [x \in DOMAIN world \cup {m} |-> IF x = m THEN Start[m] ELSE world[x]]
  <2>1. m \in DOMAIN Start BY InventoryAssumption
  <2>2. Plausible(Start[m]) /\ DOMAIN Start[m] = {"kind", "props"}
    BY <2>1, InventoryAssumption DEF PlausibleWorld
  <2>3. \A x \in DOMAIN w : Plausible(w[x]) /\ DOMAIN w[x] = {"kind", "props"} BY <1>1, <1>2, <2>2 DEF Good
  <2>4. world' = Placed(w, m, Get(Start[m], "parent")) \/ world' = w BY <1>11 DEF Return, WorldBecomes
  <2>. HIDE DEF w
  <2>. QED BY <2>1, <2>3, <2>4, PlacedPlausible DEF Good
<1>12. ASSUME WeekPasses \/ Begin \/ Retrieve \/ Stores \/ Thins \/ CollectionFails PROVE Good(world')
  BY <1>1, <1>12 DEF WeekPasses, Begin, Retrieve, Stores, Store, Thins, Thin, CollectionFails, vcenter
<1>13. Good(world') BY <1>5, <1>6, <1>7, <1>9, <1>10, <1>11, <1>12 DEF Next, Stores, Thins
<1>. QED BY <1>13 DEF Good

\* What a view returns of an object is plausible; a host is returned by one view only.
LEMMA RawPlausible ==
  ASSUME PlausibleWorld, KindsKept, Collected, \A m \in DOMAIN world : Plausible(world[m]),
         \A m \in DOMAIN raw : Plausible(raw[m]), Retrieve
  PROVE  \A m \in DOMAIN raw' : Plausible(raw'[m])
<1>. DEFINE view == Views[step]
            returned == {m \in DOMAIN world : world[m].kind \in Kinds(view)}
            seen == [m \in returned |-> [kind |-> world[m].kind, props |-> Only(world[m].props, Specs(view))]]
<1>1. step \in 1..Len(Views) /\ raw' = Merged(seen) BY DEF Retrieve
<1>2. ASSUME NEW m \in returned PROVE Plausible(seen[m]) /\ seen[m].kind = world[m].kind
  <2>. DEFINE o == world[m]
              n == seen[m]
  <2>1. Plausible(o) OBVIOUS
  <2>2. n.kind = o.kind /\ n.props = Only(o.props, Specs(view)) OBVIOUS
  <2>3. o.kind = "HostSystem" => view = "HostSystem" BY DEF Kinds
  <2>. HIDE DEF o, n, view
  <2>4. /\ \A p \in DOMAIN n.props : p \in DOMAIN o.props /\ n.props[p] = o.props[p]
        /\ \A p \in Specs(view) : (p \in DOMAIN n.props <=> p \in DOMAIN o.props) /\ Get(n, p) = Get(o, p)
    BY <2>2 DEF Only, Get
  <2>5. view = "HostSystem" => Conn \in Specs(view) /\ VersionPaths \subseteq Specs(view)
    BY DEF Specs, Conn, VersionPaths
  <2>6. Linked(n)
    <3>. SUFFICES ASSUME n.kind = "HostSystem" PROVE Linked(n) BY DEF Linked
    <3>1. /\ Get(n, Conn) = Get(o, Conn)
          /\ \A p \in VersionPaths : p \in DOMAIN n.props <=> p \in DOMAIN o.props
      BY <2>2, <2>3, <2>4, <2>5
    <3>2. Linked(o) /\ o.kind = "HostSystem" BY <2>1, <2>2 DEF Plausible
    <3>. QED BY <2>4, <3>1, <3>2 DEF Linked, Conn
  <2>7. Sized(n) BY <2>1, <2>4 DEF Plausible, Sized
  <2>8. Placing(n) BY <2>1, <2>2, <2>4 DEF Plausible, Placing, Listed, Get
  <2>. QED BY <2>2, <2>6, <2>7, <2>8 DEF Plausible, n, o
<1>3. ASSUME NEW m \in DOMAIN raw \cap returned
      PROVE  raw[m].kind = seen[m].kind /\ raw[m].kind # "HostSystem"
  <2>1. raw[m].kind = Start[m].kind /\ world[m].kind = Start[m].kind /\ Viewed(m, step)
    BY DEF Collected, KindsKept
  <2>2. PICK i \in 1..(step - 1) : Start[m].kind \in Kinds(Views[i]) BY <2>1 DEF Viewed
  <2>3. Start[m].kind = "HostSystem" => Views[i] = "HostSystem" /\ Views[step] = "HostSystem"
    BY <2>1, <2>2 DEF Kinds
  <2>4. i \in 1..Len(Views) /\ i # step BY <1>1, <2>2, InventoryAssumption
  <2>. QED BY <1>1, <1>2, <2>1, <2>3, <2>4 DEF PlausibleWorld
<1>. HIDE DEF seen
<1>4. DOMAIN seen = returned BY DEF seen
<1>5. ASSUME NEW m \in DOMAIN raw' PROVE Plausible(raw'[m])
  <2>1. CASE m \notin DOMAIN raw \cap returned
    <3>1. m \in DOMAIN raw \/ m \in returned BY <1>1, <1>4 DEF Merged
    <3>2. raw'[m] = IF m \in returned THEN seen[m] ELSE raw[m] BY <1>1, <1>4, <2>1, <3>1 DEF Merged
    <3>. HIDE DEF returned
    <3>. QED BY <1>2, <2>1, <3>1, <3>2
  <2>2. CASE m \in DOMAIN raw \cap returned
    <3>. DEFINE n == raw'[m]
    <3>1. n.kind = seen[m].kind /\ n.props = Over(seen[m].props, raw[m].props)
      BY <1>1, <1>4, <2>2 DEF Merged
    <3>2. \A p : Get(n, p) \in {Get(seen[m], p), Get(raw[m], p)} BY <3>1 DEF Over, Get
    <3>3. \A p \in DOMAIN n.props : \/ p \in DOMAIN seen[m].props /\ n.props[p] = seen[m].props[p]
                                    \/ p \in DOMAIN raw[m].props /\ n.props[p] = raw[m].props[p]
      BY <3>1 DEF Over
    <3>4. Plausible(seen[m]) /\ Plausible(raw[m]) /\ raw[m].kind = n.kind /\ n.kind # "HostSystem"
      BY <1>2, <1>3, <2>2, <3>1
    <3>. HIDE DEF n
    <3>5. Linked(n) BY <3>4 DEF Linked
    <3>6. Sized(n) BY <3>3, <3>4 DEF Plausible, Sized
    <3>7. Placing(n) BY <3>1, <3>2, <3>4 DEF Plausible, Placing, Listed
    <3>. QED BY <3>5, <3>6, <3>7 DEF Plausible, n
  <2>. QED BY <2>1, <2>2
<1>. QED BY <1>5

\* The resources that are built, by their types.
LEMMA HostBuilt ==
  ASSUME NEW inv, NEW m
  PROVE  /\ Prop(BuildHost(inv, m), "version") = Get(inv[m], "summary.config.product.version")
         /\ Prop(BuildHost(inv, m), "build") = Get(inv[m], "summary.config.product.build")
         /\ Prop(BuildHost(inv, m), "connectionState") = Get(inv[m], Conn)
<1>. DEFINE paths == [connectionState |-> "runtime.connectionState", powerState |-> "runtime.powerState",
                      bootTime |-> "runtime.bootTime",
                      version |-> "summary.config.product.version", build |-> "summary.config.product.build",
                      model |-> "hardware.systemInfo.model", memoryBytes |-> "summary.hardware.memorySize",
                      numCpuCores |-> "summary.hardware.numCpuCores", lockdownMode |-> "config.lockdownMode"]
            copied == Copied(inv[m], paths)
<1>1. \E rest : BuildHost(inv, m).props = Over(copied, rest) BY DEF BuildHost, Resource
<1>2. PICK rest : BuildHost(inv, m).props = Over(copied, rest) BY <1>1
<1>3. /\ {"connectionState", "version", "build"} \subseteq DOMAIN copied
      /\ copied["connectionState"] = Get(inv[m], Conn)
      /\ copied["version"] = Get(inv[m], "summary.config.product.version")
      /\ copied["build"] = Get(inv[m], "summary.config.product.build")
  BY DEF Copied, Conn
<1>. HIDE DEF copied
<1>. QED BY <1>2, <1>3 DEF Over, Prop

LEMMA DatastoreBuilt ==
  ASSUME NEW inv, NEW m
  PROVE  /\ Prop(BuildDatastore(inv, m), "capacity") = Get(inv[m], "summary.capacity")
         /\ Prop(BuildDatastore(inv, m), "freeSpace") = Get(inv[m], "summary.freeSpace")
<1>. DEFINE paths == [capacity |-> "summary.capacity", freeSpace |-> "summary.freeSpace",
                      multipleHostAccess |-> "summary.multipleHostAccess",
                      maintenanceMode |-> "summary.maintenanceMode"]
            copied == Copied(inv[m], paths)
<1>1. PICK rest : BuildDatastore(inv, m).props = Over(copied, rest) BY DEF BuildDatastore, Resource
<1>2. /\ {"capacity", "freeSpace"} \subseteq DOMAIN copied
      /\ copied["capacity"] = Get(inv[m], "summary.capacity")
      /\ copied["freeSpace"] = Get(inv[m], "summary.freeSpace")
  BY DEF Copied
<1>. HIDE DEF copied
<1>. QED BY <1>1, <1>2 DEF Over, Prop

LEMMA ClusterBuilt ==
  ASSUME NEW inv, NEW m
  PROVE  Prop(BuildCluster(inv, m), "hosts") = {Rid("host", h) : h \in Listed(inv[m], "host")}
<1>. DEFINE copied == Copied(inv[m], [drsAutomationLevel |-> "configuration.drsConfig.defaultVmBehavior",
                                      evcMode |-> "summary.currentEVCModeKey"])
            rest == [hosts |-> {Rid("host", h) : h \in Listed(inv[m], "host")},
                     drsEnabled |-> Flag(inv[m], "configuration.drsConfig.enabled"),
                     haEnabled |-> Flag(inv[m], "configuration.dasConfig.enabled"),
                     haAdmissionControl |-> Flag(inv[m], "configuration.dasConfig.admissionControlEnabled"),
                     vsanEnabled |-> VsanOf(inv, m),
                     ruleCount |-> Cardinality(Listed(inv[m], "configuration.rule"))]
<1>1. BuildCluster(inv, m).props = Over(copied, rest) BY DEF BuildCluster, Resource
<1>2. DOMAIN copied = {"drsAutomationLevel", "evcMode"} BY DEF Copied
<1>3. "hosts" \in DOMAIN rest /\ rest["hosts"] = {Rid("host", h) : h \in Listed(inv[m], "host")} OBVIOUS
<1>. HIDE DEF copied, rest
<1>. QED BY <1>1, <1>2, <1>3 DEF Over, Prop

LEMMA ViewPlausible ==
  ASSUME PlausibleWorld, NEW inv,
         \A m \in DOMAIN inv : m \in DOMAIN Start /\ inv[m].kind = Start[m].kind /\ Viewed(m, Len(Views) + 1),
         \A m \in DOMAIN inv : Plausible(inv[m])
  PROVE  PlausibleView(Normalized(inv))
<1>. DEFINE rs == Normalized(inv)
            Hosts == {Rid("host", m) : m \in DOMAIN Start}
<1>1. ASSUME NEW r \in rs, r.type \in {"host", "datastore", "cluster"}
      PROVE  \E m \in DOMAIN inv :
               /\ r.id = Rid(r.type, m)
               /\ r.type = "host" => inv[m].kind = "HostSystem" /\ r = BuildHost(inv, m)
               /\ r.type = "datastore" => r = BuildDatastore(inv, m)
               /\ r.type = "cluster" => inv[m].kind = "ClusterComputeResource" /\ r = BuildCluster(inv, m)
  <2>1. r # VCenterResource BY <1>1 DEF VCenterResource
  <2>2. PICK m \in DOMAIN inv : r \in Built(inv, m) BY <2>1 DEF Normalized
  <2>3. r.type = TypeOf(inv[m].kind) /\ r.id = Rid(r.type, m) /\ TypeOf(inv[m].kind) # None
    BY <2>2, OneResource
  <2>4. r.type = "host" => inv[m].kind = "HostSystem" BY <2>3 DEF TypeOf
  <2>5. r.type = "datastore" => inv[m].kind = "Datastore" BY <2>3 DEF TypeOf
  <2>6. r.type = "cluster" => inv[m].kind = "ClusterComputeResource" BY <2>3 DEF TypeOf
  <2>. QED BY <2>2, <2>3, <2>4, <2>5, <2>6 DEF Built
<1>2. ASSUME NEW r \in rs PROVE PlausibleHost(r)
  <2>. SUFFICES ASSUME r.type = "host" PROVE PlausibleHost(r) BY DEF PlausibleHost
  <2>1. PICK m \in DOMAIN inv : inv[m].kind = "HostSystem" /\ r = BuildHost(inv, m) BY <1>1
  <2>2. Linked(inv[m]) BY DEF Plausible
  <2>. QED BY <2>1, <2>2, HostBuilt DEF PlausibleHost, Linked, VersionPaths, Get, Conn
<1>3. ASSUME NEW r \in rs PROVE PlausibleSize(r)
  <2>. SUFFICES ASSUME r.type = "datastore" PROVE PlausibleSize(r) BY DEF PlausibleSize
  <2>1. PICK m \in DOMAIN inv : r = BuildDatastore(inv, m) BY <1>1
  <2>2. Sized(inv[m]) BY DEF Plausible
  <2>. QED BY <2>1, <2>2, DatastoreBuilt DEF PlausibleSize, Sized, SizePaths, Get
<1>4. ASSUME NEW id PROVE Members(rs, id) \subseteq Hosts
  <2>1. ASSUME NEW c \in OfType(rs, "cluster"), Prop(c, "hosts") # None PROVE Prop(c, "hosts") \subseteq Hosts
    <3>1. PICK m \in DOMAIN inv : inv[m].kind = "ClusterComputeResource" /\ c = BuildCluster(inv, m)
      BY <1>1 DEF OfType
    <3>2. Listed(inv[m], "host") \subseteq DOMAIN Start BY <3>1 DEF Plausible, Placing
    <3>. QED BY <3>1, <3>2, ClusterBuilt
  <2>2. ASSUME NEW h \in OfType(rs, "host") PROVE h.id \in Hosts BY <1>1 DEF OfType
  <2>. DEFINE clusters == OfType(rs, "cluster")
              hosts == OfType(rs, "host")
              Told(c) == IF Prop(c, "hosts") = None THEN {} ELSE Prop(c, "hosts")
              A == UNION {Told(c) : c \in {x \in clusters : x.id = id}}
              B == {h.id : h \in {x \in hosts : HostCluster(x, clusters) = id}}
  <2>3. Members(rs, id) = A \cup B
    <3>. HIDE DEF rs, Hosts
    <3>. QED BY Zenon DEF Members
  <2>4. \A c \in clusters : Told(c) \subseteq Hosts BY <2>1
  <2>. HIDE DEF Hosts, rs, clusters, hosts, Told
  <2>5. A \subseteq Hosts BY <2>4
  <2>6. B \subseteq Hosts BY <2>2 DEF hosts
  <2>. HIDE DEF A, B
  <2>. QED BY <2>3, <2>5, <2>6
<1>. QED BY <1>2, <1>3, <1>4 DEF PlausibleView

LEMMA PlausibleSteps ==
  ASSUME PlausibleWorld, KindsKept, Collected, PlausibleInv, Next
  PROVE  PlausibleInv'
<1>1. \A m \in DOMAIN world' : Plausible(world'[m]) BY WorldPlausible DEF PlausibleInv
<1>2. \A m \in DOMAIN raw' : Plausible(raw'[m])
  <2>1. CASE \E w : WorldBecomes(w) BY <2>1 DEF WorldBecomes, PlausibleInv
  <2>2. CASE WeekPasses BY <2>2 DEF WeekPasses, PlausibleInv
  <2>3. CASE Begin \/ Stores \/ CollectionFails BY <2>3 DEF Begin, Stores, Store, CollectionFails
  <2>5. CASE Thins BY <2>5 DEF Thins, Thin, PlausibleInv
  <2>4. CASE Retrieve BY <2>4, RawPlausible DEF PlausibleInv
  <2>. QED BY <2>1, <2>2, <2>3, <2>4, <2>5, Outside
<1>3. current' # None => PlausibleView(current')
  <2>1. CASE Stores
    <3>1. current' = Normalized(raw) /\ step = Len(Views) + 1 BY <2>1 DEF Stores, Store
    <3>2. \A m \in DOMAIN raw : m \in DOMAIN Start /\ raw[m].kind = Start[m].kind /\ Viewed(m, Len(Views) + 1)
      BY <3>1 DEF Collected
    <3>. QED BY <3>1, <3>2, ViewPlausible DEF PlausibleInv
  <2>2. ASSUME current' = current PROVE current' # None => PlausibleView(current')
    BY <2>2 DEF PlausibleInv
  <2>3. CASE \E w : WorldBecomes(w) BY <2>2, <2>3 DEF WorldBecomes, results, scan
  <2>4. CASE WeekPasses \/ Begin \/ Retrieve \/ Thins \/ CollectionFails
    BY <2>2, <2>4 DEF WeekPasses, Begin, Retrieve, Thins, Thin, CollectionFails, results, scan
  <2>. QED BY <2>1, <2>3, <2>4, Outside
<1>. QED BY <1>1, <1>2, <1>3 DEF PlausibleInv

-----------------------------------------------------------------------------
(* What the diff shows *)

\* One that arrived, one that is gone, and one of which something is reported.
LEMMA WhatChanges ==
  ASSUME NEW olds, NEW news, NEW before, NEW after, ShownIn(olds, before), ShownIn(news, after)
  PROVE  /\ \A s \in news : (\A r \in olds : r.id # s.id) => Added(s) \in Changes(olds, news, "low")
         /\ \A r \in olds : (\A s \in news : s.id # r.id) => Removed(r) \in Changes(olds, news, "low")
         /\ \A r \in olds, s \in news :
              r.id = s.id => r.type = s.type /\ Modified(r, s, olds, news) \subseteq Changes(olds, news, "low")
<1>1. \A r \in olds, s \in news : r.id = s.id => r.type = s.type BY OneType
<1>2. ASSUME NEW r \in olds, NEW s \in news, r.id = s.id, NEW c \in Modified(r, s, olds, news)
      PROVE  c \in Changes(olds, news, "low")
  <2>1. r.type = s.type BY <1>1, <1>2
  <2>. HIDE DEF Modified
  <2>. QED BY <1>2, <2>1 DEF Changes, AtLeast
<1>. QED BY <1>1, <1>2 DEF Changes, AtLeast

\* The resource o is r as the scan before saw it, and nothing of it is reported.
Unreported(olds, news, o, r) ==
  /\ o \in olds /\ o.id = r.id /\ o.type = r.type
  /\ \A p \in Tracked(r.type) : ~Reported(o, r, olds, news, p)

LEMMA Unchanged ==
  ASSUME NEW olds, NEW news, NEW before, NEW after, ShownIn(olds, before), ShownIn(news, after),
         NEW r \in news, \A c \in Changes(olds, news, "low") : c.id # r.id
  PROVE  \E o : Unreported(olds, news, o, r)
<1>1. Added(r) \notin Changes(olds, news, "low") BY DEF Added
<1>2. PICK o \in olds : o.id = r.id BY <1>1, WhatChanges
<1>3. o.type = r.type /\ Modified(o, r, olds, news) \subseteq Changes(olds, news, "low") BY <1>2, WhatChanges
<1>4. \A c \in Modified(o, r, olds, news) : c.id = r.id BY DEF Modified
<1>5. Modified(o, r, olds, news) = {} BY <1>3, <1>4
<1>6. \A p \in Tracked(r.type) : ~Reported(o, r, olds, news, p) BY <1>5 DEF Modified
<1>. QED BY <1>2, <1>3, <1>6 DEF Unreported

\* The properties the checks look at that are compared as they are.
Plain(type) ==
  CASE type = "host" -> {"connectionState", "maintenanceMode"}
    [] type = "cluster" -> {"haEnabled", "drsEnabled"}
    [] type = "datastore" -> {"accessible", "capacity"}
    [] type = "vm" -> {"powerState", "template", "toolsStatus"}
    [] OTHER -> {}

LEMMA PlainKept ==
  ASSUME NEW olds, NEW news, NEW o, NEW r, Unreported(olds, news, o, r), NEW p \in Plain(r.type)
  PROVE  Prop(o, p) = Prop(r, p)
<1>1. o.type = r.type BY DEF Unreported
<1>2. /\ p \in Tracked(r.type) /\ p \notin BothSidesRequired /\ p \notin ListValued
      /\ p \notin {"name", "cluster", "hosts", "freeSpace"}
  BY DEF Plain, Tracked, Weighty, Moderate, Minor, BothSidesRequired, ListValued
<1>3. Value(o, p, olds) = Prop(o, p) /\ Value(r, p, news) = Prop(r, p) BY <1>2 DEF Value
<1>4. ~Reported(o, r, olds, news, p) BY <1>2 DEF Unreported
<1>. QED BY <1>2, <1>3, <1>4 DEF Reported, Empty

\* The version and the build of a host are not reported when one side does not know them.
LEMMA VersionKept ==
  ASSUME NEW olds, NEW news, NEW o, NEW r, Unreported(olds, news, o, r), r.type = "host",
         PlausibleHost(o), PlausibleHost(r), Prop(r, "version") # None
  PROVE  Prop(o, "version") = Prop(r, "version") /\ Prop(o, "build") = Prop(r, "build")
<1>1. o.type = "host" BY DEF Unreported
<1>2. Prop(o, "connectionState") = Prop(r, "connectionState") BY PlainKept DEF Plain
<1>3. /\ Prop(o, "version") # None /\ Prop(o, "build") # None
      /\ Prop(r, "version") # None /\ Prop(r, "build") # None
  BY <1>1, <1>2 DEF PlausibleHost
<1>4. ASSUME NEW p \in {"version", "build"} PROVE Prop(o, p) = Prop(r, p)
  <2>1. p \in Tracked(r.type) BY DEF Tracked, Moderate
  <2>2. ~Reported(o, r, olds, news, p) BY <2>1 DEF Unreported
  <2>3. Value(o, p, olds) = Prop(o, p) /\ Value(r, p, news) = Prop(r, p) BY <1>1 DEF Value
  <2>. QED BY <1>3, <2>2, <2>3 DEF Reported, Empty
<1>. QED BY <1>4

\* The hosts of a cluster are known on both sides.
LEMMA MembersKept ==
  ASSUME PlausibleWorld, NEW olds, NEW news, PlausibleView(olds), PlausibleView(news),
         NEW o, NEW r \in news, Unreported(olds, news, o, r), r.type = "cluster"
  PROVE  Members(olds, r.id) = Members(news, r.id)
<1>. DEFINE m == Members(olds, r.id)
            n == Members(news, r.id)
<1>1. o \in olds /\ o.type = "cluster" /\ o.id = r.id BY DEF Unreported
<1>2. Value(o, "hosts", olds) = m /\ Value(r, "hosts", news) = n BY <1>1 DEF Value
<1>3. "hosts" \in Tracked(r.type) BY DEF Tracked, Moderate
<1>4. ~Reported(o, r, olds, news, "hosts") BY <1>3 DEF Unreported
<1>5. m \in SUBSET {Rid("host", x) : x \in DOMAIN Start} /\ n \in SUBSET {Rid("host", x) : x \in DOMAIN Start}
  BY <1>1 DEF PlausibleView
<1>6. m # None /\ n # None BY <1>5 DEF PlausibleWorld
<1>. HIDE DEF m, n
<1>7. m = n BY <1>2, <1>4, <1>6 DEF Reported, Empty
<1>. QED BY <1>7 DEF m, n

\* What is used of a datastore is a number, or unknown.
LEMMA UsageIs ==
  ASSUME NEW r, r.type = "datastore", PlausibleSize(r), Usage(r) # None
  PROVE  /\ Usage(r) \in Nat /\ Prop(r, "capacity") # None /\ Prop(r, "freeSpace") # None
<1>. DEFINE capacity == Prop(r, "capacity")
            free == Prop(r, "freeSpace")
            used == 1000 - (1000 * free) \div capacity
<1>1. capacity # None /\ free # None /\ capacity # 0 /\ Usage(r) = IF used < 0 THEN 0 ELSE used
  BY DEF Usage
<1>2. capacity \in Nat /\ free \in Nat BY <1>1 DEF PlausibleSize
<1>. HIDE DEF capacity, free
<1>3. (1000 * free) \div capacity \in Int BY <1>1, <1>2
<1>4. used \in Int BY <1>3
<1>. HIDE DEF used
<1>. QED BY <1>1, <1>4 DEF capacity, free

LEMMA BandIs ==
  ASSUME NEW u \in Nat
  PROVE  Band(u) = IF u >= 950 THEN 2 ELSE IF u >= 850 THEN 1 ELSE 0
<1>. DEFINE S == {b \in {850, 950} : u >= b}
<1>1. Band(u) = Cardinality(S) BY DEF Band
<1>2. CASE u >= 950
  <2>. DEFINE low == 850
  <2>1. S = {low} \cup {950} /\ 950 \notin {low} BY <1>2
  <2>. HIDE DEF S, low
  <2>2. IsFiniteSet({low}) /\ Cardinality({low}) = 1 BY FS_Singleton
  <2>3. Cardinality(S) = 1 + 1 BY <2>1, <2>2, FS_AddElement
  <2>. QED BY <1>1, <1>2, <2>3
<1>3. CASE u >= 850 /\ ~(u >= 950)
  <2>1. S = {850} BY <1>3
  <2>. HIDE DEF S
  <2>2. Cardinality(S) = 1 BY <2>1, FS_Singleton, SMTT(30)
  <2>. QED BY <1>1, <1>3, <2>2
<1>4. CASE ~(u >= 850)
  <2>1. S = {} BY <1>4
  <2>. HIDE DEF S
  <2>2. Cardinality(S) = 0 BY <2>1, FS_EmptySet
  <2>. QED BY <1>1, <1>4, <2>2
<1>. QED BY <1>2, <1>3, <1>4

\* What is used of a datastore stays in its band when nothing of it is reported.
LEMMA UsageKept ==
  ASSUME NEW olds, NEW news, NEW o, NEW r, Unreported(olds, news, o, r), r.type = "datastore",
         PlausibleSize(o), PlausibleSize(r), Usage(r) # None
  PROVE  /\ Usage(o) # None
         /\ Usage(o) >= 950 <=> Usage(r) >= 950
         /\ Usage(o) >= 850 <=> Usage(r) >= 850
<1>1. o.type = "datastore" BY DEF Unreported
<1>2. Prop(o, "capacity") = Prop(r, "capacity") BY PlainKept DEF Plain
<1>3. ~Reported(o, r, olds, news, "freeSpace")
  <2>1. "freeSpace" \in Tracked(r.type) BY DEF Tracked, Moderate
  <2>. QED BY <2>1 DEF Unreported
<1>4. Usage(r) \in Nat /\ Prop(r, "freeSpace") # None BY UsageIs
<1>5. CASE Prop(o, "freeSpace") = Prop(r, "freeSpace")
  <2>1. Usage(o) = Usage(r) BY <1>2, <1>5 DEF Usage
  <2>. QED BY <2>1
<1>6. CASE Prop(o, "freeSpace") # Prop(r, "freeSpace")
  <2>1. Value(o, "freeSpace", olds) = Prop(o, "freeSpace") /\ Value(r, "freeSpace", news) = Prop(r, "freeSpace")
    BY <1>1 DEF Value
  <2>2. "freeSpace" \notin BothSidesRequired BY DEF BothSidesRequired
  <2>3. ~FreeSpaceSignificant(o, r) BY <1>3, <1>4, <1>6, <2>1, <2>2 DEF Reported, Empty, ListValued
  <2>4. Usage(o) # None BY <2>3 DEF FreeSpaceSignificant
  <2>5. Band(Usage(o)) = Band(Usage(r)) BY <2>3, <2>4 DEF FreeSpaceSignificant
  <2>6. Usage(o) \in Nat BY <1>1, <2>4, UsageIs
  <2>. QED BY <1>4, <2>4, <2>5, <2>6, BandIs
<1>. QED BY <1>5, <1>6

-----------------------------------------------------------------------------
(* What a check found before *)

\* No change is about r or a host of it.
Quiet(olds, news, r) == \A c \in Changes(olds, news, "low") : c.id \notin {r.id} \cup Members(news, r.id)

\* Two scans a check is given, and that it had found the same before.
Scans(olds, news) ==
  /\ PlausibleView(olds) /\ PlausibleView(news)
  /\ \E before : ShownIn(olds, before)
  /\ \E after : ShownIn(news, after)
Again(f, found) == \E g \in found : g[1].id = f[1].id /\ g[1].type = f[1].type /\ g[2] = f[2]
FoundAgain(olds, news, found, finds) == \A f \in finds : Quiet(olds, news, f[1]) => Again(f, found)

LEMMA Quietly ==
  ASSUME NEW olds, NEW news, Scans(olds, news), NEW r \in news, Quiet(olds, news, r)
  PROVE  \E o : Unreported(olds, news, o, r)
BY Unchanged DEF Scans, Quiet

LEMMA EachAgain ==
  ASSUME NEW olds, NEW news, NEW S, NEW T, NEW severity,
         \A r \in T : Quiet(olds, news, r) => \E o \in S : o.id = r.id /\ o.type = r.type
  PROVE  FoundAgain(olds, news, Each(S, severity), Each(T, severity))
<1>. SUFFICES ASSUME NEW f \in Each(T, severity), Quiet(olds, news, f[1]) PROVE Again(f, Each(S, severity))
  BY DEF FoundAgain
<1>1. PICK r \in T : f = <<r, severity>> BY DEF Each
<1>2. f[1] = r /\ f[2] = severity BY <1>1
<1>3. PICK o \in S : o.id = r.id /\ o.type = r.type BY <1>2
<1>4. <<o, severity>> \in Each(S, severity) /\ <<o, severity>>[1] = o /\ <<o, severity>>[2] = severity
  BY DEF Each
<1>. QED BY <1>2, <1>3, <1>4 DEF Again

LEMMA HostChecksAgain ==
  ASSUME NEW olds, NEW news, Scans(olds, news)
  PROVE  /\ FoundAgain(olds, news, HostDisconnected(olds).found, HostDisconnected(news).found)
         /\ FoundAgain(olds, news, HostNotResponding(olds).found, HostNotResponding(news).found)
         /\ FoundAgain(olds, news, HostMaintenanceMode(olds).found, HostMaintenanceMode(news).found)
<1>1. ASSUME NEW r \in news, r.type = "host", Quiet(olds, news, r)
      PROVE  \E o \in olds : /\ o.id = r.id /\ o.type = "host"
                             /\ Prop(o, "connectionState") = Prop(r, "connectionState")
                             /\ Prop(o, "maintenanceMode") = Prop(r, "maintenanceMode")
  <2>1. PICK o : Unreported(olds, news, o, r) BY <1>1, Quietly
  <2>2. /\ Prop(o, "connectionState") = Prop(r, "connectionState")
        /\ Prop(o, "maintenanceMode") = Prop(r, "maintenanceMode")
    BY <1>1, <2>1, PlainKept DEF Plain
  <2>. QED BY <1>1, <2>1, <2>2 DEF Unreported
<1>2. ASSUME NEW state
      PROVE  FoundAgain(olds, news, Each(HavingState(olds, state), "critical"), Each(HavingState(news, state), "critical"))
  <2>1. \A r \in HavingState(news, state) :
          Quiet(olds, news, r) => \E o \in HavingState(olds, state) : o.id = r.id /\ o.type = r.type
    BY <1>1 DEF HavingState, OfType
  <2>. QED BY <2>1, EachAgain
<1>3. FoundAgain(olds, news, HostMaintenanceMode(olds).found, HostMaintenanceMode(news).found)
  <2>. DEFINE In(rs) == {h \in {h \in OfType(rs, "host") : Prop(h, "maintenanceMode") # None} :
                           Prop(h, "maintenanceMode") = TRUE}
              S == In(olds)
              T == In(news)
  <2>1. HostMaintenanceMode(olds).found = Each(S, "warning") /\ HostMaintenanceMode(news).found = Each(T, "warning")
    BY DEF HostMaintenanceMode, Verdict
  <2>2. \A r \in T : Quiet(olds, news, r) => \E o \in S : o.id = r.id /\ o.type = r.type BY <1>1 DEF OfType
  <2>. HIDE DEF S, T
  <2>. QED BY <2>1, <2>2, EachAgain
<1>4. \A rs : /\ HostDisconnected(rs).found = Each(HavingState(rs, "disconnected"), "critical")
              /\ HostNotResponding(rs).found = Each(HavingState(rs, "notResponding"), "critical")
  BY DEF HostDisconnected, HostNotResponding, Verdict
<1>. QED BY <1>2, <1>3, <1>4

LEMMA ClusterChecksAgain ==
  ASSUME PlausibleWorld, NEW olds, NEW news, Scans(olds, news)
  PROVE  /\ FoundAgain(olds, news, HostCountLow(olds).found, HostCountLow(news).found)
         /\ FoundAgain(olds, news, ClusterHaDisabled(olds).found, ClusterHaDisabled(news).found)
         /\ FoundAgain(olds, news, ClusterDrsDisabled(olds).found, ClusterDrsDisabled(news).found)
<1>1. ASSUME NEW r \in news, r.type = "cluster", Quiet(olds, news, r)
      PROVE  \E o \in olds : /\ o.id = r.id /\ o.type = "cluster"
                             /\ Prop(o, "haEnabled") = Prop(r, "haEnabled")
                             /\ Prop(o, "drsEnabled") = Prop(r, "drsEnabled")
                             /\ Members(olds, o.id) = Members(news, r.id)
  <2>1. PICK o : Unreported(olds, news, o, r) BY <1>1, Quietly
  <2>2. Prop(o, "haEnabled") = Prop(r, "haEnabled") /\ Prop(o, "drsEnabled") = Prop(r, "drsEnabled")
    BY <1>1, <2>1, PlainKept DEF Plain
  <2>3. Members(olds, r.id) = Members(news, r.id) BY <1>1, <2>1, MembersKept DEF Scans
  <2>. QED BY <1>1, <2>1, <2>2, <2>3 DEF Unreported
<1>2. FoundAgain(olds, news, HostCountLow(olds).found, HostCountLow(news).found)
  <2>. DEFINE In(rs) == {c \in OfType(rs, "cluster") : Cardinality(Members(rs, c.id)) < MinHosts}
              S == In(olds)
              T == In(news)
  <2>1. HostCountLow(olds).found = Each(S, "warning") /\ HostCountLow(news).found = Each(T, "warning")
    BY DEF HostCountLow, Verdict
  <2>2. \A r \in T : Quiet(olds, news, r) => \E o \in S : o.id = r.id /\ o.type = r.type BY <1>1 DEF OfType
  <2>. HIDE DEF S, T
  <2>. QED BY <2>1, <2>2, EachAgain
<1>3. FoundAgain(olds, news, ClusterHaDisabled(olds).found, ClusterHaDisabled(news).found)
  <2>. DEFINE In(rs) == {c \in {c \in OfType(rs, "cluster") : Prop(c, "haEnabled") # None} : Prop(c, "haEnabled") = FALSE}
              S == In(olds)
              T == In(news)
  <2>1. ClusterHaDisabled(olds).found = Each(S, "warning") /\ ClusterHaDisabled(news).found = Each(T, "warning")
    BY DEF ClusterHaDisabled, Verdict
  <2>2. \A r \in T : Quiet(olds, news, r) => \E o \in S : o.id = r.id /\ o.type = r.type BY <1>1 DEF OfType
  <2>. HIDE DEF S, T
  <2>. QED BY <2>1, <2>2, EachAgain
<1>4. FoundAgain(olds, news, ClusterDrsDisabled(olds).found, ClusterDrsDisabled(news).found)
  <2>. DEFINE In(rs) == {c \in {c \in OfType(rs, "cluster") : Prop(c, "drsEnabled") # None} : Prop(c, "drsEnabled") = FALSE}
              S == In(olds)
              T == In(news)
  <2>1. ClusterDrsDisabled(olds).found = Each(S, "info") /\ ClusterDrsDisabled(news).found = Each(T, "info")
    BY DEF ClusterDrsDisabled, Verdict
  <2>2. \A r \in T : Quiet(olds, news, r) => \E o \in S : o.id = r.id /\ o.type = r.type BY <1>1 DEF OfType
  <2>. HIDE DEF S, T
  <2>. QED BY <2>1, <2>2, EachAgain
<1>. QED BY <1>2, <1>3, <1>4

LEMMA DatastoreChecksAgain ==
  ASSUME NEW olds, NEW news, Scans(olds, news)
  PROVE  /\ FoundAgain(olds, news, DatastoreInaccessible(olds).found, DatastoreInaccessible(news).found)
         /\ FoundAgain(olds, news, DatastoreHighUsage(olds).found, DatastoreHighUsage(news).found)
<1>1. ASSUME NEW r \in news, r.type = "datastore", Quiet(olds, news, r)
      PROVE  \E o \in olds : /\ o.id = r.id /\ o.type = "datastore"
                             /\ Prop(o, "accessible") = Prop(r, "accessible")
                             /\ Usage(r) # None => /\ Usage(o) # None
                                                   /\ Usage(o) >= 950 <=> Usage(r) >= 950
                                                   /\ Usage(o) >= 850 <=> Usage(r) >= 850
  <2>1. PICK o : Unreported(olds, news, o, r) BY <1>1, Quietly
  <2>2. Prop(o, "accessible") = Prop(r, "accessible") BY <1>1, <2>1, PlainKept DEF Plain
  <2>3. o \in olds /\ PlausibleSize(o) /\ PlausibleSize(r) BY <2>1 DEF Unreported, Scans, PlausibleView
  <2>4. Usage(r) # None => /\ Usage(o) # None
                           /\ Usage(o) >= 950 <=> Usage(r) >= 950
                           /\ Usage(o) >= 850 <=> Usage(r) >= 850
    BY <1>1, <2>1, <2>3, UsageKept
  <2>5. o.id = r.id /\ o.type = r.type BY <2>1 DEF Unreported
  <2>. QED BY <1>1, <2>2, <2>3, <2>4, <2>5
<1>2. FoundAgain(olds, news, DatastoreInaccessible(olds).found, DatastoreInaccessible(news).found)
  <2>. DEFINE In(rs) == {d \in OfType(rs, "datastore") : Prop(d, "accessible") = FALSE}
              S == In(olds)
              T == In(news)
  <2>1. DatastoreInaccessible(olds).found = Each(S, "critical") /\ DatastoreInaccessible(news).found = Each(T, "critical")
    BY DEF DatastoreInaccessible, Verdict
  <2>2. \A r \in T : Quiet(olds, news, r) => \E o \in S : o.id = r.id /\ o.type = r.type BY <1>1 DEF OfType
  <2>. HIDE DEF S, T
  <2>. QED BY <2>1, <2>2, EachAgain
<1>3. FoundAgain(olds, news, DatastoreHighUsage(olds).found, DatastoreHighUsage(news).found)
  <2>. DEFINE Known(rs) == {d \in OfType(rs, "datastore") : Usage(d) # None}
              Full(rs) == {d \in Known(rs) : Usage(d) >= 950}
              Near(rs) == {d \in Known(rs) \ Full(rs) : Usage(d) >= 850}
  <2>1. \A rs : DatastoreHighUsage(rs).found = Each(Near(rs), "warning") \cup Each(Full(rs), "critical")
    BY DEF DatastoreHighUsage, Verdict
  <2>2. \A r \in Full(news) : Quiet(olds, news, r) => \E o \in Full(olds) : o.id = r.id /\ o.type = r.type
    BY <1>1 DEF OfType
  <2>3. \A r \in Near(news) : Quiet(olds, news, r) => \E o \in Near(olds) : o.id = r.id /\ o.type = r.type
    BY <1>1 DEF OfType
  <2>. DEFINE nearS == Near(olds)
              nearT == Near(news)
              fullS == Full(olds)
              fullT == Full(news)
  <2>4. /\ DatastoreHighUsage(olds).found = Each(nearS, "warning") \cup Each(fullS, "critical")
        /\ DatastoreHighUsage(news).found = Each(nearT, "warning") \cup Each(fullT, "critical")
    BY <2>1
  <2>5. /\ \A r \in nearT : Quiet(olds, news, r) => \E o \in nearS : o.id = r.id /\ o.type = r.type
        /\ \A r \in fullT : Quiet(olds, news, r) => \E o \in fullS : o.id = r.id /\ o.type = r.type
    BY <2>2, <2>3
  <2>. HIDE DEF nearS, nearT, fullS, fullT
  <2>6. /\ FoundAgain(olds, news, Each(nearS, "warning"), Each(nearT, "warning"))
        /\ FoundAgain(olds, news, Each(fullS, "critical"), Each(fullT, "critical"))
    BY <2>5, EachAgain
  <2>. QED BY <2>4, <2>6 DEF FoundAgain, Again
<1>. QED BY <1>2, <1>3

LEMMA MachineChecksAgain ==
  ASSUME NEW olds, NEW news, Scans(olds, news)
  PROVE  /\ FoundAgain(olds, news, VmPoweredOff(olds).found, VmPoweredOff(news).found)
         /\ FoundAgain(olds, news, VmToolsNotRunning(olds).found, VmToolsNotRunning(news).found)
<1>1. ASSUME NEW r \in news, r.type = "vm", Quiet(olds, news, r)
      PROVE  \E o \in olds : /\ o.id = r.id /\ o.type = "vm"
                             /\ Prop(o, "powerState") = Prop(r, "powerState")
                             /\ Prop(o, "template") = Prop(r, "template")
                             /\ Prop(o, "toolsStatus") = Prop(r, "toolsStatus")
  <2>1. PICK o : Unreported(olds, news, o, r) BY <1>1, Quietly
  <2>2. /\ Prop(o, "powerState") = Prop(r, "powerState")
        /\ Prop(o, "template") = Prop(r, "template")
        /\ Prop(o, "toolsStatus") = Prop(r, "toolsStatus")
    BY <1>1, <2>1, PlainKept DEF Plain
  <2>. QED BY <1>1, <2>1, <2>2 DEF Unreported
<1>2. FoundAgain(olds, news, VmPoweredOff(olds).found, VmPoweredOff(news).found)
  <2>. DEFINE In(rs) == {v \in Machines(rs) : Prop(v, "powerState") = "poweredOff"}
              S == In(olds)
              T == In(news)
  <2>1. VmPoweredOff(olds).found = Each(S, "info") /\ VmPoweredOff(news).found = Each(T, "info")
    BY DEF VmPoweredOff, Verdict
  <2>2. \A r \in T : Quiet(olds, news, r) => \E o \in S : o.id = r.id /\ o.type = r.type
    BY <1>1 DEF OfType, Machines, IsTemplate
  <2>. HIDE DEF S, T
  <2>. QED BY <2>1, <2>2, EachAgain
<1>3. FoundAgain(olds, news, VmToolsNotRunning(olds).found, VmToolsNotRunning(news).found)
  <2>. DEFINE In(rs) == {v \in {v \in Machines(rs) : Prop(v, "powerState") = "poweredOn" /\ Prop(v, "toolsStatus") # None} :
                           Prop(v, "toolsStatus") \in {"toolsNotRunning", "toolsNotInstalled"}}
              S == In(olds)
              T == In(news)
  <2>1. VmToolsNotRunning(olds).found = Each(S, "info") /\ VmToolsNotRunning(news).found = Each(T, "info")
    BY DEF VmToolsNotRunning, Verdict
  <2>2. \A r \in T : Quiet(olds, news, r) => \E o \in S : o.id = r.id /\ o.type = r.type
    BY <1>1 DEF OfType, Machines, IsTemplate
  <2>. HIDE DEF S, T
  <2>. QED BY <2>1, <2>2, EachAgain
<1>. QED BY <1>2, <1>3

\* The versions the hosts of a cluster report.
ReportingOf(rs, c) == {h \in OfType(rs, "host") : h.id \in Members(rs, c.id) /\ Prop(h, "version") # None}
BuildsOf(rs, c) == {<<Prop(h, "version"), Prop(h, "build")>> : h \in ReportingOf(rs, c)}

LEMMA VersionsAgain ==
  ASSUME PlausibleWorld, NEW olds, NEW news, Scans(olds, news)
  PROVE  FoundAgain(olds, news, HostVersionMismatch(olds).found, HostVersionMismatch(news).found)
<1>1. ASSUME NEW c \in news, c.type = "cluster", Quiet(olds, news, c), Cardinality(BuildsOf(news, c)) >= 2
      PROVE  \E o \in olds : o.id = c.id /\ o.type = "cluster" /\ Cardinality(BuildsOf(olds, o)) >= 2
  <2>1. PICK o : Unreported(olds, news, o, c) BY <1>1, Quietly
  <2>2. o \in olds /\ o.id = c.id /\ o.type = "cluster" BY <1>1, <2>1 DEF Unreported
  <2>3. Members(olds, o.id) = Members(news, c.id) BY <1>1, <2>1, <2>2, MembersKept DEF Scans
  <2>4. ASSUME NEW h \in ReportingOf(news, c)
        PROVE  <<Prop(h, "version"), Prop(h, "build")>> \in BuildsOf(olds, o)
    <3>1. h \in news /\ h.type = "host" /\ h.id \in Members(news, c.id) /\ Prop(h, "version") # None
      BY DEF ReportingOf, OfType
    <3>2. \A x \in Changes(olds, news, "low") : x.id # h.id BY <1>1, <3>1 DEF Quiet
    <3>3. PICK g : Unreported(olds, news, g, h) BY <3>1, <3>2, Unchanged DEF Scans
    <3>4. g \in olds /\ g.id = h.id /\ g.type = "host" BY <3>1, <3>3 DEF Unreported
    <3>5. PlausibleHost(g) /\ PlausibleHost(h) BY <3>1, <3>4 DEF Scans, PlausibleView
    <3>6. Prop(g, "version") = Prop(h, "version") /\ Prop(g, "build") = Prop(h, "build")
      BY <3>1, <3>3, <3>5, VersionKept
    <3>7. g \in ReportingOf(olds, o) BY <2>3, <3>1, <3>4, <3>6 DEF ReportingOf, OfType
    <3>. QED BY <3>6, <3>7 DEF BuildsOf
  <2>5. BuildsOf(news, c) \subseteq BuildsOf(olds, o) BY <2>4 DEF BuildsOf
  <2>6. IsFiniteSet(BuildsOf(olds, o))
    <3>. DEFINE R == ReportingOf(olds, o)
                B == BuildsOf(olds, o)
                f == [h \in R |-> <<Prop(h, "version"), Prop(h, "build")>>]
    <3>1. IsFiniteSet(olds) /\ R \subseteq olds BY DEF Scans, ShownIn, ReportingOf, OfType
    <3>2. f \in [R -> B] /\ \A t \in B : \E h \in R : f[h] = t BY DEF BuildsOf
    <3>. HIDE DEF R, B, f
    <3>3. IsFiniteSet(R) BY <3>1, Parts
    <3>4. IsFiniteSet(B) BY <3>2, <3>3, Reached
    <3>. QED BY <3>4 DEF B
  <2>7. /\ Cardinality(BuildsOf(news, c)) <= Cardinality(BuildsOf(olds, o))
        /\ Cardinality(BuildsOf(news, c)) \in Nat /\ Cardinality(BuildsOf(olds, o)) \in Nat
    BY <2>5, <2>6, Parts
  <2>. QED BY <1>1, <2>2, <2>7
<1>. DEFINE In(rs) == {c \in OfType(rs, "cluster") : Cardinality(BuildsOf(rs, c)) >= 2}
            S == In(olds)
            T == In(news)
<1>2. HostVersionMismatch(olds).found = Each(S, "warning") /\ HostVersionMismatch(news).found = Each(T, "warning")
  BY DEF HostVersionMismatch, Verdict, BuildsOf, ReportingOf
<1>3. \A r \in T : Quiet(olds, news, r) => \E o \in S : o.id = r.id /\ o.type = r.type BY <1>1 DEF OfType
<1>. HIDE DEF S, T
<1>. QED BY <1>2, <1>3, EachAgain

\* What is compared with the scan before is always a change.
LEMMA ComparisonsChange ==
  ASSUME PlausibleWorld, NEW olds, olds # None, NEW news, Scans(olds, news),
         NEW f \in ClusterHostCountChange(news, olds).found \cup NetworkRemoved(news, olds).found
                     \cup ResourceRemoved(news, olds).found
  PROVE  ~Quiet(olds, news, f[1])
<1>1. CASE f \in ClusterHostCountChange(news, olds).found
  <2>1. PICK r \in OfType(news, "cluster") :
          f[1] = r /\ Cardinality(Members(news, r.id)) # Cardinality(Members(olds, r.id))
    BY <1>1 DEF ClusterHostCountChange, Verdict, Each
  <2>2. r \in news /\ r.type = "cluster" BY <2>1 DEF OfType
  <2>3. SUFFICES ASSUME Quiet(olds, news, r) PROVE FALSE BY <2>1
  <2>4. PICK o : Unreported(olds, news, o, r) BY <2>2, <2>3, Quietly
  <2>5. Members(olds, r.id) = Members(news, r.id) BY <2>2, <2>4, MembersKept DEF Scans
  <2>. QED BY <2>1, <2>5
<1>2. CASE f \in NetworkRemoved(news, olds).found \cup ResourceRemoved(news, olds).found
  <2>1. f[1] \in Gone(news, olds)
    BY <1>2 DEF NetworkRemoved, ResourceRemoved, Verdict, Each, OfType
  <2>2. f[1] \in olds /\ \A s \in news : s.id # f[1].id BY <2>1 DEF Gone, Before
  <2>3. Removed(f[1]) \in Changes(olds, news, "low") BY <2>2, WhatChanges DEF Scans
  <2>4. Removed(f[1]).id = f[1].id BY DEF Removed
  <2>. QED BY <2>3, <2>4 DEF Quiet
<1>. QED BY <1>1, <1>2

-----------------------------------------------------------------------------
(* New findings *)

LEMMA FoundBefore ==
  ASSUME PlausibleWorld, NEW olds, olds # None, NEW news, Scans(olds, news), NEW p, NEW d, NEW e,
         NEW c \in DOMAIN Verdicts(news, olds, d), c \notin Silent,
         NEW f \in Verdicts(news, olds, d)[c].found, Quiet(olds, news, f[1])
  PROVE  c \in DOMAIN Verdicts(olds, p, e) /\ Again(f, Verdicts(olds, p, e)[c].found)
<1>. DEFINE now == Verdicts(news, olds, d)
            then == Verdicts(olds, p, e)
<1>1. /\ c \in DOMAIN then
      /\ c \in {"HOST_DISCONNECTED", "HOST_NOT_RESPONDING", "HOST_MAINTENANCE_MODE", "HOST_VERSION_MISMATCH",
                "CLUSTER_HOST_COUNT_CHANGE", "HOST_COUNT_LOW", "CLUSTER_HA_DISABLED", "CLUSTER_DRS_DISABLED",
                "DATASTORE_HIGH_USAGE", "DATASTORE_INACCESSIBLE", "VM_POWERED_OFF", "VM_TOOLS_NOT_RUNNING",
                "NETWORK_REMOVED", "RESOURCE_REMOVED"}
  BY DEF Verdicts, Silent
<1>2. CASE c \in {"HOST_DISCONNECTED", "HOST_NOT_RESPONDING", "HOST_MAINTENANCE_MODE"}
  <2>1. FoundAgain(olds, news, then[c].found, now[c].found) BY <1>2, HostChecksAgain DEF Verdicts
  <2>. QED BY <1>1, <2>1 DEF FoundAgain
<1>3. CASE c = "HOST_VERSION_MISMATCH"
  <2>1. FoundAgain(olds, news, then[c].found, now[c].found) BY <1>3, VersionsAgain DEF Verdicts
  <2>. QED BY <1>1, <2>1 DEF FoundAgain
<1>4. CASE c \in {"HOST_COUNT_LOW", "CLUSTER_HA_DISABLED", "CLUSTER_DRS_DISABLED"}
  <2>1. FoundAgain(olds, news, then[c].found, now[c].found) BY <1>4, ClusterChecksAgain DEF Verdicts
  <2>. QED BY <1>1, <2>1 DEF FoundAgain
<1>5. CASE c \in {"DATASTORE_HIGH_USAGE", "DATASTORE_INACCESSIBLE"}
  <2>1. FoundAgain(olds, news, then[c].found, now[c].found) BY <1>5, DatastoreChecksAgain DEF Verdicts
  <2>. QED BY <1>1, <2>1 DEF FoundAgain
<1>6. CASE c \in {"VM_POWERED_OFF", "VM_TOOLS_NOT_RUNNING"}
  <2>1. FoundAgain(olds, news, then[c].found, now[c].found) BY <1>6, MachineChecksAgain DEF Verdicts
  <2>. QED BY <1>1, <2>1 DEF FoundAgain
<1>7. CASE c \in {"CLUSTER_HOST_COUNT_CHANGE", "NETWORK_REMOVED", "RESOURCE_REMOVED"}
  <2>1. now[c].found \subseteq ClusterHostCountChange(news, olds).found \cup NetworkRemoved(news, olds).found
                                 \cup ResourceRemoved(news, olds).found
    BY <1>7 DEF Verdicts
  <2>. QED BY <2>1, ComparisonsChange
<1>. QED BY <1>1, <1>2, <1>3, <1>4, <1>5, <1>6, <1>7

\* A snapshot is not None.
SnapshotsAreSome == \A inv : Normalized(inv) # None

\* The findings are those of the last snapshot, of the checks that did not raise.
FindingsCurrent ==
  /\ current = None => findings = None
  /\ current # None => \E p, d : findings = RunAll(Verdicts(current, p, d), raised)

\* A new finding is explained until another scan replaces it.
Explained ==
  current # None /\ earlier # None =>
    \A f \in NewFindings : \E c \in changes : c.id \in Neighbourhood(f) \cup Members(current, f.resource)

ExplainedInv == InventoryInv /\ PlausibleInv /\ FindingsCurrent /\ Explained

LEMMA ExplainedStore ==
  ASSUME PlausibleWorld, SnapshotsAreSome, InventoryInv, PlausibleInv, PlausibleInv', FindingsCurrent, Stores
  PROVE  FindingsCurrent' /\ Explained'
<1>. DEFINE rs == Normalized(raw)
            now == Verdicts(rs, current, day)
<1>1. /\ current' = rs /\ findings' = RunAll(now, raised') /\ earlier' = findings /\ missed' = raised
      /\ changes' = IF current = None THEN {} ELSE Changes(current, rs, "low")
  BY DEF Stores, Store
<1>2. FindingsCurrent'
  <2>1. current' # None BY <1>1 DEF SnapshotsAreSome
  <2>2. \E p, d : findings' = RunAll(Verdicts(current', p, d), raised') BY <1>1
  <2>. QED BY <2>1, <2>2 DEF FindingsCurrent
<1>3. SUFFICES ASSUME earlier' # None, NEW f \in NewFindings'
               PROVE  \E c \in changes' : c.id \in Neighbourhood(f)' \cup Members(current', f.resource)
  BY <1>2 DEF Explained
<1>4. current # None /\ findings # None BY <1>1, <1>3 DEF FindingsCurrent
<1>5. PICK p, e : findings = RunAll(Verdicts(current, p, e), raised) BY <1>4 DEF FindingsCurrent
<1>6. f \in RunAll(now, raised') /\ f \notin findings /\ f.check \notin Silent \cup raised
  BY <1>1, <1>3 DEF NewFindings
<1>7a. PICK c \in DOMAIN now :
         \E g \in now[c].found : f = [check |-> c, resource |-> g[1].id, type |-> g[1].type, severity |-> g[2]]
  BY <1>6 DEF RunAll
<1>7. PICK g \in now[c].found : f = [check |-> c, resource |-> g[1].id, type |-> g[1].type, severity |-> g[2]]
  BY <1>7a
<1>8. f.check = c /\ f.resource = g[1].id BY <1>7
<1>. HIDE DEF now
<1>9. Scans(current, rs)
  <2>1. ShownIn(current, Stayed) BY <1>4 DEF InventoryInv, SnapshotShown
  <2>2. ShownIn(rs, steady) BY <1>1, Stored DEF InventoryInv
  <2>3. PlausibleView(current) BY <1>4 DEF PlausibleInv
  <2>4. PlausibleView(rs) BY <1>1 DEF PlausibleInv, SnapshotsAreSome
  <2>. QED BY <2>1, <2>2, <2>3, <2>4 DEF Scans
<1>10. ~Quiet(current, rs, g[1])
  <2>1. SUFFICES ASSUME Quiet(current, rs, g[1]) PROVE FALSE OBVIOUS
  <2>. DEFINE then == Verdicts(current, p, e)
  <2>2. c \in DOMAIN then /\ Again(g, then[c].found)
    BY <1>4, <1>6, <1>8, <1>9, <2>1, FoundBefore DEF now
  <2>3. PICK h \in then[c].found : h[1].id = g[1].id /\ h[1].type = g[1].type /\ h[2] = g[2]
    BY <2>2 DEF Again
  <2>4. [check |-> c, resource |-> h[1].id, type |-> h[1].type, severity |-> h[2]] \in RunAll(then, raised)
    BY <1>6, <1>8, <2>2, <2>3 DEF RunAll
  <2>5. f = [check |-> c, resource |-> h[1].id, type |-> h[1].type, severity |-> h[2]] BY <1>7, <2>3
  <2>. QED BY <1>5, <1>6, <2>4, <2>5
<1>11. PICK x \in Changes(current, rs, "low") : x.id \in {f.resource} \cup Members(rs, f.resource)
  BY <1>8, <1>10 DEF Quiet
<1>12. x \in changes' BY <1>1, <1>4, <1>11
<1>13. f.resource \in Neighbourhood(f)' BY DEF Neighbourhood
<1>. QED BY <1>1, <1>11, <1>12, <1>13

LEMMA ExplainedSteps ==
  ASSUME PlausibleWorld, SnapshotsAreSome, ExplainedInv, [Next]_vars
  PROVE  ExplainedInv'
<1>1. InventoryInv' BY InventorySteps DEF ExplainedInv
<1>2. ASSUME UNCHANGED scan PROVE FindingsCurrent' /\ Explained'
  <2>1. UNCHANGED <<current, changes, earlier, findings, missed, raised>> BY <1>2 DEF scan
  <2>. QED BY <2>1 DEF ExplainedInv, FindingsCurrent, Explained, NewFindings, Neighbourhood
<1>3. CASE Next
  <2>1. PlausibleInv' BY <1>3, PlausibleSteps DEF ExplainedInv, InventoryInv
  <2>2. CASE Stores BY <1>1, <2>1, <2>2, ExplainedStore DEF ExplainedInv
  <2>3. CASE \E w : WorldBecomes(w) BY <1>1, <1>2, <2>1, <2>3 DEF WorldBecomes, results, ExplainedInv
  <2>4. CASE WeekPasses \/ Begin \/ Retrieve \/ Thins \/ CollectionFails
    BY <1>1, <1>2, <2>1, <2>4 DEF WeekPasses, Begin, Retrieve, Thins, Thin, CollectionFails, results, ExplainedInv
  <2>. QED BY <1>3, <2>2, <2>3, <2>4, Outside
<1>4. CASE UNCHANGED vars
  <2>1. UNCHANGED scan /\ world' = world /\ raw' = raw /\ current' = current
    BY <1>4 DEF vars, vcenter, results, scan
  <2>2. PlausibleInv' BY <2>1 DEF ExplainedInv, PlausibleInv
  <2>. QED BY <1>1, <1>2, <2>1, <2>2 DEF ExplainedInv
<1>. QED BY <1>3, <1>4

LEMMA ExplainedStart ==
  ASSUME PlausibleWorld, Init
  PROVE  ExplainedInv
<1>1. PlausibleInv BY DEF Init, PlausibleInv, PlausibleWorld
<1>2. FindingsCurrent /\ Explained BY DEF Init, FindingsCurrent, Explained
<1>. QED BY <1>1, <1>2, InventoryStart DEF ExplainedInv

\* In a vCenter whose hosts have a version as long as they are connected, whose sizes are
\* numbers and whose clusters name known hosts: whatever a scan finds that the scan before
\* did not (diagnostics/checks/*.py, registry.py), the diff of the two (diff/engine.py) has
\* a change of the object, of its neighbourhood or of a host of the cluster.
THEOREM NewFindingsAreExplained ==
  ASSUME PlausibleWorld, SnapshotsAreSome
  PROVE  Spec => []FindingsExplained
<1>1. Init => ExplainedInv BY ExplainedStart
<1>2. ExplainedInv /\ [Next]_vars => ExplainedInv' BY ExplainedSteps
<1>3. ExplainedInv => FindingsExplained BY DEF ExplainedInv, Explained, FindingsExplained, Between
<1>. QED BY <1>1, <1>2, <1>3, PTL DEF Spec

-----------------------------------------------------------------------------
(* What the log says *)

\* A snapshot has one resource of an id.
OneEach(rs) ==
  /\ \A r, s \in rs : r.id = s.id => r = s
  /\ \A r \in rs : "props" \in DOMAIN r

LEMMA SnapshotsOneEach ==
  ASSUME NEW inv, \A m \in DOMAIN inv : m \in DOMAIN Start
  PROVE  OneEach(Normalized(inv))
<1>1. ASSUME NEW m
      PROVE  \A r, s \in Built(inv, m) : r = s
  BY DEF Built
<1>2. ASSUME NEW m, NEW r \in Built(inv, m)
      PROVE  r.type \in Types /\ r.type # "vcenter" /\ r.id = Rid(r.type, m)
  <2>1. r.type = TypeOf(inv[m].kind) /\ r.id = Rid(r.type, m) /\ TypeOf(inv[m].kind) # None
    BY <1>2, OneResource
  <2>. QED BY <2>1 DEF TypeOf, Types
<1>3. ASSUME NEW r \in Normalized(inv)
      PROVE  r = VCenterResource \/ \E m \in DOMAIN inv : r \in Built(inv, m)
  BY DEF Normalized
<1>4. VCenterResource.id = Rid("vcenter", "vc") BY DEF VCenterResource, VCenter
<1>5. ASSUME NEW m \in DOMAIN inv, NEW r \in Built(inv, m) PROVE r.id # VCenterResource.id
  <2>1. m \in DOMAIN Start \cup {"vc"} /\ "vcenter" \in Types BY DEF Types
  <2>. QED BY <1>2, <1>4, <2>1, InventoryAssumption
<1>6. ASSUME NEW m \in DOMAIN inv, NEW n \in DOMAIN inv, NEW r \in Built(inv, m), NEW s \in Built(inv, n), r.id = s.id
      PROVE  r = s
  <2>1. m \in DOMAIN Start /\ n \in DOMAIN Start OBVIOUS
  <2>2. m = n BY <1>2, <1>6, <2>1, InventoryAssumption
  <2>. QED BY <1>1, <2>2
<1>7. ASSUME NEW r \in Normalized(inv), NEW s \in Normalized(inv), r.id = s.id PROVE r = s
  <2>1. CASE r = VCenterResource \/ s = VCenterResource BY <1>3, <1>5, <1>7, <2>1
  <2>2. CASE r # VCenterResource /\ s # VCenterResource BY <1>3, <1>6, <1>7, <2>2
  <2>. QED BY <2>1, <2>2
<1>8. ASSUME NEW r \in Normalized(inv) PROVE "props" \in DOMAIN r
  <2>1. "props" \in DOMAIN VCenterResource BY DEF VCenterResource
  <2>2. ASSUME NEW m, NEW x \in Built(inv, m) PROVE "props" \in DOMAIN x
    BY <2>2 DEF Built, BuildDatacenter, BuildCluster, BuildHost, BuildVm, BuildDatastore, BuildNetwork, Resource
  <2>. QED BY <1>3, <2>1, <2>2
<1>. QED BY <1>7, <1>8 DEF OneEach

\* What a scan did not see of a resource, by itself.
Blind(r) ==
  {p \in BothSidesRequired \cap DOMAIN r.props : r.props[p] = None}
  \cup {p \in {"freeSpace"} : r.type = "datastore" /\ Usage(r) = None}

\* What the diff wants of both sides, the builders put into every resource but the vCenter.
Whole(r) ==
  IF r.type = "vcenter" THEN r = VCenterResource
  ELSE Tracked(r.type) \cap BothSidesRequired \subseteq DOMAIN r.props

LEMMA SnapshotsWhole ==
  ASSUME NEW inv, NEW r \in Normalized(inv)
  PROVE  Whole(r)
<1>1. CASE r = VCenterResource BY <1>1 DEF Whole, VCenterResource
<1>2. CASE \E m \in DOMAIN inv : r \in Built(inv, m)
  <2>1. PICK m \in DOMAIN inv : r \in Built(inv, m) BY <1>2
  <2>2. CASE r = BuildDatacenter(inv, m)
    <3>1. r.type = "datacenter" BY <2>2 DEF BuildDatacenter, Resource
    <3>. QED BY <3>1 DEF Whole, Tracked, Weighty, Moderate, Minor, BothSidesRequired
  <2>3. CASE r = BuildCluster(inv, m)
    <3>1. r.type = "cluster" BY <2>3 DEF BuildCluster, Resource
    <3>2. {"vsanEnabled", "hosts"} \subseteq DOMAIN r.props BY <2>3 DEF BuildCluster, Resource, Over
    <3>. QED BY <3>1, <3>2 DEF Whole, Tracked, Weighty, Moderate, Minor, BothSidesRequired
  <2>4. CASE r = BuildHost(inv, m)
    <3>1. r.type = "host" BY <2>4 DEF BuildHost, Resource
    <3>2. {"bootTime", "version", "build", "lockdownMode"} \subseteq DOMAIN r.props
      BY <2>4 DEF BuildHost, Resource, Over, Copied
    <3>3. {"vmkernelAdapters", "physicalNics", "standardSwitches", "ntpServers", "dnsServers"} \subseteq DOMAIN r.props
      BY <2>4 DEF BuildHost, Resource, Over
    <3>. QED BY <3>1, <3>2, <3>3 DEF Whole, Tracked, Weighty, Moderate, Minor, BothSidesRequired
  <2>5. CASE r = BuildVm(inv, m)
    <3>1. r.type = "vm" BY <2>5 DEF BuildVm, Resource
    <3>2. "bootTime" \in DOMAIN r.props BY <2>5 DEF BuildVm, Resource, Over, Copied
    <3>3. {"disks", "nics", "snapshotCount"} \subseteq DOMAIN r.props BY <2>5 DEF BuildVm, Resource, Over
    <3>. QED BY <3>1, <3>2, <3>3 DEF Whole, Tracked, Weighty, Moderate, Minor, BothSidesRequired
  <2>6. CASE r = BuildDatastore(inv, m)
    <3>1. r.type = "datastore" BY <2>6 DEF BuildDatastore, Resource
    <3>2. "hosts" \in DOMAIN r.props BY <2>6 DEF BuildDatastore, Resource, Over
    <3>. QED BY <3>1, <3>2 DEF Whole, Tracked, Weighty, Moderate, Minor, BothSidesRequired
  <2>7. CASE r = BuildNetwork(inv, m)
    <3>1. r.type = "network" BY <2>7 DEF BuildNetwork, Resource
    <3>2. "hosts" \in DOMAIN r.props BY <2>7 DEF BuildNetwork, Resource
    <3>. QED BY <3>1, <3>2 DEF Whole, Tracked, Weighty, Moderate, Minor, BothSidesRequired
  <2>. QED BY <2>1, <2>2, <2>3, <2>4, <2>5, <2>6, <2>7 DEF Built
<1>. QED BY <1>1, <1>2 DEF Normalized

\* What it wants and does not get is not seen.
LEMMA UnknownIsBlind ==
  ASSUME PlausibleWorld, NEW rs, PlausibleView(rs), NEW r \in rs, Whole(r), r.type # "vcenter",
         NEW p \in Tracked(r.type) \cap BothSidesRequired, Value(r, p, rs) = None
  PROVE  p \in Blind(r)
<1>1. p \in DOMAIN r.props BY DEF Whole
<1>2. p # "name" /\ p # "cluster" BY DEF BothSidesRequired
<1>3. CASE r.type = "cluster" /\ p = "hosts"
  <2>1. Value(r, p, rs) = Members(rs, r.id) BY <1>3 DEF Value
  <2>2. Members(rs, r.id) \in SUBSET {Rid("host", m) : m \in DOMAIN Start} BY DEF PlausibleView
  <2>. QED BY <2>1, <2>2 DEF PlausibleWorld
<1>4. CASE ~(r.type = "cluster" /\ p = "hosts")
  <2>1. Value(r, p, rs) = Prop(r, p) BY <1>2, <1>4 DEF Value
  <2>2. Prop(r, p) = r.props[p] BY <1>1 DEF Prop
  <2>. QED BY <1>1, <2>1, <2>2 DEF Blind
<1>. QED BY <1>3, <1>4

\* The usage of a datastore if the free space were what the log says.
Told(r, t) == [r EXCEPT !.props = Put("freeSpace", t, r.props)]

LEMMA UsageTold ==
  ASSUME NEW o, NEW r, "props" \in DOMAIN o, "props" \in DOMAIN r, Prop(o, "capacity") = Prop(r, "capacity"), NEW t
  PROVE  /\ Usage(Told(o, t)) = Usage(Told(r, t))
         /\ t = Prop(o, "freeSpace") => Usage(Told(o, t)) = Usage(o)
<1>1. ASSUME NEW x, "props" \in DOMAIN x
      PROVE  Prop(Told(x, t), "capacity") = Prop(x, "capacity") /\ Prop(Told(x, t), "freeSpace") = t
  <2>1. Told(x, t).props = Put("freeSpace", t, x.props) BY <1>1 DEF Told
  <2>. QED BY <2>1 DEF Prop, Put
<1>2. /\ Prop(Told(o, t), "capacity") = Prop(r, "capacity") /\ Prop(Told(o, t), "freeSpace") = t
      /\ Prop(Told(r, t), "capacity") = Prop(r, "capacity") /\ Prop(Told(r, t), "freeSpace") = t
  BY <1>1
<1>. HIDE DEF Told, Prop
<1>. QED BY <1>2 DEF Usage

\* What is not reported was minor, and stays so, wherever both scans have seen it.
LEMMA StaysMinor ==
  ASSUME PlausibleWorld, NEW olds, NEW news, PlausibleView(olds), PlausibleView(news),
         NEW o \in olds, NEW r \in news, o.id = r.id, o.type = r.type, Whole(o), Whole(r),
         "props" \in DOMAIN o, "props" \in DOMAIN r,
         NEW p \in Tracked(r.type), ~Reported(o, r, olds, news, p), p \notin Blind(o), p \notin Blind(r),
         r.type = "datastore" /\ p = "freeSpace" => Prop(o, "capacity") = Prop(r, "capacity"),
         NEW t, t # Value(r, p, news),
         \/ t = Value(o, p, olds)
         \/ Empty(p, t) /\ Empty(p, Value(o, p, olds))
         \/ o.type = "datastore" /\ p = "freeSpace" /\ Band(Usage(Told(o, t))) = Band(Usage(o))
  PROVE  \/ Empty(p, t) /\ Empty(p, Value(r, p, news))
         \/ r.type = "datastore" /\ p = "freeSpace" /\ Band(Usage(Told(r, t))) = Band(Usage(r))
<1>. DEFINE v == Value(o, p, olds)
            n == Value(r, p, news)
<1>1. CASE r.type = "datastore" /\ p = "freeSpace"
  <2>1. v = Prop(o, "freeSpace") /\ n = Prop(r, "freeSpace") BY <1>1 DEF Value
  <2>2. Usage(o) # None /\ Usage(r) # None BY <1>1 DEF Blind
  <2>3. v # None /\ n # None BY <2>1, <2>2 DEF Usage
  <2>4. ~Empty(p, v) BY <1>1, <2>3 DEF Empty, ListValued
  <2>5. Band(Usage(o)) = Band(Usage(r))
    <3>1. CASE v = n
      <4>1. Usage(o) = Usage(r) BY <1>1, <2>1, <3>1 DEF Usage
      <4>. QED BY <4>1
    <3>2. CASE v # n
      <4>1. p \notin BothSidesRequired BY <1>1 DEF BothSidesRequired
      <4>2. ~FreeSpaceSignificant(o, r) BY <1>1, <2>4, <3>2, <4>1 DEF Reported
      <4>. QED BY <2>2, <4>2 DEF FreeSpaceSignificant
    <3>. QED BY <3>1, <3>2
  <2>6. /\ Usage(Told(o, t)) = Usage(Told(r, t))
        /\ t = v => Usage(Told(o, t)) = Usage(o)
    BY <1>1, <2>1, UsageTold
  <2>. HIDE DEF v, n
  <2>7. t = v \/ Band(Usage(Told(o, t))) = Band(Usage(o)) BY <2>4 DEF v
  <2>. QED BY <1>1, <2>5, <2>6, <2>7
<1>2. CASE ~(r.type = "datastore" /\ p = "freeSpace")
  <2>1. \/ v = n
        \/ Empty(p, v) /\ Empty(p, n)
        \/ p \in BothSidesRequired /\ (v = None \/ n = None)
    BY <1>2 DEF Reported
  <2>2. CASE r.type = "vcenter"
    <3>1. o = VCenterResource /\ r = VCenterResource BY <2>2 DEF Whole
    <3>2. v = n BY <3>1 DEF Value, VCenterResource
    <3>. QED BY <1>2, <3>2
  <2>3. CASE r.type # "vcenter"
    <3>1. ~(p \in BothSidesRequired /\ (v = None \/ n = None)) BY <2>3, UnknownIsBlind
    <3>. HIDE DEF v, n
    <3>2. v = n \/ (Empty(p, v) /\ Empty(p, n)) BY <2>1, <3>1
    <3>. QED BY <1>2, <3>2 DEF v, n
  <2>. QED BY <2>2, <2>3
<1>. QED BY <1>1, <1>2

\* What the log says of a property after the changes cs, and of which resources it knew.
Telling(r, p, cs) == {c \in cs : c.id = r.id /\ c.change = "modified" /\ p \in DOMAIN c.values}
Left(r, p) == {u \in unsaid : u[1] = r.id /\ u[2] = p}
Says(r, p, cs) ==
  IF Telling(r, p, cs) # {} THEN (CHOOSE c \in Telling(r, p, cs) : TRUE).values[p]
  ELSE IF Left(r, p) # {} THEN (CHOOSE u \in Left(r, p) : TRUE)[3]
  ELSE Value(CHOOSE x \in current : x.id = r.id, p, current)
KnownAs(r, cs) == \A c \in cs : c.id = r.id => c.change = "modified"

LEMMA UnsaidIs ==
  ASSUME NEW rs, NEW cs, NEW u \in Unsaid(rs, cs)
  PROVE  \E r \in rs : \E p \in Tracked(r.type) :
           KnownAs(r, cs) /\ u = <<r.id, p, Says(r, p, cs)>> /\ Says(r, p, cs) # Value(r, p, rs)
BY DEF Unsaid, KnownAs, Says, Telling, Left

\* A change tells the new value; without one, the log says what it said.
LEMMA SaysWhat ==
  ASSUME NEW rs, NEW before, NEW after, ShownIn(current, before), ShownIn(rs, after), OneEach(current), OneEach(rs),
         NEW r \in rs, KnownAs(r, Changes(current, rs, "low")), NEW p \in Tracked(r.type),
         Says(r, p, Changes(current, rs, "low")) # Value(r, p, rs)
  PROVE  \E o \in current :
           /\ o.id = r.id /\ o.type = r.type /\ ~Reported(o, r, current, rs, p)
           /\ \/ Says(r, p, Changes(current, rs, "low")) = Value(o, p, current)
              \/ \E u \in unsaid : u[1] = o.id /\ u[2] = p /\ u[3] = Says(r, p, Changes(current, rs, "low"))
<1>. DEFINE cs == Changes(current, rs, "low")
            t == Says(r, p, cs)
<1>1. PICK o \in current : o.id = r.id
  <2>1. Added(r).id = r.id /\ Added(r).change # "modified" BY DEF Added
  <2>2. Added(r) \notin cs BY <2>1 DEF KnownAs
  <2>. QED BY <2>2, WhatChanges
<1>2. o.type = r.type /\ Modified(o, r, current, rs) \subseteq cs BY <1>1, WhatChanges
<1>3. ASSUME NEW c \in Telling(r, p, cs) PROVE c.values[p] = Value(r, p, rs)
  <2>1. c \in cs /\ c.id = r.id /\ c.change = "modified" /\ p \in DOMAIN c.values BY DEF Telling
  <2>2. \E x \in current, s \in rs : x.id = s.id /\ c \in Modified(x, s, current, rs)
    <3>1. \/ \E s \in rs : c = Added(s)
          \/ \E x \in current : c = Removed(x)
          \/ \E x \in current, s \in rs : x.id = s.id /\ c \in Modified(x, s, current, rs)
      <4>. HIDE DEF t
      <4>. QED BY <2>1 DEF Changes
    <3>. QED BY <2>1, <3>1 DEF Added, Removed
  <2>3. PICK x \in current, s \in rs : x.id = s.id /\ c \in Modified(x, s, current, rs) BY <2>2
  <2>4. c.id = s.id BY <2>3 DEF Modified
  <2>5. s = r BY <2>1, <2>4 DEF OneEach
  <2>. QED BY <2>1, <2>3, <2>5 DEF Modified
<1>4. Telling(r, p, cs) = {}
  <2>1. SUFFICES ASSUME Telling(r, p, cs) # {} PROVE FALSE OBVIOUS
  <2>2. t = (CHOOSE c \in Telling(r, p, cs) : TRUE).values[p] BY <2>1 DEF Says
  <2>3. (CHOOSE c \in Telling(r, p, cs) : TRUE) \in Telling(r, p, cs) BY <2>1
  <2>. HIDE DEF t, cs
  <2>4. t = Value(r, p, rs) BY <1>3, <2>2, <2>3
  <2>. QED BY <2>4 DEF t, cs
<1>5. ~Reported(o, r, current, rs, p)
  <2>1. SUFFICES ASSUME Reported(o, r, current, rs, p) PROVE FALSE OBVIOUS
  <2>2. PICK c \in Modified(o, r, current, rs) : c.id = r.id /\ c.change = "modified" /\ p \in DOMAIN c.values
    BY <2>1 DEF Modified
  <2>3. c \in Telling(r, p, cs) BY <1>2, <2>2 DEF Telling
  <2>. QED BY <1>4, <2>3
<1>6. CASE Left(r, p) # {}
  <2>1. t = (CHOOSE u \in Left(r, p) : TRUE)[3] BY <1>4, <1>6 DEF Says
  <2>2. (CHOOSE u \in Left(r, p) : TRUE) \in Left(r, p) BY <1>6
  <2>3. PICK u \in Left(r, p) : t = u[3] BY <2>1, <2>2
  <2>. QED BY <1>1, <1>2, <1>5, <2>3 DEF Left
<1>7. CASE Left(r, p) = {}
  <2>1. t = Value(CHOOSE x \in current : x.id = r.id, p, current) BY <1>4, <1>7 DEF Says
  <2>2. (CHOOSE x \in current : x.id = r.id) \in current /\ (CHOOSE x \in current : x.id = r.id).id = r.id BY <1>1
  <2>3. (CHOOSE x \in current : x.id = r.id) = o BY <1>1, <2>2 DEF OneEach
  <2>. QED BY <1>1, <1>2, <1>5, <2>1, <2>3
<1>. QED BY <1>6, <1>7

\* What the last scan did not see is among the gaps.
BlindSpots == current # None => \A r \in current : \A p \in Blind(r) : <<r.id, p>> \in gaps

SnapshotSound == current # None => OneEach(current) /\ \A r \in current : Whole(r)

\* What the log says is minor until another scan.
TellsAll == current # None => \A u \in unsaid : \A r \in current : r.id = u[1] => Minorly(r, u[2], u[3])

LogInv == InventoryInv /\ PlausibleInv /\ SnapshotSound /\ BlindSpots /\ TellsAll

LEMMA LogStore ==
  ASSUME PlausibleWorld, SnapshotsAreSome, LogInv, PlausibleInv', Stores
  PROVE  SnapshotSound' /\ BlindSpots' /\ TellsAll'
<1>. DEFINE rs == Normalized(raw)
            cs == Changes(current, rs, "low")
            left == IF current = None THEN {} ELSE Unsaid(rs, cs)
            open == {g \in gaps : \E u \in left : g = <<u[1], u[2]>>}
                      \cup (UNION {{<<r.id, p>> : p \in Unseen(r)} : r \in rs})
<1>1. /\ current' = rs /\ unsaid' = left /\ rs # None
  <2>1. unsaid' = IF current = None THEN {} ELSE Unsaid(rs, IF current = None THEN {} ELSE cs)
    BY DEF Stores, Store
  <2>. QED BY <2>1 DEF Stores, Store, SnapshotsAreSome
<1>2. gaps' = open
  <2>. HIDE DEF rs, left
  <2>. QED BY <1>1 DEF Stores, Store, rs
<1>3. SnapshotSound'
  <2>1. \A m \in DOMAIN raw : m \in DOMAIN Start BY DEF LogInv, InventoryInv, Collected
  <2>2. OneEach(rs) /\ \A r \in rs : Whole(r) BY <2>1, SnapshotsOneEach, SnapshotsWhole
  <2>. QED BY <1>1, <2>2 DEF SnapshotSound
<1>4. \A r \in rs : \A p \in Unseen(r) : <<r.id, p>> \in open OBVIOUS
<1>5. \A r : Blind(r) \subseteq Unseen(r) BY DEF Blind, Unseen
<1>6. BlindSpots' BY <1>1, <1>2, <1>4, <1>5 DEF BlindSpots
<1>7. ASSUME NEW u \in left, NEW r \in rs, r.id = u[1] PROVE Minorly(r, u[2], u[3])'
  <2>. DEFINE t == u[3]
              q == u[2]
  <2>1. current # None /\ u \in Unsaid(rs, cs) BY <1>7
  <2>2. PICK x \in rs : \E p \in Tracked(x.type) :
          KnownAs(x, cs) /\ u = <<x.id, p, Says(x, p, cs)>> /\ Says(x, p, cs) # Value(x, p, rs)
    BY <2>1, UnsaidIs
  <2>3. OneEach(rs) /\ OneEach(current) /\ \A s \in current \cup rs : Whole(s)
    BY <1>1, <1>3, <2>1 DEF SnapshotSound, LogInv
  <2>4. x = r BY <1>7, <2>2, <2>3 DEF OneEach
  <2>5. /\ q \in Tracked(r.type) /\ KnownAs(r, cs) /\ t = Says(r, q, cs) /\ t # Value(r, q, rs)
    BY <2>2, <2>4
  <2>6. /\ ShownIn(current, Stayed) /\ ShownIn(rs, steady)
    BY <1>1, <2>1, Stored DEF LogInv, InventoryInv, SnapshotShown
  <2>7. PICK o \in current :
          /\ o.id = r.id /\ o.type = r.type /\ ~Reported(o, r, current, rs, q)
          /\ t = Value(o, q, current) \/ \E w \in unsaid : w[1] = o.id /\ w[2] = q /\ w[3] = t
    BY <2>3, <2>5, <2>6, SaysWhat
  <2>8. PlausibleView(current) /\ PlausibleView(rs) BY <1>1, <2>1 DEF LogInv, PlausibleInv
  <2>9. CASE <<r.id, q>> \in open
    <3>1. <<r.id, q>> \in gaps' BY <1>2, <2>9
    <3>. QED BY <3>1 DEF Minorly
  <2>10. CASE <<r.id, q>> \notin open
    <3>1. q \notin Unseen(r) BY <1>4, <2>10
    <3>2. <<r.id, q>> \notin gaps BY <1>7, <2>10
    <3>3. q \notin Blind(o) BY <2>1, <2>7, <3>2 DEF LogInv, BlindSpots
    <3>4. q \notin Blind(r) BY <1>5, <3>1
    <3>5. r.type = "datastore" /\ q = "freeSpace" => Prop(o, "capacity") = Prop(r, "capacity")
      BY <2>1, <2>7, <3>1 DEF Unseen, Before
    <3>6. \/ t = Value(o, q, current)
          \/ Empty(q, t) /\ Empty(q, Value(o, q, current))
          \/ o.type = "datastore" /\ q = "freeSpace" /\ Band(Usage(Told(o, t))) = Band(Usage(o))
      <4>1. CASE t = Value(o, q, current) BY <4>1
      <4>2. CASE \E w \in unsaid : w[1] = o.id /\ w[2] = q /\ w[3] = t
        <5>1. Minorly(o, q, t) BY <2>1, <4>2 DEF LogInv, TellsAll
        <5>. QED BY <2>7, <3>2, <5>1 DEF Minorly, Told
      <4>. QED BY <2>7, <4>1, <4>2
    <3>7. \/ Empty(q, t) /\ Empty(q, Value(r, q, rs))
          \/ r.type = "datastore" /\ q = "freeSpace" /\ Band(Usage(Told(r, t))) = Band(Usage(r))
      <4>1. /\ "props" \in DOMAIN o /\ "props" \in DOMAIN r /\ Whole(o) /\ Whole(r) BY <2>3 DEF OneEach
      <4>. HIDE DEF rs, cs, left, open, t, q
      <4>. QED BY <2>5, <2>7, <2>8, <3>3, <3>4, <3>5, <3>6, <4>1, StaysMinor
    <3>. QED BY <1>1, <3>7 DEF Minorly, Told
  <2>. QED BY <2>9, <2>10
<1>8. TellsAll' BY <1>1, <1>7 DEF TellsAll
<1>. QED BY <1>3, <1>6, <1>8

LEMMA LogSteps ==
  ASSUME PlausibleWorld, SnapshotsAreSome, LogInv, [Next]_vars
  PROVE  LogInv'
<1>1. InventoryInv' BY InventorySteps DEF LogInv
<1>2. ASSUME UNCHANGED scan PROVE SnapshotSound' /\ BlindSpots' /\ TellsAll'
  <2>1. UNCHANGED <<current, unsaid, gaps>> BY <1>2 DEF scan
  <2>. QED BY <2>1 DEF LogInv, SnapshotSound, BlindSpots, TellsAll, Minorly
<1>3. CASE Next
  <2>1. PlausibleInv' BY <1>3, PlausibleSteps DEF LogInv, InventoryInv
  <2>2. CASE Stores BY <1>1, <2>1, <2>2, LogStore DEF LogInv
  <2>3. CASE \E w : WorldBecomes(w) BY <1>1, <1>2, <2>1, <2>3 DEF WorldBecomes, results, LogInv
  <2>4. CASE WeekPasses \/ Begin \/ Retrieve \/ Thins \/ CollectionFails
    BY <1>1, <1>2, <2>1, <2>4 DEF WeekPasses, Begin, Retrieve, Thins, Thin, CollectionFails, results, LogInv
  <2>. QED BY <1>3, <2>2, <2>3, <2>4, Outside
<1>4. CASE UNCHANGED vars
  <2>1. UNCHANGED scan /\ world' = world /\ raw' = raw /\ current' = current
    BY <1>4 DEF vars, vcenter, results, scan
  <2>2. PlausibleInv' BY <2>1 DEF LogInv, PlausibleInv
  <2>. QED BY <1>1, <1>2, <2>1, <2>2 DEF LogInv
<1>. QED BY <1>3, <1>4

\* The log can be followed: whoever knew a resource when it was first seen and takes over
\* the values of every change (diff/engine.py: diff_resources) knows what the last snapshot
\* has, but for what a scan did not see or the diff holds to be the same.
THEOREM LogCanBeFollowed ==
  ASSUME PlausibleWorld, SnapshotsAreSome
  PROVE  Spec => []LogTellsAll
<1>1. Init => LogInv
  <2>. SUFFICES ASSUME Init PROVE LogInv OBVIOUS
  <2>1. PlausibleInv BY DEF Init, PlausibleInv, PlausibleWorld
  <2>2. SnapshotSound /\ BlindSpots /\ TellsAll BY DEF Init, SnapshotSound, BlindSpots, TellsAll
  <2>. QED BY <2>1, <2>2, InventoryStart DEF LogInv
<1>2. LogInv /\ [Next]_vars => LogInv' BY LogSteps
<1>3. LogInv => LogTellsAll BY DEF LogInv, TellsAll, LogTellsAll, Between
<1>. QED BY <1>1, <1>2, <1>3, PTL DEF Spec

=============================================================================
