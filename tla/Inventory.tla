------------------------------ MODULE Inventory ------------------------------
(***************************************************************************)
(* Repeated scans of one vCenter, from the property collector to the score *)
(* (backend/app/collectors/vsphere/client.py, normalize.py,                *)
(* backend/app/diff, backend/app/diagnostics, scheduler.py,                *)
(* backend/app/api/router.py).                                             *)
(*                                                                         *)
(* A collection reads one view after the other and vCenter goes on between *)
(* two reads, so a scan need not show any one state of it.  An object may  *)
(* be seen through two views; what they return is merged.                  *)
(*                                                                         *)
(* A scan stores its findings.  The score is worked out when it is asked   *)
(* for, from them and from what the checks judge in the two newest         *)
(* snapshots there still are.                                              *)
(***************************************************************************)
EXTENDS Checks

CONSTANTS
  Start,      \* the inventory at first: reference -> [kind, props]
  Edits,      \* single values an operator may set: [object, path, value]
  Restless,   \* objects that may be removed, and come back
  Loose,      \* hosts that may lose their connection
  Views,      \* the views of PROPERTY_SPECS that find something, in its order
  Raising,    \* the sets of checks that may raise together
  MaxOlder,   \* bound: older snapshots looked at; the score reads one of them
  MaxEvents   \* bound: changes in vCenter, weeks, whatever raises, snapshots removed

\* A reference names one object, whatever its type.
Types == {"vcenter", "datacenter", "cluster", "host", "vm", "datastore", "network"}

ASSUME InventoryAssumption ==
  /\ IsFiniteSet(DOMAIN Start) /\ \A m \in DOMAIN Start : DOMAIN Start[m] = {"kind", "props"}
  /\ Restless \cup Loose \subseteq DOMAIN Start
  /\ \A m, n \in DOMAIN Start \cup {"vc"}, s, t \in Types : Rid(s, m) = Rid(t, n) => s = t /\ m = n
  /\ None \notin Types /\ Len(Views) \in Nat

\* Nothing need raise, and the score has a snapshot before to read.
ASSUME ScoreAssumption == {} \in Raising /\ MaxOlder \in Nat \ {0}

VARIABLES
  world, day, events,          \* vCenter
  step, raw,                   \* a collection: the next view, what was merged
  current,                     \* the resources of the last snapshot
  older,                       \* the snapshots before, the newest first
  changes,                     \* of the last scan
  earlier, findings,           \* of the last two scans
  missed, raised,              \* history: the checks that raised in them
  compared,                    \* history: the snapshot the last one was compared with is still there
  unsaid, gaps,                \* history: where the log says otherwise; what a scan did not see
  alive, steady                \* history: objects alive since the last, the last but one collection began

vcenter == <<world, day, events>>
scan == <<current, changes, earlier, findings, missed, raised, unsaid, gaps>>
results == <<scan, older, compared>>
vars == <<vcenter, step, raw, results, alive, steady>>

\* PROPERTY_SPECS: the kinds each view returns, and the paths it asks for.
Kinds(view) ==
  CASE view = "ComputeResource" -> {"ComputeResource", "ClusterComputeResource"}
    [] view = "Network" -> {"Network", "DistributedVirtualPortgroup", "OpaqueNetwork"}
    [] OTHER -> {view}

Specs(view) ==
  CASE view \in {"Datacenter", "Folder", "ResourcePool"} -> {"name", "parent"}
    [] view = "DistributedVirtualSwitch" -> {"name"}
    [] view = "ComputeResource" -> {"name", "parent", "host"}
    [] view = "ClusterComputeResource" ->
         {"name", "parent", "host", "configuration.drsConfig.enabled",
          "configuration.drsConfig.defaultVmBehavior", "configuration.dasConfig.enabled",
          "configuration.dasConfig.admissionControlEnabled", "configuration.rule",
          "summary.currentEVCModeKey"}
    [] view = "HostSystem" ->
         {"name", "parent", "runtime.connectionState", "runtime.powerState",
          "runtime.inMaintenanceMode", "runtime.bootTime", "summary.hardware.numCpuCores",
          "summary.hardware.memorySize", "summary.config.product.version",
          "summary.config.product.build", "hardware.systemInfo.model", "datastore"} \cup ConfigPaths
    [] view = "VirtualMachine" ->
         {"name", "parent", "resourcePool", "runtime.powerState", "runtime.connectionState",
          "runtime.host", "runtime.bootTime", "summary.config.numCpu",
          "summary.config.memorySizeMB", "summary.config.template", "guest.ipAddress",
          "guest.toolsStatus", "config.version", "config.annotation",
          "config.cpuAllocation.reservation", "config.memoryAllocation.reservation",
          "config.hardware.device", "snapshot.rootSnapshotList", "network", "datastore"}
    [] view = "Datastore" ->
         {"name", "summary.capacity", "summary.freeSpace", "summary.accessible",
          "summary.multipleHostAccess", "summary.maintenanceMode", "host"}
    [] view = "Network" -> {"name", "host"}
    [] view = "DistributedVirtualPortgroup" ->
         {"key", "config.numPorts", "config.distributedVirtualSwitch", "config.defaultPortConfig"}
    [] OTHER -> {}

Only(f, S) == [x \in DOMAIN f \cap S |-> f[x]]
Without(f, S) == Only(f, DOMAIN f \ S)

Init ==
  /\ world = Start /\ day = 0 /\ events = 0
  /\ step = 0 /\ raw = <<>>
  /\ current = None
  /\ older = <<>> /\ compared = TRUE
  /\ changes = {}
  /\ earlier = None /\ findings = None
  /\ missed = {} /\ raised = {}
  /\ unsaid = {} /\ gaps = {}
  /\ alive = {} /\ steady = {}

-----------------------------------------------------------------------------
(* vCenter *)

Happens == events < MaxEvents /\ events' = events + 1

WorldBecomes(w) ==
  /\ Happens
  /\ w # world
  /\ world' = w
  /\ alive' = alive \cap DOMAIN w
  /\ steady' = steady \cap DOMAIN w
  /\ UNCHANGED <<day, step, raw, results>>

SetValue(e) ==
  /\ e.object \in DOMAIN world /\ e.path \in DOMAIN world[e.object].props
  /\ WorldBecomes([world EXCEPT ![e.object].props =
                     IF e.value = None THEN Without(@, {e.path}) ELSE Put(e.path, e.value, @)])

\* A host that is not connected has no configuration and no version.
Disconnect(h, state) ==
  /\ h \in DOMAIN world
  /\ WorldBecomes([world EXCEPT ![h].props =
       Put("runtime.connectionState", state,
           Without(@, ConfigPaths \cup {"summary.config.product.version", "summary.config.product.build"}))])

Reconnect(h) ==
  /\ h \in DOMAIN world
  /\ Get(world[h], "runtime.connectionState") # "connected"
  /\ WorldBecomes([world EXCEPT ![h].props = Over(Start[h].props, @)])

\* The clusters name their hosts, and a host names its cluster.
Placed(w, h, cluster) ==
  [m \in DOMAIN w |->
     IF m = h THEN [w[m] EXCEPT !.props = Put("parent", cluster, @)]
     ELSE IF w[m].kind # "ClusterComputeResource" THEN w[m]
     ELSE [w[m] EXCEPT !.props =
             Put("host", IF m = cluster THEN Listed(w[m], "host") \cup {h} ELSE Listed(w[m], "host") \ {h}, @)]]

Move(h, cluster) ==
  /\ {h, cluster} \subseteq DOMAIN world
  /\ world[h].kind = "HostSystem" /\ world[cluster].kind = "ClusterComputeResource"
  /\ WorldBecomes(Placed(world, h, cluster))

Remove(m) ==
  /\ m \in Restless \cap DOMAIN world
  /\ WorldBecomes(IF world[m].kind = "HostSystem" THEN Without(Placed(world, m, None), {m})
                  ELSE Without(world, {m}))

\* It comes back as it was at first.
Return(m) ==
  /\ m \in Restless \ DOMAIN world
  /\ LET w == [x \in DOMAIN world \cup {m} |-> IF x = m THEN Start[m] ELSE world[x]]
     IN WorldBecomes(IF w[m].kind = "HostSystem" THEN Placed(w, m, Get(Start[m], "parent")) ELSE w)

WeekPasses ==
  /\ Happens
  /\ day' = day + SnapshotMaxAge + 1
  /\ UNCHANGED <<world, step, raw, results, alive, steady>>

-----------------------------------------------------------------------------
(* A scan *)

Begin ==
  /\ step = 0
  /\ step' = 1 /\ raw' = <<>>
  /\ steady' = alive
  /\ alive' = DOMAIN world
  /\ UNCHANGED <<vcenter, results>>

\* inventory: an object seen before keeps its paths, the new ones win.
Merged(seen) ==
  [m \in DOMAIN raw \cup DOMAIN seen |->
     IF m \notin DOMAIN raw THEN seen[m]
     ELSE IF m \notin DOMAIN seen THEN raw[m]
     ELSE [kind |-> seen[m].kind, props |-> Over(seen[m].props, raw[m].props)]]

Retrieve ==
  /\ step \in 1..Len(Views)
  /\ LET view == Views[step]
         returned == {m \in DOMAIN world : world[m].kind \in Kinds(view)}
         seen == [m \in returned |-> [kind |-> world[m].kind, props |-> Only(world[m].props, Specs(view))]]
     IN raw' = Merged(seen)
  /\ step' = step + 1
  /\ UNCHANGED <<vcenter, results, alive, steady>>

\* The properties of which the log says something else than the resources rs, <<id,
\* property, what it says>>: it knows an arrived resource as it was then, and otherwise
\* follows the values of the changes cs.
Unsaid(rs, cs) ==
  LET Said(r, p) ==
        LET of == {c \in cs : c.id = r.id /\ c.change = "modified" /\ p \in DOMAIN c.values}
            left == {u \in unsaid : u[1] = r.id /\ u[2] = p}
        IN IF of # {} THEN (CHOOSE c \in of : TRUE).values[p]
           ELSE IF left # {} THEN (CHOOSE u \in left : TRUE)[3]
           ELSE Value(CHOOSE x \in current : x.id = r.id, p, current)
      Known(r) == \A c \in cs : c.id = r.id => c.change = "modified"
  IN UNION {{<<r.id, p, Said(r, p)>> : p \in {q \in Tracked(r.type) : Said(r, q) # Value(r, q, rs)}}
              : r \in {x \in rs : Known(x)}}

\* What a scan did not see, or saw change under the free space: the diff takes it for
\* unknown, a free space without a capacity for no usage, and it does not say the free
\* space again when the capacity changes and the usage does not.
Unseen(r) ==
  {p \in BothSidesRequired \cap DOMAIN r.props : r.props[p] = None}
  \cup {p \in {"freeSpace"} :
          /\ r.type = "datastore"
          /\ \/ Usage(r) = None
             \/ \E o \in Before(current) : o.id = r.id /\ Prop(o, "capacity") # Prop(r, "capacity")}

\* Diff, snapshot and findings of a complete collection; some checks may raise.
Store(raising) ==
  /\ step = Len(Views) + 1
  /\ IF raising = {} THEN UNCHANGED events ELSE Happens
  /\ LET rs == Normalized(raw)
         cs == IF current = None THEN {} ELSE Changes(current, rs, "low")
     IN /\ current' = rs
        /\ changes' = cs
        /\ findings' = RunAll(Verdicts(rs, current, day), raising)
        /\ unsaid' = IF current = None THEN {} ELSE Unsaid(rs, cs)
        /\ gaps' = {g \in gaps : \E u \in unsaid' : g = <<u[1], u[2]>>}
                   \cup (UNION {{<<r.id, p>> : p \in Unseen(r)} : r \in rs})
  /\ earlier' = findings
  /\ raised' = raising /\ missed' = raised
  /\ older' = IF current = None THEN <<>>
              ELSE <<current>> \o SubSeq(older, 1, IF Len(older) < MaxOlder THEN Len(older) ELSE MaxOlder - 1)
  /\ compared' = TRUE
  /\ step' = 0 /\ raw' = <<>>
  /\ UNCHANGED <<world, day, alive, steady>>

\* Retention thins an older snapshot, or somebody deletes it.
Thin(i) ==
  /\ i \in DOMAIN older
  /\ Happens
  /\ older' = SubSeq(older, 1, i - 1) \o SubSeq(older, i + 1, Len(older))
  /\ compared' = (compared /\ i # 1)
  /\ UNCHANGED <<world, day, step, raw, scan, alive, steady>>

\* Any call to vCenter may raise: the scan ends without a snapshot.
CollectionFails ==
  /\ step # 0
  /\ Happens
  /\ step' = 0 /\ raw' = <<>>
  /\ alive' = steady /\ steady' = {}
  /\ UNCHANGED <<world, day, results>>

Next ==
  \/ \E e \in Edits : SetValue(e)
  \/ \E h \in Loose : Disconnect(h, "disconnected") \/ Disconnect(h, "notResponding") \/ Reconnect(h)
  \/ \E h \in Loose, c \in DOMAIN world : Move(h, c)
  \/ \E m \in Restless : Remove(m) \/ Return(m)
  \/ WeekPasses
  \/ Begin \/ Retrieve \/ CollectionFails
  \/ \E raising \in Raising : Store(raising)
  \/ \E i \in 1..MaxOlder : Thin(i)

Spec == Init /\ [][Next]_vars

-----------------------------------------------------------------------------
(* The score, whenever it is asked for *)

\* _health_inputs: the checks look again, at the two newest snapshots there are, and
\* may raise; the findings are those of the newest.
Second == IF older = <<>> THEN None ELSE older[1]
Judged(raising) == Coverage(Verdicts(current, Second, day), raising)

-----------------------------------------------------------------------------
(* What the results promise, looked at between scans *)

Between == step = 0 /\ current # None

\* "Every scan computes diff(previous, current) and writes the rows": whoever follows
\* the log from the first sight of an object knows every property the current snapshot
\* has, unless a scan has failed to see it since the log said it right; of the free space,
\* the band of the usage.
Minorly(r, p, told) ==
  \/ Empty(p, told) /\ Empty(p, Value(r, p, current))
  \/ <<r.id, p>> \in gaps
  \/ /\ r.type = "datastore" /\ p = "freeSpace"
     /\ Band(Usage([r EXCEPT !.props = Put("freeSpace", told, @)])) = Band(Usage(r))

LogTellsAll ==
  Between => \A u \in unsaid : \A r \in current : r.id = u[1] => Minorly(r, u[2], u[3])

\* neighbourhood(): the object of a finding, its parent, its children, its relations.
Neighbourhood(f) ==
  {f.resource}
  \cup (UNION {{r.parent} \cup {l.target : l \in r.rels} : r \in {x \in current : x.id = f.resource}})
  \cup {r.id : r \in {x \in current : x.parent = f.resource /\ \E y \in current : y.id = f.resource}}

\* Findings whose cause the diff does not look at: a machine's connection state is not
\* compared, a list that was unknown is not a change, and a snapshot ages by itself.
Silent == {"VM_ORPHANED_OR_INACCESSIBLE", "HOST_NTP_NOT_CONFIGURED", "VM_SNAPSHOT_STALE"}

\* "Work out when the finding was first observed [and] keep the rows about the
\* finding's object, its parent, its children and its related objects": a finding that is
\* new, or has become graver, comes with a change in its neighbourhood, or of a host that
\* only the cluster's own list names: a host that moves while a scan reads is seen in
\* both its clusters.  A check that raised in the scan before says everything anew.
NewFindings == {f \in findings \ earlier : f.check \notin Silent \cup missed}
FindingsExplained ==
  Between /\ earlier # None => \A f \in NewFindings : \E c \in changes : c.id \in Neighbourhood(f) \cup Members(current, f.resource)

\* Ids "must be stable between scans": an object that was in vCenter all the time from
\* the beginning of one collection to the end of the next neither goes nor comes.
IdentityStable ==
  Between => \A c \in changes : c.change # "modified" => c.id \notin {Rid(c.type, m) : m \in steady}

\* What the scan found is among what its check counts when the score is asked for, group
\* by group, so the share it costs is one: of every check that looks at one snapshot, and
\* of those that compare as long as the snapshot compared with is there.
Peers(f, found, judged) == {g \in found : g.check = f.check /\ GroupOf(g, judged) = GroupOf(f, judged)}
Covered(f, found, judged) ==
  LET count == judged[f.check].count
      group == GroupOf(f, judged)
  IN group \in DOMAIN count /\ Cardinality(Peers(f, found, judged)) <= count[group]
Comparable(f) == f.check \in Comparing => compared
WithinCoverage ==
  Between => LET judged == Judged({})
             IN \A f \in findings : Comparable(f) => Covered(f, findings, judged)

\* Resolving a finding does not lower the score if its check counts no fewer objects than
\* it has findings; and resolving the gravest of a check never does, whichever snapshots
\* are gone and whatever raises.
Gravest(f, found) == \A g \in found : g.check = f.check => Weights[g.severity] <= Weights[f.severity]
FixingHelps ==
  Between => \A raising \in Raising :
    LET judged == Judged(raising)
        score == Score(findings, judged)
    IN \A f \in findings : Covered(f, findings, judged) \/ Gravest(f, findings)
                              => Score(findings \ {f}, judged) >= score

-----------------------------------------------------------------------------
(* The inductive invariant behind the last three *)

\* An object keeps its kind; it may go and come back.
KindsKept ==
  \A m \in DOMAIN world : m \in DOMAIN Start /\ world[m].kind = Start[m].kind /\ DOMAIN world[m] = {"kind", "props"}

\* The views before a step have returned what was there all the time, and nothing of
\* another kind.
Viewed(m, n) == \E i \in 1..(n - 1) : Start[m].kind \in Kinds(Views[i])
Collected ==
  /\ step \in 0..(Len(Views) + 1)
  /\ steady \subseteq alive /\ alive \subseteq DOMAIN world
  /\ \A m \in DOMAIN raw : m \in DOMAIN Start /\ raw[m].kind = Start[m].kind /\ Viewed(m, step)
  /\ step > 0 => \A m \in alive : Viewed(m, step) => m \in DOMAIN raw

\* The type of the resource that is built from an object of a kind.
TypeOf(kind) ==
  CASE kind = "Datacenter" -> "datacenter"
    [] kind = "ClusterComputeResource" -> "cluster"
    [] kind = "HostSystem" -> "host"
    [] kind = "VirtualMachine" -> "vm"
    [] kind = "Datastore" -> "datastore"
    [] kind \in {"Network", "DistributedVirtualPortgroup", "OpaqueNetwork"} -> "network"
    [] OTHER -> None

\* The objects a complete collection makes resources of, and those that were there all the
\* time since the last one began.
Shown == {m \in DOMAIN Start : Viewed(m, Len(Views) + 1) /\ TypeOf(Start[m].kind) # None}
Stayed == IF step = 0 THEN alive ELSE steady

\* A snapshot has the vCenter and the objects that were there from its first view to its
\* last, each under the type and the reference it always has.
Names(r, m) == r.type = TypeOf(Start[m].kind) /\ r.id = Rid(r.type, m)
ShownIn(rs, stayed) ==
  /\ IsFiniteSet(rs)
  /\ \E r \in rs : r.type = "vcenter" /\ r.id = VCenter
  /\ \A r \in rs : (r.type = "vcenter" /\ r.id = VCenter) \/ \E m \in Shown : Names(r, m)
  /\ \A m \in stayed \cap Shown : \E r \in rs : Names(r, m)
SnapshotShown == current # None => ShownIn(current, Stayed)

\* The snapshots before are finite sets of resources too.
OlderKept == older \in Seq(Range(older)) /\ \A i \in DOMAIN older : IsFiniteSet(older[i])

\* The findings are of checks there are, and of those that look at one snapshot, or whose
\* other one is there, no more than the checks judge.
FindingsCharged ==
  current # None =>
    /\ IsFiniteSet(findings)
    /\ \A f \in findings : /\ f.check \in DOMAIN Judged({}) /\ f.severity \in Severity
                           /\ Comparable(f) => Covered(f, findings, Judged({}))

InventoryInv == KindsKept /\ Collected /\ SnapshotShown /\ IdentityStable /\ OlderKept /\ FindingsCharged

-----------------------------------------------------------------------------
(* What the first two take from the inventories a vCenter is in *)

\* A host has a version and a build as long as it is connected; sizes are numbers; the
\* hosts a cluster names are known ones.
VersionPaths == {"summary.config.product.version", "summary.config.product.build"}
SizePaths == {"summary.capacity", "summary.freeSpace"}
Linked(o) ==
  o.kind = "HostSystem" =>
    IF Get(o, "runtime.connectionState") = "connected"
    THEN \A p \in VersionPaths : p \in DOMAIN o.props /\ o.props[p] # None
    ELSE VersionPaths \cap DOMAIN o.props = {}
Sized(o) == \A p \in SizePaths \cap DOMAIN o.props : o.props[p] \in Nat
Placing(o) == o.kind = "ClusterComputeResource" => Listed(o, "host") \subseteq DOMAIN Start
Plausible(o) == Linked(o) /\ Sized(o) /\ Placing(o)

\* It begins so, and nobody edits it out of it; a view is read once.
PlausibleWorld ==
  /\ \A m \in DOMAIN Start : Plausible(Start[m])
  /\ \A h \in Loose : /\ "runtime.connectionState" \in DOMAIN Start[h].props
                      /\ Start[h].props["runtime.connectionState"] = "connected"
  /\ \A e \in Edits :
       /\ e.path \in VersionPaths => e.value # None
       /\ e.path = "runtime.connectionState" /\ e.object \in DOMAIN Start => Start[e.object].kind # "HostSystem"
       /\ e.path \in SizePaths => e.value = None \/ e.value \in Nat
       /\ e.path = "host" => e.value = None \/ e.value \subseteq DOMAIN Start
  /\ \A i, j \in 1..Len(Views) : Views[i] = Views[j] => i = j
  /\ \A hosts \in SUBSET {Rid("host", m) : m \in DOMAIN Start} : hosts # None

\* What is seen of it is so too, and then what a snapshot shows.
PlausibleHost(r) ==
  r.type = "host" => /\ Prop(r, "version") # None <=> Prop(r, "connectionState") = "connected"
                     /\ Prop(r, "version") # None <=> Prop(r, "build") # None
PlausibleSize(r) ==
  r.type = "datastore" => \A p \in {"capacity", "freeSpace"} : Prop(r, p) = None \/ Prop(r, p) \in Nat
PlausibleView(rs) ==
  \A r \in rs : /\ PlausibleHost(r) /\ PlausibleSize(r)
                /\ Members(rs, r.id) \subseteq {Rid("host", m) : m \in DOMAIN Start}

PlausibleInv ==
  /\ \A m \in DOMAIN world : Plausible(world[m])
  /\ \A m \in DOMAIN raw : Plausible(raw[m])
  /\ current # None => PlausibleView(current)

=============================================================================
