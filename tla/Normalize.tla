------------------------------ MODULE Normalize ------------------------------
(***************************************************************************)
(* From a vCenter inventory to resources                                   *)
(* (backend/app/collectors/vsphere/normalize.py).                          *)
(*                                                                         *)
(* An inventory maps a managed object reference to the kind of the object  *)
(* and the property paths vCenter returned for it.  A path vCenter did not *)
(* return (a disconnected host has no config) is not in the domain of      *)
(* props; None is Python's None.  A list is a set, a snapshot tree the set *)
(* of its creation times.  The namespace of the connection, the same in    *)
(* every id, is left out.                                                  *)
(***************************************************************************)
EXTENDS Integers, Sequences, FiniteSets, FiniteSetsExt, TLC

CONSTANT None   \* an absent value

Get(o, path) == IF path \in DOMAIN o.props THEN o.props[path] ELSE None
Flag(o, path) == Get(o, path) = TRUE
Listed(o, path) == LET v == Get(o, path) IN IF v = None THEN {} ELSE v

\* Properties, the new ones over the old ones, and one put over the others.
Over(new, old) == [p \in DOMAIN new \cup DOMAIN old |-> IF p \in DOMAIN new THEN new[p] ELSE old[p]]
Put(path, value, old) == [p \in DOMAIN old \cup {path} |-> IF p = path THEN value ELSE old[p]]

\* str(None) is a name too.
Named(o) == LET n == Get(o, "name") IN IF n = None THEN "None" ELSE n

\* The properties a builder takes over as they are, from the paths they come from.
Copied(o, paths) == [p \in DOMAIN paths |-> Get(o, paths[p])]

Rid(type, m) == type \o ":" \o m

VCenter == Rid("vcenter", "vc")

NameOf(inv, m) == IF m \in DOMAIN inv THEN Get(inv[m], "name") ELSE None
NamesOf(inv, ms) == {NameOf(inv, m) : m \in ms} \ {None}

\* Parent links are followed until they reach a datacenter, leave the inventory or
\* have been followed once for every object.
DatacenterOf(inv, m) ==
  LET up[n \in 0..Cardinality(DOMAIN inv)] ==
        IF n = 0 THEN m
        ELSE LET x == up[n - 1]
             IN IF x \in DOMAIN inv /\ inv[x].kind # "Datacenter" THEN Get(inv[x], "parent") ELSE x
      last == up[Cardinality(DOMAIN inv)]
  IN IF last \in DOMAIN inv /\ inv[last].kind = "Datacenter" THEN last ELSE None

ClusterOf(inv, o) ==
  LET p == Get(o, "parent")
  IN IF p \in DOMAIN inv /\ inv[p].kind = "ClusterComputeResource" THEN p ELSE None

\* vSAN is what the member hosts report; unknown if none does.
VsanOf(inv, c) ==
  LET reporting == {h \in DOMAIN inv : /\ inv[h].kind = "HostSystem" /\ ClusterOf(inv, inv[h]) = c
                                       /\ "config.vsanHostConfig.enabled" \in DOMAIN inv[h].props}
  IN IF reporting = {} THEN None
     ELSE \E h \in reporting : Flag(inv[h], "config.vsanHostConfig.enabled")

Resource(type, m, o, parent, rels, props) ==
  [id |-> Rid(type, m), type |-> type, name |-> Named(o), parent |-> parent,
   rels |-> rels, props |-> props]

Rel(kind, target) == [kind |-> kind, target |-> target]

-----------------------------------------------------------------------------
(* The builders, one per kind *)

VCenterResource ==
  [id |-> VCenter, type |-> "vcenter", name |-> "vc", parent |-> None, rels |-> {}, props |-> <<>>]

BuildDatacenter(inv, m) == Resource("datacenter", m, inv[m], VCenter, {}, <<>>)

\* Settings that were not returned count as switched off.
BuildCluster(inv, m) ==
  LET o == inv[m]
      dc == DatacenterOf(inv, Get(o, "parent"))
  IN Resource("cluster", m, o, IF dc = None THEN VCenter ELSE Rid("datacenter", dc), {},
       Over(Copied(o, [drsAutomationLevel |-> "configuration.drsConfig.defaultVmBehavior",
                       evcMode |-> "summary.currentEVCModeKey"]),
          [hosts |-> {Rid("host", h) : h \in Listed(o, "host")},
           drsEnabled |-> Flag(o, "configuration.drsConfig.enabled"),
           haEnabled |-> Flag(o, "configuration.dasConfig.enabled"),
           haAdmissionControl |-> Flag(o, "configuration.dasConfig.admissionControlEnabled"),
           vsanEnabled |-> VsanOf(inv, m),
           ruleCount |-> Cardinality(Listed(o, "configuration.rule"))]))

NetworkPaths == {"config.network.dnsConfig.address", "config.network.vnic",
                 "config.network.pnic", "config.network.vswitch"}
ConfigPaths == NetworkPaths \cup {"config.lockdownMode", "config.dateTimeInfo.ntpConfig.server",
                                  "config.vsanHostConfig.enabled"}

\* An empty list is only reported if the configuration was readable.
BuildHost(inv, m) ==
  LET o == inv[m]
      cluster == ClusterOf(inv, o)
      dc == DatacenterOf(inv, Get(o, "parent"))
      IfSeen(paths, path) == IF paths \cap DOMAIN o.props # {} THEN Listed(o, path) ELSE None
  IN Resource("host", m, o,
       IF cluster # None THEN Rid("cluster", cluster)
       ELSE IF dc # None THEN Rid("datacenter", dc) ELSE VCenter,
       (IF cluster = None THEN {} ELSE {Rel("member_of", Rid("cluster", cluster))})
         \cup {Rel("uses_datastore", Rid("datastore", d)) : d \in Listed(o, "datastore")},
       Over(Copied(o, [connectionState |-> "runtime.connectionState", powerState |-> "runtime.powerState",
                  bootTime |-> "runtime.bootTime",
                  version |-> "summary.config.product.version", build |-> "summary.config.product.build",
                  model |-> "hardware.systemInfo.model", memoryBytes |-> "summary.hardware.memorySize",
                  numCpuCores |-> "summary.hardware.numCpuCores", lockdownMode |-> "config.lockdownMode"]),
          [maintenanceMode |-> Flag(o, "runtime.inMaintenanceMode"),
           cluster |-> NameOf(inv, cluster),
           ntpServers |-> IfSeen(ConfigPaths, "config.dateTimeInfo.ntpConfig.server"),
           dnsServers |-> IfSeen(ConfigPaths, "config.network.dnsConfig.address"),
           vmkernelAdapters |-> IfSeen(NetworkPaths, "config.network.vnic"),
           physicalNics |-> IfSeen(NetworkPaths, "config.network.pnic"),
           standardSwitches |-> IfSeen(NetworkPaths, "config.network.vswitch")]))

\* A virtual machine without hardware in the answer has unknown disks, NICs and snapshots.
BuildVm(inv, m) ==
  LET o == inv[m]
      host == Get(o, "runtime.host")
      folder == Get(o, "parent")
      hardware == Get(o, "config.hardware.device")
      snapshots == Listed(o, "snapshot.rootSnapshotList")
      IfHardware(v) == IF hardware = None THEN None ELSE v
      Devices(kind) == IfHardware({d \in hardware : d.kind = kind})
  IN Resource("vm", m, o, IF host = None THEN VCenter ELSE Rid("host", host),
       (IF host = None THEN {} ELSE {Rel("runs_on", Rid("host", host))})
         \cup {Rel("uses_network", Rid("network", n)) : n \in Listed(o, "network")}
         \cup {Rel("uses_datastore", Rid("datastore", d)) : d \in Listed(o, "datastore")},
       Over(Copied(o, [powerState |-> "runtime.powerState", connectionState |-> "runtime.connectionState",
                  bootTime |-> "runtime.bootTime", toolsStatus |-> "guest.toolsStatus",
                  guestIp |-> "guest.ipAddress", numCpu |-> "summary.config.numCpu",
                  memoryMB |-> "summary.config.memorySizeMB", hardwareVersion |-> "config.version",
                  annotation |-> "config.annotation",
                  cpuReservationMhz |-> "config.cpuAllocation.reservation",
                  memReservationMB |-> "config.memoryAllocation.reservation"]),
          [host |-> NameOf(inv, host),
           resourcePool |-> NameOf(inv, Get(o, "resourcePool")),
           folder |-> IF folder \in DOMAIN inv /\ inv[folder].kind = "Folder"
                      THEN NameOf(inv, folder) ELSE None,
           template |-> Flag(o, "summary.config.template"),
           snapshotCount |-> IfHardware(Cardinality(snapshots)),
           oldestSnapshotTime |-> IfHardware(IF snapshots = {} THEN None ELSE Min(snapshots)),
           disks |-> Devices("disk"), nics |-> Devices("nic"),
           networks |-> NamesOf(inv, Listed(o, "network")),
           datastores |-> NamesOf(inv, Listed(o, "datastore"))]))

BuildDatastore(inv, m) ==
  LET o == inv[m]
  IN Resource("datastore", m, o, VCenter, {},
       Over(Copied(o, [capacity |-> "summary.capacity", freeSpace |-> "summary.freeSpace",
                  multipleHostAccess |-> "summary.multipleHostAccess",
                  maintenanceMode |-> "summary.maintenanceMode"]),
          [accessible |-> Flag(o, "summary.accessible"),
           hosts |-> NamesOf(inv, Listed(o, "host"))]))

BuildNetwork(inv, m) ==
  LET o == inv[m]
      Only(kind, v) == IF o.kind = kind THEN v ELSE None
  IN Resource("network", m, o, VCenter, {},
       [vlan |-> Only("DistributedVirtualPortgroup", Get(o, "config.defaultPortConfig")),
        numPorts |-> Only("DistributedVirtualPortgroup", Get(o, "config.numPorts")),
        switch |-> Only("DistributedVirtualPortgroup",
                        NameOf(inv, Get(o, "config.distributedVirtualSwitch"))),
        hosts |-> Only("Network", NamesOf(inv, Listed(o, "host")))])

\* (mutant) hosts without a readable configuration are left out
BuiltIfReadable(inv, m) ==
  IF inv[m].kind = "HostSystem" /\ ConfigPaths \cap DOMAIN inv[m].props = {} THEN {}
  ELSE CASE inv[m].kind = "Datacenter" -> {BuildDatacenter(inv, m)}
         [] inv[m].kind = "ClusterComputeResource" -> {BuildCluster(inv, m)}
         [] inv[m].kind = "HostSystem" -> {BuildHost(inv, m)}
         [] inv[m].kind = "VirtualMachine" -> {BuildVm(inv, m)}
         [] OTHER -> {}

\* Objects of other kinds (folders, pools, switches) only lend their names.
Built(inv, m) ==
  CASE inv[m].kind = "Datacenter" -> {BuildDatacenter(inv, m)}
    [] inv[m].kind = "ClusterComputeResource" -> {BuildCluster(inv, m)}
    [] inv[m].kind = "HostSystem" -> {BuildHost(inv, m)}
    [] inv[m].kind = "VirtualMachine" -> {BuildVm(inv, m)}
    [] inv[m].kind = "Datastore" -> {BuildDatastore(inv, m)}
    [] inv[m].kind \in {"Network", "DistributedVirtualPortgroup", "OpaqueNetwork"} -> {BuildNetwork(inv, m)}
    [] OTHER -> {}

Normalized(inv) == {VCenterResource} \cup UNION {Built(inv, m) : m \in DOMAIN inv}

=============================================================================
