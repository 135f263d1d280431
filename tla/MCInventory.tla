----------------------------- MODULE MCInventory -----------------------------
(* Instances of Inventory: two clusters, two hosts, a machine, a vCLS       *)
(* machine, two datastores and a distributed portgroup.                     *)
EXTENDS Inventory

MCViews == <<"Datacenter", "ComputeResource", "ClusterComputeResource", "HostSystem",
             "VirtualMachine", "Datastore", "Network", "DistributedVirtualPortgroup">>

O(kind, props) == [kind |-> kind, props |-> props]

MCHost(name, cluster) ==
  O("HostSystem",
    ("name" :> name) @@ ("parent" :> cluster) @@ ("runtime.connectionState" :> "connected")
    @@ ("runtime.powerState" :> "poweredOn") @@ ("runtime.inMaintenanceMode" :> FALSE)
    @@ ("summary.config.product.version" :> "8.0.2") @@ ("summary.config.product.build" :> "b2")
    @@ ("config.lockdownMode" :> "off") @@ ("config.dateTimeInfo.ntpConfig.server" :> {"ntp1"})
    @@ ("config.network.vnic" :> {"vmk0"}) @@ ("datastore" :> {"d1"}))

MCCluster(name, hosts) ==
  O("ClusterComputeResource",
    ("name" :> name) @@ ("parent" :> "dc1") @@ ("host" :> hosts)
    @@ ("configuration.drsConfig.enabled" :> TRUE) @@ ("configuration.dasConfig.enabled" :> TRUE))

MCVm(name, host) ==
  O("VirtualMachine",
    ("name" :> name) @@ ("parent" :> "dc1") @@ ("runtime.powerState" :> "poweredOn")
    @@ ("runtime.connectionState" :> "connected") @@ ("runtime.host" :> host)
    @@ ("guest.toolsStatus" :> "toolsOk") @@ ("config.hardware.device" :> {})
    @@ ("snapshot.rootSnapshotList" :> {}) @@ ("network" :> {"p1"}) @@ ("datastore" :> {"d1"}))

MCStart ==
  ("dc1" :> O("Datacenter", [name |-> "dc"]))
  @@ ("c1" :> MCCluster("prod", {"h1", "h2"}))
  @@ ("c2" :> MCCluster("edge", {}))
  @@ ("h1" :> MCHost("esx1", "c1"))
  @@ ("h2" :> MCHost("esx2", "c1"))
  @@ ("v1" :> MCVm("app", "h1"))
  @@ ("v2" :> MCVm("vCLS", "h1"))
  @@ ("d1" :> O("Datastore", ("name" :> "ds") @@ ("summary.capacity" :> 1000) @@ ("summary.freeSpace" :> 160)
                             @@ ("summary.accessible" :> TRUE) @@ ("host" :> {"h1", "h2"})))
  @@ ("d2" :> O("Datastore", ("name" :> "ds2") @@ ("summary.capacity" :> 1000) @@ ("summary.freeSpace" :> 500)
                             @@ ("summary.accessible" :> TRUE) @@ ("host" :> {"h2"})))
  @@ ("p1" :> O("DistributedVirtualPortgroup", ("name" :> "pg") @@ ("key" :> "k1") @@ ("config.numPorts" :> 8)
                             @@ ("config.defaultPortConfig" :> 10) @@ ("host" :> {"h1"})))

E(object, path, values) == {[object |-> object, path |-> path, value |-> v] : v \in values}

\* Values that cross every threshold a check or the diff looks at.
MCEdits ==
  E("d1", "summary.freeSpace", {130, 110, 40})
  \cup E("d2", "summary.freeSpace", {140})
  \cup E("d1", "summary.accessible", {FALSE})
  \cup E("d1", "summary.capacity", {0, 2000})
  \cup E("h2", "summary.config.product.version", {"8.0.3"})
  \cup E("h1", "runtime.inMaintenanceMode", {TRUE})
  \cup E("h1", "config.dateTimeInfo.ntpConfig.server", {{}})
  \cup E("c1", "configuration.dasConfig.enabled", {FALSE})
  \cup E("c1", "configuration.drsConfig.enabled", {FALSE, None})
  \cup E("v1", "runtime.powerState", {"poweredOff"})
  \cup E("v1", "runtime.connectionState", {"orphaned"})
  \cup E("v1", "guest.toolsStatus", {"toolsNotRunning"})
  \cup E("v1", "config.hardware.device", {None})
  \cup E("v1", "snapshot.rootSnapshotList", {{0, 1, 2, 3}})
  \cup E("v1", "runtime.host", {"h2"})
  \cup E("p1", "config.defaultPortConfig", {20})

\* The check whose findings differ in gravity, and the one that counts by type.
MCRaising == {{}, {"DATASTORE_HIGH_USAGE", "RESOURCE_REMOVED"}}

MCWeights == [critical |-> 40, warning |-> 15, info |-> 0]

\* The instance is one the theorem about new findings is about.
ASSUME InstanceAssumption == PlausibleWorld

=============================================================================
