-------------------------------- MODULE Diff --------------------------------
(***************************************************************************)
(* What differs between two scans (backend/app/diff/engine.py).            *)
(*                                                                         *)
(* A change of a resource that stayed carries, for every property that is  *)
(* reported, its old and new value.  Usage is counted in tenths of a       *)
(* percent.  Summaries are left out; so is the order of the list.          *)
(***************************************************************************)
EXTENDS Normalize

Level == {"low", "medium", "high"}

\* SIGNIFICANCE: the properties that are compared, by the weight of a change.
Weighty(type) ==
  CASE type = "host" -> {"connectionState", "powerState", "vmkernelAdapters"}
    [] type = "cluster" -> {"drsEnabled", "haEnabled", "vsanEnabled"}
    [] type = "datastore" -> {"accessible"}
    [] type = "network" -> {"vlan"}
    [] OTHER -> {}

\* (mutant) the version of a host is not in the table
ModerateUnversioned(type) ==
  {"name"} \cup
  CASE type = "host" -> {"maintenanceMode", "cluster", "build"}
    [] type = "vm" -> {"powerState"}
    [] type = "cluster" -> {"hosts"}
    [] type = "datastore" -> {"freeSpace"}
    [] OTHER -> {}

Moderate(type) ==
  {"name"} \cup
  CASE type = "host" -> {"maintenanceMode", "cluster", "version", "build", "lockdownMode",
                         "ntpServers", "dnsServers", "bootTime"}
    [] type = "vm" -> {"powerState", "networks", "datastores", "disks", "nics"}
    [] type = "cluster" -> {"hosts", "drsAutomationLevel", "haAdmissionControl", "evcMode"}
    [] type = "datastore" -> {"capacity", "freeSpace", "hosts", "maintenanceMode"}
    [] type = "network" -> {"switch"}
    [] type = "vcenter" -> {"version", "build"}
    [] OTHER -> {}

Minor(type) ==
  CASE type = "host" -> {"model", "memoryBytes", "numCpuCores", "physicalNics", "standardSwitches"}
    [] type = "vm" -> {"host", "numCpu", "memoryMB", "hardwareVersion", "template", "snapshotCount",
                       "resourcePool", "folder", "cpuReservationMhz", "memReservationMB",
                       "toolsStatus", "guestIp", "annotation", "bootTime"}
    [] type = "cluster" -> {"ruleCount"}
    [] type = "datastore" -> {"multipleHostAccess"}
    [] type = "network" -> {"numPorts", "hosts"}
    [] type = "vcenter" -> {"apiVersion"}
    [] OTHER -> {}

Tracked(type) == Weighty(type) \cup Moderate(type) \cup Minor(type)

\* None is "not returned" here, not a value.
BothSidesRequired ==
  {"bootTime", "vmkernelAdapters", "physicalNics", "standardSwitches", "ntpServers", "dnsServers",
   "lockdownMode", "version", "build", "disks", "nics", "snapshotCount", "vsanEnabled", "hosts"}

ListValued == {"ntpServers", "dnsServers", "networks", "datastores", "hosts", "standardSwitches",
               "vmkernelAdapters", "physicalNics", "disks", "nics"}

OfType(rs, type) == {r \in rs : r.type = type}
Prop(r, p) == IF p \in DOMAIN r.props THEN r.props[p] ELSE None

\* host_cluster_id: a relationship, else a parent, else a name.  Given the clusters,
\* the parent must be one, and a name stands for the cluster that bears it.
Joined(h) == {l.target : l \in {x \in h.rels : x.kind = "member_of"}}

HostClusterAlone(h) ==
  IF Joined(h) # {} THEN CHOOSE c \in Joined(h) : TRUE
  ELSE IF h.parent # None THEN h.parent ELSE Prop(h, "cluster")

HostCluster(h, clusters) ==
  LET named == {c.id : c \in {x \in clusters : x.name = Prop(h, "cluster")}}
  IN IF Joined(h) # {} THEN CHOOSE c \in Joined(h) : TRUE
     ELSE IF h.parent \in {c.id : c \in clusters} THEN h.parent
     ELSE IF named # {} THEN CHOOSE c \in named : TRUE ELSE Prop(h, "cluster")

\* Membership as either side tells it.
Members(rs, cluster) ==
  LET clusters == OfType(rs, "cluster")
  IN (UNION {LET hs == Prop(c, "hosts") IN IF hs = None THEN {} ELSE hs
               : c \in {x \in clusters : x.id = cluster}})
     \cup {h.id : h \in {x \in OfType(rs, "host") : HostCluster(x, clusters) = cluster}}

\* datastore_usage_pct, None when it is unknown.
Usage(d) ==
  LET capacity == Prop(d, "capacity")
      free == Prop(d, "freeSpace")
  IN IF capacity = None \/ free = None \/ capacity = 0 THEN None
     ELSE LET used == 1000 - (1000 * free) \div capacity
          IN IF used < 0 THEN 0 ELSE used

UsageMinDelta == 50
Band(usage) == Cardinality({b \in {850, 950} : usage >= b})

\* (mutant) only moves of five points are reported
FreeSpaceMoved(old, new) ==
  LET o == Usage(old)
      n == Usage(new)
  IN IF None \in {o, n} THEN o # n
     ELSE n - o >= UsageMinDelta \/ o - n >= UsageMinDelta

FreeSpaceSignificant(old, new) ==
  LET o == Usage(old)
      n == Usage(new)
  IN IF None \in {o, n} THEN o # n
     ELSE n - o >= UsageMinDelta \/ o - n >= UsageMinDelta \/ Band(o) # Band(n)

\* _value: a cluster's hosts and a host's cluster are derived.
Value(r, p, rs) ==
  CASE p = "name" -> r.name
    [] r.type = "host" /\ p = "cluster" -> HostClusterAlone(r)
    [] r.type = "cluster" /\ p = "hosts" -> Members(rs, r.id)
    [] OTHER -> Prop(r, p)

Empty(p, v) == v = None \/ (p \in ListValued /\ v = {})

Reported(old, new, olds, news, p) ==
  LET o == Value(old, p, olds)
      n == Value(new, p, news)
  IN /\ o # n
     /\ ~(Empty(p, o) /\ Empty(p, n))
     /\ p \in BothSidesRequired => None \notin {o, n}
     /\ new.type = "datastore" /\ p = "freeSpace" => FreeSpaceSignificant(old, new)

\* A full datastore makes its usage a weighty matter.
Significance(new, p) ==
  IF new.type = "datastore" /\ p = "freeSpace" /\ Usage(new) # None /\ Usage(new) >= 950 THEN "high"
  ELSE IF p \in Weighty(new.type) THEN "high"
  ELSE IF p \in Moderate(new.type) THEN "medium" ELSE "low"

Highest(levels) ==
  IF "high" \in levels THEN "high" ELSE IF "medium" \in levels THEN "medium" ELSE "low"

Added(r) == [change |-> "added", id |-> r.id, type |-> r.type, significance |-> "low", values |-> <<>>]

Removed(r) ==
  [change |-> "removed", id |-> r.id, type |-> r.type, values |-> <<>>,
   significance |-> CASE r.type \in {"host", "network", "datastore"} -> "high"
                      [] r.type = "vm" -> "medium"
                      [] OTHER -> "low"]

\* A resource that stayed, if anything of it is reported.
Modified(old, new, olds, news) ==
  LET reported == {p \in Tracked(new.type) : Reported(old, new, olds, news, p)}
  IN IF reported = {} THEN {}
     ELSE {[change |-> "modified", id |-> new.id, type |-> new.type,
            significance |-> Highest({Significance(new, p) : p \in reported}),
            values |-> [p \in reported |-> Value(new, p, news)]]}

AtLeast(minimum, level) ==
  CASE minimum = "low" -> TRUE
    [] minimum = "medium" -> level # "low"
    [] minimum = "high" -> level = "high"

\* An id that now names an object of another type is one gone and one arrived.
Changes(olds, news, minimum) ==
  LET Gone(r) == \A s \in news : s.id # r.id
      New(s) == \A r \in olds : r.id # s.id
      all == {Added(s) : s \in {x \in news : New(x)}}
             \cup {Removed(r) : r \in {x \in olds : Gone(x)}}
             \cup UNION {UNION {IF r.type # s.type THEN {Removed(r), Added(s)} ELSE Modified(r, s, olds, news)
                                  : s \in {x \in news : x.id = r.id}} : r \in olds}
  IN {c \in all : AtLeast(minimum, c.significance)}

=============================================================================
