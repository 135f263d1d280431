------------------------------- MODULE Checks -------------------------------
(***************************************************************************)
(* The diagnostic checks and the health score                              *)
(* (backend/app/diagnostics/checks/, registry.py and scoring.py).          *)
(*                                                                         *)
(* A check has two halves that are written apart and must agree: applic-   *)
(* able(), the objects it judged, and evaluate(), its findings.  previous  *)
(* is None or the resources compared with.  The scan keeps what evaluate() *)
(* finds; how many objects a check judged is asked for with the score, by  *)
(* then perhaps of other snapshots, and either half may raise.  Titles,    *)
(* evidence and the order of the findings are left out.                    *)
(***************************************************************************)
EXTENDS Diff

CONSTANTS
  Weights,    \* severity -> weight, health_weights or its defaults
  Transient   \* names of vCLS machines, which vSphere makes anew

Severity == {"critical", "warning", "info"}
ASSUME WeightsAssumption == Weights \in [Severity -> 0..100]

SnapshotMaxAge   == 7
SnapshotMaxCount == 3
MinHosts         == 2

\* What a check says: the objects it judged, and those it has a finding about with the
\* severity of the finding.
Verdict(judged, found) == [judged |-> judged, found |-> found]
Each(rs, severity) == {<<r, severity>> : r \in rs}

Before(previous) == IF previous = None THEN {} ELSE previous
Gone(rs, previous) == {r \in Before(previous) : \A s \in rs : s.id # r.id}

HavingState(rs, state) == {h \in OfType(rs, "host") : Prop(h, "connectionState") = state}

\* (mutant) disconnected hosts are not judged on their connection
HostDisconnectedKnown(rs) ==
  Verdict({h \in OfType(rs, "host") : Prop(h, "version") # None},
          Each(HavingState(rs, "disconnected"), "critical"))

HostDisconnected(rs) == Verdict(OfType(rs, "host"), Each(HavingState(rs, "disconnected"), "critical"))

HostNotResponding(rs) == Verdict(OfType(rs, "host"), Each(HavingState(rs, "notResponding"), "critical"))

HostMaintenanceMode(rs) ==
  LET known == {h \in OfType(rs, "host") : Prop(h, "maintenanceMode") # None}
  IN Verdict(known, Each({h \in known : Prop(h, "maintenanceMode") = TRUE}, "warning"))

HostNtpNotConfigured(rs) ==
  LET known == {h \in OfType(rs, "host") : Prop(h, "ntpServers") # None}
  IN Verdict(known, Each({h \in known : Prop(h, "ntpServers") = {}}, "warning"))

\* The hosts of a cluster that report a version are compared with each other.
HostVersionMismatch(rs) ==
  LET Reporting(c) == {h \in OfType(rs, "host") : h.id \in Members(rs, c.id) /\ Prop(h, "version") # None}
      Builds(c) == {<<Prop(h, "version"), Prop(h, "build")>> : h \in Reporting(c)}
      clusters == OfType(rs, "cluster")
  IN Verdict({c \in clusters : Cardinality(Reporting(c)) >= 2},
             Each({c \in clusters : Cardinality(Builds(c)) >= 2}, "warning"))

\* The clusters cluster_members knows: those scanned, and those a host names.
KnownClusters(rs) ==
  {c.id : c \in OfType(rs, "cluster")} \cup {HostCluster(h, OfType(rs, "cluster")) : h \in OfType(rs, "host")}

ClusterHostCountChange(rs, previous) ==
  LET known == {c \in OfType(rs, "cluster") : c.id \in KnownClusters(Before(previous))}
  IN Verdict(known,
             Each({c \in known : Cardinality(Members(rs, c.id)) # Cardinality(Members(previous, c.id))},
                  "warning"))

HostCountLow(rs) ==
  LET clusters == OfType(rs, "cluster")
  IN Verdict(clusters, Each({c \in clusters : Cardinality(Members(rs, c.id)) < MinHosts}, "warning"))

ClusterHaDisabled(rs) ==
  LET known == {c \in OfType(rs, "cluster") : Prop(c, "haEnabled") # None}
  IN Verdict(known, Each({c \in known : Prop(c, "haEnabled") = FALSE}, "warning"))

ClusterDrsDisabled(rs) ==
  LET known == {c \in OfType(rs, "cluster") : Prop(c, "drsEnabled") # None}
  IN Verdict(known, Each({c \in known : Prop(c, "drsEnabled") = FALSE}, "info"))

DatastoreHighUsage(rs) ==
  LET known == {d \in OfType(rs, "datastore") : Usage(d) # None}
      full == {d \in known : Usage(d) >= 950}
  IN Verdict(known, Each({d \in known \ full : Usage(d) >= 850}, "warning") \cup Each(full, "critical"))

DatastoreInaccessible(rs) ==
  LET all == OfType(rs, "datastore")
  IN Verdict(all, Each({d \in all : Prop(d, "accessible") = FALSE}, "critical"))

IsTemplate(vm) == Prop(vm, "template") = TRUE
Machines(rs) == {v \in OfType(rs, "vm") : ~IsTemplate(v)}

VmPoweredOff(rs) ==
  Verdict(Machines(rs), Each({v \in Machines(rs) : Prop(v, "powerState") = "poweredOff"}, "info"))

VmOrphanedOrInaccessible(rs) ==
  LET known == {v \in OfType(rs, "vm") : Prop(v, "connectionState") # None}
  IN Verdict(known,
             Each({v \in known : Prop(v, "connectionState") \in {"orphaned", "inaccessible", "invalid"}},
                  "critical"))

VmSnapshotStale(rs, now) ==
  LET known == {v \in OfType(rs, "vm") : Prop(v, "snapshotCount") # None \/ Prop(v, "oldestSnapshotTime") # None}
      Old(v) == Prop(v, "oldestSnapshotTime") # None /\ now - Prop(v, "oldestSnapshotTime") > SnapshotMaxAge
      Many(v) == Prop(v, "snapshotCount") # None /\ Prop(v, "snapshotCount") > SnapshotMaxCount
  IN Verdict(known, Each({v \in known : Old(v) \/ Many(v)}, "warning"))

VmToolsNotRunning(rs) ==
  LET known == {v \in Machines(rs) : Prop(v, "powerState") = "poweredOn" /\ Prop(v, "toolsStatus") # None}
  IN Verdict(known,
             Each({v \in known : Prop(v, "toolsStatus") \in {"toolsNotRunning", "toolsNotInstalled"}}, "info"))

NetworkRemoved(rs, previous) ==
  Verdict(OfType(Before(previous), "network"), Each(OfType(Gone(rs, previous), "network"), "critical"))

\* Networks have a check of their own, and vCLS machines come and go.
ResourceRemoved(rs, previous) ==
  LET Expected(r) == r.type # "network" /\ ~(r.type = "vm" /\ r.name \in Transient)
  IN Verdict({r \in Before(previous) : Expected(r)}, Each({r \in Gone(rs, previous) : Expected(r)}, "warning"))

\* registry.get_checks
Verdicts(rs, previous, now) ==
  [HOST_DISCONNECTED |-> HostDisconnected(rs),
   HOST_NOT_RESPONDING |-> HostNotResponding(rs),
   HOST_MAINTENANCE_MODE |-> HostMaintenanceMode(rs),
   HOST_NTP_NOT_CONFIGURED |-> HostNtpNotConfigured(rs),
   HOST_VERSION_MISMATCH |-> HostVersionMismatch(rs),
   CLUSTER_HOST_COUNT_CHANGE |-> ClusterHostCountChange(rs, previous),
   HOST_COUNT_LOW |-> HostCountLow(rs),
   CLUSTER_HA_DISABLED |-> ClusterHaDisabled(rs),
   CLUSTER_DRS_DISABLED |-> ClusterDrsDisabled(rs),
   DATASTORE_HIGH_USAGE |-> DatastoreHighUsage(rs),
   DATASTORE_INACCESSIBLE |-> DatastoreInaccessible(rs),
   VM_POWERED_OFF |-> VmPoweredOff(rs),
   VM_ORPHANED_OR_INACCESSIBLE |-> VmOrphanedOrInaccessible(rs),
   VM_SNAPSHOT_STALE |-> VmSnapshotStale(rs, now),
   VM_TOOLS_NOT_RUNNING |-> VmToolsNotRunning(rs),
   NETWORK_REMOVED |-> NetworkRemoved(rs, previous),
   RESOURCE_REMOVED |-> ResourceRemoved(rs, previous)]

\* The checks that look at the snapshot before.
Comparing == {"CLUSTER_HOST_COUNT_CHANGE", "NETWORK_REMOVED", "RESOURCE_REMOVED"}

\* run_all; a finding is named by its check and its resource.  A check that raises is
\* skipped, the others go on.
RunAll(verdicts, raising) ==
  UNION {{[check |-> c, resource |-> f[1].id, type |-> f[1].type, severity |-> f[2]]
            : f \in verdicts[c].found} : c \in DOMAIN verdicts \ raising}

\* coverage: objects per check, of RESOURCE_REMOVED per type.  A check that raises is
\* counted as one number, zero, whichever it is.
Coverage(verdicts, raising) ==
  LET Typed(c) == c = "RESOURCE_REMOVED" /\ c \notin raising
      Judged(c) == IF c \in raising THEN {} ELSE verdicts[c].judged
      Group(c, r) == IF Typed(c) THEN r.type ELSE "all"
  IN [c \in DOMAIN verdicts |->
        [typed |-> Typed(c),
         count |-> [g \in {Group(c, r) : r \in Judged(c)} |->
                      Cardinality({r \in Judged(c) : Group(c, r) = g})]]]

-----------------------------------------------------------------------------
(* compute_health, in hundredths of a point *)

\* Only a check whose objects are counted by type is charged by type.
GroupOf(f, coverage) == IF coverage[f.check].typed THEN f.type ELSE "all"
Weight(fs) == MapThenSumSet(LAMBDA f : Weights[f.severity], fs)

\* (mutant) a check's weight is divided by its findings
DeductionAveraged(check, findings, coverage) ==
  LET fs == {f \in findings : f.check = check}
  IN IF fs = {} THEN 0 ELSE (100 * Weight(fs)) \div Cardinality(fs)

\* A group's weight is divided by the objects judged, at least one per finding, and a
\* check costs no more than the largest weight.
Deduction(check, findings, coverage) ==
  LET fs == {f \in findings : f.check = check}
      Of(g) == {f \in fs : GroupOf(f, coverage) = g}
      count == coverage[check].count
      Judged(g) == IF g \in DOMAIN count THEN count[g] ELSE 0
      cap == 100 * Max({Weights[s] : s \in DOMAIN Weights})
      total == MapThenSumSet(LAMBDA g : (100 * Weight(Of(g))) \div Max({Judged(g), Cardinality(Of(g))}),
                             {GroupOf(f, coverage) : f \in fs})
  IN IF total < cap THEN total ELSE cap

\* The score, rounded to a whole number and never below 0.
Score(findings, coverage) ==
  LET lost == MapThenSumSet(LAMBDA c : Deduction(c, findings, coverage), DOMAIN coverage)
  IN IF lost >= 10000 THEN 0 ELSE (10000 - lost + 50) \div 100

=============================================================================
