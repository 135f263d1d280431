----------------------------- MODULE ChangeLog -----------------------------
(***************************************************************************)
(* The change log of one connection, and how far back it may be believed.  *)
(*                                                                         *)
(* A scan (backend/app/scheduler.py, _run_scan_locked) diffs against the   *)
(* newest surviving snapshot, stores its own snapshot and then, in a later *)
(* transaction, the rows of the diff.  Two settings rows say what the log  *)
(* covers: log_since, written with the first diff, and log_retained_since, *)
(* written by retention (backend/app/snapshots/store.py).  Scans of a      *)
(* connection exclude each other (ScanRuns); the retention pass and the    *)
(* backfill of a starting worker, deletions by a user and policy edits run *)
(* at any time.                                                            *)
(*                                                                         *)
(* A snapshot is named by its creation time, and the rows of a diff by the *)
(* time they carry, that of its newer snapshot; time 0 stands for none.    *)
(***************************************************************************)
EXTENDS Integers, FiniteSets, FiniteSetsExt

CONSTANTS
  Content,     \* what a collector may find
  None,        \* no snapshot at this time; no policy read
  Policies,    \* retention policies: ages [recent, daily] of the two outer tiers
  Period,      \* the middle tiers keep one snapshot of each Period
  SlowScans,   \* whether time may pass between save_snapshot and the end of a scan
  MaxClock,    \* bound: time
  MaxFaults,   \* bound: scans and passes that raise, or whose worker dies
  MaxDeletes,  \* bound: snapshots a user deletes
  MaxEdits     \* bound: changes of the retention policy

Time == 1..MaxClock
Pass == {"scan", "startup"}

ASSUME ChangeLogAssumption ==
  /\ None \notin Content \cup Policies
  /\ Policies # {}
  /\ \A p \in Policies : p.recent \in Nat \ {0} /\ p.daily \in Nat /\ p.recent <= p.daily
  /\ SlowScans \in BOOLEAN
  /\ Period \in Nat \ {0} /\ MaxClock \in Nat /\ MaxClock >= 2
  /\ MaxFaults \in Nat /\ MaxDeletes \in Nat /\ MaxEdits \in Nat

VARIABLES
  clock,
  seen, base,     \* history: what each snapshot held, and what it was diffed against
  vanished,       \* history: a scan found the snapshot gone that it had listed
  manual,         \* snapshots of manual captures
  snapshots,      \* rows of table snapshots
  log,            \* times for which table changes has rows
  stored,         \* history: times whose diff was committed, empty ones included
  since,          \* setting log_since
  retained,       \* setting log_retained_since
  policy,         \* setting retention_policy
  pc, previous, current, mark,        \* the scan under way
  stage, chosen, victims, before,     \* apply_retention, per pass
  start,                              \* backfill_log_since: the marker it will write
  faults, deletes, edits

history == <<seen, base, vanished, manual, stored>>
tables  == <<snapshots, log, since, retained>>
scan    == <<pc, previous, current, mark>>
passes  == <<stage, chosen, victims, before>>
used    == <<faults, deletes, edits>>
vars    == <<clock, history, tables, policy, scan, passes, start, used>>

TypeOK ==
  /\ clock \in 0..MaxClock
  /\ seen \in [Time -> Content \cup {None}]
  /\ base \in [Time -> 0..MaxClock]
  /\ vanished \in BOOLEAN
  /\ manual \subseteq Time /\ snapshots \subseteq Time
  /\ log \subseteq Time /\ stored \subseteq Time
  /\ since \in 0..MaxClock /\ retained \in 0..MaxClock
  /\ policy \in Policies
  /\ pc \in {"idle", "read", "collect", "findings", "mark", "commit", "retain"}
  /\ previous \in 0..MaxClock /\ current \in 0..MaxClock /\ mark \in 0..MaxClock
  /\ stage \in [Pass -> {"idle", "select", "delete", "prune"}]
  /\ chosen \in [Pass -> Policies \cup {None}]
  /\ victims \in [Pass -> SUBSET Time]
  /\ before \in [Pass -> 0..MaxClock]
  /\ start \in 0..MaxClock
  /\ faults \in Nat /\ deletes \in Nat /\ edits \in Nat

\* Nothing captured yet ...
FreshDatabase ==
  /\ clock = 0
  /\ seen = [t \in Time |-> None] /\ base = [t \in Time |-> 0]
  /\ snapshots = {} /\ log = {} /\ stored = {}

\* ... or a database of a release that logged changes without a marker.  The older
\* snapshot of its one diff may have been pruned.
UpgradedDatabase ==
  /\ clock = 2
  /\ \E v, w \in Content :
       v # w /\ seen = [t \in Time |-> IF t = 1 THEN v ELSE IF t = 2 THEN w ELSE None]
  /\ base = [t \in Time |-> IF t = 2 THEN 1 ELSE 0]
  /\ snapshots \in {{1, 2}, {2}} /\ log = {2} /\ stored = {2}

Init ==
  /\ FreshDatabase \/ UpgradedDatabase
  /\ manual = {} /\ vanished = FALSE /\ since = 0 /\ retained = 0
  /\ policy \in Policies
  /\ pc = "idle" /\ previous = 0 /\ current = 0 /\ mark = 0
  /\ stage = [q \in Pass |-> "idle"]
  /\ chosen = [q \in Pass |-> None]
  /\ victims = [q \in Pass |-> {}]
  /\ before = [q \in Pass |-> 0]
  /\ start = 0
  /\ faults = 0 /\ deletes = 0 /\ edits = 0

\* The newest of the given times, 0 if there is none.
Newest(times) == IF times = {} THEN 0 ELSE Max(times)
Later(t, u) == IF t < u THEN u ELSE t

\* The scan is over, its locals gone; so is a pass.
ScanEnds == pc' = "idle" /\ previous' = 0 /\ current' = 0 /\ mark' = 0
PassEnds(q) ==
  /\ stage' = [stage EXCEPT ![q] = "idle"]
  /\ chosen' = [chosen EXCEPT ![q] = None]
  /\ victims' = [victims EXCEPT ![q] = {}]
  /\ before' = [before EXCEPT ![q] = 0]

-----------------------------------------------------------------------------
(* A scan, from latest_snapshot to apply_retention *)

\* latest_snapshots lists the newest snapshot in one query ...
ListLatest ==
  /\ pc = "idle"
  /\ previous' = Newest(snapshots)
  /\ pc' = IF snapshots = {} THEN "collect" ELSE "read"
  /\ UNCHANGED <<clock, history, tables, policy, current, mark, passes, start, used>>

\* ... and get_snapshot reads it in another.  If it was thinned or deleted in between,
\* the scan goes on as if it were the first, whatever older snapshots there are.
ReadPrevious ==
  /\ pc = "read"
  /\ previous' = IF previous \in snapshots THEN previous ELSE 0
  /\ vanished' = (vanished \/ previous \notin snapshots)
  /\ pc' = "collect"
  /\ UNCHANGED <<clock, seen, base, manual, stored, tables, policy, current, mark, passes, start, used>>

\* save_snapshot, once collecting and diffing have succeeded.
SaveSnapshot(found, byHand) ==
  /\ pc = "collect" /\ clock < MaxClock
  /\ clock' = clock + 1
  /\ current' = clock'
  /\ seen' = [seen EXCEPT ![clock'] = found]
  /\ base' = [base EXCEPT ![clock'] = previous]
  /\ manual' = IF byHand THEN manual \cup {clock'} ELSE manual
  /\ snapshots' = snapshots \cup {clock'}
  /\ pc' = "findings"
  /\ UNCHANGED <<vanished, stored, log, since, retained, policy, previous, mark, passes, start, used>>

\* The findings row references the snapshot: if it was deleted meanwhile, this raises
\* and the scan ends.  Only a first snapshot has no changes to save.
SaveFindings ==
  /\ pc = "findings"
  /\ \/ /\ current \notin snapshots
        /\ ScanEnds
     \/ /\ current \in snapshots
        /\ pc' = IF previous # 0 THEN "mark" ELSE "retain"
        /\ UNCHANGED <<previous, current, mark>>
  /\ UNCHANGED <<clock, history, tables, policy, passes, start, used>>

\* (mutant) the marker is written on its own, before the rows
WriteMark ==
  /\ pc = "mark"
  /\ since' = IF since # 0 THEN since
              ELSE IF previous \in snapshots THEN previous ELSE current
  /\ pc' = "commit"
  /\ UNCHANGED <<mark, clock, history, snapshots, log, retained, policy, previous, current, passes, start, used>>

\* save_changes, before its transaction: is this the first interval of the log?
ReadMark ==
  /\ pc = "mark"
  /\ mark' = IF since # 0 THEN 0
             ELSE IF previous \in snapshots THEN previous ELSE current
  /\ pc' = "commit"
  /\ UNCHANGED <<clock, history, tables, policy, previous, current, passes, start, used>>

\* (mutant) the first diff only starts the log
MarkOnly ==
  /\ pc = "commit"
  /\ since' = IF since = 0 THEN mark ELSE since
  /\ log' = IF mark = 0 /\ seen[previous] # seen[current] THEN log \cup {current} ELSE log
  /\ stored' = IF mark = 0 THEN stored \cup {current} ELSE stored
  /\ pc' = "retain"
  /\ UNCHANGED <<clock, seen, base, vanished, manual, snapshots, retained, policy, previous, current, mark,
                 passes, start, used>>

\* The transaction: the marker if none was written meanwhile, and the rows.
SaveChanges ==
  /\ pc = "commit"
  /\ since' = IF since = 0 THEN mark ELSE since
  /\ log' = IF seen[previous] # seen[current] THEN log \cup {current} ELSE log
  /\ stored' = stored \cup {current}
  /\ pc' = "retain"
  /\ UNCHANGED <<clock, seen, base, vanished, manual, snapshots, retained, policy, previous, current, mark,
                 passes, start, used>>

\* An exception or a killed worker ends the scan wherever it is.
ScanFails ==
  /\ pc # "idle"
  /\ faults < MaxFaults /\ faults' = faults + 1
  /\ ScanEnds /\ PassEnds("scan")
  /\ UNCHANGED <<clock, history, tables, policy, start, deletes, edits>>

-----------------------------------------------------------------------------
(* apply_retention: at the end of a scan, and on a starting worker *)

ReadPolicy(q) ==
  /\ stage[q] = "idle" /\ (q = "scan" => pc = "retain")
  /\ chosen' = [chosen EXCEPT ![q] = policy]
  /\ stage' = [stage EXCEPT ![q] = "select"]
  /\ UNCHANGED <<clock, history, tables, policy, scan, victims, before, start, used>>

Aged(low) == {t \in snapshots \ manual : clock - t >= low}

\* What select_retention_victims may pick: everything of the oldest age, and all but
\* one of the scheduled snapshots of each period of the middle ages.
Victims(p) ==
  LET expired == Aged(p.daily)
      middle  == Aged(p.recent) \ expired
      Kept(gone, t) == {u \in middle \ gone : u \div Period = t \div Period}
  IN {expired \cup gone : gone \in {g \in SUBSET middle : \A t \in middle : Cardinality(Kept(g, t)) = 1}}

SelectVictims(q) ==
  /\ stage[q] = "select"
  /\ \E chosenVictims \in Victims(chosen[q]) : victims' = [victims EXCEPT ![q] = chosenVictims]
  /\ before' = [before EXCEPT ![q] = Later(clock - chosen[q].daily, 0)]
  /\ stage' = [stage EXCEPT ![q] = "delete"]
  /\ UNCHANGED <<clock, history, tables, policy, scan, chosen, start, used>>

DeleteSnapshots(q) ==
  /\ stage[q] = "delete"
  /\ snapshots' = snapshots \ victims[q]
  /\ stage' = [stage EXCEPT ![q] = "prune"]
  /\ UNCHANGED <<clock, history, log, since, retained, policy, scan, chosen, victims, before, start, used>>

\* (mutant) the boundary is set to the given time, not moved forward to it
PruneAndSet(q) ==
  /\ stage[q] = "prune"
  /\ retained' = before[q]
  /\ log' = {t \in log : t >= before[q]}
  /\ PassEnds(q)
  /\ IF q = "scan" THEN ScanEnds ELSE UNCHANGED scan
  /\ UNCHANGED <<clock, history, snapshots, since, policy, start, used>>

\* prune_changes: one transaction for the boundary and the rows.
PruneChanges(q) ==
  /\ stage[q] = "prune"
  /\ retained' = Later(retained, before[q])
  /\ log' = {t \in log : t >= before[q]}
  /\ PassEnds(q)
  /\ IF q = "scan" THEN ScanEnds ELSE UNCHANGED scan
  /\ UNCHANGED <<clock, history, snapshots, since, policy, start, used>>

StartupPassFails ==
  /\ stage["startup"] # "idle"
  /\ faults < MaxFaults /\ faults' = faults + 1
  /\ PassEnds("startup")
  /\ UNCHANGED <<clock, history, tables, policy, scan, start, deletes, edits>>

-----------------------------------------------------------------------------
(* backfill_log_since, and the rest of the world *)

BackfillRead ==
  /\ start = 0 /\ since = 0 /\ log # {}
  /\ LET oldest == Min(log)
     IN start' = IF base[oldest] \in snapshots THEN base[oldest] ELSE oldest
  /\ UNCHANGED <<clock, history, tables, policy, scan, passes, used>>

\* set_setting overwrites.
BackfillWrite ==
  /\ start # 0
  /\ since' = start
  /\ start' = 0
  /\ UNCHANGED <<clock, history, snapshots, log, retained, policy, scan, passes, used>>

BackfillFails ==
  /\ start # 0
  /\ faults < MaxFaults /\ faults' = faults + 1
  /\ start' = 0
  /\ UNCHANGED <<clock, history, tables, policy, scan, passes, deletes, edits>>

\* DELETE /snapshots/{id}.
DeleteSnapshot(t) ==
  /\ t \in snapshots
  /\ deletes < MaxDeletes /\ deletes' = deletes + 1
  /\ snapshots' = snapshots \ {t}
  /\ UNCHANGED <<clock, history, log, since, retained, policy, scan, passes, start, faults, edits>>

SetPolicy(p) ==
  /\ p # policy
  /\ edits < MaxEdits /\ edits' = edits + 1
  /\ policy' = p
  /\ UNCHANGED <<clock, history, tables, scan, passes, start, faults, deletes>>

\* Ages are whole days, so SlowScans = FALSE is the normal case.
Tick ==
  /\ clock < MaxClock
  /\ SlowScans \/ pc \in {"idle", "read", "collect"}
  /\ clock' = clock + 1
  /\ UNCHANGED <<history, tables, policy, scan, passes, start, used>>

Next ==
  \/ ListLatest \/ ReadPrevious \/ SaveFindings \/ ReadMark \/ SaveChanges \/ ScanFails
  \/ \E found \in Content, byHand \in BOOLEAN : SaveSnapshot(found, byHand)
  \/ \E q \in Pass : ReadPolicy(q) \/ SelectVictims(q) \/ DeleteSnapshots(q) \/ PruneChanges(q)
  \/ StartupPassFails
  \/ BackfillRead \/ BackfillWrite \/ BackfillFails
  \/ \E t \in Time : DeleteSnapshot(t)
  \/ \E p \in Policies : SetPolicy(p)
  \/ Tick

Spec == Init /\ [][Next]_vars

-----------------------------------------------------------------------------
(* What the log promises its readers *)

\* effective_log_since; the log claims every change from there on.
EffectiveSince == Later(since, retained)
Claims(t) == since # 0 /\ t >= EffectiveSince

\* "A longer policy selected later cannot claim rows already pruned": the rows of a
\* diff that was stored and is claimed are there, whatever the policies and the
\* passes, stale or overlapping, did to them.
ClaimedRowsPresent ==
  \A t \in stored : Claims(t) /\ seen[base[t]] # seen[t] => t \in log

\* An end of an interval that was stored.
EndOfStored(m) == \E t \in stored : m \in {base[t], t}

\* "Setting it first and failing afterwards would leave the connection claiming an
\* interval it never stored": the interval at which the log starts was stored.
MarkerBacked == since # 0 => EndOfStored(since)

\* Every interval the log claims was stored ...
ClaimsOnlyStored ==
  \A t \in Time : seen[t] # None /\ base[t] # 0 /\ Claims(base[t]) =>
     t \in stored \/ (pc # "idle" /\ t = current)

\* "Every scan computes diff(previous, current) and writes the rows": the log's last
\* word is what the last scan that logged its diff found.
LogEndsAtLatest == log # {} => seen[Max(log)] = seen[Max(stored)]

\* As long as no scan fails or loses the snapshot it is to be compared with, and every
\* scan that had a base still has its snapshot, no claimed interval is missing and the
\* log is current.
Untouched == \A t \in Time : base[t] # 0 => t \in snapshots
LogComplete == faults = 0 /\ ~vanished /\ Untouched => ClaimsOnlyStored /\ LogEndsAtLatest

\* "log_since is set once and never moved, so a second writer racing the first must
\* not overwrite it."
LogSinceNeverMoves == [][since # 0 => since' = since]_since

-----------------------------------------------------------------------------
(* The inductive invariant behind the safety properties *)

\* What the scan holds is what it captured, and an older snapshot is its base.
Frames ==
  /\ \A t \in Time : t > clock => seen[t] = None
  /\ snapshots \subseteq 1..clock
  /\ previous <= clock
  /\ pc \in {"findings", "mark", "commit", "retain"} =>
       current \in 1..clock /\ base[current] = previous
  /\ pc \in {"read", "mark", "commit"} => previous # 0
  /\ pc = "commit" => mark \in {0, previous, current}
  /\ \A q \in Pass : stage[q] = "select" => chosen[q] \in Policies
  /\ stage["scan"] # "idle" => pc = "retain"

\* Rows are of stored diffs, and a stored diff was against a snapshot.
Rows ==
  /\ log \subseteq stored
  /\ \A t \in stored : t <= clock /\ base[t] \in 1..clock

Markers ==
  /\ MarkerBacked
  /\ start # 0 => EndOfStored(start)

\* All rows retention has not reached are there, claimed or not.
KeptRows ==
  \A t \in stored : t >= retained /\ seen[base[t]] # seen[t] => t \in log

\* A diff is against what was captured before, and no snapshot older than it that is
\* still there was captured after its base, if no scan lost its base.
Bases ==
  /\ \A t \in Time : base[t] # 0 => seen[t] # None /\ base[t] < t /\ seen[base[t]] # None
  /\ \A u \in snapshots :
       /\ seen[u] # None
       /\ ~vanished => \A t \in Time : u < t /\ seen[t] # None => u <= base[t]
  /\ pc \in {"read", "collect"} =>
       /\ previous # 0 => seen[previous] # None
       /\ ~vanished => \A u \in snapshots : u <= previous
  /\ pc \in {"findings", "mark", "commit", "retain"} =>
       \A t \in Time : seen[t] # None => t <= current

\* A diff that is not stored, nor will be by the scan under way, is of a snapshot that
\* was deleted before it could become the base of another.
Abandoned(t) ==
  base[t] # 0 /\ t \notin stored /\ ~(pc \in {"findings", "mark", "commit"} /\ t = current)
AbandonedGone ==
  faults = 0 => \A t \in Time : Abandoned(t) =>
    /\ t \notin snapshots
    /\ \A u \in Time : base[u] # t
    /\ pc \in {"read", "collect"} => previous # t

\* Rows go from the oldest.
OldestGoFirst ==
  \A t \in log, u \in stored : t < u /\ seen[base[u]] # seen[u] => u \in log

ChangeLogInv ==
  TypeOK /\ Frames /\ Rows /\ Markers /\ KeptRows /\ Bases /\ AbandonedGone /\ OldestGoFirst

=============================================================================
