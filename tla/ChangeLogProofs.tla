-------------------------- MODULE ChangeLogProofs --------------------------
(* Proofs about ChangeLog, for every clock bound, policy set and amount of *)
(* failures, deletions and policy edits.                                   *)
EXTENDS Related, FiniteSetTheorems, WellFoundedInduction, TLAPS

\* A set of times that is not empty has an oldest time.
LEMMA MinTime ==
  ASSUME NEW S \in SUBSET Nat, S # {}
  PROVE  Min(S) \in S /\ \A y \in S : Min(S) <= y
<1>1. PICK x \in S : \A y \in S : <<y, x>> \notin OpToRel(<, Nat)
  BY NatLessThanWellFounded, WFMin, Zenon
<1>2. ASSUME NEW y \in S PROVE ~ (y < x)
  <2>1. y \in Nat /\ x \in Nat OBVIOUS
  <2>. QED BY <1>1, <2>1, Zenon DEF OpToRel
<1>3. \A y \in S : x <= y BY <1>2
<1>. QED BY <1>3 DEF Min

\* And, time being bounded, a newest one.
LEMMA MaxTime ==
  ASSUME NEW n \in Nat, NEW S \in SUBSET (0..n), S # {}
  PROVE  Max(S) \in S /\ \A y \in S : y <= Max(S)
<1>. DEFINE T == {k \in 0..n : n - k \in S}
<1>1. T \in SUBSET Nat /\ T # {}
  <2>1. PICK y \in S : TRUE OBVIOUS
  <2>2. n - y \in 0..n /\ n - (n - y) = y BY <2>1
  <2>3. n - y \in T BY <2>1, <2>2
  <2>4. T \subseteq Nat OBVIOUS
  <2>. QED BY <2>3, <2>4
<1>2. PICK x \in T : \A k \in T : <<k, x>> \notin OpToRel(<, Nat)
  <2>. HIDE DEF T
  <2>. QED BY <1>1, NatLessThanWellFounded, WFMin, Zenon
<1>3. ASSUME NEW y \in S PROVE n - x >= y
  <2>1. y \in 0..n /\ n - y \in 0..n /\ n - (n - y) = y OBVIOUS
  <2>2. n - y \in T /\ n - y \in Nat /\ x \in Nat BY <2>1
  <2>3. ~ (n - y < x)
    <3>. HIDE DEF T
    <3>. QED BY <1>2, <2>2, Zenon DEF OpToRel
  <2>. QED BY <2>1, <2>2, <2>3
<1>. QED BY <1>3 DEF Max

\* The snapshot a scan diffs against is one of those stored, or none.
LEMMA NewestType ==
  ASSUME NEW times \in SUBSET Time
  PROVE  Newest(times) \in times \cup {0}
<1>1. CASE times = {} BY <1>1 DEF Newest
<1>2. CASE times # {}
  <2>1. MaxClock \in Nat BY ChangeLogAssumption
  <2>2. times \in SUBSET (0..MaxClock) BY DEF Time
  <2>. QED BY <2>1, <2>2, <1>2, MaxTime DEF Newest
<1>. QED BY <1>1, <1>2

LEMMA NewestLast ==
  ASSUME NEW times \in SUBSET Time, NEW t \in times
  PROVE  t <= Newest(times)
<1>1. MaxClock \in Nat BY ChangeLogAssumption
<1>2. times \in SUBSET (0..MaxClock) BY DEF Time
<1>. QED BY <1>1, <1>2, MaxTime DEF Newest

\* Retention only ever selects snapshots.
LEMMA VictimsType ==
  ASSUME NEW p, NEW v \in Victims(p)
  PROVE  v \subseteq snapshots
BY DEF Victims, Aged

-----------------------------------------------------------------------------

\* Every action keeps every variable in its type.
LEMMA TypeStep ==
  ASSUME TypeOK, Frames, Rows, Markers, KeptRows, [Next]_vars
  PROVE  TypeOK'
<1>. USE ChangeLogAssumption
<1>1. ASSUME ListLatest PROVE TypeOK'
  <2>1. previous' \in snapshots \cup {0}
    BY <1>1, NewestType DEF TypeOK, ListLatest
  <2>2. previous' \in 0..MaxClock BY <2>1 DEF TypeOK, Time
  <2>3. pc' \in {"idle", "read", "collect", "findings", "mark", "commit", "retain"}
    BY <1>1 DEF TypeOK, ListLatest
  <2>. QED BY <1>1, <2>2, <2>3 DEF TypeOK, ListLatest, history, tables, passes, used
<1>19. ASSUME ReadPrevious PROVE TypeOK'
  BY <1>19 DEF TypeOK, ReadPrevious, tables, passes, used, Time
<1>2. ASSUME SaveFindings PROVE TypeOK'
  BY <1>2 DEF TypeOK, SaveFindings, ScanEnds, history, tables, scan, passes, used, Time
<1>3. ASSUME ReadMark PROVE TypeOK'
  BY <1>3 DEF TypeOK, ReadMark, history, tables, scan, passes, used, Time
<1>4. ASSUME SaveChanges PROVE TypeOK'
  <2>1. current \in Time BY <1>4 DEF TypeOK, Frames, SaveChanges, Time
  <2>2. since' \in 0..MaxClock BY <1>4 DEF TypeOK, SaveChanges
  <2>3. log' \subseteq Time /\ stored' \subseteq Time
    BY <1>4, <2>1 DEF TypeOK, SaveChanges
  <2>. QED BY <1>4, <2>2, <2>3 DEF TypeOK, SaveChanges, history, tables, scan, passes, used
<1>5. ASSUME ScanFails PROVE TypeOK'
  <2>1. stage' \in [Pass -> {"idle", "select", "delete", "prune"}]
    BY <1>5 DEF TypeOK, ScanFails, PassEnds, Pass
  <2>2. chosen' \in [Pass -> Policies \cup {None}] /\ victims' \in [Pass -> SUBSET Time]
    BY <1>5 DEF TypeOK, ScanFails, PassEnds, Pass
  <2>3. before' \in [Pass -> 0..MaxClock]
    BY <1>5 DEF TypeOK, ScanFails, PassEnds, Pass
  <2>. QED BY <1>5, <2>1, <2>2, <2>3 DEF TypeOK, ScanFails, ScanEnds, history, tables, scan, passes, used
<1>6. ASSUME NEW found \in Content, NEW byHand \in BOOLEAN, SaveSnapshot(found, byHand) PROVE TypeOK'
  BY <1>6 DEF TypeOK, SaveSnapshot, history, tables, scan, passes, used, Time
<1>7. ASSUME NEW q \in Pass, ReadPolicy(q) PROVE TypeOK'
  BY <1>7 DEF TypeOK, ReadPolicy, history, tables, scan, passes, used, Time
<1>8. ASSUME NEW q \in Pass, SelectVictims(q) PROVE TypeOK'
  <2>1. PICK v \in Victims(chosen[q]) : victims' = [victims EXCEPT ![q] = v]
    BY <1>8 DEF SelectVictims
  <2>2. victims' \in [Pass -> SUBSET Time]
    BY <2>1, VictimsType DEF TypeOK
  <2>3. Later(clock - chosen[q].daily, 0) \in 0..MaxClock
    <3>1. clock \in 0..MaxClock BY DEF TypeOK
    <3>2. chosen[q] \in Policies BY <1>8 DEF Frames, TypeOK, SelectVictims
    <3>. QED BY <3>1, <3>2 DEF Later
  <2>4. before' \in [Pass -> 0..MaxClock]
    BY <1>8, <2>3 DEF TypeOK, SelectVictims
  <2>5. stage' \in [Pass -> {"idle", "select", "delete", "prune"}]
    BY <1>8 DEF TypeOK, SelectVictims
  <2>. QED BY <1>8, <2>2, <2>4, <2>5 DEF TypeOK, SelectVictims, history, tables, scan, passes, used
<1>9. ASSUME NEW q \in Pass, DeleteSnapshots(q) PROVE TypeOK'
  BY <1>9 DEF TypeOK, DeleteSnapshots, history, tables, scan, passes, used, Time
<1>10. ASSUME NEW q \in Pass, PruneChanges(q) PROVE TypeOK'
  <2>1. stage' \in [Pass -> {"idle", "select", "delete", "prune"}]
    BY <1>10 DEF TypeOK, PruneChanges, PassEnds
  <2>2. chosen' \in [Pass -> Policies \cup {None}] /\ victims' \in [Pass -> SUBSET Time]
    BY <1>10 DEF TypeOK, PruneChanges, PassEnds
  <2>3. before[q] \in 0..MaxClock /\ before' \in [Pass -> 0..MaxClock]
    BY <1>10 DEF TypeOK, PruneChanges, PassEnds
  <2>4. retained' \in 0..MaxClock
    BY <1>10, <2>3 DEF TypeOK, PruneChanges, Later
  <2>5. log' \subseteq Time
    BY <1>10 DEF TypeOK, PruneChanges
  <2>6. /\ pc' \in {"idle", "read", "collect", "findings", "mark", "commit", "retain"}
        /\ previous' \in 0..MaxClock /\ current' \in 0..MaxClock /\ mark' \in 0..MaxClock
    BY <1>10 DEF TypeOK, PruneChanges, ScanEnds, scan
  <2>. QED BY <1>10, <2>1, <2>2, <2>3, <2>4, <2>5, <2>6 DEF TypeOK, PruneChanges, history, tables, scan, passes, used
<1>11. ASSUME StartupPassFails PROVE TypeOK'
  <2>1. stage' \in [Pass -> {"idle", "select", "delete", "prune"}]
    BY <1>11 DEF TypeOK, StartupPassFails, PassEnds, Pass
  <2>2. chosen' \in [Pass -> Policies \cup {None}] /\ victims' \in [Pass -> SUBSET Time]
    BY <1>11 DEF TypeOK, StartupPassFails, PassEnds, Pass
  <2>3. before' \in [Pass -> 0..MaxClock]
    BY <1>11 DEF TypeOK, StartupPassFails, PassEnds, Pass
  <2>. QED BY <1>11, <2>1, <2>2, <2>3 DEF TypeOK, StartupPassFails, history, tables, scan, passes, used
<1>12. ASSUME BackfillRead PROVE TypeOK'
  <2>1. log \in SUBSET Nat /\ log # {} BY <1>12 DEF TypeOK, BackfillRead, Time
  <2>2. Min(log) \in log BY <2>1, MinTime
  <2>3. Min(log) \in Time /\ base[Min(log)] \in 0..MaxClock BY <2>2 DEF TypeOK
  <2>4. start' \in 0..MaxClock BY <1>12, <2>3 DEF BackfillRead, Time
  <2>. QED BY <1>12, <2>4 DEF TypeOK, BackfillRead, history, tables, scan, passes, used
<1>13. ASSUME BackfillWrite PROVE TypeOK'
  BY <1>13 DEF TypeOK, BackfillWrite, history, tables, scan, passes, used, Time
<1>14. ASSUME BackfillFails PROVE TypeOK'
  BY <1>14 DEF TypeOK, BackfillFails, history, tables, scan, passes, used, Time
<1>15. ASSUME NEW t \in Time, DeleteSnapshot(t) PROVE TypeOK'
  BY <1>15 DEF TypeOK, DeleteSnapshot, history, tables, scan, passes, used, Time
<1>16. ASSUME NEW p \in Policies, SetPolicy(p) PROVE TypeOK'
  BY <1>16 DEF TypeOK, SetPolicy, history, tables, scan, passes, used, Time
<1>17. ASSUME Tick PROVE TypeOK'
  BY <1>17 DEF TypeOK, Tick, history, tables, scan, passes, used, Time
<1>18. ASSUME UNCHANGED vars PROVE TypeOK'
  BY <1>18 DEF TypeOK, vars, history, tables, scan, passes, used, Time
<1>. QED BY <1>1, <1>2, <1>3, <1>4, <1>5, <1>6, <1>7, <1>8, <1>9, <1>10, <1>11, <1>12, <1>13, <1>14, <1>15, <1>16, <1>17, <1>18, <1>19 DEF Next

\* The scan goes on holding the snapshot it captured and the one it was diffed against.
LEMMA FramesStep ==
  ASSUME TypeOK, Frames, Rows, Markers, KeptRows, [Next]_vars
  PROVE  Frames'
<1>. USE ChangeLogAssumption
<1>1. ASSUME ListLatest PROVE Frames'
  <2>1. previous' \in snapshots \cup {0}
    BY <1>1, NewestType DEF TypeOK, ListLatest
  <2>2. ASSUME NEW u \in snapshots PROVE previous' # 0
    <3>1. u <= previous' BY <1>1, NewestLast DEF TypeOK, ListLatest
    <3>. QED BY <2>1, <3>1 DEF TypeOK, Time
  <2>3. pc' = "read" => previous' # 0 BY <1>1, <2>2 DEF ListLatest
  <2>. QED BY <1>1, <2>1, <2>3 DEF TypeOK, Frames, ListLatest, history, tables, scan, passes, used, Time, Pass
<1>19. ASSUME ReadPrevious PROVE Frames'
  BY <1>19 DEF TypeOK, Frames, ReadPrevious, tables, passes, used, Time, Pass
<1>2. ASSUME SaveFindings PROVE Frames'
  BY <1>2 DEF TypeOK, Frames, SaveFindings, ScanEnds, history, tables, scan, passes, used, Time, Pass
<1>3. ASSUME ReadMark PROVE Frames'
  BY <1>3 DEF TypeOK, Frames, ReadMark, history, tables, scan, passes, used, Time, Pass
<1>4. ASSUME SaveChanges PROVE Frames'
  BY <1>4 DEF TypeOK, Frames, SaveChanges, history, tables, scan, passes, used, Time, Pass
<1>5. ASSUME ScanFails PROVE Frames'
  BY <1>5 DEF TypeOK, Frames, ScanFails, ScanEnds, PassEnds, history, tables, scan, passes, used, Time, Pass
<1>6. ASSUME NEW found \in Content, NEW byHand \in BOOLEAN, SaveSnapshot(found, byHand) PROVE Frames'
  BY <1>6 DEF TypeOK, Frames, SaveSnapshot, history, tables, scan, passes, used, Time, Pass
<1>7. ASSUME NEW q \in Pass, ReadPolicy(q) PROVE Frames'
  BY <1>7 DEF TypeOK, Frames, ReadPolicy, history, tables, scan, passes, used, Time, Pass
<1>8. ASSUME NEW q \in Pass, SelectVictims(q) PROVE Frames'
  BY <1>8 DEF TypeOK, Frames, SelectVictims, history, tables, scan, passes, used, Time, Pass
<1>9. ASSUME NEW q \in Pass, DeleteSnapshots(q) PROVE Frames'
  BY <1>9 DEF TypeOK, Frames, DeleteSnapshots, history, tables, scan, passes, used, Time, Pass
<1>10. ASSUME NEW q \in Pass, PruneChanges(q) PROVE Frames'
  BY <1>10, SMTT(30) DEF TypeOK, Frames, PruneChanges, PassEnds, ScanEnds, history, tables, scan, passes, used, Time, Pass
<1>11. ASSUME StartupPassFails PROVE Frames'
  BY <1>11 DEF TypeOK, Frames, StartupPassFails, PassEnds, history, tables, scan, passes, used, Time, Pass
<1>12. ASSUME BackfillRead PROVE Frames'
  BY <1>12 DEF TypeOK, Frames, BackfillRead, history, tables, scan, passes, used, Time, Pass
<1>13. ASSUME BackfillWrite PROVE Frames'
  BY <1>13 DEF TypeOK, Frames, BackfillWrite, history, tables, scan, passes, used, Time, Pass
<1>14. ASSUME BackfillFails PROVE Frames'
  BY <1>14 DEF TypeOK, Frames, BackfillFails, history, tables, scan, passes, used, Time, Pass
<1>15. ASSUME NEW t \in Time, DeleteSnapshot(t) PROVE Frames'
  BY <1>15 DEF TypeOK, Frames, DeleteSnapshot, history, tables, scan, passes, used, Time, Pass
<1>16. ASSUME NEW p \in Policies, SetPolicy(p) PROVE Frames'
  BY <1>16 DEF TypeOK, Frames, SetPolicy, history, tables, scan, passes, used, Time, Pass
<1>17. ASSUME Tick PROVE Frames'
  BY <1>17 DEF TypeOK, Frames, Tick, history, tables, scan, passes, used, Time, Pass
<1>18. ASSUME UNCHANGED vars PROVE Frames'
  BY <1>18 DEF TypeOK, Frames, vars, history, tables, scan, passes, used, Time, Pass
<1>. QED BY <1>1, <1>2, <1>3, <1>4, <1>5, <1>6, <1>7, <1>8, <1>9, <1>10, <1>11, <1>12, <1>13, <1>14, <1>15, <1>16, <1>17, <1>18, <1>19 DEF Next

\* Rows are only ever of diffs that were stored.
LEMMA RowsStep ==
  ASSUME TypeOK, Frames, Rows, Markers, KeptRows, [Next]_vars
  PROVE  Rows'
<1>. USE ChangeLogAssumption
<1>1. ASSUME ListLatest PROVE Rows'
  BY <1>1 DEF TypeOK, Frames, Rows, ListLatest, history, tables, scan, passes, used, Time
<1>19. ASSUME ReadPrevious PROVE Rows'
  BY <1>19 DEF TypeOK, Frames, Rows, ReadPrevious, tables, passes, used, Time
<1>2. ASSUME SaveFindings PROVE Rows'
  BY <1>2 DEF TypeOK, Frames, Rows, SaveFindings, ScanEnds, history, tables, scan, passes, used, Time
<1>3. ASSUME ReadMark PROVE Rows'
  BY <1>3 DEF TypeOK, Frames, Rows, ReadMark, history, tables, scan, passes, used, Time
<1>4. ASSUME SaveChanges PROVE Rows'
  <2>1. current \in 1..clock /\ base[current] = previous /\ previous \in 1..clock
    BY <1>4 DEF TypeOK, Frames, SaveChanges
  <2>2. log' \subseteq stored' BY <1>4 DEF Rows, SaveChanges
  <2>3. base[current] \in 1..clock BY <2>1
  <2>4. \A t \in stored' : t <= clock /\ base[t] \in 1..clock
    BY <1>4, <2>1, <2>3 DEF Rows, TypeOK, SaveChanges, Time
  <2>. QED BY <1>4, <2>2, <2>4 DEF Rows, SaveChanges
<1>5. ASSUME ScanFails PROVE Rows'
  BY <1>5 DEF TypeOK, Frames, Rows, ScanFails, ScanEnds, PassEnds, history, tables, scan, passes, used, Time
<1>6. ASSUME NEW found \in Content, NEW byHand \in BOOLEAN, SaveSnapshot(found, byHand) PROVE Rows'
  BY <1>6 DEF TypeOK, Frames, Rows, SaveSnapshot, history, tables, scan, passes, used, Time
<1>7. ASSUME NEW q \in Pass, ReadPolicy(q) PROVE Rows'
  BY <1>7 DEF TypeOK, Frames, Rows, ReadPolicy, history, tables, scan, passes, used, Time
<1>8. ASSUME NEW q \in Pass, SelectVictims(q) PROVE Rows'
  BY <1>8 DEF TypeOK, Frames, Rows, SelectVictims, history, tables, scan, passes, used, Time
<1>9. ASSUME NEW q \in Pass, DeleteSnapshots(q) PROVE Rows'
  BY <1>9 DEF TypeOK, Frames, Rows, DeleteSnapshots, history, tables, scan, passes, used, Time
<1>10. ASSUME NEW q \in Pass, PruneChanges(q) PROVE Rows'
  BY <1>10 DEF TypeOK, Frames, Rows, PruneChanges, PassEnds, ScanEnds, history, tables, scan, passes, used, Time
<1>11. ASSUME StartupPassFails PROVE Rows'
  BY <1>11 DEF TypeOK, Frames, Rows, StartupPassFails, PassEnds, history, tables, scan, passes, used, Time
<1>12. ASSUME BackfillRead PROVE Rows'
  BY <1>12 DEF TypeOK, Frames, Rows, BackfillRead, history, tables, scan, passes, used, Time
<1>13. ASSUME BackfillWrite PROVE Rows'
  BY <1>13 DEF TypeOK, Frames, Rows, BackfillWrite, history, tables, scan, passes, used, Time
<1>14. ASSUME BackfillFails PROVE Rows'
  BY <1>14 DEF TypeOK, Frames, Rows, BackfillFails, history, tables, scan, passes, used, Time
<1>15. ASSUME NEW t \in Time, DeleteSnapshot(t) PROVE Rows'
  BY <1>15 DEF TypeOK, Frames, Rows, DeleteSnapshot, history, tables, scan, passes, used, Time
<1>16. ASSUME NEW p \in Policies, SetPolicy(p) PROVE Rows'
  BY <1>16 DEF TypeOK, Frames, Rows, SetPolicy, history, tables, scan, passes, used, Time
<1>17. ASSUME Tick PROVE Rows'
  BY <1>17 DEF TypeOK, Frames, Rows, Tick, history, tables, scan, passes, used, Time
<1>18. ASSUME UNCHANGED vars PROVE Rows'
  BY <1>18 DEF TypeOK, Frames, Rows, vars, history, tables, scan, passes, used, Time
<1>. QED BY <1>1, <1>2, <1>3, <1>4, <1>5, <1>6, <1>7, <1>8, <1>9, <1>10, <1>11, <1>12, <1>13, <1>14, <1>15, <1>16, <1>17, <1>18, <1>19 DEF Next

\* Neither save_changes nor the backfill writes a marker that no stored diff backs.
LEMMA MarkersStep ==
  ASSUME TypeOK, Frames, Rows, Markers, KeptRows, [Next]_vars
  PROVE  Markers'
<1>. USE ChangeLogAssumption
<1>1. ASSUME ListLatest PROVE Markers'
  BY <1>1 DEF TypeOK, Frames, Rows, Markers, MarkerBacked, EndOfStored, ListLatest, history, tables, scan, passes, used, Time
<1>19. ASSUME ReadPrevious PROVE Markers'
  BY <1>19 DEF TypeOK, Frames, Rows, Markers, MarkerBacked, EndOfStored, ReadPrevious, tables, passes, used, Time
<1>2. ASSUME SaveFindings PROVE Markers'
  BY <1>2 DEF TypeOK, Frames, Rows, Markers, MarkerBacked, EndOfStored, SaveFindings, ScanEnds, history, tables, scan, passes, used, Time
<1>3. ASSUME ReadMark PROVE Markers'
  BY <1>3 DEF TypeOK, Frames, Rows, Markers, MarkerBacked, EndOfStored, ReadMark, history, tables, scan, passes, used, Time
<1>4. ASSUME SaveChanges PROVE Markers'
  BY <1>4 DEF TypeOK, Frames, Rows, Markers, MarkerBacked, EndOfStored, SaveChanges, history, tables, scan, passes, used, Time
<1>5. ASSUME ScanFails PROVE Markers'
  BY <1>5 DEF TypeOK, Frames, Rows, Markers, MarkerBacked, EndOfStored, ScanFails, ScanEnds, PassEnds, history, tables, scan, passes, used, Time
<1>6. ASSUME NEW found \in Content, NEW byHand \in BOOLEAN, SaveSnapshot(found, byHand) PROVE Markers'
  BY <1>6 DEF TypeOK, Frames, Rows, Markers, MarkerBacked, EndOfStored, SaveSnapshot, history, tables, scan, passes, used, Time
<1>7. ASSUME NEW q \in Pass, ReadPolicy(q) PROVE Markers'
  BY <1>7 DEF TypeOK, Frames, Rows, Markers, MarkerBacked, EndOfStored, ReadPolicy, history, tables, scan, passes, used, Time
<1>8. ASSUME NEW q \in Pass, SelectVictims(q) PROVE Markers'
  BY <1>8 DEF TypeOK, Frames, Rows, Markers, MarkerBacked, EndOfStored, SelectVictims, history, tables, scan, passes, used, Time
<1>9. ASSUME NEW q \in Pass, DeleteSnapshots(q) PROVE Markers'
  BY <1>9 DEF TypeOK, Frames, Rows, Markers, MarkerBacked, EndOfStored, DeleteSnapshots, history, tables, scan, passes, used, Time
<1>10. ASSUME NEW q \in Pass, PruneChanges(q) PROVE Markers'
  BY <1>10 DEF TypeOK, Frames, Rows, Markers, MarkerBacked, EndOfStored, PruneChanges, PassEnds, ScanEnds, history, tables, scan, passes, used, Time
<1>11. ASSUME StartupPassFails PROVE Markers'
  BY <1>11 DEF TypeOK, Frames, Rows, Markers, MarkerBacked, EndOfStored, StartupPassFails, PassEnds, history, tables, scan, passes, used, Time
<1>12. ASSUME BackfillRead PROVE Markers'
  <2>1. log \in SUBSET Nat /\ log # {} BY <1>12 DEF TypeOK, BackfillRead, Time
  <2>2. Min(log) \in stored BY <2>1, MinTime DEF Rows
  <2>3. start' \in {base[Min(log)], Min(log)} BY <1>12 DEF BackfillRead
  <2>. QED BY <1>12, <2>2, <2>3 DEF Markers, MarkerBacked, EndOfStored, BackfillRead, history, tables, scan, passes, used
<1>13. ASSUME BackfillWrite PROVE Markers'
  BY <1>13 DEF TypeOK, Frames, Rows, Markers, MarkerBacked, EndOfStored, BackfillWrite, history, tables, scan, passes, used, Time
<1>14. ASSUME BackfillFails PROVE Markers'
  BY <1>14 DEF TypeOK, Frames, Rows, Markers, MarkerBacked, EndOfStored, BackfillFails, history, tables, scan, passes, used, Time
<1>15. ASSUME NEW t \in Time, DeleteSnapshot(t) PROVE Markers'
  BY <1>15 DEF TypeOK, Frames, Rows, Markers, MarkerBacked, EndOfStored, DeleteSnapshot, history, tables, scan, passes, used, Time
<1>16. ASSUME NEW p \in Policies, SetPolicy(p) PROVE Markers'
  BY <1>16 DEF TypeOK, Frames, Rows, Markers, MarkerBacked, EndOfStored, SetPolicy, history, tables, scan, passes, used, Time
<1>17. ASSUME Tick PROVE Markers'
  BY <1>17 DEF TypeOK, Frames, Rows, Markers, MarkerBacked, EndOfStored, Tick, history, tables, scan, passes, used, Time
<1>18. ASSUME UNCHANGED vars PROVE Markers'
  BY <1>18 DEF TypeOK, Frames, Rows, Markers, MarkerBacked, EndOfStored, vars, history, tables, scan, passes, used, Time
<1>. QED BY <1>1, <1>2, <1>3, <1>4, <1>5, <1>6, <1>7, <1>8, <1>9, <1>10, <1>11, <1>12, <1>13, <1>14, <1>15, <1>16, <1>17, <1>18, <1>19 DEF Next

\* Pruning moves the boundary past every row it deletes, and never back.
LEMMA KeptStep ==
  ASSUME TypeOK, Frames, Rows, Markers, KeptRows, [Next]_vars
  PROVE  KeptRows'
<1>. USE ChangeLogAssumption
<1>1. ASSUME ListLatest PROVE KeptRows'
  BY <1>1 DEF TypeOK, Frames, Rows, KeptRows, ListLatest, history, tables, scan, passes, used, Time
<1>19. ASSUME ReadPrevious PROVE KeptRows'
  BY <1>19 DEF TypeOK, Frames, Rows, KeptRows, ReadPrevious, tables, passes, used, Time
<1>2. ASSUME SaveFindings PROVE KeptRows'
  BY <1>2 DEF TypeOK, Frames, Rows, KeptRows, SaveFindings, ScanEnds, history, tables, scan, passes, used, Time
<1>3. ASSUME ReadMark PROVE KeptRows'
  BY <1>3 DEF TypeOK, Frames, Rows, KeptRows, ReadMark, history, tables, scan, passes, used, Time
<1>4. ASSUME SaveChanges PROVE KeptRows'
  BY <1>4 DEF TypeOK, Frames, Rows, KeptRows, SaveChanges, history, tables, scan, passes, used, Time
<1>5. ASSUME ScanFails PROVE KeptRows'
  BY <1>5 DEF TypeOK, Frames, Rows, KeptRows, ScanFails, ScanEnds, PassEnds, history, tables, scan, passes, used, Time
<1>6. ASSUME NEW found \in Content, NEW byHand \in BOOLEAN, SaveSnapshot(found, byHand) PROVE KeptRows'
  BY <1>6 DEF TypeOK, Frames, Rows, KeptRows, SaveSnapshot, history, tables, scan, passes, used, Time
<1>7. ASSUME NEW q \in Pass, ReadPolicy(q) PROVE KeptRows'
  BY <1>7 DEF TypeOK, Frames, Rows, KeptRows, ReadPolicy, history, tables, scan, passes, used, Time
<1>8. ASSUME NEW q \in Pass, SelectVictims(q) PROVE KeptRows'
  BY <1>8 DEF TypeOK, Frames, Rows, KeptRows, SelectVictims, history, tables, scan, passes, used, Time
<1>9. ASSUME NEW q \in Pass, DeleteSnapshots(q) PROVE KeptRows'
  BY <1>9 DEF TypeOK, Frames, Rows, KeptRows, DeleteSnapshots, history, tables, scan, passes, used, Time
<1>10. ASSUME NEW q \in Pass, PruneChanges(q) PROVE KeptRows'
  <2>1. before[q] \in 0..MaxClock /\ retained \in 0..MaxClock BY DEF TypeOK
  <2>2. retained' >= retained /\ retained' >= before[q]
    BY <1>10, <2>1 DEF PruneChanges, Later
  <2>3. stored' = stored /\ seen' = seen /\ base' = base /\ retained' \in Int
    BY <1>10, <2>1 DEF PruneChanges, Later, history
  <2>4. ASSUME NEW t \in stored, t >= retained', seen[base[t]] # seen[t] PROVE t \in log'
    <3>1. t \in Int BY DEF TypeOK, Time
    <3>2. t >= retained /\ t >= before[q] BY <2>1, <2>2, <2>3, <2>4, <3>1
    <3>. QED BY <1>10, <2>4, <3>2 DEF KeptRows, PruneChanges
  <2>. QED BY <2>3, <2>4 DEF KeptRows
<1>11. ASSUME StartupPassFails PROVE KeptRows'
  BY <1>11 DEF TypeOK, Frames, Rows, KeptRows, StartupPassFails, PassEnds, history, tables, scan, passes, used, Time
<1>12. ASSUME BackfillRead PROVE KeptRows'
  BY <1>12 DEF TypeOK, Frames, Rows, KeptRows, BackfillRead, history, tables, scan, passes, used, Time
<1>13. ASSUME BackfillWrite PROVE KeptRows'
  BY <1>13 DEF TypeOK, Frames, Rows, KeptRows, BackfillWrite, history, tables, scan, passes, used, Time
<1>14. ASSUME BackfillFails PROVE KeptRows'
  BY <1>14 DEF TypeOK, Frames, Rows, KeptRows, BackfillFails, history, tables, scan, passes, used, Time
<1>15. ASSUME NEW t \in Time, DeleteSnapshot(t) PROVE KeptRows'
  BY <1>15 DEF TypeOK, Frames, Rows, KeptRows, DeleteSnapshot, history, tables, scan, passes, used, Time
<1>16. ASSUME NEW p \in Policies, SetPolicy(p) PROVE KeptRows'
  BY <1>16 DEF TypeOK, Frames, Rows, KeptRows, SetPolicy, history, tables, scan, passes, used, Time
<1>17. ASSUME Tick PROVE KeptRows'
  BY <1>17 DEF TypeOK, Frames, Rows, KeptRows, Tick, history, tables, scan, passes, used, Time
<1>18. ASSUME UNCHANGED vars PROVE KeptRows'
  BY <1>18 DEF TypeOK, Frames, Rows, KeptRows, vars, history, tables, scan, passes, used, Time
<1>. QED BY <1>1, <1>2, <1>3, <1>4, <1>5, <1>6, <1>7, <1>8, <1>9, <1>10, <1>11, <1>12, <1>13, <1>14, <1>15, <1>16, <1>17, <1>18, <1>19 DEF Next

\* Retention, backfill, deletions, policy edits and time leave the scan and what was
\* captured alone, and only take snapshots away.
LEMMA OthersStay ==
  ASSUME NEW q \in Pass, NEW t \in Time, NEW p \in Policies,
         \/ ReadPolicy(q) \/ SelectVictims(q) \/ DeleteSnapshots(q)
         \/ StartupPassFails \/ BackfillRead \/ BackfillWrite \/ BackfillFails
         \/ DeleteSnapshot(t) \/ SetPolicy(p) \/ Tick \/ UNCHANGED vars
  PROVE  /\ UNCHANGED <<seen, base, vanished, stored, log, pc, previous, current>>
         /\ snapshots' \subseteq snapshots
         /\ TypeOK /\ faults' = 0 => faults = 0
<1>1. CASE ReadPolicy(q) BY <1>1 DEF ReadPolicy, history, tables, scan, used
<1>2. CASE SelectVictims(q) BY <1>2 DEF SelectVictims, history, tables, scan, used
<1>3. CASE DeleteSnapshots(q) BY <1>3 DEF DeleteSnapshots, history, scan, used
<1>4. CASE StartupPassFails BY <1>4 DEF StartupPassFails, history, tables, scan, TypeOK
<1>5. CASE BackfillRead BY <1>5 DEF BackfillRead, history, tables, scan, used
<1>6. CASE BackfillWrite BY <1>6 DEF BackfillWrite, history, scan, used
<1>7. CASE BackfillFails BY <1>7 DEF BackfillFails, history, tables, scan, TypeOK
<1>8. CASE DeleteSnapshot(t) BY <1>8 DEF DeleteSnapshot, history, scan
<1>9. CASE SetPolicy(p) BY <1>9 DEF SetPolicy, history, tables, scan
<1>10. CASE Tick BY <1>10 DEF Tick, history, tables, scan, used
<1>11. CASE UNCHANGED vars BY <1>11 DEF vars, history, tables, scan, used
<1>. QED BY <1>1, <1>2, <1>3, <1>4, <1>5, <1>6, <1>7, <1>8, <1>9, <1>10, <1>11

\* Every step is one of the scan, the end of a pass, or one of those.
LEMMA StepKinds ==
  ASSUME [Next]_vars
  PROVE  \/ ListLatest \/ ReadPrevious \/ SaveFindings \/ ReadMark \/ SaveChanges \/ ScanFails
         \/ \E found \in Content, byHand \in BOOLEAN : SaveSnapshot(found, byHand)
         \/ \E q \in Pass : PruneChanges(q)
         \/ \E q \in Pass, t \in Time, p \in Policies :
              \/ ReadPolicy(q) \/ SelectVictims(q) \/ DeleteSnapshots(q)
              \/ StartupPassFails \/ BackfillRead \/ BackfillWrite \/ BackfillFails
              \/ DeleteSnapshot(t) \/ SetPolicy(p) \/ Tick \/ UNCHANGED vars
<1>1. "scan" \in Pass /\ 1 \in Time /\ \E p \in Policies : TRUE
  BY ChangeLogAssumption DEF Pass, Time
<1>. QED BY <1>1, Zenon DEF Next

\* The newest snapshot is the base, so that an older one can only go.
LEMMA BasesStep ==
  ASSUME TypeOK, Frames, Rows, Bases, [Next]_vars
  PROVE  Bases'
<1>. USE ChangeLogAssumption
<1>9. ASSUME ReadPrevious PROVE Bases'
  BY <1>9 DEF Bases, ReadPrevious, tables, Frames, TypeOK
<1>1. ASSUME ListLatest PROVE Bases'
  <2>1. \A u \in snapshots : u <= Newest(snapshots)
    BY NewestType, NewestLast DEF TypeOK
  <2>2. Newest(snapshots) \in snapshots \cup {0}
    BY NewestType DEF TypeOK
  <2>. QED BY <1>1, <2>1, <2>2 DEF Bases, ListLatest, history, tables
<1>2. ASSUME NEW found \in Content, NEW byHand \in BOOLEAN, SaveSnapshot(found, byHand) PROVE Bases'
  <2>1. /\ clock' \in Time /\ clock' = clock + 1 /\ current' = clock' /\ pc = "collect"
        /\ pc' = "findings" /\ found # None
        /\ seen' = [seen EXCEPT ![clock'] = found]
        /\ base' = [base EXCEPT ![clock'] = previous]
        /\ snapshots' = snapshots \cup {clock'}
        /\ vanished' = vanished
    BY <1>2 DEF SaveSnapshot, TypeOK, Time
  <2>2. /\ clock \in Nat /\ previous \in Nat /\ previous <= clock
        /\ \A t \in Time : t > clock => seen[t] = None
        /\ \A u \in snapshots : u <= clock /\ u \in Time
    BY DEF Frames, TypeOK
  <2>3. \A t \in Time : t # clock' => seen'[t] = seen[t] /\ base'[t] = base[t]
    BY <2>1 DEF TypeOK
  <2>4. seen'[clock'] = found /\ base'[clock'] = previous
    BY <2>1 DEF TypeOK
  <2>5. \A t \in Time : base'[t] # 0 => seen'[t] # None /\ base'[t] < t /\ seen'[base'[t]] # None
    <3>1. ASSUME NEW t \in Time, t # clock', base'[t] # 0
          PROVE  seen'[t] # None /\ base'[t] < t /\ seen'[base'[t]] # None
      <4>1. seen[t] # None /\ base[t] < t /\ seen[base[t]] # None /\ base'[t] = base[t]
        BY <2>3, <3>1 DEF Bases
      <4>2. base[t] \in Time BY <2>3, <3>1 DEF TypeOK, Time
      <4>. QED BY <2>1, <2>3, <2>4, <3>1, <4>1, <4>2
    <3>2. ASSUME previous # 0
          PROVE  seen'[clock'] # None /\ previous < clock' /\ seen'[previous] # None
      <4>1. previous \in Time BY <2>2, <3>2 DEF TypeOK, Time
      <4>. QED BY <2>1, <2>2, <2>3, <2>4, <3>2, <4>1 DEF Bases
    <3>. QED BY <2>4, <3>1, <3>2
  <2>6. ASSUME NEW u \in snapshots'
        PROVE  /\ seen'[u] # None
               /\ ~vanished' => \A t \in Time : u < t /\ seen'[t] # None => u <= base'[t]
    <3>1. CASE u = clock'
      BY <2>1, <2>2, <2>3, <2>4, <3>1 DEF Time
    <3>2. CASE u # clock'
      <4>1. u \in snapshots /\ u \in Time BY <2>1, <2>2, <3>2
      <4>2. ~vanished => u <= previous BY <2>1, <4>1 DEF Bases
      <4>. QED BY <2>1, <2>2, <2>3, <2>4, <3>2, <4>1, <4>2 DEF Bases
    <3>. QED BY <3>1, <3>2
  <2>7. \A t \in Time : seen'[t] # None => t <= current'
    BY <2>1, <2>2, <2>3 DEF Time
  <2>. QED BY <2>1, <2>5, <2>6, <2>7 DEF Bases
<1>3. ASSUME SaveFindings PROVE Bases'
  BY <1>3 DEF Bases, SaveFindings, ScanEnds, history, tables
<1>4. ASSUME ReadMark PROVE Bases'
  BY <1>4 DEF Bases, ReadMark, history, tables
<1>5. ASSUME SaveChanges PROVE Bases'
  BY <1>5 DEF Bases, SaveChanges
<1>6. ASSUME ScanFails PROVE Bases'
  BY <1>6 DEF Bases, ScanFails, ScanEnds, history, tables
<1>7. ASSUME NEW q \in Pass, PruneChanges(q) PROVE Bases'
  <2>1. UNCHANGED <<seen, base, vanished, snapshots>> /\ (UNCHANGED scan \/ ScanEnds)
    BY <1>7 DEF PruneChanges, history
  <2>. QED BY <2>1 DEF Bases, ScanEnds, scan
<1>8. ASSUME NEW q \in Pass, NEW t \in Time, NEW p \in Policies,
             \/ ReadPolicy(q) \/ SelectVictims(q) \/ DeleteSnapshots(q)
             \/ StartupPassFails \/ BackfillRead \/ BackfillWrite \/ BackfillFails
             \/ DeleteSnapshot(t) \/ SetPolicy(p) \/ Tick \/ UNCHANGED vars
      PROVE  Bases'
  <2>1. UNCHANGED <<seen, base, vanished, pc, previous, current>> /\ snapshots' \subseteq snapshots
    BY <1>8, OthersStay
  <2>. QED BY <2>1 DEF Bases
<1>. QED BY <1>1, <1>2, <1>3, <1>4, <1>5, <1>6, <1>7, <1>8, <1>9, StepKinds

\* As long as nothing fails, only a deletion can end a scan before its rows are stored.
LEMMA AbandonedStep ==
  ASSUME TypeOK, Frames, Rows, Bases, AbandonedGone, [Next]_vars
  PROVE  AbandonedGone'
<1>. USE ChangeLogAssumption
<1>9. ASSUME ReadPrevious PROVE AbandonedGone'
  BY <1>9 DEF AbandonedGone, Abandoned, ReadPrevious, tables, used, Time
<1>1. ASSUME ListLatest PROVE AbandonedGone'
  <2>1. Newest(snapshots) \in snapshots \cup {0}
    BY NewestType DEF TypeOK
  <2>. QED BY <1>1, <2>1 DEF AbandonedGone, Abandoned, ListLatest, history, tables, used, Time
<1>2. ASSUME NEW found \in Content, NEW byHand \in BOOLEAN, SaveSnapshot(found, byHand) PROVE AbandonedGone'
  <2>. SUFFICES ASSUME faults' = 0, NEW t \in Time, Abandoned(t)'
                PROVE  /\ t \notin snapshots'
                       /\ \A u \in Time : base'[u] # t
                       /\ pc' \notin {"read", "collect"}
    BY DEF AbandonedGone
  <2>1. /\ clock' \in Time /\ current' = clock' /\ pc = "collect" /\ pc' = "findings"
        /\ base' = [base EXCEPT ![clock'] = previous]
        /\ snapshots' = snapshots \cup {clock'}
        /\ stored' = stored /\ faults = 0
    BY <1>2 DEF SaveSnapshot, TypeOK, Time, used
  <2>2. t # clock' /\ Abandoned(t)
    BY <2>1 DEF Abandoned, TypeOK
  <2>3. t \notin snapshots /\ (\A u \in Time : base[u] # t) /\ previous # t
    BY <2>1, <2>2 DEF AbandonedGone
  <2>. QED BY <2>1, <2>2, <2>3 DEF TypeOK
<1>3. ASSUME SaveFindings PROVE AbandonedGone'
  <2>1. /\ UNCHANGED <<seen, base, stored, snapshots, faults>> /\ pc = "findings"
        /\ \/ current \notin snapshots /\ pc' = "idle"
           \/ previous # 0 /\ pc' = "mark" /\ current' = current
           \/ previous = 0 /\ pc' = "retain" /\ current' = current
    BY <1>3 DEF SaveFindings, ScanEnds, history, tables, used
  <2>2. /\ base[current] = previous /\ current \in Nat
        /\ \A t \in Time : seen[t] # None => t <= current
    BY <2>1 DEF Frames, Bases, TypeOK
  <2>3. \A u \in Time : base[u] # 0 => base[u] # current
    <3>1. ASSUME NEW u \in Time, base[u] # 0 PROVE base[u] # current
      <4>1. u <= current /\ base[u] < u BY <2>2, <3>1 DEF Bases
      <4>2. u \in Nat /\ base[u] \in Nat BY DEF TypeOK, Time
      <4>. QED BY <2>2, <4>1, <4>2
    <3>. QED BY <3>1
  <2>4. \A t \in Time : Abandoned(t)' =>
          Abandoned(t) \/ (t = current /\ t \notin snapshots /\ base[t] # 0)
    BY <2>1, <2>2 DEF Abandoned
  <2>5. pc' \notin {"read", "collect"} BY <2>1
  <2>6. ASSUME faults = 0, NEW t \in Time, Abandoned(t)'
        PROVE  t \notin snapshots /\ \A u \in Time : base[u] # t
    BY <2>3, <2>4, <2>6 DEF AbandonedGone, Time
  <2>. QED BY <2>1, <2>5, <2>6 DEF AbandonedGone
<1>4. ASSUME ReadMark PROVE AbandonedGone'
  BY <1>4 DEF AbandonedGone, Abandoned, ReadMark, history, tables, used
<1>5. ASSUME SaveChanges PROVE AbandonedGone'
  BY <1>5 DEF AbandonedGone, Abandoned, SaveChanges, used
<1>6. ASSUME ScanFails PROVE AbandonedGone'
  BY <1>6 DEF AbandonedGone, ScanFails, TypeOK
<1>7. ASSUME NEW q \in Pass, PruneChanges(q) PROVE AbandonedGone'
  <2>1. /\ UNCHANGED <<base, stored, snapshots, faults>>
        /\ UNCHANGED <<pc, current, previous>> \/ (pc = "retain" /\ pc' = "idle")
    BY <1>7 DEF Frames, PruneChanges, history, used, ScanEnds, scan
  <2>. QED BY <2>1 DEF AbandonedGone, Abandoned
<1>8. ASSUME NEW q \in Pass, NEW t \in Time, NEW p \in Policies,
             \/ ReadPolicy(q) \/ SelectVictims(q) \/ DeleteSnapshots(q)
             \/ StartupPassFails \/ BackfillRead \/ BackfillWrite \/ BackfillFails
             \/ DeleteSnapshot(t) \/ SetPolicy(p) \/ Tick \/ UNCHANGED vars
      PROVE  AbandonedGone'
  <2>1. /\ UNCHANGED <<base, stored, pc, previous, current>>
        /\ snapshots' \subseteq snapshots /\ (faults' = 0 => faults = 0)
    BY <1>8, OthersStay
  <2>. QED BY <2>1 DEF AbandonedGone, Abandoned
<1>. QED BY <1>1, <1>2, <1>3, <1>4, <1>5, <1>6, <1>7, <1>8, <1>9, StepKinds

\* Pruning takes every row that is older than one it takes.
LEMMA OldestStep ==
  ASSUME TypeOK, Frames, Rows, Bases, OldestGoFirst, [Next]_vars
  PROVE  OldestGoFirst'
<1>. USE ChangeLogAssumption
<1>9. ASSUME ReadPrevious PROVE OldestGoFirst'
  BY <1>9 DEF OldestGoFirst, ReadPrevious, tables
<1>1. ASSUME ListLatest PROVE OldestGoFirst'
  BY <1>1 DEF OldestGoFirst, ListLatest, history, tables
<1>2. ASSUME NEW found \in Content, NEW byHand \in BOOLEAN, SaveSnapshot(found, byHand) PROVE OldestGoFirst'
  <2>1. /\ log' = log /\ stored' = stored /\ clock' \in Time /\ clock' = clock + 1
        /\ seen' = [seen EXCEPT ![clock'] = found] /\ base' = [base EXCEPT ![clock'] = previous]
    BY <1>2 DEF SaveSnapshot, TypeOK, Time
  <2>2. \A u \in stored : u \in Time /\ u <= clock /\ base[u] \in 1..clock
    BY DEF Rows, TypeOK
  <2>3. \A u \in stored : base'[u] = base[u] /\ seen'[u] = seen[u] /\ seen'[base'[u]] = seen[base[u]]
    BY <2>1, <2>2 DEF TypeOK
  <2>. QED BY <2>1, <2>3 DEF OldestGoFirst
<1>3. ASSUME SaveFindings PROVE OldestGoFirst'
  BY <1>3 DEF OldestGoFirst, SaveFindings, history, tables
<1>4. ASSUME ReadMark PROVE OldestGoFirst'
  BY <1>4 DEF OldestGoFirst, ReadMark, history, tables
<1>5. ASSUME SaveChanges PROVE OldestGoFirst'
  <2>1. /\ UNCHANGED <<seen, base>> /\ stored' = stored \cup {current}
        /\ log' = IF seen[previous] # seen[current] THEN log \cup {current} ELSE log
        /\ base[current] = previous /\ current \in Nat
        /\ \A t \in Time : seen[t] # None => t <= current
    BY <1>5 DEF SaveChanges, Frames, Bases, TypeOK
  <2>2. \A u \in stored : u \in Nat /\ u <= current
    BY <2>1 DEF Rows, Bases, TypeOK, Time
  <2>. QED BY <2>1, <2>2 DEF OldestGoFirst
<1>6. ASSUME ScanFails PROVE OldestGoFirst'
  BY <1>6 DEF OldestGoFirst, ScanFails, history, tables
<1>7. ASSUME NEW q \in Pass, PruneChanges(q) PROVE OldestGoFirst'
  <2>1. UNCHANGED <<seen, base, stored>> /\ log' = {t \in log : t >= before[q]} /\ before[q] \in Nat
    BY <1>7 DEF PruneChanges, history, TypeOK
  <2>2. \A u \in log \cup stored : u \in Nat BY DEF TypeOK, Time
  <2>3. ASSUME NEW t \in log', NEW u \in stored, t < u, seen[base[u]] # seen[u] PROVE u \in log'
    <3>1. u \in log BY <2>1, <2>3 DEF OldestGoFirst
    <3>. QED BY <2>1, <2>2, <2>3, <3>1
  <2>. QED BY <2>1, <2>3 DEF OldestGoFirst
<1>8. ASSUME NEW q \in Pass, NEW t \in Time, NEW p \in Policies,
             \/ ReadPolicy(q) \/ SelectVictims(q) \/ DeleteSnapshots(q)
             \/ StartupPassFails \/ BackfillRead \/ BackfillWrite \/ BackfillFails
             \/ DeleteSnapshot(t) \/ SetPolicy(p) \/ Tick \/ UNCHANGED vars
      PROVE  OldestGoFirst'
  <2>1. UNCHANGED <<seen, base, stored, log>>
    BY <1>8, OthersStay
  <2>. QED BY <2>1 DEF OldestGoFirst
<1>. QED BY <1>1, <1>2, <1>3, <1>4, <1>5, <1>6, <1>7, <1>8, <1>9, StepKinds

\* Nothing is under way at the start.
LEMMA InitTypes ==
  ASSUME Init
  PROVE  /\ vanished \in BOOLEAN
         /\ manual \subseteq Time /\ since \in 0..MaxClock /\ retained \in 0..MaxClock
         /\ policy \in Policies
         /\ pc = "idle" /\ previous \in 0..MaxClock /\ current \in 0..MaxClock /\ mark \in 0..MaxClock
         /\ stage \in [Pass -> {"idle", "select", "delete", "prune"}]
         /\ chosen \in [Pass -> Policies \cup {None}]
         /\ victims \in [Pass -> SUBSET Time]
         /\ before \in [Pass -> 0..MaxClock]
         /\ start \in 0..MaxClock
         /\ faults \in Nat /\ deletes \in Nat /\ edits \in Nat
<1>. USE ChangeLogAssumption
<1>1. vanished \in BOOLEAN BY Zenon DEF Init
<1>2. 0 \in 0..MaxClock /\ 0 \in Nat OBVIOUS
<1>3. manual \subseteq Time BY Zenon DEF Init
<1>4. /\ since \in 0..MaxClock /\ retained \in 0..MaxClock /\ start \in 0..MaxClock
      /\ pc = "idle" /\ previous \in 0..MaxClock /\ current \in 0..MaxClock /\ mark \in 0..MaxClock
      /\ faults \in Nat /\ deletes \in Nat /\ edits \in Nat /\ policy \in Policies
  BY <1>2, Zenon DEF Init
<1>5. stage \in [Pass -> {"idle", "select", "delete", "prune"}] BY Zenon DEF Init
<1>6. /\ chosen \in [Pass -> Policies \cup {None}] /\ victims \in [Pass -> SUBSET Time]
      /\ before \in [Pass -> 0..MaxClock]
  BY <1>2, Zenon DEF Init
<1>. QED BY <1>1, <1>3, <1>4, <1>5, <1>6

\* The parts together are inductive.
LEMMA Inductive == Spec => []ChangeLogInv
<1>1. Init => ChangeLogInv
  <2>. SUFFICES ASSUME Init PROVE ChangeLogInv OBVIOUS
  <2>. USE ChangeLogAssumption
  <2>1. CASE FreshDatabase
    <3>1. TypeOK BY <2>1, InitTypes DEF TypeOK, FreshDatabase, Time
    <3>2. Frames BY <2>1 DEF Frames, Init, FreshDatabase, Time, Pass
    <3>3. Rows /\ Markers /\ KeptRows
      BY <2>1 DEF Rows, Markers, MarkerBacked, KeptRows, Init, FreshDatabase
    <3>4. Bases /\ AbandonedGone /\ OldestGoFirst
      BY <2>1 DEF Bases, AbandonedGone, Abandoned, OldestGoFirst, Init, FreshDatabase
    <3>. QED BY <3>1, <3>2, <3>3, <3>4 DEF ChangeLogInv
  <2>2. CASE UpgradedDatabase
    <3>1. PICK v \in Content, w \in Content :
            seen = [t \in Time |-> IF t = 1 THEN v ELSE IF t = 2 THEN w ELSE None]
      BY <2>2 DEF UpgradedDatabase
    <3>2. TypeOK
      <4>1. /\ clock \in 0..MaxClock
            /\ snapshots \subseteq Time /\ log \subseteq Time /\ stored \subseteq Time
        BY <2>2 DEF UpgradedDatabase, Time
      <4>2. seen \in [Time -> Content \cup {None}] BY <3>1
      <4>3. base \in [Time -> 0..MaxClock] BY <2>2 DEF UpgradedDatabase
      <4>. QED BY <4>1, <4>2, <4>3, InitTypes DEF TypeOK
    <3>3. Frames BY <2>2, <3>1 DEF Frames, Init, UpgradedDatabase, Time, Pass
    <3>4. Rows BY <2>2 DEF Rows, Init, UpgradedDatabase, Time
    <3>5. Markers /\ KeptRows
      BY <2>2 DEF Markers, MarkerBacked, KeptRows, Init, UpgradedDatabase
    <3>6. Bases BY <2>2, <3>1 DEF Bases, Init, UpgradedDatabase, Time
    <3>7. AbandonedGone /\ OldestGoFirst
      BY <2>2 DEF AbandonedGone, Abandoned, OldestGoFirst, Init, UpgradedDatabase, Time
    <3>. QED BY <3>2, <3>3, <3>4, <3>5, <3>6, <3>7 DEF ChangeLogInv
  <2>. QED BY <2>1, <2>2 DEF Init
<1>2. ChangeLogInv /\ [Next]_vars => ChangeLogInv'
  BY TypeStep, FramesStep, RowsStep, MarkersStep, KeptStep, BasesStep, AbandonedStep, OldestStep
     DEF ChangeLogInv
<1>. QED BY <1>1, <1>2, PTL DEF Spec

\* Type correctness, for every bound.
THEOREM Typing == Spec => []TypeOK
<1>1. ChangeLogInv => TypeOK BY DEF ChangeLogInv
<1>. QED BY <1>1, Inductive, PTL

\* Whatever policies follow one another, and however the passes of scans and of
\* starting workers overlap, go by a policy since replaced, or stop half way: no row
\* the log claims is missing among the diffs that were stored.
THEOREM ClaimsSurviveRetention == Spec => []ClaimedRowsPresent
<1>1. ChangeLogInv => ClaimedRowsPresent
  <2>. SUFFICES ASSUME ChangeLogInv, NEW t \in stored, Claims(t), seen[base[t]] # seen[t]
                PROVE  t \in log
    BY DEF ClaimedRowsPresent
  <2>1. since \in Int /\ retained \in Int /\ t \in Int
    BY DEF ChangeLogInv, TypeOK, Time
  <2>2. t >= retained BY <2>1 DEF Claims, EffectiveSince, Later
  <2>. QED BY <2>2 DEF ChangeLogInv, KeptRows
<1>. QED BY <1>1, Inductive, PTL

\* The first interval the log claims was stored, however a scan fails and whichever
\* of the scan and the backfill writes the marker.
THEOREM LogStartsAtAStoredDiff == Spec => []MarkerBacked
<1>1. ChangeLogInv => MarkerBacked BY DEF ChangeLogInv, Markers
<1>. QED BY <1>1, Inductive, PTL

-----------------------------------------------------------------------------

\* With no failure, a diff against a snapshot is stored or about to be, unless its own
\* snapshot was deleted and is no base of another.
LEMMA StoredUnlessAbandoned ==
  ASSUME ChangeLogInv, faults = 0, NEW t \in Time, base[t] # 0,
         t \in snapshots \/ \E u \in Time : base[u] = t
  PROVE  t \in stored \/ (pc \in {"findings", "mark", "commit"} /\ t = current)
BY Zenon DEF ChangeLogInv, AbandonedGone, Abandoned

\* What was captured after a snapshot that is still there was diffed against that
\* snapshot or a later one.
LEMMA BaseAfterSurvivor ==
  ASSUME ChangeLogInv, ~vanished, NEW u \in snapshots, NEW t \in Time, u < t, seen[t] # None
  PROVE  /\ base[t] \in Time /\ u <= base[t] /\ base[t] < t
         /\ seen[base[t]] # None
<1>1. u <= base[t] BY DEF ChangeLogInv, Bases
<1>2. u \in 1..MaxClock /\ base[t] \in 0..MaxClock BY DEF ChangeLogInv, TypeOK, Time
<1>3. base[t] # 0 /\ base[t] \in Time BY <1>1, <1>2 DEF Time
<1>. QED BY <1>1, <1>3 DEF ChangeLogInv, Bases

\* Facts about a stored diff.
LEMMA StoredFacts ==
  ASSUME ChangeLogInv, NEW t \in stored
  PROVE  /\ t \in Time /\ base[t] \in Time /\ base[t] # 0
         /\ seen[t] # None /\ base[t] < t
<1>1. t \in Time /\ clock \in 0..MaxClock /\ base[t] \in 1..clock
  BY DEF ChangeLogInv, TypeOK, Rows
<1>2. base[t] \in Time /\ base[t] # 0 BY <1>1, ChangeLogAssumption DEF Time
<1>. QED BY <1>1, <1>2 DEF ChangeLogInv, Bases

\* Going back from a later change to what the newest row says, diff by diff, no diff
\* was passed over: one of them would have to have a row newer than the newest.
LEMMA LogIsCurrent ==
  ASSUME ChangeLogInv, faults = 0, ~vanished, Untouched
  PROVE  LogEndsAtLatest
<1>. USE ChangeLogAssumption
<1>. SUFFICES ASSUME log # {}, seen[Max(log)] # seen[Max(stored)] PROVE FALSE
  BY DEF LogEndsAtLatest
<1>. DEFINE m == Max(log)
            D == {u \in stored : m <= u /\ seen[u] # seen[m]}
            x == Min(D)
            y == base[x]
<1>1. log \subseteq stored /\ stored \subseteq Time /\ Time \subseteq 0..MaxClock
  BY DEF ChangeLogInv, Rows, TypeOK, Time
<1>2. m \in log /\ \A u \in log : u <= m
  BY <1>1, MaxTime
<1>3. Max(stored) \in stored /\ m <= Max(stored)
  BY <1>1, <1>2, MaxTime
<1>. HIDE DEF m
<1>4. D # {} /\ D \in SUBSET Nat
  <2>1. seen[Max(stored)] # seen[m] BY DEF m
  <2>2. Max(stored) \in D BY <1>3, <2>1
  <2>3. stored \subseteq Nat BY <1>1 DEF Time
  <2>. QED BY <2>2, <2>3
<1>5. x \in D /\ \A u \in D : x <= u
  <2>. HIDE DEF D
  <2>. QED BY <1>4, MinTime
<1>. HIDE DEF x
<1>6. m \in stored /\ m \in Time /\ m \in snapshots
  BY <1>1, <1>2, StoredFacts DEF Untouched
<1>7. x \in stored /\ x \in Time /\ m < x /\ seen[x] # None /\ seen[x] # seen[m]
  BY <1>1, <1>5, <1>6, StoredFacts DEF Time
<1>8. y \in Time /\ m <= y /\ y < x /\ seen[y] # None
  BY <1>6, <1>7, BaseAfterSurvivor
<1>9. x \notin log BY <1>2, <1>6, <1>7 DEF Time
<1>10. seen[y] = seen[x]
  BY <1>2, <1>7, <1>9 DEF ChangeLogInv, OldestGoFirst
<1>11. m < y BY <1>6, <1>7, <1>8, <1>10 DEF Time
<1>12. base[y] # 0
  BY <1>6, <1>8, <1>11, BaseAfterSurvivor DEF Time
<1>13. ~ (pc \in {"findings", "mark", "commit"} /\ y = current)
  <2>. SUFFICES ASSUME pc \in {"findings", "mark", "commit"}, y = current PROVE FALSE
    OBVIOUS
  <2>1. x <= current BY <1>7 DEF ChangeLogInv, Bases
  <2>. QED BY <1>7, <1>8, <2>1 DEF Time
<1>14. y \in stored
  BY <1>7, <1>8, <1>12, <1>13, StoredUnlessAbandoned
<1>15. y \in D BY <1>7, <1>8, <1>10, <1>14
<1>. QED BY <1>5, <1>7, <1>8, <1>15 DEF Time

\* Where no scan failed and no snapshot is missing, the log holds every interval it
\* claims and its last row is as the last diff left the inventory.
THEOREM LogIsComplete == Spec => []LogComplete
<1>1. ChangeLogInv => LogComplete
  <2>. SUFFICES ASSUME ChangeLogInv, faults = 0, ~vanished, Untouched
                PROVE  ClaimsOnlyStored /\ LogEndsAtLatest
    BY DEF LogComplete
  <2>1. ClaimsOnlyStored
    <3>. SUFFICES ASSUME NEW t \in Time, base[t] # 0
                  PROVE  t \in stored \/ (pc # "idle" /\ t = current)
      BY DEF ClaimsOnlyStored
    <3>1. t \in snapshots BY DEF Untouched
    <3>. QED BY <3>1, StoredUnlessAbandoned
  <2>. QED BY <2>1, LogIsCurrent
<1>. QED BY <1>1, Inductive, PTL

-----------------------------------------------------------------------------

\* Times are finitely many.
LEMMA TimeFinite ==
  ASSUME NEW times \in SUBSET Time
  PROVE  IsFiniteSet(times)
<1>1. IsFiniteSet(Time) BY ChangeLogAssumption, FS_Interval DEF Time
<1>. QED BY <1>1, FS_Subset

\* What is among the n newest has only later ones beside it that are too.
LEMMA LatestUpward ==
  ASSUME NEW n \in Nat, NEW times \in SUBSET Time, NEW t \in Latest(n, times),
         NEW u \in times, u >= t
  PROVE  u \in Latest(n, times)
<1>. DEFINE T == {v \in times : v >= t}
            U == {v \in times : v >= u}
<1>1. t \in times /\ Cardinality(T) <= n BY DEF Latest
<1>2. IsFiniteSet(times) BY TimeFinite
<1>3. U \subseteq T
  <2>. SUFFICES ASSUME NEW v \in times, v >= u PROVE v >= t OBVIOUS
  <2>1. v \in Int /\ u \in Int /\ t \in Int BY <1>1 DEF Time
  <2>. QED BY <2>1
<1>4. IsFiniteSet(T) /\ IsFiniteSet(U) BY <1>2, FS_Subset
<1>5. Cardinality(U) <= Cardinality(T) BY <1>3, <1>4, FS_Subset
<1>6. Cardinality(U) \in Nat /\ Cardinality(T) \in Nat BY <1>4, FS_CardinalityType
<1>7. Cardinality(U) <= n BY <1>1, <1>5, <1>6
<1>. QED BY <1>7 DEF Latest

\* The newest of all is among them.
LEMMA NewestAmongLatest ==
  ASSUME NEW n \in Nat \ {0}, NEW times \in SUBSET Time, times # {}
  PROVE  Newest(times) \in Latest(n, times)
<1>. DEFINE m == Newest(times)
<1>1. m \in times /\ \A u \in times : u <= m
  <2>1. PICK u \in times : TRUE OBVIOUS
  <2>2. u <= m /\ m \in times \cup {0} BY NewestLast, NewestType
  <2>3. m # 0 BY <2>2 DEF Time
  <2>. QED BY <2>2, <2>3, NewestLast
<1>. HIDE DEF m
<1>2. {u \in times : u >= m} = {m}
  <2>1. ASSUME NEW u \in times, u >= m PROVE u = m
    <3>1. u \in Int /\ m \in Int /\ u <= m BY <1>1 DEF Time
    <3>. QED BY <2>1, <3>1
  <2>2. m >= m BY <1>1 DEF Time
  <2>. QED BY <1>1, <2>1, <2>2
<1>3. Cardinality({m}) = 1 BY FS_Singleton
<1>4. m \in Latest(n, times) BY <1>1, <1>2, <1>3 DEF Latest
<1>. QED BY <1>4 DEF m

\* The interval in which a finding appeared, if the walk back was not cut short: two
\* snapshots that follow one another; only the newer one and those after it hold it.
LEMMA Bracket ==
  ASSUME ChangeLogInv, snapshots # {}, NEW f, seen[Newest(snapshots)] \in f,
         ~ AllSurviving(f), ~ WalkCapped(f)
  PROVE  /\ SeenAt(f) \in snapshots /\ IntervalStart(f) \in snapshots
         /\ IntervalStart(f) < SeenAt(f)
         /\ seen[SeenAt(f)] \in f /\ seen[IntervalStart(f)] \notin f
         /\ \A u \in snapshots : u <= IntervalStart(f) \/ u >= SeenAt(f)
         /\ \A u \in snapshots : u >= SeenAt(f) => seen[u] \in f
         /\ {u \in snapshots : u >= SeenAt(f)} \subseteq Holders(f)
<1>. USE ChangeLogAssumption, RelatedAssumption
<1>. DEFINE b == SeenAt(f)
            a == Max(Older(f))
            walk == Latest(MaxScansBack, snapshots)
            top == Newest(snapshots)
<1>1. snapshots \in SUBSET Time /\ Time \subseteq 0..MaxClock /\ Time \subseteq Nat
  BY DEF ChangeLogInv, TypeOK, Time
<1>2. top \in walk /\ walk \subseteq snapshots /\ \A u \in snapshots : u <= top
  BY <1>1, NewestAmongLatest, NewestLast DEF Latest
<1>3. top \in Holders(f)
  <2>1. ASSUME NEW u \in snapshots, u >= top PROVE u = top
    <3>. HIDE DEF top, walk
    <3>1. top \in snapshots /\ u <= top BY <1>2
    <3>2. u \in Int /\ top \in Int BY <1>1, <3>1
    <3>. QED BY <2>1, <3>1, <3>2
  <2>2. \A u \in snapshots : u >= top => seen[u] \in f BY <2>1
  <2>. QED BY <1>2, <2>2 DEF Holders
<1>4. b \in Holders(f) /\ \A u \in Holders(f) : b <= u
  <2>1. Holders(f) \in SUBSET Nat BY <1>1, <1>2 DEF Holders
  <2>. QED BY <1>3, <2>1, MinTime DEF SeenAt
<1>5. a \in Older(f) /\ \A u \in Older(f) : u <= a
  <2>1. Older(f) \in SUBSET (0..MaxClock) BY <1>1 DEF Older
  <2>. QED BY <2>1, MaxTime DEF AllSurviving
<1>. HIDE DEF a, b, walk, top
<1>6. b \in snapshots /\ b \in walk /\ b \in Nat /\ \A u \in snapshots : u >= b => seen[u] \in f
  BY <1>1, <1>2, <1>4 DEF Holders, walk
<1>7. a \in snapshots /\ a \in Nat /\ a < b
  BY <1>1, <1>5 DEF Older, b
<1>8. \A u \in snapshots : u <= a \/ u >= b
  <2>1. ASSUME NEW u \in snapshots, ~ (u >= b) PROVE u <= a
    <3>1. u < b BY <1>1, <1>6, <2>1
    <3>. QED BY <1>5, <3>1 DEF Older, b
  <2>. QED BY <2>1
<1>9. \A u \in snapshots : u >= b => u \in Holders(f)
  <2>1. ASSUME NEW u \in snapshots, u >= b PROVE u \in Holders(f)
    <3>1. u \in walk BY <1>1, <1>6, <2>1, LatestUpward DEF walk
    <3>2. \A v \in snapshots : v >= u => seen[v] \in f BY <1>1, <1>6, <2>1
    <3>. QED BY <3>1, <3>2 DEF Holders, walk
  <2>. QED BY <2>1
<1>10. seen[a] \notin f
  <2>. SUFFICES ASSUME seen[a] \in f PROVE FALSE OBVIOUS
  <2>1. \A u \in snapshots : u >= a => seen[u] \in f
    <3>1. ASSUME NEW u \in snapshots, u >= a, u <= a PROVE u = a
      BY <1>1, <1>7, <3>1
    <3>. QED BY <1>6, <1>8, <3>1
  <2>2. a \notin Holders(f) BY <1>4, <1>6, <1>7
  <2>3. a \notin walk BY <1>7, <2>1, <2>2 DEF Holders, walk
  <2>4. ASSUME NEW t \in walk PROVE t >= b
    <3>. SUFFICES ASSUME ~ (t >= b) PROVE FALSE OBVIOUS
    <3>1. t \in snapshots /\ t <= a BY <1>2, <1>8
    <3>2. a >= t BY <1>1, <1>7, <3>1
    <3>3. a \in walk BY <1>1, <1>7, <3>2, LatestUpward DEF walk
    <3>. QED BY <2>3, <3>3
  <2>5. walk \subseteq Holders(f) BY <1>2, <1>9, <2>4
  <2>6. Holders(f) \subseteq walk BY DEF Holders, walk
  <2>. QED BY <2>5, <2>6 DEF WalkCapped, walk
<1>11. IntervalStart(f) = a BY DEF IntervalStart, a
<1>. QED BY <1>6, <1>7, <1>8, <1>9, <1>10, <1>11 DEF b

\* For what came before the log, the two snapshots are compared.
LEMMA ShownBySnapshots ==
  ASSUME ChangeLogInv, snapshots # {}, NEW f, seen[Newest(snapshots)] \in f,
         ~ AllSurviving(f), ~ WalkCapped(f), since # 0, ~ FirstObserved(f)
  PROVE  \E p \in RelatedChanges(f) : Introduces(p, f)
<1>. DEFINE a == IntervalStart(f)
            b == SeenAt(f)
<1>1. seen[b] \in f /\ seen[a] \notin f BY Bracket
<1>2. <<a, b>> \in BracketingPair(f) BY <1>1 DEF BracketingPair
<1>3. <<a, b>> \in FromBoth(f) BY <1>2 DEF FromBoth
<1>4. <<a, b>> \in RelatedChanges(f) BY <1>3 DEF RelatedChanges
<1>. HIDE DEF a, b
<1>5. Introduces(<<a, b>>, f) BY <1>1 DEF Introduces
<1>. QED BY <1>4, <1>5

\* Where the log answers, it has the row of the diff that first found the content, and
\* that row is among the oldest of those read.
LEMMA ShownByLog ==
  ASSUME ChangeLogInv, faults = 0, ~vanished, pc \in {"idle", "read", "collect", "retain"},
         snapshots # {}, NEW f \in SUBSET Content, seen[Newest(snapshots)] \in f,
         ~ AllSurviving(f), ~ Capped(f), Fits(f), FirstObserved(f)
  PROVE  \E p \in RelatedChanges(f) : Introduces(p, f)
<1>. USE ChangeLogAssumption, RelatedAssumption
<1>. DEFINE a == IntervalStart(f)
            b == SeenAt(f)
            D == {t \in stored : a < t /\ seen[t] \in f}
            x == Min(D)
            y == base[x]
<1>1. b \in snapshots /\ a \in snapshots /\ a < b /\ seen[b] \in f /\ seen[a] \notin f
  BY Bracket DEF Capped
<1>12. since # 0 /\ a >= EffectiveSince /\ ~ (a < Floor)
  BY DEF FirstObserved, Capped
<1>. HIDE DEF a, b
<1>2. /\ snapshots \subseteq Time /\ stored \subseteq Time /\ log \subseteq Time /\ Time \subseteq Nat
      /\ \A u \in snapshots : seen[u] # None
      /\ retained \in Nat /\ since \in Nat /\ Floor \in Int
  BY DEF ChangeLogInv, TypeOK, Bases, Time, Floor
<1>11. a \in Nat /\ b \in Nat BY <1>1, <1>2
<1>3. b \in stored
  <2>1. base[b] # 0 BY <1>1, <1>2, BaseAfterSurvivor DEF Time
  <2>. QED BY <1>1, <1>2, <2>1, StoredUnlessAbandoned
<1>4. x \in D /\ \A u \in D : x <= u
  <2>1. D # {} /\ D \in SUBSET Nat BY <1>1, <1>2, <1>3
  <2>. HIDE DEF D
  <2>. QED BY <2>1, MinTime
<1>. HIDE DEF x
<1>5. x \in stored /\ x \in Time /\ a < x /\ x <= b /\ seen[x] \in f /\ seen[x] # None
  BY <1>1, <1>2, <1>3, <1>4
<1>6. y \in Time /\ a <= y /\ y < x /\ seen[y] # None
  BY <1>1, <1>5, BaseAfterSurvivor
<1>7. seen[y] \notin f
  <2>. SUFFICES ASSUME seen[y] \in f PROVE FALSE OBVIOUS
  <2>1. a < y
    <3>1. a # y BY <1>1
    <3>2. y \in Nat /\ a <= y BY <1>2, <1>6
    <3>. HIDE DEF y
    <3>. QED BY <1>11, <3>1, <3>2
  <2>2. base[y] # 0 BY <1>1, <1>6, <2>1, BaseAfterSurvivor DEF Time
  <2>3. y \in stored BY <1>5, <1>6, <2>2, StoredUnlessAbandoned
  <2>4. y \in D BY <2>1, <2>3
  <2>5. x <= y BY <1>4, <2>4
  <2>6. x \in Nat /\ y \in Nat BY <1>2, <1>5, <1>6
  <2>. QED BY <1>6, <2>5, <2>6
<1>. HIDE DEF D
<1>8. x \in log
  <2>1. x \in Nat BY <1>2, <1>5
  <2>2. a >= retained BY <1>2, <1>11, <1>12 DEF EffectiveSince, Later
  <2>3. x >= retained BY <1>2, <1>5, <1>11, <2>1, <2>2
  <2>4. seen[y] # seen[x] BY <1>5, <1>7
  <2>. QED BY <1>5, <2>3, <2>4 DEF ChangeLogInv, KeptRows
<1>. HIDE DEF y
<1>9. x \in LoggedRows(f)
  <2>. DEFINE read == {t \in log : t >= a}
              newer == {u \in read : u >= x}
  <2>1. LogFrom(f) = a BY <1>2, <1>11, <1>12 DEF LogFrom, Later, a
  <2>2. IsFiniteSet(log) BY <1>2, TimeFinite
  <2>3. IsFiniteSet(read) /\ IsFiniteSet(newer) BY <2>2, FS_Subset
  <2>4. Cardinality(newer) <= Cardinality(read) BY <2>3, FS_Subset
  <2>5. Cardinality(newer) \in Nat /\ Cardinality(read) \in Nat BY <2>3, FS_CardinalityType
  <2>6. Cardinality(read) <= LogFetchLimit BY DEF Fits, a
  <2>7. x \in read
    <3>1. x \in Nat BY <1>2, <1>5
    <3>2. x >= a BY <1>5, <1>11, <3>1
    <3>. QED BY <1>8, <3>2
  <2>. HIDE DEF newer
  <2>8. Cardinality(newer) <= LogFetchLimit BY <2>4, <2>5, <2>6
  <2>9. x \in Logged(f)
    BY <2>1, <2>7, <2>8 DEF Logged, Latest, newer
  <2>. QED BY <1>2, <1>5, <1>11, <2>9 DEF LoggedRows, a
<1>10. x \in Oldest(MaxChanges, LoggedRows(f))
  <2>. DEFINE bracketed == {t \in log : t > a /\ t <= b}
              older == {u \in LoggedRows(f) : u <= x}
  <2>1. older \subseteq bracketed
    <3>1. ASSUME NEW u \in older PROVE u \in bracketed
      <4>1. u \in log /\ u > a /\ u <= x
        BY DEF LoggedRows, Logged, Latest, a
      <4>. QED BY <1>2, <1>5, <1>11, <4>1
    <3>. QED BY <3>1
  <2>2. IsFiniteSet(bracketed) /\ IsFiniteSet(older)
    <3>1. IsFiniteSet(bracketed) BY <1>2, TimeFinite, FS_Subset
    <3>. QED BY <2>1, <3>1, FS_Subset
  <2>3. Cardinality(older) <= Cardinality(bracketed) BY <2>1, <2>2, FS_Subset
  <2>4. Cardinality(older) \in Nat /\ Cardinality(bracketed) \in Nat BY <2>2, FS_CardinalityType
  <2>5. Cardinality(bracketed) <= MaxChanges BY DEF Fits, a, b
  <2>. HIDE DEF older
  <2>6. Cardinality(older) <= MaxChanges BY <2>3, <2>4, <2>5
  <2>. QED BY <1>9, <2>6 DEF Oldest, older
<1>13. Interval(x) \in RelatedChanges(f)
  BY <1>10, <1>12 DEF RelatedChanges, FromLog
<1>14. Introduces(Interval(x), f)
  BY <1>5, <1>7 DEF Introduces, Interval, y
<1>. QED BY <1>13, <1>14

\* The drawer of a finding shows a change that brought it in, whatever retention,
\* expiry and deletions have left of the log and of the snapshots, unless it says that
\* its window was cut short, or a limit it does not tell of has cut off rows.
THEOREM CausesAreShown == Spec => []CauseShown
<1>1. ChangeLogInv => CauseShown
  <2>. SUFFICES ASSUME ChangeLogInv, since # 0, faults = 0, ~vanished, snapshots # {},
                       pc \in {"idle", "read", "collect", "retain"},
                       NEW f \in SUBSET Content, seen[Newest(snapshots)] \in f,
                       ~ AllSurviving(f), ~ Capped(f), Fits(f)
                PROVE  \E p \in RelatedChanges(f) : Introduces(p, f)
    BY DEF CauseShown
  <2>1. ~ WalkCapped(f) BY DEF Capped
  <2>. QED BY <2>1, ShownBySnapshots, ShownByLog
<1>. QED BY <1>1, Inductive, PTL

=============================================================================
