--------------------------- MODULE ServicesProofs ---------------------------
(* Proofs about Import, ProxySettings, SignIn and LoginLimiter, for any     *)
(* number of processes, threads, sign-ins and attempts and any bounds, and  *)
(* about the services side by side.                                         *)
EXTENDS MCServices, VaultProofs, FiniteSetTheorems, WellFoundedInduction, TLAPS

\* A set of revisions that is not empty has a first one.
LEMMA FirstOne ==
  ASSUME NEW S \in SUBSET Nat, S # {}
  PROVE  \E x \in S : \A y \in S : x <= y
<1>1. PICK x \in S : \A y \in S : <<y, x>> \notin OpToRel(<, Nat)
  BY NatLessThanWellFounded, WFMin, Zenon
<1>2. ASSUME NEW y \in S PROVE x <= y
  <2>1. y \in Nat /\ x \in Nat OBVIOUS
  <2>2. ~ (y < x) BY <1>1, <2>1, Zenon DEF OpToRel
  <2>. QED BY <2>1, <2>2
<1>. QED BY <1>2

\* And, ids being bounded, a set of ids a largest.
LEMMA LargestOne ==
  ASSUME NEW n \in Nat, NEW S \in SUBSET (1..n)
  PROVE  Largest(S) \in Nat /\ \A k \in S : k <= Largest(S)
<1>1. CASE S = {} BY <1>1 DEF Largest
<1>2. CASE S # {}
  <2>. DEFINE T == {k \in 0..n : n - k \in S}
  <2>1. PICK y \in S : TRUE BY <1>2
  <2>2. n - y \in T
    <3>1. y \in 1..n /\ n - y \in 0..n /\ n - (n - y) = y BY <2>1
    <3>. QED BY <3>1
  <2>3. PICK x \in T : \A k \in T : x <= k
    <3>0. T \subseteq Nat OBVIOUS
    <3>1. T \in SUBSET Nat /\ T # {} BY <2>2, <3>0
    <3>. HIDE DEF T
    <3>. QED BY <3>1, FirstOne
  <2>4. ASSUME NEW k \in S PROVE k <= n - x
    <3>0. k \in 1..n /\ n - k \in 0..n /\ n - (n - k) = k OBVIOUS
    <3>1. n - k \in T BY <3>0
    <3>2. x <= n - k /\ x \in Nat /\ k \in Nat BY <3>1, <2>3
    <3>. QED BY <3>2
  <2>5. n - x \in S BY <2>3
  <2>6. \E m \in S : \A k \in S : k <= m BY <2>4, <2>5
  <2>7. Largest(S) \in S /\ \A k \in S : k <= Largest(S)
    <3>. HIDE DEF T
    <3>. QED BY <1>2, <2>6 DEF Largest
  <2>8. S \subseteq Nat OBVIOUS
  <2>. QED BY <2>7, <2>8
<1>. QED BY <1>1, <1>2

-----------------------------------------------------------------------------
(* Migrations and the import *)

LEMMA ImportStart == ImportInit => ImportInv
<1>. SUFFICES ASSUME ImportInit PROVE ImportInv OBVIOUS
<1>. USE DEF ImportInit, Writer
<1>1. ImportTypeOK BY ImportAssumption DEF ImportTypeOK
<1>2. HolderKnows /\ OneCopies /\ SyncedPast BY DEF HolderKnows, OneCopies, SyncedPast
<1>3. MigratedOnce BY ImportAssumption DEF MigratedOnce
<1>4. IdentityPast BY ImportAssumption DEF IdentityPast
<1>5. ImportedWhole
  <2>1. history = {} /\ \A i \in Importer : importer[i] = "start" OBVIOUS
  <2>2. \A m \in Id : intervals[m] = Nothing OBVIOUS
  <2>3. "source" \in history <=> \E i \in Importer : importer[i] = "done" BY <2>1
  <2>4. \A m \in Id : intervals[m] # "source" BY <2>2, ImportAssumption
  <2>. QED BY <2>1, <2>3, <2>4 DEF ImportedWhole
<1>. QED BY <1>1, <1>2, <1>3, <1>4, <1>5 DEF ImportInv

\* upgrade: what is applied is what the holder of the lock still found pending, and the
\* rows of the import are not touched.
LEMMA MigrationSteps ==
  ASSUME ImportInv, NEW m \in Migrator, Lock(m) \/ Apply(m) \/ Unlock(m)
  PROVE  ImportInv'
<1>. USE DEF ImportInv
<1>1. /\ UNCHANGED <<importer, copied, history, intervals, nextId, recorder>>
      /\ crashes' \in 0..MaxCrashes
  BY ImportAssumption DEF Lock, Apply, Unlock, rows, ImportTypeOK
<1>2. OneCopies' /\ SyncedPast' /\ IdentityPast' /\ ImportedWhole'
  BY <1>1 DEF OneCopies, SyncedPast, IdentityPast, ImportedWhole, Id
<1>3. /\ applied' \in [1..Revisions -> Nat] /\ recorded' \subseteq 1..Revisions
      /\ upgrading' \in Migrator \cup {Nothing} /\ todo' \subseteq 1..Revisions
      /\ HolderKnows' /\ MigratedOnce'
  <2>1. CASE Lock(m)
    BY <2>1, ImportAssumption DEF Lock, ImportTypeOK, HolderKnows, MigratedOnce, Pending
  <2>2. CASE Unlock(m)
    BY <2>2, ImportAssumption DEF Unlock, ImportTypeOK, HolderKnows, MigratedOnce, Pending
  <2>3. CASE Apply(m)
    <3>. DEFINE v == CHOOSE x \in todo : \A y \in todo : x <= y
    <3>1. upgrading # Nothing /\ todo = Pending /\ todo \in SUBSET Nat /\ todo # {}
      BY <2>3, ImportAssumption DEF Apply, HolderKnows, Pending
    <3>2. v \in todo /\ \A y \in todo : v <= y
      BY <3>1, FirstOne
    <3>3. /\ applied' = [applied EXCEPT ![v] = @ + 1]
          /\ recorded' = recorded \cup {v} /\ todo' = todo \ {v}
          /\ upgrading' = upgrading
      BY <2>3 DEF Apply
    <3>. HIDE DEF v
    <3>4. v \in 1..Revisions /\ v \notin recorded /\ applied[v] = 0
      BY <3>1, <3>2 DEF Pending, MigratedOnce
    <3>5. ASSUME NEW u \in 1..v, u # v PROVE u \in recorded
      <4>1. u \in 1..Revisions /\ u < v BY <3>4, <3>5, ImportAssumption
      <4>. QED BY <4>1, <3>1, <3>2 DEF Pending
    <3>6. MigratedOnce'
      <4>1. ASSUME NEW u \in 1..Revisions PROVE applied'[u] = IF u \in recorded' THEN 1 ELSE 0
        BY <3>3, <3>4, <4>1 DEF MigratedOnce, ImportTypeOK
      <4>2. ASSUME NEW u \in recorded' PROVE 1..u \subseteq recorded'
        BY <3>3, <3>4, <3>5, <4>2 DEF MigratedOnce, ImportTypeOK
      <4>. QED BY <4>1, <4>2 DEF MigratedOnce
    <3>7. HolderKnows' BY <3>1, <3>3 DEF HolderKnows, Pending
    <3>. QED BY <3>3, <3>4, <3>6, <3>7 DEF ImportTypeOK
  <2>. QED BY <2>1, <2>2, <2>3
<1>4. ImportTypeOK' BY <1>1, <1>3 DEF ImportTypeOK, Id, Writer
<1>. QED BY <1>2, <1>3, <1>4

\* An import: only its commit changes what others see, except for the sequence.
LEMMA ImportSteps ==
  ASSUME ImportInv, NEW i \in Importer,
         Count(i) \/ CopyRows(i) \/ Resync(i) \/ CommitImport(i) \/ AbortImport(i)
  PROVE  ImportInv'
<1>. USE DEF ImportInv
<1>0. MigratedOnce' /\ HolderKnows'
  BY DEF Count, CopyRows, Resync, CommitImport, AbortImport, schema, MigratedOnce, HolderKnows, Pending
<1>1. CASE Count(i)
  <2>. USE <1>1 DEF Count, rows, schema
  <2>1. ImportTypeOK' BY DEF ImportTypeOK, Id, Writer
  <2>2. OneCopies' /\ SyncedPast' /\ IdentityPast'
    BY DEF ImportTypeOK, OneCopies, SyncedPast, IdentityPast, Id
  <2>3. ImportedWhole' BY DEF ImportTypeOK, ImportedWhole, Id
  <2>. QED BY <1>0, <2>1, <2>2, <2>3
<1>2. CASE CopyRows(i)
  <2>. USE <1>2 DEF CopyRows, rows, schema
  <2>0. 1..OldRows \subseteq Id BY ImportAssumption DEF Id
  <2>1. ImportTypeOK' BY <2>0 DEF ImportTypeOK, Writer, Id
  <2>2. OneCopies' BY <2>0 DEF ImportTypeOK, OneCopies, Taken
  <2>3. SyncedPast' /\ IdentityPast' BY DEF ImportTypeOK, SyncedPast, IdentityPast, Id
  <2>4. ImportedWhole' BY DEF ImportTypeOK, ImportedWhole, Id
  <2>. QED BY <1>0, <2>1, <2>2, <2>3, <2>4
<1>3. CASE Resync(i)
  <2>. USE <1>3 DEF Resync, schema
  <2>0. Taken \cup copied[i] \in SUBSET (1..(OldRows + MaxId)) /\ OldRows + MaxId \in Nat
    BY ImportAssumption DEF Taken, Id, ImportTypeOK
  <2>1. nextId' \in Nat /\ \A k \in Taken \cup copied[i] : k < nextId'
    <3>1. /\ Largest(Taken \cup copied[i]) \in Nat
          /\ \A k \in Taken \cup copied[i] : k <= Largest(Taken \cup copied[i])
      BY <2>0, LargestOne
    <3>2. Taken \cup copied[i] \subseteq Nat BY <2>0
    <3>. QED BY <3>1, <3>2
  <2>2. ImportTypeOK' BY <2>1 DEF ImportTypeOK, Id, Writer
  <2>3. OneCopies' BY DEF ImportTypeOK, OneCopies
  <2>4. SyncedPast'
    <3>1. \A j \in Importer : importer'[j] = "synced" => j = i BY DEF ImportTypeOK, OneCopies
    <3>. QED BY <3>1, <2>1 DEF SyncedPast
  <2>5. IdentityPast'
    <3>1. \A k \in Id : intervals[k] = "source" => k \in Taken BY ImportAssumption DEF Taken
    <3>. QED BY <3>1, <2>1 DEF IdentityPast, Id
  <2>6. ImportedWhole' BY DEF ImportTypeOK, ImportedWhole, Id
  <2>. QED BY <1>0, <2>2, <2>3, <2>4, <2>5, <2>6
<1>4. CASE CommitImport(i)
  <2>. USE <1>4 DEF CommitImport, schema
  <2>1. ImportTypeOK' BY DEF ImportTypeOK, Id, Writer
  <2>2. OneCopies' BY DEF ImportTypeOK, OneCopies
  <2>3. SyncedPast' BY DEF ImportTypeOK, SyncedPast
  <2>4. IdentityPast' BY DEF ImportTypeOK, SyncedPast, IdentityPast, Id
  <2>5. ImportedWhole'
    <3>1. importer'[i] = "done" /\ "source" \in history' BY DEF ImportTypeOK
    <3>2. ASSUME NEW n \in 1..OldRows PROVE intervals'[n] # Nothing
      <4>1. n \in Id BY ImportAssumption DEF Id
      <4>2. n \in copied[i] \/ intervals[n] # Nothing BY DEF OneCopies
      <4>. QED BY <4>1, <4>2, ImportAssumption DEF Id
    <3>. QED BY <3>1, <3>2 DEF ImportedWhole, Id
  <2>. QED BY <1>0, <2>1, <2>2, <2>3, <2>4, <2>5
<1>5. CASE AbortImport(i)
  <2>. USE <1>5 DEF AbortImport, rows, schema
  <2>1. ImportTypeOK' BY ImportAssumption DEF ImportTypeOK, Id, Writer
  <2>2. OneCopies' BY DEF ImportTypeOK, OneCopies
  <2>3. SyncedPast' /\ IdentityPast' BY DEF ImportTypeOK, SyncedPast, IdentityPast, Id
  <2>4. ImportedWhole' BY DEF ImportTypeOK, ImportedWhole, Id
  <2>. QED BY <1>0, <2>1, <2>2, <2>3, <2>4
<1>. QED BY <1>1, <1>2, <1>3, <1>4, <1>5

\* A console takes ids in order and inserts only where nothing is.
LEMMA ConsoleSteps ==
  ASSUME ImportInv, NEW c \in Recorder, DrawId(c) \/ Record(c)
  PROVE  ImportInv'
<1>. USE DEF ImportInv
<1>0. MigratedOnce' /\ HolderKnows'
  BY DEF DrawId, Record, schema, MigratedOnce, HolderKnows, Pending
<1>1. CASE DrawId(c)
  <2>. USE <1>1 DEF DrawId, schema
  <2>0. nextId' = nextId + 1 /\ nextId \in Nat BY DEF ImportTypeOK
  <2>1. ImportTypeOK' BY <2>0 DEF ImportTypeOK, Id, Writer
  <2>2. OneCopies' /\ ImportedWhole' BY DEF OneCopies, ImportedWhole, Id
  <2>3. SyncedPast' /\ IdentityPast'
    <3>1. \A n \in Id : n < nextId => n < nextId' BY <2>0, ImportAssumption DEF Id
    <3>. QED BY <3>1 DEF ImportTypeOK, SyncedPast, IdentityPast, Id
  <2>. QED BY <1>0, <2>1, <2>2, <2>3
<1>2. CASE Record(c)
  <2>. USE <1>2 DEF Record, schema
  <2>0. /\ UNCHANGED <<importer, copied, nextId, crashes>>
        /\ recorder[c] \in Id
        /\ \A n \in Id : \/ intervals'[n] = intervals[n]
                         \/ intervals[n] = Nothing /\ intervals'[n] = "console"
        /\ history' = history \/ history' = history \cup {"console"}
    BY DEF ImportTypeOK
  <2>1. ImportTypeOK'
    <3>1. intervals' \in [Id -> {Nothing} \cup Writer] BY DEF ImportTypeOK, Writer
    <3>2. history' \subseteq Writer BY <2>0 DEF ImportTypeOK, Writer
    <3>3. recorder' \in [Recorder -> Id \cup {0}] BY DEF ImportTypeOK
    <3>. HIDE DEF Record
    <3>. QED BY <3>1, <3>2, <3>3, <2>0, <1>2 DEF ImportTypeOK, Record, schema
  <2>2. 1..OldRows \subseteq Id BY ImportAssumption DEF Id
  <2>3. OneCopies'
    <3>1. \A n \in 1..OldRows : intervals[n] # Nothing => intervals'[n] # Nothing
      BY <2>0, <2>2, ImportAssumption
    <3>. QED BY <3>1, <2>0 DEF OneCopies
  <2>4. SyncedPast' /\ IdentityPast'
    BY <2>0 DEF ImportTypeOK, SyncedPast, IdentityPast, Id
  <2>5. ImportedWhole'
    <3>1. "source" \in history' <=> "source" \in history BY <2>0
    <3>2. \A n \in Id : /\ intervals'[n] = "source" => intervals[n] = "source"
                       /\ intervals[n] # Nothing => intervals'[n] # Nothing
      BY <2>0, ImportAssumption
    <3>. QED BY <3>1, <3>2, <2>0, <2>2 DEF ImportedWhole, Id
  <2>. QED BY <1>0, <2>1, <2>3, <2>4, <2>5
<1>. QED BY <1>1, <1>2

LEMMA ImportInvariant == ImportSpec => []ImportInv
<1>1. ImportInv /\ [ImportNext]_importVars => ImportInv'
  <2>. SUFFICES ASSUME ImportInv, [ImportNext]_importVars PROVE ImportInv' OBVIOUS
  <2>1. CASE ImportNext BY <2>1, MigrationSteps, ImportSteps, ConsoleSteps DEF ImportNext
  <2>2. CASE UNCHANGED importVars
    BY <2>2 DEF importVars, schema, rows, ImportInv, ImportTypeOK, HolderKnows, MigratedOnce, Pending,
                OneCopies, SyncedPast, IdentityPast, ImportedWhole, Id
  <2>. QED BY <2>1, <2>2
<1>. QED BY <1>1, ImportStart, PTL DEF ImportSpec

\* However many processes run the migrations and are killed in between, every revision
\* takes effect once and in order (migrate.py, upgrade).
THEOREM MigrationsRunOnce == ImportSpec => []MigratedOnce
<1>1. ImportInv => MigratedOnce BY DEF ImportInv
<1>. QED BY <1>1, ImportInvariant, PTL

\* Imports that are aborted, repeated or run twice next to a console that writes come
\* across whole or not at all (import_sqlite.py, run).
THEOREM ImportsAreWhole == ImportSpec => []ImportedWhole
<1>1. ImportInv => ImportedWhole BY DEF ImportInv
<1>. QED BY <1>1, ImportInvariant, PTL

\* And no id that came across is ever generated again (_resync_identity).
THEOREM IdentityStaysPast == ImportSpec => []IdentityPast
<1>1. ImportInv => IdentityPast BY DEF ImportInv
<1>. QED BY <1>1, ImportInvariant, PTL

-----------------------------------------------------------------------------
(* The list of trusted proxies *)

LEMMA GoneType ==
  /\ Gone.kind = "none" /\ Gone.proc \in Proc /\ Gone.gen = 0 /\ Gone.list = Unread
  /\ Gone \in [kind : {"none", "cold", "refresh", "save", "clear"}, proc : Proc, gen : Nat, list : List]
BY ProxyAssumption DEF Gone, List

LEMMA ProxyStart == ProxyInit => ProxyInv
<1>. SUFFICES ASSUME ProxyInit PROVE ProxyInv OBVIOUS
<1>. USE ProxyAssumption, GoneType DEF ProxyInit
<1>1. ProxyTypeOK
  <2>1. Cold \in [list : List, at : 0..MaxTick, gen : Nat, refreshing : BOOLEAN] BY DEF Cold, List
  <2>. QED BY <2>1 DEF ProxyTypeOK
<1>2. OneRefresh BY DEF OneRefresh, Refreshes, Cold
<1>3. ReadsCount BY DEF ReadsCount, Cold, Unread
<1>. QED BY <1>1, <1>2, <1>3 DEF ProxyInv

\* Every action keeps every variable in its type.
LEMMA ProxyTypes ==
  ASSUME ProxyTypeOK, [ProxyNext]_proxyVars
  PROVE  ProxyTypeOK'
<1>. USE ProxyAssumption, GoneType DEF ProxyTypeOK
<1>1. ASSUME NEW t \in Thread, Remember(t) PROVE ProxyTypeOK'
  <2>1. memory' \in [Proc -> [list : List, at : 0..MaxTick, gen : Nat, refreshing : BOOLEAN]]
    BY <1>1 DEF Remember, Remembered
  <2>. QED BY <1>1, <2>1 DEF Remember
<1>2. ASSUME NEW t \in Thread, ClearRefreshing(t) PROVE ProxyTypeOK' BY <1>2, ZenonT(60) DEF ClearRefreshing
<1>3. ASSUME NEW t \in Thread, RememberSaved(t) PROVE ProxyTypeOK' BY <1>3 DEF RememberSaved, Remembered
<1>4. ASSUME NEW t \in Thread, NEW b \in BOOLEAN, ReadStored(t, b) PROVE ProxyTypeOK'
  BY <1>4 DEF ReadStored, List
<1>5. ASSUME NEW t \in Thread, NEW p \in Proc, SetStored(t, p) PROVE ProxyTypeOK'
  BY <1>5 DEF SetStored, List
<1>6. ASSUME NEW t \in Thread, NEW p \in Proc, NEW b \in BOOLEAN, StoredValue(t, p, b) PROVE ProxyTypeOK'
  <2>1. PICK k \in {"cold", "refresh"} :
          /\ thread' = [thread EXCEPT ![t] = [kind |-> k, proc |-> p, gen |-> memory[p].gen, list |-> Unread]]
          /\ memory' = [memory EXCEPT ![p].refreshing = @ \/ k = "refresh"]
    BY <1>6 DEF StoredValue
  <2>2. CASE k = "refresh"
    <3>1. memory' = [memory EXCEPT ![p].refreshing = TRUE] BY <2>1, <2>2
    <3>2. memory' \in [Proc -> [list : List, at : 0..MaxTick, gen : Nat, refreshing : BOOLEAN]] BY <3>1, ZenonT(60)
    <3>3. thread' \in [Thread -> [kind : {"none", "cold", "refresh", "save", "clear"},
                                  proc : Proc, gen : Nat, list : List]]
      BY <2>1 DEF List
    <3>. QED BY <1>6, <3>2, <3>3 DEF StoredValue
  <2>3. CASE k = "cold"
    <3>1. memory' = memory
      <4>1. memory' = [memory EXCEPT ![p].refreshing = memory[p].refreshing] BY <2>1, <2>3
      <4>. QED BY <4>1
    <3>2. thread' \in [Thread -> [kind : {"none", "cold", "refresh", "save", "clear"},
                                  proc : Proc, gen : Nat, list : List]]
      BY <2>1 DEF List
    <3>. QED BY <1>6, <3>1, <3>2 DEF StoredValue
  <2>. QED BY <2>1, <2>2, <2>3
<1>7. ASSUME NEW p \in Proc, ProcRestarts(p) PROVE ProxyTypeOK'
  BY <1>7 DEF ProcRestarts, Cold, List
<1>8. CASE ProxyTick BY <1>8 DEF ProxyTick
<1>9. CASE UNCHANGED proxyVars BY <1>9 DEF proxyVars
<1>. QED BY <1>1, <1>2, <1>3, <1>4, <1>5, <1>6, <1>7, <1>8, <1>9 DEF ProxyNext

\* The flag of a process and the thread that will clear it come and go together.
LEMMA RefreshSteps ==
  ASSUME ProxyInv, [ProxyNext]_proxyVars
  PROVE  OneRefresh'
<1>. USE GoneType DEF ProxyInv, ProxyTypeOK
<1>0. ASSUME \A p \in Proc : memory'[p].refreshing = memory[p].refreshing,
             \A p \in Proc, t \in Thread : Refreshes(t, p)' <=> Refreshes(t, p)
      PROVE  OneRefresh'
  <2>1. ASSUME NEW p \in Proc
        PROVE  memory'[p].refreshing <=> \E t \in Thread : Refreshes(t, p)'
    BY <1>0, <2>1 DEF OneRefresh
  <2>2. ASSUME NEW p \in Proc, NEW t \in Thread, NEW u \in Thread,
               Refreshes(t, p)', Refreshes(u, p)'
        PROVE  t = u
    BY <1>0, <2>2 DEF OneRefresh
  <2>. QED BY <2>1, <2>2 DEF OneRefresh
<1>1. ASSUME NEW t \in Thread, Remember(t) PROVE OneRefresh'
  BY <1>0, <1>1 DEF Remember, Remembered, Refreshes
<1>2. ASSUME NEW t \in Thread, ClearRefreshing(t) PROVE OneRefresh'
  <2>0. PICK p \in Proc : p = thread[t].proc /\ Refreshes(t, p) BY <1>2 DEF ClearRefreshing, Refreshes
  <2>5. /\ memory' = [memory EXCEPT ![p].refreshing = FALSE]
        /\ thread' = [thread EXCEPT ![t] = Gone]
    BY <1>2, <2>0 DEF ClearRefreshing
  <2>1. memory'[p].refreshing = FALSE /\ \A u \in Thread : ~ Refreshes(u, p)'
    <3>1. \A u \in Thread : Refreshes(u, p) => u = t BY <2>0 DEF OneRefresh
    <3>2. \A u \in Thread : u # t => thread'[u] = thread[u] BY <2>5
    <3>3. thread'[t].kind = "none" BY <2>5
    <3>4. memory'[p].refreshing = FALSE BY <2>5
    <3>. QED BY <3>1, <3>2, <3>3, <3>4 DEF Refreshes
  <2>2. ASSUME NEW q \in Proc, q # p
        PROVE  /\ memory'[q].refreshing = memory[q].refreshing
               /\ \A u \in Thread : Refreshes(u, q)' <=> Refreshes(u, q)
    BY <2>0, <2>2, <2>5 DEF Refreshes
  <2>3. ASSUME NEW q \in Proc
        PROVE  memory'[q].refreshing <=> \E u \in Thread : Refreshes(u, q)'
    <3>1. CASE q = p BY <3>1, <2>1
    <3>2. CASE q # p BY <3>2, <2>2 DEF OneRefresh
    <3>. QED BY <3>1, <3>2
  <2>4. ASSUME NEW q \in Proc, NEW u \in Thread, NEW v \in Thread, Refreshes(u, q)', Refreshes(v, q)'
        PROVE  u = v
    <3>1. CASE q = p BY <3>1, <2>1, <2>4
    <3>2. CASE q # p BY <3>2, <2>2, <2>4 DEF OneRefresh
    <3>. QED BY <3>1, <3>2
  <2>. QED BY <2>3, <2>4 DEF OneRefresh
<1>3. ASSUME NEW t \in Thread, RememberSaved(t) PROVE OneRefresh'
  BY <1>0, <1>3 DEF RememberSaved, Remembered, Refreshes
<1>4. ASSUME NEW t \in Thread, NEW b \in BOOLEAN, ReadStored(t, b) PROVE OneRefresh'
  BY <1>0, <1>4 DEF ReadStored, Refreshes
<1>5. ASSUME NEW t \in Thread, NEW p \in Proc, SetStored(t, p) PROVE OneRefresh'
  BY <1>0, <1>5 DEF SetStored, Refreshes
<1>6. ASSUME NEW t \in Thread, NEW p \in Proc, NEW b \in BOOLEAN, StoredValue(t, p, b) PROVE OneRefresh'
  <2>. DEFINE k == IF memory[p].list = Unread /\ b THEN "cold" ELSE "refresh"
  <2>1. /\ thread[t].kind = "none" /\ (k = "refresh" => ~ memory[p].refreshing)
        /\ thread' = [thread EXCEPT ![t] = [kind |-> k, proc |-> p, gen |-> memory[p].gen, list |-> Unread]]
        /\ memory' = [memory EXCEPT ![p].refreshing = @ \/ k = "refresh"]
    BY <1>6 DEF StoredValue
  <2>2. CASE k = "cold"
    <3>. HIDE DEF k
    <3>1. memory' = [memory EXCEPT ![p].refreshing = memory[p].refreshing] BY <2>1, <2>2
    <3>2. memory' = memory BY <3>1
    <3>. QED BY <1>0, <2>1, <2>2, <3>2 DEF Refreshes
  <2>3. CASE k = "refresh"
    <3>. HIDE DEF k
    <3>1. memory' = [memory EXCEPT ![p].refreshing = TRUE] BY <2>1, <2>3
    <3>2. \A u \in Thread : ~ Refreshes(u, p) BY <2>1, <2>3 DEF OneRefresh
    <3>3. /\ Refreshes(t, p)'
          /\ \A u \in Thread, q \in Proc : u # t => (Refreshes(u, q)' <=> Refreshes(u, q))
          /\ \A q \in Proc : q # p => ~ Refreshes(t, q)' /\ ~ Refreshes(t, q)
      BY <2>1, <2>3 DEF Refreshes
    <3>4. ASSUME NEW q \in Proc
          PROVE  memory'[q].refreshing <=> \E u \in Thread : Refreshes(u, q)'
      <4>1. CASE q = p BY <4>1, <3>1, <3>3
      <4>2. CASE q # p
        <5>1. memory'[q].refreshing = memory[q].refreshing BY <4>2, <3>1
        <5>2. \A u \in Thread : Refreshes(u, q)' <=> Refreshes(u, q) BY <4>2, <3>3
        <5>. QED BY <5>1, <5>2 DEF OneRefresh
      <4>. QED BY <4>1, <4>2
    <3>5. ASSUME NEW q \in Proc, NEW u \in Thread, NEW v \in Thread, Refreshes(u, q)', Refreshes(v, q)'
          PROVE  u = v
      BY <3>2, <3>3, <3>5 DEF OneRefresh
    <3>. QED BY <3>4, <3>5 DEF OneRefresh
  <2>. QED BY <2>2, <2>3
<1>7. ASSUME NEW p \in Proc, ProcRestarts(p) PROVE OneRefresh'
  <2>1. memory'[p].refreshing = FALSE /\ \A u \in Thread : ~ Refreshes(u, p)'
    BY <1>7 DEF ProcRestarts, Cold, Refreshes
  <2>2. ASSUME NEW q \in Proc, q # p
        PROVE  /\ memory'[q].refreshing = memory[q].refreshing
               /\ \A u \in Thread : Refreshes(u, q)' <=> Refreshes(u, q)
    BY <1>7, <2>2 DEF ProcRestarts, Refreshes
  <2>3. ASSUME NEW q \in Proc
        PROVE  memory'[q].refreshing <=> \E u \in Thread : Refreshes(u, q)'
    <3>1. CASE q = p BY <3>1, <2>1
    <3>2. CASE q # p BY <3>2, <2>2 DEF OneRefresh
    <3>. QED BY <3>1, <3>2
  <2>4. ASSUME NEW q \in Proc, NEW u \in Thread, NEW v \in Thread, Refreshes(u, q)', Refreshes(v, q)'
        PROVE  u = v
    <3>1. CASE q = p BY <3>1, <2>1, <2>4
    <3>2. CASE q # p BY <3>2, <2>2, <2>4 DEF OneRefresh
    <3>. QED BY <3>1, <3>2
  <2>. QED BY <2>3, <2>4 DEF OneRefresh
<1>8. CASE ProxyTick BY <1>0, <1>8 DEF ProxyTick, Refreshes
<1>9. CASE UNCHANGED proxyVars BY <1>0, <1>9 DEF proxyVars, Refreshes
<1>. QED BY <1>1, <1>2, <1>3, <1>4, <1>5, <1>6, <1>7, <1>8, <1>9 DEF ProxyNext

\* A read that still counts never finds less than what its process has.
LEMMA CountSteps ==
  ASSUME ProxyInv, [ProxyNext]_proxyVars
  PROVE  ReadsCount'
<1>. USE ProxyAssumption, GoneType DEF ProxyInv, ProxyTypeOK
<1>0. written \in Nat /\ -1 \in Int /\ -2 \in Int /\ List \subseteq Int
  BY DEF List, Unread, Nobody
<1>1. ASSUME NEW t \in Thread, Remember(t) PROVE ReadsCount'
  <2>1. \A u \in Thread : /\ u # t => thread'[u] = thread[u]
                          /\ thread'[t].kind \notin {"cold", "refresh"}
                          /\ thread'[t].list \in {thread[t].list, Unread}
    BY <1>1 DEF Remember
  <2>2. CASE thread[t].gen = memory[thread[t].proc].gen
    <3>1. PICK p \in Proc : p = thread[t].proc OBVIOUS
    <3>2. \A q \in Proc : q # p => memory'[q] = memory[q]
      BY <1>1, <2>2, <3>1 DEF Remember, Remembered
    <3>3. memory'[p].list = thread[t].list /\ memory'[p].gen = memory[p].gen + 1
      BY <1>1, <2>2, <3>1 DEF Remember, Remembered
    <3>4. written' = written BY <1>1 DEF Remember
    <3>5. \A q \in Proc : memory'[q].list <= written' BY <3>2, <3>3, <3>4 DEF ReadsCount
    <3>6. \A u \in Thread : thread'[u].list <= written' BY <1>0, <2>1, <3>4 DEF ReadsCount, Unread
    <3>7. ASSUME NEW u \in Thread, thread'[u].kind \in {"cold", "refresh"}
          PROVE  /\ thread'[u].gen <= memory'[thread'[u].proc].gen
                 /\ thread'[u].gen = memory'[thread'[u].proc].gen /\ thread'[u].list \notin {Unread, Nobody} =>
                      memory'[thread'[u].proc].list <= thread'[u].list
      <4>1. thread'[u] = thread[u] BY <2>1, <3>7
      <4>2. thread[u].gen <= memory[thread[u].proc].gen BY <3>7, <4>1 DEF ReadsCount
      <4>3. CASE thread[u].proc = p BY <3>3, <4>1, <4>2, <4>3
      <4>4. CASE thread[u].proc # p BY <3>2, <3>7, <4>1, <4>2, <4>4 DEF ReadsCount
      <4>. QED BY <4>3, <4>4
    <3>. QED BY <3>5, <3>6, <3>7 DEF ReadsCount
  <2>3. CASE thread[t].gen # memory[thread[t].proc].gen
    <3>1. memory' = memory /\ written' = written BY <1>1, <2>3 DEF Remember
    <3>2. \A u \in Thread : thread'[u].list <= written' BY <1>0, <2>1, <3>1 DEF ReadsCount, Unread
    <3>. QED BY <2>1, <3>1, <3>2 DEF ReadsCount
  <2>. QED BY <2>2, <2>3
<1>2. ASSUME NEW t \in Thread, ClearRefreshing(t) PROVE ReadsCount'
  <2>1. \A p \in Proc : memory'[p].list = memory[p].list /\ memory'[p].gen = memory[p].gen
    BY <1>2 DEF ClearRefreshing
  <2>2. thread' = [thread EXCEPT ![t] = Gone] /\ written' = written BY <1>2 DEF ClearRefreshing
  <2>. QED BY <1>0, <2>1, <2>2 DEF ReadsCount, Unread
<1>3. ASSUME NEW t \in Thread, RememberSaved(t) PROVE ReadsCount'
  <2>1. PICK p \in Proc : p = thread[t].proc OBVIOUS
  <2>2. \A q \in Proc : q # p => memory'[q] = memory[q] BY <1>3, <2>1 DEF RememberSaved, Remembered
  <2>3. memory'[p].list = thread[t].list /\ memory'[p].gen = memory[p].gen + 1
    BY <1>3, <2>1 DEF RememberSaved, Remembered
  <2>4. thread' = [thread EXCEPT ![t] = Gone] /\ written' = written BY <1>3 DEF RememberSaved
  <2>5. ASSUME NEW u \in Thread, thread'[u].kind \in {"cold", "refresh"}
        PROVE  /\ thread'[u].gen <= memory'[thread'[u].proc].gen
               /\ thread'[u].gen = memory'[thread'[u].proc].gen /\ thread'[u].list \notin {Unread, Nobody} =>
                    memory'[thread'[u].proc].list <= thread'[u].list
    <3>1. thread'[u] = thread[u] BY <2>4, <2>5
    <3>2. thread[u].gen <= memory[thread[u].proc].gen BY <2>5, <3>1 DEF ReadsCount
    <3>3. CASE thread[u].proc = p BY <2>3, <3>1, <3>2, <3>3
    <3>4. CASE thread[u].proc # p BY <2>2, <2>5, <3>1, <3>2, <3>4 DEF ReadsCount
    <3>. QED BY <3>3, <3>4
  <2>6. \A q \in Proc : memory'[q].list <= written' BY <2>2, <2>3, <2>4 DEF ReadsCount
  <2>7. \A u \in Thread : thread'[u].list <= written' BY <1>0, <2>4 DEF ReadsCount, Unread
  <2>. QED BY <2>5, <2>6, <2>7 DEF ReadsCount
<1>4. ASSUME NEW t \in Thread, NEW b \in BOOLEAN, ReadStored(t, b) PROVE ReadsCount'
  <2>1. PICK l \in {Nobody, written} : thread' = [thread EXCEPT ![t].list = l]
    BY <1>4 DEF ReadStored
  <2>2. memory' = memory /\ written' = written BY <1>4 DEF ReadStored
  <2>3. \A u \in Thread : /\ thread'[u].list = IF u = t THEN l ELSE thread[u].list
                          /\ thread'[u].kind = thread[u].kind
                          /\ thread'[u].gen = thread[u].gen
                          /\ thread'[u].proc = thread[u].proc
    BY <2>1
  <2>4. l <= written BY <1>0 DEF Nobody
  <2>. QED BY <2>1, <2>2, <2>3, <2>4 DEF ReadsCount
<1>5. ASSUME NEW t \in Thread, NEW p \in Proc, SetStored(t, p) PROVE ReadsCount'
  <2>1. /\ written' = written + 1 /\ memory' = memory
        /\ thread' = [thread EXCEPT ![t] = [kind |-> "save", proc |-> p, gen |-> 0, list |-> written']]
    BY <1>5 DEF SetStored
  <2>2. \A u \in Thread : u # t => thread'[u] = thread[u] BY <2>1
  <2>3. thread'[t].kind = "save" /\ thread'[t].list = written + 1 BY <2>1
  <2>4. \A u \in Thread : thread[u].list \in Int BY <1>0
  <2>5. \A q \in Proc : memory[q].list \in Int BY <1>0
  <2>. QED BY <1>0, <2>1, <2>2, <2>3, <2>4, <2>5 DEF ReadsCount
<1>6. ASSUME NEW t \in Thread, NEW p \in Proc, NEW b \in BOOLEAN, StoredValue(t, p, b) PROVE ReadsCount'
  <2>1. PICK k \in {"cold", "refresh"} :
          /\ thread' = [thread EXCEPT ![t] = [kind |-> k, proc |-> p, gen |-> memory[p].gen, list |-> Unread]]
          /\ memory' = [memory EXCEPT ![p].refreshing = @ \/ k = "refresh"]
    BY <1>6 DEF StoredValue
  <2>2. \A q \in Proc : memory'[q].list = memory[q].list /\ memory'[q].gen = memory[q].gen BY <2>1
  <2>3. \A u \in Thread : u # t => thread'[u] = thread[u] BY <2>1
  <2>4. thread'[t].list = Unread /\ thread'[t].gen = memory[p].gen /\ thread'[t].proc = p BY <2>1
  <2>5. written' = written BY <1>6 DEF StoredValue
  <2>6. Unread <= written BY <1>0 DEF Unread
  <2>. QED BY <1>0, <2>2, <2>3, <2>4, <2>5, <2>6, SMTT(30) DEF ReadsCount
<1>7. ASSUME NEW p \in Proc, ProcRestarts(p) PROVE ReadsCount'
  <2>1. \A q \in Proc : q # p => memory'[q] = memory[q] BY <1>7 DEF ProcRestarts
  <2>2. memory'[p].list = Unread BY <1>7 DEF ProcRestarts, Cold
  <2>3. \A u \in Thread : thread'[u] = IF thread[u].proc = p THEN Gone ELSE thread[u]
    BY <1>7 DEF ProcRestarts
  <2>4. written' = written /\ Unread <= written BY <1>0, <1>7 DEF ProcRestarts, Unread
  <2>5. \A q \in Proc : memory'[q].list <= written' BY <2>1, <2>2, <2>4 DEF ReadsCount
  <2>6. \A u \in Thread : thread'[u].list <= written' BY <2>3, <2>4 DEF ReadsCount
  <2>7. ASSUME NEW u \in Thread, thread'[u].kind \in {"cold", "refresh"}
        PROVE  /\ thread'[u].gen <= memory'[thread'[u].proc].gen
               /\ thread'[u].gen = memory'[thread'[u].proc].gen /\ thread'[u].list \notin {Unread, Nobody} =>
                    memory'[thread'[u].proc].list <= thread'[u].list
    <3>1. thread'[u] = thread[u] /\ thread[u].proc # p BY <2>3, <2>7
    <3>. QED BY <2>1, <2>7, <3>1 DEF ReadsCount
  <2>. QED BY <2>5, <2>6, <2>7 DEF ReadsCount
<1>8. CASE ProxyTick BY <1>8 DEF ProxyTick, ReadsCount
<1>9. CASE UNCHANGED proxyVars BY <1>9 DEF proxyVars, ReadsCount
<1>. QED BY <1>1, <1>2, <1>3, <1>4, <1>5, <1>6, <1>7, <1>8, <1>9 DEF ProxyNext

\* What the memory, the threads and the stored list keep between them.
LEMMA ProxyInvariant == ProxySpec => []ProxyInv
<1>1. ProxyInit => ProxyInv BY ProxyStart
<1>2. ASSUME ProxyInv, [ProxyNext]_proxyVars PROVE ProxyInv'
  <2>1. ProxyTypeOK' BY <1>2, ProxyTypes DEF ProxyInv
  <2>2. OneRefresh' BY <1>2, RefreshSteps
  <2>3. ReadsCount' BY <1>2, CountSteps
  <2>. QED BY <2>1, <2>2, <2>3 DEF ProxyInv
<1>. QED BY <1>1, <1>2, PTL DEF ProxySpec

\* A process that believes a refresh is running has exactly one thread that will say it
\* is over, for any number of processes and threads (proxies.py:152-154, 75-82).
THEOREM RefreshesComeBack == ProxySpec => []RefreshComesBack
<1>1. ASSUME ProxyInv PROVE RefreshComesBack
  <2>1. ASSUME NEW p \in Proc
        PROVE  Cardinality({t \in Thread : thread[t].proc = p /\ thread[t].kind \in {"refresh", "clear"}})
                 = IF memory[p].refreshing THEN 1 ELSE 0
    <3>. DEFINE S == {t \in Thread : thread[t].proc = p /\ thread[t].kind \in {"refresh", "clear"}}
    <3>1. CASE memory[p].refreshing
      <4>1. PICK t \in Thread : Refreshes(t, p) BY <1>1, <3>1 DEF ProxyInv, OneRefresh
      <4>2. S = {t} BY <1>1, <4>1 DEF ProxyInv, OneRefresh, Refreshes
      <4>. QED BY <3>1, <4>2, FS_Singleton
    <3>2. CASE ~ memory[p].refreshing
      <4>1. S = {} BY <1>1, <3>2 DEF ProxyInv, OneRefresh, Refreshes
      <4>. QED BY <3>2, <4>1, FS_EmptySet
    <3>. QED BY <3>1, <3>2
  <2>. QED BY <2>1 DEF RefreshComesBack
<1>. QED BY <1>1, ProxyInvariant, PTL

\* A read never takes a process back to an older list: what it remembers counts only if
\* nothing was remembered since it began, so it found at least what the process has
\* (proxies.py:142-143).
THEOREM ReadsOnlyAdvance == ProxySpec => ReadsNeverRegress
<1>. DEFINE Retained(p) ==
       memory'[p].list # memory[p].list /\ memory[p].list # Unread /\ memory'[p].list # Unread =>
         \E t \in Thread :
           /\ thread[t].proc = p /\ thread[t].list = memory'[p].list
           /\ \/ thread[t].kind = "save"
              \/ memory'[p].list = Nobody
              \/ memory'[p].list >= memory[p].list
<1>1. ASSUME ProxyInv, [ProxyNext]_proxyVars
      PROVE  [\A p \in Proc : Retained(p)]_proxyVars
  <2>. USE <1>1, ProxyAssumption, GoneType DEF ProxyInv, ProxyTypeOK
  <2>. SUFFICES ASSUME NEW p \in Proc, ProxyNext, memory'[p].list # memory[p].list,
                       memory[p].list # Unread, memory'[p].list # Unread
                PROVE  Retained(p)
    OBVIOUS
  <2>1. ASSUME NEW t \in Thread, Remember(t) PROVE Retained(p)
    <3>1. thread[t].gen = memory[thread[t].proc].gen BY <2>1 DEF Remember
    <3>2. memory' = Remembered(thread[t].proc, thread[t].list) BY <2>1, <3>1 DEF Remember
    <3>3. thread[t].proc = p /\ memory'[p].list = thread[t].list BY <3>2 DEF Remembered
    <3>4. thread[t].kind \in {"cold", "refresh"} BY <2>1 DEF Remember
    <3>5. thread[t].list = Nobody \/ thread[t].list >= memory[p].list
      BY <3>1, <3>3, <3>4 DEF ReadsCount, List, Unread, Nobody
    <3>. QED BY <3>3, <3>5
  <2>2. ASSUME NEW t \in Thread, RememberSaved(t) PROVE Retained(p)
    <3>1. thread[t].proc = p /\ memory'[p].list = thread[t].list
      BY <2>2 DEF RememberSaved, Remembered
    <3>. QED BY <2>2, <3>1 DEF RememberSaved
  <2>3. ASSUME NEW t \in Thread, ClearRefreshing(t) PROVE FALSE BY <2>3 DEF ClearRefreshing
  <2>4. ASSUME NEW t \in Thread, NEW b \in BOOLEAN, ReadStored(t, b) PROVE FALSE BY <2>4 DEF ReadStored
  <2>5. ASSUME NEW t \in Thread, NEW q \in Proc, SetStored(t, q) PROVE FALSE BY <2>5 DEF SetStored
  <2>6. ASSUME NEW t \in Thread, NEW q \in Proc, NEW b \in BOOLEAN, StoredValue(t, q, b) PROVE FALSE
    <3>1. PICK x : memory' = [memory EXCEPT ![q].refreshing = x] BY <2>6 DEF StoredValue
    <3>. QED BY <3>1
  <2>7. ASSUME NEW q \in Proc, ProcRestarts(q) PROVE FALSE BY <2>7 DEF ProcRestarts, Cold
  <2>8. CASE ProxyTick BY <2>8 DEF ProxyTick
  <2>. QED BY <2>1, <2>2, <2>3, <2>4, <2>5, <2>6, <2>7, <2>8 DEF ProxyNext
<1>. QED BY <1>1, ProxyInvariant, PTL DEF ProxySpec, ReadsNeverRegress

-----------------------------------------------------------------------------
(* SignIn *)

FlowType == [stage : {"new", "away", "redeem", "verify", "fetch", "store",
                      "admitted", "failed", "refused"},
             from : Browser, into : Browser, server : Server, began : Moment,
             signer : 0..MaxKeys, got : KeySets, again : BOOLEAN]

\* An attempt that is over is an attempt, at no stage that relies on a key.
LEMMA OverTypes ==
  /\ NoKeys \in KeySets /\ NewFlow \in FlowType /\ NewFlow.stage = "new" /\ NewFlow.signer = 0
  /\ \A a \in FlowType, how \in {"admitted", "failed", "refused"} :
       Over(a, how) \in FlowType /\ Over(a, how).stage = how
<1>1. NoKeys \in KeySets BY SignInAssumption DEF NoKeys, KeySets
<1>2. NewFlow \in FlowType /\ NewFlow.stage = "new" /\ NewFlow.signer = 0
  BY <1>1, SignInAssumption DEF NewFlow, FlowType, Moment
<1>3. ASSUME NEW a \in FlowType, NEW how \in {"admitted", "failed", "refused"}
      PROVE  Over(a, how) \in FlowType /\ Over(a, how).stage = how
  <2>1. CASE how = "admitted"
    <3>1. Over(a, how) = [NewFlow EXCEPT !.stage = how, !.from = a.from, !.into = a.into]
      BY <2>1 DEF Over
    <3>. QED BY <1>2, <2>1, <3>1 DEF FlowType
  <2>2. CASE how # "admitted"
    <3>1. Over(a, how) = [NewFlow EXCEPT !.stage = how] BY <2>2 DEF Over
    <3>. QED BY <1>2, <3>1 DEF FlowType
  <2>. QED BY <2>1, <2>2
<1>. QED BY <1>1, <1>2, <1>3

\* What each step of an attempt makes of it.
LEMMA FlowSteps ==
  ASSUME SignInTypeOK, NEW f \in Flow
  PROVE  /\ Redeem(f) => \E x \in FlowType :
              /\ flow' = [flow EXCEPT ![f] = x]
              /\ x.stage = "refused" \/ (x.stage = "verify" /\ x.signer = signing)
         /\ Verify(f) => \E x \in FlowType :
              /\ flow' = [flow EXCEPT ![f] = x]
              /\ \/ x.stage = "admitted" /\ Young(keyset[flow[f].server].at)
                    /\ Knows(keyset[flow[f].server], flow[f].signer)
                 \/ x.stage = "fetch" /\ x.signer = flow[f].signer
         /\ FetchKeys(f) => \E x \in FlowType :
              /\ flow' = [flow EXCEPT ![f] = x]
              /\ \/ x.stage = "refused"
                 \/ /\ x.stage = "store" /\ x.signer = flow[f].signer
                    /\ x.got = [at |-> moment, newest |-> signing, from |-> oldest]
         /\ StoreKeys(f) => \E x \in FlowType :
              /\ flow' = [flow EXCEPT ![f] = x]
              /\ \/ x.stage = "admitted" /\ Knows(flow[f].got, flow[f].signer)
                 \/ x.stage = "failed" /\ ~ Knows(flow[f].got, flow[f].signer)
                 \/ x.stage = "fetch" /\ x.signer = flow[f].signer
<1>. USE OverTypes
<1>0. flow[f] \in FlowType /\ signing \in 0..MaxKeys /\ oldest \in 0..MaxKeys /\ moment \in Moment
  BY SignInAssumption DEF SignInTypeOK, FlowType
<1>1. ASSUME Redeem(f)
      PROVE  \E x \in FlowType :
               /\ flow' = [flow EXCEPT ![f] = x]
               /\ x.stage = "refused" \/ (x.stage = "verify" /\ x.signer = signing)
  <2>1. CASE up
    <3>. DEFINE x == [flow[f] EXCEPT !.stage = "verify", !.signer = signing]
    <3>1. x \in FlowType /\ x.stage = "verify" /\ x.signer = signing BY <1>0 DEF FlowType
    <3>2. flow' = [flow EXCEPT ![f] = x] BY <1>1, <2>1 DEF Redeem
    <3>. HIDE DEF x
    <3>. QED BY <3>1, <3>2
  <2>2. CASE ~ up
    <3>1. flow' = [flow EXCEPT ![f] = Over(flow[f], "refused")] BY <1>1, <2>2 DEF Redeem
    <3>. QED BY <1>0, <3>1
  <2>. QED BY <2>1, <2>2
<1>2. ASSUME Verify(f)
      PROVE  \E x \in FlowType :
               /\ flow' = [flow EXCEPT ![f] = x]
               /\ \/ x.stage = "admitted" /\ Young(keyset[flow[f].server].at)
                     /\ Knows(keyset[flow[f].server], flow[f].signer)
                  \/ x.stage = "fetch" /\ x.signer = flow[f].signer
  <2>. DEFINE copy == keyset[flow[f].server]
  <2>1. CASE Young(copy.at) /\ Knows(copy, flow[f].signer)
    <3>1. flow' = [flow EXCEPT ![f] = Over(flow[f], "admitted")] BY <1>2, <2>1 DEF Verify
    <3>. QED BY <1>0, <2>1, <3>1
  <2>2. CASE ~ (Young(copy.at) /\ Knows(copy, flow[f].signer))
    <3>0. PICK b \in BOOLEAN : b = Young(copy.at) BY DEF Young
    <3>. DEFINE x == [flow[f] EXCEPT !.stage = "fetch", !.again = b]
    <3>1. x \in FlowType /\ x.stage = "fetch" /\ x.signer = flow[f].signer BY <1>0 DEF FlowType
    <3>2. flow' = [flow EXCEPT ![f] = x] BY <1>2, <2>2, <3>0 DEF Verify
    <3>. HIDE DEF x
    <3>. QED BY <3>1, <3>2
  <2>. QED BY <2>1, <2>2
<1>3. ASSUME FetchKeys(f)
      PROVE  \E x \in FlowType :
               /\ flow' = [flow EXCEPT ![f] = x]
               /\ \/ x.stage = "refused"
                  \/ /\ x.stage = "store" /\ x.signer = flow[f].signer
                     /\ x.got = [at |-> moment, newest |-> signing, from |-> oldest]
  <2>1. CASE up
    <3>. DEFINE g == [at |-> moment, newest |-> signing, from |-> oldest]
                x == [flow[f] EXCEPT !.stage = "store", !.got = g]
    <3>0. g \in KeySets BY <1>0 DEF KeySets
    <3>2. flow' = [flow EXCEPT ![f] = x] BY <1>3, <2>1 DEF FetchKeys
    <3>. HIDE DEF g
    <3>1. x \in FlowType /\ x.stage = "store" /\ x.signer = flow[f].signer /\ x.got = g
      BY <1>0, <3>0 DEF FlowType
    <3>. HIDE DEF x
    <3>. QED BY <3>1, <3>2 DEF g
  <2>2. CASE ~ up
    <3>1. flow' = [flow EXCEPT ![f] = Over(flow[f], "refused")] BY <1>3, <2>2 DEF FetchKeys
    <3>. QED BY <1>0, <3>1
  <2>. QED BY <2>1, <2>2
<1>4. ASSUME StoreKeys(f)
      PROVE  \E x \in FlowType :
               /\ flow' = [flow EXCEPT ![f] = x]
               /\ \/ x.stage = "admitted" /\ Knows(flow[f].got, flow[f].signer)
                  \/ x.stage = "failed" /\ ~ Knows(flow[f].got, flow[f].signer)
                  \/ x.stage = "fetch" /\ x.signer = flow[f].signer
  <2>1. CASE Knows(flow[f].got, flow[f].signer)
    <3>1. flow' = [flow EXCEPT ![f] = Over(flow[f], "admitted")] BY <1>4, <2>1 DEF StoreKeys
    <3>. QED BY <1>0, <2>1, <3>1
  <2>2. CASE ~ Knows(flow[f].got, flow[f].signer) /\ flow[f].again
    <3>1. flow' = [flow EXCEPT ![f] = Over(flow[f], "failed")] BY <1>4, <2>2 DEF StoreKeys
    <3>. QED BY <1>0, <2>2, <3>1
  <2>3. CASE ~ Knows(flow[f].got, flow[f].signer) /\ ~ flow[f].again
    <3>. DEFINE x == [flow[f] EXCEPT !.stage = "fetch", !.again = TRUE, !.got = NoKeys]
    <3>1. x \in FlowType /\ x.stage = "fetch" /\ x.signer = flow[f].signer BY <1>0 DEF FlowType
    <3>2. flow' = [flow EXCEPT ![f] = x] BY <1>4, <2>3 DEF StoreKeys
    <3>. HIDE DEF x
    <3>. QED BY <3>1, <3>2
  <2>. QED BY <2>1, <2>2, <2>3
<1>. QED BY <1>1, <1>2, <1>3, <1>4

\* The steps that begin and continue an attempt.
LEMMA BrowserSteps ==
  ASSUME SignInTypeOK, NEW f \in Flow, NEW p \in Server, NEW b \in Browser
  PROVE  /\ BeginFlow(p, b, f) => \E x \in FlowType :
              flow' = [flow EXCEPT ![f] = x] /\ x.stage = "away"
         /\ StartComplete(p, b, f) => \E x \in FlowType :
              flow' = [flow EXCEPT ![f] = x] /\ x.stage \in {"redeem", "failed", "refused"}
<1>. USE OverTypes
<1>0. flow[f] \in FlowType /\ moment \in Moment BY DEF SignInTypeOK, FlowType
<1>1. ASSUME BeginFlow(p, b, f)
      PROVE  \E x \in FlowType : flow' = [flow EXCEPT ![f] = x] /\ x.stage = "away"
  <2>. DEFINE x == [flow[f] EXCEPT !.stage = "away", !.from = b, !.into = b, !.began = moment]
  <2>1. x \in FlowType /\ x.stage = "away" BY <1>0 DEF FlowType
  <2>2. flow' = [flow EXCEPT ![f] = x] BY <1>1 DEF BeginFlow
  <2>. HIDE DEF x
  <2>. QED BY <2>1, <2>2
<1>2. ASSUME StartComplete(p, b, f)
      PROVE  \E x \in FlowType :
               flow' = [flow EXCEPT ![f] = x] /\ x.stage \in {"redeem", "failed", "refused"}
  <2>1. CASE Accepts(b, f) /\ (Young(metadata[p]) \/ up)
    <3>. DEFINE x == [flow[f] EXCEPT !.stage = "redeem", !.into = b, !.server = p]
    <3>1. x \in FlowType /\ x.stage = "redeem" BY <1>0 DEF FlowType
    <3>2. flow' = [flow EXCEPT ![f] = x] BY <1>2, <2>1 DEF StartComplete
    <3>. HIDE DEF x
    <3>. QED BY <3>1, <3>2
  <2>2. CASE ~ (Accepts(b, f) /\ (Young(metadata[p]) \/ up))
    <3>1. PICK how \in {"failed", "refused"} : flow' = [flow EXCEPT ![f] = Over(flow[f], how)]
      BY <1>2, <2>2 DEF StartComplete
    <3>. QED BY <1>0, <3>1
  <2>. QED BY <2>1, <2>2
<1>. QED BY <1>1, <1>2

\* Every action keeps every variable in its type.
LEMMA SignInTypes ==
  ASSUME SignInTypeOK, [SignInNext]_signInVars
  PROVE  SignInTypeOK'
<1>. USE SignInAssumption
<1>0. /\ moment \in Moment
      /\ signing \in 1..MaxKeys /\ oldest \in 1..signing /\ withdrawn \in Moment
      /\ up \in BOOLEAN /\ trusted \in {"here", "elsewhere", "off"}
      /\ metadata \in [Server -> {-1} \cup Moment] /\ keyset \in [Server -> KeySets]
      /\ flowCookie \in [Browser -> Flow \cup {NoFlow}]
      /\ flow \in [Flow -> FlowType] /\ switches \in Nat
  BY DEF SignInTypeOK, FlowType
<1>00. SignInTypeOK' <=>
      /\ moment' \in Moment
      /\ signing' \in 1..MaxKeys /\ oldest' \in 1..signing' /\ withdrawn' \in Moment
      /\ up' \in BOOLEAN /\ trusted' \in {"here", "elsewhere", "off"}
      /\ metadata' \in [Server -> {-1} \cup Moment] /\ keyset' \in [Server -> KeySets]
      /\ flowCookie' \in [Browser -> Flow \cup {NoFlow}]
      /\ flow' \in [Flow -> FlowType] /\ switches' \in Nat
  BY DEF SignInTypeOK, FlowType
<1>1. ASSUME NEW f \in Flow, Redeem(f) PROVE SignInTypeOK'
  <2>1. flow' \in [Flow -> FlowType] BY <1>0, <1>1, FlowSteps
  <2>. QED BY <1>0, <1>00, <1>1, <2>1 DEF Redeem, provider, caches
<1>2. ASSUME NEW f \in Flow, Verify(f) PROVE SignInTypeOK'
  <2>1. flow' \in [Flow -> FlowType] BY <1>0, <1>2, FlowSteps
  <2>. QED BY <1>0, <1>00, <1>2, <2>1 DEF Verify, provider, caches
<1>3. ASSUME NEW f \in Flow, FetchKeys(f) PROVE SignInTypeOK'
  <2>1. flow' \in [Flow -> FlowType] BY <1>0, <1>3, FlowSteps
  <2>. QED BY <1>0, <1>00, <1>3, <2>1 DEF FetchKeys, provider, caches
<1>4. ASSUME NEW f \in Flow, StoreKeys(f) PROVE SignInTypeOK'
  <2>1. flow' \in [Flow -> FlowType] BY <1>0, <1>4, FlowSteps
  <2>2. [flow[f].got EXCEPT !.at = moment] \in KeySets BY <1>0, ZenonT(60) DEF KeySets, FlowType
  <2>3. keyset' \in [Server -> KeySets] BY <1>0, <1>4, <2>2 DEF StoreKeys
  <2>. QED BY <1>0, <1>00, <1>4, <2>1, <2>3 DEF StoreKeys, provider
<1>5. ASSUME NEW f \in Flow, NEW p \in Server, NEW b \in Browser, BeginFlow(p, b, f) PROVE SignInTypeOK'
  <2>1. flow' \in [Flow -> FlowType] BY <1>0, <1>5, BrowserSteps
  <2>2. metadata' \in [Server -> {-1} \cup Moment] BY <1>0, <1>5 DEF BeginFlow
  <2>3. flowCookie' \in [Browser -> Flow \cup {NoFlow}] BY <1>0, <1>5 DEF BeginFlow
  <2>. QED BY <1>0, <1>00, <1>5, <2>1, <2>2, <2>3 DEF BeginFlow, provider
<1>6. ASSUME NEW f \in Flow, NEW p \in Server, NEW b \in Browser, StartComplete(p, b, f) PROVE SignInTypeOK'
  <2>1. flow' \in [Flow -> FlowType] BY <1>0, <1>6, BrowserSteps
  <2>2. metadata' \in [Server -> {-1} \cup Moment]
    <3>1. metadata' = metadata \/ metadata' = [metadata EXCEPT ![p] = metadata[p]]
          \/ metadata' = [metadata EXCEPT ![p] = moment]
      BY <1>6 DEF StartComplete
    <3>. QED BY <1>0, <3>1
  <2>3. flowCookie' \in [Browser -> Flow \cup {NoFlow}] BY <1>0, <1>6 DEF StartComplete
  <2>. QED BY <1>0, <1>00, <1>6, <2>1, <2>2, <2>3 DEF StartComplete, provider
<1>7. ASSUME NEW p \in Server, NEW choice \in {"here", "elsewhere", "off"}, PutOidc(p, choice)
      PROVE  SignInTypeOK'
  <2>1. keyset' \in [Server -> KeySets] BY <1>0, <1>7, OverTypes DEF PutOidc
  <2>2. metadata' \in [Server -> {-1} \cup Moment] BY <1>0, <1>7 DEF PutOidc
  <2>. QED BY <1>0, <1>00, <1>7, <2>1, <2>2 DEF PutOidc, provider
<1>8. CASE Rotated BY <1>0, <1>00, <1>8 DEF Rotated, caches
<1>9. CASE Withdrawn BY <1>0, <1>00, <1>9 DEF Withdrawn, caches
<1>10. CASE UpOrDown BY <1>0, <1>00, <1>10 DEF UpOrDown, provider, caches
<1>11. CASE MomentPasses
  <2>1. moment' \in Moment BY <1>0, <1>11 DEF MomentPasses, Moment
  <2>. QED BY <1>0, <1>00, <1>11, <2>1 DEF MomentPasses, provider, caches
<1>12. CASE UNCHANGED signInVars BY <1>0, <1>00, <1>12 DEF signInVars, provider, caches
<1>. QED BY <1>1, <1>2, <1>3, <1>4, <1>5, <1>6, <1>7, <1>8, <1>9, <1>10, <1>11, <1>12 DEF SignInNext

\* What a copy of the keys has, and since when.
LEMMA KeyCopySteps ==
  ASSUME SignInInv, [SignInNext]_signInVars
  PROVE  KeysKept'
<1>. USE SignInAssumption DEF SignInInv
<1>0. /\ moment \in Nat /\ signing \in Nat /\ oldest \in Nat /\ withdrawn \in Nat
      /\ \A p \in Server : keyset[p].at \in Int /\ keyset[p].from \in Nat
      /\ \A f \in Flow : /\ flow[f].signer \in Nat /\ flow[f].got.at \in Int
                         /\ flow[f].got.from \in Nat /\ flow[f].got.newest \in Nat
  BY DEF SignInTypeOK, Moment, KeySets
<1>1. /\ withdrawn <= moment
      /\ \A p \in Server :
           /\ keyset[p].at <= moment
           /\ keyset[p].at >= 0 /\ keyset[p].from < oldest => keyset[p].at <= withdrawn + 1
      /\ \A f \in Flow :
           /\ flow[f].stage \in {"verify", "fetch", "store"} => flow[f].signer <= signing
           /\ flow[f].stage = "store" =>
                /\ 0 <= flow[f].got.at /\ flow[f].got.at <= moment /\ moment <= flow[f].got.at + 1
                /\ flow[f].got.from <= oldest
                /\ flow[f].got.from < oldest => flow[f].got.at <= withdrawn
                /\ flow[f].signer <= flow[f].got.newest
  BY DEF KeysKept
<1>2. ASSUME UNCHANGED <<moment, signing, oldest, withdrawn, keyset>>, NEW f \in Flow, NEW x,
             flow' = [flow EXCEPT ![f] = x],
             x.stage \in {"verify", "fetch", "store"} => x.signer <= signing,
             x.stage = "store" => x.signer <= signing
                                  /\ x.got = [at |-> moment, newest |-> signing, from |-> oldest]
      PROVE  KeysKept'
  <2>1. ASSUME NEW g \in Flow
        PROVE  /\ flow'[g].stage \in {"verify", "fetch", "store"} => flow'[g].signer <= signing'
               /\ flow'[g].stage = "store" =>
                    /\ 0 <= flow'[g].got.at /\ flow'[g].got.at <= moment' /\ moment' <= flow'[g].got.at + 1
                    /\ flow'[g].got.from <= oldest'
                    /\ flow'[g].got.from < oldest' => flow'[g].got.at <= withdrawn'
                    /\ flow'[g].signer <= flow'[g].got.newest
    <3>1. CASE g = f
      <4>1. flow'[g] = x BY <1>2, <3>1 DEF SignInTypeOK
      <4>. QED BY <1>0, <1>2, <4>1
    <3>2. CASE g # f
      <4>1. flow'[g] = flow[g] BY <1>2, <3>2 DEF SignInTypeOK
      <4>. QED BY <1>1, <1>2, <4>1
    <3>. QED BY <3>1, <3>2
  <2>. QED BY <1>1, <1>2, <2>1 DEF KeysKept
<1>3. ASSUME NEW f \in Flow, Redeem(f) PROVE KeysKept'
  <2>1. PICK x \in FlowType : /\ flow' = [flow EXCEPT ![f] = x]
                              /\ x.stage = "refused" \/ (x.stage = "verify" /\ x.signer = signing)
    BY <1>3, FlowSteps
  <2>2. x.stage \in {"verify", "fetch", "store"} => x.signer <= signing BY <1>0, <2>1
  <2>3. x.stage # "store" BY <2>1
  <2>. QED BY <1>2, <1>3, <2>1, <2>2, <2>3 DEF Redeem, provider, caches
<1>4. ASSUME NEW f \in Flow, Verify(f) PROVE KeysKept'
  <2>1. PICK x \in FlowType : /\ flow' = [flow EXCEPT ![f] = x]
                              /\ x.stage = "admitted" \/ (x.stage = "fetch" /\ x.signer = flow[f].signer)
    BY <1>4, FlowSteps
  <2>2. flow[f].signer <= signing BY <1>1, <1>4 DEF Verify
  <2>. QED BY <1>2, <1>4, <2>1, <2>2 DEF Verify, provider, caches
<1>5. ASSUME NEW f \in Flow, FetchKeys(f) PROVE KeysKept'
  <2>1. PICK x \in FlowType :
          /\ flow' = [flow EXCEPT ![f] = x]
          /\ \/ x.stage = "refused"
             \/ /\ x.stage = "store" /\ x.signer = flow[f].signer
                /\ x.got = [at |-> moment, newest |-> signing, from |-> oldest]
    BY <1>5, FlowSteps
  <2>2. flow[f].signer <= signing BY <1>1, <1>5 DEF FetchKeys
  <2>. QED BY <1>2, <1>5, <2>1, <2>2 DEF FetchKeys, provider, caches
<1>6. ASSUME NEW f \in Flow, StoreKeys(f) PROVE KeysKept'
  <2>. DEFINE p == flow[f].server
  <2>1. PICK x \in FlowType :
          /\ flow' = [flow EXCEPT ![f] = x]
          /\ x.stage \in {"admitted", "failed"} \/ (x.stage = "fetch" /\ x.signer = flow[f].signer)
    BY <1>6, FlowSteps
  <2>2. /\ flow[f].stage = "store" /\ UNCHANGED <<moment, signing, oldest, withdrawn>>
        /\ keyset' = [keyset EXCEPT ![p] = [flow[f].got EXCEPT !.at = moment]]
    BY <1>6 DEF StoreKeys, provider
  <2>3. ASSUME NEW q \in Server
        PROVE  /\ keyset'[q].at <= moment
               /\ keyset'[q].at >= 0 /\ keyset'[q].from < oldest => keyset'[q].at <= withdrawn + 1
    <3>1. CASE q = p
      <4>1. flow[f].got \in KeySets BY DEF SignInTypeOK
      <4>2. keyset'[q].at = moment /\ keyset'[q].from = flow[f].got.from
        BY <2>2, <3>1, <4>1 DEF SignInTypeOK, KeySets
      <4>. QED BY <1>0, <1>1, <2>2, <4>2
    <3>2. CASE q # p
      <4>1. keyset'[q] = keyset[q] BY <2>2, <3>2 DEF SignInTypeOK
      <4>. QED BY <1>1, <4>1
    <3>. QED BY <3>1, <3>2
  <2>4. \A g \in Flow : flow'[g] = flow[g] \/ flow'[g] = x BY <2>1 DEF SignInTypeOK
  <2>5. flow[f].signer <= signing BY <1>1, <2>2
  <2>. QED BY <1>1, <2>1, <2>2, <2>3, <2>4, <2>5 DEF KeysKept
<1>7. ASSUME NEW f \in Flow, NEW p \in Server, NEW b \in Browser, BeginFlow(p, b, f) PROVE KeysKept'
  <2>1. PICK x \in FlowType : flow' = [flow EXCEPT ![f] = x] /\ x.stage = "away"
    BY <1>7, BrowserSteps
  <2>. QED BY <1>2, <1>7, <2>1 DEF BeginFlow, provider
<1>8. ASSUME NEW f \in Flow, NEW p \in Server, NEW b \in Browser, StartComplete(p, b, f) PROVE KeysKept'
  <2>1. PICK x \in FlowType :
          flow' = [flow EXCEPT ![f] = x] /\ x.stage \in {"redeem", "failed", "refused"}
    BY <1>8, BrowserSteps
  <2>. QED BY <1>2, <1>8, <2>1 DEF StartComplete, provider
<1>9. ASSUME NEW p \in Server, NEW choice \in {"here", "elsewhere", "off"}, PutOidc(p, choice)
      PROVE  KeysKept'
  <2>1. /\ keyset' = [keyset EXCEPT ![p] = NoKeys]
        /\ UNCHANGED <<moment, signing, oldest, withdrawn, flow>>
    BY <1>9 DEF PutOidc, provider
  <2>2. \A q \in Server : keyset'[q] = keyset[q] \/ keyset'[q].at = -1 BY <2>1 DEF SignInTypeOK, NoKeys
  <2>3. ~ (-1 >= 0) OBVIOUS
  <2>. QED BY <1>0, <1>1, <2>1, <2>2, <2>3 DEF KeysKept
<1>10. CASE Rotated BY <1>0, <1>1, <1>10 DEF Rotated, caches, KeysKept
<1>11. CASE Withdrawn
  <2>1. UNCHANGED <<moment, signing, keyset, flow>> /\ withdrawn' = moment /\ oldest' = signing
        /\ oldest < signing
    BY <1>11 DEF Withdrawn, caches
  <2>2. \A f \in Flow : flow[f].got.from <= oldest' \/ flow[f].stage # "store"
    BY <1>0, <1>1, <2>1
  <2>. QED BY <1>0, <1>1, <2>1, <2>2 DEF KeysKept
<1>12. CASE UpOrDown BY <1>1, <1>12 DEF UpOrDown, provider, caches, KeysKept
<1>13. CASE MomentPasses
  <2>1. /\ moment' = moment + 1 /\ UNCHANGED <<signing, oldest, withdrawn, keyset, flow>>
        /\ \A f \in Flow : flow[f].stage # "store" \/ flow[f].got.at = moment
    BY <1>13 DEF MomentPasses, provider, caches
  <2>. QED BY <1>0, <1>1, <2>1 DEF KeysKept
<1>14. CASE UNCHANGED signInVars BY <1>1, <1>14 DEF signInVars, provider, caches, KeysKept
<1>. QED BY <1>3, <1>4, <1>5, <1>6, <1>7, <1>8, <1>9, <1>10, <1>11, <1>12, <1>13, <1>14 DEF SignInNext

LEMMA SignInStart ==
  SignInInit => SignInInv
<1>. SUFFICES ASSUME SignInInit PROVE SignInInv
  OBVIOUS
<1>. USE SignInAssumption, OverTypes DEF SignInInit
<1>1. SignInTypeOK BY DEF SignInTypeOK, FlowType, Moment
<1>2. KeysKept BY DEF KeysKept, NoKeys, NewFlow
<1>. QED BY <1>1, <1>2 DEF SignInInv

LEMMA SignInInvariant ==
  SignInSpec => []SignInInv
<1>1. SignInInv /\ [SignInNext]_signInVars => SignInInv'
  BY SignInTypes, KeyCopySteps DEF SignInInv
<1>. QED BY SignInStart, <1>1, PTL DEF SignInSpec

\* What the step that ends an attempt with `admitted' knows of its key (Verify, StoreKeys).
LEMMA AdmittedKeys ==
  ASSUME SignInInv, [SignInNext]_signInVars, NEW f \in Flow,
         flow[f].stage # "admitted", flow'[f].stage = "admitted"
  PROVE  \/ flow[f].stage = "store" /\ Knows(flow[f].got, flow[f].signer)
         \/ \E p \in Server : Young(keyset[p].at) /\ Knows(keyset[p], flow[f].signer)
<1>. USE DEF SignInInv
<1>0. SignInTypeOK /\ flow' # flow OBVIOUS
<1>1. ASSUME NEW g \in Flow, NEW x, flow' = [flow EXCEPT ![g] = x]
      PROVE  g = f /\ x.stage = "admitted"
  BY <1>0, <1>1 DEF SignInTypeOK
<1>2. ASSUME NEW g \in Flow, Redeem(g) PROVE FALSE
  <2>1. PICK x \in FlowType : /\ flow' = [flow EXCEPT ![g] = x]
                              /\ x.stage = "refused" \/ x.stage = "verify"
    BY <1>0, <1>2, FlowSteps
  <2>. QED BY <1>1, <2>1
<1>3. ASSUME NEW g \in Flow, Verify(g)
      PROVE  \E p \in Server : Young(keyset[p].at) /\ Knows(keyset[p], flow[f].signer)
  <2>1. PICK x \in FlowType :
          /\ flow' = [flow EXCEPT ![g] = x]
          /\ \/ x.stage = "admitted" /\ Young(keyset[flow[g].server].at)
                /\ Knows(keyset[flow[g].server], flow[g].signer)
             \/ x.stage = "fetch"
    BY <1>0, <1>3, FlowSteps
  <2>2. g = f /\ x.stage = "admitted" BY <1>1, <2>1
  <2>3. flow[f].server \in Server BY <1>0 DEF SignInTypeOK
  <2>. QED BY <2>1, <2>2, <2>3
<1>4. ASSUME NEW g \in Flow, FetchKeys(g) PROVE FALSE
  <2>1. PICK x \in FlowType : /\ flow' = [flow EXCEPT ![g] = x]
                              /\ x.stage = "refused" \/ x.stage = "store"
    BY <1>0, <1>4, FlowSteps
  <2>. QED BY <1>1, <2>1
<1>5. ASSUME NEW g \in Flow, StoreKeys(g)
      PROVE  flow[f].stage = "store" /\ Knows(flow[f].got, flow[f].signer)
  <2>1. PICK x \in FlowType :
          /\ flow' = [flow EXCEPT ![g] = x]
          /\ \/ x.stage = "admitted" /\ Knows(flow[g].got, flow[g].signer)
             \/ x.stage = "failed" \/ x.stage = "fetch"
    BY <1>0, <1>5, FlowSteps
  <2>2. g = f /\ x.stage = "admitted" BY <1>1, <2>1
  <2>. QED BY <1>5, <2>1, <2>2 DEF StoreKeys
<1>6. ASSUME NEW g \in Flow, NEW p \in Server, NEW b \in Browser,
             BeginFlow(p, b, g) \/ StartComplete(p, b, g)
      PROVE  FALSE
  <2>1. PICK x \in FlowType : /\ flow' = [flow EXCEPT ![g] = x]
                              /\ x.stage \in {"away", "redeem", "failed", "refused"}
    BY <1>0, <1>6, BrowserSteps
  <2>. QED BY <1>1, <2>1
<1>7. ASSUME NEW p \in Server, NEW choice \in {"here", "elsewhere", "off"}, PutOidc(p, choice)
      PROVE  FALSE
  BY <1>0, <1>7 DEF PutOidc
<1>8. CASE Rotated \/ Withdrawn \/ UpOrDown \/ MomentPasses \/ UNCHANGED signInVars
  BY <1>0, <1>8 DEF Rotated, Withdrawn, UpOrDown, MomentPasses, signInVars
<1>. QED BY <1>2, <1>3, <1>4, <1>5, <1>6, <1>7, <1>8 DEF SignInNext

\* What the step that ends an attempt with `failed' knows of its key (StartComplete,
\* StoreKeys).
LEMMA FailedKeys ==
  ASSUME SignInInv, [SignInNext]_signInVars, NEW f \in Flow,
         flow[f].stage # "failed", flow'[f].stage = "failed"
  PROVE  \/ flow[f].stage = "away"
         \/ flow[f].stage = "store" /\ ~ Knows(flow[f].got, flow[f].signer)
<1>. USE DEF SignInInv
<1>0. SignInTypeOK /\ flow' # flow OBVIOUS
<1>1. ASSUME NEW g \in Flow, NEW x, flow' = [flow EXCEPT ![g] = x]
      PROVE  g = f /\ x.stage = "failed"
  BY <1>0, <1>1 DEF SignInTypeOK
<1>2. ASSUME NEW g \in Flow, Redeem(g) \/ Verify(g) \/ FetchKeys(g) PROVE FALSE
  <2>1. PICK x \in FlowType :
          /\ flow' = [flow EXCEPT ![g] = x]
          /\ x.stage \in {"refused", "verify", "admitted", "fetch", "store"}
    BY <1>0, <1>2, FlowSteps
  <2>. QED BY <1>1, <2>1
<1>3. ASSUME NEW g \in Flow, StoreKeys(g)
      PROVE  flow[f].stage = "store" /\ ~ Knows(flow[f].got, flow[f].signer)
  <2>1. PICK x \in FlowType :
          /\ flow' = [flow EXCEPT ![g] = x]
          /\ \/ x.stage = "failed" /\ ~ Knows(flow[g].got, flow[g].signer)
             \/ x.stage = "admitted" \/ x.stage = "fetch"
    BY <1>0, <1>3, FlowSteps
  <2>2. g = f /\ x.stage = "failed" BY <1>1, <2>1
  <2>. QED BY <1>3, <2>1, <2>2 DEF StoreKeys
<1>4. ASSUME NEW g \in Flow, NEW p \in Server, NEW b \in Browser, BeginFlow(p, b, g) PROVE FALSE
  <2>1. PICK x \in FlowType : flow' = [flow EXCEPT ![g] = x] /\ x.stage = "away"
    BY <1>0, <1>4, BrowserSteps
  <2>. QED BY <1>1, <2>1
<1>5. ASSUME NEW g \in Flow, NEW p \in Server, NEW b \in Browser, StartComplete(p, b, g)
      PROVE  flow[f].stage = "away"
  <2>1. PICK x \in FlowType : flow' = [flow EXCEPT ![g] = x]
    BY <1>0, <1>5, BrowserSteps
  <2>. QED BY <1>1, <1>5, <2>1 DEF StartComplete
<1>6. ASSUME NEW p \in Server, NEW choice \in {"here", "elsewhere", "off"}, PutOidc(p, choice)
      PROVE  FALSE
  BY <1>0, <1>6 DEF PutOidc
<1>7. CASE Rotated \/ Withdrawn \/ UpOrDown \/ MomentPasses \/ UNCHANGED signInVars
  BY <1>0, <1>7 DEF Rotated, Withdrawn, UpOrDown, MomentPasses, signInVars
<1>. QED BY <1>2, <1>3, <1>4, <1>5, <1>6, <1>7 DEF SignInNext

\* A key the provider has withdrawn lets nobody in for longer than the keys are kept
\* (_keyset and _verify_id_token, oidc.py:412-425, 482-486): a copy that still has it was
\* asked for before it went.
THEOREM WithdrawnKeysDie ==
  SignInSpec => WithdrawnKeyDies
<1>1. SignInInv /\ [SignInNext]_signInVars =>
        [\A f \in Flow :
           flow[f].stage # "admitted" /\ flow'[f].stage = "admitted" /\ flow[f].signer < oldest =>
             moment - withdrawn <= KeysTtl]_signInVars
  <2>. SUFFICES ASSUME SignInInv, [SignInNext]_signInVars, NEW f \in Flow,
                       flow[f].stage # "admitted", flow'[f].stage = "admitted",
                       flow[f].signer < oldest
                PROVE  moment - withdrawn <= KeysTtl
    OBVIOUS
  <2>. USE SignInAssumption DEF SignInInv
  <2>0. /\ moment \in Nat /\ oldest \in Nat /\ withdrawn \in Nat /\ flow[f].signer \in Nat
        /\ KeysTtl \in Nat /\ KeysTtl >= 1
        /\ flow[f].got.from \in Nat /\ flow[f].got.newest \in Nat /\ flow[f].got.at \in Int
        /\ \A p \in Server : keyset[p].at \in Int /\ keyset[p].from \in Nat /\ keyset[p].newest \in Nat
    BY DEF SignInTypeOK, Moment, KeySets
  <2>1. CASE flow[f].stage = "store" /\ Knows(flow[f].got, flow[f].signer)
    <3>1. flow[f].got.from < oldest BY <2>0, <2>1 DEF Knows
    <3>2. flow[f].got.at <= withdrawn /\ moment <= flow[f].got.at + 1 BY <2>1, <3>1 DEF KeysKept
    <3>. QED BY <2>0, <3>2
  <2>2. ASSUME NEW p \in Server, Young(keyset[p].at), Knows(keyset[p], flow[f].signer)
        PROVE  moment - withdrawn <= KeysTtl
    <3>1. keyset[p].at >= 0 /\ keyset[p].from < oldest BY <2>0, <2>2 DEF Knows
    <3>2. keyset[p].at <= withdrawn + 1 BY <3>1 DEF KeysKept
    <3>3. moment - keyset[p].at < KeysTtl BY <2>2 DEF Young
    <3>. QED BY <2>0, <3>2, <3>3
  <2>. QED BY <2>1, <2>2, AdmittedKeys
<1>. QED BY SignInInvariant, <1>1, PTL DEF SignInSpec, WithdrawnKeyDies

\* A genuine ID token is not refused because a server has old keys (the second fetch of
\* _verify_id_token, oidc.py:482-486): the keys asked for last go back at most to the
\* oldest published one and up to one at least as new as the token's.
THEOREM RotationsAreNoticed ==
  SignInSpec => RotationNoticed
<1>1. SignInInv /\ [SignInNext]_signInVars =>
        [\A f \in Flow :
           flow[f].stage # "failed" /\ flow'[f].stage = "failed" =>
             flow[f].stage = "away" \/ flow[f].signer < oldest]_signInVars
  <2>. SUFFICES ASSUME SignInInv, [SignInNext]_signInVars, NEW f \in Flow,
                       flow[f].stage # "failed", flow'[f].stage = "failed",
                       flow[f].stage # "away"
                PROVE  flow[f].signer < oldest
    OBVIOUS
  <2>. USE SignInAssumption DEF SignInInv
  <2>0. /\ oldest \in Nat /\ flow[f].signer \in Nat /\ flow[f].got.at \in Int
        /\ flow[f].got.from \in Nat /\ flow[f].got.newest \in Nat
    BY DEF SignInTypeOK, Moment, KeySets
  <2>1. flow[f].stage = "store" /\ ~ Knows(flow[f].got, flow[f].signer) BY FailedKeys
  <2>2. /\ flow[f].got.at >= 0 /\ flow[f].got.from <= oldest
        /\ flow[f].signer <= flow[f].got.newest
    BY <2>1 DEF KeysKept
  <2>3. flow[f].signer < flow[f].got.from BY <2>0, <2>1, <2>2 DEF Knows
  <2>. QED BY <2>0, <2>2, <2>3
<1>. QED BY SignInInvariant, <1>1, PTL DEF SignInSpec, RotationNoticed

-----------------------------------------------------------------------------
(* The login limiter *)

\* Sums of the first n seconds: what the recursion of SumOver adds up.
AddsUp(g, f, ts, n) ==
  g = [t \in 0..n |-> IF t = 0 THEN 0 ELSE g[t - 1] + (IF t - 1 \in ts THEN f[t - 1] ELSE 0)]

\* There are such sums, up to any second: the first second without would have the sum
\* of the one before it.
LEMMA SumsExist ==
  ASSUME NEW f, NEW ts, NEW n \in Nat
  PROVE  \E g : AddsUp(g, f, ts, n)
<1>. DEFINE T == {m \in Nat : ~ \E g : AddsUp(g, f, ts, m)}
<1>. SUFFICES ASSUME T # {} PROVE FALSE
  BY Zenon
<1>1. PICK m \in T : \A k \in T : m <= k
  <2>1. T \in SUBSET Nat OBVIOUS
  <2>. HIDE DEF T
  <2>. QED BY <2>1, FirstOne
<1>2. m \in Nat /\ ~ \E g : AddsUp(g, f, ts, m) BY <1>1
<1>3. CASE m = 0
  <2>1. AddsUp([t \in 0..0 |-> 0], f, ts, 0) BY DEF AddsUp
  <2>. QED BY <1>2, <1>3, <2>1
<1>4. CASE m # 0
  <2>1. m - 1 \in Nat /\ m - 1 \notin T BY <1>1, <1>2, <1>4
  <2>2. PICK g : AddsUp(g, f, ts, m - 1) BY <2>1
  <2>. DEFINE h == [t \in 0..m |-> IF t = m THEN g[m - 1] + (IF m - 1 \in ts THEN f[m - 1] ELSE 0)
                                   ELSE g[t]]
              V(t) == IF t = 0 THEN 0 ELSE h[t - 1] + (IF t - 1 \in ts THEN f[t - 1] ELSE 0)
  <2>3. ASSUME NEW t \in 0..m PROVE h[t] = V(t)
    <3>1. CASE t = m BY <1>2, <1>4, <3>1
    <3>2. CASE t # m
      <4>1. t \in 0..(m - 1) /\ h[t] = g[t] BY <1>2, <3>2
      <4>2. g[t] = IF t = 0 THEN 0 ELSE g[t - 1] + (IF t - 1 \in ts THEN f[t - 1] ELSE 0)
        BY <2>2, <4>1 DEF AddsUp
      <4>3. t # 0 => t - 1 \in 0..m /\ t - 1 # m /\ h[t - 1] = g[t - 1]
        BY <1>2, <3>2
      <4>. QED BY <4>1, <4>2, <4>3
    <3>. QED BY <3>1, <3>2
  <2>4. h = [t \in 0..m |-> V(t)]
    <3>1. h = [t \in 0..m |-> h[t]] OBVIOUS
    <3>. HIDE DEF h
    <3>2. [t \in 0..m |-> h[t]] = [t \in 0..m |-> V(t)] BY <2>3
    <3>. QED BY <3>1, <3>2
  <2>5. AddsUp(h, f, ts, m)
    <3>. HIDE DEF h
    <3>. QED BY <2>4 DEF AddsUp
  <2>. QED BY <1>2, <2>5
<1>. QED BY <1>3, <1>4

\* SumOver is the last of them.
SumsOf(g, f, ts) ==
  /\ g \in [0..(MaxSecond + 1) -> Int]
  /\ g[0] = 0
  /\ \A t \in Second : g[t + 1] = g[t] + (IF t \in ts THEN f[t] ELSE 0)
  /\ SumOver(f, ts) = g[MaxSecond + 1]

LEMMA SumUnfolds ==
  ASSUME NEW f \in [Second -> Int], NEW ts
  PROVE  \E g : SumsOf(g, f, ts)
<1>. DEFINE n == MaxSecond + 1
            g == CHOOSE h : AddsUp(h, f, ts, n)
<1>1. n \in Nat /\ MaxSecond \in Nat BY LimiterAssumption
<1>2. AddsUp(g, f, ts, n) 
  <2>1. \E h : AddsUp(h, f, ts, n) BY <1>1, SumsExist
  <2>. QED BY <2>1, Zenon
<1>3. SumOver(f, ts) = g[n]
  BY Zenon DEF SumOver, AddsUp
<1>. HIDE DEF g
<1>4. DOMAIN g = 0..n /\ \A t \in 0..n : g[t] = IF t = 0 THEN 0 ELSE g[t - 1] + (IF t - 1 \in ts THEN f[t - 1] ELSE 0)
  BY <1>2 DEF AddsUp
<1>5. g[0] = 0 BY <1>1, <1>4
<1>6. \A t \in Second : g[t + 1] = g[t] + (IF t \in ts THEN f[t] ELSE 0)
  <2>. TAKE t \in Second
  <2>1. t + 1 \in 0..n /\ t + 1 # 0 /\ (t + 1) - 1 = t BY <1>1 DEF Second
  <2>. QED BY <1>4, <2>1
<1>7. \A t \in 0..n : g[t] \in Int
  <2>. DEFINE T == {t \in 0..n : g[t] \notin Int}
  <2>. SUFFICES ASSUME T # {} PROVE FALSE OBVIOUS
  <2>1. PICK m \in T : \A k \in T : m <= k
    <3>1. T \in SUBSET Nat BY <1>1
    <3>. HIDE DEF T
    <3>. QED BY <3>1, FirstOne
  <2>2. m # 0 /\ m \in 0..n BY <1>5, <2>1
  <2>3. m - 1 \in Second /\ m - 1 \in 0..n /\ (m - 1) + 1 = m BY <1>1, <2>2 DEF Second
  <2>4. g[m - 1] \in Int BY <2>1, <2>2, <2>3
  <2>5. f[m - 1] \in Int BY <2>3
  <2>6. g[m] = g[m - 1] + (IF m - 1 \in ts THEN f[m - 1] ELSE 0) BY <1>6, <2>3
  <2>. QED BY <2>1, <2>4, <2>5, <2>6
<1>8. g \in [0..n -> Int] 
  <2>1. g = [t \in 0..n |-> g[t]] BY <1>2 DEF AddsUp
  <2>. QED BY <1>7, <2>1
<1>. QED BY <1>3, <1>5, <1>6, <1>8, <1>1 DEF SumsOf

\* Sums of terms that are no larger are no larger.
LEMMA SumMonotone ==
  ASSUME NEW f \in [Second -> Int], NEW ts, NEW g \in [Second -> Int], NEW us,
         \A t \in Second : (IF t \in ts THEN f[t] ELSE 0) <= (IF t \in us THEN g[t] ELSE 0)
  PROVE  SumOver(f, ts) <= SumOver(g, us)
<1>. DEFINE n == MaxSecond + 1
<1>1. n \in Nat /\ MaxSecond \in Nat BY LimiterAssumption
<1>2. PICK v : SumsOf(v, f, ts) BY SumUnfolds
<1>3. PICK w : SumsOf(w, g, us) BY SumUnfolds
<1>0. v \in [0..n -> Int] /\ v[0] = 0 /\ w \in [0..n -> Int] /\ w[0] = 0
  BY <1>2, <1>3 DEF SumsOf
<1>4. \A t \in 0..n : v[t] <= w[t]
  <2>. DEFINE T == {t \in 0..n : ~ (v[t] <= w[t])}
  <2>. SUFFICES ASSUME T # {} PROVE FALSE OBVIOUS
  <2>1. PICK m \in T : \A k \in T : m <= k
    <3>1. T \in SUBSET Nat BY <1>1
    <3>. HIDE DEF T
    <3>. QED BY <3>1, FirstOne
  <2>2. m # 0 /\ m \in 0..n BY <1>0, <2>1
  <2>3. m - 1 \in Second /\ m - 1 \in 0..n /\ (m - 1) + 1 = m BY <1>1, <2>2 DEF Second
  <2>4. v[m - 1] <= w[m - 1] BY <2>1, <2>2, <2>3
  <2>5. f[m - 1] \in Int /\ g[m - 1] \in Int BY <1>0, <2>3
  <2>6. v[m] = v[m - 1] + (IF m - 1 \in ts THEN f[m - 1] ELSE 0) BY <1>2, <2>3 DEF SumsOf
  <2>7. w[m] = w[m - 1] + (IF m - 1 \in us THEN g[m - 1] ELSE 0) BY <1>3, <2>3 DEF SumsOf
  <2>8. v[m - 1] \in Int /\ w[m - 1] \in Int BY <1>0, <2>3
  <2>. QED BY <2>1, <2>3, <2>4, <2>5, <2>6, <2>7, <2>8
<1>. QED BY <1>1, <1>2, <1>3, <1>4 DEF SumsOf

\* A sum of which one term differs differs by as much.
OneTerm(f, ts, g, us, k, d) ==
  \A t \in Second : (IF t \in us THEN g[t] ELSE 0)
                      = (IF t \in ts THEN f[t] ELSE 0) + (IF t = k THEN d ELSE 0)

LEMMA SumOneTerm ==
  ASSUME NEW f \in [Second -> Int], NEW ts, NEW g \in [Second -> Int], NEW us,
         NEW k \in Second, NEW d \in Int, OneTerm(f, ts, g, us, k, d)
  PROVE  SumOver(g, us) = SumOver(f, ts) + d
<1>. DEFINE n == MaxSecond + 1
<1>1. n \in Nat /\ MaxSecond \in Nat BY LimiterAssumption
<1>2. PICK v : SumsOf(v, f, ts) BY SumUnfolds
<1>3. PICK w : SumsOf(w, g, us) BY SumUnfolds
<1>0. v \in [0..n -> Int] /\ v[0] = 0 /\ w \in [0..n -> Int] /\ w[0] = 0
  BY <1>2, <1>3 DEF SumsOf
<1>4. \A t \in 0..n : w[t] = v[t] + (IF k < t THEN d ELSE 0)
  <2>. DEFINE T == {t \in 0..n : w[t] # v[t] + (IF k < t THEN d ELSE 0)}
  <2>. SUFFICES ASSUME T # {} PROVE FALSE OBVIOUS
  <2>0. k \in Nat BY DEF Second
  <2>1. PICK m \in T : \A j \in T : m <= j
    <3>1. T \in SUBSET Nat BY <1>1
    <3>. HIDE DEF T
    <3>. QED BY <3>1, FirstOne
  <2>2. m # 0 /\ m \in 0..n BY <1>0, <2>0, <2>1
  <2>3. m - 1 \in Second /\ m - 1 \in 0..n /\ (m - 1) + 1 = m BY <1>1, <2>2 DEF Second
  <2>4. w[m - 1] = v[m - 1] + (IF k < m - 1 THEN d ELSE 0) BY <2>1, <2>2, <2>3
  <2>5. f[m - 1] \in Int /\ g[m - 1] \in Int BY <1>0, <2>3
  <2>6. v[m] = v[m - 1] + (IF m - 1 \in ts THEN f[m - 1] ELSE 0) BY <1>2, <2>3 DEF SumsOf
  <2>7. w[m] = w[m - 1] + (IF m - 1 \in us THEN g[m - 1] ELSE 0) BY <1>3, <2>3 DEF SumsOf
  <2>8. v[m - 1] \in Int /\ w[m - 1] \in Int BY <1>0, <2>3
  <2>9. (IF m - 1 \in us THEN g[m - 1] ELSE 0)
          = (IF m - 1 \in ts THEN f[m - 1] ELSE 0) + (IF m - 1 = k THEN d ELSE 0) BY <2>3 DEF OneTerm
  <2>. DEFINE e == IF m - 1 \in ts THEN f[m - 1] ELSE 0
  <2>10. e \in Int BY <2>5
  <2>11. w[m] = v[m - 1] + (IF k < m - 1 THEN d ELSE 0) + (e + (IF m - 1 = k THEN d ELSE 0))
    BY <2>4, <2>7, <2>9, Zenon
  <2>12. v[m] = v[m - 1] + e BY <2>6
  <2>. HIDE DEF e
  <2>13. m \in Nat BY <2>2
  <2>14. (IF k < m - 1 THEN d ELSE 0) + (IF m - 1 = k THEN d ELSE 0) = IF k < m THEN d ELSE 0
    BY <2>0, <2>13
  <2>15. w[m] = v[m] + (IF k < m THEN d ELSE 0)
    BY <2>8, <2>10, <2>11, <2>12, <2>14
  <2>. QED BY <2>1, <2>15
<1>5. n \in 0..n /\ k < n BY <1>1 DEF Second
<1>. QED BY <1>2, <1>3, <1>4, <1>5, <1>0 DEF SumsOf

LEMMA SumType ==
  ASSUME NEW f \in [Second -> Int], NEW ts
  PROVE  SumOver(f, ts) \in Int
<1>1. PICK g : SumsOf(g, f, ts) BY SumUnfolds
<1>. QED BY <1>1, LimiterAssumption DEF SumsOf

LEMMA SumSame ==
  ASSUME NEW f \in [Second -> Int], NEW ts, NEW g \in [Second -> Int], NEW us,
         \A t \in Second : (IF t \in ts THEN f[t] ELSE 0) = (IF t \in us THEN g[t] ELSE 0)
  PROVE  SumOver(f, ts) = SumOver(g, us)
<1>1. \A t \in Second : (IF t \in ts THEN f[t] ELSE 0) <= (IF t \in us THEN g[t] ELSE 0)
  OBVIOUS
<1>2. \A t \in Second : (IF t \in us THEN g[t] ELSE 0) <= (IF t \in ts THEN f[t] ELSE 0)
  OBVIOUS
<1>3. SumOver(f, ts) <= SumOver(g, us) BY <1>1, SumMonotone
<1>4. SumOver(g, us) <= SumOver(f, ts) BY <1>2, SumMonotone
<1>. QED BY <1>3, <1>4, SumType

\* A sweep forgets what no longer counts at its moment and nothing else: the window
\* never outgrows the ceiling.
LEMMA Sweep ==
  ASSUME NEW w \in [Second -> Nat], NEW when \in Second, SumOver(w, Second) <= GlobalLimit
  PROVE  /\ SweptWindow(w, when) \in [Second -> Nat]
         /\ \A t \in Second : SweptWindow(w, when)[t] = IF when - t >= GlobalWindow THEN 0 ELSE w[t]
         /\ SumOver(SweptWindow(w, when), Second) <= GlobalLimit
<1>. DEFINE recent == [t \in Second |-> IF when - t >= GlobalWindow THEN 0 ELSE w[t]]
            newer(t) == SumOver(recent, {u \in Second : u > t})
            swept == [t \in Second |->
                        IF newer(t) + recent[t] <= GlobalLimit THEN recent[t]
                        ELSE IF newer(t) >= GlobalLimit THEN 0 ELSE GlobalLimit - newer(t)]
<1>1. /\ recent \in [Second -> Nat] /\ recent \in [Second -> Int] /\ w \in [Second -> Int]
      /\ \A t \in Second : recent[t] <= w[t]
  OBVIOUS
<1>2. SumOver(recent, Second) <= SumOver(w, Second)
  <2>1. \A t \in Second : (IF t \in Second THEN recent[t] ELSE 0) <= (IF t \in Second THEN w[t] ELSE 0)
    BY <1>1
  <2>. HIDE DEF recent
  <2>. QED BY <1>1, <2>1, SumMonotone
<1>3. ASSUME NEW t \in Second PROVE newer(t) + recent[t] <= GlobalLimit
  <2>. HIDE DEF recent
  <2>1. SumOver(recent, {u \in Second : u >= t}) = newer(t) + recent[t]
    <3>. DEFINE A == {u \in Second : u > t}
                B == {u \in Second : u >= t}
                d == recent[t]
    <3>1. d \in Int /\ recent \in [Second -> Int] BY <1>1
    <3>2. OneTerm(recent, A, recent, B, t, d)
      BY <1>1 DEF Second, OneTerm
    <3>3. SumOver(recent, B) = SumOver(recent, A) + d
      <4>. HIDE DEF A, B, d
      <4>. QED BY <3>1, <3>2, SumOneTerm
    <3>. QED BY <3>3
  <2>2. SumOver(recent, {u \in Second : u >= t}) <= SumOver(recent, Second)
    <3>1. \A u \in Second : (IF u \in {v \in Second : v >= t} THEN recent[u] ELSE 0)
             <= (IF u \in Second THEN recent[u] ELSE 0)
      BY <1>1
    <3>. QED BY <1>1, <3>1, SumMonotone
  <2>. QED BY <1>1, <1>2, <2>1, <2>2, SumType, LimiterAssumption
<1>4. SweptWindow(w, when) = recent
  <2>1. SweptWindow(w, when) = swept BY DEF SweptWindow
  <2>2. swept = recent
    <3>1. recent = [t \in Second |-> recent[t]] OBVIOUS
    <3>. HIDE DEF recent
    <3>2. \A t \in Second : newer(t) + recent[t] <= GlobalLimit BY <1>3
    <3>. HIDE DEF newer
    <3>. QED BY <3>1, <3>2
  <2>. QED BY <2>1, <2>2
<1>5. SumOver(recent, Second) <= GlobalLimit
  <2>. HIDE DEF recent
  <2>. QED BY <1>1, <1>2, SumType, LimiterAssumption
<1>. QED BY <1>1, <1>4, <1>5

LEMMA OneMore ==
  ASSUME NEW S, IsFiniteSet(S), NEW x
  PROVE  /\ IsFiniteSet(S \cup {x})
         /\ Cardinality(S \cup {x}) \in Nat
         /\ Cardinality(S \cup {x}) <= Cardinality(S) + 1
<1>1. Cardinality(S \cup {x}) = IF x \in S THEN Cardinality(S) ELSE Cardinality(S) + 1
  BY FS_AddElement, Zenon
<1>2. IsFiniteSet(S \cup {x}) BY FS_AddElement
<1>3. Cardinality(S) \in Nat BY FS_CardinalityType
<1>. QED BY <1>1, <1>2, <1>3

\* Of a finite set with an order some element is last.
LEMMA LastOne ==
  ASSUME NEW S, IsFiniteSet(S), S # {}, NEW R,
         \A x \in S : <<x, x>> \notin R,
         \A x, y, z \in S : <<x, y>> \in R /\ <<y, z>> \in R => <<x, z>> \in R
  PROVE  \E x \in S : \A y \in S : <<x, y>> \notin R
<1>. DEFINE After(x) == {y \in S : <<x, y>> \in R}
            N == {Cardinality(After(x)) : x \in S}
<1>1. \A x \in S : IsFiniteSet(After(x)) /\ Cardinality(After(x)) \in Nat
  BY FS_Subset, FS_CardinalityType
<1>2. PICK n \in N : \A m \in N : n <= m
  <2>1. N \in SUBSET Nat /\ N # {}
    <3>. HIDE DEF After
    <3>. QED BY <1>1
  <2>. HIDE DEF N
  <2>. QED BY <2>1, FirstOne
<1>3. PICK x \in S : n = Cardinality(After(x)) BY <1>2
<1>4. ASSUME NEW y \in S, <<x, y>> \in R PROVE FALSE
  <2>1. After(y) \subseteq After(x) /\ y \in After(x) /\ y \notin After(y) BY <1>3, <1>4
  <2>2. Cardinality(After(y)) < Cardinality(After(x))
    <3>. HIDE DEF After
    <3>. QED BY <1>1, <1>3, <2>1, FS_Subset, FS_CardinalityType
  <2>3. Cardinality(After(x)) <= Cardinality(After(y))
    <3>. HIDE DEF After
    <3>. QED BY <1>2, <1>3
  <2>. HIDE DEF After
  <2>. QED BY <1>1, <2>2, <2>3
<1>. QED BY <1>3, <1>4

\* What a table of addresses must be.
OnFile(f) == {i \in Client : f[i].count > 0}
Addresses(f) ==
  /\ f \in [Client -> [count : Nat, last : Second, seq : Nat]]
  /\ \A i, j \in Client : f[i].count > 0 /\ f[j].count > 0 /\ i # j => f[i].seq # f[j].seq

LEMMA KnownFinite ==
  ASSUME NEW f
  PROVE  IsFiniteSet(OnFile(f)) /\ Cardinality(OnFile(f)) \in Nat
BY LimiterAssumption, FS_Subset, FS_CardinalityType DEF OnFile

\* Forgetting addresses leaves it one.
LEMMA FewerAddresses ==
  ASSUME NEW f, NEW g, Addresses(f), g \in [Client -> [count : Nat, last : Second, seq : Nat]],
         \A i \in Client : g[i] = f[i] \/ g[i].count = 0
  PROVE  Addresses(g) /\ Cardinality(OnFile(g)) <= Cardinality(OnFile(f))
<1>1. OnFile(g) \subseteq OnFile(f) BY DEF OnFile
<1>2. Cardinality(OnFile(g)) <= Cardinality(OnFile(f)) BY <1>1, KnownFinite, FS_Subset
<1>3. \A i \in Client : g[i].count > 0 => g[i] = f[i] OBVIOUS
<1>. QED BY <1>2, <1>3 DEF Addresses

LEMMA SweptAddresses ==
  ASSUME NEW f, NEW when \in Second, Addresses(f)
  PROVE  /\ Addresses(SweptFailures(f, when))
         /\ Cardinality(OnFile(SweptFailures(f, when))) <= Cardinality(OnFile(f))
<1>1. NoFailure \in [count : Nat, last : Second, seq : Nat] /\ NoFailure.count = 0
  BY LimiterAssumption DEF NoFailure, Second
<1>2. SweptFailures(f, when) \in [Client -> [count : Nat, last : Second, seq : Nat]]
  BY <1>1 DEF SweptFailures, Addresses
<1>3. \A i \in Client : SweptFailures(f, when)[i] = f[i] \/ SweptFailures(f, when)[i].count = 0
  BY <1>1 DEF SweptFailures
<1>. QED BY <1>2, <1>3, FewerAddresses

\* The new address has the largest number.
LEMMA NewestNumber ==
  ASSUME NEW f, Addresses(f)
  PROVE  Newest(f) \in Nat /\ \A i \in Client : f[i].seq <= Newest(f)
<1>. DEFINE R == {p \in Client \X Client : f[p[1]].seq < f[p[2]].seq}
<1>1. \A i \in Client : f[i].seq \in Nat BY DEF Addresses
<1>2. PICK i \in Client : \A j \in Client : <<i, j>> \notin R
  <2>1. \A x \in Client : <<x, x>> \notin R BY <1>1
  <2>2. \A x, y, z \in Client : <<x, y>> \in R /\ <<y, z>> \in R => <<x, z>> \in R
    BY <1>1
  <2>. HIDE DEF R
  <2>. QED BY <2>1, <2>2, LastOne, LimiterAssumption
<1>3. ASSUME NEW j \in Client PROVE f[j].seq <= f[i].seq
  <2>1. <<i, j>> \notin R BY <1>2
  <2>2. ~ (f[i].seq < f[j].seq) BY <2>1
  <2>. QED BY <1>1, <2>2
<1>4. \E n \in {f[j].seq : j \in Client} : \A j \in Client : f[j].seq <= n BY <1>3
<1>5. Newest(f) \in {f[j].seq : j \in Client} /\ \A j \in Client : f[j].seq <= Newest(f)
  BY <1>4 DEF Newest
<1>. QED BY <1>1, <1>5

\* Eviction leaves MaxTracked addresses: the oldest that is left is behind all the others.
LEMMA EvictedAddresses ==
  ASSUME NEW f, Addresses(f)
  PROVE  Addresses(Evicted(f)) /\ Cardinality(OnFile(Evicted(f))) <= MaxTracked
<1>. DEFINE Newer(i, j) == f[j].last > f[i].last \/ (f[j].last = f[i].last /\ f[j].seq > f[i].seq)
            After(i) == {j \in OnFile(f) : Newer(i, j)}
            K == OnFile(Evicted(f))
            R == {p \in K \X K : Newer(p[2], p[1])}
<1>1. NoFailure \in [count : Nat, last : Second, seq : Nat] /\ NoFailure.count = 0
  BY LimiterAssumption DEF NoFailure, Second
<1>2. \A i \in Client : f[i].count \in Nat /\ f[i].last \in Int /\ f[i].seq \in Int
  BY DEF Addresses, Second
<1>3. Evicted(f) = [i \in Client |-> IF i \in OnFile(f) /\ Cardinality(After(i)) >= MaxTracked THEN NoFailure ELSE f[i]]
  BY Zenon DEF Evicted, OnFile
<1>4. Evicted(f) \in [Client -> [count : Nat, last : Second, seq : Nat]]
  <2>. HIDE DEF After
  <2>. QED BY <1>1, <1>3 DEF Addresses
<1>5. \A i \in Client : Evicted(f)[i] = f[i] \/ Evicted(f)[i].count = 0
  <2>. HIDE DEF After
  <2>. QED BY <1>1, <1>3
<1>6. Addresses(Evicted(f)) BY <1>4, <1>5, FewerAddresses
<1>7. K \subseteq OnFile(f) /\ \A i \in K : ~ (Cardinality(After(i)) >= MaxTracked)
  <2>. HIDE DEF After
  <2>. QED BY <1>1, <1>3, <1>5 DEF OnFile
<1>8. IsFiniteSet(K) BY KnownFinite
<1>9. CASE K = {}
  BY <1>6, <1>9, FS_EmptySet, LimiterAssumption
<1>10. CASE K # {}
  <2>1. K \subseteq Client BY DEF OnFile
  <2>2. PICK i \in K : \A j \in K : <<i, j>> \notin R
    <3>1. \A x \in K : <<x, x>> \notin R BY <1>2, <2>1
    <3>2. \A x, y, z \in K : <<x, y>> \in R /\ <<y, z>> \in R => <<x, z>> \in R
      <4>. HIDE DEF K
      <4>. QED BY <1>2, <2>1
    <3>. HIDE DEF R, K
    <3>. QED BY <1>8, <1>10, <3>1, <3>2, LastOne
  <2>3. \A j \in K : j # i => Newer(i, j)
    <3>1. ASSUME NEW j \in K, j # i PROVE Newer(i, j)
      <4>1. ~ Newer(j, i) BY <2>2
      <4>2. f[i].seq # f[j].seq BY <1>7, <2>1, <3>1 DEF Addresses, OnFile
      <4>3. i \in Client /\ j \in Client BY <2>1
      <4>. HIDE DEF K
      <4>. QED BY <1>2, <4>1, <4>2, <4>3
    <3>. QED BY <3>1
  <2>4. K \subseteq After(i) \cup {i} BY <1>7, <2>3
  <2>5. IsFiniteSet(After(i)) /\ Cardinality(After(i)) \in Nat
    BY KnownFinite, FS_Subset, FS_CardinalityType
  <2>. HIDE DEF After, K
  <2>6. /\ IsFiniteSet(After(i) \cup {i})
        /\ Cardinality(After(i) \cup {i}) <= Cardinality(After(i)) + 1
    BY <2>5, OneMore
  <2>7. Cardinality(K) <= Cardinality(After(i) \cup {i}) /\ Cardinality(K) \in Nat
        /\ Cardinality(After(i) \cup {i}) \in Nat
    BY <1>8, <2>4, <2>6, FS_Subset, FS_CardinalityType
  <2>8. Cardinality(After(i)) < MaxTracked /\ MaxTracked \in Nat
    BY <1>7, <2>2, <2>5, LimiterAssumption
  <2>9. Cardinality(K) <= MaxTracked BY <2>5, <2>6, <2>7, <2>8
  <2>. QED BY <1>6, <2>9 DEF K
<1>. QED BY <1>9, <1>10

\* Counting an attempt at a moment: the table of addresses stays one, and the window has
\* a row more, if it had room.
LEMMA CountEffect ==
  ASSUME NEW f, NEW w \in [Second -> Nat], NEW i \in Client, NEW when \in Second,
         Addresses(f), SumOver(w, Second) < GlobalLimit, CountFailure(f, w, i, when)
  PROVE  /\ Addresses(failures)' /\ Cardinality(OnFile(failures)') <= MaxTracked
         /\ window' \in [Second -> Nat] /\ WindowBounded'
         /\ \A t \in Second : ~ (when - t >= GlobalWindow) =>
              window'[t] = w[t] + (IF t = when THEN 1 ELSE 0)
<1>. DEFINE g == [f EXCEPT ![i] = [count |-> @.count + 1, last |-> when, seq |-> Newest(f) + 1]]
            v == [w EXCEPT ![when] = @ + 1]
<1>1. /\ failures' = Evicted(SweptFailures(g, when))
      /\ window' = SweptWindow(v, when)
  BY DEF CountFailure
<1>2. Addresses(g)
  <2>1. Newest(f) \in Nat /\ \A j \in Client : f[j].seq <= Newest(f) BY NewestNumber
  <2>2. f[i].count \in Nat /\ \A j \in Client : f[j].seq \in Nat BY DEF Addresses
  <2>3. [count |-> f[i].count + 1, last |-> when, seq |-> Newest(f) + 1] \in [count : Nat, last : Second, seq : Nat]
    BY <2>1, <2>2
  <2>4. g \in [Client -> [count : Nat, last : Second, seq : Nat]]
    BY <2>3 DEF Addresses
  <2>5. g[i].seq = Newest(f) + 1 /\ \A j \in Client : j # i => g[j] = f[j]
    BY DEF Addresses
  <2>. HIDE DEF g
  <2>6. ASSUME NEW j \in Client, NEW k \in Client, g[j].count > 0, g[k].count > 0, j # k
        PROVE  g[j].seq # g[k].seq
    <3>1. CASE j = i BY <2>1, <2>2, <2>5, <2>6, <3>1
    <3>2. CASE k = i BY <2>1, <2>2, <2>5, <2>6, <3>2
    <3>3. CASE j # i /\ k # i BY <2>5, <2>6, <3>3 DEF Addresses
    <3>. QED BY <3>1, <3>2, <3>3
  <2>. QED BY <2>4, <2>6 DEF Addresses
<1>3. Addresses(SweptFailures(g, when))
  <2>. HIDE DEF g
  <2>. QED BY <1>2, SweptAddresses
<1>4. Addresses(failures') /\ Cardinality(OnFile(failures')) <= MaxTracked
  <2>. HIDE DEF g
  <2>. QED BY <1>1, <1>3, EvictedAddresses
<1>5. v \in [Second -> Nat] /\ w \in [Second -> Int] /\ v \in [Second -> Int]
  OBVIOUS
<1>6. SumOver(v, Second) = SumOver(w, Second) + 1
  <2>1. OneTerm(w, Second, v, Second, when, 1) BY DEF OneTerm
  <2>. HIDE DEF v
  <2>. QED BY <1>5, <2>1, SumOneTerm
<1>7. SumOver(v, Second) <= GlobalLimit
  <2>. HIDE DEF v
  <2>. QED BY <1>5, <1>6, SumType, LimiterAssumption
<1>8. /\ window' \in [Second -> Nat]
      /\ \A t \in Second : window'[t] = IF when - t >= GlobalWindow THEN 0 ELSE v[t]
      /\ SumOver(window', Second) <= GlobalLimit
  <2>. HIDE DEF v
  <2>. QED BY <1>1, <1>5, <1>7, Sweep
<1>9. \A t \in Second : v[t] = w[t] + (IF t = when THEN 1 ELSE 0) OBVIOUS
<1>. HIDE DEF g, v
<1>. QED BY <1>4, <1>8, <1>9 DEF Addresses, OnFile, WindowBounded

\* The tables as the invariant knows them.
LEMMA TablesOf ==
  ASSUME LimiterInv
  PROVE  /\ Addresses(failures) /\ Cardinality(OnFile(failures)) <= MaxTracked
         /\ window \in [Second -> Nat] /\ guesses \in [Second -> Nat]
         /\ SumOver(window, Second) <= GlobalLimit
         /\ second \in Second
BY DEF LimiterInv, LimiterTypeOK, Numbered, WindowBounded, Addresses, OnFile

\* A sweep at any moment that has come leaves what still counts.
LEMMA SweepEffect ==
  ASSUME LimiterInv, NEW when \in Second, when <= second
  PROVE  /\ Addresses(SweptFailures(failures, when))
         /\ Cardinality(OnFile(SweptFailures(failures, when))) <= MaxTracked
         /\ SweptWindow(window, when) \in [Second -> Nat]
         /\ SumOver(SweptWindow(window, when), Second) <= GlobalLimit
         /\ \A t \in Second : t > second - GlobalWindow => SweptWindow(window, when)[t] = window[t]
         /\ \A t \in Second : SweptWindow(window, when)[t] > 0 => t + GlobalWindow > when
<1>1. /\ SweptWindow(window, when) \in [Second -> Nat]
      /\ \A t \in Second : SweptWindow(window, when)[t] = IF when - t >= GlobalWindow THEN 0 ELSE window[t]
      /\ SumOver(SweptWindow(window, when), Second) <= GlobalLimit
  BY TablesOf, Sweep
<1>2. /\ Addresses(SweptFailures(failures, when))
      /\ Cardinality(OnFile(SweptFailures(failures, when))) <= Cardinality(OnFile(failures))
  BY TablesOf, SweptAddresses
<1>3. Cardinality(OnFile(SweptFailures(failures, when))) <= MaxTracked
  <2>1. Cardinality(OnFile(SweptFailures(failures, when))) \in Nat /\ Cardinality(OnFile(failures)) \in Nat
    BY KnownFinite
  <2>. QED BY <1>2, <2>1, TablesOf, LimiterAssumption
<1>4. when \in Int /\ second \in Int /\ GlobalWindow \in Int /\ \A t \in Second : t \in Int
  BY TablesOf, LimiterAssumption DEF Second
<1>. QED BY <1>1, <1>2, <1>3, <1>4

\* What begin_attempt does to the tables.
LEMMA BeginEffect ==
  ASSUME LimiterInv, NEW a \in Attempt, BeginAttempt(a)
  PROVE  /\ Addresses(failures)' /\ Cardinality(OnFile(failures)') <= MaxTracked
         /\ window' \in [Second -> Nat] /\ WindowBounded'
         /\ \/ /\ attempt' = [attempt EXCEPT ![a] = Resting] /\ guesses' = guesses
               /\ \A t \in Second : t > second - GlobalWindow => window'[t] = window[t]
            \/ /\ attempt' = [attempt EXCEPT ![a].stage = "checking", ![a].since = second]
               /\ guesses' = [guesses EXCEPT ![second] = @ + 1]
               /\ \A t \in Second : t > second - GlobalWindow =>
                    window'[t] = window[t] + (IF t = attempt[a].stamp THEN 1 ELSE 0)
<1>. DEFINE i == attempt[a].ip
            when == attempt[a].stamp
            f == SweptFailures(failures, when)
            w == SweptWindow(window, when)
<1>1. i \in Client /\ when \in Second /\ when <= second
  BY DEF LimiterInv, LimiterTypeOK, Stamped
<1>2. /\ Addresses(f) /\ Cardinality(OnFile(f)) <= MaxTracked
      /\ w \in [Second -> Nat] /\ SumOver(w, Second) <= GlobalLimit
      /\ \A t \in Second : t > second - GlobalWindow => w[t] = window[t]
      /\ \A t \in Second : w[t] > 0 => t + GlobalWindow > when
  BY <1>1, SweepEffect
<1>3. \/ /\ Blocked(f, w, i, when)
         /\ failures' = f /\ window' = w
         /\ attempt' = [attempt EXCEPT ![a] = Resting] /\ guesses' = guesses
      \/ /\ ~ Blocked(f, w, i, when)
         /\ CountFailure(f, w, i, when)
         /\ attempt' = [attempt EXCEPT ![a].stage = "checking", ![a].since = second]
         /\ guesses' = [guesses EXCEPT ![second] = @ + 1]
  BY Zenon DEF BeginAttempt
<1>4. CASE Blocked(f, w, i, when)
  <2>1. failures' = f /\ window' = w /\ attempt' = [attempt EXCEPT ![a] = Resting] /\ guesses' = guesses
    BY <1>3, <1>4
  <2>. HIDE DEF f, w
  <2>. QED BY <1>2, <2>1 DEF Addresses, OnFile, WindowBounded
<1>5. CASE ~ Blocked(f, w, i, when)
  <2>. HIDE DEF f, w, when, i
  <2>1. /\ CountFailure(f, w, i, when)
        /\ attempt' = [attempt EXCEPT ![a].stage = "checking", ![a].since = second]
        /\ guesses' = [guesses EXCEPT ![second] = @ + 1]
    BY <1>3, <1>5
  <2>2. SumOver(w, Second) < GlobalLimit
    <3>1. SumOver(w, Second) \in Int
      <4>1. w \in [Second -> Int] BY <1>2
      <4>. QED BY <4>1, SumType
    <3>. QED BY <1>2, <1>5, <3>1, LimiterAssumption DEF Blocked
  <2>3. /\ Addresses(failures)' /\ Cardinality(OnFile(failures)') <= MaxTracked
        /\ window' \in [Second -> Nat] /\ WindowBounded'
        /\ \A t \in Second : ~ (when - t >= GlobalWindow) =>
             window'[t] = w[t] + (IF t = when THEN 1 ELSE 0)
    BY <1>1, <1>2, <2>1, <2>2, CountEffect
  <2>4. \A t \in Second : t > second - GlobalWindow =>
          window'[t] = window[t] + (IF t = when THEN 1 ELSE 0)
    <3>1. when \in Int /\ second \in Int /\ GlobalWindow \in Int /\ \A t \in Second : t \in Int
      BY <1>1, TablesOf, LimiterAssumption DEF Second
    <3>. QED BY <1>1, <1>2, <2>3, <3>1
  <2>. QED BY <2>1, <2>3, <2>4 DEF when
<1>. QED BY <1>4, <1>5

\* One request at a time: what a request that moves on becomes.
RequestType == [stage : {"none", "arrived", "checking"}, ip : Client, stamp : Second, since : Second]

LEMMA RestingType == Resting \in RequestType /\ Resting.stage = "none" /\ Resting.stamp = 0
<1>1. (CHOOSE i \in Client : TRUE) \in Client BY LimiterAssumption
<1>2. 0 \in Second BY LimiterAssumption DEF Second
<1>. QED BY <1>1, <1>2 DEF Resting, RequestType

\* The count of the outstanding attempts of one second.
Running(s) == {b \in Checking : attempt[b].since = s}

LEMMA RunningFinite ==
  ASSUME NEW s
  PROVE  IsFiniteSet(Running(s)) /\ Cardinality(Running(s)) \in Nat
BY LimiterAssumption, FS_Subset, FS_CardinalityType DEF Running, Checking

LEMMA EarlyFinite ==
  ASSUME NEW x
  PROVE  IsFiniteSet(Early(x)) /\ Cardinality(Early(x)) \in Nat
BY LimiterAssumption, FS_Subset, FS_CardinalityType DEF Early, Checking

\* An attempt that is taken back was counted.
LEMMA TakenBack ==
  ASSUME LimiterInv, NEW a \in Attempt, attempt[a].stage = "checking"
  PROVE  guesses[attempt[a].since] > 0
<1>. DEFINE s == attempt[a].since
<1>1. s \in Second /\ a \in Running(s)
  BY DEF LimiterInv, LimiterTypeOK, Running, Checking
<1>2. Cardinality(Running(s)) > 0
  <2>1. Running(s) # {} BY <1>1
  <2>. QED BY <2>1, RunningFinite, FS_EmptySet
<1>3. Cardinality(Running(s)) <= guesses[s] /\ guesses[s] \in Nat
  BY <1>1, TablesOf DEF LimiterInv, Outstanding, Running
<1>. QED BY <1>1, <1>2, <1>3, RunningFinite

\* Types, the number of addresses and of rows.
LEMMA TableSteps ==
  ASSUME LimiterInv, [LimiterNext]_limiterVars
  PROVE  LimiterTypeOK' /\ Numbered' /\ WindowBounded'
<1>. USE LimiterAssumption
<1>0. /\ attempt \in [Attempt -> RequestType] /\ tried \in 0..MaxTries /\ second \in Second
      /\ \A a \in Attempt : attempt[a].stamp <= second
  BY DEF LimiterInv, LimiterTypeOK, RequestType, Stamped
<1>1. SUFFICES /\ Addresses(failures)' /\ Cardinality(OnFile(failures)') <= MaxTracked
               /\ window' \in [Second -> Nat] /\ WindowBounded'
               /\ guesses' \in [Second -> Nat]
               /\ attempt' \in [Attempt -> RequestType]
               /\ second' \in Second /\ tried' \in 0..MaxTries
  BY DEF LimiterTypeOK, Numbered, Addresses, OnFile, RequestType
<1>2. ASSUME UNCHANGED <<failures, window>>
      PROVE  /\ Addresses(failures)' /\ Cardinality(OnFile(failures)') <= MaxTracked
             /\ window' \in [Second -> Nat] /\ WindowBounded'
  BY <1>2, TablesOf DEF Addresses, OnFile, WindowBounded
<1>3. ASSUME NEW a \in Attempt, NEW i \in Client, Arrive(a, i) PROVE <1>1!1
  <2>1. attempt' \in [Attempt -> RequestType]
    <3>1. [stage |-> "arrived", ip |-> i, stamp |-> second, since |-> 0] \in RequestType
      BY <1>0 DEF RequestType, Second
    <3>. QED BY <1>0, <1>3, <3>1 DEF Arrive
  <2>2. tried' \in 0..MaxTries BY <1>0, <1>3 DEF Arrive
  <2>. QED BY <1>0, <1>2, <1>3, <2>1, <2>2, TablesOf DEF Arrive
<1>4. ASSUME NEW a \in Attempt, BeginAttempt(a) PROVE <1>1!1
  <2>1. guesses' \in [Second -> Nat]
    <3>1. guesses' = guesses \/ guesses' = [guesses EXCEPT ![second] = @ + 1]
      BY <1>4, BeginEffect
    <3>. QED BY <3>1, TablesOf
  <2>2. attempt' \in [Attempt -> RequestType]
    <3>1. CASE attempt' = [attempt EXCEPT ![a] = Resting] BY <1>0, <3>1, RestingType
    <3>2. CASE attempt' = [attempt EXCEPT ![a].stage = "checking", ![a].since = second]
      BY <1>0, <3>2 DEF RequestType
    <3>. QED BY <1>4, <3>1, <3>2, BeginEffect
  <2>. QED BY <1>0, <1>4, <2>1, <2>2, BeginEffect DEF BeginAttempt
<1>5. ASSUME NEW a \in Attempt, GiveUp(a) PROVE <1>1!1
  <2>1. attempt' \in [Attempt -> RequestType] BY <1>0, <1>5, RestingType DEF GiveUp
  <2>. QED BY <1>0, <1>2, <1>5, <2>1, TablesOf DEF GiveUp
<1>6. ASSUME NEW a \in Attempt, Forgive(a) PROVE <1>1!1
  <2>. DEFINE when == attempt[a].stamp
              s == attempt[a].since
              n == IF window[when] > 0 THEN window[when] - 1 ELSE 0
  <2>1. when \in Second /\ s \in Second BY <1>0 DEF RequestType
  <2>2. /\ failures' = [failures EXCEPT ![attempt[a].ip] = NoFailure]
        /\ window' = [window EXCEPT ![when] = n]
        /\ guesses' = [guesses EXCEPT ![s] = guesses[s] - 1]
        /\ attempt' = [attempt EXCEPT ![a] = Resting]
        /\ UNCHANGED <<second, tried>> /\ attempt[a].stage = "checking"
    BY <1>6 DEF Forgive
  <2>3. guesses' \in [Second -> Nat]
    <3>1. guesses[s] > 0 BY <2>2, TakenBack
    <3>. HIDE DEF s
    <3>. QED BY <2>1, <2>2, <3>1, TablesOf
  <2>4. attempt' \in [Attempt -> RequestType] BY <1>0, <2>2, RestingType
  <2>5. n \in Nat /\ n <= window[when] /\ window[when] \in Nat BY <2>1, TablesOf
  <2>. HIDE DEF when, n, s
  <2>6. window' \in [Second -> Nat] BY <2>2, <2>5, TablesOf
  <2>7. \A t \in Second : window'[t] <= window[t]
    BY <2>1, <2>2, <2>5, TablesOf
  <2>8. SumOver(window', Second) <= SumOver(window, Second)
    <3>1. \A t \in Second : (IF t \in Second THEN window'[t] ELSE 0) <= (IF t \in Second THEN window[t] ELSE 0)
      BY <2>7
    <3>2. window' \in [Second -> Int] /\ window \in [Second -> Int] BY <2>6, TablesOf
    <3>. QED BY <3>1, <3>2, SumMonotone
  <2>9. WindowBounded'
    <3>1. SumOver(window, Second) \in Int /\ SumOver(window', Second) \in Int
      <4>1. window' \in [Second -> Int] /\ window \in [Second -> Int] BY <2>6, TablesOf
      <4>. QED BY <4>1, SumType
    <3>. QED BY <2>8, <3>1, TablesOf DEF WindowBounded
  <2>10. Addresses(failures') /\ Cardinality(OnFile(failures')) <= Cardinality(OnFile(failures))
    <3>1. NoFailure \in [count : Nat, last : Second, seq : Nat] /\ NoFailure.count = 0
      BY DEF NoFailure, Second
    <3>2. failures' \in [Client -> [count : Nat, last : Second, seq : Nat]]
      BY <2>2, <3>1, TablesOf DEF Addresses
    <3>3. \A i \in Client : failures'[i] = failures[i] \/ failures'[i].count = 0
      BY <2>2, <3>1, TablesOf DEF Addresses
    <3>. QED BY <3>2, <3>3, TablesOf, FewerAddresses
  <2>11. Cardinality(OnFile(failures')) <= MaxTracked
    <3>1. Cardinality(OnFile(failures')) \in Nat /\ Cardinality(OnFile(failures)) \in Nat BY KnownFinite
    <3>. QED BY <2>10, <3>1, TablesOf
  <2>. QED BY <1>0, <2>2, <2>3, <2>4, <2>6, <2>9, <2>10, <2>11 DEF Addresses, OnFile
<1>7. ASSUME NEW a \in Attempt, NEW answered \in BOOLEAN, GuessFails(a, answered) PROVE <1>1!1
  <2>1. attempt' \in [Attempt -> RequestType] BY <1>0, <1>7, RestingType DEF GuessFails
  <2>2. /\ Addresses(failures)' /\ Cardinality(OnFile(failures)') <= MaxTracked
        /\ window' \in [Second -> Nat] /\ WindowBounded'
    <3>1. CASE answered
      <4>1. failures' = SweptFailures(failures, second) /\ window' = SweptWindow(window, second)
        BY <1>7, <3>1 DEF GuessFails
      <4>2. second <= second BY <1>0 DEF Second
      <4>. QED BY <1>0, <4>1, <4>2, SweepEffect DEF Addresses, OnFile, WindowBounded
    <3>2. CASE ~ answered BY <1>2, <1>7, <3>2 DEF GuessFails
    <3>. QED BY <3>1, <3>2
  <2>. QED BY <1>0, <1>7, <2>1, <2>2, TablesOf DEF GuessFails
<1>8. ASSUME SecondPasses PROVE <1>1!1
  BY <1>0, <1>2, <1>8, TablesOf DEF SecondPasses, Second
<1>9. ASSUME UNCHANGED limiterVars PROVE <1>1!1
  BY <1>0, <1>2, <1>9, TablesOf DEF limiterVars
<1>. QED BY <1>3, <1>4, <1>5, <1>6, <1>7, <1>8, <1>9 DEF LimiterNext

\* The four kinds of steps: one that lets no guess through, one that lets one through,
\* one that takes one back, and the passing of time.
Quiet ==
  /\ second' = second /\ guesses' = guesses
  /\ \A b \in Attempt : \/ attempt'[b] = attempt[b]
                        \/ attempt'[b].stage # "checking" /\ attempt'[b].stamp <= second
  /\ \A t \in Second : t > second - GlobalWindow => window'[t] = window[t]
LetThrough(a) ==
  /\ second' = second /\ guesses' = [guesses EXCEPT ![second] = @ + 1]
  /\ attempt[a].stage = "arrived" /\ second - attempt[a].stamp <= Patience
  /\ attempt' = [attempt EXCEPT ![a].stage = "checking", ![a].since = second]
  /\ \A t \in Second : t > second - GlobalWindow =>
       window'[t] = window[t] + (IF t = attempt[a].stamp THEN 1 ELSE 0)
TakeBack(a) ==
  /\ second' = second /\ guesses' = [guesses EXCEPT ![attempt[a].since] = @ - 1]
  /\ attempt[a].stage = "checking"
  /\ attempt' = [attempt EXCEPT ![a] = Resting]
  /\ \A t \in Second : window'[t] >= window[t] - (IF t = attempt[a].stamp THEN 1 ELSE 0)

LEMMA GuessSteps ==
  ASSUME LimiterInv, [LimiterNext]_limiterVars
  PROVE  \/ Quiet \/ SecondPasses
         \/ \E a \in Attempt : LetThrough(a) \/ TakeBack(a)
<1>. USE LimiterAssumption
<1>0. /\ attempt \in [Attempt -> RequestType] /\ second \in Second /\ second <= second
      /\ \A a \in Attempt : attempt[a].stamp <= second
  BY DEF LimiterInv, LimiterTypeOK, RequestType, Stamped, Second
<1>1. ASSUME NEW a \in Attempt, attempt' = [attempt EXCEPT ![a] = Resting]
      PROVE  \A b \in Attempt : \/ attempt'[b] = attempt[b]
                                \/ attempt'[b].stage # "checking" /\ attempt'[b].stamp <= second
  <2>1. 0 <= second BY <1>0 DEF Second
  <2>. QED BY <1>0, <1>1, <2>1, RestingType
<1>2. ASSUME NEW a \in Attempt, NEW i \in Client, Arrive(a, i) PROVE Quiet
  BY <1>0, <1>2 DEF Arrive, Quiet
<1>3. ASSUME NEW a \in Attempt, BeginAttempt(a) PROVE Quiet \/ LetThrough(a)
  <2>1. second' = second /\ attempt[a].stage = "arrived" /\ second - attempt[a].stamp <= Patience
    BY <1>3 DEF BeginAttempt
  <2>2. CASE /\ attempt' = [attempt EXCEPT ![a] = Resting] /\ guesses' = guesses
             /\ \A t \in Second : t > second - GlobalWindow => window'[t] = window[t]
    BY <1>1, <2>1, <2>2 DEF Quiet
  <2>3. CASE /\ attempt' = [attempt EXCEPT ![a].stage = "checking", ![a].since = second]
             /\ guesses' = [guesses EXCEPT ![second] = @ + 1]
             /\ \A t \in Second : t > second - GlobalWindow =>
                    window'[t] = window[t] + (IF t = attempt[a].stamp THEN 1 ELSE 0)
    BY <2>1, <2>3 DEF LetThrough
  <2>. QED BY <1>3, <2>2, <2>3, BeginEffect
<1>4. ASSUME NEW a \in Attempt, GiveUp(a) PROVE Quiet
  BY <1>1, <1>4 DEF GiveUp, Quiet
<1>5. ASSUME NEW a \in Attempt, Forgive(a) PROVE TakeBack(a)
  <2>1. /\ window' = [window EXCEPT ![attempt[a].stamp] = IF @ > 0 THEN @ - 1 ELSE 0]
        /\ guesses' = [guesses EXCEPT ![attempt[a].since] = @ - 1]
        /\ attempt' = [attempt EXCEPT ![a] = Resting]
        /\ UNCHANGED <<second, tried>> /\ attempt[a].stage = "checking"
    BY <1>5 DEF Forgive
  <2>2. attempt[a].stamp \in Second BY <1>0 DEF RequestType
  <2>3. ASSUME NEW t \in Second
        PROVE  window'[t] >= window[t] - (IF t = attempt[a].stamp THEN 1 ELSE 0)
    <3>1. window[t] \in Nat BY TablesOf
    <3>2. CASE t = attempt[a].stamp BY <2>1, <2>2, <3>1, <3>2, TablesOf
    <3>3. CASE t # attempt[a].stamp BY <2>1, <2>2, <3>1, <3>3, TablesOf
    <3>. QED BY <3>2, <3>3
  <2>. QED BY <2>1, <2>3 DEF TakeBack
<1>6. ASSUME NEW a \in Attempt, NEW answered \in BOOLEAN, GuessFails(a, answered) PROVE Quiet
  <2>1. \A t \in Second : t > second - GlobalWindow => window'[t] = window[t]
    <3>1. CASE answered
      <4>1. window' = SweptWindow(window, second) BY <1>6, <3>1 DEF GuessFails
      <4>. QED BY <1>0, <4>1, SweepEffect
    <3>2. CASE ~ answered BY <1>6, <3>2 DEF GuessFails
    <3>. QED BY <3>1, <3>2
  <2>. QED BY <1>1, <1>6, <2>1 DEF GuessFails, Quiet
<1>7. ASSUME UNCHANGED limiterVars PROVE Quiet
  BY <1>7 DEF limiterVars, Quiet
<1>. QED BY <1>2, <1>3, <1>4, <1>5, <1>6, <1>7 DEF LimiterNext

\* Stamps and outstanding attempts.
LEMMA StampSteps ==
  ASSUME LimiterInv, [LimiterNext]_limiterVars
  PROVE  Stamped'
<1>. USE LimiterAssumption
<1>0. /\ attempt \in [Attempt -> RequestType] /\ second \in Second /\ Patience \in Nat
      /\ \A a \in Attempt : attempt[a].stamp <= second
      /\ \A a \in Checking : /\ attempt[a].stamp <= attempt[a].since
                             /\ attempt[a].since <= second
                             /\ attempt[a].since - attempt[a].stamp <= Patience
  BY DEF LimiterInv, LimiterTypeOK, RequestType, Stamped
<1>1. \A a \in Attempt : attempt[a].stamp \in Int /\ attempt[a].since \in Int
  BY <1>0 DEF RequestType, Second
<1>2. CASE Quiet
  BY <1>0, <1>1, <1>2 DEF Quiet, Stamped, Checking
<1>3. ASSUME NEW a \in Attempt, LetThrough(a) PROVE Stamped'
  <2>1. /\ second' = second
        /\ attempt'[a].stage = "checking" /\ attempt'[a].since = second
        /\ attempt'[a].stamp = attempt[a].stamp /\ second - attempt[a].stamp <= Patience
        /\ \A b \in Attempt : b # a => attempt'[b] = attempt[b]
    BY <1>0, <1>3 DEF LetThrough, RequestType
  <2>2. \A b \in Attempt : attempt'[b].stamp <= second' BY <1>0, <2>1
  <2>3. ASSUME NEW b \in Checking'
        PROVE  /\ attempt'[b].stamp <= attempt'[b].since
               /\ attempt'[b].since <= second'
               /\ attempt'[b].since - attempt'[b].stamp <= Patience
    <3>1. CASE b = a BY <1>0, <1>1, <2>1, <3>1 DEF Second
    <3>2. CASE b # a BY <1>0, <2>1, <2>3, <3>2 DEF Checking
    <3>. QED BY <3>1, <3>2
  <2>. QED BY <2>2, <2>3 DEF Stamped
<1>4. ASSUME NEW a \in Attempt, TakeBack(a) PROVE Stamped'
  <2>1. /\ second' = second
        /\ attempt'[a].stage = "none" /\ attempt'[a].stamp = 0
        /\ \A b \in Attempt : b # a => attempt'[b] = attempt[b]
    BY <1>0, <1>4, RestingType DEF TakeBack
  <2>2. 0 <= second BY <1>0 DEF Second
  <2>. QED BY <1>0, <2>1, <2>2 DEF Stamped, Checking
<1>5. CASE SecondPasses
  <2>1. second' = second + 1 /\ attempt' = attempt /\ second \in Int BY <1>0, <1>5 DEF SecondPasses, Second
  <2>. QED BY <1>0, <1>1, <2>1 DEF Stamped, Checking
<1>. QED BY <1>2, <1>3, <1>4, <1>5, GuessSteps

LEMMA OutstandingSteps ==
  ASSUME LimiterInv, [LimiterNext]_limiterVars
  PROVE  Outstanding'
<1>. USE LimiterAssumption
<1>0. /\ attempt \in [Attempt -> RequestType] /\ second \in Second /\ guesses \in [Second -> Nat]
      /\ \A s \in Second : Cardinality(Running(s)) <= guesses[s]
  BY DEF LimiterInv, LimiterTypeOK, RequestType, Outstanding, Running
<1>1. ASSUME NEW s \in Second, Running(s)' \subseteq Running(s), guesses'[s] = guesses[s]
      PROVE  Cardinality(Running(s)') <= guesses'[s]
  <2>1. Cardinality(Running(s)') <= Cardinality(Running(s)) /\ Cardinality(Running(s)') \in Nat
    BY <1>1, RunningFinite, FS_Subset, FS_CardinalityType
  <2>. QED BY <1>0, <1>1, <2>1, RunningFinite
<1>2. CASE Quiet
  <2>1. \A s \in Second : Running(s)' \subseteq Running(s) /\ guesses'[s] = guesses[s]
    BY <1>2 DEF Quiet, Running, Checking
  <2>. QED BY <1>1, <2>1 DEF Outstanding, Running
<1>3. ASSUME NEW a \in Attempt, LetThrough(a) PROVE Outstanding'
  <2>1. /\ guesses' = [guesses EXCEPT ![second] = @ + 1]
        /\ attempt'[a].stage = "checking" /\ attempt'[a].since = second
        /\ \A b \in Attempt : b # a => attempt'[b] = attempt[b]
    BY <1>0, <1>3 DEF LetThrough, RequestType
  <2>2. ASSUME NEW s \in Second PROVE Cardinality(Running(s)') <= guesses'[s]
    <3>1. CASE s # second
      <4>1. Running(s)' \subseteq Running(s) BY <2>1, <3>1 DEF Running, Checking
      <4>2. guesses'[s] = guesses[s] BY <1>0, <2>1, <3>1
      <4>. QED BY <1>1, <4>1, <4>2
    <3>2. CASE s = second
      <4>1. Running(s)' \subseteq Running(s) \cup {a} BY <2>1 DEF Running, Checking
      <4>2. guesses'[s] = guesses[s] + 1 BY <1>0, <2>1, <3>2
      <4>3. /\ IsFiniteSet(Running(s) \cup {a})
            /\ Cardinality(Running(s) \cup {a}) \in Nat
            /\ Cardinality(Running(s) \cup {a}) <= Cardinality(Running(s)) + 1
        BY RunningFinite, OneMore
      <4>4. Cardinality(Running(s)') <= Cardinality(Running(s) \cup {a}) /\ Cardinality(Running(s)') \in Nat
        BY <4>1, <4>3, FS_Subset, FS_CardinalityType
      <4>. QED BY <1>0, <4>2, <4>3, <4>4, RunningFinite
    <3>. QED BY <3>1, <3>2
  <2>. QED BY <2>2 DEF Outstanding, Running
<1>4. ASSUME NEW a \in Attempt, TakeBack(a) PROVE Outstanding'
  <2>1. /\ guesses' = [guesses EXCEPT ![attempt[a].since] = @ - 1]
        /\ attempt'[a].stage = "none" /\ attempt[a].stage = "checking"
        /\ \A b \in Attempt : b # a => attempt'[b] = attempt[b]
    BY <1>0, <1>4, RestingType DEF TakeBack
  <2>2. ASSUME NEW s \in Second PROVE Cardinality(Running(s)') <= guesses'[s]
    <3>1. CASE s # attempt[a].since
      <4>1. Running(s)' \subseteq Running(s) BY <2>1 DEF Running, Checking
      <4>2. guesses'[s] = guesses[s] BY <1>0, <2>1, <3>1
      <4>. QED BY <1>1, <4>1, <4>2
    <3>2. CASE s = attempt[a].since
      <4>1. Running(s)' \subseteq Running(s) \ {a} /\ a \in Running(s)
        BY <2>1, <3>2 DEF Running, Checking
      <4>2. guesses'[s] = guesses[s] - 1 BY <1>0, <2>1, <3>2
      <4>3. /\ IsFiniteSet(Running(s) \ {a})
            /\ Cardinality(Running(s) \ {a}) = Cardinality(Running(s)) - 1
        BY <4>1, RunningFinite, FS_RemoveElement
      <4>4. Cardinality(Running(s)') <= Cardinality(Running(s) \ {a}) /\ Cardinality(Running(s)') \in Nat
        BY <4>1, <4>3, FS_Subset, FS_CardinalityType
      <4>. QED BY <1>0, <4>2, <4>3, <4>4, RunningFinite
    <3>. QED BY <3>1, <3>2
  <2>. QED BY <2>2 DEF Outstanding, Running
<1>5. CASE SecondPasses
  <2>1. \A s \in Second : Running(s)' \subseteq Running(s) /\ guesses'[s] = guesses[s]
    BY <1>5 DEF SecondPasses, Running, Checking
  <2>. QED BY <1>1, <2>1 DEF Outstanding, Running
<1>. QED BY <1>2, <1>3, <1>4, <1>5, GuessSteps

\* The three numbers of Counted, for one moment.
Late(x) == {s \in Second : s >= x + Patience}
Live(x) == {s \in Second : s >= x}

LEMMA NumbersType ==
  ASSUME LimiterInv, NEW x
  PROVE  /\ SumOver(guesses, Late(x)) \in Int /\ SumOver(window, Live(x)) \in Int
         /\ Cardinality(Early(x)) \in Nat
<1>1. window \in [Second -> Int] /\ guesses \in [Second -> Int] BY TablesOf
<1>. QED BY <1>1, SumType, EarlyFinite

\* Rows, guesses and running checks keep step.
LEMMA CountedSteps ==
  ASSUME LimiterInv, LimiterTypeOK', [LimiterNext]_limiterVars
  PROVE  Counted'
<1>. USE LimiterAssumption
<1>0. /\ attempt \in [Attempt -> RequestType] /\ second \in Second /\ second \in Int
      /\ guesses \in [Second -> Int] /\ guesses' \in [Second -> Int]
      /\ window \in [Second -> Int] /\ window' \in [Second -> Int]
      /\ \A a \in Checking : /\ attempt[a].stamp <= attempt[a].since
                             /\ attempt[a].since <= second
                             /\ attempt[a].since - attempt[a].stamp <= Patience
      /\ Patience \in Int /\ GlobalWindow \in Int /\ MaxSecond \in Int
      /\ \A t \in Second : t \in Int
      /\ \A a \in Attempt : /\ attempt[a].stamp \in Second /\ attempt[a].since \in Second
                            /\ attempt[a].stamp <= second
  <2>1. \A t \in Second : t \in Int BY DEF Second
  <2>2. /\ guesses \in [Second -> Nat] /\ guesses' \in [Second -> Nat]
        /\ window \in [Second -> Nat] /\ window' \in [Second -> Nat]
        /\ second \in Second /\ second' \in Second
        /\ attempt \in [Attempt -> RequestType]
    BY DEF LimiterInv, LimiterTypeOK, RequestType
  <2>3. /\ guesses \in [Second -> Int] /\ guesses' \in [Second -> Int]
        /\ window \in [Second -> Int] /\ window' \in [Second -> Int]
    BY <2>2
  <2>4. \A a \in Attempt : attempt[a].stamp \in Second /\ attempt[a].since \in Second
    BY <2>2 DEF RequestType
  <2>5. /\ \A a \in Attempt : attempt[a].stamp <= second
        /\ \A a \in Checking : /\ attempt[a].stamp <= attempt[a].since
                               /\ attempt[a].since <= second
                               /\ attempt[a].since - attempt[a].stamp <= Patience
    BY DEF LimiterInv, Stamped
  <2>. QED BY <2>1, <2>2, <2>3, <2>4, <2>5
<1>. SUFFICES ASSUME NEW x \in (second' - GlobalWindow + 1)..MaxSecond
              PROVE  SumOver(guesses', Late(x)) + Cardinality(Early(x)') <= SumOver(window', Live(x))
  BY DEF Counted, Late, Live
<1>1. second' \in Int /\ second' >= second
  <2>1. second' = second \/ second' = second + 1
    BY GuessSteps DEF Quiet, LetThrough, TakeBack, SecondPasses
  <2>. QED BY <1>0, <2>1
<1>2. x \in Int /\ x > second - GlobalWindow /\ x \in (second - GlobalWindow + 1)..MaxSecond
  <2>. DEFINE now == second'
  <2>1. GlobalWindow \in Int /\ MaxSecond \in Int /\ second \in Int BY <1>0
  <2>2. now \in Int /\ now >= second /\ x \in (now - GlobalWindow + 1)..MaxSecond BY <1>1
  <2>. HIDE DEF now
  <2>. QED BY <2>1, <2>2
<1>3. SumOver(guesses, Late(x)) + Cardinality(Early(x)) <= SumOver(window, Live(x))
  BY <1>2 DEF LimiterInv, Counted, Late, Live
<1>4. /\ SumOver(guesses, Late(x)) \in Int /\ SumOver(window, Live(x)) \in Int
      /\ Cardinality(Early(x)) \in Nat
      /\ SumOver(guesses', Late(x)) \in Int /\ SumOver(window', Live(x)) \in Int
  BY <1>0, NumbersType, SumType
<1>5. /\ IsFiniteSet(Early(x)) /\ IsFiniteSet(Early(x)') /\ Cardinality(Early(x)') \in Nat
  <2>1. Early(x)' \subseteq Attempt BY DEF Early, Checking
  <2>. QED BY <2>1, EarlyFinite, FS_Subset, FS_CardinalityType
<1>6. Early(x)' \subseteq Early(x) => Cardinality(Early(x)') <= Cardinality(Early(x))
  BY <1>5, FS_Subset
<1>7. ASSUME \A t \in Second : t > second - GlobalWindow => window'[t] = window[t]
      PROVE  SumOver(window', Live(x)) = SumOver(window, Live(x))
  <2>1. \A t \in Live(x) : window'[t] = window[t] BY <1>0, <1>2, <1>7 DEF Live
  <2>2. \A t \in Second : (IF t \in Live(x) THEN window'[t] ELSE 0) = (IF t \in Live(x) THEN window[t] ELSE 0)
    BY <2>1
  <2>. QED BY <1>0, <2>2, SumSame
<1>8. CASE Quiet
  <2>1. Early(x)' \subseteq Early(x) BY <1>8 DEF Quiet, Early, Checking
  <2>2. SumOver(window', Live(x)) = SumOver(window, Live(x)) BY <1>7, <1>8 DEF Quiet
  <2>3. guesses' = guesses BY <1>8 DEF Quiet
  <2>. QED BY <1>3, <1>4, <1>5, <1>6, <2>1, <2>2, <2>3
<1>9. CASE SecondPasses
  <2>1. Early(x)' \subseteq Early(x) BY <1>9 DEF SecondPasses, Early, Checking
  <2>2. guesses' = guesses /\ window' = window BY <1>9 DEF SecondPasses
  <2>. QED BY <1>3, <1>4, <1>5, <1>6, <2>1, <2>2
<1>10. ASSUME NEW a \in Attempt, LetThrough(a)
       PROVE  SumOver(guesses', Late(x)) + Cardinality(Early(x)') <= SumOver(window', Live(x))
  <2>. DEFINE when == attempt[a].stamp
  <2>1. /\ guesses' = [guesses EXCEPT ![second] = @ + 1]
        /\ attempt'[a].stage = "checking" /\ attempt'[a].since = second /\ attempt'[a].stamp = when
        /\ second - when <= Patience
        /\ \A b \in Attempt : b # a => attempt'[b] = attempt[b]
        /\ \A t \in Second : t > second - GlobalWindow =>
             window'[t] = window[t] + (IF t = when THEN 1 ELSE 0)
    BY <1>0, <1>10 DEF LetThrough, RequestType
  <2>2. when \in Second /\ when \in Int /\ when <= second BY <1>0
  <2>. HIDE DEF when
  <2>3. Early(x)' \subseteq Early(x) \cup {a} BY <2>1 DEF Early, Checking
  <2>4. ASSUME ~ (when >= x /\ second < x + Patience) PROVE Early(x)' \subseteq Early(x)
    BY <2>1, <2>4 DEF Early, Checking
  <2>5. Cardinality(Early(x)') <= Cardinality(Early(x)) + 1
    <3>1. /\ IsFiniteSet(Early(x) \cup {a}) /\ Cardinality(Early(x) \cup {a}) \in Nat
          /\ Cardinality(Early(x) \cup {a}) <= Cardinality(Early(x)) + 1
      BY <1>5, OneMore
    <3>2. Cardinality(Early(x)') <= Cardinality(Early(x) \cup {a}) BY <2>3, <3>1, FS_Subset
    <3>. QED BY <1>4, <1>5, <3>1, <3>2
  <2>6. ASSUME ~ (second >= x + Patience)
        PROVE  SumOver(guesses', Late(x)) = SumOver(guesses, Late(x))
    <3>1. \A t \in Second : (IF t \in Late(x) THEN guesses'[t] ELSE 0) = (IF t \in Late(x) THEN guesses[t] ELSE 0)
      <4>1. second \notin Late(x) BY <2>6 DEF Late
      <4>. QED BY <1>0, <2>1, <4>1
    <3>. QED BY <1>0, <3>1, SumSame
  <2>7. ASSUME second >= x + Patience
        PROVE  SumOver(guesses', Late(x)) = SumOver(guesses, Late(x)) + 1
    <3>1. OneTerm(guesses, Late(x), guesses', Late(x), second, 1)
      <4>1. second \in Late(x) BY <1>0, <2>7 DEF Late
      <4>2. \A t \in Second : guesses'[t] = guesses[t] + (IF t = second THEN 1 ELSE 0)
        BY <1>0, <2>1
      <4>. QED BY <1>0, <4>1, <4>2 DEF OneTerm
    <3>. QED BY <1>0, <3>1, SumOneTerm
  <2>8. ASSUME when >= x
        PROVE  SumOver(window', Live(x)) = SumOver(window, Live(x)) + 1
    <3>1. OneTerm(window, Live(x), window', Live(x), when, 1)
      <4>1. when \in Live(x) BY <2>2, <2>8 DEF Live
      <4>2. \A t \in Live(x) : window'[t] = window[t] + (IF t = when THEN 1 ELSE 0)
        BY <1>0, <1>2, <2>1 DEF Live
      <4>. QED BY <1>0, <4>1, <4>2 DEF OneTerm
    <3>. QED BY <1>0, <2>2, <3>1, SumOneTerm
  <2>9. ASSUME ~ (when >= x)
        PROVE  SumOver(window', Live(x)) = SumOver(window, Live(x))
    <3>1. when \notin Live(x) BY <2>9 DEF Live
    <3>2. ASSUME NEW t \in Live(x) PROVE window'[t] = window[t]
      <4>1. t # when BY <3>1
      <4>2. t \in Second /\ t > second - GlobalWindow BY <1>0, <1>2 DEF Live
      <4>3. window[t] \in Int BY <1>0, <4>2
      <4>. QED BY <2>1, <4>1, <4>2, <4>3
    <3>3. \A t \in Second : (IF t \in Live(x) THEN window'[t] ELSE 0) = (IF t \in Live(x) THEN window[t] ELSE 0)
      BY <3>2
    <3>. QED BY <1>0, <3>3, SumSame
  <2>10. CASE second >= x + Patience
    <3>1. when >= x BY <1>0, <1>2, <2>1, <2>2, <2>10
    <3>2. Early(x)' \subseteq Early(x) BY <1>0, <1>2, <2>4, <2>10
    <3>. QED BY <1>3, <1>4, <1>5, <1>6, <2>7, <2>8, <2>10, <3>1, <3>2
  <2>11. CASE ~ (second >= x + Patience) /\ when >= x
    BY <1>3, <1>4, <1>5, <2>5, <2>6, <2>8, <2>11
  <2>12. CASE ~ (second >= x + Patience) /\ ~ (when >= x)
    <3>1. Early(x)' \subseteq Early(x) BY <2>4, <2>12
    <3>. QED BY <1>3, <1>4, <1>5, <1>6, <2>6, <2>9, <2>12, <3>1
  <2>. QED BY <2>10, <2>11, <2>12
<1>11. ASSUME NEW a \in Attempt, TakeBack(a)
       PROVE  SumOver(guesses', Late(x)) + Cardinality(Early(x)') <= SumOver(window', Live(x))
  <2>. DEFINE when == attempt[a].stamp
              s == attempt[a].since
  <2>1. /\ guesses' = [guesses EXCEPT ![s] = @ - 1]
        /\ attempt'[a].stage = "none" /\ a \in Checking
        /\ \A b \in Attempt : b # a => attempt'[b] = attempt[b]
        /\ \A t \in Second : window'[t] >= window[t] - (IF t = when THEN 1 ELSE 0)
    BY <1>0, <1>11, RestingType DEF TakeBack, Checking
  <2>2. /\ when \in Second /\ when \in Int /\ s \in Second /\ s \in Int
        /\ when <= s /\ s <= second /\ s - when <= Patience
    BY <1>0, <2>1
  <2>3. Early(x)' \subseteq Early(x) \ {a} BY <2>1 DEF Early, Checking
  <2>4. Cardinality(Early(x)') <= Cardinality(Early(x)) BY <1>6, <2>3
  <2>5. ASSUME when >= x, s < x + Patience PROVE Cardinality(Early(x)') <= Cardinality(Early(x)) - 1
    <3>1. a \in Early(x) BY <2>1, <2>5 DEF Early
    <3>2. IsFiniteSet(Early(x) \ {a}) /\ Cardinality(Early(x) \ {a}) = Cardinality(Early(x)) - 1
      BY <1>5, <3>1, FS_RemoveElement
    <3>3. Cardinality(Early(x)') <= Cardinality(Early(x) \ {a}) BY <2>3, <3>2, FS_Subset
    <3>. QED BY <3>2, <3>3
  <2>. HIDE DEF when, s
  <2>6. ASSUME s >= x + Patience
        PROVE  SumOver(guesses', Late(x)) = SumOver(guesses, Late(x)) + (-1)
    <3>1. OneTerm(guesses, Late(x), guesses', Late(x), s, -1)
      <4>1. s \in Late(x) BY <2>2, <2>6 DEF Late
      <4>2. \A t \in Second : guesses'[t] = guesses[t] + (IF t = s THEN -1 ELSE 0)
        BY <1>0, <2>1, <2>2
      <4>. QED BY <1>0, <4>1, <4>2 DEF OneTerm
    <3>2. -1 \in Int OBVIOUS
    <3>. QED BY <1>0, <2>2, <3>1, <3>2, SumOneTerm
  <2>7. SumOver(guesses', Late(x)) <= SumOver(guesses, Late(x))
    <3>1. \A t \in Second : guesses'[t] <= guesses[t]
      BY <1>0, <2>1, <2>2
    <3>2. \A t \in Second : (IF t \in Late(x) THEN guesses'[t] ELSE 0) <= (IF t \in Late(x) THEN guesses[t] ELSE 0)
      BY <3>1
    <3>. QED BY <1>0, <3>2, SumMonotone
  <2>8. ASSUME ~ (when >= x) PROVE SumOver(window, Live(x)) <= SumOver(window', Live(x))
    <3>1. when \notin Live(x) BY <2>8 DEF Live
    <3>2. \A t \in Live(x) : window[t] <= window'[t]
      BY <1>0, <2>1, <3>1 DEF Live
    <3>3. \A t \in Second : (IF t \in Live(x) THEN window[t] ELSE 0) <= (IF t \in Live(x) THEN window'[t] ELSE 0)
      BY <3>2
    <3>. QED BY <1>0, <3>3, SumMonotone
  <2>9. SumOver(window, Live(x)) - 1 <= SumOver(window', Live(x))
    <3>. DEFINE v == [window EXCEPT ![when] = @ - 1]
    <3>1. v \in [Second -> Int] BY <1>0, <2>2
    <3>2. \A t \in Second : v[t] = window[t] + (IF t = when THEN -1 ELSE 0) BY <1>0, <2>2
    <3>. HIDE DEF v
    <3>3. \A t \in Second : v[t] <= window'[t] BY <1>0, <2>1, <3>2
    <3>4. SumOver(v, Live(x)) <= SumOver(window', Live(x))
      <4>1. \A t \in Second : (IF t \in Live(x) THEN v[t] ELSE 0) <= (IF t \in Live(x) THEN window'[t] ELSE 0)
        BY <3>3
      <4>. QED BY <1>0, <3>1, <4>1, SumMonotone
    <3>5. CASE when \in Live(x)
      <4>1. OneTerm(window, Live(x), v, Live(x), when, -1)
        BY <1>0, <3>1, <3>2, <3>5 DEF OneTerm
      <4>2. -1 \in Int OBVIOUS
      <4>3. SumOver(v, Live(x)) = SumOver(window, Live(x)) + (-1)
        BY <1>0, <2>2, <3>1, <4>1, <4>2, SumOneTerm
      <4>. QED BY <1>4, <3>4, <4>3
    <3>6. CASE when \notin Live(x)
      <4>1. \A t \in Second : (IF t \in Live(x) THEN v[t] ELSE 0) = (IF t \in Live(x) THEN window[t] ELSE 0)
        BY <1>0, <3>2, <3>6
      <4>2. SumOver(v, Live(x)) = SumOver(window, Live(x)) BY <1>0, <3>1, <4>1, SumSame
      <4>. QED BY <1>4, <3>4, <4>2
    <3>. QED BY <3>5, <3>6
  <2>10. CASE s >= x + Patience
    BY <1>3, <1>4, <1>5, <2>4, <2>6, <2>9, <2>10
  <2>11. CASE ~ (s >= x + Patience) /\ when >= x
    <3>1. s < x + Patience BY <1>0, <1>2, <2>2, <2>11
    <3>. QED BY <1>3, <1>4, <1>5, <2>5, <2>7, <2>9, <2>11, <3>1 DEF when, s
  <2>12. CASE ~ (when >= x)
    BY <1>3, <1>4, <1>5, <2>4, <2>7, <2>8, <2>12
  <2>. QED BY <2>10, <2>11, <2>12
<1>. QED BY <1>8, <1>9, <1>10, <1>11, GuessSteps

\* What was let through up to a moment that is past cannot become more; for the present,
\* every guess of the window has a row.
LEMMA BoundSteps ==
  ASSUME LimiterInv, LimiterTypeOK', Counted', WindowBounded', [LimiterNext]_limiterVars
  PROVE  GuessesBounded'
<1>. USE LimiterAssumption
<1>. DEFINE Span(t) == {u \in Second : u > t - (GlobalWindow - Patience) /\ u <= t}
<1>0. /\ second \in Second /\ second' \in Second /\ \A t \in Second : t \in Int
      /\ guesses \in [Second -> Int] /\ guesses' \in [Second -> Nat] /\ guesses' \in [Second -> Int]
      /\ window' \in [Second -> Nat] /\ window' \in [Second -> Int]
      /\ Patience \in Nat /\ GlobalWindow \in Nat \ {0} /\ MaxSecond \in Nat /\ GlobalLimit \in Nat
  <2>1. \A t \in Second : t \in Int BY DEF Second
  <2>2. /\ guesses \in [Second -> Nat] /\ guesses' \in [Second -> Nat] /\ window' \in [Second -> Nat]
        /\ second \in Second /\ second' \in Second
    BY DEF LimiterInv, LimiterTypeOK
  <2>. QED BY <2>1, <2>2
<1>. SUFFICES ASSUME NEW t \in Second PROVE SumOver(guesses', Span(t)) <= GlobalLimit
  BY DEF GuessesBounded
<1>1. CASE t >= second'
  <2>. DEFINE x == t - GlobalWindow + 1
  <2>1. x \in (second' - GlobalWindow + 1)..MaxSecond
    <3>. DEFINE now == second'
    <3>1. t \in Int /\ now \in Int /\ t <= MaxSecond /\ t >= now BY <1>1 DEF Second, LimiterTypeOK
    <3>2. GlobalWindow \in Nat /\ GlobalWindow >= 1 /\ MaxSecond \in Int BY <1>0
    <3>. HIDE DEF now
    <3>3. x \in (now - GlobalWindow + 1)..MaxSecond BY <3>1, <3>2
    <3>. QED BY <3>3 DEF now
  <2>2. SumOver(guesses', Late(x)) + Cardinality(Early(x)') <= SumOver(window', Live(x))
    BY <2>1 DEF Counted, Late, Live
  <2>3. SumOver(guesses', Span(t)) <= SumOver(guesses', Late(x))
    <3>1. Span(t) \subseteq Late(x) BY <1>0 DEF Late
    <3>2. \A u \in Second : (IF u \in Span(t) THEN guesses'[u] ELSE 0) <= (IF u \in Late(x) THEN guesses'[u] ELSE 0)
      <4>. HIDE DEF Span, x
      <4>. QED BY <1>0, <3>1
    <3>. HIDE DEF Span, x
    <3>. QED BY <1>0, <3>2, SumMonotone
  <2>4. SumOver(window', Live(x)) <= SumOver(window', Second)
    <3>1. \A u \in Second : (IF u \in Live(x) THEN window'[u] ELSE 0) <= (IF u \in Second THEN window'[u] ELSE 0)
      BY <1>0
    <3>. HIDE DEF x
    <3>. QED BY <1>0, <3>1, SumMonotone
  <2>5. SumOver(window', Second) <= GlobalLimit BY DEF WindowBounded
  <2>6. Cardinality(Early(x)') \in Nat
    <3>1. Early(x)' \subseteq Attempt BY DEF Early, Checking
    <3>. HIDE DEF x
    <3>. QED BY <3>1, FS_Subset, FS_CardinalityType
  <2>7. /\ SumOver(guesses', Span(t)) \in Int /\ SumOver(guesses', Late(x)) \in Int
        /\ SumOver(window', Live(x)) \in Int /\ SumOver(window', Second) \in Int
    <3>. HIDE DEF Span, x
    <3>. QED BY <1>0, SumType
  <2>. HIDE DEF Span, x
  <2>. QED BY <1>0, <2>2, <2>3, <2>4, <2>5, <2>6, <2>7
<1>2. CASE ~ (t >= second')
  <2>1. ASSUME NEW u \in Span(t) PROVE guesses'[u] <= guesses[u]
    <3>1. u \in Second /\ u < second' BY <1>0, <1>2
    <3>2. CASE Quiet BY <1>0, <3>1, <3>2 DEF Quiet
    <3>3. CASE SecondPasses BY <1>0, <3>1, <3>3 DEF SecondPasses
    <3>4. ASSUME NEW a \in Attempt, LetThrough(a) PROVE guesses'[u] <= guesses[u]
      BY <1>0, <3>1, <3>4 DEF LetThrough
    <3>5. ASSUME NEW a \in Attempt, TakeBack(a) PROVE guesses'[u] <= guesses[u]
      <4>1. guesses' = [guesses EXCEPT ![attempt[a].since] = @ - 1] BY <3>5 DEF TakeBack
      <4>. QED BY <1>0, <3>1, <4>1
    <3>. QED BY <3>2, <3>3, <3>4, <3>5, GuessSteps
  <2>2. SumOver(guesses', Span(t)) <= SumOver(guesses, Span(t))
    <3>. HIDE DEF Span
    <3>1. \A u \in Second : (IF u \in Span(t) THEN guesses'[u] ELSE 0) <= (IF u \in Span(t) THEN guesses[u] ELSE 0)
      BY <2>1
    <3>. QED BY <1>0, <3>1, SumMonotone
  <2>3. SumOver(guesses, Span(t)) <= GlobalLimit BY DEF LimiterInv, GuessesBounded
  <2>4. SumOver(guesses', Span(t)) \in Int /\ SumOver(guesses, Span(t)) \in Int
    <3>. HIDE DEF Span
    <3>. QED BY <1>0, SumType
  <2>. HIDE DEF Span
  <2>. QED BY <1>0, <2>2, <2>3, <2>4
<1>. QED BY <1>1, <1>2

\* At the start nothing is counted and nothing was let through.
LEMMA LimiterStart == LimiterInit => LimiterInv
<1>. SUFFICES ASSUME LimiterInit PROVE LimiterInv OBVIOUS
<1>. USE LimiterAssumption
<1>. DEFINE zero == [t \in Second |-> 0]
<1>0. /\ second = 0 /\ 0 \in Second /\ window = zero /\ guesses = zero /\ zero \in [Second -> Int]
      /\ attempt = [a \in Attempt |-> Resting]
  BY DEF LimiterInit, Second
<1>1. ASSUME NEW ts PROVE SumOver(zero, ts) = 0
  <2>1. PICK v : SumsOf(v, zero, ts)
    <3>. HIDE DEF zero
    <3>. QED BY <1>0, SumUnfolds
  <2>2. /\ v[0] = 0 /\ \A t \in Second : v[t] \in Int => v[t + 1] = v[t]
        /\ SumOver(zero, ts) = v[MaxSecond + 1]
    BY <2>1 DEF SumsOf
  <2>. DEFINE T == {t \in 0..(MaxSecond + 1) : v[t] # 0}
  <2>3. ASSUME T # {} PROVE FALSE
    <3>1. PICK m \in T : \A k \in T : m <= k
      <4>1. T \in SUBSET Nat OBVIOUS
      <4>. HIDE DEF T
      <4>. QED BY <2>3, <4>1, FirstOne
    <3>2. m \in 0..(MaxSecond + 1) /\ m # 0 BY <2>2, <3>1
    <3>3. m - 1 \in Second /\ m - 1 \in 0..(MaxSecond + 1) /\ (m - 1) + 1 = m BY <3>2 DEF Second
    <3>4. v[m - 1] = 0 BY <3>1, <3>2, <3>3
    <3>. QED BY <2>2, <3>1, <3>3, <3>4
  <2>. QED BY <2>2, <2>3
<1>2. /\ \A a \in Attempt : attempt[a] = Resting
      /\ attempt \in [Attempt -> RequestType]
  BY <1>0, RestingType
<1>3. Checking = {} BY <1>2, RestingType DEF Checking
<1>4. LimiterTypeOK
  <2>1. {i \in Client : failures[i].count > 0} = {} BY DEF LimiterInit, NoFailure
  <2>2. Cardinality({i \in Client : failures[i].count > 0}) <= MaxTracked BY <2>1, FS_EmptySet
  <2>. QED BY <1>0, <1>2, <2>2 DEF LimiterTypeOK, LimiterInit, NoFailure, RequestType
<1>5. Stamped BY <1>0, <1>2, <1>3, RestingType DEF Stamped
<1>6. Outstanding
  <2>1. \A s \in Second : {a \in Checking : attempt[a].since = s} = {} BY <1>3
  <2>2. \A s \in Second : guesses[s] = 0 BY <1>0
  <2>3. \A s \in Second : Cardinality({a \in Checking : attempt[a].since = s}) = 0
    BY <2>1, FS_EmptySet
  <2>4. \A s \in Second : Cardinality({a \in Checking : attempt[a].since = s}) <= guesses[s]
    BY <2>2, <2>3
  <2>. QED BY <2>4 DEF Outstanding
<1>7. Counted
  <2>1. \A x : Early(x) = {} BY <1>3 DEF Early
  <2>. HIDE DEF zero
  <2>. QED BY <1>0, <1>1, <2>1, FS_EmptySet DEF Counted
<1>8. GuessesBounded /\ WindowBounded
  <2>. HIDE DEF zero
  <2>. QED BY <1>0, <1>1 DEF GuessesBounded, WindowBounded
<1>9. Numbered BY DEF Numbered, LimiterInit, NoFailure
<1>. QED BY <1>4, <1>5, <1>6, <1>7, <1>8, <1>9 DEF LimiterInv

LEMMA LimiterInvariant == LimiterSpec => []LimiterInv
<1>1. LimiterInv /\ [LimiterNext]_limiterVars => LimiterInv'
  <2>. SUFFICES ASSUME LimiterInv, [LimiterNext]_limiterVars PROVE LimiterInv' OBVIOUS
  <2>1. LimiterTypeOK' /\ Numbered' /\ WindowBounded' BY TableSteps
  <2>2. Stamped' /\ Outstanding' BY StampSteps, OutstandingSteps
  <2>3. Counted' BY <2>1, CountedSteps
  <2>4. GuessesBounded' BY <2>1, <2>3, BoundSteps
  <2>. QED BY <2>1, <2>2, <2>3, <2>4 DEF LimiterInv
<1>. QED BY <1>1, LimiterStart, PTL DEF LimiterSpec

\* However many addresses guess, and however their attempts overlap and wait, no more
\* than the ceiling are let through in a window; for every ceiling, window and patience.
THEOREM CeilingHolds == LimiterSpec => []GuessesBounded
<1>1. LimiterInv => GuessesBounded BY DEF LimiterInv
<1>. QED BY <1>1, LimiterInvariant, PTL

-----------------------------------------------------------------------------
(* The services together *)

\* Side by side, each component behaves as it does alone.
LEMMA EachBehaves ==
  ServicesSpec => Spec /\ LimiterSpec /\ ProxySpec /\ SignInSpec /\ ImportSpec
<1>1. ServicesInit => Init /\ LimiterInit /\ ProxyInit /\ SignInInit /\ ImportInit
  BY DEF ServicesInit
<1>2. [ServicesNext]_servicesVars =>
        /\ [Next]_vars /\ [LimiterNext]_limiterVars /\ [ProxyNext]_proxyVars
        /\ [SignInNext]_signInVars /\ [ImportNext]_importVars
  BY Zenon DEF ServicesNext, servicesVars
<1>. QED
  BY <1>1, <1>2, PTL DEF ServicesSpec, Spec, LimiterSpec, ProxySpec, SignInSpec, ImportSpec

\* Every variable of every service keeps its type, for any bounds.
THEOREM ServicesAreTyped == ServicesSpec => []Typed
<1>1. VaultInv => TypeOK BY DEF VaultInv
<1>2. LimiterInv => LimiterTypeOK BY DEF LimiterInv
<1>3. ProxyInv => ProxyTypeOK BY DEF ProxyInv
<1>4. SignInInv => SignInTypeOK BY DEF SignInInv
<1>5. ImportInv => ImportTypeOK BY DEF ImportInv
<1>6. TypeOK /\ LimiterTypeOK /\ ProxyTypeOK /\ SignInTypeOK /\ ImportTypeOK => Typed
  BY DEF Typed
<1>. QED
  BY <1>1, <1>2, <1>3, <1>4, <1>5, <1>6, EachBehaves, VaultInvariant, LimiterInvariant,
     ProxyInvariant, SignInInvariant, ImportInvariant, PTL

=============================================================================
