------------------------------- MODULE Import -------------------------------
(***************************************************************************)
(* Before a console serves: the schema migrations (migrate.py), which      *)
(* every starting process may run, and the one-shot import of an old       *)
(* SQLite database (import_sqlite.py), run by hand, perhaps twice at once  *)
(* or next to a console that already writes.                               *)
(*                                                                         *)
(* Of the ten tables the import fills, the model keeps the two kinds of    *)
(* row that behave differently: rows with an id of their own (`history'),  *)
(* and event_incomplete_intervals, whose ids PostgreSQL generates.         *)
(***************************************************************************)
EXTENDS Integers, FiniteSets

CONSTANTS
  Migrator,     \* processes that run migrate.upgrade
  Importer,     \* processes that run import_sqlite
  Recorder,     \* capture runs of a console that record an incomplete interval
  Nothing,
  Revisions,    \* number of migration files
  OldRows,      \* ids of the intervals in the SQLite database are 1..OldRows
  MaxId,        \* bound: ids generated
  MaxCrashes    \* bound: processes killed

ASSUME ImportAssumption ==
  /\ Nothing \notin Migrator \cup {"source", "console"}
  /\ {Revisions, OldRows, MaxId, MaxCrashes} \subseteq Nat

VARIABLES
  applied,      \* how often each revision's statements took effect
  recorded,     \* schema_migrations
  upgrading,    \* who holds the migration lock
  todo,         \* what the holder found pending
  importer,     \* where each import is
  copied,       \* intervals an import has inserted and not committed
  history,      \* committed: who wrote the other rows, {"source"} and/or {"console"}
  intervals,    \* committed: who wrote the interval of each id
  nextId,       \* the identity sequence; takes effect at once and is never rolled back
  recorder,     \* the id each capture run has drawn
  crashes

schema == <<applied, recorded, upgrading, todo>>
rows == <<history, intervals, nextId>>
importVars == <<schema, importer, copied, rows, recorder, crashes>>

Id == 1..(OldRows + MaxId)
Writer == {"source", "console"}

ImportTypeOK ==
  /\ applied \in [1..Revisions -> Nat] /\ recorded \subseteq 1..Revisions
  /\ upgrading \in Migrator \cup {Nothing} /\ todo \subseteq 1..Revisions
  /\ importer \in [Importer -> {"start", "counted", "copied", "synced", "done"}]
  /\ copied \in [Importer -> SUBSET Id]
  /\ history \subseteq Writer
  /\ intervals \in [Id -> {Nothing} \cup Writer]
  /\ nextId \in Nat /\ recorder \in [Recorder -> Id \cup {0}]
  /\ crashes \in 0..MaxCrashes

\* An empty database, or one an older release has migrated part of the way.
ImportInit ==
  /\ \E n \in 0..Revisions :
       /\ recorded = 1..n
       /\ applied = [v \in 1..Revisions |-> IF v <= n THEN 1 ELSE 0]
  /\ upgrading = Nothing /\ todo = {}
  /\ importer = [i \in Importer |-> "start"] /\ copied = [i \in Importer |-> {}]
  /\ history = {} /\ intervals = [n \in Id |-> Nothing] /\ nextId = 1
  /\ recorder = [c \in Recorder |-> 0]
  /\ crashes = 0

-----------------------------------------------------------------------------
(* migrate.py *)

Pending == 1..Revisions \ recorded

\* (mutant) what is pending is read before the lock is waited for: at any earlier state
LockLate(m) ==
  /\ upgrading = Nothing
  /\ upgrading' = m /\ todo' \in {Pending, 1..Revisions}
  /\ UNCHANGED <<applied, recorded, importer, copied, rows, recorder, crashes>>

\* upgrade: waits for the lock, and only then looks at what is pending.
Lock(m) ==
  /\ upgrading = Nothing
  /\ upgrading' = m /\ todo' = Pending
  /\ UNCHANGED <<applied, recorded, importer, copied, rows, recorder, crashes>>

\* One revision, in the order of the file names; its statements and its row in one
\* transaction.
Apply(m) ==
  /\ upgrading = m /\ todo # {}
  /\ LET v == CHOOSE x \in todo : \A y \in todo : x <= y
     IN  /\ applied' = [applied EXCEPT ![v] = @ + 1]
         /\ recorded' = recorded \cup {v} /\ todo' = todo \ {v}
  /\ UNCHANGED <<upgrading, importer, copied, rows, recorder, crashes>>

\* Done, or killed: the session ends and the lock with it.
Unlock(m) ==
  /\ upgrading = m
  /\ IF todo = {} THEN UNCHANGED crashes
                  ELSE crashes < MaxCrashes /\ crashes' = crashes + 1
  /\ upgrading' = Nothing /\ todo' = {}
  /\ UNCHANGED <<applied, recorded, importer, copied, rows, recorder>>

-----------------------------------------------------------------------------
(* import_sqlite.py *)

Taken == {n \in Id : intervals[n] # Nothing}

\* run: refuses pending migrations and a target with history; the counts are reads of
\* their own, before the transaction.
Count(i) ==
  /\ importer[i] = "start" /\ Pending = {}
  /\ history = {} /\ Taken = {}
  /\ importer' = [importer EXCEPT ![i] = "counted"]
  /\ UNCHANGED <<schema, copied, rows, recorder, crashes>>

\* import_table: what is there already is left alone.  A row another transaction has
\* inserted makes this one wait.
CopyRows(i) ==
  /\ importer[i] = "counted"
  /\ \A j \in Importer : importer[j] \notin {"copied", "synced"}
  /\ importer' = [importer EXCEPT ![i] = "copied"]
  /\ copied' = [copied EXCEPT ![i] = 1..OldRows \ Taken]
  /\ UNCHANGED <<schema, rows, recorder, crashes>>

Largest(ns) == IF ns = {} THEN 0 ELSE CHOOSE n \in ns : \A k \in ns : k <= n

\* (mutant) the sequence is left where it was
ResyncNot(i) ==
  /\ importer[i] = "copied"
  /\ importer' = [importer EXCEPT ![i] = "synced"]
  /\ UNCHANGED <<schema, copied, rows, recorder, crashes>>

\* _resync_identity: past the largest id this transaction sees.
Resync(i) ==
  /\ importer[i] = "copied"
  /\ nextId' = Largest(Taken \cup copied[i]) + 1
  /\ importer' = [importer EXCEPT ![i] = "synced"]
  /\ UNCHANGED <<schema, copied, history, intervals, recorder, crashes>>

\* (mutant) each table is committed on its own
CommitPart(i) ==
  /\ importer[i] = "synced"
  /\ \E part \in SUBSET {"source"} :
       /\ history' = history \cup part
       /\ intervals' = [n \in Id |-> IF n \in copied[i] THEN "source" ELSE intervals[n]]
  /\ importer' = [importer EXCEPT ![i] = "done"] /\ copied' = [copied EXCEPT ![i] = {}]
  /\ UNCHANGED <<schema, nextId, recorder, crashes>>

\* All tables at once.
CommitImport(i) ==
  /\ importer[i] = "synced"
  /\ history' = history \cup {"source"}
  /\ intervals' = [n \in Id |-> IF n \in copied[i] THEN "source" ELSE intervals[n]]
  /\ importer' = [importer EXCEPT ![i] = "done"] /\ copied' = [copied EXCEPT ![i] = {}]
  /\ UNCHANGED <<schema, nextId, recorder, crashes>>

\* A row that does not fit, a source table without a required column, or a kill: nothing
\* is imported, and the operator may run it again.  The sequence keeps its new value.
AbortImport(i) ==
  /\ importer[i] \in {"counted", "copied", "synced"}
  /\ crashes < MaxCrashes /\ crashes' = crashes + 1
  /\ importer' = [importer EXCEPT ![i] = "start"] /\ copied' = [copied EXCEPT ![i] = {}]
  /\ UNCHANGED <<schema, rows, recorder>>

-----------------------------------------------------------------------------
(* The console next to it *)

\* A capture run draws an id; the console needs the newest schema to serve.
DrawId(c) ==
  /\ Pending = {} /\ recorder[c] = 0 /\ nextId \in Id
  /\ recorder' = [recorder EXCEPT ![c] = nextId] /\ nextId' = nextId + 1
  /\ UNCHANGED <<schema, importer, copied, history, intervals, crashes>>

\* Its row is inserted, after an import that holds that id has ended, unless the id is
\* taken: then the run fails and tries again with another one.
Record(c) ==
  /\ recorder[c] # 0
  /\ \A i \in Importer : recorder[c] \notin copied[i]
  /\ IF intervals[recorder[c]] = Nothing
     THEN /\ intervals' = [intervals EXCEPT ![recorder[c]] = "console"]
          /\ history' = history \cup {"console"}
     ELSE UNCHANGED <<history, intervals>>
  /\ recorder' = [recorder EXCEPT ![c] = 0]
  /\ UNCHANGED <<schema, importer, copied, nextId, crashes>>

ImportNext ==
  \/ \E m \in Migrator : Lock(m) \/ Apply(m) \/ Unlock(m)
  \/ \E i \in Importer : Count(i) \/ CopyRows(i) \/ Resync(i) \/ CommitImport(i) \/ AbortImport(i)
  \/ \E c \in Recorder : DrawId(c) \/ Record(c)

ImportSpec == ImportInit /\ [][ImportNext]_importVars

-----------------------------------------------------------------------------
(* What must hold *)

\* However many processes start at once and are killed in between, every revision takes
\* effect once, in order, and what is recorded is what took effect (migrate.py:73-96).
MigratedOnce ==
  \A v \in 1..Revisions :
    /\ applied[v] = IF v \in recorded THEN 1 ELSE 0
    /\ v \in recorded => 1..v \subseteq recorded

\* The import comes across whole or not at all, also when it is run twice at once: with
\* the other rows come all intervals but those whose id a console had used in the
\* meantime (import_sqlite.py:226-228, 286-293).
ImportedWhole ==
  /\ "source" \in history <=> \E i \in Importer : importer[i] = "done"
  /\ "source" \in history => \A n \in 1..OldRows : intervals[n] # Nothing
  /\ \A n \in Id : intervals[n] = "source" => "source" \in history

\* After an import the next generated ids are past those that came across, whatever a
\* second import or an aborted one does to the sequence (import_sqlite.py:253-259).
IdentityPast ==
  \A n \in Id : intervals[n] = "source" => n < nextId

-----------------------------------------------------------------------------
(* The inductive invariant behind the safety properties *)

\* The lock's holder knows exactly what is pending.
HolderKnows == todo = IF upgrading = Nothing THEN {} ELSE Pending

\* One import at a time has rows inserted and not committed, and lacks none.
OneCopies ==
  /\ \A i, j \in Importer :
       importer[i] \in {"copied", "synced"} /\ importer[j] \in {"copied", "synced"} => i = j
  /\ \A i \in Importer :
       IF importer[i] \in {"copied", "synced"}
       THEN \A n \in 1..OldRows : n \in copied[i] \/ intervals[n] # Nothing
       ELSE copied[i] = {}

\* Once the sequence is set, it is past the rows about to be committed.
SyncedPast == \A i \in Importer : importer[i] = "synced" => \A n \in copied[i] : n < nextId

ImportInv ==
  ImportTypeOK /\ HolderKnows /\ MigratedOnce /\ OneCopies /\ SyncedPast /\ IdentityPast /\ ImportedWhole

=============================================================================
