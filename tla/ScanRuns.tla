------------------------------ MODULE ScanRuns ------------------------------
(***************************************************************************)
(* Scan runs and the per-connection scan lock.                             *)
(*                                                                         *)
(* run_scan (backend/app/scheduler.py) is the one code path of scheduled   *)
(* and manual captures.  It runs on a thread of a worker process, holds a  *)
(* session-level PostgreSQL advisory lock for its connection, and keeps a  *)
(* row of scan_runs.  reconcile_interrupted_runs (snapshots/store.py) runs *)
(* in the maintenance job of every worker and closes the rows a crash left *)
(* in 'running'.  Every action below is one commit or one lock call: what  *)
(* other threads and other workers can see, and where a crash can fall.    *)
(***************************************************************************)
EXTENDS Naturals, FiniteSets

CONSTANTS
  Worker,      \* uvicorn worker processes, on any pod
  Scanner,     \* threads that may execute run_scan
  Home,        \* the worker each scanner thread belongs to
  Connection,  \* ids of the connections created so far (ids are never reused)
  RunId,       \* bound: the scan_runs ids new_id() may return
  Nobody,      \* no lock holder, no value
  Dead,        \* a lock session whose process is gone, not yet ended by the server
  MaxCrashes,  \* bound: worker crashes
  MaxDrops,    \* bound: database restarts or failovers
  MaxFaults    \* bound: database statements that raise

ASSUME ScanRunsAssumption ==
  /\ Home \in [Scanner -> Worker]
  /\ Worker \cap Scanner = {} /\ IsFiniteSet(Scanner)
  /\ Nobody \notin Worker \cup Scanner \cup Connection \cup RunId
  /\ Dead \notin Worker \cup Scanner \cup {Nobody}
  /\ MaxCrashes \in Nat /\ MaxDrops \in Nat /\ MaxFaults \in Nat

VARIABLES
  connections,  \* rows of table connections (each with its schedules row)
  lock,         \* connection -> session holding its advisory scan lock
  runConn,      \* scan_runs.connection_id
  runStatus,    \* scan_runs.status; "none": not inserted, "deleted": row deleted
  snapshots,    \* runs whose snapshot row exists
  lastStatus,   \* schedules.last_status; Nobody when never set
  up,           \* workers that are running
  pc, conn, run, outcome,  \* the scanner's position and the locals of run_scan
  phase, todo, at,         \* the sweep of reconcile_interrupted_runs, per worker
  crashes, drops, faults   \* how much of each bound is used

rows   == <<connections, runConn, runStatus, snapshots, lastStatus>>
locals == <<conn, run, outcome>>
sweep  == <<phase, todo, at>>
used   == <<crashes, drops, faults>>
vars   == <<rows, lock, up, pc, locals, sweep, used>>

Status == {"none", "running", "ok", "error", "skipped", "deleted"}
Final  == {"ok", "error", "skipped"}

\* Positions in _run_scan_locked at which this scan's own row is open ...
RowOpen == {"collect", "save", "findings", "changes", "finish", "fail"}
\* ... and all positions inside `with db.try_advisory_lock(...)`.
InLock  == RowOpen \cup {"locked", "note", "release"}
Outside == {"idle", "open", "refused", "unreadable", "noteSkip"}

TypeOK ==
  /\ connections \subseteq Connection
  /\ lock \in [Connection -> Scanner \cup Worker \cup {Nobody, Dead}]
  /\ runConn \in [RunId -> Connection \cup {Nobody}]
  /\ runStatus \in [RunId -> Status]
  /\ snapshots \subseteq RunId
  /\ lastStatus \in [Connection -> {Nobody} \cup Final]
  /\ up \subseteq Worker
  /\ pc \in [Scanner -> InLock \cup Outside]
  /\ conn \in [Scanner -> Connection \cup {Nobody}]
  /\ run \in [Scanner -> RunId \cup {Nobody}]
  /\ outcome \in [Scanner -> {Nobody} \cup Final]
  /\ phase \in [Worker -> {"idle", "locked", "marked"}]
  /\ todo \in [Worker -> SUBSET Connection]
  /\ at \in [Worker -> Connection \cup {Nobody}]
  /\ crashes \in Nat /\ drops \in Nat /\ faults \in Nat

Init ==
  /\ connections = Connection
  /\ lock = [c \in Connection |-> Nobody]
  /\ runConn = [r \in RunId |-> Nobody]
  /\ runStatus = [r \in RunId |-> "none"]
  /\ snapshots = {}
  /\ lastStatus = [c \in Connection |-> Nobody]
  /\ up = Worker
  /\ pc = [s \in Scanner |-> "idle"]
  /\ conn = [s \in Scanner |-> Nobody]
  /\ run = [s \in Scanner |-> Nobody]
  /\ outcome = [s \in Scanner |-> Nobody]
  /\ phase = [w \in Worker |-> "idle"]
  /\ todo = [w \in Worker |-> {}]
  /\ at = [w \in Worker |-> Nobody]
  /\ crashes = 0 /\ drops = 0 /\ faults = 0

Goto(s, p) == pc' = [pc EXCEPT ![s] = p]

\* run_scan returns, or an exception leaves it: its locals are gone.
Return(s) ==
  /\ Goto(s, "idle")
  /\ conn' = [conn EXCEPT ![s] = Nobody]
  /\ run' = [run EXCEPT ![s] = Nobody]
  /\ outcome' = [outcome EXCEPT ![s] = Nobody]

\* UPDATE scan_runs SET status = ... WHERE id = ...: no row, no effect.
UpdateRun(r, status) ==
  runStatus' = [runStatus EXCEPT ![r] =
                  IF @ \in {"none", "deleted"} THEN @ ELSE status]

\* Closing the lock connection ends its session, and with it a lock still held.
Unlocked(c, holder) ==
  [lock EXCEPT ![c] = IF @ = holder THEN Nobody ELSE @]

Fresh == {r \in RunId : runStatus[r] = "none" /\ \A s \in Scanner : run[s] # r}

-----------------------------------------------------------------------------
(* run_scan, before and around the lock *)

\* A scheduled job, POST /scan or POST /snapshots calls run_scan.  A deleted
\* connection raises KeyError here and changes no row.  The id new_id() will
\* return is fixed now, so that a scan under way always has one.
RunScan(s, c, r) ==
  /\ pc[s] = "idle" /\ Home[s] \in up
  /\ c \in connections /\ r \in Fresh
  /\ \E next \in {"open", "unreadable"} : Goto(s, next)
  /\ conn' = [conn EXCEPT ![s] = c]
  /\ run' = [run EXCEPT ![s] = r]
  /\ UNCHANGED <<rows, lock, up, outcome, sweep, used>>

\* (mutant) the early return on `not acquired` is missing
TryWithoutReturn(s) ==
  /\ pc[s] = "open"
  /\ lock' = [lock EXCEPT ![conn[s]] = IF @ = Nobody THEN s ELSE @]
  /\ Goto(s, "locked")
  /\ UNCHANGED <<rows, up, locals, sweep, used>>

TryAdvisoryLock(s) ==
  /\ pc[s] = "open"
  /\ \/ /\ lock[conn[s]] = Nobody
        /\ lock' = [lock EXCEPT ![conn[s]] = s]
        /\ Goto(s, "locked")
     \/ /\ lock[conn[s]] # Nobody
        /\ Goto(s, "refused")
        /\ UNCHANGED lock
  /\ UNCHANGED <<rows, up, locals, sweep, used>>

\* Both early returns: insert a run that is 'skipped' from the start.
CreateSkipped(s) ==
  /\ pc[s] \in {"refused", "unreadable"}
  /\ runConn' = [runConn EXCEPT ![run[s]] = conn[s]]
  /\ runStatus' = [runStatus EXCEPT ![run[s]] = "skipped"]
  /\ outcome' = [outcome EXCEPT ![s] = "skipped"]
  /\ Goto(s, "noteSkip")
  /\ UNCHANGED <<connections, snapshots, lastStatus, lock, up, conn, run, sweep, used>>

\* (mutant) the schedule row is upserted
UpsertStatus(s) == lastStatus' = [lastStatus EXCEPT ![conn[s]] = outcome[s]]

\* update_schedule writes no row once the connection is deleted.
WriteStatus(s) ==
  lastStatus' = IF conn[s] \in connections
                  THEN [lastStatus EXCEPT ![conn[s]] = outcome[s]]
                  ELSE lastStatus

NoteSkipped(s) ==
  /\ pc[s] = "noteSkip"
  /\ WriteStatus(s)
  /\ Return(s)
  /\ UNCHANGED <<connections, runConn, runStatus, snapshots, lock, up, sweep, used>>

-----------------------------------------------------------------------------
(* _run_scan_locked *)

CreateRun(s) ==
  /\ pc[s] = "locked"
  /\ runConn' = [runConn EXCEPT ![run[s]] = conn[s]]
  /\ runStatus' = [runStatus EXCEPT ![run[s]] = "running"]
  /\ Goto(s, "collect")
  /\ UNCHANGED <<connections, snapshots, lastStatus, lock, up, locals, sweep, used>>

\* The collector and the diff run for minutes and change no row; either may raise.
Collect(s) ==
  /\ pc[s] = "collect"
  /\ \E next \in {"save", "fail"} : Goto(s, next)
  /\ UNCHANGED <<rows, lock, up, locals, sweep, used>>

\* snapshots has no foreign key: the row is stored even for a deleted connection.
SaveSnapshot(s) ==
  /\ pc[s] = "save"
  /\ snapshots' = snapshots \cup {run[s]}
  /\ Goto(s, "findings")
  /\ UNCHANGED <<connections, runConn, runStatus, lastStatus, lock, up, locals, sweep, used>>

\* findings references snapshots: a snapshot deleted meanwhile makes this raise.
SaveFindings(s) ==
  /\ pc[s] = "findings"
  /\ Goto(s, IF run[s] \in snapshots THEN "changes" ELSE "fail")
  /\ UNCHANGED <<rows, lock, up, locals, sweep, used>>

\* Event capture, the change log and retention: module ChangeLog.
SaveChanges(s) ==
  /\ pc[s] = "changes"
  /\ Goto(s, "finish")
  /\ UNCHANGED <<rows, lock, up, locals, sweep, used>>

FinishRun(s) ==
  /\ \/ pc[s] = "finish" /\ outcome' = [outcome EXCEPT ![s] = "ok"]
     \/ pc[s] = "fail" /\ outcome' = [outcome EXCEPT ![s] = "error"]
  /\ UpdateRun(run[s], outcome'[s])
  /\ Goto(s, "note")
  /\ UNCHANGED <<connections, runConn, snapshots, lastStatus, lock, up, conn, run, sweep, used>>

NoteFinished(s) ==
  /\ pc[s] = "note"
  /\ WriteStatus(s)
  /\ Goto(s, "release")
  /\ UNCHANGED <<connections, runConn, runStatus, snapshots, lock, up, locals, sweep, used>>

Release(s) ==
  /\ pc[s] = "release"
  /\ lock' = Unlocked(conn[s], s)
  /\ Return(s)
  /\ UNCHANGED <<rows, up, sweep, used>>

\* A database statement raises: inside the try block the scan ends as an error,
\* anywhere else the exception leaves run_scan (through the lock's finally).
StatementRaises(s) ==
  /\ faults < MaxFaults
  /\ faults' = faults + 1
  /\ \/ /\ pc[s] \in RowOpen \ {"fail"}
        /\ Goto(s, "fail") /\ UNCHANGED locals
     \/ /\ pc[s] \in {"locked", "fail", "note"}
        /\ Goto(s, "release") /\ UNCHANGED locals
     \/ /\ pc[s] \in Outside \ {"idle"}
        /\ Return(s)
  /\ UNCHANGED <<rows, lock, up, sweep, crashes, drops>>

\* A statement commits, but its answer, or the get_run that reads the row back,
\* raises.  Elsewhere this is the statement followed by a fault at the next one;
\* here it is not: create_run is outside the try block, and the handler of
\* finish_run(..., "ok") closes the run a second time.
AnswerLost(s) ==
  /\ faults < MaxFaults
  /\ faults' = faults + 1
  /\ \/ /\ pc[s] = "locked"
        /\ runConn' = [runConn EXCEPT ![run[s]] = conn[s]]
        /\ runStatus' = [runStatus EXCEPT ![run[s]] = "running"]
        /\ Goto(s, "release")
     \/ /\ pc[s] = "finish"
        /\ UpdateRun(run[s], "ok")
        /\ Goto(s, "fail")
        /\ UNCHANGED runConn
  /\ UNCHANGED <<connections, snapshots, lastStatus, lock, up, locals, sweep, crashes, drops>>

-----------------------------------------------------------------------------
(* reconcile_interrupted_runs: at startup on every worker, then on the leader *)

Running(c) == {r \in RunId : runStatus[r] = "running" /\ runConn[r] = c}

\* (mutant) visits the connections on record instead of those of the rows
SelectListed(w) ==
  /\ w \in up /\ phase[w] = "idle" /\ todo[w] = {}
  /\ todo' = [todo EXCEPT ![w] = {c \in connections : Running(c) # {}}]
  /\ todo'[w] # {}
  /\ UNCHANGED <<rows, lock, up, pc, locals, phase, at, used>>

SelectStuck(w) ==
  /\ w \in up /\ phase[w] = "idle" /\ todo[w] = {}
  /\ todo' = [todo EXCEPT ![w] = {c \in Connection : Running(c) # {}}]
  /\ todo'[w] # {}
  /\ UNCHANGED <<rows, lock, up, pc, locals, phase, at, used>>

\* (mutant) the `if not idle: continue` is missing
TryBusy(w, c) ==
  /\ phase[w] = "idle" /\ c \in todo[w]
  /\ lock' = [lock EXCEPT ![c] = IF @ = Nobody THEN w ELSE @]
  /\ phase' = [phase EXCEPT ![w] = "locked"]
  /\ at' = [at EXCEPT ![w] = c]
  /\ UNCHANGED <<rows, up, pc, locals, todo, used>>

TryIdle(w, c) ==
  /\ phase[w] = "idle" /\ c \in todo[w]
  /\ \/ /\ lock[c] = Nobody
        /\ lock' = [lock EXCEPT ![c] = w]
        /\ phase' = [phase EXCEPT ![w] = "locked"]
        /\ at' = [at EXCEPT ![w] = c]
        /\ UNCHANGED todo
     \/ /\ lock[c] # Nobody
        /\ todo' = [todo EXCEPT ![w] = @ \ {c}]
        /\ UNCHANGED <<lock, phase, at>>
  /\ UNCHANGED <<rows, up, pc, locals, used>>

MarkInterrupted(w) ==
  /\ phase[w] = "locked"
  /\ runStatus' = [r \in RunId |-> IF r \in Running(at[w]) THEN "error" ELSE runStatus[r]]
  /\ phase' = [phase EXCEPT ![w] = "marked"]
  /\ UNCHANGED <<connections, runConn, snapshots, lastStatus, lock, up, pc, locals, todo, at, used>>

\* (mutant) the lock's session is not closed on the way out
LeaveSessionOpen(w, left) ==
  /\ phase' = [phase EXCEPT ![w] = "idle"]
  /\ todo' = [todo EXCEPT ![w] = left]
  /\ at' = [at EXCEPT ![w] = Nobody]
  /\ UNCHANGED lock

\* The sweep leaves the block of try_advisory_lock and goes on with `left`.
LeaveLock(w, left) ==
  /\ lock' = IF at[w] = Nobody THEN lock ELSE Unlocked(at[w], w)
  /\ phase' = [phase EXCEPT ![w] = "idle"]
  /\ todo' = [todo EXCEPT ![w] = left]
  /\ at' = [at EXCEPT ![w] = Nobody]

EndVisit(w) ==
  /\ phase[w] = "marked"
  /\ LeaveLock(w, todo[w] \ {at[w]})
  /\ UNCHANGED <<rows, up, pc, locals, used>>

\* An exception ends the whole sweep; the maintenance job starts over later.
SweepRaises(w) ==
  /\ faults < MaxFaults /\ faults' = faults + 1
  /\ todo[w] # {}
  /\ LeaveLock(w, {})
  /\ UNCHANGED <<rows, up, pc, locals, crashes, drops>>

-----------------------------------------------------------------------------
(* Other requests, and the environment *)

\* One transaction; scan_runs and snapshots go with the connection.
DeleteConnection(c) ==
  /\ c \in connections
  /\ connections' = connections \ {c}
  /\ runStatus' = [r \in RunId |-> IF runConn[r] = c THEN "deleted" ELSE runStatus[r]]
  /\ snapshots' = {r \in snapshots : runConn[r] # c}
  /\ lastStatus' = [lastStatus EXCEPT ![c] = Nobody]
  /\ UNCHANGED <<runConn, lock, up, pc, locals, sweep, used>>

\* DELETE /snapshots/{id}.
DeleteSnapshot(r) ==
  /\ r \in snapshots
  /\ snapshots' = snapshots \ {r}
  /\ UNCHANGED <<connections, runConn, runStatus, lastStatus, lock, up, pc, locals, sweep, used>>

\* A worker is killed.  The server still has to notice that its sessions are gone.
Crash(w) ==
  /\ w \in up /\ crashes < MaxCrashes
  /\ up' = up \ {w}
  /\ lock' = [c \in Connection |->
                IF lock[c] = w \/ \E s \in Scanner : lock[c] = s /\ Home[s] = w
                  THEN Dead ELSE lock[c]]
  /\ pc' = [s \in Scanner |-> IF Home[s] = w THEN "idle" ELSE pc[s]]
  /\ conn' = [s \in Scanner |-> IF Home[s] = w THEN Nobody ELSE conn[s]]
  /\ run' = [s \in Scanner |-> IF Home[s] = w THEN Nobody ELSE run[s]]
  /\ outcome' = [s \in Scanner |-> IF Home[s] = w THEN Nobody ELSE outcome[s]]
  /\ phase' = [phase EXCEPT ![w] = "idle"]
  /\ todo' = [todo EXCEPT ![w] = {}]
  /\ at' = [at EXCEPT ![w] = Nobody]
  /\ crashes' = crashes + 1
  /\ UNCHANGED <<rows, drops, faults>>

Restart(w) ==
  /\ w \notin up
  /\ up' = up \cup {w}
  /\ UNCHANGED <<rows, lock, pc, locals, sweep, used>>

ReapSession(c) ==
  /\ lock[c] = Dead
  /\ lock' = [lock EXCEPT ![c] = Nobody]
  /\ UNCHANGED <<rows, up, pc, locals, sweep, used>>

\* A restarted or failed-over database ends every session.  The threads that
\* held a lock keep running: the pool gives them new connections.
DropSessions ==
  /\ drops < MaxDrops
  /\ lock' = [c \in Connection |-> Nobody]
  /\ drops' = drops + 1
  /\ UNCHANGED <<rows, up, pc, locals, sweep, crashes, faults>>

-----------------------------------------------------------------------------
ScanStep(s) ==
  \/ TryAdvisoryLock(s) \/ CreateSkipped(s) \/ NoteSkipped(s)
  \/ CreateRun(s) \/ Collect(s) \/ SaveSnapshot(s) \/ SaveFindings(s)
  \/ SaveChanges(s) \/ FinishRun(s) \/ NoteFinished(s) \/ Release(s)

SweepStep(w) == (\E c \in Connection : TryIdle(w, c)) \/ MarkInterrupted(w) \/ EndVisit(w)

Next ==
  \/ \E s \in Scanner, c \in Connection, r \in RunId : RunScan(s, c, r)
  \/ \E s \in Scanner : ScanStep(s) \/ StatementRaises(s) \/ AnswerLost(s)
  \/ \E w \in Worker : SelectStuck(w) \/ SweepStep(w) \/ SweepRaises(w)
  \/ \E c \in Connection : DeleteConnection(c) \/ ReapSession(c)
  \/ \E r \in RunId : DeleteSnapshot(r)
  \/ \E w \in Worker : Crash(w) \/ Restart(w)
  \/ DropSessions

Spec == Init /\ [][Next]_vars

\* A scan thread and a sweep under way go on; the maintenance job of some worker
\* (the leader's, once a minute) keeps looking for stuck runs; a killed worker is
\* restarted by its supervisor; the server ends the sessions of dead clients.
Fairness ==
  /\ \A s \in Scanner : WF_vars(ScanStep(s))
  /\ \A w \in Worker : WF_vars(SweepStep(w)) /\ WF_vars(Restart(w))
  /\ WF_vars(\E w \in Worker : SelectStuck(w))
  /\ \A c \in Connection : WF_vars(ReapSession(c))

FairSpec == Spec /\ Fairness

-----------------------------------------------------------------------------
(* What the pipeline promises *)

Scanning(s) == pc[s] \in InLock

\* "One scan of a connection at a time is enforced by a PostgreSQL advisory lock":
\* two threads, on whatever workers, are never inside the lock for one connection.
OneScanAtATime ==
  \A s, t \in Scanner : s # t /\ Scanning(s) /\ Scanning(t) => conn[s] # conn[t]

\* "A scan in flight holds its connection's scan lock; a row whose connection lock
\* is free belongs to a process that is gone": no sweep ever closes the row of a
\* scan that is still running.  (It may have been deleted with its connection, or
\* already be ok when only the answer to finish_run was lost.)
LiveRunIsRunning ==
  \A s \in Scanner : pc[s] \in RowOpen =>
     runStatus[run[s]] \in {"running", "deleted"} \cup (IF pc[s] = "fail" THEN {"ok"} ELSE {})

\* The scan that closed run r as ok is in its exception handler.
Reclosing(r) == runStatus[r] = "ok" /\ \E s \in Scanner : pc[s] = "fail" /\ run[s] = r

\* Scan history is not rewritten: once a run is ok, error or skipped, no late
\* finish_run of another scan and no sweep gives it another status.  Only the scan
\* that wrote ok may turn it into an error, while it still holds the lock.
TerminalStatusIsFinal ==
  [][\A r \in RunId : runStatus[r] \in Final =>
       runStatus'[r] \in {runStatus[r], "deleted"} \cup (IF Reclosing(r) THEN {"error"} ELSE {})]_vars

\* The schedule never shows a status that no run of the connection's history has,
\* although the two rows are written by separate transactions.
LastStatusBacked ==
  \A c \in Connection : lastStatus[c] # Nobody =>
     /\ c \in connections
     /\ \E r \in RunId : runConn[r] = c /\ runStatus[r] = lastStatus[c]

\* Every run left in 'running' by a crash, a lost statement or a deletion race is
\* eventually closed.
RunsEnd == \A r \in RunId : runStatus[r] = "running" ~> runStatus[r] # "running"

\* The scan lock of a connection always comes free again, so no connection is
\* skipped for ever; also when its holder is killed.
LocksComeFree == \A c \in Connection : lock[c] # Nobody ~> lock[c] = Nobody

\* "a deleted connection leaves nothing behind": once no scan of it is in flight,
\* a deleted connection has no snapshots.
DeletedLeavesNoSnapshots ==
  \A c \in Connection \ connections :
     (\A s \in Scanner : conn[s] # c) => \A r \in snapshots : runConn[r] # c

\* A database restart lets a scan outlive its lock.  Each restart adds at most one
\* overlapping scan per connection; the lock still keeps everything else apart.
OverlapBounded ==
  \A c \in Connection :
     Cardinality({s \in Scanner : Scanning(s) /\ conn[s] = c}) <= 1 + drops

-----------------------------------------------------------------------------
(* The inductive invariant behind the safety properties *)

\* A scan under way has a connection and a run id of its own, and an id whose row
\* is not inserted yet is recorded for no connection.
Frames ==
  /\ \A s \in Scanner : pc[s] # "idle" => conn[s] \in Connection /\ run[s] \in RunId
  /\ \A s, t \in Scanner : s # t /\ run[s] # Nobody => run[s] # run[t]
  /\ \A s \in Scanner : pc[s] \in {"open", "refused", "unreadable", "locked"}
                           => runStatus[run[s]] = "none"
  /\ \A s \in Scanner : pc[s] \in RowOpen => runConn[run[s]] = conn[s]
  /\ \A r \in RunId : runStatus[r] = "none" => runConn[r] = Nobody
  /\ \A w \in Worker : phase[w] # "idle" => at[w] \in Connection
  /\ drops <= MaxDrops

\* While no session was lost: whoever is inside the block holds the lock.
Held ==
  /\ \A s \in Scanner : Scanning(s) => lock[conn[s]] = s
  /\ \A w \in Worker : phase[w] # "idle" => lock[at[w]] = w
  /\ LiveRunIsRunning

ScanRunsInv == TypeOK /\ Frames /\ (drops = 0 => Held)

\* A run that nobody will write to again has the status the schedule shows, and a scan
\* about to write a status there has given it to its run.
Backs(r, c) ==
  /\ runConn[r] = c /\ runStatus[r] = lastStatus[c]
  /\ \A s \in Scanner : run[s] = r => pc[s] = "release"

PendingBacked ==
  \A s \in Scanner : conn[s] \in connections =>
    /\ pc[s] \in {"note", "noteSkip"} =>
         runConn[run[s]] = conn[s] /\ runStatus[run[s]] = outcome[s] /\ outcome[s] \in Final
    /\ pc[s] \in RowOpen => runStatus[run[s]] \notin {"none", "deleted"}

StatusesBacked ==
  /\ PendingBacked
  /\ \A c \in Connection : lastStatus[c] # Nobody => c \in connections /\ \E r \in RunId : Backs(r, c)

\* The scans of a connection that go on without its lock.
Orphans(c) == {s \in Scanner : Scanning(s) /\ conn[s] = c /\ lock[c] # s}
OrphansCounted == \A c \in Connection : Cardinality(Orphans(c)) <= drops

-----------------------------------------------------------------------------
(* Refinement *)

\* The run a scan of c is filling, for the abstract history.
ActiveRun(c) ==
  IF \E s \in Scanner : pc[s] \in RowOpen /\ conn[s] = c
    THEN run[CHOOSE s \in Scanner : pc[s] \in RowOpen /\ conn[s] = c]
    ELSE Nobody

History == INSTANCE ScanHistory WITH
  active <- [c \in Connection |-> ActiveRun(c)], owner <- runConn, status <- runStatus

\* The pipeline implements the abstract scan history.
ImplementsScanHistory == History!Spec

=============================================================================
