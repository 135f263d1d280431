--------------------------- MODULE SchedulerJobs ---------------------------
(***************************************************************************)
(* Which worker runs scheduled scans, and whether its jobs are the stored  *)
(* schedules (backend/app/scheduler.py and the scheduler lock of db.py).   *)
(*                                                                         *)
(* Every worker serves the API.  The maintenance thread of each worker     *)
(* that schedules runs take_leadership again and again; the worker that    *)
(* holds the scheduler advisory lock is the leader and keeps one           *)
(* APScheduler job per enabled schedule.  reschedule() and remove_job()    *)
(* are called by that thread and, in the same process, by the threads that *)
(* serve requests and fire jobs: without a lock, so that their statements  *)
(* interleave.                                                             *)
(***************************************************************************)
EXTENDS Naturals, FiniteSets

CONSTANTS
  Worker,       \* worker processes
  SchedulerOn,  \* workers whose VCF_DOCTOR_SCHEDULER is not off
  Caller,       \* threads of a worker that serve requests or fire jobs
  Connection,   \* connection ids, created or yet to be created
  Interval,     \* values of interval_minutes, at least min_interval_minutes
  Nobody, Dead, \* lock free; lock still held by the session of a killed process
  MaxEdits, MaxDrops, MaxCrashes, MaxFaults   \* bounds on what the environment does

ASSUME SchedulerJobsAssumption ==
  /\ SchedulerOn \subseteq Worker /\ "maintenance" \notin Caller
  /\ Interval \cap {"paused", "absent", "gone", "none"} = {}
  /\ {Nobody, Dead} \cap Worker = {} /\ Nobody # Dead /\ Nobody \notin Connection
  /\ MaxEdits \in Nat /\ MaxDrops \in Nat /\ MaxCrashes \in Nat /\ MaxFaults \in Nat

VARIABLES
  sched,    \* schedules row: an interval, "paused", "absent" (not created), "gone" (deleted)
  owner,    \* the worker whose database session holds the scheduler lock
  session,  \* db._leader of each worker is an open connection
  leader,   \* scheduler._leader of each worker
  state,    \* scheduler._scheduled_state: what the leader believes it has jobs for
  job,      \* the APScheduler job of each connection: its interval or "none"
  up,       \* workers that are running
  mpc, wanted, todo,        \* take_leadership, _drop_scan_jobs and reconcile_jobs
  rpc, rconn, seen, back,   \* reschedule and remove_job per thread; what follows the latter
  edits, drops, crashes, faults,
  crossed   \* history, read by no guard: <<w, c>> when calls of w about c have overlapped
            \* one another or the end of its leadership, or were broken off, since
            \* the last call that had c to itself

sessions == <<owner, session, leader>>
tables   == <<state, job>>
pass     == <<mpc, wanted, todo>>
calls    == <<rpc, rconn, seen, back>>
used     == <<edits, drops, crashes, faults>>
vars     == <<sched, sessions, tables, up, pass, calls, used, crossed>>

Setting == Interval \cup {"paused"}
Thread  == ({"maintenance"} \cup Caller) \X Worker
Maintenance(w) == <<"maintenance", w>>

TypeOK ==
  /\ sched \in [Connection -> Setting \cup {"absent", "gone"}]
  /\ owner \in Worker \cup {Nobody, Dead}
  /\ session \in [Worker -> BOOLEAN] /\ leader \in [Worker -> BOOLEAN]
  /\ state \in [Worker -> [Connection -> Setting \cup {"absent"}]]
  /\ job \in [Worker -> [Connection -> Interval \cup {"none"}]]
  /\ up \subseteq Worker
  /\ mpc \in [Worker -> {"idle", "dropping", "list", "read", "forget", "apply"}]
  /\ wanted \in [Worker -> [Connection -> Setting \cup {"absent"}]]
  /\ todo \in [Worker -> SUBSET Connection]
  /\ rpc \in [Thread -> {"idle", "guard", "look", "take", "record", "add", "pop", "delete"}]
  /\ rconn \in [Thread -> Connection \cup {Nobody}]
  /\ seen \in [Thread -> Setting \cup {"absent"}]
  /\ back \in [Thread -> {"idle", "record", "pop", "delete"}]
  /\ edits \in Nat /\ drops \in Nat /\ crashes \in Nat /\ faults \in Nat
  /\ crossed \subseteq Worker \X Connection

NoneWanted == [c \in Connection |-> "absent"]
NoJobs     == [c \in Connection |-> "none"]

Init ==
  /\ sched \in [Connection -> Setting \cup {"absent"}]
  /\ owner = Nobody
  /\ session = [w \in Worker |-> FALSE] /\ leader = [w \in Worker |-> FALSE]
  /\ state = [w \in Worker |-> NoneWanted]
  /\ job = [w \in Worker |-> NoJobs]
  /\ up = Worker
  /\ mpc = [w \in Worker |-> "idle"]
  /\ wanted = [w \in Worker |-> NoneWanted]
  /\ todo = [w \in Worker |-> {}]
  /\ rpc = [t \in Thread |-> "idle"]
  /\ rconn = [t \in Thread |-> Nobody]
  /\ seen = [t \in Thread |-> "absent"]
  /\ back = [t \in Thread |-> "idle"]
  /\ edits = 0 /\ drops = 0 /\ crashes = 0 /\ faults = 0
  /\ crossed = {}

Goto(w, p) == mpc' = [mpc EXCEPT ![w] = p]

\* The pass of w is over, and its local variables with it.
Finish(w) ==
  /\ Goto(w, "idle")
  /\ wanted' = [wanted EXCEPT ![w] = NoneWanted]
  /\ todo' = [todo EXCEPT ![w] = {}]

\* What get_schedule finds: a missing row counts as a paused schedule.
Found(c) == IF sched[c] \in Setting THEN sched[c] ELSE "paused"

-----------------------------------------------------------------------------
(* The history of overlaps *)

\* The threads of w that are past the guard of reschedule, or in remove_job, for c.
Busy(w, c) == {t \in Thread : t[2] = w /\ rconn[t] = c /\ rpc[t] \notin {"idle", "guard"}}

\* A call of w about c begins: one that overlaps another is marked; one that has c
\* to itself and puts the job and the record right (heals) takes the mark away.
Enters(w, c, heals) ==
  crossed' = IF Busy(w, c) # {} THEN crossed \cup {<<w, c>>}
             ELSE IF heals THEN crossed \ {<<w, c>>} ELSE crossed

-----------------------------------------------------------------------------
(* The statements of a call *)

\* Thread t begins a call about c: at p, with b to follow remove_job.
Call(t, c, p, b) ==
  /\ rpc' = [rpc EXCEPT ![t] = p]
  /\ rconn' = [rconn EXCEPT ![t] = c]
  /\ back' = [back EXCEPT ![t] = b]
  /\ UNCHANGED seen

\* The call of thread t is over.
Return(t) ==
  /\ rpc' = [rpc EXCEPT ![t] = "idle"]
  /\ rconn' = [rconn EXCEPT ![t] = Nobody]
  /\ seen' = [seen EXCEPT ![t] = "absent"]
  /\ back' = [back EXCEPT ![t] = "idle"]

\* remove_job of thread t is over: its caller goes on.
Proceed(t) ==
  IF back[t] = "idle" THEN Return(t)
  ELSE rpc' = [rpc EXCEPT ![t] = back[t]] /\ UNCHANGED <<rconn, seen, back>>

-----------------------------------------------------------------------------
(* take_leadership *)

\* A reschedule under way when _leader is set back goes on to record and to add.
Rescheduling(w) == {<<w, rconn[t]>> : t \in {u \in Thread : u[2] = w /\ seen[u] # "absent"}}

\* The check that the lock is still held.  If it is not, _leader is set back and
\* the loop of _drop_scan_jobs is about to begin over the connections on record.
Check(w) ==
  /\ w \in up \cap SchedulerOn /\ mpc[w] = "idle"
  /\ \/ /\ leader[w] /\ session[w] /\ owner = w
        /\ Goto(w, "list")
        /\ UNCHANGED <<session, leader, todo, crossed>>
     \/ /\ leader[w] /\ ~ (session[w] /\ owner = w)
        /\ session' = [session EXCEPT ![w] = FALSE]
        /\ leader' = [leader EXCEPT ![w] = FALSE]
        /\ todo' = [todo EXCEPT ![w] = {c \in Connection : state[w][c] # "absent"}]
        /\ crossed' = crossed \cup Rescheduling(w)
        /\ Goto(w, "dropping")
  /\ UNCHANGED <<sched, owner, tables, up, wanted, calls, used>>

\* (mutant) a connection that was deleted since is skipped
DropStored(w, c) ==
  /\ mpc[w] = "dropping" /\ rpc[Maintenance(w)] = "idle" /\ c \in todo[w]
  /\ todo' = [todo EXCEPT ![w] = @ \ {c}]
  /\ IF sched[c] \in Setting
       THEN Call(Maintenance(w), c, "look", "idle") /\ Enters(w, c, TRUE)
       ELSE UNCHANGED <<calls, crossed>>
  /\ UNCHANGED <<sched, sessions, tables, up, mpc, wanted, used>>

\* _drop_scan_jobs: remove_job for one connection after the other ...
DropScanJob(w, c) ==
  /\ mpc[w] = "dropping" /\ rpc[Maintenance(w)] = "idle" /\ c \in todo[w]
  /\ todo' = [todo EXCEPT ![w] = @ \ {c}]
  /\ Call(Maintenance(w), c, "look", "idle")
  /\ Enters(w, c, TRUE)
  /\ UNCHANGED <<sched, sessions, tables, up, mpc, wanted, used>>

\* ... then the record is cleared.
ClearScheduledState(w) ==
  /\ mpc[w] = "dropping" /\ rpc[Maintenance(w)] = "idle" /\ todo[w] = {}
  /\ state' = [state EXCEPT ![w] = NoneWanted]
  /\ Goto(w, "idle")
  /\ UNCHANGED <<sched, sessions, job, up, wanted, todo, calls, used, crossed>>

\* A worker that does not lead tries the lock, and lists the connections if it got it.
Acquire(w) ==
  /\ w \in up \cap SchedulerOn /\ mpc[w] = "idle" /\ ~ leader[w]
  /\ \/ /\ owner = Nobody
        /\ owner' = w
        /\ session' = [session EXCEPT ![w] = TRUE]
        /\ leader' = [leader EXCEPT ![w] = TRUE]
        /\ state' = [state EXCEPT ![w] = NoneWanted]
        /\ Goto(w, "list")
     \/ /\ owner # Nobody
        /\ UNCHANGED <<sessions, state, mpc>>
  /\ UNCHANGED <<sched, job, up, wanted, todo, calls, used, crossed>>

-----------------------------------------------------------------------------
(* reconcile_jobs *)

\* list_connections ...
ListConnections(w) ==
  /\ mpc[w] = "list"
  /\ todo' = [todo EXCEPT ![w] = {c \in Connection : sched[c] \in Setting}]
  /\ Goto(w, "read")
  /\ UNCHANGED <<sched, sessions, tables, up, wanted, calls, used, crossed>>

\* ... and a query for the schedule of each.
ReadWanted(w, c) ==
  /\ mpc[w] = "read" /\ c \in todo[w]
  /\ todo' = [todo EXCEPT ![w] = @ \ {c}]
  /\ wanted' = [wanted EXCEPT ![w][c] = Found(c)]
  /\ UNCHANGED <<sched, sessions, tables, up, mpc, calls, used, crossed>>

\* The connections on record that are gone are forgotten: remove_job and, after it,
\* the record.
ToForget(w) ==
  /\ mpc[w] = "read" /\ todo[w] = {}
  /\ todo' = [todo EXCEPT ![w] =
                 {c \in Connection : state[w][c] # "absent" /\ wanted[w][c] = "absent"}]
  /\ Goto(w, "forget")
  /\ UNCHANGED <<sched, sessions, tables, up, wanted, calls, used, crossed>>

Forget(w, c) ==
  /\ mpc[w] = "forget" /\ rpc[Maintenance(w)] = "idle" /\ c \in todo[w]
  /\ todo' = [todo EXCEPT ![w] = @ \ {c}]
  /\ Call(Maintenance(w), c, "look", "pop")
  /\ Enters(w, c, TRUE)
  /\ UNCHANGED <<sched, sessions, tables, up, mpc, wanted, used>>

PopState(t) ==
  /\ rpc[t] = "pop"
  /\ state' = [state EXCEPT ![t[2]][rconn[t]] = "absent"]
  /\ Return(t)
  /\ UNCHANGED <<sched, sessions, job, up, pass, used, crossed>>

ToApply(w) ==
  /\ mpc[w] = "forget" /\ rpc[Maintenance(w)] = "idle" /\ todo[w] = {}
  /\ todo' = [todo EXCEPT ![w] = {c \in Connection : wanted[w][c] # "absent"}]
  /\ Goto(w, "apply")
  /\ UNCHANGED <<sched, sessions, tables, up, wanted, calls, used, crossed>>

\* (mutant) only connections without a record are rescheduled
VisitUnknown(w, c) ==
  /\ mpc[w] = "apply" /\ rpc[Maintenance(w)] = "idle" /\ c \in todo[w]
  /\ todo' = [todo EXCEPT ![w] = @ \ {c}]
  /\ IF state[w][c] = "absent" THEN Call(Maintenance(w), c, "guard", "record")
                               ELSE UNCHANGED calls
  /\ UNCHANGED <<sched, sessions, tables, up, mpc, wanted, used, crossed>>

\* A connection whose schedule differs from the record is rescheduled.
Visit(w, c) ==
  /\ mpc[w] = "apply" /\ rpc[Maintenance(w)] = "idle" /\ c \in todo[w]
  /\ todo' = [todo EXCEPT ![w] = @ \ {c}]
  /\ \/ wanted[w][c] # state[w][c] /\ Call(Maintenance(w), c, "guard", "record")
     \/ wanted[w][c] = state[w][c] /\ UNCHANGED calls
  /\ UNCHANGED <<sched, sessions, tables, up, mpc, wanted, used, crossed>>

EndPass(w) ==
  /\ mpc[w] = "apply" /\ rpc[Maintenance(w)] = "idle" /\ todo[w] = {}
  /\ Finish(w)
  /\ UNCHANGED <<sched, sessions, tables, up, calls, used, crossed>>

\* A database error ends this pass; _leadership_job logs it and waits.  (With no
\* call under way, "apply" also stands for the statement that stores next_run.)
PassRaises(w) ==
  /\ faults < MaxFaults /\ faults' = faults + 1
  /\ mpc[w] \in {"list", "read", "apply"}
  /\ rpc[Maintenance(w)] \in {"idle", "guard"}
  /\ Finish(w)
  /\ Return(Maintenance(w))
  /\ UNCHANGED <<sched, sessions, tables, up, edits, drops, crashes, crossed>>

-----------------------------------------------------------------------------
(* reschedule(connection_id) and remove_job(connection_id) *)

ReadSchedule(t) ==
  /\ rpc[t] = "guard"
  /\ \/ /\ leader[t[2]]
        /\ seen' = [seen EXCEPT ![t] = Found(rconn[t])]
        /\ rpc' = [rpc EXCEPT ![t] = "look"]
        /\ Enters(t[2], rconn[t], TRUE)
        /\ UNCHANGED <<rconn, back>>
     \/ /\ ~ leader[t[2]]
        /\ Return(t)
        /\ UNCHANGED crossed
  /\ UNCHANGED <<sched, sessions, tables, up, pass, used>>

\* remove_job looks the job up ...
LookUpJob(t) ==
  /\ rpc[t] = "look"
  /\ \/ /\ job[t[2]][rconn[t]] # "none"
        /\ rpc' = [rpc EXCEPT ![t] = "take"]
        /\ UNCHANGED <<rconn, seen, back>>
     \/ /\ job[t[2]][rconn[t]] = "none"
        /\ Proceed(t)
  /\ UNCHANGED <<sched, sessions, tables, up, pass, used, crossed>>

\* ... and removes it, if it is still there.
TakeJob(t) ==
  /\ rpc[t] = "take" /\ job[t[2]][rconn[t]] # "none"
  /\ job' = [job EXCEPT ![t[2]][rconn[t]] = "none"]
  /\ Proceed(t)
  /\ UNCHANGED <<sched, sessions, state, up, pass, used, crossed>>

\* Otherwise JobLookupError ends the request, or the pass: a worker that was
\* dropping its jobs keeps the others, and its record of them.
JobLookupError(t) ==
  /\ rpc[t] = "take" /\ job[t[2]][rconn[t]] = "none"
  /\ Return(t)
  /\ \/ /\ t[1] = "maintenance"
        /\ Finish(t[2])
        /\ crossed' = IF mpc[t[2]] = "dropping" THEN crossed \cup ({t[2]} \X todo[t[2]])
                                               ELSE crossed
     \/ t[1] # "maintenance" /\ UNCHANGED <<pass, crossed>>
  /\ UNCHANGED <<sched, sessions, tables, up, used>>

\* (mutant) records what reconcile_jobs wanted, not what get_schedule found since
RecordWanted(t) ==
  /\ rpc[t] = "record"
  /\ state' = [state EXCEPT ![t[2]][rconn[t]] =
                 IF t[1] = "maintenance" THEN wanted[t[2]][rconn[t]] ELSE seen[t]]
  /\ \/ seen[t] = "paused" /\ Return(t)
     \/ seen[t] # "paused" /\ rpc' = [rpc EXCEPT ![t] = "add"] /\ UNCHANGED <<rconn, seen, back>>
  /\ UNCHANGED <<sched, sessions, job, up, pass, used, crossed>>

RecordState(t) ==
  /\ rpc[t] = "record"
  /\ state' = [state EXCEPT ![t[2]][rconn[t]] = seen[t]]
  /\ \/ seen[t] = "paused" /\ Return(t)
     \/ seen[t] # "paused" /\ rpc' = [rpc EXCEPT ![t] = "add"] /\ UNCHANGED <<rconn, seen, back>>
  /\ UNCHANGED <<sched, sessions, job, up, pass, used, crossed>>

AddJob(t) ==
  /\ rpc[t] = "add"
  /\ job' = [job EXCEPT ![t[2]][rconn[t]] = seen[t]]
  /\ Return(t)
  /\ UNCHANGED <<sched, sessions, state, up, pass, used, crossed>>

-----------------------------------------------------------------------------
(* Requests, and jobs that fire *)

Idle(t) == t[2] \in up /\ rpc[t] = "idle"

\* POST or PUT /connections, PUT .../schedule: the row is written (unless it was
\* deleted after the handler had found the connection), then reschedule.
SaveSchedule(t, c, v) ==
  /\ Idle(t) /\ edits < MaxEdits /\ edits' = edits + 1
  /\ \/ sched[c] \in (Setting \cup {"absent"}) \ {v} /\ sched' = [sched EXCEPT ![c] = v]
     \/ sched[c] = "gone" /\ UNCHANGED sched
  /\ Call(t, c, "guard", "record")
  /\ UNCHANGED <<sessions, tables, up, pass, drops, crashes, faults, crossed>>

\* DELETE /connections/{id}: this worker's job goes first ...
RemoveForDelete(t, c) ==
  /\ Idle(t) /\ edits < MaxEdits /\ edits' = edits + 1
  /\ sched[c] \in Setting
  /\ Call(t, c, "look", "delete")
  /\ Enters(t[2], c, FALSE)
  /\ UNCHANGED <<sched, sessions, tables, up, pass, drops, crashes, faults>>

\* ... then the rows.
DeleteRow(t) ==
  /\ rpc[t] = "delete"
  /\ sched' = [sched EXCEPT ![rconn[t]] = "gone"]
  /\ Return(t)
  /\ UNCHANGED <<sessions, tables, up, pass, used, crossed>>

\* A database error answers the request with a 500: a deletion that fails has
\* removed the job all the same.
RequestRaises(t) ==
  /\ faults < MaxFaults /\ faults' = faults + 1
  /\ rpc[t] \in {"guard", "delete"}
  /\ Return(t)
  /\ crossed' = IF rpc[t] = "delete" THEN crossed \cup {<<t[2], rconn[t]>>} ELSE crossed
  /\ UNCHANGED <<sched, sessions, tables, up, pass, edits, drops, crashes>>

\* A job fires for a connection that is gone: KeyError, and its job is removed.
FireForDeleted(t, c) ==
  /\ Idle(t) /\ job[t[2]][c] # "none" /\ sched[c] = "gone"
  /\ Call(t, c, "look", "idle")
  /\ Enters(t[2], c, FALSE)
  /\ UNCHANGED <<sched, sessions, tables, up, pass, used>>

-----------------------------------------------------------------------------
(* The environment *)

\* A killed worker loses everything it kept in memory.
Crash(w) ==
  /\ w \in up /\ crashes < MaxCrashes /\ crashes' = crashes + 1
  /\ up' = up \ {w}
  /\ owner' = IF owner = w THEN Dead ELSE owner
  /\ session' = [session EXCEPT ![w] = FALSE]
  /\ leader' = [leader EXCEPT ![w] = FALSE]
  /\ state' = [state EXCEPT ![w] = NoneWanted]
  /\ job' = [job EXCEPT ![w] = NoJobs]
  /\ Finish(w)
  /\ rpc' = [t \in Thread |-> IF t[2] = w THEN "idle" ELSE rpc[t]]
  /\ rconn' = [t \in Thread |-> IF t[2] = w THEN Nobody ELSE rconn[t]]
  /\ seen' = [t \in Thread |-> IF t[2] = w THEN "absent" ELSE seen[t]]
  /\ back' = [t \in Thread |-> IF t[2] = w THEN "idle" ELSE back[t]]
  /\ crossed' = crossed \ ({w} \X Connection)
  /\ UNCHANGED <<sched, edits, drops, faults>>

Restart(w) ==
  /\ w \notin up
  /\ up' = up \cup {w}
  /\ UNCHANGED <<sched, sessions, tables, pass, calls, used, crossed>>

\* The server ends the session of a dead process.
ReapSession ==
  /\ owner = Dead
  /\ owner' = Nobody
  /\ UNCHANGED <<sched, session, leader, tables, up, pass, calls, used, crossed>>

\* A restarted or failed-over database ends the lock session; the worker still
\* has the connection object and its _leader flag.
DropSession ==
  /\ drops < MaxDrops /\ drops' = drops + 1
  /\ owner' = Nobody
  /\ UNCHANGED <<sched, session, leader, tables, up, pass, calls, edits, crashes, faults, crossed>>

-----------------------------------------------------------------------------
PassStep(w) ==
  \/ ClearScheduledState(w) \/ Acquire(w) \/ ListConnections(w) \/ ToForget(w)
  \/ ToApply(w) \/ EndPass(w)
  \/ \E c \in Connection : DropScanJob(w, c) \/ ReadWanted(w, c) \/ Forget(w, c) \/ Visit(w, c)

CallStep(t) ==
  \/ ReadSchedule(t) \/ LookUpJob(t) \/ TakeJob(t) \/ JobLookupError(t)
  \/ RecordState(t) \/ AddJob(t) \/ PopState(t) \/ DeleteRow(t)

\* The maintenance thread of w goes on.
MaintenanceStep(w) == Check(w) \/ PassStep(w) \/ CallStep(Maintenance(w))

Next ==
  \/ \E w \in Worker : MaintenanceStep(w) \/ PassRaises(w) \/ Crash(w) \/ Restart(w)
  \/ \E t \in Caller \X Worker : CallStep(t) \/ RequestRaises(t)
  \/ \E t \in Caller \X Worker, c \in Connection :
       RemoveForDelete(t, c) \/ FireForDeleted(t, c) \/ \E v \in Setting : SaveSchedule(t, c, v)
  \/ ReapSession \/ DropSession

Spec == Init /\ [][Next]_vars

\* The maintenance job of a running worker runs every minute; a pass, a request
\* and a reschedule under way go on; a killed worker is restarted, its session
\* ended.  Jobs need not fire.
Fairness ==
  /\ \A w \in Worker : WF_vars(MaintenanceStep(w)) /\ WF_vars(Restart(w))
  /\ \A t \in Caller \X Worker : WF_vars(CallStep(t))
  /\ WF_vars(ReapSession)

FairSpec == Spec /\ Fairness

-----------------------------------------------------------------------------
(* What the scheduler promises *)

Expected(v) == IF v \in Interval THEN v ELSE "none"

\* "Only one runs scheduled scans: the one holding the scheduler advisory lock":
\* a worker that gave up leadership, and is not in the loop that drops its jobs, has
\* no job left, unless the last call about it overlapped another, or the end of the
\* leadership, or a JobLookupError broke the loop off before it came to that job.
OnlyLeaderHasJobs ==
  \A w \in Worker, c \in Connection :
     ~ leader[w] /\ mpc[w] # "dropping" /\ job[w][c] # "none" => <<w, c>> \in crossed

\* _scheduled_state is "what the leader has jobs for", and reconcile_jobs compares
\* the stored schedules with it, not with the jobs: whatever is on record must have
\* its job, or no later pass brings the job back.  It has it whenever no call about
\* the connection is under way, unless calls overlapped or a deletion failed.
RecordedMeansJob ==
  \A w \in Worker, c \in Connection :
     /\ leader[w] /\ Busy(w, c) = {} /\ <<w, c>> \notin crossed
     /\ state[w][c] # "absent" /\ sched[c] # "gone"
     => job[w][c] = Expected(state[w][c])

\* "A schedule edited on any worker reaches it within a minute", and "a leader
\* that goes away is replaced": once edits and failures stop, one worker holds the
\* lock and has exactly the jobs of the stored schedules, and no other has a job ...
InLine(w, C) ==
  /\ leader[w] /\ owner = w
  /\ \A c \in Connection : <<w, c>> \in C \/ job[w][c] = Expected(sched[c])
  /\ \A v \in Worker \ {w}, c \in Connection : <<v, c>> \in C \/ job[v][c] = "none"
SchedulesReachJobs == <>[](\E w \in Worker : InLine(w, {}))

\* ... which holds for every connection whose calls did not cross.
UncrossedReachJobs == <>[](\E w \in Worker : InLine(w, crossed))

-----------------------------------------------------------------------------
(* The inductive invariant behind OnlyLeaderHasJobs and RecordedMeansJob *)

\* A pass past the check of the lock is a leader's; one that drops jobs is not.
PassFrame(w) ==
  /\ mpc[w] \in {"list", "read", "forget", "apply"} => leader[w]
  /\ mpc[w] = "dropping" => ~ leader[w]

\* Where a thread is tells what its call is about.
CallFrame(t) ==
  /\ rpc[t] # "idle" => rconn[t] \in Connection
  /\ rpc[t] = "guard" => back[t] = "record" /\ seen[t] = "absent"
  /\ rpc[t] \in {"look", "take"} => (back[t] = "record" <=> seen[t] # "absent")
  /\ rpc[t] \in {"idle", "pop", "delete"} => seen[t] = "absent"
  /\ rpc[t] = "record" => seen[t] \in Setting
  /\ rpc[t] = "add" => seen[t] \in Interval
  /\ t[1] = "maintenance" /\ rpc[t] # "idle" =>
       \/ mpc[t[2]] = "dropping" /\ rpc[t] \in {"look", "take"} /\ back[t] = "idle"
       \/ mpc[t[2]] = "forget" /\ rpc[t] \in {"look", "take", "pop"} /\ back[t] = "pop"
       \/ mpc[t[2]] = "apply" /\ back[t] = "record" /\ rpc[t] \notin {"pop", "delete"}
  /\ t[1] # "maintenance" =>
       /\ rpc[t] # "pop" /\ back[t] # "pop"
       /\ rpc[t] \in {"look", "take"} /\ back[t] = "idle" => sched[rconn[t]] = "gone"

Frames == (\A w \in Worker : PassFrame(w)) /\ (\A t \in Thread : CallFrame(t))

\* A call that has its connection to itself: where it stands, the job and the record
\* are these, and only a leader reschedules.
CallClaim(t) ==
  LET w == t[2]  c == rconn[t] IN
    /\ rpc[t] = "take" => job[w][c] # "none"
    /\ rpc[t] \in {"record", "add", "pop"} => job[w][c] = "none"
    /\ rpc[t] = "add" => state[w][c] = seen[t]
    /\ seen[t] # "absent" => leader[w]

\* A call under way is about to remove the job of c.
Removing(w, c) ==
  \E t \in Busy(w, c) : rpc[t] \in {"look", "take"}
                          /\ (t[1] = "maintenance" \/ back[t] = "record")

\* A job has a record while its worker leads, and is on the list while its worker
\* drops its jobs; a record has its job.
JobClaim(w, c) ==
  /\ job[w][c] # "none" =>
       \/ leader[w] /\ state[w][c] # "absent"
       \/ mpc[w] = "dropping" /\ c \in todo[w]
       \/ (leader[w] \/ mpc[w] = "dropping") /\ Removing(w, c)
  /\ leader[w] /\ Busy(w, c) = {} /\ state[w][c] # "absent" /\ sched[c] # "gone" =>
       job[w][c] = Expected(state[w][c])

\* Calls about c that did not cross do not overlap.
Sole(w, c) ==
  /\ \A t, u \in Busy(w, c) : t = u
  /\ \A t \in Busy(w, c) : CallClaim(t)
  /\ JobClaim(w, c)

Apart == \A w \in Worker, c \in Connection : <<w, c>> \notin crossed => Sole(w, c)

JobsInv == TypeOK /\ Frames /\ Apart

=============================================================================
