------------------------ MODULE SchedulerJobsProofs ------------------------
(***************************************************************************)
(* Proofs about SchedulerJobs, for any set of workers, threads,            *)
(* connections and intervals and any number of edits, failures, lost       *)
(* sessions and crashes: a job at a worker that does not lead, and a       *)
(* record without its job, are only left by calls that crossed.            *)
(***************************************************************************)
EXTENDS SchedulerJobs, TLAPS

\* Every thread belongs to a worker.
LEMMA Threads ==
  /\ \A t \in Thread : t[2] \in Worker /\ t = <<t[1], t[2]>>
  /\ \A w \in Worker : Maintenance(w) \in Thread /\ Maintenance(w)[1] = "maintenance"
                       /\ Maintenance(w)[2] = w
  /\ \A t \in Caller \X Worker : t \in Thread /\ t[1] # "maintenance"
  /\ \A t \in Thread : t[1] = "maintenance" => t = Maintenance(t[2])
BY SchedulerJobsAssumption DEF Thread, Maintenance

-----------------------------------------------------------------------------
(* What the statements of a call do to the state of the threads *)

CallTypes ==
  /\ rpc \in [Thread -> {"idle", "guard", "look", "take", "record", "add", "pop", "delete"}]
  /\ rconn \in [Thread -> Connection \cup {Nobody}]
  /\ seen \in [Thread -> Setting \cup {"absent"}]
  /\ back \in [Thread -> {"idle", "record", "pop", "delete"}]

\* Thread u stays where it is.
Stays(u) == rpc'[u] = rpc[u] /\ rconn'[u] = rconn[u] /\ seen'[u] = seen[u] /\ back'[u] = back[u]

\* Only thread t moves.
Alone(t) == \A u \in Thread \ {t} : Stays(u)

\* A call that returns leaves nothing behind, and no other thread moves.
LEMMA ReturnMoves ==
  ASSUME TypeOK, NEW t \in Thread, Return(t)
  PROVE  /\ CallTypes' /\ Alone(t)
         /\ rpc'[t] = "idle" /\ rconn'[t] = Nobody /\ seen'[t] = "absent" /\ back'[t] = "idle"
<1> USE DEF TypeOK, Return
<1>1. CallTypes'
  BY DEF CallTypes
<1>2. Alone(t)
  BY DEF Alone, Stays
<1>3. QED
  BY <1>1, <1>2

\* So does one that starts.
LEMMA CallMoves ==
  ASSUME TypeOK, NEW t \in Thread, NEW c \in Connection, NEW p \in {"guard", "look"},
         NEW b \in {"idle", "record", "pop", "delete"}, Call(t, c, p, b)
  PROVE  /\ CallTypes' /\ Alone(t)
         /\ rpc'[t] = p /\ rconn'[t] = c /\ seen'[t] = seen[t] /\ back'[t] = b
<1> USE DEF TypeOK, Call
<1>1. CallTypes'
  BY DEF CallTypes
<1>2. Alone(t)
  BY DEF Alone, Stays
<1>3. QED
  BY <1>1, <1>2

\* A call that goes on to its next statement keeps its connection and its schedule.
LEMMA StatementMoves ==
  ASSUME TypeOK, NEW t \in Thread,
         NEW p \in {"look", "take", "record", "add", "pop", "delete"},
         rpc' = [rpc EXCEPT ![t] = p], UNCHANGED <<rconn, seen, back>>
  PROVE  CallTypes' /\ Alone(t) /\ rpc'[t] = p
BY DEF TypeOK, CallTypes, Alone, Stays

\* After remove_job its caller goes on where it said.
LEMMA ProceedMoves ==
  ASSUME TypeOK, NEW t \in Thread, Proceed(t)
  PROVE  /\ CallTypes' /\ Alone(t)
         /\ \/ back[t] = "idle" /\ rpc'[t] = "idle" /\ rconn'[t] = Nobody
               /\ seen'[t] = "absent" /\ back'[t] = "idle"
            \/ back[t] # "idle" /\ rpc'[t] = back[t] /\ UNCHANGED <<rconn, seen, back>>
<1>1. CASE back[t] = "idle"
  BY <1>1, ReturnMoves DEF Proceed
<1>2. CASE back[t] # "idle"
  <2>1. back[t] \in {"record", "pop", "delete"}
    BY <1>2 DEF TypeOK
  <2>2. rpc' = [rpc EXCEPT ![t] = back[t]] /\ UNCHANGED <<rconn, seen, back>>
    BY <1>2 DEF Proceed
  <2>3. QED
    BY <1>2, <2>1, <2>2, StatementMoves
<1>3. QED
  BY <1>1, <1>2

-----------------------------------------------------------------------------
(* Types *)

\* A job table with one entry changed is a job table ...
LEMMA JobTable ==
  ASSUME TypeOK, NEW w \in Worker, NEW c \in Connection, NEW i \in Interval \cup {"none"}
  PROVE  [job EXCEPT ![w][c] = i] \in [Worker -> [Connection -> Interval \cup {"none"}]]
BY DEF TypeOK

\* ... a record with one entry changed is a record ...
LEMMA StateTable ==
  ASSUME TypeOK, NEW w \in Worker, NEW c \in Connection, NEW v \in Setting \cup {"absent"}
  PROVE  [state EXCEPT ![w][c] = v] \in [Worker -> [Connection -> Setting \cup {"absent"}]]
BY DEF TypeOK

\* ... so is what a pass wants ...
LEMMA WantedTable ==
  ASSUME TypeOK, NEW w \in Worker, NEW c \in Connection, NEW v \in Setting \cup {"absent"}
  PROVE  [wanted EXCEPT ![w][c] = v] \in [Worker -> [Connection -> Setting \cup {"absent"}]]
BY DEF TypeOK

\* ... and all may be empty.
LEMMA EmptyTables ==
  /\ NoJobs \in [Connection -> Interval \cup {"none"}]
  /\ NoneWanted \in [Connection -> Setting \cup {"absent"}]
BY DEF NoJobs, NoneWanted

\* What get_schedule finds is a schedule.
LEMMA FoundSetting == \A c \in Connection : Found(c) \in Setting
BY DEF Found, Setting

\* Marks are pairs of a worker and a connection.
LEMMA EntersTyped ==
  ASSUME TypeOK, NEW w \in Worker, NEW c \in Connection, NEW h \in BOOLEAN, Enters(w, c, h)
  PROVE  crossed' \subseteq Worker \X Connection
BY DEF TypeOK, Enters

\* A pass that ends leaves well-typed locals.
PassTypes ==
  /\ mpc \in [Worker -> {"idle", "dropping", "list", "read", "forget", "apply"}]
  /\ wanted \in [Worker -> [Connection -> Setting \cup {"absent"}]]
  /\ todo \in [Worker -> SUBSET Connection]

LEMMA FinishTyped ==
  ASSUME TypeOK, NEW w \in Worker, Finish(w)
  PROVE  PassTypes'
BY EmptyTables DEF TypeOK, PassTypes, Finish, Goto

\* Every step keeps the types.
LEMMA TypeStep ==
  ASSUME TypeOK, Frames, [Next]_vars
  PROVE  TypeOK'
<1> USE SchedulerJobsAssumption, EmptyTables, Threads
<1> USE DEF TypeOK, sessions, tables, pass, calls, used
<1>1. ASSUME NEW w \in Worker, Check(w) PROVE TypeOK'
  <2>1. Rescheduling(w) \subseteq Worker \X Connection
    BY DEF Rescheduling, Frames, CallFrame
  <2>2. crossed' \subseteq Worker \X Connection
    BY <1>1, <2>1 DEF Check
  <2>3. CASE session[w] /\ owner = w
    <3>1. mpc' = [mpc EXCEPT ![w] = "list"] /\ UNCHANGED <<session, leader, todo>>
      BY <1>1, <2>3, Zenon DEF Check, Goto
    <3>2. mpc' \in [Worker -> {"idle", "dropping", "list", "read", "forget", "apply"}]
      BY <3>1
    <3>3. QED
      BY <1>1, <2>2, <3>1, <3>2 DEF Check
  <2>4. CASE ~ (session[w] /\ owner = w)
    <3>1. /\ session' = [session EXCEPT ![w] = FALSE] /\ leader' = [leader EXCEPT ![w] = FALSE]
          /\ mpc' = [mpc EXCEPT ![w] = "dropping"]
          /\ todo' = [todo EXCEPT ![w] = {c \in Connection : state[w][c] # "absent"}]
      BY <1>1, <2>4 DEF Check, Goto
    <3>2. session' \in [Worker -> BOOLEAN] /\ leader' \in [Worker -> BOOLEAN]
      BY <3>1
    <3>3. PassTypes'
      BY <1>1, <3>1 DEF PassTypes, Check
    <3>4. QED
      BY <1>1, <2>2, <3>2, <3>3 DEF Check, PassTypes
  <2>5. QED
    BY <2>3, <2>4
<1>2. ASSUME NEW w \in Worker, NEW c \in Connection, DropScanJob(w, c) PROVE TypeOK'
  <2>1. CallTypes'
    BY <1>2, CallMoves DEF DropScanJob
  <2>2. crossed' \subseteq Worker \X Connection
    BY <1>2, EntersTyped DEF DropScanJob
  <2>3. QED
    BY <1>2, <2>1, <2>2 DEF DropScanJob, CallTypes
<1>3. ASSUME NEW w \in Worker, ClearScheduledState(w) PROVE TypeOK'
  BY <1>3 DEF ClearScheduledState, Goto
<1>4. ASSUME NEW w \in Worker, Acquire(w) PROVE TypeOK'
  <2>1. CASE owner = Nobody
    <3>1. /\ owner' = w /\ session' = [session EXCEPT ![w] = TRUE]
          /\ leader' = [leader EXCEPT ![w] = TRUE] /\ mpc' = [mpc EXCEPT ![w] = "list"]
          /\ state' = [state EXCEPT ![w] = NoneWanted]
      BY <1>4, <2>1 DEF Acquire, Goto
    <3>2. session' \in [Worker -> BOOLEAN] /\ leader' \in [Worker -> BOOLEAN]
      BY <3>1
    <3>3. QED
      BY <1>4, <3>1, <3>2 DEF Acquire
  <2>2. CASE owner # Nobody
    BY <1>4, <2>2 DEF Acquire
  <2>3. QED
    BY <2>1, <2>2
<1>5. ASSUME NEW w \in Worker, ListConnections(w) PROVE TypeOK'
  BY <1>5 DEF ListConnections, Goto
<1>6. ASSUME NEW w \in Worker, NEW c \in Connection, ReadWanted(w, c) PROVE TypeOK'
  <2>1. wanted' \in [Worker -> [Connection -> Setting \cup {"absent"}]]
    BY <1>6, FoundSetting, WantedTable DEF ReadWanted
  <2>2. QED
    BY <1>6, <2>1 DEF ReadWanted
<1>7. ASSUME NEW w \in Worker, ToForget(w) PROVE TypeOK'
  BY <1>7 DEF ToForget, Goto
<1>8. ASSUME NEW w \in Worker, NEW c \in Connection, Forget(w, c) PROVE TypeOK'
  <2>1. CallTypes'
    BY <1>8, CallMoves DEF Forget
  <2>2. crossed' \subseteq Worker \X Connection
    BY <1>8, EntersTyped DEF Forget
  <2>3. QED
    BY <1>8, <2>1, <2>2 DEF Forget, CallTypes
<1>9. ASSUME NEW t \in Thread, PopState(t) PROVE TypeOK'
  <2>1. CallTypes'
    BY <1>9, ReturnMoves DEF PopState
  <2>2. t[2] \in Worker /\ rconn[t] \in Connection
    BY <1>9 DEF PopState, Frames, CallFrame
  <2>3. state' \in [Worker -> [Connection -> Setting \cup {"absent"}]]
    BY <1>9, <2>2, StateTable DEF PopState
  <2>4. QED
    BY <1>9, <2>1, <2>3 DEF PopState, CallTypes
<1>10. ASSUME NEW w \in Worker, ToApply(w) PROVE TypeOK'
  BY <1>10 DEF ToApply, Goto
<1>11. ASSUME NEW w \in Worker, NEW c \in Connection, Visit(w, c) PROVE TypeOK'
  <2>1. CallTypes'
    BY <1>11, CallMoves DEF Visit, CallTypes
  <2>2. QED
    BY <1>11, <2>1 DEF Visit, CallTypes
<1>12. ASSUME NEW w \in Worker, EndPass(w) PROVE TypeOK'
  BY <1>12, FinishTyped DEF EndPass, PassTypes
<1>13. ASSUME NEW w \in Worker, PassRaises(w) PROVE TypeOK'
  <2>1. CallTypes'
    BY <1>13, ReturnMoves DEF PassRaises
  <2>2. PassTypes'
    BY <1>13, FinishTyped DEF PassRaises
  <2>3. QED
    BY <1>13, <2>1, <2>2 DEF PassRaises, CallTypes, PassTypes
<1>14. ASSUME NEW t \in Thread, ReadSchedule(t) PROVE TypeOK'
  <2>1. rconn[t] \in Connection
    BY <1>14 DEF ReadSchedule, Frames, CallFrame
  <2>2. CASE leader[t[2]]
    <3>1. PICK v \in Setting : v = Found(rconn[t])
      BY <2>1, FoundSetting
    <3>2. seen' = [seen EXCEPT ![t] = v] /\ rpc' = [rpc EXCEPT ![t] = "look"] /\ UNCHANGED <<rconn, back>>
      BY <1>14, <2>2, <3>1 DEF ReadSchedule
    <3>3. CallTypes'
      BY <3>2 DEF CallTypes
    <3>4. crossed' \subseteq Worker \X Connection
      BY <1>14, <2>1, <2>2, EntersTyped DEF ReadSchedule
    <3>5. QED
      BY <1>14, <3>3, <3>4 DEF ReadSchedule, CallTypes
  <2>3. CASE ~ leader[t[2]]
    <3>1. CallTypes'
      BY <1>14, <2>3, ReturnMoves DEF ReadSchedule
    <3>2. QED
      BY <1>14, <2>3, <3>1 DEF ReadSchedule, CallTypes
  <2>4. QED
    BY <2>2, <2>3
<1>15. ASSUME NEW t \in Thread, LookUpJob(t) PROVE TypeOK'
  <2>1. CallTypes'
    BY <1>15, StatementMoves, ProceedMoves DEF LookUpJob
  <2>2. QED
    BY <1>15, <2>1 DEF LookUpJob, CallTypes
<1>16. ASSUME NEW t \in Thread, TakeJob(t) PROVE TypeOK'
  <2>1. CallTypes'
    BY <1>16, ProceedMoves DEF TakeJob
  <2>2. t[2] \in Worker /\ rconn[t] \in Connection
    BY <1>16 DEF TakeJob, Frames, CallFrame
  <2>3. job' \in [Worker -> [Connection -> Interval \cup {"none"}]]
    BY <1>16, <2>2, JobTable DEF TakeJob
  <2>4. QED
    BY <1>16, <2>1, <2>3 DEF TakeJob, CallTypes
<1>17. ASSUME NEW t \in Thread, JobLookupError(t) PROVE TypeOK'
  <2>1. CallTypes'
    BY <1>17, ReturnMoves DEF JobLookupError
  <2>2. CASE t[1] = "maintenance"
    <3>1. PassTypes'
      BY <1>17, <2>2, FinishTyped DEF JobLookupError
    <3>2. crossed' \subseteq Worker \X Connection
      BY <1>17, <2>2 DEF JobLookupError
    <3>3. QED
      BY <1>17, <2>1, <3>1, <3>2 DEF JobLookupError, CallTypes, PassTypes
  <2>3. CASE t[1] # "maintenance"
    BY <1>17, <2>1, <2>3 DEF JobLookupError, CallTypes
  <2>4. QED
    BY <2>2, <2>3
<1>18. ASSUME NEW t \in Thread, RecordState(t) PROVE TypeOK'
  <2>1. CallTypes'
    BY <1>18, ReturnMoves, StatementMoves DEF RecordState
  <2>2. t[2] \in Worker /\ rconn[t] \in Connection /\ seen[t] \in Setting
    BY <1>18 DEF RecordState, Frames, CallFrame
  <2>3. state' \in [Worker -> [Connection -> Setting \cup {"absent"}]]
    BY <1>18, <2>2, StateTable DEF RecordState
  <2>4. QED
    BY <1>18, <2>1, <2>3 DEF RecordState, CallTypes
<1>19. ASSUME NEW t \in Thread, AddJob(t) PROVE TypeOK'
  <2>1. CallTypes'
    BY <1>19, ReturnMoves DEF AddJob
  <2>2. t[2] \in Worker /\ rconn[t] \in Connection /\ seen[t] \in Interval
    BY <1>19 DEF AddJob, Frames, CallFrame
  <2>3. job' \in [Worker -> [Connection -> Interval \cup {"none"}]]
    BY <1>19, <2>2, JobTable DEF AddJob
  <2>4. QED
    BY <1>19, <2>1, <2>3 DEF AddJob, CallTypes
<1>20. ASSUME NEW t \in Caller \X Worker, NEW c \in Connection, NEW v \in Setting, SaveSchedule(t, c, v)
       PROVE  TypeOK'
  <2>1. CallTypes'
    BY <1>20, CallMoves DEF SaveSchedule
  <2>2. sched' \in [Connection -> Setting \cup {"absent", "gone"}]
    BY <1>20 DEF SaveSchedule
  <2>3. QED
    BY <1>20, <2>1, <2>2 DEF SaveSchedule, CallTypes
<1>21. ASSUME NEW t \in Caller \X Worker, NEW c \in Connection, RemoveForDelete(t, c) PROVE TypeOK'
  <2>1. CallTypes'
    BY <1>21, CallMoves DEF RemoveForDelete
  <2>2. crossed' \subseteq Worker \X Connection
    BY <1>21, EntersTyped DEF RemoveForDelete
  <2>3. QED
    BY <1>21, <2>1, <2>2 DEF RemoveForDelete, CallTypes
<1>22. ASSUME NEW t \in Thread, DeleteRow(t) PROVE TypeOK'
  <2>1. CallTypes'
    BY <1>22, ReturnMoves DEF DeleteRow
  <2>2. sched' \in [Connection -> Setting \cup {"absent", "gone"}]
    BY <1>22 DEF DeleteRow
  <2>3. QED
    BY <1>22, <2>1, <2>2 DEF DeleteRow, CallTypes
<1>23. ASSUME NEW t \in Caller \X Worker, RequestRaises(t) PROVE TypeOK'
  <2>1. CallTypes'
    BY <1>23, ReturnMoves DEF RequestRaises
  <2>2. rconn[t] \in Connection
    BY <1>23 DEF RequestRaises, Frames, CallFrame
  <2>3. crossed' \subseteq Worker \X Connection
    BY <1>23, <2>2 DEF RequestRaises
  <2>4. QED
    BY <1>23, <2>1, <2>3 DEF RequestRaises, CallTypes
<1>24. ASSUME NEW t \in Caller \X Worker, NEW c \in Connection, FireForDeleted(t, c) PROVE TypeOK'
  <2>1. CallTypes'
    BY <1>24, CallMoves DEF FireForDeleted
  <2>2. crossed' \subseteq Worker \X Connection
    BY <1>24, EntersTyped DEF FireForDeleted
  <2>3. QED
    BY <1>24, <2>1, <2>2 DEF FireForDeleted, CallTypes
<1>25. ASSUME NEW w \in Worker, Crash(w) PROVE TypeOK'
  <2>1. PassTypes'
    BY <1>25, FinishTyped DEF Crash
  <2>2. CallTypes'
    BY <1>25 DEF Crash, CallTypes
  <2>3. /\ owner' \in Worker \cup {Nobody, Dead}
        /\ session' \in [Worker -> BOOLEAN] /\ leader' \in [Worker -> BOOLEAN]
    BY <1>25 DEF Crash
  <2>4. /\ state' \in [Worker -> [Connection -> Setting \cup {"absent"}]]
        /\ job' \in [Worker -> [Connection -> Interval \cup {"none"}]]
    BY <1>25 DEF Crash
  <2>5. up' \subseteq Worker /\ crossed' \subseteq Worker \X Connection /\ crashes' \in Nat
    BY <1>25 DEF Crash
  <2>6. QED
    BY <1>25, <2>1, <2>2, <2>3, <2>4, <2>5 DEF Crash, CallTypes, PassTypes
<1>26. ASSUME NEW w \in Worker, Restart(w) PROVE TypeOK'
  BY <1>26 DEF Restart
<1>27. CASE ReapSession
  BY <1>27 DEF ReapSession
<1>28. CASE DropSession
  BY <1>28 DEF DropSession
<1>29. CASE UNCHANGED vars
  BY <1>29 DEF vars
<1>30. QED
  BY <1>1, <1>2, <1>3, <1>4, <1>5, <1>6, <1>7, <1>8, <1>9, <1>10, <1>11, <1>12, <1>13,
     <1>14, <1>15, <1>16, <1>17, <1>18, <1>19, <1>20, <1>21, <1>22, <1>23, <1>24, <1>25,
     <1>26, <1>27, <1>28, <1>29
     DEF Next, MaintenanceStep, PassStep, CallStep

-----------------------------------------------------------------------------
(* Frames *)

\* A thread that stays where it is keeps its frame, if its pass does and what was
\* deleted stays deleted.
LEMMA FrameKept ==
  ASSUME TypeOK, Frames, NEW t \in Thread, Stays(t),
         t[1] = "maintenance" /\ rpc[t] # "idle" => mpc'[t[2]] = mpc[t[2]],
         \A c \in Connection : sched[c] = "gone" => sched'[c] = "gone"
  PROVE  CallFrame(t)'
BY DEF Frames, CallFrame, Stays

\* A thread that is idle has the empty frame.
LEMMA IdleFrame ==
  ASSUME NEW t \in Thread, rpc'[t] = "idle", seen'[t] = "absent", back'[t] = "idle"
  PROVE  CallFrame(t)'
BY DEF CallFrame

\* A step of one thread that keeps its own frame keeps all of them.
LEMMA FramesAlone ==
  ASSUME TypeOK, Frames, NEW t \in Thread, Alone(t), UNCHANGED <<mpc, leader>>,
         \A c \in Connection : sched[c] = "gone" => sched'[c] = "gone",
         CallFrame(t)'
  PROVE  Frames'
<1>1. \A u \in Thread : CallFrame(u)'
  BY FrameKept DEF Alone
<1>2. \A w \in Worker : PassFrame(w)'
  BY DEF Frames, PassFrame
<1>3. QED
  BY <1>1, <1>2 DEF Frames

\* A pass goes on with no call of its own under way.
LEMMA FramesPass ==
  ASSUME TypeOK, Frames, NEW w \in Worker, rpc[Maintenance(w)] = "idle",
         \A v \in Worker \ {w} : mpc'[v] = mpc[v] /\ leader'[v] = leader[v],
         UNCHANGED <<sched, calls>>, PassFrame(w)'
  PROVE  Frames'
<1>1. ASSUME NEW u \in Thread PROVE CallFrame(u)'
  <2>1. Stays(u)
    BY DEF Stays, calls
  <2>2. u[1] = "maintenance" /\ rpc[u] # "idle" => mpc'[u[2]] = mpc[u[2]]
    BY Threads
  <2>3. QED
    BY <2>1, <2>2, FrameKept
<1>2. \A v \in Worker : PassFrame(v)'
  BY DEF Frames, PassFrame
<1>3. QED
  BY <1>1, <1>2 DEF Frames

\* With no call of the maintenance thread under way its locals are empty.
LEMMA MaintenanceIdle ==
  ASSUME Frames, NEW w \in Worker, mpc[w] \in {"idle", "list", "read"}
  PROVE  rpc[Maintenance(w)] = "idle"
BY Threads DEF Frames, CallFrame

\* A call goes on after remove_job to the statement its frame says.
LEMMA ProceedFrame ==
  ASSUME TypeOK, Frames, NEW t \in Thread, rpc[t] \in {"look", "take"}, Proceed(t),
         UNCHANGED <<sched, mpc, leader>>
  PROVE  Frames'
<1>1. CallFrame(t)
  BY DEF Frames
<1>2. CASE back[t] = "idle"
  BY <1>2, ProceedMoves, IdleFrame, FramesAlone
<1>3. CASE back[t] # "idle"
  <2>1. Alone(t) /\ rpc'[t] = back[t] /\ UNCHANGED <<rconn, seen, back>>
    BY <1>3, ProceedMoves
  <2>2. back[t] \in {"record", "pop", "delete"} /\ seen[t] \in Setting \cup {"absent"}
    BY <1>3 DEF TypeOK
  <2>3. CallFrame(t)'
    BY <1>1, <2>1, <2>2 DEF CallFrame
  <2>4. QED
    BY <2>1, <2>3, FramesAlone
<1>4. QED
  BY <1>2, <1>3

\* Every step keeps the frames.
LEMMA FramesStep ==
  ASSUME TypeOK, Frames, [Next]_vars
  PROVE  Frames'
<1> USE Threads DEF Goto, Finish, sessions, tables, pass, used
<1>1. ASSUME NEW w \in Worker, Check(w) PROVE Frames'
  <2>1. /\ \A v \in Worker \ {w} : mpc'[v] = mpc[v] /\ leader'[v] = leader[v]
        /\ UNCHANGED <<sched, calls>>
        /\ rpc[Maintenance(w)] = "idle"
    BY <1>1, MaintenanceIdle DEF Check, TypeOK
  <2>2. PassFrame(w)'
    BY <1>1 DEF Check, TypeOK, PassFrame
  <2>3. QED
    BY <2>1, <2>2, FramesPass
<1>2. ASSUME NEW w \in Worker, NEW c \in Connection, DropScanJob(w, c) PROVE Frames'
  <2>1. /\ Alone(Maintenance(w))
        /\ rpc'[Maintenance(w)] = "look" /\ rconn'[Maintenance(w)] = c
        /\ seen'[Maintenance(w)] = seen[Maintenance(w)] /\ back'[Maintenance(w)] = "idle"
    BY <1>2, CallMoves DEF DropScanJob
  <2>2. seen[Maintenance(w)] = "absent" /\ mpc[w] = "dropping"
    BY <1>2 DEF DropScanJob, Frames, CallFrame
  <2>3. UNCHANGED <<sched, mpc, leader>>
    BY <1>2 DEF DropScanJob
  <2>4. CallFrame(Maintenance(w))'
    BY <2>1, <2>2, <2>3 DEF CallFrame
  <2>5. QED
    BY <2>1, <2>3, <2>4, FramesAlone
<1>3. ASSUME NEW w \in Worker, ClearScheduledState(w) PROVE Frames'
  <2>1. PassFrame(w)' /\ \A v \in Worker \ {w} : mpc'[v] = mpc[v]
    BY <1>3 DEF ClearScheduledState, TypeOK, PassFrame
  <2>2. QED
    BY <1>3, <2>1, FramesPass DEF ClearScheduledState
<1>4. ASSUME NEW w \in Worker, Acquire(w) PROVE Frames'
  <2>1. /\ \A v \in Worker \ {w} : mpc'[v] = mpc[v] /\ leader'[v] = leader[v]
        /\ UNCHANGED <<sched, calls>>
        /\ rpc[Maintenance(w)] = "idle"
    BY <1>4, MaintenanceIdle DEF Acquire, TypeOK
  <2>2. PassFrame(w)'
    BY <1>4 DEF Acquire, TypeOK, PassFrame
  <2>3. QED
    BY <2>1, <2>2, FramesPass
<1>5. ASSUME NEW w \in Worker, ListConnections(w) PROVE Frames'
  <2>1. PassFrame(w)' /\ \A v \in Worker \ {w} : mpc'[v] = mpc[v]
    BY <1>5 DEF ListConnections, TypeOK, Frames, PassFrame
  <2>2. QED
    BY <1>5, <2>1, MaintenanceIdle, FramesPass DEF ListConnections
<1>6. ASSUME NEW w \in Worker, NEW c \in Connection, ReadWanted(w, c) PROVE Frames'
  BY <1>6, MaintenanceIdle, FramesPass DEF ReadWanted, Frames, PassFrame
<1>7. ASSUME NEW w \in Worker, ToForget(w) PROVE Frames'
  <2>1. PassFrame(w)' /\ \A v \in Worker \ {w} : mpc'[v] = mpc[v]
    BY <1>7 DEF ToForget, TypeOK, Frames, PassFrame
  <2>2. QED
    BY <1>7, <2>1, MaintenanceIdle, FramesPass DEF ToForget
<1>8. ASSUME NEW w \in Worker, NEW c \in Connection, Forget(w, c) PROVE Frames'
  <2>1. /\ Alone(Maintenance(w))
        /\ rpc'[Maintenance(w)] = "look" /\ rconn'[Maintenance(w)] = c
        /\ seen'[Maintenance(w)] = seen[Maintenance(w)] /\ back'[Maintenance(w)] = "pop"
    BY <1>8, CallMoves DEF Forget
  <2>2. seen[Maintenance(w)] = "absent" /\ mpc[w] = "forget"
    BY <1>8 DEF Forget, Frames, CallFrame
  <2>3. UNCHANGED <<sched, mpc, leader>>
    BY <1>8 DEF Forget
  <2>4. CallFrame(Maintenance(w))'
    BY <2>1, <2>2, <2>3 DEF CallFrame
  <2>5. QED
    BY <2>1, <2>3, <2>4, FramesAlone
<1>9. ASSUME NEW t \in Thread, PopState(t) PROVE Frames'
  BY <1>9, ReturnMoves, IdleFrame, FramesAlone DEF PopState
<1>10. ASSUME NEW w \in Worker, ToApply(w) PROVE Frames'
  <2>1. PassFrame(w)' /\ \A v \in Worker \ {w} : mpc'[v] = mpc[v]
    BY <1>10 DEF ToApply, TypeOK, Frames, PassFrame
  <2>2. QED
    BY <1>10, <2>1, FramesPass DEF ToApply
<1>11. ASSUME NEW w \in Worker, NEW c \in Connection, Visit(w, c) PROVE Frames'
  <2>1. CASE Call(Maintenance(w), c, "guard", "record")
    <3>1. /\ Alone(Maintenance(w))
          /\ rpc'[Maintenance(w)] = "guard" /\ rconn'[Maintenance(w)] = c
          /\ seen'[Maintenance(w)] = seen[Maintenance(w)] /\ back'[Maintenance(w)] = "record"
      BY <1>11, <2>1, CallMoves
    <3>2. seen[Maintenance(w)] = "absent" /\ mpc[w] = "apply"
      BY <1>11 DEF Visit, Frames, CallFrame
    <3>3. UNCHANGED <<sched, mpc, leader>>
      BY <1>11 DEF Visit
    <3>4. CallFrame(Maintenance(w))'
      BY <3>1, <3>2, <3>3 DEF CallFrame
    <3>5. QED
      BY <3>1, <3>3, <3>4, FramesAlone
  <2>2. CASE UNCHANGED calls
    BY <1>11, <2>2, FramesPass DEF Visit, Frames, PassFrame
  <2>3. QED
    BY <1>11, <2>1, <2>2 DEF Visit
<1>12. ASSUME NEW w \in Worker, EndPass(w) PROVE Frames'
  <2>1. PassFrame(w)' /\ \A v \in Worker \ {w} : mpc'[v] = mpc[v]
    BY <1>12 DEF EndPass, TypeOK, PassFrame
  <2>2. QED
    BY <1>12, <2>1, FramesPass DEF EndPass
<1>13. ASSUME NEW w \in Worker, PassRaises(w) PROVE Frames'
  <2>1. Alone(Maintenance(w)) /\ CallFrame(Maintenance(w))'
    BY <1>13, ReturnMoves, IdleFrame DEF PassRaises
  <2>2. /\ \A v \in Worker : mpc'[v] = IF v = w THEN "idle" ELSE mpc[v]
        /\ UNCHANGED <<sched, leader>>
    BY <1>13 DEF PassRaises, TypeOK
  <2>3. ASSUME NEW u \in Thread \ {Maintenance(w)} PROVE CallFrame(u)'
    <3>1. u[1] = "maintenance" => u[2] # w
      OBVIOUS
    <3>2. QED
      BY <2>1, <2>2, <3>1, FrameKept DEF Alone
  <2>4. \A v \in Worker : PassFrame(v)'
    BY <2>2 DEF Frames, PassFrame
  <2>5. QED
    BY <2>1, <2>3, <2>4 DEF Frames
<1>14. ASSUME NEW t \in Thread, ReadSchedule(t) PROVE Frames'
  <2>1. rconn[t] \in Connection /\ back[t] = "record"
    BY <1>14 DEF ReadSchedule, Frames, CallFrame
  <2>2. CASE leader[t[2]]
    <3>1. /\ Alone(t) /\ rpc'[t] = "look" /\ seen'[t] \in Setting
          /\ UNCHANGED <<sched, mpc, leader, rconn, back>>
      BY <1>14, <2>1, <2>2, FoundSetting DEF ReadSchedule, Alone, Stays, TypeOK
    <3>2. seen'[t] # "absent"
      BY <3>1, SchedulerJobsAssumption DEF Setting
    <3>3. CallFrame(t)'
      BY <1>14, <2>1, <3>1, <3>2 DEF ReadSchedule, Frames, CallFrame
    <3>4. QED
      BY <3>1, <3>3, FramesAlone
  <2>3. CASE ~ leader[t[2]]
    BY <1>14, <2>3, ReturnMoves, IdleFrame, FramesAlone DEF ReadSchedule
  <2>4. QED
    BY <2>2, <2>3
<1>15. ASSUME NEW t \in Thread, LookUpJob(t) PROVE Frames'
  <2>1. CallFrame(t) /\ rpc[t] = "look" /\ UNCHANGED <<sched, mpc, leader>>
    BY <1>15 DEF LookUpJob, Frames
  <2>2. CASE job[t[2]][rconn[t]] # "none"
    <3>1. Alone(t) /\ rpc'[t] = "take" /\ UNCHANGED <<rconn, seen, back>>
      BY <1>15, <2>2, StatementMoves DEF LookUpJob
    <3>2. CallFrame(t)'
      BY <2>1, <3>1 DEF CallFrame
    <3>3. QED
      BY <2>1, <3>1, <3>2, FramesAlone
  <2>3. CASE job[t[2]][rconn[t]] = "none"
    <3>1. Proceed(t)
      BY <1>15, <2>3 DEF LookUpJob
    <3>2. QED
      BY <2>1, <3>1, ProceedFrame
  <2>4. QED
    BY <2>2, <2>3
<1>16. ASSUME NEW t \in Thread, TakeJob(t) PROVE Frames'
  BY <1>16, ProceedFrame DEF TakeJob
<1>17. ASSUME NEW t \in Thread, JobLookupError(t) PROVE Frames'
  <2>1. Alone(t) /\ CallFrame(t)' /\ UNCHANGED <<sched, leader>>
    BY <1>17, ReturnMoves, IdleFrame DEF JobLookupError
  <2>2. CASE t[1] = "maintenance"
    <3>1. \A v \in Worker : mpc'[v] = IF v = t[2] THEN "idle" ELSE mpc[v]
      BY <1>17, <2>2 DEF JobLookupError, TypeOK
    <3>2. ASSUME NEW u \in Thread \ {t} PROVE CallFrame(u)'
      <4>1. u[1] = "maintenance" => u[2] # t[2]
        BY <2>2
      <4>2. QED
        BY <2>1, <3>1, <4>1, FrameKept DEF Alone
    <3>3. \A v \in Worker : PassFrame(v)'
      BY <2>1, <3>1 DEF Frames, PassFrame
    <3>4. QED
      BY <2>1, <3>2, <3>3 DEF Frames
  <2>3. CASE t[1] # "maintenance"
    BY <1>17, <2>1, <2>3, FramesAlone DEF JobLookupError
  <2>4. QED
    BY <2>2, <2>3
<1>18. ASSUME NEW t \in Thread, RecordState(t) PROVE Frames'
  <2>1. CallFrame(t) /\ rpc[t] = "record" /\ UNCHANGED <<sched, mpc, leader>>
    BY <1>18 DEF RecordState, Frames
  <2>2. CASE seen[t] = "paused"
    BY <1>18, <2>1, <2>2, ReturnMoves, IdleFrame, FramesAlone DEF RecordState
  <2>3. CASE seen[t] # "paused"
    <3>1. Alone(t) /\ rpc'[t] = "add" /\ UNCHANGED <<rconn, seen, back>>
      BY <1>18, <2>3, StatementMoves DEF RecordState
    <3>2. CallFrame(t)'
      BY <2>1, <2>3, <3>1 DEF CallFrame, Setting
    <3>3. QED
      BY <2>1, <3>1, <3>2, FramesAlone
  <2>4. QED
    BY <2>2, <2>3
<1>19. ASSUME NEW t \in Thread, AddJob(t) PROVE Frames'
  BY <1>19, ReturnMoves, IdleFrame, FramesAlone DEF AddJob
<1>20. ASSUME NEW t \in Caller \X Worker, NEW c \in Connection, NEW v \in Setting, SaveSchedule(t, c, v)
       PROVE  Frames'
  <2>1. /\ Alone(t) /\ rpc'[t] = "guard" /\ rconn'[t] = c
        /\ seen'[t] = seen[t] /\ back'[t] = "record"
    BY <1>20, CallMoves DEF SaveSchedule
  <2>2. seen[t] = "absent" /\ UNCHANGED <<mpc, leader>>
    BY <1>20 DEF SaveSchedule, Idle, Frames, CallFrame
  <2>3. \A d \in Connection : sched[d] = "gone" => sched'[d] = "gone"
    BY <1>20, SchedulerJobsAssumption DEF SaveSchedule, TypeOK, Setting
  <2>4. CallFrame(t)'
    BY <2>1, <2>2 DEF CallFrame
  <2>5. QED
    BY <2>1, <2>2, <2>3, <2>4, FramesAlone
<1>21. ASSUME NEW t \in Caller \X Worker, NEW c \in Connection, RemoveForDelete(t, c) PROVE Frames'
  <2>1. /\ Alone(t) /\ rpc'[t] = "look" /\ rconn'[t] = c
        /\ seen'[t] = seen[t] /\ back'[t] = "delete"
    BY <1>21, CallMoves DEF RemoveForDelete
  <2>2. seen[t] = "absent" /\ UNCHANGED <<sched, mpc, leader>>
    BY <1>21 DEF RemoveForDelete, Idle, Frames, CallFrame
  <2>3. CallFrame(t)'
    BY <2>1, <2>2 DEF CallFrame
  <2>4. QED
    BY <2>1, <2>2, <2>3, FramesAlone
<1>22. ASSUME NEW t \in Thread, DeleteRow(t) PROVE Frames'
  <2>1. \A d \in Connection : sched[d] = "gone" => sched'[d] = "gone"
    BY <1>22 DEF DeleteRow, TypeOK
  <2>2. QED
    BY <1>22, <2>1, ReturnMoves, IdleFrame, FramesAlone DEF DeleteRow
<1>23. ASSUME NEW t \in Caller \X Worker, RequestRaises(t) PROVE Frames'
  BY <1>23, ReturnMoves, IdleFrame, FramesAlone DEF RequestRaises
<1>24. ASSUME NEW t \in Caller \X Worker, NEW c \in Connection, FireForDeleted(t, c) PROVE Frames'
  <2>1. /\ Alone(t) /\ rpc'[t] = "look" /\ rconn'[t] = c
        /\ seen'[t] = seen[t] /\ back'[t] = "idle"
    BY <1>24, CallMoves DEF FireForDeleted
  <2>2. seen[t] = "absent" /\ sched[c] = "gone" /\ UNCHANGED <<sched, mpc, leader>>
    BY <1>24 DEF FireForDeleted, Idle, Frames, CallFrame
  <2>3. CallFrame(t)'
    BY <2>1, <2>2 DEF CallFrame
  <2>4. QED
    BY <2>1, <2>2, <2>3, FramesAlone
<1>25. ASSUME NEW w \in Worker, Crash(w) PROVE Frames'
  <2>1. ASSUME NEW u \in Thread, u[2] = w PROVE CallFrame(u)'
    BY <1>25, <2>1, IdleFrame DEF Crash
  <2>2. ASSUME NEW u \in Thread, u[2] # w PROVE CallFrame(u)'
    <3>1. Stays(u) /\ mpc'[u[2]] = mpc[u[2]] /\ UNCHANGED sched
      BY <1>25, <2>2 DEF Crash, Stays, TypeOK
    <3>2. QED
      BY <3>1, FrameKept
  <2>3. \A v \in Worker : PassFrame(v)'
    BY <1>25 DEF Crash, TypeOK, Frames, PassFrame
  <2>4. QED
    BY <2>1, <2>2, <2>3 DEF Frames
<1>26. ASSUME UNCHANGED <<sched, leader, mpc, calls>> PROVE Frames'
  BY <1>26 DEF Frames, PassFrame, CallFrame, calls
<1>27. ASSUME NEW w \in Worker, Restart(w) PROVE Frames'
  BY <1>26, <1>27 DEF Restart
<1>28. CASE ReapSession \/ DropSession \/ UNCHANGED vars
  BY <1>26, <1>28 DEF ReapSession, DropSession, vars
<1>29. QED
  BY <1>1, <1>2, <1>3, <1>4, <1>5, <1>6, <1>7, <1>8, <1>9, <1>10, <1>11, <1>12, <1>13,
     <1>14, <1>15, <1>16, <1>17, <1>18, <1>19, <1>20, <1>21, <1>22, <1>23, <1>24, <1>25,
     <1>27, <1>28
     DEF Next, MaintenanceStep, PassStep, CallStep

-----------------------------------------------------------------------------
(* Calls that did not cross *)

\* What is claimed of a connection at a worker stays true while its calls, its job,
\* its record and its place on the list of the loop stay as they are.
LEMMA SoleKept ==
  ASSUME NEW w \in Worker, NEW c \in Connection, Sole(w, c),
         leader'[w] = leader[w], state'[w][c] = state[w][c], job'[w][c] = job[w][c],
         sched[c] = "gone" => sched'[c] = "gone",
         mpc[w] = "dropping" => mpc'[w] = "dropping" /\ (c \in todo[w] => c \in todo'[w]),
         Busy(w, c)' = Busy(w, c), \A u \in Busy(w, c) : Stays(u)
  PROVE  Sole(w, c)'
<1>1. \A t \in Busy(w, c) : t[2] = w /\ rconn[t] = c /\ t \in Thread
  BY DEF Busy
<1>2. \A t \in Busy(w, c) : CallClaim(t)'
  BY <1>1 DEF Sole, CallClaim, Stays
<1>3. JobClaim(w, c)'
  <2>1. Removing(w, c) => Removing(w, c)'
    BY DEF Removing, Stays
  <2>2. Expected(state[w][c])' = Expected(state[w][c])
    BY DEF Expected
  <2>3. QED
    BY <2>1, <2>2 DEF Sole, JobClaim
<1>4. QED
  BY <1>2, <1>3 DEF Sole

\* A thread that is not about c before or after a step leaves its calls alone.
LEMMA Bystander ==
  ASSUME NEW t \in Thread, Alone(t), NEW w \in Worker, NEW c \in Connection,
         t \notin Busy(w, c), t \notin Busy(w, c)'
  PROVE  Busy(w, c)' = Busy(w, c) /\ \A u \in Busy(w, c) : Stays(u)
BY DEF Alone, Busy, Stays

\* A step of thread t about c changes nothing that is claimed of anything else.
LEMMA ApartAlone ==
  ASSUME Apart, NEW t \in Thread, NEW c \in Connection, Alone(t), UNCHANGED <<leader, mpc>>,
         rpc[t] \in {"idle", "guard"} \/ rconn[t] = c,
         rpc'[t] \in {"idle", "guard"} \/ rconn'[t] = c,
         \A d \in Connection : sched[d] = "gone" => sched'[d] = "gone",
         \A v \in Worker, d \in Connection : <<v, d>> # <<t[2], c>> =>
            /\ state'[v][d] = state[v][d] /\ job'[v][d] = job[v][d]
            /\ d \in todo[v] => d \in todo'[v]
            /\ <<v, d>> \in crossed => <<v, d>> \in crossed',
         <<t[2], c>> \notin crossed' => Sole(t[2], c)'
  PROVE  Apart'
<1>1. SUFFICES ASSUME NEW v \in Worker, NEW d \in Connection, <<v, d>> \notin crossed',
                      <<v, d>> # <<t[2], c>>
               PROVE  Sole(v, d)'
  BY DEF Apart
<1>2. t \notin Busy(v, d) /\ t \notin Busy(v, d)'
  BY <1>1 DEF Busy
<1>3. Busy(v, d)' = Busy(v, d) /\ \A u \in Busy(v, d) : Stays(u)
  BY <1>2, Bystander
<1>4. Sole(v, d)
  BY <1>1 DEF Apart
<1>5. QED
  BY <1>1, <1>3, <1>4, SoleKept

\* A step that moves no thread past its guard and touches no job, record or list.
LEMMA ApartKept ==
  ASSUME Apart, UNCHANGED <<leader, state, job, crossed>>,
         \A c \in Connection : sched[c] = "gone" => sched'[c] = "gone",
         \A w \in Worker : mpc[w] = "dropping" => mpc'[w] = "dropping" /\ todo'[w] = todo[w],
         \A u \in Thread : Stays(u) \/ (rpc[u] \in {"idle", "guard"} /\ rpc'[u] \in {"idle", "guard"})
  PROVE  Apart'
<1>1. SUFFICES ASSUME NEW w \in Worker, NEW c \in Connection, <<w, c>> \notin crossed
               PROVE  Sole(w, c)'
  BY DEF Apart
<1>2. Busy(w, c)' = Busy(w, c) /\ \A u \in Busy(w, c) : Stays(u)
  BY DEF Busy, Stays
<1>3. QED
  BY <1>1, <1>2, SoleKept DEF Apart

\* A thread that has c to itself has it to itself after its step.
LEMMA StaysSole ==
  ASSUME NEW t \in Thread, NEW c \in Connection, Alone(t),
         \A u \in Busy(t[2], c) : u = t
  PROVE  \A u \in Busy(t[2], c)' : u = t
BY DEF Alone, Busy, Stays

\* A call begins: alone with c, it is claimed to be at the look-up.
LEMMA EnterApart ==
  ASSUME TypeOK, Apart, NEW t \in Thread, NEW c \in Connection, NEW h \in BOOLEAN,
         Enters(t[2], c, h), Alone(t), UNCHANGED <<leader, mpc, state, job, sched>>,
         rpc[t] \in {"idle", "guard"}, rpc'[t] = "look", rconn'[t] = c,
         seen'[t] # "absent" => leader[t[2]],
         h => /\ leader[t[2]] \/ mpc[t[2]] = "dropping"
              /\ t[1] = "maintenance" \/ back'[t] = "record",
         ~ h => UNCHANGED todo,
         \A v \in Worker, d \in Connection :
            <<v, d>> # <<t[2], c>> /\ d \in todo[v] => d \in todo'[v]
  PROVE  Apart'
<1> DEFINE w == t[2]
<1>1. w \in Worker
  BY Threads
<1>2. ASSUME <<w, c>> \notin crossed' PROVE Sole(w, c)'
  <2>1. Busy(w, c) = {} /\ (h \/ <<w, c>> \notin crossed)
    BY <1>2 DEF Enters
  <2>2. \A u \in Busy(w, c)' : u = t
    BY <2>1, StaysSole
  <2>3. CallClaim(t)'
    BY DEF CallClaim
  <2>4. t \in Busy(w, c)'
    BY DEF Busy
  <2>5. JobClaim(w, c)'
    <3>1. CASE h
      <4>1. Removing(w, c)'
        BY <2>4, <3>1 DEF Removing
      <4>2. QED
        BY <2>4, <3>1, <4>1 DEF JobClaim
    <3>2. CASE ~ h
      <4>1. Sole(w, c) /\ ~ Removing(w, c)
        BY <1>1, <2>1, <3>2 DEF Apart, Removing
      <4>2. QED
        BY <2>4, <3>2, <4>1 DEF Sole, JobClaim
    <3>3. QED
      BY <3>1, <3>2
  <2>6. QED
    BY <2>2, <2>3, <2>5 DEF Sole
<1>3. \A v \in Worker, d \in Connection : <<v, d>> # <<w, c>> =>
         (<<v, d>> \in crossed => <<v, d>> \in crossed')
  BY DEF Enters
<1>4. QED
  BY <1>2, <1>3, ApartAlone

\* remove_job is over and the job is gone: what follows may be claimed.
LEMMA ProceedSole ==
  ASSUME TypeOK, Frames, Apart, NEW t \in Thread, rpc[t] \in {"look", "take"}, Proceed(t),
         NEW c \in Connection, rconn[t] = c,
         UNCHANGED <<leader, mpc, state, sched, crossed, todo>>,
         job'[t[2]][c] = "none",
         \A v \in Worker, d \in Connection :
            <<v, d>> # <<t[2], c>> => job'[v][d] = job[v][d]
  PROVE  Apart'
<1> DEFINE w == t[2]
<1>1. w \in Worker /\ CallFrame(t) /\ PassFrame(w)
  BY Threads DEF Frames, CallFrame
<1>2. Alone(t)
  BY ProceedMoves
<1>3. ASSUME <<w, c>> \notin crossed' PROVE Sole(w, c)'
  <2>1. Sole(w, c) /\ t \in Busy(w, c)
    BY <1>1, <1>3 DEF Apart, Busy
  <2>2. \A u \in Busy(w, c)' : u = t
    BY <1>1, <1>2, <2>1, StaysSole DEF Sole
  <2>3. seen[t] # "absent" => leader[w]
    BY <2>1 DEF Sole, CallClaim
  <2>4. CASE back[t] = "idle"
    <3>1. rpc'[t] = "idle"
      BY <2>4, ProceedMoves
    <3>2. Busy(w, c)' = {}
      BY <2>2, <3>1 DEF Busy
    <3>3. ~ leader[w] \/ sched[c] = "gone"
      BY <1>1, <2>4 DEF CallFrame, PassFrame
    <3>4. JobClaim(w, c)'
      BY <3>3 DEF JobClaim
    <3>5. QED
      BY <3>2, <3>4 DEF Sole
  <2>5. CASE back[t] # "idle"
    <3>1. rpc'[t] = back[t] /\ rconn'[t] = c /\ seen'[t] = seen[t]
      BY <2>5, ProceedMoves
    <3>2. back[t] \in {"record", "pop", "delete"}
      BY <2>5 DEF TypeOK
    <3>3. CallClaim(t)'
      BY <2>3, <3>1, <3>2 DEF CallClaim
    <3>4. t \in Busy(w, c)'
      BY <3>1, <3>2 DEF Busy
    <3>5. JobClaim(w, c)'
      BY <3>4 DEF JobClaim
    <3>6. QED
      BY <2>2, <3>3, <3>5 DEF Sole
  <2>6. QED
    BY <2>4, <2>5
<1>4. rpc'[t] = "idle" \/ rconn'[t] = c
  BY ProceedMoves
<1>5. QED
  BY <1>1, <1>2, <1>3, <1>4, ApartAlone

\* A worker whose maintenance thread is not in a call, and that does not lead, has no
\* call of an uncrossed connection that would remove a job or add one.
LEMMA NoRemoval ==
  ASSUME Frames, NEW w \in Worker, NEW c \in Connection, Sole(w, c),
         rpc[Maintenance(w)] = "idle", ~ leader[w]
  PROVE  ~ Removing(w, c) /\ \A u \in Busy(w, c) : seen[u] = "absent" /\ rpc[u] # "add"
<1>1. \A u \in Busy(w, c) : u \in Thread /\ u[2] = w /\ seen[u] = "absent" /\ rpc[u] # "idle"
  BY DEF Sole, CallClaim, Busy
<1>2. \A u \in Busy(w, c) : u[1] # "maintenance"
  BY <1>1, Threads
<1>3. \A u \in Busy(w, c) : rpc[u] # "add" /\ (rpc[u] \in {"look", "take"} => back[u] # "record")
  BY <1>1, SchedulerJobsAssumption DEF Frames, CallFrame
<1>4. QED
  BY <1>1, <1>2, <1>3 DEF Removing

\* Every step keeps what is claimed of calls that did not cross.
LEMMA ApartStep ==
  ASSUME TypeOK, Frames, Apart, [Next]_vars
  PROVE  Apart'
<1> USE Threads DEF Goto, Finish, sessions, tables, pass, used
<1>1. ASSUME NEW w \in Worker, Check(w) PROVE Apart'
  <2>1. CASE session[w] /\ owner = w
    <3>1. UNCHANGED <<leader, state, job, crossed, sched, todo, calls>>
      BY <1>1, <2>1 DEF Check
    <3>2. \A v \in Worker : mpc[v] = "dropping" => mpc'[v] = mpc[v]
      BY <1>1, <2>1 DEF Check, TypeOK
    <3>3. QED
      BY <3>1, <3>2, ApartKept DEF calls, Stays
  <2>2. CASE ~ (session[w] /\ owner = w)
    <3>1. /\ leader[w] /\ mpc[w] = "idle" /\ mpc'[w] = "dropping" /\ ~ leader'[w]
          /\ todo'[w] = {c \in Connection : state[w][c] # "absent"}
          /\ \A v \in Worker \ {w} : mpc'[v] = mpc[v] /\ leader'[v] = leader[v] /\ todo'[v] = todo[v]
          /\ crossed' = crossed \cup Rescheduling(w)
          /\ UNCHANGED <<sched, state, job, calls>>
      BY <1>1, <2>2 DEF Check, TypeOK
    <3>2. rpc[Maintenance(w)] = "idle"
      BY <3>1, MaintenanceIdle
    <3>3. SUFFICES ASSUME NEW v \in Worker, NEW c \in Connection, <<v, c>> \notin crossed'
                   PROVE  Sole(v, c)'
      BY DEF Apart
    <3>4. Sole(v, c)
      BY <3>1, <3>3 DEF Apart
    <3>5. Busy(v, c)' = Busy(v, c) /\ \A u \in Busy(v, c) : Stays(u) /\ u[2] = v /\ u \in Thread
      BY <3>1 DEF Busy, calls, Stays
    <3>6. CASE v # w
      BY <3>1, <3>4, <3>5, <3>6, SoleKept
    <3>7. CASE v = w
      <4>1. \A u \in Busy(w, c) : seen[u] = "absent" /\ rpc[u] # "add"
        <5>1. \A u \in Busy(w, c) : seen[u] = "absent"
          BY <3>1, <3>3, <3>7 DEF Rescheduling, Busy
        <5>2. QED
          BY <5>1, SchedulerJobsAssumption DEF Frames, CallFrame, Busy
      <4>2. ~ Removing(w, c)
        BY <3>2, <3>5, <3>7, <4>1 DEF Removing, Frames, CallFrame, Busy
      <4>3. \A u \in Busy(w, c) : CallClaim(u)'
        BY <3>1, <3>4, <3>5, <3>7, <4>1 DEF Sole, CallClaim, Stays
      <4>4. JobClaim(w, c)'
        BY <3>1, <3>4, <3>7, <4>2 DEF Sole, JobClaim
      <4>5. QED
        BY <3>4, <3>5, <3>7, <4>3, <4>4 DEF Sole
    <3>8. QED
      BY <3>6, <3>7
  <2>3. QED
    BY <2>1, <2>2
<1>2. ASSUME NEW w \in Worker, NEW c \in Connection, DropScanJob(w, c) PROVE Apart'
  <2>1. /\ Alone(Maintenance(w))
        /\ rpc'[Maintenance(w)] = "look" /\ rconn'[Maintenance(w)] = c
        /\ seen'[Maintenance(w)] = seen[Maintenance(w)] /\ back'[Maintenance(w)] = "idle"
    BY <1>2, CallMoves DEF DropScanJob
  <2>2. /\ rpc[Maintenance(w)] = "idle" /\ seen[Maintenance(w)] = "absent" /\ mpc[w] = "dropping"
        /\ Enters(w, c, TRUE) /\ UNCHANGED <<leader, mpc, state, job, sched>>
    BY <1>2 DEF DropScanJob, Frames, CallFrame
  <2>3. \A v \in Worker, d \in Connection :
           <<v, d>> # <<w, c>> /\ d \in todo[v] => d \in todo'[v]
    BY <1>2 DEF DropScanJob, TypeOK
  <2>4. QED
    BY <2>1, <2>2, <2>3, EnterApart
<1>3. ASSUME NEW w \in Worker, ClearScheduledState(w) PROVE Apart'
  <2>1. /\ mpc[w] = "dropping" /\ rpc[Maintenance(w)] = "idle" /\ todo[w] = {} /\ ~ leader[w]
        /\ mpc'[w] = "idle" /\ \A v \in Worker \ {w} : mpc'[v] = mpc[v] /\ state'[v] = state[v]
        /\ UNCHANGED <<sched, leader, job, todo, crossed, calls>>
    BY <1>3 DEF ClearScheduledState, TypeOK, Frames, PassFrame
  <2>2. SUFFICES ASSUME NEW v \in Worker, NEW c \in Connection, <<v, c>> \notin crossed
                 PROVE  Sole(v, c)'
    BY <2>1 DEF Apart
  <2>3. Sole(v, c)
    BY <2>2 DEF Apart
  <2>4. Busy(v, c)' = Busy(v, c) /\ \A u \in Busy(v, c) : Stays(u) /\ u[2] = v /\ rconn[u] = c
    BY <2>1 DEF Busy, calls, Stays
  <2>5. CASE v # w
    BY <2>1, <2>3, <2>4, <2>5, SoleKept
  <2>6. CASE v = w
    <3>1. ~ Removing(w, c) /\ \A u \in Busy(w, c) : seen[u] = "absent" /\ rpc[u] # "add"
      BY <2>1, <2>3, <2>6, NoRemoval
    <3>2. job[w][c] = "none"
      BY <2>1, <2>3, <2>6, <3>1 DEF Sole, JobClaim
    <3>3. \A u \in Busy(w, c) : CallClaim(u)'
      BY <2>1, <2>3, <2>4, <2>6, <3>1 DEF Sole, CallClaim, Stays
    <3>4. JobClaim(w, c)'
      BY <2>1, <3>2 DEF JobClaim
    <3>5. QED
      BY <2>3, <2>4, <2>6, <3>3, <3>4 DEF Sole
  <2>7. QED
    BY <2>5, <2>6
<1>4. ASSUME NEW w \in Worker, Acquire(w) PROVE Apart'
  <2>1. CASE owner # Nobody
    BY <1>4, <2>1, ApartKept DEF Acquire, calls, Stays
  <2>2. CASE owner = Nobody
    <3>1. /\ ~ leader[w] /\ mpc[w] = "idle" /\ mpc'[w] = "list" /\ state'[w] = NoneWanted
          /\ \A v \in Worker \ {w} : mpc'[v] = mpc[v] /\ leader'[v] = leader[v] /\ state'[v] = state[v]
          /\ UNCHANGED <<sched, job, todo, crossed, calls>>
      BY <1>4, <2>2 DEF Acquire, TypeOK
    <3>2. rpc[Maintenance(w)] = "idle"
      BY <3>1, MaintenanceIdle
    <3>3. SUFFICES ASSUME NEW v \in Worker, NEW c \in Connection, <<v, c>> \notin crossed
                   PROVE  Sole(v, c)'
      BY <3>1 DEF Apart
    <3>4. Sole(v, c)
      BY <3>3 DEF Apart
    <3>5. Busy(v, c)' = Busy(v, c) /\ \A u \in Busy(v, c) : Stays(u) /\ u[2] = v /\ rconn[u] = c
      BY <3>1 DEF Busy, calls, Stays
    <3>6. CASE v # w
      BY <3>1, <3>4, <3>5, <3>6, SoleKept
    <3>7. CASE v = w
      <4>1. ~ Removing(w, c) /\ \A u \in Busy(w, c) : seen[u] = "absent" /\ rpc[u] # "add"
        BY <3>1, <3>2, <3>4, <3>7, NoRemoval
      <4>2. job[w][c] = "none"
        BY <3>1, <3>4, <3>7, <4>1 DEF Sole, JobClaim
      <4>3. \A u \in Busy(w, c) : CallClaim(u)'
        BY <3>1, <3>4, <3>5, <3>7, <4>1 DEF Sole, CallClaim, Stays
      <4>4. JobClaim(w, c)'
        BY <3>1, <4>2 DEF JobClaim, NoneWanted
      <4>5. QED
        BY <3>4, <3>5, <3>7, <4>3, <4>4 DEF Sole
    <3>8. QED
      BY <3>6, <3>7
  <2>3. QED
    BY <2>1, <2>2
<1>5. ASSUME NEW w \in Worker, \/ ListConnections(w) \/ ToForget(w) \/ ToApply(w) \/ EndPass(w)
      PROVE  Apart'
  <2>1. /\ UNCHANGED <<leader, state, job, crossed, sched, calls>>
        /\ mpc[w] # "dropping"
    BY <1>5 DEF ListConnections, ToForget, ToApply, EndPass
  <2>2. \A v \in Worker \ {w} : mpc'[v] = mpc[v] /\ todo'[v] = todo[v]
    BY <1>5 DEF ListConnections, ToForget, ToApply, EndPass, TypeOK
  <2>3. QED
    BY <2>1, <2>2, ApartKept DEF calls, Stays
<1>6. ASSUME NEW w \in Worker, NEW c \in Connection, ReadWanted(w, c) PROVE Apart'
  <2>1. /\ UNCHANGED <<leader, state, job, crossed, sched, calls, mpc>>
        /\ mpc[w] # "dropping" /\ \A v \in Worker \ {w} : todo'[v] = todo[v]
    BY <1>6 DEF ReadWanted, TypeOK
  <2>2. QED
    BY <2>1, ApartKept DEF calls, Stays
<1>7. ASSUME NEW w \in Worker, NEW c \in Connection, Forget(w, c) PROVE Apart'
  <2>1. /\ Alone(Maintenance(w))
        /\ rpc'[Maintenance(w)] = "look" /\ rconn'[Maintenance(w)] = c
        /\ seen'[Maintenance(w)] = seen[Maintenance(w)] /\ back'[Maintenance(w)] = "pop"
    BY <1>7, CallMoves DEF Forget
  <2>2. /\ rpc[Maintenance(w)] = "idle" /\ seen[Maintenance(w)] = "absent" /\ leader[w]
        /\ Enters(w, c, TRUE) /\ UNCHANGED <<leader, mpc, state, job, sched>>
    BY <1>7 DEF Forget, Frames, CallFrame, PassFrame
  <2>3. \A v \in Worker, d \in Connection :
           <<v, d>> # <<w, c>> /\ d \in todo[v] => d \in todo'[v]
    BY <1>7 DEF Forget, TypeOK
  <2>4. QED
    BY <2>1, <2>2, <2>3, EnterApart
<1>8. ASSUME NEW t \in Thread, PopState(t) PROVE Apart'
  <2>1. PICK c \in Connection : rconn[t] = c
    BY <1>8 DEF PopState, Frames, CallFrame
  <2>2. Alone(t) /\ rpc'[t] = "idle"
    BY <1>8, ReturnMoves DEF PopState
  <2>3. /\ UNCHANGED <<sched, leader, mpc, todo, job, crossed>>
        /\ state'[t[2]][c] = "absent"
        /\ \A v \in Worker, d \in Connection : <<v, d>> # <<t[2], c>> => state'[v][d] = state[v][d]
    BY <1>8, <2>1 DEF PopState, TypeOK
  <2>4. ASSUME <<t[2], c>> \notin crossed PROVE Sole(t[2], c)'
    <3>1. Sole(t[2], c) /\ t \in Busy(t[2], c)
      BY <1>8, <2>1, <2>4 DEF Apart, Busy, PopState
    <3>2. Busy(t[2], c)' = {}
      BY <2>2, <3>1, StaysSole DEF Sole, Busy
    <3>3. job[t[2]][c] = "none"
      BY <1>8, <2>1, <3>1 DEF Sole, CallClaim, PopState
    <3>4. JobClaim(t[2], c)'
      BY <2>3, <3>3 DEF JobClaim
    <3>5. QED
      BY <3>2, <3>4 DEF Sole
  <2>5. QED
    BY <2>1, <2>2, <2>3, <2>4, ApartAlone
<1>9. ASSUME NEW w \in Worker, NEW c \in Connection, Visit(w, c) PROVE Apart'
  <2>1. /\ UNCHANGED <<leader, state, job, crossed, sched, mpc>> /\ mpc[w] # "dropping"
        /\ \A v \in Worker \ {w} : todo'[v] = todo[v]
    BY <1>9 DEF Visit, TypeOK
  <2>2. CASE Call(Maintenance(w), c, "guard", "record")
    <3>1. Alone(Maintenance(w)) /\ rpc'[Maintenance(w)] = "guard" /\ rpc[Maintenance(w)] = "idle"
      BY <1>9, <2>2, CallMoves DEF Visit
    <3>2. QED
      BY <2>1, <3>1, ApartKept DEF Alone
  <2>3. CASE UNCHANGED calls
    BY <2>1, <2>3, ApartKept DEF calls, Stays
  <2>4. QED
    BY <1>9, <2>2, <2>3 DEF Visit
<1>10. ASSUME NEW w \in Worker, PassRaises(w) PROVE Apart'
  <2>1. /\ Alone(Maintenance(w)) /\ rpc'[Maintenance(w)] = "idle"
        /\ rpc[Maintenance(w)] \in {"idle", "guard"} /\ mpc[w] # "dropping"
    BY <1>10, ReturnMoves DEF PassRaises
  <2>2. /\ UNCHANGED <<leader, state, job, crossed, sched>>
        /\ \A v \in Worker \ {w} : mpc'[v] = mpc[v] /\ todo'[v] = todo[v]
    BY <1>10 DEF PassRaises, TypeOK
  <2>3. QED
    BY <2>1, <2>2, ApartKept DEF Alone
<1>11. ASSUME NEW t \in Thread, ReadSchedule(t) PROVE Apart'
  <2>1. PICK c \in Connection : rconn[t] = c
    BY <1>11 DEF ReadSchedule, Frames, CallFrame
  <2>2. rpc[t] = "guard" /\ back[t] = "record"
    BY <1>11 DEF ReadSchedule, Frames, CallFrame
  <2>3. CASE leader[t[2]]
    <3>1. Alone(t) /\ rpc'[t] = "look" /\ UNCHANGED <<rconn, back>>
      BY <1>11, <2>3 DEF ReadSchedule, Alone, Stays, TypeOK
    <3>2. UNCHANGED <<sched, mpc, todo, leader, state, job>> /\ Enters(t[2], c, TRUE)
      BY <1>11, <2>1, <2>3, Zenon DEF ReadSchedule
    <3>3. QED
      BY <2>1, <2>2, <2>3, <3>1, <3>2, EnterApart
  <2>4. CASE ~ leader[t[2]]
    <3>1. /\ Alone(t) /\ rpc'[t] = "idle"
          /\ UNCHANGED <<sched, mpc, todo, leader, state, job, crossed>>
      BY <1>11, <2>4, ReturnMoves DEF ReadSchedule
    <3>2. QED
      BY <2>2, <3>1, ApartKept DEF Alone
  <2>5. QED
    BY <2>3, <2>4
<1>12. ASSUME NEW t \in Thread, LookUpJob(t) PROVE Apart'
  <2>1. PICK c \in Connection : rconn[t] = c
    BY <1>12 DEF LookUpJob, Frames, CallFrame
  <2>2. rpc[t] = "look" /\ UNCHANGED <<sched, mpc, todo, leader, state, job, crossed>>
    BY <1>12 DEF LookUpJob
  <2>3. CASE job[t[2]][c] # "none"
    <3>1. Alone(t) /\ rpc'[t] = "take" /\ UNCHANGED <<rconn, seen, back>>
      BY <1>12, <2>1, <2>3, StatementMoves DEF LookUpJob
    <3>2. ASSUME <<t[2], c>> \notin crossed PROVE Sole(t[2], c)'
      <4>1. Sole(t[2], c) /\ t \in Busy(t[2], c) /\ t \in Busy(t[2], c)'
        BY <2>1, <2>2, <3>1, <3>2 DEF Apart, Busy
      <4>2. \A u \in Busy(t[2], c)' : u = t
        BY <3>1, <4>1, StaysSole DEF Sole
      <4>3. CallClaim(t)'
        BY <2>1, <2>2, <2>3, <3>1, <4>1 DEF Sole, CallClaim
      <4>4. Removing(t[2], c) => Removing(t[2], c)'
        BY <3>1, <4>1 DEF Sole, Removing
      <4>5. JobClaim(t[2], c)'
        BY <2>2, <4>1, <4>4 DEF Sole, JobClaim
      <4>6. QED
        BY <4>2, <4>3, <4>5 DEF Sole
    <3>3. QED
      BY <2>1, <2>2, <3>1, <3>2, ApartAlone
  <2>4. CASE job[t[2]][c] = "none"
    BY <1>12, <2>1, <2>2, <2>4, ProceedSole DEF LookUpJob
  <2>5. QED
    BY <2>3, <2>4
<1>13. ASSUME NEW t \in Thread, TakeJob(t) PROVE Apart'
  <2>1. PICK c \in Connection : rconn[t] = c
    BY <1>13 DEF TakeJob, Frames, CallFrame
  <2>2. /\ UNCHANGED <<sched, mpc, todo, leader, state, crossed>>
        /\ job'[t[2]][c] = "none"
        /\ \A v \in Worker, d \in Connection : <<v, d>> # <<t[2], c>> => job'[v][d] = job[v][d]
    BY <1>13, <2>1 DEF TakeJob, TypeOK
  <2>3. QED
    BY <1>13, <2>1, <2>2, ProceedSole DEF TakeJob
<1>14. ASSUME NEW t \in Thread, JobLookupError(t) PROVE Apart'
  <2>1. PICK c \in Connection : rconn[t] = c
    BY <1>14 DEF JobLookupError, Frames, CallFrame
  <2>2. /\ Alone(t) /\ rpc'[t] = "idle" /\ rpc[t] = "take" /\ job[t[2]][c] = "none"
        /\ UNCHANGED <<sched, leader, state, job>>
    BY <1>14, <2>1, ReturnMoves DEF JobLookupError
  <2>3. <<t[2], c>> \in crossed
    <3>1. SUFFICES ASSUME Sole(t[2], c) PROVE FALSE
      BY DEF Apart
    <3>2. t \in Busy(t[2], c)
      BY <2>1, <2>2 DEF Busy
    <3>3. QED
      BY <2>1, <2>2, <3>1, <3>2 DEF Sole, CallClaim
  <2>4. CASE t[1] # "maintenance"
    <3>1. UNCHANGED <<mpc, todo, crossed>>
      BY <1>14, <2>4 DEF JobLookupError
    <3>2. QED
      BY <2>1, <2>2, <2>3, <3>1, ApartAlone
  <2>5. CASE t[1] = "maintenance"
    <3>1. /\ mpc'[t[2]] = "idle"
          /\ \A v \in Worker \ {t[2]} : mpc'[v] = mpc[v] /\ todo'[v] = todo[v]
          /\ crossed' = IF mpc[t[2]] = "dropping" THEN crossed \cup ({t[2]} \X todo[t[2]]) ELSE crossed
      BY <1>14, <2>5 DEF JobLookupError, TypeOK
    <3>2. SUFFICES ASSUME NEW v \in Worker, NEW d \in Connection, <<v, d>> \notin crossed'
                   PROVE  Sole(v, d)'
      BY DEF Apart
    <3>3. <<v, d>> \notin crossed /\ Sole(v, d) /\ <<v, d>> # <<t[2], c>>
      BY <2>3, <3>1, <3>2 DEF Apart
    <3>4. Busy(v, d)' = Busy(v, d) /\ \A u \in Busy(v, d) : Stays(u)
      <4>1. t \notin Busy(v, d) /\ t \notin Busy(v, d)'
        BY <2>1, <2>2, <3>3 DEF Busy
      <4>2. QED
        BY <2>2, <4>1, Bystander
    <3>5. CASE v # t[2] \/ mpc[v] # "dropping"
      BY <2>2, <3>1, <3>3, <3>4, <3>5, SoleKept
    <3>6. CASE v = t[2] /\ mpc[v] = "dropping"
      <4>1. d \notin todo[v] /\ ~ leader[v]
        BY <3>1, <3>2, <3>6 DEF Frames, PassFrame
      <4>2. ~ Removing(v, d)
        <5>1. SUFFICES ASSUME NEW u \in Busy(v, d), rpc[u] \in {"look", "take"},
                              u[1] = "maintenance" \/ back[u] = "record"
                       PROVE  FALSE
          BY DEF Removing
        <5>2. u \in Thread /\ u[2] = v /\ rconn[u] = d
          BY DEF Busy
        <5>3. seen[u] = "absent"
          BY <3>3, <4>1, <5>2 DEF Sole, CallClaim
        <5>4. u[1] = "maintenance"
          BY <5>1, <5>2, <5>3 DEF Frames, CallFrame
        <5>5. u = t
          BY <2>5, <3>6, <5>2, <5>4
        <5>6. QED
          BY <2>1, <3>3, <3>6, <5>2, <5>5
      <4>3. job[v][d] = "none"
        BY <3>3, <4>1, <4>2 DEF Sole, JobClaim
      <4>4. \A u \in Busy(v, d) : CallClaim(u)'
        BY <2>2, <3>3, <3>4 DEF Sole, CallClaim, Stays, Busy
      <4>5. JobClaim(v, d)'
        BY <2>2, <4>1, <4>3 DEF JobClaim
      <4>6. QED
        BY <3>3, <3>4, <4>4, <4>5 DEF Sole
    <3>7. QED
      BY <3>5, <3>6
  <2>6. QED
    BY <2>4, <2>5
<1>15. ASSUME NEW t \in Thread, RecordState(t) PROVE Apart'
  <2>1. PICK c \in Connection : rconn[t] = c
    BY <1>15 DEF RecordState, Frames, CallFrame
  <2>2. /\ rpc[t] = "record" /\ UNCHANGED <<sched, mpc, todo, leader, job, crossed>>
        /\ state'[t[2]][c] = seen[t]
        /\ \A v \in Worker, d \in Connection : <<v, d>> # <<t[2], c>> => state'[v][d] = state[v][d]
    BY <1>15, <2>1 DEF RecordState, TypeOK
  <2>3. CASE seen[t] = "paused"
    <3>1. Alone(t) /\ rpc'[t] = "idle"
      BY <1>15, <2>3, ReturnMoves DEF RecordState
    <3>2. ASSUME <<t[2], c>> \notin crossed PROVE Sole(t[2], c)'
      <4>1. Sole(t[2], c) /\ t \in Busy(t[2], c)
        BY <2>1, <2>2, <3>2 DEF Apart, Busy
      <4>2. Busy(t[2], c)' = {}
        BY <3>1, <4>1, StaysSole DEF Sole, Busy
      <4>3. job[t[2]][c] = "none"
        BY <2>1, <2>2, <4>1 DEF Sole, CallClaim
      <4>4. JobClaim(t[2], c)'
        BY <2>2, <2>3, <4>3, SchedulerJobsAssumption DEF JobClaim, Expected
      <4>5. QED
        BY <4>2, <4>4 DEF Sole
    <3>3. QED
      BY <2>1, <2>2, <3>1, <3>2, ApartAlone
  <2>4. CASE seen[t] # "paused"
    <3>1. Alone(t) /\ rpc'[t] = "add" /\ UNCHANGED <<rconn, seen, back>>
      BY <1>15, <2>4, StatementMoves DEF RecordState
    <3>2. ASSUME <<t[2], c>> \notin crossed PROVE Sole(t[2], c)'
      <4>1. Sole(t[2], c) /\ t \in Busy(t[2], c) /\ t \in Busy(t[2], c)'
        BY <2>1, <2>2, <3>1, <3>2 DEF Apart, Busy
      <4>2. \A u \in Busy(t[2], c)' : u = t
        BY <3>1, <4>1, StaysSole DEF Sole
      <4>3. CallClaim(t)'
        BY <2>1, <2>2, <3>1, <4>1 DEF Sole, CallClaim
      <4>4. job[t[2]][c] = "none"
        BY <2>1, <2>2, <4>1 DEF Sole, CallClaim
      <4>5. JobClaim(t[2], c)'
        BY <2>2, <4>1, <4>4 DEF JobClaim
      <4>6. QED
        BY <4>2, <4>3, <4>5 DEF Sole
    <3>3. QED
      BY <2>1, <2>2, <3>1, <3>2, ApartAlone
  <2>5. QED
    BY <2>3, <2>4
<1>16. ASSUME NEW t \in Thread, AddJob(t) PROVE Apart'
  <2>1. PICK c \in Connection : rconn[t] = c
    BY <1>16 DEF AddJob, Frames, CallFrame
  <2>2. /\ rpc[t] = "add" /\ seen[t] \in Interval
        /\ UNCHANGED <<sched, mpc, todo, leader, state, crossed>>
        /\ job'[t[2]][c] = seen[t]
        /\ \A v \in Worker, d \in Connection : <<v, d>> # <<t[2], c>> => job'[v][d] = job[v][d]
    BY <1>16, <2>1 DEF AddJob, TypeOK, Frames, CallFrame
  <2>3. Alone(t) /\ rpc'[t] = "idle"
    BY <1>16, ReturnMoves DEF AddJob
  <2>4. ASSUME <<t[2], c>> \notin crossed PROVE Sole(t[2], c)'
    <3>1. Sole(t[2], c) /\ t \in Busy(t[2], c)
      BY <2>1, <2>2, <2>4 DEF Apart, Busy
    <3>2. Busy(t[2], c)' = {}
      BY <2>3, <3>1, StaysSole DEF Sole, Busy
    <3>3. state[t[2]][c] = seen[t] /\ leader[t[2]] /\ seen[t] # "absent"
      BY <2>1, <2>2, <3>1, SchedulerJobsAssumption DEF Sole, CallClaim
    <3>4. JobClaim(t[2], c)'
      BY <2>2, <3>3 DEF JobClaim, Expected
    <3>5. QED
      BY <3>2, <3>4 DEF Sole
  <2>5. QED
    BY <2>1, <2>2, <2>3, <2>4, ApartAlone
<1>17. ASSUME NEW t \in Caller \X Worker, NEW c \in Connection, NEW v \in Setting, SaveSchedule(t, c, v)
       PROVE  Apart'
  <2>1. Alone(t) /\ rpc'[t] = "guard" /\ rpc[t] = "idle"
    BY <1>17, CallMoves DEF SaveSchedule, Idle
  <2>2. \A d \in Connection : sched[d] = "gone" => sched'[d] = "gone"
    BY <1>17, SchedulerJobsAssumption DEF SaveSchedule, TypeOK, Setting
  <2>3. UNCHANGED <<leader, state, job, crossed, mpc, todo>>
    BY <1>17 DEF SaveSchedule
  <2>4. QED
    BY <2>1, <2>2, <2>3, ApartKept DEF Alone
<1>18. ASSUME NEW t \in Caller \X Worker, NEW c \in Connection, RemoveForDelete(t, c) PROVE Apart'
  <2>1. Alone(t) /\ rpc'[t] = "look" /\ rconn'[t] = c /\ seen'[t] = seen[t]
    BY <1>18, CallMoves DEF RemoveForDelete
  <2>2. /\ rpc[t] = "idle" /\ seen[t] = "absent" /\ Enters(t[2], c, FALSE)
        /\ UNCHANGED <<leader, mpc, todo, state, job, sched>>
    BY <1>18 DEF RemoveForDelete, Idle, Frames, CallFrame
  <2>3. QED
    BY <2>1, <2>2, EnterApart
<1>19. ASSUME NEW t \in Thread, DeleteRow(t) PROVE Apart'
  <2>1. PICK c \in Connection : rconn[t] = c
    BY <1>19 DEF DeleteRow, Frames, CallFrame
  <2>2. /\ rpc[t] = "delete" /\ Alone(t) /\ rpc'[t] = "idle" /\ sched'[c] = "gone"
        /\ \A d \in Connection : sched[d] = "gone" => sched'[d] = "gone"
        /\ UNCHANGED <<leader, mpc, todo, state, job, crossed>>
    BY <1>19, <2>1, ReturnMoves DEF DeleteRow, TypeOK
  <2>3. ASSUME <<t[2], c>> \notin crossed PROVE Sole(t[2], c)'
    <3>1. Sole(t[2], c) /\ t \in Busy(t[2], c)
      BY <2>1, <2>2, <2>3 DEF Apart, Busy
    <3>2. Busy(t[2], c)' = {}
      BY <2>2, <3>1, StaysSole DEF Sole, Busy
    <3>3. ~ Removing(t[2], c)
      BY <2>2, <3>1 DEF Sole, Removing
    <3>4. JobClaim(t[2], c)'
      BY <2>2, <3>1, <3>3 DEF Sole, JobClaim
    <3>5. QED
      BY <3>2, <3>4 DEF Sole
  <2>4. QED
    BY <2>1, <2>2, <2>3, ApartAlone
<1>20. ASSUME NEW t \in Caller \X Worker, RequestRaises(t) PROVE Apart'
  <2>1. PICK c \in Connection : rconn[t] = c
    BY <1>20 DEF RequestRaises, Frames, CallFrame
  <2>2. /\ Alone(t) /\ rpc'[t] = "idle" /\ rpc[t] \in {"guard", "delete"}
        /\ UNCHANGED <<sched, leader, mpc, todo, state, job>>
        /\ crossed' = IF rpc[t] = "delete" THEN crossed \cup {<<t[2], c>>} ELSE crossed
    BY <1>20, <2>1, ReturnMoves DEF RequestRaises
  <2>3. CASE rpc[t] = "guard"
    BY <2>2, <2>3, ApartKept DEF Alone
  <2>4. CASE rpc[t] = "delete"
    BY <2>1, <2>2, <2>4, ApartAlone
  <2>5. QED
    BY <2>2, <2>3, <2>4
<1>21. ASSUME NEW t \in Caller \X Worker, NEW c \in Connection, FireForDeleted(t, c) PROVE Apart'
  <2>1. Alone(t) /\ rpc'[t] = "look" /\ rconn'[t] = c /\ seen'[t] = seen[t]
    BY <1>21, CallMoves DEF FireForDeleted
  <2>2. /\ rpc[t] = "idle" /\ seen[t] = "absent" /\ Enters(t[2], c, FALSE)
        /\ UNCHANGED <<leader, mpc, todo, state, job, sched>>
    BY <1>21 DEF FireForDeleted, Idle, Frames, CallFrame
  <2>3. QED
    BY <2>1, <2>2, EnterApart
<1>22. ASSUME NEW w \in Worker, Crash(w) PROVE Apart'
  <2>1. /\ \A u \in Thread : u[2] = w => rpc'[u] = "idle"
        /\ \A u \in Thread : u[2] # w => Stays(u)
        /\ \A v \in Worker \ {w} : /\ leader'[v] = leader[v] /\ mpc'[v] = mpc[v] /\ todo'[v] = todo[v]
                                   /\ state'[v] = state[v] /\ job'[v] = job[v]
        /\ job'[w] = NoJobs /\ ~ leader'[w]
        /\ crossed' = crossed \ ({w} \X Connection) /\ UNCHANGED sched
    BY <1>22 DEF Crash, TypeOK, Stays
  <2>2. SUFFICES ASSUME NEW v \in Worker, NEW c \in Connection, <<v, c>> \notin crossed'
                 PROVE  Sole(v, c)'
    BY DEF Apart
  <2>3. CASE v = w
    <3>1. Busy(v, c)' = {}
      BY <2>1, <2>3 DEF Busy
    <3>2. JobClaim(v, c)'
      BY <2>1, <2>3 DEF JobClaim, NoJobs
    <3>3. QED
      BY <3>1, <3>2 DEF Sole
  <2>4. CASE v # w
    <3>1. Busy(v, c)' = Busy(v, c) /\ \A u \in Busy(v, c) : Stays(u)
      BY <2>1, <2>4 DEF Busy, Stays
    <3>2. Sole(v, c)
      BY <2>1, <2>2, <2>4 DEF Apart
    <3>3. QED
      BY <2>1, <2>4, <3>1, <3>2, SoleKept
  <2>5. QED
    BY <2>3, <2>4
<1>23. ASSUME UNCHANGED <<leader, state, job, crossed, sched, mpc, todo, calls>> PROVE Apart'
  BY <1>23, ApartKept DEF calls, Stays
<1>24. ASSUME NEW w \in Worker, Restart(w) PROVE Apart'
  BY <1>23, <1>24 DEF Restart
<1>25. CASE ReapSession \/ DropSession \/ UNCHANGED vars
  BY <1>23, <1>25 DEF ReapSession, DropSession, vars
<1>26. QED
  BY <1>1, <1>2, <1>3, <1>4, <1>5, <1>6, <1>7, <1>8, <1>9, <1>10, <1>11, <1>12, <1>13,
     <1>14, <1>15, <1>16, <1>17, <1>18, <1>19, <1>20, <1>21, <1>22, <1>24, <1>25
     DEF Next, MaintenanceStep, PassStep, CallStep

-----------------------------------------------------------------------------
(* Theorems *)

\* No worker starts as leader, with a job or in the middle of a call.
LEMMA InitJobs == Init => JobsInv
<1>1. SUFFICES ASSUME Init PROVE JobsInv
  OBVIOUS
<1>2. TypeOK
  BY <1>1, SchedulerJobsAssumption DEF Init, TypeOK, Setting, Thread, NoneWanted, NoJobs
<1>3. Frames
  BY <1>1, Threads DEF Init, Frames, PassFrame, CallFrame
<1>4. Apart
  BY <1>1 DEF Init, Apart, Sole, Busy, JobClaim, NoJobs, NoneWanted
<1>5. QED
  BY <1>2, <1>3, <1>4 DEF JobsInv

\* The invariant behind the theorems below: every thread's place in the code tells
\* what its call is about, and calls that did not cross find the job and the record
\* as they left them.
THEOREM JobsInvariant == Spec => []JobsInv
<1>1. JobsInv /\ [Next]_vars => JobsInv'
  BY TypeStep, FramesStep, ApartStep DEF JobsInv
<1>2. QED
  BY InitJobs, <1>1, PTL DEF Spec

\* "Only one runs scheduled scans: the one holding the scheduler advisory lock": a
\* worker that lost the lock and is through the loop of _drop_scan_jobs has no scan
\* job left, whatever sessions are lost and whatever requests, failures and crashes
\* come between the statements, unless the last calls about it crossed.
THEOREM LeaderKeepsTheJobs == Spec => []OnlyLeaderHasJobs
<1>1. JobsInv => OnlyLeaderHasJobs
  BY DEF JobsInv, Apart, Sole, JobClaim, OnlyLeaderHasJobs
<1>2. QED
  BY <1>1, JobsInvariant, PTL

\* "What the leader has jobs for": a connection on the leader's record has exactly
\* the job of its record whenever no call about it is under way, unless the last
\* calls about it crossed or a deletion failed after it had removed the job.
THEOREM RecordsAreBacked == Spec => []RecordedMeansJob
<1>1. JobsInv => RecordedMeansJob
  BY DEF JobsInv, Apart, Sole, JobClaim, RecordedMeansJob
<1>2. QED
  BY <1>1, JobsInvariant, PTL

=============================================================================
