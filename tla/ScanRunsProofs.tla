--------------------------- MODULE ScanRunsProofs ---------------------------
(***************************************************************************)
(* Proofs about ScanRuns, for any number of workers, threads, connections  *)
(* and runs, and any bounds on crashes, restarts and faults.               *)
(***************************************************************************)
EXTENDS ScanRuns, FiniteSetTheorems, TLAPS

\* Every step keeps the types; run_scan's locals are what Frames says.
LEMMA TypeStep ==
  ASSUME TypeOK, Frames, [Next]_vars
  PROVE  TypeOK'
<1> USE ScanRunsAssumption DEF TypeOK, Frames, InLock, RowOpen, Outside, Status, Final,
        Goto, Return, rows, locals, sweep, used
<1>1. ASSUME NEW s \in Scanner, NEW c \in Connection, NEW r \in RunId, RunScan(s, c, r)
     PROVE TypeOK'
  BY <1>1 DEF RunScan, Fresh
<1>2. ASSUME NEW s \in Scanner, TryAdvisoryLock(s) PROVE TypeOK'
  BY <1>2 DEF TryAdvisoryLock
<1>3. ASSUME NEW s \in Scanner, CreateSkipped(s) PROVE TypeOK'
  BY <1>3 DEF CreateSkipped
<1>4. ASSUME NEW s \in Scanner, NoteSkipped(s) PROVE TypeOK'
  BY <1>4 DEF NoteSkipped, WriteStatus
<1>5. ASSUME NEW s \in Scanner, CreateRun(s) PROVE TypeOK'
  BY <1>5 DEF CreateRun
<1>6. ASSUME NEW s \in Scanner, Collect(s) PROVE TypeOK'
  BY <1>6 DEF Collect
<1>7. ASSUME NEW s \in Scanner, SaveSnapshot(s) PROVE TypeOK'
  BY <1>7 DEF SaveSnapshot
<1>8. ASSUME NEW s \in Scanner, SaveFindings(s) PROVE TypeOK'
  BY <1>8 DEF SaveFindings
<1>9. ASSUME NEW s \in Scanner, SaveChanges(s) PROVE TypeOK'
  BY <1>9 DEF SaveChanges
<1>10. ASSUME NEW s \in Scanner, FinishRun(s) PROVE TypeOK'
  BY <1>10 DEF FinishRun, UpdateRun
<1>11. ASSUME NEW s \in Scanner, NoteFinished(s) PROVE TypeOK'
  BY <1>11 DEF NoteFinished, WriteStatus
<1>12. ASSUME NEW s \in Scanner, Release(s) PROVE TypeOK'
  BY <1>12 DEF Release, Unlocked
<1>13. ASSUME NEW s \in Scanner, StatementRaises(s) PROVE TypeOK'
  BY <1>13, SMTT(30) DEF StatementRaises
<1>14. ASSUME NEW s \in Scanner, AnswerLost(s) PROVE TypeOK'
  BY <1>14, SMTT(30) DEF AnswerLost, UpdateRun
<1>15. ASSUME NEW w \in Worker, SelectStuck(w) PROVE TypeOK'
  BY <1>15 DEF SelectStuck
<1>16. ASSUME NEW w \in Worker, NEW c \in Connection, TryIdle(w, c) PROVE TypeOK'
  BY <1>16, SMTT(30) DEF TryIdle
<1>17. ASSUME NEW w \in Worker, MarkInterrupted(w) PROVE TypeOK'
  BY <1>17 DEF MarkInterrupted, Running
<1>18. ASSUME NEW w \in Worker, EndVisit(w) PROVE TypeOK'
  BY <1>18 DEF EndVisit, LeaveLock, Unlocked
<1>19. ASSUME NEW w \in Worker, SweepRaises(w) PROVE TypeOK'
  BY <1>19 DEF SweepRaises, LeaveLock, Unlocked
<1>20. ASSUME NEW c \in Connection, DeleteConnection(c) PROVE TypeOK'
  BY <1>20 DEF DeleteConnection
<1>21. ASSUME NEW c \in Connection, ReapSession(c) PROVE TypeOK'
  BY <1>21 DEF ReapSession
<1>22. ASSUME NEW r \in RunId, DeleteSnapshot(r) PROVE TypeOK'
  BY <1>22 DEF DeleteSnapshot
<1>23. ASSUME NEW w \in Worker, Crash(w) PROVE TypeOK'
  BY <1>23 DEF Crash
<1>24. ASSUME NEW w \in Worker, Restart(w) PROVE TypeOK'
  BY <1>24 DEF Restart
<1>25. CASE DropSessions
  BY <1>25 DEF DropSessions
<1>26. CASE UNCHANGED vars
  BY <1>26 DEF vars
<1>27. QED
  BY <1>1, <1>2, <1>3, <1>4, <1>5, <1>6, <1>7, <1>8, <1>9, <1>10, <1>11, <1>12, <1>13,
     <1>14, <1>15, <1>16, <1>17, <1>18, <1>19, <1>20, <1>21, <1>22, <1>23, <1>24, <1>25, <1>26
     DEF Next, ScanStep, SweepStep

\* Every step keeps each scan's frame apart from the others and tied to its row.
LEMMA FramesStep ==
  ASSUME TypeOK, Frames, [Next]_vars
  PROVE  Frames'
<1> USE ScanRunsAssumption DEF TypeOK, Frames, InLock, RowOpen, Outside, Status, Final,
        Goto, Return, rows, locals, sweep, used
<1>1. ASSUME NEW s \in Scanner, NEW c \in Connection, NEW r \in RunId, RunScan(s, c, r)
     PROVE Frames'
  BY <1>1 DEF RunScan, Fresh
<1>2. ASSUME NEW s \in Scanner, TryAdvisoryLock(s) PROVE Frames'
  BY <1>2 DEF TryAdvisoryLock
<1>3. ASSUME NEW s \in Scanner, CreateSkipped(s) PROVE Frames'
  BY <1>3 DEF CreateSkipped
<1>4. ASSUME NEW s \in Scanner, NoteSkipped(s) PROVE Frames'
  BY <1>4 DEF NoteSkipped, WriteStatus
<1>5. ASSUME NEW s \in Scanner, CreateRun(s) PROVE Frames'
  BY <1>5 DEF CreateRun
<1>6. ASSUME NEW s \in Scanner, Collect(s) PROVE Frames'
  BY <1>6 DEF Collect
<1>7. ASSUME NEW s \in Scanner, SaveSnapshot(s) PROVE Frames'
  BY <1>7 DEF SaveSnapshot
<1>8. ASSUME NEW s \in Scanner, SaveFindings(s) PROVE Frames'
  BY <1>8 DEF SaveFindings
<1>9. ASSUME NEW s \in Scanner, SaveChanges(s) PROVE Frames'
  BY <1>9 DEF SaveChanges
<1>10. ASSUME NEW s \in Scanner, FinishRun(s) PROVE Frames'
  BY <1>10 DEF FinishRun, UpdateRun
<1>11. ASSUME NEW s \in Scanner, NoteFinished(s) PROVE Frames'
  BY <1>11 DEF NoteFinished, WriteStatus
<1>12. ASSUME NEW s \in Scanner, Release(s) PROVE Frames'
  BY <1>12 DEF Release, Unlocked
<1>13. ASSUME NEW s \in Scanner, StatementRaises(s) PROVE Frames'
  BY <1>13, SMTT(30) DEF StatementRaises
<1>14. ASSUME NEW s \in Scanner, AnswerLost(s) PROVE Frames'
  BY <1>14 DEF AnswerLost, UpdateRun
<1>15. ASSUME NEW w \in Worker, SelectStuck(w) PROVE Frames'
  BY <1>15 DEF SelectStuck
<1>16. ASSUME NEW w \in Worker, NEW c \in Connection, TryIdle(w, c) PROVE Frames'
  BY <1>16 DEF TryIdle
<1>17. ASSUME NEW w \in Worker, MarkInterrupted(w) PROVE Frames'
  BY <1>17 DEF MarkInterrupted, Running
<1>18. ASSUME NEW w \in Worker, EndVisit(w) PROVE Frames'
  BY <1>18 DEF EndVisit, LeaveLock, Unlocked
<1>19. ASSUME NEW w \in Worker, SweepRaises(w) PROVE Frames'
  BY <1>19 DEF SweepRaises, LeaveLock, Unlocked
<1>20. ASSUME NEW c \in Connection, DeleteConnection(c) PROVE Frames'
  BY <1>20 DEF DeleteConnection
<1>21. ASSUME NEW c \in Connection, ReapSession(c) PROVE Frames'
  BY <1>21 DEF ReapSession
<1>22. ASSUME NEW r \in RunId, DeleteSnapshot(r) PROVE Frames'
  BY <1>22 DEF DeleteSnapshot
<1>23. ASSUME NEW w \in Worker, Crash(w) PROVE Frames'
  BY <1>23 DEF Crash
<1>24. ASSUME NEW w \in Worker, Restart(w) PROVE Frames'
  BY <1>24 DEF Restart
<1>25. CASE DropSessions
  BY <1>25 DEF DropSessions
<1>26. CASE UNCHANGED vars
  BY <1>26 DEF vars
<1>27. QED
  BY <1>1, <1>2, <1>3, <1>4, <1>5, <1>6, <1>7, <1>8, <1>9, <1>10, <1>11, <1>12, <1>13,
     <1>14, <1>15, <1>16, <1>17, <1>18, <1>19, <1>20, <1>21, <1>22, <1>23, <1>24, <1>25, <1>26
     DEF Next, ScanStep, SweepStep

\* While no session was lost, every step keeps the lock with whoever is in the
\* block it protects, and every live row open.
LEMMA HeldStep ==
  ASSUME TypeOK, Frames, Held, [Next]_vars, drops' = 0, drops = 0
  PROVE  Held'
<1> USE ScanRunsAssumption DEF TypeOK, Frames, Held, Scanning, LiveRunIsRunning, InLock, RowOpen, Outside, Status, Final,
        Goto, Return, rows, locals, sweep, used
<1>1. ASSUME NEW s \in Scanner, NEW c \in Connection, NEW r \in RunId, RunScan(s, c, r)
     PROVE Held'
  BY <1>1 DEF RunScan, Fresh
<1>2. ASSUME NEW s \in Scanner, TryAdvisoryLock(s) PROVE Held'
  BY <1>2 DEF TryAdvisoryLock
<1>3. ASSUME NEW s \in Scanner, CreateSkipped(s) PROVE Held'
  BY <1>3 DEF CreateSkipped
<1>4. ASSUME NEW s \in Scanner, NoteSkipped(s) PROVE Held'
  BY <1>4 DEF NoteSkipped, WriteStatus
<1>5. ASSUME NEW s \in Scanner, CreateRun(s) PROVE Held'
  BY <1>5 DEF CreateRun
<1>6. ASSUME NEW s \in Scanner, Collect(s) PROVE Held'
  BY <1>6 DEF Collect
<1>7. ASSUME NEW s \in Scanner, SaveSnapshot(s) PROVE Held'
  BY <1>7 DEF SaveSnapshot
<1>8. ASSUME NEW s \in Scanner, SaveFindings(s) PROVE Held'
  BY <1>8 DEF SaveFindings
<1>9. ASSUME NEW s \in Scanner, SaveChanges(s) PROVE Held'
  BY <1>9 DEF SaveChanges
<1>10. ASSUME NEW s \in Scanner, FinishRun(s) PROVE Held'
  BY <1>10 DEF FinishRun, UpdateRun
<1>11. ASSUME NEW s \in Scanner, NoteFinished(s) PROVE Held'
  BY <1>11 DEF NoteFinished, WriteStatus
<1>12. ASSUME NEW s \in Scanner, Release(s) PROVE Held'
  BY <1>12 DEF Release, Unlocked
<1>13. ASSUME NEW s \in Scanner, StatementRaises(s) PROVE Held'
  BY <1>13 DEF StatementRaises
<1>14. ASSUME NEW s \in Scanner, AnswerLost(s) PROVE Held'
  BY <1>14 DEF AnswerLost, UpdateRun
<1>15. ASSUME NEW w \in Worker, SelectStuck(w) PROVE Held'
  BY <1>15 DEF SelectStuck
<1>16. ASSUME NEW w \in Worker, NEW c \in Connection, TryIdle(w, c) PROVE Held'
  BY <1>16 DEF TryIdle
<1>17. ASSUME NEW w \in Worker, MarkInterrupted(w) PROVE Held'
  BY <1>17 DEF MarkInterrupted, Running
<1>18. ASSUME NEW w \in Worker, EndVisit(w) PROVE Held'
  BY <1>18 DEF EndVisit, LeaveLock, Unlocked
<1>19. ASSUME NEW w \in Worker, SweepRaises(w) PROVE Held'
  BY <1>19 DEF SweepRaises, LeaveLock, Unlocked
<1>20. ASSUME NEW c \in Connection, DeleteConnection(c) PROVE Held'
  BY <1>20 DEF DeleteConnection
<1>21. ASSUME NEW c \in Connection, ReapSession(c) PROVE Held'
  BY <1>21 DEF ReapSession
<1>22. ASSUME NEW r \in RunId, DeleteSnapshot(r) PROVE Held'
  BY <1>22 DEF DeleteSnapshot
<1>23. ASSUME NEW w \in Worker, Crash(w) PROVE Held'
  BY <1>23 DEF Crash
<1>24. ASSUME NEW w \in Worker, Restart(w) PROVE Held'
  BY <1>24 DEF Restart
<1>25. CASE DropSessions
  BY <1>25 DEF DropSessions
<1>26. CASE UNCHANGED vars
  BY <1>26 DEF vars
<1>27. QED
  BY <1>1, <1>2, <1>3, <1>4, <1>5, <1>6, <1>7, <1>8, <1>9, <1>10, <1>11, <1>12, <1>13,
     <1>14, <1>15, <1>16, <1>17, <1>18, <1>19, <1>20, <1>21, <1>22, <1>23, <1>24, <1>25, <1>26
     DEF Next, ScanStep, SweepStep

\* The invariant holds before anything runs.
LEMMA InitInv == Init => ScanRunsInv
BY ScanRunsAssumption
   DEF Init, ScanRunsInv, TypeOK, Frames, Held, Scanning, LiveRunIsRunning, InLock, RowOpen,
       Outside, Status

\* Only a database restart counts as one ...
LEMMA DropsKept ==
  ASSUME TypeOK, [Next]_vars, ~ DropSessions
  PROVE  drops' = drops
<1> USE DEF TypeOK, locals, sweep, used
<1>1. CASE Next
  BY <1>1 DEF Next, ScanStep, SweepStep, RunScan, TryAdvisoryLock, CreateSkipped, NoteSkipped,
     CreateRun, Collect, SaveSnapshot, SaveFindings, SaveChanges, FinishRun, NoteFinished, Release,
     StatementRaises, AnswerLost, SelectStuck, TryIdle, MarkInterrupted, EndVisit, SweepRaises,
     DeleteConnection, ReapSession, DeleteSnapshot, Crash, Restart
<1>2. CASE UNCHANGED vars
  BY <1>2 DEF vars
<1>. QED
  BY <1>1, <1>2, SMTT(30)

\* ... so sessions are lost, never regained.
LEMMA DropsGrow ==
  ASSUME TypeOK, [Next]_vars, drops' = 0
  PROVE  drops = 0
<1>1. CASE DropSessions
  BY <1>1 DEF DropSessions, TypeOK
<1>2. CASE ~ DropSessions
  BY <1>2, DropsKept
<1>. QED
  BY <1>1, <1>2

\* The invariant of ScanRuns: types, separate frames, and, until a database
\* restart ends a session under its scan, the lock held by whoever needs it.
THEOREM Invariance == Spec => []ScanRunsInv
<1>1. ScanRunsInv /\ [Next]_vars => ScanRunsInv'
  BY TypeStep, FramesStep, HeldStep, DropsGrow DEF ScanRunsInv
<1>2. QED
  BY InitInv, <1>1, PTL DEF Spec

\* The type invariant holds in every reachable state.
THEOREM Typing == Spec => []TypeOK
<1>1. ScanRunsInv => TypeOK
  BY DEF ScanRunsInv
<1>2. QED
  BY <1>1, Invariance, PTL

\* A lock has one holder, so two threads that hold it are the same thread.
LEMMA HeldExcludes ==
  ASSUME TypeOK, Held
  PROVE  OneScanAtATime
BY DEF Held, OneScanAtATime, Scanning, TypeOK

\* The lock does what it is for: as long as no database session was lost, two
\* scans of one connection never overlap, whatever crashes and failures happen.
THEOREM ScansDoNotOverlap == Spec => [](drops = 0 => OneScanAtATime)
<1>1. ScanRunsInv => (drops = 0 => OneScanAtATime)
  BY HeldExcludes DEF ScanRunsInv
<1>2. QED
  BY <1>1, Invariance, PTL

\* A sweep never closes the row of a scan that is still running.
THEOREM SweepsSpareLiveScans == Spec => [](drops = 0 => LiveRunIsRunning)
<1>1. ScanRunsInv => (drops = 0 => LiveRunIsRunning)
  BY DEF ScanRunsInv, Held
<1>2. QED
  BY <1>1, Invariance, PTL

\* What a step may make of the status of a closed run.
Kept(q) ==
  runStatus'[q] \in {runStatus[q], "deleted"} \cup (IF Reclosing(q) THEN {"error"} ELSE {})

\* No step rewrites a closed run, but for the exception handler of its own scan.
LEMMA FinalStep ==
  ASSUME TypeOK, Frames, Held, [Next]_vars, NEW q \in RunId, runStatus[q] \in Final
  PROVE  Kept(q)
<1> USE DEF Kept, TypeOK, Frames, Held, LiveRunIsRunning, InLock, RowOpen, Outside, Status, Final,
        rows, locals, sweep, used
<1>1. CASE runStatus' = runStatus
  BY <1>1
<1>2. ASSUME NEW s \in Scanner, CreateSkipped(s) \/ CreateRun(s) \/ AnswerLost(s)
      PROVE Kept(q)
  BY <1>2 DEF CreateSkipped, CreateRun, AnswerLost, UpdateRun
<1>3. ASSUME NEW s \in Scanner, FinishRun(s) PROVE Kept(q)
  <2>1. run[s] = q => pc[s] = "fail" /\ runStatus[q] = "ok"
    BY <1>3 DEF FinishRun
  <2>2. CASE run[s] = q
    BY <1>3, <2>1, <2>2 DEF FinishRun, UpdateRun, Reclosing
  <2>3. CASE run[s] # q
    BY <1>3, <2>3 DEF FinishRun, UpdateRun
  <2>4. QED
    BY <2>2, <2>3
<1>4. ASSUME NEW w \in Worker, MarkInterrupted(w)
      PROVE Kept(q)
  BY <1>4 DEF MarkInterrupted, Running
<1>5. ASSUME NEW c \in Connection, DeleteConnection(c)
      PROVE Kept(q)
  BY <1>5 DEF DeleteConnection
<1>6. QED
  BY <1>1, <1>2, <1>3, <1>4, <1>5
     DEF Next, vars, ScanStep, SweepStep, RunScan, TryAdvisoryLock, NoteSkipped, Collect,
         SaveSnapshot, SaveFindings, SaveChanges, NoteFinished, Release, StatementRaises,
         SelectStuck, TryIdle, EndVisit, SweepRaises, ReapSession, DeleteSnapshot, Crash,
         Restart, DropSessions

\* Without lost sessions no late finish_run and no sweep rewrites scan history.
THEOREM HistoryIsFinal ==
  ASSUME MaxDrops = 0
  PROVE  Spec => TerminalStatusIsFinal
<1>1. ScanRunsInv => drops = 0 /\ TypeOK /\ Frames /\ Held
  BY DEF ScanRunsInv, TypeOK, Frames
<1>2. ScanRunsInv /\ [Next]_vars
        => [\A r \in RunId : runStatus[r] \in Final => Kept(r)]_vars
  BY <1>1, FinalStep
<1>3. QED
  BY <1>2, Invariance, PTL DEF Spec, TerminalStatusIsFinal, Kept

\* A run that backs a status is closed and its scan is past writing to it: no step takes
\* it away but one that takes the status too.
LEMMA BackingKept ==
  ASSUME TypeOK, Frames, [Next]_vars, NEW c \in Connection, NEW r \in RunId,
         Backs(r, c), lastStatus[c] # Nobody, lastStatus'[c] = lastStatus[c]
  PROVE  Backs(r, c)'
<1> USE ScanRunsAssumption DEF TypeOK, Frames, InLock, RowOpen, Outside, Status, Final,
        Goto, Return, rows, locals, sweep, used, Backs
<1>0. runStatus[r] \in Final OBVIOUS
<1>1. ASSUME NEW s \in Scanner, NEW d \in Connection, NEW q \in RunId, RunScan(s, d, q)
     PROVE Backs(r, c)'
  BY <1>1 DEF RunScan, Fresh
<1>2. ASSUME NEW s \in Scanner, TryAdvisoryLock(s) PROVE Backs(r, c)'
  BY <1>2 DEF TryAdvisoryLock
<1>3. ASSUME NEW s \in Scanner, CreateSkipped(s) PROVE Backs(r, c)'
  BY <1>3 DEF CreateSkipped
<1>4. ASSUME NEW s \in Scanner, NoteSkipped(s) PROVE Backs(r, c)'
  BY <1>4 DEF NoteSkipped, WriteStatus
<1>5. ASSUME NEW s \in Scanner, CreateRun(s) PROVE Backs(r, c)'
  BY <1>5 DEF CreateRun
<1>6. ASSUME NEW s \in Scanner, Collect(s) PROVE Backs(r, c)'
  BY <1>6 DEF Collect
<1>7. ASSUME NEW s \in Scanner, SaveSnapshot(s) PROVE Backs(r, c)'
  BY <1>7 DEF SaveSnapshot
<1>8. ASSUME NEW s \in Scanner, SaveFindings(s) PROVE Backs(r, c)'
  BY <1>8 DEF SaveFindings
<1>9. ASSUME NEW s \in Scanner, SaveChanges(s) PROVE Backs(r, c)'
  BY <1>9 DEF SaveChanges
<1>10. ASSUME NEW s \in Scanner, FinishRun(s) PROVE Backs(r, c)'
  BY <1>10 DEF FinishRun, UpdateRun
<1>11. ASSUME NEW s \in Scanner, NoteFinished(s) PROVE Backs(r, c)'
  BY <1>11 DEF NoteFinished, WriteStatus
<1>12. ASSUME NEW s \in Scanner, Release(s) PROVE Backs(r, c)'
  BY <1>12 DEF Release, Unlocked
<1>13. ASSUME NEW s \in Scanner, StatementRaises(s) PROVE Backs(r, c)'
  BY <1>13 DEF StatementRaises
<1>14. ASSUME NEW s \in Scanner, AnswerLost(s) PROVE Backs(r, c)'
  BY <1>14 DEF AnswerLost, UpdateRun
<1>15. ASSUME NEW w \in Worker, SelectStuck(w) PROVE Backs(r, c)'
  BY <1>15 DEF SelectStuck
<1>16. ASSUME NEW w \in Worker, NEW d \in Connection, TryIdle(w, d) PROVE Backs(r, c)'
  BY <1>16 DEF TryIdle
<1>17. ASSUME NEW w \in Worker, MarkInterrupted(w) PROVE Backs(r, c)'
  BY <1>17 DEF MarkInterrupted, Running
<1>18. ASSUME NEW w \in Worker, EndVisit(w) PROVE Backs(r, c)'
  BY <1>18 DEF EndVisit, LeaveLock, Unlocked
<1>19. ASSUME NEW w \in Worker, SweepRaises(w) PROVE Backs(r, c)'
  BY <1>19 DEF SweepRaises, LeaveLock, Unlocked
<1>20. ASSUME NEW d \in Connection, DeleteConnection(d) PROVE Backs(r, c)'
  BY <1>20 DEF DeleteConnection
<1>21. ASSUME NEW d \in Connection, ReapSession(d) PROVE Backs(r, c)'
  BY <1>21 DEF ReapSession
<1>22. ASSUME NEW q \in RunId, DeleteSnapshot(q) PROVE Backs(r, c)'
  BY <1>22 DEF DeleteSnapshot
<1>23. ASSUME NEW w \in Worker, Crash(w) PROVE Backs(r, c)'
  BY <1>23 DEF Crash
<1>24. ASSUME NEW w \in Worker, Restart(w) PROVE Backs(r, c)'
  BY <1>24 DEF Restart
<1>25. CASE DropSessions
  BY <1>25 DEF DropSessions
<1>26. CASE UNCHANGED vars
  BY <1>26 DEF vars
<1>27. QED
  BY <1>1, <1>2, <1>3, <1>4, <1>5, <1>6, <1>7, <1>8, <1>9, <1>10, <1>11, <1>12, <1>13,
     <1>14, <1>15, <1>16, <1>17, <1>18, <1>19, <1>20, <1>21, <1>22, <1>23, <1>24, <1>25, <1>26
     DEF Next, ScanStep, SweepStep

\* What a scan is about to write to its schedule stays true until it does.
LEMMA PendingStep ==
  ASSUME TypeOK, Frames, PendingBacked, [Next]_vars
  PROVE  PendingBacked'
<1> USE ScanRunsAssumption DEF TypeOK, Frames, InLock, RowOpen, Outside, Status, Final,
        Goto, Return, rows, locals, sweep, used, PendingBacked
<1>1. ASSUME NEW s \in Scanner, NEW c \in Connection, NEW r \in RunId, RunScan(s, c, r)
     PROVE PendingBacked'
  BY <1>1 DEF RunScan, Fresh
<1>2. ASSUME NEW s \in Scanner, TryAdvisoryLock(s) PROVE PendingBacked'
  BY <1>2 DEF TryAdvisoryLock
<1>3. ASSUME NEW s \in Scanner, CreateSkipped(s) PROVE PendingBacked'
  BY <1>3 DEF CreateSkipped
<1>4. ASSUME NEW s \in Scanner, NoteSkipped(s) PROVE PendingBacked'
  BY <1>4 DEF NoteSkipped, WriteStatus
<1>5. ASSUME NEW s \in Scanner, CreateRun(s) PROVE PendingBacked'
  BY <1>5 DEF CreateRun
<1>6. ASSUME NEW s \in Scanner, Collect(s) PROVE PendingBacked'
  BY <1>6 DEF Collect
<1>7. ASSUME NEW s \in Scanner, SaveSnapshot(s) PROVE PendingBacked'
  BY <1>7 DEF SaveSnapshot
<1>8. ASSUME NEW s \in Scanner, SaveFindings(s) PROVE PendingBacked'
  BY <1>8 DEF SaveFindings
<1>9. ASSUME NEW s \in Scanner, SaveChanges(s) PROVE PendingBacked'
  BY <1>9 DEF SaveChanges
<1>10. ASSUME NEW s \in Scanner, FinishRun(s) PROVE PendingBacked'
  BY <1>10 DEF FinishRun, UpdateRun
<1>11. ASSUME NEW s \in Scanner, NoteFinished(s) PROVE PendingBacked'
  BY <1>11 DEF NoteFinished, WriteStatus
<1>12. ASSUME NEW s \in Scanner, Release(s) PROVE PendingBacked'
  BY <1>12 DEF Release, Unlocked
<1>13. ASSUME NEW s \in Scanner, StatementRaises(s) PROVE PendingBacked'
  BY <1>13 DEF StatementRaises
<1>14. ASSUME NEW s \in Scanner, AnswerLost(s) PROVE PendingBacked'
  BY <1>14 DEF AnswerLost, UpdateRun
<1>15. ASSUME NEW w \in Worker, SelectStuck(w) PROVE PendingBacked'
  BY <1>15 DEF SelectStuck
<1>16. ASSUME NEW w \in Worker, NEW c \in Connection, TryIdle(w, c) PROVE PendingBacked'
  BY <1>16 DEF TryIdle
<1>17. ASSUME NEW w \in Worker, MarkInterrupted(w) PROVE PendingBacked'
  BY <1>17 DEF MarkInterrupted, Running
<1>18. ASSUME NEW w \in Worker, EndVisit(w) PROVE PendingBacked'
  BY <1>18 DEF EndVisit, LeaveLock, Unlocked
<1>19. ASSUME NEW w \in Worker, SweepRaises(w) PROVE PendingBacked'
  BY <1>19 DEF SweepRaises, LeaveLock, Unlocked
<1>20. ASSUME NEW c \in Connection, DeleteConnection(c) PROVE PendingBacked'
  BY <1>20 DEF DeleteConnection
<1>21. ASSUME NEW c \in Connection, ReapSession(c) PROVE PendingBacked'
  BY <1>21 DEF ReapSession
<1>22. ASSUME NEW r \in RunId, DeleteSnapshot(r) PROVE PendingBacked'
  BY <1>22 DEF DeleteSnapshot
<1>23. ASSUME NEW w \in Worker, Crash(w) PROVE PendingBacked'
  BY <1>23 DEF Crash
<1>24. ASSUME NEW w \in Worker, Restart(w) PROVE PendingBacked'
  BY <1>24 DEF Restart
<1>25. CASE DropSessions
  BY <1>25 DEF DropSessions
<1>26. CASE UNCHANGED vars
  BY <1>26 DEF vars
<1>27. QED
  BY <1>1, <1>2, <1>3, <1>4, <1>5, <1>6, <1>7, <1>8, <1>9, <1>10, <1>11, <1>12, <1>13,
     <1>14, <1>15, <1>16, <1>17, <1>18, <1>19, <1>20, <1>21, <1>22, <1>23, <1>24, <1>25, <1>26
     DEF Next, ScanStep, SweepStep

\* The schedule's status changes only to that of the run whose scan writes it, or goes
\* with its connection; a connection goes only with its status.
LEMMA StatusWritten ==
  ASSUME TypeOK, Frames, PendingBacked, [Next]_vars, NEW c \in Connection
  PROVE  /\ lastStatus'[c] \notin {Nobody, lastStatus[c]} => c \in connections' /\ \E r \in RunId : Backs(r, c)'
         /\ c \in connections /\ c \notin connections' => lastStatus'[c] = Nobody
<1> USE ScanRunsAssumption DEF TypeOK, Frames, InLock, RowOpen, Outside, rows
<1>1. CASE UNCHANGED <<lastStatus, connections>>
  BY <1>1
<1>2. ASSUME NEW s \in Scanner, NoteSkipped(s) \/ NoteFinished(s), lastStatus'[c] # lastStatus[c]
      PROVE  c \in connections' /\ \E r \in RunId : Backs(r, c)'
  <2>1. /\ pc[s] \in {"noteSkip", "note"} /\ conn[s] = c /\ c \in connections
        /\ lastStatus'[c] = outcome[s] /\ UNCHANGED <<connections, runConn, runStatus>>
        /\ \/ run' = run /\ pc' = [pc EXCEPT ![s] = "release"]
           \/ run' = [run EXCEPT ![s] = Nobody]
    BY <1>2 DEF NoteSkipped, NoteFinished, WriteStatus, Return, Goto, locals
  <2>2. PICK r \in RunId : r = run[s]
    BY <2>1
  <2>3. runConn[r] = c /\ runStatus[r] = outcome[s]
    BY <2>1, <2>2 DEF PendingBacked
  <2>4. \A t \in Scanner : run'[t] = r => pc'[t] = "release"
    BY <2>1, <2>2
  <2>5. Backs(r, c)'
    BY <2>1, <2>3, <2>4 DEF Backs
  <2>. QED BY <2>1, <2>5
<1>3. ASSUME NEW s \in Scanner, NoteSkipped(s) \/ NoteFinished(s)
      PROVE  connections' = connections
  BY <1>3 DEF NoteSkipped, NoteFinished
<1>4. ASSUME NEW d \in Connection, DeleteConnection(d)
      PROVE  /\ lastStatus'[c] \in {Nobody, lastStatus[c]}
             /\ c \in connections /\ c \notin connections' => lastStatus'[c] = Nobody
  BY <1>4 DEF DeleteConnection
<1>. QED
  BY <1>1, <1>2, <1>3, <1>4
     DEF Next, vars, ScanStep, SweepStep, RunScan, TryAdvisoryLock, CreateSkipped, CreateRun,
         Collect, SaveSnapshot, SaveFindings, SaveChanges, FinishRun, Release, StatementRaises,
         AnswerLost, SelectStuck, TryIdle, MarkInterrupted, EndVisit, SweepRaises, ReapSession,
         DeleteSnapshot, Crash, Restart, DropSessions

\* The status a schedule shows is one the history of its connection has, although run
\* and schedule are written by two transactions with crashes, sweeps, refused scans and
\* lost sessions between them (finish_run and update_schedule, scheduler.py:301-311).
THEOREM StatusesAreBacked == Spec => []LastStatusBacked
<1>1. Init => StatusesBacked
  BY DEF Init, StatusesBacked, PendingBacked, RowOpen
<1>2. ASSUME ScanRunsInv, StatusesBacked, [Next]_vars PROVE StatusesBacked'
  <2>. USE DEF ScanRunsInv, StatusesBacked
  <2>1. PendingBacked' BY <1>2, PendingStep
  <2>2. ASSUME NEW c \in Connection, lastStatus'[c] # Nobody
        PROVE  c \in connections' /\ \E r \in RunId : Backs(r, c)'
    <3>1. CASE lastStatus'[c] # lastStatus[c]
      BY <1>2, <2>2, <3>1, StatusWritten
    <3>2. CASE lastStatus'[c] = lastStatus[c]
      <4>1. PICK r \in RunId : Backs(r, c) BY <1>2, <2>2, <3>2
      <4>2. Backs(r, c)' BY <1>2, <2>2, <3>2, <4>1, BackingKept
      <4>. QED BY <1>2, <2>2, <3>2, <4>2, StatusWritten
    <3>. QED BY <3>1, <3>2
  <2>. QED BY <2>1, <2>2
<1>3. StatusesBacked => LastStatusBacked
  BY DEF StatusesBacked, LastStatusBacked, Backs
<1>. QED BY <1>1, <1>2, <1>3, Invariance, PTL DEF Spec

\* No step but a database restart makes a scan go on without its lock.
LEMMA NoNewOrphans ==
  ASSUME TypeOK, Frames, [Next]_vars, ~ DropSessions, NEW c \in Connection, NEW o \in Scanner,
         o \in Orphans(c)'
  PROVE  o \in Orphans(c)
<1> USE ScanRunsAssumption DEF TypeOK, Frames, Orphans, Scanning, InLock, RowOpen, Outside,
        Goto, Return, rows, locals, sweep, used
<1>1. ASSUME NEW s \in Scanner, NEW d \in Connection, NEW q \in RunId, RunScan(s, d, q)
     PROVE o \in Orphans(c)
  BY <1>1 DEF RunScan, Fresh
<1>2. ASSUME NEW s \in Scanner, TryAdvisoryLock(s) PROVE o \in Orphans(c)
  BY <1>2 DEF TryAdvisoryLock
<1>3. ASSUME NEW s \in Scanner, CreateSkipped(s) PROVE o \in Orphans(c)
  BY <1>3 DEF CreateSkipped
<1>4. ASSUME NEW s \in Scanner, NoteSkipped(s) PROVE o \in Orphans(c)
  BY <1>4 DEF NoteSkipped, WriteStatus
<1>5. ASSUME NEW s \in Scanner, CreateRun(s) PROVE o \in Orphans(c)
  BY <1>5 DEF CreateRun
<1>6. ASSUME NEW s \in Scanner, Collect(s) PROVE o \in Orphans(c)
  BY <1>6 DEF Collect
<1>7. ASSUME NEW s \in Scanner, SaveSnapshot(s) PROVE o \in Orphans(c)
  BY <1>7 DEF SaveSnapshot
<1>8. ASSUME NEW s \in Scanner, SaveFindings(s) PROVE o \in Orphans(c)
  BY <1>8 DEF SaveFindings
<1>9. ASSUME NEW s \in Scanner, SaveChanges(s) PROVE o \in Orphans(c)
  BY <1>9 DEF SaveChanges
<1>10. ASSUME NEW s \in Scanner, FinishRun(s) PROVE o \in Orphans(c)
  BY <1>10 DEF FinishRun, UpdateRun
<1>11. ASSUME NEW s \in Scanner, NoteFinished(s) PROVE o \in Orphans(c)
  BY <1>11 DEF NoteFinished, WriteStatus
<1>12. ASSUME NEW s \in Scanner, Release(s) PROVE o \in Orphans(c)
  BY <1>12 DEF Release, Unlocked
<1>13. ASSUME NEW s \in Scanner, StatementRaises(s) PROVE o \in Orphans(c)
  BY <1>13 DEF StatementRaises
<1>14. ASSUME NEW s \in Scanner, AnswerLost(s) PROVE o \in Orphans(c)
  BY <1>14 DEF AnswerLost, UpdateRun
<1>15. ASSUME NEW w \in Worker, SelectStuck(w) PROVE o \in Orphans(c)
  BY <1>15 DEF SelectStuck
<1>16. ASSUME NEW w \in Worker, NEW d \in Connection, TryIdle(w, d) PROVE o \in Orphans(c)
  BY <1>16 DEF TryIdle
<1>17. ASSUME NEW w \in Worker, MarkInterrupted(w) PROVE o \in Orphans(c)
  BY <1>17 DEF MarkInterrupted, Running
<1>18. ASSUME NEW w \in Worker, EndVisit(w) PROVE o \in Orphans(c)
  BY <1>18 DEF EndVisit, LeaveLock, Unlocked
<1>19. ASSUME NEW w \in Worker, SweepRaises(w) PROVE o \in Orphans(c)
  BY <1>19 DEF SweepRaises, LeaveLock, Unlocked
<1>20. ASSUME NEW d \in Connection, DeleteConnection(d) PROVE o \in Orphans(c)
  BY <1>20 DEF DeleteConnection
<1>21. ASSUME NEW d \in Connection, ReapSession(d) PROVE o \in Orphans(c)
  BY <1>21 DEF ReapSession
<1>22. ASSUME NEW q \in RunId, DeleteSnapshot(q) PROVE o \in Orphans(c)
  BY <1>22 DEF DeleteSnapshot
<1>23. ASSUME NEW w \in Worker, Crash(w) PROVE o \in Orphans(c)
  BY <1>23 DEF Crash
<1>24. ASSUME NEW w \in Worker, Restart(w) PROVE o \in Orphans(c)
  BY <1>24 DEF Restart
<1>25. CASE DropSessions
  BY <1>25
<1>26. CASE UNCHANGED vars
  BY <1>26 DEF vars
<1>27. QED
  BY <1>1, <1>2, <1>3, <1>4, <1>5, <1>6, <1>7, <1>8, <1>9, <1>10, <1>11, <1>12, <1>13,
     <1>14, <1>15, <1>16, <1>17, <1>18, <1>19, <1>20, <1>21, <1>22, <1>23, <1>24, <1>25, <1>26
     DEF Next, ScanStep, SweepStep

\* One more element makes a finite set larger by at most one, a part no larger.
LEMMA OneMore ==
  ASSUME NEW S, IsFiniteSet(S), NEW x, NEW T \in SUBSET (S \cup {x})
  PROVE  Cardinality(S) \in Nat /\ Cardinality(T) \in Nat /\ Cardinality(T) <= Cardinality(S) + 1
<1>1. /\ IsFiniteSet(S \cup {x})
      /\ Cardinality(S \cup {x}) = IF x \in S THEN Cardinality(S) ELSE Cardinality(S) + 1
  BY FS_AddElement
<1>2. IsFiniteSet(T) /\ Cardinality(T) <= Cardinality(S \cup {x})
  BY <1>1, FS_Subset
<1>3. Cardinality(S) \in Nat /\ Cardinality(T) \in Nat
  BY <1>2, FS_CardinalityType
<1>. QED BY <1>1, <1>2, <1>3

\* A database restart ends the session of at most one scan of each connection.
LEMMA DropOrphans ==
  ASSUME TypeOK, DropSessions, NEW c \in Connection
  PROVE  Orphans(c)' \subseteq Orphans(c) \cup {lock[c]} /\ drops' = drops + 1
BY DEF DropSessions, Orphans, Scanning, locals

\* Each database restart adds at most one overlapping scan to a connection: whatever
\* else happens, the lock keeps the scans apart that still have it (try_advisory_lock,
\* db.py; scheduler.py:261).
THEOREM OverlapsAreBounded == Spec => []OverlapBounded
<1>. USE ScanRunsAssumption
<1>0. \A c \in Connection : IsFiniteSet(Orphans(c)) /\ Cardinality(Orphans(c)) \in Nat
  <2>1. \A c : Orphans(c) \subseteq Scanner BY DEF Orphans
  <2>. QED BY <2>1, FS_Subset, FS_CardinalityType
<1>1. Init => OrphansCounted
  <2>. SUFFICES ASSUME Init, NEW c \in Connection PROVE Cardinality(Orphans(c)) <= drops
    BY DEF OrphansCounted
  <2>1. Orphans(c) = {} BY DEF Init, Orphans, Scanning, InLock, RowOpen
  <2>. QED BY <2>1, FS_EmptySet DEF Init
<1>2. ASSUME ScanRunsInv, OrphansCounted, [Next]_vars PROVE OrphansCounted'
  <2>. SUFFICES ASSUME NEW c \in Connection PROVE Cardinality(Orphans(c)') <= drops'
    BY DEF OrphansCounted
  <2>0. Cardinality(Orphans(c)) <= drops /\ drops \in Nat /\ drops' \in Nat
    BY <1>2, TypeStep DEF OrphansCounted, ScanRunsInv, TypeOK
  <2>1. CASE DropSessions
    <3>1. Orphans(c)' \subseteq Orphans(c) \cup {lock[c]} /\ drops' = drops + 1
      BY <1>2, <2>1, DropOrphans DEF ScanRunsInv
    <3>2. Cardinality(Orphans(c)') \in Nat /\ Cardinality(Orphans(c)') <= Cardinality(Orphans(c)) + 1
      BY <1>0, <3>1, OneMore
    <3>. QED BY <1>0, <2>0, <3>1, <3>2
  <2>2. CASE ~ DropSessions
    <3>1. Orphans(c)' \subseteq Orphans(c)
      <4>1. \A o \in Scanner : o \in Orphans(c)' => o \in Orphans(c)
        BY <1>2, <2>2, NoNewOrphans DEF ScanRunsInv
      <4>2. Orphans(c)' \subseteq Scanner BY DEF Orphans
      <4>. QED BY <4>1, <4>2
    <3>2. Cardinality(Orphans(c)') <= Cardinality(Orphans(c)) /\ Cardinality(Orphans(c)') \in Nat
      BY <1>0, <3>1, FS_Subset, FS_CardinalityType
    <3>3. drops' = drops
      BY <1>2, <2>2, DropsKept DEF ScanRunsInv
    <3>. QED BY <1>0, <2>0, <3>2, <3>3
  <2>. QED BY <2>1, <2>2
<1>3. ASSUME ScanRunsInv, OrphansCounted PROVE OverlapBounded
  <2>. SUFFICES ASSUME NEW c \in Connection
                PROVE  Cardinality({s \in Scanner : Scanning(s) /\ conn[s] = c}) <= 1 + drops
    BY DEF OverlapBounded
  <2>. DEFINE S == {s \in Scanner : Scanning(s) /\ conn[s] = c}
  <2>0. Cardinality(Orphans(c)) <= drops /\ drops \in Nat
    BY <1>3 DEF OrphansCounted, ScanRunsInv, TypeOK
  <2>1. S \subseteq Orphans(c) \cup {lock[c]} BY DEF Orphans
  <2>. HIDE DEF S
  <2>2. Cardinality(S) \in Nat /\ Cardinality(S) <= Cardinality(Orphans(c)) + 1
    BY <1>0, <2>1, OneMore
  <2>3. Cardinality(S) <= 1 + drops BY <1>0, <2>0, <2>2
  <2>. QED BY <2>3 DEF S
<1>. QED BY <1>1, <1>2, <1>3, Invariance, PTL DEF Spec

-----------------------------------------------------------------------------
(* ScanRuns implements ScanHistory while no database session is lost: each *)
(* lock call, commit, crash or sweep is one step of the abstract history,  *)
(* or changes nothing in it.                                               *)

Open(s) == pc[s] \in RowOpen
Active  == [c \in Connection |-> ActiveRun(c)]

\* In a state of the invariant, the abstract active run is that of the one open scan.
LEMMA ActiveIs ==
  ASSUME TypeOK, Frames, Held
  PROVE  /\ \A s \in Scanner : Open(s) => ActiveRun(conn[s]) = run[s]
         /\ \A c \in Connection :
              (\A s \in Scanner : ~ (Open(s) /\ conn[s] = c)) => ActiveRun(c) = Nobody
BY DEF ActiveRun, Open, TypeOK, Frames, Held, Scanning, InLock, RowOpen

\* The same in the next state.
LEMMA ActiveIsNext ==
  ASSUME TypeOK', Frames', Held'
  PROVE  /\ \A s \in Scanner : Open(s)' => ActiveRun(conn[s])' = run'[s]
         /\ \A c \in Connection :
              (\A s \in Scanner : ~ (Open(s)' /\ conn'[s] = c)) => ActiveRun(c)' = Nobody
BY DEF ActiveRun, Open, TypeOK, Frames, Held, Scanning, InLock, RowOpen

\* If the open scans and their frames stay the same, so does the abstract state.
LEMMA ActiveStays ==
  ASSUME TypeOK, Frames, Held, TypeOK', Frames', Held', NEW c \in Connection,
         \A s \in Scanner :
            /\ Open(s) /\ conn[s] = c => Open(s)' /\ conn'[s] = c /\ run'[s] = run[s]
            /\ Open(s)' /\ conn'[s] = c => Open(s) /\ conn[s] = c
  PROVE  ActiveRun(c)' = ActiveRun(c)
BY ActiveIs, ActiveIsNext

\* A step of the abstract history, or none.
AbstractNext == History!Next \/ UNCHANGED <<Active, runConn, runStatus>>

\* Steps that neither open, end nor re-frame a scan, nor touch the ledger.
LEMMA QuietStep ==
  ASSUME TypeOK, Frames, Held, TypeOK', Frames', Held',
         runConn' = runConn, runStatus' = runStatus,
         \A s \in Scanner :
            /\ Open(s) => Open(s)' /\ conn'[s] = conn[s] /\ run'[s] = run[s]
            /\ Open(s)' => Open(s)
  PROVE  UNCHANGED <<Active, runConn, runStatus>>
<1>1. ASSUME NEW c \in Connection PROVE ActiveRun(c)' = ActiveRun(c)
  BY ActiveStays
<1>2. QED
  BY <1>1 DEF Active

\* create_run makes its scan the active one.
LEMMA BeginStep ==
  ASSUME TypeOK, Frames, Held, TypeOK', Frames', Held', NEW s \in Scanner, CreateRun(s)
  PROVE  History!Next
<1> USE DEF CreateRun, Goto, Open, RowOpen, TypeOK, locals
<1> DEFINE c == conn[s]
           r == run[s]
<1>1. c \in Connection /\ r \in RunId /\ runStatus[r] = "none"
  BY DEF Frames
<1>2. ActiveRun(c) = Nobody
  <2>1. \A t \in Scanner : ~ (Open(t) /\ conn[t] = c)
    BY <1>1 DEF Held, Scanning, InLock
  <2>2. QED
    BY <1>1, <2>1, ActiveIs
<1>3. Open(s)' /\ conn'[s] = c /\ run'[s] = r
  BY <1>1
<1>4. ActiveRun(c)' = r
  BY <1>1, <1>3, ActiveIsNext
<1>5. ASSUME NEW d \in Connection, d # c PROVE ActiveRun(d)' = ActiveRun(d)
  BY <1>1, <1>5, ActiveStays
<1>6. Active' = [Active EXCEPT ![c] = r]
  BY <1>1, <1>4, <1>5 DEF Active
<1>7. History!Begin(c, r)
  BY <1>1, <1>2, <1>6 DEF History!Begin, Active
<1>8. QED
  BY <1>1, <1>7 DEF History!Next

\* finish_run closes the run of the active scan and ends it.
LEMMA FinishStep ==
  ASSUME TypeOK, Frames, Held, TypeOK', Frames', Held', NEW s \in Scanner, FinishRun(s)
  PROVE  History!Next
<1> USE DEF FinishRun, UpdateRun, Goto, Open, RowOpen, TypeOK
<1> DEFINE c == conn[s]
           r == run[s]
<1>1. c \in Connection /\ r \in RunId /\ runStatus[r] \in {"running", "ok", "deleted"}
  BY DEF Frames, Held, LiveRunIsRunning
<1>2. ActiveRun(c) = r /\ r # Nobody
  BY <1>1, ActiveIs, ScanRunsAssumption
<1>3. ActiveRun(c)' = Nobody
  <2>1. \A t \in Scanner : ~ (Open(t)' /\ conn'[t] = c)
    BY <1>1 DEF Held, Scanning, InLock
  <2>2. QED
    BY <1>1, <2>1, ActiveIsNext
<1>4. ASSUME NEW d \in Connection, d # c PROVE ActiveRun(d)' = ActiveRun(d)
  BY <1>1, <1>4, ActiveStays
<1>5. Active' = [Active EXCEPT ![c] = Nobody]
  BY <1>1, <1>3, <1>4 DEF Active
<1>6. runStatus' = [runStatus EXCEPT ![Active[c]] = IF @ = "deleted" THEN @ ELSE outcome'[s]]
  BY <1>1, <1>2 DEF Active
<1>7. outcome'[s] \in {"ok", "error"}
  OBVIOUS
<1>8. History!Finish(c, outcome'[s])
  BY <1>1, <1>2, <1>5, <1>6 DEF History!Finish, Active
<1>9. QED
  BY <1>1, <1>7, <1>8 DEF History!Next

\* create_run commits and raises: a run is opened whose scan is over.
LEMMA OpenedAndLost ==
  ASSUME TypeOK, Frames, Held, TypeOK', Frames', Held', NEW s \in Scanner, AnswerLost(s),
         pc[s] = "locked"
  PROVE  History!Next
<1> USE DEF AnswerLost, Goto, Open, RowOpen, TypeOK, locals
<1> DEFINE c == conn[s]
           r == run[s]
<1>1. c \in Connection /\ r \in RunId /\ runStatus[r] = "none"
  BY DEF Frames
<1>2. ActiveRun(c) = Nobody
  <2>1. \A t \in Scanner : ~ (Open(t) /\ conn[t] = c)
    BY <1>1 DEF Held, Scanning, InLock
  <2>2. QED
    BY <1>1, <2>1, ActiveIs
<1>3. ASSUME NEW d \in Connection PROVE ActiveRun(d)' = ActiveRun(d)
  BY <1>1, ActiveStays
<1>4. Active' = Active
  BY <1>3 DEF Active
<1>5. History!Begin(c, r)
  BY <1>1, <1>2, <1>4 DEF History!Begin, Active
<1>6. QED
  BY <1>1, <1>5 DEF History!Next

\* finish_run(..., "ok") commits and raises: the run is closed, its scan still active.
LEMMA ClosedAndLost ==
  ASSUME TypeOK, Frames, Held, TypeOK', Frames', Held', NEW s \in Scanner, AnswerLost(s),
         pc[s] = "finish"
  PROVE  History!Next
<1> USE DEF AnswerLost, UpdateRun, Goto, Open, RowOpen, TypeOK, locals
<1> DEFINE c == conn[s]
           r == run[s]
<1>1. c \in Connection /\ r \in RunId /\ runStatus[r] \in {"running", "deleted"}
  BY DEF Frames, Held, LiveRunIsRunning
<1>2. ActiveRun(c) = r /\ r # Nobody
  BY <1>1, ActiveIs, ScanRunsAssumption
<1>3. ASSUME NEW d \in Connection PROVE ActiveRun(d)' = ActiveRun(d)
  BY <1>1, ActiveStays
<1>4. Active' = Active
  BY <1>3 DEF Active
<1>5. runStatus' = [runStatus EXCEPT ![Active[c]] = IF @ = "deleted" THEN @ ELSE "ok"]
  BY <1>1, <1>2 DEF Active
<1>6. History!Finish(c, "ok")
  BY <1>1, <1>2, <1>4, <1>5 DEF History!Finish, Active
<1>7. QED
  BY <1>1, <1>6 DEF History!Next

\* Scans that end without closing their run, all at once.
LEMMA AbandonStep ==
  ASSUME TypeOK, Frames, Held, TypeOK', Frames', Held', NEW lost \in SUBSET Scanner,
         runConn' = runConn, runStatus' = runStatus,
         \A s \in lost : ~ Open(s)',
         \A s \in Scanner \ lost :
            /\ Open(s) => Open(s)' /\ conn'[s] = conn[s] /\ run'[s] = run[s]
            /\ Open(s)' => Open(s)
  PROVE  AbstractNext
<1> DEFINE gone == {c \in Connection : \E s \in lost : Open(s) /\ conn[s] = c}
<1>1. ASSUME NEW c \in gone PROVE ActiveRun(c)' = Nobody
  <2>1. PICK s \in lost : Open(s) /\ conn[s] = c
    OBVIOUS
  <2>2. \A t \in Scanner : ~ (Open(t)' /\ conn'[t] = c)
    BY <2>1 DEF Held, Open, Scanning, InLock, RowOpen
  <2>3. QED
    BY <2>2, ActiveIsNext
<1>2. ASSUME NEW c \in Connection \ gone PROVE ActiveRun(c)' = ActiveRun(c)
  BY ActiveStays
<1>3. Active' = [c \in Connection |-> IF c \in gone THEN Nobody ELSE Active[c]]
  BY <1>1, <1>2 DEF Active
<1>4. History!Abandon(gone)
  BY <1>3 DEF History!Abandon, Active
<1>5. QED
  BY <1>4 DEF AbstractNext, History!Next

\* Every step of the pipeline, but for a database restart, is a step of the history.
LEMMA ImplementsNext ==
  ASSUME TypeOK, Frames, Held, TypeOK', Frames', Held', [Next]_vars, ~DropSessions
  PROVE  AbstractNext
<1> USE DEF Open, RowOpen, Goto, Return, TypeOK, Frames, rows, locals, sweep, used
<1>1. ASSUME NEW s \in Scanner, NEW c \in Connection, NEW r \in RunId, RunScan(s, c, r)
      PROVE AbstractNext
  BY <1>1, QuietStep DEF RunScan, AbstractNext
<1>2. ASSUME NEW s \in Scanner, TryAdvisoryLock(s) PROVE AbstractNext
  BY <1>2, QuietStep DEF TryAdvisoryLock, AbstractNext
<1>3. ASSUME NEW s \in Scanner, CreateSkipped(s) PROVE AbstractNext
  <2>1. ASSUME NEW c \in Connection PROVE ActiveRun(c)' = ActiveRun(c)
    BY <1>3, ActiveStays DEF CreateSkipped
  <2>2. History!Refuse(conn[s], run[s])
    BY <1>3, <2>1 DEF CreateSkipped, History!Refuse
  <2>3. QED
    BY <1>3, <2>2 DEF CreateSkipped, AbstractNext, History!Next
<1>4. ASSUME NEW s \in Scanner, CreateRun(s) PROVE AbstractNext
  BY <1>4, BeginStep DEF AbstractNext
<1>5. ASSUME NEW s \in Scanner, FinishRun(s) PROVE AbstractNext
  BY <1>5, FinishStep DEF AbstractNext
<1>6. ASSUME NEW s \in Scanner,
             \/ NoteSkipped(s) \/ Collect(s) \/ SaveSnapshot(s) \/ SaveFindings(s)
             \/ SaveChanges(s) \/ NoteFinished(s) \/ Release(s)
      PROVE AbstractNext
  BY <1>6, QuietStep DEF NoteSkipped, Collect, SaveSnapshot, SaveFindings, SaveChanges,
     NoteFinished, Release, AbstractNext
<1>7. ASSUME NEW s \in Scanner, StatementRaises(s) PROVE AbstractNext
  <2>1. CASE pc[s] = "fail"
    <3>1. UNCHANGED <<runConn, runStatus, conn, run>> /\ pc' = [pc EXCEPT ![s] = "release"]
      BY <1>7, <2>1 DEF StatementRaises, Outside
    <3>2. \A t \in {s} : ~ Open(t)'
      BY <3>1
    <3>3. \A t \in Scanner \ {s} : /\ Open(t) => Open(t)' /\ conn'[t] = conn[t] /\ run'[t] = run[t]
                                  /\ Open(t)' => Open(t)
      BY <3>1
    <3>4. {s} \in SUBSET Scanner
      OBVIOUS
    <3>5. QED
      BY <3>1, <3>2, <3>3, <3>4, AbandonStep
  <2>2. CASE pc[s] # "fail"
    <3>1. UNCHANGED <<runConn, runStatus>>
      BY <1>7 DEF StatementRaises
    <3>2. \A t \in Scanner :
             /\ Open(t) => Open(t)' /\ conn'[t] = conn[t] /\ run'[t] = run[t]
             /\ Open(t)' => Open(t)
      BY <1>7, <2>2 DEF StatementRaises, Outside
    <3>3. QED
      BY <3>1, <3>2, QuietStep DEF AbstractNext
  <2>3. QED
    BY <2>1, <2>2
<1>8. ASSUME NEW w \in Worker, MarkInterrupted(w) PROVE AbstractNext
  <2>1. ASSUME NEW c \in Connection PROVE ActiveRun(c)' = ActiveRun(c)
    BY <1>8, ActiveStays DEF MarkInterrupted
  <2>2. at[w] \in Connection /\ ActiveRun(at[w]) = Nobody
    <3>1. at[w] \in Connection /\ lock[at[w]] = w
      BY <1>8 DEF MarkInterrupted, Held
    <3>2. \A t \in Scanner : ~ (Open(t) /\ conn[t] = at[w])
      BY <3>1, ScanRunsAssumption DEF Held, Scanning, InLock
    <3>3. QED
      BY <3>1, <3>2, ActiveIs
  <2>3. History!Sweep(at[w])
    BY <1>8, <2>1, <2>2 DEF MarkInterrupted, Running, History!Sweep
  <2>4. QED
    BY <2>2, <2>3 DEF AbstractNext, History!Next
<1>9. ASSUME NEW c \in Connection, DeleteConnection(c) PROVE AbstractNext
  <2>1. ASSUME NEW d \in Connection PROVE ActiveRun(d)' = ActiveRun(d)
    BY <1>9, ActiveStays DEF DeleteConnection
  <2>2. History!Forget(c)
    BY <1>9, <2>1 DEF DeleteConnection, History!Forget
  <2>3. QED
    BY <2>2 DEF AbstractNext, History!Next
<1>10. ASSUME NEW w \in Worker, Crash(w) PROVE AbstractNext
  BY <1>10, AbandonStep, {s \in Scanner : Home[s] = w} \in SUBSET Scanner, ZenonT(60) DEF Crash
<1>11. CASE \/ \E w \in Worker : SelectStuck(w) \/ EndVisit(w) \/ SweepRaises(w) \/ Restart(w)
            \/ \E w \in Worker, c \in Connection : TryIdle(w, c)
            \/ \E c \in Connection : ReapSession(c)
            \/ \E r \in RunId : DeleteSnapshot(r)
  BY <1>11, QuietStep DEF SelectStuck, EndVisit, SweepRaises, LeaveLock, Restart, TryIdle,
     ReapSession, DeleteSnapshot, AbstractNext
<1>12. CASE UNCHANGED vars
  BY <1>12, QuietStep DEF vars, AbstractNext
<1>13. ASSUME NEW s \in Scanner, AnswerLost(s) PROVE AbstractNext
  <2>1. pc[s] \in {"locked", "finish"}
    BY <1>13 DEF AnswerLost
  <2>2. QED
    BY <1>13, <2>1, OpenedAndLost, ClosedAndLost DEF AbstractNext
<1>14. QED
  BY <1>1, <1>2, <1>3, <1>4, <1>5, <1>6, <1>7, <1>8, <1>9, <1>10, <1>11, <1>12, <1>13
     DEF Next, ScanStep, SweepStep

\* Both start without runs and without scans.
LEMMA ImplementsInit == Init => History!Init
BY DEF Init, History!Init, ActiveRun, RowOpen

\* The pipeline keeps every promise of ScanHistory as long as no database session
\* is lost: a scan is one opening and one closing of its run, however its steps
\* interleave with refused scans, sweeps, deletions, crashes and failures.
THEOREM PipelineImplementsHistory ==
  ASSUME MaxDrops = 0
  PROVE  Spec => ImplementsScanHistory
<1>1. ScanRunsInv => drops = 0 /\ TypeOK /\ Frames /\ Held
  BY DEF ScanRunsInv, TypeOK, Frames
<1>2. ASSUME ScanRunsInv, ScanRunsInv', [Next]_vars
      PROVE  [History!Next]_(History!vars)
  <2>1. ~DropSessions
    BY <1>2 DEF ScanRunsInv, TypeOK, Frames, DropSessions
  <2>2. drops' = 0 /\ TypeOK' /\ Frames' /\ Held'
    BY <1>2 DEF ScanRunsInv, TypeOK, Frames
  <2>3. AbstractNext
    BY <1>1, <1>2, <2>1, <2>2, ImplementsNext
  <2>4. QED
    BY <2>3 DEF AbstractNext, History!vars, Active
<1>3. QED
  BY ImplementsInit, <1>2, Invariance, PTL DEF Spec, ImplementsScanHistory, History!Spec

=============================================================================
