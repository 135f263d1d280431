---------------------------- MODULE ScanHistory ----------------------------
(***************************************************************************)
(* What scan history promises an operator, without locks, threads or       *)
(* workers: each connection has at most one active scan; a run is opened   *)
(* by the scan that becomes active and closed by it, or, once no scan is   *)
(* active for its connection, closed as an error by a sweep; a closed run  *)
(* keeps its status until its connection is deleted (its own scan, while   *)
(* active, may correct ok to error).                                       *)
(* ScanRuns implements this as long as no database session is lost.        *)
(***************************************************************************)
CONSTANTS Connection, RunId, Nobody

VARIABLES
  active,   \* connection -> the run its active scan is filling, or Nobody
  owner,    \* run -> its connection, Nobody before it is recorded
  status    \* run -> what scan history shows

vars == <<active, owner, status>>

Init ==
  /\ active = [c \in Connection |-> Nobody]
  /\ owner = [r \in RunId |-> Nobody]
  /\ status = [r \in RunId |-> "none"]

\* Opens run r.  Its scan becomes active, or ends before it does anything.
Begin(c, r) ==
  /\ active[c] = Nobody /\ status[r] = "none"
  /\ active' \in {[active EXCEPT ![c] = r], active}
  /\ owner' = [owner EXCEPT ![r] = c]
  /\ status' = [status EXCEPT ![r] = "running"]

\* The active scan closes its own run and ends, or stays active, having closed it
\* as ok, to close it once more.  If the connection was deleted under the scan the
\* run is gone and stays gone.
Finish(c, final) ==
  /\ active[c] # Nobody
  /\ status[active[c]] \in {"running", "ok", "deleted"}
  /\ status' = [status EXCEPT ![active[c]] = IF @ = "deleted" THEN @ ELSE final]
  /\ \/ active' = [active EXCEPT ![c] = Nobody]
     \/ final = "ok" /\ status[active[c]] # "ok" /\ UNCHANGED active
  /\ UNCHANGED owner

Refuse(c, r) ==
  /\ status[r] = "none"
  /\ owner' = [owner EXCEPT ![r] = c]
  /\ status' = [status EXCEPT ![r] = "skipped"]
  /\ UNCHANGED active

\* Scans end without closing their runs: their worker died, or the last write failed.
Abandon(lost) ==
  /\ active' = [c \in Connection |-> IF c \in lost THEN Nobody ELSE active[c]]
  /\ UNCHANGED <<owner, status>>

Sweep(c) ==
  /\ active[c] = Nobody
  /\ status' = [r \in RunId |->
                  IF owner[r] = c /\ status[r] = "running" THEN "error" ELSE status[r]]
  /\ UNCHANGED <<active, owner>>

Forget(c) ==
  /\ status' = [r \in RunId |-> IF owner[r] = c THEN "deleted" ELSE status[r]]
  /\ UNCHANGED <<active, owner>>

Next ==
  \/ \E c \in Connection, r \in RunId : Begin(c, r) \/ Refuse(c, r)
  \/ \E c \in Connection : Sweep(c) \/ Forget(c)
  \/ \E c \in Connection : Finish(c, "ok") \/ Finish(c, "error")
  \/ \E lost \in SUBSET Connection : Abandon(lost)

Spec == Init /\ [][Next]_vars

=============================================================================
