--------------------------- MODULE MCSchedulerJobs ---------------------------
(* Instances of SchedulerJobs.                                             *)
EXTENDS SchedulerJobs, TLC

\* Intervals are only compared.  (Liveness is checked without symmetry.)
IntervalSymmetry == Permutations(Interval)

=============================================================================
