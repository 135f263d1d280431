----------------------------- MODULE MCChangeLog -----------------------------
(* Instances of ChangeLog: short ages, so that a few ticks cross them.      *)
EXTENDS Related, TLC

\* A tight policy, under which everything expires after a tick, and one that keeps two
\* ticks and then thins.
MCPolicies == {[recent |-> 1, daily |-> 1], [recent |-> 2, daily |-> 4]}

\* A policy under which nothing captured during the run is ever thinned.
MCKeepAll == {[recent |-> MaxClock, daily |-> MaxClock]}

\* Bounds: one capture by hand, one failure, one deletion by hand or one edit of the
\* policy per behaviour; where three contents are found only the first of these.
Found == {seen[t] : t \in Time} \ {None}
FewDisturbances ==
  /\ faults + deletes + edits + Cardinality(manual) <= 1
  /\ faults + deletes + edits > 0 => Cardinality(Found) <= 2

\* Contents are only compared.
ContentSymmetry == Permutations(Content)

=============================================================================
