----------------------------- MODULE MCScanRuns -----------------------------
(* Instances of ScanRuns: two workers and their scan threads.              *)
EXTENDS ScanRuns, TLC

CONSTANTS w1, w2, s1, s2

MCHome == (s1 :> w1) @@ (s2 :> w2)

\* Run ids are only compared; threads and workers are tied together by Home.
RunSymmetry == Permutations(RunId)

=============================================================================
