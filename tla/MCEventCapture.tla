--------------------------- MODULE MCEventCapture ---------------------------
(* Instances of EventCapture.                                              *)
EXTENDS EventCapture, TLC

\* Events and threads are only compared.
CaptureSymmetry == Permutations(Event) \cup Permutations(Capture)

=============================================================================
