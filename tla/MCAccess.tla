------------------------------ MODULE MCAccess ------------------------------
(* Instances of Access.                                                    *)
EXTENDS Access, TLC

\* Requests and tokens are only compared.
AccessSymmetry == Permutations(Request) \cup Permutations(Token)

=============================================================================
