------------------------------- MODULE MCKyc -------------------------------
(* Instances of Kyc for TLC.                                               *)
EXTENDS Kyc, TLC

Symmetry == Permutations(Providers) \cup Permutations(Requests) \cup Permutations(Events)
=============================================================================
