------------------------------- MODULE MCCart -------------------------------
(* Instances of Cart for TLC.                                              *)
EXTENDS Cart, TLC

Symmetry == Permutations(Bookings) \cup Permutations(Carts)

CartOnly   == AllOps \ {"single"}
NoDeclines == AllOps \ {"decline"}
=============================================================================
