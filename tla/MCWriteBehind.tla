--------------------------- MODULE MCWriteBehind ---------------------------
(* Instances of WriteBehind for TLC: users differ in nothing but their name. *)
EXTENDS WriteBehind

UserSymmetry == Permutations(User)
=============================================================================
