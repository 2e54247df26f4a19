--------------------------- MODULE MCRegistration ---------------------------
(* Instances of Registration for TLC: the threads and the names are           *)
(* interchangeable.                                                           *)
EXTENDS Registration, TLC

Symmetry == Permutations(Threads) \cup Permutations(Names)

=============================================================================
