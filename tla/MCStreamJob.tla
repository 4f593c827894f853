------------------------------ MODULE MCStreamJob ------------------------------
(* Model values for StreamJob. *)
EXTENDS StreamJob, TLC

CONSTANTS q1, q2, p1, s1, s2

Symmetry == Permutations(Scripts) \cup Permutations(Requests)
=============================================================================
