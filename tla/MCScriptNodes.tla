----------------------------- MODULE MCScriptNodes -----------------------------
(* Model values for ScriptNodes. *)
EXTENDS ScriptNodes, TLC

CONSTANTS ann, eve, t1, t2, c1, c2

Symmetry == Permutations(Texts) \cup Permutations(Calls)
=============================================================================
