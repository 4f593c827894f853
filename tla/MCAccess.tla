------------------------------ MODULE MCAccess ------------------------------
(* The administrator, two accounts, a custom role, infras and another workspace. *)
EXTENDS Access, TLC
CONSTANTS boss, ann, bob, c1, c2
MCGrants == {{"system:user:write"}, {"workspace:read"}}
MCOffered == {"super_admin", "clerk", "viewer", "admin"}
Symmetry == Permutations({ann, bob}) \cup Permutations(Calls)
=============================================================================
