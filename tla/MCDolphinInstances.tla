-------------------------- MODULE MCDolphinInstances --------------------------
(***************************************************************************)
(* A small instance of DolphinInstances.                                   *)
(***************************************************************************)
EXTENDS DolphinInstances

\* The workspace of workflow 2 has a Dolphin of its own.
MCServer == [w \in Workflows |-> IF w = 1 THEN Platform ELSE "own"]

\* No number begins with the digits of another one.
MCBegins == [k \in 1 .. MaxRuns |-> {k}]
=============================================================================
