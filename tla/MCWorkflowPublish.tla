-------------------------- MODULE MCWorkflowPublish --------------------------
(* Small instances of WorkflowPublish: each workspace has its own Dolphin. *)
EXTENDS WorkflowPublish, TLC

CONSTANTS w1, w2, e1, e2, a, b, x

MCEngineOf == [w \in Workflows |-> IF w = w1 THEN e1 ELSE e2]

MCScriptsOf == [w \in Workflows |-> {a, b}]

(* One node, two in order, two in a cycle, and a node of another workspace. *)
MCGraphs == {
  [nodes |-> {a},    edges |-> {}],
  [nodes |-> {a, b}, edges |-> {<<a, b>>}],
  [nodes |-> {a, b}, edges |-> {<<a, b>>, <<b, a>>}],
  [nodes |-> {x},    edges |-> {}]}

(* The search finds a cycle exactly when there is no order to run the nodes in, on
   every graph over the three nodes. *)
ASSUME SearchIsRight ==
  SearchFindsCycles([nodes : {Scripts}, edges : SUBSET (Scripts \X Scripts)])

Symmetry == Permutations(Requests) \cup Permutations(Names)
=============================================================================
