---------------------------- MODULE MCWorkflowRuns ----------------------------
(* Small instances of WorkflowRuns. *)
EXTENDS WorkflowRuns, TLC

CONSTANTS a, b, c

Edge(m, n) == [source |-> m, target |-> n]

\* The edge to the last node is drawn first, so that the order matters.
Triangle == [nodes |-> <<a, b, c>>, edges |-> <<Edge(a, c), Edge(a, b), Edge(b, c)>>]

\* b waits for itself; one edge comes from outside the graph.
Cycle == [nodes |-> <<a, b>>, edges |-> <<Edge(a, b), Edge(b, b), Edge(c, a)>>]

MCGraphs == {Triangle, Cycle}
=============================================================================
