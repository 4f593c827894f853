-------------------------- MODULE MCPublishApproval --------------------------
(***************************************************************************)
(* Small instances of PublishApproval: resources named for their type.     *)
(***************************************************************************)
EXTENDS PublishApproval, TLC

CONSTANTS api, node, job, wf

MCKind ==
  [r \in Resources |-> CASE r = api  -> "data_service_api"
                         [] r = node -> "studio_node"
                         [] r = job  -> "stream_job"
                         [] OTHER    -> "workflow"]

Symmetry == Permutations(Tickets) \cup Permutations(Threads) \cup Permutations(Users)
=============================================================================
