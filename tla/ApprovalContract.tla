--------------------------- MODULE ApprovalContract ---------------------------
(***************************************************************************)
(* What the publish-approval workflow promises its users, free of threads, *)
(* sessions and external systems: at most one undecided ticket asks for    *)
(* the same thing; an approved ticket's action ran exactly once and before *)
(* the ticket said so; a refused ticket's action never ran; a decision is  *)
(* final. It states the protocol that VALID statuses, TERMINAL_STATUSES    *)
(* and the status checks of services/publish_approval.py stand for.        *)
(***************************************************************************)
CONSTANTS Tickets, Targets

VARIABLES
  status,  \* ticket -> none, pending, approved, rejected or cancelled
  wants,   \* ticket -> the target (resource and action) it asks for
  runs     \* ticket -> how often its action has completed

vars == <<status, wants, runs>>

Init ==
  /\ status = [i \in Tickets |-> "none"]
  /\ wants \in [Tickets -> Targets]
  /\ runs = [i \in Tickets |-> 0]

File(i, x) ==
  /\ status[i] = "none"
  /\ \A j \in Tickets : ~ (status[j] = "pending" /\ wants[j] = x)
  /\ status' = [status EXCEPT ![i] = "pending"]
  /\ wants' = [wants EXCEPT ![i] = x]
  /\ UNCHANGED runs

Execute(i) ==
  /\ status[i] = "pending" /\ runs[i] = 0
  /\ runs' = [runs EXCEPT ![i] = 1]
  /\ UNCHANGED <<status, wants>>

Approve(i) ==
  /\ status[i] = "pending" /\ runs[i] = 1
  /\ status' = [status EXCEPT ![i] = "approved"]
  /\ UNCHANGED <<wants, runs>>

Refuse(i) ==
  /\ status[i] = "pending" /\ runs[i] = 0
  /\ \E s \in {"rejected", "cancelled"} : status' = [status EXCEPT ![i] = s]
  /\ UNCHANGED <<wants, runs>>

Next == \E i \in Tickets : \/ \E x \in Targets : File(i, x)
                           \/ Execute(i) \/ Approve(i) \/ Refuse(i)

Spec == Init /\ [][Next]_vars

=============================================================================
