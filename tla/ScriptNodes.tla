------------------------------ MODULE ScriptNodes ------------------------------
(***************************************************************************)
(* A script node of GIDO Studio (api/studio.py) with its two locks, its    *)
(* history and its test runs (services/studio_sql_run.py).                 *)
(*                                                                         *)
(* The edit lock says who is editing, for 30 minutes; the publication lock *)
(* keeps a published script from being edited. A request loads the row and *)
(* decides in one step, and commits the columns it has changed in another. *)
(* A test run commits the text it came with, then reads the row again and  *)
(* executes it, statement by statement.                                    *)
(***************************************************************************)
EXTENDS Naturals, Sequences

CONSTANTS
  Users,          \* users with the developer's permissions in the workspace
  Admins,         \* those with full control of it
  Owner,          \* the owner of the script (its creator; never changed)
  Texts,          \* scripts that are not empty
  Length,         \* the statements of each of them
  Sources,        \* kinds of databases the node may be bound to
  LockOnPublish,  \* STUDIO_LOCK_ON_PUBLISH
  Calls,          \* requests under way
  MaxCalls,       \* bound on the requests that are made
  Faults,         \* TRUE: requests may be lost
  None

ASSUME ConstantsAssumption ==
  /\ Admins \subseteq Users /\ Owner \in Users
  /\ None \notin Users \cup Texts
  /\ Sources \subseteq {"mysql", "postgresql"}
  /\ Length \in Nat \ {0} /\ MaxCalls \in Nat
  /\ LockOnPublish \in BOOLEAN /\ Faults \in BOOLEAN

\* at: the time of the edit lock, up to 30 minutes ago (fresh) or more (old).
Node == [exists : BOOLEAN, script : Texts \cup {None}, locked : BOOLEAN,
         holder : Users \cup {None}, at : {"none", "fresh", "old"}, source : Sources]

\* durable: statements whose effect the database keeps; lost: the request that
\* executed the run is gone.
Instance == [status : {"running", "success", "failed"}, durable : 0 .. Length, lost : BOOLEAN]

\* seen and columns: the row as it was loaded, and what the request changes of
\* it; keep: what goes into the history; inst and done: the run it executes and
\* how far it has come.
Request ==
  [pc : {"commit", "delete", "run", "load", "execute", "end"},
   op : {"save", "rollback", "acquire", "force", "release", "publish", "unlock", "delete", "run"},
   user : Users, seen : Node, new : Node, keep : SUBSET Texts,
   columns : SUBSET {"script", "locked", "holder", "at"},
   inst : Nat, done : 0 .. Length, outcome : {"success", "failed"}]

ASSUME NoneAssumption == None \notin Request

VARIABLES
  node,     \* the row in dw_task_nodes
  history,  \* the texts in dw_node_history
  inst,     \* the test runs in dw_node_instances, and what each left behind
  call,     \* request -> what it is about to do, what it loaded and has changed
  made      \* the number of requests made

vars == <<node, history, inst, call, made>>


Init ==
  /\ node \in {n \in Node : /\ n.exists /\ ~ n.locked
                            /\ n.holder = None /\ n.at = "none" /\ n.script = None}
  /\ history = {}
  /\ inst = << >>
  /\ call = [c \in Calls |-> None]
  /\ made = 0

-----------------------------------------------------------------------------
(* What requests have in common *)

\* _edit_lock_expired
Expired(n) == n.holder = None \/ n.at # "fresh"

\* _persist_clear_expired_edit_lock
Cleared(n) == IF n.holder # None /\ Expired(n) THEN [n EXCEPT !.holder = None, !.at = "none"] ELSE n

Free(n, u) == Expired(n) \/ n.holder = u

At(c, pc) == call[c] # None /\ call[c].pc = pc
GoTo(c, pc) == call' = [call EXCEPT ![c].pc = pc]
Done(c) == call' = [call EXCEPT ![c] = None]

\* A request of u loads the row and changes it to new, in the columns that differ
\* and in those touched; it will put keep into the history.
Load(c, u, op, new, touched, keep) ==
  /\ call[c] = None
  /\ made < MaxCalls
  /\ node.exists
  /\ made' = made + 1
  /\ call' = [call EXCEPT ![c] =
       [pc |-> IF op \in {"run", "delete"} THEN op ELSE "commit", op |-> op, user |-> u,
        seen |-> node, new |-> new, keep |-> keep \ {None},
        columns |-> touched \cup {f \in DOMAIN node : new[f] # node[f]},
        inst |-> 0, done |-> 0, outcome |-> "success"]]
  /\ UNCHANGED <<node, history, inst>>

\* The UPDATE holds the columns that the request has changed.
Updated(c) ==
  [f \in DOMAIN node |-> IF f \in call[c].columns THEN call[c].new[f] ELSE node[f]]

\* The row may have been deleted meanwhile: then nothing is committed.
Commit(c) ==
  /\ At(c, "commit")
  /\ IF node.exists
       THEN node' = Updated(c) /\ history' = history \cup call[c].keep
       ELSE UNCHANGED <<node, history>>
  /\ Done(c)
  /\ UNCHANGED <<inst, made>>

-----------------------------------------------------------------------------
(* Editing: update_node, rollback_node *)

\* Mutant of Save: the edit lock is not looked at.
SaveUnheld(c, u, t) ==
  /\ ~ node.locked
  /\ Load(c, u, "save", [Cleared(node) EXCEPT !.script = t], {}, {node.script})
\* A lock that nobody holds need not be taken. What is overwritten is kept.
Save(c, u, t) ==
  /\ ~ node.locked
  /\ Free(node, u)
  /\ Load(c, u, "save", [Cleared(node) EXCEPT !.script = t], {}, {node.script})

\* Mutant of Rollback: the publication lock is not looked at.
RollbackLocked(c, u, t) ==
  /\ Free(node, u)
  /\ t \in history
  /\ Load(c, u, "rollback", [Cleared(node) EXCEPT !.script = t], {}, {})

\* What is overwritten is not put into the history.
Rollback(c, u, t) ==
  /\ ~ node.locked
  /\ Free(node, u)
  /\ t \in history
  /\ Load(c, u, "rollback", [Cleared(node) EXCEPT !.script = t], {}, {})

-----------------------------------------------------------------------------
(* The edit lock: acquire_edit_lock, release_edit_lock *)

\* Taken when free or by force; renewed by the one who has it, who then writes
\* the time only. An expired lock is cleared by a flush before it is taken.
Acquire(c, u, force) ==
  /\ ~ node.locked
  /\ Free(node, u) \/ force = TRUE
  /\ Load(c, u, IF Free(node, u) THEN "acquire" ELSE "force", [node EXCEPT !.holder = u, !.at = "fresh"],
          {"at"} \cup (IF Expired(node) THEN {"holder"} ELSE {}), {})

Unheld(n) == [n EXCEPT !.holder = None, !.at = "none"]

Release(c, u) ==
  /\ node.holder = u \/ u \in Admins
  /\ Load(c, u, "release", Unheld(node), {}, {})

\* The 30 minutes of the edit lock pass.
Age ==
  /\ node.at = "fresh"
  /\ node' = [node EXCEPT !.at = "old"]
  /\ UNCHANGED <<history, inst, call, made>>

-----------------------------------------------------------------------------
(* The publication lock: publish_node, unlock_node; delete_node *)

\* Also when an approval is executed, by an administrator. The flag
\* is_published, which is set too, decides nothing here.
Publish(c, u) ==
  /\ u \in Admins
  /\ Load(c, u, "publish", [node EXCEPT !.locked = @ \/ LockOnPublish], {}, {})

Unlock(c, u) ==
  /\ u = Owner \/ u \in Admins
  /\ Load(c, u, "unlock", [Unheld(node) EXCEPT !.locked = FALSE], {}, {})

DeleteBegin(c, u) ==
  /\ node.locked => u \in Admins
  /\ Load(c, u, "delete", node, {}, {})

\* The foreign keys of the history and of the runs keep the row.
Delete(c) ==
  /\ At(c, "delete")
  /\ node' = [node EXCEPT !.exists = @ /\ ~ (history = {} /\ inst = << >>)]
  /\ Done(c)
  /\ UNCHANGED <<history, inst, made>>

-----------------------------------------------------------------------------
(* Test runs: run_node, run_sql_with_result *)

\* With text t, or with the script of the row. Neither lock is looked at, and
\* what is overwritten is not put into the history.
RunBegin(c, u, t) ==
  Load(c, u, "run", [node EXCEPT !.script = IF t = None THEN @ ELSE t], {}, {})

\* The text and the new run are committed.
RunStart(c) ==
  /\ At(c, "run")
  /\ IF node.exists
       THEN /\ node' = Updated(c)
            /\ inst' = Append(inst, [status |-> "running", durable |-> 0, lost |-> FALSE])
            /\ call' = [call EXCEPT ![c].pc = "load", ![c].inst = Len(inst) + 1]
       ELSE /\ Done(c)
            /\ UNCHANGED <<node, inst>>
  /\ UNCHANGED <<history, made>>

\* The row is read again, with whatever others have committed. An empty script
\* is an error.
RunLoad(c) ==
  /\ At(c, "load")
  /\ IF node.script = None
       THEN call' = [call EXCEPT ![c].pc = "end", ![c].outcome = "failed"]
       ELSE GoTo(c, "execute")
  /\ UNCHANGED <<node, history, inst, made>>

\* MySQL commits after each statement. On PostgreSQL nothing is committed before
\* the connection is closed, which rolls everything back.
Statement(c) ==
  /\ At(c, "execute")
  /\ call' = [call EXCEPT ![c].done = @ + 1,
                          ![c].pc = IF call[c].done + 1 = Length THEN "end" ELSE @]
  /\ inst' = IF node.source = "mysql" THEN [inst EXCEPT ![call[c].inst].durable = @ + 1] ELSE inst
  /\ UNCHANGED <<node, history, made>>

\* Mutant of StatementFails: the error ends the script and is not recorded.
StatementFailsSilently(c) ==
  /\ At(c, "execute")
  /\ GoTo(c, "end")
  /\ UNCHANGED <<node, history, inst, made>>

\* A statement, or the connection, fails: the rest is not executed.
StatementFails(c) ==
  /\ At(c, "execute")
  /\ call' = [call EXCEPT ![c].pc = "end", ![c].outcome = "failed"]
  /\ UNCHANGED <<node, history, inst, made>>

RunEnd(c) ==
  /\ At(c, "end")
  /\ inst' = [inst EXCEPT ![call[c].inst].status = call[c].outcome]
  /\ Done(c)
  /\ UNCHANGED <<node, history, made>>

\* A request is lost with its process or its database connection. Its run, if it
\* has one, stays as it is for ever.
Die(c) ==
  /\ Faults
  /\ call[c] # None
  /\ inst' = IF call[c].inst = 0 THEN inst ELSE [inst EXCEPT ![call[c].inst].lost = TRUE]
  /\ Done(c)
  /\ UNCHANGED <<node, history, made>>

-----------------------------------------------------------------------------
Begin(c, u) ==
  \/ \E t \in Texts : Save(c, u, t) \/ Rollback(c, u, t)
  \/ \E force \in BOOLEAN : Acquire(c, u, force)
  \/ Release(c, u) \/ Publish(c, u) \/ Unlock(c, u) \/ DeleteBegin(c, u)
  \/ \E t \in Texts \cup {None} : RunBegin(c, u, t)

Execute(c) == RunStart(c) \/ RunLoad(c) \/ Statement(c) \/ StatementFails(c) \/ RunEnd(c)

Next ==
  \/ \E c \in Calls : \/ \E u \in Users : Begin(c, u)
                      \/ Commit(c) \/ Delete(c) \/ Execute(c) \/ Die(c)
  \/ Age

Spec == Init /\ [][Next]_vars

-----------------------------------------------------------------------------
(* Properties *)

\* Every variable has its type.
TypeOK ==
  /\ node \in Node
  /\ history \subseteq Texts
  /\ inst \in Seq(Instance)
  /\ call \in [Calls -> Request \cup {None}]
  /\ made \in Nat

\* The requests that end or begin to execute in a step: those that write the row.
Writing(c) == call[c] # None /\ call[c].pc \in {"commit", "run"} /\ call'[c] # call[c]

\* The script of a published node stays what it was when it was locked: only a
\* test run with text, which looks at no lock, or an edit that had loaded the row
\* before the lock changes it.
LockedIsFrozen ==
  [][node.locked /\ node'.locked /\ node'.script # node.script
       => \E c \in Calls : Writing(c) /\ (call[c].op = "run" \/ ~ call[c].seen.locked)]_vars

\* Whoever holds an edit lock that has not expired edits alone and keeps it: the
\* script changes, or the lock goes, only by his own requests, a test run, force,
\* unlocking, an administrator who releases it, or a request that loaded the row
\* before he had the lock or renewed it.
LockIsRespected ==
  [][\A u \in Users :
       /\ node.holder = u /\ node.at = "fresh"
       /\ node'.holder # u \/ node'.script # node.script
       => \E c \in Calls :
            /\ Writing(c)
            /\ \/ call[c].user = u
               \/ call[c].op \in {"force", "unlock", "run"}
               \/ call[c].op = "release" /\ call[c].user \in Admins
               \/ call[c].seen.holder # u \/ call[c].seen.at # "fresh"]_vars

\* A run is shown as running as long as a request executes it, and no longer,
\* unless the request was lost.
RunningIsServed ==
  \A i \in 1 .. Len(inst) :
    inst[i].status = "running" /\ ~ inst[i].lost
      <=> \E c \in Calls : call[c] # None /\ call[c].inst = i

\* A run reported as successful on MySQL has executed all of its script, and one
\* reported as failed has not; on PostgreSQL nothing remains of either.
OutcomeIsTold ==
  \A i \in 1 .. Len(inst) :
    /\ inst[i].status = "success" /\ node.source = "mysql" => inst[i].durable = Length
    /\ inst[i].status = "failed" => inst[i].durable < Length
    /\ node.source = "postgresql" => inst[i].durable = 0

\* What the list of runs says is so: while a run is under way and once it is over.
RunsAreTold == RunningIsServed /\ OutcomeIsTold

=============================================================================
