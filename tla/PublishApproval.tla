---------------------------- MODULE PublishApproval ----------------------------
(***************************************************************************)
(* The publish-approval workflow of GIDO (services/publish_approval.py,    *)
(* api/approval.py) with the direct publish endpoints an administrator may *)
(* use instead and the endpoints by which a developer changes what is      *)
(* live without either, as the threads of the web server execute them.     *)
(*                                                                         *)
(* A developer files a ticket (a row of dw_publish_approvals) asking for   *)
(* one action on one resource; somebody with full control over the         *)
(* workspace approves it, which runs the action, or rejects it; the        *)
(* submitter or an administrator may withdraw it.                          *)
(*                                                                         *)
(* A request is a thread with a database session at READ COMMITTED, no row *)
(* lock and no unique constraint, so each SELECT, each commit and each     *)
(* call to an external system is a step of its own: what a step checked    *)
(* may be stale when the next one writes.                                  *)
(***************************************************************************)
EXTENDS Naturals, FiniteSets

CONSTANTS
  Users,          \* members of the workspace, developers at least
  Threads,        \* threads of the server's pool, one request each at a time
  Tickets,        \* ids of approval rows (a bound: as many as are ever filed)
  Resources,      \* workflows, studio nodes, streaming jobs, data APIs
  Kind,           \* the resource_type of each resource
  LockOnPublish,  \* settings.STUDIO_LOCK_ON_PUBLISH
  Faults,         \* TRUE: a request may die between two of its commits
  MaxVersion,     \* bound on DataApi.version (and so on publishes of an API)
  MaxRuns,        \* bound on the completed executions counted per ticket
  Nil             \* no user, no ticket, no resource

Kinds   == {"workflow", "studio_node", "stream_job", "data_service_api"}
Actions == {"publish_to_ds", "publish_node", "submit_job",
            "publish_api", "offline_api"}

ASSUME ConstantsAssumption ==
  /\ Kind \in [Resources -> Kinds]
  /\ LockOnPublish \in BOOLEAN /\ Faults \in BOOLEAN
  /\ MaxVersion \in Nat /\ MaxRuns \in Nat
  /\ Nil \notin Users /\ Nil \notin Tickets /\ Nil \notin Resources

\* _RESOURCE_ACTIONS: what may be asked of a resource of each type.
ResourceActions ==
  [workflow         |-> {"publish_to_ds"},
   studio_node      |-> {"publish_node"},
   stream_job       |-> {"submit_job"},
   data_service_api |-> {"publish_api", "offline_api"}]

ActionsOn(r) == ResourceActions[Kind[r]]

\* Resources whose release happens in another system (DolphinScheduler, Flink)
\* before the row in GIDO's own database is committed.
IsExternal(r) == Kind[r] \in {"workflow", "stream_job"}

VARIABLES
  row,       \* ticket -> its row in dw_publish_approvals
  res,       \* resource -> its row, and what is released in the other system
  admins,    \* users for whom workspace_data_full_control holds now
  req,       \* thread -> the request it is serving
  \* Observers, read by no guard (but for the bound MaxRuns):
  runs,      \* ticket -> how often its action ran to completion
  everAdmin  \* users who had full control at some time

vars == <<row, res, admins, req, runs, everAdmin>>

Statuses == {"none", "pending", "approved", "rejected", "cancelled"}
TerminalStatuses == {"approved", "rejected", "cancelled"}

Row == [status : Statuses, resource : Resources \cup {Nil},
        action : Actions \cup {Nil}, submitter : Users \cup {Nil},
        reviewer : Users \cup {Nil}]
NoRow == [status |-> "none", resource |-> Nil, action |-> Nil,
          submitter |-> Nil, reviewer |-> Nil]

\* exists: the row is there; live: is_published / status "online" / released in
\* Dolphin / running in Flink; locked: is_locked; version: DataApi.version;
\* drift: what is served (an API) or when it runs (a workflow) was edited since
\* the release that put it there.
Resource == [exists : BOOLEAN, live : BOOLEAN, locked : BOOLEAN,
             version : 0 .. MaxVersion, drift : BOOLEAN]

\* pc: what the request does next; version, live, locked: as the session loaded
\* the resource.
PCs == {"idle", "insert", "reject", "cancel", "load", "commit", "release",
        "record", "decide"}
Request == [pc : PCs, user : Users \cup {Nil}, ticket : Tickets \cup {Nil},
            resource : Resources \cup {Nil}, action : Actions \cup {Nil},
            version : 0 .. MaxVersion, live : BOOLEAN, locked : BOOLEAN]
NoRequest == [pc |-> "idle", user |-> Nil, ticket |-> Nil, resource |-> Nil,
              action |-> Nil, version |-> 0, live |-> FALSE, locked |-> FALSE]

TypeOK ==
  /\ row \in [Tickets -> Row]
  /\ res \in [Resources -> Resource]
  /\ admins \in SUBSET Users
  /\ req \in [Threads -> Request]
  /\ runs \in [Tickets -> 0 .. MaxRuns]
  /\ everAdmin \in SUBSET Users

Init ==
  /\ row = [i \in Tickets |-> NoRow]
  /\ res = [r \in Resources |->
              [exists |-> TRUE, live |-> FALSE, locked |-> FALSE, version |-> 0,
               drift |-> FALSE]]
  /\ admins \in SUBSET Users
  /\ req = [t \in Threads |-> NoRequest]
  /\ runs = [i \in Tickets |-> 0]
  /\ everAdmin = admins

-----------------------------------------------------------------------------
(* Starting and ending a request *)

Idle(t) == req[t].pc = "idle"
Start(t, pc, u, i, r, a) ==
  req' = [req EXCEPT ![t] = [pc |-> pc, user |-> u, ticket |-> i,
                             resource |-> r, action |-> a, version |-> 0,
                             live |-> FALSE, locked |-> FALSE]]
Goto(t, pc) == req' = [req EXCEPT ![t].pc = pc]
Finish(t)   == req' = [req EXCEPT ![t] = NoRequest]

IsPending(i) == row[i].status = "pending"

\* find_pending_approval: a pending ticket asks for the same thing.
PendingFor(r, a) ==
  \E i \in Tickets : /\ IsPending(i)
                     /\ row[i].resource = r
                     /\ row[i].action = a

-----------------------------------------------------------------------------
(* Filing a ticket: submit_publish_approval *)

\* An API that is online need not be published again, and only an online one
\* can be taken offline; other resources may be published at any time.
Askable(r, a) ==
  /\ a = "publish_api" => ~ res[r].live
  /\ a = "offline_api" => res[r].live

\* Bound: Tickets has an id left for every request about to insert one.
RoomForTicket ==
  Cardinality({t \in Threads : req[t].pc = "insert"})
    < Cardinality({i \in Tickets : row[i].status = "none"})

\* Everything submit reads before it inserts. An administrator is sent away
\* ("publish directly"), and so is a developer whose ticket is still pending.
SubmitCheck(t, u, r, a) ==
  /\ Idle(t)
  /\ u \notin admins
  /\ a \in ActionsOn(r)
  /\ res[r].exists
  /\ Askable(r, a)
  /\ ~ PendingFor(r, a)
  /\ RoomForTicket
  /\ Start(t, "insert", u, Nil, r, a)
  /\ UNCHANGED <<row, res, admins, runs, everAdmin>>

\* The INSERT and its commit; nothing is checked again.
SubmitInsert(t) ==
  /\ req[t].pc = "insert"
  /\ \E i \in Tickets :
       /\ row[i].status = "none"
       /\ row' = [row EXCEPT ![i] =
                    [status |-> "pending", resource |-> req[t].resource,
                     action |-> req[t].action, submitter |-> req[t].user,
                     reviewer |-> Nil]]
  /\ Finish(t)
  /\ UNCHANGED <<res, admins, runs, everAdmin>>

-----------------------------------------------------------------------------
(* Deciding a ticket: approve, reject, cancel *)

\* The SELECT of the row with the permission and status checks that follow it.
ApproveCheck(t, u, i) ==
  /\ Idle(t) /\ IsPending(i) /\ u \in admins
  /\ Start(t, "load", u, i, row[i].resource, row[i].action)
  /\ UNCHANGED <<row, res, admins, runs, everAdmin>>

\* Mutant of RejectCheck: the permission is not checked.
RejectCheckAnyone(t, u, i) ==
  /\ Idle(t) /\ IsPending(i)
  /\ Start(t, "reject", u, i, Nil, Nil)
  /\ UNCHANGED <<row, res, admins, runs, everAdmin>>

RejectCheck(t, u, i) ==
  /\ Idle(t) /\ IsPending(i) /\ u \in admins
  /\ Start(t, "reject", u, i, Nil, Nil)
  /\ UNCHANGED <<row, res, admins, runs, everAdmin>>

CancelCheck(t, u, i) ==
  /\ Idle(t) /\ IsPending(i)
  /\ u = row[i].submitter \/ u \in admins
  /\ Start(t, "cancel", u, i, Nil, Nil)
  /\ UNCHANGED <<row, res, admins, runs, everAdmin>>

\* UPDATE ... WHERE id = i: the status it overwrites is not looked at.
Close(t, status) ==
  /\ row' = [row EXCEPT ![req[t].ticket].status = status,
                        ![req[t].ticket].reviewer = req[t].user]
  /\ Finish(t)
  /\ UNCHANGED <<res, admins, runs, everAdmin>>

Reject(t)  == req[t].pc = "reject" /\ Close(t, "rejected")
Cancel(t)  == req[t].pc = "cancel" /\ Close(t, "cancelled")
\* The second commit of approve, after the action has committed its own work.
Approve(t) == req[t].pc = "decide" /\ Close(t, "approved")

-----------------------------------------------------------------------------
(* Running the action: _execute_approval_action and the direct endpoints *)

\* Mutant of DirectCheck: assert_can_publish_production is not called.
DirectCheckAnyone(t, u, r, a) ==
  /\ Idle(t)
  /\ a \in ActionsOn(r)
  /\ res[r].exists
  /\ Start(t, "load", u, Nil, r, a)
  /\ UNCHANGED <<row, res, admins, runs, everAdmin>>

\* POST .../publish, /offline, /publish-to-ds, /submit: the same code without
\* a ticket, for whoever passes assert_can_publish_production.
DirectCheck(t, u, r, a) ==
  /\ Idle(t)
  /\ u \in admins
  /\ a \in ActionsOn(r)
  /\ res[r].exists
  /\ Start(t, "load", u, Nil, r, a)
  /\ UNCHANGED <<row, res, admins, runs, everAdmin>>

\* The resource is read into the session. A locked job is refused (403); an
\* API's version is remembered, to be written back plus one, and so are the
\* columns that the UPDATE leaves out when the action does not change them.
LoadResource(t) ==
  LET r == req[t].resource IN
  /\ req[t].pc = "load"
  /\ res[r].exists
  /\ req[t].action = "submit_job" => ~ res[r].locked
  /\ req[t].action = "publish_api" => res[r].version < MaxVersion
  /\ req' = IF IsExternal(r) THEN [req EXCEPT ![t].pc = "release"]
            ELSE [req EXCEPT ![t].version = res[r].version, ![t].live = res[r].live,
                             ![t].locked = res[r].locked, ![t].pc = "commit"]
  /\ UNCHANGED <<row, res, admins, runs, everAdmin>>

\* The action is complete: a direct request ends, an approval has its ticket
\* left to close.
Completed(t) ==
  LET i == req[t].ticket IN
  IF i = Nil THEN Finish(t) /\ UNCHANGED runs
  ELSE /\ runs[i] < MaxRuns
       /\ runs' = [runs EXCEPT ![i] = @ + 1]
       /\ Start(t, "decide", req[t].user, i, Nil, Nil)

\* The row as a data API's or a studio node's publish writes it: an UPDATE of
\* the columns whose value differs from the one that was loaded, so an API loaded
\* online and taken offline meanwhile gets its version and stays offline.
Written(t, old) ==
  CASE req[t].action = "publish_api"  ->
         [old EXCEPT !.live = old.live \/ ~ req[t].live,
                     !.version = req[t].version + 1, !.drift = FALSE]
    [] req[t].action = "offline_api"  -> [old EXCEPT !.live = old.live /\ ~ req[t].live]
    [] req[t].action = "publish_node" ->
         [old EXCEPT !.live = old.live \/ ~ req[t].live,
                     !.locked = old.locked \/ (LockOnPublish /\ ~ req[t].locked)]
    [] OTHER -> old

\* The UPDATE of a data API or node; a row deleted meanwhile makes it fail.
CommitLocal(t) ==
  LET r == req[t].resource IN
  /\ req[t].pc = "commit"
  /\ res[r].exists
  /\ req[t].action = "publish_api" => req[t].version < MaxVersion
  /\ res' = [res EXCEPT ![r] = Written(t, res[r])]
  /\ Completed(t)
  /\ UNCHANGED <<row, admins, everAdmin>>

\* The definition goes online in Dolphin, or the job is accepted by Flink ...
ReleaseExternal(t) ==
  LET r == req[t].resource IN
  /\ req[t].pc = "release"
  /\ res' = [res EXCEPT ![r].live = TRUE, ![r].drift = FALSE]
  /\ Goto(t, "record")
  /\ UNCHANGED <<row, admins, runs, everAdmin>>

\* ... and only then are the codes, the job id and the lock committed.
RecordExternal(t) ==
  LET r == req[t].resource IN
  /\ req[t].pc = "record"
  /\ res[r].exists
  /\ res' = [res EXCEPT ![r].locked = @ \/ (Kind[r] = "stream_job" /\ LockOnPublish)]
  /\ Completed(t)
  /\ UNCHANGED <<row, admins, everAdmin>>

\* Mutant of ActionFails: the exception is swallowed and approve goes on.
ActionFailsSwallowed(t) ==
  /\ req[t].pc \in {"load", "commit", "release", "record"}
  /\ IF req[t].ticket = Nil THEN Finish(t) ELSE Goto(t, "decide")
  /\ UNCHANGED <<row, res, admins, runs, everAdmin>>

\* The action raises: resource gone, job locked, SQL empty, Dolphin or Flink
\* refuses, a later call of the release fails. The session is rolled back and a
\* ticket stays pending; what the other system accepted stays there.
ActionFails(t) ==
  /\ req[t].pc \in {"load", "commit", "release", "record"}
  /\ Finish(t)
  /\ UNCHANGED <<row, res, admins, runs, everAdmin>>

-----------------------------------------------------------------------------
(* What a developer changes in production without a ticket *)

\* These requests ask for a developer's capability only and do not look at
\* is_locked. What they read first decides nothing but that the row was there, so
\* each is the one step that reaches production; a request of a row that has been
\* deleted since may still reach Dolphin or Flink.

\* update_api: what an online API answers with changes where it is, under the
\* version it has.
EditApi(r) ==
  /\ Kind[r] = "data_service_api"
  /\ res[r].exists /\ res[r].live
  /\ res' = [res EXCEPT ![r].drift = TRUE]
  /\ UNCHANGED <<row, admins, req, runs, everAdmin>>

\* update_workflow, after its commit: the released definition gets the schedule
\* that was saved.
PushSchedule(r) ==
  /\ Kind[r] = "workflow"
  /\ res[r].live
  /\ res' = [res EXCEPT ![r].drift = TRUE]
  /\ UNCHANGED <<row, admins, req, runs, everAdmin>>

\* cancel_job: Flink stops the job; the status committed after it is only shown.
StopJob(r) ==
  /\ Kind[r] = "stream_job"
  /\ res[r].live
  /\ res' = [res EXCEPT ![r].live = FALSE]
  /\ UNCHANGED <<row, admins, req, runs, everAdmin>>

-----------------------------------------------------------------------------
(* The rest of the system *)

\* The process is killed or the database connection is lost: the request ends
\* where it is, with what it has committed. A crash of the server is this for
\* every thread.
Die(t) ==
  /\ Faults
  /\ ~ Idle(t)
  /\ Finish(t)
  /\ UNCHANGED <<row, res, admins, runs, everAdmin>>

\* DELETE of the resource; a locked node or job only by an administrator. Its
\* tickets stay. What runs in Dolphin or Flink is stopped first, on a best-effort
\* basis, and stays stopped when the commit of the deletion fails.
DeleteResource(r) ==
  /\ res[r].exists
  /\ res[r].locked => admins # {}
  /\ \E exists, live \in BOOLEAN :
       /\ exists => IsExternal(r)
       /\ live => res[r].live /\ IsExternal(r)
       /\ res' = [res EXCEPT ![r].exists = exists, ![r].live = live]
  /\ UNCHANGED <<row, admins, req, runs, everAdmin>>

\* POST .../unlock by the owner or an administrator.
Unlock(r) ==
  /\ res[r].exists /\ res[r].locked
  /\ res' = [res EXCEPT ![r].locked = FALSE]
  /\ UNCHANGED <<row, admins, req, runs, everAdmin>>

\* A member is made administrator of the workspace, or is one no longer.
SetRole(u) ==
  /\ admins' = IF u \in admins THEN admins \ {u} ELSE admins \cup {u}
  /\ everAdmin' = everAdmin \cup admins'
  /\ UNCHANGED <<row, res, req, runs>>

Submit(t) ==
  \/ \E u \in Users, r \in Resources : \E a \in ActionsOn(r) : SubmitCheck(t, u, r, a)
  \/ SubmitInsert(t)
Review(t) ==
  \/ \E u \in Users, i \in Tickets : \/ ApproveCheck(t, u, i)
                                     \/ RejectCheck(t, u, i)
                                     \/ CancelCheck(t, u, i)
  \/ Reject(t) \/ Cancel(t) \/ Approve(t)
Publish(t) ==
  \/ \E u \in Users, r \in Resources : \E a \in ActionsOn(r) : DirectCheck(t, u, r, a)
  \/ LoadResource(t)
  \/ CommitLocal(t)
  \/ ReleaseExternal(t) \/ RecordExternal(t)
  \/ ActionFails(t)

Next ==
  \/ \E t \in Threads : Submit(t) \/ Review(t) \/ Publish(t) \/ Die(t)
  \/ \E r \in Resources :
       \/ DeleteResource(r) \/ Unlock(r)
       \/ EditApi(r) \/ PushSchedule(r) \/ StopJob(r)
  \/ \E u \in Users : SetRole(u)

Spec == Init /\ [][Next]_vars

-----------------------------------------------------------------------------
(* Properties *)

\* A ticket that reads "approved" has had its action run to completion at least
\* once, whatever ran concurrently and wherever requests died: approve commits
\* the status only after the action has committed.
ApprovedWasExecuted ==
  \A i \in Tickets : row[i].status = "approved" => runs[i] >= 1

\* Nobody decides a ticket without the authority to: approved and rejected
\* tickets carry a reviewer who had full control over the workspace, a cancelled
\* one its submitter or such a user, and an undecided one nobody.
DecidedWithAuthority ==
  \A i \in Tickets :
    /\ row[i].status \in {"approved", "rejected"} => row[i].reviewer \in everAdmin
    /\ row[i].status = "cancelled" =>
         row[i].reviewer \in everAdmin \cup {row[i].submitter}
    /\ row[i].status \in {"none", "pending"} => row[i].reviewer = Nil

\* What anyone with a developer's capability does to production with no ticket:
\* take a job or a workflow down (by stopping it, or by a deletion that fails
\* half-way), edit what an online API answers with, move the schedule of a
\* released workflow. Nothing goes live or gets a version this way, and no API or
\* node goes offline.
DevelopersChange(r) ==
  /\ res'[r].version = res[r].version
  /\ res'[r].live # res[r].live => ~ res'[r].live /\ IsExternal(r)
  /\ res'[r].drift # res[r].drift =>
       /\ res'[r].drift /\ res[r].live
       /\ Kind[r] \in {"data_service_api", "workflow"}

\* Releases are made under full control: production changes, while the row of
\* the resource exists, in a step of a request on that resource whose user has
\* had full control, whether or not roles changed, tickets were withdrawn or the
\* resource changed since its check, or else in one of the ways that are open to
\* developers.
ReleasesAreControlled ==
  [][\A r \in Resources :
       /\ res[r].exists /\ res'[r].exists
       /\ <<res'[r].live, res'[r].version, res'[r].drift>>
            # <<res[r].live, res[r].version, res[r].drift>>
       => \/ \E t \in Threads : /\ req'[t] # req[t]
                                /\ req[t].resource = r
                                /\ req[t].user \in everAdmin
          \/ DevelopersChange(r)]_vars

\* What a request between two of its steps relies on: the ticket it works on was
\* filed, and says what to do, the user it acts for had full control (or, to cancel, is the
\* submitter), and an approval about to be recorded has had its action run.
RequestsJustified ==
  /\ admins \subseteq everAdmin
  /\ \A i \in Tickets : row[i].status # "none" =>
       row[i].resource \in Resources /\ row[i].action \in Actions
  /\ \A t \in Threads :
       LET q == req[t] IN
       /\ q.pc # "idle" => q.user \in Users
       /\ q.pc \in {"reject", "cancel", "decide"} => q.ticket \in Tickets
       /\ q.pc \in {"insert", "load", "commit", "release", "record"} =>
            q.resource \in Resources /\ q.action \in Actions
       /\ q.pc \notin {"idle", "insert", "cancel"} => q.user \in everAdmin
       /\ q.ticket \in Tickets => row[q.ticket].status # "none"
       /\ q.pc = "cancel" => q.user \in everAdmin \cup {row[q.ticket].submitter}
       /\ q.pc = "decide" => runs[q.ticket] >= 1

\* The whole protocol: each ticket is decided once, and its action runs once if
\* the decision is to approve and never otherwise. Holds only while requests do
\* not overlap and do not die between their commits.
Contract ==
  INSTANCE ApprovalContract WITH
    Targets <- (Resources \cup {Nil}) \X (Actions \cup {Nil}),
    status  <- [i \in Tickets |-> row[i].status],
    wants   <- [i \in Tickets |-> <<row[i].resource, row[i].action>>]
KeepsContract == Contract!Spec

=============================================================================
