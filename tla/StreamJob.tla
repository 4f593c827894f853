------------------------------- MODULE StreamJob -------------------------------
(***************************************************************************)
(* One Flink SQL job of GIDO Stream (api/streaming.py) and its deployment  *)
(* (services/flink_operator_submit.py) in the default submit mode, through *)
(* the Flink Kubernetes operator.                                          *)
(*                                                                         *)
(* A request loads the job's row once, talks to Kubernetes or to the       *)
(* JobManager for up to a minute and commits what it changed: only the     *)
(* columns that differ from what it loaded. Several requests overlap. The  *)
(* deployment has one name for the life of the job; the operator, outside  *)
(* GIDO, starts and stops the Flink job the deployment asks for.           *)
(***************************************************************************)
EXTENDS Naturals

CONSTANTS
  Requests,   \* requests of users and administrators
  Pollers,    \* browser pages that refresh the list and the status of the job
  Scripts,    \* SQL texts
  MaxId,      \* bound on the Flink jobs the operator starts
  Ends,       \* how a Flink job ends by itself
  Faults      \* TRUE: calls to Kubernetes fail, requests and Flink jobs die

ASSUME ConstantsAssumption ==
  /\ MaxId \in Nat /\ Faults \in BOOLEAN
  /\ Ends \subseteq {"finished", "failed", "cancelled"}
  /\ Requests \cap Pollers = {} /\ "none" \notin Requests \cup Pollers \cup Scripts

Sessions == Requests \cup Pollers
Ids      == 1 .. MaxId
Statuses == {"draft", "running", "finished", "failed", "cancelled"}

VARIABLES
  row,      \* the job in dw_streaming_jobs
  history,  \* the scripts in dw_streaming_job_history
  holder,   \* the request whose transaction has an uncommitted UPDATE of the row
  req,      \* request -> what it is about to do, what it loaded and has changed
  cr,       \* the FlinkDeployment
  cm,       \* the ConfigMap with the script, which the pods of the job mount
  live,     \* the Flink job the JobManager has, its script, and whether it runs
  lastId,   \* the last Flink job id the operator has given out
  lost      \* scripts that are not on record, as the request died before its commit

vars == <<row, history, holder, req, cr, cm, live, lastId, lost>>

\* dep: the name of the deployment is recorded; jid: flink_job_id, 0 for none.
Row == [exists : BOOLEAN, script : Scripts \cup {"none"}, locked : BOOLEAN, status : Statuses,
        dep : BOOLEAN, jid : 0 .. MaxId]

\* jid and life are the operator's report; fresh, that it has yet to act on spec.
Deployment == [state : {"absent", "running", "suspended"},
               script : Scripts \cup {"none"}, jid : 0 .. MaxId,
               life : {"none", "stable", "failed"}, fresh : BOOLEAN]

Steps == {"idle", "flush", "mount", "apply", "poll", "suspend", "unmount",
          "stop", "clean", "erase", "readcr", "readjm", "sync", "commit"}
Request == [pc : Steps, seen : Row, new : Row, snap : SUBSET Scripts]

\* Every variable has its type.
TypeOK ==
  /\ row \in Row
  /\ history \in SUBSET Scripts
  /\ holder \in Sessions \cup {"none"}
  /\ req \in [Sessions -> Request]
  /\ cr \in Deployment
  /\ cm \in Scripts \cup {"none"}
  /\ live \in [id : 0 .. MaxId, script : Scripts \cup {"none"}, state : Statuses]
  /\ lastId \in 0 .. MaxId
  /\ lost \in SUBSET Scripts

NoRow == [exists |-> FALSE, script |-> "none", locked |-> FALSE, status |-> "draft",
          dep |-> FALSE, jid |-> 0]
Idle  == [pc |-> "idle", seen |-> NoRow, new |-> NoRow, snap |-> {}]
NoJob == [id |-> 0, script |-> "none", state |-> "finished"]

Init ==
  /\ row \in {r \in Row : r.exists /\ r.script # "none" /\ ~ r.locked /\ r.status = "draft" /\ ~ r.dep /\ r.jid = 0}
  /\ history = {}
  /\ holder = "none"
  /\ req = [q \in Sessions |-> Idle]
  /\ cr = [state |-> "absent", script |-> "none", jid |-> 0, life |-> "none", fresh |-> FALSE]
  /\ cm = "none"
  /\ live = NoJob
  /\ lastId = 0
  /\ lost = {}

-----------------------------------------------------------------------------
(* What requests have in common *)

At(q, pc) == req[q].pc = pc
GoTo(q, pc) == req' = [req EXCEPT ![q].pc = pc]

\* The request is answered.
Done(q) == req' = [req EXCEPT ![q] = Idle]

\* A request loads the row and goes on to pc with the changes that make it new.
Load(q, pc, new, snap) ==
  /\ At(q, "idle")
  /\ row.exists
  /\ req' = [req EXCEPT ![q] = [pc |-> pc, seen |-> row, new |-> new, snap |-> snap]]
  /\ UNCHANGED <<row, history, holder, cr, cm, live, lastId, lost>>

\* Only columns that a request has changed are in its UPDATE.
Merge(r, seen, new) ==
  [f \in DOMAIN r |-> IF new[f] # seen[f] THEN new[f] ELSE r[f]]

\* Requests between the INSERT into the history and the commit: the foreign key
\* keeps the row from being deleted.
Submitting(q) == req[q].pc \in {"mount", "apply", "poll"}

\* The commit waits for the row lock. An UPDATE or a history of a row that has
\* been deleted meanwhile fails, and everything is rolled back.
Commit(q) ==
  /\ At(q, "commit")
  /\ holder \in {"none", q}
  /\ IF row.exists
       THEN /\ row' = Merge(row, req[q].seen, req[q].new)
            /\ history' = history \cup req[q].snap
            /\ lost' = lost \ req[q].snap
       ELSE UNCHANGED <<row, history, lost>>
  /\ holder' = "none"
  /\ Done(q)
  /\ UNCHANGED <<cr, cm, live, lastId>>

-----------------------------------------------------------------------------
(* Editing: update_job, rollback_streaming_job_history, unlock_streaming_job *)

\* Mutant of Save: no snapshot of what is overwritten.
SaveWithoutSnapshot(q, s) ==
  /\ ~ row.locked
  /\ Load(q, "commit", [row EXCEPT !.script = s], {})

Save(q, s) ==
  /\ ~ row.locked
  /\ Load(q, "commit", [row EXCEPT !.script = s], {row.script})

\* What is overwritten is not put into the history.
Rollback(q, s) ==
  /\ ~ row.locked
  /\ s \in history
  /\ Load(q, "commit", [row EXCEPT !.script = s], {})

Unlock(q) == Load(q, "commit", [row EXCEPT !.locked = FALSE], {})

-----------------------------------------------------------------------------
(* Submission: execute_streaming_job_submit, submit_sql_via_operator *)

\* Mutants of SubmitBegin: the lock is not looked at; the history gets what is
\* overwritten only.
SubmitBeginLocked(q, s) ==
  Load(q, "flush", [row EXCEPT !.script = s, !.dep = FALSE],
       {s} \cup (IF s = row.script THEN {} ELSE {row.script}))
SubmitBeginUnrecorded(q, s) ==
  /\ ~ row.locked
  /\ Load(q, "flush", [row EXCEPT !.script = s, !.dep = FALSE],
          IF s = row.script THEN {} ELSE {row.script})

\* The script comes with the request, or is the row's. The name of the
\* deployment is cleared and set again when the deployment has been applied.
SubmitBegin(q, s) ==
  /\ ~ row.locked
  /\ Load(q, "flush", [row EXCEPT !.script = s, !.dep = FALSE],
          {s} \cup (IF s = row.script THEN {} ELSE {row.script}))

\* The history is inserted; an UPDATE, if there is one, takes the row lock. The
\* row may be gone by now.
SubmitFlush(q) ==
  LET updates == req[q].new # req[q].seen IN
  /\ At(q, "flush")
  /\ updates => holder = "none"
  /\ IF row.exists
       THEN /\ holder' = IF updates THEN q ELSE holder
            /\ GoTo(q, "mount")
       ELSE /\ Done(q)
            /\ UNCHANGED holder
  /\ UNCHANGED <<row, history, cr, cm, live, lastId, lost>>

\* The ConfigMap is created or replaced.
SubmitMount(q) ==
  /\ At(q, "mount")
  /\ cm' = req[q].new.script
  /\ GoTo(q, "apply")
  /\ UNCHANGED <<row, history, holder, cr, live, lastId, lost>>

\* The deployment is created or replaced. What the operator reported of the
\* job that ran before is still in it.
SubmitApply(q) ==
  /\ At(q, "apply")
  /\ cr' = [cr EXCEPT !.state = "running", !.script = req[q].new.script, !.fresh = TRUE]
  /\ GoTo(q, "poll")
  /\ UNCHANGED <<row, history, holder, cm, live, lastId, lost>>

Submitted(r, jid) == [r EXCEPT !.status = "running", !.locked = TRUE, !.dep = TRUE, !.jid = jid]

\* A job id in the deployment is taken as soon as it is there; after 45 seconds
\* the submission goes on without one. The name is set again (the flush wrote
\* that it is not known).
SubmitPoll(q) ==
  /\ At(q, "poll")
  /\ \E jid \in {cr.jid, 0} :
       req' = [req EXCEPT ![q].pc = "commit", ![q].seen.dep = FALSE,
                          ![q].new = Submitted(@, jid)]
  /\ UNCHANGED <<row, history, holder, cr, cm, live, lastId, lost>>

\* Mutant of SubmitFail: the transaction is left open.
SubmitFailLeaking(q) ==
  /\ Faults
  /\ Submitting(q)
  /\ Done(q)
  /\ UNCHANGED <<row, history, holder, cr, cm, live, lastId, lost>>

\* A refusal before the history is written (no operator, an empty script) ends
\* the request and nothing is stored, nor when the history cannot be written. Any
\* exception after it: the job is marked failed, and what is in Kubernetes stays.
SubmitFail(q) ==
  /\ Faults
  /\ \/ /\ At(q, "flush")
        /\ Done(q)
     \/ /\ Submitting(q)
        /\ req' = [req EXCEPT ![q].pc = "commit", ![q].new.status = "failed"]
  /\ UNCHANGED <<row, history, holder, cr, cm, live, lastId, lost>>

-----------------------------------------------------------------------------
(* Stopping: cancel_job, delete_job *)

Suspended == [cr EXCEPT !.state = "suspended", !.fresh = @ \/ cr.state = "running"]

CancelBegin(q) == Load(q, "suspend", [row EXCEPT !.status = "cancelled", !.dep = TRUE], {})

\* Mutant of Suspend: the ConfigMap is deleted first.
UnmountAndSuspend(q) ==
  /\ At(q, "suspend")
  /\ cm' = "none"
  /\ \/ /\ cr.state # "absent"
        /\ cr' = Suspended
        /\ GoTo(q, "unmount")
     \/ /\ cr.state = "absent" \/ Faults
        /\ Done(q)
        /\ UNCHANGED cr
  /\ UNCHANGED <<row, history, holder, live, lastId, lost>>

\* 404, or another error, ends the request.
Suspend(q) ==
  /\ At(q, "suspend")
  /\ \/ /\ cr.state # "absent"
        /\ cr' = Suspended
        /\ GoTo(q, "unmount")
     \/ /\ cr.state = "absent" \/ Faults
        /\ Done(q)
        /\ UNCHANGED cr
  /\ UNCHANGED <<row, history, holder, cm, live, lastId, lost>>

\* The ConfigMap is deleted; a failure is only logged.
Unmount(q) ==
  /\ At(q, "unmount")
  /\ cm' \in {"none"} \cup (IF Faults THEN {cm} ELSE {})
  /\ GoTo(q, "commit")
  /\ UNCHANGED <<row, history, holder, cr, live, lastId, lost>>

\* Also while the job is locked, when an administrator asks.
DeleteBegin(q) == Load(q, "stop", row, {})

\* A deployment that cannot be stopped does not keep the job from being deleted.
Stop(q) ==
  /\ At(q, "stop")
  /\ \/ /\ cr.state # "absent"
        /\ cr' = Suspended
        /\ GoTo(q, "clean")
     \/ /\ cr.state = "absent" \/ Faults
        /\ GoTo(q, "erase")
        /\ UNCHANGED cr
  /\ UNCHANGED <<row, history, holder, cm, live, lastId, lost>>

Clean(q) ==
  /\ At(q, "clean")
  /\ cm' \in {"none"} \cup (IF Faults THEN {cm} ELSE {})
  /\ GoTo(q, "erase")
  /\ UNCHANGED <<row, history, holder, cr, live, lastId, lost>>

Erase(q) ==
  /\ At(q, "erase")
  /\ holder = "none" /\ \A o \in Sessions : ~ Submitting(o)
  /\ row' = [row EXCEPT !.exists = FALSE]
  /\ history' = {}
  /\ lost' = {}
  /\ Done(q)
  /\ UNCHANGED <<holder, cr, cm, live, lastId>>

-----------------------------------------------------------------------------
(* Refreshing: get_job_status, list_jobs *)

StatusBegin(q) == Load(q, "readcr", row, {})

\* The deployment is found by the name the job must have. A deployment that
\* cannot be read is passed over.
ReadDeployment(q) ==
  /\ At(q, "readcr")
  /\ \/ /\ cr.state = "suspended"
        /\ IF req[q].seen.status = "cancelled" THEN Done(q)
           ELSE req' = [req EXCEPT ![q].pc = "commit", ![q].new.status = "cancelled",
                                   ![q].new.dep = TRUE]
     \/ /\ cr.state # "suspended" \/ Faults
        /\ IF req[q].seen.jid = 0 THEN Done(q) ELSE GoTo(q, "readjm")
  /\ UNCHANGED <<row, history, holder, cr, cm, live, lastId, lost>>

\* The JobManager, when there is one and it answers, knows the Flink job of its
\* deployment, also when that has ended, and no other. A cancelled job is not
\* set back to running.
ReadJobManager(q) ==
  /\ At(q, "readjm")
  /\ LET seen == req[q].seen
         commit(status) == req' = [req EXCEPT ![q].pc = "commit", ![q].new.status = status]
     IN \/ (live = NoJob \/ Faults) /\ Done(q)
        \/ live # NoJob /\ live.id = seen.jid
             /\ commit(IF seen.status = "cancelled" /\ live.state = "running"
                       THEN seen.status ELSE live.state)
        \/ live # NoJob /\ live.id # seen.jid
             /\ IF seen.status = "running" THEN commit("cancelled") ELSE Done(q)
  /\ UNCHANGED <<row, history, holder, cr, cm, live, lastId, lost>>

\* The list refreshes every job that is not cancelled.
SyncBegin(q) ==
  /\ row.status # "cancelled"
  /\ Load(q, "sync", row, {})

\* What the deployment says of the job, as a change of the row.
Patched(r) ==
  IF cr.state = "suspended" THEN [r EXCEPT !.status = "cancelled"]
  ELSE [r EXCEPT !.jid = IF cr.jid # 0 THEN cr.jid ELSE @,
                 !.status = IF cr.life = "stable" THEN "running"
                            ELSE IF cr.life = "failed" THEN "failed"
                            ELSE IF cr.jid # 0 THEN "running" ELSE @]

\* Mutant of Sync: a suspended deployment is not recognised.
SyncIgnoringSuspended(q) ==
  /\ At(q, "sync")
  /\ IF req[q].seen.dep /\ cr.state = "running"
       THEN req' = [req EXCEPT ![q].pc = "commit", ![q].new = Patched(@)]
       ELSE Done(q)
  /\ UNCHANGED <<row, history, holder, cr, cm, live, lastId, lost>>

\* Without a recorded name the deployment is looked for under the name of a JAR
\* job of workspace 0, and is not found. (A read that fails leaves the row, and
\* the page asks again: left out.)
Sync(q) ==
  /\ At(q, "sync")
  /\ IF req[q].seen.dep /\ cr.state # "absent"
       THEN req' = [req EXCEPT ![q].pc = "commit", ![q].new = Patched(@)]
       ELSE Done(q)
  /\ UNCHANGED <<row, history, holder, cr, cm, live, lastId, lost>>

-----------------------------------------------------------------------------
(* The operator, Flink, and the server *)

\* The operator acts on the deployment: the running Flink job is stopped, and a
\* new one started from the mounted script. Its pods do not start without one.
Reconcile ==
  /\ cr.fresh
  /\ cr.state = "running" => lastId < MaxId
  /\ cr' = [cr EXCEPT !.fresh = FALSE]
  /\ IF cr.state = "running" /\ cm # "none"
       THEN /\ lastId' = lastId + 1
            /\ live' = [id |-> lastId + 1, script |-> cm, state |-> "running"]
       ELSE /\ live' = NoJob
            /\ UNCHANGED lastId
  /\ UNCHANGED <<row, history, holder, req, cm, lost>>

\* The operator reports the Flink job it sees.
Report ==
  /\ ~ cr.fresh /\ live # NoJob
  /\ cr' = [cr EXCEPT !.jid = live.id,
                      !.life = IF live.state = "failed" THEN "failed" ELSE "stable"]
  /\ UNCHANGED <<row, history, holder, req, cm, live, lastId, lost>>

\* The Flink job ends, or is lost with its JobManager.
Fail ==
  /\ Faults
  /\ live # NoJob
  /\ \/ /\ live.state = "running"
        /\ \E s \in Ends : live' = [live EXCEPT !.state = s]
        /\ UNCHANGED cr
     \/ /\ live' = NoJob
        /\ cr' = [cr EXCEPT !.life = "failed"]
  /\ UNCHANGED <<row, history, holder, req, cm, lastId, lost>>

\* A request is lost with its process or its database connection. (A page whose
\* request is lost asks again: left out.)
Die(q) ==
  /\ Faults
  /\ ~ At(q, "idle")
  /\ holder' = IF holder = q THEN "none" ELSE holder
  /\ lost' = IF req[q].pc \in {"poll", "commit"} THEN lost \cup (req[q].snap \ history) ELSE lost
  /\ Done(q)
  /\ UNCHANGED <<row, history, cr, cm, live, lastId>>

Edit(q)    == \E s \in Scripts : Save(q, s) \/ Rollback(q, s)
Submit(q)  == SubmitFlush(q) \/ SubmitMount(q) \/ SubmitApply(q) \/ SubmitPoll(q) \/ SubmitFail(q)
Cancel(q)  == Suspend(q) \/ Unmount(q)
Delete(q)  == Stop(q) \/ Clean(q) \/ Erase(q)
Refresh(q) == ReadDeployment(q) \/ ReadJobManager(q) \/ Sync(q)
Poll(p)    == StatusBegin(p) \/ SyncBegin(p)
Begin(q)   == \/ Edit(q) \/ Unlock(q) \/ CancelBegin(q) \/ DeleteBegin(q) \/ Poll(q)
              \/ \E s \in Scripts : SubmitBegin(q, s)
Proceed(q) == Submit(q) \/ Cancel(q) \/ Delete(q) \/ Refresh(q) \/ Commit(q)

Next ==
  \/ \E q \in Requests : Begin(q)
  \/ \E p \in Pollers : Poll(p)
  \/ \E q \in Sessions : Proceed(q)
  \/ \E q \in Requests : Die(q)
  \/ Reconcile \/ Report \/ Fail

Spec == Init /\ [][Next]_vars

\* A request that runs goes on, and gets the row lock in its turn (the database
\* queues the requests for it). The operator acts and reports, and an open page
\* asks every six seconds for the list, whatever else it asks for in between.
Fairness ==
  /\ \A q \in Sessions : WF_vars(Proceed(q)) /\ SF_vars(SubmitFlush(q) \/ Commit(q) \/ Erase(q))
  /\ \A p \in Pollers : SF_vars(SyncBegin(p))
  /\ WF_vars(Reconcile) /\ WF_vars(Report)
FairSpec == Spec /\ Fairness

-----------------------------------------------------------------------------
(* Properties *)

\* A locked job's script is the one its deployment was given: submission locks
\* what it deploys, and nothing is deployed or edited under the lock.
LockedIsDeployed == row.exists /\ row.locked => cr.script = row.script

\* A deployment that is to run has its script mounted, whatever step of a
\* submission, a stop or a deletion failed.
RunningHasScript == cr.state = "running" => cm # "none"

\* A script that a save or a submission overwrites with a new one is in the history.
OverwrittenIsKept ==
  [][row'.exists /\ row'.script # row.script /\ row'.script \notin history
       => row.script \in history']_vars

\* Once no submission is under way, the deployed script is in the history, where
\* a rollback finds it - unless the submission died between the deployment and
\* its commit.
DeployedIsOnRecord ==
  row.exists /\ cr.state # "absent"
    /\ (\A q \in Sessions : ~ Submitting(q) /\ (At(q, "commit") => req[q].snap = {}))
    => cr.script \in history \cup lost

\* A deployment that has been suspended is shown as cancelled in the end.
SuspendedIsReported ==
  cr.state = "suspended" /\ row.dep
    ~> cr.state # "suspended" \/ row.status = "cancelled" \/ ~ row.dep \/ ~ row.exists

\* Every request ends: nobody waits for ever for the lock of the row.
RequestsEnd == \A q \in Sessions : ~ At(q, "idle") ~> At(q, "idle")

=============================================================================
