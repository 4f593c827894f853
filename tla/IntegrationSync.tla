---------------------------- MODULE IntegrationSync ----------------------------
(***************************************************************************)
(* Table synchronisation runs of GIDO's data integration                   *)
(* (services/integration_sync.py, api/integration.py, the cron trigger in  *)
(* services/scheduler.py).                                                 *)
(*                                                                         *)
(* A run is asked for by a request, by the scheduler or by a SYNC node. It *)
(* claims the task in the in-memory set _running_tasks, opens a record in  *)
(* the database and starts a thread that copies rows batch by batch, closes *)
(* the record and gives the claim back. Users edit, disable and delete the *)
(* task meanwhile, the source table grows, GIDO's own database fails, and  *)
(* the process may be killed.                                              *)
(*                                                                         *)
(* A source table is the set of its rows 1 .. n, a row's number being its  *)
(* value in the incremental column.                                        *)
(***************************************************************************)
EXTENDS Naturals, FiniteSets

CONSTANTS
  Tasks,      \* ids of synchronisation tasks, each with its own target table
  Callers,    \* threads that call start_sync_async
  Records,    \* ids of run records, one per run (a bound on the runs)
  MaxRow,     \* bound on the rows of a source table
  RowLimit,   \* MAX_ROWS_PER_RUN
  Editing,    \* TRUE: users edit, disable and delete tasks while runs go on
  Crashes     \* TRUE: GIDO's database may fail, and the process be killed

ASSUME ConstantsAssumption ==
  /\ MaxRow \in Nat /\ RowLimit \in Nat
  /\ "none" \notin Tasks
  /\ Editing \in BOOLEAN /\ Crashes \in BOOLEAN

Modes    == {"full", "incremental", "cdc"}
Rows     == 1 .. MaxRow
Triggers == {"manual", "schedule"}

VARIABLES
  task,     \* task -> its row in dw_sync_tasks
  running,  \* _running_tasks, in memory
  caller,   \* caller -> the task it has claimed and is about to open a record for
  record,   \* record -> its row in dw_sync_records
  run,      \* record -> the thread that executes it
  source,   \* task -> number of rows in its source table
  target,   \* task -> the rows in its target table
  \* History, read by no guard:
  stranded, \* tasks whose claim a start that failed has left in running
  calm      \* no crash, and no failure of the database has left a record running

vars == <<task, running, caller, record, run, source, target, stranded, calm>>

Statuses == {"none", "running", "success", "failed"}

Task   == [exists : BOOLEAN, active : BOOLEAN, mode : Modes, last : 0 .. MaxRow]
\* mode is what the thread read when it began, picked its result set, todo the
\* rows of it that are not copied yet.
Run    == [pc : {"none", "begin", "truncate", "copy", "release"},
           mode : Modes, picked : SUBSET Rows, todo : SUBSET Rows]
NoRun  == [pc |-> "none", mode |-> "full", picked |-> {}, todo |-> {}]
Record == [task : Tasks \cup {"none"}, status : Statuses]
NoRecord == [task |-> "none", status |-> "none"]

TypeOK ==
  /\ task \in [Tasks -> Task]
  /\ running \in SUBSET Tasks
  /\ caller \in [Callers -> Tasks \cup {"none"}]
  /\ record \in [Records -> Record]
  /\ run \in [Records -> Run]
  /\ source \in [Tasks -> 0 .. MaxRow]
  /\ target \in [Tasks -> SUBSET Rows]
  /\ stranded \in SUBSET Tasks
  /\ calm \in BOOLEAN

Init ==
  /\ task \in [Tasks -> {k \in Task : k.exists /\ k.active /\ k.last = 0}]
  /\ running = {}
  /\ caller = [c \in Callers |-> "none"]
  /\ record = [r \in Records |-> NoRecord]
  /\ run = [r \in Records |-> NoRun]
  /\ source = [k \in Tasks |-> 0]
  /\ target = [k \in Tasks |-> {}]
  /\ stranded = {}
  /\ calm = TRUE

-----------------------------------------------------------------------------
(* start_sync_async *)

Startable(k) == task[k].exists /\ task[k].active

Free == {r \in Records : run[r].pc = "none" /\ record[r] = NoRecord}

\* Bound: every caller that has claimed a task finds an id for its record.
RoomForRecord == Cardinality({c \in Callers : caller[c] # "none"}) < Cardinality(Free)

\* Mutant of Claim: the set is not looked at.
ClaimUnchecked(c, k, trigger) ==
  /\ caller[c] = "none"
  /\ trigger = "manual" => Startable(k)
  /\ RoomForRecord
  /\ running' = running \cup {k}
  /\ caller' = [caller EXCEPT ![c] = k]
  /\ UNCHANGED <<task, record, run, source, target, stranded, calm>>

\* The claim, under _run_lock. A request and a SYNC node have checked that the
\* task is there and active; the scheduler's job has not.
Claim(c, k, trigger) ==
  /\ caller[c] = "none"
  /\ trigger = "manual" => Startable(k)
  /\ k \notin running
  /\ RoomForRecord
  /\ running' = running \cup {k}
  /\ caller' = [caller EXCEPT ![c] = k]
  /\ UNCHANGED <<task, record, run, source, target, stranded, calm>>

\* The record is committed and the thread started.
Open(c) ==
  LET k == caller[c] IN
  /\ k \in Tasks
  /\ Startable(k)
  /\ \E r \in Free :
       /\ record' = [record EXCEPT ![r] = [task |-> k, status |-> "running"]]
       /\ run' = [run EXCEPT ![r] = [NoRun EXCEPT !.pc = "begin"]]
  /\ caller' = [caller EXCEPT ![c] = "none"]
  /\ UNCHANGED <<task, running, source, target, stranded, calm>>

\* The task was deleted or disabled after the claim (or never was active, when
\* the scheduler asks): ValueError. The claim is not given back.
Refuse(c) ==
  LET k == caller[c] IN
  /\ k \in Tasks
  /\ ~ Startable(k)
  /\ caller' = [caller EXCEPT ![c] = "none"]
  /\ stranded' = stranded \cup {k}
  /\ UNCHANGED <<task, running, record, run, source, target, calm>>

\* The commit is done; the refresh of the record or the start of the thread fails.
OrphanRecord(k) ==
  /\ Startable(k)
  /\ \E r \in Free : record' = [record EXCEPT ![r] = [task |-> k, status |-> "running"]]
  /\ calm' = FALSE

\* Or the query or the commit fails: a task deleted between the two leaves the
\* record nothing to refer to. The claim is not given back here either.
OpenFails(c) ==
  LET k == caller[c] IN
  /\ Crashes
  /\ k \in Tasks
  /\ OrphanRecord(k) \/ UNCHANGED <<record, calm>>
  /\ caller' = [caller EXCEPT ![c] = "none"]
  /\ stranded' = stranded \cup {k}
  /\ UNCHANGED <<task, running, run, source, target>>

-----------------------------------------------------------------------------
(* run_sync_record and _execute_sync *)

TaskOf(r) == record[r].task

\* A live thread works on record r.
Live(r) == run[r].pc # "none"

\* Rows a run reads: all of them, or those after the stored last_value. A cdc
\* task run this way is run as an incremental one.
Selected(k, mode) == {x \in 1 .. source[k] : mode = "full" \/ x > task[k].last}

\* The thread reads its record and task and opens its cursor. The record may
\* have been deleted with the task: then it only gives the claim back.
Begin(r) ==
  /\ run[r].pc = "begin"
  /\ run' = [run EXCEPT ![r] =
       LET k == TaskOf(r)
           rows == Selected(k, task[k].mode)
       IN IF record[r].status = "none" \/ ~ task[k].exists
            THEN [@ EXCEPT !.pc = "release"]
            ELSE [pc |-> IF task[k].mode = "full" THEN "truncate" ELSE "copy",
                  mode |-> task[k].mode, picked |-> rows, todo |-> rows]]
  /\ UNCHANGED <<task, running, caller, record, source, target, stranded, calm>>

\* GIDO's database fails: before the run has read its record and task, or at the
\* commit that closes it. The thread ends, the record still reads running.
RunBreaks(r) ==
  /\ Crashes
  /\ run[r].pc \in {"begin", "truncate", "copy"}
  /\ run' = [run EXCEPT ![r].pc = "release"]
  /\ calm' = FALSE
  /\ UNCHANGED <<task, running, caller, record, source, target, stranded>>

\* A full run empties the target, and commits that, before the first batch.
Truncate(r) ==
  /\ run[r].pc = "truncate"
  /\ target' = [target EXCEPT ![TaskOf(r)] = {}]
  /\ run' = [run EXCEPT ![r].pc = "copy"]
  /\ UNCHANGED <<task, running, caller, record, source, stranded, calm>>

\* One batch, committed on its own; the source returns its rows in any order.
\* The batch that passes MAX_ROWS_PER_RUN is not written (see FailRun).
CopyBatch(r) ==
  /\ run[r].pc = "copy"
  /\ \E x \in run[r].todo :
       /\ Cardinality(run[r].picked \ run[r].todo) < RowLimit
       /\ target' = [target EXCEPT ![TaskOf(r)] = @ \cup {x}]
       /\ run' = [run EXCEPT ![r].todo = @ \ {x}]
  /\ UNCHANGED <<task, running, caller, record, source, stranded, calm>>

\* The commit that closes a run. It writes the record and the task in one
\* transaction, which fails as a whole when they have been deleted. The new
\* watermark is put into the dict the JSON column was loaded with, and the same
\* dict is assigned back: no difference is seen and last_value is not written.
Close(r, status, mode) ==
  LET k == TaskOf(r) IN
  /\ IF record[r].status = "none" THEN UNCHANGED <<record, task>>
     ELSE /\ record' = [record EXCEPT ![r].status = status]
          /\ task' = [task EXCEPT ![k].mode = IF mode = run[r].mode THEN @ ELSE mode]
  /\ run' = [run EXCEPT ![r].pc = "release"]
  /\ UNCHANGED <<running, caller, source, target, stranded, calm>>

\* Mutant of Succeed: the last row is not fetched.
SucceedEarly(r) ==
  /\ run[r].pc = "copy"
  /\ Cardinality(run[r].todo) <= 1
  /\ Close(r, "success", run[r].mode)

Succeed(r) ==
  /\ run[r].pc = "copy"
  /\ run[r].todo = {}
  /\ Close(r, "success", run[r].mode)

\* Any exception: a connection is lost, a statement fails, the row limit is
\* passed. A cdc task was set to incremental for the run; only success sets it
\* back, so the commit of a failure stores "incremental".
FailRun(r) ==
  /\ run[r].pc \in {"truncate", "copy"}
  /\ Close(r, "failed", IF run[r].mode = "cdc" THEN "incremental" ELSE run[r].mode)

\* Mutant of Release: the claim is given back after a success only.
ReleaseAfterSuccess(r) ==
  /\ run[r].pc = "release"
  /\ running' = IF record[r].status = "success" THEN running \ {TaskOf(r)} ELSE running
  /\ run' = [run EXCEPT ![r] = NoRun]
  /\ UNCHANGED <<task, caller, record, source, target, stranded, calm>>

\* The claim is given back, whatever happened.
Release(r) ==
  /\ run[r].pc = "release"
  /\ running' = running \ {TaskOf(r)}
  /\ run' = [run EXCEPT ![r] = NoRun]
  /\ UNCHANGED <<task, caller, record, source, target, stranded, calm>>

-----------------------------------------------------------------------------
(* Users, the source system, the process *)

\* POST .../toggle-active
Toggle(k) ==
  /\ Editing /\ task[k].exists
  /\ task' = [task EXCEPT ![k].active = ~ @]
  /\ UNCHANGED <<running, caller, record, run, source, target, stranded, calm>>

\* PUT .../tasks/{id}: another mode, or a sync_config with another last_value.
Edit(k) ==
  /\ Editing /\ task[k].exists
  /\ \E mode \in Modes, last \in 0 .. MaxRow :
       task' = [task EXCEPT ![k].mode = mode, ![k].last = last]
  /\ UNCHANGED <<running, caller, record, run, source, target, stranded, calm>>

\* DELETE .../tasks/{id}: the records go with the task; the threads stay.
Delete(k) ==
  /\ Editing /\ task[k].exists
  /\ task' = [task EXCEPT ![k].exists = FALSE]
  /\ record' = [r \in Records |->
                  IF TaskOf(r) = k THEN [record[r] EXCEPT !.status = "none"]
                  ELSE record[r]]
  /\ UNCHANGED <<running, caller, run, source, target, stranded, calm>>

\* A row is appended to the source table.
Grow(k) ==
  /\ source[k] < MaxRow
  /\ source' = [source EXCEPT ![k] = @ + 1]
  /\ UNCHANGED <<task, running, caller, record, run, target, stranded, calm>>

\* The process is killed and started again: what was in memory is gone. Nothing
\* at start-up looks for records that were left running.
Crash ==
  /\ Crashes
  /\ running' = {}
  /\ caller' = [c \in Callers |-> "none"]
  /\ run' = [r \in Records |-> NoRun]
  /\ stranded' = {}
  /\ calm' = FALSE
  /\ UNCHANGED <<task, record, source, target>>

Start(c) ==
  \/ \E k \in Tasks, trigger \in Triggers : Claim(c, k, trigger)
  \/ Open(c)
  \/ Refuse(c) \/ OpenFails(c)
Step(r) ==
  \/ Begin(r) \/ Truncate(r) \/ CopyBatch(r)
  \/ Succeed(r) \/ FailRun(r) \/ RunBreaks(r)
  \/ Release(r)

Next ==
  \/ \E c \in Callers : Start(c)
  \/ \E r \in Records : Step(r)
  \/ \E k \in Tasks : Toggle(k) \/ Edit(k) \/ Delete(k) \/ Grow(k)
  \/ Crash

Spec == Init /\ [][Next]_vars

\* A thread that has claimed a task, or runs one, is scheduled until it is done:
\* nothing in the code waits for anything but the databases.
Fairness ==
  /\ \A c \in Callers : WF_vars(Open(c) \/ Refuse(c) \/ OpenFails(c))
  /\ \A r \in Records : WF_vars(Step(r))

-----------------------------------------------------------------------------
(* Properties *)

\* At most one thread works on a task, through claims that overlap, refusals,
\* deletions and crashes: this is all that _running_tasks is for.
OneRunPerTask ==
  \A r, s \in Records : Live(r) /\ Live(s) /\ TaskOf(r) = TaskOf(s) => r = s

\* Whoever works on a task, or is about to, holds the claim on it, and no two
\* callers hold the same one.
ClaimsAreHeld ==
  /\ \A r \in Records : Live(r) => TaskOf(r) \in running
  /\ \A c \in Callers : caller[c] # "none" =>
       /\ caller[c] \in running
       /\ \A r \in Records : Live(r) => TaskOf(r) # caller[c]
       /\ \A d \in Callers : caller[d] = caller[c] => d = c

\* What a run has copied so far is in the target: nobody truncates it meanwhile.
CopiedIsThere ==
  \A r \in Records : run[r].pc = "copy" =>
    run[r].picked \ run[r].todo \subseteq target[TaskOf(r)]

\* When a run reports success, every row it selected is in the target: no other
\* run of the task has emptied the table under it.
SuccessMeansDelivered ==
  [][\A r \in Records :
       record[r].status = "running" /\ record'[r].status = "success"
       => run[r].picked \subseteq target[TaskOf(r)]]_vars

\* A task that is claimed can be run again "later", and its runs are closed. The
\* claim comes back whatever fails, also when the task or the record is deleted
\* under the run and when GIDO's database cannot be read or written, unless the
\* start itself was refused or failed after the claim; and with it no record of
\* the task reads running, unless the process was killed or the database failed
\* at the one moment that leaves it so.
ClaimsAreReturned ==
  \A k \in Tasks : k \in running ~>
    \/ k \in stranded
    \/ /\ k \notin running
       /\ calm => \A r \in Records : TaskOf(r) = k => record[r].status # "running"
=============================================================================
