-------------------------- MODULE LocalRuns_proofs --------------------------
(***************************************************************************)
(* What is proved about the work that the server does itself: runs of      *)
(* synchronisation tasks with their job table (IntegrationSync and its     *)
(* composition SyncSchedule), and instances of workflows without Dolphin   *)
(* (WorkflowRuns), with users who edit and a process that is killed. The   *)
(* two share no state.                                                     *)
(*                                                                         *)
(* Synchronisation. Mutual exclusion needs to know who holds the claim at  *)
(* every moment: ClaimsAreHeld passes it from the caller to the thread it  *)
(* starts, and a new claim is made only when nobody holds one. Under its   *)
(* schedules the system does nothing that IntegrationSync does not allow,  *)
(* and a reload that runs alone leaves the job table as the tasks ask.     *)
(*                                                                         *)
(* Instances. One runner needs to know who can reach an instance: the      *)
(* executor takes pending ones that nobody has, a request or a job keeps   *)
(* its own running as long as it works for it, and a page can rerun only   *)
(* what it was shown as failed, which no request or job works for.         *)
(***************************************************************************)
EXTENDS SyncSchedule, WorkflowRuns, TLAPS

USE DEF Statuses, Modes

\* A live thread works for a task and its record id is taken.
LiveHasTask == \A r \in Records : Live(r) => TaskOf(r) \in Tasks

\* A run that has yet to truncate has copied nothing.
RunsStartFull ==
  \A r \in Records : run[r].pc = "truncate" => run[r].todo = run[r].picked

Inv == /\ TypeOK
       /\ LiveHasTask
       /\ RunsStartFull
       /\ OneRunPerTask
       /\ ClaimsAreHeld

\* The initial states satisfy the inductive invariant.
LEMMA InitInv == Init => Inv
BY ConstantsAssumption
DEF Init, Inv, TypeOK, LiveHasTask, RunsStartFull, OneRunPerTask, ClaimsAreHeld, Live, Task,
    Run, NoRun, Record, NoRecord, Rows

\* The claim and record part: what mutual exclusion rests on.
Exclusion == LiveHasTask /\ RunsStartFull /\ OneRunPerTask /\ ClaimsAreHeld

\* Writing well-typed fields of one task keeps the table well-typed.
LEMMA TaskUpdate ==
  ASSUME NEW f \in [Tasks -> Task], NEW k \in Tasks
  PROVE  /\ [f EXCEPT ![k].active = ~ f[k].active] \in [Tasks -> Task]
         /\ [f EXCEPT ![k].exists = FALSE] \in [Tasks -> Task]
         /\ \A m \in Modes, n \in 0 .. MaxRow :
              [f EXCEPT ![k].mode = m, ![k].last = n] \in [Tasks -> Task]
BY DEF Task

\* A run selects rows of its source table.
LEMMA SelectedRows ==
  ASSUME TypeOK, NEW k \in Tasks, NEW mode
  PROVE  Selected(k, mode) \subseteq Rows
<1>1. source[k] \in 0 .. MaxRow
  BY DEF TypeOK
<1> QED
  BY <1>1, ConstantsAssumption DEF Selected, Rows

\* Closing a run keeps the types, whatever it stores.
LEMMA CloseType ==
  ASSUME TypeOK, LiveHasTask, NEW r \in Records, run[r].pc = "copy" \/ run[r].pc = "truncate",
         NEW status \in Statuses, NEW mode \in Modes, Close(r, status, mode)
  PROVE  TypeOK'
<1>1. TaskOf(r) \in Tasks
  BY DEF LiveHasTask, Live
<1>2. record' \in [Records -> Record]
  BY DEF Close, TypeOK, Record
<1>3. task' \in [Tasks -> Task]
  <2>1. ASSUME NEW m \in Modes PROVE [task EXCEPT ![TaskOf(r)].mode = m] \in [Tasks -> Task]
    BY <1>1 DEF TypeOK, Task
  <2>2. task[TaskOf(r)].mode \in Modes
    BY <1>1 DEF TypeOK, Task
  <2>3. CASE UNCHANGED task
    BY <2>3 DEF TypeOK
  <2>4. CASE task' = [task EXCEPT ![TaskOf(r)].mode =
                        IF mode = run[r].mode THEN @ ELSE mode]
    BY <2>1, <2>2, <2>4
  <2> QED
    BY <2>3, <2>4 DEF Close
<1>4. run' \in [Records -> Run]
  BY DEF Close, TypeOK, Run
<1> QED
  BY <1>2, <1>3, <1>4 DEF Close, TypeOK

\* Every step keeps the types.
LEMMA TypeStep == TypeOK /\ LiveHasTask /\ [Next]_vars => TypeOK'
<1> SUFFICES ASSUME TypeOK /\ LiveHasTask, [Next]_vars PROVE TypeOK'
  OBVIOUS
<1> USE ConstantsAssumption
        DEF TypeOK, LiveHasTask, Task, Run, NoRun, Record, NoRecord, Rows, Live, TaskOf
<1>1. ASSUME NEW c \in Callers, NEW k \in Tasks, NEW g \in Triggers, Claim(c, k, g)
      PROVE  TypeOK'
  BY <1>1 DEF Claim, Startable
<1>2. ASSUME NEW c \in Callers, Open(c)
      PROVE  TypeOK'
  BY <1>2 DEF Open, Free
<1>3. ASSUME NEW c \in Callers, Refuse(c)
      PROVE  TypeOK'
  BY <1>3 DEF Refuse
<1>4. ASSUME NEW r \in Records, Begin(r)
      PROVE  TypeOK'
  <2>1. CASE record[r].status = "none" \/ ~ task[TaskOf(r)].exists
    BY <1>4, <2>1, ZenonT(60) DEF Begin
  <2>2. CASE ~ (record[r].status = "none" \/ ~ task[TaskOf(r)].exists)
    <3>1. TaskOf(r) \in Tasks /\ task[TaskOf(r)].mode \in Modes
      BY <1>4 DEF Begin
    <3>2. Selected(TaskOf(r), task[TaskOf(r)].mode) \in SUBSET Rows
      BY <3>1, SelectedRows
    <3>3. [pc |-> IF task[TaskOf(r)].mode = "full" THEN "truncate" ELSE "copy",
           mode |-> task[TaskOf(r)].mode,
           picked |-> Selected(TaskOf(r), task[TaskOf(r)].mode),
           todo |-> Selected(TaskOf(r), task[TaskOf(r)].mode)] \in Run
      BY <3>1, <3>2
    <3>4. run' \in [Records -> Run]
      BY <1>4, <2>2, <3>3 DEF Begin
    <3> QED
      BY <1>4, <3>4 DEF Begin
  <2> QED
    BY <2>1, <2>2
<1>5. ASSUME NEW r \in Records, Truncate(r)
      PROVE  TypeOK'
  BY <1>5 DEF Truncate
<1>6. ASSUME NEW r \in Records, CopyBatch(r)
      PROVE  TypeOK'
  <2>1. PICK x \in run[r].todo :
          /\ target' = [target EXCEPT ![TaskOf(r)] = @ \cup {x}]
          /\ run' = [run EXCEPT ![r].todo = @ \ {x}]
    BY <1>6 DEF CopyBatch
  <2>2. target' \in [Tasks -> SUBSET Rows]
    BY <1>6, <2>1 DEF CopyBatch
  <2>3. run' \in [Records -> Run]
    BY <2>1
  <2> QED
    BY <1>6, <2>2, <2>3 DEF CopyBatch
<1>7. ASSUME NEW r \in Records, Succeed(r)
      PROVE  TypeOK'
  BY <1>7, CloseType DEF Succeed
<1>8. ASSUME NEW r \in Records, FailRun(r)
      PROVE  TypeOK'
  BY <1>8, CloseType DEF FailRun
<1>9. ASSUME NEW r \in Records, Release(r)
      PROVE  TypeOK'
  BY <1>9 DEF Release
<1>10. ASSUME NEW k \in Tasks, Toggle(k)
      PROVE  TypeOK'
  <2>1. task' \in [Tasks -> Task]
    <3>1. task' = [task EXCEPT ![k].active = ~ task[k].active]
      BY <1>10 DEF Toggle
    <3>2. [task EXCEPT ![k].active = ~ task[k].active] \in [Tasks -> Task]
      BY TaskUpdate
    <3> QED
      BY <3>1, <3>2
  <2> QED
    BY <1>10, <2>1 DEF Toggle
<1>11. ASSUME NEW k \in Tasks, Edit(k)
      PROVE  TypeOK'
  <2>1. task' \in [Tasks -> Task]
    <3>1. PICK mode \in Modes, last \in 0 .. MaxRow :
            task' = [task EXCEPT ![k].mode = mode, ![k].last = last]
      BY <1>11 DEF Edit
    <3> HIDE DEF Task
    <3> QED
      BY <3>1, TaskUpdate
  <2> QED
    BY <1>11, <2>1 DEF Edit
<1>12. ASSUME NEW k \in Tasks, Delete(k)
      PROVE  TypeOK'
  <2>1. task' \in [Tasks -> Task]
    <3>1. task' = [task EXCEPT ![k].exists = FALSE]
      BY <1>12 DEF Delete
    <3> HIDE DEF Task
    <3> QED
      BY <3>1, TaskUpdate
  <2>2. record' \in [Records -> Record]
    BY <1>12 DEF Delete
  <2> QED
    BY <1>12, <2>1, <2>2 DEF Delete
<1>13. ASSUME NEW k \in Tasks, Grow(k)
      PROVE  TypeOK'
  BY <1>13 DEF Grow
<1>14. ASSUME Crash
      PROVE  TypeOK'
  BY <1>14 DEF Crash
<1>15. ASSUME NEW c \in Callers, OpenFails(c)
      PROVE  TypeOK'
  <2>1. record' \in [Records -> Record] /\ calm' \in BOOLEAN
    <3>1. CASE ~ OrphanRecord(caller[c])
      BY <1>15, <3>1 DEF OpenFails
    <3>2. CASE OrphanRecord(caller[c])
      <4>1. PICK r \in Free :
              record' = [record EXCEPT ![r] = [task |-> caller[c], status |-> "running"]]
        BY <3>2 DEF OrphanRecord
      <4>2. [task |-> caller[c], status |-> "running"] \in Record
        BY <1>15 DEF OpenFails
      <4>3. calm' = FALSE
        BY <3>2 DEF OrphanRecord
      <4> QED
        BY <4>1, <4>2, <4>3
    <3> QED
      BY <3>1, <3>2
  <2>2. caller' \in [Callers -> Tasks \cup {"none"}] /\ stranded' \in SUBSET Tasks
    BY <1>15 DEF OpenFails
  <2>3. UNCHANGED <<task, running, run, source, target>>
    BY <1>15 DEF OpenFails
  <2> QED
    BY <2>1, <2>2, <2>3
<1>16. ASSUME NEW r \in Records, RunBreaks(r)
      PROVE  TypeOK'
  BY <1>16 DEF RunBreaks
<1>17. CASE UNCHANGED vars
  BY <1>17 DEF vars
<1> QED
  BY <1>1, <1>2, <1>3, <1>4, <1>5, <1>6, <1>7, <1>8, <1>9, <1>10, <1>11, <1>12, <1>13, <1>14, <1>15, <1>16, <1>17 DEF Next, Start, Step

\* Every step keeps the claims and mutual exclusion.
LEMMA ExclusionStep == TypeOK /\ Exclusion /\ [Next]_vars => Exclusion'
<1> SUFFICES ASSUME TypeOK /\ Exclusion, [Next]_vars PROVE Exclusion'
  OBVIOUS
<1> USE ConstantsAssumption
        DEF TypeOK, Exclusion, LiveHasTask, RunsStartFull, OneRunPerTask, ClaimsAreHeld, Task, Run, NoRun, Record, NoRecord, Live, TaskOf
<1>1. ASSUME NEW c \in Callers, NEW k \in Tasks, NEW g \in Triggers, Claim(c, k, g)
      PROVE  Exclusion'
  BY <1>1 DEF Claim, Startable
<1>2. ASSUME NEW c \in Callers, Open(c)
      PROVE  Exclusion'
  BY <1>2 DEF Open, Free
<1>3. ASSUME NEW c \in Callers, Refuse(c)
      PROVE  Exclusion'
  BY <1>3 DEF Refuse
<1>4. ASSUME NEW r \in Records, Begin(r)
      PROVE  Exclusion'
  BY <1>4 DEF Begin, Selected
<1>5. ASSUME NEW r \in Records, Truncate(r)
      PROVE  Exclusion'
  BY <1>5 DEF Truncate
<1>6. ASSUME NEW r \in Records, CopyBatch(r)
      PROVE  Exclusion'
  BY <1>6 DEF CopyBatch
<1>7. ASSUME NEW r \in Records, Succeed(r)
      PROVE  Exclusion'
  BY <1>7 DEF Succeed, Close
<1>8. ASSUME NEW r \in Records, FailRun(r)
      PROVE  Exclusion'
  BY <1>8 DEF FailRun, Close
<1>9. ASSUME NEW r \in Records, Release(r)
      PROVE  Exclusion'
  BY <1>9 DEF Release
<1>10. ASSUME NEW k \in Tasks, Toggle(k)
      PROVE  Exclusion'
  BY <1>10 DEF Toggle
<1>11. ASSUME NEW k \in Tasks, Edit(k)
      PROVE  Exclusion'
  BY <1>11 DEF Edit
<1>12. ASSUME NEW k \in Tasks, Delete(k)
      PROVE  Exclusion'
  BY <1>12 DEF Delete
<1>13. ASSUME NEW k \in Tasks, Grow(k)
      PROVE  Exclusion'
  BY <1>13 DEF Grow
<1>14. ASSUME Crash
      PROVE  Exclusion'
  BY <1>14 DEF Crash
<1>15. ASSUME NEW c \in Callers, OpenFails(c)
      PROVE  Exclusion'
  <2>1. UNCHANGED <<running, run>>
    BY <1>15 DEF OpenFails
  <2>2. ASSUME NEW r \in Records, Live(r) PROVE record'[r].task = record[r].task
    <3>1. CASE ~ OrphanRecord(caller[c])
      BY <1>15, <3>1 DEF OpenFails
    <3>2. CASE OrphanRecord(caller[c])
      <4>1. PICK s \in Free :
              record' = [record EXCEPT ![s] = [task |-> caller[c], status |-> "running"]]
        BY <3>2 DEF OrphanRecord
      <4>2. r # s
        BY <2>2, <4>1 DEF Free
      <4> QED
        BY <4>1, <4>2
    <3> QED
      BY <3>1, <3>2
  <2>3. ASSUME NEW d \in Callers, caller'[d] # "none" PROVE caller'[d] = caller[d]
    BY <1>15, <2>3 DEF OpenFails
  <2>4. LiveHasTask' /\ RunsStartFull' /\ OneRunPerTask'
    BY <2>1, <2>2
  <2>5. ClaimsAreHeld'
    BY <2>1, <2>2, <2>3
  <2> QED
    BY <2>4, <2>5
<1>16. ASSUME NEW r \in Records, RunBreaks(r)
      PROVE  Exclusion'
  BY <1>16 DEF RunBreaks
<1>17. CASE UNCHANGED vars
  BY <1>17 DEF vars
<1> QED
  BY <1>1, <1>2, <1>3, <1>4, <1>5, <1>6, <1>7, <1>8, <1>9, <1>10, <1>11, <1>12, <1>13, <1>14, <1>15, <1>16, <1>17 DEF Next, Start, Step

\* The inductive invariant holds throughout every behaviour.
THEOREM Invariance == Spec => []Inv
<1>1. Inv <=> TypeOK /\ Exclusion
  BY DEF Inv, Exclusion
<1>2. Init => Inv
  BY InitInv
<1>3. Inv /\ [Next]_vars => Inv'
  <2>1. TypeOK /\ Exclusion /\ [Next]_vars => TypeOK' /\ Exclusion'
    BY TypeStep, ExclusionStep DEF Exclusion
  <2> QED
    BY <2>1 DEF Inv, Exclusion
<1> QED
  BY <1>2, <1>3, PTL DEF Spec

\* Every variable keeps its type.
THEOREM TypeCorrect == Spec => []TypeOK
<1>1. Inv => TypeOK
  BY DEF Inv
<1> QED
  BY <1>1, Invariance, PTL

\* At most one thread synchronises a task, however many callers ask for it and
\* whatever users and crashes do meanwhile.
THEOREM MutualExclusion == Spec => []OneRunPerTask
<1>1. Inv => OneRunPerTask
  BY DEF Inv
<1> QED
  BY <1>1, Invariance, PTL

\* The claim is held from before the record is opened until after it is closed.
THEOREM ClaimsCoverRuns == Spec => []ClaimsAreHeld
<1>1. Inv => ClaimsAreHeld
  BY DEF Inv
<1> QED
  BY <1>1, Invariance, PTL

\* No step takes back what a run has copied: the only one that empties a target
\* is the truncation by a run of the same task, and there is no other such run.
LEMMA CopiedStep == Inv /\ CopiedIsThere /\ [Next]_vars => CopiedIsThere'
<1> SUFFICES ASSUME Inv, CopiedIsThere, [Next]_vars,
                    NEW r \in Records, run'[r].pc = "copy"
             PROVE  run'[r].picked \ run'[r].todo \subseteq target'[TaskOf(r)']
  BY DEF CopiedIsThere, TaskOf
<1> DEFINE Goal == run'[r].picked \ run'[r].todo \subseteq target'[TaskOf(r)']
<1> USE DEF CopiedIsThere, TaskOf
<1>1. /\ run \in [Records -> Run] /\ record \in [Records -> Record]
      /\ target \in [Tasks -> SUBSET Rows]
  BY DEF Inv, TypeOK
<1>2. ASSUME NEW s \in Records, Begin(s) PROVE Goal
  BY <1>1, <1>2 DEF Begin, Run
<1>3. ASSUME NEW s \in Records, Truncate(s) PROVE Goal
  <2>1. CASE s = r
    <3>1. run[r].picked \ run[r].todo = {}
      BY <1>3, <2>1 DEF Inv, RunsStartFull, Truncate
    <3> QED
      BY <1>1, <1>3, <2>1, <3>1 DEF Truncate, Run
  <2>2. CASE s # r
    <3>1. run[r].pc = "copy" /\ Live(r) /\ Live(s)
      BY <1>1, <1>3, <2>2 DEF Truncate, Run, Live
    <3>2. record[r].task # record[s].task
      BY <2>2, <3>1 DEF Inv, OneRunPerTask
    <3> QED
      BY <1>1, <1>3, <2>2, <3>1, <3>2 DEF Truncate, Run
  <2> QED
    BY <2>1, <2>2
<1>4. ASSUME NEW s \in Records, CopyBatch(s) PROVE Goal
  <2>1. PICK x \in run[s].todo :
          /\ target' = [target EXCEPT ![record[s].task] = @ \cup {x}]
          /\ run' = [run EXCEPT ![s].todo = @ \ {x}]
    BY <1>4 DEF CopyBatch
  <2>2. run[r].pc = "copy" /\ record[r].task \in Tasks /\ record' = record
    BY <1>1, <1>4, <2>1 DEF CopyBatch, Run, Inv, LiveHasTask, Live
  <2> QED
    BY <1>1, <2>1, <2>2 DEF Run
<1>5. ASSUME NEW c \in Callers, Open(c) PROVE Goal
  BY <1>1, <1>5 DEF Open, Free, NoRun, Run
<1>6. ASSUME NEW s \in Records, Succeed(s) \/ FailRun(s) PROVE Goal
  BY <1>1, <1>6 DEF Succeed, FailRun, Close, Run, Record
<1>7. ASSUME NEW s \in Records, Release(s) PROVE Goal
  BY <1>1, <1>7 DEF Release, NoRun, Run
<1>8. ASSUME NEW k \in Tasks, Delete(k) PROVE Goal
  BY <1>1, <1>8 DEF Delete, Record
<1>9. CASE Crash
  BY <1>1, <1>9 DEF Crash, NoRun
<1>10. CASE UNCHANGED <<run, record, target>>
  BY <1>10
<1>11. ASSUME NEW c \in Callers, OpenFails(c) PROVE Goal
  BY <1>1, <1>11 DEF OpenFails, OrphanRecord, Free, NoRun, Run
<1>12. ASSUME NEW s \in Records, RunBreaks(s) PROVE Goal
  BY <1>1, <1>12 DEF RunBreaks, Run
<1>13. UNCHANGED <<run, record, target>>
       \/ Crash
       \/ (\E c \in Callers : Open(c) \/ OpenFails(c))
       \/ (\E k \in Tasks : Delete(k))
       \/ (\E s \in Records : Step(s))
  BY DEF Next, vars, Start, Claim, Refuse, Toggle, Edit, Grow
<1> QED
  BY <1>2, <1>3, <1>4, <1>5, <1>6, <1>7, <1>8, <1>9, <1>10, <1>11, <1>12, <1>13 DEF Step

\* A successful run has delivered every row it selected.
THEOREM SuccessDelivers == Spec => SuccessMeansDelivered
<1>1. Init => CopiedIsThere
  BY DEF Init, CopiedIsThere, NoRun
<1>2. Inv /\ CopiedIsThere /\ [Next]_vars => CopiedIsThere'
  BY CopiedStep
<1>3. Spec => []CopiedIsThere
  BY <1>1, <1>2, Invariance, PTL DEF Spec
<1>4. ASSUME Inv, CopiedIsThere, Next, NEW r \in Records,
             record[r].status = "running", record'[r].status = "success"
      PROVE  run[r].picked \subseteq target[TaskOf(r)]
  <2>1. record \in [Records -> Record] /\ run \in [Records -> Run]
    BY <1>4 DEF Inv, TypeOK
  <2>2. Succeed(r)
    <3>1. ASSUME NEW s \in Records, Succeed(s) PROVE s = r
      BY <1>4, <2>1, <3>1 DEF Succeed, Close, Record
    <3>2. ASSUME NEW s \in Records, FailRun(s) PROVE FALSE
      BY <1>4, <2>1, <3>2 DEF FailRun, Close, Record
    <3>3. ASSUME NEW c \in Callers, Open(c) PROVE FALSE
      BY <1>4, <2>1, <3>3 DEF Open, Record
    <3>4. ASSUME NEW k \in Tasks, Delete(k) PROVE FALSE
      BY <1>4, <2>1, <3>4 DEF Delete, Record
    <3>5. record' # record
      BY <1>4
    <3>6. ASSUME NEW c \in Callers, OpenFails(c) PROVE FALSE
      BY <1>4, <2>1, <3>6 DEF OpenFails, OrphanRecord, Record
    <3> QED
      BY <1>4, <3>1, <3>2, <3>3, <3>4, <3>5, <3>6
      DEF Next, Start, Step, Claim, Refuse, Begin, Truncate, CopyBatch, RunBreaks, Release,
          Toggle, Edit, Grow, Crash
  <2> QED
    BY <1>4, <2>1, <2>2 DEF Succeed, CopiedIsThere
<1>5. ASSUME Inv, CopiedIsThere, [Next]_vars
      PROVE  [\A r \in Records :
                record[r].status = "running" /\ record'[r].status = "success"
                => run[r].picked \subseteq target[TaskOf(r)]]_vars
  BY <1>4, <1>5
<1> QED
  BY <1>3, <1>5, Invariance, PTL DEF Spec, SuccessMeansDelivered

-----------------------------------------------------------------------------
(* With the job table *)

\* The only thread that is reloading, if the last reload has met no other and
\* none has failed, has taken the jobs it listed, or is adding those it queried.
OneReload ==
  /\ \A p, q \in Reloaders : ~ At(p, "idle") /\ ~ At(q, "idle") => p = q
  /\ AllIdle => jobs = Due
  /\ \A q \in Reloaders :
       /\ At(q, "remove") => jobs = reload[q].todo
       /\ At(q, "query") => jobs = {}
       /\ At(q, "add") => jobs \cup reload[q].todo = Due

SInv == ScheduleTypeOK /\ (~ unsure => OneReload)

\* Each step of the composition is a step of IntegrationSync or leaves it alone.
THEOREM ScheduledImplements == SSpec => Spec
<1>1. SInit => Init
  BY DEF SInit
<1>2. [SNext]_svars => [Next]_vars
  <2>1. ASSUME SNext PROVE Next \/ UNCHANGED vars
    BY <2>1 DEF SNext, Running, Next, Start, Triggers, ScheduledClaim, Change, Restart
  <2>2. UNCHANGED svars => UNCHANGED vars
    BY DEF svars, vars
  <2> QED
    BY <2>1, <2>2
<1> QED
  BY <1>1, <1>2, PTL DEF SSpec, Spec

\* With schedules as well, at most one thread works on a task.
THEOREM ScheduledExclusion == SSpec => []OneRunPerTask
BY ScheduledImplements, MutualExclusion, PTL

\* A run changes neither whether a task exists nor whether it is active.
LEMMA RunningKeepsDue ==
  ASSUME Inv, Running, UNCHANGED schedule
  PROVE  Due' = Due
<1>1. task \in [Tasks -> Task] /\ cron' = cron
  BY DEF Inv, TypeOK, schedule
<1>2. \A k \in Tasks : task'[k].exists = task[k].exists /\ task'[k].active = task[k].active
  <2>1. ASSUME NEW r \in Records, NEW status, NEW mode, Close(r, status, mode)
        PROVE  \A k \in Tasks : /\ task'[k].exists = task[k].exists
                                /\ task'[k].active = task[k].active
    BY <1>1, <2>1 DEF Close, Task
  <2>2. CASE task' = task
    BY <2>2
  <2>3. task' = task \/ \E r \in Records : Succeed(r) \/ FailRun(r)
    BY DEF Running, Open, Refuse, OpenFails, OrphanRecord, Claim, Step, Begin, Truncate, CopyBatch, RunBreaks,
           Release, Grow
  <2> QED
    BY <2>1, <2>2, <2>3 DEF Succeed, FailRun
<1> QED
  BY <1>1, <1>2 DEF Due

\* Every step keeps the invariant of the job table.
LEMMA ScheduleStep == Inv /\ SInv /\ [SNext]_svars => SInv'
<1> SUFFICES ASSUME Inv, SInv, [SNext]_svars PROVE SInv'
  OBVIOUS
<1> USE DEF SInv, OneReload, ScheduleTypeOK, AllIdle, At, Reload, Idle
<1>1. ASSUME Running, UNCHANGED schedule PROVE SInv'
  <2>1. Due' = Due
    BY <1>1, RunningKeepsDue
  <2> QED
    BY <1>1, <2>1 DEF schedule
<1> DEFINE Kept == Due' = Due
<1>2. UNCHANGED vars /\ cron' = cron => Kept
  BY DEF vars, Due
<1> HIDE DEF Kept
<1>3. ASSUME NEW q \in Reloaders, ListJobs(q), UNCHANGED vars PROVE SInv'
  <2>1. Kept
    BY <1>2, <1>3 DEF ListJobs
  <2> QED
    BY <1>3, <2>1 DEF ListJobs, Removing, Kept
<1>4. ASSUME NEW q \in Reloaders, RemoveJob(q), UNCHANGED vars PROVE SInv'
  <2>1. Kept
    BY <1>2, <1>4 DEF RemoveJob
  <2>2. PICK k \in reload[q].todo \cap jobs :
          /\ jobs' = jobs \ {k}
          /\ reload' = [reload EXCEPT ![q] = Removing(reload[q].todo \ {k})]
    BY <1>4 DEF RemoveJob
  <2> QED
    BY <1>4, <2>1, <2>2 DEF RemoveJob, Removing, Kept
<1>5. ASSUME NEW q \in Reloaders, QueryTasks(q), UNCHANGED vars PROVE SInv'
  <2>1. Kept
    BY <1>2, <1>5 DEF QueryTasks
  <2>2. Due \in SUBSET Tasks
    BY DEF Due
  <2> QED
    BY <1>5, <2>1, <2>2 DEF QueryTasks, Adding, Kept
<1>6. ASSUME NEW q \in Reloaders, AddJob(q), UNCHANGED vars PROVE SInv'
  <2>1. Kept
    BY <1>2, <1>6 DEF AddJob
  <2>2. PICK k \in reload[q].todo :
          /\ jobs' = jobs \cup {k}
          /\ reload' = [reload EXCEPT ![q] = Adding(reload[q].todo \ {k})]
    BY <1>6 DEF AddJob
  <2> QED
    BY <1>6, <2>1, <2>2 DEF AddJob, Adding, Kept
<1>7. ASSUME NEW q \in Reloaders, ReloadFails(q), UNCHANGED vars PROVE SInv'
  BY <1>7 DEF ReloadFails
<1>8. ASSUME NEW c \in Callers, NEW k \in Tasks, ScheduledClaim(c, k) PROVE SInv'
  <2>1. Kept
    BY <1>8 DEF ScheduledClaim, Claim, schedule, Due, Kept
  <2> QED
    BY <1>8, <2>1 DEF ScheduledClaim, schedule, Kept
<1>9. ASSUME NEW q \in Reloaders, NEW k \in Tasks, Change(q, k) PROVE SInv'
  <2>1. cron' \in [Tasks -> BOOLEAN]
    BY <1>9 DEF Change
  <2>2. /\ reload' = [reload EXCEPT ![q].pc = "list"]
        /\ unsure' = (~ AllIdle)
        /\ jobs' = jobs
    BY <1>9 DEF Change, Reloads
  <2>3. reload' \in [Reloaders -> Reload]
    BY <2>2
  <2>4. CASE ~ AllIdle
    BY <2>1, <2>2, <2>3, <2>4
  <2>5. CASE AllIdle
    <3>1. \A p \in Reloaders : reload'[p].pc = IF p = q THEN "list" ELSE "idle"
      BY <2>2, <2>5
    <3> QED
      BY <2>1, <2>2, <2>3, <3>1
  <2> QED
    BY <2>4, <2>5
<1>10. ASSUME Restart PROVE SInv'
  <2>1. Kept
    BY <1>10 DEF Restart, Crash, Due, Kept
  <2>2. Due \in SUBSET Tasks
    BY DEF Due
  <2> QED
    BY <1>10, <2>1, <2>2 DEF Restart, Kept
<1>11. CASE UNCHANGED svars
  <2>1. Kept
    BY <1>2, <1>11 DEF svars, vars
  <2> QED
    BY <1>11, <2>1 DEF svars, Kept
<1> QED
  BY <1>1, <1>3, <1>4, <1>5, <1>6, <1>7, <1>8, <1>9, <1>10, <1>11 DEF SNext, Reloading

\* The job table is what the tasks ask for whenever no reload is under way and
\* the last one ran alone and did not fail.
THEOREM TableIsCurrent == SSpec => []JobsAreCurrent
<1>1. SInit => SInv
  <2> SUFFICES ASSUME SInit PROVE SInv
    OBVIOUS
  <2>1. Due \in SUBSET Tasks
    BY DEF Due
  <2>2. \A q \in Reloaders : reload[q].pc = "idle"
    BY DEF SInit, Idle
  <2>3. reload \in [Reloaders -> Reload]
    BY DEF SInit, Idle, Reload
  <2> QED
    BY <2>1, <2>2, <2>3 DEF SInit, SInv, OneReload, ScheduleTypeOK, AllIdle, At
<1>2. SInv => JobsAreCurrent
  BY DEF SInv, OneReload, JobsAreCurrent
<1>3. SSpec => []Inv
  BY ScheduledImplements, Invariance, PTL
<1>4. Inv /\ SInv /\ [SNext]_svars => SInv'
  BY ScheduleStep
<1> QED
  BY <1>1, <1>2, <1>3, <1>4, PTL DEF SSpec

-----------------------------------------------------------------------------
(* Instances of workflows *)

\* A row of the table of instances.
Instances == [wf : Workflows \cup {None}, status : InstanceStatuses]

\* The types of what decides about runners.
RunnerTypes ==
  /\ inst \in Seq(Instances)
  /\ batch \subseteq Ids
  /\ on \in [Threads -> Ids \cup {0}]
  /\ pc \in [Threads -> {"idle", "plan", "next", "node"}]
  /\ page \in [Pages -> SUBSET Ids]

\* The idle threads are those that have no instance.
IdleHasNone == \A t \in Threads : pc[t] = "idle" <=> on[t] = 0

\* A request or a job keeps its instance running as long as it works for it.
MakerKeepsRunning ==
  \A t \in Threads \ {Executor} : on[t] # 0 => inst[on[t]].status = "running"

\* What a page has shown as failed has no thread but, perhaps, the executor.
ShownIsLeft ==
  \A u \in Pages, t \in Threads \ {Executor} : on[t] \notin page[u]

\* What the executor has loaded still waits, and nobody works for it.
LoadedWaits ==
  \A i \in batch : inst[i].status = "pending" /\ \A t \in Threads : on[t] # i

RunsInv ==
  /\ RunnerTypes
  /\ IdleHasNone
  /\ MakerKeepsRunning
  /\ ShownIsLeft
  /\ LoadedWaits
  /\ OneRunner
  /\ TerminalIsSettled

-----------------------------------------------------------------------------
\* Writing a status keeps the table and its length, and changes one row.
LEMMA StatusUpdate ==
  ASSUME inst \in Seq(Instances), NEW i \in Ids, NEW s \in InstanceStatuses, SetStatus(i, s)
  PROVE  /\ inst' \in Seq(Instances)
         /\ Ids' = Ids
         /\ inst'[i].status = s
         /\ \A j \in Ids : j # i => inst'[j] = inst[j]
<1>1. Ids = 1 .. Len(inst) /\ Len(inst) \in Nat /\ inst[i] \in Instances
  BY DEF Ids
<1>2. [inst[i] EXCEPT !.status = s] \in Instances
  BY <1>1 DEF Instances
<1>3. inst' = [inst EXCEPT ![i] = [inst[i] EXCEPT !.status = s]]
  BY DEF SetStatus
<1>4. inst' \in Seq(Instances) /\ Ids' = Ids
  BY <1>1, <1>2, <1>3 DEF Ids
<1>5. inst'[i] = [inst[i] EXCEPT !.status = s]
  BY <1>1, <1>3
<1>6. inst'[i].status = s
  BY <1>1, <1>5 DEF Instances
<1> QED
  BY <1>1, <1>3, <1>4, <1>6

\* New rows get new ids, and the old ones stay as they are.
LEMMA InsertRows ==
  ASSUME inst \in Seq(Instances), NEW w \in Workflows, NEW s \in InstanceStatuses,
         NEW k \in Nat, Insert(w, s, k)
  PROVE  /\ inst' \in Seq(Instances)
         /\ Ids' = 1 .. (Len(inst) + k)
         /\ Ids = 1 .. Len(inst)
         /\ \A j \in Ids : inst'[j] = inst[j]
         /\ \A j \in Ids' \ Ids : inst'[j].status = s
<1> DEFINE new == [wf |-> w, status |-> s]
           table == [i \in 1 .. (Len(inst) + k) |-> IF i \in Ids THEN inst[i] ELSE new]
<1>1. Len(inst) \in Nat /\ Ids = 1 .. Len(inst)
  BY DEF Ids
<1>2. new \in Instances
  BY DEF Instances
<1>3. \A i \in 1 .. (Len(inst) + k) : table[i] \in Instances
  BY <1>1, <1>2
<1>4. table \in Seq(Instances) /\ Len(table) = Len(inst) + k
  BY <1>1, <1>3
<1>5. inst' = table
  BY DEF Insert
<1> QED
  BY <1>1, <1>4, <1>5 DEF Ids

\* The initial states satisfy the invariant.
LEMMA RunsInitInv == RInit => RunsInv
BY DEF RInit, RunsInv, RunnerTypes, Ids, IdleHasNone, MakerKeepsRunning, ShownIsLeft, LoadedWaits,
       OneRunner, TerminalIsSettled

\* A thread that takes up a row of its own making is its only runner.
LEMMA MakerStep ==
  ASSUME RunsInv, NEW t \in Threads \ {Executor}, NEW w \in Workflows, pc[t] = "idle",
         Insert(w, "running", 1), BeginRun(t, Len(inst) + 1, w), UNCHANGED <<batch, page>>
  PROVE  RunsInv'
<1>1. inst \in Seq(Instances) /\ Len(inst) \in Nat
  BY DEF RunsInv, RunnerTypes
<1>2. /\ inst' \in Seq(Instances)
      /\ Ids' = 1 .. (Len(inst) + 1)
      /\ Ids = 1 .. Len(inst)
      /\ \A j \in Ids : inst'[j] = inst[j]
      /\ \A j \in Ids' \ Ids : inst'[j].status = "running"
  BY <1>1, InsertRows DEF InstanceStatuses
<1>3. inst'[Len(inst) + 1].status = "running" /\ Len(inst) + 1 \notin Ids /\ Len(inst) + 1 # 0
  BY <1>1, <1>2
<1>4. /\ on' = [on EXCEPT ![t] = Len(inst) + 1]
      /\ pc' = [pc EXCEPT ![t] = "plan"]
  BY DEF BeginRun
<1>5. RunnerTypes'
  BY <1>1, <1>2, <1>4 DEF RunsInv, RunnerTypes
<1>6. \A x \in Threads : x # t => on'[x] = on[x] /\ on'[x] \in Ids \cup {0}
  BY <1>4 DEF RunsInv, RunnerTypes
<1>7. on'[t] = Len(inst) + 1
  BY <1>4 DEF RunsInv, RunnerTypes
<1>8. IdleHasNone'
  BY <1>4 DEF RunsInv, RunnerTypes, IdleHasNone
<1>9. MakerKeepsRunning'
  BY <1>2, <1>3, <1>6, <1>7 DEF RunsInv, MakerKeepsRunning
<1>10. ShownIsLeft'
  BY <1>3, <1>6, <1>7 DEF RunsInv, RunnerTypes, ShownIsLeft
<1>11. LoadedWaits'
  BY <1>2, <1>3, <1>6, <1>7 DEF RunsInv, RunnerTypes, LoadedWaits
<1>12. OneRunner'
  BY <1>3, <1>6, <1>7 DEF RunsInv, OneRunner
<1>13. TerminalIsSettled'
  BY <1>2, <1>3, <1>6, <1>7 DEF RunsInv, TerminalIsSettled, Terminal
<1> QED
  BY <1>5, <1>8, <1>9, <1>10, <1>11, <1>12, <1>13 DEF RunsInv

\* A thread that leaves its instance without closing it disturbs nothing.
LEMMA LeaveStep ==
  ASSUME RunsInv, NEW t \in Threads, Leave(t), batch' \in {{}, batch}, UNCHANGED <<inst, page>>
  PROVE  RunsInv'
<1>1. on' = [on EXCEPT ![t] = 0] /\ pc' = [pc EXCEPT ![t] = "idle"]
  BY DEF Leave
<1>2. Ids' = Ids /\ inst' = inst /\ page' = page /\ batch' \subseteq batch
  BY DEF Ids
<1>3. RunnerTypes'
  BY <1>1, <1>2 DEF RunsInv, RunnerTypes
<1>4. \A x \in Threads : on'[x] = IF x = t THEN 0 ELSE on[x]
  BY <1>1 DEF RunsInv, RunnerTypes
<1>5. IdleHasNone'
  BY <1>1, <1>4 DEF RunsInv, RunnerTypes, IdleHasNone
<1>6. MakerKeepsRunning'
  BY <1>2, <1>4 DEF RunsInv, MakerKeepsRunning
<1>7. 0 \notin Ids
  BY DEF RunsInv, RunnerTypes, Ids
<1>8. ShownIsLeft'
  BY <1>2, <1>4, <1>7 DEF RunsInv, RunnerTypes, ShownIsLeft
<1>9. LoadedWaits'
  BY <1>2, <1>4, <1>7 DEF RunsInv, RunnerTypes, LoadedWaits
<1>10. OneRunner' /\ TerminalIsSettled'
  BY <1>2, <1>4 DEF RunsInv, OneRunner, TerminalIsSettled
<1> QED
  BY <1>3, <1>5, <1>6, <1>8, <1>9, <1>10 DEF RunsInv

\* A run closes its instance and leaves it in one step.
LEMMA FinishStep == ASSUME RunsInv, NEW t \in Threads, FinishRun(t) PROVE RunsInv'
<1>1. /\ on' = [on EXCEPT ![t] = 0]
      /\ pc' = [pc EXCEPT ![t] = "idle"]
      /\ page' = page
      /\ batch' \subseteq batch
  BY DEF FinishRun, Leave, DropBatch, users
<1>2. PICK i \in Ids : i = on[t]
  BY DEF FinishRun, RunsInv, RunnerTypes, IdleHasNone
<1>3. PICK s \in Terminal : SetStatus(i, s)
  BY <1>2 DEF FinishRun, Terminal
<1>4. /\ inst' \in Seq(Instances)
      /\ Ids' = Ids
      /\ \A j \in Ids : j # i => inst'[j] = inst[j]
  BY <1>3, StatusUpdate DEF RunsInv, RunnerTypes, Terminal, InstanceStatuses
<1>5. 0 \notin Ids
  BY DEF RunsInv, RunnerTypes, Ids
<1>6. \A x \in Threads : on'[x] = IF x = t THEN 0 ELSE on[x]
  BY <1>1 DEF RunsInv, RunnerTypes
<1>7. \A x \in Threads : on'[x] # 0 => on'[x] = on[x] /\ on'[x] # i /\ inst'[on'[x]] = inst[on[x]]
  BY <1>2, <1>4, <1>6 DEF RunsInv, OneRunner, RunnerTypes
<1>8. RunnerTypes'
  BY <1>1, <1>4, <1>6 DEF RunsInv, RunnerTypes
<1>9. IdleHasNone'
  BY <1>1, <1>6 DEF RunsInv, RunnerTypes, IdleHasNone
<1>10. MakerKeepsRunning'
  BY <1>7 DEF RunsInv, MakerKeepsRunning
<1>11. ShownIsLeft'
  BY <1>1, <1>5, <1>6 DEF RunsInv, RunnerTypes, ShownIsLeft
<1>12. LoadedWaits'
  BY <1>1, <1>2, <1>4, <1>5, <1>6 DEF RunsInv, RunnerTypes, LoadedWaits
<1>13. OneRunner' /\ TerminalIsSettled'
  BY <1>7 DEF RunsInv, OneRunner, TerminalIsSettled
<1> QED
  BY <1>8, <1>9, <1>10, <1>11, <1>12, <1>13 DEF RunsInv

\* A step inside the loop leaves the tables and the assignment alone.
LEMMA InsideStep ==
  ASSUME RunsInv, NEW t \in Threads, pc[t] # "idle", NEW label \in {"next", "node"},
         pc' = [pc EXCEPT ![t] = label] \/ pc' = pc, UNCHANGED <<inst, batch, on, page>>
  PROVE  RunsInv'
BY DEF RunsInv, RunnerTypes, Ids, IdleHasNone, MakerKeepsRunning, ShownIsLeft, LoadedWaits,
       OneRunner, TerminalIsSettled

LEMMA PlanStep == ASSUME RunsInv, NEW t \in Threads, Plan(t) PROVE RunsInv'
<1>1. CASE Exists(plan[t].wf)
  BY <1>1, InsideStep DEF Plan, users
<1>2. CASE ~Exists(plan[t].wf)
  BY <1>2, LeaveStep DEF Plan, DropBatch, users
<1> QED
  BY <1>1, <1>2

\* The executor loads pending rows: the makers have left them, it is idle itself.
LEMMA PollStep == ASSUME RunsInv, Poll PROVE RunsInv'
<1>1. \A i \in batch' : i \in Ids /\ inst[i].status = "pending"
  BY DEF Poll, Awaits
<1>2. Executor \in Threads /\ on[Executor] = 0
  BY DEF Poll, RunsInv, IdleHasNone, Threads
<1>3. \A i \in batch', t \in Threads : on[t] # i
  BY <1>1, <1>2 DEF RunsInv, RunnerTypes, MakerKeepsRunning, Ids
<1> QED
  BY <1>1, <1>3
  DEF Poll, RunsInv, RunnerTypes, Ids, IdleHasNone, MakerKeepsRunning, ShownIsLeft, LoadedWaits,
      OneRunner, TerminalIsSettled

\* The executor takes a row that waits: nobody else works for it.
LEMMA TakeStep == ASSUME RunsInv, Take PROVE RunsInv'
<1>1. PICK i \in batch :
        /\ batch' = batch \ {i}
        /\ \/ SetStatus(i, "failed") /\ UNCHANGED <<pc, on>>
           \/ /\ SetStatus(i, "running")
              /\ pc' = [pc EXCEPT ![Executor] = "plan"]
              /\ on' = [on EXCEPT ![Executor] = i]
  BY DEF Take, BeginRun
<1>2. i \in Ids /\ i # 0 /\ page' = page /\ \A t \in Threads : on[t] # i
  BY DEF Take, RunsInv, RunnerTypes, LoadedWaits, Ids
<1>3. Executor \in Threads /\ pc[Executor] = "idle" /\ on[Executor] = 0
  BY DEF Take, RunsInv, IdleHasNone, Threads
<1>4. /\ inst' \in Seq(Instances)
      /\ Ids' = Ids
      /\ \A j \in Ids : j # i => inst'[j] = inst[j]
  BY <1>1, <1>2, StatusUpdate DEF RunsInv, RunnerTypes, InstanceStatuses
<1>5. CASE UNCHANGED <<pc, on>>
  BY <1>1, <1>2, <1>4, <1>5
  DEF RunsInv, RunnerTypes, IdleHasNone, MakerKeepsRunning, ShownIsLeft, LoadedWaits,
      OneRunner, TerminalIsSettled
<1>6. CASE /\ SetStatus(i, "running")
           /\ pc' = [pc EXCEPT ![Executor] = "plan"]
           /\ on' = [on EXCEPT ![Executor] = i]
  <2>1. inst'[i].status = "running"
    BY <1>2, <1>6, StatusUpdate DEF RunsInv, RunnerTypes, InstanceStatuses
  <2>2. \A t \in Threads : on'[t] = IF t = Executor THEN i ELSE on[t]
    BY <1>3, <1>6 DEF RunsInv, RunnerTypes
  <2>3. \A t \in Threads : t # Executor /\ on'[t] # 0 => on'[t] # i /\ inst'[on'[t]] = inst[on[t]]
    BY <1>2, <1>4, <2>2 DEF RunsInv, RunnerTypes
  <2>4. RunnerTypes' /\ IdleHasNone'
    BY <1>1, <1>2, <1>3, <1>4, <1>6, <2>2 DEF RunsInv, RunnerTypes, IdleHasNone
  <2>5. MakerKeepsRunning' /\ ShownIsLeft'
    BY <1>2, <2>2, <2>3 DEF RunsInv, MakerKeepsRunning, ShownIsLeft
  <2>6. LoadedWaits'
    BY <1>1, <1>4, <2>2 DEF RunsInv, RunnerTypes, LoadedWaits
  <2>7. OneRunner' /\ TerminalIsSettled'
    BY <1>3, <2>1, <2>2, <2>3 DEF RunsInv, OneRunner, TerminalIsSettled, Terminal
  <2> QED
    BY <2>4, <2>5, <2>6, <2>7 DEF RunsInv
<1> QED
  BY <1>1, <1>5, <1>6

\* A row that a page offers is rerun: no maker works for it any more.
LEMMA RerunStep == ASSUME RunsInv, NEW u \in Pages, NEW i \in Ids, Rerun(u, i) PROVE RunsInv'
<1>1. i \in page[u] /\ SetStatus(i, "pending") /\ UNCHANGED <<batch, pc, on, page>>
  BY DEF Rerun, Offers
<1>2. /\ inst' \in Seq(Instances)
      /\ Ids' = Ids
      /\ inst'[i].status = "pending"
      /\ \A j \in Ids : j # i => inst'[j] = inst[j]
  BY <1>1, StatusUpdate DEF RunsInv, RunnerTypes, InstanceStatuses
<1>3. \A t \in Threads \ {Executor} : on[t] # i
  BY <1>1 DEF RunsInv, ShownIsLeft
<1>4. RunnerTypes' /\ IdleHasNone' /\ ShownIsLeft' /\ OneRunner'
  BY <1>1, <1>2 DEF RunsInv, RunnerTypes, IdleHasNone, ShownIsLeft, OneRunner
<1>5. MakerKeepsRunning'
  BY <1>1, <1>2, <1>3 DEF RunsInv, RunnerTypes, MakerKeepsRunning
<1>6. LoadedWaits'
  BY <1>1, <1>2 DEF RunsInv, RunnerTypes, LoadedWaits
<1>7. TerminalIsSettled'
  BY <1>1, <1>2 DEF RunsInv, RunnerTypes, TerminalIsSettled, Terminal
<1> QED
  BY <1>4, <1>5, <1>6, <1>7 DEF RunsInv

\* A batch run adds rows that nobody knows of yet.
LEMMA BatchStep ==
  ASSUME RunsInv,
         NEW w \in Workflows, NEW k \in 1 .. MaxInstances, BatchRun(w, k)
  PROVE  RunsInv'
<1>1. /\ inst' \in Seq(Instances)
      /\ Ids' = 1 .. (Len(inst) + k)
      /\ Ids = 1 .. Len(inst)
      /\ \A j \in Ids : inst'[j] = inst[j]
  BY InsertRows, ThreadsDiffer DEF BatchRun, RunsInv, RunnerTypes, InstanceStatuses
<1>2. Len(inst) \in Nat /\ Ids \subseteq Ids'
  BY <1>1, ThreadsDiffer DEF RunsInv, RunnerTypes
<1>3. UNCHANGED <<batch, pc, on, page>>
  BY DEF BatchRun
<1> QED
  BY <1>1, <1>2, <1>3
  DEF RunsInv, RunnerTypes, IdleHasNone, MakerKeepsRunning, ShownIsLeft, LoadedWaits,
      OneRunner, TerminalIsSettled

\* A page shows as failed what has no runner.
LEMMA ListStep ==
  ASSUME RunsInv, NEW u \in Pages, NEW w \in Workflows, ListInstances(u, w) PROVE RunsInv'
<1>1. /\ page' = [page EXCEPT ![u] = {i \in Ids : inst[i].wf = w /\ inst[i].status = "failed"}]
      /\ UNCHANGED <<inst, batch, pc, on>>
  BY DEF ListInstances
<1>2. \A t \in Threads, i \in Ids : inst[i].status = "failed" => on[t] # i
  BY DEF RunsInv, RunnerTypes, TerminalIsSettled, Terminal, Ids
<1>3. RunnerTypes'
  BY <1>1 DEF RunsInv, RunnerTypes, Ids
<1>4. ShownIsLeft'
  BY <1>1, <1>2 DEF RunsInv, RunnerTypes, ShownIsLeft
<1> QED
  BY <1>1, <1>3, <1>4
  DEF RunsInv, Ids, IdleHasNone, MakerKeepsRunning, LoadedWaits, OneRunner, TerminalIsSettled

\* A deletion clears the foreign keys and leaves the states of the rows.
LEMMA DeleteStep == ASSUME RunsInv, NEW w \in Workflows, DeleteWorkflow(w) PROVE RunsInv'
<1>1. inst \in Seq(Instances) /\ Ids = 1 .. Len(inst) /\ Len(inst) \in Nat
  BY DEF RunsInv, RunnerTypes, Ids
<1>2. inst' = [i \in 1 .. Len(inst) |->
                 IF inst[i].wf = w THEN [inst[i] EXCEPT !.wf = None] ELSE inst[i]]
  BY <1>1 DEF DeleteWorkflow
<1>3. \A i \in 1 .. Len(inst) : inst'[i] \in Instances /\ inst'[i].status = inst[i].status
  <2>1. SUFFICES ASSUME NEW i \in 1 .. Len(inst)
                 PROVE  inst'[i] \in Instances /\ inst'[i].status = inst[i].status
    OBVIOUS
  <2>2. inst[i] \in Instances
    BY <1>1
  <2>3. /\ [inst[i] EXCEPT !.wf = None] \in Instances
        /\ [inst[i] EXCEPT !.wf = None].status = inst[i].status
    BY <2>2 DEF Instances
  <2> QED
    BY <1>2, <2>2, <2>3
<1>4. inst' \in Seq(Instances) /\ Ids' = Ids
  BY <1>1, <1>2, <1>3 DEF Ids
<1>5. UNCHANGED <<batch, pc, on, page>>
  BY DEF DeleteWorkflow
<1> QED
  BY <1>1, <1>3, <1>4, <1>5
  DEF RunsInv, RunnerTypes, IdleHasNone, MakerKeepsRunning, ShownIsLeft, LoadedWaits,
      OneRunner, TerminalIsSettled

\* A restart leaves nobody to run anything.
LEMMA RestartStep == ASSUME RunsInv, RestartServer PROVE RunsInv'
<1>1. 0 \notin Ids
  BY DEF RunsInv, RunnerTypes, Ids
<1> QED
  BY <1>1
  DEF RestartServer, RunsInv, RunnerTypes, Ids, IdleHasNone, MakerKeepsRunning, ShownIsLeft, LoadedWaits,
      OneRunner, TerminalIsSettled

\* A step that leaves the tables, the pages and the threads alone.
LEMMA QuietStep == ASSUME RunsInv, UNCHANGED <<inst, batch, pc, on, page>> PROVE RunsInv'
BY DEF RunsInv, RunnerTypes, Ids, IdleHasNone, MakerKeepsRunning, ShownIsLeft, LoadedWaits,
       OneRunner, TerminalIsSettled

\* Every step keeps the invariant.
LEMMA RunsNextInv == RunsInv /\ [RNext]_rvars => RunsInv'
<1> SUFFICES ASSUME RunsInv, [RNext]_rvars PROVE RunsInv'
  OBVIOUS
<1>1. ASSUME NEW q \in Requests, NEW w \in Workflows, RunWorkflow(q, w) PROVE RunsInv'
  BY <1>1, MakerStep, ThreadsDiffer DEF RunWorkflow, Threads
<1>2. ASSUME NEW w \in Workflows, Fire(w) PROVE RunsInv'
  BY <1>2, MakerStep, ThreadsDiffer DEF Fire, Threads
<1>3. CASE Poll
  BY <1>3, PollStep
<1>4. CASE Take
  BY <1>4, TakeStep
<1>5. ASSUME NEW t \in Threads, Plan(t) PROVE RunsInv'
  BY <1>5, PlanStep
<1>6. ASSUME NEW t \in Threads, StartNode(t) PROVE RunsInv'
  BY <1>6, InsideStep DEF StartNode, users
<1>7. ASSUME NEW t \in Threads, EndNode(t) PROVE RunsInv'
  BY <1>7, InsideStep DEF EndNode, users
<1>8. ASSUME NEW t \in Threads, FinishRun(t) PROVE RunsInv'
  BY <1>8, FinishStep
<1>9. ASSUME NEW u \in Pages, NEW w \in Workflows, ListInstances(u, w) PROVE RunsInv'
  BY <1>9, ListStep
<1>10. ASSUME NEW u \in Pages, NEW i \in Ids, Rerun(u, i) PROVE RunsInv'
  BY <1>10, RerunStep
<1>11. ASSUME NEW w \in Workflows, NEW k \in 1 .. MaxInstances, BatchRun(w, k) PROVE RunsInv'
  BY <1>11, BatchStep
<1>12. ASSUME NEW w \in Workflows, NEW g \in Graphs, Save(w, g) PROVE RunsInv'
  BY <1>12, QuietStep DEF Save
<1>13. ASSUME NEW w \in Workflows, DeleteWorkflow(w) PROVE RunsInv'
  BY <1>13, DeleteStep
<1>14. ASSUME NEW n \in Nodes, DeleteNode(n) PROVE RunsInv'
  BY <1>14, QuietStep DEF DeleteNode
<1>15. ASSUME NEW i \in Ids, NEW k \in DOMAIN rows[i], KillNode(i, k) \/ RetryNode(i, k)
       PROVE  RunsInv'
  BY <1>15, QuietStep DEF KillNode, RetryNode
<1>16. CASE RestartServer
  BY <1>16, RestartStep
<1>17. CASE UNCHANGED rvars
  BY <1>17, QuietStep DEF rvars
<1> QED
  BY <1>1, <1>2, <1>3, <1>4, <1>5, <1>6, <1>7, <1>8, <1>9, <1>10, <1>11, <1>12, <1>13, <1>14,
     <1>15, <1>16, <1>17
  DEF RNext, RunStep

-----------------------------------------------------------------------------
(* No instance is run by two threads at once, although the executor takes
   every pending row and a rerun checks no status (executor.py:32-46 and
   workflow.py:376-408). *)
THEOREM InstancesHaveOneRunner == RSpec => []OneRunner
<1>1. RunsInv => OneRunner
  BY DEF RunsInv
<1> QED
  BY <1>1, RunsInitInv, RunsNextInv, PTL DEF RSpec

(* Nobody works any more for an instance that is shown as a success or as
   failed (executor.py:91-93, scheduler.py:79-81, workflow.py:314-316). *)
THEOREM ClosedInstancesAreSettled == RSpec => []TerminalIsSettled
<1>1. RunsInv => TerminalIsSettled
  BY DEF RunsInv
<1> QED
  BY <1>1, RunsInitInv, RunsNextInv, PTL DEF RSpec
=============================================================================
