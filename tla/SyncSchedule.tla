------------------------------ MODULE SyncSchedule ------------------------------
(***************************************************************************)
(* The cron schedules of synchronisation tasks: IntegrationSync composed   *)
(* with the job table that APScheduler keeps in the process                *)
(* (services/scheduler.py).                                                *)
(*                                                                         *)
(* A request that changes a task commits and then, still in its thread,    *)
(* removes every job of the table one by one, asks the database which      *)
(* tasks are to be scheduled and adds a job for each.  Nothing keeps two   *)
(* requests from doing so at the same time.                                *)
(***************************************************************************)
EXTENDS IntegrationSync

CONSTANTS Reloaders   \* threads that reload the job table

VARIABLES
  cron,    \* task -> whether it has a schedule_cron
  jobs,    \* the tasks with a job in the table
  reload,  \* reloader -> how far it is
  unsure   \* history: the last reload overlapped another one, or one has failed

schedule == <<cron, jobs, reload, unsure>>
svars == <<task, running, caller, record, run, source, target, stranded, calm,
           cron, jobs, reload, unsure>>

Idle == [pc |-> "idle", todo |-> {}]
Reload == [pc : {"idle", "list", "remove", "query", "add"}, todo : SUBSET Tasks]

ScheduleTypeOK ==
  /\ cron \in [Tasks -> BOOLEAN]
  /\ jobs \in SUBSET Tasks
  /\ reload \in [Reloaders -> Reload]
  /\ unsure \in BOOLEAN

\* The tasks that the query of a reload returns.
Due == {k \in Tasks : task[k].exists /\ task[k].active /\ cron[k]}

AllIdle == \A q \in Reloaders : reload[q].pc = "idle"

-----------------------------------------------------------------------------
(* Changes of a task, each followed by a reload in the same thread *)

Reloads(q) ==
  /\ reload[q].pc = "idle"
  /\ reload' = [reload EXCEPT ![q].pc = "list"]
  /\ unsure' = ~ AllIdle
  /\ jobs' = jobs

Change(q, k) ==
  /\ Reloads(q)
  /\ \/ (Toggle(k) \/ Delete(k)) /\ cron' = cron
     \/ Edit(k) /\ \E set \in BOOLEAN : cron' = [cron EXCEPT ![k] = set]

-----------------------------------------------------------------------------
(* reload_integration_schedules *)

At(q, pc) == reload[q].pc = pc

\* Where a reload is when the jobs or tasks in todo are left to go through.
Removing(todo) == [pc |-> IF todo = {} THEN "query" ELSE "remove", todo |-> todo]
Adding(todo)   == [pc |-> IF todo = {} THEN "idle" ELSE "add", todo |-> todo]

ListJobs(q) ==
  /\ At(q, "list")
  /\ reload' = [reload EXCEPT ![q] = Removing(jobs)]
  /\ UNCHANGED <<cron, jobs, unsure>>

\* A job that is gone already raises JobLookupError: see ReloadFails.
RemoveJob(q) ==
  /\ At(q, "remove")
  /\ \E k \in reload[q].todo \cap jobs :
       /\ jobs' = jobs \ {k}
       /\ reload' = [reload EXCEPT ![q] = Removing(@.todo \ {k})]
  /\ UNCHANGED <<cron, unsure>>

\* Mutant of QueryTasks: disabled tasks are returned too.
QueryTasksAll(q) ==
  /\ At(q, "query")
  /\ reload' = [reload EXCEPT ![q] = Adding({k \in Tasks : task[k].exists /\ cron[k]})]
  /\ UNCHANGED <<cron, jobs, unsure>>

QueryTasks(q) ==
  /\ At(q, "query")
  /\ reload' = [reload EXCEPT ![q] = Adding(Due)]
  /\ UNCHANGED <<cron, jobs, unsure>>

AddJob(q) ==
  /\ At(q, "add")
  /\ \E k \in reload[q].todo :
       /\ jobs' = jobs \cup {k}
       /\ reload' = [reload EXCEPT ![q] = Adding(@.todo \ {k})]
  /\ UNCHANGED <<cron, unsure>>

\* Another thread has removed the job, or the database does not answer the
\* query: the request ends with an error after its commit, and the jobs it has
\* removed stay removed.
ReloadFails(q) ==
  /\ \/ At(q, "remove") /\ ~ reload[q].todo \subseteq jobs
     \/ At(q, "query")
  /\ reload' = [reload EXCEPT ![q] = Idle]
  /\ unsure' = TRUE
  /\ UNCHANGED <<cron, jobs>>

-----------------------------------------------------------------------------
(* The scheduler *)

\* A job runs and calls start_sync_async; when another run has the claim it is
\* skipped with a warning, which changes nothing.
ScheduledClaim(c, k) ==
  /\ k \in jobs
  /\ Claim(c, k, "schedule")
  /\ UNCHANGED schedule

\* The process starts again and loads the table before it serves requests.
Restart ==
  /\ Crash
  /\ jobs' = Due
  /\ reload' = [q \in Reloaders |-> Idle]
  /\ unsure' = FALSE
  /\ UNCHANGED cron

-----------------------------------------------------------------------------

SInit ==
  /\ Init
  /\ cron \in [Tasks -> BOOLEAN]
  /\ jobs = Due
  /\ reload = [q \in Reloaders |-> Idle]
  /\ unsure = FALSE

Reloading(q) ==
  ListJobs(q) \/ RemoveJob(q) \/ QueryTasks(q) \/ AddJob(q) \/ ReloadFails(q)

\* What leaves the schedule alone.
Running ==
  \/ \E c \in Callers : Open(c) \/ Refuse(c) \/ OpenFails(c) \/ \E k \in Tasks : Claim(c, k, "manual")
  \/ \E r \in Records : Step(r)
  \/ \E k \in Tasks : Grow(k)

SNext ==
  \/ Running /\ UNCHANGED schedule
  \/ (\E q \in Reloaders : Reloading(q)) /\ UNCHANGED vars
  \/ \E c \in Callers, k \in Tasks : ScheduledClaim(c, k)
  \/ \E q \in Reloaders, k \in Tasks : Change(q, k)
  \/ Restart

\* The fairness of IntegrationSync. A reload is a request's own work and nothing
\* waits for it: the properties need none of its steps to be taken.
SSpec == SInit /\ [][SNext]_svars /\ Fairness

-----------------------------------------------------------------------------
(* Properties *)

\* When no reload is under way, exactly the tasks that exist, are active and have
\* a schedule have a job - unless the last reload overlapped another one, which
\* may have removed, or added, what this one counted on, or has failed. The next
\* reload that runs alone puts the table right again.
JobsAreCurrent == AllIdle /\ ~ unsure => jobs = Due
=============================================================================
