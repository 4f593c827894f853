--------------------------- MODULE DolphinInstances ---------------------------
(***************************************************************************)
(* Workflow instances where a DolphinScheduler runs the workflows: what    *)
(* the table WorkflowInstance shows of Dolphin's process instances         *)
(* (api/workflow.py, api/scheduler.py, services/dolphin_instance_sync.py). *)
(*                                                                         *)
(* A row is tied to a process instance by its tag, the text "ds:<id>" in   *)
(* trigger_type, and nothing else: no column, no constraint.  Requests     *)
(* start process instances and write the tag afterwards.  Polls read       *)
(* Dolphin, look the row up by LIKE '%ds:<id>%' and write it, or insert    *)
(* one.  Between what a thread has read and what it writes lies at least   *)
(* one call to Dolphin.                                                    *)
(*                                                                         *)
(* A workspace may have a Dolphin of its own: requests ask it, polls ask   *)
(* the platform's.  Each Dolphin counts its process instances from 1, and  *)
(* the text of a tag does not say whose number it is; the model keeps the  *)
(* instance that a row was tied to and compares no more than the numbers.  *)
(*                                                                         *)
(* "running" stands for all that is not over, waiting included.  Of the    *)
(* node instances that a poll commits with a row, the model has only that  *)
(* the commit is refused when one is of a deleted node.                    *)
(***************************************************************************)
EXTENDS Integers, FiniteSets, Sequences

CONSTANTS
  Workflows,     \* ids of workflows, all of them published
  Server,        \* Server[w]: the Dolphin of the workspace of w
  Platform,      \* the Dolphin of the platform
  Broken,        \* workflows whose dags go on naming a node that was deleted
  Requests,      \* threads that serve "run", "rerun" and "batch-run"
  Syncs,         \* threads that serve "sync-instances"
  Viewers,       \* threads that serve pages, which poll Dolphin first
  Ended,         \* statuses that are an end: "success", "failed", "killed"
  Window,        \* process instances listed for a definition (100 in the code)
  PatchLimit,    \* rows that a synchronisation asks Dolphin about (100 in the code)
  PageLimit,     \* rows that a page asks Dolphin about (45 or 35)
  Begins,        \* Begins[n]: the numbers whose digits begin with those of n
  MaxRuns,       \* bound: process instances
  MaxRows,       \* bound: rows
  MaxRequests,   \* bound: requests that start process instances
  MaxFailures,   \* bound: calls that fail or are sent to another Dolphin, commits
                 \* that fail, restarts
  None

ASSUME ConstantsAssumption ==
  /\ Window \in Nat \ {0} /\ PatchLimit \in Nat \ {0} /\ PageLimit \in Nat \ {0}
  /\ MaxRuns \in Nat /\ MaxRows \in Nat /\ MaxRequests \in Nat /\ MaxFailures \in Nat
  /\ Begins \in [1 .. MaxRuns -> SUBSET (1 .. MaxRuns)]
  /\ \A k \in 1 .. MaxRuns : k \in Begins[k]
  /\ None \notin 1 .. MaxRuns
  /\ Workflows \subseteq Nat
  /\ "failed" \in Ended /\ "running" \notin Ended
  /\ Requests \cap (Syncs \cup Viewers) = {} /\ Syncs \cap Viewers = {}

VARIABLES
  eng,        \* the process instances of all Dolphins, in the order of their starts
  rows,       \* the table WorkflowInstance, in the order of the ids
  pc,         \* where each thread is
  job,        \* the local variables of each request
  poll,       \* the local variables of each poll
  requests,   \* number of requests so far
  failures,   \* number of failures so far
  blurred     \* history: instances whose row was looked for, or written, too
              \* late, or by the number of another instance

vars == <<eng, rows, pc, job, poll, requests, failures, blurred>>

Pollers == Syncs \cup Viewers
Statuses == {"running"} \cup Ended
Threads == Requests \cup Pollers
Ids == DOMAIN eng
RowIds == DOMAIN rows

NewRun(w) == [wf |-> w, state |-> "running"]
NewRow(w, tag) == [wf |-> w, status |-> "running", tag |-> tag]
NoRow == NewRow(None, None)

NoJob == [wf |-> None, row |-> 0, seen |-> NoRow, ids |-> <<>>, left |-> 0]
NoPoll == [todo |-> {}, list |-> {}, cands |-> {}, row |-> 0,
           seen |-> NoRow, read |-> NoRow]

Request == requests < MaxRequests /\ requests' = requests + 1
Failure == failures < MaxFailures /\ failures' = failures + 1

Goto(t, l) == pc' = [pc EXCEPT ![t] = l]

\* The number that its Dolphin gives a process instance.
Number(k) == Cardinality({j \in 1 .. k : Server[eng[j].wf] = Server[eng[k].wf]})

\* The process instances whose tags match LIKE '%ds:<number of k>%'.
Alike(k) == {j \in Ids : Number(j) \in Begins[Number(k)]}

Newest(S, n) == {i \in S : Cardinality({j \in S : j > i}) < n}

Init ==
  /\ eng = <<>>
  /\ rows = <<>>
  /\ pc = [t \in Threads |-> "idle"]
  /\ job = [q \in Requests |-> NoJob]
  /\ poll = [p \in Pollers |-> NoPoll]
  /\ requests = 0
  /\ failures = 0
  /\ blurred = {}

-----------------------------------------------------------------------------
(* DolphinScheduler *)

StartRun(w) == Len(eng) < MaxRuns /\ eng' = Append(eng, NewRun(w))

\* Its own schedule.
EngineFires(w) ==
  /\ StartRun(w)
  /\ UNCHANGED <<rows, pc, job, poll, requests, failures, blurred>>

EngineEnds(k) ==
  /\ eng[k].state = "running"
  /\ \E s \in Ended : eng' = [eng EXCEPT ![k].state = s]
  /\ UNCHANGED <<rows, pc, job, poll, requests, failures, blurred>>

-----------------------------------------------------------------------------
(* What a thread writes of a row: the columns that it changed *)

Merge(seen, new, now) ==
  [now EXCEPT !.status = IF new.status = seen.status THEN @ ELSE new.status,
              !.tag = IF new.tag = seen.tag THEN @ ELSE new.tag]

Insert(row) == Len(rows) < MaxRows /\ rows' = Append(rows, row)

\* The row has changed since it was read: its tags old and new are blurred.
Late(i, seen, new) ==
  IF rows[i].tag = seen.tag /\ rows[i].status = seen.status THEN {}
  ELSE {seen.tag, rows[i].tag, new.tag} \ {None}

Update(i, seen, new) ==
  /\ rows' = [rows EXCEPT ![i] = Merge(seen, new, @)]
  /\ blurred' = blurred \cup Late(i, seen, new)

-----------------------------------------------------------------------------
(* Requests *)

Answer(q) == Goto(q, "idle") /\ job' = [job EXCEPT ![q] = NoJob]

\* A call that fails may have started an instance, of which nobody is told.
CallFails(w) ==
  /\ Failure
  /\ UNCHANGED eng \/ StartRun(w)

\* run_workflow commits the row, asks Dolphin to run, and writes the tag.
Made(q) == NewRow(job[q].wf, None)

RunInsert(q, w) ==
  /\ pc[q] = "idle"
  /\ Request
  /\ Insert(NewRow(w, None))
  /\ job' = [job EXCEPT ![q].wf = w, ![q].row = Len(rows) + 1]
  /\ Goto(q, "run")
  /\ UNCHANGED <<eng, poll, failures, blurred>>

RunStart(q) ==
  /\ pc[q] = "run"
  /\ StartRun(job[q].wf)
  /\ job' = [job EXCEPT ![q].ids = <<Len(eng) + 1>>]
  /\ Goto(q, "tag")
  /\ UNCHANGED <<rows, poll, requests, failures, blurred>>

RunTag(q) ==
  /\ pc[q] = "tag"
  /\ Update(job[q].row, Made(q), NewRow(job[q].wf, Head(job[q].ids)))
  /\ Answer(q)
  /\ UNCHANGED <<eng, poll, requests, failures>>

RunFails(q) ==
  /\ pc[q] = "run"
  /\ CallFails(job[q].wf)
  /\ Update(job[q].row, Made(q), [Made(q) EXCEPT !.status = "failed"])
  /\ Answer(q)
  /\ UNCHANGED <<poll, requests>>

\* rerun_instance reads the row, asks Dolphin to run, and ties the row to the
\* new process instance.  The page offers rows that were failed when it was
\* loaded; the code does not look at the status.
RerunLoad(q, i) ==
  /\ pc[q] = "idle"
  /\ Request
  /\ job' = [job EXCEPT ![q].wf = rows[i].wf, ![q].row = i, ![q].seen = rows[i]]
  /\ Goto(q, "rerun")
  /\ UNCHANGED <<eng, rows, poll, failures, blurred>>

RerunStart(q) ==
  /\ pc[q] = "rerun"
  /\ StartRun(job[q].wf)
  /\ job' = [job EXCEPT ![q].ids = <<Len(eng) + 1>>]
  /\ Goto(q, "retie")
  /\ UNCHANGED <<rows, poll, requests, failures, blurred>>

\* Mutant of RerunWrite: the status of the run before is kept.
RerunWriteTagOnly(q) ==
  /\ pc[q] = "retie"
  /\ LET seen == job[q].seen
     IN Update(job[q].row, seen, [seen EXCEPT !.tag = Head(job[q].ids)])
  /\ Answer(q)
  /\ UNCHANGED <<eng, poll, requests, failures>>

RerunWrite(q) ==
  /\ pc[q] = "retie"
  /\ LET seen == job[q].seen
     IN Update(job[q].row, seen,
               [seen EXCEPT !.status = "running", !.tag = Head(job[q].ids)])
  /\ Answer(q)
  /\ UNCHANGED <<eng, poll, requests, failures>>

RerunFails(q) ==
  /\ pc[q] = "rerun"
  /\ CallFails(job[q].wf)
  /\ Answer(q)
  /\ UNCHANGED <<rows, poll, requests, blurred>>

\* batch_run_workflow starts one process instance for each date and commits
\* the rows of all of them at the end; an error loses the rows of the others.
BatchBegin(q, w, n) ==
  /\ pc[q] = "idle"
  /\ Request
  /\ job' = [job EXCEPT ![q].wf = w, ![q].left = n]
  /\ Goto(q, "batch")
  /\ UNCHANGED <<eng, rows, poll, failures, blurred>>

BatchStart(q) ==
  /\ pc[q] = "batch"
  /\ job[q].left > 0
  /\ StartRun(job[q].wf)
  /\ job' = [job EXCEPT ![q].ids = Append(@, Len(eng) + 1), ![q].left = @ - 1]
  /\ UNCHANGED <<rows, pc, poll, requests, failures, blurred>>

BatchCommit(q) ==
  /\ pc[q] = "batch"
  /\ job[q].left = 0
  /\ Len(rows) + Len(job[q].ids) <= MaxRows
  /\ rows' = rows \o [n \in DOMAIN job[q].ids |-> NewRow(job[q].wf, job[q].ids[n])]
  /\ Answer(q)
  /\ UNCHANGED <<eng, poll, requests, failures, blurred>>

BatchFails(q) ==
  /\ pc[q] = "batch"
  /\ job[q].left > 0
  /\ CallFails(job[q].wf)
  /\ Answer(q)
  /\ UNCHANGED <<rows, poll, requests, blurred>>

\* A commit fails: what the request had still to write is lost.
RequestLost(q) ==
  /\ pc[q] \in {"tag", "retie"} \/ (pc[q] = "batch" /\ job[q].left = 0)
  /\ Failure
  /\ Answer(q)
  /\ UNCHANGED <<eng, rows, poll, requests, blurred>>

-----------------------------------------------------------------------------
(* Polls *)

\* A poll has pointed the client at the platform's Dolphin, which knows only
\* the projects of its own workflows.  Another thread may point it elsewhere.
Polled == {w \in Workflows : Server[w] = Platform}

Reached(w) == IF w \in Polled THEN UNCHANGED failures ELSE Failure

Refused(w) == IF w \in Polled THEN Failure ELSE UNCHANGED failures

\* What was read is not written: the database fails, or refuses a node instance
\* of a deleted node, as it does as long as the dag names the node.
RollBack(w) ==
  /\ Failure \/ (w \in Broken /\ UNCHANGED failures)
  /\ UNCHANGED <<rows, blurred>>

\* Mutant of Matches: only among the rows that still run.
MatchesRunning(k) ==
  {i \in RowIds : rows[i].wf = eng[k].wf /\ rows[i].tag \in Alike(k)
                  /\ rows[i].status = "running"}

Matches(k) == {i \in RowIds : rows[i].wf = eng[k].wf /\ rows[i].tag \in Alike(k)}

\* sync_ds_instances: first the lists of all definitions, then the details.
SyncBegin(p) ==
  /\ pc[p] = "idle"
  /\ poll' = [poll EXCEPT ![p].todo = Workflows]
  /\ Goto(p, "scan")
  /\ UNCHANGED <<eng, rows, job, requests, failures, blurred>>

\* Mutant of Listed: only those that still run.
ListedRunning(w) ==
  {[id |-> k, state |-> eng[k].state] :
     k \in Newest({k \in Ids : eng[k].wf = w /\ eng[k].state = "running"}, Window)}

\* The newest process instances of w with their states of now.
Listed(w) ==
  {[id |-> k, state |-> eng[k].state] : k \in Newest({k \in Ids : eng[k].wf = w}, Window)}

SyncList(p, w) ==
  /\ pc[p] = "scan"
  /\ poll[p].list = {}
  /\ w \in poll[p].todo
  /\ \A v \in poll[p].todo : w <= v
  /\ \/ /\ Reached(w)
        /\ poll' = [poll EXCEPT ![p].todo = @ \ {w}, ![p].list = Listed(w)]
     \/ /\ Refused(w)
        /\ poll' = [poll EXCEPT ![p].todo = @ \ {w}]
  /\ UNCHANGED <<eng, rows, pc, job, requests, blurred>>

\* Somebody is about to tie a row to k.
InTheMaking(p, k) ==
  \/ \E q \in Requests : \E n \in DOMAIN job[q].ids : job[q].ids[n] = k
  \/ \E o \in Pollers \ {p} : pc[o] = "found" /\ poll[o].row = 0 /\ poll[o].read.tag = k

\* The list is worked off from the newest instance on.
IsFirst(x, list) == x \in list /\ \A y \in list : y.id <= x.id

AsRow(x) == [wf |-> eng[x.id].wf, status |-> x.state, tag |-> x.id]

\* Mutant of SyncFind: what has a row is left to the pages.
SyncFindNew(p) ==
  /\ pc[p] = "scan"
  /\ \E x \in poll[p].list :
       /\ IsFirst(x, poll[p].list)
       /\ IF Matches(x.id) = {}
          THEN /\ poll' = [poll EXCEPT ![p].list = @ \ {x}, ![p].read = AsRow(x)]
               /\ Goto(p, "found")
          ELSE poll' = [poll EXCEPT ![p].list = @ \ {x}] /\ UNCHANGED pc
  /\ UNCHANGED <<eng, rows, job, requests, failures, blurred>>

\* The row of the next instance of the list is looked up: any that matches.
SyncFind(p) ==
  /\ pc[p] = "scan"
  /\ \E x \in poll[p].list :
       /\ IsFirst(x, poll[p].list)
       /\ \/ /\ Matches(x.id) = {}
             /\ poll' = [poll EXCEPT ![p].list = @ \ {x}, ![p].read = AsRow(x)]
             /\ blurred' = IF InTheMaking(p, x.id) THEN blurred \cup {x.id} ELSE blurred
          \/ \E i \in Matches(x.id) :
               /\ poll' = [poll EXCEPT ![p].list = @ \ {x}, ![p].row = i,
                                       ![p].seen = rows[i], ![p].read = AsRow(x)]
               /\ blurred' = IF rows[i].tag = x.id THEN blurred
                             ELSE blurred \cup {x.id, rows[i].tag}
  /\ Goto(p, "found")
  /\ UNCHANGED <<eng, rows, job, requests, failures>>

\* One commit for a row and its node instances.
SyncWrite(p) ==
  /\ pc[p] = "found"
  /\ \/ /\ UNCHANGED failures
        /\ IF poll[p].row = 0 THEN Insert(poll[p].read) /\ UNCHANGED blurred
           ELSE Update(poll[p].row, poll[p].seen, poll[p].read)
     \/ RollBack(poll[p].read.wf)
  /\ poll' = [poll EXCEPT ![p].row = 0, ![p].seen = NoRow, ![p].read = NoRow]
  /\ Goto(p, "scan")
  /\ UNCHANGED <<eng, job, requests>>

Tagged == {i \in RowIds : rows[i].tag # None}

\* The poll goes on with the rows of cands, or is over.
Turn(p, cands, l) == Goto(p, IF cands = {} THEN "idle" ELSE l)

\* The newest of the rows cands is read and Dolphin asked about it.
AskAbout(p, cands, here, there) ==
  \E i \in Newest(cands, 1) :
    \/ /\ Reached(rows[i].wf)
       /\ poll' = [poll EXCEPT ![p].cands = cands \ {i}, ![p].row = i, ![p].seen = rows[i],
                     ![p].read = [rows[i] EXCEPT !.status = eng[rows[i].tag].state]]
       /\ Goto(p, there)
    \/ /\ Refused(rows[i].wf)
       /\ poll' = [poll EXCEPT ![p].cands = cands \ {i}]
       /\ Turn(p, cands \ {i}, here)

\* patch_instances_from_ds_detail: the newest rows with a tag, ended or not.
PatchBegin(p) ==
  /\ pc[p] = "scan"
  /\ poll[p].list = {}
  /\ poll[p].todo = {}
  /\ \/ AskAbout(p, Newest(Tagged, PatchLimit), "patch", "patched")
     \/ Tagged = {} /\ Goto(p, "idle") /\ UNCHANGED <<poll, failures>>
  /\ UNCHANGED <<eng, rows, job, requests, blurred>>

\* list_instances and the pages of the operation centre: rows that still run,
\* of the workflow or of the workspace that a user looks at.
RefreshBegin(p, W) ==
  /\ pc[p] = "idle"
  /\ LET open == {i \in Tagged : rows[i].wf \in W /\ rows[i].status = "running"}
     IN AskAbout(p, Newest(open, PageLimit), "refresh", "refreshed")
  /\ UNCHANGED <<eng, rows, job, requests, blurred>>

\* refresh_ds_workflow_instance_from_dolphin: the row a user looks at.
RefreshOne(p, i) ==
  /\ pc[p] = "idle"
  /\ i \in Tagged
  /\ AskAbout(p, {i}, "refresh", "refreshed")
  /\ UNCHANGED <<eng, rows, job, requests, blurred>>

\* The commit before has expired the next row, which is read anew.
Ask(p) ==
  /\ \/ pc[p] = "patch" /\ AskAbout(p, poll[p].cands, "patch", "patched")
     \/ pc[p] = "refresh" /\ AskAbout(p, poll[p].cands, "refresh", "refreshed")
  /\ UNCHANGED <<eng, rows, job, requests, blurred>>

Tell(p) ==
  /\ pc[p] \in {"patched", "refreshed"}
  /\ \/ Update(poll[p].row, poll[p].seen, poll[p].read) /\ UNCHANGED failures
     \/ RollBack(poll[p].read.wf)
  /\ poll' = [poll EXCEPT ![p].row = 0, ![p].seen = NoRow, ![p].read = NoRow]
  /\ Turn(p, poll[p].cands, IF pc[p] = "patched" THEN "patch" ELSE "refresh")
  /\ UNCHANGED <<eng, job, requests>>

\* ds_webhook: an alert of any Dolphin that k has ended, late or repeated.  The
\* look-up is restricted to no workflow and to no Dolphin, and any match may
\* be the first.
Webhook(k) ==
  /\ eng[k].state \in Ended
  /\ \E i \in RowIds :
       /\ rows[i].tag \in Alike(k)
       /\ rows' = [rows EXCEPT ![i].status = eng[k].state]
       /\ blurred' = blurred \cup ({rows[i].tag} \ {k})
  /\ UNCHANGED <<eng, pc, job, poll, requests, failures>>

\* The server stops and starts again.
Restart ==
  /\ Failure
  /\ pc' = [t \in Threads |-> "idle"]
  /\ job' = [q \in Requests |-> NoJob]
  /\ poll' = [p \in Pollers |-> NoPoll]
  /\ UNCHANGED <<eng, rows, requests, blurred>>
-----------------------------------------------------------------------------
PollStep(p) ==
  \/ \E w \in Workflows : SyncList(p, w)
  \/ SyncFind(p)
  \/ SyncWrite(p)
  \/ PatchBegin(p)
  \/ Ask(p)
  \/ Tell(p)

RequestStep(q) ==
  \/ RunStart(q) \/ RunTag(q) \/ RunFails(q)
  \/ RerunStart(q) \/ RerunWrite(q) \/ RerunFails(q)
  \/ BatchStart(q) \/ BatchCommit(q) \/ BatchFails(q)
  \/ RequestLost(q)

Next ==
  \/ \E w \in Workflows : EngineFires(w)
  \/ \E k \in Ids : EngineEnds(k)
  \/ \E q \in Requests : RequestStep(q)
  \/ \E q \in Requests, w \in Workflows : RunInsert(q, w)
  \/ \E q \in Requests, w \in Workflows, n \in 1 .. MaxRuns : BatchBegin(q, w, n)
  \/ \E q \in Requests, i \in RowIds : RerunLoad(q, i)
  \/ \E p \in Syncs : SyncBegin(p)
  \/ \E p \in Viewers, W \in SUBSET Workflows : RefreshBegin(p, W)
  \/ \E p \in Viewers, i \in RowIds : RefreshOne(p, i)
  \/ \E p \in Pollers : PollStep(p)
  \/ \E k \in Ids : Webhook(k)
  \/ Restart

Spec == Init /\ [][Next]_vars

\* Somebody calls the synchronisation again and again, and it runs to its end.
\* Of requests and pages nothing is assumed.
Fairness == \A p \in Syncs : WF_vars(SyncBegin(p) \/ PollStep(p))

FairSpec == Spec /\ Fairness

-----------------------------------------------------------------------------
(* Properties *)

RowType == [wf : Workflows \cup {None}, status : Statuses, tag : Ids \cup {None}]

(* Every variable has its type. *)
TypeOK ==
  /\ eng \in Seq([wf : Workflows, state : Statuses])
  /\ rows \in Seq(RowType)
  /\ Len(eng) <= MaxRuns /\ Len(rows) <= MaxRows
  /\ pc \in [Threads -> {"idle", "run", "tag", "rerun", "retie", "batch", "scan", "found",
                         "patch", "patched", "refresh", "refreshed"}]
  /\ job \in [Requests -> [wf : Workflows \cup {None}, row : RowIds \cup {0}, seen : RowType,
                           ids : Seq(Ids), left : 0 .. MaxRuns]]
  /\ poll \in [Pollers -> [todo : SUBSET Workflows, list : SUBSET [id : Ids, state : Statuses],
                           cands : SUBSET RowIds,
                           row : RowIds \cup {0}, seen : RowType, read : RowType]]
  /\ requests \in 0 .. MaxRequests
  /\ failures \in 0 .. MaxFailures
  /\ blurred \subseteq Ids

(* A process instance has at most one row, however runs, reruns, batches,
   polls and alerts interleave, unless it was discovered while a request or
   another poll was about to write its row. *)
OneRowPerRun ==
  \A i, j \in RowIds :
    rows[i].tag = rows[j].tag /\ rows[i].tag \notin blurred \cup {None} => i = j

(* A row is tied to a process instance of its own workflow: numbers that
   begin alike confuse rows of one workflow, never those of two. *)
TagIsOwn == \A i \in Tagged : eng[rows[i].tag].wf = rows[i].wf

(* A row says that its process instance has ended only if it has ended that
   way, unless the row was written by somebody who had read it earlier or by
   an alert about another instance, of the same Dolphin with a number that
   begins alike or of another one. *)
EndIsReal ==
  \A i \in Tagged :
    LET k == rows[i].tag
    IN rows[i].status \in Ended /\ k \notin blurred =>
         eng[k].state = rows[i].status

(* Every process instance of the platform's Dolphin gets a row in the end:
   those of Dolphin's own schedule, those of a batch that failed half-way,
   those whose start was answered by an error, and those whose row was taken
   by a rerun; if no dag names a deleted node for ever. *)
EveryRunIsListed ==
  \A k \in 1 .. MaxRuns :
    (k \in Ids /\ eng[k].wf \in Polled \ Broken) ~> \E i \in RowIds : rows[i].tag = k

(* The end of a process instance of the platform's Dolphin is shown by its
   row in the end, whatever stale status, or status of an instance of another
   Dolphin, is written over it; with the same exception. *)
EndIsShown ==
  \A k \in 1 .. MaxRuns :
    (k \in Ids /\ eng[k].wf \in Polled \ Broken /\ eng[k].state \in Ended)
      ~> \E i \in RowIds : rows[i].tag = k /\ rows[i].status = eng[k].state
=============================================================================
