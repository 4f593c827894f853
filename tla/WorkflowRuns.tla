----------------------------- MODULE WorkflowRuns -----------------------------
(***************************************************************************)
(* Workflow instances where no DolphinScheduler is configured: the server  *)
(* runs them itself.  Three kinds of threads do it with the same loop over *)
(* the nodes of the graph: the request "run" (api/workflow.py), the job    *)
(* that APScheduler fires (services/scheduler.py) and the one executor     *)
(* thread, which polls the pending instances that reruns and batches leave *)
(* (services/executor.py).                                                 *)
(*                                                                         *)
(* A thread commits after each write, and its next statement reads the     *)
(* committed rows again.  Nothing in the database guards an instance       *)
(* against a second runner, and "rerun" does not look at the status: only  *)
(* the page with the list of instances decides which rows can be rerun.    *)
(***************************************************************************)
EXTENDS Integers, FiniteSets, SequencesExt

CONSTANTS
  Workflows,      \* ids of workflows
  Nodes,          \* ids of task nodes
  Graphs,         \* column dag_config: [nodes : Seq(Nodes), edges : Seq(Edges)]
  Requests,       \* threads that serve "run"
  Pages,          \* open pages with the list of instances
  Executor,       \* the executor thread
  Limit,          \* instances that one poll loads (5 in the code)
  MaxInstances,   \* bound: rows of WorkflowInstance
  MaxRequests,    \* bound: requests of users that write
  Flaky,          \* bound: nodes whose script may fail
  Restarts,       \* whether the process may be restarted
  None

Edges == [source : Nodes, target : Nodes]

ASSUME ThreadsDiffer ==
  /\ Limit \in Nat \ {0}
  /\ MaxInstances \in Nat
  /\ MaxRequests \in Nat
  /\ None \notin Workflows
  /\ Executor \notin Requests \cup Workflows
  /\ Requests \cap Workflows = {}

\* APScheduler runs one job of a workflow at a time, in a thread named like it.
Threads == Requests \cup Workflows \cup {Executor}

VARIABLES
  graph,     \* the row of a workflow: its graph, None when it is deleted
  gone,      \* task nodes deleted from the studio
  inst,      \* the table WorkflowInstance in the order of the ids
  rows,      \* the node instances of each workflow instance
  batch,     \* what the executor has loaded and not yet taken
  pc,        \* where each thread is
  on,        \* the instance and the workflow each thread runs
  plan,      \* the local variables of each thread's loop
  page,      \* the failed instances each page shows
  requests,  \* number of requests so far
  asked,     \* history: reruns accepted and not started
  undisturbed  \* history: no restart, no deletion, no rerun off a stale page

rvars == <<graph, gone, inst, rows, batch, pc, on, plan, page, requests, asked, undisturbed>>
users == <<graph, gone, page, requests>>

-----------------------------------------------------------------------------
(* The order of the nodes: Kahn's algorithm with a first-in first-out queue *)

NodesOf(g) == ToSet(g.nodes)

\* Edges with an end outside the graph are ignored.
LinksOf(g) == SelectSeq(g.edges, LAMBDA e : {e.source, e.target} \subseteq NodesOf(g))

Targets(g, n) == SelectSeq(LinksOf(g), LAMBDA e : e.source = n)

\* Mutant of InDegree: assigned instead of counted.
InDegreeOnce(g) ==
  [n \in NodesOf(g) |-> IF \E k \in DOMAIN LinksOf(g) : LinksOf(g)[k].target = n THEN 1 ELSE 0]

InDegree(g) ==
  [n \in NodesOf(g) |-> Cardinality({k \in DOMAIN LinksOf(g) : LinksOf(g)[k].target = n})]

ReleaseTargets(s, e) ==
  [degree |-> [s.degree EXCEPT ![e.target] = @ - 1],
   queue  |-> IF s.degree[e.target] = 1 THEN Append(s.queue, e.target) ELSE s.queue]

Sorted(g) ==
  LET drain[degree \in [NodesOf(g) -> Int], queue \in Seq(Nodes), result \in Seq(Nodes)] ==
        IF queue = <<>> THEN result
        ELSE LET s == FoldLeft(ReleaseTargets, [degree |-> degree, queue |-> Tail(queue)],
                               Targets(g, Head(queue)))
             IN drain[s.degree, s.queue, Append(result, Head(queue))]
  IN drain[InDegree(g), SelectSeq(g.nodes, LAMBDA n : InDegree(g)[n] = 0), <<>>]

\* _topo_sort: the nodes on a cycle, or behind one, follow in their own order.
TopoSort(g) ==
  FoldLeft(LAMBDA done, n : IF n \in ToSet(done) THEN done ELSE Append(done, n),
           Sorted(g), g.nodes)

Order == [g \in Graphs |-> TopoSort(g)]

-----------------------------------------------------------------------------
(* Data *)

InstanceStatuses == {"pending", "running", "success", "failed"}
Terminal == {"success", "failed"}
RowStatuses == InstanceStatuses \cup {"killed"}

Ids == DOMAIN inst
Exists(w) == graph[w] # None

\* on[t] is 0 when t runs no instance.
NoPlan == [wf |-> None, graph |-> None, todo |-> <<>>, first |-> 1, errors |-> FALSE]

SetStatus(i, s) == inst' = [inst EXCEPT ![i].status = s]

Insert(w, status, k) ==
  /\ Len(inst) + k <= MaxInstances
  /\ inst' = [i \in 1..(Len(inst) + k) |->
                IF i \in Ids THEN inst[i] ELSE [wf |-> w, status |-> status]]
  /\ rows' = [i \in 1..(Len(inst) + k) |-> IF i \in Ids THEN rows[i] ELSE <<>>]

\* The thread takes up instance i of workflow w.
BeginRun(t, i, w) ==
  /\ pc' = [pc EXCEPT ![t] = "plan"]
  /\ on' = [on EXCEPT ![t] = i]
  /\ plan' = [plan EXCEPT ![t] = [NoPlan EXCEPT !.wf = w]]

\* The request is answered, or the job, or the executor's turn, is over.
Leave(t) ==
  /\ pc' = [pc EXCEPT ![t] = "idle"]
  /\ on' = [on EXCEPT ![t] = 0]
  /\ plan' = [plan EXCEPT ![t] = NoPlan]

\* An exception leaves the executor's pass over what it has loaded.
DropBatch(t) == batch' = IF t = Executor THEN {} ELSE batch

\* A request of a user that writes.
Request == requests < MaxRequests /\ requests' = requests + 1

-----------------------------------------------------------------------------
RInit ==
  /\ graph \in [Workflows -> Graphs]
  /\ gone = {}
  /\ inst = <<>>
  /\ rows = <<>>
  /\ batch = {}
  /\ pc = [t \in Threads |-> "idle"]
  /\ on = [t \in Threads |-> 0]
  /\ plan = [t \in Threads |-> NoPlan]
  /\ page = [u \in Pages |-> {}]
  /\ requests = 0
  /\ asked = {}
  /\ undisturbed = TRUE

-----------------------------------------------------------------------------
(* The three threads take up an instance *)

\* run_workflow: the row is there, already running, before the loop begins.
RunWorkflow(q, w) ==
  /\ pc[q] = "idle"
  /\ Exists(w)
  /\ Request
  /\ Insert(w, "running", 1)
  /\ BeginRun(q, Len(inst) + 1, w)
  /\ UNCHANGED <<graph, gone, batch, page, asked, undisturbed>>

\* _run_workflow_job: APScheduler fires the job of a workflow that exists.
Fire(w) ==
  /\ pc[w] = "idle"
  /\ Exists(w)
  /\ Insert(w, "running", 1)
  /\ BeginRun(w, Len(inst) + 1, w)
  /\ UNCHANGED <<graph, gone, batch, page, requests, asked, undisturbed>>

\* Mutant of Awaits: what was left running is taken up again.
AwaitsOrRuns(i) == inst[i].status \in {"pending", "running"}

Awaits(i) == inst[i].status = "pending"

\* One poll of the executor loads the first pending rows.
Poll ==
  /\ pc[Executor] = "idle"
  /\ batch = {}
  /\ \E i \in Ids : Awaits(i)
  /\ LET pending == {i \in Ids : Awaits(i)}
     IN batch' = {i \in pending : Cardinality({j \in pending : j < i}) < Limit}
  /\ UNCHANGED <<graph, gone, inst, rows, pc, on, plan, page, requests, asked, undisturbed>>

\* The next of the loaded rows: running from now on, failed when its workflow is gone.
Take ==
  /\ pc[Executor] = "idle"
  /\ \E i \in batch :
       /\ \A j \in batch : i <= j
       /\ batch' = batch \ {i}
       /\ asked' = asked \ {i}
       /\ IF inst[i].wf = None
          THEN SetStatus(i, "failed") /\ UNCHANGED <<pc, on, plan>>
          ELSE SetStatus(i, "running") /\ BeginRun(Executor, i, inst[i].wf)
  /\ UNCHANGED <<graph, gone, rows, page, requests, undisturbed>>

-----------------------------------------------------------------------------
(* The loop over the nodes, the same in all of them *)

\* The commit has expired the workflow: it is read again, and may be deleted.
Plan(t) ==
  /\ pc[t] = "plan"
  /\ LET w == plan[t].wf
     IN IF Exists(w)
        THEN /\ pc' = [pc EXCEPT ![t] = "next"]
             /\ plan' = [plan EXCEPT ![t].graph = graph[w], ![t].todo = Order[graph[w]],
                                     ![t].first = Len(rows[on[t]]) + 1]
             /\ UNCHANGED <<on, batch>>
        ELSE Leave(t) /\ DropBatch(t)
  /\ UNCHANGED <<users, inst, rows, asked, undisturbed>>

StartNode(t) ==
  /\ pc[t] = "next"
  /\ plan[t].todo # <<>>
  /\ LET n == Head(plan[t].todo)
     IN IF n \in gone
        THEN UNCHANGED <<pc, rows>>
        ELSE /\ pc' = [pc EXCEPT ![t] = "node"]
             /\ rows' = [rows EXCEPT ![on[t]] = Append(@, [node |-> n, status |-> "running"])]
  /\ plan' = [plan EXCEPT ![t].todo = Tail(@)]
  /\ UNCHANGED <<users, inst, batch, on, asked, undisturbed>>

\* Mutant of EndNode: the exception of a node is not caught.
EndNodeRaises(t) ==
  /\ pc[t] = "node"
  /\ Leave(t) /\ DropBatch(t)
  /\ rows' = [rows EXCEPT ![on[t]][Len(rows[on[t]])].status = "failed"]
  /\ UNCHANGED <<users, inst, asked, undisturbed>>

\* An error of a node is kept and the loop goes on with the nodes behind it.
EndNode(t) ==
  /\ pc[t] = "node"
  /\ pc' = [pc EXCEPT ![t] = "next"]
  /\ \E s \in Terminal :
       /\ s = "failed" => rows[on[t]][Len(rows[on[t]])].node \in Flaky
       /\ rows' = [rows EXCEPT ![on[t]][Len(rows[on[t]])].status = s]
       /\ plan' = [plan EXCEPT ![t].errors = @ \/ s = "failed"]
  /\ UNCHANGED <<users, inst, batch, on, asked, undisturbed>>

\* The alert of a failure reads the workflow's name, which raises when it is gone.
FinishRun(t) ==
  /\ pc[t] = "next"
  /\ plan[t].todo = <<>>
  /\ SetStatus(on[t], IF plan[t].errors THEN "failed" ELSE "success")
  /\ IF plan[t].errors /\ ~Exists(plan[t].wf) THEN DropBatch(t) ELSE UNCHANGED batch
  /\ Leave(t)
  /\ UNCHANGED <<users, rows, asked, undisturbed>>

-----------------------------------------------------------------------------
(* Users *)

\* list_instances, of an existing workflow; failed rows get the button "rerun".
ListInstances(u, w) ==
  /\ Exists(w)
  /\ page' = [page EXCEPT ![u] = {i \in Ids : inst[i].wf = w /\ inst[i].status = "failed"}]
  /\ UNCHANGED <<graph, gone, inst, rows, batch, pc, on, plan, requests, asked, undisturbed>>

\* Mutant of Offers: every row of the workflow has the button.
OffersAll(u, i) == i \in Ids

Offers(u, i) == i \in page[u]

\* Mutant of Rerun: the status of the branch for Dolphin.
RerunRunning(u, i) ==
  /\ Offers(u, i)
  /\ inst[i].wf # None
  /\ Request
  /\ SetStatus(i, "running")
  /\ asked' = asked \cup {i}
  /\ undisturbed' = (undisturbed /\ inst[i].status = "failed")
  /\ UNCHANGED <<graph, gone, rows, batch, pc, on, plan, page>>

\* rerun_instance: whatever the status is by now.
Rerun(u, i) ==
  /\ Offers(u, i)
  /\ inst[i].wf # None
  /\ Request
  /\ SetStatus(i, "pending")
  /\ asked' = asked \cup {i}
  /\ undisturbed' = (undisturbed /\ inst[i].status = "failed")
  /\ UNCHANGED <<graph, gone, rows, batch, pc, on, plan, page>>

\* batch_run_workflow: one pending row for each date, in one commit.
BatchRun(w, k) ==
  /\ Exists(w)
  /\ Request
  /\ Insert(w, "pending", k)
  /\ UNCHANGED <<graph, gone, batch, pc, on, plan, page, asked, undisturbed>>

\* update_workflow
Save(w, g) ==
  /\ Exists(w)
  /\ Request
  /\ graph' = [graph EXCEPT ![w] = g]
  /\ UNCHANGED <<gone, inst, rows, batch, pc, on, plan, page, asked, undisturbed>>

\* delete_workflow: the ORM clears the foreign key of the instances.
DeleteWorkflow(w) ==
  /\ Exists(w)
  /\ Request
  /\ graph' = [graph EXCEPT ![w] = None]
  /\ inst' = [i \in Ids |-> IF inst[i].wf = w THEN [inst[i] EXCEPT !.wf = None] ELSE inst[i]]
  /\ undisturbed' = FALSE
  /\ UNCHANGED <<gone, rows, batch, pc, on, plan, page, asked>>

\* delete_node: the foreign key of NodeInstance keeps a node that has run.
DeleteNode(n) ==
  /\ n \notin gone
  /\ \A i \in Ids : \A k \in DOMAIN rows[i] : rows[i][k].node # n
  /\ Request
  /\ gone' = gone \cup {n}
  /\ UNCHANGED <<graph, inst, rows, batch, pc, on, plan, page, asked, undisturbed>>

\* kill_node_instance and retry_node_instance change the row and nothing else.
KillNode(i, k) ==
  /\ Request
  /\ rows' = [rows EXCEPT ![i][k].status = "killed"]
  /\ UNCHANGED <<graph, gone, inst, batch, pc, on, plan, page, asked, undisturbed>>

RetryNode(i, k) ==
  /\ Request
  /\ rows' = [rows EXCEPT ![i][k].status = "pending"]
  /\ UNCHANGED <<graph, gone, inst, batch, pc, on, plan, page, asked, undisturbed>>

\* The process stops, whatever its threads do, and starts again.
RestartServer ==
  /\ Restarts
  /\ undisturbed' = FALSE
  /\ batch' = {}
  /\ pc' = [t \in Threads |-> "idle"]
  /\ on' = [t \in Threads |-> 0]
  /\ plan' = [t \in Threads |-> NoPlan]
  /\ UNCHANGED <<graph, gone, inst, rows, page, requests, asked>>
-----------------------------------------------------------------------------
RunStep(t) == Plan(t) \/ StartNode(t) \/ EndNode(t) \/ FinishRun(t)

RNext ==
  \/ \E q \in Requests, w \in Workflows : RunWorkflow(q, w)
  \/ \E w \in Workflows : Fire(w)
  \/ Poll
  \/ Take
  \/ \E t \in Threads : RunStep(t)
  \/ \E u \in Pages, w \in Workflows : ListInstances(u, w)
  \/ \E u \in Pages, i \in Ids : Rerun(u, i)
  \/ \E w \in Workflows, k \in 1..MaxInstances : BatchRun(w, k)
  \/ \E w \in Workflows, g \in Graphs : Save(w, g)
  \/ \E w \in Workflows : DeleteWorkflow(w)
  \/ \E n \in Nodes : DeleteNode(n)
  \/ \E i \in Ids : \E k \in DOMAIN rows[i] : KillNode(i, k) \/ RetryNode(i, k)
  \/ RestartServer

RSpec == RInit /\ [][RNext]_rvars

\* The threads of the server run, and scripts end (they have a timeout of 300 s).
RFairness == WF_rvars(Poll) /\ WF_rvars(Take) /\ \A t \in Threads : WF_rvars(RunStep(t))

RFairSpec == RSpec /\ RFairness

-----------------------------------------------------------------------------
(* Properties *)

Plans == [wf : Workflows \cup {None}, graph : Graphs \cup {None}, todo : Seq(Nodes),
          first : Nat, errors : BOOLEAN]

(* Every variable has its type. *)
RTypeOK ==
  /\ graph \in [Workflows -> Graphs \cup {None}]
  /\ gone \subseteq Nodes
  /\ inst \in Seq([wf : Workflows \cup {None}, status : InstanceStatuses])
  /\ Len(inst) <= MaxInstances
  /\ Len(rows) = Len(inst)
  /\ \A i \in Ids : rows[i] \in Seq([node : Nodes, status : RowStatuses])
  /\ batch \subseteq Ids
  /\ pc \in [Threads -> {"idle", "plan", "next", "node"}]
  /\ on \in [Threads -> Ids \cup {0}]
  /\ plan \in [Threads -> Plans]
  /\ page \in [Pages -> SUBSET Ids]
  /\ requests \in 0..MaxRequests
  /\ asked \subseteq Ids
  /\ undisturbed \in BOOLEAN

(* An instance has one runner at a time, although a rerun checks no status
   and the executor takes whatever is pending: a row that a page has once
   shown as failed has no thread any more but, perhaps, the executor. *)
OneRunner ==
  \A t1, t2 \in Threads : on[t1] # 0 /\ on[t1] = on[t2] => t1 = t2

(* A status that says the run is over is written after its last node: nobody
   works for an instance that is shown as success or failed. *)
TerminalIsSettled ==
  \A t \in Threads : on[t] # 0 => inst[on[t]].status \notin Terminal

Links == [g \in Graphs |-> ToSet(LinksOf(g))]

\* Reference definition: the nodes can be numbered along the edges.
Acyclic ==
  {g \in Graphs : \E rank \in [NodesOf(g) -> 1..Len(g.nodes)] :
                    \A e \in Links[g] : rank[e.source] < rank[e.target]}

(* What is behind a node that waits or runs is itself still waiting. *)
InOrder(t) ==
  LET todo == ToSet(plan[t].todo)
      open == IF pc[t] = "node" THEN todo \cup {Last(rows[on[t]]).node} ELSE todo
  IN pc[t] \in {"next", "node"} /\ plan[t].graph \in Acyclic =>
       \A e \in Links[plan[t].graph] : e.source \in open => e.target \in todo

(* An instance that becomes a success has run every node of its graph to its
   end without an error, but for those deleted from the studio. *)
Covered(t) ==
  pc[t] = "next" /\ on'[t] = 0 /\ inst'[on[t]].status = "success" =>
    \A n \in NodesOf(plan[t].graph) \ gone :
      \E k \in plan[t].first..Len(rows[on[t]]) :
        rows[on[t]][k].node = n /\ rows[on[t]][k].status \notin {"running", "failed"}

(* In a graph without a cycle no node is started before those it depends on,
   and an instance becomes a success only when every node of the graph it was
   started with, on a cycle or not, has been run. *)
GraphIsFollowed == [][\A t \in Threads : InOrder(t)' /\ Covered(t)]_rvars

(* Every instance comes to an end, the pending ones of a batch beyond the
   limit of a poll too, unless the process was restarted under it, its
   workflow was deleted, or a row was rerun off a stale page. *)
InstancesSettle ==
  \A i \in 1..MaxInstances :
    (i \in Ids /\ inst[i].status \notin Terminal)
      ~> ((i \in Ids /\ inst[i].status \in Terminal) \/ ~undisturbed)

(* A rerun that was accepted is carried out, under the same conditions. *)
RerunIsServed ==
  \A i \in 1..MaxInstances : i \in asked ~> (i \notin asked \/ ~undisturbed)
=============================================================================
