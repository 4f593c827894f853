--------------------------- MODULE WorkflowPublish ---------------------------
(***************************************************************************)
(* Workflows as drafts in the database and as process definitions in       *)
(* DolphinScheduler: create, save (with the push of the cron), publish and *)
(* delete, as api/workflow.py and services/workflow_ds_publish.py do them. *)
(*                                                                         *)
(* Every request runs in a thread of its own, in one transaction at the    *)
(* level READ COMMITTED, and calls Dolphin between the load of the row and *)
(* the commit.  All of them share ONE client object of the process, whose  *)
(* address, token and project are overwritten by each refresh.             *)
(***************************************************************************)
EXTENDS Naturals, FiniteSets, FiniteSetsExt

CONSTANTS
  Workflows,    \* ids of workflows
  Engines,      \* Dolphin servers, one project on each
  EngineOf,     \* the engine that the settings of a workflow's workspace name
  Scripts,      \* ids of script nodes
  ScriptsOf,    \* the script nodes of a workflow's workspace
  Graphs,       \* what the editor may send as nodes and edges
  Names,        \* display names
  Crons,        \* valid cron expressions
  Requests,     \* threads of the server
  Pages,        \* open pages with the editor
  MaxRequests,  \* bound: requests in a behaviour
  None, Absent, Deleted

ASSUME ConstantsAssumption ==
  /\ EngineOf \in [Workflows -> Engines]
  /\ ScriptsOf \in [Workflows -> SUBSET Scripts]
  /\ Graphs \subseteq [nodes : SUBSET Scripts, edges : SUBSET (Scripts \X Scripts)]
  /\ MaxRequests \in Nat
  /\ None \notin Crons

(* A process definition is found by its project and its name "dw_<id>_<name>". *)
Procs == [engine : Engines, wf : Workflows, name : Names]

(* The column dag_config: graph, ds_project_code with ds_process_code, needs_republish. *)
Dags == [graph : Graphs, code : Procs \cup {None}, stale : BOOLEAN]

(* Schedule type and expression are saved together; None is the type manual. *)
Rows == [name : Names, cron : Crons \cup {None}, dag : Dags]

Definitions == [graph : Graphs, online : BOOLEAN,
                sched : Crons \cup {None}, live : BOOLEAN]

(* A request: what it is about to do, the row as it was loaded, and what it writes. *)
Threads == [op : {"save", "publish", "delete"},
            pc : {"commit", "refresh", "push", "project", "find", "create", "offline",
                  "put", "online", "schedule", "engine", "row"},
            wf : Workflows, loaded : Rows, new : Rows,
            project : Engines \cup {None}, code : Procs \cup {None}]

ASSUME MarksAssumption ==
  /\ None \notin Threads \cup Procs
  /\ Absent \notin Rows \cup Definitions \cup {Deleted} /\ Deleted \notin Rows

VARIABLES
  row,      \* the row of a workflow
  proc,     \* the process definitions in the engines
  client,   \* the engine the client of the process points to
  req,      \* what each thread does
  page,     \* what each open editor has loaded
  started,  \* number of requests so far
  dropped,  \* history: definitions whose code a row has given up
  lost,     \* history: definitions removed by a deletion that ended before its commit
  calm      \* history: no two requests overlapped and nothing has failed

vars == <<row, proc, client, req, page, started, dropped, lost, calm>>

-----------------------------------------------------------------------------
(* What requests have in common *)

Live(w) == row[w] \notin {Absent, Deleted}

(* An UPDATE holds the columns that differ from the loaded ones; the others
   keep what other transactions have committed. *)
Merge(current, loaded, new) ==
  [name |-> IF new.name = loaded.name THEN current.name ELSE new.name,
   cron |-> IF new.cron = loaded.cron THEN current.cron ELSE new.cron,
   dag  |-> IF new.dag  = loaded.dag  THEN current.dag  ELSE new.dag]

(* Mutant of Marked: a save does not mark. *)
MarkedNever(d) == d

(* mark_ds_needs_republish *)
Marked(d) == IF d.code = None THEN d ELSE [d EXCEPT !.stale = TRUE]

Busy == \E q \in Requests : req[q] # None

Start(q, r) ==
  /\ req[q] = None
  /\ started < MaxRequests
  /\ req' = [req EXCEPT ![q] = r]
  /\ started' = started + 1
  /\ calm' = (calm /\ ~Busy)

At(q, op, pc) == req[q] # None /\ req[q].op = op /\ req[q].pc = pc

Goto(q, pc) == req' = [req EXCEPT ![q].pc = pc]

Finish(q) == req' = [req EXCEPT ![q] = None]

(* A row that is written may give up the code it had. *)
Drop(w) == dropped' = dropped \cup ({row[w].dag.code} \ {row'[w].dag.code, None})

(* A deletion that ends here has removed the definition and keeps the row. *)
Lost(q) == {p \in Procs : At(q, "delete", "row") /\ req[q].code = p /\ proc[p] = Absent}

(* A call fails when Dolphin answers with an error or not at all, a commit when the
   row is gone or the database refuses: an instance inserted after the deletion has
   loaded those of its workflow still refers to the row. *)
Failed(q) ==
  /\ Finish(q)
  /\ lost' = lost \cup Lost(q)
  /\ calm' = FALSE
  /\ UNCHANGED <<row, proc, client, page, started, dropped>>

(* The process ends and starts again: its requests end where they are, and its
   client has the address of the environment. *)
Crash ==
  /\ Busy
  /\ req' = [q \in Requests |-> None]
  /\ client' \in Engines
  /\ lost' = lost \cup UNION {Lost(q) : q \in Requests}
  /\ calm' = FALSE
  /\ UNCHANGED <<row, proc, page, started, dropped>>

-----------------------------------------------------------------------------
(* The check before a publication *)

After(g, n) == {e[2] : e \in {d \in g.edges : d[1] = n}}

(* _dag_has_cycle: a depth-first search that meets a node it has not left yet.
   The colours go from one call to the next; a call returns when it finds one. *)
Search(g) ==
  LET dfs[u \in g.nodes, colour \in [g.nodes -> {"new", "open", "done"}]] ==
        LET Look(v, r) ==
              IF r.cycle \/ r.colour[v] = "done" THEN r
              ELSE IF r.colour[v] = "open" THEN [r EXCEPT !.cycle = TRUE]
              ELSE dfs[v, r.colour]
            below == FoldSet(Look, [cycle |-> FALSE, colour |-> [colour EXCEPT ![u] = "open"]],
                             After(g, u))
        IN IF below.cycle THEN below ELSE [below EXCEPT !.colour[u] = "done"]
  IN dfs

FromEach(g, starts) ==
  LET Visit(u, r) ==
        IF r.cycle \/ r.colour[u] # "new" THEN r ELSE Search(g)[u, r.colour]
  IN FoldSet(Visit, [cycle |-> FALSE, colour |-> [n \in g.nodes |-> "new"]], starts)

HasCycle(g) == FromEach(g, g.nodes).cycle

(* Mutant of Publishable: the edges are not searched for a cycle. *)
PublishableUnsearched(w, g) ==
  /\ g.nodes # {}
  /\ g.edges \subseteq g.nodes \X g.nodes
  /\ g.nodes \subseteq ScriptsOf[w]

(* validate_workflow_publishable; Crons holds valid expressions only. *)
Publishable(w, g) ==
  /\ g.nodes # {}
  /\ g.edges \subseteq g.nodes \X g.nodes
  /\ ~HasCycle(g)
  /\ g.nodes \subseteq ScriptsOf[w]

-----------------------------------------------------------------------------
(* Dolphin, as the client uses it *)

Release(p, online) ==
  proc' = [proc EXCEPT ![p].online = online,
                       ![p].live = @ /\ online]

(* A schedule can go online when its process definition is online. *)
CanSchedule(p) == client = p.engine /\ proc[p] # Absent /\ proc[p].online

SetSchedule(p, c) == proc' = [proc EXCEPT ![p].sched = c, ![p].live = TRUE]

-----------------------------------------------------------------------------
(* Create and save *)

CreateWorkflow(w, n, c, g) ==
  /\ row[w] = Absent
  /\ started < MaxRequests
  /\ row' = [row EXCEPT ![w] =
       [name |-> n, cron |-> c, dag |-> [graph |-> g, code |-> None, stale |-> FALSE]]]
  /\ started' = started + 1
  /\ UNCHANGED <<proc, client, req, page, calm, dropped, lost>>

OpenEditor(u, w) ==
  /\ Live(w)
  /\ page[u] = None
  /\ page' = [page EXCEPT ![u] = [wf |-> w, dag |-> row[w].dag]]
  /\ UNCHANGED <<row, proc, client, req, started, calm, dropped, lost>>

(* The page sends {...prevDag, ...fromEditor}: the codes it loaded, a new graph. *)
SaveLoad(u, q, n, c, g) ==
  /\ page[u] # None
  /\ LET w == page[u].wf IN
       /\ Live(w)
       /\ Start(q, [op |-> "save", pc |-> "commit", wf |-> w, loaded |-> row[w],
                    new |-> [name |-> n, cron |-> c,
                             dag |-> Marked([page[u].dag EXCEPT !.graph = g])],
                    project |-> None, code |-> None])
  /\ page' = [page EXCEPT ![u] = None]
  /\ UNCHANGED <<row, proc, client, dropped, lost>>

SaveCommit(q) ==
  /\ At(q, "save", "commit")
  /\ LET w == req[q].wf IN
       \/ /\ Live(w)
          /\ row' = [row EXCEPT ![w] = Merge(@, req[q].loaded, req[q].new)]
          /\ Drop(w)
          /\ Goto(q, "refresh")
          /\ UNCHANGED <<proc, client, page, started, calm, lost>>
       \/ Failed(q)

(* The row is read again; the cron is pushed when the workflow is published. *)
SaveRefresh(q) ==
  /\ At(q, "save", "refresh")
  /\ LET w == req[q].wf IN
       \/ /\ Live(w)
          /\ row[w].cron # None
          /\ row[w].dag.code # None
          /\ client' = EngineOf[w]
          /\ req' = [req EXCEPT ![q].pc = "push", ![q].new = row[w],
                                ![q].code = row[w].dag.code]
       \/ /\ Live(w) => row[w].cron = None \/ row[w].dag.code = None
          /\ client' = client
          /\ Finish(q)
  /\ UNCHANGED <<row, proc, page, started, calm, dropped, lost>>

(* A push that fails is logged and the save still succeeds. *)
SavePush(q) ==
  /\ At(q, "save", "push")
  /\ \/ /\ CanSchedule(req[q].code)
        /\ SetSchedule(req[q].code, req[q].new.cron)
        /\ Finish(q)
        /\ UNCHANGED <<row, client, page, started, calm, dropped, lost>>
     \/ Failed(q)

-----------------------------------------------------------------------------
(* Publish *)

(* Mutant of PublishLoad: the client is used as another request left it. *)
PublishLoadUnrefreshed(q, w) ==
  /\ Live(w)
  /\ Publishable(w, row[w].dag.graph)
  /\ Start(q, [op |-> "publish", pc |-> "project", wf |-> w, loaded |-> row[w],
               new |-> row[w], project |-> None, code |-> None])
  /\ UNCHANGED <<row, proc, client, page, dropped, lost>>

PublishLoad(q, w) ==
  /\ Live(w)
  /\ Publishable(w, row[w].dag.graph)
  /\ Start(q, [op |-> "publish", pc |-> "project", wf |-> w, loaded |-> row[w],
               new |-> row[w], project |-> None, code |-> None])
  /\ client' = EngineOf[w]
  /\ UNCHANGED <<row, proc, page, dropped, lost>>

(* get_or_create_project, asked of whatever engine the client points to by now *)
PublishProject(q) ==
  /\ At(q, "publish", "project")
  /\ req' = [req EXCEPT ![q].pc = "find", ![q].project = client]
  /\ UNCHANGED <<row, proc, client, page, started, calm, dropped, lost>>

(* sync_workflow asks for the project again and looks for the name in it. *)
SyncFind(q) ==
  /\ At(q, "publish", "find")
  /\ LET p == [engine |-> client, wf |-> req[q].wf, name |-> req[q].loaded.name] IN
       req' = [req EXCEPT ![q].code = p,
                          ![q].pc = IF proc[p] = Absent THEN "create" ELSE "offline"]
  /\ UNCHANGED <<row, proc, client, page, started, calm, dropped, lost>>

SyncCreate(q) ==
  /\ At(q, "publish", "create")
  /\ LET p == req[q].code IN
       /\ client = p.engine
       /\ proc[p] = Absent
       /\ proc' = [proc EXCEPT ![p] = [graph |-> req[q].loaded.dag.graph, online |-> FALSE,
                                       sched |-> None, live |-> FALSE]]
       /\ lost' = lost \ {p}
  /\ Goto(q, "online")
  /\ UNCHANGED <<row, client, page, started, calm, dropped>>

(* An error of the release to OFFLINE is ignored. *)
SyncOffline(q) ==
  /\ At(q, "publish", "offline")
  /\ LET p == req[q].code IN
       \/ /\ client = p.engine
          /\ proc[p] # Absent
          /\ Release(p, FALSE)
          /\ calm' = calm
       \/ /\ proc' = proc
          /\ calm' = FALSE
  /\ Goto(q, "put")
  /\ UNCHANGED <<row, client, page, started, dropped, lost>>

(* Dolphin refuses to change a definition that is online. *)
SyncPut(q) ==
  /\ At(q, "publish", "put")
  /\ LET p == req[q].code IN
       /\ client = p.engine
       /\ proc[p] # Absent
       /\ ~proc[p].online
       /\ proc' = [proc EXCEPT ![p].graph = req[q].loaded.dag.graph]
  /\ Goto(q, "online")
  /\ UNCHANGED <<row, client, page, started, calm, dropped, lost>>

PublishOnline(q) ==
  /\ At(q, "publish", "online")
  /\ LET p == req[q].code IN
       /\ client = p.engine
       /\ req[q].project = p.engine
       /\ proc[p] # Absent
       /\ Release(p, TRUE)
  /\ Goto(q, IF req[q].loaded.cron = None THEN "commit" ELSE "schedule")
  /\ UNCHANGED <<row, client, page, started, calm, dropped, lost>>

PublishSchedule(q) ==
  /\ At(q, "publish", "schedule")
  /\ CanSchedule(req[q].code)
  /\ SetSchedule(req[q].code, req[q].loaded.cron)
  /\ Goto(q, "commit")
  /\ UNCHANGED <<row, client, page, started, calm, dropped, lost>>

(* Any call may fail, and a node that was degraded from SQL to SHELL counts as a
   failure after the definition is written; what Dolphin has done stays done. *)
PublishFails(q) ==
  /\ \E pc \in {"project", "find", "create", "put", "online", "schedule"} : At(q, "publish", pc)
  /\ Failed(q)

(* An error of the look-up counts as "not found". *)
SyncFindFails(q) ==
  /\ At(q, "publish", "find")
  /\ req' = [req EXCEPT ![q].pc = "create",
       ![q].code = [engine |-> client, wf |-> req[q].wf, name |-> req[q].loaded.name]]
  /\ calm' = FALSE
  /\ UNCHANGED <<row, proc, client, page, started, dropped, lost>>

(* Codes are stored and needs_republish is cleared in the loaded dag_config. *)
PublishCommit(q) ==
  /\ At(q, "publish", "commit")
  /\ LET w == req[q].wf
         l == req[q].loaded
     IN \/ /\ Live(w)
           /\ row' = [row EXCEPT ![w] =
                Merge(@, l, [l EXCEPT !.dag.code = req[q].code, !.dag.stale = FALSE])]
           /\ Drop(w)
           /\ Finish(q)
           /\ UNCHANGED <<proc, client, page, started, calm, lost>>
        \/ Failed(q)

-----------------------------------------------------------------------------
(* Delete *)

DeleteLoad(q, w) ==
  /\ Live(w)
  /\ LET p == row[w].dag.code IN
       /\ Start(q, [op |-> "delete", pc |-> IF p = None THEN "row" ELSE "engine",
                    wf |-> w, loaded |-> row[w], new |-> row[w],
                    project |-> None, code |-> p])
       /\ client' = IF p = None THEN client ELSE EngineOf[w]
  /\ UNCHANGED <<row, proc, page, dropped, lost>>

(* Mutant of DeleteEngine: the row is forgotten. *)
DeleteEngineOnly(q) ==
  /\ At(q, "delete", "engine")
  /\ client = req[q].code.engine
  /\ proc' = [proc EXCEPT ![req[q].code] = Absent]
  /\ Finish(q)
  /\ UNCHANGED <<row, client, page, started, calm, dropped, lost>>

(* Mutant of DeleteEngine: the definition is taken offline and kept. *)
DeleteEngineOffline(q) ==
  /\ At(q, "delete", "engine")
  /\ LET p == req[q].code IN
       \/ /\ client = p.engine
          /\ proc[p] # Absent
          /\ Release(p, FALSE)
          /\ calm' = calm
       \/ /\ proc' = proc
          /\ calm' = FALSE
  /\ Goto(q, "row")
  /\ UNCHANGED <<row, client, page, started, dropped, lost>>

(* delete_process_definition; the row is deleted whether it succeeds or not. *)
DeleteEngine(q) ==
  /\ At(q, "delete", "engine")
  /\ LET p == req[q].code IN
       \/ /\ client = p.engine
          /\ proc[p] # Absent
          /\ proc' = [proc EXCEPT ![p] = Absent]
          /\ calm' = calm
       \/ /\ proc' = proc
          /\ calm' = FALSE
  /\ Goto(q, "row")
  /\ UNCHANGED <<row, client, page, started, dropped, lost>>

DeleteRow(q) ==
  /\ At(q, "delete", "row")
  /\ LET w == req[q].wf IN
       \/ /\ Live(w)
          /\ row' = [row EXCEPT ![w] = Deleted]
          /\ Finish(q)
          /\ UNCHANGED <<proc, client, page, started, calm, dropped, lost>>
       \/ Failed(q)

-----------------------------------------------------------------------------
(* Refreshes by the instance sync, the data sources and the settings pages *)

OtherRefresh(e) ==
  /\ client # e
  /\ client' = e
  /\ calm' = (calm /\ ~Busy)
  /\ UNCHANGED <<row, proc, req, page, started, dropped, lost>>

-----------------------------------------------------------------------------

Init ==
  /\ row = [w \in Workflows |-> Absent]
  /\ proc = [p \in Procs |-> Absent]
  /\ client \in Engines
  /\ req = [q \in Requests |-> None]
  /\ page = [u \in Pages |-> None]
  /\ started = 0
  /\ dropped = {}
  /\ lost = {}
  /\ calm = TRUE

Editing ==
  \/ \E w \in Workflows, n \in Names, c \in Crons \cup {None}, g \in Graphs :
       CreateWorkflow(w, n, c, g)
  \/ \E u \in Pages, w \in Workflows : OpenEditor(u, w)
  \/ \E u \in Pages, q \in Requests, n \in Names, c \in Crons \cup {None}, g \in Graphs :
       SaveLoad(u, q, n, c, g)
  \/ \E q \in Requests : SaveCommit(q) \/ SaveRefresh(q) \/ SavePush(q)

Publishing ==
  \/ \E q \in Requests, w \in Workflows : PublishLoad(q, w)
  \/ \E q \in Requests :
       \/ PublishProject(q) \/ SyncFind(q) \/ SyncFindFails(q) \/ SyncCreate(q)
       \/ SyncOffline(q) \/ SyncPut(q)
       \/ PublishOnline(q) \/ PublishSchedule(q) \/ PublishCommit(q) \/ PublishFails(q)

Deleting ==
  \/ \E q \in Requests, w \in Workflows : DeleteLoad(q, w)
  \/ \E q \in Requests : DeleteEngine(q) \/ DeleteRow(q)

Next ==
  \/ Editing \/ Publishing \/ Deleting \/ Crash
  \/ \E e \in Engines : OtherRefresh(e)

Spec == Init /\ [][Next]_vars

-----------------------------------------------------------------------------
(* Properties *)

(* Every variable has its type. *)
TypeOK ==
  /\ row \in [Workflows -> Rows \cup {Absent, Deleted}]
  /\ proc \in [Procs -> Definitions \cup {Absent}]
  /\ client \in Engines
  /\ req \in [Requests -> Threads \cup {None}]
  /\ page \in [Pages -> [wf : Workflows, dag : Dags] \cup {None}]
  /\ started \in 0 .. MaxRequests
  /\ dropped \subseteq Procs
  /\ lost \subseteq Procs
  /\ calm \in BOOLEAN

(* What the code names is what the row describes. *)
Aligned(w) ==
  LET p == proc[row[w].dag.code] IN
    /\ p # Absent
    /\ p.online
    /\ p.graph = row[w].dag.graph
    /\ p.live = (row[w].cron # None)
    /\ p.live => p.sched = row[w].cron

(* While requests do not overlap and nothing fails: a published workflow that
   is not shown as "to be published again" (needs_ds_republish) runs in Dolphin
   with the graph and the cron of its row. *)
FlagIsHonest ==
  calm => \A w \in Workflows :
    Live(w) /\ (\A q \in Requests : req[q] # None => req[q].wf # w)
            /\ row[w].dag.code # None /\ ~row[w].dag.stale
      => Aligned(w)

(* While requests do not overlap: every definition is in the engine that the
   settings of its workspace name, although all requests share one client. *)
OwnEngine == calm => \A p \in Procs : proc[p] # Absent => p.engine = EngineOf[p.wf]

(* Whatever overlaps and fails, and whenever the process dies: a code stored in a row
   names a definition that exists, unless the deletion that has removed it is about
   to delete the row, or ended there: its commit failed or the process died.  The
   exception ends with the publication that makes the definition again. *)
CodeNamesProcess ==
  \A w \in Workflows : Live(w) =>
    LET p == row[w].dag.code IN
      p # None /\ proc[p] = Absent =>
        p \in lost \/ \E q \in Requests : At(q, "delete", "row") /\ req[q].code = p

(* The nodes can be run one after the other, each after those it depends on. *)
Ordered(g) ==
  \E place \in [g.nodes -> 1 .. Cardinality(g.nodes)] :
    \A e \in g.edges : e \in g.nodes \X g.nodes /\ place[e[1]] < place[e[2]]

(* Reference definition of the search, on graphs whose edges join their nodes. *)
SearchFindsCycles(graphs) ==
  \A g \in graphs : g.edges \subseteq g.nodes \X g.nodes => (HasCycle(g) <=> ~Ordered(g))

(* Whatever overlaps and fails: each definition in Dolphin, online or not, has at
   least one node and an order in which its nodes can run, and runs scripts of its
   own workspace only - although drafts are saved with any graph. *)
DefinitionsCanRun ==
  \A p \in Procs : proc[p] # Absent =>
    LET g == proc[p].graph
    IN g.nodes # {} /\ g.nodes \subseteq ScriptsOf[p.wf] /\ Ordered(g)

(* While requests do not overlap and nothing fails: a definition that no row
   names - of a live workflow or of a deleted one, whose deletion takes the
   definition with it (TROUBLESHOOTING_SOP 5.1) - is one whose code the row has
   given up, in the save of an editor that was opened before the publication, or in
   a publication under another display name. *)
OrphansAreExplained ==
  calm => \A p \in Procs :
    proc[p] # Absent /\ row[p.wf] # Absent
      /\ (\A q \in Requests : req[q] # None => req[q].wf # p.wf)
      /\ (Live(p.wf) => row[p.wf].dag.code # p)
    => p \in dropped
=============================================================================
