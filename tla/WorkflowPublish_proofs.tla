------------------------ MODULE WorkflowPublish_proofs ------------------------
(***************************************************************************)
(* Proofs about WorkflowPublish, for any workflows, engines, graphs, pages *)
(* and requests, which may overlap and fail at any call.                   *)
(***************************************************************************)
EXTENDS WorkflowPublish, TLAPS

\* The workflow of p is deleted, or p is and its row comes next, or was to.
Gone(p) ==
  \/ row[p.wf] = Deleted \/ p \in lost
  \/ \E q \in Requests : At(q, "delete", "row") /\ req[q].code = p

\* What workflow w may store as its code.
Good(w, p) == p # None => p.wf = w /\ (proc[p] # Absent \/ Gone(p))

\* A publication writes a graph that has passed the check; whoever uses a code
\* has one, of his own workflow.
Shape(r) ==
  /\ r.op = "publish" => Publishable(r.wf, r.loaded.dag.graph)
  /\ \/ r.op = "publish" /\ r.pc \notin {"project", "find"}
     \/ r.op = "delete" /\ r.pc = "engine"
     \/ r.op = "save" /\ r.pc = "push"
     => r.code # None /\ r.code.wf = r.wf
  /\ r.op = "delete" /\ r.code # None => r.code.wf = r.wf

\* The codes that a request may write into its row.
Sound(r) ==
  /\ row[r.wf] # Absent
  /\ Good(r.wf, r.loaded.dag.code) /\ Good(r.wf, r.new.dag.code)
  /\ r.op = "publish" /\ r.pc \in {"schedule", "commit"} => Good(r.wf, r.code)

Loaded(u) == row[page[u].wf] # Absent /\ Good(page[u].wf, page[u].dag.code)

Inv ==
  /\ TypeOK
  /\ \A w \in Workflows : Live(w) => Good(w, row[w].dag.code)
  /\ \A u \in Pages : page[u] # None => Loaded(u)
  /\ \A q \in Requests : req[q] # None => Shape(req[q]) /\ Sound(req[q])
  /\ \A p \in Procs : proc[p] # Absent => Publishable(p.wf, proc[p].graph)

-----------------------------------------------------------------------------
\* A step keeps the invariant when rows and definitions go only as they do in a
\* deletion, and what is new in it is sound.
LEMMA Frame ==
  ASSUME Inv, TypeOK',
         \A p \in Procs : Gone(p) => Gone(p)' \/ proc'[p] # Absent,
         \A w \in Workflows : row[w] # Absent => row'[w] # Absent,
         \A p \in Procs : proc[p] # Absent /\ proc'[p] = Absent => Gone(p)',
         \A p \in Procs : proc'[p] # Absent => Publishable(p.wf, proc'[p].graph),
         \A w \in Workflows : Live(w)' =>
           row'[w] = row[w] \/ Good(w, row'[w].dag.code),
         \A u \in Pages : page'[u] # None =>
           page'[u] = page[u] \/ (row[page'[u].wf] # Absent /\ Good(page'[u].wf, page'[u].dag.code)),
         \A q \in Requests : req'[q] # None => req'[q] = req[q] \/ (Shape(req'[q]) /\ Sound(req'[q]))
  PROVE  Inv'
<1> USE DEF Procs
<1>1. ASSUME NEW w \in Workflows, NEW p \in Procs \cup {None}, Good(w, p) PROVE Good(w, p)'
  <2>1. CASE p = None
    BY <2>1 DEF Good
  <2>2. CASE p # None
    <3>1. p \in Procs /\ p.wf = w /\ (proc[p] # Absent \/ Gone(p))
      BY <1>1, <2>2 DEF Good
    <3>2. proc'[p] # Absent \/ Gone(p)'
      BY <3>1
    <3> QED
      BY <3>1, <3>2 DEF Good
  <2> QED
    BY <2>1, <2>2
<1>2. ASSUME NEW w \in Workflows, Live(w)' PROVE Good(w, row[w].dag.code)'
  <2>1. row'[w] \in Rows
    BY <1>2 DEF TypeOK, Live
  <2>2. row'[w].dag.code \in Procs \cup {None}
    BY <2>1 DEF Rows, Dags
  <2>3. Good(w, row'[w].dag.code)
    <3>1. CASE row'[w] = row[w]
      <4>1. Live(w)
        BY <1>2, <3>1 DEF Live
      <4> QED
        BY <3>1, <4>1 DEF Inv, Good
    <3> QED
      BY <1>2, <3>1
  <2>4. PICK p \in Procs \cup {None} : p = row'[w].dag.code
    BY <2>2
  <2>5. Good(w, p)'
    BY <1>1, <2>3, <2>4
  <2> QED
    BY <2>4, <2>5 DEF Good
<1>3. ASSUME NEW u \in Pages, page'[u] # None PROVE Loaded(u)'
  <2>1. page'[u].wf \in Workflows /\ page'[u].dag.code \in Procs \cup {None}
    BY <1>3 DEF TypeOK, Dags
  <2>2. row[page'[u].wf] # Absent /\ Good(page'[u].wf, page'[u].dag.code)
    BY <1>3 DEF Inv, Loaded
  <2>3. PICK w \in Workflows, p \in Procs \cup {None} : w = page'[u].wf /\ p = page'[u].dag.code
    BY <2>1
  <2>4. Good(w, p)'
    BY <1>1, <2>2, <2>3
  <2> QED
    BY <2>2, <2>3, <2>4 DEF Loaded, Good
<1>4. ASSUME NEW q \in Requests, req'[q] # None PROVE (Shape(req[q]) /\ Sound(req[q]))'
  <2>1. Shape(req'[q]) /\ Sound(req'[q])
    BY <1>4 DEF Inv
  <2>2. req'[q] \in Threads
    BY <1>4 DEF TypeOK
  <2>3. /\ req'[q].wf \in Workflows /\ req'[q].loaded \in Rows /\ req'[q].new \in Rows
        /\ req'[q].code \in Procs \cup {None}
    BY <2>2 DEF Threads
  <2>4. /\ req'[q].loaded.dag.code \in Procs \cup {None}
        /\ req'[q].new.dag.code \in Procs \cup {None}
    BY <2>3 DEF Rows, Dags
  <2>5. PICK w \in Workflows, a \in Procs \cup {None}, b \in Procs \cup {None}, p \in Procs \cup {None} :
          /\ w = req'[q].wf /\ a = req'[q].loaded.dag.code /\ b = req'[q].new.dag.code
          /\ p = req'[q].code
    BY <2>3, <2>4
  <2>6. /\ row'[w] # Absent /\ Good(w, a)' /\ Good(w, b)'
        /\ req'[q].op = "publish" /\ req'[q].pc \in {"schedule", "commit"} => Good(w, p)'
    BY <1>1, <2>1, <2>5 DEF Sound
  <2>7. Sound(req[q])'
    BY <2>5, <2>6 DEF Sound, Good
  <2> QED
    BY <2>1, <2>7 DEF Shape, Publishable
<1> QED
  BY <1>2, <1>3, <1>4 DEF Inv, Publishable

\* Dolphin's definitions are written with graphs that have passed the check; what a
\* deletion has lost is forgotten when it is there again.
Written ==
  /\ lost' \subseteq Procs
  /\ \A p \in lost : p \in lost' \/ proc'[p] # Absent
  /\ proc' \in [Procs -> Definitions \cup {Absent}]
  /\ \A p \in Procs : proc[p] # Absent => proc'[p] # Absent
  /\ \A p \in Procs : proc'[p] # Absent => Publishable(p.wf, proc'[p].graph)

LEMMA Unwritten ==
  ASSUME Inv, UNCHANGED proc, lost' = lost \/ (lost' \subseteq Procs /\ lost \subseteq lost')
  PROVE  Written
BY DEF Inv, TypeOK, Written

LEMMA OneWritten ==
  ASSUME Inv, NEW p \in Procs, NEW d \in Definitions, Publishable(p.wf, d.graph),
         proc' = [proc EXCEPT ![p] = d], lost' \in {lost, lost \ {p}}
  PROVE  Written
<1>1. lost \subseteq Procs /\ proc' \in [Procs -> Definitions \cup {Absent}]
  BY DEF Inv, TypeOK
<1>2. proc'[p] = d /\ d # Absent /\ \A o \in Procs : o # p => proc'[o] = proc[o]
  BY MarksAssumption DEF Inv, TypeOK
<1> QED
  BY <1>1, <1>2 DEF Written, Inv

\* A step of one request that changes no row and no page.
LEMMA Moves ==
  ASSUME Inv, NEW q \in Requests, req[q] # None, ~At(q, "delete", "row"),
         NEW r \in Threads \cup {None}, req' = [req EXCEPT ![q] = r],
         UNCHANGED <<row, page, started, dropped>>, client' \in Engines, calm' \in BOOLEAN,
         proc' \in [Procs -> Definitions \cup {Absent}],
         lost' \subseteq Procs, \A p \in lost : p \in lost' \/ proc'[p] # Absent,
         \A p \in Procs : proc[p] # Absent /\ proc'[p] = Absent =>
           r # None /\ r.op = "delete" /\ r.pc = "row" /\ r.code = p,
         \A p \in Procs : proc'[p] # Absent => Publishable(p.wf, proc'[p].graph),
         r # None => Shape(r) /\ Sound(r)
  PROVE  Inv'
<1>1. TypeOK'
  BY DEF Inv, TypeOK
<1>2. req'[q] = r /\ \A d \in Requests : d # q => req'[d] = req[d]
  BY DEF Inv, TypeOK
<1>3. ASSUME NEW p \in Procs, Gone(p) PROVE Gone(p)' \/ proc'[p] # Absent
  <2>1. CASE row[p.wf] = Deleted \/ p \in lost
    BY <2>1 DEF Gone
  <2>2. ASSUME NEW d \in Requests, At(d, "delete", "row"), req[d].code = p PROVE Gone(p)'
    <3>1. d # q
      BY <2>2
    <3>2. At(d, "delete", "row")' /\ req'[d].code = p
      BY <1>2, <2>2, <3>1 DEF At
    <3> QED
      BY <3>2 DEF Gone
  <2> QED
    BY <1>3, <2>1, <2>2 DEF Gone
<1>4. ASSUME NEW p \in Procs, proc[p] # Absent, proc'[p] = Absent PROVE Gone(p)'
  <2>1. At(q, "delete", "row")' /\ req'[q].code = p
    BY <1>2, <1>4 DEF At
  <2> QED
    BY <2>1 DEF Gone
<1>5. \A d \in Requests : req'[d] # None => req'[d] = req[d] \/ (Shape(req'[d]) /\ Sound(req'[d]))
  BY <1>2
<1>6. /\ \A w \in Workflows : row[w] # Absent => row'[w] # Absent
      /\ \A w \in Workflows : Live(w)' => row'[w] = row[w] \/ Good(w, row'[w].dag.code)
      /\ \A u \in Pages : page'[u] # None =>
           page'[u] = page[u] \/ (row[page'[u].wf] # Absent /\ Good(page'[u].wf, page'[u].dag.code))
  OBVIOUS
<1>7. /\ \A p \in Procs : Gone(p) => Gone(p)' \/ proc'[p] # Absent
      /\ \A p \in Procs : proc[p] # Absent /\ proc'[p] = Absent => Gone(p)'
  BY <1>3, <1>4
<1>8. \A p \in Procs : proc'[p] # Absent => Publishable(p.wf, proc'[p].graph)
  OBVIOUS
<1> QED
  BY <1>1, <1>5, <1>6, <1>7, <1>8, Frame

\* A request ends.
LEMMA Ends ==
  ASSUME Inv, NEW q \in Requests, req[q] # None, ~At(q, "delete", "row"), Finish(q), Written,
         UNCHANGED <<row, page, started, dropped, client>>, calm' \in BOOLEAN
  PROVE  Inv'
<1>1. client' \in Engines
  BY DEF Inv, TypeOK
<1> QED
  BY <1>1, Moves DEF Finish, Written

\* A publication that has a definition goes on.
LEMMA GoesOn ==
  ASSUME Inv, NEW q \in Requests, req[q] # None, req[q].op = "publish",
         req[q].pc \in {"create", "offline", "put", "online", "schedule"},
         NEW pc \in {"put", "online", "schedule", "commit"}, Goto(q, pc), Written,
         pc \in {"schedule", "commit"} => proc[req[q].code] # Absent,
         UNCHANGED <<row, page, started, dropped, client>>, calm' \in BOOLEAN
  PROVE  Inv'
<1>1. req[q] \in Threads /\ Shape(req[q]) /\ Sound(req[q]) /\ client' \in Engines
  BY DEF Inv, TypeOK
<1>2. PICK r : r = [req[q] EXCEPT !.pc = pc]
  OBVIOUS
<1>3. req' = [req EXCEPT ![q] = r]
  BY <1>2 DEF Goto
<1>4. /\ r.op = "publish" /\ r.pc = pc /\ r.wf = req[q].wf /\ r.loaded = req[q].loaded
      /\ r.new = req[q].new /\ r.code = req[q].code
  BY <1>1, <1>2 DEF Threads
<1>5. r \in Threads
  <2> HIDE DEF Rows, Procs
  <2> QED
    BY <1>1, <1>2 DEF Threads
<1>6. Shape(r)
  BY <1>1, <1>4 DEF Shape
<1>7. pc \in {"schedule", "commit"} => Good(req[q].wf, req[q].code)
  BY <1>1 DEF Shape, Good
<1>8. Sound(r)
  BY <1>1, <1>4, <1>7 DEF Sound
<1>9. ~At(q, "delete", "row")
  BY DEF At
<1> QED
  BY <1>1, <1>3, <1>5, <1>6, <1>8, <1>9, Moves DEF Written

-----------------------------------------------------------------------------
(* Publications *)

LEMMA PublishProjectInv == ASSUME Inv, NEW q \in Requests, PublishProject(q) PROVE Inv'
<1>1. /\ req[q] \in Threads /\ req[q] # None /\ Shape(req[q]) /\ Sound(req[q])
      /\ req[q].op = "publish" /\ req[q].pc = "project" /\ client \in Engines
  BY DEF Inv, TypeOK, PublishProject, At
<1>2. PICK r : r = [req[q] EXCEPT !.pc = "find", !.project = client]
  OBVIOUS
<1>3. req' = [req EXCEPT ![q] = r] /\ UNCHANGED <<row, proc, client, page, started, calm, dropped, lost>>
  BY <1>1, <1>2 DEF PublishProject, Inv, TypeOK
<1>4. /\ r.op = "publish" /\ r.pc = "find" /\ r.wf = req[q].wf /\ r.loaded = req[q].loaded
      /\ r.new = req[q].new
  BY <1>1, <1>2 DEF Threads
<1>5. r \in Threads
  BY <1>1, <1>2 DEF Threads
<1>6. Shape(r) /\ Sound(r)
  BY <1>1, <1>4 DEF Shape, Sound
<1>7. ~At(q, "delete", "row") /\ client' \in Engines /\ calm' \in BOOLEAN
  BY <1>1, <1>3 DEF At, Inv, TypeOK
<1>8. Written
  BY <1>3, Unwritten
<1> QED
  BY <1>1, <1>3, <1>5, <1>6, <1>7, <1>8, Moves DEF Written

LEMMA SyncFindInv == ASSUME Inv, NEW q \in Requests, SyncFind(q) \/ SyncFindFails(q) PROVE Inv'
<1>1. /\ req[q] \in Threads /\ req[q] # None /\ Shape(req[q]) /\ Sound(req[q])
      /\ req[q].op = "publish" /\ req[q].pc = "find" /\ client \in Engines
  BY DEF Inv, TypeOK, SyncFind, SyncFindFails, At
<1>2. PICK p : p = [engine |-> client, wf |-> req[q].wf, name |-> req[q].loaded.name]
  OBVIOUS
<1>3. p \in Procs /\ p # None /\ p.wf = req[q].wf
  BY <1>1, <1>2, MarksAssumption DEF Procs, Threads, Rows
<1>4. PICK pc \in {"create", "offline"} : req' = [req EXCEPT ![q].pc = pc, ![q].code = p]
  <2>1. CASE SyncFind(q)
    BY <1>1, <1>2, <2>1 DEF SyncFind, Inv, TypeOK
  <2>2. CASE SyncFindFails(q)
    BY <1>2, <2>2 DEF SyncFindFails
  <2> QED
    BY <2>1, <2>2
<1>5. PICK r : r = [req[q] EXCEPT !.pc = pc, !.code = p]
  OBVIOUS
<1>6. req' = [req EXCEPT ![q] = r]
  BY <1>1, <1>4, <1>5 DEF Inv, TypeOK
<1>7. /\ r.op = "publish" /\ r.pc = pc /\ r.wf = req[q].wf /\ r.loaded = req[q].loaded
      /\ r.new = req[q].new /\ r.code = p
  BY <1>1, <1>5 DEF Threads
<1>8. r \in Threads
  <2> HIDE DEF Rows, Procs
  <2> QED
    BY <1>1, <1>3, <1>5 DEF Threads
<1>9. Shape(r) /\ Sound(r)
  BY <1>1, <1>3, <1>7 DEF Shape, Sound
<1>10. /\ UNCHANGED <<row, proc, client, page, started, dropped, lost>>
       /\ ~At(q, "delete", "row") /\ client' \in Engines /\ calm' \in BOOLEAN
  BY <1>1 DEF At, Inv, TypeOK, SyncFind, SyncFindFails
<1>11. Written
  BY <1>10, Unwritten
<1> QED
  BY <1>1, <1>6, <1>8, <1>9, <1>10, <1>11, Moves DEF Written

LEMMA SyncInv ==
  ASSUME Inv, NEW q \in Requests,
         \/ SyncCreate(q) \/ SyncOffline(q) \/ SyncPut(q) \/ PublishOnline(q) \/ PublishSchedule(q)
  PROVE  Inv'
<1>1. /\ req[q] \in Threads /\ req[q] # None /\ Shape(req[q])
      /\ req[q].op = "publish" /\ req[q].pc \in {"create", "offline", "put", "online", "schedule"}
      /\ UNCHANGED <<row, page, started, dropped, client>> /\ calm' \in BOOLEAN
  BY DEF Inv, TypeOK, At, SyncCreate, SyncOffline, SyncPut, PublishOnline, PublishSchedule
<1>2. PICK p : p = req[q].code
  OBVIOUS
<1>3. /\ p \in Procs /\ p.wf = req[q].wf
      /\ Publishable(p.wf, req[q].loaded.dag.graph) /\ req[q].loaded.dag.graph \in Graphs
      /\ req[q].loaded.cron \in Crons \cup {None}
  BY <1>1, <1>2 DEF Shape, Threads, Rows, Dags
<1>4. proc[p] # Absent => proc[p] \in Definitions /\ Publishable(p.wf, proc[p].graph)
  BY <1>3 DEF Inv, TypeOK
<1>5. CASE SyncCreate(q)
  <2>1. PICK d : d = [graph |-> req[q].loaded.dag.graph, online |-> FALSE, sched |-> None, live |-> FALSE]
    OBVIOUS
  <2>2. d \in Definitions /\ d.graph = req[q].loaded.dag.graph
    BY <1>3, <2>1 DEF Definitions
  <2>3. Written
    BY <1>2, <1>3, <1>5, <2>1, <2>2, OneWritten DEF SyncCreate
  <2> QED
    BY <1>1, <1>5, <2>3, GoesOn DEF SyncCreate
<1>6. CASE SyncOffline(q)
  <2>1. CASE proc[p] # Absent /\ Release(p, FALSE)
    <3>1. PICK d : d = [proc[p] EXCEPT !.online = FALSE, !.live = @ /\ FALSE]
      OBVIOUS
    <3>2. d \in Definitions /\ d.graph = proc[p].graph
      BY <1>4, <2>1, <3>1 DEF Definitions
    <3>3. proc' = [proc EXCEPT ![p] = d]
      BY <1>3, <2>1, <3>1 DEF Release, Inv, TypeOK
    <3> QED
      BY <1>1, <1>3, <1>4, <1>6, <2>1, <3>2, <3>3, OneWritten, GoesOn DEF SyncOffline
  <2>2. CASE proc' = proc
    BY <1>1, <1>6, <2>2, Unwritten, GoesOn DEF SyncOffline
  <2> QED
    BY <1>2, <1>6, <2>1, <2>2 DEF SyncOffline
<1>7. CASE SyncPut(q)
  <2>1. PICK d : d = [proc[p] EXCEPT !.graph = req[q].loaded.dag.graph]
    OBVIOUS
  <2>2. proc[p] # Absent /\ proc' = [proc EXCEPT ![p] = d]
    BY <1>2, <1>3, <1>7, <2>1 DEF SyncPut, Inv, TypeOK
  <2>3. d \in Definitions /\ d.graph = req[q].loaded.dag.graph
    BY <1>3, <1>4, <2>1, <2>2 DEF Definitions
  <2> QED
    BY <1>1, <1>3, <1>7, <2>2, <2>3, OneWritten, GoesOn DEF SyncPut
<1>8. CASE PublishOnline(q)
  <2>1. PICK d : d = [proc[p] EXCEPT !.online = TRUE, !.live = @ /\ TRUE]
    OBVIOUS
  <2>2. proc[p] # Absent /\ proc' = [proc EXCEPT ![p] = d]
    BY <1>2, <1>3, <1>8, <2>1 DEF PublishOnline, Release, Inv, TypeOK
  <2>3. d \in Definitions /\ d.graph = proc[p].graph
    BY <1>4, <2>1, <2>2 DEF Definitions
  <2>4. PICK pc \in {"commit", "schedule"} : Goto(q, pc)
    BY <1>8 DEF PublishOnline
  <2>5. Written
    BY <1>3, <1>4, <1>8, <2>2, <2>3, OneWritten DEF PublishOnline
  <2> QED
    BY <1>1, <1>2, <2>2, <2>4, <2>5, GoesOn
<1>9. CASE PublishSchedule(q)
  <2>1. PICK d : d = [proc[p] EXCEPT !.sched = req[q].loaded.cron, !.live = TRUE]
    OBVIOUS
  <2>2. proc[p] # Absent /\ proc' = [proc EXCEPT ![p] = d]
    BY <1>2, <1>3, <1>9, <2>1 DEF PublishSchedule, CanSchedule, SetSchedule, Inv, TypeOK
  <2>3. d \in Definitions /\ d.graph = proc[p].graph
    BY <1>3, <1>4, <2>1, <2>2 DEF Definitions
  <2>4. Written
    BY <1>3, <1>4, <1>9, <2>2, <2>3, OneWritten DEF PublishSchedule
  <2> QED
    BY <1>1, <1>2, <1>9, <2>2, <2>4, GoesOn DEF PublishSchedule
<1> QED
  BY <1>5, <1>6, <1>7, <1>8, <1>9

\* A failure forgets no loss.
LEMMA FailedLoses ==
  ASSUME Inv, NEW q \in Requests, Failed(q)
  PROVE  lost' \subseteq Procs /\ lost \subseteq lost'
BY DEF Failed, Lost, Inv, TypeOK

LEMMA PublishFailsInv == ASSUME Inv, NEW q \in Requests, PublishFails(q) PROVE Inv'
<1>1. /\ req[q] # None /\ ~At(q, "delete", "row") /\ Finish(q)
      /\ UNCHANGED <<row, proc, page, started, dropped, client>> /\ calm' \in BOOLEAN
      /\ lost' \subseteq Procs /\ lost \subseteq lost'
  BY FailedLoses DEF PublishFails, Failed, At
<1> QED
  BY <1>1, Unwritten, Ends

-----------------------------------------------------------------------------
(* Beginnings *)

\* A request starts, from a page that is left or from none.
LEMMA Starts ==
  ASSUME Inv, NEW q \in Requests, req[q] = None, NEW r \in Threads, req' = [req EXCEPT ![q] = r],
         UNCHANGED <<row, proc, dropped, lost>>, client' \in Engines, started' \in 0 .. MaxRequests,
         calm' \in BOOLEAN, page' \in [Pages -> [wf : Workflows, dag : Dags] \cup {None}],
         \A u \in Pages : page'[u] # None => page'[u] = page[u], Shape(r), Sound(r)
  PROVE  Inv'
<1>1. TypeOK'
  BY DEF Inv, TypeOK
<1>2. req'[q] = r /\ \A d \in Requests : d # q => req'[d] = req[d]
  BY DEF Inv, TypeOK
<1>3. ASSUME NEW p \in Procs, Gone(p) PROVE Gone(p)' \/ proc'[p] # Absent
  <2>1. CASE row[p.wf] = Deleted \/ p \in lost
    BY <2>1 DEF Gone
  <2>2. ASSUME NEW d \in Requests, At(d, "delete", "row"), req[d].code = p PROVE Gone(p)'
    <3>1. d # q
      BY <2>2 DEF At
    <3>2. At(d, "delete", "row")' /\ req'[d].code = p
      BY <1>2, <2>2, <3>1 DEF At
    <3> QED
      BY <3>2 DEF Gone
  <2> QED
    BY <1>3, <2>1, <2>2 DEF Gone
<1>4. \A d \in Requests : req'[d] # None => req'[d] = req[d] \/ (Shape(req'[d]) /\ Sound(req'[d]))
  BY <1>2
<1>5. /\ \A w \in Workflows : row[w] # Absent => row'[w] # Absent
      /\ \A w \in Workflows : Live(w)' => row'[w] = row[w] \/ Good(w, row'[w].dag.code)
      /\ \A u \in Pages : page'[u] # None =>
           page'[u] = page[u] \/ (row[page'[u].wf] # Absent /\ Good(page'[u].wf, page'[u].dag.code))
      /\ \A p \in Procs : proc[p] # Absent /\ proc'[p] = Absent => Gone(p)'
  OBVIOUS
<1>6. \A p \in Procs : proc'[p] # Absent => Publishable(p.wf, proc'[p].graph)
  BY DEF Inv
<1>7. \A p \in Procs : Gone(p) => Gone(p)' \/ proc'[p] # Absent
  BY <1>3
<1> QED
  BY <1>1, <1>4, <1>5, <1>6, <1>7, Frame

\* A row that is there names what it may name.
LEMMA RowIsGood ==
  ASSUME Inv, NEW w \in Workflows, Live(w)
  PROVE  /\ row[w] \in Rows /\ row[w] # Absent
         /\ row[w].dag \in Dags /\ row[w].dag.code \in Procs \cup {None}
         /\ Good(w, row[w].dag.code)
<1>1. row[w] \in Rows
  BY DEF Inv, TypeOK, Live
<1>2. row[w].dag \in Dags
  BY <1>1 DEF Rows
<1> QED
  BY <1>1, <1>2 DEF Live, Inv, Dags

LEMMA SaveLoadInv ==
  ASSUME Inv, NEW u \in Pages, NEW q \in Requests, NEW n \in Names, NEW c \in Crons \cup {None},
         NEW g \in Graphs, SaveLoad(u, q, n, c, g)
  PROVE  Inv'
<1>1. PICK w : w = page[u].wf
  OBVIOUS
<1>2. /\ page[u] # None /\ w \in Workflows /\ page[u].dag \in Dags /\ Loaded(u) /\ Live(w)
  BY <1>1 DEF SaveLoad, Inv, TypeOK
<1>3. PICK dag : dag = Marked([page[u].dag EXCEPT !.graph = g])
  OBVIOUS
<1>4. dag \in Dags /\ dag.code = page[u].dag.code
  BY <1>2, <1>3 DEF Marked, Dags
<1>5. PICK new : new = [name |-> n, cron |-> c, dag |-> dag]
  OBVIOUS
<1>6. new \in Rows /\ new.dag = dag
  BY <1>4, <1>5 DEF Rows
<1>7. PICK r : r = [op |-> "save", pc |-> "commit", wf |-> w, loaded |-> row[w], new |-> new,
                    project |-> None, code |-> None]
  OBVIOUS
<1>8. Start(q, r) /\ page' = [page EXCEPT ![u] = None] /\ UNCHANGED <<row, proc, client, dropped, lost>>
  BY <1>1, <1>3, <1>5, <1>7 DEF SaveLoad
<1>9. r \in Threads
  BY <1>2, <1>6, <1>7, RowIsGood DEF Threads
<1>10. Shape(r)
  BY <1>7 DEF Shape
<1>11. Sound(r)
  <2>1. Good(w, dag.code)
    BY <1>1, <1>2, <1>4 DEF Loaded
  <2> QED
    BY <1>2, <1>6, <1>7, <2>1, RowIsGood DEF Sound
<1>12. /\ req[q] = None /\ req' = [req EXCEPT ![q] = r] /\ client' \in Engines
       /\ started' \in 0 .. MaxRequests /\ calm' \in BOOLEAN
       /\ page' \in [Pages -> [wf : Workflows, dag : Dags] \cup {None}]
       /\ \A v \in Pages : page'[v] # None => page'[v] = page[v]
  BY <1>8, ConstantsAssumption DEF Start, Inv, TypeOK
<1> QED
  BY <1>8, <1>9, <1>10, <1>11, <1>12, Starts

LEMMA PublishLoadInv == ASSUME Inv, NEW q \in Requests, NEW w \in Workflows, PublishLoad(q, w) PROVE Inv'
<1>1. PICK r : r = [op |-> "publish", pc |-> "project", wf |-> w, loaded |-> row[w], new |-> row[w],
                    project |-> None, code |-> None]
  OBVIOUS
<1>2. /\ Start(q, r) /\ Live(w) /\ Publishable(w, row[w].dag.graph) /\ client' = EngineOf[w]
      /\ UNCHANGED <<row, proc, page, dropped, lost>>
  BY <1>1 DEF PublishLoad
<1>3. r \in Threads
  BY <1>1, <1>2, RowIsGood DEF Threads
<1>4. Shape(r)
  BY <1>1, <1>2 DEF Shape
<1>5. Sound(r)
  BY <1>1, <1>2, RowIsGood DEF Sound
<1>6. /\ req[q] = None /\ req' = [req EXCEPT ![q] = r] /\ client' \in Engines
      /\ started' \in 0 .. MaxRequests /\ calm' \in BOOLEAN
      /\ page' \in [Pages -> [wf : Workflows, dag : Dags] \cup {None}]
      /\ \A v \in Pages : page'[v] # None => page'[v] = page[v]
  BY <1>2, ConstantsAssumption DEF Start, Inv, TypeOK
<1> QED
  BY <1>2, <1>3, <1>4, <1>5, <1>6, Starts

LEMMA DeleteLoadInv == ASSUME Inv, NEW q \in Requests, NEW w \in Workflows, DeleteLoad(q, w) PROVE Inv'
<1>1. PICK p : p = row[w].dag.code
  OBVIOUS
<1>2. PICK r : r = [op |-> "delete", pc |-> IF p = None THEN "row" ELSE "engine",
                    wf |-> w, loaded |-> row[w], new |-> row[w], project |-> None, code |-> p]
  OBVIOUS
<1>3. /\ Start(q, r) /\ Live(w) /\ client' \in {client, EngineOf[w]}
      /\ UNCHANGED <<row, proc, page, dropped, lost>>
  BY <1>1, <1>2 DEF DeleteLoad
<1>4. r \in Threads
  BY <1>1, <1>2, <1>3, RowIsGood DEF Threads
<1>5. Shape(r)
  <2>1. p # None => p.wf = w
    BY <1>1, <1>3, RowIsGood DEF Good
  <2> QED
    BY <1>2, <2>1 DEF Shape
<1>6. Sound(r)
  BY <1>1, <1>2, <1>3, RowIsGood DEF Sound
<1>7. /\ req[q] = None /\ req' = [req EXCEPT ![q] = r] /\ client' \in Engines
      /\ started' \in 0 .. MaxRequests /\ calm' \in BOOLEAN
      /\ page' \in [Pages -> [wf : Workflows, dag : Dags] \cup {None}]
      /\ \A v \in Pages : page'[v] # None => page'[v] = page[v]
  BY <1>3, ConstantsAssumption DEF Start, Inv, TypeOK
<1> QED
  BY <1>3, <1>4, <1>5, <1>6, <1>7, Starts

-----------------------------------------------------------------------------
(* Rows *)

\* A row is committed by a request of its workflow.
LEMMA Commits ==
  ASSUME Inv, NEW q \in Requests, req[q] # None, ~At(q, "delete", "row"), Live(req[q].wf),
         NEW v \in Rows, row' = [row EXCEPT ![req[q].wf] = v], Good(req[q].wf, v.dag.code),
         NEW r \in Threads \cup {None}, req' = [req EXCEPT ![q] = r],
         r # None => Shape(r) /\ Sound(r), Drop(req[q].wf),
         UNCHANGED <<proc, client, page, started, lost, calm>>
  PROVE  Inv'
<1>1. PICK w \in Workflows : w = req[q].wf
  BY DEF Inv, TypeOK, Threads
<1>2. /\ row'[w] = v /\ v # Absent /\ row' \in [Workflows -> Rows \cup {Absent, Deleted}]
      /\ \A o \in Workflows : o # w => row'[o] = row[o]
  BY <1>1, MarksAssumption DEF Inv, TypeOK
<1>3. TypeOK'
  <2>1. dropped' \subseteq Procs
    BY <1>1, RowIsGood DEF Drop, Inv, TypeOK
  <2> QED
    BY <1>2, <2>1 DEF Inv, TypeOK
<1>4. req'[q] = r /\ \A d \in Requests : d # q => req'[d] = req[d]
  BY DEF Inv, TypeOK
<1>5. ASSUME NEW p \in Procs, Gone(p) PROVE Gone(p)'
  <2>1. CASE row[p.wf] = Deleted
    <3>1. p.wf \in Workflows /\ p.wf # w
      BY <1>1, <2>1 DEF Live, Procs
    <3> QED
      BY <1>2, <2>1, <3>1 DEF Gone
  <2>2. CASE p \in lost
    BY <2>2 DEF Gone
  <2>3. ASSUME NEW d \in Requests, At(d, "delete", "row"), req[d].code = p PROVE Gone(p)'
    <3>1. d # q
      BY <2>3
    <3>2. At(d, "delete", "row")' /\ req'[d].code = p
      BY <1>4, <2>3, <3>1 DEF At
    <3> QED
      BY <3>2 DEF Gone
  <2> QED
    BY <1>5, <2>1, <2>2, <2>3 DEF Gone
<1>6. \A d \in Requests : req'[d] # None => req'[d] = req[d] \/ (Shape(req'[d]) /\ Sound(req'[d]))
  BY <1>4
<1>7. \A o \in Workflows : row[o] # Absent => row'[o] # Absent
  BY <1>2
<1>8. \A o \in Workflows : Live(o)' => row'[o] = row[o] \/ Good(o, row'[o].dag.code)
  BY <1>1, <1>2
<1>9. /\ \A u \in Pages : page'[u] # None =>
           page'[u] = page[u] \/ (row[page'[u].wf] # Absent /\ Good(page'[u].wf, page'[u].dag.code))
      /\ \A p \in Procs : proc[p] # Absent /\ proc'[p] = Absent => Gone(p)'
      /\ \A p \in Procs : Gone(p) => Gone(p)' \/ proc'[p] # Absent
  BY <1>5
<1>10. \A p \in Procs : proc'[p] # Absent => Publishable(p.wf, proc'[p].graph)
  BY DEF Inv
<1> QED
  BY <1>3, <1>6, <1>7, <1>8, <1>9, <1>10, Frame

\* What a merged row names, one of the two has named.
LEMMA Merged ==
  ASSUME NEW a \in Rows, NEW b \in Rows, NEW c \in Rows
  PROVE  Merge(a, b, c) \in Rows /\ Merge(a, b, c).dag \in {a.dag, c.dag}
BY DEF Merge, Rows

LEMMA SaveCommitInv == ASSUME Inv, NEW q \in Requests, SaveCommit(q) PROVE Inv'
<1>1. /\ req[q] \in Threads /\ req[q] # None /\ Shape(req[q]) /\ Sound(req[q])
      /\ req[q].op = "save" /\ ~At(q, "delete", "row")
  BY DEF SaveCommit, At, Inv, TypeOK
<1>2. PICK w \in Workflows : w = req[q].wf
  BY <1>1 DEF Threads
<1>3. CASE Live(w) /\ Goto(q, "refresh") /\ Drop(w) /\ UNCHANGED <<proc, client, page, started, lost, calm>>
           /\ row' = [row EXCEPT ![w] = Merge(@, req[q].loaded, req[q].new)]
  <2>1. PICK v : v = Merge(row[w], req[q].loaded, req[q].new)
    OBVIOUS
  <2>2. row[w] \in Rows /\ req[q].loaded \in Rows /\ req[q].new \in Rows
    BY <1>1, <1>3, RowIsGood DEF Threads
  <2>3. v \in Rows /\ v.dag \in {row[w].dag, req[q].new.dag}
    BY <2>1, <2>2, Merged
  <2>4. Good(w, v.dag.code)
    <3>1. Good(w, row[w].dag.code) /\ Good(w, req[q].new.dag.code)
      BY <1>1, <1>2, <1>3, RowIsGood DEF Sound
    <3> QED
      BY <2>3, <3>1
  <2>5. row' = [row EXCEPT ![w] = v]
    BY <1>3, <2>1
  <2>6. PICK r : r = [req[q] EXCEPT !.pc = "refresh"]
    OBVIOUS
  <2>7. /\ r.op = "save" /\ r.pc = "refresh" /\ r.wf = req[q].wf /\ r.loaded = req[q].loaded
        /\ r.new = req[q].new
    BY <1>1, <2>6 DEF Threads
  <2>8. r \in Threads
    <3> HIDE DEF Rows, Procs
    <3> QED
      BY <1>1, <2>6 DEF Threads
  <2>9. Shape(r) /\ Sound(r)
    BY <1>1, <2>7 DEF Shape, Sound
  <2>10. req' = [req EXCEPT ![q] = r]
    BY <1>3, <2>6 DEF Goto
  <2> QED
    BY <1>1, <1>2, <1>3, <2>3, <2>4, <2>5, <2>8, <2>9, <2>10, Commits
<1>4. CASE Failed(q)
  <2>1. /\ calm' \in BOOLEAN /\ Finish(q) /\ UNCHANGED <<row, proc, client, page, started, dropped>>
        /\ lost' \subseteq Procs /\ lost \subseteq lost'
    BY <1>4, FailedLoses DEF Failed
  <2> QED
    BY <1>1, <2>1, Unwritten, Ends
<1> QED
  BY <1>2, <1>3, <1>4 DEF SaveCommit

LEMMA PublishCommitInv == ASSUME Inv, NEW q \in Requests, PublishCommit(q) PROVE Inv'
<1>1. /\ req[q] \in Threads /\ req[q] # None /\ Shape(req[q]) /\ Sound(req[q])
      /\ req[q].op = "publish" /\ req[q].pc = "commit" /\ ~At(q, "delete", "row")
  BY DEF PublishCommit, At, Inv, TypeOK
<1>2. PICK w \in Workflows, l \in Rows, p \in Procs :
        w = req[q].wf /\ l = req[q].loaded /\ p = req[q].code
  BY <1>1 DEF Shape, Threads
<1>3. CASE Live(w) /\ Finish(q) /\ Drop(w) /\ UNCHANGED <<proc, client, page, started, lost, calm>>
           /\ row' = [row EXCEPT ![w] = Merge(@, l, [l EXCEPT !.dag.code = p, !.dag.stale = FALSE])]
  <2>1. PICK dag : dag = [l.dag EXCEPT !.code = p, !.stale = FALSE]
    OBVIOUS
  <2>2. dag \in Dags /\ dag.code = p
    BY <1>2, <2>1 DEF Rows, Dags
  <2>3. PICK new : new = [l EXCEPT !.dag = dag]
    OBVIOUS
  <2>4. new \in Rows /\ new.dag = dag /\ new = [l EXCEPT !.dag.code = p, !.dag.stale = FALSE]
    <3>1. new \in Rows /\ new.dag = dag
      BY <1>2, <2>2, <2>3 DEF Rows
    <3>2. l.dag \in Dags
      BY <1>2 DEF Rows
    <3>3. new = [l EXCEPT !.dag.code = p, !.dag.stale = FALSE]
      BY <1>2, <2>1, <2>3, <3>2 DEF Rows, Dags
    <3> QED
      BY <3>1, <3>3
  <2>5. PICK v : v = Merge(row[w], l, new)
    OBVIOUS
  <2>6. v \in Rows /\ v.dag \in {row[w].dag, dag}
    BY <1>2, <1>3, <2>4, <2>5, RowIsGood, Merged
  <2>7. Good(w, v.dag.code)
    <3>1. Good(w, row[w].dag.code) /\ Good(w, p)
      BY <1>1, <1>2, <1>3, RowIsGood DEF Sound
    <3> QED
      BY <2>2, <2>6, <3>1
  <2>8. row' = [row EXCEPT ![w] = v]
    BY <1>3, <2>4, <2>5
  <2>9. req' = [req EXCEPT ![q] = None]
    BY <1>3 DEF Finish
  <2> QED
    BY <1>1, <1>2, <1>3, <2>6, <2>7, <2>8, <2>9, Commits
<1>4. CASE Failed(q)
  <2>1. /\ calm' \in BOOLEAN /\ Finish(q) /\ UNCHANGED <<row, proc, client, page, started, dropped>>
        /\ lost' \subseteq Procs /\ lost \subseteq lost'
    BY <1>4, FailedLoses DEF Failed
  <2> QED
    BY <1>1, <2>1, Unwritten, Ends
<1> QED
  BY <1>2, <1>3, <1>4 DEF PublishCommit

LEMMA SaveRefreshInv == ASSUME Inv, NEW q \in Requests, SaveRefresh(q) PROVE Inv'
<1>1. /\ req[q] \in Threads /\ req[q] # None /\ Shape(req[q]) /\ Sound(req[q])
      /\ req[q].op = "save" /\ ~At(q, "delete", "row")
      /\ UNCHANGED <<row, proc, page, started, calm, dropped, lost>> /\ calm' \in BOOLEAN
  BY DEF SaveRefresh, At, Inv, TypeOK
<1>2. PICK w \in Workflows : w = req[q].wf
  BY <1>1 DEF Threads
<1>3. CASE Live(w) /\ row[w].dag.code # None /\ client' = EngineOf[w]
           /\ req' = [req EXCEPT ![q].pc = "push", ![q].new = row[w], ![q].code = row[w].dag.code]
  <2>1. PICK p : p = row[w].dag.code
    OBVIOUS
  <2>2. p \in Procs /\ p # None /\ p.wf = w /\ row[w] \in Rows /\ Good(w, p)
    BY <1>3, <2>1, RowIsGood DEF Good
  <2>3. PICK r : r = [req[q] EXCEPT !.pc = "push", !.new = row[w], !.code = p]
    OBVIOUS
  <2>4. req' = [req EXCEPT ![q] = r]
    BY <1>1, <1>3, <2>1, <2>3 DEF Inv, TypeOK
  <2>5. /\ r.op = "save" /\ r.pc = "push" /\ r.wf = w /\ r.loaded = req[q].loaded
        /\ r.new = row[w] /\ r.code = p
    BY <1>1, <1>2, <2>3 DEF Threads
  <2>6. r \in Threads
    <3> HIDE DEF Rows, Procs
    <3> QED
      BY <1>1, <2>2, <2>3 DEF Threads
  <2>7. Shape(r) /\ Sound(r)
    BY <1>1, <1>2, <2>1, <2>2, <2>5 DEF Shape, Sound
  <2>8. client' \in Engines
    BY <1>3, ConstantsAssumption
  <2> QED
    BY <1>1, <2>4, <2>6, <2>7, <2>8, Unwritten, Moves DEF Written
<1>4. CASE Finish(q) /\ client' = client
  BY <1>1, <1>4, Unwritten, Ends
<1> QED
  BY <1>2, <1>3, <1>4 DEF SaveRefresh

LEMMA SavePushInv == ASSUME Inv, NEW q \in Requests, SavePush(q) PROVE Inv'
<1>1. /\ req[q] \in Threads /\ req[q] # None /\ Shape(req[q]) /\ req[q].op = "save"
      /\ req[q].pc = "push" /\ ~At(q, "delete", "row")
      /\ Finish(q) /\ UNCHANGED <<row, page, started, dropped, client>> /\ calm' \in BOOLEAN
      /\ (lost' = lost \/ Failed(q))
  BY DEF SavePush, Failed, At, Inv, TypeOK
<1>2. PICK p \in Procs : p = req[q].code
  BY <1>1 DEF Shape, Threads
<1>3. CASE CanSchedule(p) /\ SetSchedule(p, req[q].new.cron) /\ UNCHANGED lost
  <2>1. PICK d : d = [proc[p] EXCEPT !.sched = req[q].new.cron, !.live = TRUE]
    OBVIOUS
  <2>2. proc[p] \in Definitions /\ Publishable(p.wf, proc[p].graph)
    BY <1>2, <1>3 DEF CanSchedule, Inv, TypeOK
  <2>3. d \in Definitions /\ d.graph = proc[p].graph
    BY <1>1, <2>1, <2>2 DEF Definitions, Threads, Rows
  <2>4. proc' = [proc EXCEPT ![p] = d]
    BY <1>2, <1>3, <2>1 DEF SetSchedule, Inv, TypeOK
  <2>5. Written
    BY <1>3, <2>2, <2>3, <2>4, OneWritten
  <2> QED
    BY <1>1, <2>5, Ends
<1>4. CASE Failed(q)
  <2>1. proc' = proc /\ lost' \subseteq Procs /\ lost \subseteq lost'
    BY <1>4, FailedLoses DEF Failed
  <2> QED
    BY <1>1, <2>1, Unwritten, Ends
<1> QED
  BY <1>2, <1>3, <1>4 DEF SavePush

LEMMA DeleteEngineInv == ASSUME Inv, NEW q \in Requests, DeleteEngine(q) PROVE Inv'
<1>1. /\ req[q] \in Threads /\ req[q] # None /\ Shape(req[q]) /\ Sound(req[q])
      /\ req[q].op = "delete" /\ req[q].pc = "engine" /\ ~At(q, "delete", "row")
      /\ UNCHANGED <<row, client, page, started, dropped, lost>> /\ calm' \in BOOLEAN
      /\ client' \in Engines /\ Goto(q, "row")
  BY DEF DeleteEngine, At, Inv, TypeOK
<1>2. PICK p \in Procs : p = req[q].code /\ p.wf = req[q].wf
  BY <1>1 DEF Shape, Threads
<1>3. PICK r : r = [req[q] EXCEPT !.pc = "row"]
  OBVIOUS
<1>4. /\ r.op = "delete" /\ r.pc = "row" /\ r.wf = req[q].wf /\ r.loaded = req[q].loaded
      /\ r.new = req[q].new /\ r.code = p
  BY <1>1, <1>2, <1>3 DEF Threads
<1>5. r \in Threads /\ r # None
  <2> HIDE DEF Rows, Procs
  <2> QED
    BY <1>1, <1>3, MarksAssumption DEF Threads
<1>6. Shape(r) /\ Sound(r) /\ req' = [req EXCEPT ![q] = r]
  BY <1>1, <1>2, <1>3, <1>4 DEF Shape, Sound, Goto
<1>7. /\ proc' \in [Procs -> Definitions \cup {Absent}]
      /\ \A o \in Procs : proc'[o] = proc[o] \/ (o = p /\ proc'[o] = Absent)
  BY <1>2 DEF DeleteEngine, Inv, TypeOK
<1>8. /\ \A o \in Procs : proc[o] # Absent /\ proc'[o] = Absent =>
           r # None /\ r.op = "delete" /\ r.pc = "row" /\ r.code = o
      /\ \A o \in Procs : proc'[o] # Absent => Publishable(o.wf, proc'[o].graph)
  BY <1>2, <1>4, <1>5, <1>7 DEF Inv
<1>9. lost' \subseteq Procs /\ lost' = lost
  BY <1>1 DEF Inv, TypeOK
<1> QED
  BY <1>1, <1>5, <1>6, <1>7, <1>8, <1>9, Moves

LEMMA DeleteRowInv == ASSUME Inv, NEW q \in Requests, DeleteRow(q) PROVE Inv'
<1>1. /\ req[q] \in Threads /\ req[q] # None /\ Sound(req[q]) /\ Shape(req[q]) /\ Finish(q)
      /\ UNCHANGED <<proc, client, page, started, dropped>> /\ calm' \in BOOLEAN
      /\ At(q, "delete", "row") /\ (lost' = lost \/ Failed(q))
  BY DEF DeleteRow, Failed, At, Inv, TypeOK
<1>12. lost' \subseteq Procs /\ lost \subseteq lost'
  BY <1>1, FailedLoses DEF Inv, TypeOK
<1>2. PICK w \in Workflows : w = req[q].wf /\ row[w] # Absent
  BY <1>1 DEF Threads, Sound
<1>3. /\ row'[w] = Deleted \/ (row'[w] = row[w] /\ Failed(q))
      /\ row' \in [Workflows -> Rows \cup {Absent, Deleted}]
      /\ \A o \in Workflows : o # w => row'[o] = row[o]
  BY <1>2 DEF DeleteRow, Failed, Inv, TypeOK
<1>4. TypeOK'
  BY <1>1, <1>3, <1>12 DEF Inv, TypeOK, Finish
<1>5. req'[q] = None /\ \A d \in Requests : d # q => req'[d] = req[d]
  BY <1>1 DEF Finish, Inv, TypeOK
<1>6. ASSUME NEW p \in Procs, Gone(p) PROVE Gone(p)' \/ proc'[p] # Absent
  <2>1. CASE row[p.wf] = Deleted
    BY <1>3, <2>1 DEF Gone, Procs
  <2>2. CASE p \in lost
    BY <1>12, <2>2 DEF Gone
  <2>3. ASSUME NEW d \in Requests, At(d, "delete", "row"), req[d].code = p
        PROVE  Gone(p)' \/ proc'[p] # Absent
    <3>1. CASE d = q
      <4>1. p.wf = w
        BY <1>1, <1>2, <2>3, <3>1, MarksAssumption DEF Shape, At
      <4>2. CASE row'[w] = Deleted
        BY <4>1, <4>2 DEF Gone
      <4>3. CASE Failed(q) /\ proc[p] = Absent
        BY <2>3, <3>1, <4>3 DEF Failed, Lost, Gone
      <4> QED
        BY <1>1, <1>3, <4>2, <4>3
    <3>2. CASE d # q
      <4>1. At(d, "delete", "row")' /\ req'[d].code = p
        BY <1>5, <2>3, <3>2 DEF At
      <4> QED
        BY <4>1 DEF Gone
    <3> QED
      BY <3>1, <3>2
  <2> QED
    BY <1>6, <2>1, <2>2, <2>3 DEF Gone
<1>7. \A d \in Requests : req'[d] # None => req'[d] = req[d] \/ (Shape(req'[d]) /\ Sound(req'[d]))
  BY <1>5
<1>8. \A o \in Workflows : row[o] # Absent => row'[o] # Absent
  BY <1>2, <1>3, MarksAssumption
<1>9. \A o \in Workflows : Live(o)' => row'[o] = row[o] \/ Good(o, row'[o].dag.code)
  BY <1>3, MarksAssumption DEF Live
<1>10. /\ \A u \in Pages : page'[u] # None =>
            page'[u] = page[u] \/ (row[page'[u].wf] # Absent /\ Good(page'[u].wf, page'[u].dag.code))
       /\ \A p \in Procs : proc[p] # Absent /\ proc'[p] = Absent => Gone(p)'
       /\ \A p \in Procs : Gone(p) => Gone(p)' \/ proc'[p] # Absent
  BY <1>1, <1>6
<1>11. \A p \in Procs : proc'[p] # Absent => Publishable(p.wf, proc'[p].graph)
  BY <1>1 DEF Inv
<1> QED
  BY <1>4, <1>7, <1>8, <1>9, <1>10, <1>11, Frame

LEMMA CreateInv ==
  ASSUME Inv, NEW w \in Workflows, NEW n \in Names, NEW c \in Crons \cup {None}, NEW g \in Graphs,
         CreateWorkflow(w, n, c, g)
  PROVE  Inv'
<1>1. PICK v : v = [name |-> n, cron |-> c, dag |-> [graph |-> g, code |-> None, stale |-> FALSE]]
  OBVIOUS
<1>2. v \in Rows /\ v.dag.code = None
  BY <1>1 DEF Rows, Dags
<1>3. /\ row[w] = Absent /\ row' = [row EXCEPT ![w] = v] /\ started' \in 0 .. MaxRequests
      /\ UNCHANGED <<proc, client, req, page, calm, dropped, lost>>
  BY <1>1, ConstantsAssumption DEF CreateWorkflow, Inv, TypeOK
<1>4. /\ row'[w] = v /\ v # Absent /\ row' \in [Workflows -> Rows \cup {Absent, Deleted}]
      /\ \A o \in Workflows : o # w => row'[o] = row[o]
  BY <1>2, <1>3, MarksAssumption DEF Inv, TypeOK
<1>5. TypeOK'
  BY <1>3, <1>4 DEF Inv, TypeOK
<1>6. ASSUME NEW p \in Procs, Gone(p) PROVE Gone(p)'
  <2>1. row[p.wf] = Deleted => row'[p.wf] = Deleted
    BY <1>3, <1>4, MarksAssumption DEF Procs
  <2> QED
    BY <1>3, <1>6, <2>1 DEF Gone, At
<1>7. \A o \in Workflows : Live(o)' => row'[o] = row[o] \/ Good(o, row'[o].dag.code)
  BY <1>2, <1>4 DEF Good
<1>8. /\ \A o \in Workflows : row[o] # Absent => row'[o] # Absent
      /\ \A u \in Pages : page'[u] # None =>
           page'[u] = page[u] \/ (row[page'[u].wf] # Absent /\ Good(page'[u].wf, page'[u].dag.code))
      /\ \A p \in Procs : proc[p] # Absent /\ proc'[p] = Absent => Gone(p)'
      /\ \A p \in Procs : Gone(p) => Gone(p)' \/ proc'[p] # Absent
      /\ \A d \in Requests : req'[d] # None => req'[d] = req[d] \/ (Shape(req'[d]) /\ Sound(req'[d]))
  BY <1>3, <1>4, <1>6
<1>9. \A p \in Procs : proc'[p] # Absent => Publishable(p.wf, proc'[p].graph)
  BY <1>3 DEF Inv
<1> QED
  BY <1>5, <1>7, <1>8, <1>9, Frame

LEMMA OpenEditorInv ==
  ASSUME Inv, NEW u \in Pages, NEW w \in Workflows, OpenEditor(u, w)
  PROVE  Inv'
<1>1. PICK v : v = [wf |-> w, dag |-> row[w].dag]
  OBVIOUS
<1>2. /\ Live(w) /\ page' = [page EXCEPT ![u] = v]
      /\ UNCHANGED <<row, proc, client, req, started, calm, dropped, lost>>
  BY <1>1 DEF OpenEditor
<1>3. /\ v \in [wf : Workflows, dag : Dags] /\ v.wf = w /\ row[w] # Absent
      /\ Good(w, v.dag.code)
  BY <1>1, <1>2, RowIsGood
<1>4. page'[u] = v /\ \A o \in Pages : o # u => page'[o] = page[o]
  BY <1>2 DEF Inv, TypeOK
<1>5. TypeOK'
  BY <1>2, <1>3 DEF Inv, TypeOK
<1>6. \A p \in Procs : Gone(p) => Gone(p)' \/ proc'[p] # Absent
  BY <1>2 DEF Gone, At
<1>7. \A o \in Pages : page'[o] # None =>
        page'[o] = page[o] \/ (row[page'[o].wf] # Absent /\ Good(page'[o].wf, page'[o].dag.code))
  BY <1>3, <1>4
<1>8. /\ \A o \in Workflows : row[o] # Absent => row'[o] # Absent
      /\ \A o \in Workflows : Live(o)' => row'[o] = row[o] \/ Good(o, row'[o].dag.code)
      /\ \A p \in Procs : proc[p] # Absent /\ proc'[p] = Absent => Gone(p)'
      /\ \A d \in Requests : req'[d] # None => req'[d] = req[d] \/ (Shape(req'[d]) /\ Sound(req'[d]))
  BY <1>2
<1>9. \A p \in Procs : proc'[p] # Absent => Publishable(p.wf, proc'[p].graph)
  BY <1>2 DEF Inv
<1> QED
  BY <1>5, <1>6, <1>7, <1>8, <1>9, Frame

\* Nothing but the client, the budget and the histories changes.
LEMMA Unmoved ==
  ASSUME Inv, TypeOK', UNCHANGED <<row, proc, req, page, lost>>
  PROVE  Inv'
<1>1. \A p \in Procs : Gone(p) => Gone(p)' \/ proc'[p] # Absent
  BY DEF Gone, At
<1>2. /\ \A o \in Workflows : row[o] # Absent => row'[o] # Absent
      /\ \A o \in Workflows : Live(o)' => row'[o] = row[o] \/ Good(o, row'[o].dag.code)
      /\ \A p \in Procs : proc[p] # Absent /\ proc'[p] = Absent => Gone(p)'
      /\ \A d \in Requests : req'[d] # None => req'[d] = req[d] \/ (Shape(req'[d]) /\ Sound(req'[d]))
      /\ \A o \in Pages : page'[o] # None =>
           page'[o] = page[o] \/ (row[page'[o].wf] # Absent /\ Good(page'[o].wf, page'[o].dag.code))
  OBVIOUS
<1>3. \A p \in Procs : proc'[p] # Absent => Publishable(p.wf, proc'[p].graph)
  BY DEF Inv
<1> QED
  BY <1>1, <1>2, <1>3, Frame

\* All requests end, and what the deletions among them have removed is lost.
LEMMA CrashInv == ASSUME Inv, Crash PROVE Inv'
<1>1. TypeOK'
  BY DEF Crash, Lost, Inv, TypeOK
<1>2. ASSUME NEW p \in Procs, Gone(p) PROVE Gone(p)' \/ proc'[p] # Absent
  <2>1. CASE row[p.wf] = Deleted \/ p \in lost
    BY <2>1 DEF Crash, Gone
  <2>2. ASSUME NEW q \in Requests, At(q, "delete", "row"), req[q].code = p, proc[p] = Absent
        PROVE  p \in lost'
    BY <2>2 DEF Crash, Lost
  <2> QED
    BY <1>2, <2>1, <2>2 DEF Crash, Gone
<1>3. /\ \A o \in Workflows : row[o] # Absent => row'[o] # Absent
      /\ \A o \in Workflows : Live(o)' => row'[o] = row[o] \/ Good(o, row'[o].dag.code)
      /\ \A p \in Procs : proc[p] # Absent /\ proc'[p] = Absent => Gone(p)'
      /\ \A d \in Requests : req'[d] # None => req'[d] = req[d] \/ (Shape(req'[d]) /\ Sound(req'[d]))
      /\ \A o \in Pages : page'[o] # None =>
           page'[o] = page[o] \/ (row[page'[o].wf] # Absent /\ Good(page'[o].wf, page'[o].dag.code))
  BY DEF Crash
<1>4. \A p \in Procs : proc'[p] # Absent => Publishable(p.wf, proc'[p].graph)
  BY DEF Crash, Inv
<1> QED
  BY <1>1, <1>2, <1>3, <1>4, Frame

LEMMA InitInv == ASSUME Init PROVE Inv
BY ConstantsAssumption DEF Init, Inv, TypeOK, Live

LEMMA NextInv == ASSUME Inv, [Next]_vars PROVE Inv'
<1>1. CASE Editing
  BY <1>1, CreateInv, OpenEditorInv, SaveLoadInv, SaveCommitInv, SaveRefreshInv, SavePushInv
  DEF Editing
<1>2. CASE Publishing
  BY <1>2, PublishLoadInv, PublishProjectInv, SyncFindInv, SyncInv, PublishCommitInv, PublishFailsInv
  DEF Publishing
<1>3. CASE Deleting
  BY <1>3, DeleteLoadInv, DeleteEngineInv, DeleteRowInv DEF Deleting
<1>4. ASSUME NEW e \in Engines, OtherRefresh(e) PROVE Inv'
  <2>1. TypeOK' /\ UNCHANGED <<row, proc, req, page, lost>>
    BY <1>4 DEF OtherRefresh, Inv, TypeOK
  <2> QED
    BY <2>1, Unmoved
<1>5. CASE UNCHANGED vars
  <2>1. TypeOK' /\ UNCHANGED <<row, proc, req, page, lost>>
    BY <1>5 DEF vars, Inv, TypeOK
  <2> QED
    BY <2>1, Unmoved
<1> QED
  BY <1>1, <1>2, <1>3, <1>4, <1>5, CrashInv DEF Next

LEMMA Invariance == Spec => []Inv
<1>1. Init => Inv
  BY InitInv
<1>2. Inv /\ [Next]_vars => Inv'
  BY NextInv
<1> QED
  BY <1>1, <1>2, PTL DEF Spec

-----------------------------------------------------------------------------
\* Every variable keeps its type: what is merged into a row is a row, and what is
\* written into Dolphin a definition.
THEOREM TypeCorrect == Spec => []TypeOK
<1>1. Inv => TypeOK
  BY DEF Inv
<1> QED
  BY <1>1, Invariance, PTL

\* A code that is stored in a row names a definition that exists, unless the deletion
\* that has removed it is about to delete the row or ended before it did, whatever
\* requests overlap, whatever fails and whenever the process dies.
THEOREM CodesNameProcesses == Spec => []CodeNamesProcess
<1>1. ASSUME Inv PROVE CodeNamesProcess
  <2> SUFFICES ASSUME NEW w \in Workflows, Live(w), NEW p, p = row[w].dag.code, p # None,
                      proc[p] = Absent
               PROVE  p \in lost \/ \E q \in Requests : At(q, "delete", "row") /\ req[q].code = p
    BY DEF CodeNamesProcess
  <2>1. Gone(p) /\ p.wf = w
    BY <1>1, RowIsGood DEF Good
  <2> QED
    BY <2>1 DEF Gone, Live
<1> QED
  BY <1>1, Invariance, PTL

\* If the search for a cycle finds one when there is no order to run the nodes in,
\* every definition in Dolphin can run, in that order, on scripts of its own
\* workspace, whatever requests overlap and whatever fails.
THEOREM DefinitionsAreRunnable == SearchFindsCycles(Graphs) => (Spec => []DefinitionsCanRun)
<1> SUFFICES ASSUME SearchFindsCycles(Graphs) PROVE Spec => []DefinitionsCanRun
  OBVIOUS
<1>1. ASSUME Inv PROVE DefinitionsCanRun
  <2> SUFFICES ASSUME NEW p \in Procs, proc[p] # Absent
               PROVE  /\ proc[p].graph.nodes # {}
                      /\ proc[p].graph.nodes \subseteq ScriptsOf[p.wf]
                      /\ Ordered(proc[p].graph)
    BY DEF DefinitionsCanRun
  <2>1. proc[p].graph \in Graphs /\ Publishable(p.wf, proc[p].graph)
    BY <1>1 DEF Inv, TypeOK, Definitions
  <2> QED
    BY <2>1 DEF Publishable, SearchFindsCycles
<1> QED
  BY <1>1, Invariance, PTL

-----------------------------------------------------------------------------
(* One request after another, without failures *)

\* A request works for workflow w.
Served(w) == \E q \in Requests : req[q] # None /\ req[q].wf = w

\* A definition of w is the one its row names, or one that the row has given up.
Kept(w) == \A p \in Procs :
  p.wf = w /\ proc[p] # Absent /\ p \notin dropped => Live(w) /\ row[w].dag.code = p

\* What holds of a workflow for which no request works.
Settled(w) ==
  /\ Kept(w)
  /\ Live(w) /\ row[w].dag.code # None /\ ~row[w].dag.stale => Aligned(w)

\* How far a publication has brought its definition.
Stage(r) ==
  LET p == proc[r.code] IN
  /\ r.pc \in {"put", "online"} => ~p.live
  /\ r.pc \in {"online", "schedule", "commit"} => p # Absent /\ p.graph = r.loaded.dag.graph
  /\ r.pc \in {"schedule", "commit"} => p.online
  /\ r.pc = "schedule" => r.loaded.cron # None
  /\ r.pc = "commit" => /\ p.live = (r.loaded.cron # None)
                        /\ p.live => p.sched = r.loaded.cron

\* What the only request r can rely on: the row is as it was loaded, the client
\* points to the workflow's own engine, what a save has written is marked.
SteadySave(r) ==
  /\ Kept(r.wf)
  /\ r.pc = "commit" => row[r.wf] = r.loaded /\ (r.new.dag.code # None => r.new.dag.stale)
  /\ r.pc # "commit" /\ Live(r.wf) => (row[r.wf].dag.code # None => row[r.wf].dag.stale)

SteadyPublish(r) ==
  /\ row[r.wf] = r.loaded /\ client = EngineOf[r.wf]
  /\ r.pc \in {"project", "find"} => Kept(r.wf)
  /\ r.pc \notin {"project", "find"} =>
       /\ r.code.engine = EngineOf[r.wf]
       /\ \A p \in Procs : p.wf = r.wf /\ proc[p] # Absent /\ p \notin dropped =>
            p = r.code \/ row[r.wf].dag.code = p
       /\ Stage(r)

SteadyDelete(r) ==
  /\ r.pc = "engine" => Kept(r.wf) /\ r.code = row[r.wf].dag.code
  /\ r.pc = "row" => \A p \in Procs : p.wf = r.wf /\ proc[p] # Absent => p \in dropped

Steady(r) ==
  /\ r.op = "save" => SteadySave(r)
  /\ r.op = "publish" => SteadyPublish(r)
  /\ r.op = "delete" => SteadyDelete(r)

CalmInv == calm =>
  /\ \A q, d \in Requests : req[q] # None /\ req[d] # None => q = d
  /\ \A q \in Requests : req[q] # None => Steady(req[q])
  /\ \A w \in Workflows : ~Served(w) => Settled(w)
  /\ \A p \in Procs : proc[p] # Absent => p.engine = EngineOf[p.wf]

\* What a request has loaded and works with.
LEMMA RequestTyped ==
  ASSUME Inv, NEW q \in Requests, req[q] # None
  PROVE  /\ req[q] \in Threads /\ Shape(req[q]) /\ Sound(req[q]) /\ req[q].wf \in Workflows
         /\ req[q].loaded.dag.code \in Procs \cup {None} /\ req[q].code \in Procs \cup {None}
<1>1. req[q] \in Threads /\ Shape(req[q]) /\ Sound(req[q])
  BY DEF Inv, TypeOK
<1>2. req[q].wf \in Workflows /\ req[q].loaded \in Rows /\ req[q].code \in Procs \cup {None}
  BY <1>1 DEF Threads
<1> QED
  BY <1>1, <1>2 DEF Rows, Dags

\* A request that goes on keeps all but its place.
LEMMA GotoKeeps ==
  ASSUME Inv, NEW q \in Requests, req[q] # None,
         NEW pc \in {"commit", "refresh", "push", "project", "find", "create", "offline",
                    "put", "online", "schedule", "engine", "row"}, Goto(q, pc)
  PROVE  /\ \A d \in Requests \ {q} : req'[d] = req[d]
         /\ req'[q] # None /\ req'[q].pc = pc /\ req'[q].op = req[q].op /\ req'[q].wf = req[q].wf
         /\ req'[q].loaded = req[q].loaded /\ req'[q].new = req[q].new
         /\ req'[q].code = req[q].code
<1>1. req[q] \in Threads
  BY RequestTyped
<1>2. PICK r : r = [req[q] EXCEPT !.pc = pc]
  OBVIOUS
<1>3. req'[q] = r /\ \A d \in Requests \ {q} : req'[d] = req[d]
  BY <1>2 DEF Goto, Inv, TypeOK
<1>4. r \in Threads
  <2> HIDE DEF Rows, Procs
  <2> QED
    BY <1>1, <1>2 DEF Threads
<1>5. /\ r.pc = pc /\ r.op = req[q].op /\ r.wf = req[q].wf /\ r.loaded = req[q].loaded
      /\ r.new = req[q].new /\ r.code = req[q].code
  BY <1>1, <1>2 DEF Threads
<1> QED
  BY <1>3, <1>4, <1>5, MarksAssumption

LEMMA FinishIs ==
  ASSUME Inv, NEW q \in Requests, Finish(q)
  PROVE  req'[q] = None /\ \A d \in Requests \ {q} : req'[d] = req[d]
BY DEF Finish, Inv, TypeOK

\* The definition that a row names is one of its workflow.
LEMMA NamedByOwn ==
  ASSUME Inv, NEW w \in Workflows, Live(w), row[w].dag.code # None
  PROVE  row[w].dag.code \in Procs /\ row[w].dag.code.wf = w
BY RowIsGood DEF Good

\* A workflow that a step does not touch stays settled.
LEMMA Untouched ==
  ASSUME Inv, NEW w \in Workflows, Settled(w), row'[w] = row[w], dropped \subseteq dropped',
         \A p \in Procs : p.wf = w => proc'[p] = proc[p]
  PROVE  Settled(w)'
<1>1. Live(w)' <=> Live(w)
  BY DEF Live
<1>2. Kept(w)'
  BY <1>1 DEF Settled, Kept
<1>3. ASSUME Live(w), row[w].dag.code # None, Aligned(w) PROVE Aligned(w)'
  <2>1. proc'[row[w].dag.code] = proc[row[w].dag.code]
    BY <1>3, NamedByOwn
  <2> QED
    BY <1>3, <2>1 DEF Aligned
<1> QED
  BY <1>1, <1>2, <1>3 DEF Settled

\* A step of the only request keeps the invariant when it touches its own
\* workflow only and can rely on what it leaves behind.
LEMMA OwnStep ==
  ASSUME Inv, CalmInv, calm, NEW q \in Requests, NEW w \in Workflows,
         \A d \in Requests \ {q} : req[d] = None /\ req'[d] = None,
         req[q] # None => req[q].wf = w,
         \A v \in Workflows \ {w} : row'[v] = row[v],
         dropped \subseteq dropped',
         \A p \in Procs : proc'[p] # proc[p] =>
           p.wf = w /\ (proc'[p] # Absent => proc[p] # Absent \/ p.engine = EngineOf[w]),
         req'[q] # None => req'[q].wf = w /\ Steady(req[q])',
         req'[q] = None => Settled(w)'
  PROVE  CalmInv'
<1>1. \A a, d \in Requests : req'[a] # None /\ req'[d] # None => a = d
  OBVIOUS
<1>2. \A d \in Requests : req'[d] # None => Steady(req[d])'
  OBVIOUS
<1>3. ASSUME NEW v \in Workflows, ~Served(v)' PROVE Settled(v)'
  <2>1. CASE v = w
    <3>1. req'[q] = None
      BY <1>3, <2>1 DEF Served
    <3> QED
      BY <2>1, <3>1
  <2>2. CASE v # w
    <3>1. ~Served(v)
      BY <2>2 DEF Served
    <3>2. Settled(v)
      BY <3>1 DEF CalmInv
    <3>3. \A p \in Procs : p.wf = v => proc'[p] = proc[p]
      BY <2>2
    <3> QED
      BY <2>2, <3>2, <3>3, Untouched
  <2> QED
    BY <2>1, <2>2
<1>4. \A p \in Procs : proc'[p] # Absent => p.engine = EngineOf[p.wf]
  BY DEF CalmInv
<1> QED
  BY <1>1, <1>2, <1>3, <1>4 DEF CalmInv

\* What is known in a calm step of a request.
LEMMA AloneNow ==
  ASSUME Inv, CalmInv, calm, NEW q \in Requests, req[q] # None
  PROVE  Steady(req[q]) /\ \A d \in Requests \ {q} : req[d] = None
BY DEF CalmInv

LEMMA StartsAlone ==
  ASSUME Inv, CalmInv, calm', NEW q \in Requests, NEW r, Start(q, r), NEW w \in Workflows
  PROVE  /\ calm /\ req'[q] = r /\ req[q] = None /\ Settled(w)
         /\ \A d \in Requests \ {q} : req[d] = None /\ req'[d] = None
<1>1. calm /\ ~Busy
  BY DEF Start
<1>2. \A d \in Requests : req[d] = None
  BY <1>1 DEF Busy
<1>3. req'[q] = r /\ \A d \in Requests \ {q} : req'[d] = None
  BY <1>2 DEF Start, Inv, TypeOK
<1>4. ~Served(w)
  BY <1>2 DEF Served
<1> QED
  BY <1>1, <1>2, <1>3, <1>4 DEF CalmInv

-----------------------------------------------------------------------------
LEMMA CalmSaveLoad ==
  ASSUME Inv, CalmInv, calm', NEW u \in Pages, NEW q \in Requests, NEW n \in Names,
         NEW c \in Crons \cup {None}, NEW g \in Graphs, SaveLoad(u, q, n, c, g)
  PROVE  CalmInv'
<1>1. PICK w \in Workflows : w = page[u].wf
  BY DEF SaveLoad, Inv, TypeOK
<1>2. PICK dag : dag = Marked([page[u].dag EXCEPT !.graph = g])
  OBVIOUS
<1>3. PICK r : r = [op |-> "save", pc |-> "commit", wf |-> w, loaded |-> row[w],
                    new |-> [name |-> n, cron |-> c, dag |-> dag], project |-> None, code |-> None]
  OBVIOUS
<1>4. Start(q, r) /\ UNCHANGED <<row, proc, client, dropped>>
  BY <1>1, <1>2, <1>3 DEF SaveLoad
<1>5. dag.code # None => dag.stale
  <2>1. page[u].dag \in Dags
    BY DEF SaveLoad, Inv, TypeOK
  <2> QED
    BY <1>2, <2>1 DEF Marked, Dags
<1>6. /\ calm /\ req'[q] = r /\ req[q] = None /\ Settled(w)
      /\ \A d \in Requests \ {q} : req[d] = None /\ req'[d] = None
  BY <1>4, StartsAlone
<1>7. Kept(w)'
  BY <1>4, <1>6 DEF Settled, Kept, Live
<1>8. Steady(req[q])' /\ req'[q].wf = w /\ req'[q] # None
  <2>1. r.op = "save" /\ r.pc = "commit" /\ r.wf = w /\ r.loaded = row[w] /\ r.new.dag = dag
    BY <1>3
  <2>2. r \in Threads
    <3>1. page[u].dag \in Dags /\ Live(w)
      BY <1>1 DEF SaveLoad, Inv, TypeOK
    <3>2. dag \in Dags
      BY <1>2, <3>1 DEF Marked, Dags
    <3>3. r.new \in Rows /\ row[w] \in Rows
      BY <1>3, <3>1, <3>2, RowIsGood DEF Rows
    <3> HIDE DEF Rows, Procs
    <3> QED
      BY <1>3, <3>3 DEF Threads
  <2> QED
    BY <1>4, <1>5, <1>6, <1>7, <2>1, <2>2, MarksAssumption DEF Steady, SteadySave
<1> QED
  BY <1>4, <1>6, <1>8, OwnStep

LEMMA CalmSaveCommit == ASSUME Inv, CalmInv, calm', NEW q \in Requests, SaveCommit(q) PROVE CalmInv'
<1>1. PICK w \in Workflows : w = req[q].wf
  BY RequestTyped DEF SaveCommit, At
<1>2. /\ req[q] # None /\ req[q].op = "save" /\ req[q].pc = "commit" /\ Live(w) /\ calm
      /\ row' = [row EXCEPT ![w] = Merge(@, req[q].loaded, req[q].new)]
      /\ Drop(w) /\ Goto(q, "refresh") /\ UNCHANGED <<proc, client>>
  BY <1>1 DEF SaveCommit, At, Failed
<1>3. /\ Steady(req[q]) /\ \A d \in Requests \ {q} : req[d] = None
  BY <1>2, AloneNow
<1>4. Kept(w) /\ row[w] = req[q].loaded /\ (req[q].new.dag.code # None => req[q].new.dag.stale)
  BY <1>1, <1>2, <1>3 DEF Steady, SteadySave
<1>5. row'[w].dag = req[q].new.dag /\ \A v \in Workflows \ {w} : row'[v] = row[v]
  BY <1>2, <1>4 DEF Merge, Inv, TypeOK
<1>6. /\ \A d \in Requests \ {q} : req'[d] = None
      /\ req'[q] # None /\ req'[q].op = "save" /\ req'[q].pc = "refresh"
      /\ req'[q].wf = w
  BY <1>1, <1>2, <1>3, GotoKeeps
<1>7. Inv'
  BY SaveCommitInv
<1>8. Live(w)'
  <2>1. row[w] \in Rows /\ req[q].loaded \in Rows /\ req[q].new \in Rows
    BY <1>1, <1>2, RequestTyped, RowIsGood DEF Threads
  <2>2. PICK v : v = Merge(row[w], req[q].loaded, req[q].new)
    OBVIOUS
  <2>3. v \in Rows /\ row'[w] = v
    BY <1>2, <2>1, <2>2, Merged DEF Inv, TypeOK
  <2>4. v # Absent /\ v # Deleted
    BY <2>3, MarksAssumption
  <2> QED
    BY <2>3, <2>4 DEF Live
<1>9. Kept(w)'
  BY <1>2, <1>4, <1>8, MarksAssumption DEF Kept, Drop
<1>10. Steady(req[q])'
  BY <1>4, <1>5, <1>6, <1>9 DEF Steady, SteadySave
<1>11. dropped \subseteq dropped'
  BY <1>2 DEF Drop
<1> QED
  BY <1>1, <1>2, <1>3, <1>5, <1>6, <1>10, <1>11, OwnStep

LEMMA CalmSaveRefresh == ASSUME Inv, CalmInv, calm', NEW q \in Requests, SaveRefresh(q) PROVE CalmInv'
<1>1. PICK w \in Workflows : w = req[q].wf
  BY RequestTyped DEF SaveRefresh, At
<1>2. /\ req[q] # None /\ req[q].op = "save" /\ req[q].pc = "refresh" /\ calm
      /\ UNCHANGED <<row, proc, dropped>>
  BY <1>1 DEF SaveRefresh, At
<1>3. /\ Steady(req[q]) /\ \A d \in Requests \ {q} : req[d] = None
  BY <1>2, AloneNow
<1>4. Kept(w) /\ (Live(w) => (row[w].dag.code # None => row[w].dag.stale))
  BY <1>1, <1>2, <1>3 DEF Steady, SteadySave
<1>5. Kept(w)' /\ (Live(w)' <=> Live(w))
  BY <1>2, <1>4 DEF Kept, Live
<1>6. CASE /\ Live(w) /\ row[w].dag.code # None
           /\ req' = [req EXCEPT ![q].pc = "push", ![q].new = row[w], ![q].code = row[w].dag.code]
  <2>1. PICK r : r = [req[q] EXCEPT !.pc = "push", !.new = row[w], !.code = row[w].dag.code]
    OBVIOUS
  <2>2. req'[q] = r /\ \A d \in Requests \ {q} : req'[d] = None
    BY <1>2, <1>3, <1>6, <2>1 DEF Inv, TypeOK
  <2>3. /\ req[q] \in Threads /\ row[w] \in Rows /\ row[w].dag.code \in Procs \cup {None}
    BY <1>2, <1>6, RequestTyped, RowIsGood
  <2>4. r \in Threads
    <3> HIDE DEF Rows, Procs
    <3> QED
      BY <2>1, <2>3 DEF Threads
  <2>5. r.op = "save" /\ r.pc = "push" /\ r.wf = w
    BY <1>1, <1>2, <2>1, <2>3 DEF Threads
  <2>6. Steady(req[q])'
    BY <1>2, <1>4, <1>5, <2>2, <2>5 DEF Steady, SteadySave
  <2> QED
    BY <1>1, <1>2, <1>3, <2>2, <2>4, <2>5, <2>6, MarksAssumption, OwnStep
<1>7. CASE Finish(q)
  <2>1. Settled(w)'
    BY <1>2, <1>4, <1>5 DEF Settled
  <2> QED
    BY <1>1, <1>2, <1>3, <1>7, <2>1, FinishIs, OwnStep
<1> QED
  BY <1>1, <1>6, <1>7 DEF SaveRefresh

LEMMA CalmSavePush == ASSUME Inv, CalmInv, calm', NEW q \in Requests, SavePush(q) PROVE CalmInv'
<1>1. PICK w \in Workflows : w = req[q].wf
  BY RequestTyped DEF SavePush, At
<1>2. /\ req[q] # None /\ req[q].op = "save" /\ req[q].pc = "push" /\ calm /\ Finish(q)
      /\ CanSchedule(req[q].code) /\ SetSchedule(req[q].code, req[q].new.cron)
      /\ UNCHANGED <<row, dropped>>
  BY DEF SavePush, At, Failed
<1>3. /\ Steady(req[q]) /\ \A d \in Requests \ {q} : req[d] = None
  BY <1>2, AloneNow
<1>4. Kept(w) /\ (Live(w) => (row[w].dag.code # None => row[w].dag.stale))
  BY <1>1, <1>2, <1>3 DEF Steady, SteadySave
<1>5. PICK p \in Procs : p = req[q].code /\ p.wf = w
  BY <1>1, <1>2, RequestTyped DEF Shape
<1>6. proc[p] # Absent /\ \A o \in Procs : o # p => proc'[o] = proc[o]
  BY <1>2, <1>5 DEF CanSchedule, SetSchedule, Inv, TypeOK
<1>7. Settled(w)'
  BY <1>2, <1>4, <1>5, <1>6 DEF Settled, Kept, Live
<1> QED
  BY <1>1, <1>2, <1>3, <1>5, <1>6, <1>7, FinishIs, OwnStep

-----------------------------------------------------------------------------
\* What the only request knows while it publishes.
LEMMA PublishingAlone ==
  ASSUME Inv, CalmInv, calm, NEW q \in Requests, req[q] # None, req[q].op = "publish"
  PROVE  /\ req[q] \in Threads /\ Shape(req[q]) /\ SteadyPublish(req[q])
         /\ req[q].wf \in Workflows /\ \A d \in Requests \ {q} : req[d] = None
BY RequestTyped, AloneNow DEF Steady

LEMMA CalmPublishLoad ==
  ASSUME Inv, CalmInv, calm', NEW q \in Requests, NEW w \in Workflows, PublishLoad(q, w)
  PROVE  CalmInv'
<1>1. PICK r : r = [op |-> "publish", pc |-> "project", wf |-> w, loaded |-> row[w],
                    new |-> row[w], project |-> None, code |-> None]
  OBVIOUS
<1>2. Start(q, r) /\ client' = EngineOf[w] /\ UNCHANGED <<row, proc, dropped>> /\ Live(w)
  BY <1>1 DEF PublishLoad
<1>3. /\ calm /\ req'[q] = r /\ req[q] = None /\ Settled(w)
      /\ \A d \in Requests \ {q} : req[d] = None /\ req'[d] = None
  BY <1>2, StartsAlone
<1>4. r.op = "publish" /\ r.pc = "project" /\ r.wf = w /\ r.loaded = row[w]
  BY <1>1
<1>5. r \in Threads
  <2>1. row[w] \in Rows
    BY <1>2, RowIsGood
  <2> HIDE DEF Rows, Procs
  <2> QED
    BY <1>1, <2>1 DEF Threads
<1>6. Kept(w)'
  BY <1>2, <1>3 DEF Settled, Kept, Live
<1>7. Steady(req[q])'
  BY <1>2, <1>3, <1>4, <1>6 DEF Steady, SteadyPublish
<1> QED
  BY <1>2, <1>3, <1>4, <1>5, <1>7, MarksAssumption, OwnStep

LEMMA CalmPublishProject ==
  ASSUME Inv, CalmInv, calm', NEW q \in Requests, PublishProject(q)
  PROVE  CalmInv'
<1>1. /\ req[q] # None /\ req[q].op = "publish" /\ req[q].pc = "project" /\ calm
      /\ UNCHANGED <<row, proc, client, dropped>>
  BY DEF PublishProject, At
<1>2. /\ req[q] \in Threads /\ SteadyPublish(req[q])
      /\ req[q].wf \in Workflows /\ \A d \in Requests \ {q} : req[d] = None
  BY <1>1, PublishingAlone
<1>3. PICK r : r = [req[q] EXCEPT !.pc = "find", !.project = client]
  OBVIOUS
<1>4. req'[q] = r /\ \A d \in Requests \ {q} : req'[d] = None
  BY <1>1, <1>2, <1>3 DEF PublishProject, Inv, TypeOK
<1>5. r \in Threads
  BY <1>2, <1>3 DEF Threads, Inv, TypeOK
<1>6. r.op = "publish" /\ r.pc = "find" /\ r.wf = req[q].wf /\ r.loaded = req[q].loaded
  BY <1>1, <1>2, <1>3 DEF Threads
<1>7. Kept(r.wf)'
  <2>1. PICK w : w = r.wf
    OBVIOUS
  <2>2. Kept(w)
    BY <1>1, <1>2, <1>6, <2>1 DEF SteadyPublish, Kept
  <2> QED
    BY <1>1, <2>1, <2>2 DEF Kept, Live
<1>8. Steady(req[q])'
  BY <1>1, <1>2, <1>4, <1>6, <1>7 DEF Steady, SteadyPublish
<1> QED
  BY <1>1, <1>2, <1>4, <1>5, <1>6, <1>8, MarksAssumption, OwnStep

LEMMA CalmSyncFind ==
  ASSUME Inv, CalmInv, calm', NEW q \in Requests, SyncFind(q)
  PROVE  CalmInv'
<1>1. /\ req[q] # None /\ req[q].op = "publish" /\ req[q].pc = "find" /\ calm
      /\ UNCHANGED <<row, proc, client, dropped>>
  BY DEF SyncFind, At
<1>2. /\ req[q] \in Threads /\ SteadyPublish(req[q])
      /\ req[q].wf \in Workflows /\ \A d \in Requests \ {q} : req[d] = None
  BY <1>1, PublishingAlone
<1>3. PICK p : p = [engine |-> client, wf |-> req[q].wf, name |-> req[q].loaded.name]
  OBVIOUS
<1>4. PICK pc \in {"create", "offline"} : req' = [req EXCEPT ![q].pc = pc, ![q].code = p]
  BY <1>1, <1>3 DEF SyncFind, Inv, TypeOK
<1>5. PICK r : r = [req[q] EXCEPT !.pc = pc, !.code = p]
  OBVIOUS
<1>6. req'[q] = r /\ \A d \in Requests \ {q} : req'[d] = None
  BY <1>2, <1>4, <1>5 DEF Inv, TypeOK
<1>7. p \in Procs /\ p.engine = client
  BY <1>2, <1>3 DEF Procs, Threads, Rows, Inv, TypeOK
<1>8. r \in Threads
  <2> HIDE DEF Rows, Procs
  <2> QED
    BY <1>2, <1>5, <1>7 DEF Threads
<1>9. r.op = "publish" /\ r.pc = pc /\ r.wf = req[q].wf /\ r.loaded = req[q].loaded /\ r.code = p
  BY <1>1, <1>2, <1>5 DEF Threads
<1>10. SteadyPublish(req[q])'
  <2>1. /\ row'[r.wf] = r.loaded /\ client' = EngineOf[r.wf] /\ r.code.engine = EngineOf[r.wf]
    BY <1>1, <1>2, <1>7, <1>9 DEF SteadyPublish
  <2>2. \A o \in Procs : o.wf = r.wf /\ proc'[o] # Absent /\ o \notin dropped' => row'[r.wf].dag.code = o
    BY <1>1, <1>2, <1>9 DEF SteadyPublish, Kept
  <2> QED
    BY <1>6, <1>9, <2>1, <2>2 DEF SteadyPublish, Stage
<1> QED
  BY <1>1, <1>2, <1>6, <1>8, <1>9, <1>10, MarksAssumption, OwnStep DEF Steady

\* A publication that goes on after a call that wrote its definition, or none.
LEMMA CalmSync ==
  ASSUME Inv, CalmInv, calm, calm', NEW q \in Requests, req[q] # None, req[q].op = "publish",
         req[q].pc \notin {"project", "find"},
         NEW pc \in {"put", "online", "schedule", "commit"}, Goto(q, pc),
         UNCHANGED <<row, client, dropped>>,
         \A p \in Procs : p # req[q].code => proc'[p] = proc[p],
         NEW r, r = req'[q], Stage(r)'
  PROVE  CalmInv'
<1>1. /\ Shape(req[q]) /\ SteadyPublish(req[q])
      /\ req[q].wf \in Workflows /\ \A d \in Requests \ {q} : req[d] = None
  BY PublishingAlone
<1>2. req[q].code.wf = req[q].wf /\ req[q].code.engine = EngineOf[req[q].wf]
  BY <1>1 DEF Shape, SteadyPublish
<1>3. /\ \A d \in Requests \ {q} : req'[d] = None
      /\ r # None /\ r.op = "publish" /\ r.pc = pc /\ r.wf = req[q].wf
      /\ r.loaded = req[q].loaded /\ r.code = req[q].code
  BY <1>1, GotoKeeps
<1>4. \A p \in Procs : p.wf = r.wf /\ proc'[p] # Absent /\ p \notin dropped' =>
        p = r.code \/ row'[r.wf].dag.code = p
  BY <1>1, <1>3 DEF SteadyPublish
<1>5. SteadyPublish(req[q])'
  BY <1>1, <1>2, <1>3, <1>4 DEF SteadyPublish, Stage
<1>6. Steady(req[q])' /\ req'[q].wf = req[q].wf
  BY <1>3, <1>5 DEF Steady
<1> QED
  BY <1>1, <1>2, <1>3, <1>6, OwnStep

LEMMA CalmSyncs ==
  ASSUME Inv, CalmInv, calm', NEW q \in Requests,
         SyncCreate(q) \/ SyncOffline(q) \/ SyncPut(q) \/ PublishOnline(q) \/ PublishSchedule(q)
  PROVE  CalmInv'
<1>1. /\ req[q] # None /\ req[q].op = "publish" /\ calm /\ UNCHANGED <<row, client, dropped>>
      /\ req[q].pc \in {"create", "offline", "put", "online", "schedule"}
  BY DEF SyncCreate, SyncOffline, SyncPut, PublishOnline, PublishSchedule, At
<1>2. req[q] \in Threads /\ Shape(req[q]) /\ SteadyPublish(req[q])
  BY <1>1, PublishingAlone
<1>3. PICK p \in Procs : p = req[q].code
  BY <1>1, <1>2 DEF Shape, Threads
<1>4. Stage(req[q])
  BY <1>1, <1>2 DEF SteadyPublish
<1>5. PICK r : r = req'[q]
  OBVIOUS
<1>6. /\ proc \in [Procs -> Definitions \cup {Absent}]
      /\ \A o \in Procs : o # p => proc'[o] = proc[o]
  BY <1>3 DEF SyncCreate, SyncOffline, SyncPut, PublishOnline, PublishSchedule, Release,
              SetSchedule, Inv, TypeOK
<1>7. CASE SyncCreate(q)
  <2>1. Goto(q, "online")
    BY <1>7 DEF SyncCreate
  <2>2. r.pc = "online" /\ r.code = p /\ r.loaded = req[q].loaded
    BY <1>1, <1>3, <1>5, <2>1, GotoKeeps
  <2>3. proc'[p] = [graph |-> r.loaded.dag.graph, online |-> FALSE, sched |-> None, live |-> FALSE]
    BY <1>3, <1>6, <1>7, <2>2 DEF SyncCreate
  <2>4. proc'[p] # Absent
    <3>1. r.loaded.dag.graph \in Graphs
      BY <1>2, <2>2 DEF Threads, Rows, Dags
    <3>2. proc'[p] \in Definitions
      BY <2>3, <3>1 DEF Definitions
    <3> QED
      BY <3>2, MarksAssumption
  <2>5. Stage(r)'
    BY <2>2, <2>3, <2>4 DEF Stage
  <2> QED
    BY <1>1, <1>3, <1>5, <1>6, <2>1, <2>5, CalmSync
<1>8. CASE SyncOffline(q)
  <2>1. Goto(q, "put") /\ proc[p] # Absent /\ Release(p, FALSE)
    BY <1>1, <1>3, <1>8 DEF SyncOffline
  <2>2. r.pc = "put" /\ r.code = p
    BY <1>1, <1>3, <1>5, <2>1, GotoKeeps
  <2>3. proc'[p].live = FALSE
    BY <1>6, <2>1 DEF Release, Definitions
  <2>4. Stage(r)'
    BY <2>2, <2>3 DEF Stage
  <2> QED
    BY <1>1, <1>3, <1>5, <1>6, <2>1, <2>4, CalmSync
<1>9. CASE SyncPut(q)
  <2>1. Goto(q, "online") /\ req[q].pc = "put"
    BY <1>9 DEF SyncPut, At
  <2>2. r.pc = "online" /\ r.code = p /\ r.loaded = req[q].loaded
    BY <1>1, <1>3, <1>5, <2>1, GotoKeeps
  <2>3. PICK d : d = [proc[p] EXCEPT !.graph = req[q].loaded.dag.graph]
    OBVIOUS
  <2>4. proc'[p] = d /\ proc[p] \in Definitions /\ ~proc[p].live
    BY <1>3, <1>4, <1>6, <1>9, <2>1, <2>3 DEF SyncPut, Stage
  <2>5. d \in Definitions /\ d.graph = r.loaded.dag.graph /\ ~d.live
    BY <1>2, <2>2, <2>3, <2>4 DEF Definitions, Threads, Rows, Dags
  <2>6. Stage(r)'
    BY <2>2, <2>4, <2>5, MarksAssumption DEF Stage
  <2> QED
    BY <1>1, <1>3, <1>5, <1>6, <2>1, <2>6, CalmSync
<1>10. CASE PublishOnline(q)
  <2>1. /\ req[q].pc = "online" /\ proc[p] # Absent /\ Release(p, TRUE)
        /\ Goto(q, IF req[q].loaded.cron = None THEN "commit" ELSE "schedule")
    BY <1>3, <1>10 DEF PublishOnline, At
  <2>2. PICK pc \in {"commit", "schedule"} :
          pc = IF req[q].loaded.cron = None THEN "commit" ELSE "schedule"
    OBVIOUS
  <2>8. Goto(q, pc)
    BY <2>1, <2>2
  <2>3. r.pc = pc /\ r.code = p /\ r.loaded = req[q].loaded
    BY <1>1, <1>3, <1>5, <2>8, GotoKeeps
  <2>4. PICK d : d = [proc[p] EXCEPT !.online = TRUE, !.live = @ /\ TRUE]
    OBVIOUS
  <2>5. /\ proc'[p] = d /\ proc[p] \in Definitions /\ ~proc[p].live
        /\ proc[p].graph = req[q].loaded.dag.graph
    BY <1>3, <1>4, <1>6, <2>1, <2>4 DEF Release, Stage
  <2>6. d \in Definitions /\ d.graph = r.loaded.dag.graph /\ d.live = FALSE /\ d.online
    BY <2>3, <2>4, <2>5 DEF Definitions
  <2>7. Stage(r)'
    BY <2>2, <2>3, <2>5, <2>6, MarksAssumption DEF Stage
  <2> QED
    BY <1>1, <1>3, <1>5, <1>6, <2>8, <2>7, CalmSync
<1>11. CASE PublishSchedule(q)
  <2>1. Goto(q, "commit") /\ req[q].pc = "schedule" /\ CanSchedule(p) /\ SetSchedule(p, req[q].loaded.cron)
    BY <1>3, <1>11 DEF PublishSchedule, At
  <2>2. r.pc = "commit" /\ r.code = p /\ r.loaded = req[q].loaded
    BY <1>1, <1>3, <1>5, <2>1, GotoKeeps
  <2>3. PICK d : d = [proc[p] EXCEPT !.sched = req[q].loaded.cron, !.live = TRUE]
    OBVIOUS
  <2>4. /\ proc'[p] = d /\ proc[p] \in Definitions /\ proc[p].online
        /\ proc[p].graph = req[q].loaded.dag.graph /\ req[q].loaded.cron # None
    BY <1>3, <1>4, <1>6, <2>1, <2>3 DEF CanSchedule, SetSchedule, Stage
  <2>5. /\ d \in Definitions /\ d.graph = r.loaded.dag.graph /\ d.live = TRUE /\ d.online
        /\ d.sched = r.loaded.cron
    BY <1>2, <2>2, <2>3, <2>4 DEF Definitions, Threads, Rows
  <2>6. Stage(r)'
    BY <2>2, <2>4, <2>5, MarksAssumption DEF Stage
  <2> QED
    BY <1>1, <1>3, <1>5, <1>6, <2>1, <2>6, CalmSync
<1> QED
  BY <1>7, <1>8, <1>9, <1>10, <1>11

LEMMA CalmPublishCommit ==
  ASSUME Inv, CalmInv, calm', NEW q \in Requests, PublishCommit(q)
  PROVE  CalmInv'
<1>1. PICK w \in Workflows : w = req[q].wf
  BY RequestTyped DEF PublishCommit, At
<1>2. /\ req[q] # None /\ req[q].op = "publish" /\ req[q].pc = "commit" /\ Live(w) /\ calm
      /\ row' = [row EXCEPT ![w] = Merge(@, req[q].loaded,
                   [req[q].loaded EXCEPT !.dag.code = req[q].code, !.dag.stale = FALSE])]
      /\ Drop(w) /\ Finish(q) /\ UNCHANGED proc
  BY <1>1 DEF PublishCommit, At, Failed
<1>3. /\ req[q] \in Threads /\ Shape(req[q]) /\ SteadyPublish(req[q])
      /\ \A d \in Requests \ {q} : req[d] = None
  BY <1>2, PublishingAlone
<1>4. PICK p \in Procs : p = req[q].code /\ p # None /\ p.wf = w
  BY <1>1, <1>2, <1>3 DEF Shape, Threads
<1>5. PICK l \in Rows : l = req[q].loaded /\ l = row[w]
  BY <1>1, <1>3 DEF Threads, SteadyPublish
<1>6. PICK new : new = [l EXCEPT !.dag.code = p, !.dag.stale = FALSE]
  OBVIOUS
<1>7. /\ new \in Rows /\ new.dag.code = p /\ new.dag.stale = FALSE
      /\ new.dag.graph = l.dag.graph /\ new.cron = l.cron
  BY <1>4, <1>5, <1>6 DEF Rows, Dags
<1>8. PICK v : v = Merge(l, l, new)
  OBVIOUS
<1>9. v \in Rows /\ v.dag = new.dag /\ v.cron = l.cron
  BY <1>5, <1>7, <1>8, Merged DEF Merge
<1>10. row'[w] = v /\ \A o \in Workflows \ {w} : row'[o] = row[o]
  BY <1>2, <1>4, <1>5, <1>6, <1>8 DEF Inv, TypeOK
<1>11. Live(w)'
  BY <1>9, <1>10, MarksAssumption DEF Live
<1>12. /\ \A o \in Procs : o.wf = w /\ proc[o] # Absent /\ o \notin dropped => o = p \/ row[w].dag.code = o
       /\ Stage(req[q])
  BY <1>1, <1>2, <1>3, <1>4 DEF SteadyPublish
<1>13. Kept(w)'
  <2>1. dropped' = dropped \cup ({row[w].dag.code} \ {p, None})
    BY <1>2, <1>7, <1>9, <1>10 DEF Drop
  <2> QED
    BY <1>2, <1>7, <1>9, <1>10, <1>11, <1>12, <2>1, MarksAssumption DEF Kept
<1>14. Aligned(w)'
  BY <1>2, <1>4, <1>5, <1>7, <1>9, <1>10, <1>12 DEF Aligned, Stage
<1>15. Settled(w)'
  BY <1>13, <1>14 DEF Settled
<1>16. dropped \subseteq dropped'
  BY <1>2 DEF Drop
<1> QED
  BY <1>1, <1>2, <1>3, <1>10, <1>15, <1>16, FinishIs, OwnStep

-----------------------------------------------------------------------------
LEMMA CalmDeleteLoad ==
  ASSUME Inv, CalmInv, calm', NEW q \in Requests, NEW w \in Workflows, DeleteLoad(q, w)
  PROVE  CalmInv'
<1>1. PICK p : p = row[w].dag.code
  OBVIOUS
<1>2. PICK pc \in {"row", "engine"} : pc = IF p = None THEN "row" ELSE "engine"
  OBVIOUS
<1>3. PICK r : r = [op |-> "delete", pc |-> pc, wf |-> w, loaded |-> row[w], new |-> row[w],
                    project |-> None, code |-> p]
  OBVIOUS
<1>4. Start(q, r) /\ UNCHANGED <<row, proc, dropped>> /\ Live(w)
  BY <1>1, <1>2, <1>3 DEF DeleteLoad
<1>5. /\ calm /\ req'[q] = r /\ req[q] = None /\ Settled(w)
      /\ \A d \in Requests \ {q} : req[d] = None /\ req'[d] = None
  BY <1>4, StartsAlone
<1>6. r.op = "delete" /\ r.pc = pc /\ r.wf = w /\ r.code = p
  BY <1>3
<1>7. r \in Threads
  <2>1. row[w] \in Rows /\ p \in Procs \cup {None}
    BY <1>1, <1>4, RowIsGood
  <2> HIDE DEF Rows, Procs
  <2> QED
    BY <1>3, <2>1 DEF Threads
<1>8. Kept(w)'
  BY <1>4, <1>5 DEF Settled, Kept, Live
<1>9. pc = "row" => \A o \in Procs : o.wf = w /\ proc'[o] # Absent => o \in dropped'
  BY <1>1, <1>2, <1>4, <1>8, MarksAssumption DEF Kept
<1>10. Steady(req[q])'
  BY <1>1, <1>2, <1>4, <1>5, <1>6, <1>8, <1>9 DEF Steady, SteadyDelete
<1> QED
  BY <1>4, <1>5, <1>6, <1>7, <1>10, MarksAssumption, OwnStep

LEMMA CalmDeleteEngine ==
  ASSUME Inv, CalmInv, calm', NEW q \in Requests, DeleteEngine(q)
  PROVE  CalmInv'
<1>1. PICK w \in Workflows : w = req[q].wf
  BY RequestTyped DEF DeleteEngine, At
<1>2. /\ req[q] # None /\ req[q].op = "delete" /\ req[q].pc = "engine" /\ calm
      /\ UNCHANGED <<row, dropped>> /\ Goto(q, "row")
      /\ proc' = [proc EXCEPT ![req[q].code] = Absent]
  BY DEF DeleteEngine, At
<1>3. /\ req[q] \in Threads /\ Shape(req[q]) /\ Steady(req[q])
      /\ \A d \in Requests \ {q} : req[d] = None
  BY <1>2, AloneNow, RequestTyped
<1>4. PICK p \in Procs : p = req[q].code /\ p.wf = w
  BY <1>1, <1>2, <1>3 DEF Shape, Threads
<1>5. Kept(w) /\ p = row[w].dag.code
  BY <1>1, <1>2, <1>3, <1>4 DEF Steady, SteadyDelete
<1>6. proc'[p] = Absent /\ \A o \in Procs : o # p => proc'[o] = proc[o]
  BY <1>2, <1>4 DEF Inv, TypeOK
<1>7. /\ \A d \in Requests \ {q} : req'[d] = None
      /\ req'[q] # None /\ req'[q].op = "delete" /\ req'[q].pc = "row" /\ req'[q].wf = w
  BY <1>1, <1>2, <1>3, GotoKeeps
<1>8. \A o \in Procs : o.wf = w /\ proc'[o] # Absent => o \in dropped'
  BY <1>2, <1>5, <1>6 DEF Kept
<1>9. Steady(req[q])'
  BY <1>7, <1>8 DEF Steady, SteadyDelete
<1> QED
  BY <1>1, <1>2, <1>3, <1>4, <1>6, <1>7, <1>9, OwnStep

LEMMA CalmDeleteRow ==
  ASSUME Inv, CalmInv, calm', NEW q \in Requests, DeleteRow(q)
  PROVE  CalmInv'
<1>1. PICK w \in Workflows : w = req[q].wf
  BY RequestTyped DEF DeleteRow, At
<1>2. /\ req[q] # None /\ req[q].op = "delete" /\ req[q].pc = "row" /\ calm
      /\ UNCHANGED <<proc, dropped>> /\ Finish(q) /\ row' = [row EXCEPT ![w] = Deleted]
  BY <1>1 DEF DeleteRow, At, Failed
<1>3. Steady(req[q]) /\ \A d \in Requests \ {q} : req[d] = None
  BY <1>2, AloneNow
<1>4. \A o \in Procs : o.wf = w /\ proc[o] # Absent => o \in dropped
  BY <1>1, <1>2, <1>3 DEF Steady, SteadyDelete
<1>5. row'[w] = Deleted /\ \A o \in Workflows \ {w} : row'[o] = row[o]
  BY <1>2 DEF Inv, TypeOK
<1>6. Settled(w)'
  BY <1>2, <1>4, <1>5 DEF Settled, Kept, Live
<1> QED
  BY <1>1, <1>2, <1>3, <1>5, <1>6, FinishIs, OwnStep

-----------------------------------------------------------------------------
LEMMA CalmCreate ==
  ASSUME Inv, CalmInv, calm', NEW w \in Workflows, NEW n \in Names, NEW c \in Crons \cup {None},
         NEW g \in Graphs, CreateWorkflow(w, n, c, g)
  PROVE  CalmInv'
<1>1. /\ calm /\ row[w] = Absent /\ UNCHANGED <<proc, client, req, dropped>>
      /\ row' = [row EXCEPT ![w] = [name |-> n, cron |-> c, dag |->
                   [graph |-> g, code |-> None, stale |-> FALSE]]]
  BY DEF CreateWorkflow
<1>2. row'[w].dag.code = None /\ \A v \in Workflows \ {w} : row'[v] = row[v]
  BY <1>1 DEF Inv, TypeOK
<1>3. ASSUME NEW q \in Requests, req[q] # None PROVE Steady(req[q])'
  <2>1. Steady(req[q]) /\ req[q].wf # w /\ req[q].wf \in Workflows
    BY <1>1, <1>3, AloneNow, RequestTyped DEF Sound
  <2>2. row'[req[q].wf] = row[req[q].wf]
    BY <1>2, <2>1
  <2>3. Kept(req[q].wf) => Kept(req[q].wf)'
    BY <1>1, <2>2 DEF Kept, Live
  <2>4. SteadySave(req[q]) => SteadySave(req[q])'
    BY <1>1, <2>2, <2>3 DEF SteadySave, Live
  <2>5. SteadyPublish(req[q]) => SteadyPublish(req[q])'
    BY <1>1, <2>2, <2>3 DEF SteadyPublish, Stage
  <2>6. SteadyDelete(req[q]) => SteadyDelete(req[q])'
    BY <1>1, <2>2, <2>3 DEF SteadyDelete
  <2> QED
    BY <1>1, <2>1, <2>4, <2>5, <2>6 DEF Steady
<1>4. ASSUME NEW v \in Workflows, ~Served(v)' PROVE Settled(v)'
  <2>1. Settled(v)
    BY <1>1, <1>4 DEF Served, CalmInv
  <2>2. CASE v # w
    BY <1>1, <1>2, <2>1, <2>2, Untouched
  <2>3. CASE v = w
    <3>1. \A p \in Procs : p.wf = w /\ proc[p] # Absent => p \in dropped
      BY <1>1, <2>1, <2>3 DEF Settled, Kept, Live
    <3> QED
      BY <1>1, <1>2, <2>3, <3>1 DEF Settled, Kept
  <2> QED
    BY <2>2, <2>3
<1>5. \A p \in Procs : proc'[p] # Absent => p.engine = EngineOf[p.wf]
  BY <1>1 DEF CalmInv
<1>6. \A q, d \in Requests : req'[q] # None /\ req'[d] # None => q = d
  BY <1>1 DEF CalmInv
<1> QED
  BY <1>1, <1>3, <1>4, <1>5, <1>6 DEF CalmInv

\* A step that leaves rows, definitions and requests alone, and the client too
\* while a request is under way.
LEMMA CalmStill ==
  ASSUME CalmInv, calm, UNCHANGED <<row, proc, req, dropped>>,
         client' = client \/ ~Busy
  PROVE  CalmInv'
<1>1. ASSUME NEW q \in Requests, req[q] # None PROVE Steady(req[q])'
  <2>1. Steady(req[q]) /\ client' = client
    BY <1>1 DEF CalmInv, Busy
  <2>2. Kept(req[q].wf) => Kept(req[q].wf)'
    BY DEF Kept, Live
  <2> QED
    BY <2>1, <2>2 DEF Steady, SteadySave, SteadyPublish, SteadyDelete, Stage, Live
<1>2. ASSUME NEW v \in Workflows, ~Served(v)' PROVE Settled(v)'
  <2>1. Settled(v)
    BY <1>2 DEF Served, CalmInv
  <2> QED
    BY <2>1 DEF Settled, Kept, Live, Aligned
<1> QED
  BY <1>1, <1>2 DEF CalmInv

LEMMA CalmNext == ASSUME Inv, CalmInv, [Next]_vars PROVE CalmInv'
<1> SUFFICES ASSUME calm' PROVE CalmInv'
  BY DEF CalmInv
<1>1. CASE Editing
  <2>1. ASSUME NEW u \in Pages, NEW w \in Workflows, OpenEditor(u, w) PROVE CalmInv'
    BY <2>1, CalmStill DEF OpenEditor
  <2> QED
    BY <1>1, <2>1, CalmCreate, CalmSaveLoad, CalmSaveCommit, CalmSaveRefresh, CalmSavePush
    DEF Editing
<1>2. CASE Publishing
  <2>1. ASSUME NEW q \in Requests, PublishFails(q) \/ SyncFindFails(q) PROVE FALSE
    BY <2>1 DEF PublishFails, SyncFindFails, Failed
  <2> QED
    BY <1>2, <2>1, CalmPublishLoad, CalmPublishProject, CalmSyncFind, CalmSyncs, CalmPublishCommit
    DEF Publishing
<1>3. CASE Deleting
  BY <1>3, CalmDeleteLoad, CalmDeleteEngine, CalmDeleteRow DEF Deleting
<1>4. ASSUME NEW e \in Engines, OtherRefresh(e) PROVE CalmInv'
  BY <1>4, CalmStill DEF OtherRefresh
<1>5. CASE UNCHANGED vars
  BY <1>5, CalmStill DEF vars
<1>6. ~Crash
  BY DEF Crash
<1> QED
  BY <1>1, <1>2, <1>3, <1>4, <1>5, <1>6 DEF Next

LEMMA CalmHolds == Spec => [](Inv /\ CalmInv)
<1>1. Init => Inv /\ CalmInv
  <2> SUFFICES ASSUME Init PROVE CalmInv
    BY InitInv
  <2> QED
    BY DEF Init, CalmInv, Settled, Kept, Live
<1>2. Inv /\ CalmInv /\ [Next]_vars => (Inv /\ CalmInv)'
  BY NextInv, CalmNext
<1> QED
  BY <1>1, <1>2, PTL DEF Spec

\* While requests do not overlap and calls do not fail, a published workflow that
\* is not shown as "to be published again" runs in Dolphin as its row says, for any
\* numbers of workflows, engines, editors with stale pages, names and crons.
THEOREM FlagStaysHonest == Spec => []FlagIsHonest
<1>1. Inv /\ CalmInv => FlagIsHonest
  BY DEF CalmInv, FlagIsHonest, Settled, Served
<1> QED
  BY <1>1, CalmHolds, PTL

\* While requests do not overlap, each definition is in the engine of its own
\* workspace, although all requests share one client.
THEOREM EnginesAreOwn == Spec => []OwnEngine
<1>1. Inv /\ CalmInv => OwnEngine
  BY DEF CalmInv, OwnEngine
<1> QED
  BY <1>1, CalmHolds, PTL

\* While requests do not overlap and calls do not fail, a definition that no row
\* names is one whose code the row has given up in a save or a publication.
THEOREM OrphansStayExplained == Spec => []OrphansAreExplained
<1>1. Inv /\ CalmInv => OrphansAreExplained
  <2> SUFFICES ASSUME CalmInv, calm, NEW p \in Procs, proc[p] # Absent,
                      \A q \in Requests : req[q] # None => req[q].wf # p.wf,
                      Live(p.wf) => row[p.wf].dag.code # p
               PROVE  p \in dropped
    BY DEF OrphansAreExplained
  <2>1. p.wf \in Workflows /\ ~Served(p.wf)
    BY DEF Procs, Served
  <2> QED
    BY <2>1 DEF CalmInv, Settled, Kept
<1> QED
  BY <1>1, CalmHolds, PTL

=============================================================================
