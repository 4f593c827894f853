----------------------- MODULE DolphinInstances_proofs -----------------------
(***************************************************************************)
(* Proofs about DolphinInstances, for any workflows, threads, limits and   *)
(* process instances, in any number of Dolphins, whatever digits their     *)
(* numbers begin with, with failures and restarts.                         *)
(*                                                                         *)
(* No constraint of the table keeps the tags apart.  OneRowPerRun rests on *)
(* who can write the tag of a process instance next: the request that      *)
(* started it, or a poll that has found no row for it; and the history     *)
(* variable blurred says when there are two of these.                      *)
(***************************************************************************)
EXTENDS DolphinInstances, FiniteSetTheorems, TLAPS

Places == {"idle", "run", "tag", "rerun", "retie", "batch", "scan", "found",
           "patch", "patched", "refresh", "refreshed"}

RunIds == 1 .. MaxRuns
Runs == [wf : Workflows, state : Statuses]
Rows == [wf : Workflows, status : Statuses, tag : RunIds \cup {None}]
Copies == [wf : Workflows \cup {None}, status : Statuses, tag : RunIds \cup {None}]
Jobs == [wf : Workflows \cup {None}, row : Nat, seen : Copies, ids : Seq(RunIds), left : Nat]
Polls == [todo : SUBSET Workflows, list : SUBSET [id : RunIds, state : Statuses],
          cands : SUBSET Nat, row : Nat, seen : Copies, read : Copies]

\* The types, as far as the tags depend on them.
Types ==
  /\ eng \in Seq(Runs) /\ Len(eng) <= MaxRuns
  /\ rows \in Seq(Rows)
  /\ pc \in [Threads -> Places]
  /\ job \in [Requests -> Jobs]
  /\ poll \in [Pollers -> Polls]

IsRunOf(k, w) == k \in Ids /\ eng[k].wf = w
WillBeRunOf(k, w) == k \in Ids' /\ eng'[k].wf = w

\* A tag is the id of a process instance of the row's workflow.
RowsOwn == \A i \in RowIds : rows[i].tag # None => IsRunOf(rows[i].tag, rows[i].wf)

\* A request holds ids of its workflow, and works on a row of its workflow.
JobOwn(q) ==
  /\ \A n \in DOMAIN job[q].ids : IsRunOf(job[q].ids[n], job[q].wf)
  /\ pc[q] \in {"run", "tag", "rerun", "retie"} =>
       job[q].row \in RowIds /\ rows[job[q].row].wf = job[q].wf
  /\ pc[q] \in {"tag", "retie"} => Len(job[q].ids) = 1
  /\ pc[q] = "idle" => job[q].ids = <<>>
  /\ pc[q] # "idle" => job[q].wf \in Workflows

\* A poll has read ids of their workflows, and writes a tag that it did not see
\* on its row only if that was found to be too late.
PollOwn(p) ==
  /\ \A x \in poll[p].list : x.id \in Ids
  /\ poll[p].cands \subseteq Tagged
  /\ pc[p] \notin {"found", "patched", "refreshed"} => poll[p].row = 0
  /\ pc[p] = "found" => poll[p].read.tag # None
  /\ pc[p] \in {"patched", "refreshed"} => poll[p].row # 0
  /\ pc[p] \in {"found", "patched", "refreshed"} =>
       /\ poll[p].read.tag # None => IsRunOf(poll[p].read.tag, poll[p].read.wf)
       /\ poll[p].row # 0 =>
            /\ poll[p].row \in RowIds
            /\ rows[poll[p].row].wf = poll[p].read.wf
            /\ \/ poll[p].read.tag = poll[p].seen.tag
               \/ poll[p].read.tag \in blurred \ {None}

\* Where the tag k is, or comes from: a row, a request, a poll.
Has(i, k) == i \in RowIds /\ rows[i].tag = k
Holds(q, n, k) == n \in DOMAIN job[q].ids /\ job[q].ids[n] = k
Makes(p, k) == pc[p] = "found" /\ poll[p].row = 0 /\ poll[p].read.tag = k

\* There is one such place.
OnePlace(k) ==
  /\ \A i, j \in Nat : Has(i, k) /\ Has(j, k) => i = j
  /\ \A q, r \in Requests : \A n, m \in Nat : Holds(q, n, k) /\ Holds(r, m, k) => q = r /\ n = m
  /\ \A p, o \in Pollers : Makes(p, k) /\ Makes(o, k) => p = o
  /\ \A i \in Nat, q \in Requests, n \in Nat : ~ (Has(i, k) /\ Holds(q, n, k))
  /\ \A i \in Nat, p \in Pollers : ~ (Has(i, k) /\ Makes(p, k))
  /\ \A q \in Requests, n \in Nat, p \in Pollers : ~ (Holds(q, n, k) /\ Makes(p, k))

Inv ==
  /\ Types
  /\ RowsOwn
  /\ \A q \in Requests : JobOwn(q)
  /\ \A p \in Pollers : PollOwn(p)
  /\ \A k \in Ids \ blurred : OnePlace(k)

-----------------------------------------------------------------------------
(* What steps do to Dolphin's list *)

\* Process instances come, and keep their workflow.
EngStep ==
  /\ eng' \in Seq(Runs) /\ Len(eng') <= MaxRuns
  /\ Ids \subseteq Ids'
  /\ \A k \in Ids : eng'[k].wf = eng[k].wf

\* Ids and row numbers are initial segments of the natural numbers.
LEMMA IdsAreRunIds ==
  ASSUME Types
  PROVE  Ids = 1 .. Len(eng) /\ Ids \subseteq RunIds /\ None \notin Ids
         /\ RowIds = 1 .. Len(rows) /\ RowIds \subseteq Nat /\ 0 \notin RowIds
         /\ Len(eng) \in Nat /\ Len(rows) \in Nat
BY ConstantsAssumption DEF Types, Ids, RowIds, RunIds

\* A process instance has a number, and its own tag matches it.
LEMMA AlikeItself ==
  ASSUME Types, NEW k \in Ids PROVE k \in Alike(k)
<1> DEFINE S == {j \in 1 .. k : Server[eng[j].wf] = Server[eng[k].wf]}
<1>1. k \in 1 .. MaxRuns /\ k \in Nat /\ MaxRuns \in Nat
  BY IdsAreRunIds, ConstantsAssumption DEF RunIds
<1>2. IsFiniteSet(1 .. k) /\ Cardinality(1 .. k) = k
  BY <1>1, FS_Interval
<1>3. S \subseteq 1 .. k /\ k \in S
  BY <1>1
<1> HIDE DEF S
<1>4. IsFiniteSet(S) /\ Cardinality(S) <= k /\ Cardinality(S) \in Nat
  BY <1>2, <1>3, FS_Subset, FS_CardinalityType
<1>5. Cardinality(S) # 0
  BY <1>3, <1>4, FS_EmptySet
<1>6. Number(k) \in 1 .. MaxRuns
  BY <1>1, <1>4, <1>5 DEF Number, S
<1>7. Number(k) \in Begins[Number(k)]
  BY <1>6, ConstantsAssumption
<1> QED
  BY <1>7 DEF Alike

\* Dolphin's list stays.
LEMMA EngSame ==
  ASSUME Types, UNCHANGED eng PROVE EngStep
BY DEF Types, EngStep, Ids

\* Dolphin gets a process instance with the next id.
LEMMA EngStarts ==
  ASSUME Types, NEW w \in Workflows, StartRun(w)
  PROVE  /\ EngStep
         /\ Len(eng) + 1 \notin Ids
         /\ WillBeRunOf(Len(eng) + 1, w)
         /\ Len(eng) + 1 \in RunIds
<1>1. Len(eng) \in Nat /\ Ids = 1 .. Len(eng)
  BY IdsAreRunIds
<1>2. NewRun(w) \in Runs /\ NewRun(w).wf = w
  BY DEF NewRun, Runs, Statuses
<1>3. eng' = Append(eng, NewRun(w)) /\ Len(eng) < MaxRuns /\ MaxRuns \in Nat
  BY ConstantsAssumption DEF StartRun
<1>4. eng' \in Seq(Runs) /\ Len(eng') = Len(eng) + 1 /\ Ids' = 1 .. (Len(eng) + 1)
  BY <1>1, <1>2, <1>3 DEF Types, Ids
<1>5. \A k \in Ids : eng'[k] = eng[k]
  BY <1>1, <1>3 DEF Types
<1>6. eng'[Len(eng) + 1] = NewRun(w)
  BY <1>1, <1>3 DEF Types
<1>7. Len(eng) + 1 \notin Ids /\ Len(eng) + 1 \in Ids' /\ Len(eng) + 1 \in RunIds
  BY <1>1, <1>3, <1>4 DEF RunIds
<1>8. EngStep
  BY <1>1, <1>3, <1>4, <1>5 DEF EngStep
<1>9. WillBeRunOf(Len(eng) + 1, w)
  BY <1>2, <1>6, <1>7 DEF WillBeRunOf
<1> QED
  BY <1>7, <1>8, <1>9

\* A process instance ends.
LEMMA EngEnds ==
  ASSUME Types, NEW k \in Ids, EngineEnds(k) PROVE EngStep
<1>1. PICK s \in Ended : eng' = [eng EXCEPT ![k].state = s]
  BY DEF EngineEnds
<1> DEFINE r == [eng[k] EXCEPT !.state = s]
<1>2. eng[k] \in Runs
  BY DEF Types, Ids
<1>3. r \in Runs /\ r.wf = eng[k].wf
  BY <1>2 DEF Runs, Statuses
<1>4. eng' = [eng EXCEPT ![k] = r]
  BY <1>1
<1> HIDE DEF r
<1>5. eng' \in Seq(Runs) /\ Len(eng') = Len(eng) /\ Ids' = Ids
  BY <1>3, <1>4 DEF Types, Ids
<1>6. \A j \in Ids : eng'[j] = IF j = k THEN r ELSE eng[j]
  BY <1>4 DEF Ids
<1> QED
  BY <1>3, <1>5, <1>6 DEF EngStep, Types

-----------------------------------------------------------------------------
(* What steps do to the table *)

\* Rows come, and keep their workflow; a tag changes only to another tag.
RowStep ==
  /\ rows' \in Seq(Rows)
  /\ RowIds \subseteq RowIds'
  /\ \A i \in RowIds : rows'[i].wf = rows[i].wf
  /\ \A i \in Tagged : rows'[i].tag # None

\* The table stays.
LEMMA RowsSame ==
  ASSUME Types, UNCHANGED rows
  PROVE  RowStep /\ \A i, k : Has(i, k)' => Has(i, k)
BY DEF Types, RowStep, RowIds, Has, Tagged

\* An UPDATE writes one row, and its tag if the thread has changed it.
LEMMA RowsUpdate ==
  ASSUME Types, NEW i \in RowIds, NEW seen \in Copies, NEW new \in Copies,
         Update(i, seen, new), new.tag = seen.tag \/ new.tag # None
  PROVE  /\ RowStep
         /\ blurred \subseteq blurred'
         /\ RowIds' = RowIds
         /\ rows'[i].tag = IF new.tag = seen.tag THEN rows[i].tag ELSE new.tag
         /\ \A j \in RowIds : j # i => rows'[j] = rows[j]
<1> DEFINE r == Merge(seen, new, rows[i])
<1>1. rows[i] \in Rows
  BY DEF Types, RowIds
<1>2. r \in Rows /\ r.wf = rows[i].wf
      /\ r.tag = IF new.tag = seen.tag THEN rows[i].tag ELSE new.tag
  BY <1>1 DEF Merge, Rows, Copies
<1>3. rows' = [rows EXCEPT ![i] = r] /\ blurred \subseteq blurred'
  BY DEF Update
<1> HIDE DEF r
<1>4. rows' \in Seq(Rows) /\ Len(rows') = Len(rows) /\ RowIds' = RowIds
  BY <1>2, <1>3 DEF Types, RowIds
<1>5. \A j \in RowIds : rows'[j] = IF j = i THEN r ELSE rows[j]
  BY <1>3 DEF RowIds
<1> QED
  BY <1>2, <1>3, <1>4, <1>5 DEF RowStep, Tagged

\* An INSERT adds one row at the end.
LEMMA RowsInsert ==
  ASSUME Types, NEW row \in Rows, Insert(row)
  PROVE  /\ RowStep
         /\ Len(rows) + 1 \in Nat \ RowIds
         /\ RowIds' = RowIds \cup {Len(rows) + 1}
         /\ rows'[Len(rows) + 1] = row
         /\ \A j \in RowIds : rows'[j] = rows[j]
<1>1. Len(rows) \in Nat /\ RowIds = 1 .. Len(rows)
  BY IdsAreRunIds
<1>2. rows' = Append(rows, row)
  BY DEF Insert
<1>3. rows' \in Seq(Rows) /\ Len(rows') = Len(rows) + 1 /\ RowIds' = 1 .. (Len(rows) + 1)
  BY <1>1, <1>2 DEF Types, RowIds
<1>4. rows'[Len(rows) + 1] = row /\ \A j \in RowIds : rows'[j] = rows[j]
  BY <1>1, <1>2 DEF Types
<1> QED
  BY <1>1, <1>3, <1>4 DEF RowStep, Tagged

\* The rows of a batch: one for each id, in their order.
LEMMA RowsBatch ==
  ASSUME Types, NEW w \in Workflows, NEW ids \in Seq(RunIds),
         rows' = rows \o [n \in DOMAIN ids |-> NewRow(w, ids[n])]
  PROVE  /\ RowStep
         /\ \A i \in RowIds' \ RowIds :
              /\ i - Len(rows) \in DOMAIN ids
              /\ rows'[i] = NewRow(w, ids[i - Len(rows)])
         /\ \A j \in RowIds : rows'[j] = rows[j]
<1> DEFINE new == [n \in DOMAIN ids |-> NewRow(w, ids[n])]
<1>1. Len(rows) \in Nat /\ RowIds = 1 .. Len(rows) /\ rows \in Seq(Rows)
  BY IdsAreRunIds DEF Types
<1>2. Len(ids) \in Nat /\ DOMAIN ids = 1 .. Len(ids)
  OBVIOUS
<1>3. \A n \in 1 .. Len(ids) : NewRow(w, ids[n]) \in Rows
  BY <1>2 DEF NewRow, Rows, Statuses
<1>4. new \in Seq(Rows) /\ Len(new) = Len(ids) /\ \A n \in 1 .. Len(ids) : new[n] = NewRow(w, ids[n])
  BY <1>2, <1>3
<1> HIDE DEF new
<1>5. rows' = rows \o new
  BY DEF new
<1>6. rows' \in Seq(Rows) /\ Len(rows') = Len(rows) + Len(ids)
  BY <1>1, <1>2, <1>4, <1>5
<1>7. \A i \in 1 .. (Len(rows) + Len(ids)) :
        rows'[i] = IF i <= Len(rows) THEN rows[i] ELSE new[i - Len(rows)]
  BY <1>1, <1>2, <1>4, <1>5
<1>8. RowIds' = 1 .. (Len(rows) + Len(ids))
  BY <1>1, <1>2, <1>6 DEF RowIds
<1>9. \A j \in RowIds : rows'[j] = rows[j]
  BY <1>1, <1>2, <1>7
<1>10. ASSUME NEW i \in RowIds' \ RowIds
       PROVE  i - Len(rows) \in 1 .. Len(ids) /\ rows'[i] = NewRow(w, ids[i - Len(rows)])
  BY <1>1, <1>2, <1>4, <1>7, <1>8
<1> QED
  BY <1>1, <1>2, <1>6, <1>8, <1>9, <1>10 DEF RowStep, Tagged

-----------------------------------------------------------------------------
(* Threads that do not take the step *)

\* What a request holds stays right when others take steps.
LEMMA JobStays ==
  ASSUME EngStep, RowStep, NEW q \in Requests, JobOwn(q), job'[q] = job[q], pc'[q] = pc[q]
  PROVE  JobOwn(q)'
BY DEF EngStep, RowStep, JobOwn, IsRunOf

\* What a poll has read stays right when others take steps.
LEMMA PollStays ==
  ASSUME EngStep, RowStep, NEW p \in Pollers, PollOwn(p), poll'[p] = poll[p], pc'[p] = pc[p],
         blurred \subseteq blurred'
  PROVE  PollOwn(p)'
BY DEF EngStep, RowStep, PollOwn, IsRunOf, Tagged

-----------------------------------------------------------------------------
(* How the one place of a tag moves *)

\* No place is new.
LEMMA PlaceStays ==
  ASSUME NEW k, OnePlace(k),
         \A i \in Nat : Has(i, k)' => Has(i, k),
         \A q \in Requests, n \in Nat : Holds(q, n, k)' => Holds(q, n, k),
         \A p \in Pollers : Makes(p, k)' => Makes(p, k)
  PROVE  OnePlace(k)'
BY Zenon DEF OnePlace

\* From a request to a row.
LEMMA HeldBecomesRow ==
  ASSUME NEW k, OnePlace(k),
         NEW r \in Requests, NEW m \in Nat, Holds(r, m, k), NEW j \in Nat,
         \A i \in Nat : Has(i, k)' => Has(i, k) \/ i = j,
         \A q \in Requests, n \in Nat : Holds(q, n, k)' => Holds(q, n, k) /\ q # r,
         \A p \in Pollers : Makes(p, k)' => Makes(p, k)
  PROVE  OnePlace(k)'
BY Zenon DEF OnePlace

\* From a poll to a row.
LEMMA MadeBecomesRow ==
  ASSUME NEW k, OnePlace(k),
         NEW o \in Pollers, Makes(o, k), NEW j \in Nat,
         \A i \in Nat : Has(i, k)' => Has(i, k) \/ i = j,
         \A q \in Requests, n \in Nat : Holds(q, n, k)' => Holds(q, n, k),
         \A p \in Pollers : Makes(p, k)' => Makes(p, k) /\ p # o
  PROVE  OnePlace(k)'
BY Zenon DEF OnePlace

\* From nowhere to a request.
LEMMA NewIsHeld ==
  ASSUME NEW k, NEW r \in Requests, NEW m \in Nat,
         \A i \in Nat : ~ Has(i, k)',
         \A q \in Requests, n \in Nat : Holds(q, n, k)' => q = r /\ n = m,
         \A p \in Pollers : ~ Makes(p, k)'
  PROVE  OnePlace(k)'
BY Zenon DEF OnePlace

\* From nowhere to a poll.
LEMMA NewIsMade ==
  ASSUME NEW k, NEW o \in Pollers,
         \A i \in Nat : ~ Has(i, k)',
         \A q \in Requests, n \in Nat : ~ Holds(q, n, k)',
         \A p \in Pollers : Makes(p, k)' => p = o
  PROVE  OnePlace(k)'
BY Zenon DEF OnePlace

\* What is not an id is nowhere.
LEMMA UnknownIsNowhere ==
  ASSUME Inv, NEW k \in RunIds \ Ids
  PROVE  /\ \A i \in Nat : ~ Has(i, k)
         /\ \A q \in Requests, n \in Nat : ~ Holds(q, n, k)
         /\ \A p \in Pollers : ~ Makes(p, k)
<1>1. None \notin RunIds
  BY ConstantsAssumption DEF RunIds
<1>2. \A i \in Nat : ~ Has(i, k)
  BY <1>1 DEF Inv, RowsOwn, Has, IsRunOf
<1>3. \A q \in Requests, n \in Nat : ~ Holds(q, n, k)
  BY DEF Inv, JobOwn, Holds, IsRunOf
<1>4. \A p \in Pollers : ~ Makes(p, k)
  BY <1>1 DEF Inv, PollOwn, Makes, IsRunOf
<1> QED
  BY <1>2, <1>3, <1>4

\* An id, given or not, that is not blurred has at most one place.
LEMMA AlwaysOnePlace ==
  ASSUME Inv, NEW k \in RunIds \ blurred PROVE OnePlace(k)
<1>1. CASE k \in Ids
  BY <1>1 DEF Inv
<1>2. CASE k \notin Ids
  BY <1>2, UnknownIsNowhere DEF OnePlace
<1> QED
  BY <1>1, <1>2

-----------------------------------------------------------------------------
(* Steps of requests and steps of polls *)

\* One thread moves.
LEMMA GotoMoves ==
  ASSUME Types, NEW t \in Threads, NEW l \in Places, Goto(t, l)
  PROVE  /\ pc' \in [Threads -> Places]
         /\ pc'[t] = l
         /\ \A u \in Threads \ {t} : pc'[u] = pc[u]
BY DEF Types, Goto

\* Requests are not polls.
LEMMA ThreadsDiffer ==
  /\ Requests \subseteq Threads /\ Pollers \subseteq Threads
  /\ \A q \in Requests : q \notin Pollers
BY ConstantsAssumption DEF Threads, Pollers

\* Rows keep the right workflow if each tag written is right.
LEMMA RowsOwnKept ==
  ASSUME RowsOwn, EngStep, RowStep,
         \A i \in RowIds' :
           \/ i \in RowIds /\ rows'[i].tag = rows[i].tag
           \/ rows'[i].tag = None
           \/ WillBeRunOf(rows'[i].tag, rows'[i].wf)
  PROVE  RowsOwn'
<1> SUFFICES ASSUME NEW i \in RowIds', rows'[i].tag # None
             PROVE  WillBeRunOf(rows'[i].tag, rows'[i].wf)
  BY DEF RowsOwn, IsRunOf, WillBeRunOf
<1>1. CASE i \in RowIds /\ rows'[i].tag = rows[i].tag
  BY <1>1 DEF RowsOwn, EngStep, RowStep, IsRunOf, WillBeRunOf
<1> QED
  BY <1>1

\* Ids stay within the bound.
LEMMA EngStepIds ==
  ASSUME EngStep PROVE Ids' \subseteq RunIds
BY ConstantsAssumption DEF EngStep, Ids, RunIds

\* A step of a request keeps the invariant if request and places are right.
LEMMA RequestInv ==
  ASSUME Inv, NEW q \in Requests, NEW l \in Places, Goto(q, l), EngStep, RowStep,
         job' \in [Requests -> Jobs], \A r \in Requests \ {q} : job'[r] = job[r],
         UNCHANGED poll, blurred \subseteq blurred', RowsOwn', JobOwn(q)',
         \A k \in RunIds \ blurred' : OnePlace(k)'
  PROVE  Inv'
<1>1. /\ pc' \in [Threads -> Places]
      /\ \A u \in Threads \ {q} : pc'[u] = pc[u]
  BY GotoMoves, ThreadsDiffer DEF Inv
<1>2. Types'
  BY <1>1 DEF Inv, Types, EngStep, RowStep
<1>3. \A r \in Requests : JobOwn(r)'
  <2> SUFFICES ASSUME NEW r \in Requests \ {q} PROVE JobOwn(r)'
    OBVIOUS
  <2> QED
    BY <1>1, ThreadsDiffer, JobStays DEF Inv
<1>4. \A p \in Pollers : PollOwn(p)'
  <2> SUFFICES ASSUME NEW p \in Pollers PROVE PollOwn(p)'
    OBVIOUS
  <2> QED
    BY <1>1, ThreadsDiffer, PollStays DEF Inv
<1>5. \A k \in Ids' \ blurred' : OnePlace(k)'
  BY EngStepIds
<1> QED
  BY <1>2, <1>3, <1>4, <1>5 DEF Inv

\* The other threads keep what they hold and make.
LEMMA RequestPlaces ==
  ASSUME Types, NEW q \in Requests, NEW l \in Places, Goto(q, l),
         \A r \in Requests \ {q} : job'[r] = job[r], UNCHANGED poll, NEW k
  PROVE  /\ \A p \in Pollers : Makes(p, k)' => Makes(p, k)
         /\ \A r \in Requests \ {q}, n \in Nat : Holds(r, n, k)' => Holds(r, n, k)
<1>1. \A u \in Threads \ {q} : pc'[u] = pc[u]
  BY GotoMoves, ThreadsDiffer
<1>2. \A p \in Pollers : Makes(p, k)' => Makes(p, k)
  BY <1>1, ThreadsDiffer DEF Makes
<1>3. \A r \in Requests \ {q}, n \in Nat : Holds(r, n, k)' => Holds(r, n, k)
  BY DEF Holds
<1> QED
  BY <1>2, <1>3

\* A request that gives up, whatever it has done to Dolphin.
LEMMA AnswerEnds ==
  ASSUME Types, NEW q \in Requests, Answer(q)
  PROVE  /\ job' \in [Requests -> Jobs]
         /\ \A r \in Requests \ {q} : job'[r] = job[r]
         /\ Goto(q, "idle") /\ "idle" \in Places
         /\ JobOwn(q)'
         /\ \A n, k : ~ Holds(q, n, k)'
<1>1. NoJob \in Jobs /\ NoJob.ids = <<>>
  BY DEF NoJob, Jobs, NoRow, NewRow, Copies, Statuses
<1>2. job' = [job EXCEPT ![q] = NoJob] /\ Goto(q, "idle") /\ "idle" \in Places
  BY DEF Answer, Places
<1>3. /\ job' \in [Requests -> Jobs] /\ job'[q] = NoJob
      /\ \A r \in Requests \ {q} : job'[r] = job[r]
  BY <1>1, <1>2 DEF Types
<1>4. pc'[q] = "idle"
  BY <1>2, GotoMoves, ThreadsDiffer
<1>5. JobOwn(q)'
  BY <1>1, <1>3, <1>4 DEF JobOwn
<1>6. \A n, k : ~ Holds(q, n, k)'
  BY <1>1, <1>3 DEF Holds
<1> QED
  BY <1>2, <1>3, <1>5, <1>6

\* A request that gives up keeps the invariant.
LEMMA GiveUpInv ==
  ASSUME Inv, NEW q \in Requests, Answer(q), EngStep, RowStep, RowsOwn',
         UNCHANGED poll, blurred \subseteq blurred',
         \A i \in Nat, k \in RunIds : Has(i, k)' => Has(i, k)
  PROVE  Inv'
<1>1. /\ job' \in [Requests -> Jobs]
      /\ \A r \in Requests \ {q} : job'[r] = job[r]
      /\ Goto(q, "idle") /\ "idle" \in Places
      /\ JobOwn(q)'
      /\ \A n, k : ~ Holds(q, n, k)'
  BY AnswerEnds DEF Inv
<1>2. ASSUME NEW k \in RunIds \ blurred' PROVE OnePlace(k)'
  <2>1. OnePlace(k)
    BY AlwaysOnePlace
  <2>2. /\ \A p \in Pollers : Makes(p, k)' => Makes(p, k)
        /\ \A r \in Requests, n \in Nat : Holds(r, n, k)' => Holds(r, n, k)
    BY <1>1, RequestPlaces DEF Inv
  <2> QED
    BY <2>1, <2>2, PlaceStays
<1> QED
  BY <1>1, <1>2, RequestInv

\* A request that takes up work, on a row or on none.
LEMMA TakeUpInv ==
  ASSUME Inv, NEW q \in Requests, pc[q] = "idle", NEW l \in {"run", "rerun", "batch"},
         Goto(q, l), NEW j \in Jobs, job' = [job EXCEPT ![q] = j], j.ids = <<>>,
         j.wf \in Workflows, UNCHANGED <<eng, poll, blurred>>, RowStep, RowsOwn',
         l # "batch" => j.row \in RowIds' /\ rows'[j.row].wf = j.wf,
         \A i \in Nat, k \in RunIds : Has(i, k)' => Has(i, k)
  PROVE  Inv'
<1>1. /\ job' \in [Requests -> Jobs] /\ job'[q] = j
      /\ \A r \in Requests \ {q} : job'[r] = job[r]
  BY DEF Inv, Types
<1>2. pc'[q] = l /\ l \in Places
  BY GotoMoves, ThreadsDiffer DEF Inv, Places
<1>3. JobOwn(q)'
  BY <1>1, <1>2 DEF JobOwn
<1>4. ASSUME NEW k \in RunIds \ blurred' PROVE OnePlace(k)'
  <2>1. OnePlace(k)
    BY <1>4, AlwaysOnePlace
  <2>2. \A n \in Nat : ~ Holds(q, n, k)'
    BY <1>1 DEF Holds
  <2>3. /\ \A p \in Pollers : Makes(p, k)' => Makes(p, k)
        /\ \A r \in Requests, n \in Nat : Holds(r, n, k)' => Holds(r, n, k)
    BY <1>1, <1>2, <2>2, RequestPlaces DEF Inv
  <2> QED
    BY <2>1, <2>3, PlaceStays
<1> QED
  BY <1>1, <1>2, <1>3, <1>4, RequestInv, EngSame DEF Inv

\* Changes of a job keep its type.
LEMMA JobChanges ==
  ASSUME NEW j \in Jobs, NEW w \in Workflows, NEW n \in Nat
  PROVE  [j EXCEPT !.wf = w, !.row = n] \in Jobs /\ [j EXCEPT !.wf = w, !.left = n] \in Jobs
BY DEF Jobs

\* run_workflow commits its row.
LEMMA RunInsertInv ==
  ASSUME Inv, NEW q \in Requests, NEW w \in Workflows, RunInsert(q, w) PROVE Inv'
<1> DEFINE row == NewRow(w, None)
           j == [job[q] EXCEPT !.wf = w, !.row = Len(rows) + 1]
<1>1. /\ pc[q] = "idle" /\ Insert(row) /\ Goto(q, "run")
      /\ job' = [job EXCEPT ![q] = j] /\ UNCHANGED <<eng, poll, blurred>>
  BY DEF RunInsert, Inv, Types
<1>2. row \in Rows /\ row.wf = w /\ row.tag = None
  BY DEF NewRow, Rows, Statuses
<1>3. job[q] \in Jobs /\ job[q].ids = <<>> /\ Len(rows) + 1 \in Nat
  BY <1>1, IdsAreRunIds DEF Inv, Types, JobOwn
<1>4. j \in Jobs /\ j.wf = w /\ j.row = Len(rows) + 1 /\ j.ids = <<>>
  <2>1. PICK old \in Jobs : old = job[q]
    BY <1>3
  <2>2. [old EXCEPT !.wf = w, !.row = Len(rows) + 1] \in Jobs
    BY <1>3, JobChanges
  <2> QED
    BY <1>3, <2>1, <2>2 DEF Jobs
<1> HIDE DEF row, j
<1>5. /\ RowStep /\ RowIds' = RowIds \cup {Len(rows) + 1}
      /\ rows'[Len(rows) + 1] = row
      /\ \A i \in RowIds : rows'[i] = rows[i]
  BY <1>1, <1>2, RowsInsert DEF Inv
<1>6. \A i \in Nat, k \in RunIds : Has(i, k)' => Has(i, k)
  BY <1>2, <1>5, ConstantsAssumption DEF Has, RunIds
<1>7. RowsOwn'
  BY <1>1, <1>2, <1>5, RowsOwnKept, EngSame DEF Inv
<1> QED
  BY <1>1, <1>2, <1>4, <1>5, <1>6, <1>7, TakeUpInv

\* rerun_instance reads its row.
LEMMA RerunLoadInv ==
  ASSUME Inv, NEW q \in Requests, NEW i \in RowIds, RerunLoad(q, i) PROVE Inv'
<1> DEFINE j == [job[q] EXCEPT !.wf = rows[i].wf, !.row = i, !.seen = rows[i]]
<1>1. /\ pc[q] = "idle" /\ Goto(q, "rerun")
      /\ job' = [job EXCEPT ![q] = j] /\ UNCHANGED <<eng, rows, poll, blurred>>
  BY DEF RerunLoad, Inv, Types
<1>2. rows[i] \in Rows /\ i \in Nat
  BY IdsAreRunIds DEF Inv, Types, RowIds
<1>3. job[q] \in Jobs /\ job[q].ids = <<>>
  BY <1>1 DEF Inv, Types, JobOwn
<1>4. j \in Jobs /\ j.wf = rows[i].wf /\ j.row = i /\ j.ids = <<>> /\ j.wf \in Workflows
  BY <1>2, <1>3 DEF Jobs, Rows, Copies
<1> HIDE DEF j
<1>5. RowStep /\ RowIds' = RowIds /\ \A m, k : Has(m, k)' => Has(m, k)
  BY <1>1, RowsSame DEF Inv, RowIds
<1>6. RowsOwn'
  BY <1>1, <1>5, RowsOwnKept, EngSame DEF Inv
<1> QED
  BY <1>1, <1>4, <1>5, <1>6, TakeUpInv

\* batch_run_workflow begins.
LEMMA BatchBeginInv ==
  ASSUME Inv, NEW q \in Requests, NEW w \in Workflows, NEW n \in 1 .. MaxRuns,
         BatchBegin(q, w, n)
  PROVE  Inv'
<1> DEFINE j == [job[q] EXCEPT !.wf = w, !.left = n]
<1>1. /\ pc[q] = "idle" /\ Goto(q, "batch")
      /\ job' = [job EXCEPT ![q] = j] /\ UNCHANGED <<eng, rows, poll, blurred>>
  BY DEF BatchBegin, Inv, Types
<1>2. job[q] \in Jobs /\ job[q].ids = <<>> /\ n \in Nat
  BY <1>1 DEF Inv, Types, JobOwn
<1>3. j \in Jobs /\ j.wf = w /\ j.ids = <<>>
  <2>1. PICK old \in Jobs : old = job[q]
    BY <1>2
  <2>2. [old EXCEPT !.wf = w, !.left = n] \in Jobs
    BY <1>2, JobChanges
  <2> QED
    BY <1>2, <2>1, <2>2 DEF Jobs
<1> HIDE DEF j
<1>4. RowStep /\ \A m, k : Has(m, k)' => Has(m, k)
  BY <1>1, RowsSame DEF Inv
<1>5. RowsOwn'
  BY <1>1, <1>4, RowsOwnKept, EngSame DEF Inv, RowIds
<1> QED
  BY <1>1, <1>3, <1>4, <1>5, TakeUpInv

\* A new process instance is held by the request that has started it.
LEMMA StartInv ==
  ASSUME Inv, NEW q \in Requests, NEW l \in {"tag", "retie", "batch"}, Goto(q, l),
         pc[q] \in {"run", "rerun", "batch"}, l = "batch" <=> pc[q] = "batch",
         StartRun(job[q].wf), NEW j \in Jobs, job' = [job EXCEPT ![q] = j],
         j.wf = job[q].wf, j.row = job[q].row, NEW m \in Nat,
         DOMAIN j.ids \subseteq DOMAIN job[q].ids \cup {m},
         \A n \in DOMAIN j.ids \ {m} : j.ids[n] = job[q].ids[n],
         m \in DOMAIN j.ids, j.ids[m] = Len(eng) + 1,
         l # "batch" => Len(j.ids) = 1,
         UNCHANGED <<rows, poll, blurred>>
  PROVE  Inv'
<1>1. job[q].wf \in Workflows /\ JobOwn(q)
  BY DEF Inv, JobOwn
<1>2. /\ EngStep
      /\ Len(eng) + 1 \in RunIds \ Ids
      /\ WillBeRunOf(Len(eng) + 1, job[q].wf)
  BY <1>1, EngStarts DEF Inv
<1>3. RowStep /\ RowIds' = RowIds /\ \A i, k : Has(i, k)' => Has(i, k)
  BY RowsSame DEF Inv, RowIds
<1>4. RowsOwn'
  BY <1>2, <1>3, RowsOwnKept DEF Inv
<1>5. /\ job' \in [Requests -> Jobs] /\ job'[q] = j
      /\ \A r \in Requests \ {q} : job'[r] = job[r]
  BY DEF Inv, Types
<1>6. pc'[q] = l /\ l \in Places
  BY GotoMoves, ThreadsDiffer DEF Inv, Places
<1>7. \A n \in DOMAIN j.ids : WillBeRunOf(j.ids[n], job[q].wf)
  BY <1>1, <1>2 DEF JobOwn, EngStep, IsRunOf, WillBeRunOf
<1>8. JobOwn(q)'
  BY <1>1, <1>3, <1>5, <1>6, <1>7 DEF JobOwn, IsRunOf, WillBeRunOf
<1>9. ASSUME NEW k \in RunIds \ blurred' PROVE OnePlace(k)'
  <2>1. /\ \A p \in Pollers : Makes(p, k)' => Makes(p, k)
        /\ \A r \in Requests \ {q}, n \in Nat : Holds(r, n, k)' => Holds(r, n, k)
    BY <1>5, <1>6, RequestPlaces DEF Inv
  <2>2. CASE k = Len(eng) + 1
    <3>1. /\ \A i \in Nat : ~ Has(i, k)
          /\ \A r \in Requests, n \in Nat : ~ Holds(r, n, k)
          /\ \A p \in Pollers : ~ Makes(p, k)
      BY <1>2, <2>2, UnknownIsNowhere
    <3>2. \A n \in Nat : Holds(q, n, k)' => n = m
      BY <1>5, <3>1 DEF Holds
    <3>3. /\ \A i \in Nat : ~ Has(i, k)'
          /\ \A p \in Pollers : ~ Makes(p, k)'
      BY <1>3, <2>1, <3>1
    <3>4. \A r \in Requests, n \in Nat : Holds(r, n, k)' => r = q /\ n = m
      BY <2>1, <3>1, <3>2
    <3> QED
      BY <3>3, <3>4, NewIsHeld
  <2>3. CASE k # Len(eng) + 1
    <3>1. OnePlace(k)
      BY <1>9, AlwaysOnePlace
    <3>2. \A n \in Nat : Holds(q, n, k)' => Holds(q, n, k)
      BY <1>5, <2>3 DEF Holds
    <3> QED
      BY <1>3, <2>1, <3>1, <3>2, PlaceStays
  <2> QED
    BY <2>2, <2>3
<1> QED
  BY <1>2, <1>3, <1>4, <1>5, <1>6, <1>8, <1>9, RequestInv

\* A job with other ids is a job.
LEMMA JobIds ==
  ASSUME NEW j \in Jobs, NEW ids \in Seq(RunIds), NEW n \in Nat
  PROVE  [j EXCEPT !.ids = ids] \in Jobs /\ [j EXCEPT !.ids = ids, !.left = n] \in Jobs
BY DEF Jobs

TakesFirst(q) == job' = [job EXCEPT ![q].ids = <<Len(eng) + 1>>]

\* A run or a rerun starts its one process instance.
LEMMA StartOneInv ==
  ASSUME Inv, NEW q \in Requests, pc[q] \in {"run", "rerun"}, NEW l \in {"tag", "retie"},
         Goto(q, l), StartRun(job[q].wf),
         TakesFirst(q), UNCHANGED <<rows, poll, blurred>>
  PROVE  Inv'
<1>1. Len(eng) + 1 \in RunIds
  BY EngStarts DEF Inv, JobOwn
<1>2. PICK old \in Jobs : old = job[q]
  BY DEF Inv, Types
<1> DEFINE ids == <<Len(eng) + 1>>
<1>3. ids \in Seq(RunIds)
  BY <1>1
<1>4. Len(ids) = 1 /\ DOMAIN ids = {1} /\ ids[1] = Len(eng) + 1
  BY <1>1
<1>5. PICK j : j = [old EXCEPT !.ids = ids]
  OBVIOUS
<1>6. j \in Jobs
  BY <1>3, <1>5, JobIds
<1>7. j.wf = old.wf /\ j.row = old.row /\ j.ids = ids
  BY <1>2, <1>5 DEF Jobs
<1>8. job' = [job EXCEPT ![q] = j]
  BY <1>2, <1>5 DEF TakesFirst
<1> HIDE DEF ids
<1>9. PICK m \in Nat :
        /\ DOMAIN j.ids \subseteq DOMAIN job[q].ids \cup {m}
        /\ \A n \in DOMAIN j.ids \ {m} : j.ids[n] = job[q].ids[n]
        /\ m \in DOMAIN j.ids /\ j.ids[m] = Len(eng) + 1 /\ Len(j.ids) = 1
  BY <1>4, <1>7
<1>10. /\ l \in {"tag", "retie", "batch"} /\ l # "batch" /\ pc[q] # "batch"
       /\ pc[q] \in {"run", "rerun", "batch"}
       /\ j.wf = job[q].wf /\ j.row = job[q].row
  BY <1>2, <1>7
<1>11. CASE l = "tag"
  <2>1. Goto(q, "tag") /\ "tag" \in {"tag", "retie", "batch"} /\ "tag" # "batch"
    BY <1>11
  <2> QED
    BY <1>6, <1>8, <1>9, <1>10, <2>1, StartInv
<1>12. CASE l = "retie"
  <2>1. Goto(q, "retie") /\ "retie" \in {"tag", "retie", "batch"} /\ "retie" # "batch"
    BY <1>12
  <2> QED
    BY <1>6, <1>8, <1>9, <1>10, <2>1, StartInv
<1> QED
  BY <1>11, <1>12

\* A batch starts its next process instance.
LEMMA BatchStartInv ==
  ASSUME Inv, NEW q \in Requests, BatchStart(q) PROVE Inv'
<1>1. /\ pc[q] = "batch" /\ StartRun(job[q].wf) /\ UNCHANGED <<rows, pc, poll, blurred>>
      /\ job' = [job EXCEPT ![q].ids = Append(@, Len(eng) + 1), ![q].left = @ - 1]
      /\ job[q].left > 0
  BY DEF BatchStart
<1>2. Len(eng) + 1 \in RunIds
  BY <1>1, EngStarts DEF Inv, JobOwn
<1>3. PICK old \in Jobs : old = job[q]
  BY DEF Inv, Types
<1>4. old.ids \in Seq(RunIds) /\ old.left \in Nat /\ old.left > 0
  BY <1>1, <1>3 DEF Jobs
<1> DEFINE ids == Append(old.ids, Len(eng) + 1)
<1>5. ids \in Seq(RunIds)
  BY <1>2, <1>4
<1>6. PICK n \in Nat : n = old.left - 1
  BY <1>4
<1>7. PICK m \in Nat : m = Len(old.ids) + 1
  BY <1>4
<1>8. /\ DOMAIN ids = DOMAIN old.ids \cup {m} /\ ids[m] = Len(eng) + 1
      /\ \A i \in DOMAIN old.ids : ids[i] = old.ids[i]
  BY <1>2, <1>4, <1>7
<1>9. PICK j : j = [old EXCEPT !.ids = ids, !.left = n]
  OBVIOUS
<1>10. j \in Jobs
  BY <1>5, <1>9, JobIds
<1>11. j.wf = old.wf /\ j.row = old.row /\ j.ids = ids
  BY <1>3, <1>9 DEF Jobs
<1>12. job' = [job EXCEPT ![q] = j]
  BY <1>1, <1>3, <1>6, <1>9
<1> HIDE DEF ids
<1>13. /\ DOMAIN j.ids \subseteq DOMAIN job[q].ids \cup {m}
       /\ \A i \in DOMAIN j.ids \ {m} : j.ids[i] = job[q].ids[i]
       /\ m \in DOMAIN j.ids /\ j.ids[m] = Len(eng) + 1
  BY <1>3, <1>8, <1>11
<1>14. Goto(q, "batch")
  BY <1>1, ThreadsDiffer DEF Goto, Inv, Types
<1>15. j.wf = job[q].wf /\ j.row = job[q].row
  BY <1>3, <1>11
<1> QED
  BY <1>1, <1>10, <1>12, <1>13, <1>14, <1>15, StartInv

\* The only id that a request holds becomes the tag of its row.
LEMMA TieInv ==
  ASSUME Inv, NEW q \in Requests, pc[q] \in {"tag", "retie"}, Answer(q),
         NEW seen \in Copies, NEW new \in Copies, new.tag = Head(job[q].ids),
         Update(job[q].row, seen, new), UNCHANGED <<eng, poll>>
  PROVE  Inv'
<1> DEFINE id == job[q].ids[1]
           i == job[q].row
<1>1. JobOwn(q) /\ job[q].ids \in Seq(RunIds)
  BY DEF Inv, Types, Jobs
<1>2. 1 \in DOMAIN job[q].ids /\ new.tag = id /\ id # None
  BY <1>1, ConstantsAssumption DEF JobOwn, RunIds
<1>3. i \in RowIds /\ rows[i].wf = job[q].wf /\ IsRunOf(id, job[q].wf)
  BY <1>1, <1>2 DEF JobOwn
<1>4. Update(i, seen, new)
  OBVIOUS
<1> HIDE DEF id, i
<1>5. /\ RowStep /\ RowIds' = RowIds /\ blurred \subseteq blurred'
      /\ rows'[i].tag \in {rows[i].tag, id}
      /\ \A j \in RowIds : j # i => rows'[j] = rows[j]
  BY <1>2, <1>3, <1>4, RowsUpdate DEF Inv
<1>6. EngStep
  BY EngSame DEF Inv
<1>7. RowsOwn'
  <2>1. WillBeRunOf(id, rows'[i].wf)
    BY <1>3, <1>5 DEF IsRunOf, WillBeRunOf, RowStep, Ids
  <2> QED
    BY <1>5, <1>6, <2>1, RowsOwnKept DEF Inv
<1>8. /\ job' \in [Requests -> Jobs]
      /\ \A r \in Requests \ {q} : job'[r] = job[r]
      /\ Goto(q, "idle") /\ "idle" \in Places
      /\ JobOwn(q)'
      /\ \A n, k : ~ Holds(q, n, k)'
  BY AnswerEnds DEF Inv
<1>9. ASSUME NEW k \in RunIds \ blurred' PROVE OnePlace(k)'
  <2>1. OnePlace(k)
    BY <1>5, <1>9, AlwaysOnePlace
  <2>2. /\ \A p \in Pollers : Makes(p, k)' => Makes(p, k)
        /\ \A r \in Requests, n \in Nat : Holds(r, n, k)' => Holds(r, n, k) /\ r # q
    BY <1>8, RequestPlaces DEF Inv
  <2>3. CASE k = id
    <3>1. Holds(q, 1, k) /\ i \in Nat
      BY <1>2, <1>3, <2>3, IdsAreRunIds DEF Holds, id, Inv
    <3>2. \A j \in Nat : Has(j, k)' => Has(j, k) \/ j = i
      BY <1>5 DEF Has
    <3> QED
      BY <2>1, <2>2, <3>1, <3>2, HeldBecomesRow
  <2>4. CASE k # id
    <3>1. \A j \in Nat : Has(j, k)' => Has(j, k)
      BY <1>5, <2>4 DEF Has
    <3> QED
      BY <2>1, <2>2, <3>1, PlaceStays
  <2> QED
    BY <2>3, <2>4
<1> QED
  BY <1>5, <1>6, <1>7, <1>8, <1>9, RequestInv

\* run_workflow writes the tag.
LEMMA RunTagInv ==
  ASSUME Inv, NEW q \in Requests, RunTag(q) PROVE Inv'
<1>1. job[q] \in Jobs /\ Len(job[q].ids) = 1 /\ pc[q] = "tag"
  BY DEF RunTag, Inv, Types, JobOwn
<1>2. Head(job[q].ids) \in RunIds
  BY <1>1 DEF Jobs
<1>3. Made(q) \in Copies /\ NewRow(job[q].wf, Head(job[q].ids)) \in Copies
  BY <1>1, <1>2 DEF Made, NewRow, Copies, Statuses, Jobs
<1>4. NewRow(job[q].wf, Head(job[q].ids)).tag = Head(job[q].ids)
  BY DEF NewRow
<1> QED
  BY <1>1, <1>3, <1>4, TieInv DEF RunTag

\* rerun_instance reties the row.
LEMMA RerunWriteInv ==
  ASSUME Inv, NEW q \in Requests, RerunWrite(q) PROVE Inv'
<1>1. job[q] \in Jobs /\ Len(job[q].ids) = 1 /\ pc[q] = "retie"
  BY DEF RerunWrite, Inv, Types, JobOwn
<1>2. Head(job[q].ids) \in RunIds /\ job[q].seen \in Copies
  BY <1>1 DEF Jobs
<1>3. PICK new : new = [job[q].seen EXCEPT !.status = "running", !.tag = Head(job[q].ids)]
  OBVIOUS
<1>4. new \in Copies /\ new.tag = Head(job[q].ids)
  BY <1>2, <1>3 DEF Copies, Statuses
<1>5. Update(job[q].row, job[q].seen, new) /\ Answer(q) /\ UNCHANGED <<eng, poll>>
  BY <1>3 DEF RerunWrite
<1> QED
  BY <1>1, <1>2, <1>4, <1>5, TieInv

\* A call that fails starts a process instance or none.
LEMMA CallFailsEng ==
  ASSUME Types, NEW w \in Workflows, CallFails(w) PROVE EngStep
BY EngSame, EngStarts DEF CallFails

\* run_workflow marks its row as failed.
LEMMA RunFailsInv ==
  ASSUME Inv, NEW q \in Requests, RunFails(q) PROVE Inv'
<1>1. /\ pc[q] = "run" /\ job[q] \in Jobs /\ job[q].wf \in Workflows /\ job[q].row \in RowIds
  BY DEF RunFails, Inv, Types, JobOwn
<1>2. EngStep
  BY <1>1, CallFailsEng DEF RunFails, Inv
<1>3. PICK new : new = [Made(q) EXCEPT !.status = "failed"]
  OBVIOUS
<1>4. Made(q) \in Copies
  BY <1>1 DEF Made, NewRow, Copies, Statuses
<1>5. new \in Copies /\ new.tag = Made(q).tag
  BY <1>3, <1>4, ConstantsAssumption DEF Copies, Statuses
<1>6. Update(job[q].row, Made(q), new) /\ Answer(q) /\ UNCHANGED poll
  BY <1>3 DEF RunFails
<1>7. RowStep /\ blurred \subseteq blurred' /\ RowIds' = RowIds /\ \A j \in RowIds : rows'[j].tag = rows[j].tag
  BY <1>1, <1>4, <1>5, <1>6, RowsUpdate DEF Inv
<1>8. RowsOwn'
  BY <1>2, <1>7, RowsOwnKept DEF Inv
<1>9. \A i \in Nat, k \in RunIds : Has(i, k)' => Has(i, k)
  BY <1>7 DEF Has
<1> QED
  BY <1>2, <1>6, <1>7, <1>8, <1>9, GiveUpInv

\* A request that fails and leaves the table alone.
LEMMA FailInv ==
  ASSUME Inv, NEW q \in Requests, pc[q] # "idle", CallFails(job[q].wf), Answer(q),
         UNCHANGED <<rows, poll, blurred>>
  PROVE  Inv'
<1>1. EngStep
  BY CallFailsEng DEF Inv, JobOwn
<1>2. RowStep /\ RowIds' = RowIds /\ \A i, k : Has(i, k)' => Has(i, k)
  BY RowsSame DEF Inv, RowIds
<1>3. RowsOwn'
  BY <1>1, <1>2, RowsOwnKept DEF Inv
<1> QED
  BY <1>1, <1>2, <1>3, GiveUpInv

\* A batch commits its rows: each id moves from the request to a row.
LEMMA BatchCommitInv ==
  ASSUME Inv, NEW q \in Requests, BatchCommit(q) PROVE Inv'
<1> DEFINE ids == job[q].ids
           w == job[q].wf
<1>1. ids \in Seq(RunIds) /\ w \in Workflows /\ \A n \in DOMAIN ids : IsRunOf(ids[n], w)
  BY DEF BatchCommit, Inv, Types, Jobs, JobOwn
<1>2. /\ rows' = rows \o [n \in DOMAIN ids |-> NewRow(w, ids[n])]
      /\ Answer(q) /\ UNCHANGED <<eng, poll, blurred>>
  BY DEF BatchCommit
<1>3. \A n \in DOMAIN ids : \A k : ids[n] = k => Holds(q, n, k)
  BY DEF Holds
<1> HIDE DEF ids, w
<1>4. /\ RowStep
      /\ \A i \in RowIds' \ RowIds :
           i - Len(rows) \in DOMAIN ids /\ rows'[i] = NewRow(w, ids[i - Len(rows)])
      /\ \A j \in RowIds : rows'[j] = rows[j]
  BY <1>1, <1>2, RowsBatch DEF Inv
<1>5. EngStep
  BY <1>2, EngSame DEF Inv
<1>6. RowsOwn'
  <2>1. ASSUME NEW i \in RowIds' \ RowIds PROVE WillBeRunOf(rows'[i].tag, rows'[i].wf)
    <3>1. PICK n \in DOMAIN ids : rows'[i] = NewRow(w, ids[n])
      BY <1>4, <2>1
    <3>2. rows'[i].tag = ids[n] /\ rows'[i].wf = w
      BY <3>1 DEF NewRow
    <3> QED
      BY <1>1, <1>2, <3>2 DEF IsRunOf, WillBeRunOf, Ids
  <2> QED
    BY <1>4, <1>5, <2>1, RowsOwnKept DEF Inv
<1>7. /\ job' \in [Requests -> Jobs]
      /\ \A r \in Requests \ {q} : job'[r] = job[r]
      /\ Goto(q, "idle") /\ "idle" \in Places
      /\ JobOwn(q)'
      /\ \A n, k : ~ Holds(q, n, k)'
  BY <1>2, AnswerEnds DEF Inv
<1>8. Len(rows) \in Nat
  BY IdsAreRunIds DEF Inv
<1>9. ASSUME NEW k \in RunIds \ blurred' PROVE OnePlace(k)'
  <2>1. OnePlace(k)
    BY <1>2, <1>9, AlwaysOnePlace
  <2>2. /\ \A p \in Pollers : Makes(p, k)' => Makes(p, k)
        /\ \A r \in Requests, n \in Nat : Holds(r, n, k)' => Holds(r, n, k) /\ r # q
    BY <1>2, <1>7, RequestPlaces DEF Inv
  <2>3. \A i \in Nat : Has(i, k)' => \/ Has(i, k)
                                      \/ /\ i - Len(rows) \in DOMAIN ids
                                         /\ ids[i - Len(rows)] = k
    <3>1. \A n : NewRow(w, ids[n]).tag = ids[n]
      BY DEF NewRow
    <3> QED
      BY <1>4, <3>1 DEF Has
  <2>4. CASE \E n \in DOMAIN ids : ids[n] = k
    <3>1. PICK n \in DOMAIN ids : ids[n] = k
      BY <2>4
    <3>2. Holds(q, n, k) /\ n \in Nat
      BY <1>1, <1>3, <3>1
    <3>3. \A m \in DOMAIN ids : ids[m] = k => m = n
      BY <1>1, <1>3, <2>1, <3>2 DEF OnePlace
    <3>4. \A i \in Nat : Has(i, k)' => Has(i, k) \/ i = Len(rows) + n
      BY <1>8, <2>3, <3>2, <3>3
    <3>5. Len(rows) + n \in Nat
      BY <1>8, <3>2
    <3> QED
      BY <2>1, <2>2, <3>2, <3>4, <3>5, HeldBecomesRow
  <2>5. CASE ~ \E n \in DOMAIN ids : ids[n] = k
    BY <2>1, <2>2, <2>3, <2>5, PlaceStays
  <2> QED
    BY <2>4, <2>5
<1> QED
  BY <1>2, <1>4, <1>5, <1>6, <1>7, <1>9, RequestInv
\* run_workflow asks Dolphin to run.
LEMMA RunStartInv ==
  ASSUME Inv, NEW q \in Requests, RunStart(q) PROVE Inv'
<1>1. pc[q] = "run" /\ Goto(q, "tag") /\ StartRun(job[q].wf) /\ TakesFirst(q)
      /\ UNCHANGED <<rows, poll, blurred>>
  BY DEF RunStart, TakesFirst
<1> QED
  BY <1>1, StartOneInv

\* rerun_instance asks Dolphin to run.
LEMMA RerunStartInv ==
  ASSUME Inv, NEW q \in Requests, RerunStart(q) PROVE Inv'
<1>1. pc[q] = "rerun" /\ Goto(q, "retie") /\ StartRun(job[q].wf) /\ TakesFirst(q)
      /\ UNCHANGED <<rows, poll, blurred>>
  BY DEF RerunStart, TakesFirst
<1> QED
  BY <1>1, StartOneInv

\* A request whose commit fails has changed nothing.
LEMMA RequestLostInv ==
  ASSUME Inv, NEW q \in Requests, RequestLost(q) PROVE Inv'
<1>1. Answer(q) /\ UNCHANGED <<eng, rows, poll, blurred>>
  BY DEF RequestLost
<1>2. EngStep /\ RowStep /\ RowIds' = RowIds /\ \A i, k : Has(i, k)' => Has(i, k)
  BY <1>1, EngSame, RowsSame DEF Inv, RowIds
<1>3. RowsOwn'
  BY <1>1, <1>2, RowsOwnKept DEF Inv
<1> QED
  BY <1>1, <1>2, <1>3, GiveUpInv

\* All steps of requests.
LEMMA RequestStepInv ==
  ASSUME Inv, NEW q \in Requests, RequestStep(q) PROVE Inv'
<1>1. CASE RerunFails(q)
  BY <1>1, FailInv DEF RerunFails
<1>2. CASE BatchFails(q)
  BY <1>2, FailInv DEF BatchFails
<1> QED
  BY <1>1, <1>2, RunStartInv, RunTagInv, RunFailsInv, RerunStartInv, RerunWriteInv,
     BatchStartInv, BatchCommitInv, RequestLostInv DEF RequestStep

-----------------------------------------------------------------------------
(* Polls *)

\* A step of a poll keeps the invariant if poll and places are right.
LEMMA PollInv ==
  ASSUME Inv, NEW p \in Pollers, NEW l \in Places, Goto(p, l), UNCHANGED <<eng, job>>,
         RowStep, NEW o \in Polls, poll' = [poll EXCEPT ![p] = o],
         blurred \subseteq blurred', RowsOwn', PollOwn(p)',
         \A k \in RunIds \ blurred' : OnePlace(k)'
  PROVE  Inv'
<1>1. /\ pc' \in [Threads -> Places]
      /\ \A u \in Threads \ {p} : pc'[u] = pc[u]
  BY GotoMoves, ThreadsDiffer DEF Inv
<1>2. EngStep
  BY EngSame DEF Inv
<1>3. /\ poll' \in [Pollers -> Polls]
      /\ \A u \in Pollers \ {p} : poll'[u] = poll[u]
  BY DEF Inv, Types
<1>4. Types'
  BY <1>1, <1>3 DEF Inv, Types, RowStep
<1>5. \A q \in Requests : JobOwn(q)'
  <2> SUFFICES ASSUME NEW q \in Requests PROVE JobOwn(q)'
    OBVIOUS
  <2> QED
    BY <1>1, <1>2, ThreadsDiffer, JobStays DEF Inv
<1>6. \A u \in Pollers : PollOwn(u)'
  <2> SUFFICES ASSUME NEW u \in Pollers \ {p} PROVE PollOwn(u)'
    OBVIOUS
  <2> QED
    BY <1>1, <1>2, <1>3, ThreadsDiffer, PollStays DEF Inv
<1>7. \A k \in Ids' \ blurred' : OnePlace(k)'
  BY <1>2, EngStepIds
<1> QED
  BY <1>4, <1>5, <1>6, <1>7 DEF Inv

\* The other threads keep what they hold and make.
LEMMA PollPlaces ==
  ASSUME Types, NEW p \in Pollers, NEW l \in Places, Goto(p, l), UNCHANGED job,
         NEW o \in Polls, poll' = [poll EXCEPT ![p] = o], NEW k
  PROVE  /\ \A u \in Pollers \ {p} : Makes(u, k)' => Makes(u, k)
         /\ \A q \in Requests, n \in Nat : Holds(q, n, k)' => Holds(q, n, k)
         /\ Makes(p, k)' => l = "found" /\ o.row = 0 /\ o.read.tag = k
<1>1. pc'[p] = l /\ poll'[p] = o
      /\ \A u \in Pollers \ {p} : pc'[u] = pc[u] /\ poll'[u] = poll[u]
  BY GotoMoves, ThreadsDiffer DEF Types
<1> QED
  BY <1>1 DEF Makes, Holds

\* A poll that goes on without a row in its hands.
LEMMA PollReads ==
  ASSUME Inv, NEW p \in Pollers, NEW l \in {"idle", "scan", "patch", "refresh"},
         Goto(p, l), UNCHANGED <<eng, rows, job, blurred>>,
         NEW o \in Polls, poll' = [poll EXCEPT ![p] = o], o.row = 0,
         \A x \in o.list : x.id \in Ids, o.cands \subseteq Tagged
  PROVE  Inv'
<1>1. l \in Places /\ l \notin {"found", "patched", "refreshed"}
  BY DEF Places
<1>2. RowStep /\ RowIds' = RowIds /\ Tagged' = Tagged /\ \A i, k : Has(i, k)' => Has(i, k)
  BY RowsSame DEF Inv, RowIds, Tagged
<1>3. RowsOwn'
  BY <1>2, RowsOwnKept, EngSame DEF Inv
<1>4. pc'[p] = l /\ poll'[p] = o
  BY <1>1, GotoMoves, ThreadsDiffer DEF Inv, Types
<1>5. PollOwn(p)'
  BY <1>1, <1>2, <1>4 DEF PollOwn, Ids
<1>6. ASSUME NEW k \in RunIds \ blurred' PROVE OnePlace(k)'
  <2>1. OnePlace(k)
    BY <1>6, AlwaysOnePlace
  <2>2. /\ \A u \in Pollers : Makes(u, k)' => Makes(u, k)
        /\ \A q \in Requests, n \in Nat : Holds(q, n, k)' => Holds(q, n, k)
    BY <1>1, PollPlaces DEF Inv
  <2> QED
    BY <1>2, <2>1, <2>2, PlaceStays
<1> QED
  BY <1>1, <1>2, <1>3, <1>5, <1>6, PollInv

\* A poll that has no row in its hands.
LEMMA PollIsOwn ==
  ASSUME Inv, NEW p \in Pollers, pc[p] \notin {"found", "patched", "refreshed"}
  PROVE  /\ poll[p] \in Polls /\ poll[p].row = 0
         /\ \A x \in poll[p].list : x.id \in Ids
         /\ poll[p].cands \subseteq Tagged
BY DEF Inv, Types, PollOwn

\* A synchronisation begins.
LEMMA SyncBeginInv ==
  ASSUME Inv, NEW p \in Syncs, SyncBegin(p) PROVE Inv'
<1>1. p \in Pollers /\ pc[p] = "idle" /\ Goto(p, "scan") /\ UNCHANGED <<eng, rows, job, blurred>>
      /\ poll' = [poll EXCEPT ![p].todo = Workflows]
  BY DEF SyncBegin, Pollers
<1>2. PICK old \in Polls : old = poll[p]
  BY <1>1, PollIsOwn
<1>3. PICK o : o = [old EXCEPT !.todo = Workflows]
  OBVIOUS
<1>4. o \in Polls /\ o.row = old.row /\ o.list = old.list /\ o.cands = old.cands
  BY <1>3 DEF Polls
<1>5. poll' = [poll EXCEPT ![p] = o]
  BY <1>1, <1>2, <1>3
<1>6. o.row = 0 /\ (\A x \in o.list : x.id \in Ids) /\ o.cands \subseteq Tagged
  BY <1>1, <1>2, <1>4, PollIsOwn
<1> QED
  BY <1>1, <1>4, <1>5, <1>6, PollReads

\* A list names process instances.
LEMMA ListedAreIds ==
  ASSUME Types, NEW w
  PROVE  Listed(w) \in SUBSET [id : RunIds, state : Statuses] /\ \A x \in Listed(w) : x.id \in Ids
<1>1. \A k \in Ids : eng[k] \in Runs /\ k \in RunIds
  BY IdsAreRunIds DEF Types, Ids
<1>2. ASSUME NEW x \in Listed(w) PROVE x \in [id : RunIds, state : Statuses] /\ x.id \in Ids
  <2>1. PICK k \in Ids : x = [id |-> k, state |-> eng[k].state]
    BY DEF Listed, Newest
  <2>2. eng[k].state \in Statuses
    BY <1>1 DEF Runs
  <2> QED
    BY <1>1, <2>1, <2>2
<1> QED
  BY <1>2

\* A list is read, or the call fails.
LEMMA SyncListInv ==
  ASSUME Inv, NEW p \in Pollers, NEW w \in Workflows, SyncList(p, w) PROVE Inv'
<1>1. pc[p] = "scan" /\ UNCHANGED <<eng, rows, pc, job, blurred>> /\ poll[p].list = {}
  BY DEF SyncList
<1>2. Goto(p, "scan")
  BY <1>1, ThreadsDiffer DEF Goto, Inv, Types
<1>3. PICK old \in Polls : old = poll[p]
  BY <1>1, PollIsOwn
<1>4. PICK list \in {Listed(w), old.list} :
        poll' = [poll EXCEPT ![p] = [old EXCEPT !.todo = @ \ {w}, !.list = list]]
  <2>1. CASE poll' = [poll EXCEPT ![p].todo = @ \ {w}, ![p].list = Listed(w)]
    BY <1>3, <2>1
  <2>2. CASE poll' = [poll EXCEPT ![p].todo = @ \ {w}]
    <3>1. [old EXCEPT !.todo = @ \ {w}] = [old EXCEPT !.todo = @ \ {w}, !.list = old.list]
      BY DEF Polls
    <3> QED
      BY <1>3, <2>2, <3>1
  <2> QED
    BY <2>1, <2>2 DEF SyncList
<1>5. list \in SUBSET [id : RunIds, state : Statuses] /\ \A x \in list : x.id \in Ids
  BY <1>1, <1>3, <1>4, ListedAreIds, PollIsOwn DEF Inv, Polls
<1>6. PICK o : o = [old EXCEPT !.todo = @ \ {w}, !.list = list]
  OBVIOUS
<1>7. o \in Polls /\ o.row = old.row /\ o.list = list /\ o.cands = old.cands
  BY <1>5, <1>6 DEF Polls
<1>8. poll' = [poll EXCEPT ![p] = o]
  BY <1>4, <1>6
<1>9. o.row = 0 /\ (\A x \in o.list : x.id \in Ids) /\ o.cands \subseteq Tagged
  BY <1>1, <1>3, <1>5, <1>7, PollIsOwn
<1> QED
  BY <1>1, <1>2, <1>7, <1>8, <1>9, PollReads

\* A poll takes up the rows that it asks Dolphin about.
TakesUp(p, cands) == poll' = [poll EXCEPT ![p].cands = cands]

\* It has no row in its hands yet.
LEMMA TakesUpInv ==
  ASSUME Inv, NEW p \in Pollers, NEW l \in {"idle", "patch", "refresh"}, Goto(p, l),
         pc[p] \in {"idle", "scan", "patch", "refresh"},
         NEW cands, cands \subseteq Tagged, TakesUp(p, cands),
         UNCHANGED <<eng, rows, job, blurred>>
  PROVE  Inv'
<1>1. PICK old \in Polls : old = poll[p]
  BY PollIsOwn
<1>2. PICK o : o = [old EXCEPT !.cands = cands]
  OBVIOUS
<1>3. cands \subseteq Nat
  BY IdsAreRunIds DEF Tagged, Inv
<1>4. o \in Polls /\ o.row = old.row /\ o.list = old.list /\ o.cands = cands
  BY <1>2, <1>3 DEF Polls
<1>5. poll' = [poll EXCEPT ![p] = o]
  BY <1>1, <1>2 DEF TakesUp
<1>6. o.row = 0 /\ (\A x \in o.list : x.id \in Ids) /\ o.cands \subseteq Tagged
  BY <1>1, <1>4, PollIsOwn
<1>7. l \in {"idle", "scan", "patch", "refresh"}
  OBVIOUS
<1> QED
  BY <1>4, <1>5, <1>6, <1>7, PollReads

\* A poll that has found the row that it will write.
LEMMA PollFinds ==
  ASSUME Inv, NEW p \in Pollers, NEW l \in {"found", "patched", "refreshed"},
         Goto(p, l), UNCHANGED <<eng, rows, job>>, blurred \subseteq blurred',
         NEW o \in Polls, poll' = [poll EXCEPT ![p] = o],
         \A x \in o.list : x.id \in Ids, o.cands \subseteq Tagged,
         o.row \in RowIds, rows[o.row].wf = o.read.wf, o.read.tag # None,
         IsRunOf(o.read.tag, o.read.wf),
         o.read.tag = o.seen.tag \/ o.read.tag \in blurred'
  PROVE  Inv'
<1>1. l \in Places /\ o.row # 0
  BY IdsAreRunIds DEF Places, Inv
<1>2. RowStep /\ RowIds' = RowIds /\ Tagged' = Tagged /\ \A i, k : Has(i, k)' => Has(i, k)
  BY RowsSame DEF Inv, RowIds, Tagged
<1>3. RowsOwn'
  BY <1>2, RowsOwnKept, EngSame DEF Inv
<1>4. pc'[p] = l /\ poll'[p] = o
  BY <1>1, GotoMoves, ThreadsDiffer DEF Inv, Types
<1>5. PollOwn(p)'
  BY <1>1, <1>2, <1>4 DEF PollOwn, Ids, IsRunOf
<1>6. ASSUME NEW k \in RunIds \ blurred' PROVE OnePlace(k)'
  <2>1. OnePlace(k)
    BY <1>6, AlwaysOnePlace
  <2>2. /\ \A u \in Pollers : Makes(u, k)' => Makes(u, k)
        /\ \A q \in Requests, n \in Nat : Holds(q, n, k)' => Holds(q, n, k)
    BY <1>1, PollPlaces DEF Inv
  <2> QED
    BY <1>2, <2>1, <2>2, PlaceStays
<1> QED
  BY <1>1, <1>2, <1>3, <1>5, <1>6, PollInv

\* A poll that has found that its process instance has no row.
LEMMA PollMakes ==
  ASSUME Inv, NEW p \in Pollers, Goto(p, "found"), UNCHANGED <<eng, rows, job>>,
         NEW o \in Polls, poll' = [poll EXCEPT ![p] = o],
         \A x \in o.list : x.id \in Ids, o.cands \subseteq Tagged, o.row = 0,
         NEW k \in Ids, o.read.tag = k, o.read.wf = eng[k].wf, Matches(k) = {},
         blurred' = IF InTheMaking(p, k) THEN blurred \cup {k} ELSE blurred
  PROVE  Inv'
<1>1. "found" \in Places /\ k # None /\ k \in RunIds
  BY IdsAreRunIds DEF Places, Inv
<1>2. RowStep /\ RowIds' = RowIds /\ Tagged' = Tagged /\ \A i, j : Has(i, j)' => Has(i, j)
  BY RowsSame DEF Inv, RowIds, Tagged
<1>3. RowsOwn'
  BY <1>2, RowsOwnKept, EngSame DEF Inv
<1>4. pc'[p] = "found" /\ poll'[p] = o /\ blurred \subseteq blurred'
  BY <1>1, GotoMoves, ThreadsDiffer DEF Inv, Types
<1>5. PollOwn(p)'
  BY <1>1, <1>2, <1>4 DEF PollOwn, Ids, IsRunOf
<1>6. ASSUME NEW j \in RunIds \ blurred' PROVE OnePlace(j)'
  <2>1. OnePlace(j)
    BY <1>4, <1>6, AlwaysOnePlace
  <2>2. /\ \A u \in Pollers \ {p} : Makes(u, j)' => Makes(u, j)
        /\ \A q \in Requests, n \in Nat : Holds(q, n, j)' => Holds(q, n, j)
        /\ Makes(p, j)' => j = k
    BY <1>1, PollPlaces DEF Inv
  <2>3. CASE j # k
    BY <1>2, <2>1, <2>2, <2>3, PlaceStays
  <2>4. CASE j = k
    <3>1. ~ InTheMaking(p, k)
      BY <1>6, <2>4
    <3>2. \A q \in Requests, n \in Nat : ~ Holds(q, n, j)
      BY <2>4, <3>1 DEF InTheMaking, Holds
    <3>3. \A u \in Pollers \ {p} : ~ Makes(u, j)
      BY <2>4, <3>1 DEF InTheMaking, Makes
    <3>4. k \in Alike(k)
      BY AlikeItself DEF Inv
    <3>5. \A i \in Nat : ~ Has(i, j)
      BY <1>1, <2>4, <3>4 DEF Has, Matches, Inv, RowsOwn, IsRunOf
    <3>6. /\ \A i \in Nat : ~ Has(i, j)'
          /\ \A q \in Requests, n \in Nat : ~ Holds(q, n, j)'
          /\ \A u \in Pollers : Makes(u, j)' => u = p
      BY <1>2, <2>2, <3>2, <3>3, <3>5
    <3> QED
      BY <3>6, NewIsMade
  <2> QED
    BY <2>3, <2>4
<1> QED
  BY <1>1, <1>2, <1>3, <1>4, <1>5, <1>6, PollInv

\* A copy of a row has the type of copies.
LEMMA RowIsCopy ==
  ASSUME Types, NEW i \in RowIds PROVE rows[i] \in Copies
<1>1. rows[i] \in Rows
  BY DEF Types, RowIds
<1> QED
  BY <1>1 DEF Rows, Copies

\* A process instance has its type.
LEMMA EngIsRun ==
  ASSUME Types, NEW k \in Ids PROVE eng[k] \in Runs
BY DEF Types, Ids

\* A synchronisation looks a row up and finds it, or not.
LEMMA SyncFindInv ==
  ASSUME Inv, NEW p \in Pollers, SyncFind(p) PROVE Inv'
<1>1. pc[p] = "scan" /\ Goto(p, "found") /\ UNCHANGED <<eng, rows, job>>
  BY DEF SyncFind
<1>2. PICK old \in Polls : old = poll[p]
  BY <1>1, PollIsOwn
<1>3. PICK x \in poll[p].list :
        \/ /\ Matches(x.id) = {}
           /\ poll' = [poll EXCEPT ![p].list = @ \ {x}, ![p].read = AsRow(x)]
           /\ blurred' = IF InTheMaking(p, x.id) THEN blurred \cup {x.id} ELSE blurred
        \/ \E i \in Matches(x.id) :
             /\ poll' = [poll EXCEPT ![p].list = @ \ {x}, ![p].row = i,
                                     ![p].seen = rows[i], ![p].read = AsRow(x)]
             /\ blurred' = IF rows[i].tag = x.id THEN blurred
                           ELSE blurred \cup {x.id, rows[i].tag}
  BY DEF SyncFind
<1>4. PICK k \in Ids : k = x.id
  BY <1>1, <1>3, PollIsOwn
<1>5. PICK read : read = AsRow(x)
  OBVIOUS
<1>6. read \in Copies /\ read.tag = k /\ read.wf = eng[k].wf /\ k # None
  <2>1. eng[k] \in Runs /\ k \in RunIds /\ k # None
    BY IdsAreRunIds DEF Inv, Types, Ids
  <2>2. x.state \in Statuses
    BY <1>2, <1>3 DEF Polls
  <2> QED
    BY <1>4, <1>5, <2>1, <2>2 DEF AsRow, Runs, Copies
<1>7. (\A y \in old.list : y.id \in Ids) /\ old.cands \subseteq Tagged /\ old.row = 0
  BY <1>1, <1>2, PollIsOwn
<1>8. CASE /\ Matches(x.id) = {}
           /\ poll' = [poll EXCEPT ![p].list = @ \ {x}, ![p].read = AsRow(x)]
           /\ blurred' = IF InTheMaking(p, x.id) THEN blurred \cup {x.id} ELSE blurred
  <2>1. PICK o : o = [old EXCEPT !.list = @ \ {x}, !.read = read]
    OBVIOUS
  <2>2. /\ o \in Polls /\ o.row = old.row /\ o.list \subseteq old.list
        /\ o.cands = old.cands /\ o.read = read
    BY <1>6, <2>1 DEF Polls
  <2>3. poll' = [poll EXCEPT ![p] = o]
    BY <1>2, <1>5, <1>8, <2>1
  <2>4. /\ Matches(k) = {}
        /\ blurred' = IF InTheMaking(p, k) THEN blurred \cup {k} ELSE blurred
    BY <1>4, <1>8
  <2>5. /\ \A y \in o.list : y.id \in Ids
        /\ o.cands \subseteq Tagged /\ o.row = 0
        /\ o.read.tag = k /\ o.read.wf = eng[k].wf
    BY <1>6, <1>7, <2>2
  <2> QED
    BY <1>1, <2>2, <2>3, <2>4, <2>5, PollMakes
<1>9. ASSUME NEW i \in Matches(x.id),
             poll' = [poll EXCEPT ![p].list = @ \ {x}, ![p].row = i,
                                  ![p].seen = rows[i], ![p].read = AsRow(x)],
             blurred' = IF rows[i].tag = x.id THEN blurred
                        ELSE blurred \cup {x.id, rows[i].tag}
      PROVE  Inv'
  <2>1. i \in RowIds /\ rows[i].wf = eng[k].wf
    BY <1>4 DEF Matches
  <2>2. PICK seen \in Copies : seen = rows[i]
    BY <2>1, RowIsCopy DEF Inv
  <2>3. PICK o : o = [old EXCEPT !.list = @ \ {x}, !.row = i, !.seen = seen, !.read = read]
    OBVIOUS
  <2>4. i \in Nat
    BY <2>1, IdsAreRunIds DEF Inv
  <2>5. /\ o \in Polls /\ o.row = i /\ o.list \subseteq old.list
        /\ o.cands = old.cands /\ o.read = read /\ o.seen = seen
    BY <1>6, <2>3, <2>4 DEF Polls
  <2>6. poll' = [poll EXCEPT ![p] = o]
    BY <1>2, <1>5, <1>9, <2>2, <2>3
  <2>7. blurred \subseteq blurred' /\ (o.read.tag = o.seen.tag \/ o.read.tag \in blurred')
    BY <1>4, <1>6, <1>9, <2>2, <2>5
  <2>8. /\ \A y \in o.list : y.id \in Ids
        /\ o.cands \subseteq Tagged /\ o.row \in RowIds
        /\ rows[o.row].wf = o.read.wf /\ o.read.tag # None
        /\ IsRunOf(o.read.tag, o.read.wf)
    BY <1>6, <1>7, <2>1, <2>5 DEF IsRunOf
  <2> QED
    BY <1>1, <2>5, <2>6, <2>7, <2>8, PollFinds
<1> QED
  BY <1>3, <1>8, <1>9

\* A poll asks Dolphin about one row of those that it looks at.
LEMMA AskAboutInv ==
  ASSUME Inv, NEW p \in Pollers, pc[p] \in {"idle", "scan", "patch", "refresh"},
         NEW all, all \subseteq Tagged,
         NEW here \in {"patch", "refresh"}, NEW there \in {"patched", "refreshed"},
         AskAbout(p, all, here, there), UNCHANGED <<eng, rows, job, blurred>>
  PROVE  Inv'
<1>1. blurred \subseteq blurred'
  OBVIOUS
<1>2. PICK old \in Polls : old = poll[p]
  BY PollIsOwn
<1>3. (\A y \in old.list : y.id \in Ids) /\ old.cands \subseteq Tagged /\ old.row = 0
  BY <1>2, PollIsOwn
<1>4. PICK i \in Newest(all, 1) :
        \/ /\ poll' = [poll EXCEPT ![p].cands = all \ {i}, ![p].row = i, ![p].seen = rows[i],
                         ![p].read = [rows[i] EXCEPT !.status = eng[rows[i].tag].state]]
           /\ Goto(p, there)
        \/ /\ poll' = [poll EXCEPT ![p].cands = all \ {i}]
           /\ Turn(p, all \ {i}, here)
  BY DEF AskAbout
<1>5. i \in Tagged
  BY DEF Newest
<1>6. CASE /\ poll' = [poll EXCEPT ![p].cands = all \ {i}]
           /\ Turn(p, all \ {i}, here)
  <2>1. PICK cands : cands = all \ {i}
    OBVIOUS
  <2>2. PICK l \in {"idle", "patch", "refresh"} : Goto(p, l)
    BY <1>6 DEF Turn
  <2>3. TakesUp(p, cands)
    BY <1>6, <2>1 DEF TakesUp
  <2>4. cands \subseteq Tagged
    BY <2>1
  <2> QED
    BY <2>2, <2>3, <2>4, TakesUpInv
<1>7. CASE /\ poll' = [poll EXCEPT ![p].cands = all \ {i}, ![p].row = i, ![p].seen = rows[i],
                         ![p].read = [rows[i] EXCEPT !.status = eng[rows[i].tag].state]]
           /\ Goto(p, there)
  <2>1. i \in RowIds /\ i \in Nat /\ rows[i].tag # None
    BY <1>5, IdsAreRunIds DEF Tagged, Inv
  <2>2. IsRunOf(rows[i].tag, rows[i].wf)
    BY <2>1 DEF Inv, RowsOwn
  <2>3. PICK seen \in Copies : seen = rows[i]
    BY <2>1, RowIsCopy DEF Inv
  <2>4. PICK read : read = [seen EXCEPT !.status = eng[rows[i].tag].state]
    OBVIOUS
  <2>5. eng[rows[i].tag].state \in Statuses
    BY <2>2, EngIsRun DEF Inv, IsRunOf, Runs
  <2>6. read \in Copies /\ read.tag = seen.tag /\ read.wf = seen.wf
    BY <2>4, <2>5 DEF Copies
  <2>7. PICK o : o = [old EXCEPT !.cands = all \ {i}, !.row = i, !.seen = seen, !.read = read]
    OBVIOUS
  <2>8. /\ o \in Polls /\ o.row = i /\ o.list = old.list
        /\ o.cands \subseteq all /\ o.read = read /\ o.seen = seen
    <3>1. all \ {i} \in SUBSET Nat
      BY IdsAreRunIds DEF Tagged, Inv
    <3> QED
      BY <2>1, <2>6, <2>7, <3>1 DEF Polls
  <2>9. poll' = [poll EXCEPT ![p] = o]
    BY <1>2, <1>7, <2>3, <2>4, <2>7
  <2>10. PICK l \in {"found", "patched", "refreshed"} : Goto(p, l)
    BY <1>7
  <2>11. /\ \A y \in o.list : y.id \in Ids
         /\ o.cands \subseteq Tagged /\ o.row \in RowIds
         /\ rows[o.row].wf = o.read.wf /\ o.read.tag # None
         /\ IsRunOf(o.read.tag, o.read.wf) /\ o.read.tag = o.seen.tag
    BY <1>3, <2>1, <2>2, <2>3, <2>6, <2>8
  <2> QED
    BY <1>1, <2>8, <2>9, <2>10, <2>11, PollFinds
<1> QED
  BY <1>4, <1>6, <1>7
\* The second phase of a synchronisation begins, or there is no row for it.
LEMMA PatchBeginInv ==
  ASSUME Inv, NEW p \in Pollers, PatchBegin(p) PROVE Inv'
<1>1. pc[p] = "scan" /\ UNCHANGED <<eng, rows, job, blurred>>
  BY DEF PatchBegin
<1>2. CASE AskAbout(p, Newest(Tagged, PatchLimit), "patch", "patched")
  <2>1. PICK all : all = Newest(Tagged, PatchLimit)
    OBVIOUS
  <2>2. all \subseteq Tagged
    BY <2>1 DEF Newest
  <2> QED
    BY <1>1, <1>2, <2>1, <2>2, AskAboutInv
<1>3. CASE Goto(p, "idle") /\ UNCHANGED poll
  <2>1. PICK o \in Polls : o = poll[p]
    BY <1>1, PollIsOwn
  <2>2. poll' = [poll EXCEPT ![p] = o]
    BY <1>3, <2>1 DEF Inv, Types
  <2>3. o.row = 0 /\ (\A x \in o.list : x.id \in Ids) /\ o.cands \subseteq Tagged
    BY <1>1, <2>1, PollIsOwn
  <2> QED
    BY <1>1, <1>3, <2>2, <2>3, PollReads
<1> QED
  BY <1>2, <1>3 DEF PatchBegin

\* A page refreshes the rows that run.
LEMMA RefreshBeginInv ==
  ASSUME Inv, NEW p \in Viewers, NEW W, RefreshBegin(p, W) PROVE Inv'
<1>1. p \in Pollers /\ pc[p] = "idle" /\ UNCHANGED <<eng, rows, job, blurred>>
  BY DEF RefreshBegin, Pollers
<1>2. PICK all :
        all = Newest({i \in Tagged : rows[i].wf \in W /\ rows[i].status = "running"}, PageLimit)
  OBVIOUS
<1>3. all \subseteq Tagged /\ AskAbout(p, all, "refresh", "refreshed")
  BY <1>2 DEF RefreshBegin, Newest
<1> QED
  BY <1>1, <1>3, AskAboutInv

\* A page refreshes one row.
LEMMA RefreshOneInv ==
  ASSUME Inv, NEW p \in Viewers, NEW i \in RowIds, RefreshOne(p, i) PROVE Inv'
<1>1. p \in Pollers /\ pc[p] = "idle" /\ UNCHANGED <<eng, rows, job, blurred>>
      /\ {i} \subseteq Tagged /\ AskAbout(p, {i}, "refresh", "refreshed")
  BY DEF RefreshOne, Pollers
<1> QED
  BY <1>1, AskAboutInv

\* A poll goes on to its next row.
LEMMA AskInv ==
  ASSUME Inv, NEW p \in Pollers, Ask(p) PROVE Inv'
<1>1. UNCHANGED <<eng, rows, job, blurred>>
  BY DEF Ask
<1>2. PICK all : all = poll[p].cands
  OBVIOUS
<1>3. pc[p] \in {"patch", "refresh"} /\ all \subseteq Tagged
  BY <1>2, PollIsOwn DEF Ask
<1>4. AskAbout(p, all, "patch", "patched") \/ AskAbout(p, all, "refresh", "refreshed")
  BY <1>2 DEF Ask
<1> QED
  BY <1>1, <1>3, <1>4, AskAboutInv

\* What a poll has in its hands is gone.
LetsGo(p) == poll' = [poll EXCEPT ![p].row = 0, ![p].seen = NoRow, ![p].read = NoRow]

\* It has no row in its hands then.
LEMMA LetsGoEmpty ==
  ASSUME Types, NEW p \in Pollers, LetsGo(p)
  PROVE  \E o \in Polls : /\ poll' = [poll EXCEPT ![p] = o] /\ o.row = 0
                          /\ o.list = poll[p].list /\ o.cands = poll[p].cands
<1>1. PICK old \in Polls : old = poll[p]
  BY DEF Types
<1>2. PICK none \in Copies : none = NoRow
  BY DEF NoRow, NewRow, Copies, Statuses
<1>3. PICK o : o = [old EXCEPT !.row = 0, !.seen = none, !.read = none]
  OBVIOUS
<1>4. o \in Polls /\ o.row = 0 /\ o.list = old.list /\ o.cands = old.cands
  BY <1>3 DEF Polls
<1>5. poll' = [poll EXCEPT ![p] = o]
  BY <1>1, <1>2, <1>3 DEF LetsGo
<1> QED
  BY <1>1, <1>4, <1>5

\* A poll that writes the row that it has found.
LEMMA PollUpdates ==
  ASSUME Inv, NEW p \in Pollers, pc[p] \in {"found", "patched", "refreshed"},
         poll[p].row # 0, NEW l \in {"idle", "scan", "patch", "refresh"}, Goto(p, l),
         Update(poll[p].row, poll[p].seen, poll[p].read), LetsGo(p), UNCHANGED <<eng, job>>
  PROVE  Inv'
<1> DEFINE i == poll[p].row
           seen == poll[p].seen
           new == poll[p].read
<1>1. PollOwn(p) /\ poll[p] \in Polls
  BY DEF Inv, Types
<1>2. seen \in Copies /\ new \in Copies /\ Update(i, seen, new)
  BY <1>1 DEF Polls
<1>3. /\ i \in RowIds /\ rows[i].wf = new.wf
      /\ new.tag = seen.tag \/ new.tag \in blurred \ {None}
      /\ new.tag # None => IsRunOf(new.tag, new.wf)
      /\ \A x \in poll[p].list : x.id \in Ids
      /\ poll[p].cands \subseteq Tagged
  BY <1>1 DEF PollOwn
<1> HIDE DEF i, seen, new
<1>4. /\ RowStep /\ RowIds' = RowIds /\ blurred \subseteq blurred'
      /\ rows'[i].tag = IF new.tag = seen.tag THEN rows[i].tag ELSE new.tag
      /\ \A j \in RowIds : j # i => rows'[j] = rows[j]
  BY <1>2, <1>3, RowsUpdate DEF Inv
<1>5. l \in Places /\ l \notin {"found", "patched", "refreshed"}
  BY DEF Places
<1>6. PICK o \in Polls : /\ poll' = [poll EXCEPT ![p] = o] /\ o.row = 0
                         /\ o.list = poll[p].list /\ o.cands = poll[p].cands
  BY LetsGoEmpty DEF Inv
<1>7. pc'[p] = l /\ poll'[p] = o
  BY <1>5, <1>6, GotoMoves, ThreadsDiffer DEF Inv, Types
<1>8. Tagged \subseteq Tagged'
  BY <1>4 DEF Tagged, RowStep
<1>9. PollOwn(p)'
  BY <1>3, <1>5, <1>6, <1>7, <1>8 DEF PollOwn, Ids
<1>10. RowsOwn'
  <2>1. CASE new.tag = seen.tag
    BY <1>4, <2>1, RowsOwnKept, EngSame DEF Inv
  <2>2. CASE new.tag # seen.tag
    <3>1. WillBeRunOf(rows'[i].tag, rows'[i].wf)
      BY <1>3, <1>4, <2>2 DEF IsRunOf, WillBeRunOf, RowStep, Ids
    <3> QED
      BY <1>4, <3>1, RowsOwnKept, EngSame DEF Inv
  <2> QED
    BY <2>1, <2>2
<1>11. ASSUME NEW k \in RunIds \ blurred' PROVE OnePlace(k)'
  <2>1. OnePlace(k)
    BY <1>4, <1>11, AlwaysOnePlace
  <2>2. /\ \A u \in Pollers : Makes(u, k)' => Makes(u, k)
        /\ \A q \in Requests, n \in Nat : Holds(q, n, k)' => Holds(q, n, k)
    BY <1>5, <1>6, PollPlaces DEF Inv
  <2>3. \A j \in Nat : Has(j, k)' => Has(j, k)
    BY <1>3, <1>4, <1>11 DEF Has
  <2> QED
    BY <2>1, <2>2, <2>3, PlaceStays
<1> QED
  BY <1>4, <1>5, <1>6, <1>9, <1>10, <1>11, PollInv

\* A poll that inserts the row that it has not found.
LEMMA PollInserts ==
  ASSUME Inv, NEW p \in Pollers, pc[p] = "found", poll[p].row = 0, Goto(p, "scan"),
         Insert(poll[p].read), LetsGo(p), UNCHANGED <<eng, job, blurred>>
  PROVE  Inv'
<1> DEFINE row == poll[p].read
           n == Len(rows) + 1
<1>1. PollOwn(p) /\ row \in Copies
  BY DEF Inv, Types, Polls
<1>2. /\ row.tag # None /\ IsRunOf(row.tag, row.wf)
      /\ \A x \in poll[p].list : x.id \in Ids
      /\ poll[p].cands \subseteq Tagged
  BY <1>1 DEF PollOwn
<1>3. row.wf \in Workflows
  BY <1>2, EngIsRun DEF Inv, IsRunOf, Runs
<1>4. row \in Rows
  BY <1>1, <1>3 DEF Rows, Copies
<1>5. \A k : row.tag = k => Makes(p, k)
  BY DEF Makes
<1>6. Insert(row)
  OBVIOUS
<1> HIDE DEF row
<1>7. /\ RowStep /\ n \in Nat \ RowIds /\ RowIds' = RowIds \cup {n} /\ rows'[n] = row
      /\ \A j \in RowIds : rows'[j] = rows[j]
  BY <1>4, <1>6, RowsInsert DEF Inv
<1> HIDE DEF n
<1>8. "scan" \in Places
  BY DEF Places
<1>9. PICK o \in Polls : /\ poll' = [poll EXCEPT ![p] = o] /\ o.row = 0
                         /\ o.list = poll[p].list /\ o.cands = poll[p].cands
  BY LetsGoEmpty DEF Inv
<1>10. pc'[p] = "scan" /\ poll'[p] = o
  BY <1>8, <1>9, GotoMoves, ThreadsDiffer DEF Inv, Types
<1>11. Tagged \subseteq Tagged'
  BY <1>7 DEF Tagged
<1>12. PollOwn(p)'
  BY <1>2, <1>9, <1>10, <1>11 DEF PollOwn, Ids
<1>13. RowsOwn'
  <2>1. WillBeRunOf(rows'[n].tag, rows'[n].wf)
    BY <1>2, <1>7 DEF IsRunOf, WillBeRunOf, Ids
  <2> QED
    BY <1>7, <2>1, RowsOwnKept, EngSame DEF Inv
<1>14. ASSUME NEW k \in RunIds \ blurred' PROVE OnePlace(k)'
  <2>1. OnePlace(k)
    <3>1. k \in RunIds \ blurred
      BY <1>14
    <3> QED
      BY <3>1, AlwaysOnePlace
  <2>2. /\ \A u \in Pollers : Makes(u, k)' => Makes(u, k) /\ u # p
        /\ \A q \in Requests, m \in Nat : Holds(q, m, k)' => Holds(q, m, k)
    <3>1. /\ \A u \in Pollers \ {p} : Makes(u, k)' => Makes(u, k)
          /\ \A q \in Requests, m \in Nat : Holds(q, m, k)' => Holds(q, m, k)
      BY <1>8, <1>9, PollPlaces DEF Inv
    <3>2. ~ Makes(p, k)'
      BY <1>10 DEF Makes
    <3> QED
      BY <3>1, <3>2
  <2>3. CASE row.tag = k
    <3>1. \A j \in Nat : Has(j, k)' => Has(j, k) \/ j = n
      BY <1>7 DEF Has
    <3> QED
      BY <1>5, <1>7, <2>1, <2>2, <2>3, <3>1, MadeBecomesRow
  <2>4. CASE row.tag # k
    <3>1. \A j \in Nat : Has(j, k)' => Has(j, k)
      BY <1>7, <2>4 DEF Has
    <3> QED
      BY <2>1, <2>2, <3>1, PlaceStays
  <2> QED
    BY <2>3, <2>4
<1> QED
  BY <1>7, <1>8, <1>9, <1>12, <1>13, <1>14, PollInv

\* A poll whose commit fails writes nothing.
LEMMA PollLost ==
  ASSUME Inv, NEW p \in Pollers, NEW l \in {"idle", "scan", "patch", "refresh"},
         Goto(p, l), LetsGo(p), UNCHANGED <<eng, rows, job, blurred>>
  PROVE  Inv'
<1>1. PICK o \in Polls : /\ poll' = [poll EXCEPT ![p] = o] /\ o.row = 0
                         /\ o.list = poll[p].list /\ o.cands = poll[p].cands
  BY LetsGoEmpty DEF Inv
<1>2. (\A x \in o.list : x.id \in Ids) /\ o.cands \subseteq Tagged
  BY <1>1 DEF Inv, PollOwn
<1> QED
  BY <1>1, <1>2, PollReads

\* A synchronisation updates, inserts, or fails to.
LEMMA SyncWriteInv ==
  ASSUME Inv, NEW p \in Pollers, SyncWrite(p) PROVE Inv'
<1>1. pc[p] = "found" /\ Goto(p, "scan") /\ LetsGo(p) /\ UNCHANGED <<eng, job>>
  BY DEF SyncWrite, LetsGo
<1> DEFINE Fails == UNCHANGED <<rows, blurred>>
<1>4. CASE Fails
  BY <1>1, <1>4, PollLost
<1>2. CASE poll[p].row = 0 /\ ~ Fails
  <2>1. Insert(poll[p].read) /\ UNCHANGED blurred
    BY <1>2 DEF SyncWrite, RollBack
  <2> QED
    BY <1>1, <1>2, <2>1, PollInserts
<1>3. CASE poll[p].row # 0 /\ ~ Fails
  <2>1. Update(poll[p].row, poll[p].seen, poll[p].read)
    BY <1>3 DEF SyncWrite, RollBack
  <2> QED
    BY <1>1, <1>3, <2>1, PollUpdates
<1> QED
  BY <1>2, <1>3, <1>4

\* A poll writes what Dolphin answered, or fails to.
LEMMA TellInv ==
  ASSUME Inv, NEW p \in Pollers, Tell(p) PROVE Inv'
<1>1. pc[p] \in {"patched", "refreshed"} /\ LetsGo(p) /\ UNCHANGED <<eng, job>>
      /\ \/ Update(poll[p].row, poll[p].seen, poll[p].read)
         \/ UNCHANGED <<rows, blurred>>
  BY DEF Tell, LetsGo, RollBack
<1>2. poll[p].row # 0
  BY <1>1 DEF Inv, PollOwn
<1>3. PICK l \in {"idle", "scan", "patch", "refresh"} : Goto(p, l)
  BY DEF Tell, Turn
<1> QED
  BY <1>1, <1>2, <1>3, PollUpdates, PollLost

\* All steps of polls.
LEMMA PollStepInv ==
  ASSUME Inv, NEW p \in Pollers, PollStep(p) PROVE Inv'
BY SyncListInv, SyncFindInv, SyncWriteInv, PatchBeginInv, AskInv, TellInv DEF PollStep
-----------------------------------------------------------------------------
(* Dolphin, its alerts, and restarts *)

\* Steps that no thread takes.
LEMMA NoThreadInv ==
  ASSUME Inv, EngStep, RowStep, RowIds' = RowIds, \A i \in RowIds : rows'[i].tag = rows[i].tag,
         UNCHANGED <<pc, job, poll>>, blurred \subseteq blurred'
  PROVE  Inv'
<1>1. Types'
  BY DEF Inv, Types, EngStep, RowStep
<1>2. RowsOwn'
  BY RowsOwnKept DEF Inv
<1>3. ASSUME NEW q \in Requests PROVE JobOwn(q)'
  BY JobStays DEF Inv
<1>4. ASSUME NEW p \in Pollers PROVE PollOwn(p)'
  BY PollStays DEF Inv
<1>5. ASSUME NEW k \in Ids' \ blurred' PROVE OnePlace(k)'
  <2>1. k \in RunIds \ blurred
    BY <1>5, EngStepIds
  <2>2. OnePlace(k)
    BY <2>1, AlwaysOnePlace
  <2>3. /\ \A i \in Nat : Has(i, k)' => Has(i, k)
        /\ \A q \in Requests, n \in Nat : Holds(q, n, k)' => Holds(q, n, k)
        /\ \A p \in Pollers : Makes(p, k)' => Makes(p, k)
    BY DEF Has, Holds, Makes
  <2> QED
    BY <2>2, <2>3, PlaceStays
<1> QED
  BY <1>1, <1>2, <1>3, <1>4, <1>5 DEF Inv

\* Dolphin fires a schedule or ends a process instance.
LEMMA EngineInv ==
  ASSUME Inv,
         \/ \E w \in Workflows : EngineFires(w)
         \/ \E k \in Ids : EngineEnds(k)
  PROVE  Inv'
<1>1. EngStep
  BY EngStarts, EngEnds DEF EngineFires, Inv
<1>2. UNCHANGED <<rows, pc, job, poll, blurred>>
  BY DEF EngineFires, EngineEnds
<1>3. RowStep /\ RowIds' = RowIds
  BY <1>2, RowsSame DEF Inv, RowIds
<1> QED
  BY <1>1, <1>2, <1>3, NoThreadInv

\* An alert writes a status.
LEMMA WebhookInv ==
  ASSUME Inv, NEW k \in Ids, Webhook(k) PROVE Inv'
<1>1. UNCHANGED <<eng, pc, job, poll>> /\ blurred \subseteq blurred'
  BY DEF Webhook
<1>2. PICK i \in RowIds : rows' = [rows EXCEPT ![i].status = eng[k].state]
  BY DEF Webhook
<1>3. rows[i] \in Rows /\ eng[k].state \in Statuses
  BY EngIsRun DEF Inv, Types, RowIds, Runs
<1> DEFINE r == [rows[i] EXCEPT !.status = eng[k].state]
<1>4. r \in Rows /\ r.wf = rows[i].wf /\ r.tag = rows[i].tag
  BY <1>3 DEF Rows
<1>5. rows' = [rows EXCEPT ![i] = r]
  BY <1>2
<1> HIDE DEF r
<1>6. rows' \in Seq(Rows) /\ RowIds' = RowIds
  BY <1>4, <1>5 DEF Inv, Types, RowIds
<1>7. \A j \in RowIds : rows'[j].wf = rows[j].wf /\ rows'[j].tag = rows[j].tag
  BY <1>4, <1>5 DEF RowIds
<1>8. RowStep
  BY <1>6, <1>7 DEF RowStep, Tagged
<1> QED
  BY <1>1, <1>6, <1>7, <1>8, NoThreadInv, EngSame DEF Inv

\* No thread, so nobody holds or makes anything.
Nobody ==
  /\ pc = [t \in Threads |-> "idle"]
  /\ job = [q \in Requests |-> NoJob]
  /\ poll = [p \in Pollers |-> NoPoll]

NobodyOwns ==
  /\ pc \in [Threads -> Places] /\ job \in [Requests -> Jobs] /\ poll \in [Pollers -> Polls]
  /\ \A q \in Requests : JobOwn(q)
  /\ \A p \in Pollers : PollOwn(p)
  /\ \A k : /\ \A q \in Requests, n \in Nat : ~ Holds(q, n, k)
            /\ \A p \in Pollers : ~ Makes(p, k)

\* Idle threads are right, and no place of any tag.
LEMMA NobodyIsOwn == Nobody => NobodyOwns
<1> SUFFICES ASSUME Nobody PROVE NobodyOwns
  OBVIOUS
<1>1. NoRow \in Copies
  BY DEF NoRow, NewRow, Copies, Statuses
<1>2. NoJob \in Jobs /\ NoJob.ids = <<>>
  BY <1>1 DEF NoJob, Jobs
<1>3. NoPoll \in Polls /\ NoPoll.list = {} /\ NoPoll.cands = {} /\ NoPoll.row = 0
  BY <1>1 DEF NoPoll, Polls
<1>4. /\ \A t \in Threads : pc[t] = "idle"
      /\ \A q \in Requests : job[q] = NoJob
      /\ \A p \in Pollers : poll[p] = NoPoll
  BY DEF Nobody
<1>5. pc \in [Threads -> Places] /\ job \in [Requests -> Jobs] /\ poll \in [Pollers -> Polls]
  BY <1>2, <1>3 DEF Nobody, Places
<1>6. \A q \in Requests : JobOwn(q)
  BY <1>2, <1>4, ThreadsDiffer DEF JobOwn
<1>7. \A p \in Pollers : PollOwn(p)
  BY <1>3, <1>4, ThreadsDiffer DEF PollOwn
<1>8. ASSUME NEW k
      PROVE  /\ \A q \in Requests, n \in Nat : ~ Holds(q, n, k)
             /\ \A p \in Pollers : ~ Makes(p, k)
  BY <1>2, <1>4, ThreadsDiffer DEF Holds, Makes
<1> QED
  BY <1>5, <1>6, <1>7, <1>8 DEF NobodyOwns

\* After a restart only rows are left.
LEMMA RestartInv ==
  ASSUME Inv, Restart PROVE Inv'
<1>1. Nobody' /\ UNCHANGED <<eng, rows, blurred>>
  BY DEF Restart, Nobody, Threads, Pollers, NoJob, NoPoll, NoRow, NewRow
<1>2. NobodyOwns'
  BY <1>1, NobodyIsOwn, PTL
<1>3. RowStep /\ EngStep /\ RowIds' = RowIds /\ \A i, k : Has(i, k)' => Has(i, k)
  BY <1>1, RowsSame, EngSame DEF Inv, RowIds
<1>4. Types' /\ RowsOwn'
  BY <1>1, <1>2, <1>3, RowsOwnKept DEF Inv, Types, NobodyOwns
<1>5. ASSUME NEW k \in Ids' \ blurred' PROVE OnePlace(k)'
  <2>1. k \in RunIds \ blurred
    BY <1>1, <1>3, <1>5, EngStepIds
  <2> QED
    BY <1>2, <1>3, <2>1, AlwaysOnePlace, PlaceStays DEF NobodyOwns
<1> QED
  BY <1>2, <1>4, <1>5 DEF Inv, NobodyOwns

-----------------------------------------------------------------------------
(* The invariant and what it says of the rows *)

\* At first there is nothing.
LEMMA InitInv ==
  ASSUME Init PROVE Inv
<1>1. Nobody /\ eng = <<>> /\ rows = <<>>
  BY DEF Init, Nobody
<1>2. Ids = {} /\ RowIds = {}
  BY <1>1 DEF Ids, RowIds
<1>3. eng \in Seq(Runs) /\ Len(eng) <= MaxRuns /\ rows \in Seq(Rows)
  BY <1>1, ConstantsAssumption
<1> QED
  <2>1. Types
    BY <1>1, <1>3, NobodyIsOwn DEF Types, NobodyOwns
  <2>2. RowsOwn /\ \A k \in Ids \ blurred : OnePlace(k)
    BY <1>2 DEF RowsOwn
  <2> QED
    BY <1>1, <2>1, <2>2, NobodyIsOwn DEF Inv, NobodyOwns

\* Every step keeps the invariant.
LEMMA NextInv ==
  ASSUME Inv, [Next]_vars PROVE Inv'
<1>1. CASE UNCHANGED vars
  <2>1. UNCHANGED <<eng, rows, pc, job, poll, blurred>>
    BY <1>1 DEF vars
  <2>2. RowStep /\ EngStep /\ RowIds' = RowIds
    BY <2>1, RowsSame, EngSame DEF Inv, RowIds
  <2> QED
    BY <2>1, <2>2, NoThreadInv
<1>2. CASE Next
  <2>1. CASE (\E w \in Workflows : EngineFires(w)) \/ (\E k \in Ids : EngineEnds(k))
    BY <2>1, EngineInv
  <2>2. CASE \E q \in Requests : RequestStep(q)
    BY <2>2, RequestStepInv
  <2>3. CASE \E q \in Requests, w \in Workflows : RunInsert(q, w)
    BY <2>3, RunInsertInv
  <2>4. CASE \E q \in Requests, w \in Workflows, n \in 1 .. MaxRuns : BatchBegin(q, w, n)
    BY <2>4, BatchBeginInv
  <2>5. CASE \E q \in Requests, i \in RowIds : RerunLoad(q, i)
    BY <2>5, RerunLoadInv
  <2>6. CASE \E p \in Syncs : SyncBegin(p)
    BY <2>6, SyncBeginInv
  <2>7. CASE \/ \E p \in Viewers, W \in SUBSET Workflows : RefreshBegin(p, W)
             \/ \E p \in Viewers, i \in RowIds : RefreshOne(p, i)
    BY <2>7, RefreshBeginInv, RefreshOneInv
  <2>8. CASE \E p \in Pollers : PollStep(p)
    BY <2>8, PollStepInv
  <2>9. CASE \E k \in Ids : Webhook(k)
    BY <2>9, WebhookInv
  <2>10. CASE Restart
    BY <2>10, RestartInv
  <2> QED
    BY <1>2, <2>1, <2>2, <2>3, <2>4, <2>5, <2>6, <2>7, <2>8, <2>9, <2>10 DEF Next
<1> QED
  BY <1>1, <1>2

(* Types, owners and places are right in every state. *)
THEOREM InvHolds == Spec => []Inv
<1>1. Init => Inv
  BY InitInv
<1>2. Inv /\ [Next]_vars => Inv'
  BY NextInv
<1> QED
  BY <1>1, <1>2, PTL DEF Spec

\* One place is one row.
LEMMA InvMeansOneRow ==
  ASSUME Inv PROVE OneRowPerRun
<1> SUFFICES ASSUME NEW i \in RowIds, NEW j \in RowIds, rows[i].tag = rows[j].tag,
                    rows[i].tag \notin blurred \cup {None}
             PROVE  i = j
  BY DEF OneRowPerRun
<1>1. rows[i].tag \in Ids \ blurred
  BY DEF Inv, RowsOwn, IsRunOf
<1>2. OnePlace(rows[i].tag)
  BY <1>1 DEF Inv
<1>3. i \in Nat /\ j \in Nat
  BY IdsAreRunIds DEF Inv
<1>4. Has(i, rows[i].tag) /\ Has(j, rows[i].tag)
  BY DEF Has
<1> QED
  BY <1>2, <1>3, <1>4 DEF OnePlace

(* A process instance that was not discovered while its row was being written
   has at most one row, for every number of threads, rows and runs. *)
THEOREM OneRowPerRunHolds == Spec => []OneRowPerRun
<1>1. Inv => OneRowPerRun
  BY InvMeansOneRow
<1> QED
  BY <1>1, InvHolds, PTL

(* The row of a process instance belongs to the workflow that it ran, whatever
   digits the ids begin with. *)
THEOREM TagIsOwnHolds == Spec => []TagIsOwn
<1>1. Inv => TagIsOwn
  BY DEF Inv, RowsOwn, IsRunOf, TagIsOwn, Tagged
<1> QED
  BY <1>1, InvHolds, PTL

-----------------------------------------------------------------------------
(* Ends: what rows and polls say of a process instance *)

\* To say s of k is right if k has ended that way or s is no end.
Real(k, s) == k \in Ids /\ (s \in Ended => eng[k].state = s)

RowReal(i) ==
  rows[i].tag \notin blurred \cup {None} => Real(rows[i].tag, rows[i].status)

\* A poll may have read long ago, but an end stays an end.
PollReal(p) ==
  /\ \A x \in poll[p].list : Real(x.id, x.state)
  /\ poll[p].read.tag # None => Real(poll[p].read.tag, poll[p].read.status)

EndInv ==
  /\ \A i \in RowIds : RowReal(i)
  /\ \A p \in Pollers : PollReal(p)

\* Process instances stay, and so do their ends.
EndStep ==
  /\ Ids \subseteq Ids'
  /\ \A k \in Ids : eng[k].state \in Ended => eng'[k].state = eng[k].state

\* Dolphin's list stays.
LEMMA EndsSame ==
  ASSUME UNCHANGED eng PROVE EndStep
BY DEF EndStep, Ids

\* Dolphin gets a process instance.
LEMMA EndsStart ==
  ASSUME Types, NEW w, StartRun(w) PROVE EndStep
<1>1. eng' = Append(eng, NewRun(w)) /\ eng \in Seq(Runs)
  BY DEF StartRun, Types
<1> QED
  BY <1>1 DEF EndStep, Ids

\* A process instance ends; those that have ended do not end again.
LEMMA EndsEnd ==
  ASSUME Types, NEW k \in Ids, EngineEnds(k) PROVE EndStep
<1>1. eng[k].state = "running"
  BY DEF EngineEnds
<1>2. PICK s \in Ended : eng' = [eng EXCEPT ![k].state = s]
  BY DEF EngineEnds
<1>3. Ids' = Ids /\ \A j \in Ids : j # k => eng'[j] = eng[j]
  BY <1>2 DEF Ids
<1> QED
  BY <1>1, <1>3, ConstantsAssumption DEF EndStep

\* A call that fails.
LEMMA EndsCallFails ==
  ASSUME Types, NEW w, CallFails(w) PROVE EndStep
BY EndsSame, EndsStart DEF CallFails

\* What was right to say stays right.
LEMMA RealStays ==
  ASSUME EndStep, NEW k, NEW s, Real(k, s) PROVE Real(k, s)'
BY DEF EndStep, Real

\* Ends stay right if those of the rows and polls that change are right.
LEMMA EndKept ==
  ASSUME EndInv, EndStep, blurred \subseteq blurred',
         \A i \in RowIds' : (i \in RowIds /\ rows'[i] = rows[i]) \/ RowReal(i)',
         \A p \in Pollers : poll'[p] = poll[p] \/ PollReal(p)'
  PROVE  EndInv'
<1>1. ASSUME NEW i \in RowIds' PROVE RowReal(i)'
  <2>1. CASE i \in RowIds /\ rows'[i] = rows[i]
    <3>1. RowReal(i)
      BY <2>1 DEF EndInv
    <3> QED
      BY <2>1, <3>1, RealStays DEF RowReal
  <2> QED
    BY <1>1, <2>1
<1>2. ASSUME NEW p \in Pollers PROVE PollReal(p)'
  <2>1. CASE poll'[p] = poll[p]
    <3>1. PollReal(p)
      BY DEF EndInv
    <3> QED
      BY <2>1, <3>1, RealStays DEF PollReal
  <2> QED
    BY <1>2, <2>1
<1> QED
  BY <1>1, <1>2 DEF EndInv

\* An UPDATE in time writes all that the thread means; one too late blurs.
LEMMA UpdateIsReal ==
  ASSUME Types, NEW i \in RowIds, NEW seen \in Copies, NEW new \in Copies,
         Update(i, seen, new),
         new.tag \notin blurred \cup {None} => Real(new.tag, new.status)',
         new.tag = seen.tag \/ new.tag # None
  PROVE  /\ \A j \in RowIds' : (j \in RowIds /\ rows'[j] = rows[j]) \/ RowReal(j)'
         /\ blurred \subseteq blurred'
<1> DEFINE r == Merge(seen, new, rows[i])
<1>1. rows[i] \in Rows
  BY DEF Types, RowIds
<1>2. /\ r.status = IF new.status = seen.status THEN rows[i].status ELSE new.status
      /\ r.tag = IF new.tag = seen.tag THEN rows[i].tag ELSE new.tag
  BY <1>1 DEF Merge, Rows
<1>3. rows' = [rows EXCEPT ![i] = r] /\ blurred' = blurred \cup Late(i, seen, new)
  BY DEF Update
<1> HIDE DEF r
<1>4. RowIds' = RowIds /\ rows'[i] = r /\ \A j \in RowIds : j # i => rows'[j] = rows[j]
  BY <1>3 DEF RowIds
<1>5. RowReal(i)'
  <2>1. CASE rows[i].tag = seen.tag /\ rows[i].status = seen.status
    <3>1. rows'[i].tag = new.tag /\ rows'[i].status = new.status /\ blurred' = blurred
      BY <1>2, <1>3, <1>4, <2>1 DEF Late
    <3> QED
      BY <3>1 DEF RowReal
  <2>2. CASE ~ (rows[i].tag = seen.tag /\ rows[i].status = seen.status)
    <3>1. rows'[i].tag \in blurred' \cup {None}
      BY <1>2, <1>3, <1>4, <2>2 DEF Late
    <3> QED
      BY <3>1 DEF RowReal
  <2> QED
    BY <2>1, <2>2
<1> QED
  BY <1>3, <1>4, <1>5

\* Steps that write no row and read nothing.
LEMMA QuietEnds ==
  ASSUME EndInv, EndStep, UNCHANGED <<rows, poll>>, blurred \subseteq blurred'
  PROVE  EndInv'
<1>1. RowIds' = RowIds
  BY DEF RowIds
<1> QED
  BY <1>1, EndKept

\* A request that inserts the rows it has, which run.
LEMMA RunInsertEnds ==
  ASSUME Inv, EndInv, NEW q \in Requests, NEW w \in Workflows, RunInsert(q, w)
  PROVE  EndInv'
<1>1. Insert(NewRow(w, None)) /\ UNCHANGED <<eng, poll, blurred>>
  BY DEF RunInsert
<1>2. NewRow(w, None) \in Rows /\ NewRow(w, None).tag = None
  BY DEF NewRow, Rows, Statuses
<1>3. PICK n : /\ RowIds' = RowIds \cup {n} /\ rows'[n] = NewRow(w, None)
               /\ \A j \in RowIds : rows'[j] = rows[j]
  BY <1>1, <1>2, RowsInsert DEF Inv
<1>4. RowReal(n)'
  BY <1>2, <1>3 DEF RowReal
<1> QED
  BY <1>1, <1>3, <1>4, EndsSame, EndKept

\* The rows of a batch run.
LEMMA BatchCommitEnds ==
  ASSUME Inv, EndInv, NEW q \in Requests, BatchCommit(q)
  PROVE  EndInv'
<1>1. pc[q] = "batch" /\ UNCHANGED <<eng, poll, blurred>>
  BY DEF BatchCommit
<1>2. PICK ids \in Seq(RunIds) : ids = job[q].ids
  BY DEF Inv, Types, Jobs
<1>3. PICK w \in Workflows : w = job[q].wf
  BY <1>1 DEF Inv, JobOwn
<1>4. rows' = rows \o [n \in DOMAIN ids |-> NewRow(w, ids[n])]
  BY <1>2, <1>3 DEF BatchCommit
<1>5. \A n \in DOMAIN ids : ids[n] \in Ids
  BY <1>2 DEF Inv, JobOwn, IsRunOf
<1>6. /\ \A i \in RowIds' \ RowIds :
           i - Len(rows) \in DOMAIN ids /\ rows'[i] = NewRow(w, ids[i - Len(rows)])
      /\ \A j \in RowIds : rows'[j] = rows[j]
  BY <1>4, RowsBatch DEF Inv
<1>7. ASSUME NEW i \in RowIds' \ RowIds PROVE RowReal(i)'
  <2>1. rows'[i].tag \in Ids /\ rows'[i].status = "running"
    <3>1. PICK n \in DOMAIN ids : rows'[i] = NewRow(w, ids[n])
      BY <1>6
    <3> QED
      BY <1>5, <3>1 DEF NewRow
  <2>2. Ids' = Ids /\ "running" \notin Ended
    BY <1>1, ConstantsAssumption DEF Ids
  <2> QED
    BY <2>1, <2>2 DEF RowReal, Real
<1> QED
  BY <1>1, <1>6, <1>7, EndsSame, EndKept

\* A request ties its row to the process instance that it has started.
LEMMA TieEnds ==
  ASSUME Inv, EndInv, NEW q \in Requests, pc[q] \in {"tag", "retie"},
         NEW seen \in Copies, NEW new \in Copies, Update(job[q].row, seen, new),
         new.status = "running", new.tag = Head(job[q].ids), UNCHANGED <<eng, poll>>
  PROVE  EndInv'
<1>1. job[q].row \in RowIds
  BY DEF Inv, JobOwn
<1>2. new.tag \in Ids
  <2>1. PICK ids \in Seq(RunIds) : ids = job[q].ids /\ Len(ids) = 1
    BY DEF Inv, Types, Jobs, JobOwn
  <2>2. 1 \in DOMAIN ids /\ new.tag = ids[1]
    BY <2>1
  <2> QED
    BY <2>1, <2>2 DEF Inv, JobOwn, IsRunOf
<1>3. Real(new.tag, new.status)' /\ new.tag # None
  BY <1>2, ConstantsAssumption, IdsAreRunIds DEF Real, Ids, Inv
<1>4. /\ \A j \in RowIds' : (j \in RowIds /\ rows'[j] = rows[j]) \/ RowReal(j)'
      /\ blurred \subseteq blurred'
  BY <1>1, <1>3, UpdateIsReal DEF Inv
<1> QED
  BY <1>4, EndsSame, EndKept

\* run_workflow writes the tag.
LEMMA RunTagEnds ==
  ASSUME Inv, EndInv, NEW q \in Requests, RunTag(q) PROVE EndInv'
<1>1. pc[q] = "tag" /\ UNCHANGED <<eng, poll>>
      /\ Update(job[q].row, Made(q), NewRow(job[q].wf, Head(job[q].ids)))
  BY DEF RunTag
<1>2. PICK new : new = NewRow(job[q].wf, Head(job[q].ids))
  OBVIOUS
<1>3. PICK seen : seen = Made(q)
  OBVIOUS
<1>4. job[q] \in Jobs
  BY DEF Inv, Types
<1>5. Head(job[q].ids) \in RunIds
  <2>1. PICK ids \in Seq(RunIds) : ids = job[q].ids /\ Len(ids) = 1
    BY <1>1 DEF Inv, Types, Jobs, JobOwn
  <2> QED
    BY <2>1
<1>6. new \in Copies /\ new.status = "running" /\ new.tag = Head(job[q].ids)
  BY <1>2, <1>4, <1>5 DEF NewRow, Copies, Statuses, Jobs
<1>7. seen \in Copies
  BY <1>3, <1>4 DEF Made, NewRow, Copies, Statuses, Jobs
<1> QED
  BY <1>1, <1>2, <1>3, <1>6, <1>7, TieEnds

\* rerun_instance ties the row anew and says that it runs.
LEMMA RerunWriteEnds ==
  ASSUME Inv, EndInv, NEW q \in Requests, RerunWrite(q) PROVE EndInv'
<1>1. pc[q] = "retie" /\ UNCHANGED <<eng, poll>>
      /\ Update(job[q].row, job[q].seen,
                [job[q].seen EXCEPT !.status = "running", !.tag = Head(job[q].ids)])
  BY DEF RerunWrite
<1>2. PICK seen \in Copies : seen = job[q].seen
  BY DEF Inv, Types, Jobs
<1>3. PICK new : new = [seen EXCEPT !.status = "running", !.tag = Head(job[q].ids)]
  OBVIOUS
<1>4. Head(job[q].ids) \in RunIds
  <2>1. PICK ids \in Seq(RunIds) : ids = job[q].ids /\ Len(ids) = 1
    BY <1>1 DEF Inv, Types, Jobs, JobOwn
  <2> QED
    BY <2>1
<1>5. new \in Copies /\ new.status = "running" /\ new.tag = Head(job[q].ids)
  BY <1>3, <1>4 DEF Copies, Statuses
<1> QED
  BY <1>1, <1>2, <1>3, <1>5, TieEnds

\* run_workflow was refused: its row fails, and has no tag.
LEMMA RunFailsEnds ==
  ASSUME Inv, EndInv, NEW q \in Requests, RunFails(q) PROVE EndInv'
<1>1. pc[q] = "run" /\ CallFails(job[q].wf) /\ UNCHANGED poll
      /\ Update(job[q].row, Made(q), [Made(q) EXCEPT !.status = "failed"])
  BY DEF RunFails
<1>2. PICK seen : seen = Made(q)
  OBVIOUS
<1>3. seen \in Copies /\ seen.tag = None
  BY <1>2 DEF Made, NewRow, Copies, Statuses, Inv, Types, Jobs
<1>4. PICK new : new = [seen EXCEPT !.status = "failed"]
  OBVIOUS
<1>5. new \in Copies /\ new.tag = None
  BY <1>3, <1>4, ConstantsAssumption DEF Copies, Statuses
<1>6. job[q].row \in RowIds
  BY <1>1 DEF Inv, JobOwn
<1>7. Update(job[q].row, seen, new)
  BY <1>1, <1>2, <1>4
<1>8. /\ \A j \in RowIds' : (j \in RowIds /\ rows'[j] = rows[j]) \/ RowReal(j)'
      /\ blurred \subseteq blurred'
  BY <1>3, <1>5, <1>6, <1>7, UpdateIsReal DEF Inv
<1> QED
  BY <1>1, <1>8, EndsCallFails, EndKept DEF Inv

\* All steps of requests.
LEMMA RequestStepEnds ==
  ASSUME Inv, EndInv, NEW q \in Requests, RequestStep(q) PROVE EndInv'
<1>1. CASE RunStart(q) \/ RerunStart(q) \/ BatchStart(q)
  <2>1. StartRun(job[q].wf) /\ UNCHANGED <<rows, poll, blurred>>
    BY <1>1 DEF RunStart, RerunStart, BatchStart
  <2> QED
    BY <2>1, EndsStart, QuietEnds DEF Inv
<1>2. CASE RerunFails(q) \/ BatchFails(q)
  <2>1. CallFails(job[q].wf) /\ UNCHANGED <<rows, poll, blurred>>
    BY <1>2 DEF RerunFails, BatchFails
  <2> QED
    BY <2>1, EndsCallFails, QuietEnds DEF Inv
<1>3. CASE RequestLost(q)
  <2>1. UNCHANGED <<eng, rows, poll, blurred>>
    BY <1>3 DEF RequestLost
  <2> QED
    BY <2>1, EndsSame, QuietEnds
<1> QED
  BY <1>1, <1>2, <1>3, RunTagEnds, RunFailsEnds, RerunWriteEnds, BatchCommitEnds DEF RequestStep

\* A poll that reads: what it reads now is right.
LEMMA PollEnds ==
  ASSUME EndInv, NEW p \in Pollers, UNCHANGED <<eng, rows>>, blurred \subseteq blurred',
         \A u \in Pollers \ {p} : poll'[u] = poll[u],
         PollReal(p)'
  PROVE  EndInv'
<1>1. RowIds' = RowIds
  BY DEF RowIds
<1> QED
  BY <1>1, EndsSame, EndKept

\* A poll that turns to other rows has read nothing new.
LEMMA TakesUpEnds ==
  ASSUME Inv, EndInv, NEW p \in Pollers, NEW cands, TakesUp(p, cands),
         UNCHANGED <<eng, rows, blurred>>
  PROVE  EndInv'
<1>1. PICK old \in Polls : old = poll[p]
  BY DEF Inv, Types
<1>2. PICK o : o = [old EXCEPT !.cands = cands]
  OBVIOUS
<1>3. o.list = old.list /\ o.read = old.read
  BY <1>2 DEF Polls
<1>4. poll'[p] = o /\ \A u \in Pollers \ {p} : poll'[u] = poll[u]
  BY <1>1, <1>2 DEF TakesUp, Inv, Types
<1>5. PollReal(p)'
  BY <1>1, <1>3, <1>4, EndsSame, RealStays DEF EndInv, PollReal
<1> QED
  BY <1>4, <1>5, PollEnds

\* A synchronisation takes up all workflows.
LEMMA SyncBeginEnds ==
  ASSUME Inv, EndInv, NEW p \in Syncs, SyncBegin(p) PROVE EndInv'
<1>1. p \in Pollers /\ UNCHANGED <<eng, rows, blurred>>
      /\ poll' = [poll EXCEPT ![p].todo = Workflows]
  BY DEF SyncBegin, Pollers
<1>2. PICK old \in Polls : old = poll[p]
  BY <1>1 DEF Inv, Types
<1>3. PICK o : o = [old EXCEPT !.todo = Workflows]
  OBVIOUS
<1>4. o.list = old.list /\ o.read = old.read
  BY <1>3 DEF Polls
<1>5. poll'[p] = o /\ \A u \in Pollers \ {p} : poll'[u] = poll[u]
  BY <1>1, <1>2, <1>3 DEF Inv, Types
<1>6. PollReal(p)'
  BY <1>1, <1>2, <1>4, <1>5, EndsSame, RealStays DEF EndInv, PollReal
<1> QED
  BY <1>1, <1>5, <1>6, PollEnds

\* A list shows the states of now.
LEMMA ListedAreReal ==
  ASSUME NEW w PROVE \A x \in Listed(w) : Real(x.id, x.state)
<1> SUFFICES ASSUME NEW x \in Listed(w) PROVE Real(x.id, x.state)
  OBVIOUS
<1>1. PICK k \in Ids : x = [id |-> k, state |-> eng[k].state]
  BY DEF Listed, Newest
<1> QED
  BY <1>1 DEF Real

\* A list is read, or the call fails.
LEMMA SyncListEnds ==
  ASSUME Inv, EndInv, NEW p \in Pollers, NEW w \in Workflows, SyncList(p, w) PROVE EndInv'
<1>1. UNCHANGED <<eng, rows, blurred>>
  BY DEF SyncList
<1>2. PICK old \in Polls : old = poll[p]
  BY DEF Inv, Types
<1>3. PICK list \in {Listed(w), old.list} :
        poll' = [poll EXCEPT ![p] = [old EXCEPT !.todo = @ \ {w}, !.list = list]]
  <2>1. CASE poll' = [poll EXCEPT ![p].todo = @ \ {w}, ![p].list = Listed(w)]
    BY <1>2, <2>1
  <2>2. CASE poll' = [poll EXCEPT ![p].todo = @ \ {w}]
    <3>1. [old EXCEPT !.todo = @ \ {w}] = [old EXCEPT !.todo = @ \ {w}, !.list = old.list]
      BY DEF Polls
    <3> QED
      BY <1>2, <2>2, <3>1
  <2> QED
    BY <2>1, <2>2 DEF SyncList
<1>4. PICK o : o = [old EXCEPT !.todo = @ \ {w}, !.list = list]
  OBVIOUS
<1>5. o.list = list /\ o.read = old.read
  BY <1>4 DEF Polls
<1>6. poll'[p] = o /\ \A u \in Pollers \ {p} : poll'[u] = poll[u]
  BY <1>3, <1>4 DEF Inv, Types
<1>7. \A x \in list : Real(x.id, x.state)
  BY <1>2, <1>3, ListedAreReal DEF EndInv, PollReal
<1>8. PollReal(p)'
  <2>1. \A x \in list : Real(x.id, x.state)'
    BY <1>1, <1>7, EndsSame, RealStays
  <2>2. old.read.tag # None => Real(old.read.tag, old.read.status)'
    BY <1>1, <1>2, EndsSame, RealStays DEF EndInv, PollReal
  <2> QED
    BY <1>5, <1>6, <2>1, <2>2 DEF PollReal
<1> QED
  BY <1>1, <1>6, <1>8, PollEnds

\* A poll takes a row in its hands, and what it has read for it.
LEMMA ReadEnds ==
  ASSUME Inv, EndInv, NEW p \in Pollers, UNCHANGED <<eng, rows>>, blurred \subseteq blurred',
         NEW o, poll' = [poll EXCEPT ![p] = o], o.list \subseteq poll[p].list,
         Real(o.read.tag, o.read.status) \/ o.read.tag = None
  PROVE  EndInv'
<1>1. poll'[p] = o /\ \A u \in Pollers \ {p} : poll'[u] = poll[u]
  BY DEF Inv, Types
<1>2. PollReal(p)'
  <2>1. \A x \in o.list : Real(x.id, x.state)'
    BY EndsSame, RealStays DEF EndInv, PollReal
  <2>2. o.read.tag # None => Real(o.read.tag, o.read.status)'
    BY EndsSame, RealStays
  <2> QED
    BY <1>1, <2>1, <2>2 DEF PollReal
<1> QED
  BY <1>1, <1>2, PollEnds

\* A synchronisation turns to an entry of its list.
LEMMA SyncFindEnds ==
  ASSUME Inv, EndInv, NEW p \in Pollers, SyncFind(p) PROVE EndInv'
<1>1. UNCHANGED <<eng, rows>> /\ blurred \subseteq blurred'
  BY DEF SyncFind
<1>2. PICK old \in Polls : old = poll[p]
  BY DEF Inv, Types
<1>3. PICK x \in poll[p].list :
        \/ poll' = [poll EXCEPT ![p].list = @ \ {x}, ![p].read = AsRow(x)]
        \/ \E i \in Matches(x.id) :
             poll' = [poll EXCEPT ![p].list = @ \ {x}, ![p].row = i,
                                  ![p].seen = rows[i], ![p].read = AsRow(x)]
  BY DEF SyncFind
<1>4. PICK read : read = AsRow(x)
  OBVIOUS
<1>5. Real(read.tag, read.status)
  BY <1>3, <1>4 DEF EndInv, PollReal, AsRow
<1>6. CASE poll' = [poll EXCEPT ![p].list = @ \ {x}, ![p].read = AsRow(x)]
  <2>1. PICK o : o = [old EXCEPT !.list = @ \ {x}, !.read = read]
    OBVIOUS
  <2>2. o.list \subseteq old.list /\ o.read = read
    BY <2>1 DEF Polls
  <2>3. poll' = [poll EXCEPT ![p] = o]
    BY <1>2, <1>4, <1>6, <2>1
  <2> QED
    BY <1>1, <1>2, <1>5, <2>2, <2>3, ReadEnds
<1>7. ASSUME NEW i \in Matches(x.id),
             poll' = [poll EXCEPT ![p].list = @ \ {x}, ![p].row = i,
                                  ![p].seen = rows[i], ![p].read = AsRow(x)]
      PROVE  EndInv'
  <2>1. PICK seen : seen = rows[i]
    OBVIOUS
  <2>2. PICK o : o = [old EXCEPT !.list = @ \ {x}, !.row = i, !.seen = seen, !.read = read]
    OBVIOUS
  <2>3. o.list \subseteq old.list /\ o.read = read
    BY <2>2 DEF Polls
  <2>4. poll' = [poll EXCEPT ![p] = o]
    BY <1>2, <1>4, <1>7, <2>1, <2>2
  <2> QED
    BY <1>1, <1>2, <1>5, <2>3, <2>4, ReadEnds
<1> QED
  BY <1>3, <1>6, <1>7

\* A poll asks Dolphin about one row of those that it looks at.
LEMMA AskAboutEnds ==
  ASSUME Inv, EndInv, NEW p \in Pollers, NEW all, all \subseteq Tagged, NEW here, NEW there,
         AskAbout(p, all, here, there), UNCHANGED <<eng, rows, blurred>>
  PROVE  EndInv'
<1>1. UNCHANGED <<eng, rows, blurred>> /\ blurred \subseteq blurred'
  OBVIOUS
<1>2. PICK old \in Polls : old = poll[p]
  BY DEF Inv, Types
<1>3. PICK i \in Newest(all, 1) :
        \/ poll' = [poll EXCEPT ![p].cands = all \ {i}, ![p].row = i, ![p].seen = rows[i],
                      ![p].read = [rows[i] EXCEPT !.status = eng[rows[i].tag].state]]
        \/ poll' = [poll EXCEPT ![p].cands = all \ {i}]
  BY DEF AskAbout
<1>4. CASE poll' = [poll EXCEPT ![p].cands = all \ {i}]
  <2>1. PICK cands : cands = all \ {i}
    OBVIOUS
  <2>2. TakesUp(p, cands)
    BY <1>4, <2>1 DEF TakesUp
  <2> QED
    BY <1>1, <2>2, TakesUpEnds
<1>5. CASE poll' = [poll EXCEPT ![p].cands = all \ {i}, ![p].row = i, ![p].seen = rows[i],
                      ![p].read = [rows[i] EXCEPT !.status = eng[rows[i].tag].state]]
  <2>1. i \in RowIds /\ rows[i].tag \in Ids
    <3>1. i \in Tagged
      BY DEF Newest
    <3> QED
      BY <3>1 DEF Tagged, Inv, RowsOwn, IsRunOf
  <2>2. PICK seen \in Copies : seen = rows[i]
    BY <2>1, RowIsCopy DEF Inv
  <2>3. PICK read : read = [seen EXCEPT !.status = eng[rows[i].tag].state]
    OBVIOUS
  <2>4. read.tag = rows[i].tag /\ read.status = eng[rows[i].tag].state
    BY <2>2, <2>3 DEF Copies
  <2>5. Real(read.tag, read.status)
    BY <2>1, <2>4 DEF Real
  <2>6. PICK o : o = [old EXCEPT !.cands = all \ {i}, !.row = i, !.seen = seen, !.read = read]
    OBVIOUS
  <2>7. o.list = old.list /\ o.read = read
    BY <2>6 DEF Polls
  <2>8. poll' = [poll EXCEPT ![p] = o]
    BY <1>2, <1>5, <2>2, <2>3, <2>6
  <2> QED
    BY <1>1, <1>2, <2>5, <2>7, <2>8, ReadEnds
<1> QED
  BY <1>3, <1>4, <1>5

\* A poll lets go of what it has read.
LEMMA LetsGoEnds ==
  ASSUME Inv, EndInv, NEW p \in Pollers, LetsGo(p), UNCHANGED eng
  PROVE  \A u \in Pollers : poll'[u] = poll[u] \/ PollReal(u)'
<1>1. PICK old \in Polls : old = poll[p]
  BY DEF Inv, Types
<1>2. PICK o : o = [old EXCEPT !.row = 0, !.seen = NoRow, !.read = NoRow]
  OBVIOUS
<1>3. o.list = old.list /\ o.read.tag = None
  BY <1>2 DEF Polls, NoRow, NewRow
<1>4. poll'[p] = o /\ \A u \in Pollers \ {p} : poll'[u] = poll[u]
  BY <1>1, <1>2 DEF LetsGo, Inv, Types
<1>5. PollReal(p)'
  <2>1. \A x \in o.list : Real(x.id, x.state)'
    BY <1>1, <1>3, EndsSame, RealStays DEF EndInv, PollReal
  <2> QED
    BY <1>3, <1>4, <2>1 DEF PollReal
<1> QED
  BY <1>4, <1>5

\* A poll whose commit fails writes nothing.
LEMMA PollLostEnds ==
  ASSUME Inv, EndInv, NEW p \in Pollers, LetsGo(p), UNCHANGED <<eng, rows, blurred>>
  PROVE  EndInv'
<1>1. RowIds' = RowIds
  BY DEF RowIds
<1> QED
  BY <1>1, LetsGoEnds, EndsSame, EndKept

\* A poll writes the row that it has found.
LEMMA PollUpdateEnds ==
  ASSUME Inv, EndInv, NEW p \in Pollers, pc[p] \in {"found", "patched", "refreshed"},
         poll[p].row # 0, Update(poll[p].row, poll[p].seen, poll[p].read), LetsGo(p),
         UNCHANGED eng
  PROVE  EndInv'
<1>1. PICK seen \in Copies : seen = poll[p].seen
  BY DEF Inv, Types, Polls
<1>2. PICK new \in Copies : new = poll[p].read
  BY DEF Inv, Types, Polls
<1>3. PollOwn(p)
  BY DEF Inv
<1>4. poll[p].row \in RowIds /\ (new.tag = seen.tag \/ new.tag # None)
  BY <1>1, <1>2, <1>3 DEF PollOwn
<1>5. new.tag # None => Real(new.tag, new.status)'
  BY <1>2, EndsSame, RealStays DEF EndInv, PollReal
<1>6. /\ \A j \in RowIds' : (j \in RowIds /\ rows'[j] = rows[j]) \/ RowReal(j)'
      /\ blurred \subseteq blurred'
  BY <1>1, <1>2, <1>4, <1>5, UpdateIsReal DEF Inv
<1> QED
  BY <1>6, LetsGoEnds, EndsSame, EndKept

\* A synchronisation updates, inserts, or fails to.
LEMMA SyncWriteEnds ==
  ASSUME Inv, EndInv, NEW p \in Pollers, SyncWrite(p) PROVE EndInv'
<1>1. pc[p] = "found" /\ LetsGo(p) /\ UNCHANGED eng
  BY DEF SyncWrite, LetsGo
<1> DEFINE Fails == UNCHANGED <<rows, blurred>>
<1>4. CASE Fails
  BY <1>1, <1>4, PollLostEnds
<1>2. CASE poll[p].row # 0 /\ ~ Fails
  <2>1. Update(poll[p].row, poll[p].seen, poll[p].read)
    BY <1>2 DEF SyncWrite, RollBack
  <2> QED
    BY <1>1, <1>2, <2>1, PollUpdateEnds
<1>3. CASE poll[p].row = 0 /\ ~ Fails
  <2>1. PICK row \in Copies : row = poll[p].read
    BY DEF Inv, Types, Polls
  <2>2. Insert(row) /\ UNCHANGED blurred
    BY <1>3, <2>1 DEF SyncWrite, RollBack
  <2>3. row.tag # None /\ row.wf \in Workflows
    <3>1. row.tag # None /\ IsRunOf(row.tag, row.wf)
      BY <1>1, <2>1 DEF Inv, PollOwn
    <3> QED
      BY <3>1, EngIsRun DEF Inv, IsRunOf, Runs
  <2>4. row \in Rows
    BY <2>3 DEF Rows, Copies
  <2>5. PICK n : /\ RowIds' = RowIds \cup {n} /\ rows'[n] = row
                 /\ \A j \in RowIds : rows'[j] = rows[j]
    BY <2>2, <2>4, RowsInsert DEF Inv
  <2>6. Real(row.tag, row.status)'
    BY <1>1, <2>1, <2>3, EndsSame, RealStays DEF EndInv, PollReal
  <2>7. RowReal(n)'
    BY <2>5, <2>6 DEF RowReal
  <2> QED
    BY <1>1, <2>2, <2>5, <2>7, LetsGoEnds, EndsSame, EndKept
<1> QED
  BY <1>2, <1>3, <1>4

\* All steps of polls.
LEMMA PollStepEnds ==
  ASSUME Inv, EndInv, NEW p \in Pollers, PollStep(p) PROVE EndInv'
<1>1. CASE PatchBegin(p)
  <2>1. PICK all : all = Newest(Tagged, PatchLimit)
    OBVIOUS
  <2>2. all \subseteq Tagged /\ UNCHANGED <<eng, rows, blurred>>
    BY <1>1, <2>1 DEF PatchBegin, Newest
  <2>3. AskAbout(p, all, "patch", "patched") \/ UNCHANGED poll
    BY <1>1, <2>1 DEF PatchBegin
  <2> QED
    BY <2>2, <2>3, AskAboutEnds, EndsSame, QuietEnds
<1>2. CASE Ask(p)
  <2>1. PICK all : all = poll[p].cands
    OBVIOUS
  <2>2. all \subseteq Tagged /\ UNCHANGED <<eng, rows, blurred>>
    BY <1>2, <2>1, PollIsOwn DEF Ask
  <2>3. AskAbout(p, all, "patch", "patched") \/ AskAbout(p, all, "refresh", "refreshed")
    BY <1>2, <2>1 DEF Ask
  <2> QED
    BY <2>2, <2>3, AskAboutEnds
<1>3. CASE Tell(p)
  <2>1. pc[p] \in {"patched", "refreshed"} /\ LetsGo(p) /\ UNCHANGED eng
        /\ \/ Update(poll[p].row, poll[p].seen, poll[p].read)
           \/ UNCHANGED <<rows, blurred>>
    BY <1>3 DEF Tell, LetsGo, RollBack
  <2>2. poll[p].row # 0
    BY <2>1 DEF Inv, PollOwn
  <2> QED
    BY <2>1, <2>2, PollUpdateEnds, PollLostEnds
<1> QED
  BY <1>1, <1>2, <1>3, SyncListEnds, SyncFindEnds, SyncWriteEnds DEF PollStep

\* A page asks about its rows.
LEMMA ViewerEnds ==
  ASSUME Inv, EndInv, NEW p \in Viewers,
         (\E W : RefreshBegin(p, W)) \/ \E i \in RowIds : RefreshOne(p, i)
  PROVE  EndInv'
<1>1. p \in Pollers /\ UNCHANGED <<eng, rows, blurred>>
  BY DEF RefreshBegin, RefreshOne, Pollers
<1>2. PICK all : all \subseteq Tagged /\ AskAbout(p, all, "refresh", "refreshed")
  BY DEF RefreshBegin, RefreshOne, Newest
<1> QED
  BY <1>1, <1>2, AskAboutEnds

\* An alert comes after the end; a row that it finds by another's number is blurred.
LEMMA WebhookEnds ==
  ASSUME Inv, EndInv, NEW k \in Ids, Webhook(k) PROVE EndInv'
<1>1. eng[k].state \in Ended /\ UNCHANGED <<eng, poll>>
  BY DEF Webhook
<1>2. PICK i \in RowIds : /\ rows' = [rows EXCEPT ![i].status = eng[k].state]
                          /\ blurred' = blurred \cup ({rows[i].tag} \ {k})
  BY DEF Webhook
<1>3. rows[i] \in Rows
  BY DEF Inv, Types, RowIds
<1> DEFINE r == [rows[i] EXCEPT !.status = eng[k].state]
<1>4. r.tag = rows[i].tag /\ r.status = eng[k].state
  BY <1>3 DEF Rows
<1>5. rows' = [rows EXCEPT ![i] = r]
  BY <1>2
<1> HIDE DEF r
<1>6. RowIds' = RowIds /\ rows'[i] = r /\ \A j \in RowIds : j # i => rows'[j] = rows[j]
  BY <1>5 DEF RowIds
<1>7. RowReal(i)'
  <2>1. CASE rows[i].tag = k
    <3>1. Real(k, eng[k].state)'
      BY <1>1 DEF Real, Ids
    <3> QED
      BY <1>1, <1>4, <1>6, <2>1, <3>1 DEF RowReal
  <2>2. CASE rows[i].tag # k
    BY <1>2, <1>4, <1>6, <2>2 DEF RowReal
  <2> QED
    BY <2>1, <2>2
<1> QED
  BY <1>1, <1>2, <1>6, <1>7, EndsSame, EndKept

\* Dolphin fires a schedule or ends a process instance.
LEMMA EngineEndsKept ==
  ASSUME Inv, EndInv,
         \/ \E w \in Workflows : EngineFires(w)
         \/ \E k \in Ids : EngineEnds(k)
  PROVE  EndInv'
<1>1. EndStep
  BY EndsStart, EndsEnd DEF EngineFires, Inv
<1>2. UNCHANGED <<rows, poll, blurred>>
  BY DEF EngineFires, EngineEnds
<1> QED
  BY <1>1, <1>2, QuietEnds

\* Threads that have nothing have read nothing.
LEMMA RestartEnds ==
  ASSUME Inv, EndInv, Restart PROVE EndInv'
<1>1. poll' = [p \in Pollers |-> NoPoll] /\ UNCHANGED <<eng, rows, blurred>>
  BY DEF Restart, Pollers, NoPoll, NoRow, NewRow
<1>2. \A p \in Pollers : PollReal(p)'
  BY <1>1 DEF PollReal, NoPoll, NoRow, NewRow
<1>3. RowIds' = RowIds
  BY <1>1 DEF RowIds
<1> QED
  BY <1>1, <1>2, <1>3, EndsSame, EndKept

\* Every step keeps what is said of ends.
LEMMA NextEnds ==
  ASSUME Inv, EndInv, [Next]_vars PROVE EndInv'
<1>1. CASE UNCHANGED vars
  BY <1>1, EndsSame, QuietEnds DEF vars
<1>2. CASE Next
  <2>1. CASE (\E w \in Workflows : EngineFires(w)) \/ (\E k \in Ids : EngineEnds(k))
    BY <2>1, EngineEndsKept
  <2>2. CASE \E q \in Requests : RequestStep(q)
    BY <2>2, RequestStepEnds
  <2>3. CASE \E q \in Requests, w \in Workflows : RunInsert(q, w)
    BY <2>3, RunInsertEnds
  <2>4. CASE \/ \E q \in Requests, w \in Workflows, n \in 1 .. MaxRuns : BatchBegin(q, w, n)
             \/ \E q \in Requests, i \in RowIds : RerunLoad(q, i)
    <3>1. UNCHANGED <<eng, rows, poll, blurred>>
      BY <2>4 DEF BatchBegin, RerunLoad
    <3> QED
      BY <3>1, EndsSame, QuietEnds
  <2>5. CASE \E p \in Syncs : SyncBegin(p)
    BY <2>5, SyncBeginEnds
  <2>6. CASE \/ \E p \in Viewers, W \in SUBSET Workflows : RefreshBegin(p, W)
             \/ \E p \in Viewers, i \in RowIds : RefreshOne(p, i)
    BY <2>6, ViewerEnds
  <2>7. CASE \E p \in Pollers : PollStep(p)
    BY <2>7, PollStepEnds
  <2>8. CASE \E k \in Ids : Webhook(k)
    BY <2>8, WebhookEnds
  <2>9. CASE Restart
    BY <2>9, RestartEnds
  <2> QED
    BY <1>2, <2>1, <2>2, <2>3, <2>4, <2>5, <2>6, <2>7, <2>8, <2>9 DEF Next
<1> QED
  BY <1>1, <1>2

(* A row says that its process instance has ended only if it has ended that
   way, unless it was written too late or found by the number of another
   instance: for any Dolphins, polls, requests and alerts, however they
   overlap, fail and are repeated. *)
THEOREM EndsAreReal == Spec => []EndIsReal
<1>1. Init => EndInv
  <2> SUFFICES ASSUME Init PROVE EndInv
    OBVIOUS
  <2>1. RowIds = {} /\ \A p \in Pollers : poll[p] = NoPoll
    BY DEF Init, RowIds
  <2> QED
    BY <2>1 DEF EndInv, PollReal, NoPoll, NoRow, NewRow
<1>2. Inv /\ EndInv /\ [Next]_vars => EndInv'
  BY NextEnds
<1>3. EndInv => EndIsReal
  BY DEF EndInv, RowReal, Real, EndIsReal, Tagged
<1> QED
  BY <1>1, <1>2, <1>3, InvHolds, PTL DEF Spec
=============================================================================
