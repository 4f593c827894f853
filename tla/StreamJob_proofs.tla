--------------------------- MODULE StreamJob_proofs ---------------------------
(***************************************************************************)
(* Proofs about StreamJob, for any requests, pages and scripts, with       *)
(* failing calls and dying requests.                                       *)
(*                                                                         *)
(* That a deployed script is on record is not inductive: between the       *)
(* deployment and the commit only the request knows the script. And it     *)
(* rests on the submission to have made up its snapshot before it deploys. *)
(* The other three safety properties are about one request at a time, and  *)
(* follow from what that request has loaded being still so (Sole).         *)
(***************************************************************************)
EXTENDS StreamJob, TLAPS

\* The row, the deployment and the requests are records with the fields the actions use.
Shaped ==
  /\ DOMAIN row = {"exists", "script", "locked", "status", "dep", "jid"}
  /\ row = [f \in DOMAIN row |-> row[f]]
  /\ DOMAIN cr = {"state", "script", "jid", "life", "fresh"}
  /\ req = [q \in Sessions |-> [pc |-> req[q].pc, seen |-> req[q].seen,
                                new |-> req[q].new, snap |-> req[q].snap]]

\* A submission is about to record the script it deploys.
Recorded ==
  \A q \in Sessions : req[q].pc \in {"flush", "mount", "apply", "poll"}
                        => req[q].new.script \in req[q].snap

\* The commit of q is still to come, after a deployment if it is a submission.
Pending(q) == req[q].pc \in {"poll", "commit"}

\* Who deployed the script is about to record it, has done so, or has died.
OnRecordOrPending ==
  row.exists /\ cr.state # "absent" =>
    \/ cr.script \in history \cup lost
    \/ \E q \in Sessions : Pending(q) /\ cr.script \in req[q].snap

RecordInv == Shaped /\ Recorded /\ OnRecordOrPending

\* What is on record stays there while the deployment keeps its script and no
\* request that may have deployed it ends.
LEMMA StillOnRecord ==
  ASSUME OnRecordOrPending,
         row'.exists => row.exists, cr'.state # "absent" => cr.state # "absent",
         cr'.script = cr.script,
         history \cup lost \subseteq history' \cup lost',
         \A q \in Sessions : Pending(q) => \/ req'[q].pc \in {"poll", "commit"}
                                              /\ req'[q].snap = req[q].snap
                                           \/ req[q].snap \subseteq history' \cup lost'
  PROVE  OnRecordOrPending'
BY DEF OnRecordOrPending, Pending

\* A request that begins changes nothing but itself.
LEMMA LoadRecords ==
  ASSUME RecordInv, NEW q \in Sessions, NEW pc, NEW new, NEW snap, Load(q, pc, new, snap),
         pc \in {"flush", "mount", "apply", "poll"} => new.script \in snap
  PROVE  RecordInv'
<1>1. Shaped' /\ Recorded'
  BY DEF RecordInv, Shaped, Recorded, Load
<1>2. \A p \in Sessions : Pending(p) => req'[p].pc = req[p].pc /\ req'[p].snap = req[p].snap
  BY DEF RecordInv, Shaped, Load, Pending, At
<1>3. OnRecordOrPending'
  BY <1>2, StillOnRecord DEF RecordInv, Load, Pending
<1> QED
  BY <1>1, <1>3 DEF RecordInv

\* Beginning a request.
LEMMA BeginRecords == ASSUME RecordInv, NEW q \in Sessions, Begin(q) PROVE RecordInv'
<1>1. ASSUME NEW s \in Scripts, SubmitBegin(q, s) PROVE RecordInv'
  <2>1. [row EXCEPT !.script = s, !.dep = FALSE].script = s
    BY DEF RecordInv, Shaped
  <2> QED
    BY <1>1, <2>1, LoadRecords DEF SubmitBegin
<1>2. ASSUME NEW s \in Scripts, Save(q, s) \/ Rollback(q, s) PROVE RecordInv'
  BY <1>2, LoadRecords DEF Save, Rollback
<1>3. CASE Unlock(q) \/ CancelBegin(q) \/ DeleteBegin(q) \/ Poll(q)
  BY <1>3, LoadRecords DEF Unlock, CancelBegin, DeleteBegin, Poll, StatusBegin, SyncBegin
<1> QED
  BY <1>1, <1>2, <1>3 DEF Begin, Edit

\* A step that only moves a request on, or ends it, while it has no commit to
\* come, and may change the deployment's state or the ConfigMap.
LEMMA MoveRecords ==
  ASSUME RecordInv, NEW q \in Sessions, ~ Pending(q),
         UNCHANGED <<row, history, lost>>,
         DOMAIN cr' = DOMAIN cr, cr'.script = cr.script,
         cr'.state # "absent" => cr.state # "absent",
         \/ Done(q)
         \/ \E pc : GoTo(q, pc) /\ (pc \in {"flush", "mount", "apply", "poll"}
                                      => req[q].pc \in {"flush", "mount", "apply", "poll"})
  PROVE  RecordInv'
<1>1. Shaped' /\ Recorded'
  BY DEF RecordInv, Shaped, Recorded, Done, GoTo, Idle
<1>2. \A p \in Sessions : Pending(p) => req'[p] = req[p]
  BY DEF RecordInv, Shaped, Done, GoTo
<1>3. OnRecordOrPending'
  BY <1>2, StillOnRecord DEF RecordInv, Pending
<1> QED
  BY <1>1, <1>3 DEF RecordInv

\* A table of requests that differs from req in q only, whose snapshot it keeps.
Agrees(f, q) ==
  /\ f = [p \in Sessions |-> f[p]]
  /\ \A p \in Sessions : p # q => f[p] = req[p]
  /\ f[q] = [pc |-> f[q].pc, seen |-> f[q].seen, new |-> f[q].new, snap |-> req[q].snap]

\* q has reached its commit, with the snapshot it had.
Decided(q) == Agrees(req', q) /\ req'[q].pc = "commit"

\* Writing the change keeps the agreement.
LEMMA WriteNew ==
  ASSUME NEW q \in Sessions, NEW f, Agrees(f, q), f[q].pc = "commit", NEW n,
         req' = [f EXCEPT ![q].new = n]
  PROVE  Decided(q)
BY DEF Agrees, Decided

LEMMA WriteSeen ==
  ASSUME NEW q \in Sessions, NEW f, Agrees(f, q), NEW v, NEW g,
         g = [f EXCEPT ![q].seen.dep = v]
  PROVE  Agrees(g, q) /\ g[q].pc = f[q].pc
BY DEF Agrees

LEMMA WriteStatus ==
  ASSUME NEW q \in Sessions, NEW f, Agrees(f, q), NEW v, NEW g,
         g = [f EXCEPT ![q].new.status = v]
  PROVE  Agrees(g, q) /\ g[q].pc = f[q].pc
BY DEF Agrees

LEMMA WriteDep ==
  ASSUME NEW q \in Sessions, NEW f, Agrees(f, q), f[q].pc = "commit", NEW v,
         req' = [f EXCEPT ![q].new.dep = v]
  PROVE  Decided(q)
BY DEF Agrees, Decided

\* A request that has decided what to write goes on to its commit.
LEMMA DecideRecords ==
  ASSUME RecordInv, NEW q \in Sessions, Decided(q), UNCHANGED <<row, history, lost, cr>>
  PROVE  RecordInv'
<1> USE DEF Decided, Agrees
<1>1. Shaped' /\ Recorded'
  BY DEF RecordInv, Shaped, Recorded
<1>2. \A p \in Sessions : Pending(p) => req'[p].pc \in {"poll", "commit"}
                                         /\ req'[p].snap = req[p].snap
  BY DEF RecordInv, Shaped, Pending
<1>3. OnRecordOrPending'
  BY <1>2, StillOnRecord DEF RecordInv
<1> QED
  BY <1>1, <1>3 DEF RecordInv

\* The deployment gets the script of a submission that is about to record it.
LEMMA ApplyRecords == ASSUME RecordInv, NEW q \in Sessions, SubmitApply(q) PROVE RecordInv'
<1>1. Shaped' /\ Recorded'
  BY DEF RecordInv, Shaped, Recorded, SubmitApply, GoTo, At
<1>2. cr'.script = req[q].new.script
  BY DEF RecordInv, Shaped, SubmitApply
<1>3. req'[q].pc = "poll" /\ req'[q].snap = req[q].snap
  BY DEF RecordInv, Shaped, SubmitApply, GoTo
<1>4. req[q].new.script \in req[q].snap
  BY DEF RecordInv, Recorded, SubmitApply, At
<1> QED
  BY <1>1, <1>2, <1>3, <1>4 DEF RecordInv, OnRecordOrPending, Pending

\* A commit puts the snapshot of the request into the history.
LEMMA CommitRecords == ASSUME RecordInv, NEW q \in Sessions, Commit(q) PROVE RecordInv'
<1>1. CASE row.exists
  <2>1. /\ row' = Merge(row, req[q].seen, req[q].new)
        /\ history' = history \cup req[q].snap /\ lost' = lost \ req[q].snap
        /\ Done(q) /\ cr' = cr
    BY <1>1 DEF Commit
  <2>2. Shaped' /\ Recorded'
    BY <2>1 DEF RecordInv, Shaped, Recorded, Done, Idle, Merge
  <2>3. \A p \in Sessions : p # q => req'[p] = req[p]
    BY <2>1 DEF RecordInv, Shaped, Done
  <2>4. OnRecordOrPending'
    BY <1>1, <2>1, <2>3, StillOnRecord DEF RecordInv, Pending
  <2> QED
    BY <2>2, <2>4 DEF RecordInv
<1>2. CASE ~ row.exists
  <2>1. UNCHANGED <<row, cr>> /\ Done(q)
    BY <1>2 DEF Commit
  <2> QED
    BY <1>2, <2>1 DEF RecordInv, Shaped, Recorded, OnRecordOrPending, Done, Idle
<1> QED
  BY <1>1, <1>2

\* What a request that dies was to record is remembered as lost.
LEMMA DieRecords == ASSUME RecordInv, NEW q \in Sessions, Die(q) PROVE RecordInv'
<1>1. Shaped' /\ Recorded'
  BY DEF RecordInv, Shaped, Recorded, Die, Done, Idle
<1>2. \A p \in Sessions : p # q => req'[p] = req[p]
  BY DEF RecordInv, Shaped, Die, Done
<1>3. Pending(q) => req[q].snap \subseteq history' \cup lost'
  BY DEF Die, Pending
<1>4. OnRecordOrPending'
  BY <1>2, <1>3, StillOnRecord DEF RecordInv, Pending, Die
<1> QED
  BY <1>1, <1>4 DEF RecordInv

\* The operator and Flink leave the script of the deployment alone.
LEMMA EngineRecords == ASSUME RecordInv, Reconcile \/ Report \/ Fail PROVE RecordInv'
<1>1. /\ cr'.script = cr.script /\ cr'.state = cr.state /\ DOMAIN cr' = DOMAIN cr
      /\ UNCHANGED <<row, history, req, lost>>
  BY DEF RecordInv, Shaped, Reconcile, Report, Fail
<1> QED
  BY <1>1 DEF RecordInv, Shaped, Recorded, OnRecordOrPending, Pending

\* The same for a request that decides to write a whole record of the job.
LEMMA PatchRecords ==
  ASSUME RecordInv, NEW q \in Sessions, NEW n, ~ Pending(q),
         UNCHANGED <<row, history, lost, cr>>,
         req' = [req EXCEPT ![q].pc = "commit", ![q].new = n]
  PROVE RecordInv'
<1>1. PICK f : f = [req EXCEPT ![q].pc = "commit"] /\ req' = [f EXCEPT ![q].new = n]
  OBVIOUS
<1>2. Agrees(f, q) /\ f[q].pc = "commit"
  BY <1>1 DEF RecordInv, Shaped, Agrees
<1>3. Decided(q)
  BY <1>1, <1>2, WriteNew
<1> QED
  BY <1>3, DecideRecords

\* Every step of a request under way keeps the invariant.
LEMMA ProceedRecords == ASSUME RecordInv, NEW q \in Sessions, Proceed(q) PROVE RecordInv'
<1> DEFINE gone == [req EXCEPT ![q].pc = "commit"]
<1>0. Agrees(gone, q) /\ gone[q].pc = "commit"
  BY DEF RecordInv, Shaped, Agrees
<1>1. CASE SubmitFlush(q) \/ SubmitMount(q)
  BY <1>1, MoveRecords DEF SubmitFlush, SubmitMount, At, Pending
<1>2. CASE SubmitApply(q)
  BY <1>2, ApplyRecords
<1>3. CASE SubmitPoll(q)
  <2>1. PICK jid \in {cr.jid, 0} :
          req' = [req EXCEPT ![q].pc = "commit", ![q].seen.dep = FALSE,
                             ![q].new = Submitted(req[q].new, jid)]
    BY <1>3 DEF SubmitPoll
  <2>2. PICK f, n : f = [gone EXCEPT ![q].seen.dep = FALSE] /\ req' = [f EXCEPT ![q].new = n]
    BY <2>1
  <2> HIDE DEF gone
  <2>3. Agrees(f, q) /\ f[q].pc = "commit"
    BY <1>0, <2>2, WriteSeen
  <2>4. Decided(q)
    BY <2>2, <2>3, WriteNew
  <2> QED
    BY <1>3, <2>4, DecideRecords DEF SubmitPoll
<1>4. CASE SubmitFail(q)
  <2>1. CASE At(q, "flush")
    BY <1>4, <2>1, MoveRecords DEF SubmitFail, Submitting, At, Pending
  <2>2. CASE Submitting(q)
    <3>1. req' = [gone EXCEPT ![q].new.status = "failed"]
      BY <1>4, <2>2 DEF SubmitFail, Submitting, At
    <3> HIDE DEF gone
    <3>2. Decided(q)
      BY <1>0, <3>1 DEF Agrees, Decided
    <3> QED
      BY <1>4, <2>2, <3>2, DecideRecords DEF SubmitFail
  <2> QED
    BY <1>4, <2>1, <2>2 DEF SubmitFail
<1>5. CASE Suspend(q) \/ Stop(q)
  <2>1. /\ cr'.script = cr.script /\ DOMAIN cr' = DOMAIN cr
        /\ cr'.state # "absent" => cr.state # "absent"
    BY <1>5 DEF Suspend, Stop, Suspended, RecordInv, Shaped
  <2> QED
    BY <1>5, <2>1, MoveRecords DEF Suspend, Stop, At, Pending
<1>6. CASE Unmount(q) \/ Clean(q)
  BY <1>6, MoveRecords DEF Unmount, Clean, At, Pending
<1>7. CASE Erase(q)
  <2>1. ~ row'.exists /\ DOMAIN row' = DOMAIN row /\ row' = [f \in DOMAIN row' |-> row'[f]]
    BY <1>7 DEF Erase, RecordInv, Shaped
  <2>2. Shaped' /\ Recorded'
    BY <1>7, <2>1 DEF Erase, RecordInv, Shaped, Recorded, Done, Idle
  <2> QED
    BY <2>1, <2>2 DEF RecordInv, OnRecordOrPending
<1>8. CASE ReadDeployment(q) \/ ReadJobManager(q) \/ Sync(q)
  <2>1. ~ Pending(q) /\ UNCHANGED <<row, history, lost, cr>>
    BY <1>8 DEF ReadDeployment, ReadJobManager, Sync, At, Pending
  <2>2. CASE Done(q) \/ GoTo(q, "readjm")
    BY <2>1, <2>2, MoveRecords
  <2>3. CASE \E st : req' = [req EXCEPT ![q].pc = "commit", ![q].new.status = st]
    <3>1. PICK st : req' = [gone EXCEPT ![q].new.status = st]
      BY <2>3
    <3> HIDE DEF gone
    <3>2. Decided(q)
      BY <1>0, <3>1 DEF Agrees, Decided
    <3> QED
      BY <2>1, <3>2, DecideRecords
  <2>4. CASE req' = [req EXCEPT ![q].pc = "commit", ![q].new.status = "cancelled",
                                ![q].new.dep = TRUE]
    <3>1. PICK f, g : /\ f = gone
                      /\ g = [f EXCEPT ![q].new.status = "cancelled"]
                      /\ req' = [g EXCEPT ![q].new.dep = TRUE]
      BY <2>4
    <3> HIDE DEF gone
    <3>2. Agrees(g, q) /\ g[q].pc = "commit"
      BY <1>0, <3>1, WriteStatus
    <3>3. Decided(q)
      BY <3>1, <3>2, WriteDep
    <3> QED
      BY <2>1, <3>3, DecideRecords
  <2>5. CASE req' = [req EXCEPT ![q].pc = "commit", ![q].new = Patched(req[q].new)]
    BY <2>1, <2>5, PatchRecords
  <2>6. CASE ReadDeployment(q)
    BY <2>2, <2>4, <2>6 DEF ReadDeployment
  <2>7. CASE ReadJobManager(q)
    BY <2>2, <2>3, <2>7 DEF ReadJobManager
  <2>8. CASE Sync(q)
    BY <2>2, <2>5, <2>8 DEF Sync
  <2> QED
    BY <1>8, <2>6, <2>7, <2>8
<1>9. CASE Commit(q)
  BY <1>9, CommitRecords
<1> QED
  BY <1>1, <1>2, <1>3, <1>4, <1>5, <1>6, <1>7, <1>8, <1>9
  DEF Proceed, Submit, Cancel, Delete, Refresh

\* However many requests and pages act on the job, and whatever fails: a script
\* that is deployed can be rolled back to, unless its submission died before the
\* commit.
THEOREM DeployedOnRecord == Spec => []DeployedIsOnRecord
<1>1. Init => RecordInv
  BY DEF Init, RecordInv, Shaped, Recorded, OnRecordOrPending, Idle, Row
<1>2. RecordInv /\ [Next]_vars => RecordInv'
  <2> SUFFICES ASSUME RecordInv, [Next]_vars PROVE RecordInv'
    OBVIOUS
  <2>1. CASE Next
    BY <2>1, BeginRecords, ProceedRecords, DieRecords, EngineRecords DEF Next, Sessions, Begin
  <2>2. CASE UNCHANGED vars
    BY <2>2 DEF vars, RecordInv, Shaped, Recorded, OnRecordOrPending, Pending
  <2> QED
    BY <2>1, <2>2
<1>3. RecordInv => DeployedIsOnRecord
  BY DEF RecordInv, OnRecordOrPending, DeployedIsOnRecord, Pending, Submitting, At
<1> QED
  BY <1>1, <1>2, <1>3, PTL DEF Spec

-----------------------------------------------------------------------------
\* Types, and that the job and who works on it always have a script.
Typed ==
  /\ TypeOK
  /\ row.script \in Scripts
  /\ \A q \in Sessions : ~ At(q, "idle") =>
       req[q].seen.script \in Scripts /\ req[q].new.script \in Scripts

\* A row with some columns of another.
LEMMA MergeType ==
  ASSUME NEW r \in Row, NEW s \in Row, NEW n \in Row
  PROVE  /\ Merge(r, s, n) \in Row
         /\ Merge(r, s, n).script \in {r.script, n.script}
<1>1. DOMAIN r = {"exists", "script", "locked", "status", "dep", "jid"}
  BY DEF Row
<1>2. Merge(r, s, n) =
        [exists |-> IF n.exists # s.exists THEN n.exists ELSE r.exists,
         script |-> IF n.script # s.script THEN n.script ELSE r.script,
         locked |-> IF n.locked # s.locked THEN n.locked ELSE r.locked,
         status |-> IF n.status # s.status THEN n.status ELSE r.status,
         dep |-> IF n.dep # s.dep THEN n.dep ELSE r.dep,
         jid |-> IF n.jid # s.jid THEN n.jid ELSE r.jid]
  BY <1>1 DEF Merge
<1> QED
  BY <1>2 DEF Row

\* A request that begins, with a row that is one, is one.
LEMMA LoadTyped ==
  ASSUME Typed, NEW q \in Sessions, NEW pc \in Steps, NEW new \in Row, NEW snap \in SUBSET Scripts,
         new.script \in Scripts, Load(q, pc, new, snap)
  PROVE  Typed'
BY DEF Typed, TypeOK, Load, At, Request

\* Beginning a request.
LEMMA BeginTyped == ASSUME Typed, NEW q \in Sessions, Begin(q) PROVE Typed'
<1> USE DEF Steps
<1>0. row \in Row /\ row.script \in Scripts /\ history \in SUBSET Scripts
  BY DEF Typed, TypeOK
<1>1. ASSUME NEW s \in Scripts, SubmitBegin(q, s) PROVE Typed'
  <2> DEFINE new == [row EXCEPT !.script = s, !.dep = FALSE]
  <2>1. new \in Row /\ new.script \in Scripts
    BY <1>0 DEF Row
  <2>2. PICK snap \in SUBSET Scripts : Load(q, "flush", new, snap)
    BY <1>0, <1>1 DEF SubmitBegin
  <2> HIDE DEF new
  <2> QED
    BY <2>1, <2>2, LoadTyped
<1>2. ASSUME NEW s \in Scripts, Save(q, s) \/ Rollback(q, s) PROVE Typed'
  <2> DEFINE new == [row EXCEPT !.script = s]
  <2>1. new \in Row /\ new.script \in Scripts
    BY <1>0 DEF Row
  <2>2. PICK snap \in SUBSET Scripts : Load(q, "commit", new, snap)
    BY <1>0, <1>2 DEF Save, Rollback
  <2> HIDE DEF new
  <2> QED
    BY <2>1, <2>2, LoadTyped
<1>3. CASE Unlock(q)
  <2> DEFINE new == [row EXCEPT !.locked = FALSE]
  <2>1. new \in Row /\ new.script \in Scripts
    BY <1>0 DEF Row
  <2>2. Load(q, "commit", new, {})
    BY <1>3 DEF Unlock
  <2> HIDE DEF new
  <2> QED
    BY <2>1, <2>2, LoadTyped
<1>4. CASE CancelBegin(q)
  <2> DEFINE new == [row EXCEPT !.status = "cancelled", !.dep = TRUE]
  <2>1. new \in Row /\ new.script \in Scripts
    BY <1>0 DEF Row, Statuses
  <2>2. Load(q, "suspend", new, {})
    BY <1>4 DEF CancelBegin
  <2> HIDE DEF new
  <2> QED
    BY <2>1, <2>2, LoadTyped
<1>5. CASE DeleteBegin(q) \/ Poll(q)
  BY <1>0, <1>5, LoadTyped DEF DeleteBegin, Poll, StatusBegin, SyncBegin
<1> QED
  BY <1>1, <1>2, <1>3, <1>4, <1>5 DEF Begin, Edit

\* Requests are typed, and the job's script is what they write.
ReqTyped(f) ==
  /\ f \in [Sessions -> Request]
  /\ \A p \in Sessions : f[p].pc # "idle" =>
       f[p].seen.script \in Scripts /\ f[p].new.script \in Scripts

\* A request that is answered is one.
LEMMA IdleTyped == Idle \in Request /\ Idle.pc = "idle"
BY ConstantsAssumption DEF Idle, NoRow, Request, Row, Steps, Statuses

\* A request that goes on keeps what it has loaded; one that is answered has nothing.
LEMMA MoveTyped ==
  ASSUME Typed, NEW q \in Sessions, ~ At(q, "idle"),
         Done(q) \/ (\E pc \in Steps : GoTo(q, pc))
  PROVE  ReqTyped(req')
<1>1. CASE Done(q)
  BY <1>1, IdleTyped DEF Typed, TypeOK, Done, At, ReqTyped
<1>2. ASSUME NEW pc \in Steps, GoTo(q, pc) PROVE ReqTyped(req')
  <2>1. req'[q] = [req[q] EXCEPT !.pc = pc] /\ req[q] \in Request
    BY <1>2 DEF GoTo, Typed, TypeOK
  <2>2. req'[q] \in Request /\ req'[q].seen = req[q].seen /\ req'[q].new = req[q].new
    BY <2>1 DEF Request
  <2>3. \A p \in Sessions : p # q => req'[p] = req[p]
    BY <1>2 DEF GoTo, Typed, TypeOK
  <2>4. req' \in [Sessions -> Request]
    BY <1>2, <2>2, <2>3 DEF GoTo, Typed, TypeOK
  <2> QED
    BY <2>2, <2>3, <2>4 DEF Typed, At, ReqTyped
<1> QED
  BY <1>1, <1>2

\* Two requests that agree in what matters beside their place.
Like(r, s) ==
  /\ s.snap = r.snap
  /\ s.seen.exists = r.seen.exists /\ s.seen.script = r.seen.script /\ s.seen.locked = r.seen.locked
  /\ s.new.exists = r.new.exists /\ s.new.script = r.new.script /\ s.new.locked = r.new.locked

\* A request that writes one of its fields.
SetPc(f, q, pc) == [f EXCEPT ![q].pc = pc]
SetNew(f, q, n) == [f EXCEPT ![q].new = n]
SetSeen(f, q) == [f EXCEPT ![q].seen.dep = FALSE]
SetStatus(f, q, v) == [f EXCEPT ![q].new.status = v]
SetDep(f, q) == [f EXCEPT ![q].new.dep = TRUE]

LEMMA PcTyped ==
  ASSUME NEW f, ReqTyped(f), NEW q \in Sessions, f[q].pc # "idle", NEW pc \in Steps,
         NEW g, g = SetPc(f, q, pc)
  PROVE  ReqTyped(g) /\ g[q].pc = pc /\ Like(f[q], g[q])
<1>1. /\ g[q] = [f[q] EXCEPT !.pc = pc] /\ f[q] \in Request
      /\ \A p \in Sessions : p # q => g[p] = f[p]
  BY DEF ReqTyped, SetPc
<1>2. g[q] \in Request /\ g[q].seen = f[q].seen /\ g[q].new = f[q].new
      /\ g[q].pc = pc /\ g[q].snap = f[q].snap
  BY <1>1 DEF Request
<1> QED
  BY <1>1, <1>2 DEF ReqTyped, Like, SetPc

\* The same for the new row.
LEMMA NewTyped ==
  ASSUME NEW f, ReqTyped(f), NEW q \in Sessions, NEW n \in Row, n.script \in Scripts,
         NEW g, g = SetNew(f, q, n)
  PROVE  ReqTyped(g) /\ g[q] = [f[q] EXCEPT !.new = n]
<1>1. /\ g[q] = [f[q] EXCEPT !.new = n] /\ f[q] \in Request
      /\ \A p \in Sessions : p # q => g[p] = f[p]
  BY DEF ReqTyped, SetNew
<1>2. g[q] \in Request /\ g[q].seen = f[q].seen /\ g[q].new = n /\ g[q].pc = f[q].pc
  BY <1>1 DEF Request
<1> QED
  BY <1>1, <1>2 DEF ReqTyped, SetNew

\* The same for a column of the row that was loaded.
LEMMA SeenTyped ==
  ASSUME NEW f, ReqTyped(f), NEW q \in Sessions,          NEW g, g = SetSeen(f, q)
  PROVE  ReqTyped(g) /\ g[q].pc = f[q].pc /\ Like(f[q], g[q])
<1>1. /\ g[q] = [f[q] EXCEPT !.seen.dep = FALSE] /\ f[q] \in Request
      /\ \A p \in Sessions : p # q => g[p] = f[p]
  BY DEF ReqTyped, SetSeen
<1>2. PICK r : r = [f[q].seen EXCEPT !.dep = FALSE]
  OBVIOUS
<1>3. r \in Row /\ r.script = f[q].seen.script /\ r.exists = f[q].seen.exists /\ r.locked = f[q].seen.locked
  BY <1>1, <1>2 DEF Request, Row
<1>4. g[q] = [pc |-> f[q].pc, seen |-> r, new |-> f[q].new, snap |-> f[q].snap]
  BY <1>1, <1>2 DEF Request
<1>5. g[q] \in Request
  BY <1>1, <1>3, <1>4 DEF Request
<1> QED
  BY <1>1, <1>3, <1>4, <1>5 DEF ReqTyped, Like, SetSeen

\* The same for the status to be written.
LEMMA StatusTyped ==
  ASSUME NEW f, ReqTyped(f), NEW q \in Sessions, f[q].pc # "idle", NEW v \in Statuses,
         NEW g, g = SetStatus(f, q, v)
  PROVE  ReqTyped(g) /\ g[q].pc = f[q].pc /\ Like(f[q], g[q])
<1>1. f[q] \in Request /\ f[q].new.script \in Scripts
  BY DEF ReqTyped, SetStatus
<1>2. PICK r : r = [f[q].new EXCEPT !.status = v]
  OBVIOUS
<1>3. r \in Row /\ r.script = f[q].new.script /\ r.exists = f[q].new.exists /\ r.locked = f[q].new.locked
  BY <1>1, <1>2 DEF Request, Row
<1>4. g = SetNew(f, q, r)
  BY <1>1, <1>2 DEF Request, ReqTyped, SetNew, SetStatus
<1> QED
  <2>1. ReqTyped(g) /\ g[q] = [f[q] EXCEPT !.new = r]
    BY <1>1, <1>3, <1>4, NewTyped
  <2>2. /\ g[q].pc = f[q].pc /\ g[q].seen = f[q].seen
        /\ g[q].snap = f[q].snap /\ g[q].new = r
    BY <1>1, <2>1 DEF Request
  <2> QED
    BY <1>3, <2>1, <2>2 DEF Like

\* The same for the name of the deployment to be written.
LEMMA DepTyped ==
  ASSUME NEW f, ReqTyped(f), NEW q \in Sessions, f[q].pc # "idle",          NEW g, g = SetDep(f, q)
  PROVE  ReqTyped(g) /\ g[q].pc = f[q].pc /\ Like(f[q], g[q])
<1>1. f[q] \in Request /\ f[q].new.script \in Scripts
  BY DEF ReqTyped, SetDep
<1>2. PICK r : r = [f[q].new EXCEPT !.dep = TRUE]
  OBVIOUS
<1>3. r \in Row /\ r.script = f[q].new.script /\ r.exists = f[q].new.exists /\ r.locked = f[q].new.locked
  BY <1>1, <1>2 DEF Request, Row
<1>4. g = SetNew(f, q, r)
  BY <1>1, <1>2 DEF Request, ReqTyped, SetNew, SetDep
<1> QED
  <2>1. ReqTyped(g) /\ g[q] = [f[q] EXCEPT !.new = r]
    BY <1>1, <1>3, <1>4, NewTyped
  <2>2. /\ g[q].pc = f[q].pc /\ g[q].seen = f[q].seen
        /\ g[q].snap = f[q].snap /\ g[q].new = r
    BY <1>1, <2>1 DEF Request
  <2> QED
    BY <1>3, <2>1, <2>2 DEF Like

\* A step that leaves alone what is not a request, but for a deployment, a
\* ConfigMap and a lock that are typed.
LEMMA RestTyped ==
  ASSUME Typed, ReqTyped(req'), UNCHANGED <<row, history, live, lastId, lost>>,
         cr' \in Deployment, cm' \in Scripts \cup {"none"}, holder' \in Sessions \cup {"none"}
  PROVE  Typed'
BY DEF Typed, TypeOK, ReqTyped, At

\* q has come to its commit, and is going to write the script that it was.
Settles(q) ==
  /\ ReqTyped(req')
  /\ req'[q].pc = "commit"
  /\ Like(req[q], req'[q])

\* The first step of every request that comes to its commit.
LEMMA CommitNext ==
  ASSUME Typed, NEW q \in Sessions, ~ At(q, "idle"), NEW f, f = SetPc(req, q, "commit")
  PROVE  ReqTyped(f) /\ f[q].pc = "commit" /\ Like(req[q], f[q]) /\ f[q].new = req[q].new
<1>1. ReqTyped(req)
  BY DEF Typed, TypeOK, ReqTyped, At
<1>2. f[q] = [req[q] EXCEPT !.pc = "commit"] /\ req[q] \in Request
  BY <1>1 DEF ReqTyped, SetPc
<1>3. f[q].new = req[q].new
  BY <1>2 DEF Request
<1>4. "commit" \in Steps
  BY DEF Steps
<1> QED
  BY <1>1, <1>3, <1>4, PcTyped DEF At

\* A submission decides to write that the job runs and is locked.
LEMMA PollSettles ==
  ASSUME Typed, NEW q \in Sessions, SubmitPoll(q)
  PROVE  /\ ReqTyped(req') /\ req'[q].pc = "commit" /\ req'[q].snap = req[q].snap
         /\ req'[q].seen.exists = req[q].seen.exists
         /\ req'[q].seen.script = req[q].seen.script
         /\ req'[q].seen.locked = req[q].seen.locked
         /\ req'[q].new.exists = req[q].new.exists
         /\ req'[q].new.script = req[q].new.script
<1>1. \E jid \in {cr.jid, 0} :
        req' = SetNew(SetSeen(SetPc(req, q, "commit"), q), q, Submitted(req[q].new, jid))
  BY DEF SubmitPoll, SetPc, SetSeen, SetNew
<1>2. PICK jid \in {cr.jid, 0} :
        req' = SetNew(SetSeen(SetPc(req, q, "commit"), q), q, Submitted(req[q].new, jid))
  BY <1>1
<1> DEFINE f == SetPc(req, q, "commit")
           g == SetSeen(f, q)
           n == Submitted(req[q].new, jid)
<1>11. req' = SetNew(g, q, n)
  BY <1>2
<1>3. req[q] \in Request /\ req[q].new \in Row /\ req[q].new.script \in Scripts
  BY DEF Typed, TypeOK, SubmitPoll, At, Request
<1>4. jid \in 0 .. MaxId
  BY <1>2, ConstantsAssumption DEF Typed, TypeOK, Deployment
<1>5. n \in Row /\ n.script = req[q].new.script /\ n.exists = req[q].new.exists
  BY <1>2, <1>3, <1>4 DEF Submitted, Row, Statuses
<1>6. ReqTyped(f) /\ f[q].pc = "commit" /\ Like(req[q], f[q])
  BY CommitNext DEF SubmitPoll, At
<1> HIDE DEF f, n
<1>7. ReqTyped(g) /\ g[q].pc = "commit" /\ Like(f[q], g[q])
  BY <1>6, SeenTyped
<1> HIDE DEF g
<1>8. ReqTyped(req') /\ req'[q] = [g[q] EXCEPT !.new = n]
  BY <1>11, <1>3, <1>5, <1>7, NewTyped
<1>9. g[q] \in Request
  BY <1>7 DEF ReqTyped
<1>10. /\ req'[q].pc = "commit" /\ req'[q].snap = g[q].snap /\ req'[q].seen = g[q].seen
       /\ req'[q].new = n
  BY <1>7, <1>8, <1>9 DEF Request
<1> QED
  BY <1>5, <1>6, <1>7, <1>8, <1>10 DEF Like

\* A change of the status.
LEMMA StatusSettles ==
  ASSUME Typed, NEW q \in Sessions, ~ At(q, "idle"), NEW st \in Statuses,
         req' = SetStatus(SetPc(req, q, "commit"), q, st)
  PROVE  Settles(q)
<1>1. PICK f : f = SetPc(req, q, "commit") /\ req' = SetStatus(f, q, st)
  OBVIOUS
<1>2. ReqTyped(f) /\ f[q].pc = "commit" /\ Like(req[q], f[q])
  BY <1>1, CommitNext
<1>3. ReqTyped(req') /\ req'[q].pc = "commit" /\ Like(f[q], req'[q])
  BY <1>1, <1>2, StatusTyped
<1> QED
  BY <1>2, <1>3 DEF Settles, Like

\* A refresh is answered, goes on, or decides to write what it saw.
LEMMA RefreshSettles ==
  ASSUME Typed, NEW q \in Sessions, Refresh(q)
  PROVE  Done(q) \/ GoTo(q, "readjm") \/ Settles(q)
<1>0. /\ ~ At(q, "idle") /\ req[q] \in Request /\ req[q].new \in Row /\ req[q].seen \in Row
      /\ cr \in Deployment
  BY DEF Refresh, ReadDeployment, ReadJobManager, Sync, At, Typed, TypeOK, Request
<1>1. CASE req' = [req EXCEPT ![q].pc = "commit", ![q].new.status = "cancelled", ![q].new.dep = TRUE]
  <2>1. PICK f, g : /\ f = SetPc(req, q, "commit")
                    /\ g = SetStatus(f, q, "cancelled")
                    /\ req' = SetDep(g, q)
    BY <1>1 DEF SetPc, SetStatus, SetDep
  <2>2. ReqTyped(f) /\ f[q].pc = "commit" /\ Like(req[q], f[q])
    BY <1>0, <2>1, CommitNext
  <2>3. ReqTyped(g) /\ g[q].pc = "commit" /\ Like(f[q], g[q])
    BY <2>1, <2>2, StatusTyped DEF Statuses
  <2>4. ReqTyped(req') /\ req'[q].pc = "commit" /\ Like(g[q], req'[q])
    BY <2>1, <2>3, DepTyped
  <2> QED
    BY <2>2, <2>3, <2>4 DEF Settles, Like
<1>2. CASE req' = [req EXCEPT ![q].pc = "commit", ![q].new = Patched(req[q].new)]
  <2>1. PICK f, n : /\ f = SetPc(req, q, "commit")
                    /\ req' = SetNew(f, q, n) /\ n = Patched(req[q].new)
    BY <1>2 DEF SetPc, SetNew
  <2>2. /\ n \in Row /\ n.script = req[q].new.script
        /\ n.exists = req[q].new.exists /\ n.locked = req[q].new.locked
    BY <1>0, <2>1 DEF Patched, Row, Statuses, Deployment
  <2>3. /\ ReqTyped(f) /\ f[q].pc = "commit" /\ Like(req[q], f[q])
        /\ f[q] \in Request /\ n.script \in Scripts
    BY <1>0, <2>1, <2>2, CommitNext DEF ReqTyped, Typed
  <2>4. ReqTyped(req') /\ req'[q] = [f[q] EXCEPT !.new = n]
    BY <2>1, <2>2, <2>3, NewTyped
  <2>5. /\ req'[q].pc = "commit" /\ req'[q].snap = f[q].snap /\ req'[q].seen = f[q].seen
        /\ req'[q].new = n
    BY <2>3, <2>4 DEF Request
  <2> QED
    BY <2>2, <2>3, <2>4, <2>5 DEF Settles, Like
<1>3. CASE ReadDeployment(q)
  BY <1>1, <1>3 DEF ReadDeployment
<1>4. CASE ReadJobManager(q)
  <2>1. req[q].seen.status \in Statuses /\ live.state \in Statuses
    BY <1>0 DEF Row, Typed, TypeOK, Statuses
  <2> QED
    BY <1>0, <1>4, <2>1, StatusSettles DEF ReadJobManager, Statuses, SetPc, SetStatus
<1>5. CASE Sync(q)
  BY <1>2, <1>5 DEF Sync
<1> QED
  BY <1>3, <1>4, <1>5 DEF Refresh

\* What a refresh leaves alone.
LEMMA RefreshLeaves ==
  ASSUME NEW q \in Sessions, Refresh(q)
  PROVE  ~ At(q, "idle") /\ UNCHANGED <<row, history, holder, cr, cm, live, lastId, lost>>
BY DEF Refresh, ReadDeployment, ReadJobManager, Sync, At

\* Every step of a request under way.
LEMMA ProceedTyped == ASSUME Typed, NEW q \in Sessions, Proceed(q) PROVE Typed'
<1> USE DEF Steps
<1>0. /\ req[q] \in Request
      /\ cr \in Deployment /\ cm \in Scripts \cup {"none"} /\ holder \in Sessions \cup {"none"}
      /\ ~ At(q, "idle") => req[q].new.script \in Scripts
  BY DEF Typed, TypeOK
<1>1. CASE SubmitFlush(q) \/ SubmitMount(q)
  BY <1>0, <1>1, MoveTyped, RestTyped DEF SubmitFlush, SubmitMount, At
<1>2. CASE SubmitApply(q)
  <2>1. cr' \in Deployment
    BY <1>0, <1>2 DEF SubmitApply, At, Deployment
  <2> QED
    BY <1>0, <1>2, <2>1, MoveTyped, RestTyped DEF SubmitApply, At
<1>3. CASE SubmitPoll(q)
  BY <1>0, <1>3, PollSettles, RestTyped DEF SubmitPoll
<1>4. CASE SubmitFail(q)
  <2>1. CASE At(q, "flush")
    BY <1>0, <1>4, <2>1, MoveTyped, RestTyped DEF SubmitFail, Submitting, At
  <2>2. CASE Submitting(q)
    <3>1. req' = SetStatus(SetPc(req, q, "commit"), q, "failed")
      BY <1>4, <2>2 DEF SubmitFail, Submitting, At, SetPc, SetStatus
    <3>2. Settles(q)
      BY <2>2, <3>1, StatusSettles DEF Submitting, At, Statuses
    <3> QED
      BY <1>0, <1>4, <3>2, RestTyped DEF SubmitFail, Settles
  <2> QED
    BY <1>4, <2>1, <2>2 DEF SubmitFail
<1>5. CASE Suspend(q) \/ Stop(q)
  <2>1. cr' \in Deployment
    BY <1>0, <1>5 DEF Suspend, Stop, Suspended, Deployment
  <2> QED
    BY <1>0, <1>5, <2>1, MoveTyped, RestTyped DEF Suspend, Stop, At
<1>6. CASE Unmount(q) \/ Clean(q)
  BY <1>0, <1>6, MoveTyped, RestTyped DEF Unmount, Clean, At
<1>7. CASE Erase(q)
  <2>1. row' \in Row /\ row'.script = row.script
    BY <1>7 DEF Erase, Typed, TypeOK, Row
  <2>2. ReqTyped(req')
    BY <1>7, MoveTyped DEF Erase, At
  <2> QED
    BY <1>7, <2>1, <2>2 DEF Erase, Typed, TypeOK, ReqTyped, At
<1>8. CASE Refresh(q)
  <2>1. ReqTyped(req')
    BY <1>8, RefreshSettles, RefreshLeaves, MoveTyped DEF Settles
  <2> QED
    BY <1>0, <1>8, <2>1, RefreshLeaves, RestTyped
<1>9. CASE Commit(q)
  <2>1. ReqTyped(req')
    BY <1>9, MoveTyped DEF Commit, At
  <2>2. row' \in Row /\ row'.script \in Scripts
    <3>1. req[q].seen \in Row /\ req[q].new \in Row /\ req[q].new.script \in Scripts
      BY <1>0, <1>9 DEF Commit, At, Request
    <3> QED
      BY <1>9, <3>1, MergeType DEF Commit, Typed, TypeOK
  <2>3. req[q].snap \in SUBSET Scripts
    BY <1>0 DEF Request
  <2> QED
    BY <1>9, <2>1, <2>2, <2>3 DEF Commit, Typed, TypeOK, ReqTyped, At
<1> QED
  BY <1>1, <1>2, <1>3, <1>4, <1>5, <1>6, <1>7, <1>8, <1>9 DEF Proceed, Submit, Cancel, Delete

\* The loss of a request.
LEMMA DieTyped == ASSUME Typed, NEW q \in Sessions, Die(q) PROVE Typed'
<1>1. ReqTyped(req')
  BY MoveTyped DEF Die
<1>2. req[q].snap \in SUBSET Scripts
  BY DEF Typed, TypeOK, Request
<1> QED
  BY <1>1, <1>2 DEF Die, Typed, TypeOK, ReqTyped, At

\* The values of live.
FlinkJob == [id : 0 .. MaxId, script : Scripts \cup {"none"}, state : Statuses]

\* The operator and Flink.
LEMMA EngineTyped == ASSUME Typed, Reconcile \/ Report \/ Fail PROVE Typed'
<1>1. cr \in Deployment /\ cm \in Scripts \cup {"none"} /\ lastId \in 0 .. MaxId /\ live.id \in 0 .. MaxId
      /\ live \in FlinkJob
  BY DEF Typed, TypeOK, FlinkJob
<1>2. cr' \in Deployment
  BY <1>1 DEF Reconcile, Report, Fail, Deployment
<1>3. live' \in FlinkJob /\ lastId' \in 0 .. MaxId
  BY <1>1, ConstantsAssumption DEF Reconcile, Report, Fail, NoJob, FlinkJob, Statuses
<1> QED
  BY <1>2, <1>3 DEF Reconcile, Report, Fail, Typed, TypeOK, FlinkJob, At

\* At first everything is typed.
LEMMA InitTyped == ASSUME Init PROVE Typed
<1>1. row \in Row /\ row.script \in Scripts
  BY DEF Init, Row
<1>2. cr \in Deployment /\ live \in FlinkJob /\ lastId \in 0 .. MaxId
  BY ConstantsAssumption DEF Init, Deployment, NoJob, FlinkJob, Statuses
<1>3. req \in [Sessions -> Request] /\ \A q \in Sessions : req[q].pc = "idle"
  BY IdleTyped DEF Init
<1> QED
  BY <1>1, <1>2, <1>3 DEF Init, Typed, TypeOK, FlinkJob, At

\* Every step keeps the types.
LEMMA StepTyped == ASSUME Typed, [Next]_vars PROVE Typed'
<1>1. CASE Next
  BY <1>1, BeginTyped, ProceedTyped, DieTyped, EngineTyped DEF Next, Sessions, Begin
<1>2. CASE UNCHANGED vars
  BY <1>2 DEF vars, Typed, TypeOK, At
<1> QED
  BY <1>1, <1>2

\* Every variable keeps its type, whatever overlaps and fails.
THEOREM TypeCorrect == Spec => []TypeOK
<1>1. Typed => TypeOK
  BY DEF Typed
<1> QED
  BY <1>1, InitTyped, StepTyped, PTL DEF Spec

-----------------------------------------------------------------------------
\* One request at a time: there is one user and no page.
Alone == \A p, q \in Sessions : p = q

\* What the only request under way has loaded is still so; it locks what it has
\* deployed, mounts a script before it deploys, suspends before it unmounts, and
\* knows the script that it overwrites.
Sole(q) == ~ At(q, "idle") =>
  LET r == req[q] IN
  /\ row.exists /\ r.new.exists /\ r.seen.exists
  /\ r.seen.script = row.script /\ r.seen.locked = row.locked
  /\ r.new.locked => r.new.script = cr.script
  /\ r.pc \in {"flush", "mount", "apply", "poll"} => ~ row.locked /\ ~ r.new.locked
  /\ r.pc = "poll" => r.new.script = cr.script
  /\ r.pc = "apply" => cm # "none"
  /\ r.pc \in {"unmount", "clean"} => cr.state # "running"
  /\ r.new.script # r.seen.script => r.new.script \in history \/ r.seen.script \in r.snap

SoleInv == Typed /\ (\A q \in Sessions : Sole(q)) /\ LockedIsDeployed /\ RunningHasScript

\* A request that begins alone, with a row that is the job's but for what it changes.
LEMMA LoadSole ==
  ASSUME SoleInv, Alone, NEW q \in Sessions, NEW pc, NEW new, NEW snap, Load(q, pc, new, snap),
         new.exists = row.exists, new.locked => row.locked /\ new.script = row.script,
         pc \notin {"mount", "apply", "poll", "unmount", "clean"},
         pc = "flush" => ~ row.locked /\ ~ new.locked,
         new.script # row.script => new.script \in history \/ row.script \in snap
  PROVE  Sole(q)' /\ LockedIsDeployed' /\ RunningHasScript'
<1>1. req'[q] = [pc |-> pc, seen |-> row, new |-> new, snap |-> snap]
  BY DEF Load, SoleInv, Typed, TypeOK
<1>2. LockedIsDeployed' /\ RunningHasScript'
  BY DEF SoleInv, Load, LockedIsDeployed, RunningHasScript
<1>3. /\ row.exists /\ UNCHANGED <<row, history, cr, cm>>
      /\ new.locked => new.script = cr.script
  BY DEF SoleInv, Load, LockedIsDeployed
<1>4. /\ req'[q].pc = pc /\ req'[q].seen = row /\ req'[q].new = new /\ req'[q].snap = snap
  BY <1>1
<1> QED
  BY <1>2, <1>3, <1>4 DEF Sole, At

\* Beginning a request.
LEMMA BeginSole ==
  ASSUME SoleInv, Alone, NEW q \in Sessions, Begin(q)
  PROVE  Sole(q)' /\ LockedIsDeployed' /\ RunningHasScript'
<1>0. row \in Row
  BY DEF SoleInv, Typed, TypeOK
<1> DEFINE Goal == Sole(q)' /\ LockedIsDeployed' /\ RunningHasScript'
<1>1. ASSUME NEW s \in Scripts, SubmitBegin(q, s) PROVE Goal
  <2> DEFINE new == [row EXCEPT !.script = s, !.dep = FALSE]
             snap == {s} \cup (IF s = row.script THEN {} ELSE {row.script})
  <2>1. new.script = s /\ new.exists = row.exists /\ new.locked = row.locked
    BY <1>0 DEF Row
  <2>2. Load(q, "flush", new, snap) /\ ~ row.locked
    BY <1>1 DEF SubmitBegin
  <2>3. s # row.script => row.script \in snap
    OBVIOUS
  <2> HIDE DEF new, snap
  <2> QED
    BY <2>1, <2>2, <2>3, LoadSole
<1>2. ASSUME NEW s \in Scripts, Save(q, s) \/ Rollback(q, s) PROVE Goal
  <2> DEFINE new == [row EXCEPT !.script = s]
  <2>1. new.script = s /\ new.exists = row.exists /\ new.locked = row.locked
    BY <1>0 DEF Row
  <2>2. PICK snap : Load(q, "commit", new, snap) /\ (s \in history \/ row.script \in snap)
    BY <1>2 DEF Save, Rollback
  <2>3. ~ row.locked
    BY <1>2 DEF Save, Rollback
  <2> HIDE DEF new
  <2> QED
    BY <2>1, <2>2, <2>3, LoadSole
<1>3. CASE Unlock(q)
  <2> DEFINE new == [row EXCEPT !.locked = FALSE]
  <2>1. new.script = row.script /\ new.exists = row.exists /\ ~ new.locked
    BY <1>0 DEF Row
  <2>2. Load(q, "commit", new, {})
    BY <1>3 DEF Unlock
  <2> HIDE DEF new
  <2> QED
    BY <2>1, <2>2, LoadSole
<1>4. CASE CancelBegin(q)
  <2> DEFINE new == [row EXCEPT !.status = "cancelled", !.dep = TRUE]
  <2>1. new.script = row.script /\ new.exists = row.exists /\ new.locked = row.locked
    BY <1>0 DEF Row
  <2>2. Load(q, "suspend", new, {})
    BY <1>4 DEF CancelBegin
  <2> HIDE DEF new
  <2> QED
    BY <2>1, <2>2, LoadSole
<1>5. CASE DeleteBegin(q) \/ Poll(q)
  BY <1>5, LoadSole DEF DeleteBegin, Poll, StatusBegin, SyncBegin
<1> QED
  BY <1>1, <1>2, <1>3, <1>4, <1>5 DEF Begin, Edit

\* A request that is answered leaves no obligation.
LEMMA DoneSole ==
  ASSUME Typed, NEW q \in Sessions, Done(q) PROVE Sole(q)'
BY DEF Done, Idle, Sole, At, Typed, TypeOK

\* A request that goes on takes what it has loaded along.
LEMMA GoToSole ==
  ASSUME Typed, NEW q \in Sessions, NEW pc, GoTo(q, pc)
  PROVE  /\ req'[q].pc = pc /\ req'[q].seen = req[q].seen
         /\ req'[q].new = req[q].new /\ req'[q].snap = req[q].snap
BY DEF GoTo, Typed, TypeOK, Request

\* Every step of a request under way.
LEMMA ProceedSole ==
  ASSUME SoleInv, Alone, NEW q \in Sessions, Proceed(q)
  PROVE  Sole(q)' /\ LockedIsDeployed' /\ RunningHasScript'
<1> DEFINE Goal == Sole(q)' /\ LockedIsDeployed' /\ RunningHasScript'
<1> USE DEF SoleInv
<1>0. Sole(q) /\ Typed
  OBVIOUS
<1>1. CASE SubmitFlush(q)
  BY <1>0, <1>1, DoneSole, GoToSole DEF SubmitFlush, Sole, At, LockedIsDeployed, RunningHasScript
<1>2. CASE SubmitMount(q)
  <2>1. req[q].new.script \in Scripts
    BY <1>2 DEF SubmitMount, Typed, At
  <2> QED
    BY <1>0, <1>2, <2>1, GoToSole, ConstantsAssumption
    DEF SubmitMount, Sole, At, LockedIsDeployed, RunningHasScript
<1>3. CASE SubmitApply(q)
  <2>1. cr'.script = req[q].new.script
    BY <1>3 DEF SubmitApply, Typed, TypeOK, Deployment
  <2> QED
    BY <1>0, <1>3, <2>1, GoToSole DEF SubmitApply, Sole, At, LockedIsDeployed, RunningHasScript
<1>4. CASE SubmitPoll(q)
  <2>1. UNCHANGED <<row, history, cr, cm>> /\ At(q, "poll")
    BY <1>4 DEF SubmitPoll
  <2> QED
    BY <1>0, <1>4, <2>1, PollSettles DEF Sole, At, LockedIsDeployed, RunningHasScript
<1>5. CASE Settles(q) /\ UNCHANGED <<row, history, cr, cm>> /\ ~ At(q, "idle")
  BY <1>0, <1>5 DEF Settles, Like, Sole, At, LockedIsDeployed, RunningHasScript
<1>6. CASE SubmitFail(q)
  <2>1. CASE At(q, "flush")
    BY <1>6, <2>1, DoneSole DEF SubmitFail, Submitting, At, LockedIsDeployed, RunningHasScript
  <2>2. CASE Submitting(q)
    <3>1. req' = SetStatus(SetPc(req, q, "commit"), q, "failed")
      BY <1>6, <2>2 DEF SubmitFail, Submitting, At, SetPc, SetStatus
    <3>2. Settles(q)
      BY <2>2, <3>1, StatusSettles DEF Submitting, At, Statuses
    <3> QED
      BY <1>5, <1>6, <2>2, <3>2 DEF SubmitFail, Submitting, At
  <2> QED
    BY <1>6, <2>1, <2>2 DEF SubmitFail
<1>7. CASE Suspend(q) \/ Stop(q)
  <2>0. UNCHANGED <<row, history, cm>> /\ ~ At(q, "idle")
    BY <1>7 DEF Suspend, Stop, At
  <2>1. CASE UNCHANGED cr /\ (Done(q) \/ GoTo(q, "erase"))
    BY <1>0, <2>0, <2>1, DoneSole, GoToSole DEF Sole, At, LockedIsDeployed, RunningHasScript
  <2>2. CASE cr' = Suspended /\ (GoTo(q, "unmount") \/ GoTo(q, "clean"))
    <3>1. cr'.script = cr.script /\ cr'.state = "suspended"
      BY <2>2 DEF Suspended, Typed, TypeOK, Deployment
    <3> QED
      BY <1>0, <2>0, <2>2, <3>1, GoToSole DEF Sole, At, LockedIsDeployed, RunningHasScript
  <2> QED
    BY <1>7, <2>1, <2>2 DEF Suspend, Stop
<1>8. CASE Unmount(q) \/ Clean(q)
  BY <1>0, <1>8, GoToSole DEF Unmount, Clean, Sole, At, LockedIsDeployed, RunningHasScript
<1>9. CASE Erase(q)
  <2>1. ~ row'.exists
    BY <1>9 DEF Erase, Typed, TypeOK, Row
  <2> QED
    BY <1>9, <2>1, DoneSole DEF Erase, LockedIsDeployed, RunningHasScript
<1>10. CASE Refresh(q)
  <2>1. CASE Done(q)
    BY <1>10, <2>1, RefreshLeaves, DoneSole DEF LockedIsDeployed, RunningHasScript
  <2>2. CASE GoTo(q, "readjm")
    BY <1>0, <1>10, <2>2, RefreshLeaves, GoToSole DEF Sole, At, LockedIsDeployed, RunningHasScript
  <2> QED
    BY <1>5, <1>10, <2>1, <2>2, RefreshSettles, RefreshLeaves
<1>11. CASE Commit(q)
  <2>1. Done(q) /\ UNCHANGED <<cr, cm>>
    BY <1>11 DEF Commit
  <2>2. row' = Merge(row, req[q].seen, req[q].new) /\ row \in Row
    BY <1>0, <1>11 DEF Commit, Sole, At, Typed, TypeOK
  <2>3. row'.script = req[q].new.script /\ row'.locked = req[q].new.locked
    BY <1>0, <1>11, <2>2 DEF Commit, Sole, At, Merge, Row
  <2> QED
    BY <1>0, <1>11, <2>1, <2>3, DoneSole DEF Commit, Sole, At, LockedIsDeployed, RunningHasScript
<1> QED
  BY <1>1, <1>2, <1>3, <1>4, <1>6, <1>7, <1>8, <1>9, <1>10, <1>11
  DEF Proceed, Submit, Cancel, Delete

\* The loss of a request leaves everything as it is.
LEMMA DieSole ==
  ASSUME SoleInv, NEW q \in Sessions, Die(q)
  PROVE  Sole(q)' /\ LockedIsDeployed' /\ RunningHasScript'
BY DoneSole DEF Die, SoleInv, LockedIsDeployed, RunningHasScript

\* A commit overwrites a script that is in the history then, or writes one that
\* is; nothing else changes the script of the row.
LEMMA KeepsScript ==
  ASSUME SoleInv, [Next]_vars,
         row'.exists, row'.script # row.script, row'.script \notin history
  PROVE  row.script \in history'
<1>1. row' = row \/ (\E q \in Sessions : Erase(q) \/ Commit(q))
  BY DEF Next, Begin, Edit, Poll, Save, Rollback, Unlock, SubmitBegin, CancelBegin, DeleteBegin,
    StatusBegin, SyncBegin, Load, Proceed, Submit, Cancel, Delete, Refresh, SubmitFlush, SubmitMount,
    SubmitApply, SubmitPoll, SubmitFail, Suspend, Unmount, Stop, Clean, ReadDeployment,
    ReadJobManager, Sync, Die, Reconcile, Report, Fail, vars
<1>2. PICK q \in Sessions : Erase(q) \/ Commit(q)
  BY <1>1
<1>3. Commit(q)
  BY <1>2 DEF Erase, SoleInv, Typed, TypeOK, Row
<1>4. Sole(q) /\ ~ At(q, "idle") /\ row \in Row
  BY <1>3 DEF SoleInv, Typed, TypeOK, Commit, At
<1>5. row' = Merge(row, req[q].seen, req[q].new) /\ history' = history \cup req[q].snap
  BY <1>3, <1>4 DEF Commit, Sole
<1>6. row'.script = req[q].new.script
  BY <1>4, <1>5 DEF Merge, Sole, Row
<1> QED
  BY <1>4, <1>5, <1>6, SMTT(60) DEF Sole

\* The three facts hold together, one request at a time.
LEMMA SoleHolds == ASSUME Alone PROVE Spec => []SoleInv
<1>1. Init => SoleInv
  <2> SUFFICES ASSUME Init PROVE SoleInv
    OBVIOUS
  <2>1. Typed
    BY InitTyped
  <2>2. ~ row.locked /\ cr.state = "absent" /\ \A q \in Sessions : At(q, "idle")
    BY IdleTyped DEF Init, At
  <2> QED
    BY <2>1, <2>2 DEF SoleInv, Sole, LockedIsDeployed, RunningHasScript
<1>2. SoleInv /\ [Next]_vars => SoleInv'
  <2> SUFFICES ASSUME SoleInv, [Next]_vars PROVE SoleInv'
    OBVIOUS
  <2>1. Typed'
    BY StepTyped DEF SoleInv
  <2>2. CASE Next
    <3>1. ASSUME NEW q \in Sessions, Begin(q) \/ Proceed(q) PROVE SoleInv'
      BY <2>1, <3>1, BeginSole, ProceedSole DEF SoleInv, Alone
    <3>2. ASSUME NEW q \in Sessions, Die(q) PROVE SoleInv'
      BY <2>1, <3>2, DieSole DEF SoleInv, Alone
    <3>3. CASE Reconcile \/ Report \/ Fail
      <4>1. cr'.script = cr.script /\ cr'.state = cr.state /\ UNCHANGED <<row, history, req, cm>>
        BY <3>3 DEF Reconcile, Report, Fail, SoleInv, Typed, TypeOK, Deployment
      <4> QED
        BY <2>1, <4>1 DEF SoleInv, Sole, At, LockedIsDeployed, RunningHasScript
    <3> QED
      BY <2>2, <3>1, <3>2, <3>3 DEF Next, Sessions, Begin
  <2>3. CASE UNCHANGED vars
    BY <2>1, <2>3 DEF vars, SoleInv, Sole, At, LockedIsDeployed, RunningHasScript
  <2> QED
    BY <2>2, <2>3
<1> QED
  BY <1>1, <1>2, PTL DEF Spec

\* One request at a time, whatever fails and dies: a locked job runs the script
\* that its page shows.
THEOREM LockedStaysDeployed == ASSUME Alone PROVE Spec => []LockedIsDeployed
<1>1. SoleInv => LockedIsDeployed
  BY DEF SoleInv
<1> QED
  BY <1>1, SoleHolds, PTL

\* One request at a time: pods that are to run find their script.
THEOREM RunningKeepsScript == ASSUME Alone PROVE Spec => []RunningHasScript
<1>1. SoleInv => RunningHasScript
  BY DEF SoleInv
<1> QED
  BY <1>1, SoleHolds, PTL

\* One request at a time: no script is lost that a save or a submission overwrites.
THEOREM OverwrittenStays == ASSUME Alone PROVE Spec => OverwrittenIsKept
<1>1. SoleInv /\ [Next]_vars =>
        [row'.exists /\ row'.script # row.script /\ row'.script \notin history
           => row.script \in history']_vars
  BY KeepsScript
<1> QED
  BY <1>1, SoleHolds, PTL DEF Spec, OverwrittenIsKept
=============================================================================
