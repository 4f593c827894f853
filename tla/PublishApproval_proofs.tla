------------------------ MODULE PublishApproval_proofs ------------------------
(***************************************************************************)
(* Proofs about PublishApproval, for any numbers of users, threads,        *)
(* tickets and resources, with and without faults.                         *)
(*                                                                         *)
(* RequestsJustified says what a request's earlier checks still guarantee  *)
(* when it writes; with it the state properties are inductive, and the     *)
(* action property follows from what single steps do. The last part shows  *)
(* that, one request at a time, each step is one of ApprovalContract.      *)
(***************************************************************************)
EXTENDS PublishApproval, TLAPS

USE DEF Statuses, TerminalStatuses

Inv == /\ TypeOK
       /\ RequestsJustified
       /\ ApprovedWasExecuted
       /\ DecidedWithAuthority

\* The actions a resource admits are actions of the workflow.
LEMMA ActionsOnAreActions ==
  ASSUME NEW r \in Resources
  PROVE  ActionsOn(r) \subseteq Actions
BY ConstantsAssumption DEF ActionsOn, ResourceActions, Actions, Kinds

\* Writing one well-typed field of one resource keeps the table well-typed.
LEMMA ResourceUpdate ==
  ASSUME NEW f \in [Resources -> Resource], NEW r \in Resources,
         NEW b \in BOOLEAN, NEW c \in BOOLEAN
  PROVE  /\ [f EXCEPT ![r].live = b] \in [Resources -> Resource]
         /\ [f EXCEPT ![r].locked = b] \in [Resources -> Resource]
         /\ [f EXCEPT ![r].drift = TRUE] \in [Resources -> Resource]
         /\ [f EXCEPT ![r].live = FALSE] \in [Resources -> Resource]
         /\ [f EXCEPT ![r].live = b, ![r].drift = c] \in [Resources -> Resource]
         /\ [f EXCEPT ![r].exists = b, ![r].live = c] \in [Resources -> Resource]
BY DEF Resource

\* The idle request is well-typed, and ending a request keeps requests so.
LEMMA FinishType ==
  ASSUME req \in [Threads -> Request], NEW t \in Threads, Finish(t)
  PROVE  req' \in [Threads -> Request]
<1>1. NoRequest \in Request
  BY ConstantsAssumption DEF NoRequest, Request, PCs
<1> QED
  BY <1>1 DEF Finish

\* Closing a ticket keeps the table of tickets well-typed.
LEMMA CloseType ==
  ASSUME TypeOK, NEW t \in Threads, req[t].ticket \in Tickets,
         req[t].user \in Users, NEW status \in Statuses, Close(t, status)
  PROVE  TypeOK'
<1>1. row' \in [Tickets -> Row]
  BY DEF TypeOK, Close, Row
<1>2. req' \in [Threads -> Request]
  BY FinishType DEF TypeOK, Close
<1> QED
  BY <1>1, <1>2 DEF TypeOK, Close

\* Completing a run keeps requests and counters well-typed, never lowers a
\* counter, and leaves the thread idle or with a counted ticket to close.
LEMMA CompletedEffect ==
  ASSUME TypeOK, NEW t \in Threads, Completed(t)
  PROVE  /\ req' \in [Threads -> Request]
         /\ runs' \in [Tickets -> 0 .. MaxRuns]
         /\ \A i \in Tickets : runs'[i] >= runs[i]
         /\ \/ req' = [req EXCEPT ![t] = NoRequest]
            \/ /\ req[t].ticket \in Tickets
               /\ runs'[req[t].ticket] >= 1
               /\ Start(t, "decide", req[t].user, req[t].ticket, Nil, Nil)
<1>1. req[t] \in Request /\ req[t].ticket \in Tickets \cup {Nil}
  BY DEF TypeOK, Request
<1>2. CASE req[t].ticket = Nil
  BY <1>2, FinishType DEF TypeOK, Completed, Finish
<1>3. CASE req[t].ticket # Nil
  <2>1. Start(t, "decide", req[t].user, req[t].ticket, Nil, Nil)
    BY <1>3 DEF Completed
  <2>2. req' \in [Threads -> Request]
    BY <1>1, <2>1, ConstantsAssumption DEF TypeOK, Request, PCs, Start
  <2>3. /\ req[t].ticket \in Tickets /\ runs[req[t].ticket] < MaxRuns
        /\ runs' = [runs EXCEPT ![req[t].ticket] = @ + 1]
    BY <1>1, <1>3 DEF Completed
  <2>4. runs \in [Tickets -> 0 .. MaxRuns]
    BY DEF TypeOK
  <2> QED
    BY <2>1, <2>2, <2>3, <2>4, ConstantsAssumption
<1> QED
  BY <1>2, <1>3

\* The row a local publish writes is a well-typed row.
LEMMA WrittenType ==
  ASSUME TypeOK, NEW t \in Threads, NEW old \in Resource,
         req[t].action = "publish_api" => req[t].version < MaxVersion
  PROVE  Written(t, old) \in Resource
<1>0. (old.live \/ ~ req[t].live) \in BOOLEAN /\ (old.live /\ ~ req[t].live) \in BOOLEAN
  OBVIOUS
<1>1. req[t].version \in 0 .. MaxVersion
  BY DEF TypeOK, Request
<1>2. CASE req[t].action = "publish_api"
  <2>1. Written(t, old) = [old EXCEPT !.live = old.live \/ ~ req[t].live,
                                      !.version = req[t].version + 1, !.drift = FALSE]
    BY <1>2 DEF Written
  <2>2. req[t].version + 1 \in 0 .. MaxVersion
    BY <1>1, <1>2, ConstantsAssumption
  <2> QED
    BY <2>1, <2>2, <1>0 DEF Resource
<1>3. CASE req[t].action = "offline_api"
  BY <1>0, <1>3, ConstantsAssumption DEF Written, Resource
<1>4. CASE req[t].action = "publish_node"
  BY <1>4, ConstantsAssumption DEF Written, Resource
<1>5. CASE req[t].action \notin {"publish_api", "offline_api", "publish_node"}
  BY <1>5 DEF Written
<1> QED
  BY <1>2, <1>3, <1>4, <1>5

\* The initial states satisfy the inductive invariant.
LEMMA InitInv == Init => Inv
BY ConstantsAssumption
DEF Init, Inv, TypeOK, RequestsJustified, ApprovedWasExecuted,
    DecidedWithAuthority, Row, NoRow, Resource, Request, NoRequest, PCs

\* A thread that completes its action leaves every request justified: its own
\* has a counted run to record, and no counter that another relies on went down.
LEMMA CompletedJustified ==
  ASSUME Inv, NEW t \in Threads, req[t].pc \in {"commit", "record"},
         Completed(t), UNCHANGED <<row, admins, everAdmin>>
  PROVE  RequestsJustified'
<1> USE DEF Inv, TypeOK, RequestsJustified
<1>1. /\ admins' \subseteq everAdmin'
      /\ \A i \in Tickets : row'[i].status # "none" =>
           row'[i].resource \in Resources /\ row'[i].action \in Actions
  OBVIOUS
<1> DEFINE Justified(q) ==
      /\ q.pc # "idle" => q.user \in Users
      /\ q.pc \in {"reject", "cancel", "decide"} => q.ticket \in Tickets
      /\ q.pc \in {"insert", "load", "commit", "release", "record"} =>
           q.resource \in Resources /\ q.action \in Actions
      /\ q.pc \notin {"idle", "insert", "cancel"} => q.user \in everAdmin'
      /\ q.ticket \in Tickets => row'[q.ticket].status # "none"
      /\ q.pc = "cancel" => q.user \in everAdmin' \cup {row'[q.ticket].submitter}
      /\ q.pc = "decide" => runs'[q.ticket] >= 1
<1>2. ASSUME NEW u \in Threads, u # t PROVE Justified(req'[u])
  <2>1. req'[u] = req[u] /\ req[u] \in Request
    BY <1>2, CompletedEffect DEF Start
  <2>2. req[u].pc = "decide" => runs'[req[u].ticket] >= 1
    <3>1. \A i \in Tickets : runs[i] \in Nat /\ runs'[i] \in Nat /\ runs'[i] >= runs[i]
      BY CompletedEffect, ConstantsAssumption
    <3> QED
      BY <3>1
  <2> QED
    BY <2>1, <2>2
<1>3. Justified(req'[t])
  <2>1. CASE req' = [req EXCEPT ![t] = NoRequest]
    BY <2>1, ConstantsAssumption DEF NoRequest
  <2>2. CASE /\ req[t].ticket \in Tickets
             /\ runs'[req[t].ticket] >= 1
             /\ Start(t, "decide", req[t].user, req[t].ticket, Nil, Nil)
    <3>1. req[t] \in Request
      OBVIOUS
    <3>2. req'[t].pc = "decide" /\ req'[t].user = req[t].user /\ req'[t].ticket = req[t].ticket
      BY <2>2 DEF Start
    <3> QED
      BY <2>2, <3>1, <3>2 DEF Request
  <2> QED
    BY <2>1, <2>2, CompletedEffect
<1> HIDE DEF Justified
<1>4. \A u \in Threads : Justified(req'[u])
  BY <1>2, <1>3, SMTT(40)
<1> QED
  BY <1>1, <1>4 DEF Justified

\* Every step preserves it: one case per action.
LEMMA StepInv == Inv /\ [Next]_vars => Inv'
<1> SUFFICES ASSUME Inv, [Next]_vars PROVE Inv'
  OBVIOUS
<1> USE ConstantsAssumption
        DEF Inv, TypeOK, RequestsJustified, ApprovedWasExecuted,
            DecidedWithAuthority, Row, Resource, Request, NoRequest, PCs,
            Start, Goto, Finish, Close, Idle, IsPending
<1>1. ASSUME NEW t \in Threads, NEW u \in Users, NEW r \in Resources, NEW a \in ActionsOn(r), SubmitCheck(t, u, r, a)
      PROVE  Inv'
  BY <1>1, ActionsOnAreActions DEF SubmitCheck
<1>2. ASSUME NEW t \in Threads, SubmitInsert(t)
      PROVE  Inv'
  <2>1. TypeOK'
    BY <1>2 DEF SubmitInsert
  <2>2. RequestsJustified'
    BY <1>2 DEF SubmitInsert
  <2>3. ApprovedWasExecuted'
    BY <1>2 DEF SubmitInsert
  <2>4. DecidedWithAuthority'
    BY <1>2 DEF SubmitInsert
  <2> QED
    BY <2>1, <2>2, <2>3, <2>4 DEF Inv
<1>3. ASSUME NEW t \in Threads, NEW u \in Users, NEW i \in Tickets, ApproveCheck(t, u, i)
      PROVE  Inv'
  <2>1. TypeOK'
    BY <1>3 DEF ApproveCheck
  <2>2. RequestsJustified'
    BY <1>3 DEF ApproveCheck
  <2>3. ApprovedWasExecuted'
    BY <1>3 DEF ApproveCheck
  <2>4. DecidedWithAuthority'
    BY <1>3 DEF ApproveCheck
  <2> QED
    BY <2>1, <2>2, <2>3, <2>4 DEF Inv
<1>4. ASSUME NEW t \in Threads, NEW u \in Users, NEW i \in Tickets, RejectCheck(t, u, i)
      PROVE  Inv'
  BY <1>4 DEF RejectCheck
<1>5. ASSUME NEW t \in Threads, NEW u \in Users, NEW i \in Tickets, CancelCheck(t, u, i)
      PROVE  Inv'
  BY <1>5 DEF CancelCheck
<1>6. ASSUME NEW t \in Threads, Reject(t)
      PROVE  Inv'
  <2>1. TypeOK'
    <3>1. /\ req[t].ticket \in Tickets /\ req[t].user \in Users
          /\ "rejected" \in Statuses /\ Close(t, "rejected") /\ TypeOK
      BY <1>6 DEF Reject, Statuses
    <3> QED
      BY <3>1, CloseType
  <2>2. RequestsJustified'
    BY <1>6 DEF Reject
  <2>3. ApprovedWasExecuted'
    BY <1>6 DEF Reject
  <2>4. DecidedWithAuthority'
    BY <1>6 DEF Reject
  <2> QED
    BY <2>1, <2>2, <2>3, <2>4 DEF Inv
<1>7. ASSUME NEW t \in Threads, Cancel(t)
      PROVE  Inv'
  <2>1. TypeOK'
    BY <1>7, CloseType DEF Cancel
  <2>2. RequestsJustified'
    BY <1>7 DEF Cancel
  <2>3. ApprovedWasExecuted'
    BY <1>7 DEF Cancel
  <2>4. DecidedWithAuthority'
    BY <1>7 DEF Cancel
  <2> QED
    BY <2>1, <2>2, <2>3, <2>4 DEF Inv
<1>8. ASSUME NEW t \in Threads, Approve(t)
      PROVE  Inv'
  <2>1. TypeOK'
    BY <1>8, CloseType DEF Approve
  <2>2. RequestsJustified'
    BY <1>8 DEF Approve
  <2>3. ApprovedWasExecuted'
    BY <1>8 DEF Approve
  <2>4. DecidedWithAuthority'
    BY <1>8, SMTT(40) DEF Approve
  <2> QED
    BY <2>1, <2>2, <2>3, <2>4 DEF Inv
<1>9. ASSUME NEW t \in Threads, NEW u \in Users, NEW r \in Resources, NEW a \in ActionsOn(r), DirectCheck(t, u, r, a)
      PROVE  Inv'
  BY <1>9, ActionsOnAreActions DEF DirectCheck
<1>10. ASSUME NEW t \in Threads, LoadResource(t)
      PROVE  Inv'
  <2>1. TypeOK'
    <3>1. req[t].resource \in Resources /\ res[req[t].resource] \in Resource
      BY <1>10 DEF LoadResource
    <3>2. PICK q \in Request : q = req[t]
      OBVIOUS
    <3>3. PICK r \in Resource : r = res[req[t].resource]
      BY <3>1
    <3>4. /\ [q EXCEPT !.pc = "release"] \in Request
          /\ [q EXCEPT !.version = r.version, !.live = r.live, !.locked = r.locked,
                       !.pc = "commit"] \in Request
      BY <3>2, <3>3
    <3>5. req' \in [Threads -> Request]
      <4> HIDE DEF Request, Resource
      <4> QED
        BY <1>10, <3>2, <3>3, <3>4 DEF LoadResource
    <3> QED
      BY <1>10, <3>5 DEF LoadResource
  <2>2. RequestsJustified'
    <3>1. \/ req' = [req EXCEPT ![t].pc = "release"]
          \/ req' = [req EXCEPT ![t].version = res[req[t].resource].version,
                                ![t].live = res[req[t].resource].live,
                                ![t].locked = res[req[t].resource].locked,
                                ![t].pc = "commit"]
      BY <1>10 DEF LoadResource
    <3>2. /\ req'[t].pc \in {"release", "commit"} /\ req'[t].user = req[t].user
          /\ req'[t].ticket = req[t].ticket /\ req'[t].resource = req[t].resource
          /\ req'[t].action = req[t].action
          /\ \A s \in Threads \ {t} : req'[s] = req[s]
      BY <3>1
    <3>3. req[t].pc = "load" /\ UNCHANGED <<row, admins, runs, everAdmin>>
      BY <1>10 DEF LoadResource
    <3> QED
      BY <3>2, <3>3
  <2>3. ApprovedWasExecuted'
    BY <1>10 DEF LoadResource
  <2>4. DecidedWithAuthority'
    BY <1>10 DEF LoadResource
  <2> QED
    BY <2>1, <2>2, <2>3, <2>4 DEF Inv
<1>11. ASSUME NEW t \in Threads, CommitLocal(t)
      PROVE  Inv'
  <2>1. TypeOK'
    <3>1. req[t].resource \in Resources
      BY <1>11 DEF CommitLocal
    <3>2. res' \in [Resources -> Resource]
      BY <1>11, <3>1, WrittenType DEF CommitLocal
    <3> QED
      BY <1>11, <3>2, CompletedEffect DEF CommitLocal
  <2>2. RequestsJustified'
    BY <1>11, CompletedJustified DEF CommitLocal
  <2>3. ApprovedWasExecuted'
    BY <1>11, CompletedEffect DEF CommitLocal
  <2>4. DecidedWithAuthority'
    BY <1>11 DEF CommitLocal, Written, Completed
  <2> QED
    BY <2>1, <2>2, <2>3, <2>4 DEF Inv
<1>12. ASSUME NEW t \in Threads, ReleaseExternal(t)
      PROVE  Inv'
  <2>1. TypeOK'
    <3>1. req[t].resource \in Resources
      BY <1>12 DEF ReleaseExternal
    <3>2. res' \in [Resources -> Resource]
      BY <1>12, <3>1, ResourceUpdate DEF ReleaseExternal
    <3> QED
      BY <1>12, <3>2, SMTT(40) DEF ReleaseExternal
  <2>2. RequestsJustified'
    BY <1>12 DEF ReleaseExternal
  <2>3. ApprovedWasExecuted'
    BY <1>12 DEF ReleaseExternal
  <2>4. DecidedWithAuthority'
    BY <1>12 DEF ReleaseExternal
  <2> QED
    BY <2>1, <2>2, <2>3, <2>4 DEF Inv
<1>13. ASSUME NEW t \in Threads, RecordExternal(t)
      PROVE  Inv'
  <2>1. TypeOK'
    <3>1. req[t].resource \in Resources
      BY <1>13 DEF RecordExternal
    <3>2. res' \in [Resources -> Resource]
      BY <1>13, <3>1, ResourceUpdate DEF RecordExternal
    <3> QED
      BY <1>13, <3>2, CompletedEffect DEF RecordExternal
  <2>2. RequestsJustified'
    BY <1>13, CompletedJustified DEF RecordExternal
  <2>3. ApprovedWasExecuted'
    BY <1>13, CompletedEffect DEF RecordExternal
  <2>4. DecidedWithAuthority'
    BY <1>13 DEF RecordExternal, Completed
  <2> QED
    BY <2>1, <2>2, <2>3, <2>4 DEF Inv
<1>14. ASSUME NEW t \in Threads, ActionFails(t)
      PROVE  Inv'
  BY <1>14 DEF ActionFails
<1>15. ASSUME NEW t \in Threads, Die(t)
      PROVE  Inv'
  <2>1. TypeOK'
    BY <1>15 DEF Die
  <2>2. RequestsJustified'
    BY <1>15 DEF Die
  <2>3. ApprovedWasExecuted'
    BY <1>15 DEF Die
  <2>4. DecidedWithAuthority'
    BY <1>15 DEF Die
  <2> QED
    BY <2>1, <2>2, <2>3, <2>4 DEF Inv
<1>16. ASSUME NEW r \in Resources, DeleteResource(r)
      PROVE  Inv'
  <2>1. TypeOK'
    <3>1. res' \in [Resources -> Resource]
      <4>1. PICK exists \in BOOLEAN, live \in BOOLEAN :
              res' = [res EXCEPT ![r].exists = exists, ![r].live = live]
        BY <1>16 DEF DeleteResource
      <4> QED
        BY <4>1, ResourceUpdate
    <3> QED
      BY <1>16, <3>1 DEF DeleteResource
  <2>2. RequestsJustified'
    BY <1>16 DEF DeleteResource
  <2>3. ApprovedWasExecuted'
    BY <1>16 DEF DeleteResource
  <2>4. DecidedWithAuthority'
    BY <1>16 DEF DeleteResource
  <2> QED
    BY <2>1, <2>2, <2>3, <2>4 DEF Inv
<1>17. ASSUME NEW r \in Resources, Unlock(r)
      PROVE  Inv'
  <2>1. TypeOK'
    <3>1. res' \in [Resources -> Resource]
      BY <1>17, ResourceUpdate DEF Unlock
    <3> QED
      BY <1>17, <3>1 DEF Unlock
  <2>2. RequestsJustified'
    BY <1>17 DEF Unlock
  <2>3. ApprovedWasExecuted'
    BY <1>17 DEF Unlock
  <2>4. DecidedWithAuthority'
    BY <1>17 DEF Unlock
  <2> QED
    BY <2>1, <2>2, <2>3, <2>4 DEF Inv
<1>18. ASSUME NEW u \in Users, SetRole(u)
      PROVE  Inv'
  BY <1>18 DEF SetRole
<1>19. ASSUME NEW r \in Resources, EditApi(r) \/ PushSchedule(r) \/ StopJob(r)
      PROVE  Inv'
  <2>1. TypeOK'
    <3>1. \/ res' = [res EXCEPT ![r].drift = TRUE]
          \/ res' = [res EXCEPT ![r].live = FALSE]
      BY <1>19 DEF EditApi, PushSchedule, StopJob
    <3>2. /\ [res EXCEPT ![r].drift = TRUE] \in [Resources -> Resource]
          /\ [res EXCEPT ![r].live = FALSE] \in [Resources -> Resource]
      BY ResourceUpdate
    <3>3. res' \in [Resources -> Resource]
      BY <3>1, <3>2
    <3>4. UNCHANGED <<row, admins, req, runs, everAdmin>>
      BY <1>19 DEF EditApi, PushSchedule, StopJob
    <3> QED
      BY <3>3, <3>4
  <2>2. UNCHANGED <<row, admins, req, runs, everAdmin>>
    BY <1>19 DEF EditApi, PushSchedule, StopJob
  <2>3. RequestsJustified' /\ ApprovedWasExecuted' /\ DecidedWithAuthority'
    BY <2>2
  <2> QED
    BY <2>1, <2>3 DEF Inv
<1>20. CASE UNCHANGED vars
  BY <1>20 DEF vars
<1> QED
  BY <1>1, <1>2, <1>3, <1>4, <1>5, <1>6, <1>7, <1>8, <1>9, <1>10, <1>11, <1>12, <1>13, <1>14, <1>15, <1>16, <1>17, <1>18, <1>19, <1>20 DEF Next, Submit, Review, Publish

\* The inductive invariant holds throughout every behaviour.
THEOREM Invariance == Spec => []Inv
<1>1. Init => Inv
  BY InitInv
<1>2. Inv /\ [Next]_vars => Inv'
  BY StepInv
<1> QED
  BY <1>1, <1>2, PTL DEF Spec

\* Every variable keeps its type: in particular a version or a counter never
\* leaves its bound and a request never points at a ticket that is not one.
THEOREM TypeCorrect == Spec => []TypeOK
<1>1. Inv => TypeOK
  BY DEF Inv
<1> QED
  BY <1>1, Invariance, PTL

\* An approved ticket has had its action run, for any number of overlapping
\* requests and wherever they die.
THEOREM ApprovedTicketsWereExecuted == Spec => []ApprovedWasExecuted
<1>1. Inv => ApprovedWasExecuted
  BY DEF Inv
<1> QED
  BY <1>1, Invariance, PTL

\* Only users with the authority decide tickets, however roles change between a
\* request's check and its commit.
THEOREM DecisionsAreAuthorized == Spec => []DecidedWithAuthority
<1>1. Inv => DecidedWithAuthority
  BY DEF Inv
<1> QED
  BY <1>1, Invariance, PTL

\* Production changes only in a step of a request on that resource whose user has
\* had full control, or in one of the ways open to developers: what makes
\* something live or gives it a version is reached only through the two checks
\* for full control, and the four writers that do not check do no more than
\* DevelopersChange says.
THEOREM ProductionChangesAreAuthorized == Spec => ReleasesAreControlled
<1> DEFINE Changed(r) == /\ res[r].exists /\ res'[r].exists
                         /\ <<res'[r].live, res'[r].version, res'[r].drift>>
                              # <<res[r].live, res[r].version, res[r].drift>>
           By(t, r) == /\ req'[t] # req[t]
                       /\ req[t].resource = r
                       /\ req[t].user \in everAdmin
<1>1. ASSUME Inv, Next, NEW r \in Resources, Changed(r)
      PROVE  (\E t \in Threads : By(t, r)) \/ DevelopersChange(r)
  <2>1. res \in [Resources -> Resource] /\ req \in [Threads -> Request]
    BY <1>1 DEF Inv, TypeOK
  <2>2. ASSUME NEW t \in Threads, CommitLocal(t) PROVE By(t, r)
    <3>1. req[t].user \in everAdmin
      BY <1>1, <2>2 DEF Inv, RequestsJustified, CommitLocal
    <3>2. req[t].resource = r
      BY <1>1, <2>1, <2>2 DEF CommitLocal
    <3>3. req'[t].pc # "commit"
      BY <1>1, <2>1, <2>2, CompletedEffect DEF CommitLocal, Inv, NoRequest, Request, Start
    <3> QED
      BY <2>2, <3>1, <3>2, <3>3 DEF CommitLocal
  <2>3. ASSUME NEW t \in Threads, ReleaseExternal(t) PROVE By(t, r)
    <3>1. req[t].user \in everAdmin
      BY <1>1, <2>3 DEF Inv, RequestsJustified, ReleaseExternal
    <3>2. req[t].resource = r
      BY <1>1, <2>1, <2>3 DEF ReleaseExternal
    <3>3. req'[t].pc = "record"
      BY <2>1, <2>3 DEF ReleaseExternal, Goto, Request
    <3> QED
      BY <2>3, <3>1, <3>2, <3>3 DEF ReleaseExternal
  <2>4. ASSUME NEW t \in Threads, RecordExternal(t) PROVE FALSE
    BY <1>1, <2>1, <2>4 DEF RecordExternal, Resource
  <2>5. ASSUME NEW q \in Resources, DeleteResource(q) PROVE DevelopersChange(r)
    <3>1. PICK exists \in BOOLEAN, live \in BOOLEAN :
            /\ exists => IsExternal(q)
            /\ live => res[q].live
            /\ res' = [res EXCEPT ![q].exists = exists, ![q].live = live]
      BY <2>5 DEF DeleteResource
    <3>2. r = q
      BY <1>1, <2>1, <3>1
    <3>3. /\ res'[r].exists = exists /\ res'[r].live = live
          /\ res'[r].version = res[r].version /\ res'[r].drift = res[r].drift
      BY <2>1, <3>1, <3>2 DEF Resource
    <3>4. res[r].live \in BOOLEAN
      BY <2>1 DEF Resource
    <3> QED
      BY <1>1, <3>1, <3>2, <3>3, <3>4 DEF DevelopersChange
  <2>6. ASSUME NEW q \in Resources, Unlock(q) PROVE FALSE
    BY <1>1, <2>1, <2>6 DEF Unlock, Resource
  <2>7. ASSUME NEW q \in Resources, EditApi(q) \/ PushSchedule(q) PROVE DevelopersChange(r)
    <3>1. /\ res[q].live /\ Kind[q] \in {"data_service_api", "workflow"}
          /\ res' = [res EXCEPT ![q].drift = TRUE]
      BY <2>7 DEF EditApi, PushSchedule
    <3>2. r = q
      BY <1>1, <2>1, <3>1
    <3>3. /\ res'[r].live = res[r].live /\ res'[r].version = res[r].version
          /\ res'[r].drift = TRUE
      BY <2>1, <3>1, <3>2 DEF Resource
    <3> QED
      BY <3>1, <3>2, <3>3 DEF DevelopersChange
  <2>8. ASSUME NEW q \in Resources, StopJob(q) PROVE DevelopersChange(r)
    <3>1. Kind[q] = "stream_job" /\ res' = [res EXCEPT ![q].live = FALSE]
      BY <2>8 DEF StopJob
    <3>2. r = q
      BY <1>1, <2>1, <3>1
    <3>3. /\ ~ res'[r].live /\ res'[r].version = res[r].version
          /\ res'[r].drift = res[r].drift
      BY <2>1, <3>1, <3>2 DEF Resource
    <3> QED
      BY <3>1, <3>2, <3>3 DEF DevelopersChange, IsExternal
  <2>9. \/ UNCHANGED res
        \/ \E t \in Threads : \/ CommitLocal(t)
                              \/ ReleaseExternal(t)
                              \/ RecordExternal(t)
        \/ \E q \in Resources : \/ DeleteResource(q) \/ Unlock(q)
                                \/ EditApi(q) \/ PushSchedule(q) \/ StopJob(q)
    BY <1>1 DEF Next, Submit, Review, Publish, SubmitCheck, SubmitInsert,
         ApproveCheck, RejectCheck, CancelCheck, Reject, Cancel, Approve, Close,
         DirectCheck, LoadResource, ActionFails, Die, SetRole
  <2>10. ~ UNCHANGED res
    BY <1>1
  <2> QED
    BY <2>2, <2>3, <2>4, <2>5, <2>6, <2>7, <2>8, <2>9, <2>10
<1>2. ASSUME Inv, [Next]_vars
      PROVE  [\A r \in Resources :
                Changed(r) => \/ \E t \in Threads : By(t, r)
                              \/ DevelopersChange(r)]_vars
  BY <1>1, <1>2
<1> QED
  BY <1>2, Invariance, PTL DEF Spec, ReleasesAreControlled

-----------------------------------------------------------------------------
\* One request at a time, and none dies: what the contract is promised for.
OneAtATime == Faults = FALSE /\ \A s, t \in Threads : s = t

\* What the request under way has checked is still so: nobody else asks for
\* what it is about to insert, and its ticket is undecided and has been run only
\* if it is about to say so. No other undecided ticket has been run.
Careful(t) ==
  LET q == req[t] IN
  /\ q.pc = "insert" => ~ PendingFor(q.resource, q.action)
  /\ q.pc \in {"reject", "cancel"} => IsPending(q.ticket)
  /\ q.pc \in {"load", "commit", "release", "record", "decide"} /\ q.ticket \in Tickets =>
       IsPending(q.ticket)
  /\ \A i \in Tickets : row[i].status \in {"none", "pending"} =>
       runs[i] = IF q.pc = "decide" /\ q.ticket = i THEN 1 ELSE 0

CarefulInv == Inv /\ \A t \in Threads : Careful(t)

\* The contract's next step, and the three variables it sees.
ContractStep == Contract!Next \/ UNCHANGED Contract!vars

\* Starting a request on what has just been looked at.
LEMMA StartCareful ==
  ASSUME CarefulInv, OneAtATime, NEW t \in Threads, Idle(t), NEW pc \in PCs \ {"decide"},
         NEW u, NEW i, NEW r, NEW a, Start(t, pc, u, i, r, a), UNCHANGED <<row, runs>>,
         pc = "insert" => ~ PendingFor(r, a),
         i \in Tickets => IsPending(i), pc \in {"reject", "cancel"} => i \in Tickets
  PROVE  Careful(t)'
<1>1. /\ req'[t].pc = pc /\ req'[t].ticket = i
      /\ req'[t].resource = r /\ req'[t].action = a
  BY DEF Start, CarefulInv, Inv, TypeOK
<1>2. PendingFor(r, a)' <=> PendingFor(r, a)
  BY DEF PendingFor, IsPending
<1>3. \A j \in Tickets : row[j].status \in {"none", "pending"} => runs[j] = 0
  BY DEF CarefulInv, Careful, Idle
<1> QED
  BY <1>1, <1>2, <1>3 DEF Careful, IsPending

\* Going on or ending without having completed anything.
LEMMA GoOnCareful ==
  ASSUME CarefulInv, OneAtATime, NEW t \in Threads, UNCHANGED <<row, runs>>, req[t].pc # "decide",
         \/ Finish(t)
         \/ /\ req'[t].ticket = req[t].ticket
            /\ req[t].pc \in {"load", "commit", "release", "record"}
            /\ req'[t].pc \in {"commit", "release", "record"}
  PROVE  Careful(t)'
<1>1. \A j \in Tickets : row[j].status \in {"none", "pending"} => runs[j] = 0
  BY DEF CarefulInv, Careful
<1>2. CASE Finish(t)
  <2>1. req'[t].pc = "idle"
    BY <1>2 DEF Finish, NoRequest, CarefulInv, Inv, TypeOK
  <2> QED
    BY <2>1, <1>1 DEF Careful
<1>3. CASE /\ req'[t].ticket = req[t].ticket
           /\ req[t].pc \in {"load", "commit", "release", "record"}
           /\ req'[t].pc \in {"commit", "release", "record"}
  BY <1>1, <1>3 DEF Careful, CarefulInv, IsPending
<1> QED
  BY <1>2, <1>3

\* Completing the action of a ticket is the contract's Execute; without a ticket
\* the contract does not notice.
LEMMA CompletedMaps ==
  ASSUME CarefulInv, OneAtATime, NEW t \in Threads, Completed(t), row' = row,
         req[t].pc \in {"commit", "record"}
  PROVE  ContractStep /\ Careful(t)'
<1>1. CASE req[t].ticket = Nil
  <2>1. Finish(t) /\ UNCHANGED runs
    BY <1>1 DEF Completed
  <2> QED
    BY <2>1, GoOnCareful DEF ContractStep, Contract!vars
<1>2. CASE req[t].ticket # Nil
  <2> DEFINE k == req[t].ticket
  <2>1. k \in Tickets
    BY <1>2 DEF CarefulInv, Inv, TypeOK, Request
  <2>2. runs' = [runs EXCEPT ![k] = @ + 1] /\ Start(t, "decide", req[t].user, k, Nil, Nil)
    BY <1>2 DEF Completed
  <2>3. IsPending(k) /\ runs[k] = 0
    BY <2>1 DEF CarefulInv, Careful, IsPending
  <2>4. runs' = [runs EXCEPT ![k] = 1]
    BY <2>2, <2>3
  <2>5. Contract!Execute(k)
    BY <2>1, <2>3, <2>4 DEF Contract!Execute, IsPending
  <2>6. req'[t].pc = "decide" /\ req'[t].ticket = k
    BY <2>2 DEF Start, CarefulInv, Inv, TypeOK
  <2>7. \A j \in Tickets \ {k} : runs'[j] = runs[j]
    BY <2>4 DEF CarefulInv, Inv, TypeOK
  <2>8. runs'[k] = 1
    BY <2>1, <2>4 DEF CarefulInv, Inv, TypeOK
  <2>9. Careful(t)'
    BY <2>1, <2>3, <2>6, <2>7, <2>8 DEF Careful, CarefulInv, IsPending
  <2> QED
    BY <2>1, <2>5, <2>9 DEF ContractStep, Contract!Next
<1> QED
  BY <1>1, <1>2

\* Closing a ticket approves it if it has been run and refuses it if not.
LEMMA CloseMaps ==
  ASSUME CarefulInv, OneAtATime, NEW t \in Threads, NEW s, Close(t, s),
         \/ req[t].pc \in {"reject", "cancel"} /\ s \in {"rejected", "cancelled"}
         \/ req[t].pc = "decide" /\ s = "approved"
  PROVE  ContractStep /\ Careful(t)'
<1>0. req[t].ticket \in Tickets
  BY DEF CarefulInv, Inv, RequestsJustified
<1>1. PICK k \in Tickets : k = req[t].ticket
  BY <1>0
<1>2. IsPending(k)
  <2>1. IsPending(req[t].ticket)
    BY <1>0 DEF CarefulInv, Careful
  <2> QED
    BY <1>1, <2>1 DEF IsPending
<1>3. /\ row' = [row EXCEPT ![k].status = s, ![k].reviewer = req[t].user]
      /\ row \in [Tickets -> Row] /\ runs' = runs
  BY <1>1 DEF Close, CarefulInv, Inv, TypeOK
<1>4. /\ row'[k].status = s
      /\ \A j \in Tickets : row'[j].resource = row[j].resource /\ row'[j].action = row[j].action
      /\ \A j \in Tickets \ {k} : row'[j].status = row[j].status
  BY <1>1, <1>3 DEF Row
<1>5. [i \in Tickets |-> row'[i].status] = [[i \in Tickets |-> row[i].status] EXCEPT ![k] = s]
  BY <1>1, <1>4
<1>6. [i \in Tickets |-> <<row'[i].resource, row'[i].action>>] = [i \in Tickets |-> <<row[i].resource, row[i].action>>]
  BY <1>4
<1>7. Contract!Approve(k) \/ Contract!Refuse(k)
  <2>1. CASE req[t].pc = "decide" /\ s = "approved"
    <3>1. runs[k] = 1
      BY <1>1, <1>2, <2>1 DEF CarefulInv, Careful, IsPending
    <3> QED
      BY <1>1, <1>2, <1>3, <1>5, <1>6, <2>1, <3>1 DEF Contract!Approve, IsPending
  <2>2. CASE req[t].pc \in {"reject", "cancel"} /\ s \in {"rejected", "cancelled"}
    <3>1. runs[k] = 0
      BY <1>1, <1>2, <2>2 DEF CarefulInv, Careful, IsPending
    <3> QED
      BY <1>1, <1>2, <1>3, <1>5, <1>6, <2>2, <3>1 DEF Contract!Refuse, IsPending
  <2> QED
    BY <2>1, <2>2
<1>8. req'[t].pc = "idle"
  BY DEF Close, Finish, NoRequest, CarefulInv, Inv, TypeOK
<1>9. \A j \in Tickets : row'[j].status \in {"none", "pending"} => runs'[j] = 0
  BY <1>1, <1>3, <1>4 DEF CarefulInv, Careful
<1>10. Careful(t)'
  BY <1>8, <1>9 DEF Careful
<1>11. Contract!Next
  BY <1>7 DEF Contract!Next
<1> QED
  BY <1>10, <1>11 DEF ContractStep

\* Inserting the ticket that was checked for is the contract's File.
LEMMA InsertMaps ==
  ASSUME CarefulInv, OneAtATime, NEW t \in Threads, SubmitInsert(t)
  PROVE  ContractStep /\ Careful(t)'
<1>0. PICK r \in Resources \cup {Nil}, a \in Actions \cup {Nil} :
        r = req[t].resource /\ a = req[t].action
  BY DEF CarefulInv, Inv, TypeOK, Request
<1>1. PICK k \in Tickets :
        /\ row[k].status = "none"
        /\ row' = [row EXCEPT ![k] = [status |-> "pending", resource |-> r, action |-> a,
                                      submitter |-> req[t].user, reviewer |-> Nil]]
  BY <1>0 DEF SubmitInsert
<1>2. /\ row'[k].status = "pending" /\ row'[k].resource = r /\ row'[k].action = a
      /\ \A j \in Tickets \ {k} : row'[j] = row[j]
      /\ runs' = runs
  BY <1>1 DEF SubmitInsert, CarefulInv, Inv, TypeOK
<1>3. ~ PendingFor(r, a)
  BY <1>0 DEF SubmitInsert, CarefulInv, Careful
<1>4. <<r, a>> \in (Resources \cup {Nil}) \X (Actions \cup {Nil})
  OBVIOUS
<1>5. [i \in Tickets |-> row'[i].status] = [[i \in Tickets |-> row[i].status] EXCEPT ![k] = "pending"]
  BY <1>2
<1>6. [i \in Tickets |-> <<row'[i].resource, row'[i].action>>]
        = [[i \in Tickets |-> <<row[i].resource, row[i].action>>] EXCEPT ![k] = <<r, a>>]
  BY <1>2
<1>7. Contract!File(k, <<r, a>>)
  <2>1. \A j \in Tickets : ~ (row[j].status = "pending" /\ <<row[j].resource, row[j].action>> = <<r, a>>)
    BY <1>3 DEF PendingFor, IsPending
  <2> QED
    BY <1>1, <1>2, <1>5, <1>6, <2>1 DEF Contract!File
<1>8. req'[t].pc = "idle"
  BY DEF SubmitInsert, Finish, NoRequest, CarefulInv, Inv, TypeOK
<1>9. \A j \in Tickets : row'[j].status \in {"none", "pending"} => runs'[j] = 0
  BY <1>1, <1>2 DEF CarefulInv, Careful, SubmitInsert
<1>10. Careful(t)'
  BY <1>8, <1>9 DEF Careful
<1>11. Contract!Next
  BY <1>4, <1>7 DEF Contract!Next
<1> QED
  BY <1>10, <1>11 DEF ContractStep

\* Every step is one of the contract or none, and keeps what the next relies on.
LEMMA StepMaps ==
  ASSUME CarefulInv, OneAtATime, [Next]_vars
  PROVE  CarefulInv' /\ ContractStep
<1>1. Inv'
  BY StepInv DEF CarefulInv
<1>2. ASSUME NEW t \in Threads, Submit(t) PROVE ContractStep /\ Careful(t)'
  <2>1. ASSUME NEW u \in Users, NEW r \in Resources, NEW a \in ActionsOn(r), SubmitCheck(t, u, r, a)
        PROVE  Careful(t)' /\ UNCHANGED <<row, runs>>
    BY <2>1, StartCareful, ConstantsAssumption DEF SubmitCheck, PCs
  <2> QED
    BY <1>2, <2>1, InsertMaps DEF Submit, ContractStep, Contract!vars
<1>3. ASSUME NEW t \in Threads, Review(t) PROVE ContractStep /\ Careful(t)'
  <2>1. ASSUME NEW u \in Users, NEW i \in Tickets,
               ApproveCheck(t, u, i) \/ RejectCheck(t, u, i) \/ CancelCheck(t, u, i)
        PROVE  Careful(t)' /\ UNCHANGED <<row, runs>>
    <3>1. /\ Idle(t) /\ IsPending(i) /\ UNCHANGED <<row, runs>>
          /\ \/ Start(t, "load", u, i, row[i].resource, row[i].action)
             \/ Start(t, "reject", u, i, Nil, Nil)
             \/ Start(t, "cancel", u, i, Nil, Nil)
      BY <2>1 DEF ApproveCheck, RejectCheck, CancelCheck
    <3> QED
      BY <3>1, StartCareful DEF PCs
  <2> QED
    BY <1>3, <2>1, CloseMaps DEF Review, Reject, Cancel, Approve, ContractStep, Contract!vars
<1>4. ASSUME NEW t \in Threads, Publish(t) PROVE ContractStep /\ Careful(t)'
  <2>1. ASSUME NEW u \in Users, NEW r \in Resources, NEW a \in ActionsOn(r), DirectCheck(t, u, r, a)
        PROVE  Careful(t)' /\ UNCHANGED <<row, runs>>
    BY <2>1, StartCareful, ConstantsAssumption DEF DirectCheck, PCs
  <2>2. ASSUME LoadResource(t) \/ ReleaseExternal(t) PROVE Careful(t)' /\ UNCHANGED <<row, runs>>
    <3>1. /\ UNCHANGED <<row, runs>> /\ req[t].pc \in {"load", "release"}
          /\ req'[t].ticket = req[t].ticket /\ req'[t].pc \in {"commit", "release", "record"}
      BY <2>2 DEF LoadResource, ReleaseExternal, Goto, CarefulInv, Inv, TypeOK, Request
    <3> QED
      BY <3>1, GoOnCareful
  <2>3. ASSUME ActionFails(t) PROVE Careful(t)' /\ UNCHANGED <<row, runs>>
    BY <2>3, GoOnCareful DEF ActionFails
  <2>4. ASSUME CommitLocal(t) \/ RecordExternal(t) PROVE ContractStep /\ Careful(t)'
    BY <2>4, CompletedMaps DEF CommitLocal, RecordExternal
  <2> QED
    BY <1>4, <2>1, <2>2, <2>3, <2>4 DEF Publish, ContractStep, Contract!vars
<1>5. ASSUME NEW t \in Threads, Die(t) PROVE FALSE
  BY <1>5 DEF Die, OneAtATime
<1>6. CASE \/ UNCHANGED vars
           \/ \E r \in Resources : \/ DeleteResource(r) \/ Unlock(r)
                                   \/ EditApi(r) \/ PushSchedule(r) \/ StopJob(r)
           \/ \E u \in Users : SetRole(u)
  <2>1. UNCHANGED <<row, req, runs>>
    BY <1>6 DEF vars, DeleteResource, Unlock, EditApi, PushSchedule, StopJob, SetRole
  <2> QED
    BY <1>1, <2>1 DEF CarefulInv, Careful, IsPending, PendingFor, ContractStep, Contract!vars
<1> QED
  BY <1>1, <1>2, <1>3, <1>4, <1>5, <1>6 DEF Next, CarefulInv, OneAtATime

\* One request at a time, the workflow keeps its contract, for all tickets,
\* resources and users: the same thing is never asked for twice, an approved
\* ticket's action has run exactly once, a refused one's never, decisions stay.
THEOREM ContractIsKept == ASSUME OneAtATime PROVE Spec => KeepsContract
<1>1. Init => CarefulInv /\ Contract!Init
  <2> SUFFICES ASSUME Init PROVE CarefulInv /\ Contract!Init
    OBVIOUS
  <2>1. \A t \in Threads : Careful(t)
    BY DEF Init, Careful, NoRequest
  <2>2. Contract!Init
    BY DEF Init, Contract!Init, NoRow
  <2> QED
    BY <2>1, <2>2, InitInv DEF CarefulInv
<1>2. CarefulInv /\ [Next]_vars => CarefulInv' /\ [Contract!Next]_(Contract!vars)
  BY StepMaps DEF ContractStep
<1> QED
  BY <1>1, <1>2, PTL DEF Spec, KeepsContract, Contract!Spec

=============================================================================
