-------------------------- MODULE ScriptNodes_proofs --------------------------
(***************************************************************************)
(* Proofs about ScriptNodes, for any users, texts, databases and requests  *)
(* under way, with requests that are lost at any point.                    *)
(***************************************************************************)
EXTENDS ScriptNodes, TLAPS

\* A request that writes the script had seen no publication lock, or is a test
\* run; one that writes the script or the lock was entitled to it when it loaded
\* the row.
Entitled(q) ==
  /\ "script" \in q.columns => q.op = "run" \/ ~ q.seen.locked
  /\ q.columns \cap {"script", "holder"} # {} =>
       \/ q.op \in {"force", "unlock", "run"}
       \/ q.op = "release" /\ q.user \in Admins
       \/ Free(q.seen, q.user)

\* A request that executes a run is the one that is shown as running, and knows
\* what the database keeps of it.
Executing(q) == q.pc \in {"load", "execute", "end"}
Serves(q) ==
  /\ Executing(q) =>
       /\ q.inst \in 1 .. Len(inst)
       /\ inst[q.inst].status = "running" /\ ~ inst[q.inst].lost
       /\ inst[q.inst].durable = (IF node.source = "mysql" THEN q.done ELSE 0)
  /\ ~ Executing(q) => q.inst = 0
  /\ ~ Executing(q) \/ q.pc = "load" => q.done = 0
  /\ q.pc # "end" => q.outcome = "success" /\ q.done < Length
  /\ q.pc = "end" => (q.outcome = "success" <=> q.done = Length)

Live == {c \in Calls : call[c] # None}

Inv ==
  /\ TypeOK
  /\ \A c \in Live : Entitled(call[c]) /\ Serves(call[c])
  /\ \A c, d \in Live : Executing(call[c]) /\ call[c].inst = call[d].inst => c = d
  /\ RunningIsServed
  /\ OutcomeIsTold

-----------------------------------------------------------------------------
\* A request that begins is entitled to what it will write, and touches no run.
LEMMA LoadStarts ==
  ASSUME Inv, NEW c \in Calls, NEW u \in Users, NEW op, NEW new \in Node,
         NEW touched \in SUBSET {"holder", "at"}, NEW keep \in SUBSET (Texts \cup {None}),
         op \in {"save", "rollback", "acquire", "force", "release", "publish", "unlock", "delete", "run"},
         new.exists = node.exists, new.source = node.source,
         new.script # node.script => op = "run" \/ ~ node.locked,
         new.script # node.script \/ new.holder # node.holder \/ "holder" \in touched =>
           \/ op \in {"force", "unlock", "run"}
           \/ op = "release" /\ u \in Admins
           \/ Free(node, u),
         Load(c, u, op, new, touched, keep)
  PROVE  Inv'
<1>1. DOMAIN node = {"exists", "script", "locked", "holder", "at", "source"}
  BY DEF Inv, TypeOK, Node
<1>2. PICK q :
        /\ q = [pc |-> IF op \in {"run", "delete"} THEN op ELSE "commit", op |-> op, user |-> u,
                seen |-> node, new |-> new, keep |-> keep \ {None},
                columns |-> touched \cup {f \in DOMAIN node : new[f] # node[f]},
                inst |-> 0, done |-> 0, outcome |-> "success"]
        /\ call' = [call EXCEPT ![c] = q]
  BY DEF Load
<1>3. q \in Request
  BY <1>1, <1>2, ConstantsAssumption DEF Request, Inv, TypeOK
<1>4. Entitled(q) /\ ~ Executing(q)
  BY <1>1, <1>2 DEF Entitled, Executing
<1>5. q.inst = 0 /\ q.done = 0 /\ q.outcome = "success" /\ q.pc # "end"
  BY <1>2
<1>6. UNCHANGED <<node, history, inst>> /\ made' = made + 1 /\ call[c] = None
  BY DEF Load
<1>7. call' = [call EXCEPT ![c] = q]
  BY <1>2
<1>8. TypeOK'
  BY <1>3, <1>6, <1>7 DEF Inv, TypeOK
<1>9. call'[c] = q /\ \A d \in Calls : d # c => call'[d] = call[d]
  BY <1>7 DEF Inv, TypeOK
<1>10. Serves(q)'
  BY <1>4, <1>5, ConstantsAssumption DEF Serves, Executing
<1>11. (\A d \in Live : Entitled(call[d]) /\ Serves(call[d]))'
  <2> SUFFICES ASSUME NEW d \in Live' PROVE Entitled(call'[d]) /\ Serves(call[d])'
    OBVIOUS
  <2>1. CASE d = c
    BY <1>4, <1>9, <1>10, <2>1
  <2>2. CASE d # c
    BY <1>6, <1>9, <2>2 DEF Inv, Live, Serves
  <2> QED
    BY <2>1, <2>2
<1>12. (\A a, b \in Live : Executing(call[a]) /\ call[a].inst = call[b].inst => a = b)'
  <2> SUFFICES ASSUME NEW a \in Live', NEW b \in Live', Executing(call'[a]),
                      call'[a].inst = call'[b].inst
               PROVE  a = b
    OBVIOUS
  <2>1. a # c /\ call'[a] = call[a] /\ a \in Live
    BY <1>4, <1>9 DEF Live
  <2>2. call'[a].inst # 0
    BY <2>1 DEF Inv, Serves
  <2>3. b # c /\ call'[b] = call[b] /\ b \in Live
    BY <1>5, <1>9, <2>2 DEF Live
  <2> QED
    BY <2>1, <2>3 DEF Inv
<1>13. RunningIsServed' /\ OutcomeIsTold'
  <2>1. \A i \in 1 .. Len(inst), d \in Calls :
          call[d] # None /\ call[d].inst = i <=> call'[d] # None /\ call'[d].inst = i
    BY <1>5, <1>6, <1>9
  <2> QED
    BY <1>6, <2>1 DEF Inv, RunningIsServed, OutcomeIsTold
<1> QED
  BY <1>8, <1>11, <1>12, <1>13 DEF Inv

\* A request that executes nothing ends.
LEMMA Ends ==
  ASSUME Inv, NEW c \in Live, ~ Executing(call[c]), Done(c), inst' = inst, made' = made,
         node' \in Node, node'.source = node.source, history' \subseteq Texts
  PROVE  Inv'
<1>1. TypeOK'
  BY DEF Inv, TypeOK, Done
<1>2. call'[c] = None /\ \A d \in Calls : d # c => call'[d] = call[d]
  BY DEF Inv, TypeOK, Done, Live
<1>3. (\A d \in Live : Entitled(call[d]) /\ Serves(call[d]))'
  BY <1>2 DEF Inv, Live, Serves
<1>4. (\A a, b \in Live : Executing(call[a]) /\ call[a].inst = call[b].inst => a = b)'
  BY <1>2 DEF Inv, Live
<1>5. RunningIsServed' /\ OutcomeIsTold'
  <2>1. call[c].inst = 0
    BY DEF Inv, Serves
  <2>2. \A i \in 1 .. Len(inst), d \in Calls :
          call[d] # None /\ call[d].inst = i <=> call'[d] # None /\ call'[d].inst = i
    BY <1>2, <2>1
  <2> QED
    BY <2>2 DEF Inv, RunningIsServed, OutcomeIsTold
<1> QED
  BY <1>1, <1>3, <1>4, <1>5 DEF Inv

\* Who else is under way has another run, or none.
LEMMA OthersServeOthers ==
  ASSUME Inv, NEW c \in Live, Executing(call[c]), NEW d \in Live, d # c
  PROVE  call[d].inst # call[c].inst
BY DEF Inv

\* A step of the execution of a run, which goes on.
LEMMA RunGoesOn ==
  ASSUME Inv, NEW c \in Live, Executing(call[c]), NEW q \in Request, NEW v \in Instance,
         call' = [call EXCEPT ![c] = q], inst' = [inst EXCEPT ![call[c].inst] = v],
         UNCHANGED <<node, history, made>>,
         Executing(q), q.inst = call[c].inst, Entitled(q), Serves(q)',
         v.status = "running", ~ v.lost, node.source = "postgresql" => v.durable = 0
  PROVE  Inv'
<1>1. /\ call[c].inst \in 1 .. Len(inst) /\ Len(inst) \in Nat
      /\ Len(inst') = Len(inst) /\ inst'[call[c].inst] = v
      /\ \A i \in 1 .. Len(inst) : i # call[c].inst => inst'[i] = inst[i]
  BY DEF Inv, TypeOK, Serves
<1>2. inst' \in Seq(Instance)
  BY <1>1 DEF Inv, TypeOK
<1>3. TypeOK'
  BY <1>2 DEF Inv, TypeOK
<1>4. call'[c] = q /\ q # None /\ \A d \in Calls : d # c => call'[d] = call[d]
  BY NoneAssumption DEF Inv, TypeOK, Live
<1>5. Live' = Live
  BY <1>4 DEF Live
<1>6. (\A d \in Live : Entitled(call[d]) /\ Serves(call[d]))'
  <2> SUFFICES ASSUME NEW d \in Live PROVE Entitled(call'[d]) /\ Serves(call[d])'
    BY <1>5
  <2>1. CASE d = c
    BY <1>4, <2>1
  <2>2. CASE d # c
    BY <1>1, <1>4, <2>2, OthersServeOthers DEF Inv, Live, Serves
  <2> QED
    BY <2>1, <2>2
<1>7. (\A a, b \in Live : Executing(call[a]) /\ call[a].inst = call[b].inst => a = b)'
  BY <1>4, <1>5, OthersServeOthers DEF Inv, Live
<1>8. RunningIsServed' /\ OutcomeIsTold'
  <2>1. \A i \in 1 .. Len(inst), d \in Calls :
          call[d] # None /\ call[d].inst = i <=> call'[d] # None /\ call'[d].inst = i
    BY <1>4 DEF Live
  <2>2. RunningIsServed'
    BY <1>1, <2>1 DEF Inv, RunningIsServed, Live
  <2>3. OutcomeIsTold'
    BY <1>1 DEF Inv, OutcomeIsTold
  <2> QED
    BY <2>2, <2>3
<1> QED
  BY <1>3, <1>6, <1>7, <1>8 DEF Inv

\* The execution of a run ends.
LEMMA RunIsOver ==
  ASSUME Inv, NEW c \in Live, Executing(call[c]), NEW v \in Instance,
         Done(c), inst' = [inst EXCEPT ![call[c].inst] = v],
         UNCHANGED <<node, history, made>>,
         v.status # "running" \/ v.lost,
         v.status = "success" /\ node.source = "mysql" => v.durable = Length,
         v.status = "failed" => v.durable < Length,
         node.source = "postgresql" => v.durable = 0
  PROVE  Inv'
<1>1. /\ call[c].inst \in 1 .. Len(inst) /\ Len(inst) \in Nat
      /\ Len(inst') = Len(inst) /\ inst'[call[c].inst] = v
      /\ \A i \in 1 .. Len(inst) : i # call[c].inst => inst'[i] = inst[i]
  BY DEF Inv, TypeOK, Serves
<1>2. inst' \in Seq(Instance)
  BY <1>1 DEF Inv, TypeOK
<1>3. TypeOK'
  BY <1>2 DEF Inv, TypeOK, Done
<1>4. call'[c] = None /\ \A d \in Calls : d # c => call'[d] = call[d]
  BY DEF Inv, TypeOK, Done, Live
<1>5. (\A d \in Live : Entitled(call[d]) /\ Serves(call[d]))'
  BY <1>1, <1>4, OthersServeOthers DEF Inv, Live, Serves
<1>6. (\A a, b \in Live : Executing(call[a]) /\ call[a].inst = call[b].inst => a = b)'
  BY <1>4 DEF Inv, Live
<1>7. RunningIsServed'
  <2> SUFFICES ASSUME NEW i \in 1 .. Len(inst')
               PROVE  inst'[i].status = "running" /\ ~ inst'[i].lost
                        <=> \E d \in Calls : call'[d] # None /\ call'[d].inst = i
    BY DEF RunningIsServed
  <2>1. CASE i = call[c].inst
    BY <1>1, <1>4, <2>1, OthersServeOthers DEF Live
  <2>2. CASE i # call[c].inst
    BY <1>1, <1>4, <2>2 DEF Inv, RunningIsServed, Live
  <2> QED
    BY <2>1, <2>2
<1>8. OutcomeIsTold'
  BY <1>1 DEF Inv, OutcomeIsTold
<1> QED
  BY <1>3, <1>5, <1>6, <1>7, <1>8 DEF Inv

-----------------------------------------------------------------------------
\* A commit writes the columns that the request may change.
LEMMA UpdateKeeps ==
  ASSUME Inv, NEW c \in Live
  PROVE  Updated(c) \in Node /\ Updated(c).source = node.source
<1>1. call[c] \in Request
  BY DEF Inv, TypeOK, Live
<1> QED
  BY <1>1 DEF Inv, TypeOK, Updated, Request, Node

LEMMA BeginInv == ASSUME Inv, NEW c \in Calls, NEW u \in Users, Begin(c, u) PROVE Inv'
<1>1. node \in Node /\ history \subseteq Texts
  BY DEF Inv, TypeOK
<1>2. /\ Cleared(node) \in Node /\ Cleared(node).exists = node.exists
      /\ Cleared(node).source = node.source /\ Cleared(node).script = node.script
      /\ Cleared(node).holder # node.holder => Expired(node)
  BY <1>1 DEF Cleared, Node
<1>3. ASSUME NEW t \in Texts, Save(c, u, t) \/ Rollback(c, u, t) PROVE Inv'
  <2> DEFINE new == [Cleared(node) EXCEPT !.script = t]
  <2>1. /\ new \in Node /\ new.exists = node.exists /\ new.source = node.source
        /\ new.holder # node.holder => Expired(node)
    BY <1>2 DEF Node
  <2>2. ~ node.locked /\ Free(node, u)
    BY <1>3 DEF Save, Rollback
  <2>3. PICK op \in {"save", "rollback"}, keep \in SUBSET (Texts \cup {None}) :
          Load(c, u, op, new, {}, keep)
    <3>1. {node.script} \in SUBSET (Texts \cup {None}) /\ {} \in SUBSET (Texts \cup {None})
      BY <1>1 DEF Node
    <3> QED
      BY <1>3, <3>1 DEF Save, Rollback
  <2> HIDE DEF new
  <2> QED
    BY <2>1, <2>2, <2>3, LoadStarts DEF Free
<1>4. ASSUME NEW force \in BOOLEAN, Acquire(c, u, force) PROVE Inv'
  <2> DEFINE new == [node EXCEPT !.holder = u, !.at = "fresh"]
             touched == {"at"} \cup (IF Expired(node) THEN {"holder"} ELSE {})
  <2>1. /\ new \in Node /\ new.exists = node.exists /\ new.source = node.source
        /\ new.script = node.script /\ touched \in SUBSET {"holder", "at"}
    BY <1>1 DEF Node
  <2>2. \/ Load(c, u, "acquire", new, touched, {}) /\ Free(node, u)
        \/ Load(c, u, "force", new, touched, {})
    BY <1>4 DEF Acquire
  <2> HIDE DEF new, touched
  <2>3. CASE Load(c, u, "acquire", new, touched, {}) /\ Free(node, u)
    BY <2>1, <2>3, LoadStarts
  <2>4. CASE Load(c, u, "force", new, touched, {})
    BY <2>1, <2>4, LoadStarts
  <2> QED
    BY <2>2, <2>3, <2>4
<1>5. CASE Release(c, u)
  <2> DEFINE new == Unheld(node)
  <2>1. /\ new \in Node /\ new.exists = node.exists /\ new.source = node.source
        /\ new.script = node.script
    BY <1>1 DEF Node, Unheld
  <2>2. Load(c, u, "release", new, {}, {}) /\ (node.holder = u \/ u \in Admins)
    BY <1>5 DEF Release
  <2> HIDE DEF new
  <2> QED
    BY <2>1, <2>2, LoadStarts DEF Free
<1>6. CASE Publish(c, u)
  <2> DEFINE new == [node EXCEPT !.locked = @ \/ LockOnPublish]
  <2>1. /\ new \in Node /\ new.exists = node.exists /\ new.source = node.source
        /\ new.script = node.script /\ new.holder = node.holder
    BY <1>1, ConstantsAssumption DEF Node
  <2>2. Load(c, u, "publish", new, {}, {})
    BY <1>6 DEF Publish
  <2> HIDE DEF new
  <2> QED
    BY <2>1, <2>2, LoadStarts
<1>7. CASE Unlock(c, u)
  <2> DEFINE new == [Unheld(node) EXCEPT !.locked = FALSE]
  <2>1. /\ new \in Node /\ new.exists = node.exists /\ new.source = node.source
        /\ new.script = node.script
    BY <1>1 DEF Node, Unheld
  <2>2. Load(c, u, "unlock", new, {}, {})
    BY <1>7 DEF Unlock
  <2> HIDE DEF new
  <2> QED
    BY <2>1, <2>2, LoadStarts
<1>8. CASE DeleteBegin(c, u)
  BY <1>1, <1>8, LoadStarts DEF DeleteBegin
<1>9. ASSUME NEW t \in Texts \cup {None}, RunBegin(c, u, t) PROVE Inv'
  <2> DEFINE new == [node EXCEPT !.script = IF t = None THEN @ ELSE t]
  <2>1. new \in Node /\ new.exists = node.exists /\ new.source = node.source
    BY <1>1 DEF Node
  <2>2. Load(c, u, "run", new, {}, {})
    BY <1>9 DEF RunBegin
  <2> HIDE DEF new
  <2> QED
    BY <2>1, <2>2, LoadStarts
<1> QED
  BY <1>3, <1>4, <1>5, <1>6, <1>7, <1>8, <1>9 DEF Begin

LEMMA RunStartInv == ASSUME Inv, NEW c \in Calls, RunStart(c) PROVE Inv'
<1>1. c \in Live /\ call[c] \in Request /\ call[c].pc = "run" /\ ~ Executing(call[c])
  BY DEF RunStart, At, Live, Executing, Inv, TypeOK
<1>2. CASE ~ node.exists
  BY <1>1, <1>2, Ends DEF RunStart, Inv, TypeOK
<1>3. CASE node.exists
  <2>1. PICK q : q = [call[c] EXCEPT !.pc = "load", !.inst = Len(inst) + 1]
    OBVIOUS
  <2>2. call' = [call EXCEPT ![c] = q]
    BY <1>1, <1>3, <2>1 DEF RunStart, Inv, TypeOK, Request
  <2>3. PICK v : v = [status |-> "running", durable |-> 0, lost |-> FALSE]
    OBVIOUS
  <2>4. inst' = Append(inst, v) /\ node' = Updated(c) /\ UNCHANGED <<history, made>>
    BY <1>3, <2>3 DEF RunStart
  <2>5. v \in Instance /\ v.status = "running" /\ ~ v.lost /\ v.durable = 0
    BY <2>3, ConstantsAssumption DEF Instance
  <2>6. Len(inst) \in Nat /\ inst' \in Seq(Instance) /\ Len(inst') = Len(inst) + 1
        /\ inst'[Len(inst) + 1] = v /\ \A i \in 1 .. Len(inst) : inst'[i] = inst[i]
    BY <2>4, <2>5 DEF Inv, TypeOK
  <2>7. /\ q \in Request /\ q.pc = "load" /\ q.inst = Len(inst) + 1 /\ q.done = call[c].done
        /\ q.outcome = call[c].outcome /\ Executing(q) /\ Entitled(q)
    <3>1. Entitled(call[c])
      BY <1>1 DEF Inv
    <3>2. q \in Request
      <4>1. Len(inst) + 1 \in Nat
        BY <2>6
      <4> HIDE DEF Node
      <4> QED
        BY <1>1, <2>1, <4>1 DEF Request
    <3>3. /\ q.pc = "load" /\ q.inst = Len(inst) + 1 /\ q.done = call[c].done
          /\ q.outcome = call[c].outcome /\ q.columns = call[c].columns /\ q.op = call[c].op
          /\ q.user = call[c].user /\ q.seen = call[c].seen
      BY <1>1, <2>1 DEF Request
    <3> QED
      BY <3>1, <3>2, <3>3 DEF Executing, Entitled
  <2>8. node' \in Node /\ node'.source = node.source
    BY <1>1, <2>4, UpdateKeeps
  <2>9. TypeOK'
    BY <2>2, <2>4, <2>6, <2>7, <2>8 DEF Inv, TypeOK
  <2>10. call'[c] = q /\ q # None /\ \A d \in Calls : d # c => call'[d] = call[d]
    BY <2>2, <2>7, NoneAssumption DEF Inv, TypeOK
  <2>11. Live' = Live
    BY <1>1, <2>10 DEF Live
  <2>12. Serves(q)'
    <3>1. Serves(call[c])
      BY <1>1 DEF Inv
    <3>2. call[c].done = 0 /\ call[c].outcome = "success"
      BY <1>1, <3>1 DEF Serves
    <3> QED
      BY <2>5, <2>6, <2>7, <3>2, ConstantsAssumption DEF Serves
  <2>13. \A d \in Live : d # c => call[d].inst \in 0 .. Len(inst)
    BY <2>6 DEF Inv, Serves
  <2>14. (\A d \in Live : Entitled(call[d]) /\ Serves(call[d]))'
    <3> SUFFICES ASSUME NEW d \in Live PROVE Entitled(call'[d]) /\ Serves(call[d])'
      BY <2>11
    <3>1. CASE d = c
      BY <2>7, <2>10, <2>12, <3>1
    <3>2. CASE d # c
      <4>1. Entitled(call[d]) /\ Serves(call[d]) /\ call'[d] = call[d]
        BY <2>10, <3>2 DEF Inv, Live
      <4> QED
        BY <2>6, <2>8, <4>1 DEF Serves
    <3> QED
      BY <3>1, <3>2
  <2>15. (\A a, b \in Live : Executing(call[a]) /\ call[a].inst = call[b].inst => a = b)'
    <3> SUFFICES ASSUME NEW a \in Live, NEW b \in Live, Executing(call'[a]),
                        call'[a].inst = call'[b].inst
                 PROVE  a = b
      BY <2>11
    <3>1. \A d \in Live : d # c => call'[d].inst # Len(inst) + 1
      BY <2>6, <2>10, <2>13 DEF Live
    <3> QED
      BY <2>7, <2>10, <3>1 DEF Inv, Live
  <2>16. RunningIsServed' /\ OutcomeIsTold'
    <3>1. call[c].inst = 0
      BY <1>1 DEF Inv, Serves
    <3>2. \A i \in 1 .. Len(inst), d \in Calls :
            call[d] # None /\ call[d].inst = i <=> call'[d] # None /\ call'[d].inst = i
      BY <2>6, <2>7, <2>10, <3>1
    <3>3. ASSUME NEW i \in 1 .. Len(inst')
          PROVE  inst'[i].status = "running" /\ ~ inst'[i].lost
                   <=> \E d \in Calls : call'[d] # None /\ call'[d].inst = i
      <4>1. CASE i = Len(inst) + 1
        BY <2>5, <2>6, <2>7, <2>10, <4>1
      <4>2. CASE i \in 1 .. Len(inst)
        BY <2>6, <3>2, <4>2 DEF Inv, RunningIsServed
      <4> QED
        BY <2>6, <3>3, <4>1, <4>2
    <3>4. ASSUME NEW i \in 1 .. Len(inst')
          PROVE  /\ inst'[i].status = "success" /\ node'.source = "mysql" => inst'[i].durable = Length
                 /\ inst'[i].status = "failed" => inst'[i].durable < Length
                 /\ node'.source = "postgresql" => inst'[i].durable = 0
      <4>1. CASE i = Len(inst) + 1
        BY <2>5, <2>6, <4>1
      <4>2. CASE i \in 1 .. Len(inst)
        BY <2>6, <2>8, <4>2 DEF Inv, OutcomeIsTold
      <4> QED
        BY <2>6, <3>4, <4>1, <4>2
    <3> QED
      BY <3>3, <3>4 DEF RunningIsServed, OutcomeIsTold
  <2> QED
    BY <2>9, <2>14, <2>15, <2>16 DEF Inv
<1> QED
  BY <1>2, <1>3

\* Beginning to execute, a statement, and a statement that fails.
LEMMA GoOnInv ==
  ASSUME Inv, NEW c \in Calls, RunLoad(c) \/ Statement(c) \/ StatementFails(c)
  PROVE  Inv'
<1> DEFINE i == call[c].inst
<1>1. /\ c \in Live /\ call[c] \in Request /\ Executing(call[c])
      /\ call[c].pc \in {"load", "execute"} /\ UNCHANGED <<node, history, made>>
  BY DEF RunLoad, Statement, StatementFails, At, Live, Executing, Inv, TypeOK
<1>2. /\ Entitled(call[c]) /\ i \in 1 .. Len(inst) /\ inst[i] \in Instance
      /\ inst[i].status = "running" /\ ~ inst[i].lost
      /\ inst[i].durable = (IF node.source = "mysql" THEN call[c].done ELSE 0)
      /\ call[c].outcome = "success" /\ call[c].done < Length /\ call[c].done \in 0 .. Length
  BY <1>1 DEF Inv, TypeOK, Serves, Request
<1>3. ASSUME NEW q, call' = [call EXCEPT ![c] = q], NEW pc \in {"load", "execute", "end"},
             NEW done \in 0 .. Length, NEW outcome \in {"success", "failed"},
             q = [call[c] EXCEPT !.pc = pc, !.done = done, !.outcome = outcome],
             pc # "end" => outcome = "success" /\ done < Length,
             pc = "end" => (outcome = "success" <=> done = Length),
             pc = "load" => done = 0,
             NEW v, inst' = [inst EXCEPT ![i] = v],
             v = [inst[i] EXCEPT !.durable = IF node.source = "mysql" THEN done ELSE 0]
      PROVE  Inv'
  <2>1. q \in Request
    BY <1>1, <1>3 DEF Request
  <2>2. /\ q.pc = pc /\ q.inst = i /\ q.done = done /\ q.outcome = outcome
        /\ q.columns = call[c].columns /\ q.op = call[c].op
        /\ q.user = call[c].user /\ q.seen = call[c].seen
    BY <1>1, <1>3 DEF Request
  <2>3. Executing(q) /\ Entitled(q)
    BY <1>2, <2>2 DEF Executing, Entitled
  <2>4. 0 \in 0 .. Length
    BY ConstantsAssumption
  <2>5. /\ v \in Instance /\ v.status = "running" /\ ~ v.lost
        /\ v.durable = (IF node.source = "mysql" THEN done ELSE 0)
    BY <1>2, <1>3, <2>4 DEF Instance
  <2>6. inst' = [inst EXCEPT ![i] = v]
    BY <1>3
  <2>7. Serves(q)'
    <3>1. inst'[i] = v /\ Len(inst') = Len(inst)
      BY <1>2, <2>6 DEF Inv, TypeOK
    <3> QED
      BY <1>1, <1>2, <1>3, <2>2, <2>3, <2>5, <3>1 DEF Serves
  <2>8. node.source = "postgresql" => v.durable = 0
    BY <2>5
  <2> HIDE DEF i
  <2> QED
    BY <1>1, <1>3, <2>1, <2>2, <2>3, <2>5, <2>6, <2>7, <2>8, RunGoesOn DEF i
<1>4. ASSUME NEW pc \in {"execute", "end"}, NEW outcome \in {"success", "failed"},
             call' = [call EXCEPT ![c].pc = pc, ![c].outcome = outcome], inst' = inst,
             pc = "end" <=> outcome = "failed"
      PROVE  Inv'
  <2>1. PICK q : q = [call[c] EXCEPT !.pc = pc, !.done = call[c].done, !.outcome = outcome]
    OBVIOUS
  <2>2. call' = [call EXCEPT ![c] = q]
    BY <1>1, <1>4, <2>1 DEF Inv, TypeOK, Request
  <2>3. PICK v : v = [inst[i] EXCEPT !.durable = IF node.source = "mysql" THEN call[c].done ELSE 0]
    OBVIOUS
  <2>4. v = inst[i]
    BY <1>2, <2>3 DEF Instance
  <2>5. inst' = [inst EXCEPT ![i] = v]
    BY <1>2, <1>4, <2>4 DEF Inv, TypeOK
  <2>6. /\ pc # "end" => outcome = "success" /\ call[c].done < Length
        /\ pc = "end" => (outcome = "success" <=> call[c].done = Length)
        /\ pc = "load" => call[c].done = 0
    BY <1>2, <1>4, ConstantsAssumption
  <2> HIDE DEF i
  <2> QED
    BY <1>2, <1>3, <2>1, <2>2, <2>3, <2>5, <2>6
<1>5. CASE RunLoad(c)
  <2>1. call[c].outcome = "success" /\ inst' = inst
    BY <1>2, <1>5 DEF RunLoad
  <2>2. CASE node.script = None
    BY <1>4, <1>5, <2>1, <2>2 DEF RunLoad
  <2>3. CASE node.script # None
    <3>1. call' = [call EXCEPT ![c].pc = "execute", ![c].outcome = "success"]
      BY <1>1, <1>5, <2>1, <2>3 DEF RunLoad, GoTo, Inv, TypeOK, Request
    <3> QED
      BY <1>4, <2>1, <3>1
  <2> QED
    BY <2>2, <2>3
<1>6. CASE StatementFails(c)
  BY <1>4, <1>6 DEF StatementFails
<1>7. CASE Statement(c)
  <2> DEFINE done == call[c].done + 1
             pc == IF done = Length THEN "end" ELSE "execute"
  <2>1. done \in 0 .. Length /\ pc \in {"load", "execute", "end"} /\ call[c].pc = "execute"
    BY <1>2, <1>7, ConstantsAssumption DEF Statement, At
  <2>2. PICK q : q = [call[c] EXCEPT !.pc = pc, !.done = done, !.outcome = "success"]
    OBVIOUS
  <2>3. call' = [call EXCEPT ![c] = q]
    <3>1. call' = [call EXCEPT ![c].done = @ + 1,
                               ![c].pc = IF call[c].done + 1 = Length THEN "end" ELSE @]
      BY <1>7 DEF Statement
    <3>2. call' = [call EXCEPT ![c] = [call[c] EXCEPT !.done = done, !.pc = pc]]
      BY <1>1, <2>1, <3>1 DEF Inv, TypeOK, Live
    <3>3. q = [call[c] EXCEPT !.done = done, !.pc = pc]
      <4> HIDE DEF Node, done, pc
      <4> QED
        BY <1>1, <1>2, <2>2 DEF Request
    <3> QED
      BY <3>2, <3>3
  <2>4. PICK v : v = [inst[i] EXCEPT !.durable = IF node.source = "mysql" THEN done ELSE 0]
    OBVIOUS
  <2>5. inst' = [inst EXCEPT ![i] = v]
    <3>1. inst' = IF node.source = "mysql" THEN [inst EXCEPT ![i].durable = @ + 1] ELSE inst
      BY <1>7 DEF Statement
    <3>2. CASE node.source = "mysql"
      BY <1>2, <2>4, <3>1, <3>2 DEF Inv, TypeOK
    <3>3. CASE node.source # "mysql"
      <4>1. v = inst[i]
        BY <1>2, <2>4, <3>3 DEF Instance
      <4> QED
        BY <1>2, <3>1, <3>3, <4>1 DEF Inv, TypeOK
    <3> QED
      BY <3>2, <3>3
  <2>6. /\ pc # "end" => done < Length
        /\ pc = "end" => done = Length
        /\ pc # "load"
    BY <1>2, <2>1, ConstantsAssumption
  <2> HIDE DEF i, done, pc
  <2> QED
    BY <1>3, <2>1, <2>2, <2>3, <2>4, <2>5, <2>6
<1> QED
  BY <1>5, <1>6, <1>7

LEMMA RunEndInv == ASSUME Inv, NEW c \in Calls, RunEnd(c) PROVE Inv'
<1>1. /\ c \in Live /\ call[c] \in Request /\ Executing(call[c]) /\ call[c].pc = "end"
      /\ UNCHANGED <<node, history, made>> /\ Done(c)
  BY DEF RunEnd, At, Live, Executing, Inv, TypeOK
<1>2. /\ call[c].inst \in 1 .. Len(inst) /\ inst[call[c].inst] \in Instance
      /\ inst[call[c].inst].durable = (IF node.source = "mysql" THEN call[c].done ELSE 0)
      /\ call[c].outcome = "success" <=> call[c].done = Length
      /\ call[c].done \in 0 .. Length /\ call[c].outcome \in {"success", "failed"}
  BY <1>1 DEF Inv, TypeOK, Serves, Request
<1>3. PICK v : v = [inst[call[c].inst] EXCEPT !.status = call[c].outcome]
  OBVIOUS
<1>4. inst' = [inst EXCEPT ![call[c].inst] = v]
  BY <1>3 DEF RunEnd
<1>5. /\ v \in Instance /\ v.status = call[c].outcome
      /\ v.durable = (IF node.source = "mysql" THEN call[c].done ELSE 0)
  BY <1>2, <1>3 DEF Instance
<1>6. /\ v.status # "running" \/ v.lost
      /\ v.status = "success" /\ node.source = "mysql" => v.durable = Length
      /\ v.status = "failed" => v.durable < Length
      /\ node.source = "postgresql" => v.durable = 0
  BY <1>2, <1>5, ConstantsAssumption
<1> QED
  BY <1>1, <1>4, <1>5, <1>6, RunIsOver

LEMMA DieInv == ASSUME Inv, NEW c \in Calls, Die(c) PROVE Inv'
<1>1. c \in Live /\ call[c] \in Request /\ UNCHANGED <<node, history, made>> /\ Done(c)
  BY DEF Die, Live, Inv, TypeOK
<1>2. CASE ~ Executing(call[c])
  <2>1. call[c].inst = 0
    BY <1>1, <1>2 DEF Inv, Serves
  <2> QED
    BY <1>1, <1>2, <2>1, Ends DEF Die, Inv, TypeOK
<1>3. CASE Executing(call[c])
  <2>1. /\ call[c].inst \in 1 .. Len(inst) /\ inst[call[c].inst] \in Instance
        /\ inst[call[c].inst].status = "running"
        /\ inst[call[c].inst].durable = (IF node.source = "mysql" THEN call[c].done ELSE 0)
    BY <1>1, <1>3 DEF Inv, TypeOK, Serves
  <2>2. PICK v : v = [inst[call[c].inst] EXCEPT !.lost = TRUE]
    OBVIOUS
  <2>3. inst' = [inst EXCEPT ![call[c].inst] = v]
    BY <2>1, <2>2 DEF Die
  <2>4. v \in Instance /\ v.lost /\ v.status = "running" /\ v.durable = inst[call[c].inst].durable
    BY <2>1, <2>2 DEF Instance
  <2>5. /\ v.status # "running" \/ v.lost
        /\ v.status = "success" /\ node.source = "mysql" => v.durable = Length
        /\ v.status = "failed" => v.durable < Length
        /\ node.source = "postgresql" => v.durable = 0
    BY <2>1, <2>4
  <2> QED
    BY <1>1, <1>3, <2>3, <2>4, <2>5, RunIsOver
<1> QED
  BY <1>2, <1>3

LEMMA CommitInv == ASSUME Inv, NEW c \in Calls, Commit(c) \/ Delete(c) PROVE Inv'
<1>1. /\ c \in Live /\ call[c] \in Request /\ ~ Executing(call[c])
      /\ Done(c) /\ UNCHANGED <<inst, made>>
  BY DEF Commit, Delete, At, Live, Executing, Inv, TypeOK
<1>2. node' \in Node /\ node'.source = node.source /\ history' \subseteq Texts
  <2>1. CASE Commit(c)
    <3>1. call[c].keep \subseteq Texts /\ history \subseteq Texts /\ node \in Node
      BY <1>1 DEF Request, Inv, TypeOK
    <3> QED
      BY <1>1, <2>1, <3>1, UpdateKeeps DEF Commit
  <2>2. CASE Delete(c)
    BY <2>2 DEF Delete, Inv, TypeOK, Node
  <2> QED
    BY <2>1, <2>2
<1> QED
  BY <1>1, <1>2, Ends

LEMMA AgeInv == ASSUME Inv, Age PROVE Inv'
<1>1. node' \in Node /\ node'.source = node.source /\ UNCHANGED <<history, inst, call, made>>
  BY DEF Age, Inv, TypeOK, Node
<1>2. TypeOK'
  BY <1>1 DEF Inv, TypeOK
<1>3. (\A c \in Live : Entitled(call[c]) /\ Serves(call[c]))'
  BY <1>1 DEF Inv, Live, Serves
<1>4. (\A c, d \in Live : Executing(call[c]) /\ call[c].inst = call[d].inst => c = d)'
  BY <1>1 DEF Inv, Live
<1>5. RunningIsServed' /\ OutcomeIsTold'
  BY <1>1 DEF Inv, RunningIsServed, OutcomeIsTold
<1> QED
  BY <1>2, <1>3, <1>4, <1>5 DEF Inv

LEMMA InitInv == ASSUME Init PROVE Inv
<1>1. TypeOK
  BY ConstantsAssumption DEF Init, TypeOK
<1>2. Live = {} /\ Len(inst) = 0
  BY DEF Init, Live
<1> QED
  BY <1>1, <1>2 DEF Inv, RunningIsServed, OutcomeIsTold

LEMMA NextInv == ASSUME Inv, [Next]_vars PROVE Inv'
<1>1. CASE Next
  BY <1>1, BeginInv, CommitInv, RunStartInv, GoOnInv, RunEndInv, DieInv, AgeInv DEF Next, Execute
<1>2. CASE UNCHANGED vars
  BY <1>2 DEF vars, Inv, TypeOK, Live, Serves, RunningIsServed, OutcomeIsTold
<1> QED
  BY <1>1, <1>2

LEMMA Invariance == Spec => []Inv
<1>1. Init => Inv
  BY InitInv
<1>2. Inv /\ [Next]_vars => Inv'
  BY NextInv
<1> QED
  BY <1>1, <1>2, PTL DEF Spec

-----------------------------------------------------------------------------
\* Every variable keeps its type: what a commit writes into the row is a row.
THEOREM TypeCorrect == Spec => []TypeOK
<1>1. Inv => TypeOK
  BY DEF Inv
<1> QED
  BY <1>1, Invariance, PTL

\* The list of runs says what is so, however requests overlap and are lost: a run
\* shown as running is being executed or its request was lost, one reported as
\* successful on MySQL was executed to its end, on PostgreSQL nothing remains.
THEOREM RunsAreToldHolds == Spec => []RunsAreTold
<1>1. Inv => RunsAreTold
  BY DEF Inv, RunsAreTold
<1> QED
  BY <1>1, Invariance, PTL

-----------------------------------------------------------------------------
\* Only commits, of a request or of the text of a run, change the script, the
\* locks or their holder, and only in the columns the request has changed; the
\* lock's time also passes.
LEMMA WhoWrites ==
  ASSUME Inv, [Next]_vars, node'.script # node.script \/ node'.holder # node.holder
  PROVE  \E c \in Live :
           /\ Writing(c) /\ Entitled(call[c])
           /\ node'.script # node.script => "script" \in call[c].columns
           /\ node'.holder # node.holder => "holder" \in call[c].columns
<1>1. node \in Node
  BY DEF Inv, TypeOK
<1>2. ASSUME NEW c \in Calls, Commit(c) \/ RunStart(c)
      PROVE  c \in Live /\ Writing(c) /\ Entitled(call[c]) /\ node' \in {node, Updated(c)}
  <2>1. c \in Live /\ call[c] \in Request /\ call[c].pc \in {"commit", "run"}
    BY <1>2 DEF Commit, RunStart, At, Live, Inv, TypeOK
  <2>2. call'[c] # call[c]
    <3>1. CASE call' = [call EXCEPT ![c] = None]
      BY <2>1, <3>1 DEF Inv, TypeOK, Live
    <3>2. CASE call' = [call EXCEPT ![c].pc = "load", ![c].inst = Len(inst) + 1]
      <4>1. call'[c] = [call[c] EXCEPT !.pc = "load", !.inst = Len(inst) + 1]
        BY <2>1, <3>2 DEF Inv, TypeOK, Live
      <4>2. call'[c].pc = "load"
        BY <2>1, <4>1 DEF Request
      <4> QED
        BY <2>1, <4>2
    <3> QED
      BY <1>2, <3>1, <3>2 DEF Commit, RunStart, Done
  <2> QED
    BY <1>2, <2>1, <2>2 DEF Writing, Live, Inv, Commit, RunStart
<1>3. \A c \in Calls : Updated(c).script # node.script => "script" \in call[c].columns
  BY <1>1 DEF Updated, Node
<1>4. \A c \in Calls : Updated(c).holder # node.holder => "holder" \in call[c].columns
  BY <1>1 DEF Updated, Node
<1>5. CASE \E c \in Calls : Commit(c) \/ RunStart(c)
  BY <1>2, <1>3, <1>4, <1>5
<1>6. CASE Age \/ \E c \in Calls : Delete(c)
  <2>1. node'.script = node.script /\ node'.holder = node.holder
    BY <1>1, <1>6 DEF Age, Delete, Node
  <2> QED
    BY <2>1
<1>7. CASE UNCHANGED node
  BY <1>7
<1>8. ASSUME NEW c \in Calls, NEW u \in Users, Begin(c, u) PROVE UNCHANGED node
  BY <1>8 DEF Begin, Save, Rollback, Acquire, Release, Publish, Unlock, DeleteBegin, RunBegin, Load
<1>9. ASSUME NEW c \in Calls, Execute(c), ~ RunStart(c) PROVE UNCHANGED node
  BY <1>9 DEF Execute, RunLoad, Statement, StatementFails, RunEnd
<1>10. ASSUME NEW c \in Calls, Die(c) PROVE UNCHANGED node
  BY <1>10 DEF Die
<1> QED
  BY <1>5, <1>6, <1>7, <1>8, <1>9, <1>10 DEF Next, vars

\* The script of a published node changes only by a test run with text, or by an
\* edit that had loaded the row before it was locked, whatever overlaps.
THEOREM LockedStaysFrozen == Spec => LockedIsFrozen
<1>1. Inv /\ [Next]_vars =>
        [node.locked /\ node'.locked /\ node'.script # node.script
           => \E c \in Calls : Writing(c) /\ (call[c].op = "run" \/ ~ call[c].seen.locked)]_vars
  BY WhoWrites DEF Live, Entitled
<1> QED
  BY <1>1, Invariance, PTL DEF Spec, LockedIsFrozen

\* Whoever holds a fresh edit lock loses it, or has the script changed, only by
\* himself, a test run, force, unlocking, an administrator's release, or a request
\* that had loaded the row before.
THEOREM EditLockIsRespected == Spec => LockIsRespected
<1>1. ASSUME Inv, [Next]_vars, NEW u \in Users, node.holder = u, node.at = "fresh",
             node'.holder # u \/ node'.script # node.script
      PROVE  \E c \in Calls :
               /\ Writing(c)
               /\ \/ call[c].user = u
                  \/ call[c].op \in {"force", "unlock", "run"}
                  \/ call[c].op = "release" /\ call[c].user \in Admins
                  \/ call[c].seen.holder # u \/ call[c].seen.at # "fresh"
  <2>1. PICK c \in Live :
          Writing(c) /\ Entitled(call[c]) /\ call[c].columns \cap {"script", "holder"} # {}
    BY <1>1, WhoWrites
  <2>2. u # None
    BY ConstantsAssumption
  <2>3. Free(call[c].seen, call[c].user) =>
          call[c].user = u \/ call[c].seen.holder # u \/ call[c].seen.at # "fresh"
    BY <2>2 DEF Free, Expired
  <2> QED
    BY <2>1, <2>3 DEF Entitled, Live
<1>2. Inv /\ [Next]_vars =>
        [\A u \in Users :
           /\ node.holder = u /\ node.at = "fresh"
           /\ node'.holder # u \/ node'.script # node.script
           => \E c \in Calls :
                /\ Writing(c)
                /\ \/ call[c].user = u
                   \/ call[c].op \in {"force", "unlock", "run"}
                   \/ call[c].op = "release" /\ call[c].user \in Admins
                   \/ call[c].seen.holder # u \/ call[c].seen.at # "fresh"]_vars
  BY <1>1
<1> QED
  BY <1>2, Invariance, PTL DEF Spec, LockIsRespected

=============================================================================
