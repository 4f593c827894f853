---------------------------- MODULE Access_proofs ----------------------------
(***************************************************************************)
(* Proofs about Access, for any accounts, custom roles, permissions,       *)
(* workspaces and requests under way, with starts of the server.           *)
(***************************************************************************)
EXTENDS Access, FiniteSetTheorems, TLAPS

-----------------------------------------------------------------------------
(* Types *)

CodeSets == SUBSET UNION Grants
Callers == [accounts : BOOLEAN, spaces : SUBSET Workspaces]

IsMember(m) ==
  /\ m = [w |-> m.w, u |-> m.u, n |-> m.n, role |-> m.role]
  /\ m.w \in Workspaces /\ m.u \in Users /\ m.role \in SpaceRoles

\* A request with the rows that it has loaded.
IsRequest(q) ==
  \/ q = Idle
  \/ q \in [pc : {"user", "look", "join", "role"}, u : Users, role : Roles]
  \/ q \in [pc : {"flags"}, u : Users, own : BOOLEAN, old : Account, new : Account]
  \/ q \in [pc : {"deluser"}, u : Users]
  \/ q \in [pc : {"newrole"}, role : Custom, codes : CodeSets]
  \/ q \in [pc : {"codes"}, role : Custom, old : CodeSets, codes : CodeSets]
  \/ q \in [pc : {"delrole"}, role : Custom]
  \/ q \in [pc : {"workspace", "found"}, w : Workspaces, u : Users]
  \/ /\ q.pc \in {"owner", "add", "remove"}
     /\ q.w \in Workspaces /\ q.u \in Users
     /\ q.row # None => q.row.w = q.w /\ q.row.u = q.u
     /\ q.pc = "add" => q.role \in SpaceRoles

TablesOk ==
  /\ user \in [Users -> {None, Gone} \cup Account]
  /\ custom \in [Custom -> {None, Gone} \cup CodeSets]
  /\ owner \in [Workspaces -> {None} \cup Users]
  /\ owner[Default] # None
  /\ \A m \in members : IsMember(m)

CallsOk ==
  /\ DOMAIN call = Calls
  /\ \A c \in Calls : IsRequest(call[c])
  /\ caller \in [Calls -> Callers]

\* A role that is being edited has been created.
EditsOk == \A c \in Calls : At(c, "codes") => custom[call[c].role] # None

Types == TablesOk /\ CallsOk /\ EditsOk

\* An account that exists is one.
LEMMA ExistingIsAccount ==
  ASSUME Types, NEW u \in Users, Exists(u) PROVE user[u] \in Account
BY DEF Types, TablesOk, Exists

\* What is an account exists.
LEMMA AccountExists ==
  ASSUME NEW u, user[u] \in Account PROVE Exists(u)
BY ConstantsAssumption DEF Exists

-----------------------------------------------------------------------------
(* How requests move *)

\* A request is taken up: nothing but the request changes.
LEMMA BeginMoves ==
  ASSUME Types, NEW c \in Calls, NEW a, NEW loaded, Begin(c, a, loaded)
  PROVE  /\ DOMAIN call' = Calls /\ call'[c] = loaded
         /\ \A d \in Calls \ {c} : call'[d] = call[d] /\ caller'[d] = caller[d]
         /\ caller' \in [Calls -> Callers]
         /\ caller'[c].accounts = (Permissions(a) \cap {"system:user:write", "system:role:write"} # {})
         /\ caller'[c].spaces = {w \in Workspaces : ManagesMembers(a, w)}
         /\ UNCHANGED <<user, custom, owner, members, dropped>>
<1>1. PICK r : r = [accounts |-> Permissions(a) \cap {"system:user:write", "system:role:write"} # {},
                    spaces |-> {w \in Workspaces : ManagesMembers(a, w)}]
  OBVIOUS
<1>2. /\ r.accounts = (Permissions(a) \cap {"system:user:write", "system:role:write"} # {})
      /\ r.spaces = {w \in Workspaces : ManagesMembers(a, w)}
      /\ r \in Callers
  BY <1>1 DEF Callers
<1>3. /\ call' = [call EXCEPT ![c] = loaded] /\ caller' = [caller EXCEPT ![c] = r]
      /\ UNCHANGED <<user, custom, owner, members, dropped>>
  BY <1>1 DEF Begin, Rows
<1> QED
  BY <1>2, <1>3 DEF Types, CallsOk

\* A request is over.
LEMMA EndMoves ==
  ASSUME Types, NEW c \in Calls, End(c)
  PROVE  /\ DOMAIN call' = Calls /\ call'[c] = Idle
         /\ \A d \in Calls \ {c} : call'[d] = call[d] /\ caller'[d] = caller[d]
         /\ caller' \in [Calls -> Callers]
BY DEF End, Types, CallsOk, Nobody, Callers

\* A request goes on to its next commit.
LEMMA GotoMoves ==
  ASSUME Types, NEW c \in Calls, NEW l, Goto(c, l)
  PROVE  /\ DOMAIN call' = Calls /\ call'[c] = [call[c] EXCEPT !.pc = l]
         /\ \A d \in Calls \ {c} : call'[d] = call[d]
         /\ UNCHANGED caller
BY DEF Goto, Types, CallsOk

\* The requests that have a commit after the next.
GoesOn(c) ==
  \/ At(c, "user") /\ Goto(c, "look")
  \/ At(c, "look") /\ Goto(c, "join")
  \/ At(c, "workspace") /\ Goto(c, "found")

\* A commit ends its request or moves it on.
LEMMA CommitMoves ==
  ASSUME NEW c \in Calls, Commit(c)
  PROVE  (End(c) \/ GoesOn(c)) /\ call[c].pc # "idle"
BY DEF Commit, CreateUser, Look, Join, SetRole, SetFlags, DeleteUser, CreateRole, UpdateRole,
       DeleteRole, CreateWorkspace, Found, Transfer, Add, Remove, Fail, GoesOn, At

\* A request that moves on keeps what it has loaded.
LEMMA GoesOnMoves ==
  ASSUME Types, NEW c \in Calls, GoesOn(c)
  PROVE  /\ IsRequest(call'[c])
         /\ call'[c].pc \in {"look", "join", "found"} /\ call'[c].pc # call[c].pc
         /\ call'[c].u = call[c].u
         /\ call'[c].pc = "found" => call[c].pc = "workspace" /\ call'[c].w = call[c].w
         /\ call'[c].pc = "join" => call[c].pc = "look"
         /\ call'[c].pc = "look" => call[c].pc = "user"
<1>1. IsRequest(call[c])
  BY DEF Types, CallsOk
<1>2. CASE call[c].pc \in {"user", "look"}
  <2>1. call[c] \in [pc : {"user", "look", "join", "role"}, u : Users, role : Roles]
    BY <1>1, <1>2 DEF IsRequest, Idle
  <2>2. PICK l \in {"look", "join"} : /\ call'[c] = [call[c] EXCEPT !.pc = l]
                                      /\ l = "look" <=> call[c].pc = "user"
    BY <1>2, GotoMoves DEF GoesOn, At
  <2>3. /\ call'[c] \in [pc : {"user", "look", "join", "role"}, u : Users, role : Roles]
        /\ call'[c].pc = l /\ call'[c].u = call[c].u
    BY <2>1, <2>2
  <2> QED
    BY <1>2, <2>2, <2>3 DEF IsRequest
<1>3. CASE call[c].pc = "workspace"
  <2>1. call[c] \in [pc : {"workspace", "found"}, w : Workspaces, u : Users]
    BY <1>1, <1>3 DEF IsRequest, Idle
  <2>2. call'[c] = [call[c] EXCEPT !.pc = "found"]
    BY <1>3, GotoMoves DEF GoesOn, At
  <2>3. /\ call'[c] \in [pc : {"workspace", "found"}, w : Workspaces, u : Users]
        /\ call'[c].pc = "found" /\ call'[c].u = call[c].u /\ call'[c].w = call[c].w
    BY <2>1, <2>2
  <2> QED
    BY <1>3, <2>3 DEF IsRequest
<1> QED
  BY <1>2, <1>3 DEF GoesOn, At

\* An account as an administrator fills the form in.
WithFlags(acc, f, x) == [acc EXCEPT !.flag = f, !.active = x]

\* What the form may give: a flag that is yes, no or as it was, and either state.
LEMMA FlaggedAre ==
  ASSUME NEW u, Exists(u)
  PROVE  Flagged(u) = {WithFlags(user[u], f, x) : f \in {"yes", "no", user[u].flag}, x \in BOOLEAN}
BY DEF Flagged, WithFlags

\* Somebody makes a request.
Asks(c, a) == Accounts(c, a) \/ RoleEdits(c, a) \/ Spaces(c, a)

\* What a request has loaded is of its type.
LEMMA AskedIsRequest ==
  ASSUME Types, NEW c \in Calls, NEW a \in Users, Asks(c, a)
  PROVE  \E q : IsRequest(q) /\ q # Idle /\ Begin(c, a, q)
<1>1. CASE Accounts(c, a)
  <2>1. PICK u \in Users :
          \/ \E r \in Offered \cap Roles : CheckCreateUser(c, a, u, r) \/ CheckSetRole(c, a, u, r)
          \/ \E new \in {x \in Flagged(u) : x # user[u]} : CheckFlags(c, a, u, new)
          \/ CheckDeleteUser(c, a, u)
    BY <1>1 DEF Accounts
  <2>2. ASSUME NEW r \in Offered \cap Roles, CheckCreateUser(c, a, u, r) \/ CheckSetRole(c, a, u, r)
        PROVE  \E q : IsRequest(q) /\ q # Idle /\ Begin(c, a, q)
    <3>1. PICK pc \in {"user", "role"} : Begin(c, a, [pc |-> pc, u |-> u, role |-> r])
      BY <2>2 DEF CheckCreateUser, CheckSetRole
    <3>2. [pc |-> pc, u |-> u, role |-> r] \in
             [pc : {"user", "look", "join", "role"}, u : Users, role : Roles]
      OBVIOUS
    <3>3. [pc |-> pc, u |-> u, role |-> r] # Idle
      BY DEF Idle
    <3> QED
      BY <3>1, <3>2, <3>3 DEF IsRequest
  <2>3. ASSUME NEW new \in Flagged(u), CheckFlags(c, a, u, new)
        PROVE  \E q : IsRequest(q) /\ q # Idle /\ Begin(c, a, q)
    <3>1. user[u] \in Account
      BY <2>3, ExistingIsAccount DEF CheckFlags
    <3>2. new \in Account
      <4>1. Exists(u)
        BY <2>3 DEF CheckFlags
      <4>2. PICK f \in {"yes", "no", user[u].flag}, x \in BOOLEAN :
              new = WithFlags(user[u], f, x)
        BY <2>3, <4>1, FlaggedAre
      <4>3. PICK acc \in Account : acc = user[u]
        BY <3>1
      <4> QED
        BY <4>2, <4>3 DEF WithFlags, Account, Flags
    <3>3. PICK own \in BOOLEAN : own = (u = a)
      OBVIOUS
    <3>4. PICK q : q = [pc |-> "flags", u |-> u, own |-> own, old |-> user[u], new |-> new]
      OBVIOUS
    <3>5. q \in [pc : {"flags"}, u : Users, own : BOOLEAN, old : Account, new : Account]
      BY <3>1, <3>2, <3>4
    <3>6. Begin(c, a, q) /\ q # Idle
      BY <2>3, <3>3, <3>4 DEF CheckFlags, Idle
    <3> QED
      BY <3>5, <3>6 DEF IsRequest
  <2>4. CASE CheckDeleteUser(c, a, u)
    <3>1. Begin(c, a, [pc |-> "deluser", u |-> u])
      BY <2>4 DEF CheckDeleteUser
    <3> QED
      BY <3>1 DEF IsRequest, Idle
  <2> QED
    BY <2>1, <2>2, <2>3, <2>4
<1>2. CASE RoleEdits(c, a)
  <2>1. PICK r \in Custom :
          \/ \E codes \in Grants : CheckCreateRole(c, a, r, codes) \/ CheckUpdateRole(c, a, r, codes)
          \/ CheckDeleteRole(c, a, r)
    BY <1>2 DEF RoleEdits
  <2>2. ASSUME NEW codes \in Grants, CheckCreateRole(c, a, r, codes)
        PROVE  \E q : IsRequest(q) /\ q # Idle /\ Begin(c, a, q)
    <3>1. PICK q : q = [pc |-> "newrole", role |-> r, codes |-> codes]
      OBVIOUS
    <3>2. q \in [pc : {"newrole"}, role : Custom, codes : CodeSets] /\ q # Idle
      BY <3>1 DEF CodeSets, Idle
    <3> QED
      BY <2>2, <3>1, <3>2 DEF CheckCreateRole, IsRequest
  <2>3. ASSUME NEW codes \in Grants, CheckUpdateRole(c, a, r, codes)
        PROVE  \E q : IsRequest(q) /\ q # Idle /\ Begin(c, a, q)
    <3>1. PICK q : q = [pc |-> "codes", role |-> r, old |-> custom[r], codes |-> codes]
      OBVIOUS
    <3>2. custom[r] \in CodeSets
      BY <2>3 DEF CheckUpdateRole, Types, TablesOk
    <3>3. q \in [pc : {"codes"}, role : Custom, old : CodeSets, codes : CodeSets] /\ q # Idle
      BY <3>1, <3>2 DEF CodeSets, Idle
    <3> QED
      BY <2>3, <3>1, <3>3 DEF CheckUpdateRole, IsRequest
  <2>4. CASE CheckDeleteRole(c, a, r)
    <3>1. Begin(c, a, [pc |-> "delrole", role |-> r])
      BY <2>4 DEF CheckDeleteRole
    <3> QED
      BY <3>1 DEF IsRequest, Idle
  <2> QED
    BY <2>1, <2>2, <2>3, <2>4
<1>3. CASE Spaces(c, a)
  <2>1. PICK w \in Workspaces :
          \/ CheckCreateWorkspace(c, a, w)
          \/ \E u \in Users : \/ CheckTransfer(c, a, w, u) \/ CheckRemove(c, a, w, u)
                              \/ \E role \in Offered \cap SpaceRoles : CheckAdd(c, a, w, u, role)
    BY <1>3 DEF Spaces
  <2>2. CASE CheckCreateWorkspace(c, a, w)
    <3>1. PICK q : q = [pc |-> "workspace", w |-> w, u |-> a]
      OBVIOUS
    <3>2. q \in [pc : {"workspace", "found"}, w : Workspaces, u : Users] /\ q # Idle
      BY <2>2, <3>1 DEF Idle
    <3> QED
      BY <2>2, <3>1, <3>2 DEF CheckCreateWorkspace, IsRequest
  <2>3. ASSUME NEW u \in Users, NEW row \in RowsOf(w, u) \cup {None}, NEW pc \in {"owner", "remove"},
               Begin(c, a, [pc |-> pc, w |-> w, u |-> u, row |-> row])
        PROVE  \E q : IsRequest(q) /\ q # Idle /\ Begin(c, a, q)
    <3>1. PICK q : q = [pc |-> pc, w |-> w, u |-> u, row |-> row]
      OBVIOUS
    <3>2. q.pc = pc /\ q.w = w /\ q.u = u /\ q.row = row /\ q # Idle
      BY <3>1 DEF Idle
    <3> QED
      BY <2>3, <3>1, <3>2 DEF IsRequest, RowsOf
  <2>4. ASSUME NEW u \in Users, NEW row \in RowsOf(w, u) \cup {None}, NEW role \in SpaceRoles,
               Begin(c, a, [pc |-> "add", w |-> w, u |-> u, role |-> role, row |-> row])
        PROVE  \E q : IsRequest(q) /\ q # Idle /\ Begin(c, a, q)
    <3>1. PICK q : q = [pc |-> "add", w |-> w, u |-> u, role |-> role, row |-> row]
      OBVIOUS
    <3>2. q.pc = "add" /\ q.w = w /\ q.u = u /\ q.row = row /\ q.role = role /\ q # Idle
      BY <3>1 DEF Idle
    <3> QED
      BY <2>4, <3>1, <3>2 DEF IsRequest, RowsOf
  <2>5. ASSUME NEW u \in Users, CheckTransfer(c, a, w, u)
        PROVE  \E q : IsRequest(q) /\ q # Idle /\ Begin(c, a, q)
    BY <2>3, <2>5 DEF CheckTransfer, RowFound
  <2>6. ASSUME NEW u \in Users, CheckRemove(c, a, w, u)
        PROVE  \E q : IsRequest(q) /\ q # Idle /\ Begin(c, a, q)
    BY <2>3, <2>6 DEF CheckRemove
  <2>7. ASSUME NEW u \in Users, NEW role \in Offered \cap SpaceRoles, CheckAdd(c, a, w, u, role)
        PROVE  \E q : IsRequest(q) /\ q # Idle /\ Begin(c, a, q)
    BY <2>4, <2>7 DEF CheckAdd, RowFound
  <2> QED
    BY <2>1, <2>2, <2>5, <2>6, <2>7
<1> QED
  BY <1>1, <1>2, <1>3 DEF Asks

\* The steps of the system.
LEMMA Steps ==
  ASSUME Next
  PROVE  \/ \E c \in Calls, a \in Present : Asks(c, a)
         \/ \E c \in Calls : Commit(c)
         \/ \E reset \in BOOLEAN : Restart(reset)
BY DEF Next, Asks

\* Requests stay of their types.
LEMMA CallsStep ==
  ASSUME Types, Next PROVE CallsOk'
<1>0. \A c \in Calls : IsRequest(call[c])
  BY DEF Types, CallsOk
<1>1. ASSUME NEW c \in Calls, NEW a \in Present, Asks(c, a) PROVE CallsOk'
  <2>1. PICK q : IsRequest(q) /\ q # Idle /\ Begin(c, a, q)
    BY <1>1, AskedIsRequest DEF Present
  <2> QED
    BY <1>0, <2>1, BeginMoves DEF CallsOk
<1>2. ASSUME NEW c \in Calls, Commit(c) PROVE CallsOk'
  <2>1. CASE End(c)
    BY <1>0, <2>1, EndMoves DEF CallsOk, IsRequest
  <2>2. CASE GoesOn(c)
    <3>1. PICK l : Goto(c, l)
      BY <2>2 DEF GoesOn
    <3> QED
      <4>1. /\ DOMAIN call' = Calls /\ \A d \in Calls \ {c} : call'[d] = call[d]
            /\ caller' \in [Calls -> Callers] /\ IsRequest(call'[c])
        BY <2>2, <3>1, GotoMoves, GoesOnMoves DEF CallsOk, Types
      <4>2. \A d \in Calls : IsRequest(call'[d])
        BY <1>0, <4>1
      <4> QED
        BY <4>1, <4>2 DEF CallsOk, IsRequest
  <2> QED
    BY <1>2, <2>1, <2>2, CommitMoves
<1>3. ASSUME NEW reset \in BOOLEAN, Restart(reset) PROVE CallsOk'
  BY <1>3 DEF Restart, CallsOk, IsRequest, Nobody, Callers
<1> QED
  BY <1>1, <1>2, <1>3, Steps

-----------------------------------------------------------------------------
(* How the tables change *)

\* A new row of a member.
LEMMA RowIsMember ==
  ASSUME NEW w \in Workspaces, NEW u \in Users, NEW role \in SpaceRoles
  PROVE  /\ IsMember(Row(w, u, role))
         /\ Row(w, u, role).w = w /\ Row(w, u, role).u = u /\ Row(w, u, role).role = role
BY DEF Row, IsMember

\* What is written of a member: the rows of others stay, and his have the role
\* that they had or the new one.
LEMMA WrittenRows ==
  ASSUME \A m \in members : IsMember(m),
         NEW w \in Workspaces, NEW u \in Users, NEW role \in SpaceRoles, NEW row,
         row # None => row.w = w /\ row.u = u
  PROVE  \A m \in Written(w, u, row, role) :
           /\ IsMember(m)
           /\ \/ m \in members
              \/ m.w = w /\ m.u = u /\ m.role = role
<1> SUFFICES ASSUME NEW m \in Written(w, u, row, role)
             PROVE  IsMember(m) /\ (m \in members \/ (m.w = w /\ m.u = u /\ m.role = role))
  OBVIOUS
<1>1. CASE row = None
  BY <1>1, RowIsMember DEF Written
<1>2. CASE row # None
  <2>1. CASE m \in members
    BY <2>1
  <2>2. CASE \E o \in members : Same(o, row) /\ m = [o EXCEPT !.role = role]
    <3>1. PICK o \in members : Same(o, row) /\ m = [o EXCEPT !.role = role]
      BY <2>2
    <3>2. m = [w |-> o.w, u |-> o.u, n |-> o.n, role |-> role]
      <4>1. o = [w |-> o.w, u |-> o.u, n |-> o.n, role |-> o.role]
        BY DEF IsMember
      <4> QED
        BY <3>1, <4>1
    <3> QED
      BY <1>2, <3>1, <3>2 DEF IsMember, Same
  <2> QED
    BY <1>2, <2>1, <2>2 DEF Written
<1> QED
  BY <1>1, <1>2

\* An account whose columns are updated is an account.
LEMMA MergeIsAccount ==
  ASSUME NEW row \in Account, NEW old \in Account, NEW new \in Account
  PROVE  /\ Merge(row, old, new) \in Account
         /\ \A f \in {"active", "flag", "role"} :
              Merge(row, old, new)[f] = IF new[f] # old[f] THEN new[f] ELSE row[f]
<1>1. DOMAIN row = {"active", "flag", "role"}
  BY DEF Account
<1>2. Merge(row, old, new) = [f \in {"active", "flag", "role"} |->
                                IF new[f] # old[f] THEN new[f] ELSE row[f]]
  BY <1>1 DEF Merge
<1> QED
  BY <1>2 DEF Account

\* What a request holds, by where it is.
LEMMA Shapes ==
  ASSUME Types, NEW c \in Calls
  PROVE  /\ call[c].pc \in {"user", "look", "join", "role"} =>
              call[c] \in [pc : {"user", "look", "join", "role"}, u : Users, role : Roles]
         /\ call[c].pc = "flags" =>
              call[c] \in [pc : {"flags"}, u : Users, own : BOOLEAN, old : Account, new : Account]
         /\ call[c].pc = "deluser" => call[c].u \in Users
         /\ call[c].pc = "newrole" => call[c].role \in Custom /\ call[c].codes \in CodeSets
         /\ call[c].pc = "codes" => /\ call[c].role \in Custom /\ call[c].old \in CodeSets
                                    /\ call[c].codes \in CodeSets
         /\ call[c].pc = "delrole" => call[c].role \in Custom
         /\ call[c].pc \in {"workspace", "found"} => call[c].w \in Workspaces /\ call[c].u \in Users
         /\ call[c].pc \in {"owner", "add", "remove"} =>
              /\ call[c].w \in Workspaces /\ call[c].u \in Users
              /\ call[c].row # None => call[c].row.w = call[c].w /\ call[c].row.u = call[c].u
         /\ call[c].pc = "add" => call[c].role \in SpaceRoles
<1>1. PICK q : q = call[c]
  OBVIOUS
<1>2. IsRequest(q)
  BY <1>1 DEF Types, CallsOk
<1> QED
  BY <1>1, <1>2 DEF IsRequest, Idle

\* The roles that the code names itself.
LEMMA NamedRoles == {"super_admin", "platform_admin", "developer"} \subseteq Roles
BY DEF Roles, System, Seeded

-----------------------------------------------------------------------------
(* What the commits do, one lemma for each *)

\* A commit that changes accounts only: that of u becomes new.
SetsUser(u, new) ==
  /\ u \in Users /\ user' = [user EXCEPT ![u] = new] /\ UNCHANGED <<custom, owner, members>>

NoChange == UNCHANGED <<user, custom, owner, members>>

\* An account is created, without the flag and with a role that exists, or nothing changes.
LEMMA CreateUserDoes ==
  ASSUME Types, NEW c \in Calls, CreateUser(c)
  PROVE  /\ At(c, "user")
         /\ \/ NoChange /\ End(c)
            \/ \E new \in Account : /\ SetsUser(call[c].u, new) /\ user[call[c].u] = None
                                    /\ new.flag = "no" /\ new.role \in Roles /\ RoleExists(new.role)
                                    /\ GoesOn(c)
<1>1. At(c, "user")
  BY DEF CreateUser
<1>2. call[c].u \in Users /\ call[c].role \in Roles
  BY <1>1, Shapes DEF At
<1>3. CASE user[call[c].u] = None /\ RoleExists(call[c].role)
  <2>1. PICK new : new = [active |-> TRUE, flag |-> "no", role |-> call[c].role]
    OBVIOUS
  <2>2. new \in Account /\ new.flag = "no" /\ new.role = call[c].role
    BY <1>2, <2>1 DEF Account, Flags
  <2>3. SetsUser(call[c].u, new) /\ GoesOn(c)
    BY <1>1, <1>2, <1>3, <2>1 DEF CreateUser, SetsUser, GoesOn
  <2> QED
    BY <1>1, <1>2, <1>3, <2>2, <2>3
<1>4. CASE ~ (user[call[c].u] = None /\ RoleExists(call[c].role))
  BY <1>1, <1>4 DEF CreateUser, Fail, NoChange, Rows
<1> QED
  BY <1>3, <1>4

\* An account gets a role that exists, and keeps its flag.
LEMMA SetRoleDoes ==
  ASSUME Types, NEW c \in Calls, SetRole(c)
  PROVE  /\ At(c, "role")
         /\ \/ NoChange
            \/ \E new \in Account :
                 /\ SetsUser(call[c].u, new) /\ user[call[c].u] \in Account
                 /\ new.flag = user[call[c].u].flag /\ new.active = user[call[c].u].active
                 /\ new.role \in Roles /\ RoleExists(new.role)
<1>1. At(c, "role")
  BY DEF SetRole
<1>2. PICK u \in Users, role \in Roles : u = call[c].u /\ role = call[c].role
  BY <1>1, Shapes DEF At
<1>3. CASE Exists(u) /\ RoleExists(role)
  <2>1. PICK acc \in Account : acc = user[u]
    BY <1>3, ExistingIsAccount
  <2>2. PICK new : new = [acc EXCEPT !.role = role]
    OBVIOUS
  <2>3. new \in Account /\ new.flag = acc.flag /\ new.active = acc.active /\ new.role = role
    BY <2>2 DEF Account
  <2>4. SetsUser(u, new)
    BY <1>1, <1>2, <1>3, <2>1, <2>2 DEF SetRole, SetsUser
  <2> QED
    BY <1>1, <1>2, <1>3, <2>1, <2>3, <2>4
<1>4. CASE ~ (Exists(u) /\ RoleExists(role))
  BY <1>1, <1>2, <1>4 DEF SetRole, Fail, NoChange, Rows
<1> QED
  BY <1>3, <1>4

\* The columns that the form changed are updated.
LEMMA SetFlagsDoes ==
  ASSUME Types, NEW c \in Calls, SetFlags(c)
  PROVE  /\ At(c, "flags")
         /\ \/ NoChange
            \/ /\ SetsUser(call[c].u, Merge(user[call[c].u], call[c].old, call[c].new))
               /\ user[call[c].u] \in Account /\ call[c].old \in Account /\ call[c].new \in Account
               /\ Merge(user[call[c].u], call[c].old, call[c].new) \in Account
<1>1. At(c, "flags")
  BY DEF SetFlags
<1>2. call[c].u \in Users /\ call[c].old \in Account /\ call[c].new \in Account
  BY <1>1, Shapes DEF At
<1>3. CASE Exists(call[c].u)
  <2>1. user[call[c].u] \in Account
    BY <1>2, <1>3, ExistingIsAccount
  <2>2. SetsUser(call[c].u, Merge(user[call[c].u], call[c].old, call[c].new))
    BY <1>1, <1>2, <1>3 DEF SetFlags, SetsUser
  <2> QED
    BY <1>1, <1>2, <2>1, <2>2, MergeIsAccount
<1>4. CASE ~ Exists(call[c].u)
  BY <1>1, <1>4 DEF SetFlags, Fail, NoChange, Rows
<1> QED
  BY <1>3, <1>4

\* An account is deleted if it is nobody's member and no owner.
LEMMA DeleteUserDoes ==
  ASSUME Types, NEW c \in Calls, DeleteUser(c)
  PROVE  /\ At(c, "deluser")
         /\ \/ NoChange
            \/ /\ SetsUser(call[c].u, Gone)
               /\ \A w \in Workspaces : owner[w] # call[c].u /\ RowsOf(w, call[c].u) = {}
BY Shapes DEF DeleteUser, At, Fail, NoChange, Rows, SetsUser

\* A commit that changes a custom role only.
SetsRole(r, codes) ==
  /\ r \in Custom /\ custom' = [custom EXCEPT ![r] = codes] /\ UNCHANGED <<user, owner, members>>

\* A custom role is created, with codes that are a set.
LEMMA CreateRoleDoes ==
  ASSUME Types, NEW c \in Calls, CreateRole(c)
  PROVE  /\ At(c, "newrole")
         /\ NoChange \/ \E codes \in CodeSets : SetsRole(call[c].role, codes)
BY Shapes DEF CreateRole, At, Fail, NoChange, Rows, SetsRole

\* The codes of a custom role are replaced by a set of codes.
LEMMA UpdateRoleDoes ==
  ASSUME Types, NEW c \in Calls, UpdateRole(c)
  PROVE  /\ At(c, "codes")
         /\ NoChange \/ \E codes \in CodeSets : SetsRole(call[c].role, codes)
<1>1. At(c, "codes")
  BY DEF UpdateRole
<1>2. PICK q : q = call[c]
  OBVIOUS
<1>3. /\ q.role \in Custom /\ q.old \in CodeSets /\ q.codes \in CodeSets
      /\ custom[q.role] # None /\ custom[q.role] \in {None, Gone} \cup CodeSets
  BY <1>1, <1>2, Shapes DEF At, Types, EditsOk, TablesOk
<1>4. CASE Fail(c)
  BY <1>1, <1>4 DEF Fail, NoChange, Rows
<1>5. CASE ~ Fail(c)
  <2>1. PICK now : now = IF custom[q.role] = Gone THEN {} ELSE custom[q.role]
    OBVIOUS
  <2>2. PICK codes : codes = (now \ (q.old \ q.codes)) \cup (q.codes \ q.old)
    OBVIOUS
  <2>3. now \in CodeSets
    BY <1>3, <2>1 DEF CodeSets
  <2>4. codes \in CodeSets
    BY <1>3, <2>2, <2>3 DEF CodeSets
  <2>5. SetsRole(q.role, codes)
    BY <1>2, <1>3, <1>5, <2>1, <2>2 DEF UpdateRole, SetsRole
  <2> QED
    BY <1>1, <1>2, <2>4, <2>5
<1> QED
  BY <1>4, <1>5

\* An account that loses the role r.
Without(acc, r) == IF acc.role = r THEN [acc EXCEPT !.role = None] ELSE acc

\* A custom role is deleted, and taken from whoever has it.
LEMMA DeleteRoleDoes ==
  ASSUME Types, NEW c \in Calls, DeleteRole(c)
  PROVE  /\ At(c, "delrole") /\ call[c].role \in Custom
         /\ custom' = [custom EXCEPT ![call[c].role] = Gone] /\ UNCHANGED <<owner, members>>
         /\ user' = [u \in Users |-> IF Exists(u) THEN Without(user[u], call[c].role) ELSE user[u]]
<1>1. At(c, "delrole")
  BY DEF DeleteRole
<1>2. call[c].role \in Custom
  BY <1>1, Shapes DEF At
<1> QED
  BY <1>1, <1>2 DEF DeleteRole, Without

\* A workspace that was not there gets an owner who exists.
LEMMA CreateWorkspaceDoes ==
  ASSUME Types, NEW c \in Calls, CreateWorkspace(c)
  PROVE  /\ At(c, "workspace") /\ call[c].w \in Workspaces /\ call[c].u \in Users
         /\ \/ NoChange /\ End(c)
            \/ /\ owner[call[c].w] = None /\ Exists(call[c].u)
               /\ owner' = [owner EXCEPT ![call[c].w] = call[c].u]
               /\ UNCHANGED <<user, custom, members>> /\ GoesOn(c)
BY Shapes DEF CreateWorkspace, At, Fail, NoChange, Rows, GoesOn

\* A commit that writes the row of a member.
Writes(q, role) ==
  /\ Writable(q.u, q.row, role)
  /\ members' = Written(q.w, q.u, q.row, role)
  /\ UNCHANGED <<user, custom>>

\* A workspace gets an owner, and he a row.
LEMMA TransferDoes ==
  ASSUME Types, NEW c \in Calls, Transfer(c)
  PROVE  /\ At(c, "owner") /\ call[c].w \in Workspaces /\ call[c].u \in Users
         /\ \/ NoChange
            \/ /\ Exists(call[c].u) /\ Writes(call[c], "admin")
               /\ owner' = [owner EXCEPT ![call[c].w] = call[c].u]
BY Shapes DEF Transfer, At, Fail, NoChange, Rows, Writes

\* A member gets a row, or another role in his.
LEMMA AddDoes ==
  ASSUME Types, NEW c \in Calls, Add(c)
  PROVE  /\ At(c, "add") /\ call[c].w \in Workspaces /\ call[c].u \in Users
         /\ call[c].role \in SpaceRoles
         /\ NoChange \/ (Writes(call[c], call[c].role) /\ UNCHANGED owner)
BY Shapes DEF Add, At, Fail, NoChange, Rows, Writes

\* A row may be added, or rows taken away.
LEMMA MembersDo ==
  ASSUME Types, NEW c \in Calls, Look(c) \/ Join(c) \/ Found(c) \/ Remove(c)
  PROVE  /\ UNCHANGED <<user, custom, owner>>
         /\ Look(c) => At(c, "look") /\ UNCHANGED members
         /\ Join(c) => /\ At(c, "join") /\ call[c].u \in Users
                       /\ members' = IF Exists(call[c].u)
                                       THEN members \cup {Row(Default, call[c].u, "developer")}
                                       ELSE members
         /\ Found(c) => /\ At(c, "found") /\ call[c].w \in Workspaces /\ call[c].u \in Users
                        /\ members' = members \cup {Row(call[c].w, call[c].u, "admin")}
         /\ Remove(c) => /\ At(c, "remove")
                         /\ members' = {m \in members : ~ Same(m, call[c].row)}
BY Shapes DEF Look, Join, Found, Remove, At, Rows

\* What a start makes of an account.
LEMMA AssignedIsAccount ==
  ASSUME NEW u, user[u] \in Account
  PROVE  /\ Assigned(u) \in Account /\ Assigned(u).active = user[u].active
         /\ Assigned(u).role \in Roles
         /\ user[u].role # None => Assigned(u) = user[u]
         /\ Assigned(u).flag = user[u].flag \/ Assigned(u).flag = "yes"
<1>1. PICK acc \in Account : acc = user[u]
  OBVIOUS
<1>2. CASE acc.role # None
  BY <1>1, <1>2 DEF Assigned, Account
<1>3. CASE acc.role = None /\ (acc.flag = "yes" \/ u = Builtin)
  <2>1. PICK f \in Flags : f = IF u = Builtin THEN "yes" ELSE acc.flag
    BY DEF Flags, Account
  <2>2. Assigned(u) = [acc EXCEPT !.role = "super_admin", !.flag = f]
    BY <1>1, <1>3, <2>1 DEF Assigned
  <2> QED
    BY <1>1, <1>3, <2>1, <2>2, NamedRoles DEF Account
<1>4. CASE acc.role = None /\ ~ (acc.flag = "yes" \/ u = Builtin)
  <2>1. Assigned(u) = [acc EXCEPT !.role = "developer"]
    BY <1>1, <1>4 DEF Assigned
  <2> QED
    BY <1>1, <1>4, <2>1, NamedRoles DEF Account
<1> QED
  BY <1>2, <1>3, <1>4

\* What RESET_ADMIN_PASSWORD makes of the account admin.
LEMMA ResetIsAccount ==
  ASSUME Types
  PROVE  /\ Reset \in Account /\ Reset.active
         /\ Exists(Builtin) => /\ Reset.role = Assigned(Builtin).role
                               /\ Reset.flag = Assigned(Builtin).flag
         /\ ~ Exists(Builtin) => Reset.flag = "yes"
<1>1. CASE Exists(Builtin)
  <2>1. PICK acc \in Account : acc = Assigned(Builtin)
    BY <1>1, ConstantsAssumption, ExistingIsAccount, AssignedIsAccount
  <2>2. Reset = [acc EXCEPT !.active = TRUE]
    BY <1>1, <2>1 DEF Reset
  <2> QED
    BY <1>1, <2>1, <2>2 DEF Account
<1>2. CASE ~ Exists(Builtin)
  BY <1>2 DEF Reset, Account, Flags
<1> QED
  BY <1>1, <1>2

\* A start adds rows of owners, and of developers in infras.
LEMMA RestartDoes ==
  ASSUME Types, NEW reset \in BOOLEAN, Restart(reset)
  PROVE  /\ UNCHANGED <<custom, owner, dropped, crossed>>
         /\ members \subseteq members'
         /\ \A m \in members' \ members :
              /\ IsMember(m) /\ owner[m.w] # None
              /\ \/ m.role = "admin" /\ owner[m.w] = m.u /\ RowsOf(m.w, m.u) = {}
                    /\ m = Row(m.w, m.u, m.role)
                 \/ /\ m.role = "developer" /\ m.w = Default /\ m = Row(m.w, m.u, m.role)
                    /\ \/ Exists(m.u) /\ owner[Default] # m.u /\ RowsOf(Default, m.u) = {}
                       \/ m.u = Builtin /\ ~ Exists(Builtin) /\ reset
         /\ DOMAIN user' = Users
         /\ \A u \in Users : user'[u] = IF u = Builtin /\ reset THEN Reset
                                        ELSE IF Exists(u) THEN Assigned(u) ELSE user[u]
         /\ \A w \in Workspaces : owner[w] # None => \E m \in members' : m.w = w /\ m.u = owner[w]
<1>1. /\ UNCHANGED <<custom, owner, dropped, crossed>>
      /\ members' = members \cup OwnerRows \cup Backfilled \cup (IF reset THEN ResetRow ELSE {})
      /\ user' = [u \in Users |-> IF u = Builtin /\ reset THEN Reset
                                  ELSE IF Exists(u) THEN Assigned(u) ELSE user[u]]
  BY DEF Restart
<1>2. \A w \in Workspaces : owner[w] # None => owner[w] \in Users
  BY DEF Types, TablesOk
<1>3. Default \in Workspaces /\ owner[Default] # None /\ Builtin \in Users
  BY ConstantsAssumption DEF Types, TablesOk
<1>4. "developer" \in SpaceRoles /\ "admin" \in SpaceRoles
  BY DEF SpaceRoles
<1>5. ASSUME NEW m \in OwnerRows
      PROVE  IsMember(m) /\ owner[m.w] # None /\ m.role = "admin" /\ owner[m.w] = m.u
             /\ RowsOf(m.w, m.u) = {} /\ m = Row(m.w, m.u, m.role)
  <2>1. PICK w \in Workspaces : /\ owner[w] # None /\ RowsOf(w, owner[w]) = {}
                                /\ m = Row(w, owner[w], "admin")
    BY <1>5 DEF OwnerRows
  <2> QED
    BY <1>2, <1>4, <2>1, RowIsMember
<1>6. ASSUME NEW m \in Backfilled
      PROVE  /\ IsMember(m) /\ owner[m.w] # None /\ m.role = "developer" /\ m.w = Default
             /\ m = Row(m.w, m.u, m.role)
             /\ Exists(m.u) /\ owner[Default] # m.u /\ RowsOf(Default, m.u) = {}
  <2>1. PICK u \in Users : /\ Exists(u) /\ owner[Default] # u /\ RowsOf(Default, u) = {}
                           /\ m = Row(Default, u, "developer")
    BY <1>6 DEF Backfilled
  <2> QED
    BY <1>3, <1>4, <2>1, RowIsMember
<1>7. ASSUME NEW m \in ResetRow
      PROVE  /\ IsMember(m) /\ owner[m.w] # None /\ m.role = "developer" /\ m.w = Default
             /\ m = Row(m.w, m.u, m.role) /\ m.u = Builtin /\ ~ Exists(Builtin)
  <2>1. ~ Exists(Builtin) /\ m = Row(Default, Builtin, "developer")
    BY <1>7 DEF ResetRow
  <2> QED
    BY <1>3, <1>4, <2>1, RowIsMember
<1>8. ASSUME NEW w \in Workspaces, owner[w] # None
      PROVE  \E m \in members' : m.w = w /\ m.u = owner[w]
  <2>1. CASE RowsOf(w, owner[w]) = {}
    <3>1. Row(w, owner[w], "admin") \in OwnerRows
      BY <1>8, <2>1 DEF OwnerRows
    <3> QED
      BY <1>1, <1>2, <1>4, <1>8, <3>1, RowIsMember
  <2>2. CASE RowsOf(w, owner[w]) # {}
    BY <1>1, <2>2 DEF RowsOf
  <2> QED
    BY <2>1, <2>2
<1>9. \A m \in members' \ members : m \in OwnerRows \/ m \in Backfilled \/ (m \in ResetRow /\ reset)
  BY <1>1
<1> QED
  BY <1>1, <1>5, <1>6, <1>7, <1>8, <1>9

-----------------------------------------------------------------------------
(* What a request has made sure of when it is taken up *)

Asked(a, q) ==
  /\ q.pc \notin {"idle", "look", "join", "found"}
  /\ q.pc \in {"user", "role"} => Has(a, "system:user:write")
  /\ q.pc = "flags" => /\ PlatformAdmin(a) /\ q.u \in Users /\ Exists(q.u)
                       /\ q.old = user[q.u] /\ q.new.role = q.old.role
                       /\ q.new.flag \in {"yes", "no", q.old.flag}
                       /\ q.own = (q.u = a) /\ (q.u = a => q.new.active)
  /\ q.pc = "deluser" => q.u # a /\ (PlatformAdmin(q.u) => PlatformAdmin(a))
  /\ q.pc \in {"newrole", "codes"} => Has(a, "system:role:write")
  /\ q.pc = "codes" => custom[q.role] \notin {None, Gone}
  /\ q.pc = "delrole" => \A u \in Users : Exists(u) => user[u].role # q.role
  /\ q.pc \in {"workspace", "owner"} => PlatformManager(a)
  /\ q.pc = "add" => ManagesMembers(a, q.w)
  /\ q.pc \in {"owner", "add"} => owner[q.w] # None /\ q.row \in RowFound(q.w, q.u)
  /\ q.pc = "remove" => owner[q.w] # q.u /\ q.row \in RowsOf(q.w, q.u)

\* What a request about accounts has made sure of.
LEMMA AccountsAsked ==
  ASSUME Types, NEW c \in Calls, NEW a \in Users, Accounts(c, a)
  PROVE  \E q : Asked(a, q) /\ Begin(c, a, q)
<1>1. PICK u \in Users :
        \/ \E r \in Offered \cap Roles : CheckCreateUser(c, a, u, r) \/ CheckSetRole(c, a, u, r)
        \/ \E new \in {x \in Flagged(u) : x # user[u]} : CheckFlags(c, a, u, new)
        \/ CheckDeleteUser(c, a, u)
  BY DEF Accounts
<1>2. ASSUME NEW r, CheckCreateUser(c, a, u, r) \/ CheckSetRole(c, a, u, r)
      PROVE  \E q : Asked(a, q) /\ Begin(c, a, q)
  <2>1. PICK pc \in {"user", "role"} : Begin(c, a, [pc |-> pc, u |-> u, role |-> r])
    BY <1>2 DEF CheckCreateUser, CheckSetRole
  <2>2. PICK q : q = [pc |-> pc, u |-> u, role |-> r]
    OBVIOUS
  <2>3. Has(a, "system:user:write") /\ q.pc \in {"user", "role"}
    BY <1>2, <2>2 DEF CheckCreateUser, CheckSetRole
  <2> QED
    BY <2>1, <2>2, <2>3 DEF Asked
<1>3. ASSUME NEW new \in Flagged(u), CheckFlags(c, a, u, new)
      PROVE  \E q : Asked(a, q) /\ Begin(c, a, q)
  <2>1. PICK q : q = [pc |-> "flags", u |-> u, own |-> u = a, old |-> user[u], new |-> new]
    OBVIOUS
  <2>2. Begin(c, a, q) /\ Exists(u) /\ PlatformAdmin(a) /\ (u = a => new.active)
    BY <1>3, <2>1 DEF CheckFlags
  <2>3. new.role = user[u].role /\ new.flag \in {"yes", "no", user[u].flag}
    <3>1. PICK acc \in Account : acc = user[u]
      BY <2>2, ExistingIsAccount
    <3>2. PICK f \in {"yes", "no", user[u].flag}, x \in BOOLEAN : new = WithFlags(acc, f, x)
      BY <1>3, <2>2, <3>1, FlaggedAre
    <3> QED
      BY <3>1, <3>2 DEF WithFlags, Account
  <2>4. q.pc = "flags" /\ q.u = u /\ q.own = (u = a) /\ q.old = user[u] /\ q.new = new
    BY <2>1
  <2> QED
    BY <2>2, <2>3, <2>4 DEF Asked
<1>4. CASE CheckDeleteUser(c, a, u)
  <2>1. PICK q : q = [pc |-> "deluser", u |-> u]
    OBVIOUS
  <2>2. Begin(c, a, q) /\ u # a /\ (PlatformAdmin(u) => PlatformAdmin(a))
    BY <1>4, <2>1 DEF CheckDeleteUser
  <2>3. q.pc = "deluser" /\ q.u = u
    BY <2>1
  <2> QED
    BY <2>2, <2>3 DEF Asked
<1> QED
  BY <1>1, <1>2, <1>3, <1>4

\* What a request about roles has made sure of.
LEMMA RolesAsked ==
  ASSUME Types, NEW c \in Calls, NEW a \in Users, RoleEdits(c, a)
  PROVE  \E q : Asked(a, q) /\ Begin(c, a, q)
<1>1. PICK r \in Custom :
        \/ \E codes \in Grants : CheckCreateRole(c, a, r, codes) \/ CheckUpdateRole(c, a, r, codes)
        \/ CheckDeleteRole(c, a, r)
  BY DEF RoleEdits
<1>2. ASSUME NEW codes, CheckCreateRole(c, a, r, codes)
      PROVE  \E q : Asked(a, q) /\ Begin(c, a, q)
  <2>1. PICK q : q = [pc |-> "newrole", role |-> r, codes |-> codes]
    OBVIOUS
  <2>2. Begin(c, a, q) /\ Has(a, "system:role:write") /\ q.pc = "newrole"
    BY <1>2, <2>1 DEF CheckCreateRole
  <2> QED
    BY <2>2 DEF Asked
<1>3. ASSUME NEW codes, CheckUpdateRole(c, a, r, codes)
      PROVE  \E q : Asked(a, q) /\ Begin(c, a, q)
  <2>1. PICK q : q = [pc |-> "codes", role |-> r, old |-> custom[r], codes |-> codes]
    OBVIOUS
  <2>2. /\ Begin(c, a, q) /\ Has(a, "system:role:write") /\ custom[r] \notin {None, Gone}
        /\ q.pc = "codes" /\ q.role = r
    BY <1>3, <2>1 DEF CheckUpdateRole
  <2> QED
    BY <2>2 DEF Asked
<1>4. CASE CheckDeleteRole(c, a, r)
  <2>1. PICK q : q = [pc |-> "delrole", role |-> r]
    OBVIOUS
  <2>2. /\ Begin(c, a, q) /\ \A u \in Users : Exists(u) => user[u].role # r
        /\ q.pc = "delrole" /\ q.role = r
    BY <1>4, <2>1 DEF CheckDeleteRole
  <2> QED
    BY <2>2 DEF Asked
<1> QED
  BY <1>1, <1>2, <1>3, <1>4

\* What a request about workspaces has made sure of.
LEMMA SpacesAsked ==
  ASSUME Types, NEW c \in Calls, NEW a \in Users, Spaces(c, a)
  PROVE  \E q : Asked(a, q) /\ Begin(c, a, q)
<1>1. PICK w \in Workspaces :
        \/ CheckCreateWorkspace(c, a, w)
        \/ \E u \in Users : \/ CheckTransfer(c, a, w, u) \/ CheckRemove(c, a, w, u)
                            \/ \E role \in Offered \cap SpaceRoles : CheckAdd(c, a, w, u, role)
  BY DEF Spaces
<1>2. CASE CheckCreateWorkspace(c, a, w)
  <2>1. PICK q : q = [pc |-> "workspace", w |-> w, u |-> a]
    OBVIOUS
  <2>2. Begin(c, a, q) /\ PlatformManager(a) /\ q.pc = "workspace"
    BY <1>2, <2>1 DEF CheckCreateWorkspace
  <2> QED
    BY <2>2 DEF Asked
<1>3. ASSUME NEW u \in Users, CheckTransfer(c, a, w, u)
      PROVE  \E q : Asked(a, q) /\ Begin(c, a, q)
  <2>1. PICK row \in RowFound(w, u) : Begin(c, a, [pc |-> "owner", w |-> w, u |-> u, row |-> row])
    BY <1>3 DEF CheckTransfer
  <2>2. PICK q : q = [pc |-> "owner", w |-> w, u |-> u, row |-> row]
    OBVIOUS
  <2>3. /\ PlatformManager(a) /\ owner[w] # None
        /\ q.pc = "owner" /\ q.w = w /\ q.u = u /\ q.row = row
    BY <1>3, <2>2 DEF CheckTransfer
  <2> QED
    BY <2>1, <2>2, <2>3 DEF Asked
<1>4. ASSUME NEW u \in Users, CheckRemove(c, a, w, u)
      PROVE  \E q : Asked(a, q) /\ Begin(c, a, q)
  <2>1. PICK row \in RowsOf(w, u) : Begin(c, a, [pc |-> "remove", w |-> w, u |-> u, row |-> row])
    BY <1>4 DEF CheckRemove
  <2>2. PICK q : q = [pc |-> "remove", w |-> w, u |-> u, row |-> row]
    OBVIOUS
  <2>3. owner[w] # u /\ q.pc = "remove" /\ q.w = w /\ q.u = u /\ q.row = row
    BY <1>4, <2>2 DEF CheckRemove
  <2> QED
    BY <2>1, <2>2, <2>3 DEF Asked
<1>5. ASSUME NEW u \in Users, NEW role, CheckAdd(c, a, w, u, role)
      PROVE  \E q : Asked(a, q) /\ Begin(c, a, q)
  <2>1. PICK row \in RowFound(w, u) :
          Begin(c, a, [pc |-> "add", w |-> w, u |-> u, role |-> role, row |-> row])
    BY <1>5 DEF CheckAdd
  <2>2. PICK q : q = [pc |-> "add", w |-> w, u |-> u, role |-> role, row |-> row]
    OBVIOUS
  <2>3. /\ ManagesMembers(a, w) /\ owner[w] # None
        /\ q.pc = "add" /\ q.w = w /\ q.u = u /\ q.row = row
    BY <1>5, <2>2 DEF CheckAdd
  <2> QED
    BY <2>1, <2>2, <2>3 DEF Asked
<1> QED
  BY <1>1, <1>2, <1>3, <1>4, <1>5

\* A request that has been taken up, with what it has loaded and checked.
LEMMA TakenUp ==
  ASSUME Types, NEW c \in Calls, NEW a \in Present, Asks(c, a)
  PROVE  /\ a \in Users /\ Asked(a, call'[c]) /\ Begin(c, a, call'[c])
         /\ UNCHANGED <<user, custom, owner, members, dropped>>
<1>1. a \in Users
  BY DEF Present
<1>2. PICK q : Asked(a, q) /\ Begin(c, a, q)
  BY <1>1, AccountsAsked, RolesAsked, SpacesAsked DEF Asks
<1>3. call'[c] = q
  BY <1>2, BeginMoves
<1> QED
  BY <1>1, <1>2, <1>3, BeginMoves

-----------------------------------------------------------------------------
(* The types hold *)

\* Tables that do not change keep their types.
LEMMA TablesSame ==
  ASSUME Types, NoChange PROVE TablesOk'
BY DEF NoChange, Types, TablesOk, IsMember

\* Commits keep the types of the tables.
LEMMA TablesCommit ==
  ASSUME Types, NEW c \in Calls, Commit(c) PROVE TablesOk'
<1>1. ASSUME NEW u, NEW new \in {Gone} \cup Account, SetsUser(u, new) PROVE TablesOk'
  BY <1>1 DEF SetsUser, Types, TablesOk, IsMember
<1>2. ASSUME NEW r, NEW codes \in CodeSets, SetsRole(r, codes) PROVE TablesOk'
  BY <1>2 DEF SetsRole, Types, TablesOk, IsMember
<1>3. CASE CreateUser(c)
  BY <1>1, <1>3, CreateUserDoes, TablesSame
<1>4. CASE SetRole(c)
  BY <1>1, <1>4, SetRoleDoes, TablesSame
<1>5. CASE SetFlags(c)
  BY <1>1, <1>5, SetFlagsDoes, TablesSame
<1>6. CASE DeleteUser(c)
  BY <1>1, <1>6, DeleteUserDoes, TablesSame
<1>7. CASE CreateRole(c)
  BY <1>2, <1>7, CreateRoleDoes, TablesSame
<1>8. CASE UpdateRole(c)
  BY <1>2, <1>8, UpdateRoleDoes, TablesSame
<1>9. CASE DeleteRole(c)
  <2>1. /\ custom' = [custom EXCEPT ![call[c].role] = Gone] /\ UNCHANGED <<owner, members>>
        /\ user' = [u \in Users |-> IF Exists(u) THEN Without(user[u], call[c].role) ELSE user[u]]
    BY <1>9, DeleteRoleDoes
  <2>2. custom' \in [Custom -> {None, Gone} \cup CodeSets]
    BY <2>1 DEF Types, TablesOk
  <2>3. ASSUME NEW u \in Users PROVE user'[u] \in {None, Gone} \cup Account
    <3>1. CASE Exists(u)
      <4>1. PICK acc \in Account : acc = user[u]
        BY <3>1, ExistingIsAccount
      <4>2. Without(acc, call[c].role) \in Account
        BY DEF Without, Account
      <4> QED
        BY <2>1, <3>1, <4>1, <4>2
    <3>2. CASE ~ Exists(u)
      BY <2>1, <3>2 DEF Types, TablesOk
    <3> QED
      BY <3>1, <3>2
  <2> QED
    BY <2>1, <2>2, <2>3 DEF Types, TablesOk, IsMember
<1>10. CASE CreateWorkspace(c)
  BY <1>10, CreateWorkspaceDoes, TablesSame, ConstantsAssumption DEF Types, TablesOk, IsMember
<1>11. ASSUME NEW q, NEW role \in SpaceRoles, Writes(q, role), q.w \in Workspaces, q.u \in Users,
              q.row # None => q.row.w = q.w /\ q.row.u = q.u
       PROVE  /\ UNCHANGED <<user, custom>> /\ \A m \in members' : IsMember(m)
  BY <1>11, WrittenRows DEF Writes, Types, TablesOk
<1>12. CASE Transfer(c)
  <2>1. /\ UNCHANGED <<user, custom>> /\ \A m \in members' : IsMember(m)
        /\ owner' = [owner EXCEPT ![call[c].w] = call[c].u]
        /\ call[c].u \in Users
     \/ NoChange
    BY <1>11, <1>12, TransferDoes, Shapes DEF At, SpaceRoles
  <2> QED
    BY <2>1, TablesSame, ConstantsAssumption DEF Types, TablesOk, IsMember
<1>13. CASE Add(c)
  <2>1. (UNCHANGED <<user, custom, owner>> /\ \A m \in members' : IsMember(m)) \/ NoChange
    BY <1>11, <1>13, AddDoes, Shapes DEF At
  <2> QED
    BY <2>1, TablesSame DEF Types, TablesOk, IsMember
<1>14. CASE Look(c) \/ Join(c) \/ Found(c) \/ Remove(c)
  <2>1. UNCHANGED <<user, custom, owner>>
    BY <1>14, MembersDo
  <2>2. "developer" \in SpaceRoles /\ "admin" \in SpaceRoles /\ Default \in Workspaces
    BY ConstantsAssumption DEF SpaceRoles
  <2>3. ASSUME NEW m \in members' PROVE IsMember(m)
    BY <1>14, <2>2, <2>3, MembersDo, RowIsMember DEF Types, TablesOk
  <2> QED
    BY <2>1, <2>3 DEF Types, TablesOk, IsMember
<1> QED
  BY <1>3, <1>4, <1>5, <1>6, <1>7, <1>8, <1>9, <1>10, <1>12, <1>13, <1>14 DEF Commit

\* A start keeps the types of the tables.
LEMMA TablesRestart ==
  ASSUME Types, NEW reset \in BOOLEAN, Restart(reset) PROVE TablesOk'
<1>1. \A m \in members' : IsMember(m)
  BY RestartDoes DEF Types, TablesOk
<1>2. ASSUME NEW u \in Users PROVE user'[u] \in {None, Gone} \cup Account
  BY RestartDoes, ResetIsAccount, AssignedIsAccount, ExistingIsAccount DEF Types, TablesOk
<1>3. DOMAIN user' = Users /\ user' = [u \in DOMAIN user' |-> user'[u]]
  BY RestartDoes DEF Restart
<1> QED
  BY <1>1, <1>2, <1>3, RestartDoes DEF Types, TablesOk, IsMember

\* A role that has been created does not become a name again.
LEMMA EditsStep ==
  ASSUME Types, Next PROVE EditsOk'
<1>1. ASSUME NEW r \in Custom, custom[r] # None PROVE custom'[r] # None
  <2>1. ASSUME NEW c \in Calls, Commit(c) PROVE custom'[r] # None
    <3>1. CASE UNCHANGED custom
      BY <1>1, <3>1
    <3>2. ASSUME NEW x \in Custom, NEW codes \in {Gone} \cup CodeSets,
                 custom' = [custom EXCEPT ![x] = codes]
          PROVE  custom'[r] # None
      BY <1>1, <3>2, ConstantsAssumption DEF Types, TablesOk, CodeSets
    <3>3. CASE CreateRole(c) \/ UpdateRole(c)
      BY <3>1, <3>2, <3>3, CreateRoleDoes, UpdateRoleDoes DEF NoChange, SetsRole
    <3>4. CASE DeleteRole(c)
      BY <3>2, <3>4, DeleteRoleDoes
    <3> QED
      BY <2>1, <3>1, <3>3, <3>4
      DEF Commit, CreateUser, Look, Join, SetRole, SetFlags, DeleteUser,
          CreateWorkspace, Found, Transfer, Add, Remove, Fail, Rows
  <2>2. ASSUME NEW c \in Calls, NEW a \in Present, Asks(c, a) PROVE custom'[r] # None
    BY <1>1, <2>2, TakenUp
  <2>3. ASSUME NEW reset \in BOOLEAN, Restart(reset) PROVE custom'[r] # None
    BY <1>1, <2>3 DEF Restart
  <2> QED
    BY <2>1, <2>2, <2>3, Steps
<1>2. ASSUME NEW c \in Calls, call'[c].pc = "codes"
      PROVE  custom'[call'[c].role] # None
  <2>1. CASE call'[c] = call[c]
    <3>1. call[c].role \in Custom /\ custom[call[c].role] # None
      BY <1>2, <2>1, Shapes DEF Types, EditsOk, At
    <3> QED
      BY <1>1, <2>1, <3>1
  <2>2. ASSUME NEW d \in Calls, NEW a \in Present, Asks(d, a) PROVE custom'[call'[c].role] # None
    BY <1>2, <2>1, <2>2, TakenUp, BeginMoves DEF Asked
  <2>3. ASSUME NEW d \in Calls, Commit(d) PROVE custom'[call'[c].role] # None
    <3>1. CASE d = c
      <4>1. call'[c] = Idle \/ call'[c].pc \in {"look", "join", "found"}
        BY <2>3, <3>1, CommitMoves, EndMoves, GoesOnMoves
      <4> QED
        BY <1>2, <4>1 DEF Idle
    <3>2. CASE d # c
      <4>1. call'[c] = call[c]
        BY <2>3, <3>2, CommitMoves, EndMoves, GotoMoves DEF GoesOn
      <4> QED
        BY <2>1, <4>1
    <3> QED
      BY <3>1, <3>2
  <2>4. ASSUME NEW reset \in BOOLEAN, Restart(reset) PROVE custom'[call'[c].role] # None
    BY <1>2, <2>4 DEF Restart, Idle
  <2> QED
    BY <2>2, <2>3, <2>4, Steps
<1> QED
  BY <1>2 DEF EditsOk, At

\* The types hold at first.
LEMMA InitTypes == Init => Types
<1> SUFFICES ASSUME Init PROVE Types
  OBVIOUS
<1>1. custom \in [Custom -> {None, Gone} \cup CodeSets]
  BY DEF Init, CodeSets
<1>2. user \in [Users -> {None, Gone} \cup Account]
  <2>1. ASSUME NEW f \in Flags, NEW r \in {"super_admin", "developer"} \cup Custom
        PROVE  [active |-> TRUE, flag |-> f, role |-> r] \in Account
    BY NamedRoles DEF Account, Roles
  <2>2. user \in [Users -> {None} \cup
                   {[active |-> TRUE, flag |-> f, role |-> r] :
                      f \in Flags, r \in {"super_admin", "developer"} \cup {x \in Custom : custom[x] # None}}]
    BY DEF Init
  <2> QED
    BY <2>1, <2>2
<1>3. /\ owner \in [Workspaces -> {None} \cup Users] /\ owner[Default] # None
      /\ \A m \in members : IsMember(m)
  BY ConstantsAssumption DEF Init, IsMember, SpaceRoles
<1>4. CallsOk /\ EditsOk
  BY DEF Init, CallsOk, EditsOk, IsRequest, Idle, At, Nobody, Callers
<1> QED
  BY <1>1, <1>2, <1>3, <1>4 DEF Types, TablesOk

\* Every step keeps the types.
LEMMA TypesStep ==
  ASSUME Types, [Next]_vars PROVE Types'
<1>1. CASE UNCHANGED vars
  BY <1>1 DEF vars, Types, TablesOk, CallsOk, EditsOk, IsMember, IsRequest, At
<1>2. CASE Next
  <2>1. TablesOk'
    <3>1. ASSUME NEW c \in Calls, NEW a \in Present, Asks(c, a) PROVE TablesOk'
      BY <3>1, TakenUp, TablesSame DEF NoChange
    <3> QED
      BY <1>2, <3>1, Steps, TablesCommit, TablesRestart
  <2> QED
    BY <1>2, <2>1, CallsStep, EditsStep DEF Types
<1> QED
  BY <1>1, <1>2

(* Every table and every request keeps its type. *)
THEOREM TypesHold == Spec => []Types
<1> QED
  BY InitTypes, TypesStep, PTL DEF Spec

-----------------------------------------------------------------------------
(* The decisions agree *)

\* Full control without the detour over the names of roles.
Controls(u, w) ==
  PlatformManager(u) \/ owner[w] = u \/ \E m \in members : m.w = w /\ m.u = u /\ m.role = "admin"

\* Full control is the platform's, the owner's and the space administrators'.
LEMMA ControlIs ==
  ASSUME NEW u, NEW w PROVE FullControl(u, w) <=> Controls(u, w)
BY DEF FullControl, Controls, UserRoles, RowsOf

\* Space roles are ordered.
LEMMA Weights ==
  /\ \A role \in SpaceRoles : Weight[role] >= Weight["viewer"]
  /\ \A role \in SpaceRoles : Weight[role] >= Weight["developer"] => role # "viewer"
BY DEF Weight, SpaceRoles

\* What decisions say of each other, in every state of the types.
LEMMA TypesDecide ==
  ASSUME Types PROVE DecisionsAgree
<1> SUFFICES ASSUME NEW u \in Users, NEW w \in Workspaces, Exists(u), owner[w] # None
             PROVE  /\ w \in Accessible(u) <=> Passes(u, w, "viewer")
                    /\ FullControl(u, w) <=> PlatformManager(u) \/ w \in SpaceAdminOf(u)
                    /\ Landing(u) \subseteq Accessible(u)
                    /\ \A kind \in Kinds :
                         /\ FullControl(u, w) => MayRead(u, w, kind)
                         /\ MayRead(u, w, kind) => w \in Accessible(u)
                         /\ MayRead(u, w, kind) /\ UserRoles(u, w) = {"viewer"} =>
                              kind \in {"datasource", "datamap"}
  BY DEF DecisionsAgree
<1>1. \A m \in RowsOf(w, u) : m.role \in SpaceRoles
  BY DEF RowsOf, Types, TablesOk, IsMember
<1>2. \A min : Passes(u, w, min) => Passes(u, w, "viewer")
  BY <1>1, Weights DEF Passes
<1>3. w \in Accessible(u) <=> Passes(u, w, "viewer")
  BY <1>1, Weights DEF Accessible, Passes
<1>4. FullControl(u, w) <=> PlatformManager(u) \/ w \in SpaceAdminOf(u)
  BY ControlIs DEF Controls, SpaceAdminOf, RowsOf
<1>5. Landing(u) \subseteq Accessible(u)
  BY ConstantsAssumption DEF Landing, Accessible, Types, TablesOk
<1>6. FullControl(u, w) => Passes(u, w, "viewer")
  BY <1>3, ControlIs DEF Controls, Accessible, RowsOf
<1>7. ASSUME UserRoles(u, w) = {"viewer"}
      PROVE  ~ FullControl(u, w) /\ ~ Passes(u, w, "developer")
  <2>1. ~ PlatformManager(u) /\ owner[w] # u
    BY <1>7 DEF UserRoles
  <2>2. \A m \in RowsOf(w, u) : m.role = "viewer"
    BY <1>7, <2>1 DEF UserRoles
  <2> QED
    BY <1>1, <2>1, <2>2, ControlIs, Weights DEF Controls, Passes, RowsOf
<1>8. ASSUME NEW kind \in Kinds
      PROVE  /\ FullControl(u, w) => MayRead(u, w, kind)
             /\ MayRead(u, w, kind) => Passes(u, w, "viewer")
             /\ MayRead(u, w, kind) /\ UserRoles(u, w) = {"viewer"} =>
                  kind \in {"datasource", "datamap"}
  BY <1>2, <1>6, <1>7 DEF MayRead, Capable, ReadMin
<1> QED
  BY <1>3, <1>4, <1>5, <1>8

(* Decisions agree in every reachable state, whatever requests overlap. *)
THEOREM DecisionsHold == Spec => []DecisionsAgree
<1> QED
  BY TypesHold, TypesDecide, PTL

-----------------------------------------------------------------------------
(* Authority *)

\* Whoever asked for what is under way was entitled to it when he asked.
Authority ==
  \A c \in Calls :
    /\ call[c].pc \in {"user", "role", "flags", "newrole", "codes", "workspace", "found", "owner"} =>
         caller[c].accounts
    /\ call[c].pc = "add" => call[c].w \in caller[c].spaces

\* The platform's managers have every permission.
LEMMA ManagersMay ==
  ASSUME NEW a, PlatformManager(a)
  PROVE  Permissions(a) \cap {"system:user:write", "system:role:write"} # {}
BY DEF Permissions, Codes, SystemCodes

\* A request is taken up with the authority of who makes it.
LEMMA AuthorityBegins ==
  ASSUME Types, Authority, NEW c \in Calls, NEW a \in Present, Asks(c, a) PROVE Authority'
<1>1. a \in Users
  BY DEF Present
<1>2. PICK q : IsRequest(q) /\ Begin(c, a, q)
  BY <1>1, AskedIsRequest
<1>3. call'[c] = q /\ Asked(a, q)
  BY <1>2, TakenUp, BeginMoves
<1>4. q.pc = "add" => q.w \in Workspaces
  BY <1>2 DEF IsRequest, Idle
<1>5. /\ caller'[c].accounts = (Permissions(a) \cap {"system:user:write", "system:role:write"} # {})
      /\ caller'[c].spaces = {w \in Workspaces : ManagesMembers(a, w)}
      /\ \A d \in Calls \ {c} : call'[d] = call[d] /\ caller'[d] = caller[d]
  BY <1>2, BeginMoves
<1>6. q.pc = "add" => q.w \in caller'[c].spaces
  BY <1>3, <1>4, <1>5 DEF Asked
<1>7. PlatformAdmin(a) => PlatformManager(a)
  BY DEF PlatformManager
<1>8. q.pc \in {"user", "role", "flags", "newrole", "codes", "workspace", "found", "owner"} =>
        caller'[c].accounts
  BY <1>3, <1>5, <1>7, ManagersMay DEF Asked, Has
<1> QED
  BY <1>3, <1>5, <1>6, <1>8 DEF Authority

\* Authority is kept until the request is over.
LEMMA AuthorityStep ==
  ASSUME Types, Authority, [Next]_vars PROVE Authority'
<1>1. CASE UNCHANGED vars
  BY <1>1 DEF vars, Authority
<1>2. ASSUME NEW c \in Calls, Commit(c) PROVE Authority'
  <2>1. CASE End(c)
    BY <2>1, EndMoves DEF Authority, Idle
  <2>2. CASE GoesOn(c)
    <3>1. UNCHANGED caller /\ \A d \in Calls \ {c} : call'[d] = call[d]
      BY <2>2, GotoMoves DEF GoesOn
    <3>2. /\ call'[c].pc \in {"look", "join", "found"}
          /\ call'[c].pc = "found" => call[c].pc = "workspace"
      BY <2>2, GoesOnMoves
    <3> QED
      BY <3>1, <3>2 DEF Authority
  <2> QED
    BY <1>2, <2>1, <2>2, CommitMoves
<1>3. ASSUME NEW reset \in BOOLEAN, Restart(reset) PROVE Authority'
  BY <1>3 DEF Restart, Authority, Idle
<1> QED
  BY <1>1, <1>2, <1>3, Steps, AuthorityBegins

\* A step by which u rises neither in permissions nor in control.
NoRise(u) ==
  Exists(u)' => /\ Exists(u) /\ Permissions(u)' \subseteq Permissions(u)
                /\ \A w \in Workspaces : Controls(u, w)' => Controls(u, w)

\* Whose flag and role stay keeps his permissions.
LEMMA SamePermissions ==
  ASSUME NEW u, user'[u].flag = user[u].flag, user'[u].role = user[u].role, UNCHANGED custom
  PROVE  Permissions(u)' = Permissions(u) /\ PlatformManager(u)' = PlatformManager(u)
BY DEF Permissions, PlatformManager, PlatformAdmin, CodesOf

\* A commit is noticed by its caller.
LEMMA CommitEnds ==
  ASSUME Types, NEW c \in Calls, Commit(c) PROVE Ends(c)
<1>1. call[c] # Idle
  BY CommitMoves DEF Idle
<1>2. call'[c] # call[c]
  BY <1>1, CommitMoves, EndMoves, GoesOnMoves
<1> QED
  BY <1>1, <1>2 DEF Ends

\* Deleting a role raises nobody.
LEMMA DeleteRoleRaisesNobody ==
  ASSUME Types, NEW c \in Calls, DeleteRole(c), NEW u \in Users PROVE NoRise(u)
<1>1. PICK r \in Custom : r = call[c].role
  BY DeleteRoleDoes
<1>2. /\ custom' = [custom EXCEPT ![r] = Gone] /\ UNCHANGED <<owner, members>>
      /\ user'[u] = IF Exists(u) THEN Without(user[u], r) ELSE user[u]
  BY <1>1, DeleteRoleDoes
<1> SUFFICES ASSUME Exists(u)' PROVE /\ Exists(u) /\ Permissions(u)' \subseteq Permissions(u)
                                     /\ \A w \in Workspaces : Controls(u, w)' => Controls(u, w)
  BY DEF NoRise
<1>3. Exists(u)
  BY <1>2 DEF Exists
<1>4. PICK acc \in Account : acc = user[u]
  BY <1>3, ExistingIsAccount
<1>5. CASE acc.role = r
  <2>1. user'[u] = [acc EXCEPT !.role = None]
    BY <1>2, <1>3, <1>4, <1>5 DEF Without
  <2>2. user'[u].flag = acc.flag /\ user'[u].role = None
    BY <2>1 DEF Account
  <2>3. None \notin {"super_admin", "platform_admin"}
    BY ConstantsAssumption, NamedRoles
  <2>4. PlatformManager(u)' => PlatformManager(u)
    BY <1>4, <2>2, <2>3 DEF PlatformManager, PlatformAdmin
  <2>5. Permissions(u)' \subseteq Permissions(u)
    BY <1>4, <2>2, <2>4 DEF Permissions
  <2> QED
    BY <1>2, <1>3, <2>4, <2>5 DEF Controls
<1>6. CASE acc.role # r
  <2>1. user'[u] = user[u]
    BY <1>2, <1>3, <1>4, <1>6 DEF Without
  <2>2. CodesOf(acc.role)' = CodesOf(acc.role) \/ acc.role = None
    BY <1>2, <1>6 DEF CodesOf, Account, Roles, Types, TablesOk
  <2>3. Permissions(u)' = Permissions(u) /\ PlatformManager(u)' = PlatformManager(u)
    BY <1>4, <2>1, <2>2 DEF Permissions, PlatformManager, PlatformAdmin
  <2> QED
    BY <1>2, <1>3, <2>3 DEF Controls
<1> QED
  BY <1>5, <1>6

\* The commits that raise nobody, by whoever they are made.
LEMMA HarmlessCommits ==
  ASSUME Types, NEW c \in Calls,
         Look(c) \/ Join(c) \/ Remove(c) \/ DeleteUser(c) \/ DeleteRole(c), NEW u \in Users
  PROVE  NoRise(u)
<1>1. CASE Look(c) \/ Join(c) \/ Remove(c)
  <2>1. UNCHANGED <<user, custom, owner>>
    BY <1>1, MembersDo
  <2>2. \A m \in members' : m.role = "admin" => m \in members
    <3>1. CASE Look(c)
      BY <3>1, MembersDo
    <3>2. CASE Join(c)
      <4>1. call[c].u \in Users
        BY <3>2, MembersDo
      <4>2. Row(Default, call[c].u, "developer").role # "admin"
        BY DEF Row
      <4> QED
        BY <3>2, <4>2, MembersDo
    <3>3. CASE Remove(c)
      BY <3>3, MembersDo
    <3> QED
      BY <1>1, <3>1, <3>2, <3>3
  <2>3. Permissions(u)' = Permissions(u) /\ PlatformManager(u)' = PlatformManager(u)
    BY <2>1, SamePermissions
  <2> QED
    BY <2>1, <2>2, <2>3 DEF NoRise, Exists, Controls
<1>2. ASSUME UNCHANGED <<custom, owner, members>>, user'[u] = user[u] PROVE NoRise(u)
  <2>1. Permissions(u)' = Permissions(u) /\ PlatformManager(u)' = PlatformManager(u)
    BY <1>2, SamePermissions
  <2> QED
    BY <1>2, <2>1 DEF NoRise, Exists, Controls
<1>3. CASE DeleteUser(c)
  <2>1. CASE NoChange
    BY <1>2, <2>1 DEF NoChange
  <2>2. CASE SetsUser(call[c].u, Gone)
    <3>1. /\ user' = [user EXCEPT ![call[c].u] = Gone] /\ UNCHANGED <<custom, owner, members>>
          /\ DOMAIN user = Users
      BY <2>2 DEF SetsUser, Types, TablesOk
    <3>2. CASE u = call[c].u
      BY <3>1, <3>2 DEF NoRise, Exists
    <3>3. CASE u # call[c].u
      BY <1>2, <3>1, <3>3
    <3> QED
      BY <3>2, <3>3
  <2> QED
    BY <1>3, <2>1, <2>2, DeleteUserDoes
<1> QED
  BY <1>1, <1>3, DeleteRoleRaisesNobody

\* Adding a member raises him in that workspace only.
LEMMA AddRaisesOne ==
  ASSUME Types, NEW c \in Calls, Add(c), NEW u \in Users, Exists(u)'
  PROVE  /\ Exists(u) /\ Permissions(u)' = Permissions(u)
         /\ \A w \in Workspaces : Controls(u, w)' => Controls(u, w) \/ w = call[c].w
<1>1. UNCHANGED <<user, custom, owner>>
  BY AddDoes DEF NoChange, Writes
<1>2. Permissions(u)' = Permissions(u) /\ PlatformManager(u)' = PlatformManager(u)
  BY <1>1, SamePermissions
<1>3. \A m \in members' : m \in members \/ m.w = call[c].w
  <2>1. CASE NoChange
    BY <2>1 DEF NoChange
  <2>2. CASE Writes(call[c], call[c].role)
    <3>1. /\ call[c].w \in Workspaces /\ call[c].u \in Users /\ call[c].role \in SpaceRoles
          /\ call[c].row # None => call[c].row.w = call[c].w /\ call[c].row.u = call[c].u
      BY AddDoes, Shapes DEF At
    <3>2. members' = Written(call[c].w, call[c].u, call[c].row, call[c].role)
      BY <2>2 DEF Writes
    <3>3. \A m \in members : IsMember(m)
      BY DEF Types, TablesOk
    <3> QED
      BY <3>1, <3>2, <3>3, WrittenRows
  <2> QED
    BY <2>1, <2>2, AddDoes
<1> QED
  BY <1>1, <1>2, <1>3 DEF Exists, Controls

\* A start raises only who had no account, or no role.
LEMMA RestartRaises ==
  ASSUME Types, NEW reset \in BOOLEAN, Restart(reset), NEW u \in Users, Exists(u), user[u].role # None
  PROVE  NoRise(u)
<1>1. user[u] \in Account
  BY ExistingIsAccount
<1>2. Assigned(u) = user[u]
  BY <1>1, AssignedIsAccount
<1>3. user'[u].flag = user[u].flag /\ user'[u].role = user[u].role
  BY <1>2, RestartDoes, ResetIsAccount
<1>4. UNCHANGED <<custom, owner>>
  BY RestartDoes
<1>5. Permissions(u)' = Permissions(u) /\ PlatformManager(u)' = PlatformManager(u)
  BY <1>3, <1>4, SamePermissions
<1>6. \A m \in members' : m.role = "admin" => m \in members \/ owner[m.w] = m.u
  BY RestartDoes
<1> QED
  BY <1>4, <1>5, <1>6 DEF NoRise, Controls

\* What a step may raise, for one account.
Rise(u) ==
  Exists(u)' =>
    LET had == IF Exists(u) THEN Permissions(u) ELSE {}
        plain == ~ Exists(u) \/ user[u].role = None
    IN /\ ~ (Permissions(u)' \subseteq had) =>
            (\E c \in Calls : ManagesAccounts(c)) \/ (Starts /\ plain)
       /\ \A w \in Workspaces :
            FullControl(u, w)' /\ ~ (Exists(u) /\ FullControl(u, w)) =>
              \/ \E c \in Calls : ManagesAccounts(c) \/ (Ends(c) /\ w \in caller[c].spaces)
              \/ Starts /\ plain

\* The same of control without its detour.
LEMMA ControlAfter ==
  ASSUME NEW u, NEW w PROVE FullControl(u, w)' <=> Controls(u, w)'
BY DEF FullControl, Controls, UserRoles, RowsOf

\* A step that raises nobody is in order.
LEMMA NoRiseIsFine ==
  ASSUME NEW u \in Users, NoRise(u) PROVE Rise(u)
<1> SUFFICES ASSUME Exists(u)'
             PROVE  /\ Exists(u) /\ Permissions(u)' \subseteq Permissions(u)
                    /\ \A w \in Workspaces : FullControl(u, w)' => FullControl(u, w)
  BY DEF Rise
<1> QED
  BY ControlIs, ControlAfter DEF NoRise

\* Every step raises by authority.
LEMMA RiseStep ==
  ASSUME Types, Authority, Next, NEW u \in Users PROVE Rise(u)
<1>1. ASSUME NEW c \in Calls, NEW a \in Present, Asks(c, a) PROVE Rise(u)
  <2>1. UNCHANGED <<user, custom, owner, members>>
    BY <1>1, TakenUp
  <2>2. Permissions(u)' = Permissions(u) /\ PlatformManager(u)' = PlatformManager(u)
    BY <2>1, SamePermissions
  <2>3. NoRise(u)
    BY <2>1, <2>2 DEF NoRise, Exists, Controls
  <2> QED
    BY <2>3, NoRiseIsFine
<1>2. ASSUME NEW c \in Calls, Commit(c) PROVE Rise(u)
  <2>1. Ends(c)
    BY <1>2, CommitEnds
  <2>2. CASE call[c].pc \in {"user", "role", "flags", "newrole", "codes", "workspace", "found", "owner"}
    <3>1. ManagesAccounts(c)
      BY <2>1, <2>2 DEF Authority, ManagesAccounts
    <3> QED
      BY <3>1 DEF Rise
  <2>3. CASE Look(c) \/ Join(c) \/ Remove(c) \/ DeleteUser(c) \/ DeleteRole(c)
    BY <2>3, HarmlessCommits, NoRiseIsFine
  <2>4. CASE Add(c)
    <3>1. call[c].w \in caller[c].spaces
      BY <2>4, AddDoes DEF Authority, At
    <3> SUFFICES ASSUME Exists(u)'
                 PROVE  /\ Exists(u) /\ Permissions(u)' \subseteq Permissions(u)
                        /\ \A w \in Workspaces :
                             FullControl(u, w)' => FullControl(u, w) \/ (Ends(c) /\ w \in caller[c].spaces)
      BY DEF Rise
    <3> QED
      BY <2>1, <2>4, <3>1, AddRaisesOne, ControlIs, ControlAfter
  <2> QED
    BY <1>2, <2>2, <2>3, <2>4
    DEF Commit, CreateUser, SetRole, SetFlags, CreateRole, UpdateRole, CreateWorkspace, Found, Transfer, At
<1>3. ASSUME NEW reset \in BOOLEAN, Restart(reset) PROVE Rise(u)
  <2>1. Starts
    BY <1>3 DEF Restart, Starts
  <2>2. CASE ~ Exists(u) \/ user[u].role = None
    BY <2>1, <2>2 DEF Rise
  <2>3. CASE Exists(u) /\ user[u].role # None
    BY <1>3, <2>3, RestartRaises, NoRiseIsFine
  <2> QED
    BY <2>2, <2>3
<1> QED
  BY <1>1, <1>2, <1>3, Steps

(* Nobody rises but by a request of somebody who managed accounts, or that
   workspace, when he made it, or at a start that finds an account without a
   role: for any overlap of requests and any number of starts. *)
THEOREM RisesHold == Spec => RisesByAuthority
<1>1. Init => Authority
  BY DEF Init, Authority, Idle
<1>2. Types /\ Authority /\ [Next]_vars => Authority'
  BY AuthorityStep
<1>3. Types /\ Authority /\ [Next]_vars => [\A u \in Users : Rise(u)]_vars
  BY RiseStep
<1>4. Spec => []Authority
  BY <1>1, <1>2, TypesHold, PTL DEF Spec
<1>5. Spec => [][\A u \in Users : Rise(u)]_vars
  BY <1>3, <1>4, TypesHold, PTL DEF Spec
<1> QED
  BY <1>5 DEF RisesByAuthority, Rise

-----------------------------------------------------------------------------
(* Requests that do not overlap *)

OneRequest == \A c, d \in Calls : ~ At(c, "idle") /\ ~ At(d, "idle") => c = d

\* A member has one row in a workspace; he exists, and the workspace does.
ExactRows ==
  /\ members \subseteq MemberRows
  /\ \A m, o \in members : m.w = o.w /\ m.u = o.u => m = o
  /\ \A m \in members : Exists(m.u) /\ owner[m.w] # None

\* Owners exist, and are members or about to become so.
OwnersStay ==
  \A w \in Workspaces : owner[w] # None =>
    /\ Exists(owner[w])
    /\ \/ \E m \in members : m.w = w /\ m.u = owner[w]
       \/ \E c \in Calls : At(c, "found") /\ call[c].w = w

Ranked == \A u \in Users \ {Builtin} : Exists(u) => user[u].role \in Roles /\ RoleExists(user[u].role)
Administered == dropped \/ \E u \in Present : PlatformAdmin(u)

\* The row that a request has loaded is the one there is.
RowIsFound(w, u, row) == IF RowsOf(w, u) = {} THEN row = None ELSE row \in RowsOf(w, u)

\* What a request has loaded is still so: nobody else writes.
Current(c) ==
  LET q == call[c] IN
  /\ At(c, "look") => Exists(q.u)
  /\ At(c, "join") => Exists(q.u) /\ RowsOf(Default, q.u) = {}
  /\ At(c, "flags") =>
       /\ Exists(q.u) /\ q.old = user[q.u] /\ q.new.role = q.old.role
       /\ q.new.flag \in {"yes", "no", q.old.flag}
       /\ IF q.own THEN q.new.active /\ PlatformAdmin(q.u)
          ELSE \E a \in Present : a # q.u /\ PlatformAdmin(a)
  /\ At(c, "deluser") => dropped \/ \E a \in Present : a # q.u /\ PlatformAdmin(a)
  /\ At(c, "delrole") => \A u \in Users : Exists(u) => user[u].role # q.role
  /\ At(c, "found") => owner[q.w] = q.u /\ RowsOf(q.w, q.u) = {}
  /\ At(c, "owner") \/ At(c, "add") => owner[q.w] # None /\ RowIsFound(q.w, q.u, q.row)
  /\ At(c, "remove") => owner[q.w] # q.u /\ q.row \in RowsOf(q.w, q.u)

Calm ==
  /\ OneRequest /\ ExactRows /\ OwnersStay /\ Ranked /\ Administered
  /\ \A c \in Calls : Current(c)

CalmInv == crossed \/ Calm

\* A request that is not there has nothing loaded.
LEMMA IdleIsIdle ==
  ASSUME Types, NEW c \in Calls, call[c].pc = "idle" PROVE call[c] = Idle
<1>1. PICK q : q = call[c]
  OBVIOUS
<1>2. IsRequest(q) /\ q.pc = "idle"
  BY <1>1 DEF Types, CallsOk
<1> QED
  BY <1>1, <1>2 DEF IsRequest

\* A request that is not there is as it should be.
LEMMA IdleIsCurrent ==
  ASSUME NEW c \in Calls, call[c].pc = "idle" PROVE Current(c)
BY DEF Current, At

\* The same of what a step leaves.
LEMMA IdleWillBeCurrent ==
  ASSUME NEW c \in Calls, call'[c].pc = "idle" PROVE Current(c)'
BY DEF Current, At

\* A new row gets a number of its own.
LEMMA FreshIsNat ==
  ASSUME Types, OneRequest, NEW w, NEW u, RowsOf(w, u) = {}
  PROVE  Fresh(w, u) \in Nat
<1>1. Cardinality(Calls) \in Nat
  BY ConstantsAssumption, FS_CardinalityType
<1>2. 1 \in 1 .. 2 * Cardinality(Calls) + 2 /\ 2 \in 1 .. 2 * Cardinality(Calls) + 2
  BY <1>1
<1>3. \E n \in {1, 2} : \A c \in Calls : "row" \in DOMAIN call[c] /\ call[c].row # None => call[c].row.n # n
  <2>1. CASE \A c \in Calls : call[c].pc = "idle"
    <3>1. \A c \in Calls : call[c] = Idle
      BY <2>1, IdleIsIdle
    <3> QED
      BY <3>1 DEF Idle
  <2>2. ASSUME NEW d \in Calls, call[d].pc # "idle"
        PROVE  \E n \in {1, 2} : \A c \in Calls :
                 "row" \in DOMAIN call[c] /\ call[c].row # None => call[c].row.n # n
    <3>1. \A c \in Calls \ {d} : call[c].pc = "idle"
      BY <2>2 DEF OneRequest, At
    <3>2. \A c \in Calls \ {d} : call[c] = Idle
      BY <3>1, IdleIsIdle
    <3>3. \A c \in Calls \ {d} : "row" \notin DOMAIN call[c]
      BY <3>2 DEF Idle
    <3>4. PICK n \in {1, 2} : call[d].row.n # n
      OBVIOUS
    <3> QED
      BY <3>3, <3>4
  <2> QED
    BY <2>1, <2>2
<1>4. PICK n \in 1 .. 2 * Cardinality(Calls) + 2 :
        /\ \A m \in RowsOf(w, u) : m.n # n
        /\ \A c \in Calls : "row" \in DOMAIN call[c] /\ call[c].row # None => call[c].row.n # n
  BY <1>2, <1>3
<1>5. Fresh(w, u) \in 1 .. 2 * Cardinality(Calls) + 2
  BY <1>4 DEF Fresh
<1> QED
  BY <1>1, <1>5

\* A new row is one.
LEMMA RowIsRow ==
  ASSUME Types, OneRequest, NEW w \in Workspaces, NEW u \in Users, NEW role \in SpaceRoles,
         RowsOf(w, u) = {}
  PROVE  /\ Row(w, u, role) \in MemberRows
         /\ Row(w, u, role).w = w /\ Row(w, u, role).u = u /\ Row(w, u, role).role = role
BY FreshIsNat, RowIsMember DEF Row, MemberRows

\* Rows of one key are not added to.
LEMMA OneMore ==
  ASSUME Types, Calm, NEW w \in Workspaces, NEW u \in Users, NEW role \in SpaceRoles,
         RowsOf(w, u) = {}
  PROVE  /\ members \cup {Row(w, u, role)} \subseteq MemberRows
         /\ \A m, o \in members \cup {Row(w, u, role)} : m.w = o.w /\ m.u = o.u => m = o
BY RowIsRow DEF Calm, ExactRows, RowsOf

\* A row with its role updated, if it is the one to update.
Changed(m, row, role) == IF Same(m, row) THEN [m EXCEPT !.role = role] ELSE m

\* An updated row is of the same member.
LEMMA ChangedIsSame ==
  ASSUME NEW m \in MemberRows, NEW row, NEW role \in SpaceRoles
  PROVE  /\ Changed(m, row, role) \in MemberRows
         /\ Changed(m, row, role).w = m.w /\ Changed(m, row, role).u = m.u
BY DEF Changed, MemberRows

\* Writing the row of a member keeps rows exact, and makes him one.
LEMMA WritingIsExact ==
  ASSUME Types, Calm, NEW w \in Workspaces, NEW u \in Users, NEW role \in SpaceRoles, NEW row,
         RowIsFound(w, u, row), Writable(u, row, role), owner[w] # None
  PROVE  /\ Written(w, u, row, role) \subseteq MemberRows
         /\ \A m, o \in Written(w, u, row, role) : m.w = o.w /\ m.u = o.u => m = o
         /\ \A m \in Written(w, u, row, role) : Exists(m.u) /\ owner[m.w] # None
         /\ \A m \in members : \E o \in Written(w, u, row, role) : o.w = m.w /\ o.u = m.u
         /\ \E o \in Written(w, u, row, role) : o.w = w /\ o.u = u
<1>1. /\ members \subseteq MemberRows
      /\ \A m, o \in members : m.w = o.w /\ m.u = o.u => m = o
      /\ \A m \in members : Exists(m.u) /\ owner[m.w] # None
  BY DEF Calm, ExactRows
<1>2. CASE row = None
  <2>1. RowsOf(w, u) = {}
    BY <1>1, <1>2, ConstantsAssumption DEF RowIsFound, RowsOf
  <2>2. Written(w, u, row, role) = members \cup {Row(w, u, role)}
    BY <1>2 DEF Written
  <2>3. Exists(u)
    BY <1>2 DEF Writable
  <2>4. Row(w, u, role).w = w /\ Row(w, u, role).u = u
    BY RowIsMember
  <2> QED
    BY <1>1, <2>1, <2>2, <2>3, <2>4, OneMore
<1>3. CASE row # None
  <2>1. row \in members /\ row.w = w /\ row.u = u
    BY <1>3 DEF RowIsFound, RowsOf
  <2>2. CASE row.role = role
    <3>1. Written(w, u, row, role) = members
      BY <1>3, <2>2 DEF Written
    <3> QED
      BY <1>1, <2>1, <3>1
  <2>3. CASE row.role # role
    <3>1. Written(w, u, row, role) = {Changed(m, row, role) : m \in members}
      BY <1>3, <2>3 DEF Written, Changed
    <3>2. \A m \in members : /\ Changed(m, row, role) \in MemberRows
                             /\ Changed(m, row, role).w = m.w /\ Changed(m, row, role).u = m.u
      BY <1>1, ChangedIsSame
    <3>3. \A x \in Written(w, u, row, role) : \E m \in members : x = Changed(m, row, role)
      BY <3>1
    <3>4. \A m \in members : Changed(m, row, role) \in Written(w, u, row, role)
      BY <3>1
    <3>5. ASSUME NEW x \in Written(w, u, row, role), NEW y \in Written(w, u, row, role),
                 x.w = y.w, x.u = y.u
          PROVE  x = y
      <4>1. PICK m \in members : x = Changed(m, row, role)
        BY <3>3
      <4>2. PICK o \in members : y = Changed(o, row, role)
        BY <3>3
      <4>3. m = o
        BY <1>1, <3>2, <3>5, <4>1, <4>2
      <4> QED
        BY <4>1, <4>2, <4>3
    <3>6. \A x \in Written(w, u, row, role) : \E m \in members : x.w = m.w /\ x.u = m.u
      BY <3>2, <3>3
    <3> QED
      BY <1>1, <2>1, <3>2, <3>3, <3>4, <3>5, <3>6
  <2> QED
    BY <2>2, <2>3
<1> QED
  BY <1>2, <1>3

-----------------------------------------------------------------------------
(* Commits keep the calm *)

\* Nobody else is under way when a request commits, nor afterwards.
LEMMA OnlyOne ==
  ASSUME Types, Calm, NEW c \in Calls, Commit(c)
  PROVE  /\ OneRequest'
         /\ \A d \in Calls \ {c} : call[d].pc = "idle" /\ Current(d)'
         /\ End(c) => Current(c)'
<1>1. \A d \in Calls \ {c} : call[d].pc = "idle"
  BY CommitMoves DEF Calm, OneRequest, At
<1>2. \A d \in Calls \ {c} : call'[d] = call[d]
  BY CommitMoves, EndMoves, GotoMoves DEF GoesOn
<1>3. \A d \in Calls \ {c} : call'[d].pc = "idle"
  BY <1>1, <1>2
<1>4. OneRequest'
  BY <1>3 DEF OneRequest, At
<1>5. \A d \in Calls \ {c} : Current(d)'
  BY <1>3, IdleWillBeCurrent
<1>6. End(c) => Current(c)'
  <2>1. End(c) => call'[c].pc = "idle"
    BY EndMoves DEF Idle
  <2> QED
    BY <2>1, IdleWillBeCurrent
<1> QED
  BY <1>1, <1>4, <1>5, <1>6

\* Owners are members unless one is being made so.
OwnersAreMembers ==
  \A w \in Workspaces : owner[w] # None =>
    Exists(owner[w]) /\ \E m \in members : m.w = w /\ m.u = owner[w]

\* They are members whenever another kind of request commits.
LEMMA OwnersIn ==
  ASSUME Types, Calm, NEW c \in Calls, Commit(c), ~ At(c, "found")
  PROVE  OwnersAreMembers
<1>1. \A d \in Calls : ~ At(d, "found")
  BY OnlyOne DEF At
<1> QED
  BY <1>1 DEF Calm, OwnersStay, OwnersAreMembers

\* Somebody's having given up his flag is remembered.
LEMMA DroppedStays ==
  ASSUME NEW c \in Calls, Commit(c)
  PROVE  /\ dropped => dropped'
         /\ crossed' = crossed
         /\ At(c, "flags") => dropped' = (dropped \/ (call[c].own /\ call[c].old.flag # "no"
                                                     /\ call[c].new.flag = "no"))
<1>1. CASE SetFlags(c)
  BY <1>1 DEF SetFlags, At
<1>2. CASE ~ SetFlags(c)
  <2>1. call[c].pc # "flags"
    BY <1>2 DEF Commit, CreateUser, Look, Join, SetRole, DeleteUser, CreateRole, UpdateRole,
                DeleteRole, CreateWorkspace, Found, Transfer, Add, Remove, At
  <2>2. UNCHANGED <<dropped, crossed>>
    BY <1>2 DEF Commit, CreateUser, Look, Join, SetRole, DeleteUser, CreateRole, UpdateRole,
                DeleteRole, CreateWorkspace, Found, Transfer, Add, Remove, Keep
  <2> QED
    BY <2>1, <2>2 DEF At
<1> QED
  BY <1>1, <1>2

\* The tables are in order.
InOrder == ExactRows /\ OwnersStay /\ Ranked /\ Administered

\* Tables that stay are.
LEMMA NoChangeCalm ==
  ASSUME Types, Calm, NEW c \in Calls, Commit(c), ~ At(c, "found"), NoChange
  PROVE  InOrder'
<1>1. OwnersAreMembers
  BY OwnersIn
<1>2. UNCHANGED <<user, custom, owner, members>> /\ (dropped => dropped')
  BY DroppedStays DEF NoChange
<1>3. ExactRows'
  BY <1>2 DEF Calm, ExactRows, Exists
<1>4. OwnersStay'
  BY <1>1, <1>2 DEF OwnersAreMembers, OwnersStay, Exists
<1>5. Ranked' /\ Administered'
  BY <1>2 DEF Calm, Ranked, Administered, Exists, Present, PlatformAdmin, RoleExists
<1> QED
  BY <1>3, <1>4, <1>5 DEF InOrder

\* Rows stay exact when accounts come or change.
LEMMA AccountsCalm ==
  ASSUME Types, Calm, OwnersAreMembers, UNCHANGED <<owner, members>>,
         \A u \in Users : Exists(u) => Exists(u)'
  PROVE  ExactRows' /\ OwnersStay'
<1>1. \A m \in members : m.u \in Users
  BY DEF Types, TablesOk, IsMember
<1>2. ExactRows'
  BY <1>1 DEF Calm, ExactRows, Exists
<1>3. \A w \in Workspaces : owner[w] \in {None} \cup Users
  BY DEF Types, TablesOk
<1>4. OwnersStay'
  BY <1>3 DEF OwnersAreMembers, OwnersStay, Exists
<1> QED
  BY <1>2, <1>4

\* An account that gets a role that exists.
LEMMA SetsUserCalm ==
  ASSUME Types, Calm, OwnersAreMembers, NEW u \in Users, NEW new \in Account, SetsUser(u, new),
         u # Builtin => new.role \in Roles /\ RoleExists(new.role)
  PROVE  /\ ExactRows' /\ OwnersStay' /\ Ranked'
         /\ user'[u] = new /\ \A v \in Users \ {u} : user'[v] = user[v]
<1>1. /\ UNCHANGED <<custom, owner, members>>
      /\ user'[u] = new /\ \A v \in Users \ {u} : user'[v] = user[v]
  BY DEF SetsUser, Types, TablesOk
<1>2. new \notin {None, Gone}
  BY ConstantsAssumption
<1>3. \A v \in Users : Exists(v) => Exists(v)'
  BY <1>1, <1>2 DEF Exists
<1>4. ExactRows' /\ OwnersStay'
  BY <1>1, <1>3, AccountsCalm
<1>5. Ranked'
  <2> SUFFICES ASSUME NEW v \in Users \ {Builtin}, Exists(v)'
               PROVE  (user[v].role \in Roles /\ RoleExists(user[v].role))'
    BY DEF Ranked
  <2>1. CASE v = u
    BY <1>1, <2>1 DEF RoleExists
  <2>2. CASE v # u
    BY <1>1, <2>2 DEF Calm, Ranked, Exists, RoleExists
  <2> QED
    BY <2>1, <2>2
<1> QED
  BY <1>1, <1>4, <1>5

\* Creating an account keeps the tables in order.
LEMMA CreateUserCalm ==
  ASSUME Types, Calm, NEW c \in Calls, CreateUser(c) PROVE InOrder' /\ Current(c)'
<1>1. Commit(c) /\ At(c, "user") /\ ~ At(c, "found")
  BY CreateUserDoes DEF Commit, At
<1>2. CASE NoChange /\ End(c)
  BY <1>1, <1>2, NoChangeCalm, OnlyOne
<1>3. ASSUME NEW new \in Account, SetsUser(call[c].u, new), user[call[c].u] = None,
             new.role \in Roles, RoleExists(new.role), GoesOn(c)
      PROVE  InOrder' /\ Current(c)'
  <2>1. PICK u \in Users : u = call[c].u
    BY <1>3 DEF SetsUser
  <2>2. /\ ExactRows' /\ OwnersStay' /\ Ranked'
        /\ user'[u] = new /\ \A v \in Users \ {u} : user'[v] = user[v]
    BY <1>1, <1>3, <2>1, OwnersIn, SetsUserCalm
  <2>3. Administered'
    <3>1. CASE dropped
      BY <1>1, <3>1, DroppedStays DEF Administered
    <3>2. ASSUME NEW a \in Present, PlatformAdmin(a) PROVE Administered'
      <4>1. a \in Users \ {u}
        BY <1>3, <2>1, <3>2 DEF Present, Exists
      <4> QED
        BY <2>2, <3>2, <4>1 DEF Administered, Present, Exists, PlatformAdmin
    <3> QED
      BY <3>1, <3>2 DEF Calm, Administered
  <2>4. Current(c)'
    <3>1. call'[c].pc = "look" /\ call'[c].u = u
      BY <1>1, <1>3, <2>1, GoesOnMoves, GotoMoves, Shapes DEF GoesOn, At
    <3>2. user'[u] \notin {None, Gone}
      BY <2>2, ConstantsAssumption
    <3> QED
      BY <3>1, <3>2 DEF Current, At, Exists
  <2> QED
    BY <2>2, <2>3, <2>4 DEF InOrder
<1> QED
  BY <1>2, <1>3, CreateUserDoes

\* Assigning a role keeps them in order.
LEMMA SetRoleCalm ==
  ASSUME Types, Calm, NEW c \in Calls, SetRole(c) PROVE InOrder' /\ Current(c)'
<1>1. Commit(c) /\ At(c, "role") /\ ~ At(c, "found") /\ End(c)
  BY SetRoleDoes DEF Commit, At, SetRole, Fail
<1>2. CASE NoChange
  BY <1>1, <1>2, NoChangeCalm, OnlyOne
<1>3. ASSUME NEW new \in Account, SetsUser(call[c].u, new), user[call[c].u] \in Account,
             new.flag = user[call[c].u].flag, new.active = user[call[c].u].active,
             new.role \in Roles, RoleExists(new.role)
      PROVE  InOrder' /\ Current(c)'
  <2>1. PICK u \in Users : u = call[c].u
    BY <1>3 DEF SetsUser
  <2>2. /\ ExactRows' /\ OwnersStay' /\ Ranked'
        /\ user'[u] = new /\ \A v \in Users \ {u} : user'[v] = user[v]
    BY <1>1, <1>3, <2>1, OwnersIn, SetsUserCalm
  <2>3. new \notin {None, Gone}
    BY ConstantsAssumption
  <2>4. \A a \in Present : PlatformAdmin(a) => a \in Present' /\ PlatformAdmin(a)'
    BY <1>3, <2>1, <2>2, <2>3 DEF Present, Exists, PlatformAdmin
  <2>5. Administered'
    BY <1>1, <2>4, DroppedStays DEF Calm, Administered
  <2> QED
    BY <1>1, <2>2, <2>5, OnlyOne DEF InOrder
<1> QED
  BY <1>2, <1>3, SetRoleDoes

\* Editing flags keeps them in order: the columns are as they were loaded, and
\* another administrator is there, or the one who asks keeps his flag or is seen to drop it.
LEMMA SetFlagsCalm ==
  ASSUME Types, Calm, NEW c \in Calls, SetFlags(c) PROVE InOrder' /\ Current(c)'
<1>1. Commit(c) /\ At(c, "flags") /\ ~ At(c, "found") /\ End(c)
  BY SetFlagsDoes DEF Commit, At, SetFlags, Fail
<1>2. CASE NoChange
  BY <1>1, <1>2, NoChangeCalm, OnlyOne
<1>3. CASE ~ NoChange
  <2>1. PICK u \in Users, old \in Account, new \in Account, own \in BOOLEAN :
          u = call[c].u /\ old = call[c].old /\ new = call[c].new /\ own = call[c].own
    BY <1>1, Shapes DEF At
  <2>2. /\ user[u] = old /\ Exists(u) /\ new.role = old.role /\ new.flag \in {"yes", "no", old.flag}
        /\ IF own THEN new.active /\ PlatformAdmin(u)
           ELSE \E a \in Present : a # u /\ PlatformAdmin(a)
    BY <1>1, <2>1 DEF Calm, Current
  <2>3. PICK res \in Account : res = Merge(old, old, new)
    BY MergeIsAccount
  <2>4. SetsUser(u, res)
    BY <1>3, <2>1, <2>2, <2>3, SetFlagsDoes
  <2>5. res.active = new.active /\ res.flag = new.flag /\ res.role = new.role
    BY <2>3, MergeIsAccount
  <2>6. /\ ExactRows' /\ OwnersStay' /\ Ranked'
        /\ user'[u] = res /\ \A v \in Users \ {u} : user'[v] = user[v]
    BY <1>1, <2>2, <2>4, <2>5, OwnersIn, SetsUserCalm DEF Calm, Ranked
  <2>7. Administered'
    <3>1. dropped' = (dropped \/ (own /\ old.flag # "no" /\ new.flag = "no"))
      BY <1>1, <2>1, DroppedStays
    <3>2. CASE own /\ ~ dropped'
      <4>1. new.flag # "no"
        BY <2>2, <3>1, <3>2 DEF PlatformAdmin
      <4>2. res.flag = "yes" \/ (u = Builtin /\ res.flag = "null")
        BY <2>2, <2>5, <3>2, <4>1 DEF PlatformAdmin
      <4>3. res \notin {None, Gone} /\ res.active
        BY <2>2, <2>5, <3>2, ConstantsAssumption
      <4> QED
        BY <2>6, <4>2, <4>3 DEF Administered, Present, Exists, PlatformAdmin
    <3>3. CASE ~ own
      <4>1. PICK a \in Present : a # u /\ PlatformAdmin(a)
        BY <2>2, <3>3
      <4> QED
        BY <2>6, <4>1 DEF Administered, Present, Exists, PlatformAdmin
    <3> QED
      BY <3>2, <3>3 DEF Administered
  <2> QED
    BY <1>1, <2>6, <2>7, OnlyOne DEF InOrder
<1> QED
  BY <1>2, <1>3

\* Deleting an account keeps them in order: the one who asked is another.
LEMMA DeleteUserCalm ==
  ASSUME Types, Calm, NEW c \in Calls, DeleteUser(c) PROVE InOrder' /\ Current(c)'
<1>1. Commit(c) /\ At(c, "deluser") /\ ~ At(c, "found") /\ End(c)
  BY DeleteUserDoes DEF Commit, At, DeleteUser, Fail
<1>2. CASE NoChange
  BY <1>1, <1>2, NoChangeCalm, OnlyOne
<1>3. CASE ~ NoChange
  <2>1. PICK u \in Users : u = call[c].u
    BY <1>1, Shapes DEF At
  <2>2. SetsUser(u, Gone) /\ \A w \in Workspaces : owner[w] # u /\ RowsOf(w, u) = {}
    BY <1>3, <2>1, DeleteUserDoes
  <2>3. /\ UNCHANGED <<custom, owner, members>>
        /\ user'[u] = Gone /\ \A v \in Users \ {u} : user'[v] = user[v]
    BY <2>2 DEF SetsUser, Types, TablesOk
  <2>4. \A m \in members : m.u \in Users \ {u}
    BY <2>2 DEF RowsOf, Types, TablesOk, IsMember
  <2>5. ExactRows'
    BY <2>3, <2>4 DEF Calm, ExactRows, Exists
  <2>6. OwnersStay'
    <3>1. \A w \in Workspaces : owner[w] # None => owner[w] \in Users \ {u}
      BY <2>2 DEF Types, TablesOk
    <3>2. OwnersAreMembers
      BY <1>1, OwnersIn
    <3> QED
      BY <2>3, <3>1, <3>2 DEF OwnersAreMembers, OwnersStay, Exists
  <2>7. Ranked'
    BY <2>3 DEF Calm, Ranked, Exists, RoleExists
  <2>8. Administered'
    <3>1. dropped \/ \E a \in Present : a # u /\ PlatformAdmin(a)
      BY <1>1, <2>1 DEF Calm, Current
    <3>2. \A a \in Present : a # u /\ PlatformAdmin(a) => a \in Present' /\ PlatformAdmin(a)'
      BY <2>3 DEF Present, Exists, PlatformAdmin
    <3> QED
      BY <1>1, <3>1, <3>2, DroppedStays DEF Administered
  <2> QED
    BY <1>1, <2>5, <2>6, <2>7, <2>8, OnlyOne DEF InOrder
<1> QED
  BY <1>2, <1>3

\* Accounts that stay are administered and ranked as before.
LEMMA AccountsStay ==
  ASSUME Types, Calm, NEW c \in Calls, Commit(c), UNCHANGED <<user, custom>>
  PROVE  Ranked' /\ Administered'
<1>1. dropped => dropped'
  BY DroppedStays
<1>2. Ranked'
  BY DEF Calm, Ranked, Exists, RoleExists
<1>3. Administered'
  BY <1>1 DEF Calm, Administered, Present, Exists, PlatformAdmin
<1> QED
  BY <1>2, <1>3

\* Creating or editing a role keeps them in order.
LEMMA EditRoleCalm ==
  ASSUME Types, Calm, NEW c \in Calls, CreateRole(c) \/ UpdateRole(c) PROVE InOrder' /\ Current(c)'
<1>1. Commit(c) /\ call[c].pc \in {"newrole", "codes"} /\ ~ At(c, "found") /\ End(c)
  BY CreateRoleDoes, UpdateRoleDoes DEF Commit, At, CreateRole, UpdateRole, Fail
<1>2. CASE NoChange
  BY <1>1, <1>2, NoChangeCalm, OnlyOne
<1>3. ASSUME NEW codes \in CodeSets, SetsRole(call[c].role, codes) PROVE InOrder' /\ Current(c)'
  <2>1. PICK r \in Custom : r = call[c].role
    BY <1>3 DEF SetsRole
  <2>2. /\ UNCHANGED <<user, owner, members>>
        /\ custom'[r] = codes /\ \A x \in Custom \ {r} : custom'[x] = custom[x]
    BY <1>3, <2>1 DEF SetsRole, Types, TablesOk
  <2>3. codes \notin {None, Gone}
    BY ConstantsAssumption DEF CodeSets
  <2>4. ExactRows' /\ OwnersStay'
    BY <1>1, <2>2, OwnersIn, AccountsCalm DEF Exists
  <2>5. Ranked'
    BY <2>2, <2>3 DEF Calm, Ranked, Exists, RoleExists
  <2>6. Administered'
    BY <1>1, <2>2, DroppedStays DEF Calm, Administered, Present, Exists, PlatformAdmin
  <2> QED
    BY <1>1, <2>4, <2>5, <2>6, OnlyOne DEF InOrder
<1> QED
  BY <1>2, <1>3, CreateRoleDoes, UpdateRoleDoes

\* Deleting a role keeps them in order: nobody has it.
LEMMA DeleteRoleCalm ==
  ASSUME Types, Calm, NEW c \in Calls, DeleteRole(c) PROVE InOrder' /\ Current(c)'
<1>1. Commit(c) /\ At(c, "delrole") /\ ~ At(c, "found") /\ End(c)
  BY DeleteRoleDoes DEF Commit, At, DeleteRole
<1>2. PICK r \in Custom : r = call[c].role
  BY DeleteRoleDoes
<1>3. \A u \in Users : Exists(u) => user[u].role # r
  BY <1>1, <1>2 DEF Calm, Current
<1>4. /\ UNCHANGED <<owner, members>> /\ \A x \in Custom \ {r} : custom'[x] = custom[x]
      /\ \A u \in Users : user'[u] = IF Exists(u) THEN Without(user[u], r) ELSE user[u]
  BY <1>2, DeleteRoleDoes DEF Types, TablesOk
<1>5. \A u \in Users : user'[u] = user[u]
  BY <1>3, <1>4 DEF Without
<1>6. ExactRows' /\ OwnersStay'
  BY <1>1, <1>4, <1>5, OwnersIn, AccountsCalm DEF Exists
<1>7. Ranked'
  BY <1>3, <1>4, <1>5 DEF Calm, Ranked, Exists, RoleExists
<1>8. Administered'
  BY <1>1, <1>5, DroppedStays DEF Calm, Administered, Present, Exists, PlatformAdmin
<1> QED
  BY <1>1, <1>6, <1>7, <1>8, OnlyOne DEF InOrder

\* Creating a workspace keeps them in order: its owner is about to be a member.
LEMMA CreateWorkspaceCalm ==
  ASSUME Types, Calm, NEW c \in Calls, CreateWorkspace(c) PROVE InOrder' /\ Current(c)'
<1>1. Commit(c) /\ At(c, "workspace") /\ ~ At(c, "found")
  BY CreateWorkspaceDoes DEF Commit, At
<1>2. CASE NoChange /\ End(c)
  BY <1>1, <1>2, NoChangeCalm, OnlyOne
<1>3. CASE ~ (NoChange /\ End(c))
  <2>1. PICK w \in Workspaces, u \in Users : w = call[c].w /\ u = call[c].u
    BY CreateWorkspaceDoes
  <2>2. /\ owner[w] = None /\ Exists(u) /\ GoesOn(c)
        /\ UNCHANGED <<user, custom, members>>
        /\ owner'[w] = u /\ \A x \in Workspaces \ {w} : owner'[x] = owner[x]
    BY <1>3, <2>1, CreateWorkspaceDoes DEF Types, TablesOk
  <2>3. u # None
    BY ConstantsAssumption
  <2>4. \A m \in members : m.w \in Workspaces /\ m.w # w
    BY <2>2 DEF Calm, ExactRows, Types, TablesOk, IsMember
  <2>5. call'[c].pc = "found" /\ call'[c].w = w /\ call'[c].u = u
    BY <1>1, <2>1, <2>2, GoesOnMoves DEF At
  <2>6. ExactRows'
    BY <2>2, <2>4 DEF Calm, ExactRows, Exists
  <2>7. OwnersStay'
    BY <1>1, <2>2, <2>5, OwnersIn DEF OwnersAreMembers, OwnersStay, Exists, At
  <2>8. Current(c)'
    BY <2>2, <2>4, <2>5 DEF Current, At, RowsOf
  <2> QED
    BY <1>1, <2>2, <2>6, <2>7, <2>8, AccountsStay DEF InOrder
<1> QED
  BY <1>2, <1>3

\* One row more, of somebody who exists and has none there.
LEMMA OneMoreCalm ==
  ASSUME Types, Calm, NEW w \in Workspaces, NEW u \in Users, NEW role \in SpaceRoles,
         RowsOf(w, u) = {}, Exists(u), owner[w] # None,
         members' = members \cup {Row(w, u, role)}, UNCHANGED <<user, owner>>,
         \A x \in Workspaces : owner[x] # None =>
           (x = w /\ owner[x] = u) \/ \E m \in members : m.w = x /\ m.u = owner[x]
  PROVE  ExactRows' /\ OwnersStay'
<1>1. PICK new : new = Row(w, u, role)
  OBVIOUS
<1>2. new.w = w /\ new.u = u /\ members' = members \cup {new}
  BY <1>1, RowIsMember
<1>3. /\ members \cup {new} \subseteq MemberRows
      /\ \A m, o \in members \cup {new} : m.w = o.w /\ m.u = o.u => m = o
  BY <1>1, OneMore
<1>4. \A m \in members \cup {new} : Exists(m.u) /\ owner[m.w] # None
  BY <1>2 DEF Calm, ExactRows
<1>5. ExactRows'
  BY <1>2, <1>3, <1>4 DEF ExactRows, Exists
<1>6. OwnersStay'
  BY <1>2 DEF Calm, OwnersStay, Exists
<1> QED
  BY <1>5, <1>6

\* Looking for a row in infras keeps them in order.
LEMMA LookCalm ==
  ASSUME Types, Calm, NEW c \in Calls, Look(c) PROVE InOrder' /\ Current(c)'
<1>1. Commit(c) /\ At(c, "look") /\ ~ At(c, "found")
  BY MembersDo DEF Commit, At
<1>2. NoChange
  BY MembersDo DEF NoChange
<1>3. CASE End(c)
  BY <1>1, <1>2, <1>3, NoChangeCalm, OnlyOne
<1>4. CASE ~ End(c)
  <2>1. PICK u \in Users : u = call[c].u
    BY <1>1, Shapes DEF At
  <2>2. Goto(c, "join") /\ RowsOf(Default, u) = {}
    BY <1>4, <2>1 DEF Look
  <2>3. Exists(u)
    BY <1>1, <2>1 DEF Calm, Current
  <2>4. call'[c].pc = "join" /\ call'[c].u = u
    BY <1>1, <2>1, <2>2, GoesOnMoves DEF GoesOn, At
  <2>5. Current(c)'
    BY <1>2, <2>2, <2>3, <2>4 DEF NoChange, Current, At, Exists, RowsOf
  <2> QED
    BY <1>1, <1>2, <2>5, NoChangeCalm
<1> QED
  BY <1>3, <1>4

\* Joining infras keeps them in order: there is no row yet.
LEMMA JoinCalm ==
  ASSUME Types, Calm, NEW c \in Calls, Join(c) PROVE InOrder' /\ Current(c)'
<1>1. Commit(c) /\ At(c, "join") /\ ~ At(c, "found") /\ End(c)
  BY MembersDo DEF Commit, At, Join
<1>2. PICK u \in Users : u = call[c].u
  BY MembersDo
<1>3. Exists(u) /\ RowsOf(Default, u) = {}
  BY <1>1, <1>2 DEF Calm, Current
<1>4. members' = members \cup {Row(Default, u, "developer")} /\ UNCHANGED <<user, custom, owner>>
  BY <1>2, <1>3, MembersDo
<1>5. Default \in Workspaces /\ owner[Default] # None /\ "developer" \in SpaceRoles
  BY ConstantsAssumption DEF Types, TablesOk, SpaceRoles
<1>6. ExactRows' /\ OwnersStay'
  BY <1>1, <1>3, <1>4, <1>5, OwnersIn, OneMoreCalm DEF OwnersAreMembers
<1> QED
  BY <1>1, <1>4, <1>6, AccountsStay, OnlyOne DEF InOrder

\* The second commit of a new workspace makes its owner a member.
LEMMA FoundCalm ==
  ASSUME Types, Calm, NEW c \in Calls, Found(c) PROVE InOrder' /\ Current(c)'
<1>1. Commit(c) /\ At(c, "found") /\ End(c)
  BY MembersDo DEF Commit, Found
<1>2. PICK w \in Workspaces, u \in Users : w = call[c].w /\ u = call[c].u
  BY MembersDo
<1>3. owner[w] = u /\ RowsOf(w, u) = {}
  BY <1>1, <1>2 DEF Calm, Current
<1>4. members' = members \cup {Row(w, u, "admin")} /\ UNCHANGED <<user, custom, owner>>
  BY <1>2, MembersDo
<1>5. owner[w] # None /\ Exists(u) /\ "admin" \in SpaceRoles
  BY <1>3, ConstantsAssumption DEF Calm, OwnersStay, SpaceRoles
<1>6. \A d \in Calls \ {c} : ~ At(d, "found")
  BY <1>1, OnlyOne DEF At
<1>7. \A x \in Workspaces : owner[x] # None =>
        (x = w /\ owner[x] = u) \/ \E m \in members : m.w = x /\ m.u = owner[x]
  BY <1>2, <1>3, <1>6 DEF Calm, OwnersStay
<1>8. ExactRows' /\ OwnersStay'
  BY <1>3, <1>4, <1>5, <1>7, OneMoreCalm
<1> QED
  BY <1>1, <1>4, <1>8, AccountsStay, OnlyOne DEF InOrder

\* The row of a member is written, and the workspace may become his.
LEMMA WritesCalm ==
  ASSUME Types, Calm, OwnersAreMembers, NEW w \in Workspaces, NEW u \in Users,
         NEW role \in SpaceRoles, NEW row, RowIsFound(w, u, row), Writable(u, row, role),
         owner[w] # None, members' = Written(w, u, row, role), UNCHANGED <<user, custom>>,
         \/ UNCHANGED owner
         \/ Exists(u) /\ owner' = [owner EXCEPT ![w] = u]
  PROVE  ExactRows' /\ OwnersStay'
<1>1. /\ members' \subseteq MemberRows
      /\ \A m, o \in members' : m.w = o.w /\ m.u = o.u => m = o
      /\ \A m \in members' : Exists(m.u) /\ owner[m.w] # None
      /\ \A m \in members : \E o \in members' : o.w = m.w /\ o.u = m.u
      /\ \E o \in members' : o.w = w /\ o.u = u
  BY WritingIsExact
<1>2. \A x \in Workspaces : \/ owner'[x] = owner[x]
                            \/ x = w /\ owner'[x] = u /\ Exists(u)
  BY DEF Types, TablesOk
<1>3. u # None
  BY ConstantsAssumption
<1>4. \A m \in members' : m.w \in Workspaces
  BY <1>1 DEF MemberRows
<1>5. ExactRows'
  BY <1>1, <1>2, <1>3, <1>4 DEF ExactRows, Exists
<1>6. OwnersStay'
  <2> SUFFICES ASSUME NEW x \in Workspaces, owner'[x] # None
               PROVE  /\ user'[owner'[x]] \notin {None, Gone}
                      /\ \E m \in members' : m.w = x /\ m.u = owner'[x]
    BY DEF OwnersStay, Exists
  <2>1. CASE owner'[x] = owner[x]
    BY <1>1, <2>1 DEF OwnersAreMembers, Exists
  <2>2. CASE x = w /\ owner'[x] = u /\ Exists(u)
    BY <1>1, <2>2 DEF Exists
  <2> QED
    BY <1>2, <2>1, <2>2
<1> QED
  BY <1>5, <1>6

\* Transferring a workspace keeps them in order: the former owner's row stays.
LEMMA TransferCalm ==
  ASSUME Types, Calm, NEW c \in Calls, Transfer(c) PROVE InOrder' /\ Current(c)'
<1>1. Commit(c) /\ At(c, "owner") /\ ~ At(c, "found") /\ End(c)
  BY TransferDoes DEF Commit, At, Transfer, Fail
<1>2. CASE NoChange
  BY <1>1, <1>2, NoChangeCalm, OnlyOne
<1>3. CASE ~ NoChange
  <2>0. PICK row : row = call[c].row
    OBVIOUS
  <2>1. PICK w \in Workspaces, u \in Users : w = call[c].w /\ u = call[c].u /\ row = call[c].row
    BY <2>0, TransferDoes
  <2>2. owner[w] # None /\ RowIsFound(w, u, row)
    BY <1>1, <2>1 DEF Calm, Current
  <2>3. /\ Exists(u) /\ Writable(u, row, "admin") /\ members' = Written(w, u, row, "admin")
        /\ UNCHANGED <<user, custom>> /\ owner' = [owner EXCEPT ![w] = u]
    BY <1>3, <2>1, TransferDoes DEF Writes
  <2>4. ExactRows' /\ OwnersStay'
    BY <1>1, <2>2, <2>3, OwnersIn, WritesCalm DEF SpaceRoles
  <2> QED
    BY <1>1, <2>3, <2>4, AccountsStay, OnlyOne DEF InOrder
<1> QED
  BY <1>2, <1>3

\* Adding a member keeps them in order.
LEMMA AddCalm ==
  ASSUME Types, Calm, NEW c \in Calls, Add(c) PROVE InOrder' /\ Current(c)'
<1>1. Commit(c) /\ At(c, "add") /\ ~ At(c, "found") /\ End(c)
  BY AddDoes DEF Commit, At, Add, Fail
<1>2. CASE NoChange
  BY <1>1, <1>2, NoChangeCalm, OnlyOne
<1>3. CASE ~ NoChange
  <2>0. PICK row : row = call[c].row
    OBVIOUS
  <2>1. PICK w \in Workspaces, u \in Users, role \in SpaceRoles :
          w = call[c].w /\ u = call[c].u /\ role = call[c].role /\ row = call[c].row
    BY <2>0, AddDoes
  <2>2. owner[w] # None /\ RowIsFound(w, u, row)
    BY <1>1, <2>1 DEF Calm, Current
  <2>3. /\ Writable(u, row, role) /\ members' = Written(w, u, row, role)
        /\ UNCHANGED <<user, custom, owner>>
    BY <1>3, <2>1, AddDoes DEF Writes
  <2>4. ExactRows' /\ OwnersStay'
    BY <1>1, <2>2, <2>3, OwnersIn, WritesCalm
  <2> QED
    BY <1>1, <2>3, <2>4, AccountsStay, OnlyOne DEF InOrder
<1> QED
  BY <1>2, <1>3

\* Removing a member keeps them in order: he is not the owner.
LEMMA RemoveCalm ==
  ASSUME Types, Calm, NEW c \in Calls, Remove(c) PROVE InOrder' /\ Current(c)'
<1>1. Commit(c) /\ At(c, "remove") /\ ~ At(c, "found") /\ End(c)
  BY MembersDo DEF Commit, At, Remove
<1>0. PICK row : row = call[c].row
  OBVIOUS
<1>2. PICK w \in Workspaces, u \in Users : w = call[c].w /\ u = call[c].u /\ row = call[c].row
  BY <1>0, <1>1, Shapes DEF At
<1>3. owner[w] # u /\ row.w = w /\ row.u = u
  BY <1>1, <1>2 DEF Calm, Current, RowsOf
<1>4. members' = {m \in members : ~ Same(m, row)} /\ UNCHANGED <<user, custom, owner>>
  BY <1>2, MembersDo
<1>5. ExactRows'
  BY <1>4 DEF Calm, ExactRows, Exists
<1>6. \A m \in members : m.u = owner[m.w] => m \in members'
  BY <1>3, <1>4 DEF Same
<1>7. OwnersStay'
  BY <1>1, <1>4, <1>6, OwnersIn DEF OwnersAreMembers, OwnersStay, Exists
<1> QED
  BY <1>1, <1>4, <1>5, <1>7, AccountsStay, OnlyOne DEF InOrder

\* Every commit keeps the calm.
LEMMA CommitCalm ==
  ASSUME Types, Calm, NEW c \in Calls, Commit(c) PROVE Calm'
<1>1. InOrder' /\ Current(c)'
  BY CreateUserCalm, LookCalm, JoinCalm, SetRoleCalm, SetFlagsCalm, DeleteUserCalm, EditRoleCalm,
     DeleteRoleCalm, CreateWorkspaceCalm, FoundCalm, TransferCalm, AddCalm, RemoveCalm DEF Commit
<1>2. OneRequest' /\ \A d \in Calls \ {c} : Current(d)'
  BY OnlyOne
<1>3. \A d \in Calls : Current(d)'
  BY <1>1, <1>2
<1> QED
  BY <1>1, <1>2, <1>3 DEF Calm, InOrder

-----------------------------------------------------------------------------
(* Starts and new requests keep the calm *)

\* A start keeps accounts, and administrators.
LEMMA RestartAccounts ==
  ASSUME Types, Calm, NEW reset \in BOOLEAN, Restart(reset)
  PROVE  /\ \A u \in Users : Exists(u) => Exists(u)'
         /\ reset => Exists(Builtin)'
         /\ Ranked' /\ Administered'
<1>1. /\ UNCHANGED <<custom, dropped>>
      /\ \A u \in Users : user'[u] = IF u = Builtin /\ reset THEN Reset
                                     ELSE IF Exists(u) THEN Assigned(u) ELSE user[u]
  BY RestartDoes
<1>2. \A x \in Account : x \notin {None, Gone}
  BY ConstantsAssumption
<1>3. \A u \in Users : Exists(u) => Assigned(u) \in Account /\ user[u] \in Account
  BY ExistingIsAccount, AssignedIsAccount
<1>4. Reset \in Account
  BY ResetIsAccount
<1>5. \A u \in Users : Exists(u) => Exists(u)'
  BY <1>1, <1>2, <1>3, <1>4 DEF Exists
<1>6. reset => Exists(Builtin)'
  BY <1>1, <1>2, <1>4, ConstantsAssumption DEF Exists
<1>7. Ranked'
  <2> SUFFICES ASSUME NEW u \in Users \ {Builtin}, Exists(u)'
               PROVE  user'[u].role \in Roles /\ RoleExists(user'[u].role)
    BY <1>1 DEF Ranked, RoleExists
  <2>1. Exists(u)
    BY <1>1 DEF Exists
  <2>2. user[u].role \in Roles /\ RoleExists(user[u].role)
    BY <2>1 DEF Calm, Ranked
  <2>3. user'[u] = user[u]
    BY <1>1, <1>3, <2>1, <2>2, AssignedIsAccount, ConstantsAssumption
  <2> QED
    BY <2>2, <2>3
<1>8. Administered'
  <2>1. ASSUME NEW a \in Present, PlatformAdmin(a) PROVE Administered'
    <3>1. a \in Users /\ Exists(a) /\ user[a].active
      BY <2>1 DEF Present
    <3>2. /\ Assigned(a).active = user[a].active
          /\ Assigned(a).flag = user[a].flag \/ Assigned(a).flag = "yes"
      BY <1>3, <3>1, AssignedIsAccount
    <3>3. user'[a].active /\ (user'[a].flag = user[a].flag \/ user'[a].flag = "yes")
      BY <1>1, <3>1, <3>2, ResetIsAccount
    <3>4. Exists(a)'
      BY <1>5, <3>1
    <3> QED
      BY <2>1, <3>1, <3>3, <3>4 DEF Administered, Present, PlatformAdmin
  <2> QED
    BY <1>1, <2>1 DEF Calm, Administered
<1> QED
  BY <1>5, <1>6, <1>7, <1>8

\* The rows that a start adds are of members that had none.
LEMMA RestartRows ==
  ASSUME Types, Calm, NEW reset \in BOOLEAN, Restart(reset)
  PROVE  \A m \in members' \ members :
           /\ m \in MemberRows /\ RowsOf(m.w, m.u) = {} /\ owner[m.w] # None
           /\ Exists(m.u) \/ (m.u = Builtin /\ reset)
           /\ m = Row(m.w, m.u, IF owner[m.w] = m.u THEN "admin" ELSE "developer")
<1> SUFFICES ASSUME NEW m \in members' \ members
             PROVE  /\ m \in MemberRows /\ RowsOf(m.w, m.u) = {} /\ owner[m.w] # None
                    /\ Exists(m.u) \/ (m.u = Builtin /\ reset)
                    /\ m = Row(m.w, m.u, IF owner[m.w] = m.u THEN "admin" ELSE "developer")
  OBVIOUS
<1>1. /\ IsMember(m) /\ owner[m.w] # None
      /\ \/ m.role = "admin" /\ owner[m.w] = m.u /\ RowsOf(m.w, m.u) = {}
            /\ m = Row(m.w, m.u, m.role)
         \/ /\ m.role = "developer" /\ m.w = Default /\ m = Row(m.w, m.u, m.role)
            /\ \/ Exists(m.u) /\ owner[Default] # m.u /\ RowsOf(Default, m.u) = {}
               \/ m.u = Builtin /\ ~ Exists(Builtin) /\ reset
  BY RestartDoes
<1>2. Exists(owner[m.w])
  BY <1>1 DEF Calm, OwnersStay, IsMember
<1>3. CASE m.role = "admin" /\ owner[m.w] = m.u /\ RowsOf(m.w, m.u) = {} /\ m = Row(m.w, m.u, m.role)
  <2>1. Row(m.w, m.u, "admin") \in MemberRows
    BY <1>1, <1>3, RowIsRow DEF IsMember, Calm
  <2> QED
    BY <1>1, <1>2, <1>3, <2>1
<1>4. ASSUME m.role = "developer", m.w = Default, m = Row(m.w, m.u, m.role),
             RowsOf(Default, m.u) = {}, owner[Default] # m.u, Exists(m.u) \/ (m.u = Builtin /\ reset)
      PROVE  /\ m \in MemberRows /\ RowsOf(m.w, m.u) = {} /\ owner[m.w] # None
             /\ Exists(m.u) \/ (m.u = Builtin /\ reset)
             /\ m = Row(m.w, m.u, IF owner[m.w] = m.u THEN "admin" ELSE "developer")
  <2>1. Row(m.w, m.u, "developer") \in MemberRows
    BY <1>1, <1>4, RowIsRow DEF IsMember, Calm
  <2> QED
    BY <1>1, <1>4, <2>1
<1>5. ASSUME m.u = Builtin, ~ Exists(Builtin), m.w = Default
      PROVE  RowsOf(Default, m.u) = {} /\ owner[Default] # m.u
  BY <1>2, <1>5 DEF Calm, ExactRows, RowsOf
<1> QED
  BY <1>1, <1>3, <1>4, <1>5

\* A start keeps the calm.
LEMMA RestartCalm ==
  ASSUME Types, Calm, NEW reset \in BOOLEAN, Restart(reset) PROVE Calm'
<1>1. /\ \A u \in Users : Exists(u) => Exists(u)'
      /\ reset => Exists(Builtin)'
      /\ Ranked' /\ Administered'
  BY RestartAccounts
<1>2. \A m \in members' \ members :
        /\ m \in MemberRows /\ RowsOf(m.w, m.u) = {} /\ owner[m.w] # None
        /\ Exists(m.u) \/ (m.u = Builtin /\ reset)
        /\ m = Row(m.w, m.u, IF owner[m.w] = m.u THEN "admin" ELSE "developer")
  BY RestartRows
<1>3. /\ UNCHANGED owner /\ members \subseteq members'
      /\ \A w \in Workspaces : owner[w] # None => \E m \in members' : m.w = w /\ m.u = owner[w]
  BY RestartDoes
<1>4. /\ members \subseteq MemberRows
      /\ \A m, o \in members : m.w = o.w /\ m.u = o.u => m = o
      /\ \A m \in members : Exists(m.u) /\ owner[m.w] # None
  BY DEF Calm, ExactRows
<1>5. ExactRows'
  <2>1. members' \subseteq MemberRows
    BY <1>2, <1>4
  <2>2. ASSUME NEW m \in members', NEW o \in members', m.w = o.w, m.u = o.u PROVE m = o
    <3>1. CASE m \in members /\ o \in members
      BY <1>4, <2>2, <3>1
    <3>2. CASE m \notin members /\ o \notin members
      BY <1>2, <2>2, <3>2
    <3>3. CASE m \in members /\ o \notin members
      BY <1>2, <2>2, <3>3 DEF RowsOf
    <3>4. CASE m \notin members /\ o \in members
      BY <1>2, <2>2, <3>4 DEF RowsOf
    <3> QED
      BY <3>1, <3>2, <3>3, <3>4
  <2>3. ASSUME NEW m \in members' PROVE user'[m.u] \notin {None, Gone} /\ owner'[m.w] # None
    <3>1. m.u \in Users
      BY <2>1 DEF MemberRows
    <3> QED
      BY <1>1, <1>2, <1>3, <1>4, <3>1 DEF Exists
  <2> QED
    BY <2>1, <2>2, <2>3 DEF ExactRows, Exists
<1>6. OwnersStay'
  <2>1. \A w \in Workspaces : owner[w] # None => owner[w] \in Users /\ Exists(owner[w])
    BY DEF Calm, OwnersStay, Types, TablesOk
  <2> QED
    BY <1>1, <1>3, <2>1 DEF OwnersStay, Exists
<1>7. \A c \in Calls : call'[c].pc = "idle"
  BY DEF Restart, Idle
<1>8. OneRequest' /\ \A c \in Calls : Current(c)'
  BY <1>7, IdleWillBeCurrent DEF OneRequest, At
<1> QED
  BY <1>1, <1>5, <1>6, <1>8 DEF Calm

\* What a request loads is so when it is taken up.
LEMMA AskedIsCurrent ==
  ASSUME Types, Calm, NEW c \in Calls, NEW a \in Present, Asks(c, a) PROVE Current(c)'
<1>1. PICK q : q = call'[c] /\ Asked(a, q)
  BY TakenUp
<1>2. UNCHANGED <<user, custom, owner, members, dropped>>
  BY TakenUp
<1>3. q.pc = "flags" => IF q.own THEN q.new.active /\ PlatformAdmin(q.u)
                        ELSE \E x \in Present : x # q.u /\ PlatformAdmin(x)
  BY <1>1 DEF Asked
<1>4. q.pc = "deluser" => dropped \/ \E x \in Present : x # q.u /\ PlatformAdmin(x)
  <2> SUFFICES ASSUME q.pc = "deluser", ~ dropped
               PROVE  \E x \in Present : x # q.u /\ PlatformAdmin(x)
    OBVIOUS
  <2>1. a # q.u /\ (PlatformAdmin(q.u) => PlatformAdmin(a))
    BY <1>1 DEF Asked
  <2>2. PICK x \in Present : PlatformAdmin(x)
    BY DEF Calm, Administered
  <2> QED
    BY <2>1, <2>2
<1>5. q.pc \in {"owner", "add"} => owner[q.w] # None /\ RowIsFound(q.w, q.u, q.row)
  BY <1>1 DEF Asked, RowFound, RowIsFound
<1>6. /\ q.pc \notin {"look", "join", "found"}
      /\ q.pc = "flags" => /\ Exists(q.u) /\ q.old = user[q.u] /\ q.new.role = q.old.role
                           /\ q.new.flag \in {"yes", "no", q.old.flag}
      /\ q.pc = "delrole" => \A u \in Users : Exists(u) => user[u].role # q.role
      /\ q.pc = "remove" => owner[q.w] # q.u /\ q.row \in RowsOf(q.w, q.u)
  BY <1>1 DEF Asked
<1> QED
  BY <1>1, <1>2, <1>3, <1>4, <1>5, <1>6
  DEF Current, At, Exists, RowsOf, RowIsFound, Present, PlatformAdmin

\* A request that overlaps no other keeps the calm.
LEMMA BeginCalm ==
  ASSUME Types, Calm, NEW c \in Calls, NEW a \in Present, Asks(c, a), ~ crossed' PROVE Calm'
<1>1. /\ a \in Users /\ Begin(c, a, call'[c])
      /\ UNCHANGED <<user, custom, owner, members, dropped>>
  BY TakenUp
<1>2. \A d \in Calls : call[d].pc = "idle"
  BY <1>1 DEF Begin, At
<1>3. \A d \in Calls \ {c} : call'[d].pc = "idle"
  BY <1>1, <1>2, BeginMoves
<1>4. OneRequest'
  BY <1>3 DEF OneRequest, At
<1>5. \A d \in Calls : Current(d)'
  BY <1>3, IdleWillBeCurrent, AskedIsCurrent
<1>6. ExactRows' /\ Ranked' /\ Administered'
  BY <1>1 DEF Calm, ExactRows, Ranked, Administered, Exists, Present, PlatformAdmin, RoleExists
<1>7. \A d \in Calls : ~ At(d, "found")
  BY <1>2 DEF At
<1>8. OwnersStay'
  BY <1>1, <1>7 DEF Calm, OwnersStay, Exists
<1> QED
  BY <1>4, <1>5, <1>6, <1>8 DEF Calm

\* It is calm at first.
LEMMA InitCalm ==
  ASSUME Init PROVE Calm
<1>1. Types
  BY InitTypes
<1>2. \A c \in Calls : call[c].pc = "idle"
  BY DEF Init, Idle
<1>3. OneRequest /\ \A c \in Calls : Current(c)
  BY <1>2, IdleIsCurrent DEF OneRequest, At
<1>4. \A u \in Users : Exists(u) <=> user[u] # None
  <2>1. \A f \in Flags, r \in {"super_admin", "developer"} \cup Custom :
          [active |-> TRUE, flag |-> f, role |-> r] \in Account
    BY NamedRoles DEF Account, Roles
  <2>2. \A u \in Users : user[u] = None \/ user[u] \in Account
    BY <2>1 DEF Init
  <2> QED
    BY <2>2, ConstantsAssumption DEF Exists
<1>5. PICK present : present = {v \in Users : user[v] # None}
  OBVIOUS
<1>6. \A m \in members : \E u \in present :
        m = [w |-> Default, u |-> u, n |-> 1, role |-> IF u = Builtin THEN "admin" ELSE "developer"]
  BY <1>5 DEF Init
<1>7. \A u \in present :
        [w |-> Default, u |-> u, n |-> 1, role |-> IF u = Builtin THEN "admin" ELSE "developer"] \in members
  BY <1>5 DEF Init
<1>8. owner = [w \in Workspaces |-> IF w = Default THEN Builtin ELSE None] /\ Builtin \in present
  BY <1>5, ConstantsAssumption DEF Init
<1>9. ExactRows
  <2>1. \A u \in present :
          [w |-> Default, u |-> u, n |-> 1, role |-> IF u = Builtin THEN "admin" ELSE "developer"]
            \in MemberRows
    BY <1>5, ConstantsAssumption DEF MemberRows, SpaceRoles
  <2> QED
    BY <1>4, <1>5, <1>6, <1>8, <2>1, ConstantsAssumption DEF ExactRows
<1>10. OwnersStay
  BY <1>4, <1>5, <1>7, <1>8 DEF OwnersStay
<1>11. Ranked
  <2> SUFFICES ASSUME NEW u \in Users, Exists(u) PROVE user[u].role \in Roles /\ RoleExists(user[u].role)
    BY DEF Ranked
  <2>1. user[u].role \in {"super_admin", "developer"} \cup {x \in Custom : custom[x] # None}
    BY <1>4 DEF Init
  <2>2. \A r \in Custom : custom[r] # Gone
    BY ConstantsAssumption DEF Init
  <2>3. "super_admin" \notin Custom /\ "developer" \notin Custom
    BY ConstantsAssumption DEF System, Seeded
  <2> QED
    BY <2>1, <2>2, <2>3, NamedRoles DEF RoleExists, Roles
<1>12. Administered
  <2>1. user[Builtin] # None /\ user[Builtin].flag # "no" /\ Builtin \in Users
    BY ConstantsAssumption DEF Init
  <2>2. user[Builtin].active /\ user[Builtin].flag \in Flags
    BY <2>1 DEF Init
  <2> QED
    BY <1>4, <2>1, <2>2 DEF Administered, Present, PlatformAdmin, Flags
<1> QED
  BY <1>3, <1>9, <1>10, <1>11, <1>12 DEF Calm

\* Every step keeps the calm, or is the one by which two requests overlap.
LEMMA CalmStep ==
  ASSUME Types, CalmInv, [Next]_vars PROVE CalmInv'
<1>1. CASE UNCHANGED vars
  <2>1. /\ UNCHANGED <<OneRequest, Administered>>
        /\ UNCHANGED <<ExactRows, OwnersStay, Ranked>>
        /\ \A c \in Calls : UNCHANGED Current(c)
        /\ UNCHANGED crossed
    BY <1>1 DEF vars, OneRequest, ExactRows, OwnersStay, Ranked, Administered, Current,
                At, Exists, RowsOf, RowIsFound, Present, PlatformAdmin, RoleExists
  <2> QED
    BY <2>1 DEF CalmInv, Calm
<1>2. CASE crossed /\ Next
  <2>1. crossed'
    BY <1>2, DroppedStays, RestartDoes, TakenUp, Steps DEF Begin
  <2> QED
    BY <2>1 DEF CalmInv
<1>3. CASE Calm /\ Next
  BY <1>3, CommitCalm, RestartCalm, BeginCalm, Steps DEF CalmInv
<1> QED
  BY <1>1, <1>2, <1>3 DEF CalmInv

\* While it is calm, accounts are in order.
LEMMA CalmIsInOrder ==
  ASSUME Types, CalmInv PROVE AccountsInOrder
<1>1. CASE crossed
  BY <1>1 DEF AccountsInOrder, AdministratorRemains, RowsAreExact, RoleKept
<1>2. CASE Calm
  <2>1. AdministratorRemains /\ RoleKept
    BY <1>2 DEF Calm, Administered, Ranked, AdministratorRemains, RoleKept
  <2>2. ASSUME NEW w \in Workspaces, NEW u \in Users PROVE Cardinality(RowsOf(w, u)) <= 1
    <3>1. CASE RowsOf(w, u) = {}
      BY <3>1, FS_EmptySet
    <3>2. ASSUME NEW m \in RowsOf(w, u) PROVE Cardinality(RowsOf(w, u)) <= 1
      <4>1. RowsOf(w, u) = {m}
        BY <1>2, <3>2 DEF Calm, ExactRows, RowsOf
      <4>2. Cardinality({m}) = 1
        BY FS_Singleton
      <4> QED
        BY <4>1, <4>2
    <3> QED
      BY <3>1, <3>2
  <2>3. RowsAreExact
    BY <1>2, <2>2 DEF Calm, OwnersStay, RowsAreExact, RowsOf
  <2> QED
    BY <2>1, <2>3 DEF AccountsInOrder
<1> QED
  BY <1>1, <1>2 DEF CalmInv

(* As long as requests do not overlap: somebody can administer unless an
   administrator gave up his own flag, a member has one row in a workspace and
   its owner has one, and accounts have roles that exist; whatever is created,
   edited, assigned, transferred or deleted in whatever order, and however
   often the server starts anew. *)
THEOREM InOrderHolds == Spec => []AccountsInOrder
<1>1. Init => CalmInv
  BY InitCalm DEF CalmInv
<1>2. Types /\ CalmInv /\ [Next]_vars => CalmInv'
  BY CalmStep
<1>3. Types /\ CalmInv => AccountsInOrder
  BY CalmIsInOrder
<1> QED
  BY <1>1, <1>2, <1>3, TypesHold, PTL DEF Spec

=============================================================================
