------------------------------- MODULE Access -------------------------------
(***************************************************************************)
(* Who may do what in GIDO: accounts and platform roles (core/access.py,   *)
(* api/admin_rbac.py), workspaces and their members (api/workspace.py,     *)
(* services/workspace_default.py), the decisions every endpoint takes from *)
(* them (services/rbac.py), and what is seeded and repaired when the       *)
(* server starts (services/rbac_seed.py, main.py).                         *)
(*                                                                         *)
(* An endpoint loads rows and decides in one step and commits in another;  *)
(* requests overlap between the two.  Nothing makes a member row unique.   *)
(***************************************************************************)
EXTENDS Naturals, FiniteSets

CONSTANTS
    Users,       \* accounts, by username
    Builtin,     \* the account named admin
    Custom,      \* codes of roles that administrators create
    Grants,      \* sets of permission codes that a custom role may be given
    Offered,     \* roles and space roles that requests give (any, in the code)
    Workspaces,
    Default,     \* the workspace infras
    Calls,       \* requests under way
    MaxCalls,    \* bound on the requests that are made
    None, Gone

SystemCodes == {"system:user:write", "system:user:delete", "system:role:write", "system:role:delete"}

\* The other permission codes; those that no decision here tells apart are
\* represented by studio:write, operation:write and workflow:run.
BusinessCodes ==
    {"workspace:read", "workspace:member:manage", "datasource:read", "datasource:write",
     "probe:read", "datamap:read", "studio:read", "studio:write", "workflow:read",
     "workflow:run", "operation:read", "operation:write", "quality:read", "stream:read",
     "integration:read"}
Codes == SystemCodes \cup BusinessCodes

\* seed_roles: the built-in roles, written again at every start.
Seeded ==
    [super_admin |-> Codes,
     platform_admin |-> Codes,
     developer |-> BusinessCodes,
     workspace_steward |-> {"workspace:read", "datasource:read", "datasource:write"},
     analyst |-> {"workspace:read", "probe:read", "datamap:read", "datasource:read"},
     operator |-> BusinessCodes \ {"workspace:member:manage", "datasource:write", "studio:write"}]
System == DOMAIN Seeded
Roles == System \cup Custom
SpaceRoles == {"viewer", "developer", "admin"}

\* is_admin is NULL in accounts older than the column.
Flags == {"yes", "no", "null"}
Account == [active : BOOLEAN, flag : Flags, role : Roles \cup {None}]
MemberRows == [w : Workspaces, u : Users, n : Nat, role : SpaceRoles]

ASSUME ConstantsAssumption ==
    /\ Builtin \in Users /\ Default \in Workspaces
    /\ Custom \cap System = {} /\ None \notin Users \cup Roles
    /\ Grants \subseteq SUBSET Codes /\ Offered \subseteq Roles \cup SpaceRoles
    /\ MaxCalls \in Nat /\ IsFiniteSet(Calls)
    /\ None # Gone /\ \A x \in {None, Gone} : x \notin Account \cup MemberRows
    /\ \A codes \in SUBSET UNION Grants : codes \notin {None, Gone}

VARIABLES
    user,      \* dw_users: not yet created (None), an account, or deleted (Gone)
    custom,    \* custom roles likewise, with their permission codes
    owner,     \* dw_workspaces: None, or the owner
    members,   \* dw_workspace_members; n tells rows of one pair apart
    call,      \* requests, with what they have loaded
    \* history
    caller,    \* whether who asks manages accounts, and the workspaces he manages
    dropped,   \* somebody has given up his own is_admin
    crossed,   \* two requests have overlapped
    made       \* bound

vars == <<user, custom, owner, members, call, caller, dropped, crossed, made>>

Weight == [viewer |-> 1, developer |-> 2, admin |-> 3]
Idle == [pc |-> "idle"]
Nobody == [accounts |-> FALSE, spaces |-> {}]

----------------------------------------------------------------------------
(* Decisions: core/access.py *)

Exists(u) == user[u] \notin {None, Gone}
RoleExists(r) == r \in Custom => custom[r] \notin {None, Gone}
CodesOf(r) == IF r \in System THEN Seeded[r] ELSE custom[r]

PlatformAdmin(u) == user[u].flag = "yes" \/ (u = Builtin /\ user[u].flag = "null")
PlatformManager(u) == PlatformAdmin(u) \/ user[u].role \in {"super_admin", "platform_admin"}
Permissions(u) ==
    IF PlatformManager(u) THEN Codes ELSE IF user[u].role = None THEN {} ELSE CodesOf(user[u].role)
Has(u, code) == code \in Permissions(u)

(* Decisions: services/rbac.py *)

RowsOf(w, u) == {m \in members : m.w = w /\ m.u = u}

\* check_workspace_permission: of several rows of a member any may be found.
Passes(u, w, min) ==
    \/ PlatformManager(u)
    \/ owner[w] = u
    \/ \E m \in RowsOf(w, u) : Weight[m.role] >= Weight[min]

UserRoles(u, w) ==
    IF PlatformManager(u) \/ owner[w] = u THEN {"admin"}
    ELSE IF RowsOf(w, u) = {} THEN {"none"} ELSE {m.role : m \in RowsOf(w, u)}

FullControl(u, w) == PlatformManager(u) \/ "admin" \in UserRoles(u, w)

ManagesMembers(u, w) == Has(u, "workspace:member:manage") \/ Passes(u, w, "admin")

\* assert_workspace_data_capability
Capable(u, w, min, code) ==
    \/ FullControl(u, w) /\ Passes(u, w, "viewer")
    \/ Passes(u, w, min) /\ Has(u, code)

\* require_workflow, require_task_node and their like: what reading asks for.
ReadMin(kind) == IF kind \in {"datasource", "datamap"} THEN "viewer" ELSE "developer"
Kinds == {"workflow", "operation", "stream", "quality", "studio", "integration", "datasource", "datamap"}
ReadCode ==
    [workflow |-> "workflow:read", operation |-> "operation:read", stream |-> "stream:read",
     quality |-> "quality:read", studio |-> "studio:read", integration |-> "integration:read",
     datasource |-> "datasource:read", datamap |-> "datamap:read"]
MayRead(u, w, kind) == Capable(u, w, ReadMin(kind), ReadCode[kind])

\* Mutant of Accessible: owners are listed by their member rows.
AccessibleByRow(u) == {w \in Workspaces : owner[w] # None /\ (PlatformManager(u) \/ RowsOf(w, u) # {})}

\* get_accessible_workspace_ids, workspace_ids_where_user_space_admin
Accessible(u) ==
    {w \in Workspaces : owner[w] # None /\ (PlatformManager(u) \/ owner[w] = u \/ RowsOf(w, u) # {})}
SpaceAdminOf(u) ==
    {w \in Workspaces : owner[w] = u \/ \E m \in RowsOf(w, u) : m.role = "admin"}

\* resolve_default_workspace_id: infras, or the oldest of those he may enter.
Landing(u) ==
    IF PlatformManager(u) \/ Default \in Accessible(u) THEN {Default} ELSE Accessible(u)

\* After init_db and some work of the administrator on his own.
Init ==
    /\ custom \in [Custom -> {None} \cup Grants]
    /\ user \in [Users -> {None} \cup
                   {[active |-> TRUE, flag |-> f, role |-> r] :
                      f \in Flags, r \in {"super_admin", "developer"} \cup {x \in Custom : custom[x] # None}}]
    /\ user[Builtin] # None /\ user[Builtin].role = "super_admin" /\ user[Builtin].flag # "no"
    /\ user[Builtin].flag = "null" => custom = [r \in Custom |-> None]
    /\ \A u \in Users \ {Builtin} : user[u] # None => user[u].flag = "no" /\ user[u].role # "super_admin"
    /\ owner = [w \in Workspaces |-> IF w = Default THEN Builtin ELSE None]
    /\ members = {[w |-> Default, u |-> u, n |-> 1, role |-> IF u = Builtin THEN "admin" ELSE "developer"] :
                     u \in {v \in Users : user[v] # None}}
    /\ call = [c \in Calls |-> Idle] /\ caller = [c \in Calls |-> Nobody]
    /\ dropped = FALSE /\ crossed = FALSE /\ made = 0

----------------------------------------------------------------------------
(* Requests *)

Rows == <<user, custom, owner, members>>
Present == {u \in Users : Exists(u) /\ user[u].active}
At(c, pc) == call[c].pc = pc
Goto(c, pc) == call' = [call EXCEPT ![c].pc = pc] /\ UNCHANGED caller
End(c) == call' = [call EXCEPT ![c] = Idle] /\ caller' = [caller EXCEPT ![c] = Nobody]
Keep == UNCHANGED <<dropped, crossed, made>>

\* get_current_user, and what the endpoint has loaded. Requests that would change
\* nothing are left out.
Begin(c, a, loaded) ==
    /\ At(c, "idle") /\ made < MaxCalls
    /\ call' = [call EXCEPT ![c] = loaded]
    /\ caller' = [caller EXCEPT ![c] =
                    [accounts |-> Permissions(a) \cap {"system:user:write", "system:role:write"} # {},
                     spaces |-> {w \in Workspaces : ManagesMembers(a, w)}]]
    /\ made' = made + 1
    /\ crossed' = (crossed \/ \E d \in Calls \ {c} : ~At(d, "idle"))
    /\ UNCHANGED <<Rows, dropped>>

\* The transaction is rolled back: a row is gone, a key is taken, or somebody
\* refers to what is deleted.
Fail(c) == End(c) /\ UNCHANGED Rows

\* A row of a member to write: the one found, or None.
RowFound(w, u) == IF RowsOf(w, u) = {} THEN {None} ELSE RowsOf(w, u)
Fresh(w, u) ==
    CHOOSE n \in 1 .. 2 * Cardinality(Calls) + 2 :
        /\ \A m \in RowsOf(w, u) : m.n # n
        /\ \A c \in Calls : "row" \in DOMAIN call[c] /\ call[c].row # None => call[c].row.n # n
Row(w, u, role) == [w |-> w, u |-> u, n |-> Fresh(w, u), role |-> role]
Same(m, row) == m.w = row.w /\ m.u = row.u /\ m.n = row.n

\* The row is inserted, left as it is if it was found with the role, or updated
\* by its id, if it is still there.
Writable(u, row, role) ==
    IF row = None THEN Exists(u) ELSE row.role = role \/ \E m \in members : Same(m, row)
Written(w, u, row, role) ==
    IF row = None THEN members \cup {Row(w, u, role)}
    ELSE IF row.role = role THEN members
    ELSE {IF Same(m, row) THEN [m EXCEPT !.role = role] ELSE m : m \in members}

----------------------------------------------------------------------------
(* Accounts: admin_rbac.py, auth.py *)

CheckCreateUser(c, a, u, r) ==
    /\ user[u] = None /\ RoleExists(r)
    /\ Has(a, "system:user:write")
    /\ Begin(c, a, [pc |-> "user", u |-> u, role |-> r])
CreateUser(c) ==
    LET u == call[c].u IN
    /\ At(c, "user")
    /\ IF user[u] = None /\ RoleExists(call[c].role)
         THEN /\ user' = [user EXCEPT ![u] = [active |-> TRUE, flag |-> "no", role |-> call[c].role]]
              /\ Goto(c, "look")
              /\ UNCHANGED <<custom, owner, members>>
         ELSE Fail(c)
    /\ Keep

\* ensure_default_workspace_membership looks for the new account in infras ...
Look(c) ==
    LET u == call[c].u IN
    /\ At(c, "look")
    /\ IF owner[Default] = u \/ RowsOf(Default, u) # {}
         THEN End(c)
         ELSE Goto(c, "join")
    /\ UNCHANGED <<Rows, dropped, crossed, made>>

\* ... and adds it.
Join(c) ==
    LET u == call[c].u IN
    /\ At(c, "join")
    /\ members' = IF Exists(u) THEN members \cup {Row(Default, u, "developer")} ELSE members
    /\ End(c)
    /\ UNCHANGED <<user, custom, owner>> /\ Keep

\* Mutant of CheckSetRole: anybody may assign roles.
CheckSetRoleAnyone(c, a, u, r) ==
    /\ Exists(u) /\ RoleExists(r) /\ user[u].role # r
    /\ Begin(c, a, [pc |-> "role", u |-> u, role |-> r])

CheckSetRole(c, a, u, r) ==
    /\ Exists(u) /\ RoleExists(r) /\ user[u].role # r
    /\ Has(a, "system:user:write")
    /\ Begin(c, a, [pc |-> "role", u |-> u, role |-> r])

SetRole(c) ==
    LET q == call[c] IN
    /\ At(c, "role")
    /\ IF Exists(q.u) /\ RoleExists(q.role)
         THEN /\ user' = [user EXCEPT ![q.u].role = q.role]
              /\ End(c)
              /\ UNCHANGED <<custom, owner, members>>
         ELSE Fail(c)
    /\ Keep

\* What the body leaves out stays as it was loaded.
Flagged(u) ==
    IF ~Exists(u) THEN {}
    ELSE {[user[u] EXCEPT !.flag = f, !.active = x] :
            f \in {"yes", "no", user[u].flag}, x \in BOOLEAN}
CheckFlags(c, a, u, new) ==
    /\ Exists(u) /\ PlatformAdmin(a)
    /\ u = a => new.active
    /\ Begin(c, a, [pc |-> "flags", u |-> u, own |-> u = a, old |-> user[u], new |-> new])

\* Only changed columns are updated.
Merge(row, old, new) == [f \in DOMAIN row |-> IF new[f] # old[f] THEN new[f] ELSE row[f]]
SetFlags(c) ==
    LET q == call[c] IN
    /\ At(c, "flags")
    /\ IF Exists(q.u)
         THEN /\ user' = [user EXCEPT ![q.u] = Merge(@, q.old, q.new)]
              /\ End(c)
              /\ UNCHANGED <<custom, owner, members>>
         ELSE Fail(c)
    /\ dropped' = (dropped \/ (q.own /\ q.old.flag # "no" /\ q.new.flag = "no"))
    /\ UNCHANGED <<crossed, made>>

CheckDeleteUser(c, a, u) ==
    /\ Exists(u) /\ u # a
    /\ Has(a, "system:user:delete")
    /\ PlatformAdmin(u) => PlatformAdmin(a)
    /\ Begin(c, a, [pc |-> "deluser", u |-> u])

\* Foreign keys refuse it while the account is a member or an owner anywhere.
DeleteUser(c) ==
    LET u == call[c].u IN
    /\ At(c, "deluser")
    /\ IF (\A w \in Workspaces : owner[w] # u /\ RowsOf(w, u) = {})
         THEN /\ user' = [user EXCEPT ![u] = Gone]
              /\ End(c)
              /\ UNCHANGED <<custom, owner, members>>
         ELSE Fail(c)
    /\ Keep

----------------------------------------------------------------------------
(* Roles: admin_rbac.py *)

CheckCreateRole(c, a, r, codes) ==
    /\ custom[r] = None
    /\ Has(a, "system:role:write")
    /\ Begin(c, a, [pc |-> "newrole", role |-> r, codes |-> codes])
CreateRole(c) ==
    LET q == call[c] IN
    /\ At(c, "newrole")
    /\ IF custom[q.role] = None
         THEN /\ custom' = [custom EXCEPT ![q.role] = q.codes]
              /\ End(c)
              /\ UNCHANGED <<user, owner, members>>
         ELSE Fail(c)
    /\ Keep

CheckUpdateRole(c, a, r, codes) ==
    /\ custom[r] \notin {None, Gone}
    /\ Has(a, "system:role:write")
    /\ Begin(c, a, [pc |-> "codes", role |-> r, old |-> custom[r], codes |-> codes])

\* The rows of the codes that are new are inserted, those of the others deleted:
\* a key that is there already fails, and a row that is gone may.
UpdateRole(c) ==
    LET q == call[c]
        adds == q.codes \ q.old
        drops == q.old \ q.codes
        now == IF custom[q.role] = Gone THEN {} ELSE custom[q.role]
        fits == custom[q.role] # Gone /\ adds \cap now = {}
    IN
    /\ At(c, "codes")
    /\ \/ /\ fits
          /\ custom' = [custom EXCEPT ![q.role] = (now \ drops) \cup adds]
          /\ End(c)
          /\ UNCHANGED <<user, owner, members>>
       \/ ~(fits /\ drops \subseteq now) /\ Fail(c)
    /\ Keep

CheckDeleteRole(c, a, r) ==
    /\ custom[r] \notin {None, Gone}
    /\ Has(a, "system:role:delete")
    /\ \A u \in Users : Exists(u) => user[u].role # r
    /\ Begin(c, a, [pc |-> "delrole", role |-> r])

\* The flush takes the role from whoever has been given it meanwhile.
DeleteRole(c) ==
    LET r == call[c].role IN
    /\ At(c, "delrole")
    /\ custom' = [custom EXCEPT ![r] = Gone]
    /\ user' = [u \in Users |-> IF Exists(u) /\ user[u].role = r
                               THEN [user[u] EXCEPT !.role = None] ELSE user[u]]
    /\ End(c)
    /\ UNCHANGED <<owner, members>> /\ Keep

----------------------------------------------------------------------------
(* Workspaces: api/workspace.py *)

CheckCreateWorkspace(c, a, w) ==
    /\ owner[w] = None
    /\ PlatformManager(a)
    /\ Begin(c, a, [pc |-> "workspace", w |-> w, u |-> a])
CreateWorkspace(c) ==
    LET q == call[c] IN
    /\ At(c, "workspace")
    /\ IF owner[q.w] = None /\ Exists(q.u)
         THEN /\ owner' = [owner EXCEPT ![q.w] = q.u]
              /\ Goto(c, "found")
              /\ UNCHANGED <<user, custom, members>>
         ELSE Fail(c)
    /\ Keep

\* The second commit of create_workspace.
Found(c) ==
    LET q == call[c] IN
    /\ At(c, "found")
    /\ members' = members \cup {Row(q.w, q.u, "admin")}
    /\ End(c)
    /\ UNCHANGED <<user, custom, owner>> /\ Keep

CheckTransfer(c, a, w, u) ==
    /\ owner[w] # None /\ Exists(u) /\ owner[w] # u
    /\ PlatformManager(a)
    /\ \E row \in RowFound(w, u) : Begin(c, a, [pc |-> "owner", w |-> w, u |-> u, row |-> row])

\* The former owner keeps his row.
Transfer(c) ==
    LET q == call[c] IN
    /\ At(c, "owner")
    /\ IF Exists(q.u) /\ Writable(q.u, q.row, "admin")
         THEN /\ owner' = [owner EXCEPT ![q.w] = q.u]
              /\ members' = Written(q.w, q.u, q.row, "admin")
              /\ End(c)
              /\ UNCHANGED <<user, custom>>
         ELSE Fail(c)
    /\ Keep

CheckAdd(c, a, w, u, role) ==
    /\ owner[w] # None /\ Exists(u)
    /\ ManagesMembers(a, w)
    /\ \E row \in RowFound(w, u) : (row # None => row.role # role) /\
         Begin(c, a, [pc |-> "add", w |-> w, u |-> u, role |-> role, row |-> row])
Add(c) ==
    LET q == call[c] IN
    /\ At(c, "add")
    /\ IF Writable(q.u, q.row, q.role)
         THEN /\ members' = Written(q.w, q.u, q.row, q.role)
              /\ End(c)
              /\ UNCHANGED <<user, custom, owner>>
         ELSE Fail(c)
    /\ Keep

\* Mutant of CheckRemove: the owner may be removed.
CheckRemoveOwner(c, a, w, u) ==
    /\ owner[w] # None
    /\ ManagesMembers(a, w)
    /\ \E row \in RowsOf(w, u) : Begin(c, a, [pc |-> "remove", w |-> w, u |-> u, row |-> row])

CheckRemove(c, a, w, u) ==
    /\ owner[w] # None /\ owner[w] # u
    /\ ManagesMembers(a, w)
    /\ \E row \in RowsOf(w, u) : Begin(c, a, [pc |-> "remove", w |-> w, u |-> u, row |-> row])
Remove(c) ==
    /\ At(c, "remove")
    /\ members' = {m \in members : ~Same(m, call[c].row)}
    /\ End(c)
    /\ UNCHANGED <<user, custom, owner>> /\ Keep

----------------------------------------------------------------------------
(* Start of the server: rbac_seed.py, workspace_default.py, main.py *)

\* migrate_workspace_owner_members
OwnerRows == {Row(w, owner[w], "admin") :
                w \in {x \in Workspaces : owner[x] # None /\ RowsOf(x, owner[x]) = {}}}

\* assign_default_roles
Assigned(u) ==
    IF user[u].role # None THEN user[u]
    ELSE IF user[u].flag = "yes" \/ u = Builtin
      THEN [user[u] EXCEPT !.role = "super_admin", !.flag = IF u = Builtin THEN "yes" ELSE @]
    ELSE [user[u] EXCEPT !.role = "developer"]

\* backfill_all_users_default_workspace: whoever is not in infras, be it that he
\* has been removed, joins it.
Backfilled == {Row(Default, u, "developer") :
                 u \in {x \in Users : Exists(x) /\ owner[Default] # x /\ RowsOf(Default, x) = {}}}

\* RESET_ADMIN_PASSWORD: the account admin is enabled, or created without a role.
Reset ==
    IF Exists(Builtin) THEN [Assigned(Builtin) EXCEPT !.active = TRUE]
    ELSE [active |-> TRUE, flag |-> "yes", role |-> None]
ResetRow ==
    IF Exists(Builtin) THEN {} ELSE {Row(Default, Builtin, "developer")}

\* The server stops, whatever it is doing, and starts.
Restart(reset) ==
    /\ made < MaxCalls
    /\ made' = made + 1
    /\ call' = [c \in Calls |-> Idle] /\ caller' = [c \in Calls |-> Nobody]
    /\ user' = [u \in Users |-> IF u = Builtin /\ reset THEN Reset
                               ELSE IF Exists(u) THEN Assigned(u) ELSE user[u]]
    /\ members' = members \cup OwnerRows \cup Backfilled \cup (IF reset THEN ResetRow ELSE {})
    /\ UNCHANGED <<custom, owner, dropped, crossed>>

----------------------------------------------------------------------------
Accounts(c, a) ==
    \E u \in Users :
        \/ \E r \in Offered \cap Roles : CheckCreateUser(c, a, u, r) \/ CheckSetRole(c, a, u, r)
        \/ \E new \in {x \in Flagged(u) : x # user[u]} : CheckFlags(c, a, u, new)
        \/ CheckDeleteUser(c, a, u)
RoleEdits(c, a) ==
    \E r \in Custom :
        \/ \E codes \in Grants : CheckCreateRole(c, a, r, codes) \/ CheckUpdateRole(c, a, r, codes)
        \/ CheckDeleteRole(c, a, r)
Spaces(c, a) ==
    \E w \in Workspaces :
        \/ CheckCreateWorkspace(c, a, w)
        \/ \E u \in Users : \/ CheckTransfer(c, a, w, u) \/ CheckRemove(c, a, w, u)
                            \/ \E role \in Offered \cap SpaceRoles : CheckAdd(c, a, w, u, role)
Commit(c) ==
    \/ CreateUser(c) \/ Look(c) \/ Join(c) \/ SetRole(c) \/ SetFlags(c) \/ DeleteUser(c)
    \/ CreateRole(c) \/ UpdateRole(c) \/ DeleteRole(c)
    \/ CreateWorkspace(c) \/ Found(c) \/ Transfer(c) \/ Add(c) \/ Remove(c)

Next ==
    \/ \E c \in Calls, a \in Present : Accounts(c, a) \/ RoleEdits(c, a) \/ Spaces(c, a)
    \/ \E c \in Calls : Commit(c)
    \/ \E reset \in BOOLEAN : Restart(reset)

Spec == Init /\ [][Next]_vars

----------------------------------------------------------------------------
(* Properties *)

\* A request that ends in this step, and what it may do.
Ends(c) == call[c] # Idle /\ call'[c] # call[c]
ManagesAccounts(c) == Ends(c) /\ caller[c].accounts
Starts == \A c \in Calls : call'[c] = Idle

\* Nobody gains a permission, or control over a workspace, but by a request of
\* somebody who managed accounts or that workspace when he made it, whatever has
\* changed since; or at a start, where accounts without a role get the default one.
RisesByAuthority ==
    [][\A u \in Users : Exists(u)' =>
         LET had == IF Exists(u) THEN Permissions(u) ELSE {}
             plain == ~Exists(u) \/ user[u].role = None
         IN /\ ~(Permissions(u)' \subseteq had) =>
                 (\E c \in Calls : ManagesAccounts(c)) \/ (Starts /\ plain)
            /\ \A w \in Workspaces :
                 FullControl(u, w)' /\ ~(Exists(u) /\ FullControl(u, w)) =>
                   \/ \E c \in Calls : ManagesAccounts(c) \/ (Ends(c) /\ w \in caller[c].spaces)
                   \/ Starts /\ plain]_vars

\* An administrator who can log in and restore others remains, as long as
\* requests do not overlap and nobody gives up his own flag: one may not disable
\* or delete oneself.
AdministratorRemains ==
    crossed \/ dropped \/ \E u \in Present : PlatformAdmin(u)

\* As long as requests do not overlap, a member has one row in a workspace, so
\* that removing him once removes him, and its owner has one, so that he stays
\* a member when somebody else takes over.
RowsAreExact ==
    crossed \/
    \A w \in Workspaces :
        /\ \A u \in Users : Cardinality(RowsOf(w, u)) <= 1
        /\ owner[w] # None => \/ RowsOf(w, owner[w]) # {}
                              \/ \E c \in Calls : At(c, "found") /\ call[c].w = w

\* As long as requests do not overlap, no account is without a role that exists,
\* but for an account admin that was created by a reset.
RoleKept ==
    crossed \/ \A u \in Users \ {Builtin} : Exists(u) => user[u].role \in Roles /\ RoleExists(user[u].role)

\* The decisions agree: a workspace is listed for whoever may enter it; full
\* control is the space administrators' and the platform's, and lets one do
\* everything; whoever may do something may enter; one lands where one may enter; and a viewer whatever his
\* permissions reads nothing that belongs to development.
DecisionsAgree ==
    \A u \in Users, w \in Workspaces : Exists(u) /\ owner[w] # None =>
        /\ w \in Accessible(u) <=> Passes(u, w, "viewer")
        /\ FullControl(u, w) <=> PlatformManager(u) \/ w \in SpaceAdminOf(u)
        /\ Landing(u) \subseteq Accessible(u)
        /\ \A kind \in Kinds :
             /\ FullControl(u, w) => MayRead(u, w, kind)
             /\ MayRead(u, w, kind) => w \in Accessible(u)
             /\ MayRead(u, w, kind) /\ UserRoles(u, w) = {"viewer"} => kind \in {"datasource", "datamap"}

\* What overlapping requests put at risk holds while there are none.
AccountsInOrder == AdministratorRemains /\ RowsAreExact /\ RoleKept

=============================================================================
