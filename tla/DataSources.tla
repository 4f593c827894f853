------------------------------ MODULE DataSources ------------------------------
(***************************************************************************)
(* The data sources of workspaces (api/datasource.py), the default ones    *)
(* (services/workspace_settings.py, services/workspace_datasource_policy   *)
(* .py), their mirror in DolphinScheduler (services/datasource_dolphin     *)
(* _sync.py, services/dolphin.py) and the layered settings that say where  *)
(* it is (services/ds_runtime.py, services/flink_runtime.py,               *)
(* api/workspace_settings.py, api/admin_integration.py), with the named    *)
(* Flink connections that stream jobs may choose over them                 *)
(* (api/streaming.py).                                                     *)
(*                                                                         *)
(* A source is committed first and mirrored after, in two calls of one     *)
(* client that the process shares: look up by name, then write by number.  *)
(* Failures of Dolphin do not fail the request. A deletion removes the     *)
(* mirror first and the row, if nothing refers to it, after. Publishing a  *)
(* workflow mirrors the sources of its SQL nodes too                       *)
(* (services/workflow_ds_publish.py).                                      *)
(***************************************************************************)
EXTENDS Naturals, Sequences, FiniteSets

CONSTANTS
  Ids,         \* data sources
  Workspaces,
  Global,      \* the settings of the platform
  Engines,     \* Dolphin servers, each with its token
  Jdbc, Plain, \* contents of sources of a type that is mirrored, and of another
  Profiles,    \* Flink connections of workspaces
  Overrides,   \* what requests write to them (any, in the code)
  JobPlace,    \* stream jobs and their workspaces
  Place, Home, \* workspace and engine of the sources that are there at first
  Env,         \* the settings in the environment
  Bodies,      \* what requests write to settings (any, in the code)
  Calls,       \* requests under way
  MaxCalls,    \* bound on the requests that are made
  Faults,      \* TRUE: calls of Dolphin fail, requests are lost
  None, Gone, Blank

Layers == Workspaces \cup {Global}

\* One column for each way of layering: those left out behave like url (project
\* and the URLs of Flink) or domain (the rest of Flink).
Dolphin == {"enabled", "url", "token", "ui"}
Flink   == {"jm", "domain"}
Columns == Dolphin \cup Flink
Jobs    == DOMAIN JobPlace

\* What there is of sources, of their mirrors, of connections and of requests.
Contents == Jdbc \cup Plain \cup {Gone}
Entries  == [ws : Workspaces, content : Contents]
Items    == [of : Ids, content : Jdbc]
Values   == {None} \cup UNION {{b[f] : f \in DOMAIN b} : b \in Overrides}
Connections == [ws : Workspaces, row : [Columns -> Values]]
Patches  == UNION {[S -> Values] : S \in SUBSET Flink}
Requests == [pc : {"refresh", "reread", "load", "point", "find", "write", "erase", "save"},
             id : Ids \cup Profiles \cup {None}, layer : Layers, content : Contents \cup Patches,
             found : Nat, asked : Engines \cup {None}, alone : BOOLEAN]

ASSUME ConstantsAssumption ==
  /\ Global \notin Workspaces
  /\ DOMAIN Env = Columns /\ Env.enabled \in BOOLEAN /\ Env.url # None
  /\ \A b \in Bodies : DOMAIN b \subseteq Dolphin \/ DOMAIN b \subseteq Flink
  /\ Place \in [DOMAIN Home -> Workspaces] /\ Home \in [DOMAIN Home -> Engines]
  /\ DOMAIN Home \subseteq Ids
  /\ \A i, j \in DOMAIN Home : Place[i] = Place[j] \/ Home[i] = Home[j] => i = j
  /\ \A b \in Overrides : DOMAIN b \subseteq Flink
  /\ Profiles \cap Ids = {} /\ Jdbc \cap Plain = {} /\ Gone \notin Jdbc \cup Plain
  /\ None \notin Ids \cup Profiles \cup Engines /\ Blank \notin Engines
  /\ None \notin Entries /\ None \notin Items /\ None \notin Connections /\ None \notin Requests
  /\ None # Gone /\ Gone \notin Connections
  /\ MaxCalls \in Nat /\ Faults \in BOOLEAN

VARIABLES
  src,      \* dw_datasources: None, or the workspace and the settings, Gone at the end
  default,  \* workspace -> its default source
  warehouse,
  mirror,   \* engine -> its sources by number: None, or name and settings
  setting,  \* layer -> the row of dw_(workspace_)platform_integration
  profile,  \* dw_flink_session_profiles: None, or the workspace and the columns
  bound,    \* stream job -> its connection
  client,   \* the client of Dolphin that the process shares: server and token
  call,     \* requests
  excused,  \* sources whose mirror need not be current, for a reason given below
  strayed,  \* a number of one engine has been used on another
  made

vars == <<src, default, warehouse, mirror, setting, profile, bound, client, call, excused, strayed, made>>
rows == <<src, default, warehouse>>
conns == <<profile, bound>>

-----------------------------------------------------------------------------
(* Settings: _merge_ds_from_row, apply_flink_row_overrides *)

Empty == [f \in Columns |-> None]

\* A row over the layers below it: a column that is not set, for some also a
\* blank one, leaves them; a blank one of the others stands for no value.
Merged(below, r) ==
  [f \in Columns |-> IF r[f] = None \/ (f \in {"url", "token", "jm"} /\ r[f] = Blank)
                       THEN below[f] ELSE r[f]]

\* get_dolphin_runtime, get_flink_runtime
Effective(l) ==
  IF l = Global THEN Merged(Env, setting[Global])
  ELSE Merged(Merged(Env, setting[Global]), setting[l])

\* What a request's value becomes in the row: only the address of Dolphin's
\* pages may be blank, and no token at all leaves the one there is.
Stored(f, v, old) ==
  IF f = "token" /\ v = None THEN old ELSE IF v = Blank /\ f # "ui" THEN None ELSE v

Pointed(l) == [url |-> Effective(l).url, token |-> Effective(l).token]

-----------------------------------------------------------------------------
(* What requests have in common *)

Exists(i) == src[i] # None /\ src[i].content # Gone
At(c, pc) == call[c] # None /\ call[c].pc = pc
GoTo(c, pc) == call' = [call EXCEPT ![c].pc = pc]
Done(c) == call' = [call EXCEPT ![c] = None]
On(i) == {c \in Calls : call[c] # None /\ call[c].id = i}

\* A request starts. Requests on one source that overlap are not alone.
Start(c, pc, i, l, v) ==
  /\ call[c] = None
  /\ made < MaxCalls
  /\ made' = made + 1
  /\ call' = [d \in Calls |->
       IF d = c THEN [pc |-> pc, id |-> i, layer |-> l, content |-> v, found |-> 0,
                      asked |-> None, alone |-> i = None \/ On(i) = {}]
       ELSE IF i # None /\ d \in On(i) THEN [call[d] EXCEPT !.alone = FALSE] ELSE call[d]]

\* The sources whose mirror has a reason not to be current.
Excuse(S) == excused' = excused \cup S

\* At first some workspaces have an engine of their own, and a source there.
Init ==
  LET at(l) == {i \in DOMAIN Place : Place[i] = l} IN
  /\ \E v \in Jdbc :
       /\ src = [i \in Ids |-> IF i \in DOMAIN Place THEN [ws |-> Place[i], content |-> v] ELSE None]
       /\ mirror = [e \in Engines |->
            LET here == {i \in DOMAIN Home : Home[i] = e}
            IN IF here = {} THEN << >> ELSE <<[of |-> CHOOSE i \in here : TRUE, content |-> v]>>]
  /\ profile = [p \in Profiles |-> None]
  /\ bound = [j \in Jobs |-> None]
  /\ setting = [l \in Layers |->
       IF at(l) = {} THEN Empty
       ELSE LET e == Home[CHOOSE i \in at(l) : TRUE]
            IN [Empty EXCEPT !.enabled = TRUE, !.url = e, !.token = e]]
  /\ default = [w \in Workspaces |-> None]
  /\ warehouse = [w \in Workspaces |-> None]
  /\ client = [url |-> Env.url, token |-> Env.token]
  /\ call = [c \in Calls |-> None]
  /\ excused = {}
  /\ strayed = FALSE
  /\ made = 0

-----------------------------------------------------------------------------
(* Settings: put_ws_dolphin, put_ws_flink, put_dolphin_integration,         *)
(* put_flink_integration, and the resets of the platform's                  *)

\* Sources of the workspaces whose way to Dolphin new changes.
Displaced(l) == {i \in Ids : src[i] # None /\ l \in {Global, src[i].ws}}

Put(c, l, new) ==
  /\ Start(c, "refresh", None, l, Gone)
  /\ setting' = [setting EXCEPT ![l] = new]
  /\ Excuse(IF \E f \in Dolphin : new[f] # setting[l][f] THEN Displaced(l) ELSE {})
  /\ UNCHANGED <<conns, rows, mirror, client, strayed>>

PutSettings(c, l) ==
  \E b \in Bodies :
    Put(c, l, [f \in Columns |-> IF f \in DOMAIN b THEN Stored(f, b[f], setting[l][f])
                                 ELSE setting[l][f]])

ResetSettings(c) ==
  \E part \in {Dolphin, Flink} :
    Put(c, Global, [f \in Columns |-> IF f \in part THEN None ELSE setting[Global][f]])

\* The shared client, or that of Flink, is set to what is in force now.
Refresh(c) ==
  /\ At(c, "refresh")
  /\ client' \in {client, Pointed(call[c].layer)}
  /\ Done(c)
  /\ UNCHANGED <<conns, rows, mirror, setting, excused, made, strayed>>

\* A test of the platform's Dolphin, if there is anything to test, sets the
\* client to it; that of a workspace's sets it first.
TestPlatform ==
  /\ Effective(Global).enabled /\ Effective(Global).token # Blank
  /\ client' = Pointed(Global)
  /\ UNCHANGED <<conns, rows, mirror, setting, call, excused, made, strayed>>

TestWorkspace(w) ==
  /\ client' = Pointed(w)
  /\ UNCHANGED <<conns, rows, mirror, setting, call, excused, made, strayed>>

\* Requests that follow the instances of a workflow, save or delete one or show
\* how Dolphin is, and threads that do, set the client to any layer, at any
\* time: of what this module has, they change nothing else.
Elsewhere ==
  /\ \E l \in Layers : client' = Pointed(l)
  /\ UNCHANGED <<conns, rows, mirror, setting, call, excused, made, strayed>>

-----------------------------------------------------------------------------
(* Sources: create_datasource, update_datasource, delete_datasource *)

Source == [ws : Workspaces, content : Jdbc \cup Plain]

Create(c, i, s) ==
  /\ src[i] = None
  /\ Start(c, "reread", i, s.ws, Gone)
  /\ src' = [src EXCEPT ![i] = s]
  /\ UNCHANGED <<conns, default, warehouse, mirror, setting, client, excused, strayed>>

\* The type of a source may change too.
Update(c, i, v) ==
  /\ Exists(i)
  /\ Start(c, "reread", i, src[i].ws, Gone)
  /\ src' = [src EXCEPT ![i].content = v]
  /\ Excuse({j \in {i} : On(i) # {}})
  /\ UNCHANGED <<conns, default, warehouse, mirror, setting, client, strayed>>

\* Mutant of Reread: what is pushed is not what has been committed.
RereadNothing(c) ==
  /\ At(c, "reread")
  /\ IF Exists(call[c].id)
       THEN call' = [call EXCEPT ![c].pc = "point", ![c].content = CHOOSE v \in Jdbc : TRUE]
       ELSE Done(c)
  /\ UNCHANGED <<conns, rows, mirror, setting, client, excused, made, strayed>>

\* The committed row is read again; it may be gone.
Reread(c) ==
  /\ At(c, "reread")
  /\ IF Exists(call[c].id)
       THEN call' = [call EXCEPT ![c].pc = "point", ![c].content = src[call[c].id].content]
       ELSE Done(c)
  /\ UNCHANGED <<conns, rows, mirror, setting, client, excused, made, strayed>>

\* The mirror is removed before the row: the content Gone is what is pushed.
DeleteBegin(c, i) ==
  /\ Exists(i)
  /\ Start(c, "point", i, src[i].ws, Gone)
  /\ Excuse({j \in {i} : On(i) # {}})
  /\ UNCHANGED <<conns, rows, mirror, setting, client, strayed>>

-----------------------------------------------------------------------------
(* Sources of a workflow that is published: publish_workflow_to_ds and      *)
(* sync_workflow of the client                                              *)

\* The client is set once, to the engine of the workspace, for all that the
\* publication does. One of the sources of its SQL nodes stands for each of
\* them: nodes and their sources are of the workflow's workspace.
PublishWorkflow(c, i) ==
  /\ Exists(i)
  /\ Effective(src[i].ws).enabled
  /\ Start(c, "load", i, src[i].ws, Gone)
  /\ client' = Pointed(src[i].ws)
  /\ Excuse({j \in {i} : On(i) # {}})
  /\ UNCHANGED <<conns, rows, mirror, setting, strayed>>

\* The source is loaded when it is its node's turn; one that is gone or of a
\* type that is not mirrored is not written.
Load(c) ==
  LET i == call[c].id IN
  /\ At(c, "load")
  /\ IF Exists(i) /\ src[i].content \in Jdbc
       THEN call' = [call EXCEPT ![c].pc = "find", ![c].content = src[i].content]
       ELSE Done(c)
  /\ UNCHANGED <<conns, rows, mirror, setting, client, excused, made, strayed>>

-----------------------------------------------------------------------------
(* The mirror: push_gido_datasource_to_dolphin and                         *)
(* try_delete_gido_datasource_mirror, upsert_gido_datasource and           *)
(* delete_gido_datasource_mirror of the client                             *)

Deletes(c) == call[c].content = Gone

\* A push that ends is answered; a deletion goes on to the row.
After(c) == IF Deletes(c) THEN GoTo(c, "erase") ELSE Done(c)

\* The shared client is set to the engine of the workspace, if there is one.
Point(c) ==
  LET to == Effective(call[c].layer) IN
  /\ At(c, "point")
  /\ IF ~to.enabled \/ Blank \in {to.url, to.token}
       THEN After(c) /\ Excuse({call[c].id}) /\ UNCHANGED client
       ELSE /\ client' = Pointed(call[c].layer)
            /\ IF call[c].content \in Plain THEN Done(c) ELSE GoTo(c, "find")
            /\ UNCHANGED excused
  /\ UNCHANGED <<conns, rows, mirror, setting, made, strayed>>

\* The engine that the client reaches now, if its token is that engine's.
Reached == IF client.url \in Engines /\ client.token = client.url THEN client.url ELSE None

Numbers(e, i) == {n \in DOMAIN mirror[e] : mirror[e][n] # None /\ mirror[e][n].of = i}

\* The engine's answer to a look-up, or none.
Looked(c, n, e) ==
  call' = [call EXCEPT ![c].pc = "write", ![c].found = n, ![c].asked = e]

\* Mutant of Find: the engine's search matches parts of names.
FindSimilar(c) ==
  /\ At(c, "find")
  /\ \/ /\ Reached # None
        /\ \E n \in DOMAIN mirror[Reached] : mirror[Reached][n] # None /\ Looked(c, n, Reached)
     \/ Looked(c, 0, None)
  /\ UNCHANGED <<conns, rows, mirror, setting, client, excused, made, strayed>>

\* The item is looked up by name; a failure counts as none found.
Find(c) ==
  /\ At(c, "find")
  /\ \/ /\ Reached # None
        /\ LET ns == Numbers(Reached, call[c].id)
           IN \E n \in (IF ns = {} THEN {0} ELSE ns) : Looked(c, n, Reached)
     \/ /\ Faults \/ Reached = None
        /\ Looked(c, 0, None)
  /\ UNCHANGED <<conns, rows, mirror, setting, client, excused, made, strayed>>

\* What engine e makes of a write by number: names are unique there.
Accepts(c, e) ==
  LET n == call[c].found IN
  /\ e # None
  /\ n # 0 => n \in DOMAIN mirror[e] /\ mirror[e][n] # None
  /\ Deletes(c) \/ Numbers(e, call[c].id) \subseteq {n}

Written(c, e) ==
  LET n == call[c].found
      item == IF Deletes(c) THEN None ELSE [of |-> call[c].id, content |-> call[c].content]
  IN IF n # 0 THEN [mirror EXCEPT ![e][n] = item]
     ELSE [mirror EXCEPT ![e] = Append(@, item)]

\* It is the client of this moment that is asked, by the number found before.
\* What fails is told, or ignored by a deletion. Another's item may be hit.
Write(c) ==
  LET i == call[c].id  n == call[c].found  e == Reached
      home == Effective(call[c].layer).url IN
  /\ At(c, "write")
  /\ ~(Deletes(c) /\ n = 0)
  /\ After(c)
  /\ \/ /\ Accepts(c, e)
        /\ mirror' = Written(c, e)
        /\ strayed' = (strayed \/ (n # 0 /\ call[c].asked # e))
        /\ LET hit == {mirror[e][k].of : k \in {n} \ {0}}
           IN IF call[c].alone /\ {e, call[c].asked} = {home} THEN excused' = (excused \cup hit) \ {i}
              ELSE Excuse({i} \cup hit)
     \/ /\ Faults \/ ~Accepts(c, e)
        /\ Excuse({i})
        /\ UNCHANGED <<mirror, strayed>>
  /\ UNCHANGED <<conns, rows, setting, client, made>>

\* A deletion that has found nothing asks for nothing.
NothingToRemove(c) ==
  /\ At(c, "write")
  /\ Deletes(c) /\ call[c].found = 0
  /\ GoTo(c, "erase")
  /\ IF call[c].alone /\ call[c].asked = Effective(call[c].layer).url
       THEN excused' = excused \ {call[c].id}
       ELSE Excuse({call[c].id})
  /\ UNCHANGED <<conns, rows, mirror, setting, client, made, strayed>>

Referred(i) == \E w \in Workspaces : i \in {default[w], warehouse[w]}

\* The row goes unless a workspace refers to it: the database refuses that.
Erase(c) ==
  LET i == call[c].id IN
  /\ At(c, "erase")
  /\ Done(c)
  /\ IF Exists(i) /\ ~Referred(i)
       THEN src' = [src EXCEPT ![i].content = Gone] /\ UNCHANGED excused
       ELSE Excuse({i}) /\ UNCHANGED src
  /\ UNCHANGED <<conns, default, warehouse, mirror, setting, client, made, strayed>>

\* A request is lost between two of its steps.
Die(c) ==
  /\ Faults /\ call[c] # None
  /\ Done(c)
  /\ Excuse({call[c].id} \cap Ids)
  /\ UNCHANGED <<conns, rows, mirror, setting, client, made, strayed>>

-----------------------------------------------------------------------------
(* Default sources: update_workspace_defaults, resolve_datasource_id *)

\* A source, or none, becomes the default or the warehouse. The row is checked
\* when it is read and, that it exists, by the database when it is referred to.
PutDefaults(w, i) ==
  /\ made < MaxCalls
  /\ made' = made + 1
  /\ i # None => Exists(i) /\ src[i].ws = w
  /\ \/ default' = [default EXCEPT ![w] = i] /\ UNCHANGED warehouse
     \/ warehouse' = [warehouse EXCEPT ![w] = i] /\ UNCHANGED default
  /\ UNCHANGED <<conns, src, mirror, setting, client, call, excused, strayed>>

\* The source of a script of w that names none.
Resolved(w) == IF default[w] # None THEN default[w] ELSE warehouse[w]

-----------------------------------------------------------------------------
(* Flink connections of a workspace and the jobs that name them *)

Live(p) == profile[p] \notin {None, Gone}

\* get_flink_runtime_for_workspace_profile, for a job or for none of them.
Runtime(w, p) ==
  IF p # None /\ Live(p) /\ profile[p].ws = w THEN Merged(Effective(w), profile[p].row)
  ELSE Effective(w)

\* _dict_has_flink_connector_override: what would be saved is not all blank.
Overriding(r) == \E f \in Flink : r[f] \notin {None, Blank}

Patched(r, b) == [f \in Columns |-> IF f \in DOMAIN b THEN b[f] ELSE r[f]]

\* A column that is not given is that of the layers below.
Connection(w, b) == [ws |-> w, row |-> Patched(Empty, b)]

CreateProfile(p, w) ==
  /\ profile[p] = None
  /\ made < MaxCalls
  /\ made' = made + 1
  /\ \E b \in Overrides :
       /\ Overriding(Connection(w, b).row)
       /\ profile' = [profile EXCEPT ![p] = Connection(w, b)]
  /\ excused' = excused \ {p}
  /\ UNCHANGED <<rows, bound, mirror, setting, client, call, strayed>>

\* What is saved must be told from the layers below; only columns that change
\* are written, later.
UpdateProfile(c, p) ==
  /\ Live(p)
  /\ \E b \in Overrides :
       LET old == profile[p].row IN
       /\ Overriding(Patched(old, b))
       /\ Start(c, "save", p, profile[p].ws, [f \in {g \in DOMAIN b : b[g] # old[g]} |-> b[f]])
  /\ UNCHANGED <<rows, conns, mirror, setting, client, excused, strayed>>

SaveProfile(c) ==
  LET p == call[c].id IN
  /\ At(c, "save")
  /\ Done(c)
  /\ IF Live(p)
       THEN /\ profile' = [profile EXCEPT ![p].row = Patched(@, call[c].content)]
            /\ excused' = IF call[c].alone THEN excused \ {p} ELSE excused \cup {p}
       ELSE UNCHANGED <<profile, excused>>
  /\ UNCHANGED <<rows, bound, mirror, setting, client, made, strayed>>

\* Not while a job names it: the request counts them, the database insists.
DeleteProfile(p) ==
  /\ Live(p)
  /\ \A j \in Jobs : bound[j] # p
  /\ profile' = [profile EXCEPT ![p] = Gone]
  /\ UNCHANGED <<rows, bound, mirror, setting, client, call, excused, made, strayed>>

\* Mutant of Bind: only that the connection exists is checked.
BindAny(j, p) ==
  /\ p # None => Live(p)
  /\ bound' = [bound EXCEPT ![j] = p]
  /\ UNCHANGED <<rows, profile, mirror, setting, client, call, excused, made, strayed>>

\* A job is saved with a connection of its workspace, or with none.
Bind(j, p) ==
  /\ p # None => Live(p) /\ profile[p].ws = JobPlace[j]
  /\ bound' = [bound EXCEPT ![j] = p]
  /\ UNCHANGED <<rows, profile, mirror, setting, client, call, excused, made, strayed>>

-----------------------------------------------------------------------------

Request(c) ==
  \/ \E l \in Layers : PutSettings(c, l)
  \/ ResetSettings(c)
  \/ \E i \in Ids, s \in Source : Create(c, i, s)
  \/ \E i \in Ids, v \in Jdbc \cup Plain : Update(c, i, v)
  \/ \E i \in Ids : DeleteBegin(c, i) \/ PublishWorkflow(c, i)
  \/ \E p \in Profiles : UpdateProfile(c, p)

Next ==
  \/ \E c \in Calls :
       \/ Request(c)
       \/ Refresh(c) \/ Reread(c) \/ Load(c) \/ Point(c) \/ Find(c) \/ Write(c)
       \/ NothingToRemove(c) \/ Erase(c) \/ SaveProfile(c) \/ Die(c)
  \/ \E w \in Workspaces, i \in Ids \cup {None} : PutDefaults(w, i)
  \/ \E p \in Profiles : DeleteProfile(p) \/ \E w \in Workspaces : CreateProfile(p, w)
  \/ \E j \in Jobs, p \in Profiles \cup {None} : Bind(j, p)
  \/ TestPlatform \/ Elsewhere \/ \E w \in Workspaces : TestWorkspace(w)

Spec == Init /\ [][Next]_vars

-----------------------------------------------------------------------------
(* Properties *)

\* Between requests on it, a source that has no reason to be out of date is in
\* Dolphin as it was last committed, and one that has been deleted is not there
\* (dolphin_sync "ok" of api/datasource.py). The reasons: the integration was
\* off or failed, requests on the source overlapped, a publication that writes
\* it from before it loads it among them, the settings changed or the shared
\* client was moved between two calls, a deletion was refused.
MirrorIsCurrent ==
  \A i \in Ids : src[i] # None /\ On(i) = {} /\ i \notin excused =>
    LET e == Effective(src[i].ws).url  ns == Numbers(e, i) IN
    /\ ~Exists(i) => ns = {}
    /\ src[i].content \in Jdbc => \E n \in ns : mirror[e][n].content = src[i].content

\* No request touches the item of another source before the client has been
\* moved between a look-up and the write that uses its number: a number of one
\* server used on another (_find_datasource_id compares whole names).
OthersAreUntouched ==
  [][\A e \in Engines : \A n \in DOMAIN mirror[e] :
       mirror[e][n] # None /\ mirror'[e][n] # mirror[e][n] =>
         strayed' \/ \E c \in On(mirror[e][n].of) : call'[c] # call[c]]_vars

\* A script that names no source runs on one that exists and is its workspace's
\* own, whatever deletions race the choice (load_datasource_for_run would
\* refuse it).
DefaultsAreOwn ==
  \A w \in Workspaces : Resolved(w) # None => Exists(Resolved(w)) /\ src[Resolved(w)].ws = w

\* A job that names a connection never runs as if it named none: the connection
\* is there, of the job's workspace, and something of it is in force over all
\* other layers - unless two requests on it overlapped, which each leave out
\* what the other relies on (update_flink_session_profile checks the row it
\* has read).
ConnectionIsOwn ==
  \A j \in Jobs : bound[j] # None =>
    LET p == bound[j] IN
    /\ Live(p) /\ profile[p].ws = JobPlace[j]
    /\ p \in excused \/ \E f \in Flink : profile[p].row[f] \notin {None, Blank}
                                      /\ Runtime(JobPlace[j], p)[f] = profile[p].row[f]

\* What a script or a job is run on is its workspace's own: the source that is
\* taken where none is named, and the connection where one is.
ChoicesAreOwn == DefaultsAreOwn /\ ConnectionIsOwn

=============================================================================
