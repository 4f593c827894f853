------------------------------ MODULE DataApi ------------------------------
(***************************************************************************)
(* Data APIs: SQL queries that workspaces publish over HTTP.  Developers   *)
(* edit an API and grant it to consumer applications (api/data_service.py);*)
(* callers invoke it through the open gateway (api/data_service_open.py),  *)
(* which limits their rate, caches results and runs the query              *)
(* (services/data_api_engine.py).                                          *)
(*                                                                         *)
(* The gateway is a coroutine without threads: it holds the event loop of  *)
(* the process from its authentication to its answer, but for the time a   *)
(* POST request waits for its body.  The other endpoints run in threads.   *)
(***************************************************************************)
EXTENDS Integers, FiniteSets, FiniteSetsExt

CONSTANTS
    Apis, Apps, Sources,
    Wizards,        \* APIs created in wizard mode, whose SQL comes from wizard_config
    Timed,          \* sources whose driver takes a read timeout (mysql, doris)
    Configs,        \* what an API can be set to: [sql, src, mask, ttl,
                    \* required, default], the last two for its parameter; a
                    \* statement is [first |-> word, rest |-> set of words]
    Args,           \* values that a caller may give to the parameter
    Invocations,    \* invocations of the gateway under way at once
    Posts,          \* those that carry a body
    Limits,         \* values of qps_limit of a grant
    AppLimit,       \* qps_limit of an application, set when it is created
    DefaultLimit,   \* 100 in the code
    Window,         \* 60 seconds in the code
    Longest,        \* the longest time to live an API may have, 3600 seconds in the code
    Patience,       \* what a call takes at most: its body and its query
    MaxChanges,
    Free, NoValue

VARIABLES
    api,        \* rows of dw_data_apis
    grant,      \* per application and API: qps_limit of the grant or NoValue
    app,        \* consumer applications: not yet created, in use or deleted
    logged,     \* pairs of application and API that the invocation log names
    data,       \* how often the data of a source has changed
    cache,      \* _result_cache: by API and statement, an entry or NoValue
    hits,       \* _rate_buckets: how many calls were admitted how long ago
    invocation, \* invocations and what they have loaded
    loop,       \* the invocation that holds the event loop, or Free
    \* history
    quiet,      \* for how long an API, its grants and its data have not changed
    told,       \* the answer of this step, if it gives one
    changes     \* bound

apivars == <<api, grant, app, logged, data, cache, hits, invocation, loop,
             quiet, told, changes>>

\* DataApiCreate: cache_ttl_seconds is between 0 and the longest.
ASSUME ConfigAssumption ==
    /\ \A cfg \in Configs : cfg.src \in Sources /\ cfg.ttl \in 0 .. Longest
    /\ Longest \in Nat /\ Patience \in Nat

----------------------------------------------------------------------------
Statements == {cfg.sql : cfg \in Configs}
Statuses == {"draft", "online", "offline"}
Rows == [status : Statuses, cfg : Configs]
NoRow == [status |-> "new"]
DeletedApi == [status |-> "gone"]
ApiExists(a) == api[a].status \in Statuses
Pairs == Apps \X Apis
ArgValues == Args \cup {NoValue} \cup {cfg.default : cfg \in Configs}
Keys == Apis \X Statements \X ArgValues
Ages == 0 .. Window - 1
Far == Longest + Patience + 1

Idle == [pc |-> "idle"]
\* What running the query of a configuration returns now.
Result(cfg, arg) ==
    [sql |-> cfg.sql, arg |-> arg, src |-> cfg.src, mask |-> cfg.mask, seen |-> data[cfg.src]]

\* Words that assert_readonly_statement refuses wherever they stand.
Forbidden == {"INSERT", "UPDATE", "DELETE", "MERGE", "DROP", "ALTER", "CREATE", "TRUNCATE",
              "GRANT", "REVOKE", "CALL", "EXECUTE", "EXEC", "REPLACE", "INTO"}
Readonly(s) == s.first \in {"SELECT", "WITH"} /\ s.rest \cap Forbidden = {}

\* bind_params: a value left out is replaced by the default, and missed if it is
\* required and has none.
Bound(cfg, arg) == IF arg = NoValue THEN cfg.default ELSE arg
Binds(cfg, arg) == cfg.required => Bound(cfg, arg) # NoValue

\* grant.qps_limit or app.qps_limit or 100: zero and NULL fall through.
Limit(g, p) == IF g # 0 THEN g ELSE IF AppLimit[p] # 0 THEN AppLimit[p] ELSE DefaultLimit

NoHits == [t \in Ages |-> 0]
Count(h) == MapThenSumSet(LAMBDA t : h[t], Ages)

ApiInit ==
    /\ api = [a \in Apis |-> NoRow]
    /\ grant = [x \in Pairs |-> NoValue]
    /\ app = [p \in Apps |-> "new"]
    /\ logged = {}
    /\ data = [s \in Sources |-> 0]
    /\ cache = [k \in Keys |-> NoValue]
    /\ hits = [x \in Pairs |-> NoHits]
    /\ invocation = [c \in Invocations |-> Idle]
    /\ loop = Free
    /\ quiet = [a \in Apis |-> 0]
    /\ told = NoValue
    /\ changes = 0

----------------------------------------------------------------------------
(* The developers' endpoints, one transaction each. *)

Change(a) ==
    /\ changes < MaxChanges
    /\ changes' = changes + 1
    /\ quiet' = [quiet EXCEPT ![a] = 0]
    /\ UNCHANGED <<hits, invocation, loop>>
    /\ told' = NoValue

\* Nothing is checked about the statement when it is saved.
CreateApi(a) ==
    /\ api[a] = NoRow
    /\ \E r \in Rows : r.status = "draft" /\ api' = [api EXCEPT ![a] = r]
    /\ Change(a)
    /\ UNCHANGED <<grant, app, logged, data, cache>>

\* An API is edited in place, online or not.  In wizard mode without parameters
\* db.refresh discards the edit before it is flushed.
Edited(a, cfg, params) ==
    IF a \in Wizards /\ ~params THEN api[a] ELSE [api[a] EXCEPT !.cfg = cfg]

UpdateApi(a) ==
    /\ ApiExists(a)
    /\ \E cfg \in Configs, params \in BOOLEAN :
           api' = [api EXCEPT ![a] = Edited(a, cfg, params)]
    /\ Change(a)
    /\ UNCHANGED <<grant, app, logged, data, cache>>

Publish(a) ==
    /\ ApiExists(a)
    /\ api' = [api EXCEPT ![a].status = "online"]
    /\ Change(a)
    /\ UNCHANGED <<grant, app, logged, data, cache>>

Offline(a) ==
    /\ ApiExists(a)
    /\ api' = [api EXCEPT ![a].status = "offline"]
    /\ Change(a)
    /\ UNCHANGED <<grant, app, logged, data, cache>>

\* An API that the log names cannot be deleted: a foreign key without cascade.
DeleteApi(a) ==
    /\ ApiExists(a)
    /\ \A p \in Apps \cup {NoValue} : <<p, a>> \notin logged
    /\ api' = [api EXCEPT ![a] = DeletedApi]
    /\ grant' = [x \in Pairs |-> IF x[2] = a THEN NoValue ELSE grant[x]]
    /\ Change(a)
    /\ UNCHANGED <<app, logged, data, cache>>

\* A test logs its outcome and leaves the cache alone.
TestApi(a) ==
    /\ ApiExists(a)
    /\ <<NoValue, a>> \notin logged
    /\ logged' = logged \cup {<<NoValue, a>>}
    /\ UNCHANGED <<api, grant, app, data, cache, hits, invocation, loop, quiet, changes>>
    /\ told' = NoValue

Grant(p, a) ==
    /\ app[p] = "live" /\ ApiExists(a)
    /\ \E l \in Limits : grant' = [grant EXCEPT ![<<p, a>>] = l]
    /\ Change(a)
    /\ UNCHANGED <<api, app, logged, data, cache>>

Revoke(p, a) ==
    /\ app[p] = "live" /\ grant[<<p, a>>] # NoValue
    /\ grant' = [grant EXCEPT ![<<p, a>>] = NoValue]
    /\ Change(a)
    /\ UNCHANGED <<api, app, logged, data, cache>>

CreateApp(p) ==
    /\ app[p] = "new"
    /\ app' = [app EXCEPT ![p] = "live"]
    /\ told' = NoValue
    /\ UNCHANGED <<api, grant, logged, data, cache, hits, invocation, loop, quiet, changes>>

\* Its grants go with it.
DeleteApp(p) ==
    /\ app[p] = "live"
    /\ \A a \in Apis : <<p, a>> \notin logged
    /\ changes < MaxChanges
    /\ changes' = changes + 1
    /\ app' = [app EXCEPT ![p] = "gone"]
    /\ grant' = [x \in Pairs |-> IF x[1] = p THEN NoValue ELSE grant[x]]
    /\ quiet' = [a \in Apis |-> 0]
    /\ told' = NoValue
    /\ UNCHANGED <<api, logged, data, cache, hits, invocation, loop>>

\* Somebody changes the tables of a source.
SourceChanges(s) ==
    /\ changes < MaxChanges
    /\ changes' = changes + 1
    /\ data' = [data EXCEPT ![s] = @ + 1]
    /\ quiet' = [a \in Apis |-> IF ApiExists(a) /\ api[a].cfg.src = s THEN 0 ELSE quiet[a]]
    /\ told' = NoValue
    /\ UNCHANGED <<api, grant, app, logged, cache, hits, invocation, loop>>

----------------------------------------------------------------------------
(* The gateway. *)

Set(c, l) == invocation' = [invocation EXCEPT ![c] = l]
Silent(c, l) == Set(c, l) /\ told' = NoValue
Gateway == <<api, grant, app, data, quiet, changes>>

\* _auth_app: the application and, joined to it, its grants.
Auth(c) ==
    /\ invocation[c].pc = "idle" /\ loop = Free
    /\ \E p \in Apps, a \in Apis, v \in Args \cup {NoValue} :
           /\ app[p] = "live"
           /\ Silent(c, [pc |-> "auth", app |-> p, api |-> a, arg |-> v,
                         limit |-> grant[<<p, a>>], age |-> 0])
    /\ loop' = c
    /\ UNCHANGED <<Gateway, logged, cache, hits>>

\* The row of the API, in a second query; a POST then waits for its body and
\* gives the event loop back meanwhile.
FindApi(c) ==
    /\ invocation[c].pc = "auth"
    /\ ApiExists(invocation[c].api)
    /\ LET l == invocation[c] IN
           Silent(c, [pc |-> IF c \in Posts THEN "body" ELSE "found",
                      app |-> l.app, api |-> l.api, arg |-> l.arg, limit |-> l.limit,
                      age |-> l.age, row |-> api[l.api]])
    /\ loop' = IF c \in Posts THEN Free ELSE c
    /\ UNCHANGED <<Gateway, logged, cache, hits>>

Body(c) ==
    /\ invocation[c].pc = "body" /\ loop = Free
    /\ Silent(c, [invocation[c] EXCEPT !.pc = "found"])
    /\ loop' = c
    /\ UNCHANGED <<Gateway, logged, cache, hits>>

\* _invoke_api: the status and the grant as loaded, then check_rate_limit, which
\* records the hit whatever becomes of the call.
AllowedAny(l) == l.limit # NoValue
Allowed(l) == l.row.status = "online" /\ l.limit # NoValue

UnderLimit(l, h) == Count(h) < Limit(l.limit, l.app)

Admit(c) ==
    LET l == invocation[c]
        x == <<l.app, l.api>>
    IN /\ l.pc = "found"
       /\ Allowed(l)
       /\ UnderLimit(l, hits[x])
       /\ hits' = [hits EXCEPT ![x][0] = @ + 1]
       /\ Silent(c, [l EXCEPT !.pc = "admitted"])
       /\ UNCHANGED <<Gateway, logged, cache, loop>>

KeyWithoutArgument(l) == <<l.api, l.row.cfg.sql, NoValue>>
Key(l) == <<l.api, l.row.cfg.sql, Bound(l.row.cfg, l.arg)>>
\* The statement and the argument are looked at before the cache.
Accepted(l) == Readonly(l.row.cfg.sql) /\ Binds(l.row.cfg, l.arg)

\* What _cache_get finds: an entry that has not expired.
Cached(l) == l.row.cfg.ttl > 0 /\ cache[Key(l)] # NoValue

\* The entry keeps how long it is still served; the key holds the statement, and
\* neither the source nor the mask.
CacheSet(l, val) == [val |-> val, left |-> l.row.cfg.ttl]

\* The row of the log comes before the answer; it cannot be written for an API
\* or an application deleted meanwhile, and the call fails.
Logged(l) ==
    IF app[l.app] = "live" /\ ApiExists(l.api) THEN logged \cup {<<l.app, l.api>>} ELSE logged
Told(l, val) ==
    IF app[l.app] = "live" /\ ApiExists(l.api)
    THEN [app |-> l.app, api |-> l.api, arg |-> l.arg, val |-> val] ELSE NoValue

Answer(c, val) ==
    /\ logged' = Logged(invocation[c])
    /\ told' = Told(invocation[c], val)
    /\ Set(c, Idle)
    /\ loop' = Free
    /\ UNCHANGED <<Gateway, hits>>

Hit(c) ==
    /\ invocation[c].pc = "admitted"
    /\ Accepted(invocation[c])
    /\ Cached(invocation[c])
    /\ Answer(c, cache[Key(invocation[c])].val)
    /\ UNCHANGED cache

\* A miss runs the query; the source is read once.
Query(c) ==
    /\ invocation[c].pc = "admitted"
    /\ Accepted(invocation[c])
    /\ ~Cached(invocation[c])
    /\ LET l == invocation[c] IN
           Silent(c, [pc |-> "fetched", app |-> l.app, api |-> l.api, arg |-> l.arg,
                      limit |-> l.limit, age |-> l.age, row |-> l.row,
                      val |-> Result(l.row.cfg, Bound(l.row.cfg, l.arg))])
    /\ UNCHANGED <<Gateway, logged, cache, hits, loop>>

Reply(c) ==
    LET l == invocation[c]
    IN /\ l.pc = "fetched"
       /\ cache' = IF l.row.cfg.ttl > 0
                   THEN [cache EXCEPT ![Key(l)] = CacheSet(l, l.val)] ELSE cache
       /\ Answer(c, l.val)

\* Every exit with an error; from _execute on it leaves a row in the log.
Refuse(c) ==
    LET l == invocation[c]
    IN /\ \/ l.pc = "auth" /\ ~ApiExists(l.api)
          \/ l.pc = "found" /\ ~(Allowed(l) /\ UnderLimit(l, hits[<<l.app, l.api>>]))
          \/ l.pc = "admitted"
       /\ logged' = IF l.pc = "admitted" THEN Logged(l) ELSE logged
       /\ Silent(c, Idle)
       /\ loop' = Free
       /\ UNCHANGED <<Gateway, cache, hits>>

----------------------------------------------------------------------------
\* A query of a timed source ends, by its answer or by its timeout; one of the
\* others may take for ever, as only its connection has a timeout.
Unbounded(l) == FALSE
Bounded(l) == l.row.cfg.src \in Timed

Step(c) == Auth(c) \/ FindApi(c) \/ Body(c) \/ Admit(c) \/ Hit(c) \/ Query(c) \/ Reply(c) \/ Refuse(c)
\* What the server does without being asked: all but a new call, and a query
\* only if its driver bounds it.
Work(c) ==
    \/ FindApi(c) \/ Admit(c) \/ Hit(c) \/ Reply(c)
    \/ invocation[c].pc # "admitted" /\ Refuse(c)
    \/ invocation[c].pc = "admitted" /\ Bounded(invocation[c]) /\ (Query(c) \/ Refuse(c))

\* Time passes in units of which no call takes more than Patience.
Aged(e) == IF e # NoValue /\ e.left > 0 THEN [e EXCEPT !.left = @ - 1] ELSE NoValue

Tick ==
    /\ \A c \in Invocations : invocation[c].pc # "idle" => invocation[c].age < Patience
    /\ invocation' = [c \in Invocations |->
           IF invocation[c].pc = "idle" THEN Idle ELSE [invocation[c] EXCEPT !.age = @ + 1]]
    /\ quiet' = [a \in Apis |-> IF quiet[a] < Far THEN quiet[a] + 1 ELSE Far]
    /\ cache' = [k \in DOMAIN cache |-> Aged(cache[k])]
    /\ hits' = [x \in Pairs |-> [t \in Ages |-> IF t = 0 THEN 0 ELSE hits[x][t - 1]]]
    /\ told' = NoValue
    /\ UNCHANGED <<api, grant, app, logged, data, loop, changes>>

\* The cache and the rate windows live in the process.
Restart ==
    /\ invocation' = [c \in Invocations |-> Idle]
    /\ loop' = Free
    /\ cache' = [k \in Keys |-> NoValue]
    /\ hits' = [x \in Pairs |-> NoHits]
    /\ told' = NoValue
    /\ UNCHANGED <<Gateway, logged>>

Manage(a) ==
    \/ CreateApi(a) \/ UpdateApi(a) \/ Publish(a) \/ Offline(a) \/ DeleteApi(a) \/ TestApi(a)
    \/ \E p \in Apps : Grant(p, a) \/ Revoke(p, a)

ApiNext ==
    \/ \E a \in Apis : Manage(a)
    \/ \E p \in Apps : CreateApp(p) \/ DeleteApp(p)
    \/ \E s \in Sources : SourceChanges(s)
    \/ \E c \in Invocations : Step(c)
    \/ Tick
    \/ Restart

ApiSpec == ApiInit /\ [][ApiNext]_apivars /\ \A c \in Invocations : WF_apivars(Work(c))

----------------------------------------------------------------------------
\* A call that starts late enough after the last change of an API, of the
\* tables it reads and of its grants gets what a fresh query would return:
\* neither a result that an older call has put into the cache, nor the source or
\* the mask of before, outlives the longest time to live.
AnswersCatchUp ==
    told # NoValue =>
        \/ quiet[told.api] <= Longest + Patience
        \/ told.val = Result(api[told.api].cfg, Bound(api[told.api].cfg, told.arg))

\* Nor does a call that has loaded its API and its grants, or a result in the
\* cache, outlive a withdrawal or a revocation by more than the call takes.
WithdrawnIsSilent ==
    told # NoValue =>
        \/ quiet[told.api] <= Patience
        \/ api[told.api].status = "online" /\ grant[<<told.app, told.api>>] # NoValue

\* A call gives the event loop back, and with it every other request of the
\* process, unless its query runs on a source whose driver has no read timeout.
Hanging ==
    \E c \in Invocations :
        loop = c /\ invocation[c].pc = "admitted" /\ invocation[c].row.cfg.src \notin Timed
LoopComesBack == loop # Free ~> (loop = Free \/ Hanging)
=============================================================================
