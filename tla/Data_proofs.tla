---------------------------- MODULE Data_proofs ----------------------------
(***************************************************************************)
(* What is proved about the data that a workspace reaches: its sources,    *)
(* their mirror and its connections (DataSources), and the APIs that       *)
(* publish queries on them (DataApi). The two components share no state.   *)
(*                                                                         *)
(* Sources. Basic is the base: types, what a request of each kind works    *)
(* on, and that requests on one source that overlap know it. Each theorem  *)
(* adds an invariant of its own to it: ChoicesInv for ChoicesAreOwn,          *)
(* FoundIsOwn for OthersAreUntouched, MirrorInv for MirrorIsCurrent.       *)
(*                                                                         *)
(* APIs. What an invocation has loaded is still so while its API has been  *)
(* quiet for longer than the invocation is old, and an entry of the cache  *)
(* is fresh while the quiet and the life that is left to the entry exceed  *)
(* the longest life and the patience together.                             *)
(***************************************************************************)
EXTENDS DataSources, DataApi, TLAPS

-----------------------------------------------------------------------------
(* The invariants of DataSources *)

\* What the table of connections holds.
Cells == {None, Gone} \cup Connections

\* What the tables hold, and Dolphin.
Tables ==
  /\ src \in [Ids -> {None} \cup Entries]
  /\ default \in [Workspaces -> Ids \cup {None}]
  /\ warehouse \in [Workspaces -> Ids \cup {None}]
  /\ DOMAIN mirror = Engines
  /\ \A e \in Engines : mirror[e] \in Seq({None} \cup Items)
  /\ DOMAIN setting = Layers
  /\ profile \in [Profiles -> Cells]
  /\ bound \in [Jobs -> Profiles \cup {None}]

\* Every variable that is reasoned about keeps its type.
DTypes == Tables /\ call \in [Calls -> {None} \cup Requests]

\* A request works on what its kind is about, and for the workspace of it.
CallFits(l) ==
  /\ l.pc = "refresh" => l.id = None
  /\ l.pc = "save" => l.id \in Profiles /\ l.content \in Patches /\ profile[l.id] # None
  /\ l.pc \notin {"refresh", "save"} =>
       /\ l.id \in Ids /\ l.content \in Contents
       /\ src[l.id] # None /\ l.layer = src[l.id].ws
  /\ l.pc \in {"find", "write"} => l.content \notin Plain
  /\ l.pc = "erase" => l.content = Gone
  /\ l.pc = "write" => (l.found = 0 \/ l.asked \in Engines)

\* Every request does.
CallsFit == \A c \in Calls : call[c] # None => CallFits(call[c])

\* Requests that overlap on the same know it; a source has an excuse meanwhile.
OverlapIsKnown ==
  \A c \in Calls : call[c] # None /\ call[c].id # None =>
    /\ call[c].alone => On(call[c].id) = {c}
    /\ call[c].id \in Ids /\ ~call[c].alone => call[c].id \in excused

\* What every other invariant rests on.
Basic == DTypes /\ CallsFit /\ OverlapIsKnown

\* What a workspace refers to exists and is its own.
ReferredOwn ==
  \A w \in Workspaces : \A i \in {default[w], warehouse[w]} :
    i # None => Exists(i) /\ src[i].ws = w

\* So is the connection that a job names.
BoundOwn ==
  \A j \in Jobs : bound[j] # None => Live(bound[j]) /\ profile[bound[j]].ws = JobPlace[j]

\* A connection has something to put over the other layers.
ConnectionsOverride ==
  \A p \in Profiles : Live(p) => p \in excused \/ Overriding(profile[p].row)

\* So it will have when what is on its way is saved.
SavesOverride ==
  \A c \in Calls : At(c, "save") /\ call[c].alone /\ Live(call[c].id) =>
    Overriding(Patched(profile[call[c].id].row, call[c].content))

\* What the choices of scripts and jobs rest on.
ChoicesInv == ReferredOwn /\ BoundOwn /\ ConnectionsOverride /\ SavesOverride

\* As long as nothing has strayed, the number that a look-up has told is that
\* of the request's own item, if it is anything's.
FoundIsOwn ==
  ~ strayed => \A c \in Calls : At(c, "write") /\ call[c].found # 0 =>
     LET m == mirror[call[c].asked]  n == call[c].found IN
     n \in DOMAIN m /\ (m[n] # None => m[n].of = call[c].id)

\* An engine has one item of a source at most.
NamesAreUnique ==
  \A e \in Engines, i \in Ids : \A m, n \in Numbers(e, i) : m = n

\* What a request that is alone with its source still knows: the source is
\* there, what is pushed is what is committed, the number that was found is the
\* only one, and what has been removed is gone.
CarriesCurrent(l) ==
  /\ l.pc \in {"reread", "load", "point", "find", "write", "erase"} => Exists(l.id)
  /\ l.pc \in {"point", "find", "write"} /\ l.content # Gone => l.content = src[l.id].content
  /\ l.pc = "write" /\ l.asked # None => Numbers(l.asked, l.id) \subseteq {l.found}
  /\ l.pc = "erase" /\ l.id \notin excused =>
       LET e == Effective(src[l.id].ws).url IN e \in Engines /\ Numbers(e, l.id) = {}

\* Every request that is alone knows it.
AloneCarriesCurrent == \A c \in Calls : call[c] # None /\ call[c].alone => CarriesCurrent(call[c])

\* What Dolphin has of a source that needs no excuse.
Mirrored(i) ==
  LET e == Effective(src[i].ws).url IN
  ~ Exists(i) \/ src[i].content \in Jdbc =>
    /\ e \in Engines
    /\ ~ Exists(i) => Numbers(e, i) = {}
    /\ src[i].content \in Jdbc => \E n \in Numbers(e, i) : mirror[e][n].content = src[i].content

\* Every source without an excuse has it between requests.
CurrentInv == \A i \in Ids : src[i] # None /\ On(i) = {} /\ i \notin excused => Mirrored(i)

\* What the mirror rests on.
MirrorInv == NamesAreUnique /\ AloneCarriesCurrent /\ CurrentInv

-----------------------------------------------------------------------------
(* Requests: what a start, and a step after it, does to them *)

\* A record of a request has its fields.
LEMMA Fields ==
  ASSUME NEW l \in Requests, NEW pc \in {"refresh", "reread", "load", "point", "find", "write", "erase", "save"},
         NEW v \in Contents \cup Patches, NEW n \in Nat, NEW e \in Engines \cup {None}
  PROVE  /\ [l EXCEPT !.pc = pc] \in Requests
         /\ [l EXCEPT !.pc = pc, !.content = v] \in Requests
         /\ [l EXCEPT !.pc = pc, !.found = n, !.asked = e] \in Requests
         /\ [l EXCEPT !.alone = FALSE] \in Requests
<1>1. l.content \in Contents \cup Patches /\ l.found \in Nat /\ l.asked \in Engines \cup {None}
  BY DEF Requests
<1>2. [l EXCEPT !.pc = pc] \in Requests
  BY <1>1 DEF Requests
<1>3. [l EXCEPT !.pc = pc, !.content = v] \in Requests
  BY <1>1 DEF Requests
<1>4. [l EXCEPT !.pc = pc, !.found = n, !.asked = e] \in Requests
  BY <1>1 DEF Requests
<1>5. [l EXCEPT !.alone = FALSE] \in Requests
  BY <1>1 DEF Requests
<1> QED
  BY <1>2, <1>3, <1>4, <1>5

\* What a request that starts does to the requests.
LEMMA Starts ==
  ASSUME ConstantsAssumption, DTypes, NEW c \in Calls,
         NEW pc \in {"refresh", "reread", "load", "point", "save"},
         NEW i \in Ids \cup Profiles \cup {None}, NEW l \in Layers, NEW v \in Contents \cup Patches,
         Start(c, pc, i, l, v)
  PROVE  /\ call[c] = None
         /\ call' \in [Calls -> {None} \cup Requests]
         /\ call'[c] # None /\ call'[c].pc = pc /\ call'[c].id = i /\ call'[c].layer = l
         /\ call'[c].content = v /\ call'[c].alone = (i = None \/ On(i) = {})
         /\ \A d \in Calls \ {c} :
              /\ call'[d] = None <=> call[d] = None
              /\ call[d] # None =>
                   /\ call'[d].pc = call[d].pc /\ call'[d].id = call[d].id /\ call'[d].layer = call[d].layer
                   /\ call'[d].content = call[d].content /\ call'[d].found = call[d].found
                   /\ call'[d].asked = call[d].asked
                   /\ call'[d].alone = (call[d].alone /\ ~(i # None /\ call[d].id = i))
<1>1. PICK r : r = [pc |-> pc, id |-> i, layer |-> l, content |-> v, found |-> 0,
                    asked |-> None, alone |-> i = None \/ On(i) = {}]
  OBVIOUS
<1>2. PICK b \in BOOLEAN : b = (i = None \/ On(i) = {})
  OBVIOUS
<1>3. r \in Requests
  BY <1>1, <1>2 DEF Requests
<1>4. /\ r.pc = pc /\ r.id = i /\ r.layer = l /\ r.content = v /\ r.alone = (i = None \/ On(i) = {})
      /\ r # None
  BY <1>1, <1>3 DEF ConstantsAssumption
<1>5. \A d \in Calls : call'[d] = IF d = c THEN r
                                  ELSE IF i # None /\ d \in On(i) THEN [call[d] EXCEPT !.alone = FALSE]
                                  ELSE call[d]
  BY <1>1 DEF Start
<1>6. DOMAIN call' = Calls
  BY DEF Start
<1>7. ASSUME NEW d \in Calls, d # c
      PROVE  /\ call'[d] \in {None} \cup Requests
             /\ call'[d] = None <=> call[d] = None
             /\ call[d] # None =>
                   /\ call'[d].pc = call[d].pc /\ call'[d].id = call[d].id /\ call'[d].layer = call[d].layer
                   /\ call'[d].content = call[d].content /\ call'[d].found = call[d].found
                   /\ call'[d].asked = call[d].asked
                   /\ call'[d].alone = (call[d].alone /\ ~(i # None /\ call[d].id = i))
  <2>1. PICK m \in {None} \cup Requests : m = call[d]
    BY <1>7 DEF DTypes
  <2>2. CASE i # None /\ d \in On(i)
    <3>1. m \in Requests /\ m # None /\ m.id = i
      BY <2>1, <2>2 DEF On
    <3>2. PICK k : k = [m EXCEPT !.alone = FALSE]
      OBVIOUS
    <3>3. call'[d] = k
      BY <1>5, <1>7, <2>1, <2>2, <3>2
    <3>4. k \in Requests /\ k.pc = m.pc /\ k.id = m.id /\ k.layer = m.layer /\ k.content = m.content
          /\ k.found = m.found /\ k.asked = m.asked /\ k.alone = FALSE
      BY <3>1, <3>2 DEF Requests
    <3>5. k # None
      BY <3>4 DEF ConstantsAssumption
    <3> QED
      BY <2>1, <2>2, <3>1, <3>3, <3>4, <3>5
  <2>3. CASE ~ (i # None /\ d \in On(i))
    <3>1. call'[d] = m
      BY <1>5, <1>7, <2>1, <2>3
    <3>2. m # None => ~ (i # None /\ m.id = i)
      BY <2>1, <2>3 DEF On
    <3>3. m # None => m.alone \in BOOLEAN
      BY <2>1 DEF Requests
    <3> QED
      BY <2>1, <3>1, <3>2, <3>3
  <2> QED
    BY <2>2, <2>3
<1>8. call' \in [Calls -> {None} \cup Requests]
  <2>1. \A d \in Calls : call'[d] \in {None} \cup Requests
    BY <1>3, <1>5, <1>7
  <2>2. call' = [d \in Calls |-> call'[d]]
    BY <1>6 DEF Start
  <2> QED
    BY <2>1, <2>2
<1>9. call'[c] = r /\ call[c] = None
  BY <1>5 DEF Start
<1> QED
  BY <1>4, <1>7, <1>8, <1>9

\* What a request that goes on or ends does to the requests.
LEMMA Moves ==
  ASSUME DTypes, NEW c \in Calls, call[c] # None, NEW r \in {None} \cup Requests,
         call' = [call EXCEPT ![c] = r], r # None => r.id = call[c].id
  PROVE  /\ call' \in [Calls -> {None} \cup Requests]
         /\ call'[c] = r /\ \A d \in Calls \ {c} : call'[d] = call[d]
         /\ \A i : On(i)' = IF r = None THEN On(i) \ {c} ELSE On(i)
<1>1. /\ call' \in [Calls -> {None} \cup Requests]
      /\ call'[c] = r /\ \A d \in Calls \ {c} : call'[d] = call[d]
  BY DEF DTypes
<1>2. ASSUME NEW i PROVE On(i)' = IF r = None THEN On(i) \ {c} ELSE On(i)
  BY <1>1 DEF On
<1> QED
  BY <1>1, <1>2

-----------------------------------------------------------------------------
(* Types and overlaps are kept *)

\* Sources and connections keep their workspaces, and stay known.
RowsStay ==
  /\ \A i \in Ids : src[i] # None => src'[i] # None /\ src'[i].ws = src[i].ws
  /\ \A p \in Profiles : profile[p] # None => profile'[p] # None

\* A request keeps fitting while rows keep their workspaces.
LEMMA FitsStays ==
  ASSUME NEW l, CallFits(l), RowsStay PROVE CallFits(l)'
BY DEF CallFits, RowsStay

\* A request starts.
LEMMA BasicStart ==
  ASSUME ConstantsAssumption, Basic, NEW c \in Calls,
         NEW pc \in {"refresh", "reread", "load", "point", "save"},
         NEW i \in Ids \cup Profiles \cup {None}, NEW l \in Layers, NEW v \in Contents \cup Patches,
         Start(c, pc, i, l, v), RowsStay, Tables',
         pc = "refresh" => i = None,
         pc = "save" => i \in Profiles /\ v \in Patches /\ profile'[i] # None,
         pc \in {"reread", "load", "point"} => i \in Ids /\ v = Gone /\ src'[i] # None /\ l = src'[i].ws,
         excused \subseteq excused', i \in Ids /\ On(i) # {} => i \in excused'
  PROVE  Basic'
<1>1. /\ call' \in [Calls -> {None} \cup Requests]
      /\ call'[c] # None /\ call'[c].pc = pc /\ call'[c].id = i /\ call'[c].layer = l
      /\ call'[c].content = v /\ call'[c].alone = (i = None \/ On(i) = {})
      /\ call[c] = None
      /\ \A d \in Calls \ {c} :
           /\ call'[d] = None <=> call[d] = None
           /\ call[d] # None =>
                /\ call'[d].pc = call[d].pc /\ call'[d].id = call[d].id /\ call'[d].layer = call[d].layer
                /\ call'[d].content = call[d].content /\ call'[d].found = call[d].found
                /\ call'[d].asked = call[d].asked
                /\ call'[d].alone = (call[d].alone /\ ~(i # None /\ call[d].id = i))
  BY Starts DEF Basic
<1>2. ASSUME NEW d \in Calls, call'[d] # None PROVE CallFits(call[d])'
  <2>1. CASE d = c
    <3>1. PICK r : r = call'[c]
      OBVIOUS
    <3>2. CallFits(r)'
      BY <1>1, <3>1 DEF CallFits, Contents
    <3> QED
      BY <2>1, <3>1, <3>2 DEF CallFits
  <2>2. CASE d # c
    <3>1. PICK m, r : m = call[d] /\ r = call'[d]
      OBVIOUS
    <3>2. /\ r.pc = m.pc /\ r.id = m.id /\ r.layer = m.layer /\ r.content = m.content /\ r.found = m.found
          /\ r.asked = m.asked /\ CallFits(m)
      BY <1>1, <1>2, <2>2, <3>1 DEF Basic, CallsFit
    <3>3. CallFits(m)'
      BY <3>2, FitsStays
    <3> QED
      BY <3>1, <3>2, <3>3 DEF CallFits
  <2> QED
    BY <2>1, <2>2
<1>3. \A d \in Calls \ {c} : call'[d] # None /\ call'[d].id = i /\ i # None => ~ call'[d].alone
  BY <1>1
<1>4. OverlapIsKnown'
  <2>1. SUFFICES ASSUME NEW d \in Calls, call'[d] # None, call'[d].id # None
                 PROVE  /\ call'[d].alone => On(call[d].id)' = {d}
                        /\ call'[d].id \in Ids /\ ~ call'[d].alone => call'[d].id \in excused'
    BY DEF OverlapIsKnown
  <2>2. PICK k : k = call'[d].id
    OBVIOUS
  <2>3. CASE d = c
    <3>1. k = i /\ i # None /\ call'[c].alone = (On(i) = {})
      BY <1>1, <2>1, <2>2, <2>3
    <3>2. On(i) = {} => On(k)' = {c}
      BY <1>1, <3>1 DEF On
    <3>3. call'[d].alone => On(k)' = {d}
      BY <2>3, <3>1, <3>2
    <3>4. k \in Ids /\ ~ call'[d].alone => k \in excused'
      BY <2>3, <3>1
    <3> QED
      BY <2>2, <3>3, <3>4 DEF On
  <2>4. CASE d # c
    <3>1. /\ call[d] # None /\ call[d].id = k /\ k # None
          /\ call'[d].alone = (call[d].alone /\ ~(i # None /\ k = i))
      BY <1>1, <2>1, <2>2, <2>4
    <3>2. /\ call[d].alone => On(k) = {d}
          /\ k \in Ids /\ ~ call[d].alone => k \in excused
      BY <3>1 DEF Basic, OverlapIsKnown
    <3>3. ~ (i # None /\ k = i) => On(k)' = On(k)
      BY <1>1, <3>1 DEF On
    <3>4. k = i => On(i) # {}
      BY <3>1 DEF On
    <3>5. call'[d].alone => On(k)' = {d}
      BY <3>1, <3>2, <3>3
    <3>6. k \in Ids /\ ~ call'[d].alone => k \in excused'
      BY <3>1, <3>2, <3>4
    <3> QED
      BY <2>2, <3>5, <3>6 DEF On
  <2> QED
    BY <2>3, <2>4
<1> QED
  BY <1>1, <1>2, <1>4 DEF Basic, DTypes, CallsFit

\* A request goes on or ends.
LEMMA BasicMove ==
  ASSUME ConstantsAssumption, Basic, NEW c \in Calls, call[c] # None, NEW r \in {None} \cup Requests,
         call' = [call EXCEPT ![c] = r], RowsStay, Tables',
         r # None => r.id = call[c].id /\ r.alone = call[c].alone /\ CallFits(r),
         \A j \in Ids : j \in excused => j \in excused' \/ (call[c].alone /\ call[c].id = j)
  PROVE  Basic'
<1>1. /\ call' \in [Calls -> {None} \cup Requests]
      /\ call'[c] = r /\ \A d \in Calls \ {c} : call'[d] = call[d]
      /\ \A i : On(i)' = IF r = None THEN On(i) \ {c} ELSE On(i)
  BY Moves DEF Basic
<1>2. ASSUME NEW d \in Calls, call'[d] # None PROVE CallFits(call[d])'
  <2>1. PICK m : m = call'[d]
    OBVIOUS
  <2>2. CallFits(m)
    BY <1>1, <1>2, <2>1 DEF Basic, CallsFit
  <2>3. CallFits(m)'
    BY <2>2, FitsStays
  <2> QED
    BY <2>1, <2>3 DEF CallFits
<1>3. OverlapIsKnown'
  <2>1. SUFFICES ASSUME NEW d \in Calls, call'[d] # None, call'[d].id # None
                 PROVE  /\ call'[d].alone => On(call[d].id)' = {d}
                        /\ call'[d].id \in Ids /\ ~ call'[d].alone => call'[d].id \in excused'
    BY DEF OverlapIsKnown
  <2>2. PICK k : k = call'[d].id
    OBVIOUS
  <2>3. call[d] # None /\ call[d].id = k /\ call'[d].alone = call[d].alone
    BY <1>1, <2>1, <2>2
  <2>4. /\ call[d].alone => On(k) = {d}
        /\ k \in Ids /\ ~ call[d].alone => k \in excused
    BY <2>1, <2>2, <2>3 DEF Basic, OverlapIsKnown
  <2>5. call[d].alone => On(k)' = {d}
    <3>1. CASE d = c
      BY <1>1, <2>1, <2>4, <3>1
    <3>2. CASE d # c
      BY <1>1, <2>4, <3>2
    <3> QED
      BY <3>1, <3>2
  <2>6. k \in Ids /\ ~ call[d].alone => k \in excused'
    <3>1. call[c].alone /\ call[c].id = k => d = c \/ call[d].alone \/ k = None
      BY <2>2, <2>3 DEF Basic, OverlapIsKnown, On
    <3> QED
      BY <2>1, <2>2, <2>3, <2>4, <3>1
  <2> QED
    BY <2>2, <2>3, <2>5, <2>6 DEF On
<1> QED
  BY <1>1, <1>2, <1>3 DEF Basic, DTypes, CallsFit

\* Nothing about the requests changes.
LEMMA BasicStays ==
  ASSUME Basic, call' = call, RowsStay, Tables', \A j \in Ids : j \in excused => j \in excused'
  PROVE  Basic'
<1>1. ASSUME NEW d \in Calls, call'[d] # None PROVE CallFits(call[d])'
  <2>1. PICK m : m = call[d]
    OBVIOUS
  <2>2. CallFits(m)'
    BY <1>1, <2>1, FitsStays DEF Basic, CallsFit
  <2> QED
    BY <2>1, <2>2 DEF CallFits
<1>2. OverlapIsKnown'
  BY DEF Basic, OverlapIsKnown, On
<1> QED
  BY <1>1, <1>2 DEF Basic, DTypes, CallsFit

\* A request ends.
LEMMA BasicDone ==
  ASSUME ConstantsAssumption, Basic, NEW c \in Calls, call[c] # None, Done(c), RowsStay, Tables',
         \A j \in Ids : j \in excused => j \in excused' \/ (call[c].alone /\ call[c].id = j)
  PROVE  Basic'
<1>1. PICK r \in {None} \cup Requests : r = None
  OBVIOUS
<1> QED
  BY <1>1, BasicMove DEF Done

\* A request goes on.
LEMMA BasicGoTo ==
  ASSUME ConstantsAssumption, Basic, NEW c \in Calls, call[c] # None, NEW pc \in {"write", "erase", "find"},
         GoTo(c, pc), RowsStay, Tables',
         call[c].pc \notin {"refresh", "save"}, pc = "erase" => Deletes(c),
         pc = "find" => call[c].content \notin Plain,
         pc # "write",
         \A j \in Ids : j \in excused => j \in excused' \/ (call[c].alone /\ call[c].id = j)
  PROVE  Basic'
<1>1. PICK m \in Requests : m = call[c]
  BY DEF Basic, DTypes
<1>2. PICK r : r = [m EXCEPT !.pc = pc]
  OBVIOUS
<1>3. r \in Requests
  BY <1>2 DEF Requests
<1>4. /\ r.pc = pc /\ r.id = m.id /\ r.layer = m.layer /\ r.content = m.content /\ r.alone = m.alone
  BY <1>2 DEF Requests
<1>5. CallFits(m)
  BY <1>1 DEF Basic, CallsFit
<1>6. CallFits(r)
  BY <1>1, <1>4, <1>5 DEF CallFits, Deletes
<1>7. call' = [call EXCEPT ![c] = r]
  BY <1>1, <1>2 DEF GoTo
<1> QED
  BY <1>1, <1>3, <1>4, <1>6, <1>7, BasicMove

\* The settings are written.
LEMMA PutBasic ==
  ASSUME ConstantsAssumption, Basic, NEW c \in Calls, NEW l \in Layers, NEW new, Put(c, l, new)
  PROVE  Basic'
<1>1. Start(c, "refresh", None, l, Gone) /\ setting' = [setting EXCEPT ![l] = new]
      /\ UNCHANGED <<src, default, warehouse, profile, bound, mirror>> /\ excused \subseteq excused'
  BY DEF Put, Excuse, rows, conns
<1>2. Tables'
  BY <1>1 DEF Basic, DTypes, Tables
<1>3. RowsStay
  BY <1>1 DEF RowsStay
<1>4. Gone \in Contents \cup Patches
  BY DEF Contents
<1>5. None \notin Ids
  BY DEF ConstantsAssumption
<1> QED
  BY <1>1, <1>2, <1>3, <1>4, <1>5, BasicStart

\* A source that is created.
LEMMA CreateBasic ==
  ASSUME ConstantsAssumption, Basic, NEW c \in Calls, NEW i \in Ids, NEW s \in Source, Create(c, i, s)
  PROVE  Basic'
<1>1. Start(c, "reread", i, s.ws, Gone) /\ src[i] = None /\ src' = [src EXCEPT ![i] = s]
      /\ UNCHANGED <<default, warehouse, profile, bound, mirror, setting, excused>>
  BY DEF Create, conns
<1>2. s \in Entries /\ s.ws \in Layers /\ s.ws \in Workspaces
  BY DEF Source, Entries, Contents, Layers
<1>3. Tables' /\ src'[i] = s
  BY <1>1, <1>2 DEF Basic, DTypes, Tables
<1>4. s # None
  BY <1>2 DEF ConstantsAssumption
<1>5. RowsStay
  BY <1>1, <1>3, <1>4 DEF RowsStay, Basic, DTypes, Tables
<1>6. On(i) = {}
  <2>1. \A d \in Calls : call[d] # None /\ call[d].id = i => CallFits(call[d])
    BY DEF Basic, CallsFit
  <2>2. \A d \in Calls : call[d] # None /\ call[d].id = i => src[i] # None
    <3>1. SUFFICES ASSUME NEW d \in Calls, call[d] # None, call[d].id = i PROVE src[i] # None
      OBVIOUS
    <3>2. PICK m : m = call[d]
      OBVIOUS
    <3>3. CallFits(m) /\ m.id = i
      BY <2>1, <3>1, <3>2
    <3> QED
      BY <3>3 DEF CallFits, ConstantsAssumption
  <2> QED
    BY <1>1, <2>2 DEF On
<1>7. Gone \in Contents \cup Patches
  BY DEF Contents
<1> QED
  BY <1>1, <1>2, <1>3, <1>4, <1>5, <1>6, <1>7, BasicStart

\* A source that is changed.
LEMMA UpdateBasic ==
  ASSUME ConstantsAssumption, Basic, NEW c \in Calls, NEW i \in Ids, NEW v \in Jdbc \cup Plain, Update(c, i, v)
  PROVE  Basic'
<1>1. Start(c, "reread", i, src[i].ws, Gone) /\ Exists(i) /\ src' = [src EXCEPT ![i].content = v]
      /\ UNCHANGED <<default, warehouse, profile, bound, mirror, setting>>
      /\ excused' = excused \cup {j \in {i} : On(i) # {}}
  BY DEF Update, conns, Excuse
<1>2. PICK old \in Entries : old = src[i]
  BY <1>1 DEF Exists, Basic, DTypes, Tables
<1>3. PICK e : e = [old EXCEPT !.content = v]
  OBVIOUS
<1>4. e \in Entries /\ e.ws = old.ws /\ old.ws \in Layers
  BY <1>2, <1>3 DEF Entries, Contents, Layers
<1>5. src' = [src EXCEPT ![i] = e]
  BY <1>1, <1>2, <1>3
<1>6. src'[i] = e /\ Tables'
  <2>1. UNCHANGED <<default, warehouse, profile, bound, mirror, setting>>
    BY <1>1
  <2> QED
    BY <1>4, <1>5, <2>1 DEF Basic, DTypes, Tables
<1>7. e # None
  BY <1>4 DEF ConstantsAssumption
<1>8. RowsStay
  BY <1>1, <1>2, <1>4, <1>5, <1>6, <1>7 DEF RowsStay, Basic, DTypes, Tables
<1>9. Gone \in Contents \cup Patches
  BY DEF Contents
<1>10. PICK l \in Layers : l = src[i].ws /\ l = src'[i].ws
  BY <1>2, <1>4, <1>6
<1>11. excused \subseteq excused' /\ (On(i) # {} => i \in excused')
  BY <1>1
<1>12. Start(c, "reread", i, l, Gone) /\ src'[i] # None
  BY <1>1, <1>6, <1>7, <1>10
<1> QED
  BY <1>6, <1>8, <1>10, <1>9, <1>11, <1>12, BasicStart

\* A deletion that begins.
LEMMA DeleteBasic ==
  ASSUME ConstantsAssumption, Basic, NEW c \in Calls, NEW i \in Ids, DeleteBegin(c, i)
  PROVE  Basic'
<1>1. Start(c, "point", i, src[i].ws, Gone) /\ Exists(i)
      /\ UNCHANGED <<src, default, warehouse, profile, bound, mirror, setting>>
      /\ excused' = excused \cup {j \in {i} : On(i) # {}}
  BY DEF DeleteBegin, conns, rows, Excuse
<1>2. src[i].ws \in Layers /\ src'[i] # None
  BY <1>1 DEF Exists, Basic, DTypes, Tables, Entries, Layers
<1>3. Tables' /\ RowsStay
  BY <1>1 DEF Basic, DTypes, Tables, RowsStay
<1>4. Gone \in Contents \cup Patches
  BY DEF Contents
<1>5. PICK l \in Layers : l = src[i].ws /\ l = src'[i].ws
  BY <1>1, <1>2
<1> QED
  BY <1>1, <1>2, <1>3, <1>4, <1>5, BasicStart

\* A publication that begins.
LEMMA PublishBasic ==
  ASSUME ConstantsAssumption, Basic, NEW c \in Calls, NEW i \in Ids, PublishWorkflow(c, i)
  PROVE  Basic'
<1>1. Start(c, "load", i, src[i].ws, Gone) /\ Exists(i)
      /\ UNCHANGED <<src, default, warehouse, profile, bound, mirror, setting>>
      /\ excused' = excused \cup {j \in {i} : On(i) # {}}
  BY DEF PublishWorkflow, conns, rows, Excuse
<1>2. src[i].ws \in Layers /\ src'[i] # None
  BY <1>1 DEF Exists, Basic, DTypes, Tables, Entries, Layers
<1>3. Tables' /\ RowsStay
  BY <1>1 DEF Basic, DTypes, Tables, RowsStay
<1>4. Gone \in Contents \cup Patches
  BY DEF Contents
<1>5. PICK l \in Layers : l = src[i].ws /\ l = src'[i].ws
  BY <1>1, <1>2
<1> QED
  BY <1>1, <1>2, <1>3, <1>4, <1>5, BasicStart

\* What a request says about columns of Flink has values.
LEMMA PatchTyped ==
  ASSUME ConstantsAssumption, NEW b \in Overrides, NEW S \in SUBSET DOMAIN b
  PROVE  [f \in S |-> b[f]] \in Patches
<1>1. S \in SUBSET Flink
  BY DEF ConstantsAssumption
<1>2. \A f \in S : b[f] \in Values
  BY DEF Values
<1>3. [f \in S |-> b[f]] \in [S -> Values]
  BY <1>2
<1> QED
  BY <1>1, <1>3 DEF Patches

\* A connection with a patch is a connection.
LEMMA PatchedTyped ==
  ASSUME NEW r \in [Columns -> Values], NEW b \in Patches
  PROVE  Patched(r, b) \in [Columns -> Values]
<1>1. \A f \in DOMAIN b : b[f] \in Values
  BY DEF Patches
<1> QED
  BY <1>1 DEF Patched

\* So is a connection with what a request gives.
LEMMA OverridesArePatches ==
  ASSUME ConstantsAssumption, NEW b \in Overrides, NEW r \in [Columns -> Values]
  PROVE  Patched(r, b) \in [Columns -> Values]
<1>1. \A f \in DOMAIN b : b[f] \in Values
  BY DEF Values
<1> QED
  BY <1>1 DEF Patched

\* An edit of a connection that begins.
LEMMA UpdateProfileBasic ==
  ASSUME ConstantsAssumption, Basic, NEW c \in Calls, NEW p \in Profiles, UpdateProfile(c, p)
  PROVE  Basic'
<1>1. PICK b \in Overrides :
        Start(c, "save", p, profile[p].ws, [f \in {g \in DOMAIN b : b[g] # profile[p].row[g]} |-> b[f]])
  BY DEF UpdateProfile
<1>2. PICK v : v = [f \in {g \in DOMAIN b : b[g] # profile[p].row[g]} |-> b[f]]
  OBVIOUS
<1>3. v \in Patches
  BY <1>2, PatchTyped
<1>4. Live(p) /\ UNCHANGED <<src, default, warehouse, profile, bound, mirror, setting, excused>>
  BY DEF UpdateProfile, rows, conns
<1>5. profile[p].ws \in Layers /\ profile[p] # None
  BY <1>4 DEF Live, Basic, DTypes, Tables, Cells, Connections, Layers
<1>6. Tables' /\ RowsStay
  BY <1>4 DEF Basic, DTypes, Tables, RowsStay
<1>7. p \notin Ids
  BY DEF ConstantsAssumption
<1> QED
  BY <1>1, <1>2, <1>3, <1>4, <1>5, <1>6, <1>7, BasicStart

\* A request that is there is one.
LEMMA IsRequest ==
  ASSUME Basic, NEW c \in Calls, call[c] # None
  PROVE  call[c] \in Requests /\ CallFits(call[c])
BY DEF Basic, DTypes, CallsFit

\* Only steps of a push leave the tables alone.
LEMMA TablesStay ==
  ASSUME Basic, UNCHANGED <<src, default, warehouse, mirror, setting, profile, bound>>
  PROVE  Tables' /\ RowsStay
BY DEF Basic, DTypes, Tables, RowsStay

\* The committed row is read again.
LEMMA RereadBasic ==
  ASSUME ConstantsAssumption, Basic, NEW c \in Calls, Reread(c) PROVE Basic'
<1>1. At(c, "reread") /\ UNCHANGED <<src, default, warehouse, mirror, setting, profile, bound, excused>>
  BY DEF Reread, conns, rows
<1>2. PICK m \in Requests : m = call[c] /\ CallFits(m)
  BY <1>1, IsRequest DEF At
<1>3. Tables' /\ RowsStay
  BY <1>1, TablesStay
<1>4. CASE Exists(m.id)
  <2>1. m.id \in Ids /\ m.pc = "reread"
    BY <1>1, <1>2 DEF CallFits, At
  <2>2. PICK v \in Contents : v = src[m.id].content
    BY <1>4, <2>1 DEF Exists, Basic, DTypes, Tables, Entries
  <2>3. PICK r : r = [m EXCEPT !.pc = "point", !.content = v]
    OBVIOUS
  <2>4. /\ r \in Requests /\ r.pc = "point" /\ r.id = m.id /\ r.layer = m.layer /\ r.content = v
        /\ r.alone = m.alone
    BY <2>3 DEF Requests
  <2>5. CallFits(r)
    BY <1>2, <2>1, <2>4 DEF CallFits
  <2>6. call' = [call EXCEPT ![c] = r]
    BY <1>2, <1>4, <2>2, <2>3 DEF Reread
  <2> QED
    BY <1>1, <1>2, <1>3, <2>4, <2>5, <2>6, BasicMove DEF At
<1>5. CASE ~ Exists(m.id)
  BY <1>1, <1>2, <1>3, <1>5, BasicDone DEF Reread, At
<1> QED
  BY <1>4, <1>5

\* A publication loads the committed row.
LEMMA LoadBasic ==
  ASSUME ConstantsAssumption, Basic, NEW c \in Calls, Load(c) PROVE Basic'
<1>1. At(c, "load") /\ UNCHANGED <<src, default, warehouse, mirror, setting, profile, bound, excused>>
  BY DEF Load, conns, rows
<1>2. PICK m \in Requests : m = call[c] /\ CallFits(m)
  BY <1>1, IsRequest DEF At
<1>3. Tables' /\ RowsStay
  BY <1>1, TablesStay
<1>4. CASE Exists(m.id) /\ src[m.id].content \in Jdbc
  <2>1. m.id \in Ids /\ m.pc = "load"
    BY <1>1, <1>2 DEF CallFits, At
  <2>2. PICK v \in Contents : v = src[m.id].content /\ v \notin Plain
    BY <1>4, <2>1 DEF Exists, Basic, DTypes, Tables, Entries, ConstantsAssumption
  <2>3. PICK r : r = [m EXCEPT !.pc = "find", !.content = v]
    OBVIOUS
  <2>4. /\ r \in Requests /\ r.pc = "find" /\ r.id = m.id /\ r.layer = m.layer /\ r.content = v
        /\ r.alone = m.alone
    BY <2>3 DEF Requests
  <2>5. CallFits(r)
    BY <1>2, <2>1, <2>2, <2>4 DEF CallFits
  <2>6. call' = [call EXCEPT ![c] = r]
    BY <1>2, <1>4, <2>2, <2>3 DEF Load
  <2> QED
    BY <1>1, <1>2, <1>3, <2>4, <2>5, <2>6, BasicMove DEF At
<1>5. CASE ~ (Exists(m.id) /\ src[m.id].content \in Jdbc)
  BY <1>1, <1>2, <1>3, <1>5, BasicDone DEF Load, At
<1> QED
  BY <1>4, <1>5

\* A push is answered, or a deletion goes on to the row.
LEMMA BasicAfter ==
  ASSUME ConstantsAssumption, Basic, NEW c \in Calls, call[c] # None, After(c), RowsStay, Tables',
         call[c].pc \notin {"refresh", "save"},
         \A j \in Ids : j \in excused => j \in excused' \/ (call[c].alone /\ call[c].id = j)
  PROVE  Basic'
BY BasicDone, BasicGoTo DEF After

\* The shared client is set.
LEMMA PointBasic ==
  ASSUME ConstantsAssumption, Basic, NEW c \in Calls, Point(c) PROVE Basic'
<1>1. At(c, "point") /\ UNCHANGED <<src, default, warehouse, mirror, setting, profile, bound>>
      /\ excused \subseteq excused'
  BY DEF Point, conns, rows, Excuse
<1>2. Tables' /\ RowsStay
  BY <1>1, TablesStay
<1>3. After(c) \/ Done(c) \/ (call[c].content \notin Plain /\ GoTo(c, "find"))
  BY DEF Point
<1> QED
  BY <1>1, <1>2, <1>3, BasicAfter, BasicDone, BasicGoTo DEF At

\* The item is looked up.
LEMMA FindBasic ==
  ASSUME ConstantsAssumption, Basic, NEW c \in Calls, Find(c) PROVE Basic'
<1>1. At(c, "find") /\ UNCHANGED <<src, default, warehouse, mirror, setting, profile, bound, excused>>
  BY DEF Find, conns, rows
<1>2. PICK m \in Requests : m = call[c] /\ CallFits(m)
  BY <1>1, IsRequest DEF At
<1>3. PICK n \in Nat, e \in Engines \cup {None} : Looked(c, n, e) /\ (n = 0 \/ e \in Engines)
  <2>1. ASSUME Reached # None, NEW n \in IF Numbers(Reached, call[c].id) = {} THEN {0}
                                          ELSE Numbers(Reached, call[c].id)
        PROVE  n \in Nat /\ Reached \in Engines
    <3>1. Reached \in Engines
      BY <2>1 DEF Reached
    <3>2. mirror[Reached] \in Seq({None} \cup Items)
      BY <3>1 DEF Basic, DTypes, Tables
    <3>3. DOMAIN mirror[Reached] \subseteq Nat
      BY <3>2
    <3>4. Numbers(Reached, call[c].id) \subseteq Nat
      BY <3>3 DEF Numbers
    <3> QED
      BY <2>1, <3>1, <3>4
  <2> QED
    BY <2>1 DEF Find
<1>4. PICK r : r = [m EXCEPT !.pc = "write", !.found = n, !.asked = e]
  OBVIOUS
<1>5. /\ r \in Requests /\ r.pc = "write" /\ r.id = m.id /\ r.layer = m.layer /\ r.content = m.content
      /\ r.found = n /\ r.asked = e /\ r.alone = m.alone
  BY <1>4 DEF Requests
<1>6. CallFits(r)
  BY <1>1, <1>2, <1>3, <1>5 DEF CallFits, At
<1>7. call' = [call EXCEPT ![c] = r]
  BY <1>2, <1>3, <1>4 DEF Looked
<1>8. Tables' /\ RowsStay
  BY <1>1, TablesStay
<1> QED
  BY <1>1, <1>2, <1>5, <1>6, <1>7, <1>8, BasicMove DEF At

\* What is written is an item, or nothing.
LEMMA WrittenTyped ==
  ASSUME ConstantsAssumption, Basic, NEW c \in Calls, At(c, "write"), NEW e \in Engines,
         call[c].found # 0 => call[c].found \in DOMAIN mirror[e], ~(Deletes(c) /\ call[c].found = 0)
  PROVE  LET n == call[c].found
             item == IF Deletes(c) THEN None ELSE [of |-> call[c].id, content |-> call[c].content] IN
         /\ DOMAIN Written(c, e) = Engines
         /\ \A d \in Engines : Written(c, e)[d] \in Seq({None} \cup Items)
         /\ \A d \in Engines \ {e} : Written(c, e)[d] = mirror[d]
         /\ DOMAIN Written(c, e)[e] = IF n # 0 THEN DOMAIN mirror[e] ELSE DOMAIN mirror[e] \cup {Len(mirror[e]) + 1}
         /\ n # 0 => Written(c, e)[e][n] = item
         /\ n = 0 => Written(c, e)[e][Len(mirror[e]) + 1] = item
         /\ \A k \in DOMAIN mirror[e] : k # n => Written(c, e)[e][k] = mirror[e][k]
         /\ item = None \/ item \in Items
<1>1. PICK m \in Requests : m = call[c] /\ CallFits(m) /\ m.pc = "write"
  BY IsRequest DEF At
<1>2. PICK item : item = IF Deletes(c) THEN None ELSE [of |-> m.id, content |-> m.content]
  OBVIOUS
<1>3. item \in {None} \cup Items
  BY <1>1, <1>2 DEF CallFits, Items, Deletes, Contents
<1>4. PICK s \in Seq({None} \cup Items) : s = mirror[e]
  BY DEF Basic, DTypes, Tables
<1>5. PICK n \in Nat : n = m.found
  BY <1>1 DEF Requests
<1>6. CASE n # 0
  <2>1. PICK t : t = [s EXCEPT ![n] = item]
    OBVIOUS
  <2>2. Written(c, e) = [mirror EXCEPT ![e] = t]
    BY <1>1, <1>2, <1>4, <1>5, <1>6, <2>1 DEF Written
  <2>3. n \in DOMAIN s
    BY <1>1, <1>4, <1>5, <1>6
  <2>4. /\ t \in Seq({None} \cup Items) /\ DOMAIN t = DOMAIN s /\ t[n] = item
        /\ \A k \in DOMAIN s : k # n => t[k] = s[k]
    BY <1>3, <2>1, <2>3
  <2>5. DOMAIN Written(c, e) = Engines /\ Written(c, e)[e] = t
        /\ \A d \in Engines \ {e} : Written(c, e)[d] = mirror[d]
    BY <2>2 DEF Basic, DTypes, Tables
  <2> QED
    BY <1>1, <1>2, <1>3, <1>4, <1>5, <1>6, <2>4, <2>5 DEF Basic, DTypes, Tables
<1>7. CASE n = 0
  <2>1. PICK t : t = Append(s, item)
    OBVIOUS
  <2>2. Written(c, e) = [mirror EXCEPT ![e] = t]
    BY <1>1, <1>2, <1>4, <1>5, <1>7, <2>1 DEF Written
  <2>3. Len(s) \in Nat /\ DOMAIN s = 1 .. Len(s)
    OBVIOUS
  <2>4. /\ t \in Seq({None} \cup Items) /\ Len(t) = Len(s) + 1 /\ DOMAIN t = 1 .. Len(t)
        /\ t[Len(s) + 1] = item
        /\ \A k \in DOMAIN s : t[k] = s[k]
    BY <1>3, <2>1, <2>3
  <2>5. DOMAIN t = DOMAIN s \cup {Len(s) + 1}
    BY <2>3, <2>4
  <2>6. DOMAIN Written(c, e) = Engines /\ Written(c, e)[e] = t
        /\ \A d \in Engines \ {e} : Written(c, e)[d] = mirror[d]
    BY <2>2 DEF Basic, DTypes, Tables
  <2> QED
    BY <1>1, <1>2, <1>3, <1>4, <1>5, <1>7, <2>4, <2>5, <2>6 DEF Basic, DTypes, Tables
<1> QED
  BY <1>6, <1>7

\* A write that is accepted, and one that is not.
LEMMA WriteCases ==
  ASSUME Basic, NEW c \in Calls, Write(c)
  PROVE  /\ At(c, "write") /\ ~(Deletes(c) /\ call[c].found = 0) /\ After(c)
         /\ UNCHANGED <<src, default, warehouse, setting, profile, bound>>
         /\ \/ \E e \in Engines :
                 /\ Accepts(c, e) /\ e = Reached /\ mirror' = Written(c, e)
                 /\ call[c].found # 0 => call[c].found \in DOMAIN mirror[e] /\ mirror[e][call[c].found] # None
                 /\ strayed' = (strayed \/ (call[c].found # 0 /\ call[c].asked # e))
                 /\ LET hit == {mirror[e][k].of : k \in {call[c].found} \ {0}}
                    IN IF call[c].alone /\ {e, call[c].asked} = {Effective(call[c].layer).url}
                       THEN excused' = (excused \cup hit) \ {call[c].id}
                       ELSE excused' = excused \cup ({call[c].id} \cup hit)
            \/ /\ excused' = excused \cup {call[c].id}
               /\ UNCHANGED <<mirror, strayed>>
<1>1. Reached # None => Reached \in Engines
  BY DEF Reached
<1>2. Accepts(c, Reached) => /\ Reached # None
                             /\ call[c].found # 0 => call[c].found \in DOMAIN mirror[Reached]
                                                     /\ mirror[Reached][call[c].found] # None
  BY DEF Accepts
<1>3. /\ At(c, "write") /\ ~(Deletes(c) /\ call[c].found = 0) /\ After(c)
      /\ UNCHANGED <<src, default, warehouse, setting, profile, bound>>
  BY DEF Write, conns, rows
<1> QED
  BY <1>1, <1>2, <1>3 DEF Write, Excuse

\* The item is written.
LEMMA WriteBasic ==
  ASSUME ConstantsAssumption, Basic, NEW c \in Calls, Write(c) PROVE Basic'
<1>1. /\ At(c, "write") /\ ~(Deletes(c) /\ call[c].found = 0) /\ After(c)
      /\ UNCHANGED <<src, default, warehouse, setting, profile, bound>>
  BY WriteCases
<1>2. RowsStay
  BY <1>1 DEF RowsStay
<1>3. ASSUME NEW e \in Engines, mirror' = Written(c, e),
             call[c].found # 0 => call[c].found \in DOMAIN mirror[e]
      PROVE  Tables'
  <2>1. DOMAIN mirror' = Engines /\ \A d \in Engines : mirror'[d] \in Seq({None} \cup Items)
    BY <1>1, <1>3, WrittenTyped
  <2> QED
    BY <1>1, <2>1 DEF Basic, DTypes, Tables
<1>4. mirror' = mirror => Tables'
  BY <1>1, TablesStay
<1>5. Tables'
  BY <1>3, <1>4, WriteCases
<1>6. \A j \in Ids : j \in excused => j \in excused' \/ (call[c].alone /\ call[c].id = j)
  BY WriteCases
<1> QED
  BY <1>1, <1>2, <1>5, <1>6, BasicAfter DEF At

\* There was nothing to remove.
LEMMA NothingBasic ==
  ASSUME ConstantsAssumption, Basic, NEW c \in Calls, NothingToRemove(c) PROVE Basic'
<1>1. At(c, "write") /\ Deletes(c) /\ GoTo(c, "erase")
      /\ UNCHANGED <<src, default, warehouse, mirror, setting, profile, bound>>
      /\ \A j \in Ids : j \in excused => j \in excused' \/ (call[c].alone /\ call[c].id = j)
  BY DEF NothingToRemove, Excuse, conns, rows
<1>2. Tables' /\ RowsStay
  BY <1>1, TablesStay
<1> QED
  BY <1>1, <1>2, BasicGoTo DEF At

\* What the end of a deletion does to the row.
LEMMA Erases ==
  ASSUME ConstantsAssumption, Basic, NEW c \in Calls, Erase(c)
  PROVE  /\ At(c, "erase") /\ Done(c) /\ call[c].id \in Ids /\ call[c] \in Requests /\ CallFits(call[c])
         /\ UNCHANGED <<default, warehouse, mirror, setting, profile, bound, strayed>>
         /\ src' \in [Ids -> {None} \cup Entries]
         /\ \A i \in Ids : src[i] # None => src'[i] # None /\ src'[i].ws = src[i].ws
         /\ \A i \in Ids \ {call[c].id} : src'[i] = src[i]
         /\ \/ Exists(call[c].id) /\ ~ Referred(call[c].id) /\ src'[call[c].id].content = Gone /\ UNCHANGED excused
            \/ UNCHANGED src /\ excused' = excused \cup {call[c].id}
<1>1. /\ At(c, "erase") /\ Done(c) /\ call[c].id \in Ids /\ call[c] \in Requests /\ CallFits(call[c])
      /\ UNCHANGED <<default, warehouse, mirror, setting, profile, bound, strayed>>
  BY IsRequest DEF Erase, At, CallFits, conns
<1>2. PICK i \in Ids : i = call[c].id
  BY <1>1
<1>3. CASE Exists(i) /\ ~ Referred(i)
  <2>1. PICK old \in Entries : old = src[i]
    BY <1>3 DEF Exists, Basic, DTypes, Tables
  <2>2. PICK e : e = [old EXCEPT !.content = Gone]
    OBVIOUS
  <2>3. e \in Entries /\ e.ws = old.ws /\ e.content = Gone
    BY <2>1, <2>2 DEF Entries, Contents
  <2>4. src' = [src EXCEPT ![i] = e] /\ UNCHANGED excused
    BY <1>2, <1>3, <2>1, <2>2 DEF Erase
  <2>5. e # None
    BY <2>3 DEF ConstantsAssumption
  <2>6. src' \in [Ids -> {None} \cup Entries] /\ src'[i] = e /\ \A j \in Ids \ {i} : src'[j] = src[j]
    BY <2>3, <2>4 DEF Basic, DTypes, Tables
  <2>7. \A j \in Ids : src[j] # None => src'[j] # None /\ src'[j].ws = src[j].ws
    BY <2>1, <2>3, <2>5, <2>6
  <2> QED
    BY <1>1, <1>2, <1>3, <2>3, <2>4, <2>6, <2>7
<1>4. CASE ~ (Exists(i) /\ ~ Referred(i))
  <2>1. UNCHANGED src /\ excused' = excused \cup {i}
    BY <1>2, <1>4 DEF Erase, Excuse
  <2> QED
    BY <1>1, <1>2, <2>1 DEF Basic, DTypes, Tables
<1> QED
  BY <1>3, <1>4

\* The row of a source goes, or stays.
LEMMA EraseBasic ==
  ASSUME ConstantsAssumption, Basic, NEW c \in Calls, Erase(c) PROVE Basic'
<1>1. At(c, "erase") /\ Done(c) /\ \A j \in Ids : j \in excused => j \in excused'
  BY Erases
<1>2. UNCHANGED <<default, warehouse, mirror, setting, profile, bound>> /\ src' \in [Ids -> {None} \cup Entries]
  BY Erases
<1>3. Tables'
  BY <1>2 DEF Basic, DTypes, Tables
<1>4. RowsStay
  BY <1>2, Erases DEF RowsStay
<1> QED
  BY <1>1, <1>3, <1>4, BasicDone DEF At

\* A request ends after the client is set, or is lost.
LEMMA RefreshBasic ==
  ASSUME ConstantsAssumption, Basic, NEW c \in Calls, Refresh(c) \/ Die(c) PROVE Basic'
<1>1. call[c] # None /\ Done(c) /\ excused \subseteq excused'
      /\ UNCHANGED <<src, default, warehouse, mirror, setting, profile, bound>>
  BY DEF Refresh, Die, At, Excuse, conns, rows
<1>2. Tables' /\ RowsStay
  BY <1>1, TablesStay
<1> QED
  BY <1>1, <1>2, BasicDone

\* What an edit of a connection writes.
LEMMA Saves ==
  ASSUME ConstantsAssumption, Basic, NEW c \in Calls, SaveProfile(c)
  PROVE  /\ At(c, "save") /\ Done(c) /\ call[c].id \in Profiles /\ call[c].id \notin Ids
         /\ UNCHANGED <<src, default, warehouse, mirror, setting, bound>>
         /\ profile' \in [Profiles -> Cells]
         /\ \A p \in Profiles : /\ profile[p] # None => profile'[p] # None
                                /\ Live(p)' <=> Live(p)
                                /\ Live(p) => profile'[p].ws = profile[p].ws
         /\ \A p \in Profiles \ {call[c].id} : profile'[p] = profile[p]
         /\ Live(call[c].id) => /\ profile'[call[c].id].row = Patched(profile[call[c].id].row, call[c].content)
                                /\ excused' = IF call[c].alone THEN excused \ {call[c].id}
                                              ELSE excused \cup {call[c].id}
         /\ ~ Live(call[c].id) => UNCHANGED <<profile, excused>>
<1>1. /\ At(c, "save") /\ Done(c) /\ UNCHANGED <<src, default, warehouse, mirror, setting, bound>>
  BY DEF SaveProfile, rows
<1>2. PICK m \in Requests : m = call[c] /\ CallFits(m) /\ m.pc = "save"
  BY <1>1, IsRequest DEF At
<1>3. m.id \in Profiles /\ m.content \in Patches
  BY <1>2 DEF CallFits
<1>4. PICK p \in Profiles : p = m.id /\ p \notin Ids
  BY <1>3 DEF ConstantsAssumption
<1>5. CASE Live(p)
  <2>1. PICK old \in Connections : old = profile[p]
    BY <1>5 DEF Live, Basic, DTypes, Tables, Cells
  <2>2. old.row \in [Columns -> Values]
    BY <2>1 DEF Connections
  <2>3. Patched(old.row, m.content) \in [Columns -> Values]
    BY <1>3, <2>2, PatchedTyped
  <2>4. PICK row \in [Columns -> Values] : row = Patched(old.row, m.content)
    BY <2>3
  <2>5. PICK new : new = [old EXCEPT !.row = row]
    OBVIOUS
  <2>6. new \in Connections /\ new.ws = old.ws /\ new.row = row
    BY <2>5 DEF Connections
  <2>7. profile' = [profile EXCEPT ![p] = new]
    BY <1>2, <1>4, <1>5, <2>1, <2>4, <2>5 DEF SaveProfile
  <2>8. new # None /\ new # Gone
    BY <2>6 DEF ConstantsAssumption
  <2>9. profile' \in [Profiles -> Cells] /\ profile'[p] = new /\ \A q \in Profiles \ {p} : profile'[q] = profile[q]
    BY <2>6, <2>7 DEF Basic, DTypes, Tables, Cells
  <2>10. \A q \in Profiles : /\ profile[q] # None => profile'[q] # None
                             /\ Live(q)' <=> Live(q)
                             /\ Live(q) => profile'[q].ws = profile[q].ws
    BY <1>5, <2>1, <2>6, <2>8, <2>9 DEF Live
  <2>11. excused' = IF m.alone THEN excused \ {p} ELSE excused \cup {p}
    BY <1>2, <1>4, <1>5 DEF SaveProfile
  <2> QED
    BY <1>1, <1>2, <1>4, <1>5, <2>1, <2>4, <2>6, <2>9, <2>10, <2>11
<1>6. CASE ~ Live(p)
  <2>1. UNCHANGED <<profile, excused>>
    BY <1>2, <1>4, <1>6 DEF SaveProfile
  <2> QED
    BY <1>1, <1>2, <1>4, <1>6, <2>1 DEF Basic, DTypes, Tables, Live
<1> QED
  BY <1>5, <1>6

\* A connection is saved.
LEMMA SaveBasic ==
  ASSUME ConstantsAssumption, Basic, NEW c \in Calls, SaveProfile(c) PROVE Basic'
<1>1. At(c, "save") /\ Done(c) /\ call[c].id \notin Ids
      /\ UNCHANGED <<src, default, warehouse, mirror, setting, bound>> /\ profile' \in [Profiles -> Cells]
  BY Saves
<1>2. Tables'
  BY <1>1 DEF Basic, DTypes, Tables
<1>3. RowsStay
  BY <1>1, Saves DEF RowsStay
<1>4. \A j \in Ids : j \in excused => j \in excused'
  BY Saves
<1> QED
  BY <1>1, <1>2, <1>3, <1>4, BasicDone DEF At

\* A connection that is made, and one that is deleted.
LEMMA Connects ==
  ASSUME ConstantsAssumption, Basic, NEW p \in Profiles, NEW w \in Workspaces, CreateProfile(p, w)
  PROVE  /\ profile[p] = None /\ UNCHANGED <<src, default, warehouse, mirror, setting, bound, call>>
         /\ profile' \in [Profiles -> Cells] /\ \A q \in Profiles \ {p} : profile'[q] = profile[q]
         /\ profile'[p] # None /\ Overriding(profile'[p].row)
         /\ excused' = excused \ {p} /\ p \notin Ids
<1>1. PICK b \in Overrides : /\ Overriding(Connection(w, b).row)
                             /\ profile' = [profile EXCEPT ![p] = Connection(w, b)]
  BY DEF CreateProfile
<1>2. Empty \in [Columns -> Values]
  BY DEF Empty, Values
<1>3. Connection(w, b) \in Connections
  BY <1>2, OverridesArePatches DEF Connection, Connections
<1>4. PICK new \in Connections : new = Connection(w, b)
  BY <1>3
<1>5. profile' \in [Profiles -> Cells] /\ profile'[p] = new /\ \A q \in Profiles \ {p} : profile'[q] = profile[q]
  BY <1>1, <1>4 DEF Basic, DTypes, Tables, Cells
<1>6. new # None
  BY DEF ConstantsAssumption
<1>7. p \notin Ids
  BY DEF ConstantsAssumption
<1> QED
  BY <1>1, <1>4, <1>5, <1>6, <1>7 DEF CreateProfile, rows

\* A connection that is deleted is one that no job names.
LEMMA Disconnects ==
  ASSUME ConstantsAssumption, Basic, NEW p \in Profiles, DeleteProfile(p)
  PROVE  /\ \A j \in Jobs : bound[j] # p
         /\ UNCHANGED <<src, default, warehouse, mirror, setting, bound, call, excused>>
         /\ profile' \in [Profiles -> Cells] /\ \A q \in Profiles \ {p} : profile'[q] = profile[q]
         /\ profile'[p] = Gone /\ Gone # None
<1>1. profile' = [profile EXCEPT ![p] = Gone]
  BY DEF DeleteProfile
<1>2. Gone # None
  BY DEF ConstantsAssumption
<1> QED
  BY <1>1, <1>2 DEF DeleteProfile, rows, Basic, DTypes, Tables, Cells

\* The steps on connections.
LEMMA ConnectionsBasic ==
  ASSUME ConstantsAssumption, Basic,
         \/ \E p \in Profiles : DeleteProfile(p) \/ \E w \in Workspaces : CreateProfile(p, w)
         \/ \E j \in Jobs, p \in Profiles \cup {None} : Bind(j, p)
  PROVE  Basic'
<1>1. ASSUME NEW p \in Profiles, NEW w \in Workspaces, CreateProfile(p, w) PROVE Basic'
  <2>1. Tables' /\ RowsStay
    BY <1>1, Connects DEF Basic, DTypes, Tables, RowsStay
  <2>2. call' = call /\ \A j \in Ids : j \in excused => j \in excused'
    BY <1>1, Connects
  <2> QED
    BY <2>1, <2>2, BasicStays
<1>2. ASSUME NEW p \in Profiles, DeleteProfile(p) PROVE Basic'
  <2>1. Tables' /\ RowsStay
    BY <1>2, Disconnects DEF Basic, DTypes, Tables, RowsStay
  <2>2. call' = call /\ \A j \in Ids : j \in excused => j \in excused'
    BY <1>2, Disconnects
  <2> QED
    BY <2>1, <2>2, BasicStays
<1>3. ASSUME NEW j \in Jobs, NEW p \in Profiles \cup {None}, Bind(j, p) PROVE Basic'
  <2>1. /\ UNCHANGED <<src, default, warehouse, mirror, setting, profile, call, excused>>
        /\ bound' = [bound EXCEPT ![j] = p]
    BY <1>3 DEF Bind, rows
  <2>2. Tables' /\ RowsStay
    BY <2>1 DEF Basic, DTypes, Tables, RowsStay
  <2> QED
    BY <2>1, <2>2, BasicStays
<1> QED
  BY <1>1, <1>2, <1>3

\* A default source is chosen.
LEMMA DefaultsBasic ==
  ASSUME ConstantsAssumption, Basic, NEW w \in Workspaces, NEW i \in Ids \cup {None}, PutDefaults(w, i)
  PROVE  Basic'
<1>1. UNCHANGED <<src, mirror, setting, profile, bound, call, excused>>
  BY DEF PutDefaults, conns
<1>2. default' \in [Workspaces -> Ids \cup {None}] /\ warehouse' \in [Workspaces -> Ids \cup {None}]
  BY DEF PutDefaults, Basic, DTypes, Tables
<1>3. Tables' /\ RowsStay
  BY <1>1, <1>2 DEF Basic, DTypes, Tables, RowsStay
<1> QED
  BY <1>1, <1>3, BasicStays

\* What only moves the client.
Idling == UNCHANGED <<src, default, warehouse, mirror, setting, profile, bound, call, excused, strayed>>

\* These steps only move the client.
LEMMA ClientSteps ==
  ASSUME \/ TestPlatform \/ Elsewhere \/ \E w \in Workspaces : TestWorkspace(w)
         \/ UNCHANGED vars
  PROVE  Idling
BY DEF TestPlatform, Elsewhere, TestWorkspace, vars, Idling, conns, rows

\* So they keep the types.
LEMMA IdlingBasic ==
  ASSUME Basic, Idling PROVE Basic'
<1>1. Tables' /\ RowsStay
  BY TablesStay DEF Idling
<1> QED
  BY <1>1, BasicStays DEF Idling

\* A request that starts, with its parts.
LEMMA RequestBasic ==
  ASSUME ConstantsAssumption, Basic, NEW c \in Calls, Request(c) PROVE Basic'
<1>1. ASSUME NEW l \in Layers, PutSettings(c, l) PROVE Basic'
  <2>1. PICK new : Put(c, l, new)
    BY <1>1 DEF PutSettings
  <2> QED
    BY <2>1, PutBasic
<1>2. CASE ResetSettings(c)
  <2>1. PICK new : Put(c, Global, new)
    BY <1>2 DEF ResetSettings
  <2>2. PICK l \in Layers : l = Global
    BY DEF Layers
  <2> QED
    BY <2>1, <2>2, PutBasic
<1> QED
  BY <1>1, <1>2, CreateBasic, UpdateBasic, DeleteBasic, PublishBasic,
     UpdateProfileBasic DEF Request

\* Every step keeps the types and what requests know of each other.
LEMMA NextBasic ==
  ASSUME ConstantsAssumption, Basic, [Next]_vars PROVE Basic'
<1>1. ASSUME NEW c \in Calls,
             \/ Refresh(c) \/ Reread(c) \/ Load(c) \/ Point(c) \/ Find(c) \/ Write(c) \/ NothingToRemove(c)
             \/ Erase(c) \/ SaveProfile(c) \/ Die(c)
      PROVE  Basic'
  BY <1>1, RefreshBasic, RereadBasic, LoadBasic, PointBasic, FindBasic, WriteBasic, NothingBasic, EraseBasic, SaveBasic
<1>2. CASE \/ TestPlatform \/ Elsewhere \/ \E w \in Workspaces : TestWorkspace(w)
           \/ UNCHANGED vars
  BY <1>2, ClientSteps, IdlingBasic
<1>3. CASE \E w \in Workspaces, i \in Ids \cup {None} : PutDefaults(w, i)
  BY <1>3, DefaultsBasic
<1>4. CASE \/ \E p \in Profiles : DeleteProfile(p) \/ \E w \in Workspaces : CreateProfile(p, w)
           \/ \E j \in Jobs, p \in Profiles \cup {None} : Bind(j, p)
  BY <1>4, ConnectionsBasic
<1> QED
  BY <1>1, <1>2, <1>3, <1>4, RequestBasic DEF Next

\* In the beginning.
LEMMA InitBasic ==
  ASSUME ConstantsAssumption, Init PROVE Basic
<1>1. PICK v \in Jdbc :
       /\ src = [i \in Ids |-> IF i \in DOMAIN Place THEN [ws |-> Place[i], content |-> v] ELSE None]
       /\ mirror = [e \in Engines |->
            LET here == {i \in DOMAIN Home : Home[i] = e}
            IN IF here = {} THEN << >> ELSE <<[of |-> CHOOSE i \in here : TRUE, content |-> v]>>]
  BY DEF Init
<1>2. src \in [Ids -> {None} \cup Entries]
  <2>1. DOMAIN Place = DOMAIN Home /\ \A i \in DOMAIN Home : Place[i] \in Workspaces
    BY DEF ConstantsAssumption
  <2>2. \A i \in DOMAIN Home : [ws |-> Place[i], content |-> v] \in Entries
    BY <2>1 DEF Entries, Contents
  <2> QED
    BY <1>1, <2>1, <2>2
<1>3. ASSUME NEW e \in Engines PROVE mirror[e] \in Seq({None} \cup Items)
  <2>1. PICK here : here = {i \in DOMAIN Home : Home[i] = e}
    OBVIOUS
  <2>2. mirror[e] = IF here = {} THEN << >> ELSE <<[of |-> CHOOSE i \in here : TRUE, content |-> v]>>
    BY <1>1, <2>1
  <2>3. here # {} => (CHOOSE i \in here : TRUE) \in here
    OBVIOUS
  <2>4. here # {} => (CHOOSE i \in here : TRUE) \in Ids
    BY <2>1, <2>3 DEF ConstantsAssumption
  <2>5. PICK x : x = CHOOSE i \in here : TRUE
    OBVIOUS
  <2>6. PICK y : y = [of |-> x, content |-> v]
    OBVIOUS
  <2>7. here # {} => y \in {None} \cup Items
    BY <2>4, <2>5, <2>6 DEF Items
  <2>8. mirror[e] = IF here = {} THEN << >> ELSE <<y>>
    BY <2>2, <2>5, <2>6
  <2>9. PICK T : T = {None} \cup Items
    OBVIOUS
  <2>10. << >> \in Seq(T)
    OBVIOUS
  <2>11. y \in T => <<y>> \in Seq(T)
    OBVIOUS
  <2> QED
    BY <2>7, <2>8, <2>9, <2>10, <2>11
<1>4. Tables
  BY <1>1, <1>2, <1>3 DEF Init, Tables, Cells
<1> QED
  BY <1>4 DEF Init, Basic, DTypes, CallsFit, OverlapIsKnown

-----------------------------------------------------------------------------
(* The choices of scripts and jobs *)

\* The steps of a request after its first.
CallStep(c) ==
  \/ Refresh(c) \/ Reread(c) \/ Load(c) \/ Point(c) \/ Find(c) \/ Write(c) \/ NothingToRemove(c)
  \/ Erase(c) \/ SaveProfile(c) \/ Die(c)

\* A request that goes on stays what it is, and no other is concerned.
LEMMA WorkMoves ==
  ASSUME ConstantsAssumption, Basic, NEW c \in Calls, CallStep(c)
  PROVE  /\ call[c] # None
         /\ \A d \in Calls \ {c} : call'[d] = call[d]
         /\ call'[c] = None \/ /\ call'[c].pc \in {"point", "find", "write", "erase"}
                               /\ call'[c].id = call[c].id /\ call'[c].layer = call[c].layer
                               /\ call'[c].alone = call[c].alone
                               /\ call[c].pc \notin {"reread", "load"} => call'[c].content = call[c].content
         /\ call'[c] # call[c]
<1>1. call[c] # None
  BY DEF CallStep, Refresh, Reread, Load, Point, Find, Write, NothingToRemove, Erase, SaveProfile, Die, At
<1>2. PICK m \in Requests : m = call[c]
  BY <1>1, IsRequest
<1>3. ASSUME Done(c)
      PROVE  call'[c] = None /\ \A d \in Calls \ {c} : call'[d] = call[d]
  BY <1>3 DEF Done, Basic, DTypes
<1>4. ASSUME NEW r, call' = [call EXCEPT ![c] = r]
      PROVE  call'[c] = r /\ \A d \in Calls \ {c} : call'[d] = call[d]
  BY <1>4 DEF Basic, DTypes
<1>5. ASSUME NEW pc \in {"erase", "find"}, GoTo(c, pc)
      PROVE  \E r : /\ call' = [call EXCEPT ![c] = r] /\ r.pc = pc /\ r.id = m.id /\ r.layer = m.layer
                    /\ r.alone = m.alone /\ r.content = m.content
  <2>1. PICK r : r = [m EXCEPT !.pc = pc]
    OBVIOUS
  <2>2. r.pc = pc /\ r.id = m.id /\ r.layer = m.layer /\ r.alone = m.alone /\ r.content = m.content
    BY <2>1 DEF Requests
  <2>3. call' = [call EXCEPT ![c] = r]
    BY <1>2, <1>5, <2>1 DEF GoTo
  <2> QED
    BY <2>2, <2>3
<1>6. ASSUME NEW n, NEW e, Looked(c, n, e)
      PROVE  \E r : /\ call' = [call EXCEPT ![c] = r] /\ r.pc = "write" /\ r.id = m.id /\ r.layer = m.layer
                    /\ r.alone = m.alone /\ r.content = m.content
  <2>1. PICK r : r = [m EXCEPT !.pc = "write", !.found = n, !.asked = e]
    OBVIOUS
  <2>2. r.pc = "write" /\ r.id = m.id /\ r.layer = m.layer /\ r.alone = m.alone /\ r.content = m.content
    BY <2>1 DEF Requests
  <2>3. call' = [call EXCEPT ![c] = r]
    BY <1>2, <1>6, <2>1 DEF Looked
  <2> QED
    BY <2>2, <2>3
<1>7. CASE Refresh(c) \/ Die(c) \/ Erase(c) \/ SaveProfile(c)
  BY <1>1, <1>3, <1>7 DEF Refresh, Die, Erase, SaveProfile
<1>8. CASE Reread(c)
  <2>1. CASE Done(c)
    BY <1>1, <1>3, <2>1
  <2>2. CASE ~ Done(c)
    <3>1. PICK v : v = src[call[c].id].content
      OBVIOUS
    <3>2. PICK r : r = [m EXCEPT !.pc = "point", !.content = v]
      OBVIOUS
    <3>3. r.pc = "point" /\ r.id = m.id /\ r.layer = m.layer /\ r.alone = m.alone
      BY <3>2 DEF Requests
    <3>4. call' = [call EXCEPT ![c] = r] /\ m.pc = "reread"
      <4>1. call' = [call EXCEPT ![c].pc = "point", ![c].content = v] /\ m.pc = "reread"
        BY <1>2, <1>8, <2>2, <3>1 DEF Reread, At
      <4> QED
        BY <1>2, <3>2, <4>1
    <3> QED
      BY <1>1, <1>2, <1>4, <3>3, <3>4
  <2> QED
    BY <2>1, <2>2
<1>9. CASE Load(c)
  <2>1. CASE Done(c)
    BY <1>1, <1>3, <2>1
  <2>2. CASE ~ Done(c)
    <3>1. PICK v : v = src[call[c].id].content
      OBVIOUS
    <3>2. PICK r : r = [m EXCEPT !.pc = "find", !.content = v]
      OBVIOUS
    <3>3. r.pc = "find" /\ r.id = m.id /\ r.layer = m.layer /\ r.alone = m.alone
      BY <3>2 DEF Requests
    <3>4. call' = [call EXCEPT ![c] = r] /\ m.pc = "load"
      <4>1. call' = [call EXCEPT ![c].pc = "find", ![c].content = v] /\ m.pc = "load"
        BY <1>2, <1>9, <2>2, <3>1 DEF Load, At
      <4> QED
        BY <1>2, <3>2, <4>1
    <3> QED
      BY <1>1, <1>2, <1>4, <3>3, <3>4
  <2> QED
    BY <2>1, <2>2
<1>10. CASE Point(c) \/ Write(c) \/ NothingToRemove(c)
  <2>1. Done(c) \/ GoTo(c, "erase") \/ GoTo(c, "find")
    BY <1>10 DEF Point, Write, NothingToRemove, After
  <2>2. m.pc \in {"point", "write"}
    BY <1>2, <1>10 DEF Point, Write, NothingToRemove, At
  <2>3. CASE Done(c)
    BY <1>1, <1>3, <2>3
  <2>4. ASSUME NEW pc \in {"erase", "find"}, GoTo(c, pc)
        PROVE  /\ \A d \in Calls \ {c} : call'[d] = call[d]
               /\ call'[c].pc = pc
               /\ call'[c].id = call[c].id /\ call'[c].layer = call[c].layer
               /\ call'[c].alone = call[c].alone /\ call'[c].content = call[c].content
    <3>1. PICK r : /\ call' = [call EXCEPT ![c] = r] /\ r.pc = pc /\ r.id = m.id /\ r.layer = m.layer
                   /\ r.alone = m.alone /\ r.content = m.content
      BY <1>5, <2>4
    <3> QED
      BY <1>2, <1>4, <3>1
  <2> QED
    BY <1>1, <1>2, <2>1, <2>2, <2>3, <2>4
<1>11. CASE Find(c)
  <2>1. PICK n, e : Looked(c, n, e)
    BY <1>11 DEF Find
  <2>2. PICK r : /\ call' = [call EXCEPT ![c] = r] /\ r.pc = "write" /\ r.id = m.id /\ r.layer = m.layer
                 /\ r.alone = m.alone /\ r.content = m.content
    BY <1>6, <2>1
  <2>3. m.pc = "find"
    BY <1>2, <1>11 DEF Find, At
  <2> QED
    BY <1>1, <1>2, <1>4, <2>2, <2>3
<1> QED
  BY <1>7, <1>8, <1>9, <1>10, <1>11 DEF CallStep

\* What is referred to stays.
LEMMA ReferredStays ==
  ASSUME Basic, ReferredOwn, UNCHANGED <<default, warehouse>>,
         \A i \in Ids : Exists(i) /\ (\E w \in Workspaces : i \in {default[w], warehouse[w]}) =>
           Exists(i)' /\ src'[i].ws = src[i].ws
  PROVE  ReferredOwn'
<1>1. \A w \in Workspaces : \A i \in {default[w], warehouse[w]} : i # None => i \in Ids
  BY DEF Basic, DTypes, Tables
<1> QED
  BY <1>1 DEF ReferredOwn

\* Connections, and what is about to be written to them.
SavesGoOn ==
  \A d \in Calls : At(d, "save")' /\ call'[d].alone =>
    At(d, "save") /\ call[d].alone /\ call'[d].id = call[d].id /\ call'[d].content = call[d].content

\* What is not written stays in force.
LEMMA ConnectionsStay ==
  ASSUME BoundOwn, ConnectionsOverride, SavesOverride, UNCHANGED <<profile, bound>>, SavesGoOn,
         \A p \in Profiles : p \in excused => p \in excused'
  PROVE  BoundOwn' /\ ConnectionsOverride' /\ SavesOverride'
<1>1. BoundOwn'
  BY DEF BoundOwn, Live
<1>2. ConnectionsOverride'
  BY DEF ConnectionsOverride, Live, Overriding
<1>3. SavesOverride'
  <2>1. SUFFICES ASSUME NEW d \in Calls, At(d, "save")', call'[d].alone, Live(call[d].id)'
                 PROVE  Overriding(Patched(profile[call[d].id].row, call[d].content))'
    BY DEF SavesOverride
  <2>2. At(d, "save") /\ call[d].alone /\ call'[d].id = call[d].id /\ call'[d].content = call[d].content
    BY <2>1 DEF SavesGoOn
  <2>3. Overriding(Patched(profile[call[d].id].row, call[d].content))
    BY <2>1, <2>2 DEF SavesOverride, Live
  <2> QED
    BY <2>2, <2>3 DEF Overriding, Patched
<1> QED
  BY <1>1, <1>2, <1>3

\* Nothing is written to connections by a request of another kind.
LEMMA SavesAfterStart ==
  ASSUME ConstantsAssumption, Basic, NEW c \in Calls, NEW pc \in {"refresh", "reread", "load", "point"},
         NEW i \in Ids \cup Profiles \cup {None}, NEW l \in Layers, NEW v \in Contents \cup Patches,
         Start(c, pc, i, l, v)
  PROVE  SavesGoOn
<1>1. PICK q \in {"refresh", "reread", "load", "point", "save"} : q = pc
  OBVIOUS
<1>2. /\ call'[c].pc = pc
      /\ \A d \in Calls \ {c} :
           /\ call'[d] = None <=> call[d] = None
           /\ call[d] # None =>
                /\ call'[d].pc = call[d].pc /\ call'[d].id = call[d].id
                /\ call'[d].content = call[d].content
                /\ call'[d].alone = (call[d].alone /\ ~(i # None /\ call[d].id = i))
  BY <1>1, Starts DEF Basic
<1>3. ASSUME NEW d \in Calls, At(d, "save")', call'[d].alone
      PROVE  At(d, "save") /\ call[d].alone /\ call'[d].id = call[d].id /\ call'[d].content = call[d].content
  <2>1. d # c
    BY <1>2, <1>3 DEF At
  <2> QED
    BY <1>2, <1>3, <2>1 DEF At
<1> QED
  BY <1>3 DEF SavesGoOn

\* Nor is anything written by the later steps of one.
LEMMA SavesAfterWork ==
  ASSUME ConstantsAssumption, Basic, NEW c \in Calls, CallStep(c) PROVE SavesGoOn
<1>1. /\ \A d \in Calls \ {c} : call'[d] = call[d]
      /\ call'[c] = None \/ call'[c].pc \in {"point", "find", "write", "erase"}
  BY WorkMoves
<1> QED
  BY <1>1 DEF SavesGoOn, At

\* Settings leave the choices alone.
LEMMA PutChoices ==
  ASSUME ConstantsAssumption, Basic, ChoicesInv, NEW c \in Calls, NEW l \in Layers, NEW new, Put(c, l, new)
  PROVE  ChoicesInv'
<1>1. Start(c, "refresh", None, l, Gone) /\ UNCHANGED <<src, default, warehouse, profile, bound>>
      /\ excused \subseteq excused'
  BY DEF Put, Excuse, rows, conns
<1>2. Gone \in Contents \cup Patches
  BY DEF Contents
<1>3. SavesGoOn
  BY <1>1, <1>2, SavesAfterStart
<1>4. ReferredOwn'
  BY <1>1, ReferredStays DEF ChoicesInv, Exists
<1> QED
  BY <1>1, <1>3, <1>4, ConnectionsStay DEF ChoicesInv

\* So do requests on sources that begin.
LEMMA SourceChoices ==
  ASSUME ConstantsAssumption, Basic, ChoicesInv, NEW c \in Calls, NEW i \in Ids,
         \/ \E s \in Source : Create(c, i, s)
         \/ \E v \in Jdbc \cup Plain : Update(c, i, v)
         \/ DeleteBegin(c, i) \/ PublishWorkflow(c, i)
  PROVE  ChoicesInv'
<1>1. UNCHANGED <<default, warehouse, profile, bound>> /\ excused \subseteq excused'
  BY DEF Create, Update, DeleteBegin, PublishWorkflow, Excuse, rows, conns
<1>2. Gone \in Contents \cup Patches
  BY DEF Contents
<1>3. PICK pc \in {"reread", "load", "point"}, l \in Layers : Start(c, pc, i, l, Gone)
  <2>1. \A s \in Source : s.ws \in Layers
    BY DEF Source, Layers
  <2>2. Exists(i) => src[i].ws \in Layers
    BY DEF Exists, Basic, DTypes, Tables, Entries, Layers
  <2> QED
    BY <2>1, <2>2 DEF Create, Update, DeleteBegin, PublishWorkflow
<1>4. SavesGoOn
  BY <1>2, <1>3, SavesAfterStart
<1>5. ASSUME NEW j \in Ids, Exists(j), src[i] # None \/ j # i
      PROVE  Exists(j)' /\ src'[j].ws = src[j].ws
  <2>1. ASSUME NEW s \in Source, Create(c, i, s) PROVE Exists(j)' /\ src'[j].ws = src[j].ws
    <3>1. src' = [src EXCEPT ![i] = s] /\ src[i] = None
      BY <2>1 DEF Create
    <3>2. src'[j] = src[j]
      BY <1>5, <3>1 DEF Basic, DTypes, Tables
    <3> QED
      BY <1>5, <3>2 DEF Exists
  <2>2. ASSUME NEW v \in Jdbc \cup Plain, Update(c, i, v) PROVE Exists(j)' /\ src'[j].ws = src[j].ws
    <3>1. src' = [src EXCEPT ![i].content = v] /\ Exists(i)
      BY <2>2 DEF Update
    <3>2. PICK old \in Entries : old = src[i]
      BY <3>1 DEF Exists, Basic, DTypes, Tables
    <3>3. PICK e : e = [old EXCEPT !.content = v]
      OBVIOUS
    <3>4. e \in Entries /\ e.ws = old.ws /\ e.content = v
      BY <3>2, <3>3 DEF Entries, Contents
    <3>5. src' = [src EXCEPT ![i] = e]
      BY <3>1, <3>2, <3>3
    <3>6. src'[i] = e /\ (j # i => src'[j] = src[j])
      BY <3>5 DEF Basic, DTypes, Tables
    <3>7. e # None /\ v # Gone
      BY <3>4 DEF ConstantsAssumption
    <3> QED
      BY <1>5, <3>2, <3>4, <3>6, <3>7 DEF Exists
  <2>3. CASE DeleteBegin(c, i) \/ PublishWorkflow(c, i)
    BY <1>5, <2>3 DEF DeleteBegin, PublishWorkflow, rows, Exists
  <2> QED
    BY <2>1, <2>2, <2>3
<1>6. ReferredOwn'
  BY <1>1, <1>5, ReferredStays DEF ChoicesInv, Exists
<1> QED
  BY <1>1, <1>4, <1>6, ConnectionsStay DEF ChoicesInv

\* An edit of a connection is sent: something of it will still be in force.
LEMMA UpdateProfileChoices ==
  ASSUME ConstantsAssumption, Basic, ChoicesInv, NEW c \in Calls, NEW p \in Profiles, UpdateProfile(c, p)
  PROVE  ChoicesInv'
<1>1. PICK b \in Overrides :
        /\ Overriding(Patched(profile[p].row, b))
        /\ Start(c, "save", p, profile[p].ws, [f \in {g \in DOMAIN b : b[g] # profile[p].row[g]} |-> b[f]])
  BY DEF UpdateProfile
<1>2. PICK v : v = [f \in {g \in DOMAIN b : b[g] # profile[p].row[g]} |-> b[f]]
  OBVIOUS
<1>3. v \in Patches
  BY <1>2, PatchTyped
<1>4. Live(p) /\ UNCHANGED <<src, default, warehouse, profile, bound, mirror, setting, excused>>
  BY DEF UpdateProfile, rows, conns
<1>5. profile[p] \in Connections
  BY <1>4 DEF Live, Basic, DTypes, Tables, Cells
<1>6. PICK l \in Layers : l = profile[p].ws
  BY <1>5 DEF Connections, Layers
<1>7. Patched(profile[p].row, v) = Patched(profile[p].row, b)
  <2>1. \A f \in Columns : (IF f \in DOMAIN v THEN v[f] ELSE profile[p].row[f])
                         = (IF f \in DOMAIN b THEN b[f] ELSE profile[p].row[f])
    BY <1>2
  <2> QED
    BY <2>1 DEF Patched
<1>8. /\ call'[c].pc = "save" /\ call'[c].id = p /\ call'[c].content = v
      /\ \A d \in Calls \ {c} :
           /\ call'[d] = None <=> call[d] = None
           /\ call[d] # None =>
                /\ call'[d].pc = call[d].pc /\ call'[d].id = call[d].id
                /\ call'[d].content = call[d].content
                /\ call'[d].alone = (call[d].alone /\ ~(p # None /\ call[d].id = p))
  BY <1>1, <1>2, <1>3, <1>6, Starts DEF Basic
<1>9. ReferredOwn'
  BY <1>4, ReferredStays DEF ChoicesInv, Exists
<1>10. BoundOwn' /\ ConnectionsOverride'
  BY <1>4 DEF ChoicesInv, BoundOwn, ConnectionsOverride, Live, Overriding
<1>11. SavesOverride'
  <2>1. SUFFICES ASSUME NEW d \in Calls, At(d, "save")', call'[d].alone, Live(call[d].id)'
                 PROVE  Overriding(Patched(profile[call[d].id].row, call[d].content))'
    BY DEF SavesOverride
  <2>2. CASE d = c
    BY <1>1, <1>4, <1>7, <1>8, <2>2 DEF Overriding, Patched
  <2>3. CASE d # c
    <3>1. At(d, "save") /\ call[d].alone /\ call'[d].id = call[d].id /\ call'[d].content = call[d].content
      BY <1>8, <2>1, <2>3 DEF At
    <3>2. Overriding(Patched(profile[call[d].id].row, call[d].content))
      BY <1>4, <2>1, <3>1 DEF ChoicesInv, SavesOverride, Live
    <3> QED
      BY <1>4, <3>1, <3>2 DEF Overriding, Patched
  <2> QED
    BY <2>2, <2>3
<1> QED
  BY <1>9, <1>10, <1>11 DEF ChoicesInv

\* Other steps of a request.
LEMMA WorkChoices ==
  ASSUME ConstantsAssumption, Basic, ChoicesInv, NEW c \in Calls, CallStep(c), ~ SaveProfile(c), ~ Erase(c)
  PROVE  ChoicesInv'
<1>1. SavesGoOn
  BY SavesAfterWork
<1>2. UNCHANGED <<src, default, warehouse, profile, bound>>
  BY DEF CallStep, Refresh, Reread, Load, Point, Find, Write, NothingToRemove, Die, rows, conns
<1>3. \A p \in Profiles : p \in excused => p \in excused'
  <2>1. Write(c) \/ NothingToRemove(c) => call[c].id \in Ids
    <3>1. At(c, "write") => CallFits(call[c])
      BY IsRequest DEF At
    <3> QED
      BY <3>1 DEF Write, NothingToRemove, At, CallFits
  <2>2. \A p \in Profiles : p \notin Ids
    BY DEF ConstantsAssumption
  <2>3. CASE Write(c)
    BY <2>1, <2>2, <2>3, WriteCases
  <2>4. CASE NothingToRemove(c)
    BY <2>1, <2>2, <2>4 DEF NothingToRemove, Excuse
  <2>5. CASE Refresh(c) \/ Reread(c) \/ Load(c) \/ Point(c) \/ Find(c) \/ Die(c)
    BY <2>5 DEF Refresh, Reread, Load, Point, Find, Die, Excuse
  <2> QED
    BY <2>3, <2>4, <2>5 DEF CallStep
<1>4. ReferredOwn'
  BY <1>2, ReferredStays DEF ChoicesInv, Exists
<1> QED
  BY <1>1, <1>2, <1>3, <1>4, ConnectionsStay DEF ChoicesInv

\* A row that workspaces refer to stays.
LEMMA EraseChoices ==
  ASSUME ConstantsAssumption, Basic, ChoicesInv, NEW c \in Calls, Erase(c)
  PROVE  ChoicesInv'
<1>1. SavesGoOn
  BY SavesAfterWork DEF CallStep
<1>2. UNCHANGED <<default, warehouse, profile, bound>> /\ excused \subseteq excused'
  BY Erases
<1>3. \A i \in Ids : Exists(i) /\ Referred(i) => Exists(i)' /\ src'[i].ws = src[i].ws
  BY Erases DEF Exists
<1>4. ReferredOwn'
  BY <1>2, <1>3, ReferredStays DEF ChoicesInv, Referred
<1> QED
  BY <1>1, <1>2, <1>4, ConnectionsStay DEF ChoicesInv

\* An edit that was alone leaves something in force; one that was not is excused.
LEMMA SaveChoices ==
  ASSUME ConstantsAssumption, Basic, ChoicesInv, NEW c \in Calls, SaveProfile(c)
  PROVE  ChoicesInv'
<1>1. PICK p \in Profiles : p = call[c].id /\ call[c] # None /\ call[c].pc = "save"
  BY Saves DEF At
<1>2. SavesGoOn
  BY SavesAfterWork DEF CallStep
<1>3. UNCHANGED <<src, default, warehouse, bound>>
  BY Saves
<1>4. /\ \A q \in Profiles : (Live(q)' <=> Live(q)) /\ (Live(q) => profile'[q].ws = profile[q].ws)
      /\ \A q \in Profiles \ {p} : profile'[q] = profile[q]
  BY <1>1, Saves
<1>5. CASE ~ Live(p)
  <2>1. UNCHANGED <<profile, excused>>
    BY <1>1, <1>5, Saves
  <2> QED
    BY <1>2, <1>3, <2>1, ReferredStays, ConnectionsStay DEF ChoicesInv, Exists
<1>6. CASE Live(p)
  <2>1. /\ profile'[p].row = Patched(profile[p].row, call[c].content)
        /\ excused' = IF call[c].alone THEN excused \ {p} ELSE excused \cup {p}
    BY <1>1, <1>6, Saves
  <2>2. BoundOwn'
    <3>1. \A j \in Jobs : bound[j] # None => bound[j] \in Profiles
      BY DEF Basic, DTypes, Tables
    <3> QED
      BY <1>3, <1>4, <3>1 DEF ChoicesInv, BoundOwn
  <2>3. ConnectionsOverride'
    <3>1. SUFFICES ASSUME NEW q \in Profiles, Live(q)'
                   PROVE  q \in excused' \/ Overriding(profile'[q].row)
      BY DEF ConnectionsOverride, Overriding
    <3>2. CASE q = p
      <4>1. call[c].alone => Overriding(Patched(profile[p].row, call[c].content))
        BY <1>1, <1>6 DEF ChoicesInv, SavesOverride, At
      <4> QED
        BY <2>1, <3>2, <4>1
    <3>3. CASE q # p
      BY <1>4, <2>1, <3>1, <3>3 DEF ChoicesInv, ConnectionsOverride
    <3> QED
      BY <3>2, <3>3
  <2>4. SavesOverride'
    <3>1. SUFFICES ASSUME NEW d \in Calls, At(d, "save")', call'[d].alone, Live(call[d].id)'
                   PROVE  Overriding(Patched(profile[call[d].id].row, call[d].content))'
      BY DEF SavesOverride
    <3>2. /\ At(d, "save") /\ call[d].alone /\ call'[d].id = call[d].id /\ call'[d].content = call[d].content
      BY <1>2, <3>1 DEF SavesGoOn
    <3>3. d # c
      BY <3>1, Saves DEF At, Done, Basic, DTypes
    <3>4. call[d].id \in Profiles
      <4>1. CallFits(call[d])
        BY <3>2, IsRequest DEF At
      <4> QED
        BY <3>2, <4>1 DEF CallFits, At
    <3>5. call[d].id # p
      <4>1. ASSUME call[d].id = p PROVE FALSE
        <5>1. On(p) = {d}
          BY <3>2, <3>4, <4>1 DEF Basic, OverlapIsKnown, At, ConstantsAssumption
        <5>2. c \in On(p)
          BY <1>1 DEF On
        <5> QED
          BY <3>3, <5>1, <5>2
      <4> QED
        BY <4>1
    <3>6. profile'[call[d].id] = profile[call[d].id] /\ Live(call[d].id)
      BY <1>4, <3>1, <3>2, <3>4, <3>5
    <3>7. Overriding(Patched(profile[call[d].id].row, call[d].content))
      BY <3>2, <3>6 DEF ChoicesInv, SavesOverride
    <3> QED
      BY <3>2, <3>6, <3>7 DEF Overriding, Patched
  <2>5. ReferredOwn'
    BY <1>3, ReferredStays DEF ChoicesInv, Exists
  <2> QED
    BY <2>2, <2>3, <2>4, <2>5 DEF ChoicesInv
<1> QED
  BY <1>5, <1>6

\* A connection that jobs name is not deleted, and jobs name their own.
LEMMA ConnectionChoices ==
  ASSUME ConstantsAssumption, Basic, ChoicesInv,
         \/ \E p \in Profiles : DeleteProfile(p) \/ \E w \in Workspaces : CreateProfile(p, w)
         \/ \E j \in Jobs, p \in Profiles \cup {None} : Bind(j, p)
  PROVE  ChoicesInv'
<1>1. \A d \in Calls : At(d, "save") => call[d].id \in Profiles /\ profile[call[d].id] # None
  <2>1. SUFFICES ASSUME NEW d \in Calls, At(d, "save")
                 PROVE  call[d].id \in Profiles /\ profile[call[d].id] # None
    OBVIOUS
  <2>2. CallFits(call[d])
    BY <2>1, IsRequest DEF At
  <2> QED
    BY <2>1, <2>2 DEF CallFits, At
<1>2. \A j \in Jobs : bound[j] # None => bound[j] \in Profiles
  BY DEF Basic, DTypes, Tables
<1>3. ASSUME NEW p \in Profiles, UNCHANGED <<src, default, warehouse, bound, call>>,
             \A q \in Profiles \ {p} : profile'[q] = profile[q] /\ (q \in excused => q \in excused'),
             \A j \in Jobs : bound[j] # p,
             Live(p)' => profile[p] = None /\ Overriding(profile'[p].row)
      PROVE  ChoicesInv'
  <2>1. ReferredOwn'
    BY <1>3, ReferredStays DEF ChoicesInv, Exists
  <2>2. BoundOwn'
    BY <1>2, <1>3 DEF ChoicesInv, BoundOwn, Live
  <2>3. ConnectionsOverride'
    BY <1>3 DEF ChoicesInv, ConnectionsOverride, Live, Overriding
  <2>4. SavesOverride'
    <3>1. SUFFICES ASSUME NEW d \in Calls, At(d, "save"), call[d].alone, Live(call[d].id)'
                   PROVE  Overriding(Patched(profile[call[d].id].row, call[d].content))'
      BY <1>3 DEF SavesOverride, At
    <3>2. call[d].id \in Profiles /\ call[d].id # p
      BY <1>1, <1>3, <3>1
    <3>3. profile'[call[d].id] = profile[call[d].id] /\ Live(call[d].id)
      BY <1>3, <3>1, <3>2 DEF Live
    <3>4. Overriding(Patched(profile[call[d].id].row, call[d].content))
      BY <3>1, <3>3 DEF ChoicesInv, SavesOverride
    <3> QED
      BY <1>3, <3>3, <3>4 DEF Overriding, Patched
  <2> QED
    BY <2>1, <2>2, <2>3, <2>4 DEF ChoicesInv
<1>4. ASSUME NEW p \in Profiles, NEW w \in Workspaces, CreateProfile(p, w) PROVE ChoicesInv'
  <2>1. profile[p] = None
    BY <1>4, Connects
  <2>2. \A j \in Jobs : bound[j] # p
    BY <2>1 DEF ChoicesInv, BoundOwn, Live, ConstantsAssumption
  <2> QED
    BY <1>3, <1>4, <2>1, <2>2, Connects
<1>5. ASSUME NEW p \in Profiles, DeleteProfile(p) PROVE ChoicesInv'
  <2>1. ~ Live(p)'
    BY <1>5, Disconnects DEF Live
  <2> QED
    BY <1>3, <1>5, <2>1, Disconnects
<1>6. ASSUME NEW j \in Jobs, NEW p \in Profiles \cup {None}, Bind(j, p) PROVE ChoicesInv'
  <2>1. /\ UNCHANGED <<src, default, warehouse, profile, call, excused>>
        /\ bound' = [bound EXCEPT ![j] = p] /\ (p # None => Live(p) /\ profile[p].ws = JobPlace[j])
    BY <1>6 DEF Bind, rows
  <2>2. ReferredOwn'
    BY <2>1, ReferredStays DEF ChoicesInv, Exists
  <2>3. \A k \in Jobs : bound'[k] = IF k = j THEN p ELSE bound[k]
    BY <2>1 DEF Basic, DTypes, Tables
  <2>4. BoundOwn'
    BY <2>1, <2>3 DEF ChoicesInv, BoundOwn, Live
  <2>5. ConnectionsOverride' /\ SavesOverride'
    BY <2>1 DEF ChoicesInv, ConnectionsOverride, SavesOverride, Live, Overriding, Patched, At
  <2> QED
    BY <2>2, <2>4, <2>5 DEF ChoicesInv
<1> QED
  BY <1>4, <1>5, <1>6

\* A default is the workspace's own when it is chosen.
LEMMA DefaultsChoices ==
  ASSUME ConstantsAssumption, Basic, ChoicesInv, NEW w \in Workspaces, NEW i \in Ids \cup {None}, PutDefaults(w, i)
  PROVE  ChoicesInv'
<1>1. UNCHANGED <<src, profile, bound, call, excused>> /\ (i # None => Exists(i) /\ src[i].ws = w)
  BY DEF PutDefaults, conns
<1>2. \A x \in Workspaces : /\ default'[x] = default[x] \/ (x = w /\ default'[x] = i)
                            /\ warehouse'[x] = warehouse[x] \/ (x = w /\ warehouse'[x] = i)
  BY DEF PutDefaults, Basic, DTypes, Tables
<1>3. ReferredOwn'
  BY <1>1, <1>2 DEF ChoicesInv, ReferredOwn, Exists
<1>4. BoundOwn' /\ ConnectionsOverride' /\ SavesOverride'
  BY <1>1 DEF ChoicesInv, BoundOwn, ConnectionsOverride, SavesOverride, Live, Overriding, Patched, At
<1> QED
  BY <1>3, <1>4 DEF ChoicesInv

\* Steps that only move the client change no choice.
LEMMA IdlingChoices ==
  ASSUME Basic, ChoicesInv, Idling PROVE ChoicesInv'
<1>1. ReferredOwn'
  BY DEF ChoicesInv, Idling, ReferredOwn, Exists
<1>2. BoundOwn' /\ ConnectionsOverride' /\ SavesOverride'
  BY DEF ChoicesInv, Idling, BoundOwn, ConnectionsOverride, SavesOverride, Live, Overriding, Patched, At
<1> QED
  BY <1>1, <1>2 DEF ChoicesInv

\* Every step keeps what may be chosen.
LEMMA NextChoices ==
  ASSUME ConstantsAssumption, Basic, ChoicesInv, [Next]_vars PROVE ChoicesInv'
<1>1. ASSUME NEW c \in Calls, Request(c) PROVE ChoicesInv'
  <2>1. ASSUME NEW l \in Layers, PutSettings(c, l) PROVE ChoicesInv'
    <3>1. PICK new : Put(c, l, new)
      BY <2>1 DEF PutSettings
    <3> QED
      BY <3>1, PutChoices
  <2>2. CASE ResetSettings(c)
    <3>1. PICK new : Put(c, Global, new)
      BY <2>2 DEF ResetSettings
    <3>2. PICK l \in Layers : l = Global
      BY DEF Layers
    <3> QED
      BY <3>1, <3>2, PutChoices
  <2> QED
    BY <1>1, <2>1, <2>2, SourceChoices, UpdateProfileChoices DEF Request
<1>2. ASSUME NEW c \in Calls, CallStep(c) PROVE ChoicesInv'
  BY <1>2, WorkChoices, SaveChoices, EraseChoices
<1>3. CASE \/ TestPlatform \/ Elsewhere \/ \E w \in Workspaces : TestWorkspace(w)
           \/ UNCHANGED vars
  BY <1>3, ClientSteps, IdlingChoices
<1>4. CASE \E w \in Workspaces, i \in Ids \cup {None} : PutDefaults(w, i)
  BY <1>4, DefaultsChoices
<1>5. CASE \/ \E p \in Profiles : DeleteProfile(p) \/ \E w \in Workspaces : CreateProfile(p, w)
           \/ \E j \in Jobs, p \in Profiles \cup {None} : Bind(j, p)
  BY <1>5, ConnectionChoices
<1> QED
  BY <1>1, <1>2, <1>3, <1>4, <1>5 DEF Next, CallStep

\* At first nothing is chosen.
LEMMA InitChoices == ASSUME ConstantsAssumption, Init PROVE ChoicesInv
BY DEF Init, ChoicesInv, ReferredOwn, BoundOwn, ConnectionsOverride, SavesOverride, Live, At

\* What may be chosen is the workspace's own.
LEMMA ChoicesOwn == ASSUME Basic, ChoicesInv PROVE ChoicesAreOwn
<1>1. DefaultsAreOwn
  BY DEF ChoicesInv, ReferredOwn, DefaultsAreOwn, Resolved
<1>2. ConnectionIsOwn
  <2>1. SUFFICES ASSUME NEW j \in Jobs, bound[j] # None
                 PROVE  LET p == bound[j] IN
                        /\ Live(p) /\ profile[p].ws = JobPlace[j]
                        /\ p \in excused \/ \E f \in Flink : profile[p].row[f] \notin {None, Blank}
                                                          /\ Runtime(JobPlace[j], p)[f] = profile[p].row[f]
    BY DEF ConnectionIsOwn
  <2>2. PICK p \in Profiles : p = bound[j] /\ p # None
    BY <2>1 DEF Basic, DTypes, Tables
  <2>3. Live(p) /\ profile[p].ws = JobPlace[j]
    BY <2>1, <2>2 DEF ChoicesInv, BoundOwn
  <2>4. p \in excused \/ \E f \in Flink : profile[p].row[f] \notin {None, Blank}
    BY <2>3 DEF ChoicesInv, ConnectionsOverride, Overriding
  <2>5. ASSUME NEW f \in Flink, profile[p].row[f] \notin {None, Blank}
        PROVE  Runtime(JobPlace[j], p)[f] = profile[p].row[f]
    <3>1. Runtime(JobPlace[j], p) = Merged(Effective(JobPlace[j]), profile[p].row)
      BY <2>2, <2>3 DEF Runtime
    <3>2. f \in Columns
      BY DEF Columns
    <3> QED
      BY <2>5, <3>1, <3>2 DEF Merged
  <2> QED
    BY <2>2, <2>3, <2>4, <2>5
<1> QED
  BY <1>1, <1>2 DEF ChoicesAreOwn

\* For every configuration: a script that names no source runs on one that
\* exists and is its workspace's own, and a job that names a connection runs on
\* it and on nothing else (resolve_datasource_id, delete_datasource,
\* get_flink_runtime_for_workspace_profile).
THEOREM ChoicesStayOwn == Spec => []ChoicesAreOwn
<1>1. Init => Basic /\ ChoicesInv
  BY ConstantsAssumption, InitBasic, InitChoices
<1>2. Basic /\ ChoicesInv /\ [Next]_vars => (Basic /\ ChoicesInv)'
  BY ConstantsAssumption, NextBasic, NextChoices
<1>3. Basic /\ ChoicesInv => ChoicesAreOwn
  BY ChoicesOwn
<1> QED
  BY <1>1, <1>2, <1>3, PTL DEF Spec

-----------------------------------------------------------------------------
(* Items of others *)

\* What has been looked up and is not written yet.
WritesGoOn ==
  \A d \in Calls : At(d, "write")' =>
    At(d, "write") /\ call'[d].id = call[d].id /\ call'[d].found = call[d].found /\ call'[d].asked = call[d].asked

\* Numbers that were found stay true while Dolphin stays.
LEMMA FoundStays ==
  ASSUME FoundIsOwn, WritesGoOn, UNCHANGED <<mirror, strayed>> PROVE FoundIsOwn'
<1>1. SUFFICES ASSUME ~ strayed', NEW d \in Calls, At(d, "write")', call'[d].found # 0
               PROVE  /\ call'[d].found \in DOMAIN mirror'[call'[d].asked]
                      /\ mirror'[call'[d].asked][call'[d].found] # None =>
                           mirror'[call'[d].asked][call'[d].found].of = call'[d].id
  BY DEF FoundIsOwn
<1>2. At(d, "write") /\ call'[d].id = call[d].id /\ call'[d].found = call[d].found /\ call'[d].asked = call[d].asked
  BY <1>1 DEF WritesGoOn
<1>3. /\ call[d].found \in DOMAIN mirror[call[d].asked]
      /\ mirror[call[d].asked][call[d].found] # None => mirror[call[d].asked][call[d].found].of = call[d].id
  BY <1>1, <1>2 DEF FoundIsOwn
<1> QED
  BY <1>2, <1>3

\* A request that starts has not looked anything up.
LEMMA WritesAfterStart ==
  ASSUME ConstantsAssumption, Basic, NEW c \in Calls, NEW pc \in {"refresh", "reread", "load", "point", "save"},
         NEW i \in Ids \cup Profiles \cup {None}, NEW l \in Layers, NEW v \in Contents \cup Patches,
         Start(c, pc, i, l, v)
  PROVE  WritesGoOn
<1>1. /\ call'[c].pc = pc
      /\ \A d \in Calls \ {c} :
           /\ call'[d] = None <=> call[d] = None
           /\ call[d] # None =>
                /\ call'[d].pc = call[d].pc /\ call'[d].id = call[d].id
                /\ call'[d].found = call[d].found /\ call'[d].asked = call[d].asked
  BY Starts DEF Basic
<1>2. ASSUME NEW d \in Calls, At(d, "write")'
      PROVE  At(d, "write") /\ call'[d].id = call[d].id /\ call'[d].found = call[d].found
             /\ call'[d].asked = call[d].asked
  <2>1. d # c
    BY <1>1, <1>2 DEF At
  <2> QED
    BY <1>1, <1>2, <2>1 DEF At
<1> QED
  BY <1>2 DEF WritesGoOn

\* A step of a request after a look-up does not leave it where it writes.
LEMMA WritesAfterWork ==
  ASSUME ConstantsAssumption, Basic, NEW c \in Calls,
         \/ Refresh(c) \/ Reread(c) \/ Load(c) \/ Point(c) \/ Write(c) \/ NothingToRemove(c)
         \/ Erase(c) \/ SaveProfile(c) \/ Die(c)
  PROVE  WritesGoOn /\ ~ At(c, "write")'
<1>1. \A d \in Calls \ {c} : call'[d] = call[d]
  BY WorkMoves DEF CallStep
<1>2. PICK m \in Requests : m = call[c]
  BY IsRequest DEF Refresh, Reread, Load, Point, Write, NothingToRemove, Erase, SaveProfile, Die, At
<1>3. ASSUME Done(c) PROVE call'[c] = None \/ call'[c].pc # "write"
  BY <1>3 DEF Done, Basic, DTypes
<1>4. ASSUME NEW pc \in {"erase", "find"}, GoTo(c, pc) PROVE call'[c] = None \/ call'[c].pc # "write"
  <2>1. PICK r : r = [m EXCEPT !.pc = pc]
    OBVIOUS
  <2>2. r.pc = pc
    BY <2>1 DEF Requests
  <2>3. call' = [call EXCEPT ![c] = r]
    BY <1>2, <1>4, <2>1 DEF GoTo
  <2>4. call'[c] = r
    BY <2>3 DEF Basic, DTypes
  <2> QED
    BY <2>2, <2>4
<1>5. ASSUME Refresh(c) \/ Die(c) \/ Erase(c) \/ SaveProfile(c)
      PROVE  call'[c] = None \/ call'[c].pc # "write"
  BY <1>3, <1>5 DEF Refresh, Die, Erase, SaveProfile
<1>6. ASSUME Point(c) \/ Write(c) \/ NothingToRemove(c)
      PROVE  call'[c] = None \/ call'[c].pc # "write"
  <2>1. Done(c) \/ GoTo(c, "erase") \/ GoTo(c, "find")
    BY <1>6 DEF Point, Write, NothingToRemove, After
  <2>2. CASE GoTo(c, "erase")
    BY <1>4, <2>2
  <2>3. CASE GoTo(c, "find")
    BY <1>4, <2>3
  <2> QED
    BY <1>3, <2>1, <2>2, <2>3
<1>7. ASSUME Load(c), ~ Done(c)
      PROVE  call'[c] = None \/ call'[c].pc # "write"
  <2>1. PICK v : v = src[call[c].id].content
    OBVIOUS
  <2>2. PICK r : r = [m EXCEPT !.pc = "find", !.content = v]
    OBVIOUS
  <2>3. r.pc = "find"
    BY <2>2 DEF Requests
  <2>4. call' = [call EXCEPT ![c].pc = "find", ![c].content = v]
    BY <1>7, <2>1 DEF Load
  <2>5. call' = [call EXCEPT ![c] = r]
    BY <1>2, <2>2, <2>4
  <2>6. call'[c] = r
    BY <2>5 DEF Basic, DTypes
  <2> QED
    BY <2>3, <2>6
<1>8. ASSUME Reread(c), ~ Done(c)
      PROVE  call'[c] = None \/ call'[c].pc # "write"
  <2>1. PICK v : v = src[call[c].id].content
    OBVIOUS
  <2>2. PICK r : r = [m EXCEPT !.pc = "point", !.content = v]
    OBVIOUS
  <2>3. r.pc = "point"
    BY <2>2 DEF Requests
  <2>4. call' = [call EXCEPT ![c].pc = "point", ![c].content = v]
    BY <1>8, <2>1 DEF Reread
  <2>5. call' = [call EXCEPT ![c] = r]
    BY <1>2, <2>2, <2>4
  <2>6. call'[c] = r
    BY <2>5 DEF Basic, DTypes
  <2> QED
    BY <2>3, <2>6
<1>9. ~ At(c, "write")'
  BY <1>3, <1>5, <1>6, <1>7, <1>8 DEF At
<1> QED
  BY <1>1, <1>9 DEF WritesGoOn, At

\* A look-up tells the number of its own item.
LEMMA FindFound ==
  ASSUME ConstantsAssumption, Basic, FoundIsOwn, NEW c \in Calls, Find(c) PROVE FoundIsOwn'
<1>1. At(c, "find") /\ UNCHANGED <<mirror, strayed>>
  BY DEF Find
<1>2. PICK m \in Requests : m = call[c]
  BY <1>1, IsRequest DEF At
<1>3. PICK n, e : Looked(c, n, e) /\ (n = 0 \/ (e \in Engines /\ n \in Numbers(e, m.id)))
  <2>1. Reached # None => Reached \in Engines
    BY DEF Reached
  <2> QED
    BY <1>2, <2>1 DEF Find
<1>4. PICK r : r = [m EXCEPT !.pc = "write", !.found = n, !.asked = e]
  OBVIOUS
<1>5. r.id = m.id /\ r.found = n /\ r.asked = e
  BY <1>4 DEF Requests
<1>6. call' = [call EXCEPT ![c] = r]
  BY <1>2, <1>3, <1>4 DEF Looked
<1>7. call'[c] = r /\ \A d \in Calls \ {c} : call'[d] = call[d]
  BY <1>6 DEF Basic, DTypes
<1>8. SUFFICES ASSUME ~ strayed', NEW d \in Calls, At(d, "write")', call'[d].found # 0
               PROVE  /\ call'[d].found \in DOMAIN mirror'[call'[d].asked]
                      /\ mirror'[call'[d].asked][call'[d].found] # None =>
                           mirror'[call'[d].asked][call'[d].found].of = call'[d].id
  BY DEF FoundIsOwn
<1>9. CASE d = c
  <2>1. n # 0 /\ n \in Numbers(e, m.id)
    BY <1>3, <1>5, <1>7, <1>8, <1>9
  <2>2. n \in DOMAIN mirror[e] /\ mirror[e][n].of = m.id
    BY <2>1 DEF Numbers
  <2> QED
    BY <1>1, <1>5, <1>7, <1>9, <2>2
<1>10. CASE d # c
  <2>1. At(d, "write") /\ call'[d] = call[d]
    BY <1>7, <1>8, <1>10 DEF At
  <2>2. /\ call[d].found \in DOMAIN mirror[call[d].asked]
        /\ mirror[call[d].asked][call[d].found] # None => mirror[call[d].asked][call[d].found].of = call[d].id
    BY <1>1, <1>8, <2>1 DEF FoundIsOwn
  <2> QED
    BY <1>1, <2>1, <2>2
<1> QED
  BY <1>9, <1>10

\* The item that is overwritten by number is the request's own.
LEMMA WriteFound ==
  ASSUME ConstantsAssumption, Basic, FoundIsOwn, NEW c \in Calls, Write(c) PROVE FoundIsOwn'
<1>1. WritesGoOn /\ ~ At(c, "write")' /\ At(c, "write") /\ ~(Deletes(c) /\ call[c].found = 0)
  BY WritesAfterWork, WriteCases
<1>2. CASE UNCHANGED <<mirror, strayed>>
  BY <1>1, <1>2, FoundStays
<1>3. ASSUME NEW e \in Engines, mirror' = Written(c, e),
             call[c].found # 0 => call[c].found \in DOMAIN mirror[e] /\ mirror[e][call[c].found] # None,
             strayed' = (strayed \/ (call[c].found # 0 /\ call[c].asked # e))
      PROVE  FoundIsOwn'
  <2>1. SUFFICES ASSUME ~ strayed', NEW d \in Calls, At(d, "write")', call'[d].found # 0
                 PROVE  /\ call'[d].found \in DOMAIN mirror'[call'[d].asked]
                        /\ mirror'[call'[d].asked][call'[d].found] # None =>
                             mirror'[call'[d].asked][call'[d].found].of = call'[d].id
    BY DEF FoundIsOwn
  <2>2. /\ At(d, "write") /\ call'[d].id = call[d].id /\ call'[d].found = call[d].found
        /\ call'[d].asked = call[d].asked
    BY <1>1, <2>1 DEF WritesGoOn
  <2>3. PICK m \in Requests : m = call[c] /\ m.pc = "write" /\ CallFits(m)
    BY <1>1, IsRequest DEF At
  <2>4. PICK k \in Requests : k = call[d] /\ k.pc = "write" /\ CallFits(k) /\ k.found # 0
    BY <2>1, <2>2, IsRequest DEF At
  <2>5. PICK a \in Engines : a = k.asked
    BY <2>4 DEF CallFits
  <2>6. ~ strayed
    BY <1>3, <2>1
  <2>7. k.found \in DOMAIN mirror[a] /\ (mirror[a][k.found] # None => mirror[a][k.found].of = k.id)
    BY <2>2, <2>4, <2>5, <2>6 DEF FoundIsOwn
  <2>8. m.found # 0 => m.asked = e /\ mirror[e][m.found] # None /\ mirror[e][m.found].of = m.id
    BY <1>1, <1>3, <2>1, <2>3, <2>6 DEF FoundIsOwn
  <2>9. PICK item : /\ item = IF Deletes(c) THEN None ELSE [of |-> m.id, content |-> m.content]
                    /\ \A x \in Engines \ {e} : mirror'[x] = mirror[x]
                    /\ DOMAIN mirror[e] \subseteq DOMAIN mirror'[e]
                    /\ m.found # 0 => mirror'[e][m.found] = item
                    /\ \A x \in DOMAIN mirror[e] : x # m.found => mirror'[e][x] = mirror[e][x]
    <3>1. PICK item : item = IF Deletes(c) THEN None ELSE [of |-> m.id, content |-> m.content]
      OBVIOUS
    <3>2. /\ \A x \in Engines \ {e} : Written(c, e)[x] = mirror[x]
          /\ DOMAIN Written(c, e)[e] = IF m.found # 0 THEN DOMAIN mirror[e]
                                       ELSE DOMAIN mirror[e] \cup {Len(mirror[e]) + 1}
          /\ m.found # 0 => Written(c, e)[e][m.found] = item
          /\ \A x \in DOMAIN mirror[e] : x # m.found => Written(c, e)[e][x] = mirror[e][x]
      <4>1. call[c].found # 0 => call[c].found \in DOMAIN mirror[e]
        BY <1>3
      <4>2. /\ \A x \in Engines \ {e} : Written(c, e)[x] = mirror[x]
            /\ DOMAIN Written(c, e)[e] = IF call[c].found # 0 THEN DOMAIN mirror[e]
                                         ELSE DOMAIN mirror[e] \cup {Len(mirror[e]) + 1}
            /\ \A x \in DOMAIN mirror[e] : x # call[c].found => Written(c, e)[e][x] = mirror[e][x]
        BY <1>1, <4>1, WrittenTyped
      <4>3. call[c].found # 0 =>
              Written(c, e)[e][call[c].found] = IF Deletes(c) THEN None
                                                ELSE [of |-> call[c].id, content |-> call[c].content]
        BY <1>1, <4>1, WrittenTyped
      <4> QED
        BY <2>3, <3>1, <4>2, <4>3
    <3>3. /\ \A x \in Engines \ {e} : mirror'[x] = mirror[x]
          /\ DOMAIN mirror[e] \subseteq DOMAIN mirror'[e]
          /\ m.found # 0 => mirror'[e][m.found] = item
          /\ \A x \in DOMAIN mirror[e] : x # m.found => mirror'[e][x] = mirror[e][x]
      BY <1>3, <3>2
    <3> QED
      BY <3>1, <3>3
  <2>10. k.found \in DOMAIN mirror'[a] /\ (mirror'[a][k.found] # None => mirror'[a][k.found].of = k.id)
    <3>1. CASE a = e /\ k.found = m.found
      <4>1. m.id = k.id
        BY <2>4, <2>7, <2>8, <3>1
      <4>2. item # None => item.of = m.id
        BY <2>9
      <4> QED
        BY <2>4, <2>7, <2>9, <3>1, <4>1, <4>2
    <3>2. CASE ~ (a = e /\ k.found = m.found)
      BY <2>7, <2>9, <3>2
    <3> QED
      BY <3>1, <3>2
  <2> QED
    BY <2>2, <2>4, <2>5, <2>10
<1> QED
  BY <1>2, <1>3, WriteCases

\* A request that starts leaves Dolphin alone.
LEMMA RequestFound ==
  ASSUME ConstantsAssumption, Basic, NEW c \in Calls, Request(c)
  PROVE  WritesGoOn /\ UNCHANGED <<mirror, strayed>>
<1>1. None \in Ids \cup Profiles \cup {None} /\ Gone \in Contents \cup Patches
  BY DEF Contents
<1>2. ASSUME NEW l \in Layers, NEW new, Put(c, l, new)
      PROVE  WritesGoOn /\ UNCHANGED <<mirror, strayed>>
  BY <1>1, <1>2, WritesAfterStart DEF Put
<1>3. CASE ResetSettings(c) \/ \E l \in Layers : PutSettings(c, l)
  <2>1. PICK l \in Layers : \E new : Put(c, l, new)
    BY <1>3 DEF ResetSettings, PutSettings, Layers
  <2> QED
    BY <1>2, <2>1
<1>4. ASSUME NEW i \in Ids, NEW s \in Source, Create(c, i, s)
      PROVE  WritesGoOn /\ UNCHANGED <<mirror, strayed>>
  <2>1. s.ws \in Layers
    BY DEF Source, Layers
  <2> QED
    BY <1>1, <1>4, <2>1, WritesAfterStart DEF Create
<1>5. ASSUME NEW i \in Ids, Exists(i) PROVE src[i].ws \in Layers
  BY <1>5 DEF Exists, Basic, DTypes, Tables, Entries, Layers
<1>6. ASSUME NEW i \in Ids, NEW v \in Jdbc \cup Plain, Update(c, i, v)
      PROVE  WritesGoOn /\ UNCHANGED <<mirror, strayed>>
  BY <1>1, <1>5, <1>6, WritesAfterStart DEF Update
<1>7. ASSUME NEW i \in Ids, DeleteBegin(c, i)
      PROVE  WritesGoOn /\ UNCHANGED <<mirror, strayed>>
  BY <1>1, <1>5, <1>7, WritesAfterStart DEF DeleteBegin
<1>8. ASSUME NEW i \in Ids, PublishWorkflow(c, i)
      PROVE  WritesGoOn /\ UNCHANGED <<mirror, strayed>>
  BY <1>1, <1>5, <1>8, WritesAfterStart DEF PublishWorkflow
<1>9. ASSUME NEW p \in Profiles, UpdateProfile(c, p)
      PROVE  WritesGoOn /\ UNCHANGED <<mirror, strayed>>
  <2>1. PICK b \in Overrides :
          Start(c, "save", p, profile[p].ws, [f \in {g \in DOMAIN b : b[g] # profile[p].row[g]} |-> b[f]])
    BY <1>9 DEF UpdateProfile
  <2>2. PICK v : v = [f \in {g \in DOMAIN b : b[g] # profile[p].row[g]} |-> b[f]]
    OBVIOUS
  <2>3. v \in Patches
    BY <2>2, PatchTyped
  <2>4. profile[p].ws \in Layers
    BY <1>9 DEF UpdateProfile, Live, Basic, DTypes, Tables, Cells, Connections, Layers
  <2>5. PICK l \in Layers : l = profile[p].ws
    BY <2>4
  <2>6. WritesGoOn
    BY <2>1, <2>2, <2>3, <2>5, WritesAfterStart
  <2> QED
    BY <1>9, <2>6 DEF UpdateProfile
<1> QED
  BY <1>3, <1>4, <1>6, <1>7, <1>8, <1>9 DEF Request

\* The steps other than those of requests leave Dolphin and the requests alone.
LEMMA OthersFound ==
  ASSUME \/ \E w \in Workspaces, i \in Ids \cup {None} : PutDefaults(w, i)
         \/ \E p \in Profiles : DeleteProfile(p) \/ \E w \in Workspaces : CreateProfile(p, w)
         \/ \E j \in Jobs, p \in Profiles \cup {None} : Bind(j, p)
         \/ TestPlatform \/ Elsewhere \/ \E w \in Workspaces : TestWorkspace(w)
         \/ UNCHANGED vars
  PROVE  UNCHANGED <<mirror, strayed, call>>
BY DEF PutDefaults, DeleteProfile, CreateProfile, Bind, TestPlatform, Elsewhere, TestWorkspace, vars

\* Every step keeps what has been looked up.
LEMMA NextFound ==
  ASSUME ConstantsAssumption, Basic, FoundIsOwn, [Next]_vars PROVE FoundIsOwn'
<1>1. ASSUME NEW c \in Calls, Request(c) PROVE FoundIsOwn'
  BY <1>1, RequestFound, FoundStays
<1>2. ASSUME NEW c \in Calls,
             Refresh(c) \/ Reread(c) \/ Load(c) \/ Point(c) \/ NothingToRemove(c) \/ Erase(c) \/ SaveProfile(c) \/ Die(c)
      PROVE  FoundIsOwn'
  <2>1. UNCHANGED <<mirror, strayed>>
    BY <1>2 DEF Refresh, Reread, Load, Point, NothingToRemove, Erase, SaveProfile, Die
  <2>2. WritesGoOn
    BY <1>2, WritesAfterWork
  <2> QED
    BY <2>1, <2>2, FoundStays
<1>3. ASSUME UNCHANGED <<mirror, strayed, call>> PROVE FoundIsOwn'
  BY <1>3 DEF FoundIsOwn, At
<1> QED
  BY <1>1, <1>2, <1>3, OthersFound, FindFound, WriteFound DEF Next

\* What a write by number hits is the request's own, unless it has strayed.
LEMMA WriteUntouched ==
  ASSUME ConstantsAssumption, Basic, FoundIsOwn, NEW c \in Calls, Write(c),
         NEW e \in Engines, NEW n \in DOMAIN mirror[e], mirror[e][n] # None, mirror'[e][n] # mirror[e][n]
  PROVE  strayed' \/ \E d \in On(mirror[e][n].of) : call'[d] # call[d]
<1>1. SUFFICES ASSUME ~ strayed' PROVE c \in On(mirror[e][n].of)
  BY WorkMoves DEF CallStep
<1>2. PICK x \in Engines :
        /\ mirror' = Written(c, x)
        /\ call[c].found # 0 => call[c].found \in DOMAIN mirror[x]
        /\ strayed' = (strayed \/ (call[c].found # 0 /\ call[c].asked # x))
        /\ At(c, "write") /\ ~(Deletes(c) /\ call[c].found = 0)
  BY WriteCases
<1>3. x = e /\ call[c].found = n /\ n # 0
  <2>1. /\ \A d \in Engines \ {x} : Written(c, x)[d] = mirror[d]
        /\ \A k \in DOMAIN mirror[x] : k # call[c].found => Written(c, x)[x][k] = mirror[x][k]
    BY <1>2, WrittenTyped, ZenonT(60)
  <2>2. mirror[e] \in Seq({None} \cup Items)
    BY DEF Basic, DTypes, Tables
  <2>3. 0 \notin DOMAIN mirror[e]
    BY <2>2
  <2> QED
    BY <1>2, <2>1, <2>3
<1>4. call[c].asked = e /\ ~ strayed
  BY <1>1, <1>2, <1>3
<1>5. mirror[e][n].of = call[c].id
  BY <1>2, <1>3, <1>4 DEF FoundIsOwn
<1> QED
  BY <1>2, <1>5 DEF On, At

\* For every configuration: until a number of one engine is used on another, a
\* request changes no item in Dolphin but those of its own source
\* (_find_datasource_id, upsert_gido_datasource).
THEOREM OthersStayUntouched == Spec => OthersAreUntouched
<1>1. Init => Basic /\ FoundIsOwn
  BY ConstantsAssumption, InitBasic DEF Init, FoundIsOwn, At
<1>2. Basic /\ FoundIsOwn /\ [Next]_vars => (Basic /\ FoundIsOwn)'
  BY ConstantsAssumption, NextBasic, NextFound
<1>3. Basic /\ FoundIsOwn /\ [Next]_vars =>
        [\A e \in Engines : \A n \in DOMAIN mirror[e] :
           mirror[e][n] # None /\ mirror'[e][n] # mirror[e][n] =>
             strayed' \/ \E c \in On(mirror[e][n].of) : call'[c] # call[c]]_vars
  <2>1. SUFFICES ASSUME Basic, FoundIsOwn, [Next]_vars, NEW e \in Engines, NEW n \in DOMAIN mirror[e],
                        mirror[e][n] # None, mirror'[e][n] # mirror[e][n]
                 PROVE  strayed' \/ \E c \in On(mirror[e][n].of) : call'[c] # call[c]
    OBVIOUS
  <2>2. PICK c \in Calls : Write(c)
    <3>1. ASSUME NEW c \in Calls,
                 \/ Refresh(c) \/ Reread(c) \/ Load(c) \/ Point(c) \/ Find(c) \/ NothingToRemove(c)
                 \/ Erase(c) \/ SaveProfile(c) \/ Die(c)
          PROVE  mirror' = mirror
      BY <3>1 DEF Refresh, Reread, Load, Point, Find, NothingToRemove, Erase, SaveProfile, Die
    <3> QED
      BY <2>1, <3>1, ConstantsAssumption, RequestFound, OthersFound DEF Next
  <2> QED
    BY <2>1, <2>2, ConstantsAssumption, WriteUntouched
<1> QED
  BY <1>1, <1>2, <1>3, PTL DEF Spec, OthersAreUntouched

-----------------------------------------------------------------------------
(* The mirror is current *)

\* What a step leaves of a source and of its mirror.
Undisturbed(i) ==
  /\ src'[i] = src[i]
  /\ i \in excused => i \in excused'
  /\ \A e \in Engines : Numbers(e, i)' \subseteq Numbers(e, i)
  /\ i \notin excused' =>
       /\ Effective(src[i].ws).url' = Effective(src[i].ws).url
       /\ \A e \in Engines : /\ Numbers(e, i)' = Numbers(e, i)
                             /\ \A n \in Numbers(e, i) : mirror'[e][n] = mirror[e][n]

\* Numbers are those of the engine's list.
LEMMA NumbersTyped ==
  ASSUME Basic, NEW e \in Engines, NEW i
  PROVE  Numbers(e, i) \subseteq DOMAIN mirror[e] /\ 0 \notin Numbers(e, i) /\ DOMAIN mirror[e] \subseteq Nat
<1>1. mirror[e] \in Seq({None} \cup Items)
  BY DEF Basic, DTypes, Tables
<1>2. DOMAIN mirror[e] \subseteq Nat \ {0}
  BY <1>1
<1> QED
  BY <1>2 DEF Numbers

\* An address is always given.
LEMMA UrlGiven ==
  ASSUME ConstantsAssumption, NEW l PROVE Effective(l).url # None
<1>1. "url" \in Columns /\ Env.url # None
  BY DEF ConstantsAssumption, Columns, Dolphin
<1>2. ASSUME NEW below, NEW r, below.url # None PROVE Merged(below, r).url # None
  BY <1>1, <1>2 DEF Merged
<1> QED
  BY <1>1, <1>2 DEF Effective

\* What is not touched at all is not disturbed.
LEMMA Undisturbing ==
  ASSUME NEW i \in Ids, src'[i] = src[i], i \in excused => i \in excused', UNCHANGED <<mirror, setting>>
  PROVE  Undisturbed(i)
<1>1. \A e \in Engines : Numbers(e, i)' = Numbers(e, i)
  BY DEF Numbers
<1>2. Effective(src[i].ws).url' = Effective(src[i].ws).url
  BY DEF Effective
<1> QED
  BY <1>1, <1>2 DEF Undisturbed

\* A request whose source is not disturbed carries what it did.
LEMMA CallKept ==
  ASSUME Basic, NEW m \in Requests, CallFits(m), CarriesCurrent(m), NEW r,
         r.pc = m.pc, r.id = m.id, r.content = m.content, r.found = m.found, r.asked = m.asked,
         m.id \in Ids /\ src[m.id] # None => Undisturbed(m.id)
  PROVE  CarriesCurrent(r)'
<1>1. CASE m.pc \in {"refresh", "save"}
  BY <1>1 DEF CarriesCurrent
<1>2. CASE m.pc \notin {"refresh", "save"}
  <2>1. PICK i \in Ids : i = m.id /\ src[i] # None /\ Undisturbed(i)
    BY <1>2 DEF CallFits
  <2>2. src'[i] = src[i] /\ (Exists(i)' <=> Exists(i))
    BY <2>1 DEF Undisturbed, Exists
  <2>3. r.pc \in {"reread", "load", "point", "find", "write", "erase"} => Exists(r.id)'
    BY <2>1, <2>2 DEF CarriesCurrent
  <2>4. r.pc \in {"point", "find", "write"} /\ r.content # Gone => r.content = src'[r.id].content
    BY <2>1, <2>2 DEF CarriesCurrent
  <2>5. r.pc = "write" /\ r.asked # None => Numbers(r.asked, r.id)' \subseteq {r.found}
    <3>1. SUFFICES ASSUME r.pc = "write", r.asked # None PROVE Numbers(r.asked, r.id)' \subseteq {r.found}
      OBVIOUS
    <3>2. PICK e \in Engines : e = r.asked
      BY <3>1 DEF Requests
    <3>3. Numbers(e, i) \subseteq {r.found}
      BY <2>1, <3>1, <3>2 DEF CarriesCurrent
    <3>4. Numbers(e, i)' \subseteq Numbers(e, i)
      BY <2>1 DEF Undisturbed
    <3>5. Numbers(e, i)' = Numbers(r.asked, r.id)'
      BY <2>1, <3>2 DEF Numbers
    <3> QED
      BY <3>3, <3>4, <3>5
  <2>6. r.pc = "erase" /\ r.id \notin excused' =>
          Effective(src[r.id].ws).url' \in Engines /\ Numbers(Effective(src[r.id].ws).url, r.id)' = {}
    <3>1. SUFFICES ASSUME r.pc = "erase", i \notin excused'
                   PROVE  Effective(src[r.id].ws).url' \in Engines /\ Numbers(Effective(src[r.id].ws).url, r.id)' = {}
      BY <2>1
    <3>2. PICK e : e = Effective(src[i].ws).url
      OBVIOUS
    <3>3. e \in Engines /\ Numbers(e, i) = {}
      BY <2>1, <3>1, <3>2 DEF CarriesCurrent, Undisturbed
    <3>4. e = Effective(src[i].ws).url' /\ Numbers(e, i)' = {}
      BY <2>1, <3>1, <3>2, <3>3 DEF Undisturbed
    <3>5. Effective(src[r.id].ws).url' = e
      BY <2>1, <3>4
    <3>6. Numbers(Effective(src[r.id].ws).url, r.id)' = Numbers(e, i)'
      BY <2>1, <3>5 DEF Numbers
    <3> QED
      BY <3>3, <3>4, <3>5, <3>6
  <2> QED
    BY <2>3, <2>4, <2>5, <2>6 DEF CarriesCurrent
<1> QED
  BY <1>1, <1>2

\* A source that is not disturbed has the mirror it had.
LEMMA SourceKept ==
  ASSUME NEW i \in Ids, Mirrored(i), Undisturbed(i), i \notin excused' PROVE Mirrored(i)'
<1>1. PICK e : e = Effective(src[i].ws).url
  OBVIOUS
<1>2. e = Effective(src[i].ws).url' /\ src'[i] = src[i] /\ (Exists(i)' <=> Exists(i))
  BY <1>1 DEF Undisturbed, Exists
<1>3. e \in Engines => Numbers(e, i)' = Numbers(e, i) /\ \A n \in Numbers(e, i) : mirror'[e][n] = mirror[e][n]
  BY DEF Undisturbed
<1>4. ~ Exists(i) \/ src[i].content \in Jdbc =>
        /\ e \in Engines
        /\ ~ Exists(i) => Numbers(e, i) = {}
        /\ src[i].content \in Jdbc => \E n \in Numbers(e, i) : mirror[e][n].content = src[i].content
  BY <1>1 DEF Mirrored
<1>5. Numbers(Effective(src[i].ws).url, i)' = Numbers(e, i)'
  BY <1>2 DEF Numbers
<1> QED
  BY <1>2, <1>3, <1>4, <1>5 DEF Mirrored

\* A request starts.
LEMMA MirrorStart ==
  ASSUME ConstantsAssumption, Basic, MirrorInv, NEW c \in Calls,
         NEW pc \in {"refresh", "reread", "load", "point", "save"},
         NEW i \in Ids \cup Profiles \cup {None}, NEW l \in Layers, NEW v \in Contents \cup Patches,
         Start(c, pc, i, l, v), UNCHANGED mirror,
         \A j \in Ids \ {i} : src[j] = None => src'[j] = None,
         \A j \in Ids \ {i} : src[j] # None => Undisturbed(j),
         pc \in {"reread", "load", "point"} => i \in Ids /\ v = Gone /\ Exists(i)'
  PROVE  MirrorInv'
<1>1. /\ call'[c] # None /\ call'[c].pc = pc /\ call'[c].id = i /\ call'[c].content = v /\ call[c] = None
      /\ \A d \in Calls \ {c} :
           /\ call'[d] = None <=> call[d] = None
           /\ call[d] # None =>
                /\ call'[d].pc = call[d].pc /\ call'[d].id = call[d].id
                /\ call'[d].content = call[d].content /\ call'[d].found = call[d].found
                /\ call'[d].asked = call[d].asked
                /\ call'[d].alone = (call[d].alone /\ ~(i # None /\ call[d].id = i))
  BY Starts DEF Basic
<1>2. NamesAreUnique'
  BY DEF MirrorInv, NamesAreUnique, Numbers
<1>3. ASSUME NEW d \in Calls, call'[d] # None, call'[d].alone PROVE CarriesCurrent(call[d])'
  <2>1. PICK r : r = call'[d]
    OBVIOUS
  <2>2. CASE d = c
    <3>1. r.pc = pc /\ r.id = i /\ r.content = v
      BY <1>1, <2>1, <2>2
    <3>2. CarriesCurrent(r)'
      BY <3>1 DEF CarriesCurrent
    <3> QED
      BY <2>1, <3>2 DEF CarriesCurrent
  <2>3. CASE d # c
    <3>1. PICK m \in Requests : m = call[d] /\ CallFits(m) /\ m.alone
      BY <1>1, <1>3, <2>3, IsRequest
    <3>2. CarriesCurrent(m)
      BY <1>1, <1>3, <2>3, <3>1 DEF MirrorInv, AloneCarriesCurrent
    <3>3. /\ r.pc = m.pc /\ r.id = m.id /\ r.content = m.content /\ r.found = m.found
          /\ r.asked = m.asked /\ ~(i # None /\ m.id = i)
      BY <1>1, <1>3, <2>1, <2>3, <3>1
    <3>4. m.id \in Ids => m.id # None
      BY DEF ConstantsAssumption
    <3>5. m.id \in Ids /\ src[m.id] # None => Undisturbed(m.id)
      BY <3>3, <3>4
    <3>6. CarriesCurrent(r)'
      BY <3>1, <3>2, <3>3, <3>5, CallKept
    <3> QED
      BY <2>1, <3>6 DEF CarriesCurrent
  <2> QED
    BY <2>2, <2>3
<1>4. ASSUME NEW j \in Ids, src'[j] # None, On(j)' = {}, j \notin excused' PROVE Mirrored(j)'
  <2>1. j # i /\ src[j] # None
    BY <1>1, <1>4 DEF On
  <2>2. On(j) = {}
    BY <1>1, <1>4 DEF On
  <2>3. Undisturbed(j)
    BY <2>1
  <2>4. Mirrored(j)
    BY <1>4, <2>1, <2>2, <2>3 DEF Undisturbed, MirrorInv, CurrentInv
  <2> QED
    BY <1>4, <2>3, <2>4, SourceKept
<1> QED
  BY <1>2, <1>3, <1>4 DEF MirrorInv, AloneCarriesCurrent, CurrentInv

\* A request goes on or ends.
LEMMA MirrorWork ==
  ASSUME ConstantsAssumption, Basic, MirrorInv, NEW c \in Calls, CallStep(c), NamesAreUnique',
         NEW i, i = call[c].id,
         \A j \in Ids : src[j] = None => src'[j] = None,
         \A j \in Ids \ {i} : src[j] # None => Undisturbed(j),
         call[c].alone /\ call'[c] # None => CarriesCurrent(call[c])',
         i \in Ids /\ call'[c] = None /\ On(i)' = {} /\ i \notin excused' => Mirrored(i)'
  PROVE  MirrorInv'
<1>1. /\ call[c] # None
      /\ \A d \in Calls \ {c} : call'[d] = call[d]
      /\ call'[c] = None \/ (call'[c].id = call[c].id /\ call'[c].alone = call[c].alone)
  BY WorkMoves
<1>2. i = call[c].id
  OBVIOUS
<1>3. ASSUME NEW d \in Calls, call'[d] # None, call'[d].alone PROVE CarriesCurrent(call[d])'
  <2>1. CASE d = c
    BY <1>1, <1>3, <2>1
  <2>2. CASE d # c
    <3>1. PICK m \in Requests : m = call[d] /\ m = call'[d] /\ CallFits(m) /\ m.alone
      BY <1>1, <1>3, <2>2, IsRequest
    <3>2. CarriesCurrent(m)
      BY <1>1, <1>3, <2>2, <3>1 DEF MirrorInv, AloneCarriesCurrent
    <3>3. m.id \in Ids => m.id # i
      <4>1. m.id \in Ids => m.id # None
        BY DEF ConstantsAssumption
      <4>2. m.id \in Ids => On(m.id) = {d}
        BY <1>1, <1>3, <2>2, <3>1, <4>1 DEF Basic, OverlapIsKnown
      <4>3. c \in On(i)
        BY <1>1, <1>2 DEF On
      <4> QED
        BY <2>2, <4>2, <4>3
    <3>4. m.id \in Ids /\ src[m.id] # None => Undisturbed(m.id)
      BY <1>2, <3>3
    <3>5. CarriesCurrent(m)'
      BY <3>1, <3>2, <3>4, CallKept
    <3> QED
      BY <3>1, <3>5 DEF CarriesCurrent
  <2> QED
    BY <2>1, <2>2
<1>4. ASSUME NEW j \in Ids, src'[j] # None, On(j)' = {}, j \notin excused' PROVE Mirrored(j)'
  <2>1. CASE j = i
    <3>1. call'[c] = None
      BY <1>1, <1>2, <1>4, <2>1 DEF On
    <3> QED
      BY <1>4, <2>1, <3>1
  <2>2. CASE j # i
    <3>1. src[j] # None /\ On(j) = {}
      BY <1>1, <1>2, <1>4, <2>2 DEF On
    <3>2. Undisturbed(j)
      BY <1>2, <2>2, <3>1
    <3>3. Mirrored(j)
      BY <1>4, <3>1, <3>2 DEF Undisturbed, MirrorInv, CurrentInv
    <3> QED
      BY <1>4, <3>2, <3>3, SourceKept
  <2> QED
    BY <2>1, <2>2
<1> QED
  BY <1>3, <1>4 DEF MirrorInv, AloneCarriesCurrent, CurrentInv

\* Nothing about requests and sources changes.
LEMMA MirrorStays ==
  ASSUME Basic, MirrorInv, UNCHANGED <<src, mirror, setting, call>>,
         \A j \in Ids : j \in excused => j \in excused'
  PROVE  MirrorInv'
<1>1. NamesAreUnique'
  BY DEF MirrorInv, NamesAreUnique, Numbers
<1>2. \A j \in Ids : Undisturbed(j)
  BY Undisturbing
<1>3. ASSUME NEW d \in Calls, call'[d] # None, call'[d].alone PROVE CarriesCurrent(call[d])'
  <2>1. PICK m \in Requests : m = call[d] /\ m = call'[d] /\ CallFits(m) /\ CarriesCurrent(m)
    BY <1>3, IsRequest DEF MirrorInv, AloneCarriesCurrent
  <2>2. CarriesCurrent(m)'
    BY <1>2, <2>1, CallKept
  <2> QED
    BY <2>1, <2>2 DEF CarriesCurrent
<1>4. ASSUME NEW j \in Ids, src'[j] # None, On(j)' = {}, j \notin excused' PROVE Mirrored(j)'
  <2>1. src[j] # None /\ On(j) = {} /\ j \notin excused
    BY <1>4 DEF On
  <2>2. Mirrored(j)
    BY <2>1 DEF MirrorInv, CurrentInv
  <2> QED
    BY <1>2, <1>4, <2>2, SourceKept
<1> QED
  BY <1>1, <1>3, <1>4 DEF MirrorInv, AloneCarriesCurrent, CurrentInv

\* Of requests that are alone none is on a source with another.
LEMMA NotAlone ==
  ASSUME Basic, NEW c \in Calls, call[c] # None, call[c].id \in Ids, call[c].id # None, ~ call[c].alone
  PROVE  call[c].id \in excused
BY DEF Basic, OverlapIsKnown

\* Settings that say the same about Dolphin lead to the same engine.
LEMMA SameWay ==
  ASSUME ConstantsAssumption, Basic, NEW l \in Layers, NEW new, setting' = [setting EXCEPT ![l] = new],
         NEW w \in Workspaces, new.url = setting[l].url \/ l \notin {Global, w}
  PROVE  Effective(w).url' = Effective(w).url
<1>1. "url" \in Columns /\ w # Global /\ w \in Layers /\ Global \in Layers
  BY DEF ConstantsAssumption, Columns, Dolphin, Layers
<1>2. \A x \in Layers : setting'[x] = IF x = l THEN new ELSE setting[x]
  BY DEF Basic, DTypes, Tables
<1>3. setting'[w].url = setting[w].url /\ setting'[Global].url = setting[Global].url
  BY <1>1, <1>2
<1>4. ASSUME NEW b, NEW r, NEW d, NEW s, b.url = d.url, r.url = s.url
      PROVE  Merged(b, r).url = Merged(d, s).url
  BY <1>1, <1>4 DEF Merged
<1>5. Merged(Env, setting'[Global]).url = Merged(Env, setting[Global]).url
  BY <1>3, <1>4
<1>6. Merged(Merged(Env, setting'[Global]), setting'[w]).url = Merged(Merged(Env, setting[Global]), setting[w]).url
  BY <1>3, <1>4, <1>5
<1> QED
  BY <1>1, <1>6 DEF Effective

\* Settings that move a workspace give its sources an excuse.
LEMMA PutMirror ==
  ASSUME ConstantsAssumption, Basic, MirrorInv, NEW c \in Calls, NEW l \in Layers, NEW new, Put(c, l, new)
  PROVE  MirrorInv'
<1>1. Start(c, "refresh", None, l, Gone) /\ setting' = [setting EXCEPT ![l] = new]
      /\ UNCHANGED <<src, mirror>> /\ excused \subseteq excused'
      /\ (new.url # setting[l].url => Displaced(l) \subseteq excused')
  BY DEF Put, Excuse, rows, conns, Dolphin
<1>2. None \notin Ids /\ Gone \in Contents \cup Patches
  BY DEF ConstantsAssumption, Contents
<1>3. ASSUME NEW j \in Ids, src[j] # None PROVE Undisturbed(j)
  <2>1. PICK w \in Workspaces : w = src[j].ws /\ w = src'[j].ws
    BY <1>1, <1>3 DEF Basic, DTypes, Tables, Entries
  <2>2. \A e \in Engines : Numbers(e, j)' = Numbers(e, j)
    BY <1>1 DEF Numbers
  <2>3. ASSUME j \notin excused' PROVE Effective(src[j].ws).url' = Effective(src[j].ws).url
    <3>1. new.url = setting[l].url \/ l \notin {Global, w}
      BY <1>1, <1>3, <2>1, <2>3 DEF Displaced
    <3>2. Effective(w).url' = Effective(w).url
      BY <1>1, <3>1, SameWay
    <3>3. Effective(w).url' = Effective(src[j].ws).url'
      BY <2>1 DEF Effective
    <3> QED
      BY <2>1, <3>2, <3>3
  <2> QED
    BY <1>1, <2>2, <2>3 DEF Undisturbed
<1> QED
  BY <1>1, <1>2, <1>3, MirrorStart

\* A source that is created is on its way to Dolphin.
LEMMA CreateMirror ==
  ASSUME ConstantsAssumption, Basic, MirrorInv, NEW c \in Calls, NEW i \in Ids, NEW s \in Source, Create(c, i, s)
  PROVE  MirrorInv'
<1>1. Start(c, "reread", i, s.ws, Gone) /\ src[i] = None /\ src' = [src EXCEPT ![i] = s]
      /\ UNCHANGED <<mirror, setting, excused>>
  BY DEF Create, conns
<1>2. s \in Entries /\ s.ws \in Layers /\ s.content \in Jdbc \cup Plain
  BY DEF Source, Entries, Contents, Layers
<1>3. src'[i] = s /\ \A j \in Ids \ {i} : src'[j] = src[j]
  BY <1>1 DEF Basic, DTypes, Tables
<1>4. s # None /\ s.content # Gone
  BY <1>2 DEF ConstantsAssumption
<1>5. Exists(i)'
  BY <1>3, <1>4 DEF Exists
<1>6. \A j \in Ids \ {i} : Undisturbed(j)
  BY <1>1, <1>3, Undisturbing
<1>7. Gone \in Contents \cup Patches
  BY DEF Contents
<1> QED
  BY <1>1, <1>2, <1>3, <1>5, <1>6, <1>7, MirrorStart

\* So is one that is changed.
LEMMA UpdateMirror ==
  ASSUME ConstantsAssumption, Basic, MirrorInv, NEW c \in Calls, NEW i \in Ids, NEW v \in Jdbc \cup Plain,
         Update(c, i, v)
  PROVE  MirrorInv'
<1>1. Start(c, "reread", i, src[i].ws, Gone) /\ Exists(i) /\ src' = [src EXCEPT ![i].content = v]
      /\ UNCHANGED <<mirror, setting>> /\ excused \subseteq excused'
  BY DEF Update, conns, Excuse
<1>2. PICK old \in Entries : old = src[i]
  BY <1>1 DEF Exists, Basic, DTypes, Tables
<1>3. PICK e : e = [old EXCEPT !.content = v]
  OBVIOUS
<1>4. e \in Entries /\ e.content = v /\ old.ws \in Layers
  BY <1>2, <1>3 DEF Entries, Contents, Layers
<1>5. src' = [src EXCEPT ![i] = e]
  BY <1>1, <1>2, <1>3
<1>6. src'[i] = e /\ \A j \in Ids \ {i} : src'[j] = src[j]
  BY <1>5 DEF Basic, DTypes, Tables
<1>7. e # None /\ e.content # Gone
  BY <1>4 DEF ConstantsAssumption
<1>8. Exists(i)'
  BY <1>6, <1>7 DEF Exists
<1>9. \A j \in Ids \ {i} : Undisturbed(j)
  BY <1>1, <1>6, Undisturbing
<1>10. Gone \in Contents \cup Patches
  BY DEF Contents
<1>11. PICK l \in Layers : l = src[i].ws
  BY <1>2, <1>4
<1> QED
  BY <1>1, <1>6, <1>8, <1>9, <1>10, <1>11, MirrorStart

\* A deletion that begins removes nothing yet.
LEMMA DeleteMirror ==
  ASSUME ConstantsAssumption, Basic, MirrorInv, NEW c \in Calls, NEW i \in Ids, DeleteBegin(c, i)
  PROVE  MirrorInv'
<1>1. Start(c, "point", i, src[i].ws, Gone) /\ Exists(i)
      /\ UNCHANGED <<src, mirror, setting>> /\ excused \subseteq excused'
  BY DEF DeleteBegin, conns, rows, Excuse
<1>2. PICK l \in Layers : l = src[i].ws
  BY <1>1 DEF Exists, Basic, DTypes, Tables, Entries, Layers
<1>3. Exists(i)' /\ Gone \in Contents \cup Patches
  BY <1>1 DEF Exists, Contents
<1>4. \A j \in Ids : Undisturbed(j)
  BY <1>1, Undisturbing
<1> QED
  BY <1>1, <1>2, <1>3, <1>4, MirrorStart

\* A publication that begins writes nothing yet.
LEMMA PublishMirror ==
  ASSUME ConstantsAssumption, Basic, MirrorInv, NEW c \in Calls, NEW i \in Ids, PublishWorkflow(c, i)
  PROVE  MirrorInv'
<1>1. Start(c, "load", i, src[i].ws, Gone) /\ Exists(i)
      /\ UNCHANGED <<src, mirror, setting>> /\ excused \subseteq excused'
  BY DEF PublishWorkflow, conns, rows, Excuse
<1>2. PICK l \in Layers : l = src[i].ws
  BY <1>1 DEF Exists, Basic, DTypes, Tables, Entries, Layers
<1>3. Exists(i)' /\ Gone \in Contents \cup Patches
  BY <1>1 DEF Exists, Contents
<1>4. \A j \in Ids : Undisturbed(j)
  BY <1>1, Undisturbing
<1> QED
  BY <1>1, <1>2, <1>3, <1>4, MirrorStart

\* An edit of a connection is none of a source.
LEMMA UpdateProfileMirror ==
  ASSUME ConstantsAssumption, Basic, MirrorInv, NEW c \in Calls, NEW p \in Profiles, UpdateProfile(c, p)
  PROVE  MirrorInv'
<1>1. PICK b \in Overrides :
        Start(c, "save", p, profile[p].ws, [f \in {g \in DOMAIN b : b[g] # profile[p].row[g]} |-> b[f]])
  BY DEF UpdateProfile
<1>2. PICK v : v = [f \in {g \in DOMAIN b : b[g] # profile[p].row[g]} |-> b[f]]
  OBVIOUS
<1>3. v \in Patches
  BY <1>2, PatchTyped
<1>4. Live(p) /\ UNCHANGED <<src, mirror, setting, excused>>
  BY DEF UpdateProfile, rows
<1>5. PICK l \in Layers : l = profile[p].ws
  BY <1>4 DEF Live, Basic, DTypes, Tables, Cells, Connections, Layers
<1>6. \A j \in Ids : Undisturbed(j)
  BY <1>4, Undisturbing
<1> QED
  BY <1>1, <1>2, <1>3, <1>4, <1>5, <1>6, MirrorStart

\* A request that starts keeps what Dolphin is known to have.
LEMMA RequestMirror ==
  ASSUME ConstantsAssumption, Basic, MirrorInv, NEW c \in Calls, Request(c) PROVE MirrorInv'
<1>1. ASSUME NEW l \in Layers, PutSettings(c, l) PROVE MirrorInv'
  <2>1. PICK new : Put(c, l, new)
    BY <1>1 DEF PutSettings
  <2> QED
    BY <2>1, PutMirror
<1>2. CASE ResetSettings(c)
  <2>1. PICK new : Put(c, Global, new)
    BY <1>2 DEF ResetSettings
  <2>2. PICK l \in Layers : l = Global
    BY DEF Layers
  <2> QED
    BY <2>1, <2>2, PutMirror
<1> QED
  BY <1>1, <1>2, CreateMirror, UpdateMirror, DeleteMirror, PublishMirror,
     UpdateProfileMirror DEF Request

\* What a write by number n on engine e makes of the numbers of source i, and of
\* those of others.
Renumbered(c, e, i, n) ==
  /\ \A d \in Engines \ {e} : mirror'[d] = mirror[d] /\ \A j \in Ids : Numbers(d, j)' = Numbers(d, j)
  /\ \A j \in Ids \ {i} : /\ Numbers(e, j)' = Numbers(e, j) \ {n}
                          /\ \A k \in Numbers(e, j) \ {n} : mirror'[e][k] = mirror[e][k]
  /\ Deletes(c) => Numbers(e, i)' = Numbers(e, i) \ {n}
  /\ ~ Deletes(c) => \E k : /\ mirror'[e][k].content = call[c].content
                            /\ Numbers(e, i)' = (Numbers(e, i) \ {n}) \cup {k}

\* A write that is accepted does that.
LEMMA WrittenNumbers ==
  ASSUME ConstantsAssumption, Basic, NEW c \in Calls, At(c, "write"), NEW e \in Engines,
         ~(Deletes(c) /\ call[c].found = 0), call[c].found # 0 => call[c].found \in DOMAIN mirror[e],
         mirror' = Written(c, e), NEW i \in Ids, i = call[c].id, NEW n \in Nat, n = call[c].found
  PROVE  Renumbered(c, e, i, n)
<1>1. PICK item : /\ item = IF Deletes(c) THEN None ELSE [of |-> i, content |-> call[c].content]
                  /\ item = None \/ item \in Items
  <2>1. PICK item : item = IF Deletes(c) THEN None ELSE [of |-> call[c].id, content |-> call[c].content]
    OBVIOUS
  <2>2. item = None \/ item \in Items
    BY <2>1, WrittenTyped
  <2> QED
    BY <2>1, <2>2
<1>2. /\ DOMAIN mirror' = Engines
      /\ \A d \in Engines \ {e} : mirror'[d] = mirror[d]
      /\ DOMAIN mirror'[e] = IF n # 0 THEN DOMAIN mirror[e] ELSE DOMAIN mirror[e] \cup {Len(mirror[e]) + 1}
      /\ \A k \in DOMAIN mirror[e] : k # n => mirror'[e][k] = mirror[e][k]
  <2>1. /\ DOMAIN Written(c, e) = Engines
        /\ \A d \in Engines \ {e} : Written(c, e)[d] = mirror[d]
        /\ DOMAIN Written(c, e)[e] = IF call[c].found # 0 THEN DOMAIN mirror[e]
                                     ELSE DOMAIN mirror[e] \cup {Len(mirror[e]) + 1}
        /\ \A k \in DOMAIN mirror[e] : k # call[c].found => Written(c, e)[e][k] = mirror[e][k]
    BY WrittenTyped, ZenonT(60)
  <2> QED
    BY <2>1
<1>3. /\ n # 0 => mirror'[e][n] = item
      /\ n = 0 => mirror'[e][Len(mirror[e]) + 1] = item
  <2>1. call[c].found # 0 =>
          Written(c, e)[e][call[c].found] = IF Deletes(c) THEN None
                                            ELSE [of |-> call[c].id, content |-> call[c].content]
    BY WrittenTyped
  <2>2. call[c].found = 0 =>
          Written(c, e)[e][Len(mirror[e]) + 1] = IF Deletes(c) THEN None
                                                 ELSE [of |-> call[c].id, content |-> call[c].content]
    BY WrittenTyped
  <2> QED
    BY <1>1, <2>1, <2>2
<1>4. DOMAIN mirror[e] \subseteq Nat \ {0} /\ Len(mirror[e]) + 1 \notin DOMAIN mirror[e]
  <2>1. mirror[e] \in Seq({None} \cup Items)
    BY DEF Basic, DTypes, Tables
  <2>2. DOMAIN mirror[e] = 1 .. Len(mirror[e]) /\ Len(mirror[e]) \in Nat
    BY <2>1
  <2> QED
    BY <2>2
<1>5. PICK k : k = IF n # 0 THEN n ELSE Len(mirror[e]) + 1
  OBVIOUS
<1>6. mirror'[e][k] = item /\ DOMAIN mirror'[e] = DOMAIN mirror[e] \cup {k}
  BY <1>2, <1>3, <1>5
<1>7. \A x \in DOMAIN mirror[e] : x # k => mirror'[e][x] = mirror[e][x] /\ x # n
  <2>1. \A x \in DOMAIN mirror[e] : x # 0
    BY <1>4
  <2> QED
    BY <1>2, <1>5, <2>1
<1>8. n # k => n \notin DOMAIN mirror[e] /\ k \notin DOMAIN mirror[e]
  BY <1>4, <1>5
<1>9. item # None => item.of = i /\ item.content = call[c].content /\ ~ Deletes(c)
  BY <1>1
<1>10. Deletes(c) <=> item = None
  <2>1. ~ Deletes(c) => item \in Items \/ item = None
    BY <1>1
  <2>2. ~ Deletes(c) => item = [of |-> i, content |-> call[c].content] /\ call[c].content \in Jdbc
    <3>1. PICK m \in Requests : m = call[c] /\ CallFits(m) /\ m.pc = "write"
      BY IsRequest DEF At
    <3> QED
      BY <1>1, <3>1 DEF CallFits, Contents, Deletes
  <2>3. ~ Deletes(c) => item \in Items
    BY <2>2 DEF Items
  <2> QED
    BY <1>1, <2>3 DEF ConstantsAssumption
<1>11. ASSUME NEW j \in Ids
       PROVE  Numbers(e, j)' = (Numbers(e, j) \ {n}) \cup {x \in {k} : item # None /\ j = i}
  <2>1. ASSUME NEW x
        PROVE  x \in Numbers(e, j)' <=> (x \in Numbers(e, j) /\ x # n) \/ (x = k /\ item # None /\ j = i)
    <3>1. x \in Numbers(e, j)' <=> x \in DOMAIN mirror'[e] /\ mirror'[e][x] # None /\ mirror'[e][x].of = j
      BY DEF Numbers
    <3>2. x \in Numbers(e, j) <=> x \in DOMAIN mirror[e] /\ mirror[e][x] # None /\ mirror[e][x].of = j
      BY DEF Numbers
    <3>3. CASE x = k
      BY <1>5, <1>6, <1>8, <1>9, <3>1, <3>2, <3>3
    <3>4. CASE x # k
      BY <1>6, <1>7, <3>1, <3>2, <3>4
    <3> QED
      BY <3>3, <3>4
  <2> QED
    BY <2>1
<1>12. \A d \in Engines \ {e} : mirror'[d] = mirror[d] /\ \A j \in Ids : Numbers(d, j)' = Numbers(d, j)
  BY <1>2 DEF Numbers
<1>13. ASSUME NEW j \in Ids \ {i}
       PROVE  /\ Numbers(e, j)' = Numbers(e, j) \ {n}
              /\ \A x \in Numbers(e, j) \ {n} : mirror'[e][x] = mirror[e][x]
  <2>1. Numbers(e, j)' = Numbers(e, j) \ {n}
    BY <1>11, <1>13
  <2>2. \A x \in Numbers(e, j) \ {n} : x \in DOMAIN mirror[e] /\ x # n
    BY DEF Numbers
  <2> QED
    BY <1>2, <2>1, <2>2
<1>14. Deletes(c) => Numbers(e, i)' = Numbers(e, i) \ {n}
  BY <1>10, <1>11
<1>15. ~ Deletes(c) => mirror'[e][k].content = call[c].content
                       /\ Numbers(e, i)' = (Numbers(e, i) \ {n}) \cup {k}
  BY <1>6, <1>9, <1>10, <1>11
<1> QED
  BY <1>12, <1>13, <1>14, <1>15 DEF Renumbered

\* What a request becomes that goes on, or ends.
LEMMA GoesOn ==
  ASSUME ConstantsAssumption, Basic, NEW c \in Calls, call[c] # None, NEW pc \in {"erase", "find"}, GoTo(c, pc)
  PROVE  /\ call'[c] # None /\ call'[c].pc = pc /\ call'[c].id = call[c].id /\ call'[c].content = call[c].content
         /\ call'[c].found = call[c].found /\ call'[c].asked = call[c].asked
<1>1. PICK m \in Requests : m = call[c]
  BY IsRequest
<1>2. PICK r : r = [m EXCEPT !.pc = pc]
  OBVIOUS
<1>3. /\ r \in Requests /\ r.pc = pc /\ r.id = m.id /\ r.content = m.content /\ r.found = m.found
      /\ r.asked = m.asked
  BY <1>2 DEF Requests
<1>4. call' = [call EXCEPT ![c] = r]
  BY <1>1, <1>2 DEF GoTo
<1>5. call'[c] = r
  BY <1>4 DEF Basic, DTypes
<1>6. r # None
  BY <1>3 DEF ConstantsAssumption
<1> QED
  BY <1>1, <1>3, <1>5, <1>6

\* A push ends, a deletion goes on to the row.
LEMMA GoesAfter ==
  ASSUME ConstantsAssumption, Basic, NEW c \in Calls, call[c] # None, After(c)
  PROVE  /\ Deletes(c) => call'[c] # None /\ call'[c].pc = "erase" /\ call'[c].id = call[c].id
                          /\ call'[c].content = call[c].content
         /\ ~ Deletes(c) => call'[c] = None
<1>1. Deletes(c) => GoTo(c, "erase")
  BY DEF After
<1>2. ~ Deletes(c) => call'[c] = None
  BY DEF After, Done, Basic, DTypes
<1> QED
  BY <1>1, <1>2, GoesOn

\* A step that leaves sources and Dolphin alone disturbs no other source.
LEMMA Quiet ==
  ASSUME MirrorInv, NEW i, UNCHANGED <<src, mirror, setting>>,
         \A j \in Ids \ {i} : j \in excused => j \in excused'
  PROVE  /\ NamesAreUnique'
         /\ \A j \in Ids : src[j] = None => src'[j] = None
         /\ \A j \in Ids \ {i} : Undisturbed(j)
<1>1. NamesAreUnique'
  BY DEF MirrorInv, NamesAreUnique, Numbers
<1> QED
  BY <1>1, Undisturbing

\* The row that is read again is what is committed.
LEMMA RereadMirror ==
  ASSUME ConstantsAssumption, Basic, MirrorInv, NEW c \in Calls, Reread(c) PROVE MirrorInv'
<1>1. At(c, "reread") /\ UNCHANGED <<src, mirror, setting, excused>>
  BY DEF Reread, rows
<1>2. PICK m \in Requests : m = call[c] /\ CallFits(m) /\ m.pc = "reread"
  BY <1>1, IsRequest DEF At
<1>3. PICK i \in Ids : i = m.id /\ i # None
  BY <1>2 DEF CallFits, ConstantsAssumption
<1>4. m.alone => Exists(i)
  BY <1>1, <1>2, <1>3 DEF MirrorInv, AloneCarriesCurrent, CarriesCurrent, At
<1>5. Exists(i) => call'[c] # None /\ call'[c].pc = "point" /\ call'[c].id = i /\ call'[c].content = src[i].content
  <2>1. SUFFICES ASSUME Exists(i)
                 PROVE  /\ call'[c] # None /\ call'[c].pc = "point" /\ call'[c].id = i
                        /\ call'[c].content = src[i].content
    OBVIOUS
  <2>2. PICK v \in Contents : v = src[i].content
    BY <2>1 DEF Exists, Basic, DTypes, Tables, Entries
  <2>3. PICK r : r = [m EXCEPT !.pc = "point", !.content = v]
    OBVIOUS
  <2>4. r \in Requests /\ r.pc = "point" /\ r.id = m.id /\ r.content = v
    BY <2>3 DEF Requests
  <2>5. call' = [call EXCEPT ![c] = r]
    BY <1>2, <1>3, <2>1, <2>2, <2>3 DEF Reread
  <2>6. call'[c] = r
    BY <2>5 DEF Basic, DTypes
  <2>7. r # None
    BY <2>4 DEF ConstantsAssumption
  <2> QED
    BY <1>3, <2>2, <2>4, <2>6, <2>7
<1>6. call[c].alone /\ call'[c] # None => CarriesCurrent(call[c])'
  <2>1. SUFFICES ASSUME m.alone PROVE CarriesCurrent(call[c])'
    BY <1>2
  <2>2. PICK r : r = call'[c]
    OBVIOUS
  <2>3. r.pc = "point" /\ r.id = i /\ r.content = src'[i].content /\ Exists(i)'
    BY <1>1, <1>4, <1>5, <2>1, <2>2 DEF Exists
  <2>4. CarriesCurrent(r)'
    BY <2>3 DEF CarriesCurrent
  <2> QED
    BY <2>2, <2>4 DEF CarriesCurrent
<1>7. ~ (call'[c] = None /\ i \notin excused')
  BY <1>1, <1>2, <1>3, <1>4, <1>5, NotAlone DEF At
<1>8. CallStep(c)
  BY DEF CallStep
<1> QED
  BY <1>1, <1>2, <1>3, <1>6, <1>7, <1>8, Quiet, MirrorWork

\* What a publication loads is what is committed; what it does not write needs
\* no mirror.
LEMMA LoadMirror ==
  ASSUME ConstantsAssumption, Basic, MirrorInv, NEW c \in Calls, Load(c) PROVE MirrorInv'
<1>1. At(c, "load") /\ UNCHANGED <<src, mirror, setting, excused>>
  BY DEF Load, rows
<1>2. PICK m \in Requests : m = call[c] /\ CallFits(m) /\ m.pc = "load"
  BY <1>1, IsRequest DEF At
<1>3. PICK i \in Ids : i = m.id /\ i # None
  BY <1>2 DEF CallFits, ConstantsAssumption
<1>4. m.alone => Exists(i)
  BY <1>1, <1>2, <1>3 DEF MirrorInv, AloneCarriesCurrent, CarriesCurrent, At
<1>5. Exists(i) /\ src[i].content \in Jdbc =>
        call'[c] # None /\ call'[c].pc = "find" /\ call'[c].id = i /\ call'[c].content = src[i].content
  <2>1. SUFFICES ASSUME Exists(i), src[i].content \in Jdbc
                 PROVE  /\ call'[c] # None /\ call'[c].pc = "find" /\ call'[c].id = i
                        /\ call'[c].content = src[i].content
    OBVIOUS
  <2>2. PICK v \in Contents : v = src[i].content
    BY <2>1 DEF Exists, Basic, DTypes, Tables, Entries
  <2>3. PICK r : r = [m EXCEPT !.pc = "find", !.content = v]
    OBVIOUS
  <2>4. r \in Requests /\ r.pc = "find" /\ r.id = m.id /\ r.content = v
    BY <2>3 DEF Requests
  <2>5. call' = [call EXCEPT ![c] = r]
    BY <1>2, <1>3, <2>1, <2>2, <2>3 DEF Load
  <2>6. call'[c] = r
    BY <2>5 DEF Basic, DTypes
  <2>7. r # None
    BY <2>4 DEF ConstantsAssumption
  <2> QED
    BY <1>3, <2>2, <2>4, <2>6, <2>7
<1>6. ~ (Exists(i) /\ src[i].content \in Jdbc) => call'[c] = None
  BY <1>2, <1>3 DEF Load, Done, Basic, DTypes
<1>7. call[c].alone /\ call'[c] # None => CarriesCurrent(call[c])'
  <2>1. SUFFICES ASSUME m.alone, call'[c] # None PROVE CarriesCurrent(call[c])'
    BY <1>2
  <2>2. PICK r : r = call'[c]
    OBVIOUS
  <2>3. r.pc = "find" /\ r.id = i /\ r.content = src'[i].content /\ Exists(i)'
    BY <1>1, <1>4, <1>5, <1>6, <2>1, <2>2 DEF Exists
  <2>4. CarriesCurrent(r)'
    BY <2>3 DEF CarriesCurrent
  <2> QED
    BY <2>2, <2>4 DEF CarriesCurrent
<1>8. call'[c] = None /\ i \notin excused' => Mirrored(i)'
  <2>1. SUFFICES ASSUME call'[c] = None, i \notin excused' PROVE Mirrored(i)'
    OBVIOUS
  <2>2. m.alone
    BY <1>1, <1>2, <1>3, <2>1, NotAlone DEF At
  <2>3. Exists(i) /\ src[i].content \notin Jdbc
    BY <1>4, <1>5, <2>1, <2>2
  <2> QED
    BY <1>1, <2>3 DEF Mirrored, Exists
<1>9. CallStep(c)
  BY DEF CallStep
<1> QED
  BY <1>1, <1>2, <1>3, <1>7, <1>8, <1>9, Quiet, MirrorWork

\* A source that is not mirrored needs no mirror; one whose engine is off is excused.
LEMMA PointMirror ==
  ASSUME ConstantsAssumption, Basic, MirrorInv, NEW c \in Calls, Point(c) PROVE MirrorInv'
<1>1. At(c, "point") /\ UNCHANGED <<src, mirror, setting>> /\ excused \subseteq excused'
  BY DEF Point, Excuse, rows
<1>2. PICK m \in Requests : m = call[c] /\ CallFits(m) /\ m.pc = "point"
  BY <1>1, IsRequest DEF At
<1>3. PICK i \in Ids : i = m.id /\ i # None
  BY <1>2 DEF CallFits, ConstantsAssumption
<1>4. m.alone => Exists(i) /\ (m.content # Gone => m.content = src[i].content)
  BY <1>1, <1>2, <1>3 DEF MirrorInv, AloneCarriesCurrent, CarriesCurrent, At
<1>5. \/ After(c) /\ i \in excused'
      \/ m.content \in Plain /\ Done(c)
      \/ GoTo(c, "find")
  BY <1>2, <1>3 DEF Point, Excuse
<1>6. call[c].alone /\ call'[c] # None => CarriesCurrent(call[c])'
  <2>1. SUFFICES ASSUME m.alone, call'[c] # None PROVE CarriesCurrent(call[c])'
    BY <1>2
  <2>2. PICK r : r = call'[c]
    OBVIOUS
  <2>3. /\ r.id = i /\ r.content = m.content
        /\ r.pc = "find" \/ (r.pc = "erase" /\ i \in excused')
    <3>1. CASE After(c) /\ i \in excused'
      BY <1>1, <1>2, <1>3, <2>1, <2>2, <3>1, GoesAfter DEF At
    <3>2. CASE Done(c)
      BY <2>1, <3>2 DEF Done, Basic, DTypes
    <3>3. CASE GoTo(c, "find")
      BY <1>1, <1>2, <1>3, <2>2, <3>3, GoesOn DEF At
    <3> QED
      BY <1>5, <3>1, <3>2, <3>3
  <2>4. Exists(i)' /\ (m.content # Gone => m.content = src'[i].content)
    BY <1>1, <1>4, <2>1 DEF Exists
  <2>5. CarriesCurrent(r)'
    BY <2>3, <2>4 DEF CarriesCurrent
  <2> QED
    BY <2>2, <2>5 DEF CarriesCurrent
<1>7. call'[c] = None /\ i \notin excused' => Mirrored(i)'
  <2>1. SUFFICES ASSUME call'[c] = None, i \notin excused' PROVE Mirrored(i)'
    OBVIOUS
  <2>2. m.alone
    BY <1>1, <1>2, <1>3, <2>1, NotAlone DEF At
  <2>3. m.content \in Plain
    BY <1>1, <1>5, <2>1, GoesOn DEF At
  <2>4. Exists(i) /\ src[i].content \notin Jdbc
    BY <1>4, <2>2, <2>3 DEF ConstantsAssumption
  <2> QED
    BY <1>1, <2>4 DEF Mirrored, Exists
<1>8. CallStep(c)
  BY DEF CallStep
<1> QED
  BY <1>1, <1>2, <1>3, <1>6, <1>7, <1>8, Quiet, MirrorWork

\* The number that is found is the only one.
LEMMA FindMirror ==
  ASSUME ConstantsAssumption, Basic, MirrorInv, NEW c \in Calls, Find(c) PROVE MirrorInv'
<1>1. At(c, "find") /\ UNCHANGED <<src, mirror, setting, excused>>
  BY DEF Find, rows
<1>2. PICK m \in Requests : m = call[c] /\ CallFits(m) /\ m.pc = "find"
  BY <1>1, IsRequest DEF At
<1>3. PICK i \in Ids : i = m.id /\ i # None
  BY <1>2 DEF CallFits, ConstantsAssumption
<1>4. m.alone => Exists(i) /\ (m.content # Gone => m.content = src[i].content)
  BY <1>1, <1>2, <1>3 DEF MirrorInv, AloneCarriesCurrent, CarriesCurrent, At
<1>5. PICK n \in Nat, e \in Engines \cup {None} : Looked(c, n, e) /\ (e # None => Numbers(e, i) \subseteq {n})
  <2>1. Reached # None => Reached \in Engines
    BY DEF Reached
  <2>2. CASE Looked(c, 0, None)
    BY <2>2
  <2>3. CASE Reached # None /\ \E n \in (IF Numbers(Reached, i) = {} THEN {0} ELSE Numbers(Reached, i)) :
                                 Looked(c, n, Reached)
    <3>1. PICK e \in Engines : e = Reached
      BY <2>1, <2>3
    <3>2. PICK n : n \in (IF Numbers(e, i) = {} THEN {0} ELSE Numbers(e, i)) /\ Looked(c, n, e)
      BY <2>3, <3>1
    <3>3. n \in Nat
      BY <3>2, NumbersTyped
    <3>4. Numbers(e, i) \subseteq {n}
      BY <3>2 DEF MirrorInv, NamesAreUnique
    <3> QED
      BY <3>1, <3>2, <3>3, <3>4
  <2> QED
    BY <1>2, <1>3, <2>2, <2>3 DEF Find
<1>6. PICK r : r = [m EXCEPT !.pc = "write", !.found = n, !.asked = e]
  OBVIOUS
<1>7. /\ r \in Requests /\ r.pc = "write" /\ r.id = i /\ r.content = m.content /\ r.found = n /\ r.asked = e
  BY <1>3, <1>6 DEF Requests
<1>8. call' = [call EXCEPT ![c] = r]
  BY <1>2, <1>5, <1>6 DEF Looked
<1>9. call'[c] = r /\ r # None
  BY <1>7, <1>8 DEF Basic, DTypes, ConstantsAssumption
<1>10. call[c].alone => CarriesCurrent(call[c])'
  <2>1. SUFFICES ASSUME m.alone PROVE CarriesCurrent(call[c])'
    BY <1>2
  <2>2. Exists(i)' /\ (m.content # Gone => m.content = src'[i].content)
    BY <1>1, <1>4, <2>1 DEF Exists
  <2>3. Numbers(r.asked, r.id)' = Numbers(e, i)
    BY <1>1, <1>7 DEF Numbers
  <2>4. CarriesCurrent(r)'
    BY <1>5, <1>7, <2>2, <2>3 DEF CarriesCurrent
  <2> QED
    BY <1>9, <2>4 DEF CarriesCurrent
<1>11. CallStep(c)
  BY DEF CallStep
<1> QED
  BY <1>1, <1>2, <1>3, <1>9, <1>10, <1>11, Quiet, MirrorWork

\* The way to the engine of a source that stays.
LEMMA WayStays ==
  ASSUME NEW i \in Ids, UNCHANGED <<src, setting>>
  PROVE  Effective(src[i].ws).url' = Effective(src[i].ws).url
BY DEF Effective

\* A write that is accepted.
LEMMA WriteMirror ==
  ASSUME ConstantsAssumption, Basic, MirrorInv, NEW c \in Calls, Write(c) PROVE MirrorInv'
<1>1. /\ At(c, "write") /\ ~(Deletes(c) /\ call[c].found = 0) /\ After(c) /\ UNCHANGED <<src, setting>>
      /\ CallStep(c)
  BY WriteCases DEF CallStep
<1>2. PICK m \in Requests : m = call[c] /\ CallFits(m) /\ m.pc = "write" /\ m # None
  BY <1>1, IsRequest DEF At
<1>3. PICK i \in Ids : i = m.id /\ i # None
  BY <1>2 DEF CallFits, ConstantsAssumption
<1>4. PICK n \in Nat : n = m.found
  BY <1>2 DEF Requests
<1>5. m.alone => /\ Exists(i) /\ (m.content # Gone => m.content = src[i].content)
                 /\ m.asked # None => Numbers(m.asked, i) \subseteq {n}
  BY <1>2, <1>3, <1>4 DEF MirrorInv, AloneCarriesCurrent, CarriesCurrent
<1>6. PICK home : home = Effective(src[i].ws).url
  OBVIOUS
<1>7. home = Effective(m.layer).url /\ home = Effective(src[i].ws).url'
  BY <1>1, <1>2, <1>3, <1>6, WayStays DEF CallFits
<1>8. /\ Deletes(c) => call'[c] # None /\ call'[c].pc = "erase" /\ call'[c].id = i
      /\ ~ Deletes(c) => call'[c] = None
  BY <1>1, <1>2, <1>3, GoesAfter DEF At
<1>9. ASSUME i \in excused', UNCHANGED mirror, \A j \in Ids \ {i} : j \in excused => j \in excused'
      PROVE  MirrorInv'
  <2>1. call[c].alone /\ call'[c] # None => CarriesCurrent(call[c])'
    <3>1. SUFFICES ASSUME m.alone, call'[c] # None PROVE CarriesCurrent(call[c])'
      BY <1>2
    <3>2. PICK r : r = call'[c]
      OBVIOUS
    <3>3. r.pc = "erase" /\ r.id = i /\ Exists(i)'
      BY <1>1, <1>5, <1>8, <3>1, <3>2 DEF Exists
    <3>4. CarriesCurrent(r)'
      BY <1>9, <3>3 DEF CarriesCurrent
    <3> QED
      BY <3>2, <3>4 DEF CarriesCurrent
  <2> QED
    BY <1>1, <1>2, <1>3, <1>9, <2>1, Quiet, MirrorWork
<1>10. ASSUME NEW e \in Engines, Accepts(c, e), mirror' = Written(c, e),
              n # 0 => n \in DOMAIN mirror[e] /\ mirror[e][n] # None,
              LET hit == {mirror[e][k].of : k \in {n} \ {0}}
              IN IF m.alone /\ {e, m.asked} = {home} THEN excused' = (excused \cup hit) \ {i}
                 ELSE excused' = excused \cup ({i} \cup hit)
       PROVE  MirrorInv'
  <2>1. /\ \A d \in Engines \ {e} : mirror'[d] = mirror[d] /\ \A j \in Ids : Numbers(d, j)' = Numbers(d, j)
        /\ \A j \in Ids \ {i} : /\ Numbers(e, j)' = Numbers(e, j) \ {n}
                                /\ \A k \in Numbers(e, j) \ {n} : mirror'[e][k] = mirror[e][k]
        /\ Deletes(c) => Numbers(e, i)' = Numbers(e, i) \ {n}
        /\ ~ Deletes(c) => \E k : /\ mirror'[e][k].content = m.content
                                  /\ Numbers(e, i)' = (Numbers(e, i) \ {n}) \cup {k}
    <3>1. i = call[c].id /\ n = call[c].found /\ m.content = call[c].content
      BY <1>2, <1>3, <1>4
    <3>2. call[c].found # 0 => call[c].found \in DOMAIN mirror[e]
      BY <1>10, <3>1
    <3>3. At(c, "write") /\ ~(Deletes(c) /\ call[c].found = 0) /\ mirror' = Written(c, e)
      BY <1>1, <1>10
    <3>4. Renumbered(c, e, i, n)
      BY <3>1, <3>2, <3>3, WrittenNumbers
    <3> QED
      BY <3>1, <3>4 DEF Renumbered
  <2>2. NamesAreUnique'
    <3>1. SUFFICES ASSUME NEW d \in Engines, NEW j \in Ids, NEW x \in Numbers(d, j)', NEW y \in Numbers(d, j)'
                   PROVE  x = y
      BY DEF NamesAreUnique
    <3>2. \A a, b \in Numbers(d, j) : a = b
      BY DEF MirrorInv, NamesAreUnique
    <3>3. CASE d # e \/ j # i \/ Deletes(c)
      <4>1. Numbers(d, j)' \subseteq Numbers(d, j)
        <5>1. CASE d # e
          BY <2>1, <5>1
        <5>2. CASE d = e /\ j # i
          BY <2>1, <5>2
        <5>3. CASE d = e /\ j = i /\ Deletes(c)
          BY <2>1, <5>3
        <5> QED
          BY <3>3, <5>1, <5>2, <5>3
      <4>2. x \in Numbers(d, j) /\ y \in Numbers(d, j)
        BY <3>1, <4>1
      <4> QED
        BY <3>2, <4>2
    <3>4. CASE d = e /\ j = i /\ ~ Deletes(c)
      <4>1. Numbers(e, i) \subseteq {n}
        BY <1>2, <1>3, <1>4, <1>10, <3>4 DEF Accepts
      <4>2. PICK k : Numbers(e, i)' = (Numbers(e, i) \ {n}) \cup {k}
        BY <2>1, <3>4
      <4> QED
        BY <3>1, <3>4, <4>1, <4>2
    <3> QED
      BY <3>3, <3>4
  <2>3. /\ \A j \in Ids \ {i} : j \in excused => j \in excused'
        /\ \A j \in Ids \ {i} : j \notin excused' /\ n # 0 => mirror[e][n].of # j
        /\ i \notin excused' => m.alone /\ e = home /\ m.asked = home
    <3>1. PICK hit : hit = {mirror[e][k].of : k \in {n} \ {0}}
      OBVIOUS
    <3>2. n # 0 => mirror[e][n].of \in hit
      BY <3>1
    <3>3. \/ m.alone /\ {e, m.asked} = {home} /\ excused' = (excused \cup hit) \ {i}
          \/ excused' = excused \cup ({i} \cup hit)
      BY <1>10, <3>1
    <3> QED
      BY <3>2, <3>3
  <2>4. ASSUME NEW j \in Ids \ {i} PROVE Undisturbed(j)
    <3>1. src'[j] = src[j] /\ (j \in excused => j \in excused')
      BY <1>1, <2>3
    <3>2. \A d \in Engines : Numbers(d, j)' \subseteq Numbers(d, j)
      BY <2>1
    <3>3. ASSUME j \notin excused' PROVE n \notin Numbers(e, j)
      BY <2>3, <3>3, NumbersTyped DEF Numbers
    <3>4. j \notin excused' =>
            \A d \in Engines : /\ Numbers(d, j)' = Numbers(d, j)
                               /\ \A k \in Numbers(d, j) : mirror'[d][k] = mirror[d][k]
      <4>1. SUFFICES ASSUME j \notin excused', NEW d \in Engines
                     PROVE  /\ Numbers(d, j)' = Numbers(d, j)
                            /\ \A k \in Numbers(d, j) : mirror'[d][k] = mirror[d][k]
        OBVIOUS
      <4>2. CASE d # e
        BY <2>1, <4>2
      <4>3. CASE d = e
        <5>1. Numbers(e, j) \ {n} = Numbers(e, j)
          BY <3>3, <4>1
        <5> QED
          BY <2>1, <4>3, <5>1
      <4> QED
        BY <4>2, <4>3
    <3>5. Effective(src[j].ws).url' = Effective(src[j].ws).url
      BY <1>1, WayStays
    <3> QED
      BY <3>1, <3>2, <3>4, <3>5 DEF Undisturbed
  <2>5. call[c].alone /\ call'[c] # None => CarriesCurrent(call[c])'
    <3>1. SUFFICES ASSUME m.alone, call'[c] # None PROVE CarriesCurrent(call[c])'
      BY <1>2
    <3>2. PICK r : r = call'[c]
      OBVIOUS
    <3>3. r.pc = "erase" /\ r.id = i /\ Exists(i)' /\ Deletes(c)
      BY <1>1, <1>5, <1>8, <3>1, <3>2 DEF Exists
    <3>4. ASSUME i \notin excused' PROVE home \in Engines /\ Numbers(home, i)' = {}
      <4>1. e = home /\ m.asked = e /\ e # None
        BY <2>3, <3>4 DEF ConstantsAssumption
      <4>2. Numbers(e, i) \subseteq {n}
        BY <1>5, <3>1, <4>1
      <4>3. Numbers(e, i)' = {}
        BY <2>1, <3>3, <4>2
      <4> QED
        BY <4>1, <4>3
    <3>5. Effective(src[r.id].ws).url' = home
      BY <1>7, <3>3
    <3>6. Numbers(Effective(src[r.id].ws).url, r.id)' = Numbers(home, i)'
      BY <3>3, <3>5 DEF Numbers
    <3>7. CarriesCurrent(r)'
      BY <3>3, <3>4, <3>5, <3>6 DEF CarriesCurrent
    <3> QED
      BY <3>2, <3>7 DEF CarriesCurrent
  <2>6. call'[c] = None /\ i \notin excused' => Mirrored(i)'
    <3>1. SUFFICES ASSUME call'[c] = None, i \notin excused' PROVE Mirrored(i)'
      OBVIOUS
    <3>2. m.alone /\ e = home /\ ~ Deletes(c)
      BY <1>8, <2>3, <3>1
    <3>3. Exists(i) /\ m.content = src[i].content
      BY <1>2, <1>5, <3>2 DEF Deletes
    <3>4. PICK k : mirror'[e][k].content = m.content /\ k \in Numbers(e, i)'
      BY <2>1, <3>2
    <3>5. Effective(src[i].ws).url' = e
      BY <1>7, <3>2
    <3>6. Numbers(Effective(src[i].ws).url, i)' = Numbers(e, i)'
      BY <3>5 DEF Numbers
    <3>7. Exists(i)' /\ src'[i] = src[i]
      BY <1>1, <3>3 DEF Exists
    <3> QED
      BY <3>3, <3>4, <3>5, <3>6, <3>7 DEF Mirrored
  <2> QED
    BY <1>1, <1>2, <1>3, <2>2, <2>4, <2>5, <2>6, MirrorWork
<1>11. CASE excused' = excused \cup {call[c].id} /\ UNCHANGED <<mirror, strayed>>
  BY <1>2, <1>3, <1>9, <1>11
<1>12. CASE ~ (excused' = excused \cup {call[c].id} /\ UNCHANGED <<mirror, strayed>>)
  <2>1. PICK e \in Engines :
          /\ Accepts(c, e) /\ mirror' = Written(c, e)
          /\ call[c].found # 0 => call[c].found \in DOMAIN mirror[e] /\ mirror[e][call[c].found] # None
          /\ LET hit == {mirror[e][k].of : k \in {call[c].found} \ {0}}
             IN IF call[c].alone /\ {e, call[c].asked} = {Effective(call[c].layer).url}
                THEN excused' = (excused \cup hit) \ {call[c].id}
                ELSE excused' = excused \cup ({call[c].id} \cup hit)
    BY <1>12, WriteCases, ZenonT(60)
  <2> QED
    BY <1>2, <1>3, <1>4, <1>7, <1>10, <2>1
<1> QED
  BY <1>11, <1>12

\* Where nothing was found nothing is.
LEMMA NothingMirror ==
  ASSUME ConstantsAssumption, Basic, MirrorInv, NEW c \in Calls, NothingToRemove(c) PROVE MirrorInv'
<1>1. At(c, "write") /\ Deletes(c) /\ call[c].found = 0 /\ GoTo(c, "erase") /\ UNCHANGED <<src, mirror, setting>>
  BY DEF NothingToRemove, rows
<1>2. PICK m \in Requests : m = call[c] /\ CallFits(m) /\ m.pc = "write"
  BY <1>1, IsRequest DEF At
<1>3. PICK i \in Ids : i = m.id /\ i # None
  BY <1>2 DEF CallFits, ConstantsAssumption
<1>4. PICK home : home = Effective(src[i].ws).url
  OBVIOUS
<1>5. home = Effective(m.layer).url /\ home = Effective(src[i].ws).url' /\ home # None
  BY <1>1, <1>2, <1>3, <1>4, WayStays, UrlGiven DEF CallFits
<1>6. IF m.alone /\ m.asked = home THEN excused' = excused \ {i} ELSE excused' = excused \cup {i}
  BY <1>2, <1>3, <1>5 DEF NothingToRemove, Excuse
<1>7. PICK r : r = call'[c] /\ r # None /\ r.pc = "erase" /\ r.id = i
  BY <1>1, <1>2, <1>3, GoesOn DEF At
<1>8. call[c].alone => CarriesCurrent(call[c])'
  <2>1. SUFFICES ASSUME m.alone PROVE CarriesCurrent(call[c])'
    BY <1>2
  <2>2. CarriesCurrent(m)
    BY <1>1, <1>2, <2>1 DEF MirrorInv, AloneCarriesCurrent, At
  <2>3. Exists(i)'
    BY <1>1, <1>2, <1>3, <2>2 DEF CarriesCurrent, Exists
  <2>4. ASSUME i \notin excused' PROVE home \in Engines /\ Numbers(home, i)' = {}
    <3>1. m.asked = home
      BY <1>6, <2>4
    <3>2. home \in Engines
      BY <1>2, <1>5, <3>1 DEF Requests
    <3>3. Numbers(home, i) \subseteq {0}
      BY <1>1, <1>2, <1>3, <1>5, <2>2, <3>1 DEF CarriesCurrent
    <3>4. Numbers(home, i) = {}
      BY <3>2, <3>3, NumbersTyped
    <3>5. Numbers(home, i)' = Numbers(home, i)
      BY <1>1 DEF Numbers
    <3> QED
      BY <3>2, <3>4, <3>5
  <2>5. Effective(src[r.id].ws).url' = home
    BY <1>5, <1>7
  <2>6. Numbers(Effective(src[r.id].ws).url, r.id)' = Numbers(home, i)'
    BY <1>7, <2>5 DEF Numbers
  <2>7. CarriesCurrent(r)'
    BY <1>7, <2>3, <2>4, <2>5, <2>6 DEF CarriesCurrent
  <2> QED
    BY <1>7, <2>7 DEF CarriesCurrent
<1>9. CallStep(c) /\ \A j \in Ids \ {i} : j \in excused => j \in excused'
  BY <1>6 DEF CallStep
<1> QED
  BY <1>1, <1>2, <1>3, <1>7, <1>8, <1>9, Quiet, MirrorWork

\* A row that goes leaves no item behind.
LEMMA EraseMirror ==
  ASSUME ConstantsAssumption, Basic, MirrorInv, NEW c \in Calls, Erase(c) PROVE MirrorInv'
<1>1. At(c, "erase") /\ Done(c) /\ UNCHANGED <<mirror, setting>> /\ CallStep(c)
  BY DEF Erase, CallStep
<1>2. PICK m \in Requests : m = call[c] /\ CallFits(m) /\ m.pc = "erase"
  BY <1>1, IsRequest DEF At
<1>3. PICK i \in Ids : i = m.id /\ i # None
  BY <1>2 DEF CallFits, ConstantsAssumption
<1>4. call'[c] = None
  BY <1>1 DEF Done, Basic, DTypes
<1>5. /\ \A j \in Ids \ {i} : src'[j] = src[j]
      /\ \A j \in Ids : src[j] # None => src'[j].ws = src[j].ws
      /\ i \in excused' \/ (src'[i].content = Gone /\ excused' = excused)
      /\ excused' = excused \/ excused' = excused \cup {i}
  BY <1>2, <1>3, Erases
<1>6. NamesAreUnique'
  BY <1>1 DEF MirrorInv, NamesAreUnique, Numbers
<1>7. \A j \in Ids \ {i} : Undisturbed(j)
  BY <1>1, <1>5, Undisturbing
<1>8. src[i] # None
  BY <1>2, <1>3 DEF CallFits
<1>9. i \notin excused' => Mirrored(i)'
  <2>1. SUFFICES ASSUME i \notin excused' PROVE Mirrored(i)'
    OBVIOUS
  <2>2. i \notin excused /\ src'[i].content = Gone /\ src'[i].ws = src[i].ws
    BY <1>5, <1>8, <2>1
  <2>3. m.alone
    BY <1>1, <1>2, <1>3, <2>2, NotAlone DEF At
  <2>4. PICK e : e = Effective(src[i].ws).url
    OBVIOUS
  <2>5. e \in Engines /\ Numbers(e, i) = {}
    BY <1>1, <1>2, <1>3, <2>2, <2>3, <2>4 DEF MirrorInv, AloneCarriesCurrent, CarriesCurrent, At
  <2>6. Effective(src[i].ws).url' = e
    BY <1>1, <2>2, <2>4 DEF Effective
  <2>7. Numbers(Effective(src[i].ws).url, i)' = Numbers(e, i)
    BY <1>1, <2>6 DEF Numbers
  <2>8. src'[i].content \notin Jdbc
    BY <2>2 DEF ConstantsAssumption
  <2> QED
    BY <2>5, <2>6, <2>7, <2>8 DEF Mirrored
<1>10. \A j \in Ids : src[j] = None => src'[j] = None
  BY <1>5, <1>8
<1> QED
  BY <1>1, <1>2, <1>3, <1>4, <1>6, <1>7, <1>9, <1>10, MirrorWork

\* A request that ends otherwise.
LEMMA EndMirror ==
  ASSUME ConstantsAssumption, Basic, MirrorInv, NEW c \in Calls, Refresh(c) \/ SaveProfile(c) \/ Die(c)
  PROVE  MirrorInv'
<1>1. call[c] # None /\ Done(c) /\ UNCHANGED <<src, mirror, setting>> /\ CallStep(c)
  BY DEF Refresh, SaveProfile, Die, CallStep, At, rows
<1>2. PICK m \in Requests : m = call[c] /\ CallFits(m)
  BY <1>1, IsRequest
<1>3. PICK i : i = m.id
  OBVIOUS
<1>4. call'[c] = None
  BY <1>1 DEF Done, Basic, DTypes
<1>5. /\ \A j \in Ids \ {i} : j \in excused => j \in excused'
      /\ i \in Ids => i \in excused'
  <2>1. CASE Refresh(c)
    <3>1. i = None /\ None \notin Ids /\ excused' = excused
      BY <1>2, <1>3, <2>1 DEF Refresh, At, CallFits, ConstantsAssumption
    <3> QED
      BY <3>1
  <2>2. CASE SaveProfile(c)
    <3>1. i \notin Ids /\ (excused' = excused \/ excused' = excused \ {i} \/ excused' = excused \cup {i})
      BY <1>2, <1>3, <2>2, Saves
    <3> QED
      BY <3>1
  <2>3. CASE Die(c)
    BY <1>2, <1>3, <2>3 DEF Die, Excuse
  <2> QED
    BY <2>1, <2>2, <2>3, <1>1, <1>2 DEF Refresh, SaveProfile, Die
<1> QED
  BY <1>1, <1>2, <1>3, <1>4, <1>5, Quiet, MirrorWork

\* Every step keeps what Dolphin is known to have.
LEMMA NextMirror ==
  ASSUME ConstantsAssumption, Basic, MirrorInv, [Next]_vars PROVE MirrorInv'
<1>1. ASSUME NEW c \in Calls, Request(c) PROVE MirrorInv'
  BY <1>1, RequestMirror
<1>2. ASSUME NEW c \in Calls,
             \/ Refresh(c) \/ Reread(c) \/ Load(c) \/ Point(c) \/ Find(c) \/ Write(c) \/ NothingToRemove(c)
             \/ Erase(c) \/ SaveProfile(c) \/ Die(c)
      PROVE  MirrorInv'
  BY <1>2, RereadMirror, LoadMirror, PointMirror, FindMirror, WriteMirror, NothingMirror, EraseMirror, EndMirror
<1>3. ASSUME UNCHANGED <<src, mirror, setting, call>>, \A j \in Ids : j \in excused => j \in excused'
      PROVE  MirrorInv'
  BY <1>3, MirrorStays
<1>4. ASSUME NEW p \in Profiles, NEW w \in Workspaces, CreateProfile(p, w) PROVE MirrorInv'
  <2>1. UNCHANGED <<src, mirror, setting, call>> /\ \A j \in Ids : j \in excused => j \in excused'
    BY <1>4, Connects
  <2> QED
    BY <1>3, <2>1
<1>5. CASE \/ \E w \in Workspaces, i \in Ids \cup {None} : PutDefaults(w, i)
           \/ \E p \in Profiles : DeleteProfile(p)
           \/ \E j \in Jobs, p \in Profiles \cup {None} : Bind(j, p)
           \/ TestPlatform \/ Elsewhere \/ \E w \in Workspaces : TestWorkspace(w)
           \/ UNCHANGED vars
  <2>1. UNCHANGED <<src, mirror, setting, call, excused>>
    BY <1>5 DEF PutDefaults, DeleteProfile, Bind, TestPlatform, Elsewhere, TestWorkspace, vars, rows
  <2> QED
    BY <1>3, <2>1
<1> QED
  BY <1>1, <1>2, <1>4, <1>5 DEF Next

\* At first every engine has the source of its workspace, as it was created.
LEMMA InitMirror ==
  ASSUME ConstantsAssumption, Init PROVE MirrorInv
<1>1. PICK v \in Jdbc :
       /\ src = [i \in Ids |-> IF i \in DOMAIN Place THEN [ws |-> Place[i], content |-> v] ELSE None]
       /\ mirror = [e \in Engines |->
            LET here == {i \in DOMAIN Home : Home[i] = e}
            IN IF here = {} THEN << >> ELSE <<[of |-> CHOOSE i \in here : TRUE, content |-> v]>>]
  BY DEF Init
<1>2. /\ DOMAIN Place = DOMAIN Home /\ DOMAIN Home \subseteq Ids
      /\ \A i \in DOMAIN Home : Place[i] \in Workspaces /\ Home[i] \in Engines
      /\ \A i, j \in DOMAIN Home : Place[i] = Place[j] \/ Home[i] = Home[j] => i = j
  BY DEF ConstantsAssumption
<1>3. ASSUME NEW e \in Engines, NEW n \in DOMAIN mirror[e]
      PROVE  n = 1 /\ \E i \in DOMAIN Home : Home[i] = e /\ mirror[e] = <<[of |-> i, content |-> v]>>
  <2>1. PICK here : here = {i \in DOMAIN Home : Home[i] = e}
    OBVIOUS
  <2>2. mirror[e] = IF here = {} THEN << >> ELSE <<[of |-> CHOOSE i \in here : TRUE, content |-> v]>>
    BY <1>1, <2>1
  <2>3. here # {}
    BY <1>3, <2>2
  <2>4. (CHOOSE i \in here : TRUE) \in here
    BY <2>3
  <2>5. PICK i : i = CHOOSE x \in here : TRUE
    OBVIOUS
  <2>6. i \in DOMAIN Home /\ Home[i] = e /\ mirror[e] = <<[of |-> i, content |-> v]>>
    BY <2>1, <2>2, <2>3, <2>4, <2>5
  <2>7. n = 1
    BY <1>3, <2>6
  <2> QED
    BY <2>6, <2>7
<1>4. NamesAreUnique
  BY <1>3 DEF NamesAreUnique, Numbers
<1>5. AloneCarriesCurrent
  BY DEF Init, AloneCarriesCurrent
<1>6. ASSUME NEW i \in Ids, src[i] # None PROVE Mirrored(i)
  <2>1. i \in DOMAIN Home /\ src[i] = [ws |-> Place[i], content |-> v]
    BY <1>1, <1>2, <1>6
  <2>2. src[i].ws = Place[i] /\ src[i].content = v /\ v # Gone
    BY <2>1 DEF ConstantsAssumption
  <2>3. Exists(i)
    BY <1>6, <2>2 DEF Exists
  <2>4. PICK w \in Workspaces : w = Place[i]
    BY <1>2, <2>1
  <2>5. PICK e \in Engines : e = Home[i]
    BY <1>2, <2>1
  <2>6. Effective(w).url = e
    <3>1. PICK at : at = {x \in DOMAIN Place : Place[x] = w}
      OBVIOUS
    <3>2. at = {i}
      BY <1>2, <2>1, <2>4, <3>1
    <3>3. PICK x : x = CHOOSE y \in at : TRUE
      OBVIOUS
    <3>4. x = i
      BY <3>2, <3>3
    <3>5. w \in Layers /\ w # Global
      BY DEF Layers, ConstantsAssumption
    <3>6. setting[w] = IF at = {} THEN Empty
                       ELSE [Empty EXCEPT !.enabled = TRUE, !.url = Home[x], !.token = Home[x]]
      BY <3>1, <3>3, <3>5 DEF Init
    <3>7. setting[w] = [Empty EXCEPT !.enabled = TRUE, !.url = e, !.token = e]
      BY <2>5, <3>2, <3>4, <3>6
    <3>8. "url" \in Columns /\ "token" \in Columns /\ "enabled" \in Columns
      BY DEF Columns, Dolphin
    <3>9. setting[w].url = e
      BY <3>7, <3>8 DEF Empty
    <3>10. e # None /\ e # Blank
      BY DEF ConstantsAssumption
    <3>11. ASSUME NEW b PROVE Merged(b, setting[w]).url = e
      BY <3>8, <3>9, <3>10 DEF Merged
    <3> QED
      BY <3>5, <3>11 DEF Effective
  <2>7. PICK here : here = {x \in DOMAIN Home : Home[x] = e}
    OBVIOUS
  <2>8. here = {i}
    BY <1>2, <2>1, <2>5, <2>7
  <2>9. mirror[e] = <<[of |-> i, content |-> v]>>
    <3>1. PICK x : x = CHOOSE y \in here : TRUE
      OBVIOUS
    <3>2. x = i
      BY <2>8, <3>1
    <3>3. mirror[e] = IF here = {} THEN << >> ELSE <<[of |-> x, content |-> v]>>
      BY <1>1, <2>7, <3>1
    <3> QED
      BY <2>8, <3>2, <3>3
  <2>10. PICK y \in Items : y = [of |-> i, content |-> v]
    BY DEF Items
  <2>11. y # None /\ y.of = i /\ y.content = v
    BY <2>10 DEF ConstantsAssumption
  <2>12. 1 \in DOMAIN mirror[e] /\ mirror[e][1] = y
    BY <2>9, <2>10
  <2>13. 1 \in Numbers(e, i) /\ mirror[e][1].content = src[i].content
    BY <2>2, <2>11, <2>12 DEF Numbers
  <2> QED
    BY <2>2, <2>3, <2>4, <2>6, <2>13 DEF Mirrored
<1> QED
  BY <1>4, <1>5, <1>6 DEF MirrorInv, CurrentInv

\* What is known of Dolphin is what the pages say of it.
LEMMA MirrorKnown == ASSUME MirrorInv PROVE MirrorIsCurrent
BY DEF MirrorInv, CurrentInv, Mirrored, MirrorIsCurrent

\* For every configuration: between requests on it, a source without an excuse
\* is in Dolphin as it was last committed, and one that was deleted is not there
\* (push_gido_datasource_to_dolphin, try_delete_gido_datasource_mirror).
THEOREM MirrorStaysCurrent == Spec => []MirrorIsCurrent
<1>1. Init => Basic /\ MirrorInv
  BY ConstantsAssumption, InitBasic, InitMirror
<1>2. Basic /\ MirrorInv /\ [Next]_vars => (Basic /\ MirrorInv)'
  BY ConstantsAssumption, NextBasic, NextMirror
<1> QED
  BY <1>1, <1>2, MirrorKnown, PTL DEF Spec
-----------------------------------------------------------------------------
(* Data APIs *)

\* What a caller may give.
Arguments == Args \cup {NoValue}

\* What a grant may say.
Quotas == Limits \cup {NoValue}

\* An invocation with what it has loaded so far.
IsCall(l) ==
  \/ l = Idle
  \/ l \in [pc : {"auth"}, app : Apps, api : Apis, arg : Arguments, limit : Quotas, age : 0 .. Patience]
  \/ l \in [pc : {"body", "found", "admitted"}, app : Apps, api : Apis, arg : Arguments,
            limit : Quotas, age : 0 .. Patience, row : Rows]
  \/ /\ l = [pc |-> l.pc, app |-> l.app, api |-> l.api, arg |-> l.arg, limit |-> l.limit,
             age |-> l.age, row |-> l.row, val |-> l.val]
     /\ l.pc = "fetched" /\ l.app \in Apps /\ l.api \in Apis /\ l.arg \in Arguments
     /\ l.limit \in Quotas /\ l.age \in 0 .. Patience /\ l.row \in Rows

\* Every variable that is reasoned about keeps its type.
ApiTypes ==
  /\ api \in [Apis -> {NoRow, DeletedApi} \cup Rows]
  /\ grant \in [Pairs -> Quotas]
  /\ data \in [Sources -> Nat]
  /\ DOMAIN cache = Keys
  /\ \A k \in Keys : cache[k] # NoValue => cache[k] = [val |-> cache[k].val, left |-> cache[k].left]
                                        /\ cache[k].left \in 0 .. Longest
  /\ DOMAIN invocation = Invocations /\ \A c \in Invocations : IsCall(invocation[c])
  /\ quiet \in [Apis -> 0 .. Far]

\* What an invocation has loaded is still so, if nothing has changed since it began.
Knows(l) ==
  /\ l.pc # "idle" /\ quiet[l.api] > l.age => grant[<<l.app, l.api>>] = l.limit
  /\ l.pc \notin {"idle", "auth"} /\ quiet[l.api] > l.age => api[l.api] = l.row
  /\ l.pc \in {"admitted", "fetched"} => Allowed(l)
  /\ l.pc = "fetched" /\ quiet[l.api] > l.age => l.val = Result(l.row.cfg, Bound(l.row.cfg, l.arg))

\* A result in the cache is that of a fresh query, if nothing has changed since
\* the oldest call that may have put it there began.
Holds(k) ==
  cache[k] # NoValue /\ quiet[k[1]] + cache[k].left > Longest + Patience =>
    ApiExists(k[1]) /\ cache[k].val = Result(api[k[1]].cfg, k[3])

\* The invariant.
ApiInv ==
  /\ ApiTypes
  /\ \A c \in Invocations : Knows(invocation[c])
  /\ \A k \in Keys : Holds(k)
  /\ AnswersCatchUp /\ WithdrawnIsSilent

\* An API that exists is a row.
LEMMA ExistingIsRow ==
  ASSUME ApiTypes, NEW a \in Apis PROVE ApiExists(a) <=> api[a] \in Rows
BY DEF ApiTypes, ApiExists, NoRow, DeletedApi, Rows, Statuses

\* What an invocation holds, by where it is.
LEMMA CallShapes ==
  ASSUME ApiTypes, NEW c \in Invocations, invocation[c].pc # "idle"
  PROVE  LET l == invocation[c] IN
         /\ l.app \in Apps /\ l.api \in Apis /\ l.arg \in Arguments /\ l.limit \in Quotas
         /\ l.age \in 0 .. Patience
         /\ l.pc \in {"auth", "body", "found", "admitted", "fetched"}
         /\ l.pc # "auth" => l.row \in Rows
<1>1. PICK l : l = invocation[c]
  OBVIOUS
<1>2. IsCall(l) /\ l.pc # "idle"
  BY <1>1 DEF ApiTypes
<1>3. /\ l.app \in Apps /\ l.api \in Apis /\ l.arg \in Arguments /\ l.limit \in Quotas
      /\ l.age \in 0 .. Patience
      /\ l.pc \in {"auth", "body", "found", "admitted", "fetched"}
      /\ l.pc # "auth" => l.row \in Rows
  BY <1>2 DEF IsCall, Idle
<1> QED
  BY <1>1, <1>3

\* The key under which the result of an invocation is kept.
LEMMA KeyIsKey ==
  ASSUME NEW l, l.api \in Apis, l.row \in Rows, l.arg \in Arguments
  PROVE  /\ Key(l) \in Keys /\ Key(l)[1] = l.api
         /\ Key(l)[3] = Bound(l.row.cfg, l.arg)
<1>1. l.row.cfg \in Configs
  BY DEF Rows
<1>2. l.row.cfg.sql \in Statements
  BY <1>1 DEF Statements
<1>3. Bound(l.row.cfg, l.arg) \in ArgValues
  BY <1>1 DEF Bound, ArgValues, Arguments
<1> QED
  BY <1>2, <1>3 DEF Key, Keys

\* What a change of the tables leaves of what invocations and the cache know:
\* for every API, either its quiet is over, or it is as it was, and so is what
\* its query would return.
ApiUndisturbed(a) ==
  \/ quiet'[a] = 0
  \/ /\ quiet'[a] = quiet[a] /\ api'[a] = api[a]
     /\ \A p \in Apps : grant'[<<p, a>>] = grant[<<p, a>>]
     /\ ApiExists(a) => \A v : Result(api[a].cfg, v)' = Result(api[a].cfg, v)

\* A change that disturbs no API in another way keeps the invariant.
LEMMA ChangesKeep ==
  ASSUME ApiInv, ApiTypes', UNCHANGED <<cache, invocation>>, told' = NoValue,
         \A a \in Apis : ApiUndisturbed(a)
  PROVE  ApiInv'
<1>1. ASSUME NEW c \in Invocations PROVE Knows(invocation[c])'
  <2>1. CASE invocation[c].pc = "idle"
    BY <2>1 DEF Knows
  <2>2. CASE invocation[c].pc # "idle"
    <3>1. PICK l : l = invocation[c]
      OBVIOUS
    <3>2. /\ l.app \in Apps /\ l.api \in Apis /\ l.age \in 0 .. Patience
          /\ l.pc # "auth" => l.row \in Rows
      BY <2>2, <3>1, CallShapes DEF ApiInv
    <3>3. Knows(l)
      BY <3>1 DEF ApiInv
    <3>4. CASE quiet'[l.api] = 0
      <4>1. ~ (quiet'[l.api] > l.age)
        BY <3>2, <3>4
      <4> QED
        BY <3>1, <3>3, <4>1 DEF Knows, Allowed
    <3>5. CASE quiet'[l.api] # 0
      <4>1. /\ quiet'[l.api] = quiet[l.api] /\ api'[l.api] = api[l.api]
            /\ grant'[<<l.app, l.api>>] = grant[<<l.app, l.api>>]
            /\ ApiExists(l.api) => \A v : Result(api[l.api].cfg, v)' = Result(api[l.api].cfg, v)
        BY <3>2, <3>5 DEF ApiUndisturbed
      <4>2. l.pc # "auth" /\ quiet[l.api] > l.age /\ api[l.api] = l.row => ApiExists(l.api)
        BY <3>2, ExistingIsRow DEF ApiInv
      <4>3. l.pc = "fetched" /\ quiet'[l.api] > l.age =>
              l.val = Result(l.row.cfg, Bound(l.row.cfg, l.arg))'
        <5> SUFFICES ASSUME l.pc = "fetched", quiet'[l.api] > l.age
                     PROVE  l.val = Result(l.row.cfg, Bound(l.row.cfg, l.arg))'
          OBVIOUS
        <5>1. api[l.api] = l.row /\ l.val = Result(l.row.cfg, Bound(l.row.cfg, l.arg))
          BY <3>3, <4>1 DEF Knows
        <5>2. PICK v : v = Bound(l.row.cfg, l.arg)
          OBVIOUS
        <5>3. Result(api[l.api].cfg, v)' = Result(api[l.api].cfg, v)
          BY <4>1, <4>2, <5>1
        <5> QED
          BY <4>1, <5>1, <5>2, <5>3 DEF Result, Bound
      <4> QED
        BY <3>1, <3>3, <4>1, <4>3 DEF Knows, Allowed
    <3> QED
      BY <3>4, <3>5
  <2> QED
    BY <2>1, <2>2
<1>2. ASSUME NEW k \in Keys PROVE Holds(k)'
  <2>1. k[1] \in Apis /\ cache[k] # NoValue => cache[k].left \in 0 .. Longest
    BY DEF ApiInv, ApiTypes, Keys
  <2>2. k[1] \in Apis
    BY DEF Keys
  <2>3. CASE quiet'[k[1]] = 0
    BY <2>1, <2>2, <2>3, ConfigAssumption DEF Holds
  <2>4. CASE quiet'[k[1]] # 0
    <3>1. /\ quiet'[k[1]] = quiet[k[1]] /\ api'[k[1]] = api[k[1]]
          /\ ApiExists(k[1]) => Result(api[k[1]].cfg, k[3])' = Result(api[k[1]].cfg, k[3])
      BY <2>2, <2>4 DEF ApiUndisturbed
    <3> QED
      BY <3>1 DEF ApiInv, Holds, ApiExists, Result
  <2> QED
    BY <2>3, <2>4
<1> QED
  BY <1>1, <1>2 DEF ApiInv, AnswersCatchUp, WithdrawnIsSilent

\* Far is far.
LEMMA FarIsFar ==
  Far \in Nat /\ Far > Longest + Patience /\ 0 \in 0 .. Far
BY ConfigAssumption DEF Far

\* A change of one API and its grants, by its developers.
LEMMA ChangesOne ==
  ASSUME ApiInv, NEW a \in Apis, NEW r \in {NoRow, DeletedApi} \cup Rows,
         api' = [api EXCEPT ![a] = r],
         grant' \in [Pairs -> Quotas], \A x \in Pairs : x[2] # a => grant'[x] = grant[x],
         Change(a), UNCHANGED <<data, cache>>
  PROVE  ApiInv'
<1>1. UNCHANGED <<invocation, cache, data>> /\ quiet' = [quiet EXCEPT ![a] = 0] /\ told' = NoValue
  BY DEF Change
<1>2. ApiTypes'
  BY <1>1, FarIsFar DEF ApiInv, ApiTypes
<1>3. ASSUME NEW b \in Apis PROVE ApiUndisturbed(b)
  <2>1. CASE b = a
    BY <1>1, <2>1 DEF ApiUndisturbed, ApiInv, ApiTypes
  <2>2. CASE b # a
    <3>1. quiet'[b] = quiet[b] /\ api'[b] = api[b] /\ UNCHANGED data
      BY <1>1, <2>2 DEF ApiInv, ApiTypes
    <3>2. \A p \in Apps : grant'[<<p, b>>] = grant[<<p, b>>]
      BY <2>2 DEF Pairs
    <3>3. \A v : Result(api[b].cfg, v)' = Result(api[b].cfg, v)
      BY <3>1 DEF Result
    <3> QED
      BY <3>1, <3>2, <3>3 DEF ApiUndisturbed
  <2> QED
    BY <2>1, <2>2
<1> QED
  BY <1>1, <1>2, <1>3, ChangesKeep

\* A change of nothing that a call depends on.
LEMMA ChangesNone ==
  ASSUME ApiInv, UNCHANGED <<api, grant, data, cache, invocation, quiet>>, told' = NoValue
  PROVE  ApiInv'
<1>1. ApiTypes'
  BY DEF ApiInv, ApiTypes
<1>2. \A b \in Apis : ApiUndisturbed(b)
  BY DEF ApiUndisturbed, Result
<1> QED
  BY <1>1, <1>2, ChangesKeep

\* The developers' endpoints.
LEMMA ManageKeeps ==
  ASSUME ApiInv, NEW a \in Apis, Manage(a) PROVE ApiInv'
<1>0. grant \in [Pairs -> Quotas]
  BY DEF ApiInv, ApiTypes
<1>1. CASE CreateApi(a)
  <2>1. PICK r \in Rows : api' = [api EXCEPT ![a] = r]
    BY <1>1 DEF CreateApi
  <2> QED
    BY <1>0, <1>1, <2>1, ChangesOne DEF CreateApi
<1>2. CASE UpdateApi(a)
  <2>1. PICK cfg \in Configs, params \in BOOLEAN : api' = [api EXCEPT ![a] = Edited(a, cfg, params)]
    BY <1>2 DEF UpdateApi
  <2>2. PICK row \in Rows : row = api[a]
    BY <1>2, ExistingIsRow DEF UpdateApi, ApiInv
  <2>3. PICK r : r = Edited(a, cfg, params)
    OBVIOUS
  <2>4. r \in Rows
    BY <2>2, <2>3 DEF Edited, Rows
  <2> QED
    BY <1>0, <1>2, <2>1, <2>3, <2>4, ChangesOne DEF UpdateApi
<1>3. ASSUME NEW st \in Statuses, ApiExists(a), api' = [api EXCEPT ![a].status = st], Change(a),
             UNCHANGED <<grant, app, logged, data, cache>>
      PROVE  ApiInv'
  <2>1. PICK row \in Rows : row = api[a]
    BY <1>3, ExistingIsRow DEF ApiInv
  <2>2. PICK r : r = [row EXCEPT !.status = st]
    OBVIOUS
  <2>3. r \in Rows
    BY <2>2 DEF Rows
  <2>4. api' = [api EXCEPT ![a] = r]
    BY <1>3, <2>1, <2>2
  <2> QED
    BY <1>0, <1>3, <2>3, <2>4, ChangesOne
<1>4. CASE Publish(a) \/ Offline(a)
  BY <1>3, <1>4 DEF Publish, Offline, Statuses
<1>5. CASE DeleteApi(a)
  <2>1. grant' \in [Pairs -> Quotas] /\ \A x \in Pairs : x[2] # a => grant'[x] = grant[x]
    BY <1>0, <1>5 DEF DeleteApi, Quotas
  <2> QED
    BY <1>5, <2>1, ChangesOne DEF DeleteApi
<1>6. CASE TestApi(a)
  BY <1>6, ChangesNone DEF TestApi
<1>7. ASSUME NEW p \in Apps, NEW l \in Quotas, grant' = [grant EXCEPT ![<<p, a>>] = l],
             Change(a), UNCHANGED <<api, app, logged, data, cache>>
      PROVE  ApiInv'
  <2>1. <<p, a>> \in Pairs
    BY DEF Pairs
  <2>2. grant' \in [Pairs -> Quotas]
    BY <1>0, <1>7, <2>1
  <2>3. \A x \in Pairs : x[2] # a => grant'[x] = grant[x]
    BY <1>0, <1>7, <2>1
  <2>4. api' = [api EXCEPT ![a] = api[a]] /\ api[a] \in {NoRow, DeletedApi} \cup Rows
    BY <1>7 DEF ApiInv, ApiTypes
  <2> QED
    BY <1>7, <2>2, <2>3, <2>4, ChangesOne
<1>8. ASSUME NEW p \in Apps, Grant(p, a) \/ Revoke(p, a) PROVE ApiInv'
  BY <1>7, <1>8 DEF Grant, Revoke, Quotas
<1> QED
  BY <1>1, <1>2, <1>4, <1>5, <1>6, <1>8 DEF Manage

\* Applications, and the tables that are read.
LEMMA OthersKeep ==
  ASSUME ApiInv,
         \/ \E p \in Apps : CreateApp(p) \/ DeleteApp(p)
         \/ \E s \in Sources : SourceChanges(s)
  PROVE  ApiInv'
<1>1. ASSUME NEW p \in Apps, CreateApp(p) PROVE ApiInv'
  BY <1>1, ChangesNone DEF CreateApp
<1>2. ASSUME NEW p \in Apps, DeleteApp(p) PROVE ApiInv'
  <2>1. ApiTypes'
    BY <1>2, FarIsFar DEF DeleteApp, ApiInv, ApiTypes, Quotas
  <2>2. \A b \in Apis : ApiUndisturbed(b)
    BY <1>2 DEF DeleteApp, ApiUndisturbed
  <2> QED
    BY <1>2, <2>1, <2>2, ChangesKeep DEF DeleteApp
<1>3. ASSUME NEW s \in Sources, SourceChanges(s) PROVE ApiInv'
  <2>1. data' = [data EXCEPT ![s] = @ + 1] /\ UNCHANGED <<api, grant, cache, invocation>> /\ told' = NoValue
        /\ quiet' = [a \in Apis |-> IF ApiExists(a) /\ api[a].cfg.src = s THEN 0 ELSE quiet[a]]
    BY <1>3 DEF SourceChanges
  <2>2. ApiTypes'
    BY <2>1, FarIsFar DEF ApiInv, ApiTypes
  <2>3. ASSUME NEW b \in Apis PROVE ApiUndisturbed(b)
    <3>1. CASE ApiExists(b) /\ api[b].cfg.src = s
      BY <2>1, <3>1 DEF ApiUndisturbed
    <3>2. CASE ~ (ApiExists(b) /\ api[b].cfg.src = s)
      <4>1. quiet'[b] = quiet[b]
        BY <2>1, <3>2
      <4>2. ASSUME ApiExists(b), NEW v PROVE Result(api[b].cfg, v)' = Result(api[b].cfg, v)
        <5>1. api[b].cfg.src \in Sources
          BY <4>2, ExistingIsRow, ConfigAssumption DEF ApiInv, Rows
        <5>2. data'[api[b].cfg.src] = data[api[b].cfg.src]
          BY <2>1, <3>2, <4>2, <5>1 DEF ApiInv, ApiTypes
        <5> QED
          BY <2>1, <5>2 DEF Result
      <4> QED
        BY <2>1, <4>1, <4>2 DEF ApiUndisturbed
    <3> QED
      BY <3>1, <3>2
  <2> QED
    BY <2>1, <2>2, <2>3, ChangesKeep
<1> QED
  BY <1>1, <1>2, <1>3

\* What is known of an invocation stays so while nothing changes.
LEMMA KnowsStays ==
  ASSUME NEW l, Knows(l), UNCHANGED <<api, grant, data, quiet>> PROVE Knows(l)'
BY DEF Knows, Result, Allowed

\* An invocation goes on.
LEMMA ApiGoesOn ==
  ASSUME ApiInv, NEW c \in Invocations, NEW l, Silent(c, l), IsCall(l), Knows(l),
         UNCHANGED <<api, grant, data, quiet, cache>>
  PROVE  ApiInv'
<1>1. invocation' = [invocation EXCEPT ![c] = l] /\ told' = NoValue
  BY DEF Silent, Set
<1>2. /\ DOMAIN invocation' = Invocations /\ invocation'[c] = l /\ \A d \in Invocations \ {c} : invocation'[d] = invocation[d]
  BY <1>1 DEF ApiInv, ApiTypes
<1>3. \A d \in Invocations : IsCall(invocation'[d]) /\ Knows(invocation'[d])
  BY <1>2 DEF ApiInv, ApiTypes
<1>4. ApiTypes'
  BY <1>2, <1>3 DEF ApiInv, ApiTypes, IsCall
<1>5. ASSUME NEW d \in Invocations PROVE Knows(invocation[d])'
  <2>1. PICK m : m = invocation'[d]
    OBVIOUS
  <2>2. Knows(m)'
    BY <1>3, <2>1, KnowsStays
  <2> QED
    BY <2>1, <2>2 DEF Knows
<1>6. \A k \in Keys : Holds(k)'
  BY DEF ApiInv, Holds, ApiExists, Result
<1> QED
  BY <1>1, <1>4, <1>5, <1>6 DEF ApiInv, AnswersCatchUp, WithdrawnIsSilent

\* An invocation that is over knows nothing.
LEMMA IdleKnows == IsCall(Idle) /\ Knows(Idle)
BY DEF IsCall, Knows, Idle

\* The application and its grants are loaded.
LEMMA AuthKeeps ==
  ASSUME ApiInv, NEW c \in Invocations, Auth(c) PROVE ApiInv'
<1>1. PICK p \in Apps, a \in Apis, v \in Arguments :
        Silent(c, [pc |-> "auth", app |-> p, api |-> a, arg |-> v, limit |-> grant[<<p, a>>], age |-> 0])
  BY DEF Auth, Arguments
<1>2. PICK l : l = [pc |-> "auth", app |-> p, api |-> a, arg |-> v, limit |-> grant[<<p, a>>], age |-> 0]
  OBVIOUS
<1>3. grant[<<p, a>>] \in Quotas
  BY DEF ApiInv, ApiTypes, Pairs
<1>4. IsCall(l)
  BY <1>2, <1>3, ConfigAssumption DEF IsCall
<1>5. Knows(l)
  BY <1>2 DEF Knows
<1> QED
  BY <1>1, <1>2, <1>4, <1>5, ApiGoesOn DEF Auth, Gateway

\* The row of the API is loaded.
LEMMA FindKeeps ==
  ASSUME ApiInv, NEW c \in Invocations, FindApi(c) PROVE ApiInv'
<1>1. PICK l : l = invocation[c]
  OBVIOUS
<1>2. l.pc = "auth" /\ ApiExists(l.api) /\ Knows(l)
  BY <1>1 DEF FindApi, ApiInv
<1>3. l.app \in Apps /\ l.api \in Apis /\ l.arg \in Arguments /\ l.limit \in Quotas /\ l.age \in 0 .. Patience
  BY <1>1, <1>2, CallShapes DEF ApiInv
<1>4. PICK pc \in {"body", "found"} : pc = IF c \in Posts THEN "body" ELSE "found"
  OBVIOUS
<1>5. PICK m : m = [pc |-> pc, app |-> l.app, api |-> l.api, arg |-> l.arg, limit |-> l.limit,
                    age |-> l.age, row |-> api[l.api]]
  OBVIOUS
<1>6. api[l.api] \in Rows
  BY <1>2, <1>3, ExistingIsRow DEF ApiInv
<1>7. IsCall(m)
  BY <1>3, <1>5, <1>6 DEF IsCall
<1>8. Knows(m)
  BY <1>2, <1>5 DEF Knows
<1>9. Silent(c, m) /\ UNCHANGED <<api, grant, data, quiet, cache>>
  BY <1>1, <1>4, <1>5 DEF FindApi, Gateway
<1> QED
  BY <1>7, <1>8, <1>9, ApiGoesOn

\* An invocation that has found its row goes on with it.
LEMMA MovesOn ==
  ASSUME ApiInv, NEW c \in Invocations, NEW pc \in {"found", "admitted"},
         invocation[c].pc \in {"body", "found"}, pc = "admitted" => Allowed(invocation[c]),
         Silent(c, [invocation[c] EXCEPT !.pc = pc]), UNCHANGED <<api, grant, data, quiet, cache>>
  PROVE  ApiInv'
<1>1. PICK l : l = invocation[c]
  OBVIOUS
<1>2. IsCall(l) /\ Knows(l) /\ l.pc \in {"body", "found"}
  BY <1>1 DEF ApiInv, ApiTypes
<1>3. l \in [pc : {"body", "found", "admitted"}, app : Apps, api : Apis, arg : Arguments,
             limit : Quotas, age : 0 .. Patience, row : Rows]
  BY <1>2 DEF IsCall, Idle
<1>4. PICK m : m = [l EXCEPT !.pc = pc]
  OBVIOUS
<1>5. /\ m \in [pc : {"body", "found", "admitted"}, app : Apps, api : Apis, arg : Arguments,
                limit : Quotas, age : 0 .. Patience, row : Rows]
      /\ m.pc = pc /\ m.app = l.app /\ m.api = l.api /\ m.limit = l.limit /\ m.age = l.age /\ m.row = l.row
  BY <1>3, <1>4
<1>6. IsCall(m)
  BY <1>5 DEF IsCall
<1>7. Knows(m)
  BY <1>1, <1>2, <1>5 DEF Knows, Allowed
<1> QED
  BY <1>1, <1>4, <1>6, <1>7, ApiGoesOn

\* The query runs once, on what its source holds then.
LEMMA QueryKeeps ==
  ASSUME ApiInv, NEW c \in Invocations, Query(c) PROVE ApiInv'
<1>1. PICK l : l = invocation[c]
  OBVIOUS
<1>2. l.pc = "admitted" /\ Knows(l)
  BY <1>1 DEF Query, ApiInv
<1>3. l.app \in Apps /\ l.api \in Apis /\ l.arg \in Arguments /\ l.limit \in Quotas /\ l.age \in 0 .. Patience
      /\ l.row \in Rows
  BY <1>1, <1>2, CallShapes DEF ApiInv
<1>4. PICK val : val = Result(l.row.cfg, Bound(l.row.cfg, l.arg))
  OBVIOUS
<1>5. PICK m : m = [pc |-> "fetched", app |-> l.app, api |-> l.api, arg |-> l.arg, limit |-> l.limit,
                    age |-> l.age, row |-> l.row, val |-> val]
  OBVIOUS
<1>6. /\ m.pc = "fetched" /\ m.app = l.app /\ m.api = l.api /\ m.arg = l.arg /\ m.limit = l.limit
      /\ m.age = l.age /\ m.row = l.row /\ m.val = val
      /\ m = [pc |-> m.pc, app |-> m.app, api |-> m.api, arg |-> m.arg, limit |-> m.limit,
              age |-> m.age, row |-> m.row, val |-> m.val]
  BY <1>5
<1>7. IsCall(m)
  BY <1>3, <1>6 DEF IsCall
<1>8. Knows(m)
  BY <1>2, <1>4, <1>6 DEF Knows, Allowed
<1>9. Silent(c, m) /\ UNCHANGED <<api, grant, data, quiet, cache>>
  BY <1>1, <1>4, <1>5 DEF Query, Gateway
<1> QED
  BY <1>7, <1>8, <1>9, ApiGoesOn

\* An answer is what a fresh query would return, and is given to who may have it.
LEMMA AnswerKeeps ==
  ASSUME ApiInv, NEW c \in Invocations, NEW val, Answer(c, val),
         invocation[c].pc \in {"admitted", "fetched"},
         quiet[invocation[c].api] > Longest + Patience =>
           val = Result(invocation[c].row.cfg, Bound(invocation[c].row.cfg, invocation[c].arg)),
         ApiTypes', \A k \in Keys : Holds(k)'
  PROVE  ApiInv'
<1>1. PICK l : l = invocation[c]
  OBVIOUS
<1>2. l.pc \in {"admitted", "fetched"} /\ Knows(l)
  BY <1>1 DEF ApiInv
<1>3. l.api \in Apis /\ l.age \in 0 .. Patience
  BY <1>1, <1>2, CallShapes DEF ApiInv
<1>4. invocation' = [invocation EXCEPT ![c] = Idle] /\ told' = Told(l, val) /\ UNCHANGED <<api, grant, data, quiet>>
  BY <1>1 DEF Answer, Set, Gateway
<1>5. ASSUME NEW d \in Invocations PROVE Knows(invocation[d])'
  <2>1. PICK m : m = invocation'[d]
    OBVIOUS
  <2>2. m = Idle \/ m = invocation[d]
    BY <1>4, <2>1 DEF ApiInv, ApiTypes
  <2>3. Knows(m)'
    BY <1>4, <2>2, IdleKnows, KnowsStays DEF ApiInv
  <2> QED
    BY <2>1, <2>3 DEF Knows
<1>6. told' # NoValue => told'.app = l.app /\ told'.api = l.api /\ told'.arg = l.arg /\ told'.val = val
  BY <1>4 DEF Told
<1>7. quiet[l.api] \in Nat
  BY <1>3 DEF ApiInv, ApiTypes
<1>8. WithdrawnIsSilent'
  BY <1>2, <1>3, <1>4, <1>6, <1>7, ConfigAssumption DEF WithdrawnIsSilent, Knows, Allowed
<1>9. AnswersCatchUp'
  BY <1>1, <1>2, <1>3, <1>4, <1>6, <1>7, ConfigAssumption DEF AnswersCatchUp, Knows, Result, Bound
<1> QED
  BY <1>5, <1>8, <1>9 DEF ApiInv

\* What is found in the cache is fresh enough.
LEMMA HitKeeps ==
  ASSUME ApiInv, NEW c \in Invocations, Hit(c) PROVE ApiInv'
<1>1. PICK l : l = invocation[c]
  OBVIOUS
<1>2. l.pc = "admitted" /\ Knows(l) /\ Cached(l)
  BY <1>1 DEF Hit, ApiInv
<1>3. l.api \in Apis /\ l.age \in 0 .. Patience /\ l.arg \in Arguments /\ l.row \in Rows
  BY <1>1, <1>2, CallShapes DEF ApiInv
<1>4. PICK k \in Keys : k = Key(l) /\ k[1] = l.api /\ k[3] = Bound(l.row.cfg, l.arg)
  BY <1>3, KeyIsKey
<1>5. PICK val : val = cache[k].val
  OBVIOUS
<1>6. Answer(c, val) /\ UNCHANGED cache
  BY <1>1, <1>4, <1>5 DEF Hit
<1>7. /\ cache[k] # NoValue /\ cache[k].left \in 0 .. Longest /\ Holds(k)
      /\ quiet[l.api] \in Nat
  BY <1>2, <1>3, <1>4 DEF Cached, ApiInv, ApiTypes
<1>8. quiet[l.api] > Longest + Patience => val = Result(l.row.cfg, Bound(l.row.cfg, l.arg))
  <2> SUFFICES ASSUME quiet[l.api] > Longest + Patience
               PROVE  val = Result(l.row.cfg, Bound(l.row.cfg, l.arg))
    OBVIOUS
  <2>1. val = Result(api[l.api].cfg, k[3])
    BY <1>4, <1>5, <1>7, ConfigAssumption DEF Holds
  <2>2. api[l.api] = l.row
    BY <1>2, <1>3, <1>7, ConfigAssumption DEF Knows
  <2> QED
    BY <1>4, <2>1, <2>2
<1>9. ApiTypes'
  <2>1. invocation' = [invocation EXCEPT ![c] = Idle] /\ UNCHANGED <<api, grant, data, quiet>>
    BY <1>6 DEF Answer, Set, Gateway
  <2> QED
    BY <1>6, <2>1, IdleKnows DEF ApiInv, ApiTypes, IsCall
<1>10. \A x \in Keys : Holds(x)'
  BY <1>6 DEF ApiInv, Holds, ApiExists, Result, Answer, Gateway
<1> QED
  BY <1>1, <1>2, <1>6, <1>8, <1>9, <1>10, AnswerKeeps

\* What is put into the cache is fresh enough, too.
LEMMA ReplyKeeps ==
  ASSUME ApiInv, NEW c \in Invocations, Reply(c) PROVE ApiInv'
<1>1. PICK l : l = invocation[c]
  OBVIOUS
<1>2. l.pc = "fetched" /\ Knows(l)
  BY <1>1 DEF Reply, ApiInv
<1>3. l.api \in Apis /\ l.age \in 0 .. Patience /\ l.arg \in Arguments /\ l.row \in Rows
  BY <1>1, <1>2, CallShapes DEF ApiInv
<1>4. PICK k \in Keys : k = Key(l) /\ k[1] = l.api /\ k[3] = Bound(l.row.cfg, l.arg)
  BY <1>3, KeyIsKey
<1>5. PICK val : val = l.val
  OBVIOUS
<1>6. /\ Answer(c, val) /\ UNCHANGED <<api, grant, data, quiet>>
      /\ cache' = IF l.row.cfg.ttl > 0 THEN [cache EXCEPT ![k] = CacheSet(l, val)] ELSE cache
  BY <1>1, <1>4, <1>5 DEF Reply, Answer, Gateway
<1>7. quiet[l.api] \in Nat /\ l.row.cfg.ttl \in 0 .. Longest
  BY <1>3, ConfigAssumption DEF ApiInv, ApiTypes, Rows
<1>8. quiet[l.api] > l.age => val = Result(l.row.cfg, Bound(l.row.cfg, l.arg)) /\ api[l.api] = l.row
  BY <1>2, <1>5 DEF Knows
<1>9. PICK e : e = CacheSet(l, val)
  OBVIOUS
<1>10. e.val = val /\ e.left = l.row.cfg.ttl /\ e = [val |-> e.val, left |-> e.left]
  BY <1>9 DEF CacheSet
<1>11. \A x \in Keys : cache'[x] = cache[x] \/ (x = k /\ cache'[x] = e)
  BY <1>6, <1>9 DEF ApiInv, ApiTypes
<1>12. ApiTypes'
  <2>1. invocation' = [invocation EXCEPT ![c] = Idle] /\ DOMAIN cache' = Keys
    BY <1>6 DEF Answer, Set, ApiInv, ApiTypes
  <2>2. \A x \in Keys : cache'[x] # NoValue => /\ cache'[x] = [val |-> cache'[x].val, left |-> cache'[x].left]
                                            /\ cache'[x].left \in 0 .. Longest
    BY <1>7, <1>10, <1>11 DEF ApiInv, ApiTypes
  <2> QED
    BY <1>6, <2>1, <2>2, IdleKnows DEF ApiInv, ApiTypes, IsCall
<1>13. ASSUME NEW x \in Keys PROVE Holds(x)'
  <2>1. CASE cache'[x] = cache[x]
    BY <1>6, <2>1 DEF ApiInv, Holds, ApiExists, Result
  <2>2. CASE x = k /\ cache'[x] = e
    <3> SUFFICES ASSUME quiet[l.api] + l.row.cfg.ttl > Longest + Patience
                 PROVE  ApiExists(l.api) /\ e.val = Result(api[l.api].cfg, k[3])
      BY <1>4, <1>6, <1>10, <2>2 DEF Holds, ApiExists, Result
    <3>1. quiet[l.api] > l.age
      BY <1>3, <1>7, ConfigAssumption
    <3>2. ApiExists(l.api)
      BY <1>3, <1>8, <3>1, ExistingIsRow DEF ApiInv
    <3> QED
      BY <1>4, <1>8, <1>10, <3>1, <3>2
  <2> QED
    BY <1>11, <2>1, <2>2
<1>14. quiet[l.api] > Longest + Patience => val = Result(l.row.cfg, Bound(l.row.cfg, l.arg))
  BY <1>3, <1>7, <1>8, ConfigAssumption
<1> QED
  BY <1>1, <1>2, <1>6, <1>12, <1>13, <1>14, AnswerKeeps

\* Every step of an invocation.
LEMMA StepKeeps ==
  ASSUME ApiInv, NEW c \in Invocations, Step(c) PROVE ApiInv'
<1>1. CASE Body(c)
  <2>1. PICK pc \in {"found"} : Silent(c, [invocation[c] EXCEPT !.pc = pc])
    BY <1>1 DEF Body
  <2> QED
    BY <1>1, <2>1, MovesOn DEF Body, Gateway
<1>2. CASE Admit(c)
  <2>1. PICK pc \in {"admitted"} : Silent(c, [invocation[c] EXCEPT !.pc = pc])
    BY <1>2 DEF Admit
  <2> QED
    BY <1>2, <2>1, MovesOn DEF Admit, Gateway
<1>3. CASE Refuse(c)
  <2>1. Silent(c, Idle) /\ UNCHANGED <<api, grant, data, quiet, cache>>
    BY <1>3 DEF Refuse, Gateway
  <2> QED
    BY <2>1, IdleKnows, ApiGoesOn
<1> QED
  BY <1>1, <1>2, <1>3, AuthKeeps, FindKeeps, HitKeeps, QueryKeeps, ReplyKeeps DEF Step

\* An invocation that is at work, one unit of time later.
LEMMA OlderCall ==
  ASSUME NEW l, IsCall(l), l.pc # "idle", l.age < Patience
  PROVE  LET m == [l EXCEPT !.age = @ + 1] IN
         /\ IsCall(m) /\ m.age = l.age + 1 /\ m.pc = l.pc /\ m.app = l.app /\ m.api = l.api /\ m.arg = l.arg
         /\ m.limit = l.limit
         /\ l.pc # "auth" => m.row = l.row
         /\ l.pc = "fetched" => m.val = l.val
<1>1. PICK m : m = [l EXCEPT !.age = l.age + 1]
  OBVIOUS
<1>2. l.age \in 0 .. Patience
  BY DEF IsCall, Idle
<1>3. l.age + 1 \in 0 .. Patience
  BY <1>2, ConfigAssumption
<1>4. CASE l \in [pc : {"auth"}, app : Apps, api : Apis, arg : Arguments, limit : Quotas, age : 0 .. Patience]
  <2>1. /\ m \in [pc : {"auth"}, app : Apps, api : Apis, arg : Arguments, limit : Quotas, age : 0 .. Patience]
        /\ m.age = l.age + 1 /\ m.pc = l.pc /\ m.app = l.app /\ m.api = l.api /\ m.arg = l.arg
        /\ m.limit = l.limit
    BY <1>1, <1>3, <1>4
  <2> QED
    BY <1>1, <1>4, <2>1 DEF IsCall
<1>5. CASE l \in [pc : {"body", "found", "admitted"}, app : Apps, api : Apis, arg : Arguments,
                  limit : Quotas, age : 0 .. Patience, row : Rows]
  <2>1. /\ m \in [pc : {"body", "found", "admitted"}, app : Apps, api : Apis, arg : Arguments,
                  limit : Quotas, age : 0 .. Patience, row : Rows]
        /\ m.age = l.age + 1 /\ m.pc = l.pc /\ m.app = l.app /\ m.api = l.api /\ m.arg = l.arg
        /\ m.limit = l.limit /\ m.row = l.row /\ l.pc # "fetched"
    BY <1>1, <1>3, <1>5
  <2> QED
    BY <1>1, <2>1 DEF IsCall
<1>6. CASE /\ l = [pc |-> l.pc, app |-> l.app, api |-> l.api, arg |-> l.arg, limit |-> l.limit,
                   age |-> l.age, row |-> l.row, val |-> l.val]
           /\ l.pc = "fetched" /\ l.app \in Apps /\ l.api \in Apis /\ l.arg \in Arguments
           /\ l.limit \in Quotas /\ l.age \in 0 .. Patience /\ l.row \in Rows
  <2>1. m = [pc |-> l.pc, app |-> l.app, api |-> l.api, arg |-> l.arg, limit |-> l.limit,
             age |-> l.age + 1, row |-> l.row, val |-> l.val]
    BY <1>1, <1>6
  <2>2. /\ m.age = l.age + 1 /\ m.pc = l.pc /\ m.app = l.app /\ m.api = l.api /\ m.arg = l.arg
        /\ m.limit = l.limit /\ m.row = l.row /\ m.val = l.val
    BY <2>1
  <2>3. IsCall(m)
    BY <1>3, <1>6, <2>1, <2>2 DEF IsCall
  <2> QED
    BY <1>1, <2>2, <2>3
<1> QED
  BY <1>4, <1>5, <1>6 DEF IsCall, Idle

\* Time passes: an invocation ages as quiet grows, and a result in the cache
\* loses what quiet gains.
LEMMA TickKeeps ==
  ASSUME ApiInv, Tick PROVE ApiInv'
<1>1. /\ UNCHANGED <<api, grant, data>> /\ told' = NoValue
      /\ quiet' = [a \in Apis |-> IF quiet[a] < Far THEN quiet[a] + 1 ELSE Far]
      /\ cache' = [k \in DOMAIN cache |-> Aged(cache[k])]
      /\ invocation' = [c \in Invocations |-> IF invocation[c].pc = "idle" THEN Idle ELSE [invocation[c] EXCEPT !.age = @ + 1]]
  BY DEF Tick
<1>2. \A a \in Apis : /\ quiet[a] \in 0 .. Far /\ quiet'[a] \in 0 .. Far
                      /\ quiet'[a] = IF quiet[a] < Far THEN quiet[a] + 1 ELSE Far
  BY <1>1, FarIsFar DEF ApiInv, ApiTypes
<1>3. ASSUME NEW c \in Invocations PROVE IsCall(invocation'[c]) /\ Knows(invocation[c])'
  <2>1. CASE invocation[c].pc = "idle"
    <3>1. invocation'[c] = Idle
      BY <1>1, <2>1
    <3> QED
      BY <3>1 DEF IsCall, Knows, Idle
  <2>2. CASE invocation[c].pc # "idle"
    <3>1. PICK l : l = invocation[c]
      OBVIOUS
    <3>2. PICK m : m = [l EXCEPT !.age = @ + 1]
      OBVIOUS
    <3>3. m = invocation'[c]
      BY <1>1, <2>2, <3>1, <3>2
    <3>4. IsCall(l) /\ l.pc # "idle" /\ l.age < Patience /\ Knows(l)
      BY <2>2, <3>1 DEF Tick, ApiInv, ApiTypes
    <3>5. /\ IsCall(m) /\ m.age = l.age + 1 /\ m.pc = l.pc /\ m.app = l.app /\ m.api = l.api /\ m.arg = l.arg
          /\ m.limit = l.limit
          /\ l.pc # "auth" => m.row = l.row
          /\ l.pc = "fetched" => m.val = l.val
      BY <3>2, <3>4, OlderCall
    <3>6. l.api \in Apis /\ l.age \in 0 .. Patience
      BY <2>2, <3>1, CallShapes DEF ApiInv
    <3>7. quiet'[m.api] > m.age => quiet[l.api] > l.age
      BY <1>2, <3>5, <3>6, FarIsFar, ConfigAssumption
    <3>8. Knows(m)'
      BY <1>1, <3>4, <3>5, <3>7 DEF Knows, Allowed, Result, Bound
    <3> QED
      BY <3>3, <3>5, <3>8 DEF Knows
  <2> QED
    BY <2>1, <2>2
<1>4. ASSUME NEW k \in Keys
      PROVE  /\ cache'[k] # NoValue => /\ cache'[k] = [val |-> cache'[k].val, left |-> cache'[k].left]
                                    /\ cache'[k].left \in 0 .. Longest
             /\ Holds(k)'
  <2>1. k[1] \in Apis
    BY DEF Keys
  <2>2. PICK e : e = cache[k]
    OBVIOUS
  <2>3. cache'[k] = Aged(e)
    BY <1>1, <2>2 DEF ApiInv, ApiTypes
  <2>4. CASE cache'[k] = NoValue
    BY <2>4 DEF Holds
  <2>5. CASE cache'[k] # NoValue
    <3>1. e # NoValue /\ e.left > 0 /\ cache'[k] = [e EXCEPT !.left = @ - 1]
      BY <2>3, <2>5 DEF Aged
    <3>2. e = [val |-> e.val, left |-> e.left] /\ e.left \in 0 .. Longest /\ Holds(k)
      BY <2>2, <3>1 DEF ApiInv, ApiTypes
    <3>3. cache'[k] = [val |-> e.val, left |-> e.left - 1]
      BY <3>1, <3>2
    <3>4. cache'[k].val = e.val /\ cache'[k].left = e.left - 1
      BY <3>3
    <3>5. e.left - 1 \in 0 .. Longest
      BY <3>1, <3>2, ConfigAssumption
    <3>6. quiet'[k[1]] + cache'[k].left > Longest + Patience => quiet[k[1]] + e.left > Longest + Patience
      BY <1>2, <2>1, <3>2, <3>4, FarIsFar, ConfigAssumption
    <3>7. Holds(k)'
      BY <1>1, <2>2, <3>1, <3>2, <3>4, <3>6 DEF Holds, ApiExists, Result
    <3> QED
      BY <3>3, <3>4, <3>5, <3>7
  <2> QED
    BY <2>4, <2>5
<1>5. ApiTypes'
  BY <1>1, <1>2, <1>3, <1>4 DEF ApiInv, ApiTypes
<1> QED
  BY <1>1, <1>3, <1>4, <1>5 DEF ApiInv, AnswersCatchUp, WithdrawnIsSilent

\* A restart forgets every invocation and every result.
LEMMA RestartKeeps ==
  ASSUME ApiInv, Restart PROVE ApiInv'
<1>1. /\ UNCHANGED <<api, grant, data, quiet>> /\ told' = NoValue
      /\ invocation' = [c \in Invocations |-> Idle] /\ cache' = [k \in Keys |-> NoValue]
  BY DEF Restart, Gateway
<1>2. ApiTypes'
  BY <1>1, IdleKnows DEF ApiInv, ApiTypes, IsCall
<1>3. \A c \in Invocations : Knows(invocation[c])'
  BY <1>1 DEF Knows, Idle
<1>4. \A k \in Keys : Holds(k)'
  BY <1>1 DEF Holds
<1> QED
  BY <1>1, <1>2, <1>3, <1>4 DEF ApiInv, AnswersCatchUp, WithdrawnIsSilent

\* In the beginning there are no invocations and no results.
LEMMA InitHolds ==
  ASSUME ApiInit PROVE ApiInv
<1>1. ApiTypes
  BY IdleKnows, FarIsFar DEF ApiInit, ApiTypes, IsCall, Quotas
<1>2. \A c \in Invocations : Knows(invocation[c])
  BY IdleKnows DEF ApiInit
<1>3. \A k \in Keys : Holds(k)
  BY DEF ApiInit, Holds
<1> QED
  BY <1>1, <1>2, <1>3 DEF ApiInit, ApiInv, AnswersCatchUp, WithdrawnIsSilent

\* Every step keeps the invariant.
LEMMA NextKeeps ==
  ASSUME ApiInv, [ApiNext]_apivars PROVE ApiInv'
<1>1. CASE UNCHANGED apivars
  BY <1>1 DEF apivars, ApiInv, ApiTypes, Knows, Holds, ApiExists, Result, Allowed, AnswersCatchUp, WithdrawnIsSilent
<1>2. CASE ApiNext
  BY <1>2, ManageKeeps, OthersKeep, StepKeeps, TickKeeps, RestartKeeps DEF ApiNext
<1> QED
  BY <1>1, <1>2

\* Always.
LEMMA ApiInvHolds == ApiSpec => []ApiInv
<1>1. ApiInit => ApiInv
  BY InitHolds
<1>2. ApiInv /\ [ApiNext]_apivars => ApiInv'
  BY NextKeeps
<1> QED
  BY <1>1, <1>2, PTL DEF ApiSpec

\* For every configuration whose times to live are within the longest: an answer
\* that is given more than a call after a withdrawal of its API, or of the grant,
\* is not given at all (_auth_app, _invoke_api).
THEOREM WithdrawnStaysSilent == ApiSpec => []WithdrawnIsSilent
<1>1. ApiInv => WithdrawnIsSilent
  BY DEF ApiInv
<1> QED
  BY <1>1, ApiInvHolds, PTL

\* For every such configuration: an answer that is given later than the longest
\* time to live and a call after the last change is what a fresh query returns
\* (_cache_get, _cache_set, update_api).
THEOREM AnswersAlwaysCatchUp == ApiSpec => []AnswersCatchUp
<1>1. ApiInv => AnswersCatchUp
  BY DEF ApiInv
<1> QED
  BY <1>1, ApiInvHolds, PTL
=============================================================================
