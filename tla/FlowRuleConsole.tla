-------------------------- MODULE FlowRuleConsole --------------------------
(***************************************************************************)
(* The flow rules of the Sentinel dashboard: FlowControllerV2 over the     *)
(* in-memory repository InMemFlowRuleStore and the Nacos document of each  *)
(* application, driven by the page flow_v2.js.                             *)
(*                                                                         *)
(*   page     one session per visit of the page, about one application.    *)
(*            It queries its rules when it opens, when the operator chooses*)
(*            a machine and after each edit that succeeds; nothing keeps   *)
(*            the operator from sending the next request before the last   *)
(*            one is answered.                                             *)
(*   server   each request runs in a thread of its own.  The repository is *)
(*            one object for all applications; a query replaces all of it  *)
(*            (saveAll), an edit changes one rule in it and publishes      *)
(*            findAllByApp.  Threads interleave between repository calls   *)
(*            and between the saves of one saveAll.                        *)
(*   Nacos    one document per application; reads and publications can     *)
(*            fail, and a publication that fails need not be noticed.      *)
(*                                                                         *)
(* machineRules is left out: FlowControllerV2 never reads it, and a rule   *)
(* in allRules is in it as well.  Authorisation and checkEntityInternal    *)
(* only refuse requests: a refused request changes nothing.                *)
(***************************************************************************)
EXTENDS Naturals, FiniteSets

CONSTANTS
    Session,       \* visits of the page
    Thread,        \* request threads
    App,           \* applications
    Body,          \* what operators submit, new at every submission
    ClusterBody,   \* those with clusterMode set
    NoApp,         \* the page of no application
    MaxRestarts    \* bound on the restarts of the dashboard

ASSUME ClusterBodyAssumption == ClusterBody \subseteq Body
ASSUME NoAppAssumption == NoApp \notin App
ASSUME RestartAssumption == MaxRestarts \in Nat

VARIABLES
    nacos,     \* [App -> SUBSET Rule]: the published document
    ids,       \* InMemFlowRuleStore.ids
    allRules,  \* {rule}: the map allRules, keyed by the rule's id
    appRules,  \* [App -> {rule}]: the map appRules
    page,      \* [Session -> App or NoApp]: the application the page is about
    rows,      \* [Session -> SUBSET Rule]: the rules the page shows
    pc,        \* [Thread -> Stage]: where the thread's request is
    req,       \* [Thread -> Request]: the request it works on
    list,      \* [Thread -> SUBSET Rule]: the list of rules it holds
    saved,     \* [Thread -> SUBSET Rule]: what its saveAll has saved so far
    used,      \* the bodies submitted so far
    owner,     \* [1..ids -> App]: the application each id was drawn for
    calm,      \* [Thread -> BOOLEAN]: the repository showed the document when
               \* the thread's edit changed it, and nobody touched either since
    restarts   \* how often the dashboard has restarted
               \* (used, owner, calm and restarts are history)

repository == <<allRules, appRules>>
counter    == <<ids, owner, restarts>>
client     == <<page, rows, used>>
vars == <<nacos, repository, counter, client, pc, req, list, saved, calm>>

NoId  == 0
Id    == Nat \ {NoId}
Rule  == [id : Id, app : App, body : Body, flowId : Nat]
Stage == {"ready", "query", "clear", "fill", "answer",
          "lookup", "save", "remove", "find", "publish"}

\* A request: its operation and the page it is for; for an edit the id and the
\* application the handler works on, and the content submitted.
NoRequest     == [op |-> "none"]
QueryRequest  == [op : {"query"}, session : Session]
AddRequest    == [op : {"add"}, session : Session, app : App, id : Nat,
                  flowId : {NoId}, body : Body]
UpdateRequest == [op : {"update"}, session : Session, app : App, id : Id,
                  flowId : Nat, body : Body]
DeleteRequest == [op : {"delete"}, session : Session, app : App, id : Id]
EditRequest   == AddRequest \cup UpdateRequest \cup DeleteRequest

Put(map, r) == {x \in map : x.id # r.id} \cup {r}
Goto(t, stage) == pc' = [pc EXCEPT ![t] = stage]
PageOf(t) == page[req[t].session]

Init ==
    /\ nacos = [a \in App |-> {}]
    /\ ids = 0
    /\ allRules = {}
    /\ appRules = [a \in App |-> {}]
    /\ page = [s \in Session |-> NoApp]
    /\ rows = [s \in Session |-> {}]
    /\ pc = [t \in Thread |-> "ready"]
    /\ req = [t \in Thread |-> NoRequest]
    /\ list = [t \in Thread |-> {}]
    /\ saved = [t \in Thread |-> {}]
    /\ used = {}
    /\ owner = [i \in {} |-> NoApp]
    /\ calm = [t \in Thread |-> FALSE]
    /\ restarts = 0

\* A thread touches the repository or a document: no other edit is calm now.
Touch(t, still) == calm' = [u \in Thread |-> u = t /\ still]

-----------------------------------------------------------------------------
(* The repository: InMemoryRuleRepositoryAdapter *)

\* The counter only grows until the dashboard restarts.  Mutant: the id is
\* derived from the number of rules in the repository.
nextIdBySize == Cardinality(allRules) + 1
nextId == ids + 1

\* A cluster rule carries its own id as flowId.  Mutant: the id is not set.
preProcessNothing(r) == r
preProcess(r) == IF r.body \in ClusterBody THEN [r EXCEPT !.flowId = r.id] ELSE r

\* save, for a rule that has its id.
Save(r) ==
    LET e == preProcess(r)
    IN  /\ allRules' = Put(allRules, e)
        /\ appRules' = [appRules EXCEPT ![e.app] = Put(@, e)]

\* Mutant: the rule stays in the map of its application.
DeleteById(id) ==
    /\ allRules' = {x \in allRules : x.id # id}
    /\ UNCHANGED appRules

Delete(id) ==
    /\ allRules' = {x \in allRules : x.id # id}
    /\ appRules' = [a \in App |->
         IF \E x \in allRules : x.id = id /\ x.app = a
         THEN {x \in appRules[a] : x.id # id} ELSE appRules[a]]

-----------------------------------------------------------------------------
(* Query: getMachineRules, apiQueryMachineRules, saveAll *)

SendQuery(t, s) ==
    /\ req' = [req EXCEPT ![t] = [op |-> "query", session |-> s]]
    /\ Goto(t, "query")

\* The operator opens the page of an application ...
OpenPage(t, s, a) ==
    /\ pc[t] = "ready" /\ page[s] = NoApp
    /\ page' = [page EXCEPT ![s] = a]
    /\ SendQuery(t, s)
    /\ UNCHANGED <<nacos, repository, counter, rows, used, list, saved, calm>>

\* ... or chooses a machine on it.
ChooseMachine(t, s) ==
    /\ pc[t] = "ready" /\ page[s] # NoApp
    /\ SendQuery(t, s)
    /\ UNCHANGED <<nacos, repository, counter, client, list, saved, calm>>

\* A rule as read from the document of an application.  Mutant: a flowId that
\* is not set is taken as well.
LoadedUnchecked(r, a) == [r EXCEPT !.app = a, !.id = r.flowId]
Loaded(r, a) ==
    [r EXCEPT !.app = a, !.id = IF r.flowId # NoId THEN r.flowId ELSE r.id]

GetRules(t) ==
    /\ pc[t] = "query"
    /\ list' = [list EXCEPT ![t] = {Loaded(r, PageOf(t)) : r \in nacos[PageOf(t)]}]
    /\ Goto(t, "clear")
    /\ UNCHANGED <<nacos, repository, counter, client, req, saved, calm>>

\* The read throws: the page is told so, the repository stays as it is.
GetRulesFails(t) ==
    /\ pc[t] = "query"
    /\ Goto(t, "answer")
    /\ UNCHANGED <<nacos, repository, counter, client, req, list, saved, calm>>

\* saveAll begins: every map is cleared, the rules of every application.
Clear(t) ==
    /\ pc[t] = "clear"
    /\ allRules' = {}
    /\ appRules' = [a \in App |-> {}]
    /\ Goto(t, IF list[t] = {} THEN "answer" ELSE "fill")
    /\ Touch(t, FALSE)
    /\ UNCHANGED <<nacos, counter, client, req, list, saved>>

\* saveAll saves the rules it was given one after the other.
Fill(t) ==
    /\ pc[t] = "fill"
    /\ \E r \in list[t] :
         /\ Save(r)
         /\ list' = [list EXCEPT ![t] = @ \ {r}]
         /\ saved' = [saved EXCEPT ![t] = @ \cup {preProcess(r)}]
         /\ Goto(t, IF list[t] = {r} THEN "answer" ELSE "fill")
    /\ Touch(t, FALSE)
    /\ UNCHANGED <<nacos, counter, client, req>>

\* The page shows the rules it is answered, none after a failure, and keeps
\* what it shows when no answer arrives.
Answer(t) ==
    /\ pc[t] = "answer"
    /\ \/ rows' = [rows EXCEPT ![req[t].session] = saved[t]]
       \/ UNCHANGED rows
    /\ saved' = [saved EXCEPT ![t] = {}]
    /\ req' = [req EXCEPT ![t] = NoRequest]
    /\ Goto(t, "ready")
    /\ UNCHANGED <<nacos, repository, counter, page, used, list, calm>>

-----------------------------------------------------------------------------
(* Edits: apiAddFlowRule, apiUpdateFlowRule, apiDeleteRule *)

Send(t, request, stage) ==
    /\ pc[t] = "ready"
    /\ req' = [req EXCEPT ![t] = request]
    /\ Goto(t, stage)
    /\ UNCHANGED <<nacos, repository, counter, page, rows, list, saved, calm>>

Add(t, s, b) ==
    /\ page[s] # NoApp /\ b \notin used
    /\ used' = used \cup {b}
    /\ Send(t, [op |-> "add", session |-> s, app |-> page[s], id |-> NoId,
                flowId |-> NoId, body |-> b], "save")

\* The dialogs are about a row that the page may have replaced meanwhile.
Update(t, s, r, b) ==
    /\ b \notin used
    /\ used' = used \cup {b}
    /\ Send(t, [op |-> "update", session |-> s, app |-> r.app, id |-> r.id,
                flowId |-> r.flowId, body |-> b], "lookup")

DeleteRule(t, s, r) ==
    /\ UNCHANGED used
    /\ Send(t, [op |-> "delete", session |-> s, app |-> r.app, id |-> r.id], "lookup")

\* findById: the application is the one of the rule that has the id by now.
FindById(t) ==
    /\ pc[t] = "lookup"
    /\ \E old \in allRules :
         /\ old.id = req[t].id
         /\ req' = [req EXCEPT ![t].app = old.app]
    /\ Goto(t, IF req[t].op = "update" THEN "save" ELSE "remove")
    /\ UNCHANGED <<nacos, repository, counter, client, list, saved, calm>>

\* No rule has it: an update is refused, a delete succeeds and the page queries
\* its rules.
FindsNothing(t) ==
    /\ pc[t] = "lookup"
    /\ \A x \in allRules : x.id # req[t].id
    /\ IF req[t].op = "update"
       THEN req' = [req EXCEPT ![t] = NoRequest] /\ Goto(t, "ready")
       ELSE SendQuery(t, req[t].session)
    /\ UNCHANGED <<nacos, repository, counter, client, list, saved, calm>>

\* repository.save: a new rule takes nextId().
SaveRule(t) ==
    /\ pc[t] = "save"
    /\ LET new == req[t].op = "add"
           id  == IF new THEN nextId ELSE req[t].id
       IN  /\ ids' = IF new THEN ids + 1 ELSE ids
           /\ owner' = IF new THEN [i \in 1 .. ids + 1 |->
                                      IF i <= ids THEN owner[i] ELSE req[t].app]
                              ELSE owner
           /\ Save([id |-> id, app |-> req[t].app, body |-> req[t].body,
                    flowId |-> req[t].flowId])
           /\ req' = [req EXCEPT ![t].id = id]
    /\ Touch(t, appRules[req[t].app] = nacos[req[t].app])
    /\ Goto(t, "find")
    /\ UNCHANGED <<nacos, restarts, client, list, saved>>

RemoveRule(t) ==
    /\ pc[t] = "remove"
    /\ Delete(req[t].id)
    /\ Touch(t, /\ appRules[req[t].app] = nacos[req[t].app]
                /\ \E x \in allRules : x.id = req[t].id /\ x.app = req[t].app)
    /\ Goto(t, "find")
    /\ UNCHANGED <<nacos, counter, client, req, list, saved>>

\* publishRules: findAllByApp, then the whole document is replaced.
FindAll(t) ==
    /\ pc[t] = "find"
    /\ list' = [list EXCEPT ![t] = appRules[req[t].app]]
    /\ Goto(t, "publish")
    /\ UNCHANGED <<nacos, repository, counter, client, req, saved, calm>>

\* publishConfig replaces the document, or does not and returns false, which
\* FlowRuleNacosPublisher ignores.
PublishConfig(t) ==
    /\ pc[t] = "publish"
    /\ \/ nacos' = [nacos EXCEPT ![req[t].app] = list[t]]
       \/ UNCHANGED nacos
    /\ list' = [list EXCEPT ![t] = {}]
    /\ Touch(t, FALSE)
    /\ UNCHANGED <<repository, counter, client, saved>>

\* The page is told of a success and queries its rules again ...
Publish(t) ==
    /\ PublishConfig(t)
    /\ SendQuery(t, req[t].session)

\* ... or publishConfig throws or the answer is lost: the page reports a failure
\* or nothing and stays as it is; the repository keeps the edit.
PublishFails(t) ==
    /\ PublishConfig(t)
    /\ req' = [req EXCEPT ![t] = NoRequest]
    /\ Goto(t, "ready")

\* The dashboard restarts: the repository and the ids start afresh, and the
\* login sessions are gone, so every page has to be opened again.
Restart ==
    /\ restarts < MaxRestarts
    /\ restarts' = restarts + 1
    /\ ids' = 0
    /\ owner' = [i \in {} |-> NoApp]
    /\ allRules' = {}
    /\ appRules' = [a \in App |-> {}]
    /\ page' = [s \in Session |-> NoApp]
    /\ rows' = [s \in Session |-> {}]
    /\ pc' = [t \in Thread |-> "ready"]
    /\ req' = [t \in Thread |-> NoRequest]
    /\ list' = [t \in Thread |-> {}]
    /\ saved' = [t \in Thread |-> {}]
    /\ calm' = [t \in Thread |-> FALSE]
    /\ UNCHANGED <<nacos, used>>

-----------------------------------------------------------------------------
\* What the page of a session sends.
Request(t) ==
    \E s \in Session :
        \/ \E a \in App : OpenPage(t, s, a)
        \/ ChooseMachine(t, s)
        \/ \E b \in Body : Add(t, s, b)
        \/ \E r \in rows[s] :
             \/ \E b \in Body : Update(t, s, r, b)
             \/ DeleteRule(t, s, r)

Query(t) == GetRules(t) \/ GetRulesFails(t) \/ Clear(t) \/ Fill(t) \/ Answer(t)

Edit(t) ==
    \/ FindById(t) \/ FindsNothing(t) \/ SaveRule(t) \/ RemoveRule(t)
    \/ FindAll(t) \/ Publish(t) \/ PublishFails(t)

Next == Restart \/ \E t \in Thread : Request(t) \/ Query(t) \/ Edit(t)

Spec == Init /\ [][Next]_vars

-----------------------------------------------------------------------------
(* Properties *)

\* Every variable has its type; no rule is stored without an id.
TypeOK ==
    /\ nacos \in [App -> SUBSET Rule]
    /\ ids \in Nat
    /\ allRules \in SUBSET Rule
    /\ appRules \in [App -> SUBSET Rule]
    /\ page \in [Session -> App \cup {NoApp}]
    /\ rows \in [Session -> SUBSET Rule]
    /\ pc \in [Thread -> Stage]
    /\ req \in [Thread -> {NoRequest} \cup QueryRequest \cup EditRequest]
    /\ list \in [Thread -> SUBSET Rule]
    /\ saved \in [Thread -> SUBSET Rule]
    /\ used \in SUBSET Body
    /\ owner \in [1 .. ids -> App]
    /\ calm \in [Thread -> BOOLEAN]
    /\ restarts \in Nat

\* The document of an application always holds rules of that application, at
\* most one per id, and a cluster rule's flowId is its id (preProcess): so the
\* id a query takes from flowId is the one the rule had.
WellFormed ==
    \A a \in App : \A r \in nacos[a] :
        /\ r.app = a
        /\ r.flowId \in {NoId, r.id}
        /\ r.body \in ClusterBody => r.flowId = r.id
        /\ \A q \in nacos[a] : q.id = r.id => q = r

\* As long as the dashboard does not restart, an edit made on the page of an
\* application works on the rules of that application, although update and
\* delete take the application from whatever rule has the row's id by now.
EditStaysInApp ==
    restarts = 0 =>
        \A t \in Thread : req[t] \in EditRequest => req[t].app = PageOf(t)

\* The rules after differ from those before in the rule that the edit q is
\* about, which has the content submitted or is gone, and in no other.
Edited(q, before, after) ==
    LET Others(rules) == {r \in rules : r.id # q.id}
    IN  /\ Others(after) = Others(before)
        /\ {r.body : r \in after \ Others(after)} =
             IF q.op = "delete" THEN {} ELSE {q.body}

\* An edit that finds the document's rules in the repository, and whose save
\* and publication no other request's come between, publishes the document
\* with the one rule changed (publishRules replaces all of it), whatever has
\* failed or was lost before and however often the dashboard restarted.
EditChangesOneRule ==
    \A t \in Thread : calm[t] /\ pc[t] = "publish" =>
        Edited(req[t], nacos[req[t].app], list[t])

\* nextId returns an id that no rule in the repository has ("next unused id").
NextIdUnused ==
    [][\A t \in Thread :
         SaveRule(t) /\ req[t].op = "add" => \A x \in allRules : x.id # nextId]_vars

\* findAllByApp returns "all rules of the application": every rule of its
\* document but the one the edit is about is in the list about to be published.
FindsAll ==
    [][\A t \in Thread : FindAll(t) =>
         {r.id : r \in nacos[req[t].app]} \ {req[t].id}
           \subseteq {r.id : r \in list'[t]}]_vars

-----------------------------------------------------------------------------
(* The inductive invariants behind the safety properties *)

\* What a thread holds at each stage.
StageOK ==
    /\ \A s \in Session : rows[s] # {} => page[s] \in App
    /\ \A t \in Thread :
         /\ pc[t] \in {"query", "clear", "fill", "answer"} => req[t] \in QueryRequest
         /\ pc[t] = "lookup" => req[t] \in UpdateRequest \cup DeleteRequest
         /\ pc[t] = "save" => req[t] \in AddRequest \cup UpdateRequest
         /\ pc[t] = "remove" => req[t] \in DeleteRequest
         /\ pc[t] \in {"find", "publish"} => req[t] \in EditRequest /\ req[t].id \in Id
         /\ req[t] # NoRequest => PageOf(t) \in App
         /\ pc[t] # "fill" /\ pc[t] # "answer" => saved[t] = {}

\* A rule of application a as preProcess leaves it.
Stored(r, a) ==
    /\ r.app = a
    /\ r.flowId \in {NoId, r.id}
    /\ r.body \in ClusterBody => r.flowId = r.id

KeyedById(S) == \A q, r \in S : q.id = r.id => q = r

\* Documents, the repository and the lists in between hold such rules.
StoredEverywhere ==
    /\ \A a \in App :
         /\ KeyedById(nacos[a]) /\ \A r \in nacos[a] : Stored(r, a)
         /\ KeyedById(appRules[a]) /\ \A r \in appRules[a] : Stored(r, a)
    /\ \A s \in Session : \A r \in rows[s] : Stored(r, page[s])
    /\ \A t \in Thread :
         /\ pc[t] \in {"clear", "fill"} => \A r \in list[t] : Stored(r, PageOf(t))
         /\ pc[t] \in {"fill", "answer"} => \A r \in saved[t] : Stored(r, PageOf(t))
         /\ pc[t] = "publish" =>
              KeyedById(list[t]) /\ \A r \in list[t] : Stored(r, req[t].app)
         /\ req[t] \in UpdateRequest => req[t].flowId \in {NoId, req[t].id}

\* Until the first restart, every id in use was drawn by this dashboard, for
\* the application of the rule that has it.
Drawn(id, a) == id \in 1 .. ids /\ owner[id] = a

DrawnEverywhere ==
    /\ \A a \in App : \A r \in nacos[a] \cup appRules[a] : Drawn(r.id, a)
    /\ \A r \in allRules : Drawn(r.id, r.app)
    /\ \A s \in Session : \A r \in rows[s] : Drawn(r.id, page[s])
    /\ \A t \in Thread :
         /\ pc[t] \in {"clear", "fill"} => \A r \in list[t] : Drawn(r.id, PageOf(t))
         /\ pc[t] \in {"fill", "answer"} => \A r \in saved[t] : Drawn(r.id, PageOf(t))
         /\ pc[t] = "publish" => \A r \in list[t] : Drawn(r.id, req[t].app)
         /\ req[t] \in EditRequest =>
              /\ req[t].app = PageOf(t)
              /\ req[t].op # "add" => Drawn(req[t].id, PageOf(t))

\* A calm edit is between its save and its publication.
CalmEdit ==
    \A t \in Thread : calm[t] =>
        \/ pc[t] = "find" /\ Edited(req[t], nacos[req[t].app], appRules[req[t].app])
        \/ pc[t] = "publish" /\ Edited(req[t], nacos[req[t].app], list[t])
=============================================================================
