----------------------- MODULE FlowRuleConsole_proofs -----------------------
(***************************************************************************)
(* Theorems about FlowRuleConsole, for any number of applications, pages,  *)
(* request threads, submissions and restarts, whatever fails.              *)
(***************************************************************************)
EXTENDS FlowRuleConsole, TLAPS

USE ClusterBodyAssumption, NoAppAssumption

\* preProcess changes nothing but the flowId, which it sets to the id or leaves.
LEMMA PreProcess ==
    ASSUME NEW r \in Rule
    PROVE  /\ preProcess(r) \in Rule
           /\ preProcess(r).id = r.id
           /\ preProcess(r).app = r.app
           /\ preProcess(r).body = r.body
           /\ preProcess(r).flowId = IF r.body \in ClusterBody THEN r.id ELSE r.flowId
BY DEF preProcess, Rule, Id, NoId

\* A rule read from a document is a rule of the application it was read for.
LEMMA LoadedRule ==
    ASSUME NEW r \in Rule, NEW a \in App
    PROVE  /\ Loaded(r, a) \in Rule
           /\ Loaded(r, a).app = a
           /\ Loaded(r, a).body = r.body
           /\ Loaded(r, a).flowId = r.flowId
           /\ Loaded(r, a).id = IF r.flowId # NoId THEN r.flowId ELSE r.id
BY DEF Loaded, Rule, Id, NoId

\* A request is of one kind, told by its op.
LEMMA RequestKinds ==
    /\ NoRequest \notin QueryRequest \cup EditRequest
    /\ \A q \in QueryRequest : q \notin EditRequest /\ q.session \in Session
    /\ \A q \in EditRequest : q.session \in Session /\ q.app \in App
    /\ \A q \in AddRequest : q.op = "add"
    /\ \A q \in UpdateRequest : q.op = "update" /\ q.id \in Id
    /\ \A q \in DeleteRequest : q.op = "delete" /\ q.id \in Id
<1>1. \A q \in AddRequest : q.op = "add" /\ q.session \in Session /\ q.app \in App
  BY DEF AddRequest
<1>2. \A q \in UpdateRequest :
        q.op = "update" /\ q.session \in Session /\ q.app \in App /\ q.id \in Id
  BY DEF UpdateRequest
<1>3. \A q \in DeleteRequest :
        q.op = "delete" /\ q.session \in Session /\ q.app \in App /\ q.id \in Id
  BY DEF DeleteRequest
<1>4. \A q \in QueryRequest : q.op = "query" /\ q.session \in Session
  BY DEF QueryRequest
<1>5. NoRequest.op = "none"
  BY DEF NoRequest
<1> QED
  BY <1>1, <1>2, <1>3, <1>4, <1>5 DEF EditRequest

-----------------------------------------------------------------------------
(* Type correctness *)

LEMMA InitType == Init => TypeOK /\ StageOK
BY DEF Init, TypeOK, StageOK, Stage

\* save keeps the types of the two maps.
LEMMA SaveType ==
    ASSUME allRules \in SUBSET Rule, appRules \in [App -> SUBSET Rule],
           NEW r \in Rule, Save(r)
    PROVE  allRules' \in SUBSET Rule /\ appRules' \in [App -> SUBSET Rule]
<1>1. preProcess(r) \in Rule
  BY PreProcess
<1> QED
  BY <1>1 DEF Save, Put

\* Touching the repository leaves a function of threads.
LEMMA TouchType ==
    ASSUME NEW t \in Thread, NEW b \in BOOLEAN, Touch(t, b)
    PROVE  calm' \in [Thread -> BOOLEAN]
BY DEF Touch

LEMMA RequestType ==
    ASSUME TypeOK, StageOK, NEW t \in Thread, Request(t)
    PROVE  TypeOK' /\ StageOK'
<1> USE DEF TypeOK, StageOK, Stage, Goto, PageOf, SendQuery, Send,
            repository, counter, client
<1>1. ASSUME NEW s \in Session, NEW a \in App, OpenPage(t, s, a)
      PROVE  TypeOK' /\ StageOK'
  <2>1. [op |-> "query", session |-> s] \in QueryRequest
    BY DEF QueryRequest
  <2>2. \A u \in Thread : req[u] # NoRequest => req[u].session # s
    BY <1>1 DEF OpenPage
  <2>3. rows[s] = {}
    BY <1>1 DEF OpenPage
  <2> QED
    BY <1>1, <2>1, <2>2, <2>3, RequestKinds DEF OpenPage
<1>2. ASSUME NEW s \in Session, ChooseMachine(t, s)
      PROVE  TypeOK' /\ StageOK'
  <2>1. [op |-> "query", session |-> s] \in QueryRequest
    BY DEF QueryRequest
  <2> QED
    BY <1>2, <2>1 DEF ChooseMachine
<1>3. ASSUME NEW s \in Session, NEW b \in Body, Add(t, s, b)
      PROVE  TypeOK' /\ StageOK'
  <2>1. page[s] \in App
    BY <1>3 DEF Add
  <2>2. [op |-> "add", session |-> s, app |-> page[s], id |-> NoId,
         flowId |-> NoId, body |-> b] \in AddRequest
    BY <2>1 DEF AddRequest, NoId
  <2> QED
    BY <1>3, <2>1, <2>2 DEF Add, EditRequest
<1>4. ASSUME NEW s \in Session, NEW r \in rows[s], NEW b \in Body, Update(t, s, r, b)
      PROVE  TypeOK' /\ StageOK'
  <2>1. page[s] \in App /\ r \in Rule
    OBVIOUS
  <2>2. [op |-> "update", session |-> s, app |-> r.app, id |-> r.id,
         flowId |-> r.flowId, body |-> b] \in UpdateRequest
    BY <2>1 DEF UpdateRequest, Rule
  <2> QED
    BY <1>4, <2>1, <2>2 DEF Update, EditRequest
<1>5. ASSUME NEW s \in Session, NEW r \in rows[s], DeleteRule(t, s, r)
      PROVE  TypeOK' /\ StageOK'
  <2>1. page[s] \in App /\ r \in Rule
    OBVIOUS
  <2>2. [op |-> "delete", session |-> s, app |-> r.app, id |-> r.id] \in DeleteRequest
    BY <2>1 DEF DeleteRequest, Rule
  <2> QED
    BY <1>5, <2>1, <2>2 DEF DeleteRule, EditRequest
<1> QED
  BY <1>1, <1>2, <1>3, <1>4, <1>5 DEF Request

LEMMA QueryType ==
    ASSUME TypeOK, StageOK, NEW t \in Thread, Query(t)
    PROVE  TypeOK' /\ StageOK'
<1> USE DEF TypeOK, StageOK, Stage, Goto, PageOf, repository, counter, client
<1>1. CASE GetRules(t)
  <2>1. PageOf(t) \in App
    BY <1>1, RequestKinds DEF GetRules
  <2>2. {Loaded(r, PageOf(t)) : r \in nacos[PageOf(t)]} \in SUBSET Rule
    BY <2>1, LoadedRule
  <2> QED
    BY <1>1, <2>2 DEF GetRules
<1>2. CASE GetRulesFails(t)
  BY <1>2 DEF GetRulesFails
<1>3. CASE Clear(t)
  BY <1>3, TouchType DEF Clear
<1>4. CASE Fill(t)
  <2>1. PICK r \in list[t] :
          /\ Save(r)
          /\ list' = [list EXCEPT ![t] = @ \ {r}]
          /\ saved' = [saved EXCEPT ![t] = @ \cup {preProcess(r)}]
          /\ Goto(t, IF list[t] = {r} THEN "answer" ELSE "fill")
    BY <1>4 DEF Fill
  <2>2. r \in Rule /\ preProcess(r) \in Rule
    BY <2>1, PreProcess
  <2>3. allRules' \in SUBSET Rule /\ appRules' \in [App -> SUBSET Rule]
    BY <2>1, <2>2, SaveType
  <2>4. pc[t] = "fill" /\ UNCHANGED <<nacos, counter, client, req>>
    BY <1>4 DEF Fill
  <2>5. saved' \in [Thread -> SUBSET Rule] /\ list' \in [Thread -> SUBSET Rule]
    BY <2>1, <2>2
  <2>6. pc' \in [Thread -> Stage] /\ \A u \in Thread : pc'[u] = pc[u] \/ u = t
    BY <2>1
  <2>7. pc'[t] \in {"answer", "fill"}
    BY <2>1
  <2>8. calm' \in [Thread -> BOOLEAN]
    BY <1>4, TouchType DEF Fill
  <2>9. TypeOK'
    BY <2>3, <2>4, <2>5, <2>6, <2>8
  <2>10. \A u \in Thread : saved'[u] = saved[u] \/ u = t
    BY <2>1
  <2>11. StageOK'
    BY <2>4, <2>6, <2>7, <2>10
  <2> QED
    BY <2>9, <2>11
<1>5. CASE Answer(t)
  <2>1. PageOf(t) \in App /\ req[t].session \in Session
    BY <1>5, RequestKinds DEF Answer
  <2> QED
    BY <1>5, <2>1 DEF Answer
<1> QED
  BY <1>1, <1>2, <1>3, <1>4, <1>5 DEF Query

\* What FindById gives the request, and what the handlers make of it.
LEMMA FoundRequest ==
    ASSUME TypeOK, StageOK, NEW t \in Thread, FindById(t)
    PROVE  \E old \in allRules :
             LET q == [req[t] EXCEPT !.app = old.app]
             IN  /\ old.id = req[t].id
                 /\ req' = [req EXCEPT ![t] = q]
                 /\ q.session = req[t].session /\ q.id = req[t].id /\ q.op = req[t].op
                 /\ q.app = old.app
                 /\ req[t] \in UpdateRequest => q \in UpdateRequest /\ q.flowId = req[t].flowId
                 /\ req[t] \in DeleteRequest => q \in DeleteRequest
<1>1. PICK old \in allRules :
        /\ old.id = req[t].id
        /\ req' = [req EXCEPT ![t].app = old.app]
  BY DEF FindById
<1>2. req[t] \in UpdateRequest \cup DeleteRequest
  BY DEF FindById, StageOK
<1>3. old.app \in App
  BY DEF TypeOK, Rule
<1> DEFINE q == [req[t] EXCEPT !.app = old.app]
<1>4. req' = [req EXCEPT ![t] = q]
  BY <1>1
<1>5. CASE req[t] \in UpdateRequest
  <2>1. q \in UpdateRequest /\ q.session = req[t].session /\ q.id = req[t].id
        /\ q.op = req[t].op /\ q.app = old.app /\ q.flowId = req[t].flowId
    BY <1>3, <1>5 DEF UpdateRequest
  <2>2. req[t] \notin DeleteRequest
    BY <1>5, RequestKinds
  <2> QED
    BY <1>1, <1>4, <2>1, <2>2
<1>6. CASE req[t] \in DeleteRequest
  <2>1. q \in DeleteRequest /\ q.session = req[t].session /\ q.id = req[t].id
        /\ q.op = req[t].op /\ q.app = old.app
    BY <1>3, <1>6 DEF DeleteRequest
  <2>2. req[t] \notin UpdateRequest
    BY <1>6, RequestKinds
  <2> QED
    BY <1>1, <1>4, <2>1, <2>2
<1> QED
  BY <1>2, <1>5, <1>6

\* The rule that SaveRule saves, and the request with the id it got.
SubmittedRule(t) ==
    [id     |-> IF req[t].op = "add" THEN nextId ELSE req[t].id,
     app    |-> req[t].app,
     body   |-> req[t].body,
     flowId |-> req[t].flowId]

LEMMA Submitted ==
    ASSUME TypeOK, StageOK, NEW t \in Thread, SaveRule(t)
    PROVE  /\ SubmittedRule(t) \in Rule
           /\ SubmittedRule(t).id = IF req[t].op = "add" THEN nextId ELSE req[t].id
           /\ SubmittedRule(t).app = req[t].app
           /\ SubmittedRule(t).body = req[t].body
           /\ SubmittedRule(t).flowId = req[t].flowId
           /\ Save(SubmittedRule(t))
           /\ req[t] \in AddRequest \cup UpdateRequest
           /\ req[t] \in EditRequest
           /\ req' = [req EXCEPT ![t] = [req[t] EXCEPT !.id = SubmittedRule(t).id]]
<1>1. pc[t] = "save" /\ req[t] \in AddRequest \cup UpdateRequest
  BY DEF SaveRule, StageOK
<1>2. nextId \in Id
  BY DEF TypeOK, nextId, Id, NoId
<1>3. SubmittedRule(t) \in Rule
  <2>1. CASE req[t] \in AddRequest
    BY <1>2, <2>1, RequestKinds DEF SubmittedRule, AddRequest, Rule, NoId
  <2>2. CASE req[t] \in UpdateRequest
    BY <2>2, RequestKinds DEF SubmittedRule, UpdateRequest, Rule
  <2> QED
    BY <1>1, <2>1, <2>2
<1>4. Save(SubmittedRule(t))
  BY DEF SaveRule, SubmittedRule
<1>5. req' = [req EXCEPT ![t] = [req[t] EXCEPT !.id = SubmittedRule(t).id]]
  BY DEF SaveRule, SubmittedRule
<1> QED
  BY <1>1, <1>3, <1>4, <1>5 DEF SubmittedRule, EditRequest

LEMMA SavedRequest ==
    ASSUME TypeOK, StageOK, NEW t \in Thread, SaveRule(t)
    PROVE  /\ req' \in [Thread -> {NoRequest} \cup QueryRequest \cup EditRequest]
           /\ \A u \in Thread : u # t => req'[u] = req[u]
           /\ req'[t].session = req[t].session
           /\ req'[t].op = req[t].op
           /\ req'[t].app = req[t].app
           /\ req'[t].body = req[t].body
           /\ req'[t].flowId = req[t].flowId
           /\ req'[t].id = SubmittedRule(t).id
           /\ req'[t].id \in Id
           /\ req[t] \in AddRequest => req'[t] \in AddRequest
           /\ req[t] \in UpdateRequest => req'[t] \in UpdateRequest
<1> DEFINE i == SubmittedRule(t).id
           q == [req[t] EXCEPT !.id = i]
<1>1. i \in Id /\ req' = [req EXCEPT ![t] = q]
  BY Submitted DEF Rule
<1>2. req[t] \in AddRequest \cup UpdateRequest
  BY Submitted
<1> HIDE DEF i
<1>3. /\ q.session = req[t].session /\ q.op = req[t].op /\ q.app = req[t].app
      /\ q.body = req[t].body /\ q.flowId = req[t].flowId /\ q.id = i
      /\ req[t] \in AddRequest => q \in AddRequest
      /\ req[t] \in UpdateRequest => q \in UpdateRequest
  BY <1>1, <1>2, RequestKinds DEF AddRequest, UpdateRequest, Id
<1> HIDE DEF q
<1> QED
  BY <1>1, <1>2, <1>3 DEF TypeOK, EditRequest, i

LEMMA EditType ==
    ASSUME TypeOK, StageOK, NEW t \in Thread, Edit(t)
    PROVE  TypeOK' /\ StageOK'
<1> USE DEF TypeOK, StageOK, Stage, Goto, PageOf, repository, counter, client
<1>1. CASE FindById(t)
  <2>1. /\ pc[t] = "lookup"
        /\ pc' = [pc EXCEPT ![t] = IF req[t].op = "update" THEN "save" ELSE "remove"]
        /\ UNCHANGED <<nacos, repository, counter, client, list, saved, calm>>
    BY <1>1 DEF FindById
  <2>2. /\ req' \in [Thread -> {NoRequest} \cup QueryRequest \cup EditRequest]
        /\ \A u \in Thread : u # t => req'[u] = req[u]
        /\ req'[t].session = req[t].session
        /\ req[t] \in UpdateRequest => req'[t] \in UpdateRequest
        /\ req[t] \in DeleteRequest => req'[t] \in DeleteRequest
    <3>1. req[t] \in UpdateRequest \cup DeleteRequest
      BY <2>1
    <3>2. PICK q : /\ req' = [req EXCEPT ![t] = q]
                   /\ q.session = req[t].session
                   /\ req[t] \in UpdateRequest => q \in UpdateRequest
                   /\ req[t] \in DeleteRequest => q \in DeleteRequest
      BY <1>1, FoundRequest
    <3> QED
      BY <3>1, <3>2 DEF EditRequest
  <2>3. req[t] \in UpdateRequest \cup DeleteRequest
    BY <2>1
  <2>4. TypeOK'
    BY <2>1, <2>2
  <2>5. pc'[t] = IF req[t] \in UpdateRequest THEN "save" ELSE "remove"
    BY <2>1, <2>3, RequestKinds
  <2>6. StageOK'
    BY <2>1, <2>2, <2>3, <2>5, RequestKinds DEF EditRequest
  <2> QED
    BY <2>4, <2>6
<1>2. CASE FindsNothing(t)
  <2>1. req[t] \in EditRequest
    BY <1>2 DEF FindsNothing, EditRequest
  <2>2. [op |-> "query", session |-> req[t].session] \in QueryRequest
    BY <2>1, RequestKinds DEF QueryRequest
  <2>3. CASE req[t].op = "update"
    <3>1. /\ req' = [req EXCEPT ![t] = NoRequest]
          /\ pc' = [pc EXCEPT ![t] = "ready"]
          /\ pc[t] = "lookup"
          /\ UNCHANGED <<nacos, repository, counter, client, list, saved, calm>>
      BY <1>2, <2>3 DEF FindsNothing
    <3> QED
      BY <3>1, RequestKinds
  <2>4. CASE req[t].op # "update"
    <3>1. /\ req' = [req EXCEPT ![t] = [op |-> "query", session |-> req[t].session]]
          /\ pc' = [pc EXCEPT ![t] = "query"]
          /\ pc[t] = "lookup"
          /\ UNCHANGED <<nacos, repository, counter, client, list, saved, calm>>
      BY <1>2, <2>4 DEF FindsNothing, SendQuery
    <3>2. req'[t].session = req[t].session /\ req[t] # NoRequest
      BY <2>1, <3>1, RequestKinds
    <3> QED
      BY <2>2, <3>1, <3>2
  <2> QED
    BY <2>3, <2>4
<1>3. CASE SaveRule(t)
  <2>1. allRules' \in SUBSET Rule /\ appRules' \in [App -> SUBSET Rule]
    BY <1>3, Submitted, SaveType
  <2>2. req[t].app \in App /\ req[t] # NoRequest
    BY <1>3, Submitted, RequestKinds
  <2>3. ids' \in Nat /\ owner' \in [1 .. ids' -> App]
    BY <1>3, <2>2 DEF SaveRule
  <2>4. calm' \in [Thread -> BOOLEAN]
    BY <1>3, TouchType DEF SaveRule
  <2>5. /\ pc[t] = "save" /\ pc' = [pc EXCEPT ![t] = "find"]
        /\ UNCHANGED <<nacos, restarts, client, list, saved>>
    BY <1>3 DEF SaveRule
  <2>6. TypeOK'
    BY <1>3, <2>1, <2>3, <2>4, <2>5, SavedRequest
  <2>7. req'[t] \in EditRequest /\ req'[t].id \in Id
        /\ req'[t].session = req[t].session /\ \A u \in Thread : u # t => req'[u] = req[u]
    BY <1>3, Submitted, SavedRequest DEF EditRequest
  <2>8. StageOK'
    <3>1. \A s \in Session : rows'[s] # {} => page'[s] \in App
      BY <2>5
    <3>2. ASSUME NEW u \in Thread, u # t
          PROVE  pc'[u] = pc[u] /\ req'[u] = req[u] /\ saved'[u] = saved[u]
      BY <2>5, <2>7, <3>2
    <3>3. pc'[t] = "find" /\ saved'[t] = {} /\ page'[req'[t].session] \in App
      BY <2>2, <2>5, <2>7
    <3> QED
      BY <2>5, <2>7, <3>1, <3>2, <3>3
  <2> QED
    BY <2>6, <2>8
<1>4. CASE RemoveRule(t)
  <2>1. /\ pc[t] = "remove" /\ req[t] \in DeleteRequest
        /\ pc' = [pc EXCEPT ![t] = "find"]
        /\ UNCHANGED <<nacos, counter, client, req, list, saved>>
        /\ allRules' \in SUBSET Rule /\ appRules' \in [App -> SUBSET Rule]
    BY <1>4 DEF RemoveRule, Delete
  <2>2. calm' \in [Thread -> BOOLEAN]
    BY <1>4, TouchType DEF RemoveRule
  <2>3. req[t] \in EditRequest /\ req[t].id \in Id
    BY <2>1, RequestKinds DEF EditRequest
  <2> QED
    BY <2>1, <2>2, <2>3
<1>5. CASE FindAll(t)
  <2>1. req[t].app \in App
    BY <1>5, RequestKinds DEF FindAll
  <2> QED
    BY <1>5, <2>1 DEF FindAll
<1>6. ASSUME PublishConfig(t)
      PROVE  /\ nacos' \in [App -> SUBSET Rule]
             /\ list' \in [Thread -> SUBSET Rule]
             /\ calm' \in [Thread -> BOOLEAN]
             /\ pc[t] = "publish" /\ req[t] \in EditRequest /\ saved[t] = {}
             /\ UNCHANGED <<repository, counter, client, saved>>
  BY <1>6, TouchType DEF PublishConfig
<1>7. CASE Publish(t)
  <2>1. [op |-> "query", session |-> req[t].session] \in QueryRequest
    BY <1>6, <1>7, RequestKinds DEF QueryRequest, Publish
  <2> QED
    BY <1>6, <1>7, <2>1, RequestKinds DEF Publish, SendQuery
<1>8. CASE PublishFails(t)
  BY <1>6, <1>8 DEF PublishFails
<1> QED
  BY <1>1, <1>2, <1>3, <1>4, <1>5, <1>7, <1>8 DEF Edit

LEMMA RestartType ==
    ASSUME TypeOK, Restart
    PROVE  TypeOK' /\ StageOK'
BY DEF TypeOK, StageOK, Restart, Stage

LEMMA NextType == TypeOK /\ StageOK /\ [Next]_vars => (TypeOK /\ StageOK)'
<1> SUFFICES ASSUME TypeOK, StageOK, [Next]_vars PROVE (TypeOK /\ StageOK)'
  OBVIOUS
<1>1. CASE UNCHANGED vars
  BY <1>1 DEF vars, repository, counter, client, TypeOK, StageOK, PageOf
<1> QED
  BY <1>1, RestartType, RequestType, QueryType, EditType DEF Next

LEMMA TypeInvariant == Spec => [](TypeOK /\ StageOK)
BY InitType, NextType, PTL DEF Spec

\* Every variable always has its type; no rule without an id is ever stored.
THEOREM TypeCorrect == Spec => []TypeOK
BY TypeInvariant, PTL

-----------------------------------------------------------------------------
(* Documents are well formed *)

LEMMA InitStored == Init => StoredEverywhere
BY RequestKinds DEF Init, StoredEverywhere, KeyedById, EditRequest

\* save of a rule of application a leaves both maps with such rules.
LEMMA SaveStored ==
    ASSUME TypeOK, NEW r \in Rule, r.flowId \in {NoId, r.id}, Save(r),
           NEW a \in App, KeyedById(appRules[a]), \A q \in appRules[a] : Stored(q, a)
    PROVE  KeyedById(appRules'[a]) /\ \A q \in appRules'[a] : Stored(q, a)
<1> DEFINE e == preProcess(r)
<1>1. Stored(e, r.app) /\ e.app = r.app /\ r.app \in App
  BY PreProcess DEF Stored, Rule
<1> HIDE DEF e
<1>2. CASE a = r.app
  <2>1. appRules'[a] = Put(appRules[a], e)
    BY <1>1, <1>2 DEF Save, TypeOK, e
  <2>2. \A q \in appRules'[a] : q = e \/ (q \in appRules[a] /\ q.id # e.id)
    BY <2>1 DEF Put
  <2>3. KeyedById(appRules'[a])
    BY <2>2 DEF KeyedById
  <2> QED
    BY <1>1, <1>2, <2>2, <2>3
<1>3. CASE a # r.app
  <2>1. appRules'[a] = appRules[a]
    BY <1>1, <1>3 DEF Save, TypeOK, e
  <2> QED
    BY <2>1
<1> QED
  BY <1>2, <1>3

LEMMA RequestStored ==
    ASSUME TypeOK, StageOK, StoredEverywhere, NEW t \in Thread, Request(t)
    PROVE  StoredEverywhere'
<1> USE DEF TypeOK, StoredEverywhere, Goto, PageOf, SendQuery, Send,
            repository, counter, client
<1>1. ASSUME NEW s \in Session, NEW a \in App, OpenPage(t, s, a)
      PROVE  StoredEverywhere'
  <2>1. \A u \in Thread : req[u] # NoRequest => req[u].session # s
    BY <1>1 DEF OpenPage, StageOK
  <2>2. rows[s] = {}
    BY <1>1 DEF OpenPage, StageOK
  <2>3. [op |-> "query", session |-> s] \in QueryRequest
    BY DEF QueryRequest
  <2>4. \A u \in Thread : pc[u] \in {"clear", "fill", "answer"} => req[u] # NoRequest
    BY RequestKinds DEF StageOK
  <2> QED
    BY <1>1, <2>1, <2>2, <2>3, <2>4, RequestKinds DEF OpenPage, EditRequest
<1>2. ASSUME NEW s \in Session, ChooseMachine(t, s)
      PROVE  StoredEverywhere'
  <2>1. [op |-> "query", session |-> s] \in QueryRequest
    BY DEF QueryRequest
  <2> QED
    BY <1>2, <2>1, RequestKinds DEF ChooseMachine, EditRequest
<1>3. ASSUME NEW s \in Session, NEW b \in Body, Add(t, s, b)
      PROVE  StoredEverywhere'
  <2>1. req'[t] \notin UpdateRequest
    BY <1>3, RequestKinds DEF Add
  <2> QED
    BY <1>3, <2>1 DEF Add
<1>4. ASSUME NEW s \in Session, NEW r \in rows[s], NEW b \in Body, Update(t, s, r, b)
      PROVE  StoredEverywhere'
  <2>1. r.flowId \in {NoId, r.id}
    BY DEF Stored
  <2> QED
    BY <1>4, <2>1 DEF Update
<1>5. ASSUME NEW s \in Session, NEW r \in rows[s], DeleteRule(t, s, r)
      PROVE  StoredEverywhere'
  <2>1. req'[t] \notin UpdateRequest
    BY <1>5, RequestKinds DEF DeleteRule
  <2> QED
    BY <1>5, <2>1 DEF DeleteRule
<1> QED
  BY <1>1, <1>2, <1>3, <1>4, <1>5 DEF Request

LEMMA QueryStored ==
    ASSUME TypeOK, StageOK, StoredEverywhere, NEW t \in Thread, Query(t)
    PROVE  StoredEverywhere'
<1> USE DEF TypeOK, StoredEverywhere, Goto, PageOf, repository, counter, client
<1>1. CASE GetRules(t)
  <2>1. PageOf(t) \in App
    BY <1>1, RequestKinds DEF GetRules, StageOK
  <2>2. ASSUME NEW r \in nacos[PageOf(t)]
        PROVE  Stored(Loaded(r, PageOf(t)), PageOf(t))
    <3>1. r \in Rule /\ r.id # NoId /\ Stored(r, PageOf(t))
      BY <2>1 DEF Rule, Id
    <3>2. Loaded(r, PageOf(t)).id = r.id
      BY <2>1, <3>1, LoadedRule DEF Stored
    <3> QED
      BY <2>1, <3>1, <3>2, LoadedRule DEF Stored
  <2>3. /\ list' = [list EXCEPT ![t] = {Loaded(r, PageOf(t)) : r \in nacos[PageOf(t)]}]
        /\ pc' = [pc EXCEPT ![t] = "clear"]
        /\ UNCHANGED <<nacos, appRules, client, req, saved>>
    BY <1>1 DEF GetRules
  <2> QED
    BY <2>2, <2>3
<1>2. CASE GetRulesFails(t)
  <2>1. saved[t] = {}
    BY <1>2 DEF GetRulesFails, StageOK
  <2> QED
    BY <1>2, <2>1 DEF GetRulesFails
<1>3. CASE Clear(t)
  <2>1. saved[t] = {}
    BY <1>3 DEF Clear, StageOK
  <2> QED
    BY <1>3, <2>1 DEF Clear, KeyedById
<1>4. CASE Fill(t)
  <2>1. PICK r \in list[t] :
          /\ Save(r)
          /\ list' = [list EXCEPT ![t] = @ \ {r}]
          /\ saved' = [saved EXCEPT ![t] = @ \cup {preProcess(r)}]
          /\ Goto(t, IF list[t] = {r} THEN "answer" ELSE "fill")
    BY <1>4 DEF Fill
  <2>2. pc[t] = "fill" /\ UNCHANGED <<nacos, client, req>>
    BY <1>4 DEF Fill
  <2>3. r \in Rule /\ Stored(r, PageOf(t)) /\ r.flowId \in {NoId, r.id}
    BY <2>1, <2>2 DEF Stored
  <2>4. \A a \in App : KeyedById(appRules'[a]) /\ \A q \in appRules'[a] : Stored(q, a)
    BY <2>1, <2>3, SaveStored
  <2>5. Stored(preProcess(r), PageOf(t))
    BY <2>3, PreProcess DEF Stored
  <2>6. \A q \in saved'[t] : Stored(q, PageOf(t))
    BY <2>1, <2>2, <2>5
  <2>7. \A u \in Thread : u # t => pc'[u] = pc[u] /\ list'[u] = list[u] /\ saved'[u] = saved[u]
    BY <2>1
  <2>8. pc'[t] \in {"answer", "fill"} /\ list'[t] \subseteq list[t]
    BY <2>1, <2>2
  <2> QED
    BY <2>2, <2>4, <2>6, <2>7, <2>8
<1>5. CASE Answer(t)
  <2>1. \A s \in Session : \/ rows'[s] = rows[s]
                           \/ rows'[s] = saved[t] /\ s = req[t].session
    BY <1>5 DEF Answer
  <2>2. NoRequest \notin UpdateRequest
    BY RequestKinds DEF EditRequest
  <2>3. /\ pc[t] = "answer" /\ pc' = [pc EXCEPT ![t] = "ready"]
        /\ req' = [req EXCEPT ![t] = NoRequest]
        /\ saved' = [saved EXCEPT ![t] = {}]
        /\ UNCHANGED <<nacos, appRules, page, list>>
    BY <1>5 DEF Answer
  <2> QED
    BY <2>1, <2>2, <2>3
<1> QED
  BY <1>1, <1>2, <1>3, <1>4, <1>5 DEF Query

LEMMA EditStored ==
    ASSUME TypeOK, StageOK, StoredEverywhere, NEW t \in Thread, Edit(t)
    PROVE  StoredEverywhere'
<1> USE DEF TypeOK, StoredEverywhere, Goto, PageOf, repository, counter, client
<1>1. CASE FindById(t)
  <2>1. req[t] \in UpdateRequest \cup DeleteRequest
    BY <1>1 DEF FindById, StageOK
  <2>2. PICK q : /\ req' = [req EXCEPT ![t] = q]
                 /\ q.session = req[t].session /\ q.id = req[t].id
                 /\ req[t] \in UpdateRequest => q.flowId = req[t].flowId
                 /\ req[t] \in DeleteRequest => q \in DeleteRequest
    BY <1>1, FoundRequest
  <2>3. /\ pc' = [pc EXCEPT ![t] = IF req[t].op = "update" THEN "save" ELSE "remove"]
        /\ UNCHANGED <<nacos, appRules, rows, page, list, saved>>
    BY <1>1 DEF FindById
  <2>4. req'[t] \in UpdateRequest => req'[t].flowId \in {NoId, req'[t].id}
    BY <2>1, <2>2, RequestKinds
  <2>5. \A u \in Thread : u # t => req'[u] = req[u] /\ pc'[u] = pc[u]
    BY <2>2, <2>3
  <2>6. pc'[t] \in {"save", "remove"}
    BY <2>3
  <2> QED
    BY <2>3, <2>4, <2>5, <2>6
<1>2. CASE FindsNothing(t)
  <2>1. \/ req' = [req EXCEPT ![t] = NoRequest]
        \/ req' = [req EXCEPT ![t] = [op |-> "query", session |-> req[t].session]]
    BY <1>2 DEF FindsNothing, SendQuery
  <2>2. /\ \E stage \in {"ready", "query"} : pc' = [pc EXCEPT ![t] = stage]
        /\ UNCHANGED <<nacos, appRules, rows, page, list, saved>>
    BY <1>2 DEF FindsNothing, SendQuery
  <2>3. req'[t] \notin UpdateRequest
    BY <2>1, RequestKinds DEF EditRequest, NoRequest
  <2> QED
    BY <2>1, <2>2, <2>3
<1>3. CASE SaveRule(t)
  <2>1. SubmittedRule(t) \in Rule /\ Save(SubmittedRule(t))
    BY <1>3, Submitted
  <2>2. SubmittedRule(t).flowId \in {NoId, SubmittedRule(t).id}
    BY <1>3, Submitted, RequestKinds DEF AddRequest
  <2>3. \A a \in App : KeyedById(appRules'[a]) /\ \A q \in appRules'[a] : Stored(q, a)
    BY <2>1, <2>2, SaveStored
  <2>4. req'[t].flowId \in {NoId, req'[t].id}
    BY <1>3, <2>2, Submitted, SavedRequest
  <2>5. /\ pc' = [pc EXCEPT ![t] = "find"]
        /\ UNCHANGED <<nacos, rows, page, list, saved>>
    BY <1>3 DEF SaveRule
  <2>6. \A u \in Thread : u # t => req'[u] = req[u]
    BY <1>3, SavedRequest
  <2> QED
    BY <2>3, <2>4, <2>5, <2>6
<1>4. CASE RemoveRule(t)
  <2>1. \A a \in App : appRules'[a] \subseteq appRules[a]
    BY <1>4 DEF RemoveRule, Delete
  <2> QED
    BY <1>4, <2>1 DEF RemoveRule, KeyedById
<1>5. CASE FindAll(t)
  <2>1. req[t].app \in App
    BY <1>5, RequestKinds DEF FindAll, StageOK
  <2> QED
    BY <1>5, <2>1 DEF FindAll
<1>6. ASSUME PublishConfig(t)
      PROVE  \A a \in App : KeyedById(nacos'[a]) /\ \A r \in nacos'[a] : Stored(r, a)
  <2>1. req[t].app \in App
    BY <1>6, RequestKinds DEF PublishConfig, StageOK
  <2>2. \A a \in App : \/ nacos'[a] = nacos[a]
                       \/ nacos'[a] = list[t] /\ a = req[t].app
    BY <1>6 DEF PublishConfig
  <2> QED
    BY <1>6, <2>1, <2>2 DEF PublishConfig
<1>7. CASE Publish(t) \/ PublishFails(t)
  <2>1. PublishConfig(t)
    BY <1>7 DEF Publish, PublishFails
  <2>2. \/ req' = [req EXCEPT ![t] = NoRequest]
        \/ req' = [req EXCEPT ![t] = [op |-> "query", session |-> req[t].session]]
    BY <1>7 DEF Publish, PublishFails, SendQuery
  <2>3. /\ \E stage \in {"ready", "query"} : pc' = [pc EXCEPT ![t] = stage]
        /\ list' = [list EXCEPT ![t] = {}]
        /\ UNCHANGED <<appRules, rows, page, saved>>
    BY <1>7, <2>1 DEF Publish, PublishFails, SendQuery, PublishConfig
  <2>4. req'[t] \notin UpdateRequest
    BY <2>2, RequestKinds DEF EditRequest, NoRequest
  <2> QED
    BY <1>6, <2>1, <2>2, <2>3, <2>4
<1> QED
  BY <1>1, <1>2, <1>3, <1>4, <1>5, <1>7 DEF Edit

LEMMA NextStored ==
    TypeOK /\ StageOK /\ StoredEverywhere /\ [Next]_vars => StoredEverywhere'
<1> SUFFICES ASSUME TypeOK, StageOK, StoredEverywhere, [Next]_vars
             PROVE  StoredEverywhere'
  OBVIOUS
<1>1. CASE Restart
  BY <1>1, RequestKinds DEF Restart, StoredEverywhere, KeyedById, EditRequest
<1>2. CASE UNCHANGED vars
  BY <1>2 DEF vars, repository, client, StoredEverywhere, PageOf
<1> QED
  BY <1>1, <1>2, RequestStored, QueryStored, EditStored DEF Next

LEMMA StoredInvariant == Spec => []StoredEverywhere
BY InitStored, NextStored, TypeInvariant, PTL DEF Spec

\* The document of an application never mixes in a rule of another one, never
\* has two rules with one id, and its cluster rules carry their ids, through
\* every interleaving of requests, failure and restart.
THEOREM DocumentsWellFormed == Spec => []WellFormed
<1>1. StoredEverywhere => WellFormed
  BY DEF StoredEverywhere, WellFormed, KeyedById, Stored
<1> QED
  BY <1>1, StoredInvariant, PTL

-----------------------------------------------------------------------------
(* Ids, as long as the dashboard does not restart *)

LEMMA InitDrawn == Init => DrawnEverywhere
BY RequestKinds DEF Init, DrawnEverywhere

\* save adds one rule, with the id and the application of the one it is given.
LEMMA SaveAdds ==
    ASSUME TypeOK, NEW r \in Rule, Save(r)
    PROVE  /\ \A a \in App : \A q \in appRules'[a] :
                q \in appRules[a] \/ (q.id = r.id /\ a = r.app)
           /\ \A q \in allRules' :
                q \in allRules \/ (q.id = r.id /\ q.app = r.app)
<1> DEFINE e == preProcess(r)
<1>1. e.id = r.id /\ e.app = r.app /\ r.app \in App
  BY PreProcess DEF Rule
<1>2. allRules' = Put(allRules, e) /\ appRules' = [appRules EXCEPT ![e.app] = Put(@, e)]
  BY DEF Save
<1> HIDE DEF e
<1> QED
  BY <1>1, <1>2 DEF Put, TypeOK

LEMMA RequestDrawn ==
    ASSUME TypeOK, StageOK, StoredEverywhere, DrawnEverywhere,
           NEW t \in Thread, Request(t)
    PROVE  DrawnEverywhere'
<1> USE DEF TypeOK, DrawnEverywhere, Drawn, Goto, PageOf, SendQuery, Send,
            repository, counter, client
<1>1. ASSUME NEW s \in Session, NEW a \in App, OpenPage(t, s, a)
      PROVE  DrawnEverywhere'
  <2>1. \A u \in Thread : req[u] # NoRequest => req[u].session # s
    BY <1>1 DEF OpenPage, StageOK
  <2>2. rows[s] = {}
    BY <1>1 DEF OpenPage, StageOK
  <2>3. [op |-> "query", session |-> s] \in QueryRequest
    BY DEF QueryRequest
  <2>4. \A u \in Thread : pc[u] \in {"clear", "fill", "answer"} => req[u] # NoRequest
    BY RequestKinds DEF StageOK
  <2> QED
    BY <1>1, <2>1, <2>2, <2>3, <2>4, RequestKinds DEF OpenPage
<1>2. ASSUME NEW s \in Session, ChooseMachine(t, s)
      PROVE  DrawnEverywhere'
  <2>1. [op |-> "query", session |-> s] \in QueryRequest
    BY DEF QueryRequest
  <2> QED
    BY <1>2, <2>1, RequestKinds DEF ChooseMachine
<1>3. ASSUME NEW s \in Session, NEW b \in Body, Add(t, s, b)
      PROVE  DrawnEverywhere'
  BY <1>3 DEF Add
<1>4. ASSUME NEW s \in Session, NEW r \in rows[s]
      PROVE  r.app = page[s] /\ Drawn(r.id, page[s])
  BY <1>4 DEF StoredEverywhere, Stored
<1>5. ASSUME NEW s \in Session, NEW r \in rows[s], NEW b \in Body, Update(t, s, r, b)
      PROVE  DrawnEverywhere'
  BY <1>4, <1>5 DEF Update
<1>6. ASSUME NEW s \in Session, NEW r \in rows[s], DeleteRule(t, s, r)
      PROVE  DrawnEverywhere'
  BY <1>4, <1>6 DEF DeleteRule
<1> QED
  BY <1>1, <1>2, <1>3, <1>5, <1>6 DEF Request

LEMMA QueryDrawn ==
    ASSUME TypeOK, StageOK, StoredEverywhere, DrawnEverywhere,
           NEW t \in Thread, Query(t)
    PROVE  DrawnEverywhere'
<1> USE DEF TypeOK, DrawnEverywhere, Drawn, Goto, PageOf, repository, counter, client
<1>1. CASE GetRules(t)
  <2>1. PageOf(t) \in App
    BY <1>1, RequestKinds DEF GetRules, StageOK
  <2>2. ASSUME NEW r \in nacos[PageOf(t)]
        PROVE  Loaded(r, PageOf(t)).id = r.id
    <3>1. r \in Rule /\ Stored(r, PageOf(t))
      BY <2>1 DEF StoredEverywhere
    <3> QED
      BY <2>1, <3>1, LoadedRule DEF Stored
  <2>3. /\ list' = [list EXCEPT ![t] = {Loaded(r, PageOf(t)) : r \in nacos[PageOf(t)]}]
        /\ pc[t] = "query"
        /\ pc' = [pc EXCEPT ![t] = "clear"]
        /\ UNCHANGED <<nacos, ids, owner, allRules, appRules, rows, page, req, saved>>
    BY <1>1 DEF GetRules
  <2>4. ASSUME NEW q \in list'[t]
        PROVE  Drawn(q.id, PageOf(t))
    <3>1. PICK r \in nacos[PageOf(t)] : q = Loaded(r, PageOf(t))
      BY <2>3
    <3> QED
      BY <2>1, <2>2, <3>1
  <2> QED
    BY <2>3, <2>4
<1>2. CASE GetRulesFails(t)
  <2>1. saved[t] = {}
    BY <1>2 DEF GetRulesFails, StageOK
  <2> QED
    BY <1>2, <2>1 DEF GetRulesFails
<1>3. CASE Clear(t)
  <2>1. saved[t] = {}
    BY <1>3 DEF Clear, StageOK
  <2> QED
    BY <1>3, <2>1 DEF Clear
<1>4. CASE Fill(t)
  <2>1. PICK r \in list[t] :
          /\ Save(r)
          /\ list' = [list EXCEPT ![t] = @ \ {r}]
          /\ saved' = [saved EXCEPT ![t] = @ \cup {preProcess(r)}]
          /\ Goto(t, IF list[t] = {r} THEN "answer" ELSE "fill")
    BY <1>4 DEF Fill
  <2>2. pc[t] = "fill" /\ UNCHANGED <<nacos, ids, owner, page, rows, req>>
    BY <1>4 DEF Fill
  <2>3. r \in Rule /\ r.app = PageOf(t) /\ Drawn(r.id, PageOf(t))
    BY <2>1, <2>2 DEF StoredEverywhere, Stored
  <2>4. preProcess(r).id = r.id
    BY <2>3, PreProcess
  <2>5. /\ \A a \in App : \A q \in appRules'[a] : Drawn(q.id, a)
        /\ \A q \in allRules' : Drawn(q.id, q.app)
    BY <2>1, <2>3, SaveAdds
  <2>6. \A q \in saved'[t] : Drawn(q.id, PageOf(t))
    BY <2>1, <2>2, <2>3, <2>4
  <2>7. \A u \in Thread : u # t => pc'[u] = pc[u] /\ list'[u] = list[u] /\ saved'[u] = saved[u]
    BY <2>1
  <2>8. pc'[t] \in {"answer", "fill"} /\ list'[t] \subseteq list[t]
    BY <2>1, <2>2
  <2> QED
    BY <2>2, <2>5, <2>6, <2>7, <2>8
<1>5. CASE Answer(t)
  <2>1. \A s \in Session : \/ rows'[s] = rows[s]
                           \/ rows'[s] = saved[t] /\ s = req[t].session
    BY <1>5 DEF Answer
  <2>2. /\ pc[t] = "answer" /\ pc' = [pc EXCEPT ![t] = "ready"]
        /\ req' = [req EXCEPT ![t] = NoRequest]
        /\ saved' = [saved EXCEPT ![t] = {}]
        /\ UNCHANGED <<nacos, ids, owner, allRules, appRules, page, list>>
    BY <1>5 DEF Answer
  <2> QED
    BY <2>1, <2>2, RequestKinds
<1> QED
  BY <1>1, <1>2, <1>3, <1>4, <1>5 DEF Query

LEMMA SaveDrawn ==
    ASSUME TypeOK, StageOK, DrawnEverywhere, NEW t \in Thread, SaveRule(t)
    PROVE  DrawnEverywhere'
<1> USE DEF TypeOK, Drawn, counter, client
<1> DEFINE r == SubmittedRule(t)
<1>1. /\ r \in Rule /\ Save(r) /\ r.app = req[t].app
      /\ r.id = IF req[t].op = "add" THEN ids + 1 ELSE req[t].id
      /\ req[t] \in EditRequest
  BY Submitted DEF nextId
<1>2. /\ UNCHANGED <<nacos, page, rows, list, saved>>
      /\ pc[t] = "save" /\ pc' = [pc EXCEPT ![t] = "find"]
      /\ ids' = IF req[t].op = "add" THEN ids + 1 ELSE ids
      /\ owner' = IF req[t].op = "add"
                   THEN [i \in 1 .. ids + 1 |-> IF i <= ids THEN owner[i] ELSE req[t].app]
                   ELSE owner
  BY DEF SaveRule, Goto
<1>3. ASSUME NEW i, NEW a, i \in 1 .. ids /\ owner[i] = a
      PROVE  i \in 1 .. ids' /\ owner'[i] = a
  BY <1>2, <1>3
<1>4. r.app = PageOf(t)
  BY <1>1 DEF DrawnEverywhere
<1>5. r.id \in 1 .. ids' /\ owner'[r.id] = r.app
  <2>1. CASE req[t].op = "add"
    BY <1>1, <1>2, <2>1
  <2>2. CASE req[t].op # "add"
    BY <1>1, <1>2, <1>4, <2>2 DEF DrawnEverywhere
  <2> QED
    BY <2>1, <2>2
<1>6. /\ req'[t].session = req[t].session /\ req'[t].app = r.app /\ req'[t].id = r.id
      /\ \A u \in Thread : u # t => req'[u] = req[u]
  BY <1>1, SavedRequest
<1> HIDE DEF r
<1>7. ASSUME NEW a \in App, NEW q \in appRules'[a]
      PROVE  Drawn(q.id, a)'
  <2>1. q \in appRules[a] \/ (q.id = r.id /\ a = r.app)
    BY <1>1, SaveAdds
  <2> QED
    BY <2>1, <1>3, <1>5 DEF DrawnEverywhere
<1>8. ASSUME NEW q \in allRules'
      PROVE  Drawn(q.id, q.app)'
  <2>1. q \in allRules \/ (q.id = r.id /\ q.app = r.app)
    BY <1>1, SaveAdds
  <2> QED
    BY <2>1, <1>3, <1>5 DEF DrawnEverywhere
<1>9. /\ \A a \in App : \A q \in nacos[a] : Drawn(q.id, a)'
      /\ \A s \in Session : \A q \in rows[s] : Drawn(q.id, page[s])'
  BY <1>2, <1>3 DEF DrawnEverywhere
<1>10. ASSUME NEW u \in Thread
       PROVE  /\ pc'[u] \in {"clear", "fill"} => \A q \in list'[u] : Drawn(q.id, PageOf(u))'
              /\ pc'[u] \in {"fill", "answer"} => \A q \in saved'[u] : Drawn(q.id, PageOf(u))'
              /\ pc'[u] = "publish" => \A q \in list'[u] : Drawn(q.id, req[u].app)'
              /\ req'[u] \in EditRequest =>
                   /\ req'[u].app = PageOf(u)'
                   /\ req'[u].op # "add" => Drawn(req[u].id, PageOf(u))'
  <2>1. CASE u = t
    BY <2>1, <1>2, <1>4, <1>5, <1>6 DEF PageOf
  <2>2. CASE u # t
    BY <2>2, <1>2, <1>3, <1>6 DEF DrawnEverywhere, PageOf
  <2> QED
    BY <2>1, <2>2
<1>11. \A a \in App : \A q \in nacos'[a] \cup appRules'[a] : Drawn(q.id, a)'
  BY <1>2, <1>7, <1>9
<1>12. \A s \in Session : \A q \in rows'[s] : Drawn(q.id, page[s])'
  BY <1>2, <1>9
<1> HIDE DEF Drawn, TypeOK
<1> QED
  BY <1>8, <1>10, <1>11, <1>12 DEF DrawnEverywhere

LEMMA EditDrawn ==
    ASSUME TypeOK, StageOK, DrawnEverywhere, NEW t \in Thread, Edit(t)
    PROVE  DrawnEverywhere'
<1> USE DEF TypeOK, DrawnEverywhere, Drawn, Goto, PageOf, repository, counter, client
<1>1. CASE FindById(t)
  <2>1. req[t] \in EditRequest /\ req[t].op # "add"
    BY <1>1, RequestKinds DEF FindById, StageOK, EditRequest
  <2>0. PICK old \in allRules :
          LET q == [req[t] EXCEPT !.app = old.app]
          IN  /\ old.id = req[t].id
              /\ req' = [req EXCEPT ![t] = q]
              /\ q.session = req[t].session /\ q.id = req[t].id /\ q.op = req[t].op
              /\ q.app = old.app
    <3> HIDE DEF TypeOK, DrawnEverywhere
    <3> QED
      BY <1>1, FoundRequest
  <2> DEFINE q == [req[t] EXCEPT !.app = old.app]
  <2>2. /\ old.id = req[t].id
        /\ req' = [req EXCEPT ![t] = q]
        /\ q.session = req[t].session /\ q.id = req[t].id
        /\ q.app = old.app
    BY <2>0
  <2> HIDE DEF q
  <2>3. old.app = PageOf(t)
    BY <2>1, <2>2
  <2>4. /\ pc' = [pc EXCEPT ![t] = IF req[t].op = "update" THEN "save" ELSE "remove"]
        /\ UNCHANGED <<nacos, ids, owner, allRules, appRules, rows, page, list, saved>>
    BY <1>1 DEF FindById
  <2>5. /\ req'[t].app = PageOf(t) /\ req'[t].session = req[t].session
        /\ req'[t].id = req[t].id
        /\ \A u \in Thread : u # t => req'[u] = req[u] /\ pc'[u] = pc[u]
    BY <2>2, <2>3, <2>4
  <2>6. pc'[t] \in {"save", "remove"}
    BY <2>4
  <2> QED
    BY <2>1, <2>4, <2>5, <2>6
<1>2. CASE FindsNothing(t) \/ Publish(t) \/ PublishFails(t)
  <2>1. \/ req' = [req EXCEPT ![t] = NoRequest]
        \/ req' = [req EXCEPT ![t] = [op |-> "query", session |-> req[t].session]]
    BY <1>2 DEF FindsNothing, SendQuery, Publish, PublishFails
  <2>2. /\ \E stage \in {"ready", "query"} : pc' = [pc EXCEPT ![t] = stage]
        /\ UNCHANGED <<ids, owner, allRules, appRules, rows, page, saved>>
        /\ \A u \in Thread : u # t => list'[u] = list[u]
    BY <1>2 DEF FindsNothing, SendQuery, Publish, PublishFails, PublishConfig
  <2>3. req[t] \in EditRequest
    BY <1>2 DEF FindsNothing, Publish, PublishFails, PublishConfig, StageOK, EditRequest
  <2>4. req'[t] \notin EditRequest
    <3>1. [op |-> "query", session |-> req[t].session] \in QueryRequest
      BY <2>3, RequestKinds DEF QueryRequest
    <3> QED
      BY <2>1, <3>1, RequestKinds
  <2>5. \A a \in App : \/ nacos'[a] = nacos[a]
                       \/ nacos'[a] = list[t] /\ a = req[t].app /\ pc[t] = "publish"
    BY <1>2 DEF FindsNothing, Publish, PublishFails, PublishConfig
  <2>6. ASSUME NEW a \in App, NEW r \in nacos'[a]
        PROVE  Drawn(r.id, a)
    <3>1. CASE r \in nacos[a]
      BY <3>1
    <3>2. CASE r \in list[t] /\ a = req[t].app /\ pc[t] = "publish"
      BY <3>2
    <3> QED
      BY <2>5, <3>1, <3>2
  <2>7. /\ \A u \in Thread : u # t => pc'[u] = pc[u] /\ req'[u] = req[u]
        /\ pc'[t] \in {"ready", "query"}
    BY <2>1, <2>2
  <2>8. /\ \A a \in App : \A r \in nacos'[a] \cup appRules'[a] : Drawn(r.id, a)'
        /\ \A r \in allRules' : Drawn(r.id, r.app)'
        /\ \A s \in Session : \A r \in rows'[s] : Drawn(r.id, page[s])'
    BY <2>2, <2>6
  <2>9. ASSUME NEW u \in Thread
        PROVE  /\ pc'[u] \in {"clear", "fill"} => \A r \in list'[u] : Drawn(r.id, PageOf(u))'
               /\ pc'[u] \in {"fill", "answer"} => \A r \in saved'[u] : Drawn(r.id, PageOf(u))'
               /\ pc'[u] = "publish" => \A r \in list'[u] : Drawn(r.id, req[u].app)'
               /\ req'[u] \in EditRequest =>
                    /\ req'[u].app = PageOf(u)'
                    /\ req'[u].op # "add" => Drawn(req[u].id, PageOf(u))'
    BY <2>2, <2>4, <2>7
  <2> HIDE DEF Drawn, TypeOK, PageOf
  <2> QED
    BY <2>8, <2>9
<1>3. CASE RemoveRule(t)
  <2>1. /\ \A a \in App : appRules'[a] \subseteq appRules[a]
        /\ allRules' \subseteq allRules
    BY <1>3 DEF RemoveRule, Delete
  <2> QED
    BY <1>3, <2>1 DEF RemoveRule
<1>4. CASE FindAll(t)
  <2>1. req[t].app \in App
    BY <1>4, RequestKinds DEF FindAll, StageOK
  <2> QED
    BY <1>4, <2>1 DEF FindAll
<1> QED
  BY <1>1, <1>2, <1>3, <1>4, SaveDrawn DEF Edit

\* A restart is counted, and nothing else changes the count.
LEMMA RestartsCounted ==
    ASSUME TypeOK, [Next]_vars
    PROVE  (restarts' = 0 => restarts = 0 /\ ~Restart) /\ (~Restart => restarts' = restarts)
<1>1. restarts \in Nat /\ (Restart => restarts' = restarts + 1)
  BY DEF Restart, TypeOK
<1>2. ASSUME NEW t \in Thread, Request(t)
      PROVE  restarts' = restarts
  BY <1>2 DEF Request, OpenPage, ChooseMachine, Add, Update, DeleteRule, Send, counter
<1>3. ASSUME NEW t \in Thread, Query(t)
      PROVE  restarts' = restarts
  BY <1>3 DEF Query, GetRules, GetRulesFails, Clear, Fill, Answer, counter
<1>4. ASSUME NEW t \in Thread, Edit(t)
      PROVE  restarts' = restarts
  BY <1>4 DEF Edit, FindById, FindsNothing, SaveRule, RemoveRule,
              FindAll, Publish, PublishFails, PublishConfig, counter
<1>5. UNCHANGED vars => restarts' = restarts
  BY DEF vars, counter
<1> QED
  BY <1>1, <1>2, <1>3, <1>4, <1>5 DEF Next

Drawing == restarts = 0 => DrawnEverywhere

LEMMA NextDrawn ==
    TypeOK /\ StageOK /\ StoredEverywhere /\ Drawing /\ [Next]_vars => Drawing'
<1> SUFFICES ASSUME TypeOK, StageOK, StoredEverywhere, Drawing, [Next]_vars, restarts' = 0
             PROVE  DrawnEverywhere'
  BY DEF Drawing
<1>1. ~Restart /\ DrawnEverywhere
  BY RestartsCounted DEF Drawing
<1>2. CASE UNCHANGED vars
  BY <1>1, <1>2 DEF vars, repository, counter, client, DrawnEverywhere, Drawn, PageOf
<1> QED
  BY <1>1, <1>2, RequestDrawn, QueryDrawn, EditDrawn DEF Next

LEMMA DrawnInvariant == Spec => []Drawing
<1>1. Init => Drawing
  BY InitDrawn DEF Drawing
<1> QED
  BY <1>1, NextDrawn, TypeInvariant, StoredInvariant, PTL DEF Spec

\* Until the first restart, an edit made on an application's page never reaches
\* another application's rules, whatever the pages do to the shared repository.
THEOREM EditsStayInApp == Spec => []EditStaysInApp
<1>1. Drawing => EditStaysInApp
  BY DEF Drawing, DrawnEverywhere, EditStaysInApp
<1> QED
  BY <1>1, DrawnInvariant, PTL

-----------------------------------------------------------------------------
(* Calm edits *)

\* A step that leaves the documents, the repository and calm alone, and the
\* thread of every calm edit where it is.
LEMMA CalmElsewhere ==
    ASSUME TypeOK, CalmEdit, UNCHANGED <<nacos, appRules, calm>>,
           \A u \in Thread : calm[u] =>
             pc'[u] = pc[u] /\ req'[u] = req[u] /\ list'[u] = list[u]
    PROVE  CalmEdit'
<1> SUFFICES ASSUME NEW u \in Thread, calm[u]
             PROVE  \/ /\ pc'[u] = "find"
                       /\ Edited(req'[u], nacos'[req'[u].app], appRules'[req'[u].app])
                    \/ pc'[u] = "publish" /\ Edited(req'[u], nacos'[req'[u].app], list'[u])
  BY DEF CalmEdit
<1>1. pc'[u] = pc[u] /\ req'[u] = req[u] /\ list'[u] = list[u]
  OBVIOUS
<1>2. \/ pc[u] = "find" /\ Edited(req[u], nacos[req[u].app], appRules[req[u].app])
      \/ pc[u] = "publish" /\ Edited(req[u], nacos[req[u].app], list[u])
  BY DEF CalmEdit
<1> QED
  BY <1>1, <1>2

\* Once another thread touches the repository or a document, no edit is calm.
LEMMA NobodyCalm ==
    ASSUME NEW t, Touch(t, FALSE)
    PROVE  CalmEdit'
BY DEF Touch, CalmEdit

\* save changes the rule it is given, and no other of its application.
LEMMA SaveEdits ==
    ASSUME TypeOK, NEW r \in Rule, Save(r),
           NEW q, q.id = r.id, q.op # "delete", q.body = r.body
    PROVE  Edited(q, appRules[r.app], appRules'[r.app])
<1> DEFINE e == preProcess(r)
           A == appRules'[r.app]
           Others(S) == {p \in S : p.id # q.id}
<1>1. e.id = r.id /\ e.app = r.app /\ e.body = r.body /\ r.app \in App
  BY PreProcess DEF Rule
<1>2. A = {p \in appRules[r.app] : p.id # e.id} \cup {e}
  BY <1>1 DEF Save, Put, TypeOK
<1> HIDE DEF e, A
<1>3. Others(A) = Others(appRules[r.app])
  BY <1>1, <1>2
<1>4. A \ Others(A) = {e}
  BY <1>1, <1>2
<1>5. {p.body : p \in A \ Others(A)} = {q.body}
  BY <1>1, <1>4
<1> QED
  BY <1>3, <1>5 DEF Edited, A

\* delete removes the rule with the id from its application, and no other.
LEMMA RemoveEdits ==
    ASSUME TypeOK, NEW a \in App, NEW q, q.op = "delete", Delete(q.id),
           \E x \in allRules : x.id = q.id /\ x.app = a
    PROVE  Edited(q, appRules[a], appRules'[a])
<1> DEFINE A == appRules'[a]
           Others(S) == {p \in S : p.id # q.id}
<1>1. A = {p \in appRules[a] : p.id # q.id}
  BY DEF Delete
<1> HIDE DEF A
<1>2. Others(A) = Others(appRules[a]) /\ A \ Others(A) = {}
  BY <1>1
<1>3. {p.body : p \in A \ Others(A)} = {}
  BY <1>2
<1> QED
  BY <1>2, <1>3 DEF Edited, A

\* A calm edit is neither a new request nor a query.
LEMMA RequestCalm ==
    ASSUME TypeOK, CalmEdit, NEW t \in Thread, Request(t) \/ Query(t)
    PROVE  CalmEdit'
<1>1. CASE Clear(t) \/ Fill(t)
  BY <1>1, NobodyCalm DEF Clear, Fill
<1>2. CASE GetRules(t) \/ GetRulesFails(t) \/ Answer(t)
  <2>1. /\ ~calm[t]
        /\ UNCHANGED <<nacos, appRules, calm>>
        /\ \A u \in Thread : u # t => pc'[u] = pc[u] /\ req'[u] = req[u] /\ list'[u] = list[u]
    BY <1>2 DEF GetRules, GetRulesFails, Answer, CalmEdit, TypeOK, Goto, repository
  <2> QED
    BY <2>1, CalmElsewhere
<1>3. CASE Request(t)
  <2>1. /\ pc[t] = "ready" /\ UNCHANGED <<nacos, appRules, calm, list>>
        /\ \E stage : pc' = [pc EXCEPT ![t] = stage]
        /\ \E q : req' = [req EXCEPT ![t] = q]
    BY <1>3 DEF Request, OpenPage, ChooseMachine, Add, Update, DeleteRule, Send,
                SendQuery, Goto, repository
  <2>2. /\ ~calm[t]
        /\ \A u \in Thread : u # t => pc'[u] = pc[u] /\ req'[u] = req[u] /\ list'[u] = list[u]
    BY <2>1 DEF CalmEdit, TypeOK
  <2> QED
    BY <2>1, <2>2, CalmElsewhere
<1> QED
  BY <1>1, <1>2, <1>3 DEF Query

LEMMA SaveCalm ==
    ASSUME TypeOK, StageOK, NEW t \in Thread, SaveRule(t) \/ RemoveRule(t)
    PROVE  CalmEdit'
<1> DEFINE a == req[t].app
<1>1. /\ pc' = [pc EXCEPT ![t] = "find"] /\ nacos' = nacos
      /\ \A u \in Thread : calm'[u] => u = t /\ appRules[a] = nacos[a]
  BY DEF SaveRule, RemoveRule, Goto, Touch
<1>2. ASSUME SaveRule(t)
      PROVE  req'[t].app = a /\ Edited(req'[t], appRules[a], appRules'[a])
  <2>1. req[t] \in AddRequest \cup UpdateRequest
    BY <1>2, Submitted
  <2>2. req'[t].op # "delete"
    BY <1>2, <2>1, SavedRequest, RequestKinds
  <2>3. /\ SubmittedRule(t) \in Rule /\ Save(SubmittedRule(t))
        /\ SubmittedRule(t).app = a /\ SubmittedRule(t).body = req'[t].body
        /\ SubmittedRule(t).id = req'[t].id
    BY <1>2, Submitted, SavedRequest
  <2>4. Edited(req'[t], appRules[SubmittedRule(t).app], appRules'[SubmittedRule(t).app])
    BY <2>2, <2>3, SaveEdits
  <2> QED
    BY <1>2, <2>3, <2>4, SavedRequest
<1>3. ASSUME RemoveRule(t), calm'[t]
      PROVE  req'[t].app = a /\ Edited(req'[t], appRules[a], appRules'[a])
  <2>1. /\ Delete(req[t].id) /\ req' = req
        /\ \E x \in allRules : x.id = req[t].id /\ x.app = a
    BY <1>3 DEF RemoveRule, Touch
  <2>2. req[t] \in DeleteRequest
    BY <1>3 DEF RemoveRule, StageOK
  <2>3. a \in App /\ req[t].op = "delete"
    BY <2>2, RequestKinds DEF EditRequest
  <2> QED
    BY <2>1, <2>3, RemoveEdits
<1> SUFFICES ASSUME NEW u \in Thread, calm'[u]
             PROVE  /\ pc'[u] = "find"
                    /\ Edited(req'[u], nacos'[req'[u].app], appRules'[req'[u].app])
  BY DEF CalmEdit
<1>4. u = t /\ appRules[a] = nacos[a]
  BY <1>1
<1>5. pc'[t] = "find"
  BY <1>1 DEF TypeOK
<1>6. req'[t].app = a /\ Edited(req'[t], appRules[a], appRules'[a])
  BY <1>2, <1>3, <1>4
<1> QED
  BY <1>1, <1>4, <1>5, <1>6

LEMMA EditCalm ==
    ASSUME TypeOK, StageOK, CalmEdit, NEW t \in Thread, Edit(t)
    PROVE  CalmEdit'
<1>1. CASE FindById(t) \/ FindsNothing(t)
  <2>1. /\ pc[t] = "lookup" /\ UNCHANGED <<nacos, appRules, calm, list>>
        /\ \E stage : pc' = [pc EXCEPT ![t] = stage]
        /\ \E q : req' = [req EXCEPT ![t] = q]
    BY <1>1, FoundRequest DEF FindById, FindsNothing, SendQuery, Goto, repository
  <2>2. /\ ~calm[t]
        /\ \A u \in Thread : u # t => pc'[u] = pc[u] /\ req'[u] = req[u] /\ list'[u] = list[u]
    BY <2>1 DEF CalmEdit, TypeOK
  <2> QED
    BY <2>1, <2>2, CalmElsewhere
<1>2. CASE FindAll(t)
  <2>1. /\ pc[t] = "find" /\ UNCHANGED <<nacos, appRules, calm, req>>
        /\ pc' = [pc EXCEPT ![t] = "publish"]
        /\ list' = [list EXCEPT ![t] = appRules[req[t].app]]
    BY <1>2 DEF FindAll, Goto, repository
  <2> SUFFICES ASSUME NEW u \in Thread, calm[u]
               PROVE  \/ /\ pc'[u] = "find"
                         /\ Edited(req[u], nacos[req[u].app], appRules[req[u].app])
                      \/ pc'[u] = "publish" /\ Edited(req[u], nacos[req[u].app], list'[u])
    BY <2>1 DEF CalmEdit
  <2>2. \/ pc[u] = "find" /\ Edited(req[u], nacos[req[u].app], appRules[req[u].app])
        \/ pc[u] = "publish" /\ Edited(req[u], nacos[req[u].app], list[u])
    BY DEF CalmEdit
  <2>3. CASE u = t
    <3>1. list'[u] = appRules[req[u].app] /\ pc'[u] = "publish"
      BY <2>1, <2>3 DEF TypeOK
    <3> QED
      BY <2>1, <2>2, <2>3, <3>1
  <2>4. CASE u # t
    <3>1. list'[u] = list[u] /\ pc'[u] = pc[u]
      BY <2>1, <2>4 DEF TypeOK
    <3> QED
      BY <2>2, <3>1
  <2> QED
    BY <2>3, <2>4
<1>3. CASE Publish(t) \/ PublishFails(t)
  BY <1>3, NobodyCalm DEF Publish, PublishFails, PublishConfig
<1> QED
  BY <1>1, <1>2, <1>3, SaveCalm DEF Edit

LEMMA NextCalm == TypeOK /\ StageOK /\ CalmEdit /\ [Next]_vars => CalmEdit'
<1> SUFFICES ASSUME TypeOK, StageOK, CalmEdit, [Next]_vars
             PROVE  CalmEdit'
  OBVIOUS
<1>1. CASE Restart
  BY <1>1 DEF Restart, CalmEdit
<1>2. CASE UNCHANGED vars
  BY <1>2 DEF vars, repository, CalmEdit
<1> QED
  BY <1>1, <1>2, RequestCalm, EditCalm DEF Next

\* An edit between whose save and publication nobody else touches the repository
\* or a document, and which finds the document's rules in the repository,
\* publishes the document with its one rule changed, after whatever failures,
\* lost answers and restarts.
THEOREM EditsChangeOneRule == Spec => []EditChangesOneRule
<1>1. Init => CalmEdit
  BY DEF Init, CalmEdit
<1>2. CalmEdit => EditChangesOneRule
  BY DEF CalmEdit, EditChangesOneRule
<1> QED
  BY <1>1, <1>2, NextCalm, TypeInvariant, PTL DEF Spec
=============================================================================
