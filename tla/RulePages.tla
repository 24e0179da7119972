----------------------------- MODULE RulePages -----------------------------
(***************************************************************************)
(* A rule page of the web interface, and the dashboard's controller of the *)
(* page's rules.  In front of the rules in force is an in-memory           *)
(* repository, which every query replaces as a whole:                      *)
(*                                                                         *)
(*   degrade, system, authority, param   the rules of the application, in  *)
(*        a document of Nacos that keeps their ids.                        *)
(*   flow_v1, api, gateway   the rules of each machine, which has no ids:  *)
(*        a query gives new ones.                                          *)
(*                                                                         *)
(* The dashboard works on several requests at once, without a lock: each   *)
(* access to the repository, to Nacos or to a machine is a step.  Restarts *)
(* of the dashboard are in FlowRuleConsole; here the counter of ids may be *)
(* behind the ids in Nacos, as it is after one.                            *)
(***************************************************************************)
EXTENDS LimitRulePages, ItemRulePages

\* The contents of a page's rules, and what its dialog edits.
ValueOf(p) ==
    CASE p = "degrade"   -> DegradeRule   [] p = "system"  -> SystemRule
      [] p = "authority" -> AuthorityRule [] p = "flow_v1" -> FlowV1Rule
      [] p = "param"     -> ParamRule     [] p = "api"     -> ApiGroup
      [] p = "gateway"   -> GatewayRule
FormOf(p) ==
    CASE p = "system" -> SystemForm [] p = "api" -> ApiForm [] OTHER -> ValueOf(p)
Value == ValueOf(page)
Form  == FormOf(page)
Rule  == [id : RuleId, machine : Machine, v : Value]

ASSUME PageAssumption ==
    Page \subseteq {"degrade", "system", "authority", "flow_v1", "param", "api", "gateway"}
ASSUME MachineAssumption == NoMachine \notin Machine
\* Of a group's form the name is typed, the patterns are Pattern.
ASSUME TypedAssumption ==
    /\ \A p \in Page : Typed[p] \subseteq IF p = "api" THEN ApiName \cup {Blank} ELSE FormOf(p)
    /\ Typeable \subseteq ParamItem
\* At first there are finitely many rules, whose ids differ.  A system rule
\* has a threshold, a parameter rule has at most one for a parameter value.
ASSUME RulesAssumption ==
    \A p \in Page : \A S \in InitialRules[p] :
        /\ S \subseteq [id : RuleId, machine : Machine, v : ValueOf(p)]
        /\ IsFiniteSet(S)
        /\ \A e, d \in S : e.id = d.id => e = d
        /\ p = "system" => \A e \in S : \E metric \in ToSet(Metrics) : e.v[metric] >= 0
        /\ p = "param" =>
             \A e \in S : \A it, other \in e.v.paramFlowItemList : SameKey(it, other) => it = other
\* What is unread is no set of rules, and not null.
ASSUME UnreadAssumption ==
    /\ Unread # Null
    /\ \A p \in Page : Unread \notin SUBSET [id : RuleId, machine : Machine, v : ValueOf(p)]
\* The two queries of the gateway's page are sent at once.
ASSUME BoundAssumption ==
    MaxInFlight \in Nat \ {0, 1} /\ MaxClicks \in [Page -> Nat]
    /\ FirstId \in [Page -> SUBSET Nat] /\ MaxId \in Nat

\* The rules that are published, and fetched, together.
Application == page \in {"degrade", "system", "authority", "param"}
Of(S, m) == IF Application THEN S ELSE {e \in S : e.machine = m}

-----------------------------------------------------------------------------
(* The dashboard: queries *)

IsRead(i) == requests[i].op \in {"rules", "other"}
\* save of the repository: whatever has the id is replaced.
Put(S, e) == {d \in S : d.id # e.id} \cup {e}

\* Somebody else opens the page of a machine.
OtherQuery ==
    /\ Click /\ Room(1)
    /\ \E m \in Machine : requests' = Append(requests, Ask("other", m))
    /\ UNCHANGED <<page, table, dialog, server, missed>>

\* getRules of the provider, or a fetch from the machine.
Read(i) ==
    /\ IsRead(i) /\ requests[i].todo = Unread
    /\ requests' = [requests EXCEPT ![i] = Worked(@, Of(live, @.mac), Unread)]
    /\ UNCHANGED <<page, table, dialog, server, clicks, missed>>

\* A machine does not answer.  Of the flow rules of one machine, null is then
\* saved and answered; elsewhere the answer is an error.
ReadFails(i) ==
    /\ IsRead(i) /\ requests[i].todo = Unread
    /\ page = "flow_v1"
    /\ repo' = {}
    /\ requests' = [requests EXCEPT ![i] = Worked(@, {}, Null)]
    /\ UNCHANGED <<page, table, dialog, live, lastId, clicks, missed>>

\* saveAll: the repository is cleared, ...
Clear(i) ==
    /\ IsRead(i) /\ requests[i].todo # Unread /\ requests[i].was = Unread
    /\ repo' = {}
    /\ requests' = [requests EXCEPT ![i] = Worked(@, @.todo, {})]
    /\ UNCHANGED <<page, table, dialog, live, lastId, clicks, missed>>

\* ... and one rule after the other is saved, under a new id (nextId) if it is
\* a machine's.
Fill(i) ==
    /\ IsRead(i) /\ requests[i].todo # Unread /\ requests[i].was \notin {Unread, Null}
    /\ \E e \in requests[i].todo :
          LET saved == IF Application THEN e ELSE [e EXCEPT !.id = lastId + 1]
          IN  /\ \A d \in requests[i].todo : e.id <= d.id
              /\ lastId' = IF Application THEN lastId ELSE lastId + 1
              /\ lastId' <= MaxId
              /\ repo' = Put(repo, saved)
              /\ requests' = [requests EXCEPT
                                ![i] = Worked(@, @.todo \ {e}, @.was \cup {saved})]
    /\ UNCHANGED <<page, table, dialog, live, clicks, missed>>

OtherAnswered(i) ==
    /\ requests[i].op = "other" /\ QueryEnded(requests[i])
    /\ requests' = RemoveAt(requests, i)
    /\ UNCHANGED <<page, table, dialog, server, clicks, missed>>

-----------------------------------------------------------------------------
(* The dashboard: changes *)

Answer(i, result) ==
    requests' = [requests EXCEPT ![i] = Turned(@, result, Unread)]

Found(r) == {e \in repo : e.id = r.id}
\* Authority and parameter rules are saved as they were sent.
AsSent == page \in {"authority", "param"}

\* What the checks of the controller ask for beyond those of the page.  Only
\* authority rules are saved under an id that is not in the repository.
Accepted(r) ==
    /\ r.machine \in Machine
    /\ r.op \in {"save", "delete"} => Found(r) # {} \/ (r.op = "save" /\ page = "authority")
    /\ page = "system" /\ r.op # "delete" => SystemAccepts(r.op, r.v)
    /\ page = "gateway" /\ r.op = "add" => r.v.resource # Null
    /\ page = "api" /\ r.op = "add" =>
         \A e \in Of(repo, r.machine) : e.v.apiName # r.v.apiName

\* findById and the checks: the request is refused, or goes on with the
\* machine of the rule that was found.
Find(i) ==
    LET r == requests[i]
        m == IF Found(r) = {} \/ AsSent THEN r.machine ELSE (CHOOSE e \in Found(r) : TRUE).machine
    IN  /\ IsChange(r) /\ r.result = "none"
        /\ \/ Answer(i, "failed")
           \/ r.op = "delete" /\ Found(r) = {} /\ Answer(i, "ok")
           \/ /\ Accepted(r)
              /\ requests' = [requests EXCEPT
                                ![i] = Turned([r EXCEPT !.machine = m], "found", Found(r))]
        /\ UNCHANGED <<page, table, dialog, server, clicks, missed>>

\* The contents of the rule that a save found.
Old(r) == (CHOOSE e \in r.data : TRUE).v
Stored(r) ==
    CASE page = "system"  -> SystemStored(IF r.op = "add" THEN NoThresholds ELSE Old(r), r.v)
      [] page = "api"     -> ApiStored(IF r.op = "add" THEN r.v ELSE Old(r), r.v)
      [] page = "flow_v1" /\ r.op = "save" -> FlowV1Stored(Old(r), r.v)
      [] page = "gateway" /\ r.op = "save" -> GatewayStored(Old(r), r.v)
      [] page = "gateway" /\ r.op = "add"  ->
           [r.v EXCEPT !.paramItem = GatewayParamStored(@)]
      [] OTHER -> r.v

\* The rule is set and saved, or deleted, in the repository as it is by now.
\* The save of a gateway rule may be refused after the rule has been set.
Store(i) ==
    LET r     == requests[i]
        id    == IF r.op = "add" THEN lastId + 1 ELSE r.id
        saved == [id |-> id, machine |-> r.machine, v |-> Stored(r)]
    IN  /\ IsChange(r) /\ r.result = "found"
        /\ repo' = IF r.op = "delete" THEN {e \in repo : e.id # r.id} ELSE Put(repo, saved)
        /\ lastId' = IF r.op = "add" THEN id ELSE lastId
        /\ lastId' <= MaxId
        /\ \/ requests' = [requests EXCEPT ![i] = Turned(r, "stored", r.data)]
           \/ page = "gateway" /\ r.op = "save" /\ Found(r) # {} /\ Answer(i, "failed")
        /\ UNCHANGED <<page, table, dialog, live, clicks, missed>>

\* findAllByApp, or findAllByMachine: the rules to publish are listed.
FindAll(i) ==
    /\ IsChange(requests[i]) /\ requests[i].result = "stored"
    /\ requests' = [requests EXCEPT ![i] = Turned(@, "listed", Of(repo, @.machine))]
    /\ UNCHANGED <<page, table, dialog, server, clicks, missed>>

\* The list replaces the rules in force.  The publication may fail; the
\* controllers of machines only log that it did, and of an application
\* NacosConfigUtil ignores a result of false and reports an exception.
Publish(i) ==
    LET r == requests[i]
    IN  /\ IsChange(r) /\ r.result = "listed"
        /\ live' \in {live, (live \ Of(live, r.machine)) \cup r.data}
        /\ \/ Answer(i, "ok")
           \/ Application /\ Answer(i, "failed")
        /\ UNCHANGED <<page, table, dialog, repo, lastId, clicks, missed>>

-----------------------------------------------------------------------------
Init ==
    /\ page \in Page
    /\ mac = NoMachine /\ options = {} /\ rows = Null /\ names = {}
    /\ open = "none" /\ currentRule = NoRule
    /\ requests = <<[op |-> "machines"]>>
    /\ repo = {} /\ lastId \in FirstId[page]
    /\ live \in InitialRules[page]
    /\ clicks = 0
    /\ missed = {"rules", "names"}

Watched == IF page = "gateway" THEN <<"rules", "names">> ELSE <<"rules">>
Dashboard ==
    \E i \in DOMAIN requests :
        \/ Read(i) \/ ReadFails(i) \/ Clear(i) \/ Fill(i) \/ OtherAnswered(i)
        \/ Find(i) \/ Store(i) \/ FindAll(i) \/ Publish(i)
Next ==
    \/ LimitRuleStep
    \/ ItemRuleStep
    \/ Select(Watched)
    \/ Close
    \/ Dashboard
    \/ OtherQuery
    \/ \E i \in DOMAIN requests : LoseAnswer(i)

Spec == Init /\ [][Next]_vars

-----------------------------------------------------------------------------
(* Properties *)

Results == {"none", "found", "stored", "listed", "ok", "failed"}
Data    == (SUBSET Rule) \cup {Unread}
Request(op) ==
    CASE op = "machines" -> [op : {op}]
      [] op \in {"rules", "names", "other"} ->
           [op : {op}, mac : Machine, todo : Data, was : Data \cup {Null}, old : BOOLEAN]
      [] op \in {"add", "save"} ->
           [op : {op}, id : RuleId \cup {NoId}, machine : Machine \cup {NoMachine},
            v : Form, form : Form, result : Results, data : Data]
      [] op = "delete" ->
           [op : {op}, id : RuleId, machine : Machine, v : Value, form : Value,
            result : Results, data : Data]

TypeOK ==
    /\ page \in Page
    /\ mac \in Machine \cup {NoMachine}
    /\ options \in {{}, Machine}
    /\ rows \in (SUBSET Rule) \cup {Null}
    /\ names \subseteq UNION {ApiNames[m] : m \in Machine}
    /\ open \in {"none", "add", "edit", "delete"}
    /\ IF open = "none" THEN currentRule = NoRule
       ELSE currentRule \in [id : RuleId \cup {NoId}, machine : Machine \cup {NoMachine},
                             v : IF open = "delete" THEN Value ELSE Form, ofTable : BOOLEAN]
    /\ \A i \in DOMAIN requests : requests[i] \in Request(requests[i].op)
    /\ Len(requests) <= MaxInFlight
    /\ repo \subseteq Rule /\ live \subseteq Rule
    /\ lastId \in Nat
    /\ clicks \in 0..MaxClicks[page]
    /\ missed \subseteq {"rules", "names"}

Times(S, v) == Cardinality({e \in S : e.v = v})
SameValues(S, T) == \A e \in S \cup T : Times(S, e.v) = Times(T, e.v)
Listed(S) == IF page = "api" THEN ApiRows(S) ELSE S

\* With nothing in flight the table shows the rules in force for the selected
\* machine, after any sequence of selections, changes and answers in any
\* order -- unless an answer was lost, refused, or overtaken by a later one.
IdleIsCurrent ==
    requests = <<>> /\ mac # NoMachine =>
        /\ "rules" \notin missed => SameValues(rows, Listed(Of(live, mac)))
        /\ page = "gateway" /\ "names" \notin missed => names = ApiNames[mac]

\* What the operator does in a dialog shows in the table only when an answer
\* says so: a dialog that is cancelled leaves the table alone.
EditsStayInDialog == [][clicks' # clicks => rows' = rows]_<<clicks, rows>>

\* What a form says: fields that another field switches off do not count.
\* The page of one machine's flow rules cannot change the cluster mode of a rule.
Said(op, v) ==
    CASE page = "flow_v1" -> [v EXCEPT !.wait = IF v.controlBehavior = 0 THEN Blank ELSE @,
                                       !.refResource = IF v.strategy = 0 THEN Blank ELSE @,
                                       !.clusterMode = IF op = "save" THEN FALSE ELSE @]
      [] page = "gateway" -> [v EXCEPT !.paramItem = GatewayParamStored(@),
                                       !.resource = IF op = "save" THEN Null ELSE @]
      [] page = "api"     -> [v EXCEPT !.predicateItems = ToSet(@)]
      [] OTHER -> v
Shows(v) == CASE page = "system" -> SystemShown(v) [] page = "api" -> ApiShown(v) [] OTHER -> v

\* What an add or save stores in the repository is what the operator had
\* entered, under the id of the rule that was edited, or the id just drawn:
\* whatever was fetched, deleted and saved since the dialog was opened and
\* since the rule was found.  A system rule without a threshold aside, and one
\* whose id a rule with another metric has taken.
SavedIsShown ==
    [][\A i \in DOMAIN requests :
         LET r == requests[i]
         IN  /\ r.op \in {"add", "save"} /\ r.result = "found"
             /\ requests' = [requests EXCEPT ![i] = Turned(r, "stored", r.data)]
             /\ page = "system" => /\ r.form.threshold # Blank
                                   /\ r.op = "save" => SystemGrade(Old(r)) = r.form.grade
             => \E e \in repo' : /\ e.id = IF r.op = "add" THEN lastId' ELSE r.id
                                 /\ e.machine = r.machine
                                 /\ Said(r.op, Shows(e.v)) = Said(r.op, r.form)]_requests

\* No parameter value has two thresholds in a rule that is edited or in force.
ParamItemsUnique ==
    page = "param" =>
        \A v \in {e.v : e \in live \cup Shown} \cup (IF open = "none" THEN {} ELSE {currentRule.v}) :
            \A it, other \in v.paramFlowItemList : SameKey(it, other) => it = other
=============================================================================
