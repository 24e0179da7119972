------------------------- MODULE RulePages_proofs -------------------------
(***************************************************************************)
(* Proofs about RulePages, for any pages, machines, rules and bounds: a    *)
(* dialog that is being edited leaves the table alone, and no parameter    *)
(* value gets two thresholds in a rule.                                    *)
(***************************************************************************)
EXTENDS RulePages, SequenceTheorems, TLAPS

-----------------------------------------------------------------------------
(* Dialogs and the table *)

\* The rule in a dialog that can be changed is a copy, or a new one.
OwnRule ==
    open \in {"add", "edit"} => "ofTable" \in DOMAIN currentRule /\ currentRule.ofTable = FALSE

\* What handlers do to the dialog: nothing, close it, open it on a rule of
\* their own or to delete, or change a field of the rule.
DialogStep ==
    \/ UNCHANGED dialog
    \/ open' \in {"none", "delete"}
    \/ open' \in {"add", "edit"} /\ "ofTable" \in DOMAIN currentRule' /\ currentRule'.ofTable = FALSE
    \/ open' = open /\ \E v : currentRule' = [currentRule EXCEPT !.v = v]

LEMMA OwnRuleKept ==
    ASSUME OwnRule, DialogStep
    PROVE  OwnRule'
<1>1. ASSUME open' = open, NEW v, currentRule' = [currentRule EXCEPT !.v = v]
      PROVE  OwnRule'
  BY <1>1 DEF OwnRule
<1> QED
  BY <1>1 DEF OwnRule, DialogStep, dialog

\* What the steps of RulePage do to the dialog and, while the operator
\* clicks, to the table.
Quiet == DialogStep /\ (clicks' # clicks => rows' = rows)

LEMMA KernelQuiet ==
    ASSUME OwnRule
    PROVE  /\ \A ops : Select(ops) => Quiet
           /\ \A i, ops : MachinesAnswered(i, ops) => Quiet
           /\ \A i, shown : RulesAnswered(i, shown) => Quiet
           /\ \A e, v : OpenEdit(e, v) => Quiet
           /\ \A v : OpenAdd(v) => Quiet
           /\ \A e : OpenDelete(e) => Quiet
           /\ Close => Quiet
           /\ \A v : Enter(v) => Quiet
           /\ \A addOk, saveOk, sent : Save(addOk, saveOk, sent) => Quiet
           /\ Confirm => Quiet
           /\ \A i : ChangeAnswered(i) => Quiet
           /\ \A i : LoseAnswer(i) => Quiet
<1>1. \A ops : Select(ops) => Quiet
  BY DEF Select, Quiet, DialogStep
<1>2. \A i, ops : MachinesAnswered(i, ops) => Quiet
  BY DEF MachinesAnswered, Quiet, DialogStep
<1>3. \A i, shown : RulesAnswered(i, shown) => Quiet
  BY DEF RulesAnswered, Quiet, DialogStep
<1>4. \A e, v : OpenEdit(e, v) => Quiet
  BY DEF OpenEdit, Open, table, Quiet, DialogStep
<1>5. \A v : OpenAdd(v) => Quiet
  BY DEF OpenAdd, Open, table, Quiet, DialogStep
<1>6. \A e : OpenDelete(e) => Quiet
  BY DEF OpenDelete, Open, table, Quiet, DialogStep
<1>7. Close => Quiet
  BY DEF Close, table, Quiet, DialogStep
<1>8. ASSUME NEW v, Enter(v) PROVE Quiet
  <2>1. rows' = rows
    BY <1>8 DEF Enter, OwnRule
  <2>2. open' = open /\ currentRule' = [currentRule EXCEPT !.v = v]
    BY <1>8 DEF Enter
  <2> QED
    BY <2>1, <2>2 DEF Quiet, DialogStep
<1>9. /\ \A addOk, saveOk, sent : Save(addOk, saveOk, sent) => Quiet
      /\ Confirm => Quiet
  BY DEF Save, Confirm, Change, table, Quiet, DialogStep
<1>10. \A i : ChangeAnswered(i) => Quiet
  BY DEF ChangeAnswered, table, Quiet, DialogStep
<1>11. \A i : LoseAnswer(i) => Quiet
  BY DEF LoseAnswer, table, Quiet, DialogStep
<1> QED
  BY <1>1, <1>2, <1>3, <1>4, <1>5, <1>6, <1>7, <1>8, <1>9, <1>10, <1>11

LEMMA LimitQuiet == ASSUME OwnRule, LimitRuleStep PROVE Quiet
<1>1. ASSUME NEW i \in DOMAIN requests,
             \/ DegradeMachines(i) \/ DegradeRules(i) \/ DegradeAnswers(i)
             \/ SystemMachines(i) \/ SystemRules(i) \/ SystemAnswers(i)
             \/ AuthorityMachines(i) \/ AuthorityRules(i) \/ AuthorityAnswers(i)
             \/ FlowV1Machines(i) \/ FlowV1Rules(i) \/ FlowV1Answers(i)
      PROVE  Quiet
  BY <1>1, KernelQuiet
     DEF DegradeMachines, DegradeRules, DegradeAnswers, SystemMachines, SystemRules, SystemAnswers,
         AuthorityMachines, AuthorityRules, AuthorityAnswers, FlowV1Machines, FlowV1Rules, FlowV1Answers
<1>2. ASSUME NEW e \in Shown, DegradeEdit(e) \/ SystemEdit(e) \/ AuthorityEdit(e) \/ FlowV1Edit(e)
      PROVE  Quiet
  BY <1>2, KernelQuiet DEF DegradeEdit, SystemEdit, AuthorityEdit, FlowV1Edit
<1>3. DegradeAdd \/ SystemAdd \/ AuthorityAdd \/ FlowV1Add => Quiet
  BY KernelQuiet DEF DegradeAdd, SystemAdd, AuthorityAdd, FlowV1Add
<1>4. DegradeEnter \/ SystemEnter \/ AuthorityEnter \/ FlowV1Enter => Quiet
  BY KernelQuiet DEF DegradeEnter, SystemEnter, AuthorityEnter, FlowV1Enter
<1>5. DegradeSave \/ SystemSave \/ AuthoritySave \/ FlowV1Save => Quiet
  BY KernelQuiet DEF DegradeSave, SystemSave, AuthoritySave, FlowV1Save
<1>6. DegradeDelete \/ SystemDelete \/ AuthorityDelete \/ FlowV1Delete => Quiet
  BY KernelQuiet DEF DegradeDelete, SystemDelete, AuthorityDelete, FlowV1Delete
<1> QED
  BY <1>1, <1>2, <1>3, <1>4, <1>5, <1>6 DEF LimitRuleStep

LEMMA ItemQuiet == ASSUME OwnRule, ItemRuleStep PROVE Quiet
<1>1. ASSUME NEW i \in DOMAIN requests,
             \/ ParamMachines(i) \/ ParamRules(i) \/ ParamAnswers(i)
             \/ ApiMachines(i) \/ ApiRules(i) \/ ApiAnswers(i)
             \/ GatewayMachines(i) \/ GatewayRules(i) \/ GatewayAnswers(i)
      PROVE  Quiet
  BY <1>1, KernelQuiet
     DEF ParamMachines, ParamRules, ParamAnswers, ApiMachines, ApiRules, ApiAnswers,
         GatewayMachines, GatewayRules, GatewayAnswers
<1>2. ASSUME NEW i \in DOMAIN requests, GatewayNames(i) PROVE Quiet
  <2>1. UNCHANGED <<rows, open, clicks>>
        /\ (UNCHANGED currentRule \/ \E v : currentRule' = [currentRule EXCEPT !.v = v])
    BY <1>2 DEF GatewayNames
  <2> QED
    BY <2>1 DEF Quiet, DialogStep, dialog
<1>3. ASSUME NEW e \in Shown, ParamEdit(e) \/ ApiEdit(e) \/ GatewayEdit(e) PROVE Quiet
  BY <1>3, KernelQuiet DEF ParamEdit, ApiEdit, GatewayEdit
<1>4. ParamAdd \/ ApiAdd \/ GatewayAdd => Quiet
  BY KernelQuiet DEF ParamAdd, ApiAdd, GatewayAdd
<1>5. ParamEnter \/ AddParamItem \/ RemoveParamItem => Quiet
  <2>1. ParamEnter => \E v : Enter(v)
    BY Zenon DEF ParamEnter
  <2> QED
    BY <2>1, KernelQuiet DEF AddParamItem, RemoveParamItem, EnterItems
<1>6. ApiEnter \/ AddNewMatchPattern \/ MatchPatterns => Quiet
  BY KernelQuiet DEF ApiEnter, AddNewMatchPattern, MatchPatterns, RemoveMatchPattern, TypePattern, EnterPatterns
<1>7. GatewayEnter \/ GatewayForm => Quiet
  <2>1. GatewayEnter \/ GatewayForm => \E v : Enter(v)
    BY Zenon DEF GatewayEnter, GatewayForm, UseResource, UseParamItem, UseParamItemVal, EnterParam
  <2> QED
    BY <2>1, KernelQuiet
<1>8. ParamSave \/ ApiSave \/ GatewaySave => Quiet
  BY KernelQuiet DEF ParamSave, ApiSave, GatewaySave
<1>9. ParamDelete \/ ApiDelete \/ GatewayDelete => Quiet
  BY KernelQuiet DEF ParamDelete, ApiDelete, GatewayDelete
<1> QED
  BY <1>1, <1>2, <1>3, <1>4, <1>5, <1>6, <1>7, <1>8, <1>9 DEF ItemRuleStep

\* What the dashboard does for a request.
DashboardStep(i) ==
    \/ Read(i) \/ ReadFails(i) \/ Clear(i) \/ Fill(i) \/ OtherAnswered(i)
    \/ Find(i) \/ Store(i) \/ FindAll(i) \/ Publish(i)

LEMMA DashboardAlone ==
    ASSUME NEW i, DashboardStep(i)
    PROVE  UNCHANGED <<page, table, dialog, clicks, missed>>
<1>1. Read(i) \/ ReadFails(i) \/ Clear(i) => UNCHANGED <<page, table, dialog, clicks, missed>>
  BY DEF Read, ReadFails, Clear
<1>2. Fill(i) \/ OtherAnswered(i) \/ FindAll(i) => UNCHANGED <<page, table, dialog, clicks, missed>>
  BY DEF Fill, OtherAnswered, FindAll
<1>3. Find(i) => UNCHANGED <<page, table, dialog, clicks, missed>>
  BY DEF Find
<1>4. Store(i) \/ Publish(i) => UNCHANGED <<page, table, dialog, clicks, missed>>
  BY DEF Store, Publish
<1> QED
  BY <1>1, <1>2, <1>3, <1>4 DEF DashboardStep

LEMMA NextQuiet == ASSUME OwnRule, Next PROVE Quiet
<1>1. ASSUME NEW i \in DOMAIN requests, DashboardStep(i) PROVE Quiet
  <2>1. UNCHANGED <<table, dialog, clicks>>
    BY <1>1, DashboardAlone
  <2> QED
    BY <2>1 DEF table, Quiet, DialogStep
<1>2. OtherQuery => Quiet
  BY DEF OtherQuery, table, Quiet, DialogStep
<1> QED
  BY <1>1, <1>2, LimitQuiet, ItemQuiet, KernelQuiet DEF Next, Dashboard, DashboardStep

\* What is entered in a dialog that is cancelled never shows in the table: the
\* handlers that open a dialog to edit copy the rule.
THEOREM DialogsLeaveTheTable == Spec => EditsStayInDialog
<1>1. Init => OwnRule
  BY DEF Init, OwnRule
<1>2. OwnRule /\ [Next]_vars => OwnRule' /\ [clicks' # clicks => rows' = rows]_<<clicks, rows>>
  <2>1. CASE OwnRule /\ Next
    BY <2>1, NextQuiet, OwnRuleKept DEF Quiet
  <2>2. CASE OwnRule /\ UNCHANGED vars
    BY <2>2 DEF vars, table, dialog, OwnRule
  <2> QED
    BY <2>1, <2>2
<1> QED
  BY <1>1, <1>2, PTL DEF Spec, EditsStayInDialog

-----------------------------------------------------------------------------
(* The items of parameter rules *)

\* A list with at most one threshold for a parameter value.
OneEach(S) == \A it, other \in S : SameKey(it, other) => it = other
\* A rule, a request or a dialog with such a list.
Sound(e) ==
    /\ "v" \in DOMAIN e
    /\ "paramFlowItemList" \in DOMAIN e.v
    /\ OneEach(e.v.paramFlowItemList)
AllSound(S) == \A e \in S : Sound(e)

SoundData(S) == S \notin {Unread, Null} => AllSound(S)
SoundRequest(r) ==
    /\ "op" \in DOMAIN r
    /\ r.op \in {"rules", "other"} =>
         /\ {"todo", "was"} \subseteq DOMAIN r
         /\ (r.todo # Unread => AllSound(r.todo)) /\ SoundData(r.was)
    /\ r.op \in {"add", "save", "delete"} =>
         /\ {"result", "data", "machine"} \subseteq DOMAIN r /\ Sound(r)
         /\ SoundData(r.data) /\ (r.result = "listed" => AllSound(r.data))
SoundRequests(rs) == \E S : rs \in Seq(S) /\ \A r \in S : SoundRequest(r)

ParamInv ==
    page = "param" =>
        /\ AllSound(live) /\ AllSound(repo) /\ AllSound(Shown)
        /\ open # "none" => Sound(currentRule)
        /\ SoundRequests(requests)

LEMMA UpdateKeepsOneEach ==
    ASSUME NEW S, NEW it, OneEach(S)
    PROVE  OneEach(updateSingleParamItem(S, it))
<1>1. CASE \E other \in S : SameKey(other, it)
  <2>1. \E other \in S : SameKey(it, other)
    BY <1>1 DEF SameKey
  <2>2. Same(S, it) \in S /\ SameKey(it, Same(S, it))
    BY <2>1 DEF Same
  <2>3. updateSingleParamItem(S, it) = (S \ {Same(S, it)}) \cup {it}
    BY <2>1 DEF updateSingleParamItem
  <2>4. \A other \in S : SameKey(it, other) \/ SameKey(other, it) => other = Same(S, it)
    BY <2>2 DEF OneEach, SameKey
  <2> QED
    BY <2>3, <2>4 DEF OneEach
<1>2. CASE ~\E other \in S : SameKey(other, it)
  <2>1. \A other \in S : ~SameKey(it, other) /\ ~SameKey(other, it)
    BY <1>2 DEF SameKey
  <2> QED
    BY <2>1 DEF updateSingleParamItem, OneEach
<1> QED
  BY <1>1, <1>2

LEMMA RemoveKeepsOneEach ==
    ASSUME NEW S, NEW it, OneEach(S)
    PROVE  OneEach(removeSingleParamItem(S, it))
BY DEF removeSingleParamItem, OneEach

LEMMA AppendSound ==
    ASSUME NEW rs, SoundRequests(rs), NEW r, SoundRequest(r)
    PROVE  SoundRequests(Append(rs, r))
<1>1. PICK S : rs \in Seq(S) /\ \A x \in S : SoundRequest(x)
  BY DEF SoundRequests
<1>2. rs \in Seq(S \cup {r})
  BY <1>1
<1>3. Append(rs, r) \in Seq(S \cup {r})
  BY <1>2
<1> QED
  BY <1>1, <1>3 DEF SoundRequests

LEMMA ConcatSound ==
    ASSUME NEW rs, NEW qs, SoundRequests(rs), SoundRequests(qs)
    PROVE  SoundRequests(rs \o qs)
<1>1. PICK S : rs \in Seq(S) /\ \A x \in S : SoundRequest(x)
  BY DEF SoundRequests
<1>2. PICK T : qs \in Seq(T) /\ \A x \in T : SoundRequest(x)
  BY DEF SoundRequests
<1>3. rs \in Seq(S \cup T) /\ qs \in Seq(S \cup T)
  BY <1>1, <1>2
<1>4. rs \o qs \in Seq(S \cup T)
  BY <1>3
<1> QED
  BY <1>1, <1>2, <1>4 DEF SoundRequests

LEMMA OutdatedSound ==
    ASSUME NEW rs, NEW ops, SoundRequests(rs)
    PROVE  SoundRequests(Outdated(rs, ops))
<1>1. PICK S : rs \in Seq(S) /\ \A x \in S : SoundRequest(x)
  BY DEF SoundRequests
<1> DEFINE T == S \cup {[x EXCEPT !.old = TRUE] : x \in S}
<1>2. \A x \in S : SoundRequest([x EXCEPT !.old = TRUE])
  BY <1>1 DEF SoundRequest, Sound
<1>3. Outdated(rs, ops) \in Seq(T)
  <2>1. DOMAIN rs = 1..Len(rs) /\ Len(rs) \in Nat /\ \A i \in DOMAIN rs : rs[i] \in S
    BY <1>1
  <2>2. Outdated(rs, ops) \in [1..Len(rs) -> T]
    BY <2>1 DEF Outdated
  <2> QED
    BY <2>1, <2>2, SeqDef
<1> QED
  BY <1>1, <1>2, <1>3 DEF SoundRequests

LEMMA RestSound ==
    ASSUME SoundRequests(requests), NEW i \in DOMAIN requests
    PROVE  SoundRequests(Rest(i))
<1>1. PICK S : requests \in Seq(S) /\ \A x \in S : SoundRequest(x)
  BY DEF SoundRequests
<1>2. i \in 1..Len(requests) /\ Len(requests) \in Nat
  BY <1>1
<1>3. SubSeq(requests, 1, i - 1) \in Seq(S) /\ SubSeq(requests, i + 1, Len(requests)) \in Seq(S)
  BY <1>1, <1>2
<1>4. SoundRequests(SubSeq(requests, 1, i - 1)) /\ SoundRequests(SubSeq(requests, i + 1, Len(requests)))
  BY <1>1, <1>3 DEF SoundRequests
<1> QED
  BY <1>4, OutdatedSound, ConcatSound DEF Rest

LEMMA SoundAt ==
    ASSUME SoundRequests(requests), NEW i \in DOMAIN requests
    PROVE  SoundRequest(requests[i])
BY DEF SoundRequests

LEMMA ReplaceSound ==
    ASSUME SoundRequests(requests), NEW i \in DOMAIN requests, NEW r, SoundRequest(r)
    PROVE  SoundRequests([requests EXCEPT ![i] = r])
<1>1. PICK S : requests \in Seq(S) /\ \A x \in S : SoundRequest(x)
  BY DEF SoundRequests
<1>2. requests \in Seq(S \cup {r}) /\ i \in 1..Len(requests)
  BY <1>1
<1>3. [requests EXCEPT ![i] = r] \in Seq(S \cup {r})
  BY <1>2
<1> QED
  BY <1>1, <1>3 DEF SoundRequests

LEMMA AskSound ==
    ASSUME NEW op \in {"rules", "names", "other"}, NEW m
    PROVE  SoundRequest(Ask(op, m))
BY DEF SoundRequest, SoundData, Ask

\* What is asked when a machine is selected.
LEMMA QueriesSound ==
    ASSUME NEW n \in {1, 2}, NEW ops \in [1..n -> {"rules", "names"}], NEW m
    PROVE  SoundRequests(AskAll(ops, m))
<1> DEFINE S == {Ask(op, m) : op \in {"rules", "names"}}
<1>1. AskAll(ops, m) \in [1..n -> S]
  BY DEF AskAll
<1>2. AskAll(ops, m) \in Seq(S)
  BY <1>1, SeqDef
<1>3. \A x \in S : SoundRequest(x)
  BY AskSound
<1> QED
  BY <1>2, <1>3 DEF SoundRequests

LEMMA TableQuery ==
    ASSUME NEW m
    PROVE  SoundRequests(AskAll(<<"rules">>, m))
<1>1. <<"rules">> \in [1..1 -> {"rules", "names"}]
  OBVIOUS
<1> QED
  BY <1>1, QueriesSound

LEMMA EmptySound == SoundRequests(<<>>)
<1>1. ASSUME NEW S, S = {} PROVE SoundRequests(<<>>)
  <2>1. <<>> \in Seq(S)
    OBVIOUS
  <2> QED
    BY <1>1, <2>1 DEF SoundRequests
<1> QED
  BY <1>1

\* The steps of RulePage, on the page of parameter rules.
LEMMA SelectSound ==
    ASSUME ParamInv, page = "param", Select(Watched)
    PROVE  ParamInv'
<1>1. Watched = <<"rules">>
  BY DEF Watched
<1>2. PICK m : Watch(<<"rules">>, m)
  BY <1>1 DEF Select
<1>3. SoundRequests(requests')
  BY <1>2, TableQuery, EmptySound, ConcatSound DEF Watch, ParamInv
<1> QED
  BY <1>3 DEF ParamInv, Select, dialog, server, Shown

LEMMA MachinesSound ==
    ASSUME ParamInv, page = "param", NEW i \in DOMAIN requests, MachinesAnswered(i, <<"rules">>)
    PROVE  ParamInv'
<1>1. SoundRequests(Rest(i))
  BY RestSound DEF ParamInv
<1>2. SoundRequests(requests')
  BY <1>1, TableQuery, ConcatSound DEF MachinesAnswered
<1> QED
  BY <1>2 DEF ParamInv, MachinesAnswered, dialog, server, Shown

LEMMA RulesSound ==
    ASSUME ParamInv, page = "param", NEW i \in DOMAIN requests, RulesAnswered(i, requests[i].was)
    PROVE  ParamInv'
<1>1. SoundRequests(requests')
  BY RestSound DEF ParamInv, RulesAnswered
<1>2. AllSound(Shown')
  <2>1. CASE requests[i].was \notin {Unread, Null} /\ rows' = requests[i].was
    BY <2>1, SoundAt DEF ParamInv, RulesAnswered, SoundRequest, SoundData, Shown, AllSound
  <2>2. CASE rows' = {}
    BY <2>2 DEF Shown, AllSound
  <2> QED
    BY <2>1, <2>2 DEF RulesAnswered, QueryEnded
<1> QED
  BY <1>1, <1>2 DEF ParamInv, RulesAnswered, dialog, server

LEMMA OpenSound ==
    ASSUME ParamInv, page = "param", NEW type, NEW rule, Open(type, rule), Sound(rule)
    PROVE  ParamInv'
BY DEF ParamInv, Open, table, server, Shown

LEMMA EnterSound ==
    ASSUME ParamInv, page = "param", OwnRule, NEW v, Enter(v),
           "paramFlowItemList" \in DOMAIN v, OneEach(v.paramFlowItemList)
    PROVE  ParamInv'
<1>1. rows' = rows
  BY DEF Enter, OwnRule
<1>2. Sound(currentRule')
  <2>1. Sound(currentRule) /\ currentRule' = [currentRule EXCEPT !.v = v]
    BY DEF ParamInv, Enter
  <2> QED
    BY <2>1 DEF Sound
<1> QED
  BY <1>1, <1>2 DEF ParamInv, Enter, server, Shown

LEMMA ChangeSound ==
    ASSUME ParamInv, page = "param", NEW op \in {"add", "save", "delete"}, open # "none",
           Change(op, currentRule.v)
    PROVE  ParamInv'
<1> DEFINE r == [op |-> op, id |-> currentRule.id, machine |-> currentRule.machine, v |-> currentRule.v,
                 form |-> currentRule.v, result |-> "none", data |-> Unread]
<1>1. SoundRequest(r)
  BY DEF ParamInv, SoundRequest, SoundData, Sound
<1>2. requests' = Append(requests, r)
  BY DEF Change
<1>3. SoundRequests(requests')
  BY <1>1, <1>2, AppendSound DEF ParamInv
<1> QED
  BY <1>3 DEF ParamInv, Change, table, dialog, server, Shown

LEMMA SavedSound ==
    ASSUME ParamInv, page = "param", NEW addOk, NEW saveOk,
           Save(addOk, saveOk, currentRule.v) \/ Confirm
    PROVE  ParamInv'
<1>1. PICK op \in {"add", "save", "delete"} : open # "none" /\ Change(op, currentRule.v)
  BY DEF Save, Confirm
<1> QED
  BY <1>1, ChangeSound

LEMMA CloseSound ==
    ASSUME ParamInv, page = "param", Close
    PROVE  ParamInv'
BY DEF ParamInv, Close, table, server, Shown

LEMMA AnsweredSound ==
    ASSUME ParamInv, page = "param", NEW i \in DOMAIN requests, ChangeAnswered(i)
    PROVE  ParamInv'
<1>1. SoundRequests(Rest(i))
  BY RestSound DEF ParamInv
<1>2. SoundRequests(Queries("rules"))
  <2> DEFINE r == Ask("rules", mac)
  <2>1. SoundRequest(r)
    BY AskSound
  <2>2. SoundRequests(<<>>) /\ <<r>> = Append(<<>>, r)
    BY EmptySound
  <2>3. SoundRequests(<<r>>)
    BY <2>1, <2>2, AppendSound
  <2> QED
    BY <2>2, <2>3 DEF Queries
<1>3. SoundRequests(requests')
  <2>1. SoundRequests(Rest(i) \o Queries("rules"))
    BY <1>1, <1>2, ConcatSound
  <2>2. SoundRequests(Outdated(Rest(i), {"rules"}))
    BY <1>1, OutdatedSound
  <2> QED
    BY <2>1, <2>2 DEF ChangeAnswered
<1>4. open' # "none" => UNCHANGED dialog
  BY DEF ChangeAnswered
<1> QED
  BY <1>3, <1>4 DEF ParamInv, ChangeAnswered, table, dialog, server, Shown

LEMMA LostSound ==
    ASSUME ParamInv, page = "param", NEW i \in DOMAIN requests, LoseAnswer(i)
    PROVE  ParamInv'
<1>1. SoundRequests(requests')
  BY RestSound, OutdatedSound DEF ParamInv, LoseAnswer
<1> QED
  BY <1>1 DEF ParamInv, LoseAnswer, table, dialog, server, Shown

-----------------------------------------------------------------------------
(* The dashboard *)

LEMMA WorkedSound ==
    ASSUME NEW r, SoundRequest(r), r.op \in {"rules", "other"},
           NEW todo, NEW was, todo # Unread => AllSound(todo), SoundData(was)
    PROVE  SoundRequest(Worked(r, todo, was))
<1> DEFINE q == Worked(r, todo, was)
<1>1. {"op", "todo", "was"} \subseteq DOMAIN r
  BY DEF SoundRequest
<1>2. DOMAIN q = DOMAIN r /\ q.op = r.op /\ q.todo = todo /\ q.was = was
  BY <1>1 DEF Worked
<1> HIDE DEF q
<1>3. SoundRequest(q)
  BY <1>1, <1>2 DEF SoundRequest
<1> QED
  BY <1>3 DEF q

LEMMA TurnedSound ==
    ASSUME NEW r, SoundRequest(r), r.op \in {"add", "save", "delete"},
           NEW result, NEW data, SoundData(data), result = "listed" => AllSound(data)
    PROVE  SoundRequest(Turned(r, result, data))
<1> DEFINE q == Turned(r, result, data)
<1>1. {"op", "result", "data", "machine", "v"} \subseteq DOMAIN r
  BY DEF SoundRequest, Sound
<1>2. DOMAIN q = DOMAIN r /\ q.op = r.op /\ q.result = result /\ q.data = data /\ q.v = r.v
  BY <1>1 DEF Turned
<1> HIDE DEF q
<1>3. SoundRequest(q) /\ q.op = r.op
  BY <1>1, <1>2 DEF SoundRequest, Sound
<1> QED
  BY <1>3 DEF q

\* findById keeps the machine of the rule that was found.
LEMMA MovedSound ==
    ASSUME NEW r, SoundRequest(r), r.op \in {"add", "save", "delete"}, NEW m
    PROVE  SoundRequest([r EXCEPT !.machine = m]) /\ [r EXCEPT !.machine = m].op = r.op
<1> DEFINE q == [r EXCEPT !.machine = m]
<1>1. {"op", "result", "data", "machine", "v"} \subseteq DOMAIN r
  BY DEF SoundRequest, Sound
<1>2. DOMAIN q = DOMAIN r /\ q.op = r.op /\ q.result = r.result /\ q.data = r.data /\ q.v = r.v
  BY <1>1
<1> HIDE DEF q
<1>3. SoundRequest(q) /\ q.op = r.op
  BY <1>1, <1>2 DEF SoundRequest, Sound
<1> QED
  BY <1>3 DEF q

\* A step on one request that leaves the page alone.
LEMMA StepSound ==
    ASSUME ParamInv, page = "param", NEW i \in DOMAIN requests, NEW r, SoundRequest(r),
           requests' = [requests EXCEPT ![i] = r], UNCHANGED <<page, table, dialog>>,
           AllSound(repo'), AllSound(live')
    PROVE  ParamInv'
<1>1. SoundRequests(requests')
  BY ReplaceSound DEF ParamInv
<1> QED
  BY <1>1 DEF ParamInv, table, dialog, Shown

LEMMA QuerySound ==
    ASSUME ParamInv, page = "param", NEW i \in DOMAIN requests,
           Read(i) \/ ReadFails(i) \/ Clear(i) \/ Fill(i)
    PROVE  ParamInv'
<1> DEFINE r == requests[i]
<1>1. /\ SoundRequest(r) /\ r.op \in {"rules", "other"}
      /\ AllSound(live) /\ AllSound(repo) /\ AllSound({}) /\ Application
      /\ UNCHANGED <<page, table, dialog, live>>
  BY SoundAt DEF ParamInv, Read, ReadFails, Clear, Fill, IsRead, AllSound, Application, server
<1>2. CASE Read(i)
  <2> DEFINE q == Worked(r, live, Unread)
  <2>1. requests' = [requests EXCEPT ![i] = q] /\ repo' = repo
    BY <1>1, <1>2 DEF Read, Of, server
  <2>2. SoundRequest(q)
    BY <1>1, WorkedSound DEF SoundData
  <2> QED
    BY <1>1, <2>1, <2>2, StepSound
<1>3. CASE ReadFails(i)
  BY <1>3 DEF ReadFails
<1>4. CASE Clear(i)
  <2> DEFINE q == Worked(r, r.todo, {})
  <2>1. requests' = [requests EXCEPT ![i] = q] /\ repo' = {}
    BY <1>4 DEF Clear
  <2>2. SoundRequest(q)
    BY <1>1, WorkedSound DEF SoundRequest, SoundData
  <2> QED
    BY <1>1, <2>1, <2>2, StepSound
<1>5. CASE Fill(i)
  <2>1. PICK e \in r.todo :
          /\ repo' = Put(repo, e)
          /\ requests' = [requests EXCEPT ![i] = Worked(r, r.todo \ {e}, r.was \cup {e})]
    BY <1>1, <1>5 DEF Fill
  <2>2. r.todo # Unread /\ r.was \notin {Unread, Null}
    BY <1>5 DEF Fill
  <2>3. AllSound(r.todo) /\ AllSound(r.was)
    BY <1>1, <2>2, Zenon DEF SoundRequest, SoundData
  <2>4. Sound(e) /\ AllSound(r.todo \ {e}) /\ SoundData(r.was \cup {e})
    BY <2>3 DEF SoundData, AllSound
  <2> DEFINE q == Worked(r, r.todo \ {e}, r.was \cup {e})
  <2>5. SoundRequest(q)
    BY <1>1, <2>4, WorkedSound
  <2>6. AllSound(repo')
    BY <1>1, <2>1, <2>4 DEF Put, AllSound
  <2> QED
    BY <1>1, <2>1, <2>5, <2>6, StepSound
<1> QED
  BY <1>2, <1>3, <1>4, <1>5

LEMMA OtherSound ==
    ASSUME ParamInv, page = "param", OtherQuery
    PROVE  ParamInv'
<1>1. PICK m : requests' = Append(requests, Ask("other", m))
  BY DEF OtherQuery
<1>2. SoundRequests(requests')
  BY <1>1, AskSound, AppendSound DEF ParamInv
<1> QED
  BY <1>2 DEF ParamInv, OtherQuery, table, dialog, server, Shown

LEMMA OtherAnsweredSound ==
    ASSUME ParamInv, page = "param", NEW i \in DOMAIN requests, OtherAnswered(i)
    PROVE  ParamInv'
<1>1. PICK S : requests \in Seq(S) /\ \A x \in S : SoundRequest(x)
  BY DEF ParamInv, SoundRequests
<1>2. RemoveAt(requests, i) \in Seq(S)
  BY <1>1 DEF RemoveAt
<1>3. SoundRequests(requests')
  BY <1>1, <1>2 DEF OtherAnswered, SoundRequests
<1> QED
  BY <1>3 DEF ParamInv, OtherAnswered, table, dialog, server, Shown

\* The contents of a change are sound through the steps of its controller.
LEMMA ChangeStepSound ==
    ASSUME ParamInv, page = "param", NEW i \in DOMAIN requests,
           Find(i) \/ Store(i) \/ FindAll(i) \/ Publish(i)
    PROVE  ParamInv'
<1> DEFINE r == requests[i]
<1>1. /\ SoundRequest(r) /\ r.op \in {"add", "save", "delete"}
      /\ AllSound(live) /\ AllSound(repo)
      /\ UNCHANGED <<page, table, dialog>>
  BY SoundAt DEF ParamInv, Find, Store, FindAll, Publish, IsChange, server
<1>2. Sound(r) /\ {"result", "data", "machine"} \subseteq DOMAIN r /\ SoundData(r.data)
  BY <1>1 DEF SoundRequest
<1>4. ASSUME NEW result, result # "listed", Answer(i, result) PROVE \E q : SoundRequest(q) /\ requests' = [requests EXCEPT ![i] = q]
  <2>1. SoundRequest(Turned(r, result, Unread))
    BY <1>1, <1>4, TurnedSound DEF SoundData
  <2> QED
    BY <1>4, <2>1 DEF Answer
<1>5. CASE Find(i)
  <2>1. UNCHANGED <<repo, live>>
    BY <1>5 DEF Find, server
  <2>2. ASSUME NEW m, requests' = [requests EXCEPT ![i] = Turned([r EXCEPT !.machine = m], "found", Found(r))]
        PROVE  \E q : SoundRequest(q) /\ requests' = [requests EXCEPT ![i] = q]
    <3>1. SoundData(Found(r))
      BY <1>1 DEF Found, SoundData, AllSound
    <3> DEFINE n == [r EXCEPT !.machine = m]
    <3>2. SoundRequest(n) /\ n.op \in {"add", "save", "delete"}
      BY <1>1, MovedSound
    <3> HIDE DEF n
    <3>3. SoundRequest(Turned(n, "found", Found(r)))
      BY <3>1, <3>2, TurnedSound
    <3> QED
      BY <2>2, <3>3 DEF n
  <2> DEFINE mach == IF Found(r) = {} \/ AsSent THEN r.machine ELSE (CHOOSE e \in Found(r) : TRUE).machine
  <2>3. (\E result \in {"ok", "failed"} : Answer(i, result))
        \/ requests' = [requests EXCEPT ![i] = Turned([r EXCEPT !.machine = mach], "found", Found(r))]
    BY <1>5 DEF Find
  <2> HIDE DEF mach
  <2> QED
    BY <1>1, <1>4, <2>1, <2>2, <2>3, StepSound
<1>6. CASE Store(i)
  <2>1. live' = live
    BY <1>6 DEF Store
  <2>2. requests' = [requests EXCEPT ![i] = Turned(r, "stored", r.data)]
    BY <1>6 DEF Store, ParamInv
  <2>3. SoundRequest(Turned(r, "stored", r.data))
    BY <1>1, <1>2, TurnedSound
  <2>4. Stored(r) = r.v
    BY DEF ParamInv, Stored
  <2>5. AllSound(repo')
    <3>1. CASE repo' = {e \in repo : e.id # r.id}
      BY <1>1, <3>1 DEF AllSound
    <3>2. CASE \E n, m : repo' = Put(repo, [id |-> n, machine |-> m, v |-> r.v])
      BY <1>1, <1>2, <3>2 DEF Put, AllSound, Sound
    <3> QED
      BY <1>6, <2>4, <3>1, <3>2 DEF Store
  <2> QED
    BY <1>1, <2>1, <2>2, <2>3, <2>5, StepSound
<1>7. CASE FindAll(i)
  <2>1. UNCHANGED <<repo, live>>
        /\ requests' = [requests EXCEPT ![i] = Turned(r, "listed", Of(repo, r.machine))]
    BY <1>7 DEF FindAll, server
  <2>2. SoundData(Of(repo, r.machine)) /\ AllSound(Of(repo, r.machine))
    BY <1>1 DEF Of, SoundData, AllSound
  <2>3. SoundRequest(Turned(r, "listed", Of(repo, r.machine)))
    BY <1>1, <2>2, TurnedSound
  <2> QED
    BY <1>1, <2>1, <2>3, StepSound
<1>8. CASE Publish(i)
  <2>1. repo' = repo /\ \E result \in {"ok", "failed"} : Answer(i, result)
    BY <1>8 DEF Publish
  <2>2. r.result = "listed" /\ live' \in {live, (live \ Of(live, r.machine)) \cup r.data}
    BY <1>8 DEF Publish
  <2>3. AllSound(r.data)
    BY <1>1, <2>2 DEF SoundRequest
  <2>4. AllSound(live')
    BY <1>1, <2>2, <2>3 DEF AllSound
  <2> QED
    BY <1>1, <1>4, <2>1, <2>4, StepSound
<1> QED
  BY <1>5, <1>6, <1>7, <1>8

-----------------------------------------------------------------------------
(* The page *)

LEMMA ParamOpenSound ==
    ASSUME ParamInv, page = "param",
           (\E e \in Shown : ParamEdit(e) \/ OpenDelete(e)) \/ ParamAdd
    PROVE  ParamInv'
<1>1. ASSUME NEW e \in Shown, ParamEdit(e) PROVE ParamInv'
  <2> DEFINE v == [e.v EXCEPT !.durationInSec = IF @ = Blank THEN 1 ELSE @]
             rule == [id |-> e.id, machine |-> e.machine, v |-> v, ofTable |-> FALSE]
  <2>1. Sound(e)
    BY DEF ParamInv, AllSound
  <2>2. Sound(rule)
    BY <2>1 DEF Sound
  <2>3. Open("edit", rule)
    BY <1>1 DEF ParamEdit, OpenEdit
  <2> QED
    BY <2>2, <2>3, OpenSound
<1>2. ASSUME NEW e \in Shown, OpenDelete(e) PROVE ParamInv'
  <2> DEFINE rule == [id |-> e.id, machine |-> e.machine, v |-> e.v, ofTable |-> TRUE]
  <2>1. Sound(rule)
    BY DEF ParamInv, AllSound, Sound
  <2>2. Open("delete", rule)
    BY <1>2 DEF OpenDelete
  <2> QED
    BY <2>1, <2>2, OpenSound
<1>3. ASSUME ParamAdd PROVE ParamInv'
  <2> DEFINE v == [resource |-> Blank, count |-> 0, paramIdx |-> Blank,
                   durationInSec |-> 1, paramFlowItemList |-> {}]
             rule == [id |-> NoId, machine |-> mac, v |-> v, ofTable |-> FALSE]
  <2>1. Sound(rule)
    BY DEF Sound, OneEach
  <2>2. Open("add", rule)
    BY <1>3 DEF ParamAdd, OpenAdd
  <2> QED
    BY <2>1, <2>2, OpenSound
<1> QED
  BY <1>1, <1>2, <1>3

LEMMA ParamEnterSound ==
    ASSUME ParamInv, page = "param", page \in Page, OwnRule,
           ParamEnter \/ AddParamItem \/ RemoveParamItem
    PROVE  ParamInv'
<1>1. Sound(currentRule)
  <2>1. ParamEnter => \E v : Enter(v)
    BY Zenon DEF ParamEnter
  <2>2. open # "none"
    BY <2>1 DEF AddParamItem, RemoveParamItem, Enter
  <2> QED
    BY <2>2 DEF ParamInv
<1> DEFINE items == currentRule.v.paramFlowItemList
<1>2. CASE ParamEnter
  <2> DEFINE v(f) == [f EXCEPT !.resource = Key(@, currentRule.v.resource), !.paramFlowItemList = items]
  <2>1. PICK f \in Typed["param"] : Enter(v(f))
    BY <1>2, Zenon DEF ParamEnter
  <2>2. f \in ParamRule
    BY <2>1, TypedAssumption DEF FormOf, ValueOf
  <2>3. "paramFlowItemList" \in DOMAIN v(f) /\ v(f).paramFlowItemList = items
    BY <2>2 DEF ParamRule
  <2>4. OneEach(v(f).paramFlowItemList)
    BY <1>1, <2>3 DEF Sound
  <2> QED
    BY <2>1, <2>3, <2>4, EnterSound
<1>3. CASE AddParamItem \/ RemoveParamItem
  <2>1. PICK S : OneEach(S) /\ EnterItems(S)
    BY <1>1, <1>3, UpdateKeepsOneEach, RemoveKeepsOneEach DEF AddParamItem, RemoveParamItem, Sound
  <2> DEFINE v == [currentRule.v EXCEPT !.paramFlowItemList = S]
  <2>2. "paramFlowItemList" \in DOMAIN v /\ v.paramFlowItemList = S
    BY <1>1 DEF Sound
  <2>3. Enter(v)
    BY <2>1 DEF EnterItems
  <2> QED
    BY <2>1, <2>2, <2>3, EnterSound
<1> QED
  BY <1>2, <1>3

\* Of the pages' steps the page of parameter rules takes its own.
LEMMA LimitElsewhere == LimitRuleStep => page # "param"
BY DEF LimitRuleStep,
       DegradeMachines, DegradeRules, DegradeAnswers, DegradeEdit, DegradeAdd, DegradeEnter, DegradeSave,
       DegradeDelete, SystemMachines, SystemRules, SystemAnswers, SystemEdit, SystemAdd, SystemEnter,
       SystemSave, SystemDelete, AuthorityMachines, AuthorityRules, AuthorityAnswers, AuthorityEdit,
       AuthorityAdd, AuthorityEnter, AuthoritySave, AuthorityDelete, FlowV1Machines, FlowV1Rules,
       FlowV1Answers, FlowV1Edit, FlowV1Add, FlowV1Enter, FlowV1Save, FlowV1Delete

LEMMA ItemsOfParam ==
    ASSUME ItemRuleStep, page = "param"
    PROVE  \/ \E i \in DOMAIN requests : ParamMachines(i) \/ ParamRules(i) \/ ParamAnswers(i)
           \/ (\E e \in Shown : ParamEdit(e)) \/ ParamAdd \/ ParamEnter \/ ParamSave \/ ParamDelete
           \/ AddParamItem \/ RemoveParamItem
BY DEF ItemRuleStep, ApiMachines, ApiRules, ApiAnswers, GatewayMachines, GatewayRules, GatewayNames,
       GatewayAnswers, ApiEdit, GatewayEdit, ApiAdd, ApiEnter, ApiSave, ApiDelete, AddNewMatchPattern,
       MatchPatterns, GatewayAdd, GatewayEnter, GatewaySave, GatewayDelete, GatewayForm

LEMMA ItemStepSound ==
    ASSUME ParamInv, page = "param", page \in Page, OwnRule, ItemRuleStep
    PROVE  ParamInv'
<1>1. ASSUME NEW i \in DOMAIN requests, ParamMachines(i) \/ ParamRules(i) \/ ParamAnswers(i)
      PROVE  ParamInv'
  BY <1>1, MachinesSound, RulesSound, AnsweredSound DEF ParamMachines, ParamRules, ParamAnswers
<1>2. (\E e \in Shown : ParamEdit(e)) \/ ParamAdd => ParamInv'
  BY ParamOpenSound
<1>3. ParamEnter \/ AddParamItem \/ RemoveParamItem => ParamInv'
  BY ParamEnterSound
<1>4. ParamSave => ParamInv'
  BY SavedSound DEF ParamSave
<1>5. ParamDelete => ParamInv'
  BY SavedSound, ParamOpenSound DEF ParamDelete
<1> QED
  BY <1>1, <1>2, <1>3, <1>4, <1>5, ItemsOfParam

LEMMA PageStays == [Next]_vars => page' = page
<1>1. ASSUME NEW i \in DOMAIN requests, DashboardStep(i) \/ LoseAnswer(i) PROVE page' = page
  BY <1>1, DashboardAlone DEF LoseAnswer
<1>2. Select(Watched) \/ Close \/ OtherQuery => page' = page
  BY DEF Select, Close, OtherQuery
<1>3. /\ \A i, ops : MachinesAnswered(i, ops) => page' = page
      /\ \A i, shown : RulesAnswered(i, shown) => page' = page
      /\ \A type, rule : Open(type, rule) => page' = page
      /\ \A v : Enter(v) => page' = page
      /\ \A op, sent : Change(op, sent) => page' = page
      /\ \A i : ChangeAnswered(i) => page' = page
      /\ \A i : GatewayNames(i) => page' = page
  BY DEF MachinesAnswered, RulesAnswered, Open, Enter, Change, ChangeAnswered, GatewayNames
<1>4. /\ \A e, v : OpenEdit(e, v) => page' = page
      /\ \A v : OpenAdd(v) => page' = page
      /\ \A e : OpenDelete(e) => page' = page
      /\ \A addOk, saveOk, sent : Save(addOk, saveOk, sent) => page' = page
      /\ Confirm => page' = page
  BY <1>3 DEF OpenEdit, OpenAdd, OpenDelete, Save, Confirm
<1>5. LimitRuleStep => page' = page
  <2>1. DegradeEnter \/ SystemEnter \/ AuthorityEnter \/ FlowV1Enter => \E v : Enter(v)
    BY Zenon DEF DegradeEnter, SystemEnter, AuthorityEnter, FlowV1Enter
  <2>2. ASSUME NEW i, \/ DegradeMachines(i) \/ DegradeRules(i) \/ DegradeAnswers(i)
                      \/ SystemMachines(i) \/ SystemRules(i) \/ SystemAnswers(i)
                      \/ AuthorityMachines(i) \/ AuthorityRules(i) \/ AuthorityAnswers(i)
                      \/ FlowV1Machines(i) \/ FlowV1Rules(i) \/ FlowV1Answers(i)
        PROVE  page' = page
    BY <2>2, <1>3
       DEF DegradeMachines, DegradeRules, DegradeAnswers, SystemMachines, SystemRules, SystemAnswers,
           AuthorityMachines, AuthorityRules, AuthorityAnswers, FlowV1Machines, FlowV1Rules, FlowV1Answers
  <2>3. ASSUME NEW e, DegradeEdit(e) \/ SystemEdit(e) \/ AuthorityEdit(e) \/ FlowV1Edit(e)
        PROVE  page' = page
    BY <2>3, <1>4 DEF DegradeEdit, SystemEdit, AuthorityEdit, FlowV1Edit
  <2>4. DegradeAdd \/ SystemAdd \/ AuthorityAdd \/ FlowV1Add => page' = page
    BY <1>4 DEF DegradeAdd, SystemAdd, AuthorityAdd, FlowV1Add
  <2>5. DegradeSave \/ SystemSave \/ AuthoritySave \/ FlowV1Save => page' = page
    BY <1>4 DEF DegradeSave, SystemSave, AuthoritySave, FlowV1Save
  <2>6. DegradeDelete \/ SystemDelete \/ AuthorityDelete \/ FlowV1Delete => page' = page
    BY <1>4 DEF DegradeDelete, SystemDelete, AuthorityDelete, FlowV1Delete
  <2> QED
    BY <1>3, <2>1, <2>2, <2>3, <2>4, <2>5, <2>6 DEF LimitRuleStep
<1>6. ItemRuleStep => page' = page
  BY <1>3, <1>4
     DEF ItemRuleStep, ParamMachines, ParamRules, ParamAnswers, ParamEdit, ParamAdd, ParamEnter, ParamSave,
         ParamDelete, AddParamItem, RemoveParamItem, EnterItems,
         ApiMachines, ApiRules, ApiAnswers, ApiEdit, ApiAdd, ApiEnter, ApiSave, ApiDelete,
         AddNewMatchPattern, MatchPatterns, RemoveMatchPattern, TypePattern, EnterPatterns,
         GatewayMachines, GatewayRules, GatewayAnswers, GatewayEdit, GatewayAdd, GatewayEnter,
         GatewaySave, GatewayDelete, GatewayForm, UseResource, UseParamItem, UseParamItemVal, EnterParam
<1> QED
  BY <1>1, <1>2, <1>5, <1>6 DEF Next, Dashboard, DashboardStep, vars

LEMMA ParamNext ==
    ASSUME ParamInv, page \in Page, OwnRule, [Next]_vars
    PROVE  ParamInv'
<1>1. page' = page
  BY PageStays
<1>2. CASE page # "param"
  BY <1>1, <1>2 DEF ParamInv
<1>3. CASE page = "param" /\ UNCHANGED vars
  BY <1>3 DEF ParamInv, vars, table, dialog, server, Shown
<1>4. CASE page = "param" /\ Next
  BY <1>4, LimitElsewhere, ItemStepSound, SelectSound, CloseSound, QuerySound, ChangeStepSound,
     OtherSound, OtherAnsweredSound, LostSound DEF Next, Dashboard
<1> QED
  BY <1>2, <1>3, <1>4

\* Through any sequence of queries, edits and answers no parameter value has
\* two thresholds in a rule that is edited or in force.
THEOREM OneThresholdEach == Spec => []ParamItemsUnique
<1> DEFINE IInv == ParamInv /\ OwnRule /\ page \in Page
<1>1. Init => IInv
  <2> SUFFICES ASSUME Init PROVE IInv
    OBVIOUS
  <2>1. page = "param" => AllSound(live)
    BY RulesAssumption DEF Init, AllSound, Sound, OneEach, ValueOf, ParamRule
  <2>2. SoundRequests(requests)
    <3>1. SoundRequest([op |-> "machines"])
      BY DEF SoundRequest
    <3>2. requests = Append(<<>>, [op |-> "machines"])
      BY DEF Init
    <3> QED
      BY <3>1, <3>2, EmptySound, AppendSound
  <2> QED
    BY <2>1, <2>2 DEF Init, ParamInv, OwnRule, AllSound, Shown
<1>2. IInv /\ [Next]_vars => IInv'
  <2> SUFFICES ASSUME IInv, [Next]_vars PROVE IInv'
    OBVIOUS
  <2>1. ParamInv'
    BY ParamNext
  <2>2. OwnRule'
    BY NextQuiet, OwnRuleKept DEF Quiet, vars, dialog, OwnRule
  <2> QED
    BY <2>1, <2>2, PageStays
<1>3. IInv => ParamItemsUnique
  <2> SUFFICES ASSUME IInv, page = "param",
                      NEW v \in {e.v : e \in live \cup Shown} \cup (IF open = "none" THEN {} ELSE {currentRule.v})
               PROVE  \A it, other \in v.paramFlowItemList : SameKey(it, other) => it = other
    BY DEF ParamItemsUnique
  <2>1. OneEach(v.paramFlowItemList)
    BY DEF ParamInv, AllSound, Sound
  <2> QED
    BY <2>1 DEF OneEach
<1> QED
  BY <1>1, <1>2, <1>3, PTL DEF Spec
=============================================================================
