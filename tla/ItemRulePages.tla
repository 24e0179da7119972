---------------------------- MODULE ItemRulePages ----------------------------
(***************************************************************************)
(* The pages whose rules contain items: parameter-flow rules, API groups   *)
(* of a gateway, and its flow rules (param_flow.js, gateway/api.js,        *)
(* gateway/flow.js and their services).                                    *)
(***************************************************************************)
EXTENDS RulePage

CONSTANTS
    ParamObject, \* values of a parameter that get a threshold of their own
    Number,      \* those that are numbers
    Byte,        \* those between -128 and 127
    Typeable,    \* items the operator may enter, valid or not
    Pattern,     \* patterns of an API group
    ApiName      \* names of API groups

ASSUME ItemAssumption == Byte \subseteq Number /\ Number \subseteq ParamObject

-----------------------------------------------------------------------------
(* Parameter-flow rules.  A threshold of -1 stands for those below 0.      *)

ClassType == {"int", "byte", "java.lang.String"}
ParamItem == [object : ParamObject, classType : ClassType, count : Nat \cup {-1}]
ParamRule == [resource : Text, count : Count, paramIdx : Count,
              durationInSec : Count, paramFlowItemList : SUBSET ParamItem]
ParamMachines(i) == page = "param" /\ MachinesAnswered(i, <<"rules">>)
ParamRules(i)    == page = "param" /\ RulesAnswered(i, requests[i].was)
ParamEdit(e) ==
    /\ page = "param"
    /\ OpenEdit(e, [e.v EXCEPT !.durationInSec = IF @ = Blank THEN 1 ELSE @])
ParamAdd ==
    /\ page = "param"
    /\ OpenAdd([resource |-> Blank, count |-> 0, paramIdx |-> Blank,
                durationInSec |-> 1, paramFlowItemList |-> {}])
ParamEnter ==
    /\ page = "param"
    /\ \E f \in Typed["param"] :
          Enter([f EXCEPT !.resource = Key(@, currentRule.v.resource),
                          !.paramFlowItemList = currentRule.v.paramFlowItemList])
notValidParamItem(it) ==
    \/ it.classType = "int" /\ it.object \notin Number
    \/ it.classType = "byte" /\ it.object \notin Byte
    \/ it.count < 0
ParamValid(v) ==
    /\ v.resource # Blank /\ v.paramIdx # Blank
    /\ \A it \in v.paramFlowItemList : ~notValidParamItem(it)
ParamSave ==
    /\ page = "param"
    /\ LET v == currentRule.v IN Save(ParamValid(v), ParamValid(v), v)
ParamDelete == page = "param" /\ ((\E e \in Shown : OpenDelete(e)) \/ Confirm)
ParamAnswers(i) == page = "param" /\ ChangeAnswered(i)

SameKey(it, other) == it.object = other.object /\ it.classType = other.classType
\* Mutant: an item that is there already is added again.
updateSingleParamItemPush(S, it) == S \cup {it}
Same(S, it) == CHOOSE other \in S : SameKey(it, other)
updateSingleParamItem(S, it) ==
    IF \E other \in S : SameKey(it, other) THEN (S \ {Same(S, it)}) \cup {it} ELSE S \cup {it}
removeSingleParamItem(S, it) == S \ {Same(S, it)}

EnterItems(S) == Enter([currentRule.v EXCEPT !.paramFlowItemList = S])
\* The button is disabled while the item is not valid.
AddParamItem ==
    /\ page = "param" /\ open \in {"add", "edit"}
    /\ \E it \in Typeable :
          /\ ~notValidParamItem(it)
          /\ EnterItems(updateSingleParamItem(currentRule.v.paramFlowItemList, it))
RemoveParamItem ==
    /\ page = "param" /\ open \in {"add", "edit"}
    /\ \E it \in currentRule.v.paramFlowItemList :
          EnterItems(removeSingleParamItem(currentRule.v.paramFlowItemList, it))

-----------------------------------------------------------------------------
(* API groups of a gateway.  The table has one line for each predicate     *)
(* item; the lines of a group are one row here.                            *)

\* A group has a set of items, of which the form shows a list.
FiniteSubsets(S) == {T \in SUBSET S : IsFiniteSet(T)}
ApiGroup == [apiName : ApiName \cup {Blank}, predicateItems : FiniteSubsets(Pattern \cup {Blank})]
ApiForm  == [apiName : ApiName \cup {Blank}, predicateItems : Seq(Pattern \cup {Blank})]
ApiShown(v) == [v EXCEPT !.predicateItems = SetToSeq(@)]
ApiMachines(i) == page = "api" /\ MachinesAnswered(i, <<"rules">>)
\* A group without items has no line.
ApiRows(S)  == {e \in S : e.v.predicateItems # {}}
ApiRules(i) == page = "api" /\ RulesAnswered(i, ApiRows(requests[i].was))
ApiEdit(e)  == page = "api" /\ OpenEdit(e, ApiShown(e.v))
ApiAdd      == page = "api" /\ OpenAdd([apiName |-> Blank, predicateItems |-> <<Blank>>])
ApiEnter ==
    /\ page = "api" /\ open = "add"
    /\ \E name \in Typed["api"] : Enter([currentRule.v EXCEPT !.apiName = name])
ApiValid(v, apiNames) ==
    /\ v.apiName # Blank /\ v.apiName \notin apiNames
    /\ v.predicateItems # <<>>
    /\ \A k \in DOMAIN v.predicateItems : v.predicateItems[k] # Blank
\* A new group must have a name that is not in the table; before there is one
\* the handler throws.
ApiSave ==
    /\ page = "api"
    /\ Save(rows # Null /\ ApiValid(currentRule.v, {e.v.apiName : e \in Shown}),
            ApiValid(currentRule.v, {}), currentRule.v)
ApiDelete == page = "api" /\ ((\E e \in Shown : OpenDelete(e)) \/ Confirm)
ApiAnswers(i) == page = "api" /\ ChangeAnswered(i)

\* addApi, updateApi: the items become a LinkedHashSet of those in the form,
\* the name is the old one.
ApiStored(old, v) == [old EXCEPT !.predicateItems = ToSet(v.predicateItems)]

EnterPatterns(s) == Enter([currentRule.v EXCEPT !.predicateItems = s])
AddNewMatchPattern ==
    /\ page = "api" /\ open \in {"add", "edit"}
    /\ EnterPatterns(Append(currentRule.v.predicateItems, Blank))
RemoveMatchPattern(k) ==
    /\ Len(currentRule.v.predicateItems) > 1
    /\ EnterPatterns(RemoveAt(currentRule.v.predicateItems, k))
TypePattern(k, p) == EnterPatterns([currentRule.v.predicateItems EXCEPT ![k] = p])
MatchPatterns ==
    /\ page = "api" /\ open \in {"add", "edit"}
    /\ \E k \in DOMAIN currentRule.v.predicateItems :
          RemoveMatchPattern(k) \/ \E p \in Pattern : TypePattern(k, p)

-----------------------------------------------------------------------------
(* Flow rules of a gateway: for a route (resourceMode 0) or an API group   *)
(* (1), for all requests or by a parameter.                                *)

NoParam == [parseStrategy |-> -1]
Param   == [parseStrategy : 0..4, fieldName : Text, pattern : Text \cup {Null}]
GatewayRule == [resourceMode : 0..1, resource : Text \cup ApiName \cup {Null}, count : Count,
                paramItem : Param \cup {NoParam}]
GatewayMachines(i) == page = "gateway" /\ MachinesAnswered(i, <<"rules", "names">>)
GatewayRules(i)    == page = "gateway" /\ RulesAnswered(i, requests[i].was)

\* When the options of a select change and the chosen one is not among them
\* the choice becomes null.
Reselected(v, S) ==
    IF v.resourceMode = 1 /\ v.resource # Blank /\ v.resource \notin S
    THEN [v EXCEPT !.resource = Null] ELSE v

\* getApiNames: after an error the names shown before stay.
GatewayNames(i) ==
    /\ page = "gateway"
    /\ requests[i].op = "names"
    /\ \/ /\ names' = ApiNames[requests[i].mac]
          /\ missed' = IF requests[i].old THEN missed \cup {"names"} ELSE missed \ {"names"}
          /\ currentRule' = IF open \in {"add", "edit"}
                            THEN [currentRule EXCEPT !.v = Reselected(@, names')]
                            ELSE currentRule
       \/ missed' = missed \cup {"names"} /\ UNCHANGED <<names, currentRule>>
    /\ requests' = Rest(i)
    /\ UNCHANGED <<page, mac, options, rows, open, server, clicks>>

GatewayEdit(e) == page = "gateway" /\ OpenEdit(e, e.v)
GatewayAdd ==
    /\ page = "gateway"
    /\ OpenAdd([resourceMode |-> 0, resource |-> Blank, count |-> Blank, paramItem |-> NoParam])
\* A group is chosen from the names that are shown.
GatewayEnter ==
    /\ page = "gateway" /\ open \in {"add", "edit"}
    /\ \E f \in Typed["gateway"] :
          /\ currentRule.v.resourceMode = 1 /\ open = "add" => f.resource \in names
          /\ Enter([f EXCEPT !.resource = Key(@, currentRule.v.resource),
                             !.resourceMode = currentRule.v.resourceMode])
GatewayValid(v) ==
    /\ v.resource # Blank /\ v.count # Blank
    /\ v.paramItem.parseStrategy \in 2..4 =>
         v.paramItem.fieldName # Blank /\ v.paramItem.pattern # Blank
GatewaySave ==
    /\ page = "gateway"
    /\ LET v == currentRule.v IN Save(GatewayValid(v), GatewayValid(v), v)
GatewayDelete == page = "gateway" /\ ((\E e \in Shown : OpenDelete(e)) \/ Confirm)
GatewayAnswers(i) == page = "gateway" /\ ChangeAnswered(i)

\* useRouteID, useCustormAPI: the radio button sets the mode.
UseResource(mode) ==
    open = "add" /\ Enter([currentRule.v EXCEPT !.resourceMode = mode, !.resource = Blank])
EnterParam(p) == Enter([currentRule.v EXCEPT !.paramItem = p])
\* useParamItem, notUseParamItem, useParamItemVal, notUseParamItemVal: one box
\* each, ticked or not.
UseParamItem ==
    EnterParam(IF currentRule.v.paramItem = NoParam
               THEN [parseStrategy |-> 0, fieldName |-> Blank, pattern |-> Null]
               ELSE NoParam)
UseParamItemVal ==
    /\ currentRule.v.paramItem # NoParam
    /\ EnterParam([currentRule.v.paramItem EXCEPT !.pattern = IF @ = Null THEN Blank ELSE Null])
GatewayForm ==
    /\ page = "gateway" /\ open \in {"add", "edit"}
    /\ (\E mode \in 0..1 : UseResource(mode)) \/ UseParamItem \/ UseParamItemVal

\* updateFlowRule keeps the route or group, and of the parameter what its
\* strategy has use for.
GatewayParamStored(p) ==
    CASE p.parseStrategy \in 2..4 -> [p EXCEPT !.pattern = IF @ = Blank THEN Null ELSE @]
      [] p.parseStrategy \in 0..1 -> [p EXCEPT !.fieldName = Blank, !.pattern = Null]
      [] OTHER -> NoParam
GatewayStored(old, v) ==
    [v EXCEPT !.resource = old.resource, !.resourceMode = old.resourceMode,
              !.paramItem = GatewayParamStored(@)]

ItemRuleStep ==
    \/ \E i \in DOMAIN requests :
         \/ ParamMachines(i) \/ ParamRules(i) \/ ParamAnswers(i)
         \/ ApiMachines(i) \/ ApiRules(i) \/ ApiAnswers(i)
         \/ GatewayMachines(i) \/ GatewayRules(i) \/ GatewayNames(i) \/ GatewayAnswers(i)
    \/ \E e \in Shown : ParamEdit(e) \/ ApiEdit(e) \/ GatewayEdit(e)
    \/ ParamAdd \/ ParamEnter \/ ParamSave \/ ParamDelete \/ AddParamItem \/ RemoveParamItem
    \/ ApiAdd \/ ApiEnter \/ ApiSave \/ ApiDelete \/ AddNewMatchPattern \/ MatchPatterns
    \/ GatewayAdd \/ GatewayEnter \/ GatewaySave \/ GatewayDelete \/ GatewayForm
=============================================================================
