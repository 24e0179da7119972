--------------------------- MODULE LimitRulePages ---------------------------
(***************************************************************************)
(* The pages of degrade rules, system rules, authority rules and the flow  *)
(* rules of one machine (degrade.js, system.js, authority.js, flow_v1.js   *)
(* and their services).                                                    *)
(***************************************************************************)
EXTENDS RulePage

-----------------------------------------------------------------------------
(* Degrade rules: grade 0 is the response time, 1 the ratio of exceptions, *)
(* 2 their number.                                                         *)

DegradeRule == [resource : Text, grade : 0..2, count : Count, timeWindow : Count]
DegradeMachines(i) == page = "degrade" /\ MachinesAnswered(i, <<"rules">>)
DegradeRules(i)    == page = "degrade" /\ RulesAnswered(i, requests[i].was)
DegradeEdit(e)     == page = "degrade" /\ OpenEdit(e, e.v)
DegradeAdd ==
    /\ page = "degrade"
    /\ OpenAdd([resource |-> Blank, grade |-> 0, count |-> Blank, timeWindow |-> Blank])
DegradeEnter ==
    /\ page = "degrade"
    /\ \E f \in Typed["degrade"] : Enter([f EXCEPT !.resource = Key(@, currentRule.v.resource)])
DegradeValid(v) ==
    /\ v.resource # Blank /\ v.count # Blank /\ v.timeWindow # Blank
    /\ v.timeWindow > 0
    /\ v.grade = 1 => v.count <= 1
DegradeSave ==
    /\ page = "degrade"
    /\ LET v == currentRule.v IN Save(DegradeValid(v), DegradeValid(v), v)
DegradeDelete == page = "degrade" /\ ((\E e \in Shown : OpenDelete(e)) \/ Confirm)
DegradeAnswers(i) == page = "degrade" /\ ChangeAnswered(i)

-----------------------------------------------------------------------------
(* System rules.  A rule has five thresholds, -1 where there is none.  The *)
(* page shows the first that is set as the rule's grade, and sends the     *)
(* threshold of that grade only.                                           *)

Metrics    == <<"highestSystemLoad", "avgRt", "maxThread", "qps", "highestCpuUsage">>
Grade      == DOMAIN Metrics
CpuUsage   == 5
SystemRule == [ToSet(Metrics) -> Nat \cup {-1}]
SystemForm == [grade : Grade, threshold : Count]
SystemMachines(i) == page = "system" /\ MachinesAnswered(i, <<"rules">>)
SystemRules(i)    == page = "system" /\ RulesAnswered(i, requests[i].was)
\* A rule without any threshold has no grade (undefined); none is stored.
SystemGrade(v) == SelectInSeq(Metrics, LAMBDA metric : v[metric] >= 0)
SystemShown(v) == [grade |-> SystemGrade(v), threshold |-> v[Metrics[SystemGrade(v)]]]
SystemEdit(e)  == page = "system" /\ OpenEdit(e, SystemShown(e.v))
SystemAdd      == page = "system" /\ OpenAdd([grade |-> 1, threshold |-> Blank])
SystemEnter ==
    /\ page = "system"
    /\ \E f \in Typed["system"] : Enter([f EXCEPT !.grade = Key(@, currentRule.v.grade)])
SystemAddValid(v) == v.grade = CpuUsage /\ v.threshold # Blank => v.threshold <= 1
SystemSave ==
    page = "system" /\ Save(SystemAddValid(currentRule.v), TRUE, currentRule.v)
SystemDelete == page = "system" /\ ((\E e \in Shown : OpenDelete(e)) \/ Confirm)
SystemAnswers(i) == page = "system" /\ ChangeAnswered(i)

\* apiAdd takes exactly one threshold; apiUpdateIfNotNull keeps the others,
\* and everything when there is none.
SystemAccepts(op, v) == (op = "add" => v.threshold # Blank) /\ SystemAddValid(v)
NoThresholds == [metric \in ToSet(Metrics) |-> -1]
\* Mutant: a threshold that was not given is stored.
SystemStoredNull(old, v) == [old EXCEPT ![Metrics[v.grade]] = v.threshold]
SystemStored(old, v) ==
    IF v.threshold = Blank THEN old ELSE [old EXCEPT ![Metrics[v.grade]] = v.threshold]

-----------------------------------------------------------------------------
(* Authority rules: strategy 0 lists who may call, 1 who may not. *)

AuthorityRule == [resource : Text, limitApp : Text, strategy : 0..1]
AuthorityMachines(i) == page = "authority" /\ MachinesAnswered(i, <<"rules">>)
AuthorityRules(i)    == page = "authority" /\ RulesAnswered(i, requests[i].was)
AuthorityEdit(e)     == page = "authority" /\ OpenEdit(e, e.v)
AuthorityAdd ==
    page = "authority" /\ OpenAdd([resource |-> Blank, limitApp |-> Blank, strategy |-> 0])
AuthorityEnter ==
    /\ page = "authority"
    /\ \E f \in Typed["authority"] : Enter([f EXCEPT !.resource = Key(@, currentRule.v.resource)])
AuthorityValid(v) == v.resource # Blank /\ v.limitApp # Blank
AuthoritySave ==
    /\ page = "authority"
    /\ LET v == currentRule.v IN Save(AuthorityValid(v), AuthorityValid(v), v)
AuthorityDelete == page = "authority" /\ ((\E e \in Shown : OpenDelete(e)) \/ Confirm)
AuthorityAnswers(i) == page = "authority" /\ ChangeAnswered(i)

-----------------------------------------------------------------------------
(* Flow rules of one machine.  wait stands for warmUpPeriodSec and         *)
(* maxQueueingTimeMs, of which controlBehavior says which one counts.      *)

FlowV1Rule == [resource : Text, count : Count, strategy : 0..2, refResource : Text,
               controlBehavior : 0..2, wait : Count, clusterMode : BOOLEAN]
FlowV1Machines(i) == page = "flow_v1" /\ MachinesAnswered(i, <<"rules">>)
FlowV1Rules(i)    == page = "flow_v1" /\ RulesAnswered(i, requests[i].was)
FlowV1Edit(e)     == page = "flow_v1" /\ OpenEdit(e, e.v)
FlowV1Add ==
    /\ page = "flow_v1"
    /\ OpenAdd([resource |-> Blank, count |-> Blank, strategy |-> 0, refResource |-> Blank,
                controlBehavior |-> 0, wait |-> Blank, clusterMode |-> FALSE])
FlowV1Enter ==
    /\ page = "flow_v1"
    /\ \E f \in Typed["flow_v1"] : Enter([f EXCEPT !.resource = Key(@, currentRule.v.resource)])
FlowV1Valid(v) ==
    /\ v.resource # Blank /\ v.count # Blank
    /\ v.strategy # 0 => v.refResource # Blank
    /\ v.controlBehavior # 0 => v.wait # Blank /\ v.wait > 0
FlowV1Save ==
    /\ page = "flow_v1"
    /\ LET v == currentRule.v IN Save(FlowV1Valid(v), FlowV1Valid(v), v)
FlowV1Delete == page = "flow_v1" /\ ((\E e \in Shown : OpenDelete(e)) \/ Confirm)
FlowV1Answers(i) == page = "flow_v1" /\ ChangeAnswered(i)

\* Mutant: with the behaviour its parameter is lost.
FlowV1StoredBare(old, v) == [v EXCEPT !.wait = old.wait, !.clusterMode = old.clusterMode]
\* saveRule of flow_service_v1.js sends a list of fields that leaves out the
\* cluster mode; updateIfNotNull keeps what is not there, and the reference
\* when the strategy has none.
FlowV1Stored(old, v) ==
    [v EXCEPT !.clusterMode = old.clusterMode,
              !.refResource = IF v.strategy = 0 THEN old.refResource ELSE @,
              !.wait = IF @ = Blank THEN old.wait ELSE @]

LimitRuleStep ==
    \/ \E i \in DOMAIN requests :
         \/ DegradeMachines(i) \/ DegradeRules(i) \/ DegradeAnswers(i)
         \/ SystemMachines(i) \/ SystemRules(i) \/ SystemAnswers(i)
         \/ AuthorityMachines(i) \/ AuthorityRules(i) \/ AuthorityAnswers(i)
         \/ FlowV1Machines(i) \/ FlowV1Rules(i) \/ FlowV1Answers(i)
    \/ \E e \in Shown : DegradeEdit(e) \/ SystemEdit(e) \/ AuthorityEdit(e) \/ FlowV1Edit(e)
    \/ DegradeAdd \/ DegradeEnter \/ DegradeSave \/ DegradeDelete
    \/ SystemAdd \/ SystemEnter \/ SystemSave \/ SystemDelete
    \/ AuthorityAdd \/ AuthorityEnter \/ AuthoritySave \/ AuthorityDelete
    \/ FlowV1Add \/ FlowV1Enter \/ FlowV1Save \/ FlowV1Delete
=============================================================================
