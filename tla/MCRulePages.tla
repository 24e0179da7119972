---------------------------- MODULE MCRulePages ----------------------------
(* RulePages on a small instance: two machines and two rules, of one machine or *)
(* of both. *)
EXTENDS RulePages, TLC

CONSTANTS m1, m2, r1, r2, g1, g2, n1, x1

Degrade(r, g, c) == [resource |-> r, grade |-> g, count |-> c, timeWindow |-> 1]
Thresholds(f)    == f @@ NoThresholds
Authority(a, s)  == [resource |-> r1, limitApp |-> a, strategy |-> s]
FlowV1(b, w, c)  == [resource |-> r1, count |-> 1, strategy |-> 0, refResource |-> Blank,
                     controlBehavior |-> b, wait |-> w, clusterMode |-> c]
ParamFlow(d, S)  == [resource |-> r1, count |-> 1, paramIdx |-> 0, durationInSec |-> d,
                     paramFlowItemList |-> S]
Item(c)          == [object |-> n1, classType |-> "int", count |-> c]
Group(n, s)      == [apiName |-> n, predicateItems |-> s]
Gateway(k, r, p) == [resourceMode |-> k, resource |-> r, count |-> 1, paramItem |-> p]
ByHeader(f, q)   == [parseStrategy |-> 2, fieldName |-> f, pattern |-> q]

\* Two rules, one of each machine; or both of one, where that makes a difference.
First(v, w)  == {{[id |-> 1, machine |-> m1, v |-> v], [id |-> 2, machine |-> m2, v |-> w]}}
Either(v, w) == First(v, w) \cup {{[id |-> k, machine |-> m1, v |-> IF k = 1 THEN v ELSE w] : k \in 1..2}}
TheRules == [p \in Page |->
    CASE p = "degrade"   -> First(Degrade(r1, 0, 1), Degrade(r2, 1, 1))
      [] p = "system"    -> First(Thresholds([avgRt |-> 1, qps |-> 2]), Thresholds([highestCpuUsage |-> 1]))
      [] p = "authority" -> First(Authority(r1, 0), Authority(r1, 1))
      [] p = "flow_v1"   -> Either(FlowV1(1, 1, FALSE), FlowV1(0, Blank, TRUE))
      [] p = "param"     -> First(ParamFlow(Blank, {Item(1)}), ParamFlow(1, {}))
      [] p = "api"       -> Either(Group(g1, {r1}), Group(g2, {}))
      [] p = "gateway"   -> Either(Gateway(1, g1, ByHeader(r1, Null)), Gateway(0, r1, NoParam))]
TheForms == [p \in Page |->
    CASE p = "degrade"   -> {Degrade(r1, 0, 2), Degrade(r1, 1, 2)}
      [] p = "system"    -> [grade : {4}, threshold : {1, Blank}] \cup [grade : {CpuUsage}, threshold : {2}]
      [] p = "authority" -> {Authority(r2, 1), Authority(Blank, 0)}
      [] p = "flow_v1"   -> {FlowV1(2, 2, TRUE), FlowV1(2, Blank, FALSE)}
      [] p = "param"     -> {ParamFlow(2, {})}
      [] p = "api"       -> {g1, g2}
      [] p = "gateway"   -> {Gateway(0, r2, ByHeader(r1, r1)), Gateway(1, g1, ByHeader(Blank, Null))}]
TheNames == [m \in Machine |-> IF m = m1 THEN {g1} ELSE {g2}]
Items    == {Item(0), Item(2), [Item(1) EXCEPT !.object = x1]}
FirstIds  == [p \in Page |-> IF p \in {"degrade", "system", "authority", "param"} THEN {0, 2} ELSE {0}]
TheClicks == [p \in Page |-> IF p \in {"degrade", "flow_v1", "api"} THEN 4 ELSE 3]
=============================================================================
