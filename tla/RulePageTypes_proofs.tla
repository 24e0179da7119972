------------------------ MODULE RulePageTypes_proofs ------------------------
(***************************************************************************)
(* Proofs about RulePages: what every step of a page comes down to, and    *)
(* that all state is of its type.                                          *)
(***************************************************************************)
EXTENDS RulePages_proofs, FiniteSetTheorems

LEMMA LeastOf ==
    ASSUME NEW F \in SUBSET Nat, F # {}
    PROVE  \E n \in F : \A m \in F : n <= m
<1> DEFINE R == {p \in Nat \X Nat : p[1] < p[2]}
<1>1. IsWellFoundedOn(R, Nat)
  BY NatLessThanWellFounded DEF OpToRel
<1>2. PICK n \in F : \A m \in F : <<m, n>> \notin R
  BY <1>1, WFMin
<1>3. \A m \in F : ~(m < n)
  BY <1>2
<1> QED
  BY <1>3

\* The list that a form shows of a finite set has the same items.
LEMMA Listing ==
    ASSUME NEW S, IsFiniteSet(S)
    PROVE  SetToSeq(S) \in Seq(S) /\ ToSet(SetToSeq(S)) = S
<1> DEFINE n == Cardinality(S)
           Is(f) == f \in [1..n -> S] /\ IsInjective(f)
<1>1. n \in Nat /\ \E f : f \in Bijection(1..n, S)
  BY FS_CardinalityType DEF ExistsBijection
<1>2. \E f : Is(f)
  BY <1>1 DEF Bijection, Injection
<1>3. \E f \in [1..n -> S] : IsInjective(f)
  BY <1>2
<1> DEFINE s == SetToSeq(S)
<1>4. s \in [1..n -> S] /\ IsInjective(s)
  BY <1>3 DEF SetToSeq
<1> HIDE DEF s
<1>5. s \in Injection(1..n, S)
  BY <1>4 DEF Injection
<1>6. IsFiniteSet(1..n) /\ Cardinality(1..n) = n
  BY <1>1, FS_Interval
<1>7. s \in Surjection(1..n, S)
  BY <1>5, <1>6, FS_Injection
<1>8. s \in Seq(S)
  BY <1>1, <1>4, SeqDef
<1>9. ToSet(s) = S
  BY <1>4, <1>7 DEF ToSet, Surjection
<1> QED
  BY <1>8, <1>9 DEF s

\* What a list stores is finitely many of its items.
LEMMA ListedItems ==
    ASSUME NEW S, NEW s \in Seq(S)
    PROVE  ToSet(s) \in FiniteSubsets(S)
<1>1. Len(s) \in Nat /\ s \in [1..Len(s) -> S] /\ DOMAIN s = 1..Len(s)
  OBVIOUS
<1>2. s \in Surjection(1..Len(s), ToSet(s))
  BY <1>1 DEF Surjection, ToSet
<1>3. IsFiniteSet(1..Len(s))
  BY <1>1, FS_Interval
<1>4. IsFiniteSet(ToSet(s))
  BY <1>2, <1>3, FS_Surjection
<1>5. ToSet(s) \subseteq S
  BY <1>1 DEF ToSet
<1> QED
  BY <1>4, <1>5 DEF FiniteSubsets

-----------------------------------------------------------------------------
(* The steps of a page *)

\* What the dialog shows of a rule that is edited.
EditForm(v) ==
    CASE page = "system" -> SystemShown(v)
      [] page = "param"  -> [v EXCEPT !.durationInSec = IF @ = Blank THEN 1 ELSE @]
      [] page = "api"    -> ApiShown(v)
      [] OTHER           -> v

\* The dialog of a rule that exists leaves its kind alone: whether a gateway
\* rule is for a route or an API group, and the name of a group.
KindOf(p, v) ==
    CASE p = "gateway" -> v.resourceMode [] p = "api" -> v.apiName [] OTHER -> 0
FormKind(f) == KindOf(page, f)
Entered(v) ==
    /\ open \in {"add", "edit"}
    /\ v \in Form
    /\ open = "edit" => FormKind(v) = FormKind(currentRule.v)
    /\ Enter(v)

\* Forms of one machine's flow rules are valid when they are sent.
Sent(op) ==
    /\ open = CASE op = "add" -> "add" [] op = "save" -> "edit" [] op = "delete" -> "delete"
    /\ page = "flow_v1" /\ op # "delete" => FlowV1Valid(currentRule.v)
    /\ Change(op, currentRule.v)

\* Every handler of a page is one of these.
PageStep ==
    \/ Select(Watched) \/ Close \/ OtherQuery
    \/ \E i \in DOMAIN requests :
         \/ MachinesAnswered(i, Watched) \/ RulesAnswered(i, Listed(requests[i].was))
         \/ GatewayNames(i) /\ page = "gateway"
         \/ ChangeAnswered(i) \/ LoseAnswer(i) \/ DashboardStep(i)
    \/ \E e \in Shown : OpenEdit(e, EditForm(e.v)) \/ OpenDelete(e)
    \/ \E v \in Form : OpenAdd(v)
    \/ \E v : Entered(v)
    \/ \E op \in {"add", "save", "delete"} : Sent(op)

DialogTyped == open \in {"add", "edit"} => currentRule.v \in Form

LEMMA DegradeSteps ==
    ASSUME DialogTyped, page \in Page, page = "degrade",
           \/ \E i \in DOMAIN requests : DegradeMachines(i) \/ DegradeRules(i) \/ DegradeAnswers(i)
           \/ \E e \in Shown : DegradeEdit(e)
           \/ DegradeAdd \/ DegradeEnter \/ DegradeSave \/ DegradeDelete
    PROVE  PageStep
<1>1. Form = DegradeRule /\ Watched = <<"rules">>
  BY DEF Form, FormOf, ValueOf, Watched
<1>2. ASSUME NEW i \in DOMAIN requests, DegradeMachines(i) \/ DegradeRules(i) \/ DegradeAnswers(i)
      PROVE  PageStep
  BY <1>1, <1>2 DEF PageStep, DegradeMachines, DegradeRules, DegradeAnswers, Listed
<1>3. ASSUME NEW e \in Shown, DegradeEdit(e) PROVE PageStep
  BY <1>3 DEF PageStep, DegradeEdit, EditForm
<1>4. CASE DegradeAdd
  <2> DEFINE v == [resource |-> Blank, grade |-> 0, count |-> Blank, timeWindow |-> Blank]
  <2>1. v \in Form
    BY <1>1 DEF DegradeRule, Text, Count
  <2>2. OpenAdd(v)
    BY <1>4 DEF DegradeAdd
  <2> QED
    BY <2>1, <2>2 DEF PageStep
<1>5. CASE DegradeEnter
  <2>1. PICK f \in Typed["degrade"] : Enter([f EXCEPT !.resource = Key(@, currentRule.v.resource)])
    BY <1>5 DEF DegradeEnter
  <2> DEFINE v == [f EXCEPT !.resource = Key(@, currentRule.v.resource)]
  <2>2. f \in DegradeRule
    BY <1>1, TypedAssumption DEF Form
  <2>3. open \in {"add", "edit"} /\ currentRule.v \in DegradeRule
    BY <1>1, <2>1 DEF Enter, DialogTyped
  <2>4. v \in DegradeRule
    BY <2>2, <2>3 DEF Key, DegradeRule
  <2> QED
    BY <1>1, <2>1, <2>3, <2>4 DEF PageStep, Entered, FormKind, KindOf
<1>6. CASE DegradeSave \/ DegradeDelete
  BY <1>6 DEF PageStep, DegradeSave, DegradeDelete, Save, Confirm, Sent
<1> QED
  BY <1>2, <1>3, <1>4, <1>5, <1>6

LEMMA SystemSteps ==
    ASSUME DialogTyped, page \in Page, page = "system",
           \/ \E i \in DOMAIN requests : SystemMachines(i) \/ SystemRules(i) \/ SystemAnswers(i)
           \/ \E e \in Shown : SystemEdit(e)
           \/ SystemAdd \/ SystemEnter \/ SystemSave \/ SystemDelete
    PROVE  PageStep
<1>1. Form = SystemForm /\ Watched = <<"rules">>
  BY DEF Form, FormOf, ValueOf, Watched
<1>2. ASSUME NEW i \in DOMAIN requests, SystemMachines(i) \/ SystemRules(i) \/ SystemAnswers(i)
      PROVE  PageStep
  BY <1>1, <1>2 DEF PageStep, SystemMachines, SystemRules, SystemAnswers, Listed
<1>3. ASSUME NEW e \in Shown, SystemEdit(e) PROVE PageStep
  BY <1>3 DEF PageStep, SystemEdit, EditForm
<1>4. CASE SystemAdd
  <2> DEFINE v == [grade |-> 1, threshold |-> Blank]
  <2>1. v \in Form
    BY <1>1 DEF SystemForm, Count, Grade, Metrics
  <2>2. OpenAdd(v)
    BY <1>4 DEF SystemAdd
  <2> QED
    BY <2>1, <2>2 DEF PageStep
<1>5. CASE SystemEnter
  <2>1. PICK f \in Typed["system"] : Enter([f EXCEPT !.grade = Key(@, currentRule.v.grade)])
    BY <1>5 DEF SystemEnter
  <2> DEFINE v == [f EXCEPT !.grade = Key(@, currentRule.v.grade)]
  <2>2. f \in SystemForm
    BY <1>1, TypedAssumption DEF Form
  <2>3. open \in {"add", "edit"} /\ currentRule.v \in SystemForm
    BY <1>1, <2>1 DEF Enter, DialogTyped
  <2>4. v \in SystemForm
    BY <2>2, <2>3 DEF Key, SystemForm
  <2> QED
    BY <1>1, <2>1, <2>3, <2>4 DEF PageStep, Entered, FormKind, KindOf
<1>6. CASE SystemSave \/ SystemDelete
  BY <1>6 DEF PageStep, SystemSave, SystemDelete, Save, Confirm, Sent
<1> QED
  BY <1>2, <1>3, <1>4, <1>5, <1>6

LEMMA AuthoritySteps ==
    ASSUME DialogTyped, page \in Page, page = "authority",
           \/ \E i \in DOMAIN requests : AuthorityMachines(i) \/ AuthorityRules(i) \/ AuthorityAnswers(i)
           \/ \E e \in Shown : AuthorityEdit(e)
           \/ AuthorityAdd \/ AuthorityEnter \/ AuthoritySave \/ AuthorityDelete
    PROVE  PageStep
<1>1. Form = AuthorityRule /\ Watched = <<"rules">>
  BY DEF Form, FormOf, ValueOf, Watched
<1>2. ASSUME NEW i \in DOMAIN requests, AuthorityMachines(i) \/ AuthorityRules(i) \/ AuthorityAnswers(i)
      PROVE  PageStep
  BY <1>1, <1>2 DEF PageStep, AuthorityMachines, AuthorityRules, AuthorityAnswers, Listed
<1>3. ASSUME NEW e \in Shown, AuthorityEdit(e) PROVE PageStep
  BY <1>3 DEF PageStep, AuthorityEdit, EditForm
<1>4. CASE AuthorityAdd
  <2> DEFINE v == [resource |-> Blank, limitApp |-> Blank, strategy |-> 0]
  <2>1. v \in Form
    BY <1>1 DEF AuthorityRule, Text
  <2>2. OpenAdd(v)
    BY <1>4 DEF AuthorityAdd
  <2> QED
    BY <2>1, <2>2 DEF PageStep
<1>5. CASE AuthorityEnter
  <2>1. PICK f \in Typed["authority"] : Enter([f EXCEPT !.resource = Key(@, currentRule.v.resource)])
    BY <1>5 DEF AuthorityEnter
  <2> DEFINE v == [f EXCEPT !.resource = Key(@, currentRule.v.resource)]
  <2>2. f \in AuthorityRule
    BY <1>1, TypedAssumption DEF Form
  <2>3. open \in {"add", "edit"} /\ currentRule.v \in AuthorityRule
    BY <1>1, <2>1 DEF Enter, DialogTyped
  <2>4. v \in AuthorityRule
    BY <2>2, <2>3 DEF Key, AuthorityRule
  <2> QED
    BY <1>1, <2>1, <2>3, <2>4 DEF PageStep, Entered, FormKind, KindOf
<1>6. CASE AuthoritySave \/ AuthorityDelete
  BY <1>6 DEF PageStep, AuthoritySave, AuthorityDelete, Save, Confirm, Sent
<1> QED
  BY <1>2, <1>3, <1>4, <1>5, <1>6

LEMMA FlowV1Steps ==
    ASSUME DialogTyped, page \in Page, page = "flow_v1",
           \/ \E i \in DOMAIN requests : FlowV1Machines(i) \/ FlowV1Rules(i) \/ FlowV1Answers(i)
           \/ \E e \in Shown : FlowV1Edit(e)
           \/ FlowV1Add \/ FlowV1Enter \/ FlowV1Save \/ FlowV1Delete
    PROVE  PageStep
<1>1. Form = FlowV1Rule /\ Watched = <<"rules">>
  BY DEF Form, FormOf, ValueOf, Watched
<1>2. ASSUME NEW i \in DOMAIN requests, FlowV1Machines(i) \/ FlowV1Rules(i) \/ FlowV1Answers(i)
      PROVE  PageStep
  BY <1>1, <1>2 DEF PageStep, FlowV1Machines, FlowV1Rules, FlowV1Answers, Listed
<1>3. ASSUME NEW e \in Shown, FlowV1Edit(e) PROVE PageStep
  BY <1>3 DEF PageStep, FlowV1Edit, EditForm
<1>4. CASE FlowV1Add
  <2> DEFINE v == [resource |-> Blank, count |-> Blank, strategy |-> 0, refResource |-> Blank,
                   controlBehavior |-> 0, wait |-> Blank, clusterMode |-> FALSE]
  <2>1. v \in Form
    BY <1>1 DEF FlowV1Rule, Text, Count
  <2>2. OpenAdd(v)
    BY <1>4 DEF FlowV1Add
  <2> QED
    BY <2>1, <2>2 DEF PageStep
<1>5. CASE FlowV1Enter
  <2>1. PICK f \in Typed["flow_v1"] : Enter([f EXCEPT !.resource = Key(@, currentRule.v.resource)])
    BY <1>5 DEF FlowV1Enter
  <2> DEFINE v == [f EXCEPT !.resource = Key(@, currentRule.v.resource)]
  <2>2. f \in FlowV1Rule
    BY <1>1, TypedAssumption DEF Form
  <2>3. open \in {"add", "edit"} /\ currentRule.v \in FlowV1Rule
    BY <1>1, <2>1 DEF Enter, DialogTyped
  <2>4. v \in FlowV1Rule
    BY <2>2, <2>3 DEF Key, FlowV1Rule
  <2> QED
    BY <1>1, <2>1, <2>3, <2>4 DEF PageStep, Entered, FormKind, KindOf
<1>6. CASE FlowV1Save
  BY <1>6 DEF PageStep, FlowV1Save, Save, Sent
<1>7. CASE FlowV1Delete
  BY <1>7 DEF PageStep, FlowV1Delete, Confirm, Sent
<1> QED
  BY <1>2, <1>3, <1>4, <1>5, <1>6, <1>7

LEMMA ParamEnters ==
    ASSUME DialogTyped, page \in Page, page = "param", ParamEnter
    PROVE  PageStep
<1>1. Form = ParamRule
  BY DEF Form, FormOf, ValueOf
<1> DEFINE v(f) == [f EXCEPT !.resource = Key(@, currentRule.v.resource),
                             !.paramFlowItemList = currentRule.v.paramFlowItemList]
<1>2. PICK f \in Typed["param"] : Enter(v(f))
  BY Zenon DEF ParamEnter
<1>3. f \in ParamRule
  BY <1>1, TypedAssumption DEF Form
<1>4. open \in {"add", "edit"} /\ currentRule.v \in ParamRule
  BY <1>1, <1>2 DEF Enter, DialogTyped
<1>5. v(f) \in ParamRule
  BY <1>3, <1>4 DEF Key, ParamRule
<1> QED
  BY <1>1, <1>2, <1>4, <1>5 DEF PageStep, Entered, FormKind, KindOf

LEMMA ParamSteps ==
    ASSUME DialogTyped, page \in Page, page = "param",
           \/ \E i \in DOMAIN requests : ParamMachines(i) \/ ParamRules(i) \/ ParamAnswers(i)
           \/ \E e \in Shown : ParamEdit(e)
           \/ ParamAdd \/ ParamEnter \/ ParamSave \/ ParamDelete \/ AddParamItem \/ RemoveParamItem
    PROVE  PageStep
<1>1. Form = ParamRule /\ Watched = <<"rules">>
  BY DEF Form, FormOf, ValueOf, Watched
<1>2. ASSUME NEW i \in DOMAIN requests, ParamMachines(i) \/ ParamRules(i) \/ ParamAnswers(i)
      PROVE  PageStep
  BY <1>1, <1>2 DEF PageStep, ParamMachines, ParamRules, ParamAnswers, Listed
<1>3. ASSUME NEW e \in Shown, ParamEdit(e) PROVE PageStep
  BY <1>3 DEF PageStep, ParamEdit, EditForm
<1>4. CASE ParamAdd
  <2> DEFINE v == [resource |-> Blank, count |-> 0, paramIdx |-> Blank,
                   durationInSec |-> 1, paramFlowItemList |-> {}]
  <2>1. v \in Form
    BY <1>1 DEF ParamRule, Text, Count
  <2>2. OpenAdd(v)
    BY <1>4 DEF ParamAdd
  <2> QED
    BY <2>1, <2>2 DEF PageStep
<1>5. CASE ParamEnter
  BY <1>5, ParamEnters
<1>6. CASE AddParamItem \/ RemoveParamItem
  <2> DEFINE items == currentRule.v.paramFlowItemList
  <2>1. open \in {"add", "edit"} /\ currentRule.v \in ParamRule
    BY <1>1, <1>6 DEF AddParamItem, RemoveParamItem, DialogTyped
  <2>2. items \subseteq ParamItem
    BY <2>1 DEF ParamRule
  <2>3. PICK S \in SUBSET ParamItem : EnterItems(S)
    BY <1>6, <2>2, TypedAssumption
       DEF AddParamItem, RemoveParamItem, updateSingleParamItem, removeSingleParamItem
  <2> DEFINE v == [currentRule.v EXCEPT !.paramFlowItemList = S]
  <2>4. v \in ParamRule
    BY <2>1 DEF ParamRule
  <2>5. Enter(v)
    BY <2>3 DEF EnterItems
  <2> QED
    BY <1>1, <2>1, <2>4, <2>5 DEF PageStep, Entered, FormKind, KindOf
<1>7. CASE ParamSave \/ ParamDelete
  BY <1>7 DEF PageStep, ParamSave, ParamDelete, Save, Confirm, Sent
<1> QED
  BY <1>2, <1>3, <1>4, <1>5, <1>6, <1>7

LEMMA JoinedType ==
    ASSUME NEW S, NEW s \in Seq(S), NEW t \in Seq(S), NEW n \in Nat, NEW i \in 1..n,
           Len(s) = i - 1, Len(t) = n - i
    PROVE  s \o t \in Seq(S) /\ Len(s \o t) = n - 1
<1>1. s \o t \in Seq(S) /\ Len(s \o t) = Len(s) + Len(t)
  OBVIOUS
<1> QED
  BY <1>1

\* A list without one of its elements.
LEMMA Pieces ==
    ASSUME NEW S, NEW s \in Seq(S), NEW k \in DOMAIN s
    PROVE  /\ SubSeq(s, 1, k - 1) \in Seq(S) /\ Len(SubSeq(s, 1, k - 1)) = k - 1
           /\ SubSeq(s, k + 1, Len(s)) \in Seq(S) /\ Len(SubSeq(s, k + 1, Len(s))) = Len(s) - k
           /\ k \in 1..Len(s) /\ Len(s) \in Nat
<1>1. k \in 1..Len(s) /\ Len(s) \in Nat
  OBVIOUS
<1>2. (\A j \in 1..(k - 1) : s[j] \in S) /\ (\A j \in (k + 1)..Len(s) : s[j] \in S)
  BY <1>1
<1>3. SubSeq(s, 1, k - 1) \in Seq(S) /\ Len(SubSeq(s, 1, k - 1)) = k - 1
  BY <1>1, <1>2, SubSeqProperties
<1>4. SubSeq(s, k + 1, Len(s)) \in Seq(S) /\ Len(SubSeq(s, k + 1, Len(s))) = Len(s) - k
  <2> DEFINE t == SubSeq(s, k + 1, Len(s))
             size(n, m) == IF m + 1 <= n THEN n - (m + 1) + 1 ELSE 0
  <2>1. t \in Seq(S) /\ Len(t) = size(Len(s), k)
    BY <1>1, <1>2, SubSeqProperties
  <2>2. \A n \in Nat : \A m \in 1..n : size(n, m) = n - m
    OBVIOUS
  <2> HIDE DEF t, size
  <2>3. size(Len(s), k) = Len(s) - k
    BY <1>1, <2>2, Zenon
  <2> QED
    BY <2>1, <2>3 DEF t
<1> QED
  BY <1>1, <1>3, <1>4

LEMMA RemoveAtType ==
    ASSUME NEW S, NEW s \in Seq(S), NEW k \in DOMAIN s
    PROVE  RemoveAt(s, k) \in Seq(S) /\ Len(RemoveAt(s, k)) = Len(s) - 1
<1> DEFINE before == SubSeq(s, 1, k - 1)
           after  == SubSeq(s, k + 1, Len(s))
<1>1. /\ before \in Seq(S) /\ Len(before) = k - 1
      /\ after \in Seq(S) /\ Len(after) = Len(s) - k
      /\ k \in 1..Len(s) /\ Len(s) \in Nat
  BY Pieces
<1>2. RemoveAt(s, k) = before \o after
  BY DEF RemoveAt
<1> HIDE DEF before, after
<1>3. before \o after \in Seq(S) /\ Len(before \o after) = Len(s) - 1
  BY <1>1, JoinedType
<1> QED
  BY <1>2, <1>3

LEMMA ApiSteps ==
    ASSUME DialogTyped, page \in Page, page = "api",
           \/ \E i \in DOMAIN requests : ApiMachines(i) \/ ApiRules(i) \/ ApiAnswers(i)
           \/ \E e \in Shown : ApiEdit(e)
           \/ ApiAdd \/ ApiEnter \/ ApiSave \/ ApiDelete \/ AddNewMatchPattern \/ MatchPatterns
    PROVE  PageStep
<1>1. Form = ApiForm /\ Watched = <<"rules">>
  BY DEF Form, FormOf, ValueOf, Watched
<1>2. ASSUME NEW i \in DOMAIN requests, ApiMachines(i) \/ ApiRules(i) \/ ApiAnswers(i)
      PROVE  PageStep
  BY <1>1, <1>2 DEF PageStep, ApiMachines, ApiRules, ApiAnswers, Listed
<1>3. ASSUME NEW e \in Shown, ApiEdit(e) PROVE PageStep
  BY <1>3 DEF PageStep, ApiEdit, EditForm
<1>4. CASE ApiAdd
  <2> DEFINE v == [apiName |-> Blank, predicateItems |-> <<Blank>>]
  <2>1. v \in Form
    BY <1>1 DEF ApiForm
  <2>2. OpenAdd(v)
    BY <1>4 DEF ApiAdd
  <2> QED
    BY <2>1, <2>2 DEF PageStep
<1> DEFINE P == Pattern \cup {Blank}
<1>5. CASE ApiEnter
  <2>1. PICK name \in Typed["api"] : Enter([currentRule.v EXCEPT !.apiName = name])
    BY <1>5 DEF ApiEnter
  <2> DEFINE v == [currentRule.v EXCEPT !.apiName = name]
  <2>2. name \in ApiName \cup {Blank}
    BY TypedAssumption
  <2>3. open = "add" /\ currentRule.v \in ApiForm
    BY <1>1, <1>5 DEF ApiEnter, DialogTyped
  <2>4. v \in ApiForm
    BY <2>2, <2>3 DEF ApiForm
  <2> QED
    BY <1>1, <2>1, <2>3, <2>4 DEF PageStep, Entered, FormKind, KindOf
<1>6. CASE AddNewMatchPattern \/ MatchPatterns
  <2> DEFINE old == currentRule.v.predicateItems
  <2>1. open \in {"add", "edit"} /\ currentRule.v \in ApiForm
    BY <1>1, <1>6 DEF AddNewMatchPattern, MatchPatterns, DialogTyped
  <2>2. old \in Seq(P)
    BY <2>1 DEF ApiForm
  <2>3. ASSUME NEW s \in Seq(P), EnterPatterns(s) PROVE PageStep
    <3> DEFINE v == [currentRule.v EXCEPT !.predicateItems = s]
    <3>1. v \in ApiForm /\ v.apiName = currentRule.v.apiName
      BY <2>1 DEF ApiForm
    <3>2. Enter(v)
      BY <2>3 DEF EnterPatterns
    <3>3. FormKind(v) = FormKind(currentRule.v)
      BY <3>1 DEF FormKind, KindOf
    <3>4. Entered(v)
      BY <1>1, <2>1, <3>1, <3>2, <3>3 DEF Entered
    <3> QED
      BY <3>4 DEF PageStep
  <2>4. CASE AddNewMatchPattern
    <3>1. Append(old, Blank) \in Seq(P)
      BY <2>2
    <3> QED
      BY <2>3, <2>4, <3>1 DEF AddNewMatchPattern
  <2>5. CASE MatchPatterns
    <3>1. PICK k \in DOMAIN old : RemoveMatchPattern(k) \/ \E p \in Pattern : TypePattern(k, p)
      BY <2>5 DEF MatchPatterns
    <3>2. RemoveAt(old, k) \in Seq(P)
      BY <2>2, RemoveAtType
    <3>3. \A p \in Pattern : [old EXCEPT ![k] = p] \in Seq(P)
      BY <2>2
    <3> QED
      BY <2>3, <3>1, <3>2, <3>3 DEF RemoveMatchPattern, TypePattern
  <2> QED
    BY <1>6, <2>4, <2>5
<1>7. CASE ApiSave \/ ApiDelete
  BY <1>7 DEF PageStep, ApiSave, ApiDelete, Save, Confirm, Sent
<1> QED
  BY <1>2, <1>3, <1>4, <1>5, <1>6, <1>7

LEMMA GatewayFills ==
    ASSUME page = "gateway", NEW v \in GatewayRule, open \in {"add", "edit"}, Enter(v),
           open = "edit" => v.resourceMode = currentRule.v.resourceMode
    PROVE  PageStep
<1>1. Form = GatewayRule
  BY DEF Form, FormOf, ValueOf
<1>2. \A w : FormKind(w) = w.resourceMode
  BY DEF FormKind, KindOf
<1>3. Entered(v)
  BY <1>1, <1>2 DEF Entered
<1> QED
  BY <1>3 DEF PageStep

LEMMA GatewayEnters ==
    ASSUME DialogTyped, page \in Page, page = "gateway", GatewayEnter
    PROVE  PageStep
<1> DEFINE old == currentRule.v
           v(f) == [f EXCEPT !.resource = Key(@, old.resource), !.resourceMode = old.resourceMode]
<1>1. Form = GatewayRule
  BY DEF Form, FormOf, ValueOf
<1>2. PICK f \in Typed["gateway"] : Enter(v(f))
  BY Zenon DEF GatewayEnter
<1>3. f \in GatewayRule
  BY <1>1, TypedAssumption DEF Form
<1>4. open \in {"add", "edit"} /\ old \in GatewayRule
  BY <1>1, <1>2 DEF Enter, DialogTyped
<1>5. v(f) \in GatewayRule /\ v(f).resourceMode = old.resourceMode
  BY <1>3, <1>4 DEF Key, GatewayRule
<1> QED
  BY <1>2, <1>4, <1>5, GatewayFills

LEMMA GatewaySteps ==
    ASSUME DialogTyped, page \in Page, page = "gateway",
           \/ \E i \in DOMAIN requests :
                GatewayMachines(i) \/ GatewayRules(i) \/ GatewayNames(i) \/ GatewayAnswers(i)
           \/ \E e \in Shown : GatewayEdit(e)
           \/ GatewayAdd \/ GatewayEnter \/ GatewaySave \/ GatewayDelete \/ GatewayForm
    PROVE  PageStep
<1>1. Form = GatewayRule /\ Watched = <<"rules", "names">>
  BY DEF Form, FormOf, ValueOf, Watched
<1>2. ASSUME NEW i \in DOMAIN requests,
             GatewayMachines(i) \/ GatewayRules(i) \/ GatewayNames(i) \/ GatewayAnswers(i)
      PROVE  PageStep
  BY <1>1, <1>2 DEF PageStep, GatewayMachines, GatewayRules, GatewayAnswers, Listed
<1>3. ASSUME NEW e \in Shown, GatewayEdit(e) PROVE PageStep
  BY <1>3 DEF PageStep, GatewayEdit, EditForm
<1>4. CASE GatewayAdd
  <2> DEFINE v == [resourceMode |-> 0, resource |-> Blank, count |-> Blank, paramItem |-> NoParam]
  <2>1. v \in Form
    BY <1>1 DEF GatewayRule, Text, Count
  <2>2. OpenAdd(v)
    BY <1>4 DEF GatewayAdd
  <2> QED
    BY <2>1, <2>2 DEF PageStep
<1> DEFINE old == currentRule.v
<1>5. ASSUME NEW v \in GatewayRule, open \in {"add", "edit"}, Enter(v),
             open = "edit" => v.resourceMode = old.resourceMode
      PROVE  PageStep
  BY <1>5, GatewayFills
<1>6. CASE GatewayEnter
  BY <1>6, GatewayEnters
<1>7. CASE GatewayForm
  <2>1. open \in {"add", "edit"} /\ old \in GatewayRule
    BY <1>1, <1>7 DEF GatewayForm, DialogTyped
  <2>2. ASSUME NEW mode \in 0..1, UseResource(mode) PROVE PageStep
    <3> DEFINE v == [old EXCEPT !.resourceMode = mode, !.resource = Blank]
    <3>1. v \in GatewayRule
      BY <2>1 DEF GatewayRule, Text
    <3>2. Enter(v) /\ open = "add"
      BY <2>2 DEF UseResource
    <3> QED
      BY <1>5, <3>1, <3>2
  <2>3. ASSUME NEW p \in Param \cup {NoParam}, EnterParam(p) PROVE PageStep
    <3> DEFINE v == [old EXCEPT !.paramItem = p]
    <3>1. v \in GatewayRule /\ v.resourceMode = old.resourceMode
      BY <2>1 DEF GatewayRule
    <3>2. Enter(v)
      BY <2>3 DEF EnterParam
    <3> QED
      BY <1>5, <2>1, <3>1, <3>2
  <2>4. CASE UseParamItem
    <3> DEFINE p == IF old.paramItem = NoParam
                    THEN [parseStrategy |-> 0, fieldName |-> Blank, pattern |-> Null]
                    ELSE NoParam
    <3>1. p \in Param \cup {NoParam}
      BY DEF Param, Text
    <3>2. EnterParam(p)
      BY <2>4 DEF UseParamItem
    <3> QED
      BY <2>3, <3>1, <3>2
  <2>5. CASE UseParamItemVal
    <3> DEFINE p == [old.paramItem EXCEPT !.pattern = IF @ = Null THEN Blank ELSE Null]
    <3>1. old.paramItem \in Param
      BY <2>1, <2>5 DEF UseParamItemVal, GatewayRule
    <3>2. p \in Param
      BY <3>1 DEF Param, Text
    <3>3. EnterParam(p)
      BY <2>5 DEF UseParamItemVal
    <3> QED
      BY <2>3, <3>2, <3>3
  <2> QED
    BY <1>7, <2>2, <2>4, <2>5 DEF GatewayForm
<1>8. CASE GatewaySave \/ GatewayDelete
  BY <1>8 DEF PageStep, GatewaySave, GatewayDelete, Save, Confirm, Sent
<1> QED
  BY <1>2, <1>3, <1>4, <1>6, <1>7, <1>8

\* Of the handlers those of the page that is open can be called.
LEMMA LimitSteps ==
    ASSUME DialogTyped, page \in Page, LimitRuleStep
    PROVE  PageStep
<1>1. CASE page = "degrade"
  BY <1>1, DegradeSteps
     DEF LimitRuleStep,
         SystemMachines, SystemRules, SystemAnswers, SystemEdit, SystemAdd, SystemEnter, SystemSave,
         SystemDelete, AuthorityMachines, AuthorityRules, AuthorityAnswers, AuthorityEdit, AuthorityAdd,
         AuthorityEnter, AuthoritySave, AuthorityDelete, FlowV1Machines, FlowV1Rules, FlowV1Answers,
         FlowV1Edit, FlowV1Add, FlowV1Enter, FlowV1Save, FlowV1Delete
<1>2. CASE page = "system"
  BY <1>2, SystemSteps
     DEF LimitRuleStep,
         DegradeMachines, DegradeRules, DegradeAnswers, DegradeEdit, DegradeAdd, DegradeEnter, DegradeSave,
         DegradeDelete, AuthorityMachines, AuthorityRules, AuthorityAnswers, AuthorityEdit, AuthorityAdd,
         AuthorityEnter, AuthoritySave, AuthorityDelete, FlowV1Machines, FlowV1Rules, FlowV1Answers,
         FlowV1Edit, FlowV1Add, FlowV1Enter, FlowV1Save, FlowV1Delete
<1>3. CASE page = "authority"
  BY <1>3, AuthoritySteps
     DEF LimitRuleStep,
         DegradeMachines, DegradeRules, DegradeAnswers, DegradeEdit, DegradeAdd, DegradeEnter, DegradeSave,
         DegradeDelete, SystemMachines, SystemRules, SystemAnswers, SystemEdit, SystemAdd, SystemEnter,
         SystemSave, SystemDelete, FlowV1Machines, FlowV1Rules, FlowV1Answers,
         FlowV1Edit, FlowV1Add, FlowV1Enter, FlowV1Save, FlowV1Delete
<1>4. CASE page = "flow_v1"
  BY <1>4, FlowV1Steps
     DEF LimitRuleStep,
         DegradeMachines, DegradeRules, DegradeAnswers, DegradeEdit, DegradeAdd, DegradeEnter, DegradeSave,
         DegradeDelete, SystemMachines, SystemRules, SystemAnswers, SystemEdit, SystemAdd, SystemEnter,
         SystemSave, SystemDelete, AuthorityMachines, AuthorityRules, AuthorityAnswers, AuthorityEdit,
         AuthorityAdd, AuthorityEnter, AuthoritySave, AuthorityDelete
<1>5. page \in {"degrade", "system", "authority", "flow_v1"}
  BY DEF LimitRuleStep,
         DegradeMachines, DegradeRules, DegradeAnswers, DegradeEdit, DegradeAdd, DegradeEnter, DegradeSave,
         DegradeDelete, SystemMachines, SystemRules, SystemAnswers, SystemEdit, SystemAdd, SystemEnter,
         SystemSave, SystemDelete, AuthorityMachines, AuthorityRules, AuthorityAnswers, AuthorityEdit,
         AuthorityAdd, AuthorityEnter, AuthoritySave, AuthorityDelete, FlowV1Machines, FlowV1Rules,
         FlowV1Answers, FlowV1Edit, FlowV1Add, FlowV1Enter, FlowV1Save, FlowV1Delete
<1> QED
  BY <1>1, <1>2, <1>3, <1>4, <1>5

LEMMA ItemSteps ==
    ASSUME DialogTyped, page \in Page, ItemRuleStep
    PROVE  PageStep
<1>1. CASE page = "param"
  BY <1>1, ItemsOfParam, ParamSteps
<1>2. CASE page = "api"
  BY <1>2, ApiSteps
     DEF ItemRuleStep,
         ParamMachines, ParamRules, ParamAnswers, ParamEdit, ParamAdd, ParamEnter, ParamSave, ParamDelete,
         AddParamItem, RemoveParamItem, GatewayMachines, GatewayRules, GatewayNames, GatewayAnswers,
         GatewayEdit, GatewayAdd, GatewayEnter, GatewaySave, GatewayDelete, GatewayForm
<1>3. CASE page = "gateway"
  BY <1>3, GatewaySteps
     DEF ItemRuleStep,
         ParamMachines, ParamRules, ParamAnswers, ParamEdit, ParamAdd, ParamEnter, ParamSave, ParamDelete,
         AddParamItem, RemoveParamItem, ApiMachines, ApiRules, ApiAnswers, ApiEdit, ApiAdd, ApiEnter,
         ApiSave, ApiDelete, AddNewMatchPattern, MatchPatterns
<1>4. page = "param" \/ page = "api" \/ page = "gateway"
  BY Zenon DEF ItemRuleStep,
         ParamMachines, ParamRules, ParamAnswers, ParamEdit, ParamAdd, ParamEnter, ParamSave, ParamDelete,
         AddParamItem, RemoveParamItem, ApiMachines, ApiRules, ApiAnswers, ApiEdit, ApiAdd, ApiEnter,
         ApiSave, ApiDelete, AddNewMatchPattern, MatchPatterns, GatewayMachines, GatewayRules, GatewayNames,
         GatewayAnswers, GatewayEdit, GatewayAdd, GatewayEnter, GatewaySave, GatewayDelete, GatewayForm
<1> QED
  BY <1>1, <1>2, <1>3, <1>4

LEMMA NextIsPageStep ==
    ASSUME DialogTyped, page \in Page, Next
    PROVE  PageStep
<1>1. Select(Watched) \/ Close \/ OtherQuery => PageStep
  BY DEF PageStep
<1>2. ASSUME NEW i \in DOMAIN requests, LoseAnswer(i) \/ DashboardStep(i) PROVE PageStep
  BY <1>2 DEF PageStep
<1>3. Dashboard => \E i \in DOMAIN requests : DashboardStep(i)
  BY DEF Dashboard, DashboardStep
<1> QED
  BY <1>1, <1>2, <1>3, LimitSteps, ItemSteps DEF Next

-----------------------------------------------------------------------------
(* Types *)

\* What a rule that exists can be: a system rule has a threshold.
Metric    == ToSet(Metrics)
GoodValue ==
    IF page = "system" THEN {v \in SystemRule : \E metric \in Metric : v[metric] >= 0} ELSE Value
GoodRule  == [id : RuleId, machine : Machine, v : GoodValue]
RuleSets  == {S \in SUBSET GoodRule : IsFiniteSet(S)}

MaybeRead == RuleSets \cup {Unread}

MachinesRequest == [op : {"machines"}]
QueryRequest  == [op : {"rules", "names", "other"}, mac : Machine, todo : MaybeRead,
                  was : MaybeRead \cup {Null}, old : BOOLEAN]
AddRequest    == [op : {"add"}, id : {NoId}, machine : Machine \cup {NoMachine}, v : Form, form : Form,
                  result : Results, data : MaybeRead]
SaveRequest   == [op : {"save"}, id : RuleId, machine : Machine, v : Form, form : Form,
                  result : Results, data : MaybeRead]
DeleteRequest == [op : {"delete"}, id : RuleId, machine : Machine, v : GoodValue, form : GoodValue,
                  result : Results, data : MaybeRead]
\* What is known of a change that the dashboard is at work on.
Progress(r) ==
    /\ r.result = "found" =>
         /\ r.machine \in Machine
         /\ r.op = "add" /\ page = "system" => r.v.threshold # Blank
         /\ r.op = "save" => r.data \in RuleSets /\ (r.data # {} \/ page = "authority")
    /\ r.result = "listed" => r.data \in RuleSets
ChangeRequest == {r \in AddRequest \cup SaveRequest \cup DeleteRequest : Progress(r)}
PageRequest   == MachinesRequest \cup QueryRequest \cup ChangeRequest

RequestsTyped == requests \in Seq(PageRequest) /\ Len(requests) <= MaxInFlight

DialogInv ==
    /\ open \in {"none", "add", "edit", "delete"}
    /\ open = "none" => currentRule = NoRule
    /\ open = "add"  => currentRule \in [id : {NoId}, machine : Machine \cup {NoMachine}, v : Form,
                                         ofTable : {FALSE}]
    /\ open = "edit" => currentRule \in [id : RuleId, machine : Machine, v : Form, ofTable : {FALSE}]
    /\ open = "delete" => currentRule \in [id : RuleId, machine : Machine, v : GoodValue, ofTable : {TRUE}]
TableInv ==
    /\ mac \in Machine \cup {NoMachine}
    /\ options \in {{}, Machine}
    /\ rows \in RuleSets \cup {Null}
    /\ names \subseteq UNION {ApiNames[m] : m \in Machine}
ServerInv == repo \in RuleSets /\ live \in RuleSets /\ lastId \in Nat
TypeInv ==
    /\ page \in Page
    /\ TableInv /\ DialogInv /\ RequestsTyped /\ ServerInv
    /\ clicks \in 0..MaxClicks[page]
    /\ missed \subseteq {"rules", "names"}

\* The page stays what it is, and so do the types.
LEMMA SameTypes ==
    ASSUME page' = page
    PROVE  /\ Value' = Value /\ Form' = Form /\ GoodValue' = GoodValue
           /\ RuleSets' = RuleSets /\ PageRequest' = PageRequest
<1>1. Value' = Value /\ Form' = Form
  BY DEF Value, Form
<1>2. GoodValue' = GoodValue
  BY <1>1 DEF GoodValue
<1>3. RuleSets' = RuleSets /\ MaybeRead' = MaybeRead
  BY <1>2 DEF RuleSets, GoodRule, MaybeRead
<1>4. /\ QueryRequest' = QueryRequest /\ AddRequest' = AddRequest
      /\ SaveRequest' = SaveRequest /\ DeleteRequest' = DeleteRequest
  BY <1>1, <1>2, <1>3 DEF QueryRequest, AddRequest, SaveRequest, DeleteRequest
<1>5. ChangeRequest' = ChangeRequest
  BY <1>3, <1>4 DEF ChangeRequest, Progress
<1>6. PageRequest' = PageRequest
  BY <1>4, <1>5 DEF PageRequest
<1> QED
  BY <1>1, <1>2, <1>3, <1>6

LEMMA ClickType ==
    ASSUME TypeInv, Click
    PROVE  clicks' \in 0..MaxClicks[page]
<1>1. MaxClicks[page] \in Nat
  BY BoundAssumption DEF TypeInv
<1> QED
  BY <1>1 DEF TypeInv, Click

LEMMA MetricsAre ==
    /\ Grade = 1..5 /\ Len(Metrics) = 5
    /\ \A k \in Grade : Metrics[k] \in Metric
    /\ \A metric \in Metric : \E k \in Grade : metric = Metrics[k]
    /\ \A j, k \in Grade : Metrics[j] = Metrics[k] => j = k
<1>1. Grade = 1..5 /\ Len(Metrics) = 5
  BY DEF Grade, Metrics
<1>2. \A j, k \in Grade : Metrics[j] = Metrics[k] => j = k
  BY <1>1 DEF Metrics
<1> QED
  BY <1>1, <1>2 DEF Metric, ToSet, Grade

\* The metric of a system rule is the first with a threshold.
LEMMA SystemGradeOf ==
    ASSUME NEW v \in SystemRule, NEW metric \in Metric, v[metric] >= 0
    PROVE  /\ SystemGrade(v) \in Grade
           /\ v[Metrics[SystemGrade(v)]] \in Nat
           /\ \A k \in Grade : k < SystemGrade(v) => ~(v[Metrics[k]] >= 0)
<1> DEFINE I == {k \in 1..Len(Metrics) : v[Metrics[k]] >= 0}
<1>1. I \in SUBSET Nat /\ I # {}
  BY MetricsAre
<1>2. \E n \in I : \A m \in I : n <= m
  BY <1>1, LeastOf
<1>3. SystemGrade(v) = IF I # {} THEN Min(I) ELSE 0
  BY DEF SystemGrade, SelectInSeq
<1>4. Min(I) \in I /\ \A m \in I : Min(I) <= m
  BY <1>2 DEF Min
<1>5. SystemGrade(v) \in I /\ \A m \in I : SystemGrade(v) <= m
  BY <1>1, <1>3, <1>4
<1>6. \A m \in Metric : v[m] \in Nat \cup {-1}
  BY DEF SystemRule, Metric
<1> QED
  BY <1>5, <1>6, MetricsAre

LEMMA EditFormType ==
    ASSUME page \in Page, NEW v \in GoodValue
    PROVE  EditForm(v) \in Form
<1>1. CASE page = "system"
  <2>1. v \in SystemRule /\ \E metric \in Metric : v[metric] >= 0
    BY <1>1 DEF GoodValue
  <2>2. SystemGrade(v) \in Grade /\ v[Metrics[SystemGrade(v)]] \in Nat
    BY <2>1, SystemGradeOf
  <2>3. SystemShown(v) \in SystemForm
    BY <2>2 DEF SystemShown, SystemForm, Count
  <2> QED
    BY <1>1, <2>3 DEF EditForm, Form, FormOf
<1>2. CASE page = "param"
  <2>1. v \in ParamRule /\ Form = ParamRule
    BY <1>2 DEF GoodValue, Value, Form, FormOf, ValueOf
  <2>2. [v EXCEPT !.durationInSec = IF @ = Blank THEN 1 ELSE @] \in ParamRule
    BY <2>1 DEF ParamRule, Count
  <2> QED
    BY <1>2, <2>1, <2>2 DEF EditForm
<1>3. CASE page = "api"
  <2> DEFINE P == Pattern \cup {Blank}
  <2>1. v \in ApiGroup /\ Form = ApiForm
    BY <1>3 DEF GoodValue, Value, Form, FormOf, ValueOf
  <2>2. v.predicateItems \in SUBSET P /\ IsFiniteSet(v.predicateItems)
    BY <2>1 DEF ApiGroup, FiniteSubsets
  <2> DEFINE s == SetToSeq(v.predicateItems)
  <2>3. s \in Seq(v.predicateItems)
    BY <2>2, Listing
  <2>4. s \in Seq(P)
    BY <2>2, <2>3
  <2>5. ApiShown(v) = [v EXCEPT !.predicateItems = s]
    BY DEF ApiShown
  <2> HIDE DEF s
  <2>6. ApiShown(v) \in ApiForm
    BY <2>1, <2>4, <2>5 DEF ApiGroup, ApiForm
  <2> QED
    BY <1>3, <2>1, <2>6 DEF EditForm
<1>4. CASE page \notin {"system", "param", "api"}
  BY <1>4 DEF EditForm, Form, FormOf, GoodValue, Value
<1> QED
  BY <1>1, <1>2, <1>3, <1>4

\* Lists of requests.
LEMMA KindsOfRequest ==
    ASSUME NEW r \in PageRequest
    PROVE  /\ r.op \in {"rules", "names", "other"} => r \in QueryRequest
           /\ r.op \in {"add", "save", "delete"} => r \in ChangeRequest
           /\ r.op = "add" => r \in AddRequest
           /\ r.op = "save" => r \in SaveRequest
           /\ r.op = "delete" => r \in DeleteRequest
           /\ r.op \notin {"rules", "names", "other"} => "old" \notin DOMAIN r /\ r = [x \in DOMAIN r |-> r[x]]
<1>1. CASE r \in MachinesRequest
  BY <1>1 DEF MachinesRequest
<1>2. CASE r \in QueryRequest
  BY <1>2 DEF QueryRequest
<1>3. CASE r \in ChangeRequest /\ r \in AddRequest
  BY <1>3 DEF AddRequest
<1>4. CASE r \in ChangeRequest /\ r \in SaveRequest
  BY <1>4 DEF SaveRequest
<1>5. CASE r \in ChangeRequest /\ r \in DeleteRequest
  BY <1>5 DEF DeleteRequest
<1> QED
  BY <1>1, <1>2, <1>3, <1>4, <1>5 DEF PageRequest, ChangeRequest

LEMMA OutdatedType ==
    ASSUME NEW rs \in Seq(PageRequest), NEW ops
    PROVE  Outdated(rs, ops) \in Seq(PageRequest) /\ Len(Outdated(rs, ops)) = Len(rs)
<1>1. DOMAIN rs = 1..Len(rs) /\ Len(rs) \in Nat /\ \A i \in DOMAIN rs : rs[i] \in PageRequest
  OBVIOUS
<1>2. ASSUME NEW r \in PageRequest PROVE [r EXCEPT !.old = TRUE] \in PageRequest
  <2>1. CASE r.op \in {"rules", "names", "other"}
    <3>1. r \in QueryRequest
      BY <2>1, KindsOfRequest
    <3>2. [r EXCEPT !.old = TRUE] \in QueryRequest
      BY <3>1 DEF QueryRequest
    <3> QED
      BY <3>2 DEF PageRequest
  <2>2. CASE r.op \notin {"rules", "names", "other"}
    <3>1. "old" \notin DOMAIN r /\ r = [x \in DOMAIN r |-> r[x]]
      BY <2>2, KindsOfRequest
    <3>2. [r EXCEPT !.old = TRUE] = r
      BY <3>1
    <3> QED
      BY <3>2
  <2> QED
    BY <2>1, <2>2
<1>3. Outdated(rs, ops) \in [1..Len(rs) -> PageRequest]
  BY <1>1, <1>2 DEF Outdated
<1> QED
  BY <1>1, <1>3, SeqDef

LEMMA RestType ==
    ASSUME RequestsTyped, NEW i \in DOMAIN requests
    PROVE  /\ Rest(i) \in Seq(PageRequest)
           /\ Len(Rest(i)) = Len(requests) - 1 /\ Len(Rest(i)) + 1 <= MaxInFlight
<1> DEFINE ops == {requests[i].op} \cap {"rules", "names"}
           before == SubSeq(requests, 1, i - 1)
           after  == SubSeq(requests, i + 1, Len(requests))
<1>1. requests \in Seq(PageRequest) /\ i \in 1..Len(requests) /\ Len(requests) \in Nat
  BY DEF RequestsTyped
<1>2. /\ before \in Seq(PageRequest) /\ Len(before) = i - 1
      /\ after \in Seq(PageRequest) /\ Len(after) = Len(requests) - i
  BY <1>1, Pieces
<1>5. Outdated(before, ops) \in Seq(PageRequest) /\ Len(Outdated(before, ops)) = i - 1
  BY <1>2, OutdatedType
<1>6. Rest(i) \in Seq(PageRequest) /\ Len(Rest(i)) = Len(requests) - 1
  <2> DEFINE marked == Outdated(before, ops)
  <2>1. ASSUME NEW s \in Seq(PageRequest), NEW t \in Seq(PageRequest), Len(s) = i - 1,
               Len(t) = Len(requests) - i
        PROVE  s \o t \in Seq(PageRequest) /\ Len(s \o t) = Len(requests) - 1
    BY <1>1, <2>1, JoinedType
  <2> HIDE DEF after, marked
  <2>2. marked \o after \in Seq(PageRequest) /\ Len(marked \o after) = Len(requests) - 1
    BY <1>2, <1>5, <2>1 DEF marked
  <2> QED
    BY <2>2, Zenon DEF Rest, marked, after
<1> QED
  BY <1>1, <1>6, BoundAssumption DEF RequestsTyped

\* The queries for a machine that is selected.
LEMMA WatchedIs ==
    /\ Len(Watched) \in {1, 2} /\ DOMAIN Watched = 1..Len(Watched)
    /\ \A k \in DOMAIN Watched : Watched[k] \in {"rules", "names"}
<1>1. CASE page = "gateway"
  <2>1. Watched = <<"rules", "names">>
    BY <1>1 DEF Watched
  <2> QED
    BY <2>1
<1>2. CASE page # "gateway"
  <2>1. Watched = <<"rules">>
    BY <1>2 DEF Watched
  <2> QED
    BY <2>1
<1> QED
  BY <1>1, <1>2

LEMMA AskType ==
    ASSUME NEW m \in Machine, NEW op \in {"rules", "names", "other"}
    PROVE  Ask(op, m) \in QueryRequest
BY DEF Ask, QueryRequest, MaybeRead

LEMMA AskedType ==
    ASSUME NEW m \in Machine
    PROVE  AskAll(Watched, m) \in Seq(PageRequest) /\ Len(AskAll(Watched, m)) = Len(Watched)
<1>1. AskAll(Watched, m) \in [1..Len(Watched) -> PageRequest]
  BY WatchedIs, AskType DEF AskAll, PageRequest
<1> QED
  BY <1>1, WatchedIs, SeqDef

LEMMA QueriesType ==
    ASSUME mac \in Machine \cup {NoMachine}
    PROVE  Queries("rules") \in Seq(PageRequest) /\ Len(Queries("rules")) <= 1
<1>1. CASE mac = NoMachine
  BY <1>1 DEF Queries
<1>2. CASE mac # NoMachine
  <2>1. Ask("rules", mac) \in PageRequest
    BY <1>2, AskType DEF PageRequest
  <2> QED
    BY <1>2, <2>1 DEF Queries
<1> QED
  BY <1>1, <1>2

LEMMA RuleSetParts ==
    /\ \A S \in RuleSets : \A T \in SUBSET S : T \in RuleSets
    /\ \A S, T \in RuleSets : S \cup T \in RuleSets
    /\ {} \in RuleSets
<1>1. \A S \in RuleSets : \A T \in SUBSET S : T \in RuleSets
  BY FS_Subset DEF RuleSets
<1>2. ASSUME NEW A \in RuleSets, NEW B \in RuleSets PROVE A \cup B \in RuleSets
  <2>1. IsFiniteSet(A \cup B)
    BY FS_Union DEF RuleSets
  <2> QED
    BY <2>1 DEF RuleSets
<1> QED
  BY <1>1, <1>2, FS_EmptySet DEF RuleSets

LEMMA ShownType == ASSUME TypeInv PROVE Shown \in RuleSets
BY RuleSetParts DEF TypeInv, TableInv, Shown

-----------------------------------------------------------------------------
(* Each step keeps the types: those of the page *)

LEMMA TypeInit == Init => TypeInv
<1> SUFFICES ASSUME Init PROVE TypeInv
  OBVIOUS
<1>1. live \in RuleSets
  <2>1. live \subseteq [id : RuleId, machine : Machine, v : Value] /\ IsFiniteSet(live)
    BY RulesAssumption DEF Init, Value
  <2>2. page = "system" => \A e \in live : \E metric \in Metric : e.v[metric] >= 0
    BY RulesAssumption DEF Init, Metric
  <2>3. page = "system" => Value = SystemRule
    BY DEF Value, ValueOf
  <2>4. live \subseteq GoodRule
    BY <2>1, <2>2, <2>3 DEF GoodRule, GoodValue
  <2> QED
    BY <2>1, <2>4 DEF RuleSets
<1>2. RequestsTyped
  <2>1. [op |-> "machines"] \in PageRequest
    BY DEF PageRequest, MachinesRequest
  <2> QED
    BY <2>1, BoundAssumption DEF Init, RequestsTyped
<1>3. lastId \in Nat /\ MaxClicks[page] \in Nat
  BY BoundAssumption DEF Init
<1> QED
  BY <1>1, <1>2, <1>3, RuleSetParts
     DEF Init, TypeInv, TableInv, DialogInv, ServerInv

LEMMA JoinedRequests ==
    ASSUME NEW rs \in Seq(PageRequest), NEW qs \in Seq(PageRequest)
    PROVE  rs \o qs \in Seq(PageRequest) /\ Len(rs \o qs) = Len(rs) + Len(qs)
OBVIOUS

LEMMA SelectType == ASSUME TypeInv, Select(Watched) PROVE TypeInv'
<1>1. PICK m \in options \cup {NoMachine} : m # mac /\ Watch(Watched, m)
  BY DEF Select
<1>2. page' = page /\ open = "none"
  BY DEF Select, Free
<1>3. requests \in Seq(PageRequest) /\ Len(requests) <= MaxInFlight
  BY DEF TypeInv, RequestsTyped
<1>4. requests' \in Seq(PageRequest) /\ Len(requests') <= MaxInFlight
  <2>1. CASE m = NoMachine
    <3>1. requests' = requests \o <<>>
      BY <1>1, <2>1 DEF Watch
    <3>2. requests' = requests
      BY <1>3, <3>1
    <3> QED
      BY <1>3, <3>2
  <2>2. CASE m # NoMachine
    <3>1. m \in Machine
      BY <2>2 DEF TypeInv, TableInv
    <3>2. requests' = requests \o AskAll(Watched, m)
      BY <1>1, <2>2 DEF Watch
    <3>3. AskAll(Watched, m) \in Seq(PageRequest) /\ Len(AskAll(Watched, m)) = Len(Watched)
      BY <3>1, AskedType
    <3>4. Len(requests) + Len(Watched) <= MaxInFlight
      BY <1>1 DEF Watch, Room
    <3> QED
      BY <1>3, <3>2, <3>3, <3>4, JoinedRequests
  <2> QED
    BY <2>1, <2>2
<1>5. mac' \in Machine \cup {NoMachine}
  BY <1>1 DEF Watch, TypeInv, TableInv
<1>6. clicks' \in 0..MaxClicks[page]
  BY ClickType DEF Select
<1> QED
  BY <1>2, <1>4, <1>5, <1>6, SameTypes
     DEF Select, dialog, server, TypeInv, TableInv, DialogInv, RequestsTyped, ServerInv

LEMMA CloseType == ASSUME TypeInv, Close PROVE TypeInv'
<1>1. page' = page
  BY DEF Close
<1>2. clicks' \in 0..MaxClicks[page]
  BY ClickType DEF Close
<1> QED
  BY <1>1, <1>2, SameTypes
     DEF Close, table, server, TypeInv, TableInv, DialogInv, RequestsTyped, ServerInv

LEMMA RequestType ==
    ASSUME TypeInv, NEW i \in DOMAIN requests
    PROVE  /\ requests \in Seq(PageRequest) /\ Len(requests) <= MaxInFlight
           /\ requests[i] \in PageRequest
BY DEF TypeInv, RequestsTyped

LEMMA MachinesType ==
    ASSUME TypeInv, NEW i \in DOMAIN requests, MachinesAnswered(i, Watched)
    PROVE  TypeInv'
<1>1. page' = page
  BY DEF MachinesAnswered
<1>2. mac' \in Machine \cup {NoMachine} /\ options' \in {{}, Machine}
  BY DEF MachinesAnswered, TypeInv, TableInv
<1>3. Rest(i) \in Seq(PageRequest) /\ Len(Rest(i)) = Len(requests) - 1 /\ Len(Rest(i)) + 1 <= MaxInFlight
      /\ MaxInFlight \in Nat /\ Len(requests) \in Nat
  BY RestType, RequestType, BoundAssumption DEF TypeInv
<1>4. requests' \in Seq(PageRequest) /\ Len(requests') <= MaxInFlight
  <2>1. CASE requests' = Rest(i)
    BY <1>3, <2>1
  <2>2. CASE Room(Len(Watched) - 1) /\ \E m \in Machine : requests' = Rest(i) \o AskAll(Watched, m)
    <3>1. PICK m \in Machine : requests' = Rest(i) \o AskAll(Watched, m)
      BY <2>2
    <3>2. AskAll(Watched, m) \in Seq(PageRequest) /\ Len(AskAll(Watched, m)) = Len(Watched)
      BY AskedType
    <3>3. requests' \in Seq(PageRequest) /\ Len(requests') = Len(Rest(i)) + Len(Watched)
      BY <1>3, <3>1, <3>2, JoinedRequests
    <3>4. Len(requests) + (Len(Watched) - 1) <= MaxInFlight /\ Len(Watched) \in Nat
      BY <2>2, WatchedIs DEF Room
    <3> QED
      BY <1>3, <3>3, <3>4
  <2> QED
    BY <2>1, <2>2 DEF MachinesAnswered
<1> QED
  BY <1>1, <1>2, <1>4, SameTypes
     DEF MachinesAnswered, dialog, server, TypeInv, TableInv, DialogInv, RequestsTyped, ServerInv

LEMMA RulesType ==
    ASSUME TypeInv, NEW i \in DOMAIN requests, RulesAnswered(i, Listed(requests[i].was))
    PROVE  TypeInv'
<1>1. page' = page /\ requests[i] \in QueryRequest
  BY RequestType, KindsOfRequest DEF RulesAnswered
<1>2. requests' \in Seq(PageRequest) /\ Len(requests') <= MaxInFlight
  BY RestType, BoundAssumption DEF RulesAnswered, TypeInv
<1>3. ASSUME requests[i].was \notin {Unread, Null} PROVE Listed(requests[i].was) \in RuleSets
  <2>1. requests[i].was \in RuleSets
    BY <1>1, <1>3 DEF QueryRequest, MaybeRead
  <2> QED
    BY <2>1, RuleSetParts DEF Listed, ApiRows
<1>4. rows' \in RuleSets
  BY <1>3, RuleSetParts DEF RulesAnswered, QueryEnded
<1>5. missed' \subseteq {"rules", "names"}
  BY DEF RulesAnswered, TypeInv
<1> QED
  BY <1>1, <1>2, <1>4, <1>5, SameTypes
     DEF RulesAnswered, dialog, server, TypeInv, TableInv, DialogInv, RequestsTyped, ServerInv

LEMMA ReselectedType ==
    ASSUME NEW v \in GatewayRule, NEW S
    PROVE  Reselected(v, S) \in GatewayRule /\ Reselected(v, S).resourceMode = v.resourceMode
BY DEF Reselected, GatewayRule

LEMMA NamesType ==
    ASSUME TypeInv, NEW i \in DOMAIN requests, GatewayNames(i), page = "gateway"
    PROVE  TypeInv'
<1>1. page' = page /\ requests[i] \in QueryRequest
  BY RequestType, KindsOfRequest DEF GatewayNames
<1>2. requests' \in Seq(PageRequest) /\ Len(requests') <= MaxInFlight
  BY RestType, BoundAssumption DEF GatewayNames, TypeInv
<1>3. requests[i].mac \in Machine
  BY <1>1 DEF QueryRequest
<1>4. names' \subseteq UNION {ApiNames[m] : m \in Machine}
  BY <1>3 DEF GatewayNames, TypeInv, TableInv
<1>5. Form = GatewayRule
  BY DEF Form, FormOf, ValueOf
<1>6. DialogInv'
  <2>1. CASE UNCHANGED currentRule
    BY <1>1, <2>1, SameTypes DEF GatewayNames, TypeInv, DialogInv
  <2>2. CASE open \in {"add", "edit"} /\ currentRule' = [currentRule EXCEPT !.v = Reselected(@, names')]
    <3>1. currentRule.v \in GatewayRule
      BY <1>5, <2>2 DEF TypeInv, DialogInv
    <3>2. Reselected(currentRule.v, names') \in Form
      BY <1>5, <3>1, ReselectedType
    <3>3. open' = open
      BY DEF GatewayNames
    <3>4. CASE open = "add"
      BY <1>1, <2>2, <3>2, <3>3, <3>4, SameTypes DEF TypeInv, DialogInv
    <3>5. CASE open = "edit"
      BY <1>1, <2>2, <3>2, <3>3, <3>5, SameTypes DEF TypeInv, DialogInv
    <3> QED
      BY <2>2, <3>4, <3>5
  <2> QED
    BY <2>1, <2>2 DEF GatewayNames
<1>7. missed' \subseteq {"rules", "names"}
  BY DEF GatewayNames, TypeInv
<1> QED
  BY <1>1, <1>2, <1>4, <1>6, <1>7, SameTypes
     DEF GatewayNames, server, TypeInv, TableInv, RequestsTyped, ServerInv

LEMMA OpenEditType ==
    ASSUME TypeInv, NEW e \in Shown, OpenEdit(e, EditForm(e.v))
    PROVE  TypeInv'
<1>1. page' = page /\ e \in GoodRule
  BY ShownType DEF OpenEdit, Open, RuleSets
<1>2. requests \in Seq(PageRequest) /\ Len(requests) <= MaxInFlight
  BY DEF TypeInv, RequestsTyped
<1>3. EditForm(e.v) \in Form
  BY <1>1, EditFormType DEF GoodRule, TypeInv
<1>4. DialogInv'
  BY <1>1, <1>3, SameTypes DEF OpenEdit, Open, GoodRule, DialogInv
<1>5. clicks' \in 0..MaxClicks[page]
  BY ClickType DEF OpenEdit, Open
<1> QED
  BY <1>1, <1>2, <1>4, <1>5, SameTypes
     DEF OpenEdit, Open, table, server, TypeInv, TableInv, RequestsTyped, ServerInv

LEMMA OpenDeleteType ==
    ASSUME TypeInv, NEW e \in Shown, OpenDelete(e)
    PROVE  TypeInv'
<1>1. page' = page /\ e \in GoodRule
  BY ShownType DEF OpenDelete, Open, RuleSets
<1>2. requests \in Seq(PageRequest) /\ Len(requests) <= MaxInFlight
  BY DEF TypeInv, RequestsTyped
<1>3. DialogInv'
  BY <1>1, SameTypes DEF OpenDelete, Open, GoodRule, DialogInv
<1>4. clicks' \in 0..MaxClicks[page]
  BY ClickType DEF OpenDelete, Open
<1> QED
  BY <1>1, <1>2, <1>3, <1>4, SameTypes
     DEF OpenDelete, Open, table, server, TypeInv, TableInv, RequestsTyped, ServerInv

LEMMA OpenAddType ==
    ASSUME TypeInv, NEW v \in Form, OpenAdd(v)
    PROVE  TypeInv'
<1>1. page' = page
  BY DEF OpenAdd, Open
<1>2. requests \in Seq(PageRequest) /\ Len(requests) <= MaxInFlight
  BY DEF TypeInv, RequestsTyped
<1>3. DialogInv'
  BY <1>1, SameTypes DEF OpenAdd, Open, DialogInv, TypeInv, TableInv
<1>4. clicks' \in 0..MaxClicks[page]
  BY ClickType DEF OpenAdd, Open
<1> QED
  BY <1>1, <1>2, <1>3, <1>4, SameTypes
     DEF OpenAdd, Open, table, server, TypeInv, TableInv, RequestsTyped, ServerInv

LEMMA EnteredType ==
    ASSUME TypeInv, NEW v, Entered(v)
    PROVE  TypeInv'
<1>1. page' = page /\ open \in {"add", "edit"} /\ v \in Form
  BY DEF Entered, Enter
<1>2. requests \in Seq(PageRequest) /\ Len(requests) <= MaxInFlight
  BY DEF TypeInv, RequestsTyped
<1>3. rows' = rows
  BY DEF Entered, Enter, TypeInv, DialogInv
<1>4. DialogInv'
  <2>1. CASE open = "add"
    BY <1>1, <2>1, SameTypes DEF Entered, Enter, DialogInv, TypeInv
  <2>2. CASE open = "edit"
    BY <1>1, <2>2, SameTypes DEF Entered, Enter, DialogInv, TypeInv
  <2> QED
    BY <1>1, <2>1, <2>2
<1>5. clicks' \in 0..MaxClicks[page]
  BY ClickType DEF Entered, Enter
<1> QED
  BY <1>1, <1>2, <1>3, <1>4, <1>5, SameTypes
     DEF Entered, Enter, server, TypeInv, TableInv, RequestsTyped, ServerInv

\* What is sent from the dialog.
Message(op) ==
    [op |-> op, id |-> currentRule.id, machine |-> currentRule.machine, v |-> currentRule.v,
     form |-> currentRule.v, result |-> "none", data |-> Unread]

LEMMA SentType ==
    ASSUME TypeInv, NEW op \in {"add", "save", "delete"}, Sent(op)
    PROVE  /\ TypeInv'
           /\ Message(op) \in PageRequest /\ requests \in Seq(PageRequest)
           /\ requests' = Append(requests, Message(op))
<1>1. page' = page /\ open # "none"
  BY DEF Sent, Change
<1>2. requests \in Seq(PageRequest) /\ Len(requests) <= MaxInFlight
  BY DEF TypeInv, RequestsTyped
<1>3. Message(op) \in ChangeRequest
  <2>1. CASE op = "add"
    <3>1. Message(op) \in AddRequest
      BY <2>1 DEF Sent, TypeInv, DialogInv, Message, AddRequest, Results, MaybeRead
    <3> QED
      BY <3>1 DEF ChangeRequest, Progress, Message
  <2>2. CASE op = "save"
    <3>1. Message(op) \in SaveRequest
      BY <2>2 DEF Sent, TypeInv, DialogInv, Message, SaveRequest, Results, MaybeRead
    <3> QED
      BY <3>1 DEF ChangeRequest, Progress, Message
  <2>3. CASE op = "delete"
    <3>1. Message(op) \in DeleteRequest
      BY <2>3 DEF Sent, TypeInv, DialogInv, Message, DeleteRequest, Results, MaybeRead
    <3> QED
      BY <3>1 DEF ChangeRequest, Progress, Message
  <2> QED
    BY <2>1, <2>2, <2>3
<1>4. requests' = Append(requests, Message(op)) /\ Len(requests) + 1 <= MaxInFlight
  BY DEF Sent, Change, Message, Room
<1>5. Message(op) \in PageRequest
  BY <1>3 DEF PageRequest
<1>6. requests' \in Seq(PageRequest) /\ Len(requests') <= MaxInFlight
  BY <1>2, <1>4, <1>5
<1>7. clicks' \in 0..MaxClicks[page]
  BY ClickType DEF Sent, Change
<1>8. TypeInv'
  BY <1>1, <1>6, <1>7, SameTypes
     DEF Sent, Change, table, dialog, server, TypeInv, TableInv, DialogInv, RequestsTyped, ServerInv
<1> QED
  BY <1>2, <1>4, <1>5, <1>8

LEMMA AnsweredType ==
    ASSUME TypeInv, NEW i \in DOMAIN requests, ChangeAnswered(i)
    PROVE  TypeInv'
<1>1. page' = page
  BY DEF ChangeAnswered
<1>2. Rest(i) \in Seq(PageRequest) /\ Len(Rest(i)) + 1 <= MaxInFlight /\ MaxInFlight \in Nat
  BY RestType, BoundAssumption DEF TypeInv
<1>3. requests' \in Seq(PageRequest) /\ Len(requests') <= MaxInFlight
  <2>1. CASE requests' = Rest(i) \o Queries("rules")
    <3>1. Queries("rules") \in Seq(PageRequest) /\ Len(Queries("rules")) <= 1
      BY QueriesType DEF TypeInv, TableInv
    <3>2. requests' \in Seq(PageRequest) /\ Len(requests') = Len(Rest(i)) + Len(Queries("rules"))
      BY <1>2, <2>1, <3>1, JoinedRequests
    <3> QED
      BY <1>2, <3>1, <3>2
  <2>2. CASE requests' = Outdated(Rest(i), {"rules"})
    BY <1>2, <2>2, OutdatedType
  <2> QED
    BY <2>1, <2>2 DEF ChangeAnswered
<1>4. DialogInv'
  BY <1>1, SameTypes DEF ChangeAnswered, dialog, TypeInv, DialogInv
<1>5. missed' \subseteq {"rules", "names"}
  BY DEF ChangeAnswered, TypeInv
<1> QED
  BY <1>1, <1>3, <1>4, <1>5, SameTypes
     DEF ChangeAnswered, table, server, TypeInv, TableInv, RequestsTyped, ServerInv

LEMMA LostType ==
    ASSUME TypeInv, NEW i \in DOMAIN requests, LoseAnswer(i)
    PROVE  TypeInv'
<1>1. page' = page
  BY DEF LoseAnswer
<1>2. Rest(i) \in Seq(PageRequest) /\ Len(Rest(i)) + 1 <= MaxInFlight /\ MaxInFlight \in Nat
  BY RestType, BoundAssumption DEF TypeInv
<1>3. requests' \in Seq(PageRequest) /\ Len(requests') <= MaxInFlight
  BY <1>2, OutdatedType DEF LoseAnswer
<1>4. missed' \subseteq {"rules", "names"}
  BY DEF LoseAnswer, TypeInv
<1> QED
  BY <1>1, <1>3, <1>4, SameTypes
     DEF LoseAnswer, table, dialog, server, TypeInv, TableInv, DialogInv, RequestsTyped, ServerInv

LEMMA OtherType == ASSUME TypeInv, OtherQuery PROVE TypeInv'
<1>1. page' = page /\ Len(requests) + 1 <= MaxInFlight
  BY DEF OtherQuery, Room
<1>2. PICK m \in Machine : requests' = Append(requests, Ask("other", m))
  BY DEF OtherQuery
<1>3. Ask("other", m) \in PageRequest
  BY AskType DEF PageRequest
<1>4. requests' \in Seq(PageRequest) /\ Len(requests') <= MaxInFlight
  BY <1>1, <1>2, <1>3 DEF TypeInv, RequestsTyped
<1>5. clicks' \in 0..MaxClicks[page]
  BY ClickType DEF OtherQuery
<1> QED
  BY <1>1, <1>4, <1>5, SameTypes
     DEF OtherQuery, table, dialog, server, TypeInv, TableInv, DialogInv, RequestsTyped, ServerInv

-----------------------------------------------------------------------------
(* Those of the dashboard *)

LEMMA WorkedType ==
    ASSUME NEW r \in QueryRequest, NEW todo \in MaybeRead, NEW was \in MaybeRead \cup {Null}
    PROVE  Worked(r, todo, was) \in PageRequest
<1>1. Worked(r, todo, was) \in QueryRequest
  BY DEF Worked, QueryRequest
<1> QED
  BY <1>1 DEF PageRequest

AnyChange == AddRequest \cup SaveRequest \cup DeleteRequest

LEMMA TurnedIs ==
    ASSUME NEW r \in AnyChange, NEW result, NEW data
    PROVE  /\ Turned(r, result, data).op = r.op /\ Turned(r, result, data).id = r.id
           /\ Turned(r, result, data).machine = r.machine /\ Turned(r, result, data).v = r.v
           /\ Turned(r, result, data).form = r.form
           /\ Turned(r, result, data).result = result /\ Turned(r, result, data).data = data
<1>1. CASE r \in AddRequest
  BY <1>1 DEF Turned, AddRequest
<1>2. CASE r \in SaveRequest
  BY <1>2 DEF Turned, SaveRequest
<1>3. CASE r \in DeleteRequest
  BY <1>3 DEF Turned, DeleteRequest
<1> QED
  BY <1>1, <1>2, <1>3 DEF AnyChange

LEMMA TurnedType ==
    ASSUME NEW r \in AnyChange, NEW result \in Results, NEW data \in MaybeRead,
           Progress(Turned(r, result, data))
    PROVE  Turned(r, result, data) \in PageRequest
<1>1. CASE r \in AddRequest
  <2>1. Turned(r, result, data) \in AddRequest
    BY <1>1 DEF Turned, AddRequest
  <2> QED
    BY <2>1 DEF PageRequest, ChangeRequest
<1>2. CASE r \in SaveRequest
  <2>1. Turned(r, result, data) \in SaveRequest
    BY <1>2 DEF Turned, SaveRequest
  <2> QED
    BY <2>1 DEF PageRequest, ChangeRequest
<1>3. CASE r \in DeleteRequest
  <2>1. Turned(r, result, data) \in DeleteRequest
    BY <1>3 DEF Turned, DeleteRequest
  <2> QED
    BY <2>1 DEF PageRequest, ChangeRequest
<1> QED
  BY <1>1, <1>2, <1>3 DEF AnyChange

\* A change that goes on may have another machine.
LEMMA MovedType ==
    ASSUME NEW r \in AnyChange, NEW m \in Machine
    PROVE  /\ [r EXCEPT !.machine = m] \in AnyChange
           /\ [r EXCEPT !.machine = m].op = r.op /\ [r EXCEPT !.machine = m].v = r.v
           /\ [r EXCEPT !.machine = m].id = r.id /\ [r EXCEPT !.machine = m].machine = m
           /\ [r EXCEPT !.machine = m].form = r.form
<1>1. CASE r \in AddRequest
  BY <1>1 DEF AddRequest, AnyChange
<1>2. CASE r \in SaveRequest
  BY <1>2 DEF SaveRequest, AnyChange
<1>3. CASE r \in DeleteRequest
  BY <1>3 DEF DeleteRequest, AnyChange
<1> QED
  BY <1>1, <1>2, <1>3 DEF AnyChange

\* A step of the dashboard for a request, with what it makes of it.
LEMMA WorkType ==
    ASSUME TypeInv, NEW i \in DOMAIN requests, NEW q \in PageRequest,
           requests' = [requests EXCEPT ![i] = q],
           repo' \in RuleSets, live' \in RuleSets, lastId' \in Nat,
           UNCHANGED <<page, table, dialog, clicks, missed>>
    PROVE  TypeInv'
<1>1. requests' \in Seq(PageRequest) /\ Len(requests') <= MaxInFlight
  BY RequestType
<1>2. page' = page
  OBVIOUS
<1> QED
  BY <1>1, <1>2, SameTypes
     DEF table, dialog, TypeInv, TableInv, DialogInv, RequestsTyped, ServerInv

LEMMA OfType == ASSUME NEW S \in RuleSets, NEW m PROVE Of(S, m) \in RuleSets
BY RuleSetParts DEF Of

LEMMA PutType == ASSUME NEW S \in RuleSets, NEW e \in GoodRule PROVE Put(S, e) \in RuleSets
<1>1. {e} \in RuleSets
  BY FS_Singleton DEF RuleSets
<1> QED
  BY <1>1, RuleSetParts DEF Put

LEMMA ReadsType ==
    ASSUME TypeInv, NEW i \in DOMAIN requests, Read(i) \/ ReadFails(i) \/ Clear(i)
    PROVE  TypeInv'
<1> DEFINE r == requests[i]
<1>1. r \in QueryRequest
  BY RequestType, KindsOfRequest DEF Read, ReadFails, Clear, IsRead
<1>2. UNCHANGED <<page, table, dialog, clicks, missed>>
  BY DashboardAlone DEF DashboardStep
<1>3. repo \in RuleSets /\ live \in RuleSets /\ lastId \in Nat /\ {} \in RuleSets
  BY RuleSetParts DEF TypeInv, ServerInv
<1>4. Of(live, r.mac) \in RuleSets
  BY <1>3, OfType
<1>5. CASE Read(i)
  <2> DEFINE q == Worked(r, Of(live, r.mac), Unread)
  <2>1. q \in PageRequest
    BY <1>1, <1>4, WorkedType DEF MaybeRead
  <2>2. requests' = [requests EXCEPT ![i] = q] /\ UNCHANGED server
    BY <1>5 DEF Read
  <2> HIDE DEF q
  <2> QED
    BY <1>2, <1>3, <2>1, <2>2, WorkType DEF server
<1>6. CASE ReadFails(i)
  <2> DEFINE q == Worked(r, {}, Null)
  <2>1. q \in PageRequest
    BY <1>1, <1>3, WorkedType DEF MaybeRead
  <2>2. requests' = [requests EXCEPT ![i] = q] /\ repo' = {} /\ UNCHANGED <<live, lastId>>
    BY <1>6 DEF ReadFails
  <2> HIDE DEF q
  <2> QED
    BY <1>2, <1>3, <2>1, <2>2, WorkType
<1>7. CASE Clear(i)
  <2> DEFINE q == Worked(r, r.todo, {})
  <2>1. r.todo \in MaybeRead
    BY <1>1 DEF QueryRequest
  <2>2. q \in PageRequest
    BY <1>1, <1>3, <2>1, WorkedType DEF MaybeRead
  <2>3. requests' = [requests EXCEPT ![i] = q] /\ repo' = {} /\ UNCHANGED <<live, lastId>>
    BY <1>7 DEF Clear
  <2> HIDE DEF q
  <2> QED
    BY <1>2, <1>3, <2>2, <2>3, WorkType
<1> QED
  BY <1>5, <1>6, <1>7

\* A rule that is saved under its id, or a new one.
LEMMA FillIs ==
    ASSUME TypeInv, NEW i \in DOMAIN requests, Fill(i)
    PROVE  \E e \in requests[i].todo, saved \in GoodRule :
             /\ saved = IF Application THEN e ELSE [e EXCEPT !.id = lastId + 1]
             /\ lastId' = (IF Application THEN lastId ELSE lastId + 1) /\ lastId' \in Nat
             /\ repo' = Put(repo, saved)
             /\ requests' = [requests EXCEPT ![i] =
                               Worked(requests[i], requests[i].todo \ {e}, requests[i].was \cup {saved})]
             /\ requests[i] \in QueryRequest /\ requests[i].todo \in RuleSets /\ requests[i].was \in RuleSets
             /\ e \in GoodRule /\ live' = live
<1> DEFINE r == requests[i]
           saved(e) == IF Application THEN e ELSE [e EXCEPT !.id = lastId + 1]
<1>1. PICK e \in r.todo :
        /\ lastId' = IF Application THEN lastId ELSE lastId + 1
        /\ repo' = Put(repo, saved(e))
        /\ requests' = [requests EXCEPT ![i] = Worked(r, r.todo \ {e}, r.was \cup {saved(e)})]
  BY Zenon DEF Fill
<1>2. r \in QueryRequest
  BY RequestType, KindsOfRequest DEF Fill, IsRead
<1>3. r.todo \in RuleSets /\ r.was \in RuleSets
  BY <1>2 DEF Fill, QueryRequest, MaybeRead
<1>4. e \in GoodRule
  BY <1>1, <1>3 DEF RuleSets
<1>5. lastId \in Nat /\ lastId + 1 \in RuleId /\ lastId' \in Nat
  BY <1>1 DEF TypeInv, ServerInv, RuleId, NoId
<1>6. saved(e) \in GoodRule
  BY <1>4, <1>5 DEF GoodRule
<1>7. live' = live
  BY DEF Fill
<1> QED
  BY <1>1, <1>2, <1>3, <1>4, <1>5, <1>6, <1>7

LEMMA FillType == ASSUME TypeInv, NEW i \in DOMAIN requests, Fill(i) PROVE TypeInv'
<1> DEFINE r == requests[i]
<1>1. PICK e \in r.todo, saved \in GoodRule :
        /\ lastId' \in Nat /\ repo' = Put(repo, saved) /\ live' = live
        /\ requests' = [requests EXCEPT ![i] = Worked(r, r.todo \ {e}, r.was \cup {saved})]
        /\ r \in QueryRequest /\ r.todo \in RuleSets /\ r.was \in RuleSets
  BY FillIs
<1>2. UNCHANGED <<page, table, dialog, clicks, missed>>
  BY DashboardAlone DEF DashboardStep
<1>3. repo' \in RuleSets /\ live' \in RuleSets
  BY <1>1, PutType DEF TypeInv, ServerInv
<1>4. {saved} \in RuleSets
  BY FS_Singleton DEF RuleSets
<1>5. r.todo \ {e} \in RuleSets /\ r.was \cup {saved} \in RuleSets
  BY <1>1, <1>4, RuleSetParts
<1> DEFINE q == Worked(r, r.todo \ {e}, r.was \cup {saved})
<1>6. q \in PageRequest
  BY <1>1, <1>5, WorkedType DEF MaybeRead
<1>7. requests' = [requests EXCEPT ![i] = q]
  BY <1>1
<1> HIDE DEF q
<1> QED
  BY <1>1, <1>2, <1>3, <1>6, <1>7, WorkType

LEMMA OtherAnsweredType ==
    ASSUME TypeInv, NEW i \in DOMAIN requests, OtherAnswered(i)
    PROVE  TypeInv'
<1>1. requests \in Seq(PageRequest) /\ Len(requests) <= MaxInFlight /\ Len(requests) \in Nat
  BY RequestType
<1>2. RemoveAt(requests, i) \in Seq(PageRequest) /\ Len(RemoveAt(requests, i)) = Len(requests) - 1
  BY <1>1, RemoveAtType
<1>3. requests' \in Seq(PageRequest) /\ Len(requests') <= MaxInFlight
  BY <1>1, <1>2, BoundAssumption DEF OtherAnswered
<1>4. page' = page
  BY DEF OtherAnswered
<1> QED
  BY <1>3, <1>4, SameTypes
     DEF OtherAnswered, table, dialog, server, TypeInv, TableInv, DialogInv, RequestsTyped, ServerInv

LEMMA ChangeAt ==
    ASSUME TypeInv, NEW i \in DOMAIN requests, IsChange(requests[i])
    PROVE  /\ requests[i] \in AnyChange /\ Progress(requests[i])
           /\ requests[i].op = "add" => requests[i] \in AddRequest
           /\ requests[i].op = "save" => requests[i] \in SaveRequest
           /\ requests[i].op = "delete" => requests[i] \in DeleteRequest
<1>1. requests[i] \in PageRequest /\ requests[i] \in ChangeRequest
  BY RequestType, KindsOfRequest DEF IsChange
<1> QED
  BY <1>1, KindsOfRequest DEF ChangeRequest, AnyChange

LEMMA AnswerType ==
    ASSUME NEW r \in AnyChange, NEW result \in {"ok", "failed"}
    PROVE  Turned(r, result, Unread) \in PageRequest
<1>1. Progress(Turned(r, result, Unread))
  BY TurnedIs DEF Progress
<1> QED
  BY <1>1, TurnedType DEF Results, MaybeRead

\* The machine of a change that goes on.
MachineFor(r) == IF Found(r) = {} \/ AsSent THEN r.machine ELSE (CHOOSE e \in Found(r) : TRUE).machine
GoesOn(r) == Turned([r EXCEPT !.machine = MachineFor(r)], "found", Found(r))

LEMMA FoundType ==
    ASSUME TypeInv, NEW r \in AnyChange, r.op = "add" => r \in AddRequest, Accepted(r)
    PROVE  /\ MachineFor(r) \in Machine /\ [r EXCEPT !.machine = MachineFor(r)] \in AnyChange
           /\ GoesOn(r) \in PageRequest
<1>1. Found(r) \in RuleSets
  BY RuleSetParts DEF Found, TypeInv, ServerInv
<1>2. MachineFor(r) \in Machine
  <2>1. CASE Found(r) = {} \/ AsSent
    BY <2>1 DEF MachineFor, Accepted
  <2>2. CASE Found(r) # {} /\ ~AsSent
    <3>1. (CHOOSE e \in Found(r) : TRUE) \in GoodRule
      BY <1>1, <2>2 DEF RuleSets
    <3> QED
      BY <2>2, <3>1 DEF MachineFor, GoodRule
  <2> QED
    BY <2>1, <2>2
<1> DEFINE n == [r EXCEPT !.machine = MachineFor(r)]
<1>3. n \in AnyChange /\ n.op = r.op /\ n.v = r.v /\ n.machine = MachineFor(r)
  BY <1>2, MovedType
<1> HIDE DEF n
<1>4. Progress(Turned(n, "found", Found(r)))
  <2>1. r.op = "save" => Found(r) # {} \/ page = "authority"
    BY DEF Accepted
  <2>2. r.op = "add" /\ page = "system" => r.v.threshold # Blank
    BY DEF Accepted, SystemAccepts
  <2> QED
    BY <1>1, <1>2, <1>3, <2>1, <2>2, TurnedIs DEF Progress
<1>5. Turned(n, "found", Found(r)) \in PageRequest
  BY <1>1, <1>3, <1>4, TurnedType DEF Results, MaybeRead
<1> QED
  BY <1>2, <1>3, <1>5 DEF n, GoesOn

LEMMA FindIs ==
    ASSUME NEW i \in DOMAIN requests, Find(i)
    PROVE  /\ IsChange(requests[i]) /\ requests[i].result = "none" /\ UNCHANGED server
           /\ \/ \E result \in {"ok", "failed"} : Answer(i, result)
              \/ /\ Accepted(requests[i])
                 /\ requests' = [requests EXCEPT ![i] = GoesOn(requests[i])]
BY Zenon DEF Find, GoesOn, MachineFor

LEMMA FindType == ASSUME TypeInv, NEW i \in DOMAIN requests, Find(i) PROVE TypeInv'
<1> DEFINE r == requests[i]
<1>1. UNCHANGED <<page, table, dialog, clicks, missed>>
  BY DashboardAlone DEF DashboardStep
<1>2. IsChange(r) /\ UNCHANGED server
  BY FindIs
<1>3. r \in AnyChange /\ (r.op = "add" => r \in AddRequest)
  BY <1>2, ChangeAt
<1>4. \E q \in PageRequest : requests' = [requests EXCEPT ![i] = q]
  <2>1. CASE \E result \in {"ok", "failed"} : Answer(i, result)
    BY <1>3, <2>1, AnswerType DEF Answer
  <2>2. CASE Accepted(r) /\ requests' = [requests EXCEPT ![i] = GoesOn(r)]
    BY <1>3, <2>2, FoundType
  <2> QED
    BY <2>1, <2>2, FindIs
<1> QED
  BY <1>1, <1>2, <1>4, WorkType DEF server, TypeInv, ServerInv

LEMMA GatewayParamType ==
    ASSUME NEW p \in Param \cup {NoParam}
    PROVE  GatewayParamStored(p) \in Param \cup {NoParam}
BY DEF GatewayParamStored, Param, NoParam, Text

\* The rule that a save found.
LEMMA OldType ==
    ASSUME NEW r \in SaveRequest, Progress(r), r.result = "found", page # "authority"
    PROVE  Old(r) \in GoodValue
<1>1. r.data \in RuleSets /\ r.data # {}
  BY DEF Progress, SaveRequest
<1>2. (CHOOSE e \in r.data : TRUE) \in GoodRule
  BY <1>1 DEF RuleSets
<1> QED
  BY <1>2 DEF Old, GoodRule

\* What a request to change a rule stores is a rule of the page.
LEMMA StoredType ==
    ASSUME TypeInv, NEW r \in AddRequest \cup SaveRequest, Progress(r), r.result = "found"
    PROVE  Stored(r) \in GoodValue
<1>1. r.v \in Form /\ r.op \in {"add", "save"} /\ (r.op = "save" => r \in SaveRequest)
  BY DEF AddRequest, SaveRequest
<1>2. r.op = "save" /\ page # "authority" => Old(r) \in GoodValue
  BY <1>1, OldType
<1>4. CASE page = "system"
  <2>1. r.v \in SystemForm
    BY <1>1, <1>4 DEF Form, FormOf
  <2>2. GoodValue = {v \in SystemRule : \E metric \in Metric : v[metric] >= 0}
    BY <1>4 DEF GoodValue
  <2>3. Metrics[r.v.grade] \in Metric
    BY <2>1, MetricsAre DEF SystemForm
  <2>4. ASSUME NEW old \in SystemRule, r.v.threshold # Blank
        PROVE  SystemStored(old, r.v) \in GoodValue
    <3>1. r.v.threshold \in Nat
      BY <2>1, <2>4 DEF SystemForm, Count
    <3>2. SystemStored(old, r.v) = [old EXCEPT ![Metrics[r.v.grade]] = r.v.threshold]
      BY <2>4 DEF SystemStored
    <3>3. SystemStored(old, r.v) \in SystemRule
      BY <3>1, <3>2 DEF SystemRule
    <3>4. SystemStored(old, r.v)[Metrics[r.v.grade]] >= 0
      BY <2>3, <3>1, <3>2 DEF SystemRule, Metric
    <3> QED
      BY <2>2, <2>3, <3>3, <3>4
  <2>5. CASE r.op = "add"
    <3>1. NoThresholds \in SystemRule
      BY DEF NoThresholds, SystemRule
    <3>2. r.v.threshold # Blank
      BY <1>4, <2>5 DEF Progress
    <3> QED
      BY <1>4, <2>4, <2>5, <3>1, <3>2 DEF Stored
  <2>6. CASE r.op = "save"
    <3>1. Old(r) \in GoodValue
      BY <1>2, <1>4, <2>6
    <3>2. Stored(r) = SystemStored(Old(r), r.v)
      BY <1>4, <2>6 DEF Stored
    <3>3. CASE r.v.threshold = Blank
      BY <3>1, <3>2, <3>3 DEF SystemStored
    <3>4. CASE r.v.threshold # Blank
      BY <2>2, <2>4, <3>1, <3>2, <3>4
    <3> QED
      BY <3>3, <3>4
  <2> QED
    BY <1>1, <2>5, <2>6
<1>5. CASE page = "flow_v1" /\ r.op = "save"
  <2>1. GoodValue = FlowV1Rule /\ Form = FlowV1Rule
    BY <1>5 DEF GoodValue, Value, Form, FormOf, ValueOf
  <2>2. Old(r) \in FlowV1Rule /\ r.v \in FlowV1Rule
    BY <1>1, <1>2, <1>5, <2>1
  <2>3. FlowV1Stored(Old(r), r.v) \in FlowV1Rule
    BY <2>2 DEF FlowV1Stored, FlowV1Rule
  <2> QED
    BY <1>5, <2>1, <2>3 DEF Stored
<1>6. CASE page = "gateway"
  <2>1. GoodValue = GatewayRule /\ Form = GatewayRule
    BY <1>6 DEF GoodValue, Value, Form, FormOf, ValueOf
  <2>2. r.v \in GatewayRule /\ (r.op = "save" => Old(r) \in GatewayRule)
    BY <1>1, <1>2, <1>6, <2>1
  <2>3. GatewayParamStored(r.v.paramItem) \in Param \cup {NoParam}
    BY <2>2, GatewayParamType DEF GatewayRule
  <2>4. [r.v EXCEPT !.paramItem = GatewayParamStored(@)] \in GatewayRule
    BY <2>2, <2>3 DEF GatewayRule
  <2>5. r.op = "save" => GatewayStored(Old(r), r.v) \in GatewayRule
    BY <2>2, <2>3 DEF GatewayStored, GatewayRule
  <2> QED
    BY <1>1, <1>6, <2>1, <2>4, <2>5 DEF Stored
<1>7. CASE page = "api"
  <2>1. GoodValue = ApiGroup /\ Form = ApiForm
    BY <1>7 DEF GoodValue, Value, Form, FormOf, ValueOf
  <2>2. r.v.apiName \in ApiName \cup {Blank} /\ r.v.predicateItems \in Seq(Pattern \cup {Blank})
    BY <1>1, <2>1 DEF ApiForm
  <2>3. ToSet(r.v.predicateItems) \in FiniteSubsets(Pattern \cup {Blank})
    BY <2>2, ListedItems
  <2>4. ASSUME NEW old \in ApiGroup \cup ApiForm PROVE ApiStored(old, r.v) \in ApiGroup
    BY <2>3, <2>4 DEF ApiStored, ApiGroup, ApiForm
  <2>5. Stored(r) = ApiStored(IF r.op = "add" THEN r.v ELSE Old(r), r.v)
    BY <1>7 DEF Stored
  <2> QED
    BY <1>1, <1>2, <1>7, <2>1, <2>4, <2>5
<1>8. CASE page \notin {"system", "gateway", "api"} /\ ~(page = "flow_v1" /\ r.op = "save")
  <2>1. Stored(r) = r.v
    BY <1>8 DEF Stored
  <2> QED
    BY <1>1, <1>8, <2>1 DEF GoodValue, Value, Form, FormOf
<1> QED
  BY <1>4, <1>5, <1>6, <1>7, <1>8

StoredRule(r) == [id |-> IF r.op = "add" THEN lastId + 1 ELSE r.id, machine |-> r.machine, v |-> Stored(r)]

LEMMA StoreIs ==
    ASSUME NEW i \in DOMAIN requests, Store(i)
    PROVE  /\ IsChange(requests[i]) /\ requests[i].result = "found" /\ live' = live
           /\ repo' = IF requests[i].op = "delete" THEN {e \in repo : e.id # requests[i].id}
                      ELSE Put(repo, StoredRule(requests[i]))
           /\ lastId' = IF requests[i].op = "add" THEN lastId + 1 ELSE lastId
           /\ \/ requests' = [requests EXCEPT ![i] = Turned(requests[i], "stored", requests[i].data)]
              \/ Answer(i, "failed")
BY Zenon DEF Store, StoredRule

LEMMA StoreType == ASSUME TypeInv, NEW i \in DOMAIN requests, Store(i) PROVE TypeInv'
<1> DEFINE r == requests[i]
<1>1. UNCHANGED <<page, table, dialog, clicks, missed>>
  BY DashboardAlone DEF DashboardStep
<1>2. IsChange(r) /\ r.result = "found" /\ live' = live
      /\ lastId' = IF r.op = "add" THEN lastId + 1 ELSE lastId
  BY StoreIs
<1>3. r \in AnyChange /\ Progress(r) /\ (r.op = "add" => r \in AddRequest)
      /\ (r.op = "save" => r \in SaveRequest) /\ r.op \in {"add", "save", "delete"}
  BY <1>2, ChangeAt DEF IsChange
<1>4. lastId' \in Nat /\ lastId + 1 \in RuleId /\ live' \in RuleSets
  BY <1>2 DEF TypeInv, ServerInv, RuleId, NoId
<1>5. repo' \in RuleSets
  <2>1. CASE r.op = "delete"
    BY <2>1, StoreIs, RuleSetParts DEF TypeInv, ServerInv
  <2>2. CASE r.op # "delete"
    <3>1. Stored(r) \in GoodValue
      BY <1>2, <1>3, <2>2, StoredType
    <3>2. r.machine \in Machine /\ (r.op = "save" => r.id \in RuleId)
      BY <1>2, <1>3 DEF Progress, SaveRequest
    <3>3. StoredRule(r) \in GoodRule
      BY <1>3, <1>4, <2>2, <3>1, <3>2 DEF StoredRule, GoodRule
    <3> QED
      BY <2>2, <3>3, StoreIs, PutType DEF TypeInv, ServerInv
  <2> QED
    BY <2>1, <2>2
<1>6. \E q \in PageRequest : requests' = [requests EXCEPT ![i] = q]
  <2>1. CASE Answer(i, "failed")
    BY <1>3, <2>1, AnswerType DEF Answer
  <2>2. CASE requests' = [requests EXCEPT ![i] = Turned(r, "stored", r.data)]
    <3>1. r.data \in MaybeRead
      BY <1>3 DEF AnyChange, AddRequest, SaveRequest, DeleteRequest
    <3>2. Progress(Turned(r, "stored", r.data))
      BY <1>3, TurnedIs DEF Progress
    <3>3. Turned(r, "stored", r.data) \in PageRequest
      BY <1>3, <3>1, <3>2, TurnedType DEF Results
    <3> QED
      BY <2>2, <3>3
  <2> QED
    BY <2>1, <2>2, StoreIs
<1> QED
  BY <1>1, <1>4, <1>5, <1>6, WorkType

LEMMA FindAllType == ASSUME TypeInv, NEW i \in DOMAIN requests, FindAll(i) PROVE TypeInv'
<1> DEFINE r == requests[i]
           q == Turned(r, "listed", Of(repo, r.machine))
<1>1. UNCHANGED <<page, table, dialog, clicks, missed>>
  BY DashboardAlone DEF DashboardStep
<1>2. IsChange(r) /\ UNCHANGED server /\ requests' = [requests EXCEPT ![i] = q]
  BY DEF FindAll
<1>3. r \in AnyChange
  BY <1>2, ChangeAt
<1>4. Of(repo, r.machine) \in RuleSets
  BY OfType DEF TypeInv, ServerInv
<1>5. Progress(q)
  BY <1>3, <1>4, TurnedIs DEF Progress
<1>6. q \in PageRequest
  BY <1>3, <1>4, <1>5, TurnedType DEF Results, MaybeRead
<1> HIDE DEF q
<1> QED
  BY <1>1, <1>2, <1>6, WorkType DEF server, TypeInv, ServerInv

LEMMA PublishType == ASSUME TypeInv, NEW i \in DOMAIN requests, Publish(i) PROVE TypeInv'
<1> DEFINE r == requests[i]
<1>1. UNCHANGED <<page, table, dialog, clicks, missed>>
  BY DashboardAlone DEF DashboardStep
<1>2. /\ IsChange(r) /\ r.result = "listed" /\ UNCHANGED <<repo, lastId>>
      /\ live' \in {live, (live \ Of(live, r.machine)) \cup r.data}
      /\ \E result \in {"ok", "failed"} : Answer(i, result)
  BY DEF Publish
<1>3. r \in AnyChange /\ r.data \in RuleSets
  BY <1>2, ChangeAt DEF Progress
<1>4. live' \in RuleSets
  <2>1. live \in RuleSets /\ live \ Of(live, r.machine) \in RuleSets
    BY RuleSetParts DEF TypeInv, ServerInv
  <2> QED
    BY <1>2, <1>3, <2>1, RuleSetParts
<1>5. \E q \in PageRequest : requests' = [requests EXCEPT ![i] = q]
  BY <1>2, <1>3, AnswerType DEF Answer
<1> QED
  BY <1>1, <1>2, <1>4, <1>5, WorkType DEF TypeInv, ServerInv

-----------------------------------------------------------------------------
(* Types, as a theorem *)

LEMMA TypedDialog == TypeInv => DialogTyped
<1>1. ASSUME TypeInv, open = "add" PROVE currentRule.v \in Form
  BY <1>1 DEF TypeInv, DialogInv
<1>2. ASSUME TypeInv, open = "edit" PROVE currentRule.v \in Form
  BY <1>2 DEF TypeInv, DialogInv
<1> QED
  BY <1>1, <1>2 DEF DialogTyped

LEMMA TypeNext == ASSUME TypeInv, [Next]_vars PROVE TypeInv'
<1>1. CASE UNCHANGED vars
  <2>1. page' = page
    BY <1>1 DEF vars
  <2> QED
    BY <1>1, <2>1, SameTypes
       DEF vars, table, dialog, server, TypeInv, TableInv, DialogInv, RequestsTyped, ServerInv
<1>2. CASE Next
  <2>1. PageStep
    BY <1>2, TypedDialog, NextIsPageStep DEF TypeInv
  <2>2. ASSUME NEW i \in DOMAIN requests, DashboardStep(i) PROVE TypeInv'
    BY <2>2, ReadsType, FillType, OtherAnsweredType, FindType, StoreType, FindAllType, PublishType
       DEF DashboardStep
  <2> QED
    BY <2>1, <2>2, SelectType, CloseType, OtherType, MachinesType, RulesType, NamesType, AnsweredType,
       LostType, OpenEditType, OpenDeleteType, OpenAddType, EnteredType, SentType DEF PageStep
<1> QED
  BY <1>1, <1>2

LEMMA TypeInvImpliesTypeOK == TypeInv => TypeOK
<1> SUFFICES ASSUME TypeInv PROVE TypeOK
  OBVIOUS
<1>1. GoodValue \subseteq Value
  BY DEF GoodValue, Value, ValueOf
<1>2. GoodRule \subseteq Rule
  BY <1>1 DEF GoodRule, Rule
<1>3. (\A S \in RuleSets : S \in SUBSET Rule) /\ MaybeRead \subseteq Data
  BY <1>2 DEF RuleSets, MaybeRead, Data
<1>4. \A r \in PageRequest : r \in Request(r.op)
  <2>0. \A r \in MachinesRequest : r \in Request(r.op)
    BY DEF MachinesRequest, Request
  <2>1. \A r \in QueryRequest : r \in Request(r.op)
    BY <1>3 DEF QueryRequest, Request
  <2>2. \A r \in AddRequest : r \in Request(r.op)
    BY <1>3 DEF AddRequest, Request
  <2>3. \A r \in SaveRequest : r \in Request(r.op)
    BY <1>3 DEF SaveRequest, Request
  <2>4. \A r \in DeleteRequest : r \in Request(r.op)
    BY <1>1, <1>3 DEF DeleteRequest, Request
  <2> QED
    BY <2>0, <2>1, <2>2, <2>3, <2>4 DEF PageRequest, ChangeRequest
<1>5. (\A i \in DOMAIN requests : requests[i] \in Request(requests[i].op)) /\ Len(requests) <= MaxInFlight
  BY <1>4, RequestType DEF TypeInv, RequestsTyped
<1>6. IF open = "none" THEN currentRule = NoRule
      ELSE currentRule \in [id : RuleId \cup {NoId}, machine : Machine \cup {NoMachine},
                            v : IF open = "delete" THEN Value ELSE Form, ofTable : BOOLEAN]
  BY <1>1 DEF TypeInv, DialogInv
<1> QED
  BY <1>3, <1>5, <1>6 DEF TypeInv, TableInv, DialogInv, ServerInv, TypeOK

\* Whatever is entered, sent, worked on and answered, in whatever order, the
\* pages, the requests, the repository and the rules in force are of their
\* types: what a save stores is a rule of its page although others have changed
\* the repository since it found the rule, and there is room for every query
\* that an answer sets off.
THEOREM PagesTyped == Spec => []TypeOK
<1>1. Init => TypeInv
  BY TypeInit
<1>2. TypeInv /\ [Next]_vars => TypeInv'
  BY TypeNext
<1>3. TypeInv => TypeOK
  BY TypeInvImpliesTypeOK
<1> QED
  BY <1>1, <1>2, <1>3, PTL DEF Spec
=============================================================================
