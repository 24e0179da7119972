---------------------- MODULE BonusTransaction_proofs ----------------------
(***************************************************************************)
(* Theorems about BonusTransaction, for any requests, shares, users,       *)
(* consumer threads and limits.                                            *)
(***************************************************************************)
EXTENDS BonusTransaction, TLAPS

USE AuthorAssumption, BoundsAssumption

\* The type of the author of a request's share.
LEMMA AuthorType ==
    ASSUME TypeOK, NEW r \in Request
    PROVE  AuthorOf(r) \in User
BY DEF TypeOK, AuthorOf

\* A consumer thread that is past the start of addBonus holds a message.
LEMMA HeldMessage ==
    ASSUME TypeOK, NEW c \in Consumer, consuming[c] # Idle
    PROVE  /\ consuming[c] \in [stage : {"read", "written"}, msg : Request, bonus : Nat]
           /\ consuming[c].msg \in Request
           /\ consuming[c].bonus \in Nat
<1>1. consuming[c] \in Consumption
  BY DEF TypeOK
<1>2. consuming[c] \in [stage : {"read", "written"}, msg : Request, bonus : Nat]
  BY <1>1 DEF Consumption
<1> QED
  BY <1>2

\* A thread whose stage is "read" or "written" is not idle.
LEMMA BusyStage ==
    ASSUME NEW c, consuming[c].stage \in {"read", "written"}
    PROVE  consuming[c] # Idle
BY DEF Idle

-----------------------------------------------------------------------------
(* Type correctness *)

LEMMA InitType == Init => TypeOK
BY DEF Init, TypeOK, Decision, Stage, MessageState, Consumption, Idle

\* Every step of a request's thread keeps the types.
LEMMA ContentType ==
    ASSUME TypeOK, NEW r \in Request, ContentStep(r)
    PROVE  TypeOK'
<1> USE DEF TypeOK, brokerVars, userVars, Goto, Stage, auditBYIdInDB
<1>1. CASE Select(r)
  BY <1>1 DEF Select
<1>2. CASE SendHalf(r)
  BY <1>2 DEF SendHalf, MessageState
<1>3. CASE SendHalfFails(r)
  BY <1>3 DEF SendHalfFails, MessageState
<1>4. CASE Reject(r)
  BY <1>4 DEF Reject
<1>5. CASE RejectFails(r)
  BY <1>5 DEF RejectFails
<1>6. CASE LocalTransaction(r)
  BY <1>6 DEF LocalTransaction
<1>7. CASE LocalTransactionFails(r)
  BY <1>7 DEF LocalTransactionFails
<1>8. CASE EndTransaction(r)
  BY <1>8 DEF EndTransaction, Verdict
<1> QED
  BY <1>1, <1>2, <1>3, <1>4, <1>5, <1>6, <1>7, <1>8 DEF ContentStep

LEMMA BrokerType ==
    ASSUME TypeOK, NEW r \in Request, BrokerStep(r)
    PROVE  TypeOK'
<1> USE DEF TypeOK, contentVars, userVars
<1>1. CASE CheckBack(r)
  <2>1. checkLocalTransaction(r) \in Verdict
    BY DEF checkLocalTransaction, Verdict
  <2> QED
    BY <1>1, <2>1 DEF CheckBack
<1>2. CASE Discard(r)
  BY <1>2 DEF Discard, MessageState
<1>3. ASSUME NEW v \in Verdict, Resolve(r, v)
      PROVE  TypeOK'
  BY <1>3 DEF Resolve, MessageState
<1>4. ASSUME NEW v \in Verdict, LoseAnswer(r, v)
      PROVE  TypeOK'
  BY <1>4 DEF LoseAnswer
<1> QED
  BY <1>1, <1>2, <1>3, <1>4 DEF BrokerStep

LEMMA ConsumerType ==
    ASSUME TypeOK, NEW c \in Consumer, ConsumerStep(c)
    PROVE  TypeOK'
<1>1. ASSUME NEW m \in Request, Deliver(c, m)
      PROVE  TypeOK'
  <2>1. AuthorOf(m) \in User
    BY AuthorType
  <2>2. consuming' \in [Consumer -> Consumption]
    BY <1>1, <2>1 DEF Deliver, TypeOK, Consumption
  <2> QED
    BY <1>1, <2>2 DEF Deliver, TypeOK, contentVars, brokerVars
<1>2. CASE addBonus(c)
  <2>1. /\ consuming[c] \in [stage : {"read", "written"}, msg : Request, bonus : Nat]
        /\ consuming[c].msg \in Request
        /\ consuming[c].bonus \in Nat
    BY <1>2, BusyStage, HeldMessage DEF addBonus
  <2>2. AuthorOf(consuming[c].msg) \in User
    BY <2>1, AuthorType
  <2>3. consuming' \in [Consumer -> Consumption]
    BY <1>2, <2>1 DEF addBonus, TypeOK, Consumption
  <2> QED
    BY <1>2, <2>1, <2>2, <2>3 DEF addBonus, TypeOK, contentVars, brokerVars, BONUS
<1>3. CASE Acknowledge(c)
  <2>1. consuming[c].msg \in Request
    BY <1>3, BusyStage, HeldMessage DEF Acknowledge
  <2> QED
    BY <1>3, <2>1 DEF Acknowledge, TypeOK, contentVars, brokerVars, Consumption
<1>4. CASE Abandon(c)
  BY <1>4 DEF Abandon, TypeOK, contentVars, brokerVars, Consumption
<1> QED
  BY <1>1, <1>2, <1>3, <1>4 DEF ConsumerStep

LEMMA NextType == TypeOK /\ [Next]_vars => TypeOK'
<1> SUFFICES ASSUME TypeOK, [Next]_vars PROVE TypeOK'
  OBVIOUS
<1>1. CASE Crash
  BY <1>1 DEF Crash, TypeOK, Stage, brokerVars, userVars
<1>2. CASE UNCHANGED vars
  BY <1>2 DEF vars, contentVars, brokerVars, userVars, TypeOK
<1> QED
  BY <1>1, <1>2, ContentType, BrokerType, ConsumerType DEF Next

\* Every variable always has its type.
THEOREM TypeCorrect == Spec => []TypeOK
BY InitType, NextType, PTL DEF Spec

-----------------------------------------------------------------------------
(* No bonus without a committed local transaction *)

LEMMA InitLogged == Init => CommitIsLogged /\ PassHasLog
BY DEF Init, CommitIsLogged, PassHasLog, Idle

LEMMA ContentLogged ==
    ASSUME TypeOK, CommitIsLogged, PassHasLog, NEW r \in Request, ContentStep(r)
    PROVE  CommitIsLogged' /\ PassHasLog'
<1> USE DEF TypeOK, CommitIsLogged, PassHasLog, brokerVars, userVars, Goto, Stage,
            auditBYIdInDB
<1>1. CASE Select(r)
  BY <1>1 DEF Select
<1>2. CASE SendHalf(r)
  BY <1>2 DEF SendHalf
<1>3. CASE SendHalfFails(r)
  BY <1>3 DEF SendHalfFails
<1>4. CASE Reject(r)
  BY <1>4 DEF Reject
<1>5. CASE RejectFails(r)
  BY <1>5 DEF RejectFails
<1>6. CASE LocalTransaction(r)
  BY <1>6 DEF LocalTransaction
<1>7. CASE LocalTransactionFails(r)
  BY <1>7 DEF LocalTransactionFails
<1>8. CASE EndTransaction(r)
  BY <1>8 DEF EndTransaction
<1> QED
  BY <1>1, <1>2, <1>3, <1>4, <1>5, <1>6, <1>7, <1>8 DEF ContentStep

LEMMA BrokerLogged ==
    ASSUME TypeOK, CommitIsLogged, PassHasLog, NEW r \in Request, BrokerStep(r)
    PROVE  CommitIsLogged' /\ PassHasLog'
<1> USE DEF TypeOK, CommitIsLogged, PassHasLog, contentVars, userVars
<1>1. CASE CheckBack(r)
  BY <1>1 DEF CheckBack, checkLocalTransaction
<1>2. CASE Discard(r)
  BY <1>2 DEF Discard
<1>3. ASSUME NEW v \in Verdict, Resolve(r, v)
      PROVE  CommitIsLogged' /\ PassHasLog'
  BY <1>3 DEF Resolve, Verdict
<1>4. ASSUME NEW v \in Verdict, LoseAnswer(r, v)
      PROVE  CommitIsLogged' /\ PassHasLog'
  BY <1>4 DEF LoseAnswer
<1> QED
  BY <1>1, <1>2, <1>3, <1>4 DEF BrokerStep

LEMMA ConsumerLogged ==
    ASSUME TypeOK, CommitIsLogged, PassHasLog, NEW c \in Consumer, ConsumerStep(c)
    PROVE  CommitIsLogged' /\ PassHasLog'
<1> USE DEF CommitIsLogged, PassHasLog, contentVars, brokerVars
<1>1. ASSUME NEW m \in Request, Deliver(c, m)
      PROVE  CommitIsLogged' /\ PassHasLog'
  BY <1>1 DEF Deliver, TypeOK
<1>2. CASE addBonus(c)
  <2>1. consuming[c] # Idle
    BY <1>2, BusyStage DEF addBonus
  <2>2. consuming[c].msg \in txLog
    BY <2>1, HeldMessage
  <2>3. \A d \in Consumer : consuming'[d] # Idle /\ consuming[d] # Idle
                             => consuming'[d].msg = consuming[d].msg
    BY <1>2, <2>1, HeldMessage DEF addBonus, TypeOK
  <2>4. \A d \in Consumer : consuming'[d] # Idle => consuming[d] # Idle
    BY <1>2, <2>1 DEF addBonus, TypeOK
  <2>5. \A r \in Request : credited'[r] > 0 => r \in txLog
    BY <1>2, <2>2 DEF addBonus, TypeOK
  <2> QED
    BY <1>2, <2>3, <2>4, <2>5 DEF addBonus
<1>3. CASE Acknowledge(c)
  BY <1>3 DEF Acknowledge, TypeOK
<1>4. CASE Abandon(c)
  BY <1>4 DEF Abandon, TypeOK
<1> QED
  BY <1>1, <1>2, <1>3, <1>4 DEF ConsumerStep

LEMMA NextLogged ==
    TypeOK /\ CommitIsLogged /\ PassHasLog /\ [Next]_vars
      => (CommitIsLogged /\ PassHasLog)'
<1> SUFFICES ASSUME TypeOK, CommitIsLogged, PassHasLog, [Next]_vars
             PROVE  (CommitIsLogged /\ PassHasLog)'
  OBVIOUS
<1>1. CASE Crash
  BY <1>1 DEF Crash, TypeOK, CommitIsLogged, PassHasLog, brokerVars, userVars
<1>2. CASE UNCHANGED vars
  BY <1>2 DEF vars, contentVars, brokerVars, userVars, CommitIsLogged, PassHasLog
<1> QED
  BY <1>1, <1>2, ContentLogged, BrokerLogged, ConsumerLogged DEF Next

LEMMA LoggedInvariant == Spec => [](CommitIsLogged /\ PassHasLog)
BY InitLogged, NextLogged, TypeCorrect, PTL DEF Spec

\* A bonus is paid only for a request whose PASS transaction has committed,
\* through every crash, lost answer, early check-back and redelivery.
THEOREM NoBonusWithoutPass == Spec => []BonusOnlyForPass
<1>1. CommitIsLogged => BonusOnlyForPass
  BY DEF CommitIsLogged, BonusOnlyForPass
<1> QED
  BY <1>1, LoggedInvariant, PTL

\* A share that is PASS always has a log row the check-back can find.
THEOREM PassIsLogged == Spec => []PassHasLog
BY LoggedInvariant, PTL

-----------------------------------------------------------------------------
(* The bonus and its log *)

LEMMA InitWithinLog == Init => ReadWithinLog /\ BonusWithinLog
BY DEF Init, ReadWithinLog, BonusWithinLog, Idle, BONUS

\* A delivery reads a bonus that the log accounts for; addBonus adds one row
\* and at most one bonus to it; other threads' reads stay within the log.
LEMMA ConsumerWithinLog ==
    ASSUME TypeOK, ReadWithinLog, BonusWithinLog, NEW c \in Consumer, ConsumerStep(c)
    PROVE  (ReadWithinLog /\ BonusWithinLog)'
<1> USE DEF ReadWithinLog, BonusWithinLog, AuthorOf, contentVars, BONUS
<1>1. ASSUME NEW m \in Request, Deliver(c, m)
      PROVE  (ReadWithinLog /\ BonusWithinLog)'
  <2>1. Author[audit[m].share] \in User
    BY AuthorType DEF AuthorOf
  <2> QED
    BY <1>1, <2>1 DEF Deliver, TypeOK
<1>2. CASE addBonus(c)
  <2> DEFINE u == AuthorOf(consuming[c].msg)
  <2>1. /\ consuming[c] \in [stage : {"read", "written"}, msg : Request, bonus : Nat]
        /\ consuming[c].bonus \in Nat
        /\ u \in User
    BY <1>2, BusyStage, HeldMessage, AuthorType DEF addBonus
  <2>2. consuming[c].bonus <= InitialBonus + 50 * eventRows[u]
    BY <1>2 DEF addBonus
  <2>3. /\ bonus' = [bonus EXCEPT ![u] = consuming[c].bonus + 50]
        /\ eventRows' = [eventRows EXCEPT ![u] = @ + 1]
        /\ UNCHANGED audit
    BY <1>2 DEF addBonus
  <2>4. /\ eventRows \in [User -> Nat]
        /\ bonus \in [User -> Nat]
    BY DEF TypeOK
  <2> HIDE DEF u
  <2>5. BonusWithinLog'
    <3>1. ASSUME NEW w \in User
          PROVE  bonus'[w] <= InitialBonus + 50 * eventRows'[w]
      <4>1. CASE w = u
        BY <4>1, <2>1, <2>2, <2>3, <2>4
      <4>2. CASE w # u
        BY <4>2, <2>3, <2>4
      <4> QED
        BY <4>1, <4>2
    <3> QED
      BY <3>1
  <2>6. ASSUME NEW d \in Consumer, consuming'[d].stage = "read"
        PROVE  consuming'[d].bonus
                 <= InitialBonus + 50 * eventRows'[Author[audit'[consuming'[d].msg].share]]
    <3>1. d # c /\ consuming'[d] = consuming[d]
      <4>1. consuming'[c].stage = "written"
        BY <1>2, <2>1 DEF addBonus, TypeOK
      <4> QED
        BY <4>1, <2>6, <1>2 DEF addBonus, TypeOK
    <3> DEFINE w == AuthorOf(consuming[d].msg)
    <3>2. /\ consuming[d].bonus \in Nat
          /\ w \in User
      BY <3>1, <2>6, BusyStage, HeldMessage, AuthorType
    <3>3. consuming[d].bonus <= InitialBonus + 50 * eventRows[w]
      BY <3>1, <2>6
    <3>4. w = Author[audit'[consuming'[d].msg].share]
      BY <3>1, <2>3
    <3> HIDE DEF w
    <3>5. eventRows'[w] >= eventRows[w] /\ eventRows'[w] \in Nat /\ eventRows[w] \in Nat
      BY <3>2, <2>3, <2>4, <2>1
    <3>6. consuming[d].bonus <= InitialBonus + 50 * eventRows'[w]
      BY <3>2, <3>3, <3>5
    <3> QED
      BY <3>1, <3>4, <3>6
  <2> QED
    BY <2>5, <2>6
<1>3. CASE Acknowledge(c)
  BY <1>3 DEF Acknowledge, TypeOK, Idle
<1>4. CASE Abandon(c)
  BY <1>4 DEF Abandon, TypeOK, Idle
<1> QED
  BY <1>1, <1>2, <1>3, <1>4 DEF ConsumerStep

LEMMA NextWithinLog ==
    TypeOK /\ ReadWithinLog /\ BonusWithinLog /\ [Next]_vars
      => (ReadWithinLog /\ BonusWithinLog)'
<1> SUFFICES ASSUME TypeOK, ReadWithinLog, BonusWithinLog, [Next]_vars
             PROVE  (ReadWithinLog /\ BonusWithinLog)'
  OBVIOUS
<1>1. ASSUME NEW r \in Request, ContentStep(r)
      PROVE  UNCHANGED <<audit, consuming, bonus, eventRows>>
  BY <1>1 DEF ContentStep, Select, SendHalf, SendHalfFails, Reject, RejectFails,
              LocalTransaction, LocalTransactionFails, EndTransaction, userVars
<1>2. ASSUME NEW r \in Request, BrokerStep(r)
      PROVE  UNCHANGED <<audit, consuming, bonus, eventRows>>
  BY <1>2 DEF BrokerStep, CheckBack, Discard, Resolve, LoseAnswer, contentVars, userVars
<1>3. ASSUME UNCHANGED <<audit, consuming, bonus, eventRows>>
      PROVE  (ReadWithinLog /\ BonusWithinLog)'
  BY <1>3 DEF ReadWithinLog, BonusWithinLog, AuthorOf
<1> QED
  BY <1>1, <1>2, <1>3, ConsumerWithinLog
     DEF Next, Crash, vars, contentVars, userVars

\* However many threads consume, no user holds more than the log accounts for.
THEOREM BonusNeverInvented == Spec => []BonusWithinLog
BY InitWithinLog, NextWithinLog, TypeCorrect, PTL DEF Spec

-----------------------------------------------------------------------------
(* A local transaction that has not run *)

LEMMA NewInvariant == Spec => []RequestsAreNew
<1>1. Init => RequestsAreNew
  BY DEF Init, RequestsAreNew
<1>2. TypeOK /\ RequestsAreNew /\ [Next]_vars => RequestsAreNew'
  <2> SUFFICES ASSUME TypeOK, RequestsAreNew, [Next]_vars PROVE RequestsAreNew'
    OBVIOUS
  <2> USE DEF RequestsAreNew, TypeOK, Goto
  <2>1. ASSUME NEW r \in Request, ContentStep(r)
        PROVE  RequestsAreNew'
    BY <2>1 DEF ContentStep, Select, SendHalf, SendHalfFails, Reject, RejectFails,
                LocalTransaction, LocalTransactionFails, EndTransaction, Stage
  <2>2. ASSUME UNCHANGED <<pc, txLog>>
        PROVE  RequestsAreNew'
    BY <2>2
  <2>3. CASE Crash
    BY <2>3 DEF Crash
  <2>4. ASSUME NEW r \in Request, BrokerStep(r)
        PROVE  UNCHANGED <<pc, txLog>>
    BY <2>4 DEF BrokerStep, CheckBack, Discard, Resolve, LoseAnswer, contentVars
  <2>5. ASSUME NEW c \in Consumer, ConsumerStep(c)
        PROVE  UNCHANGED <<pc, txLog>>
    BY <2>5 DEF ConsumerStep, Deliver, addBonus, Acknowledge, Abandon, contentVars
  <2> QED
    BY <2>1, <2>2, <2>3, <2>4, <2>5 DEF Next, vars, contentVars
<1> QED
  BY <1>1, <1>2, TypeCorrect, PTL DEF Spec

-----------------------------------------------------------------------------
(* Refinement *)

LEMMA InitPromise == Init => Promise!Init
BY DEF Init, Promise!Init, Decision, Promise!Decision

\* LocalTransaction is Pass, and so is LocalTransactionFails when the rows were
\* written; Reject is Reject, addBonus is Grant; every other
\* step leaves what was promised alone.
LEMMA NextPromise ==
    TypeOK /\ CommitIsLogged /\ RequestsAreNew /\ [Next]_vars
      => [Promise!Next]_(Promise!vars)
<1> SUFFICES ASSUME TypeOK, CommitIsLogged, RequestsAreNew, [Next]_vars
             PROVE  Promise!Next \/ UNCHANGED <<audit, status, txLog, credited>>
  BY DEF Promise!vars
<1>1. ASSUME NEW r \in Request, LocalTransaction(r)
      PROVE  Promise!Pass(r)
  BY <1>1 DEF LocalTransaction, auditBYIdInDB, Promise!Pass, CommitIsLogged,
              RequestsAreNew, userVars
<1>2. ASSUME NEW r \in Request, Reject(r)
      PROVE  Promise!Reject(r)
  BY <1>2 DEF Reject, auditBYIdInDB, Promise!Reject, userVars
<1>3. ASSUME NEW r \in Request, ContentStep(r)
      PROVE  \/ LocalTransaction(r) \/ LocalTransactionFails(r) \/ Reject(r)
             \/ UNCHANGED <<audit, status, txLog, credited>>
  BY <1>3 DEF ContentStep, Select, SendHalf, SendHalfFails, RejectFails,
              EndTransaction, userVars
<1>4. ASSUME NEW r \in Request, BrokerStep(r)
      PROVE  UNCHANGED <<audit, status, txLog, credited>>
  BY <1>4 DEF BrokerStep, CheckBack, Discard, Resolve, LoseAnswer, contentVars, userVars
<1>5. ASSUME NEW c \in Consumer, addBonus(c)
      PROVE  \E r \in Request : Promise!Grant(r)
  <2>1. consuming[c] # Idle
    BY <1>5, BusyStage DEF addBonus
  <2>2. consuming[c].msg \in Request /\ consuming[c].msg \in txLog
    BY <2>1, HeldMessage DEF CommitIsLogged
  <2>3. Promise!Grant(consuming[c].msg)
    BY <1>5, <2>2 DEF addBonus, Promise!Grant, contentVars
  <2> QED
    BY <2>2, <2>3
<1>6. ASSUME NEW c \in Consumer, ConsumerStep(c), ~addBonus(c)
      PROVE  UNCHANGED <<audit, status, txLog, credited>>
  BY <1>6 DEF ConsumerStep, Deliver, Acknowledge, Abandon, contentVars
<1>7. CASE Crash \/ UNCHANGED vars
  BY <1>7 DEF Crash, vars, contentVars, userVars
<1>8. ASSUME NEW r \in Request, LocalTransactionFails(r)
      PROVE  Promise!Pass(r) \/ UNCHANGED <<audit, status, txLog, credited>>
  BY <1>8 DEF LocalTransactionFails, auditBYIdInDB, Promise!Pass, CommitIsLogged,
              RequestsAreNew, userVars
<1> QED
  BY <1>1, <1>2, <1>3, <1>4, <1>5, <1>6, <1>7, <1>8 DEF Next, Promise!Next

\* The audit, the broker and the consumers implement AuditBonus.
THEOREM Refinement == Spec => KeepsPromise
<1>1. Spec => []CommitIsLogged
  BY LoggedInvariant, PTL
<1> QED
  BY <1>1, InitPromise, NextPromise, TypeCorrect, NewInvariant, PTL
     DEF Spec, KeepsPromise, Promise!Spec
=============================================================================
