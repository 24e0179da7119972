------------------------- MODULE BonusTransaction -------------------------
(***************************************************************************)
(* The audit of a share and the bonus it earns, across two services and a  *)
(* message broker:                                                         *)
(*                                                                         *)
(*   content-center  ShareService.auditById runs in one HTTP thread per    *)
(*     request.  A PASS sends a half message to RocketMQ, whose client     *)
(*     calls AddBonusTransactionListener.executeLocalTransaction: one      *)
(*     database transaction that updates the share and inserts a row       *)
(*     rocketmq_transaction_log.  The outcome goes back to the broker in a *)
(*     one-way call.  A REJECT updates the share and sends nothing.        *)
(*   RocketMQ (external)  resolves the half message by that outcome, or,   *)
(*     when none has come, by asking checkLocalTransaction again and again.*)
(*   user-center  AddBonusListener.onMessage runs UserService.addBonus in  *)
(*     one of several consumer threads; an exception, a crash or a lost    *)
(*     acknowledgement makes the broker deliver the message again.         *)
(*                                                                         *)
(* A request stands for the TRANSACTION_ID it draws (UUID.randomUUID), for *)
(* its half message and for its row of the log.                            *)
(***************************************************************************)
EXTENDS Naturals, FiniteSets

CONSTANTS
    Request,        \* audit requests, one transaction id each
    Share,          \* rows of the share table
    User,           \* rows of the user table
    Consumer,       \* consumer threads of user-center
    Author,         \* [Share -> User]: share.user_id
    InitialBonus,   \* user.bonus before the first audit
    MaxChecks,      \* the broker's transactionCheckMax
    MaxDeliveries   \* the broker's retry limit, then the dead-letter queue

ASSUME AuthorAssumption == Author \in [Share -> User]
ASSUME BoundsAssumption ==
    /\ InitialBonus \in Nat
    /\ MaxChecks \in Nat
    /\ MaxDeliveries \in Nat

VARIABLES
    audit,       \* [Request -> [share, decision]]: the request's id and body
    pc,          \* [Request -> Stage]: where the HTTP thread of a request is
    status,      \* [Share -> Decision]: share.audit_status
    txLog,       \* the transaction ids in rocketmq_transaction_log
    half,        \* [Request -> MessageState]: the half message at the broker
    answers,     \* END_TRANSACTION calls on their way to the broker
    checks,      \* [Request -> 0..MaxChecks]: check-backs made
    deliveries,  \* [Request -> 0..MaxDeliveries]: deliveries made
    acked,       \* the messages whose consumption the broker has recorded
    consuming,   \* [Consumer -> Consumption]: what a consumer thread holds
    bonus,       \* [User -> Nat]: user.bonus
    eventRows,   \* [User -> Nat]: rows of bonus_event_log for a user
    credited     \* [Request -> Nat]: those rows by the message they are due to
                 \* (history: a row does not say which)

contentVars == <<audit, pc, status, txLog>>
brokerVars  == <<half, answers, checks>>
userVars    == <<deliveries, acked, consuming, bonus, eventRows, credited>>
vars == <<contentVars, brokerVars, userVars>>

Decision == {"NOT_YET", "PASS", "REJECT"}                \* AuditStatusEnum
Verdict  == {"COMMIT", "ROLLBACK"}
Stage    == {"idle", "selected", "sent", "logged", "undone", "ended"}
MessageState == {"none", "half", "committed", "rolledback", "discarded"}
BONUS == 50

Idle == [stage |-> "idle"]
Consumption == {Idle} \cup [stage : {"read", "written"}, msg : Request, bonus : Nat]
AuthorOf(r) == Author[audit[r].share]

Init ==
    /\ audit \in [Request -> [share : Share, decision : Decision]]
    /\ pc = [r \in Request |-> "idle"]
    /\ status = [s \in Share |-> "NOT_YET"]
    /\ txLog = {}
    /\ half = [r \in Request |-> "none"]
    /\ answers = {}
    /\ checks = [r \in Request |-> 0]
    /\ deliveries = [r \in Request |-> 0]
    /\ acked = {}
    /\ consuming = [c \in Consumer |-> Idle]
    /\ bonus = [u \in User |-> InitialBonus]
    /\ eventRows = [u \in User |-> 0]
    /\ credited = [r \in Request |-> 0]

Goto(r, stage) == pc' = [pc EXCEPT ![r] = stage]

-----------------------------------------------------------------------------
(* content-center *)

\* auditById reads the share; a request for a share that is no longer
\* NOT_YET is refused, and one that asks for NOT_YET changes nothing.
Select(r) ==
    /\ pc[r] = "idle"
    /\ IF status[audit[r].share] = "NOT_YET" /\ audit[r].decision # "NOT_YET"
       THEN Goto(r, "selected")
       ELSE Goto(r, "ended")
    /\ UNCHANGED <<audit, status, txLog, brokerVars, userVars>>

\* sendMessageInTransaction: the broker stores the half message and the
\* client goes on to the local transaction ...
SendHalf(r) ==
    /\ pc[r] = "selected" /\ audit[r].decision = "PASS"
    /\ half' = [half EXCEPT ![r] = "half"]
    /\ Goto(r, "sent")
    /\ UNCHANGED <<audit, status, txLog, answers, checks, userVars>>

\* ... or the send throws, although the broker may have stored the message.
SendHalfFails(r) ==
    /\ pc[r] = "selected" /\ audit[r].decision = "PASS"
    /\ \E stored \in {"none", "half"} : half' = [half EXCEPT ![r] = stored]
    /\ Goto(r, "ended")
    /\ UNCHANGED <<audit, status, txLog, answers, checks, userVars>>

\* auditBYIdInDB: updates the row whatever its status is by now.
auditBYIdInDB(r) ==
    status' = [status EXCEPT ![audit[r].share] = audit[r].decision]

Reject(r) ==
    /\ pc[r] = "selected" /\ audit[r].decision = "REJECT"
    /\ auditBYIdInDB(r)
    /\ Goto(r, "ended")
    /\ UNCHANGED <<audit, txLog, brokerVars, userVars>>

\* The database refuses the update: the exception ends the request.  (A lost
\* answer to its commit leaves what Reject leaves.)
RejectFails(r) ==
    /\ pc[r] = "selected" /\ audit[r].decision = "REJECT"
    /\ Goto(r, "ended")
    /\ UNCHANGED <<audit, status, txLog, brokerVars, userVars>>

\* auditBYIdWithRocketMqLog commits: the share and the log, in one transaction.
LocalTransaction(r) ==
    /\ pc[r] = "sent"
    /\ auditBYIdInDB(r)
    /\ txLog' = txLog \cup {r}
    /\ Goto(r, "logged")
    /\ UNCHANGED <<audit, brokerVars, userVars>>

\* Mutant: without @Transactional the update survives the failed insert.
LocalTransactionFailsHalfway(r) ==
    /\ pc[r] = "sent"
    /\ auditBYIdInDB(r)
    /\ Goto(r, "undone")
    /\ UNCHANGED <<audit, txLog, brokerVars, userVars>>

\* It throws, and the listener catches every exception: neither row is
\* written, or both are, when it is the answer of the commit that was lost.
LocalTransactionFails(r) ==
    /\ pc[r] = "sent"
    /\ \/ UNCHANGED <<status, txLog>>
       \/ auditBYIdInDB(r) /\ txLog' = txLog \cup {r}
    /\ Goto(r, "undone")
    /\ UNCHANGED <<audit, brokerVars, userVars>>

\* executeLocalTransaction returns COMMIT or ROLLBACK; the client forwards it.
EndTransaction(r) ==
    /\ pc[r] \in {"logged", "undone"}
    /\ answers' = answers \cup
         {<<r, IF pc[r] = "logged" THEN "COMMIT" ELSE "ROLLBACK">>}
    /\ Goto(r, "ended")
    /\ UNCHANGED <<audit, status, txLog, half, checks, userVars>>

\* content-center stops: every request in progress is lost; the database stays.
Crash ==
    /\ \E r \in Request : pc[r] \notin {"idle", "ended"}
    /\ pc' = [r \in Request |-> IF pc[r] = "idle" THEN "idle" ELSE "ended"]
    /\ UNCHANGED <<audit, status, txLog, brokerVars, userVars>>

\* Mutants: a missing row is answered with UNKNOWN, or counts as success.
checkReturnsUnknown(r) == IF r \in txLog THEN "COMMIT" ELSE "UNKNOWN"
checkReturnsCommit(r)  == "COMMIT"

\* checkLocalTransaction: a missing row means the local transaction failed.
checkLocalTransaction(r) == IF r \in txLog THEN "COMMIT" ELSE "ROLLBACK"

-----------------------------------------------------------------------------
(* RocketMQ (external) *)

\* The broker asks some producer of the group about an unresolved message,
\* while its local transaction is running or after it.  The producer may be
\* down, or its query may fail: then nothing comes back.
CheckBack(r) ==
    /\ half[r] = "half" /\ checks[r] < MaxChecks
    /\ checks' = [checks EXCEPT ![r] = @ + 1]
    /\ \/ answers' = answers \cup {<<r, checkLocalTransaction(r)>>}
       \/ UNCHANGED answers
    /\ UNCHANGED <<contentVars, half, userVars>>

\* The first answer that reaches the broker resolves the message.
Resolve(r, v) ==
    /\ <<r, v>> \in answers
    /\ answers' = answers \ {<<r, v>>}
    /\ half' = IF half[r] # "half" THEN half
               ELSE [half EXCEPT ![r] = IF v = "COMMIT" THEN "committed"
                                                        ELSE "rolledback"]
    /\ UNCHANGED <<contentVars, checks, userVars>>

\* The call is one-way: it may never arrive.
LoseAnswer(r, v) ==
    /\ <<r, v>> \in answers
    /\ answers' = answers \ {<<r, v>>}
    /\ UNCHANGED <<contentVars, half, checks, userVars>>

\* After MaxChecks check-backs the broker gives the message up.
Discard(r) ==
    /\ half[r] = "half" /\ checks[r] = MaxChecks
    /\ half' = [half EXCEPT ![r] = "discarded"]
    /\ UNCHANGED <<contentVars, answers, checks, userVars>>

-----------------------------------------------------------------------------
(* user-center *)

\* A committed message that is not acknowledged is handed to a free thread,
\* MaxDeliveries times at most; addBonus begins by reading the user.
Deliver(c, m) ==
    /\ half[m] = "committed" /\ m \notin acked
    /\ deliveries[m] < MaxDeliveries
    /\ consuming[c] = Idle
    /\ deliveries' = [deliveries EXCEPT ![m] = @ + 1]
    /\ consuming' = [consuming EXCEPT ![c] =
         [stage |-> "read", msg |-> m, bonus |-> bonus[AuthorOf(m)]]]
    /\ UNCHANGED <<contentVars, brokerVars, acked, bonus, eventRows, credited>>

\* Mutant: the log row is not written with the bonus.
addBonusUnlogged(c) ==
    /\ consuming[c].stage = "read"
    /\ LET m == consuming[c].msg
       IN /\ bonus' = [bonus EXCEPT ![AuthorOf(m)] = consuming[c].bonus + BONUS]
          /\ credited' = [credited EXCEPT ![m] = @ + 1]
    /\ consuming' = [consuming EXCEPT ![c].stage = "written"]
    /\ UNCHANGED <<contentVars, brokerVars, deliveries, acked, eventRows>>

\* addBonus writes the bonus it has read plus the message's, inserts the log
\* row, and commits.
addBonus(c) ==
    /\ consuming[c].stage = "read"
    /\ LET m == consuming[c].msg
           u == AuthorOf(m)
       IN /\ bonus' = [bonus EXCEPT ![u] = consuming[c].bonus + BONUS]
          /\ eventRows' = [eventRows EXCEPT ![u] = @ + 1]
          /\ credited' = [credited EXCEPT ![m] = @ + 1]
    /\ consuming' = [consuming EXCEPT ![c].stage = "written"]
    /\ UNCHANGED <<contentVars, brokerVars, deliveries, acked>>

\* onMessage returned: the broker records the consumption.
Acknowledge(c) ==
    /\ consuming[c].stage = "written"
    /\ acked' = acked \cup {consuming[c].msg}
    /\ consuming' = [consuming EXCEPT ![c] = Idle]
    /\ UNCHANGED <<contentVars, brokerVars, deliveries, bonus, eventRows, credited>>

\* Mutant: the listener catches the exception and returns.
AbandonQuietly(c) ==
    /\ consuming[c] # Idle
    /\ acked' = acked \cup {consuming[c].msg}
    /\ consuming' = [consuming EXCEPT ![c] = Idle]
    /\ UNCHANGED <<contentVars, brokerVars, deliveries, bonus, eventRows, credited>>

\* addBonus throws (its transaction is rolled back), user-center stops, or
\* the acknowledgement is lost: the message will be delivered again.
Abandon(c) ==
    /\ consuming[c] # Idle
    /\ consuming' = [consuming EXCEPT ![c] = Idle]
    /\ UNCHANGED <<contentVars, brokerVars, deliveries, acked, bonus, eventRows, credited>>

-----------------------------------------------------------------------------
ContentStep(r) ==
    \/ Select(r) \/ SendHalf(r) \/ SendHalfFails(r) \/ Reject(r) \/ RejectFails(r)
    \/ LocalTransaction(r) \/ LocalTransactionFails(r) \/ EndTransaction(r)

BrokerStep(r) ==
    \/ CheckBack(r) \/ Discard(r)
    \/ \E v \in Verdict : Resolve(r, v) \/ LoseAnswer(r, v)

ConsumerStep(c) ==
    \/ \E m \in Request : Deliver(c, m)
    \/ addBonus(c) \/ Acknowledge(c) \/ Abandon(c)

Next ==
    \/ Crash
    \/ \E r \in Request : ContentStep(r) \/ BrokerStep(r)
    \/ \E c \in Consumer : ConsumerStep(c)

\* A request that the servlet container has started goes on; the broker keeps
\* checking, gives up at its limit, and keeps delivering; calls do not stay on
\* the wire for ever; a consumer thread does not hang.  Nothing obliges an
\* answer to arrive or a consumption to succeed.
Fairness ==
    /\ \A r \in Request :
         /\ WF_vars(ContentStep(r) /\ pc[r] # "idle")
         /\ WF_vars(CheckBack(r))
         /\ WF_vars(Discard(r))
         /\ WF_vars(\E v \in Verdict : Resolve(r, v) \/ LoseAnswer(r, v))
         /\ WF_vars(\E c \in Consumer : Deliver(c, r))
    /\ \A c \in Consumer : WF_vars(addBonus(c) \/ Acknowledge(c) \/ Abandon(c))

Spec == Init /\ [][Next]_vars /\ Fairness

-----------------------------------------------------------------------------
(* Properties *)

\* Every variable has its type.
TypeOK ==
    /\ audit \in [Request -> [share : Share, decision : Decision]]
    /\ pc \in [Request -> Stage]
    /\ status \in [Share -> Decision]
    /\ txLog \in SUBSET Request
    /\ half \in [Request -> MessageState]
    /\ answers \in SUBSET (Request \X Verdict)
    /\ checks \in [Request -> 0 .. MaxChecks]
    /\ deliveries \in [Request -> 0 .. MaxDeliveries]
    /\ acked \in SUBSET Request
    /\ consuming \in [Consumer -> Consumption]
    /\ bonus \in [User -> Nat]
    /\ eventRows \in [User -> Nat]
    /\ credited \in [Request -> Nat]

\* user-center pays a bonus only for a request whose local transaction has
\* committed in content-center, however late, lost or repeated the calls
\* between the two were (executeLocalTransaction, checkLocalTransaction).
BonusOnlyForPass ==
    \A r \in Request :
        credited[r] > 0 => r \in txLog /\ audit[r].decision = "PASS"

\* A share is PASS only by a transaction that also left its log row, so the
\* check-back can find it (auditBYIdWithRocketMqLog is one transaction).
PassHasLog ==
    \A s \in Share :
        status[s] = "PASS" => \E r \in txLog : audit[r].share = s

\* No user holds more bonus than bonus_event_log accounts for: concurrent
\* consumers can lose a bonus (addBonus reads, then writes), never invent one.
BonusWithinLog ==
    \A u \in User : bonus[u] <= InitialBonus + BONUS * eventRows[u]

\* A half message is rolled back only if its local transaction failed, as
\* executeLocalTransaction concludes from an exception and
\* checkLocalTransaction from the missing row.
RollbackMeansFailed ==
    \A r \in Request : half[r] = "rolledback" => r \notin txLog

\* A share's audit is decided once: auditById refuses one that is not NOT_YET.
DecidedOnce ==
    [][\A s \in Share : status[s] # "NOT_YET" => status'[s] = status[s]]_vars

DeadLettered(r) ==
    /\ deliveries[r] = MaxDeliveries
    /\ \A c \in Consumer : consuming[c] = Idle \/ consuming[c].msg # r

\* A share that was passed has its author's bonus paid in the end, unless the
\* message is rolled back (RollbackMeansFailed) or the broker reaches a limit:
\* it gives up checking or dead-letters the message.
PassIsSettled ==
    \A r \in Request :
        r \in txLog ~> \/ credited[r] > 0
                       \/ half[r] \in {"rolledback", "discarded"}
                       \/ DeadLettered(r)

-----------------------------------------------------------------------------
(* The inductive invariants behind the safety properties *)

\* Whatever says that the local transaction of r has committed is right: its
\* thread, a COMMIT on the wire, the broker's state, a consumer, a credit.
CommitIsLogged ==
    \A r \in Request :
        /\ pc[r] \in {"sent", "logged", "undone"} \/ r \in txLog
             => audit[r].decision = "PASS"
        /\ pc[r] = "logged" => r \in txLog
        /\ <<r, "COMMIT">> \in answers => r \in txLog
        /\ half[r] = "committed" => r \in txLog
        /\ credited[r] > 0 => r \in txLog
        /\ \A c \in Consumer :
             consuming[c] # Idle /\ consuming[c].msg = r => r \in txLog

\* A local transaction that has not run has left no row.
RequestsAreNew ==
    \A r \in Request : pc[r] \in {"idle", "selected", "sent"} => r \notin txLog

\* What a consumer has read is no more than the log already accounts for.
ReadWithinLog ==
    \A c \in Consumer :
        consuming[c].stage = "read"
          => consuming[c].bonus
               <= InitialBonus + BONUS * eventRows[AuthorOf(consuming[c].msg)]

\* The audit keeps the promise of AuditBonus.
Promise == INSTANCE AuditBonus WITH passed <- txLog, granted <- credited
KeepsPromise == Promise!Spec
=============================================================================
