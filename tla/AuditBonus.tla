---------------------------- MODULE AuditBonus ----------------------------
(***************************************************************************)
(* What the audit of a share promises, whatever carries the bonus from     *)
(* content-center to user-center: an administrator's request marks a share *)
(* PASS or REJECT in one database transaction, and a bonus is paid only in *)
(* the name of a request whose PASS transaction has committed.  The promise*)
(* says neither that a bonus is paid at most once nor that it is paid at   *)
(* all: the code promises neither (see README.md).                         *)
(***************************************************************************)
EXTENDS Naturals

CONSTANTS Request, \* audit requests
          Share    \* rows of the share table

VARIABLES audit,   \* [Request -> [share, decision]]: what each request asks
          status,  \* [Share -> Status]: share.audit_status
          passed,  \* the requests whose PASS transaction has committed
          granted  \* [Request -> Nat]: bonuses paid in a request's name

vars == <<audit, status, passed, granted>>

Decision == {"NOT_YET", "PASS", "REJECT"}

Init ==
    /\ audit \in [Request -> [share : Share, decision : Decision]]
    /\ status \in [Share -> Decision]
    /\ passed = {}
    /\ granted = [r \in Request |-> 0]

\* The share is passed and the request that did it is on record, at once.
Pass(r) ==
    /\ audit[r].decision = "PASS"
    /\ r \notin passed
    /\ passed' = passed \cup {r}
    /\ status' = [status EXCEPT ![audit[r].share] = "PASS"]
    /\ UNCHANGED <<audit, granted>>

Reject(r) ==
    /\ audit[r].decision = "REJECT"
    /\ status' = [status EXCEPT ![audit[r].share] = "REJECT"]
    /\ UNCHANGED <<audit, passed, granted>>

\* A bonus is paid for a recorded PASS only.
Grant(r) ==
    /\ r \in passed
    /\ granted' = [granted EXCEPT ![r] = @ + 1]
    /\ UNCHANGED <<audit, status, passed>>

Next == \E r \in Request : Pass(r) \/ Reject(r) \/ Grant(r)

Spec == Init /\ [][Next]_vars
=============================================================================
