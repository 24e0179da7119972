---------------------------- MODULE ClusterPages ----------------------------
(***************************************************************************)
(* The cluster pages of the web interface over one cluster of machines:    *)
(* an operator works with one of them, reloads it, and sends requests      *)
(* whose answers arrive in any order or not at all.                        *)
(***************************************************************************)
EXTENDS ClusterAssignPage, ClusterServerListPage, ClusterSinglePage

vars == <<base, assign, servers, single, tokens>>

Init == BaseInit /\ AssignInit /\ ServersInit /\ SingleInit

\* The operator loads the page again.
ReloadPage(s) ==
    /\ Click
    /\ request[s] = NoRequest
    /\ Reload(s)
    /\ AssignFresh /\ ServersFresh /\ SingleFresh /\ TokensFresh
    /\ UNCHANGED <<page, cluster, stray>>

Next ==
    \/ BackEnd /\ UNCHANGED <<assign, servers, single, tokens>>
    \/ AssignNext /\ UNCHANGED <<servers, single, tokens>>
    \/ ServersNext /\ UNCHANGED <<assign, single, tokens>>
    \/ SingleNext /\ UNCHANGED <<assign, servers>>
    \/ \E s \in Slot : ReloadPage(s)

\* The back end works off a push and answers; nobody has to click.
Fairness == /\ \A s \in Slot : WF_vars(Work(s) /\ UNCHANGED <<assign, servers, single, tokens>>)
            /\ WF_vars(AssignAnswer /\ UNCHANGED <<servers, single, tokens>>)
            /\ WF_vars(ServersAnswer /\ UNCHANGED <<assign, single, tokens>>)
            /\ WF_vars(SingleAnswer /\ UNCHANGED <<assign, servers>>)

Spec == Init /\ [][Next]_vars /\ Fairness

TypeOK == BaseTypeOK /\ AssignTypeOK /\ ServersTypeOK /\ SingleTypeOK
=============================================================================
