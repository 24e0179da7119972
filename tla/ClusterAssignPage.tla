------------------------- MODULE ClusterAssignPage -------------------------
(***************************************************************************)
(* cluster_app_assign_manage.js: the page on which an operator places      *)
(* every machine of the application as a token server, as the client of    *)
(* one, or in the remaining pool, and pushes the whole assignment.         *)
(*                                                                         *)
(* A selection and the button that uses it are one step; selecting several *)
(* machines is pressing the button for each of them.  Lists are sets:      *)
(* Placed says that no machine is listed twice.                            *)
(***************************************************************************)
EXTENDS TokenCluster

VARIABLES
    clusterMap,  \* SUBSET Group
    remaining    \* remainingClientAddressList

assign == <<clusterMap, remaining>>

\* processAppSingleData: without a server part the mode stays undefined.
ModeOf(c, m) == IF m \in Capable THEN c[m].mode ELSE "undefined"

ElsewherePort(c, S) == c[CHOOSE m \in S : TRUE].target.port

\* applyClusterMap: groups by host.  The first server of a host stands for all
\* of them; the first client of a host elsewhere gives the port.
Bound(c) == {m \in DOMAIN c : ModeOf(c, m) = "client" /\ c[m].target # NoAddress}
ClusterMap(c) ==
    LET servers == {m \in DOMAIN c : ModeOf(c, m) = "server"}
        first(h) == CHOOSE m \in servers : HostOf[m] = h
        of(h) == {m \in Bound(c) : c[m].target.host = h}
        hosts == {HostOf[m] : m \in servers}
        elsewhere == {c[m].target.host : m \in Bound(c)} \ hosts
    IN  {[id |-> first(h), host |-> h, port |-> c[first(h)].port,
          clients |-> of(h), own |-> TRUE] : h \in hosts}
        \cup
        {[id |-> h, host |-> h, port |-> ElsewherePort(c, of(h)),
          clients |-> of(h), own |-> FALSE] : h \in elsewhere}
Remaining(c) == {m \in DOMAIN c : ModeOf(c, m) # "server" /\ m \notin Bound(c)}

AssignFresh == clusterMap' = {} /\ remaining' = {}
Replace(g, h) == clusterMap' = (clusterMap \ {g}) \cup {h}
Edit == page = "assign" /\ ~broken /\ Click
EditDone == UNCHANGED <<page, broken, cluster, request, stray, missed>>

-----------------------------------------------------------------------------
(* Editing *)

\* Mutant: the machine stays in the pool.
MoveAndKeep(g, m) ==
    /\ Edit
    /\ g \in clusterMap /\ m \in remaining
    /\ Replace(g, [g EXCEPT !.clients = @ \cup {m}])
    /\ UNCHANGED remaining
    /\ EditDone
MoveToServerGroup(g, m) ==
    /\ Edit
    /\ g \in clusterMap /\ m \in remaining
    /\ Replace(g, [g EXCEPT !.clients = @ \cup {m}])
    /\ remaining' = remaining \ {m}
    /\ EditDone

MoveToRemainingSharePool(g, m) ==
    /\ Edit
    /\ g \in clusterMap /\ m \in g.clients
    /\ Replace(g, [g EXCEPT !.clients = @ \ {m}])
    /\ remaining' = remaining \cup {m}
    /\ EditDone

AddToServerList(m) ==
    /\ Edit
    /\ m \in remaining
    /\ clusterMap' = clusterMap \cup
         {[id |-> m, host |-> HostOf[m], port |-> DEFAULT_CLUSTER_SERVER_PORT,
           clients |-> {}, own |-> TRUE]}
    /\ remaining' = remaining \ {m}
    /\ EditDone

\* Mutant: the clients of the removed server are forgotten.
RemoveAndForget(g) ==
    /\ Edit
    /\ g \in clusterMap
    /\ clusterMap' = clusterMap \ {g}
    /\ remaining' = remaining \cup (IF g.own THEN {g.id} ELSE {})
    /\ EditDone
\* Mutant: a server elsewhere goes to the pool as well.
RemoveAnyServer(g) ==
    /\ Edit
    /\ g \in clusterMap
    /\ clusterMap' = clusterMap \ {g}
    /\ remaining' = remaining \cup g.clients \cup {g.id}
    /\ EditDone
\* A server elsewhere does not go back to the pool; its clients do.
RemoveFromServerList(g) ==
    /\ Edit
    /\ g \in clusterMap
    /\ clusterMap' = clusterMap \ {g}
    /\ remaining' = remaining \cup g.clients \cup (IF g.own THEN {g.id} ELSE {})
    /\ EditDone

\* The port field of the selected server.
SetPort(g, p) ==
    /\ Edit
    /\ g \in clusterMap /\ g.own /\ g.port # p
    /\ Replace(g, [g EXCEPT !.port = p])
    /\ UNCHANGED remaining
    /\ EditDone

-----------------------------------------------------------------------------
(* Requests *)

\* retrieveClusterAppInfo: the answer replaces both lists, edited or not.
RetrieveAnswered(s) ==
    /\ page = "assign"
    /\ Answered(s, "list")
    /\ \/ /\ clusterMap' = ClusterMap(request[s].was)
          /\ remaining' = Remaining(request[s].was)
          /\ Drop(s)
          /\ broken' = FALSE
          /\ UNCHANGED <<page, cluster, stray, clicks, missed>>
       \/ Refused(s) /\ UNCHANGED assign

SaveAndApplyAssign(s) ==
    /\ Edit
    /\ Send(s, NewPush("assignAll", [groups |-> clusterMap, rest |-> remaining]))
    /\ UNCHANGED <<page, broken, cluster, stray, missed, assign>>

\* Failed machines or not, the page retrieves the state again.
SaveAnswered(s) ==
    /\ page = "assign"
    /\ Finished(s, "assignAll")
    /\ request' = [request EXCEPT ![s] = NewFetch("list", NoMachine)]
    /\ UNCHANGED <<page, broken, cluster, stray, clicks, missed, assign>>

AssignInit == clusterMap = {} /\ remaining = {}

AssignAnswer == \E s \in Slot : RetrieveAnswered(s) \/ SaveAnswered(s)
AssignNext ==
    \/ \E g \in clusterMap, m \in Machine : MoveToServerGroup(g, m)
                                            \/ MoveToRemainingSharePool(g, m)
    \/ \E m \in Machine : AddToServerList(m)
    \/ \E g \in clusterMap : RemoveFromServerList(g) \/ \E p \in Port : SetPort(g, p)
    \/ \E s \in Slot : SaveAndApplyAssign(s)
    \/ AssignAnswer

-----------------------------------------------------------------------------
(* Properties *)

AssignTypeOK == clusterMap \subseteq Group /\ remaining \subseteq Machine

\* A machine is listed at most once, so that a push gives it one role: as one
\* server, as a client of one server, or as remaining, through any sequence of
\* moves, additions and removals and through the answers that arrive meanwhile.
Placed ==
    /\ \A g \in clusterMap : /\ g.id \notin remaining
                             /\ g.clients \cap remaining = {}
                             /\ \A h \in clusterMap : g.id \notin h.clients
    /\ \A g, h \in clusterMap : g # h => g.id # h.id /\ g.clients \cap h.clients = {}

\* No edit makes a machine disappear from the page, which would leave it in
\* the role it has when the assignment is pushed.
Listed == remaining \cup UNION {g.clients \cup ({g.id} \cap Machine) : g \in clusterMap}
EditsKeepMachines == [][clicks' # clicks /\ assign' # <<{}, {}>> => Listed' = Listed]_<<clicks, assign>>
=============================================================================
