----------------------- MODULE ClusterServerListPage -----------------------
(***************************************************************************)
(* cluster_app_server_list.js: the table of token servers, the dialog that *)
(* adds a server or changes one, and the removal of a server.              *)
(*                                                                         *)
(* The dialog for a new server opens while the list of machines is still   *)
(* being fetched; the answer replaces the pool under the open dialog.  The *)
(* pool and the clients are lists in which a machine can then be twice:    *)
(* they are multiplicities here.                                           *)
(***************************************************************************)
EXTENDS TokenCluster

VARIABLES
    table,     \* serverVOList: the ids of the servers
    pool,      \* remainingMachineList
    dialog,    \* serverAssignDialogData
    unbinding, \* pendingUnbindIds, while its confirmation is open
    late       \* a list arrived under a dialog that had clients or had been
               \* edited (history)

servers == <<table, pool, dialog, unbinding, late>>

Count    == [Machine -> Nat]
Once(S)  == [m \in Machine |-> IF m \in S THEN 1 ELSE 0]
Set(c)   == {m \in Machine : c[m] > 0}
Plus(c, m)  == [c EXCEPT ![m] = @ + 1]
Minus(c, m) == [c EXCEPT ![m] = @ - 1]

\* open is how many dialogs show these data: a second one opens when the
\* answer to an edit arrives under the first.
Dialog == [type : {"none", "add", "edit"}, server : GroupId \cup {NoMachine},
           own : BOOLEAN, port : Port, clients : Count, open : Nat, touched : BOOLEAN]
NoDialog == [type |-> "none", server |-> NoMachine, own |-> TRUE,
             port |-> DEFAULT_CLUSTER_SERVER_PORT, clients |-> Once({}), open |-> 0,
             touched |-> FALSE]

ListModeOf(c, m) == IF m \in Capable THEN c[m].mode ELSE "undefined"

\* wrapToAppClusterServerState: servers of the application by machine, those
\* elsewhere by the address their clients have, be it an empty one.
TableOf(c) ==
    Servers(c) \cup ({c[m].target : m \in Clients(c)}
                     \ {[host |-> HostOf[m], port |-> c[m].port] : m \in Servers(c)})

\* applyClusterMap: groups by machine, or by address for a server elsewhere.
\* Of the servers with one address the last takes the clients.
ServerGroups(c) ==
    LET own == {m \in DOMAIN c : ListModeOf(c, m) = "server"}
        at(m) == [host |-> HostOf[m], port |-> c[m].port]
        bound == {m \in DOMAIN c : ListModeOf(c, m) = "client" /\ c[m].target # NoAddress}
        of(a) == {m \in bound : c[m].target = a}
        last(a) == CHOOSE m \in own : at(m) = a
        elsewhere == {c[m].target : m \in bound} \ {at(m) : m \in own}
    IN  {[id |-> m, host |-> HostOf[m], port |-> c[m].port,
          clients |-> IF m = last(at(m)) THEN of(at(m)) ELSE {}, own |-> TRUE] : m \in own}
        \cup
        {[id |-> a, host |-> a.host, port |-> a.port,
          clients |-> of(a), own |-> FALSE] : a \in elsewhere}
PoolOf(c) ==
    {m \in DOMAIN c : \/ ListModeOf(c, m) \notin {"client", "server"}
                      \/ ListModeOf(c, m) = "client" /\ c[m].target = NoAddress}

Shown   == page = "servers" /\ ~broken
Idle    == Shown /\ dialog.open = 0 /\ unbinding = NoMachine
Dialogs == page = "servers" /\ dialog.open > 0 /\ Click
ServersFresh == /\ table' = {} /\ pool' = Once({}) /\ dialog' = NoDialog
                /\ unbinding' = NoMachine /\ late' = FALSE

-----------------------------------------------------------------------------
(* The table *)

RetrieveServersAnswered(s) ==
    /\ page = "servers"
    /\ Answered(s, "table")
    /\ \/ /\ table' = TableOf(request[s].was)
          /\ broken' = FALSE
          /\ Drop(s)
          /\ UNCHANGED <<page, cluster, stray, clicks, missed>>
       \/ table' = {} /\ Refused(s)
    /\ UNCHANGED <<pool, dialog, unbinding, late>>

UnbindServer(id) ==
    /\ Idle /\ Click
    /\ id \in table
    /\ unbinding' = id
    /\ UNCHANGED <<page, broken, cluster, request, stray, missed, table, pool, dialog, late>>

CloseUnbind ==
    /\ page = "servers" /\ Click
    /\ unbinding # NoMachine
    /\ unbinding' = NoMachine
    /\ UNCHANGED <<page, broken, cluster, request, stray, missed, table, pool, dialog, late>>

\* The confirmation stays open and can be confirmed again.
ConfirmUnbind(s) ==
    /\ page = "servers" /\ dialog.open = 0 /\ Click
    /\ unbinding # NoMachine
    /\ Send(s, [op |-> "lookup", id |-> unbinding, was |-> Nothing, heard |-> TRUE])
    /\ UNCHANGED <<page, broken, cluster, stray, missed, servers>>

-----------------------------------------------------------------------------
(* The dialog *)

NewServerDialog(s) ==
    /\ Idle /\ Click
    /\ Send(s, NewFetch("list", NoMachine))
    /\ dialog' = [NoDialog EXCEPT !.type = "add", !.open = 1]
    /\ UNCHANGED <<page, broken, cluster, stray, missed, table, pool, unbinding, late>>

ModifyServerAssignConfig(s, id) ==
    /\ Idle /\ Click
    /\ id \in table
    /\ Send(s, NewFetch("edit", id))
    /\ UNCHANGED <<page, broken, cluster, stray, missed, servers>>

\* The pool is the one of the answer.  The select element of a new server
\* drops a machine that is no longer an option.
Reconciled(d, S) ==
    IF d.type = "add" /\ d.own /\ d.server \notin S THEN [d EXCEPT !.server = NoMachine] ELSE d

UnderDialog == dialog.open > 0 /\ (dialog.touched \/ dialog.type = "edit")

ListAnswered(s) ==
    /\ page = "servers"
    /\ Answered(s, "list")
    /\ \/ /\ pool' = Once(PoolOf(request[s].was))
          /\ dialog' = Reconciled(dialog, PoolOf(request[s].was))
          /\ late' = UnderDialog
          /\ broken' = FALSE
          /\ Drop(s)
          /\ UNCHANGED <<page, cluster, stray, clicks, missed>>
       \/ Refused(s) /\ UNCHANGED <<pool, dialog, late>>
    /\ UNCHANGED <<table, unbinding>>

\* The dialog opens on the group of the answer.  If the server has gone the
\* page says so ("状态错误").
EditAnswered(s) ==
    /\ page = "servers"
    /\ Answered(s, "edit")
    /\ \/ /\ pool' = Once(PoolOf(request[s].was))
          /\ LET id == request[s].about
                 found == {g \in ServerGroups(request[s].was) : g.id = id}
             IN  \/ /\ found = {}
                    /\ dialog' = Reconciled(dialog, PoolOf(request[s].was))
                    /\ late' = UnderDialog
                 \/ /\ \E g \in found :
                         dialog' = [type |-> "edit", server |-> id, own |-> id \in Machine,
                                    port |-> g.port, clients |-> Once(g.clients),
                                    open |-> dialog.open + 1, touched |-> FALSE]
                    /\ late' = FALSE
          /\ broken' = FALSE
          /\ Drop(s)
          /\ UNCHANGED <<page, cluster, stray, clicks, missed>>
       \/ Refused(s) /\ UNCHANGED <<pool, dialog, late>>
    /\ UNCHANGED <<table, unbinding>>

\* The type of a new server and the machine of the pool, or the host typed in.
ChooseServer(id) ==
    /\ Dialogs
    /\ dialog.type = "add" /\ dialog.server # id
    /\ id \in Machine => pool[id] > 0
    /\ dialog' = [dialog EXCEPT !.server = id, !.own = id \in Machine]
    /\ UNCHANGED <<page, broken, cluster, request, stray, missed, table, pool, unbinding, late>>

SetServerPort(p) ==
    /\ Dialogs
    /\ dialog.port # p
    /\ dialog.type = "edit" => dialog.own
    /\ dialog' = [dialog EXCEPT !.port = p]
    /\ UNCHANGED <<page, broken, cluster, request, stray, missed, table, pool, unbinding, late>>

\* The pool is offered without the chosen server.  Mutant: with it.
notChosenServerNever(m) == TRUE
notChosenServer(m) == m # dialog.server

MoveToServerClients(m) ==
    /\ Dialogs
    /\ dialog.server # NoMachine
    /\ pool[m] > 0 /\ notChosenServer(m)
    /\ dialog' = [dialog EXCEPT !.clients = Plus(@, m), !.touched = TRUE]
    /\ pool' = Minus(pool, m)
    /\ UNCHANGED <<page, broken, cluster, request, stray, missed, table, unbinding, late>>

MoveToPool(m) ==
    /\ Dialogs
    /\ dialog.server # NoMachine
    /\ dialog.clients[m] > 0
    /\ dialog' = [dialog EXCEPT !.clients = Minus(@, m), !.touched = TRUE]
    /\ pool' = Plus(pool, m)
    /\ UNCHANGED <<page, broken, cluster, request, stray, missed, table, unbinding, late>>

CloseDialog ==
    /\ Dialogs
    /\ dialog' = IF dialog.open = 1 THEN NoDialog ELSE [dialog EXCEPT !.open = @ - 1]
    /\ UNCHANGED <<page, broken, cluster, request, stray, missed, table, pool, unbinding, late>>

-----------------------------------------------------------------------------
(* Saving *)

DialogGroup ==
    [id |-> dialog.server,
     host |-> CASE dialog.server \in Machine -> HostOf[dialog.server]
                [] dialog.server \in Host    -> dialog.server
                [] OTHER                     -> dialog.server.host,
     port |-> dialog.port, clients |-> Set(dialog.clients), own |-> dialog.own]

SaveNew(s) ==
    /\ Dialogs
    /\ dialog.type = "add" /\ dialog.server # NoMachine
    /\ Send(s, NewPush("assignNew",
               [groups |-> {DialogGroup}, rest |-> {m \in Set(pool) : notChosenServer(m)}]))
    /\ UNCHANGED <<page, broken, cluster, stray, missed, servers>>

SaveEdit(s) ==
    /\ Dialogs
    /\ dialog.type = "edit"
    /\ Send(s, NewPush("assignEdit", [groups |-> {DialogGroup}, rest |-> Set(pool)]))
    /\ UNCHANGED <<page, broken, cluster, stray, missed, servers>>

\* The page is loaded again, with or without failed machines.
PushAnswered(s) ==
    /\ page = "servers"
    /\ Finished(s, "assignNew") \/ Finished(s, "unbind")
    /\ Reload(s)
    /\ ServersFresh
    /\ UNCHANGED <<page, cluster, stray, clicks>>

\* failedServerSet.forEach(failedSet.push) throws: neither an alert nor a
\* reload tells of the failed machines.
EditPushAnswered(s) ==
    /\ page = "servers"
    /\ Finished(s, "assignEdit")
    /\ IF request[s].failed = {}
       THEN Reload(s) /\ ServersFresh /\ UNCHANGED <<page, cluster, stray, clicks>>
       ELSE Drop(s) /\ UNCHANGED <<page, broken, cluster, stray, clicks, missed, servers>>

ServersInit == /\ table = {} /\ pool = Once({}) /\ dialog = NoDialog
               /\ unbinding = NoMachine /\ late = FALSE

ServersAnswer == \E s \in Slot : \/ RetrieveServersAnswered(s) \/ ListAnswered(s)
                                 \/ EditAnswered(s) \/ PushAnswered(s) \/ EditPushAnswered(s)
ServersNext ==
    \/ \E id \in table : UnbindServer(id)
                         \/ \E s \in Slot : ModifyServerAssignConfig(s, id)
    \/ CloseUnbind
    \/ \E s \in Slot : ConfirmUnbind(s) \/ NewServerDialog(s) \/ SaveNew(s) \/ SaveEdit(s)
    \/ \E id \in Machine \cup Host : ChooseServer(id)
    \/ \E p \in Port : SetServerPort(p)
    \/ \E m \in Machine : MoveToServerClients(m) \/ MoveToPool(m)
    \/ CloseDialog
    \/ ServersAnswer

-----------------------------------------------------------------------------
(* Properties *)

ServersTypeOK ==
    /\ table \subseteq RowId
    /\ pool \in Count
    /\ dialog \in Dialog
    /\ unbinding \in RowId \cup {NoMachine}
    /\ late \in BOOLEAN

\* In the dialog a machine is at most once in the pool or among the clients,
\* and a server is not its own client -- unless a list arrived under the
\* dialog when it had clients or had been edited.
DialogPlaced ==
    dialog.open > 0 /\ ~late =>
        /\ \A m \in Machine : pool[m] + dialog.clients[m] <= 1
        /\ dialog.server \in Machine => dialog.clients[dialog.server] = 0

\* Removing a server switches off that server and its clients, and no other
\* machine (cluster_app_server_list.js:526).
UnbindSparesOthers ==
    [][\A s \in Slot : request[s].op = "lookup" /\ request'[s].op = "unbind" =>
         LET id == request[s].id
             c  == request[s].was
         IN  \A t \in request'[s].todo :
               t.machine = id \/ c[t.machine].target =
                 IF id \in Machine THEN [host |-> HostOf[id], port |-> c[id].port] ELSE id]_request
=============================================================================
