------------------------- MODULE ClusterSinglePage -------------------------
(***************************************************************************)
(* The pages that change one machine.                                      *)
(*                                                                         *)
(* cluster_single.js: the operator selects a machine, by hand or by a      *)
(* search; the page fetches its state, and saves the state it shows to the *)
(* machine that is selected by then.                                       *)
(* cluster_app_token_client_list.js: the table of token clients and a      *)
(* dialog that changes where one of them looks for its server.             *)
(***************************************************************************)
EXTENDS TokenCluster

VARIABLES
    mac,     \* macInputModel
    options, \* macsInputOptionsOrigin, or NoMachine before it is known
    stateVO, \* the state shown and the machine it is of
    rows,    \* clientVOList: clients and the targets they have
    ccDialog \* ccDialogData

single == <<mac, options, stateVO>>
tokens == <<rows, ccDialog>>

NoState  == [of |-> NoMachine]
StateVO  == [of : Machine, conf : State]
Row      == [machine : Machine, target : Address \cup {NoAddress}]
NoConfig == [machine |-> NoMachine]

SingleFresh == mac' = NoMachine /\ options' = NoMachine /\ stateVO' = NoState
TokensFresh == rows' = {} /\ ccDialog' = NoConfig
Single == page = "single"
Tokens == page = "clients" /\ ~broken

\* modify_single: a client's configuration, or a server's, and then its mode.
Modify(s, m, mode, at) ==
    LET g == [id |-> IF mode = "server" THEN m ELSE at, host |-> at.host, port |-> at.port,
              clients |-> IF mode = "client" THEN {m} ELSE {}, own |-> mode = "server"]
    IN  Send(s, NewPush("modify", [groups |-> {g}, rest |-> {}]))

-----------------------------------------------------------------------------
(* cluster_single.js *)

\* The watch on macInputModel: another machine is fetched.
Watch(s, m) ==
    /\ mac' = m
    /\ IF m \in {mac, NoMachine} THEN UNCHANGED request
       ELSE request' = [request EXCEPT ![s] = NewFetch("state", m)]

SelectMachine(s, m) ==
    /\ Single /\ Click
    /\ options # NoMachine /\ m \in options
    /\ request[s] = NoRequest
    /\ Watch(s, m)
    /\ UNCHANGED <<page, broken, cluster, stray, missed, options, stateVO, tokens>>

\* The search selects the first machine that matches, or none.
Search(s, S) ==
    /\ Single /\ Click
    /\ options # NoMachine /\ S \subseteq options
    /\ request[s] = NoRequest
    /\ \E m \in (IF S = {} THEN {NoMachine} ELSE S) : Watch(s, m)
    /\ UNCHANGED <<page, broken, cluster, stray, missed, options, stateVO, tokens>>

\* queryAppMachines: the first machine is selected.
MachinesAnswered(s) ==
    /\ Single
    /\ Answered(s, "machines")
    /\ \/ /\ options' = Machine
          /\ \E m \in Machine : /\ mac' = m
                                /\ request' = [request EXCEPT ![s] = NewFetch("state", m)]
       \/ options' = {} /\ Drop(s) /\ UNCHANGED mac
    /\ UNCHANGED <<page, broken, cluster, stray, clicks, missed, stateVO, tokens>>

\* Does a fetch of the selected machine end while older ones are in flight?
Overtakes(s) ==
    request[s].about = mac /\ \E t \in Slot \ {s} : request[t].op = "state"

\* Mutant: after an error the state shown before stays.
StateRefusedKeeps(s) ==
    /\ Single
    /\ Answered(s, "state")
    /\ \/ /\ request[s].about \in DOMAIN request[s].was
          /\ stateVO' = [of |-> request[s].about, conf |-> request[s].was[request[s].about]]
          /\ broken' = FALSE
       \/ broken' = TRUE /\ UNCHANGED stateVO
    /\ missed' = (missed \/ Overtakes(s))
    /\ Drop(s)
    /\ UNCHANGED <<page, cluster, stray, clicks, mac, options, tokens>>

\* fetchMachineClusterState: the answer is shown, whatever is selected by now.
StateAnswered(s) ==
    /\ Single
    /\ Answered(s, "state")
    /\ \/ /\ request[s].about \in DOMAIN request[s].was
          /\ stateVO' = [of |-> request[s].about, conf |-> request[s].was[request[s].about]]
          /\ broken' = FALSE
       \/ stateVO' = NoState /\ broken' = TRUE
    /\ missed' = (missed \/ Overtakes(s))
    /\ Drop(s)
    /\ UNCHANGED <<page, cluster, stray, clicks, mac, options, tokens>>

\* The form changes the mode, and the server's port or the client's target.
EditState(mode, at) ==
    /\ Single /\ ~broken /\ Click
    /\ stateVO # NoState
    /\ mode = "server" => stateVO.of \in Capable
    /\ stateVO' = [stateVO EXCEPT !.conf =
                     IF mode = "server" THEN [@ EXCEPT !.mode = mode, !.port = at.port]
                     ELSE [@ EXCEPT !.mode = mode, !.target = at]]
    /\ UNCHANGED <<page, broken, cluster, request, stray, missed, mac, options, tokens>>

\* saveConfig: the machine that is selected gets the state that is shown.
SaveConfig(s) ==
    /\ Single /\ ~broken /\ Click
    /\ stateVO # NoState /\ mac # NoMachine
    /\ \/ /\ stateVO.conf.mode = "client" /\ stateVO.conf.target # NoAddress
          /\ Modify(s, mac, "client", stateVO.conf.target)
       \/ /\ stateVO.conf.mode = "server"
          /\ Modify(s, mac, "server", [host |-> HostOf[mac], port |-> stateVO.conf.port])
    /\ UNCHANGED <<page, broken, cluster, stray, missed, single, tokens>>

\* Without a failure the page is loaded again.
ModifyAnswered(s) ==
    /\ page \in {"single", "clients"}
    /\ Finished(s, "modify")
    /\ IF request[s].failed = {}
       THEN /\ Reload(s) /\ SingleFresh /\ TokensFresh
            /\ UNCHANGED <<page, cluster, stray, clicks>>
       ELSE Drop(s) /\ UNCHANGED <<page, broken, cluster, stray, clicks, missed, single, tokens>>

-----------------------------------------------------------------------------
(* cluster_app_token_client_list.js *)

RetrieveClientsAnswered(s) ==
    /\ page = "clients"
    /\ Answered(s, "clients")
    /\ LET c == request[s].was
       IN  \/ /\ rows' = {[machine |-> m, target |-> c[m].target] :
                             m \in Clients(c)}
              /\ broken' = FALSE
              /\ Drop(s)
              /\ UNCHANGED <<page, cluster, stray, clicks, missed>>
           \/ rows' = {} /\ Refused(s)
    /\ UNCHANGED <<single, ccDialog>>

ModifyClientConfigDialog(r) ==
    /\ Tokens /\ ccDialog = NoConfig /\ Click
    /\ r \in rows
    /\ ccDialog' = r
    /\ UNCHANGED <<page, broken, cluster, request, stray, missed, rows, single>>

EditClientConfig(a) ==
    /\ Tokens /\ ccDialog # NoConfig /\ Click
    /\ ccDialog' = [ccDialog EXCEPT !.target = a]
    /\ UNCHANGED <<page, broken, cluster, request, stray, missed, rows, single>>

DoModifyClientConfig(s) ==
    /\ Tokens /\ Click
    /\ ccDialog # NoConfig /\ ccDialog.target # NoAddress
    /\ Modify(s, ccDialog.machine, "client", ccDialog.target)
    /\ UNCHANGED <<page, broken, cluster, stray, missed, single, tokens>>

CloseClientConfig ==
    /\ Tokens /\ ccDialog # NoConfig /\ Click
    /\ ccDialog' = NoConfig
    /\ UNCHANGED <<page, broken, cluster, request, stray, missed, rows, single>>

SingleInit == /\ mac = NoMachine /\ options = NoMachine /\ stateVO = NoState
              /\ rows = {} /\ ccDialog = NoConfig

SingleAnswer == \E s \in Slot : \/ MachinesAnswered(s) \/ StateAnswered(s)
                                \/ ModifyAnswered(s) \/ RetrieveClientsAnswered(s)
SingleNext ==
    \/ \E s \in Slot : \/ \E m \in Machine : SelectMachine(s, m)
                       \/ \E S \in SUBSET Machine : Search(s, S)
                       \/ SaveConfig(s) \/ DoModifyClientConfig(s)
    \/ \E mode \in {"server", "client"}, a \in Address : EditState(mode, a)
    \/ \E r \in rows : ModifyClientConfigDialog(r)
    \/ \E a \in Address : EditClientConfig(a)
    \/ CloseClientConfig
    \/ SingleAnswer

-----------------------------------------------------------------------------
(* Properties *)

SingleTypeOK ==
    /\ mac \in Machine \cup {NoMachine}
    /\ options \in (SUBSET Machine) \cup {NoMachine}
    /\ stateVO \in StateVO \cup {NoState}
    /\ rows \subseteq Row
    /\ ccDialog \in Row \cup {NoConfig}

\* saveConfig sends the state that is shown to the machine that is selected.
\* They are the same machine, unless the state of the selected one is still
\* being fetched, or its answer was lost or overtook an older one.
ShownIsSelected ==
    stateVO # NoState /\ mac # NoMachine /\ ~missed
    /\ (\A s \in Slot : request[s].op # "state") => stateVO.of = mac
=============================================================================
