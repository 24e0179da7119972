------------------------- MODULE ClusterPages_proofs -------------------------
(***************************************************************************)
(* Theorems of ClusterPages: type correctness, that an assignment gives    *)
(* each machine one role and forgets none, that a machine which a push     *)
(* does not report has the role it was given, and that the state shown is  *)
(* that of the selected machine.                                           *)
(***************************************************************************)
EXTENDS ClusterPages, TLAPS

Requests == {NoRequest} \cup Fetch \cup Lookup \cup Push
Calls    == Call \cup {NoCall}

\* What an answer says of the machines that were read.
LEMMA SeenType ==
    /\ \A c \in Seen : DOMAIN c \subseteq Machine /\ \A m \in DOMAIN c : c[m] \in State
    /\ \A S \in SUBSET Machine : [S -> State] \subseteq Seen
    /\ Nothing \in Seen
<1>1. ASSUME NEW c \in Seen PROVE DOMAIN c \subseteq Machine /\ \A m \in DOMAIN c : c[m] \in State
  <2>1. PICK S \in SUBSET Machine : c \in [S -> State]
    BY <1>1 DEF Seen
  <2> QED
    BY <2>1
<1>2. \A S \in SUBSET Machine : [S -> State] \subseteq Seen
  BY DEF Seen
<1>3. Nothing \in [{} -> State] /\ {} \in SUBSET Machine
  BY DEF Nothing
<1> QED
  BY <1>1, <1>2, <1>3

\* The op of a request says what kind of request it is.
LEMMA Kinds ==
    ASSUME NEW r \in Requests
    PROVE  /\ IsFetch(r) => r \in Fetch /\ ~Pushing(r)
           /\ IsPush(r) => r \in Push
           /\ r.op = "lookup" => r \in Lookup
           /\ r.op = "none" <=> r = NoRequest
           /\ Pushing(r) => r # NoRequest /\ Unheard(r) \in Requests
<1>1. \/ r = NoRequest /\ r.op = "none"
      \/ r \in Fetch /\ r.op \in FetchOp
      \/ r \in Lookup /\ r.op = "lookup"
      \/ r \in Push /\ r.op \in PushOp
  BY DEF Requests, NoRequest, Fetch, FetchOf, FetchOp, Lookup, Push
<1>2. /\ IsFetch(r) => r \in Fetch /\ ~Pushing(r)
      /\ IsPush(r) => r \in Push
      /\ r.op = "lookup" => r \in Lookup
      /\ r.op = "none" <=> r = NoRequest
      /\ Pushing(r) => r \in Push \cup Lookup
  BY <1>1 DEF IsFetch, IsPush, Pushing, FetchOp, PushOp, NoRequest
<1>3. ASSUME r \in Push PROVE [r EXCEPT !.heard = FALSE] \in Push
  BY <1>3 DEF Push
<1>4. ASSUME r \in Lookup PROVE [r EXCEPT !.heard = FALSE] \in Lookup
  BY <1>4 DEF Lookup
<1>5. Pushing(r) => r # NoRequest
  BY DEF Pushing, IsPush, PushOp, NoRequest
<1> QED
  BY <1>2, <1>3, <1>4, <1>5 DEF Unheard, Requests

LEMMA RequestTypes ==
    /\ NoRequest \in Requests
    /\ \A op \in {"list", "table", "clients", "machines"} : NewFetch(op, NoMachine) \in Fetch
    /\ \A id \in RowId : NewFetch("edit", id) \in Fetch
    /\ \A m \in Machine : NewFetch("state", m) \in Fetch
    /\ \A id \in RowId, b \in BOOLEAN :
         [op |-> "lookup", id |-> id, was |-> Nothing, heard |-> b] \in Lookup
    /\ \A op \in PushOp, a \in Assignment : AssignTasks(a) \subseteq Task => NewPush(op, a) \in Push
    /\ \A r \in Requests : Unheard(r) \in Requests
    /\ \A r \in Requests, m \in Machine : Reached(r, m) \in Requests
    /\ \A p \in Page : FirstRequest(p) \in Fetch
<1>1. ASSUME NEW r \in Requests, NEW m \in Machine PROVE Reached(r, m) \in Requests
  <2>1. CASE IsPush(r)
    <3>1. [r EXCEPT !.overrun = @ \cup {m}] \in Push
      BY <2>1, Kinds DEF Push
    <3> QED
      BY <2>1, <3>1 DEF Reached, Requests
  <2>2. CASE ~IsPush(r)
    BY <2>2 DEF Reached
  <2> QED
    BY <2>1, <2>2
<1>2. ASSUME NEW r \in Requests PROVE Unheard(r) \in Requests
  <2>1. Pushing(r) => Unheard(r) \in Requests
    BY Kinds
  <2>2. ~Pushing(r) => Unheard(r) \in Requests
    BY DEF Unheard, Requests
  <2> QED
    BY <2>1, <2>2
<1>3. \A p \in Page : FirstRequest(p) \in Fetch
  BY PageAssumption, SeenType DEF FirstRequest, NewFetch, Fetch, FetchOf
<1>4. ASSUME NEW op \in PushOp, NEW a \in Assignment, AssignTasks(a) \subseteq Task
      PROVE  NewPush(op, a) \in Push
  BY <1>4 DEF NewPush, Push
<1> QED
  BY <1>1, <1>2, <1>3, <1>4, SeenType DEF NewFetch, Fetch, FetchOf, Lookup, Requests

\* What a page leaves in flight when it sends, drops or is loaded again.
LEMMA SendType ==
    ASSUME request \in [Slot -> Requests], NEW s \in Slot, NEW r \in Requests, Send(s, r)
    PROVE  request' \in [Slot -> Requests]
BY RequestTypes DEF Send

LEMMA PutType ==
    ASSUME request \in [Slot -> Requests], NEW s \in Slot, NEW r \in Requests,
           request' = [request EXCEPT ![s] = r]
    PROVE  request' \in [Slot -> Requests]
OBVIOUS

LEMMA ReloadType ==
    ASSUME request \in [Slot -> Requests], page \in Page, NEW s \in Slot, Reload(s)
    PROVE  request' \in [Slot -> Requests] /\ broken' = FALSE /\ missed' = FALSE
BY RequestTypes DEF Reload, Requests

-----------------------------------------------------------------------------
(* Types of assignments, tasks and states *)

\* The servers of an assignment that are machines of the application.
OwnAreMachines(G) == \A g \in G : g.own <=> g.id \in Machine

LEMMA TaskTypes ==
    /\ \A a \in Assignment :
         (\A g \in a.groups : g.own => g.id \in Machine) => AssignTasks(a) \subseteq Task
    /\ \A S \in SUBSET Machine : OffTasks(S) \subseteq Task
<1>1. ASSUME NEW g \in Group PROVE Addr(g) \in Address
  BY <1>1 DEF Group, Addr, Address
<1>2. \A S \in SUBSET Machine : OffTasks(S) \subseteq Task
  BY DEF OffTasks, Task
<1>3. ASSUME NEW a \in Assignment, \A g \in a.groups : g.own => g.id \in Machine
      PROVE  AssignTasks(a) \subseteq Task
  <2>1. a.groups \subseteq Group /\ a.rest \subseteq Machine
    BY DEF Assignment
  <2>2. ServerTasks(a) \subseteq Task
    BY <1>1, <1>3, <2>1 DEF ServerTasks, Task
  <2>3. ClientTasks(a) \subseteq Task
    <3>1. \A g \in a.groups : g.clients \subseteq Machine
      BY <2>1 DEF Group
    <3> QED
      BY <1>1, <2>1, <3>1 DEF ClientTasks, Task
  <2> QED
    BY <1>2, <2>1, <2>2, <2>3 DEF AssignTasks
<1> QED
  BY <1>2, <1>3

LEMMA AfterType ==
    ASSUME NEW t \in Task, NEW op, NEW k, NEW st \in State
    PROVE  After(op, t, k, st) \in State /\ Done(t, st) \in State
<1>1. /\ t.mode \in {"server", "client", "off"}
      /\ t.mode = "server" => t.at.port \in Port
      /\ t.mode = "client" => t.at \in Address
  BY DEF Task, Address
<1>2. Configured(t, st) \in State
  <2>1. CASE t.mode = "server"
    BY <1>1, <2>1 DEF Configured, State
  <2>2. CASE t.mode = "client"
    BY <1>1, <2>2 DEF Configured, State
  <2>3. CASE t.mode = "off"
    BY <1>1, <2>3 DEF Configured
  <2> QED
    BY <1>1, <2>1, <2>2, <2>3
<1>3. [st EXCEPT !.mode = t.mode] \in State
  BY <1>1 DEF State
<1>4. Done(t, st) \in State
  BY <1>1, <1>2 DEF Done, State
<1> QED
  BY <1>2, <1>3, <1>4 DEF After

LEMMA OutcomeTypes ==
    ASSUME cluster \in Cluster, NEW t \in Task, NEW op
    PROVE  /\ t.machine \in Machine
           /\ cluster[t.machine] \in State
           /\ Outcomes(op, t) \subseteq State
<1>1. t.machine \in Machine /\ cluster[t.machine] \in State
  BY DEF Task, Cluster
<1> QED
  BY <1>1, AfterType DEF Outcomes, Halfway

\* The assignment that the page makes of the machines' states.
LEMMA ClusterMapType ==
    ASSUME NEW c \in Seen
    PROVE  /\ ClusterMap(c) \subseteq Group /\ OwnAreMachines(ClusterMap(c))
           /\ Remaining(c) \subseteq Machine
<1> DEFINE local == {m \in DOMAIN c : ModeOf(c, m) = "server"}
           first(h) == CHOOSE m \in local : HostOf[m] = h
           of(h) == {m \in Bound(c) : c[m].target.host = h}
           hosts == {HostOf[m] : m \in local}
           elsewhere == {c[m].target.host : m \in Bound(c)} \ hosts
<1>0. DOMAIN c \subseteq Machine /\ \A m \in DOMAIN c : c[m] \in State
  BY SeenType
<1>1. \A m \in DOMAIN c : c[m].port \in Port /\ HostOf[m] \in Host
  BY <1>0, HostAssumption DEF State
<1>2. \A m \in Bound(c) : m \in Machine /\ c[m].target.host \in Host /\ c[m].target.port \in Port
  <2>1. \A m \in Bound(c) : m \in Machine /\ c[m].target \in Address
    BY <1>0 DEF Bound, State
  <2> QED
    BY <2>1 DEF Address
<1>3. ASSUME NEW h \in hosts PROVE first(h) \in local /\ HostOf[first(h)] = h
  OBVIOUS
<1>4. ASSUME NEW h \in elsewhere PROVE h \in Host /\ ElsewherePort(c, of(h)) \in Port
  <2>1. PICK m \in Bound(c) : c[m].target.host = h
    OBVIOUS
  <2>2. (CHOOSE n \in of(h) : TRUE) \in of(h)
    BY <2>1
  <2> QED
    BY <1>2, <2>1, <2>2 DEF ElsewherePort
<1>5. \A h : of(h) \subseteq Machine
  BY <1>0 DEF Bound
<1>6. hosts \subseteq Host /\ local \subseteq DOMAIN c /\ local \subseteq Machine
  BY <1>0, <1>1
<1> DEFINE G1 == {[id |-> first(h), host |-> h, port |-> c[first(h)].port,
                   clients |-> of(h), own |-> TRUE] : h \in hosts}
           G2 == {[id |-> h, host |-> h, port |-> ElsewherePort(c, of(h)),
                   clients |-> of(h), own |-> FALSE] : h \in elsewhere}
<1>7. G1 \subseteq Group /\ OwnAreMachines(G1)
  <2> DEFINE row(h) == [id |-> first(h), host |-> h, port |-> c[first(h)].port,
                        clients |-> of(h), own |-> TRUE]
  <2>1. ASSUME NEW h \in hosts PROVE row(h) \in Group /\ row(h).own /\ row(h).id \in Machine
    <3>1. first(h) \in Machine /\ first(h) \in DOMAIN c /\ h \in Host /\ of(h) \subseteq Machine
      BY <1>3, <1>5, <1>6
    <3> HIDE DEF first, of, hosts, local, elsewhere
    <3> QED
      BY <1>1, <3>1 DEF Group, GroupId
  <2>2. G1 = {row(h) : h \in hosts}
    OBVIOUS
  <2> HIDE DEF G1, row, hosts
  <2> QED
    BY <2>1, <2>2 DEF OwnAreMachines
<1>8. G2 \subseteq Group /\ OwnAreMachines(G2)
  <2> DEFINE row(h) == [id |-> h, host |-> h, port |-> ElsewherePort(c, of(h)),
                        clients |-> of(h), own |-> FALSE]
  <2>1. ASSUME NEW h \in elsewhere PROVE row(h) \in Group /\ ~row(h).own /\ row(h).id \notin Machine
    <3>1. h \in Host /\ of(h) \subseteq Machine /\ ElsewherePort(c, of(h)) \in Port
      BY <1>4, <1>5
    <3> HIDE DEF of, elsewhere
    <3> QED
      BY <3>1, DisjointAssumption DEF Group, GroupId
  <2>2. G2 = {row(h) : h \in elsewhere}
    OBVIOUS
  <2> HIDE DEF G2, row, elsewhere
  <2> QED
    BY <2>1, <2>2 DEF OwnAreMachines
<1>9. ClusterMap(c) = G1 \cup G2
  BY DEF ClusterMap
<1> HIDE DEF G1, G2
<1> QED
  BY <1>0, <1>7, <1>8, <1>9 DEF Remaining, OwnAreMachines

LEMMA ServerListTypes ==
    ASSUME NEW c \in Seen
    PROVE  /\ TableOf(c) \subseteq RowId
           /\ PoolOf(c) \subseteq Machine
           /\ \A g \in ServerGroups(c) : g \in Group /\ g.id \in Machine \cup Address
<1> DEFINE own == {m \in DOMAIN c : ListModeOf(c, m) = "server"}
           at(m) == [host |-> HostOf[m], port |-> c[m].port]
           bound == {m \in DOMAIN c : ListModeOf(c, m) = "client" /\ c[m].target # NoAddress}
           of(a) == {m \in bound : c[m].target = a}
           last(a) == CHOOSE m \in own : at(m) = a
           elsewhere == {c[m].target : m \in bound} \ {at(m) : m \in own}
           row(m) == [id |-> m, host |-> HostOf[m], port |-> c[m].port,
                      clients |-> IF m = last(at(m)) THEN of(at(m)) ELSE {}, own |-> TRUE]
           far(a) == [id |-> a, host |-> a.host, port |-> a.port, clients |-> of(a), own |-> FALSE]
<1>0. DOMAIN c \subseteq Machine /\ \A m \in DOMAIN c : c[m] \in State
  BY SeenType
<1>1. \A m \in DOMAIN c : /\ c[m].port \in Port /\ HostOf[m] \in Host
                          /\ c[m].target \in Address \cup {NoAddress}
  BY <1>0, HostAssumption DEF State
<1>2. ServerGroups(c) = {row(m) : m \in own} \cup {far(a) : a \in elsewhere}
  BY DEF ServerGroups
<1>3. \A a : of(a) \subseteq Machine
  BY <1>0
<1>4. ASSUME NEW m \in own PROVE row(m) \in Group /\ row(m).id \in Machine
  <2>1. /\ m \in Machine /\ m \in DOMAIN c
        /\ (IF m = last(at(m)) THEN of(at(m)) ELSE {}) \subseteq Machine
    BY <1>0, <1>3
  <2> HIDE DEF of, last, own, at
  <2> QED
    BY <1>1, <2>1 DEF Group, GroupId
<1>5. ASSUME NEW a \in elsewhere PROVE far(a) \in Group /\ far(a).id \in Address
  <2>1. a \in Address /\ of(a) \subseteq Machine
    BY <1>1, <1>3
  <2> HIDE DEF of, elsewhere
  <2> QED
    BY <2>1 DEF Group, GroupId, Address
<1>6. TableOf(c) \subseteq RowId
  BY <1>0, <1>1 DEF TableOf, Servers, Clients, RowId
<1>7. PoolOf(c) \subseteq Machine
  BY <1>0 DEF PoolOf
<1> HIDE DEF row, far, own, elsewhere
<1> QED
  BY <1>2, <1>4, <1>5, <1>6, <1>7

LEMMA CountTypes ==
    /\ \A S \in SUBSET Machine : Once(S) \in Count
    /\ \A c \in Count, m \in Machine : Plus(c, m) \in Count /\ (c[m] > 0 => Minus(c, m) \in Count)
    /\ NoDialog \in Dialog
<1>1. \A S \in SUBSET Machine : Once(S) \in Count
  BY DEF Once, Count
<1>2. \A c \in Count, m \in Machine : Plus(c, m) \in Count /\ (c[m] > 0 => Minus(c, m) \in Count)
  BY DEF Plus, Minus, Count
<1>3. NoDialog \in Dialog
  BY <1>1, PortAssumption DEF NoDialog, Dialog
<1> QED
  BY <1>1, <1>2, <1>3

-----------------------------------------------------------------------------
(* Type correctness.  Two facts make it inductive: the rows of the         *)
(* application's own servers are about machines, and so is the dialog.     *)

DialogOwn ==
    /\ dialog.own => dialog.server \in Machine \cup {NoMachine}
    /\ dialog.type = "edit" => dialog.server # NoMachine
TypeInv == TypeOK /\ OwnAreMachines(clusterMap) /\ DialogOwn

LEMMA BaseTypeDef ==
    BaseTypeOK <=> /\ page \in Page
                   /\ broken \in BOOLEAN
                   /\ cluster \in Cluster
                   /\ request \in [Slot -> Requests]
                   /\ stray \in [Late -> Calls]
                   /\ clicks \in 0..MaxClicks[page]
                   /\ missed \in BOOLEAN
BY DEF BaseTypeOK, Requests, Calls

LEMMA BaseTypeNext ==
    ASSUME BaseTypeOK, UNCHANGED page, Click \/ UNCHANGED clicks,
           broken' \in BOOLEAN, cluster' \in Cluster, UNCHANGED stray \/ stray' \in [Late -> Calls],
           request' \in [Slot -> Requests], missed' \in BOOLEAN
    PROVE  BaseTypeOK'
<1>1. MaxClicks[page] \in Nat
  BY BoundAssumption DEF BaseTypeOK
<1>2. clicks' \in 0..MaxClicks[page]
  BY <1>1 DEF BaseTypeOK, Click
<1>3. page' \in Page
  BY DEF BaseTypeOK
<1> QED
  BY <1>2, <1>3 DEF BaseTypeOK, Requests, Calls

LEMMA TypeInit == Init => TypeInv
<1> SUFFICES ASSUME Init PROVE TypeInv
  OBVIOUS
<1>1. page \in Page /\ MaxClicks[page] \in Nat
  BY BoundAssumption DEF Init, BaseInit
<1>2. FirstRequest(page) \in Requests /\ NoRequest \in Requests
  BY <1>1, RequestTypes DEF Requests
<1>3. request \in [Slot -> Requests]
  BY <1>2 DEF Init, BaseInit
<1>4. BaseTypeOK
  <2>1. cluster \in Cluster
    BY InitialAssumption DEF Init, BaseInit
  <2>2. clicks \in 0..MaxClicks[page]
    BY <1>1 DEF Init, BaseInit
  <2>3. stray \in [Late -> Calls]
    BY DEF Init, BaseInit, Calls
  <2> QED
    BY <1>1, <1>3, <2>1, <2>2, <2>3, BaseTypeDef DEF Init, BaseInit
<1>5. AssignTypeOK /\ OwnAreMachines(clusterMap)
  BY DEF Init, AssignInit, AssignTypeOK, OwnAreMachines
<1>6. ServersTypeOK /\ DialogOwn
  <2>1. dialog \in Dialog /\ pool \in Count
    BY CountTypes DEF Init, ServersInit
  <2> QED
    BY <2>1 DEF Init, ServersInit, ServersTypeOK, DialogOwn, NoDialog
<1>7. SingleTypeOK
  BY DEF Init, SingleInit, SingleTypeOK
<1> QED
  BY <1>4, <1>5, <1>6, <1>7 DEF TypeInv, TypeOK

\* The back end leaves requests of the same kinds, and machines in states.
LEMMA FinishesType ==
    ASSUME BaseTypeOK, NEW s \in Slot, NEW t \in Task, IsPush(request[s]),
           NEW F \in SUBSET Machine, Finishes(s, t, F)
    PROVE  request' \in [Slot -> Requests]
<1>1. request[s] \in Push /\ request \in [Slot -> Requests]
  BY BaseTypeDef, Kinds
<1>2. t.machine \in Machine
  BY DEF Task
<1>3. [request[s] EXCEPT !.todo = @ \ {t}, !.failed = @ \cup F,
                         !.overrun = @ \ {t.machine}] \in Push
  BY <1>1 DEF Push, GroupId
<1>4. \A u \in Slot : Reached(request[u], t.machine) \in Requests
  BY <1>1, <1>2, RequestTypes
<1> QED
  BY <1>3, <1>4 DEF Finishes, Requests

LEMMA ApplyType ==
    ASSUME BaseTypeOK, NEW s \in Slot, NEW t \in Task, IsPush(request[s]), Apply(s, t)
    PROVE  /\ cluster' \in Cluster
           /\ request' \in [Slot -> Requests]
           /\ stray' \in [Late -> Calls]
           /\ UNCHANGED <<page, broken, clicks, missed>>
<1>1. /\ request[s] \in Push /\ cluster \in Cluster /\ stray \in [Late -> Calls]
      /\ request[s].op \in PushOp
  BY BaseTypeDef, Kinds DEF Push
<1>2. /\ t.machine \in Machine /\ cluster[t.machine] \in State
      /\ Outcomes(request[s].op, t) \subseteq State
  BY <1>1, OutcomeTypes
<1>3. \A st \in State : [cluster EXCEPT ![t.machine] = st] \in Cluster
  BY <1>1, <1>2 DEF Cluster
<1>4. Finishes(s, t, {}) \/ Finishes(s, t, {t.machine}) => request' \in [Slot -> Requests]
  BY <1>2, FinishesType
<1>5. CASE Succeeds(s, t)
  <2>1. cluster' = [cluster EXCEPT ![t.machine] = Done(t, cluster[t.machine])]
    BY <1>5 DEF Succeeds
  <2>2. cluster' \in Cluster
    BY <1>2, <1>3, <2>1, AfterType
  <2> QED
    BY <1>1, <1>4, <1>5, <2>2 DEF Succeeds, Takes
<1>6. CASE Fails(s, t)
  <2>1. cluster' \in Cluster
    BY <1>2, <1>3, <1>6 DEF Fails
  <2> QED
    BY <1>1, <1>4, <1>6, <2>1 DEF Fails, Takes
<1>7. ASSUME NEW l \in Late, GivesUp(s, t, l)
      PROVE  /\ cluster' \in Cluster /\ request' \in [Slot -> Requests]
             /\ stray' \in [Late -> Calls] /\ UNCHANGED <<page, broken, clicks, missed>>
  <2> DEFINE r == request[s]
             call(k) == [op |-> r.op, task |-> t, next |-> k]
  <2>1. PICK k \in {1, 2} :
           /\ stray' = [stray EXCEPT ![l] = call(k)]
           /\ cluster' = [cluster EXCEPT ![t.machine] =
                            IF k = 1 THEN cluster[t.machine] ELSE Halfway(r.op, t, cluster[t.machine])]
    BY <1>2, <1>7 DEF GivesUp
  <2>2. call(k) \in Calls
    BY <1>1 DEF Call, Calls
  <2>3. stray' \in [Late -> Calls]
    BY <1>1, <2>1, <2>2
  <2>4. (IF k = 1 THEN cluster[t.machine] ELSE Halfway(r.op, t, cluster[t.machine])) \in State
    BY <1>2, AfterType DEF Halfway
  <2>5. cluster' \in Cluster
    BY <1>3, <2>1, <2>4
  <2> QED
    BY <1>4, <1>7, <2>3, <2>5 DEF GivesUp, Takes
<1> QED
  BY <1>5, <1>6, <1>7 DEF Apply

LEMMA StrayType ==
    ASSUME BaseTypeOK, NEW l \in Late, Arrives(l) \/ Vanishes(l)
    PROVE  BaseTypeOK'
<1>1. /\ stray \in [Late -> Calls] /\ request \in [Slot -> Requests] /\ cluster \in Cluster
      /\ broken \in BOOLEAN /\ missed \in BOOLEAN /\ NoCall \in Calls
  BY BaseTypeDef DEF Calls
<1>2. CASE Vanishes(l)
  <2>1. stray' \in [Late -> Calls]
    BY <1>1, <1>2 DEF Vanishes
  <2> QED
    BY <1>1, <1>2, <2>1, BaseTypeNext DEF Vanishes
<1>3. CASE Arrives(l)
  <2> DEFINE c == stray[l]
  <2>1. c \in Call
    BY <1>1, <1>3 DEF Arrives, Calls
  <2>2. /\ c.task \in Task /\ c.task.machine \in Machine /\ cluster[c.task.machine] \in State
        /\ [c EXCEPT !.next = 2] \in Calls
    BY <1>1, <2>1, OutcomeTypes DEF Call, Calls
  <2>3. After(c.op, c.task, c.next, cluster[c.task.machine]) \in State
    BY <2>2, AfterType
  <2>4. cluster' = [cluster EXCEPT ![c.task.machine] = After(c.op, c.task, c.next, cluster[c.task.machine])]
    BY <1>3 DEF Arrives
  <2>5. cluster' \in Cluster
    BY <1>1, <2>2, <2>3, <2>4 DEF Cluster
  <2>6. request' \in [Slot -> Requests]
    BY <1>1, <1>3, <2>2, RequestTypes DEF Arrives
  <2>7. stray' = [stray EXCEPT ![l] = NoCall] \/ stray' = [stray EXCEPT ![l] = [c EXCEPT !.next = 2]]
    BY <1>1, <1>3 DEF Arrives
  <2>8. stray' \in [Late -> Calls]
    BY <1>1, <2>2, <2>7
  <2> QED
    BY <1>1, <1>3, <2>5, <2>6, <2>8, BaseTypeNext DEF Arrives
<1> QED
  BY <1>2, <1>3

LEMMA UnbindType ==
    ASSUME NEW c \in Seen, NEW id \in RowId PROVE UnbindSet(c, id) \subseteq Machine
BY SeenType DEF UnbindSet, Clients

\* A lookup becomes a push that has done nothing yet.
LEMMA LookUpType ==
    ASSUME BaseTypeOK, NEW s \in Slot, LookUp(s)
    PROVE  \E r \in Push : r.todo = AssignTasks(r.saved) /\ request' = [request EXCEPT ![s] = r]
<1>1. request[s] \in Lookup
  BY BaseTypeDef, Kinds DEF LookUp
<1>2. request[s].id \in RowId /\ request[s].was \in Seen /\ request[s].heard \in BOOLEAN
  BY <1>1 DEF Lookup
<1> DEFINE push(S) == NewPush("unbind", [groups |-> {}, rest |-> S])
           r(S, F) == [push(S) EXCEPT !.failed = F, !.heard = request[s].heard]
<1>3. ASSUME NEW S \in SUBSET Machine, NEW F \in SUBSET RowId
      PROVE  r(S, F) \in Push /\ r(S, F).todo = AssignTasks(r(S, F).saved)
  <2>1. [groups |-> {}, rest |-> S] \in Assignment
    BY DEF Assignment
  <2>2. AssignTasks([groups |-> {}, rest |-> S]) \subseteq Task
    BY <2>1, TaskTypes
  <2>3. push(S) \in Push /\ push(S).todo = AssignTasks(push(S).saved)
    BY <2>1, <2>2, RequestTypes DEF PushOp, NewPush
  <2> HIDE DEF push
  <2> QED
    BY <1>2, <2>3 DEF Push
<1>4. /\ UnbindSet(request[s].was, request[s].id) \in SUBSET Machine
      /\ {} \in SUBSET Machine /\ {} \in SUBSET RowId /\ {request[s].id} \in SUBSET RowId
  BY <1>2, UnbindType
<1>5. \/ request' = [request EXCEPT ![s] = r(UnbindSet(request[s].was, request[s].id), {})]
      \/ request' = [request EXCEPT ![s] = r({}, {request[s].id})]
  BY DEF LookUp
<1> HIDE DEF r
<1> QED
  BY <1>3, <1>4, <1>5

LEMMA ReadType ==
    ASSUME BaseTypeOK, NEW s \in Slot, NEW m \in Machine, Read(s, m)
    PROVE  \E w \in Seen : /\ [request[s] EXCEPT !.was = w] \in Fetch \cup Lookup
                           /\ request' = [request EXCEPT ![s] = [request[s] EXCEPT !.was = w]]
<1>1. request[s] \in Fetch \cup Lookup /\ cluster[m] \in State
  BY BaseTypeDef, Kinds DEF Read, Cluster
<1> DEFINE old == request[s].was
           w == [n \in DOMAIN old \cup {m} |-> IF n = m THEN cluster[m] ELSE old[n]]
<1>2. old \in Seen
  BY <1>1 DEF Fetch, FetchOf, Lookup
<1>3. w \in [DOMAIN old \cup {m} -> State] /\ DOMAIN old \cup {m} \in SUBSET Machine
  BY <1>1, <1>2, SeenType
<1>4. w \in Seen
  BY <1>3, SeenType
<1>5. request' = [request EXCEPT ![s] = [request[s] EXCEPT !.was = w]]
  BY DEF Read
<1> HIDE DEF w
<1>6. [request[s] EXCEPT !.was = w] \in Fetch \cup Lookup
  BY <1>1, <1>4 DEF Fetch, FetchOf, Lookup
<1> QED
  BY <1>4, <1>5, <1>6

LEMMA BackEndType ==
    ASSUME BaseTypeOK, BackEnd
    PROVE  BaseTypeOK'
<1>1. request \in [Slot -> Requests] /\ cluster \in Cluster /\ broken \in BOOLEAN /\ missed \in BOOLEAN
  BY BaseTypeDef
<1>2. ASSUME NEW s \in Slot, NEW m \in Machine, Read(s, m) PROVE BaseTypeOK'
  <2>1. request' \in [Slot -> Requests]
    BY <1>1, <1>2, ReadType DEF Requests
  <2> QED
    BY <1>1, <1>2, <2>1, BaseTypeNext DEF Read
<1>3. ASSUME NEW s \in Slot, LookUp(s) PROVE BaseTypeOK'
  <2>1. request' \in [Slot -> Requests]
    BY <1>1, <1>3, LookUpType DEF Requests
  <2> QED
    BY <1>1, <1>3, <2>1, BaseTypeNext DEF LookUp
<1>4. ASSUME NEW s \in Slot, EndUnheard(s) PROVE BaseTypeOK'
  <2>1. request' \in [Slot -> Requests]
    BY <1>1, <1>4, RequestTypes DEF EndUnheard, Drop
  <2> QED
    BY <1>1, <1>4, <2>1, BaseTypeNext DEF EndUnheard
<1>5. ASSUME NEW s \in Slot, IsPush(request[s]), NEW t \in request[s].todo, Apply(s, t) PROVE BaseTypeOK'
  <2>1. t \in Task
    BY <1>1, <1>5, Kinds DEF Push
  <2> QED
    BY <1>1, <1>5, <2>1, ApplyType, BaseTypeNext
<1>6. ASSUME NEW s \in Slot, LoseAnswer(s) PROVE BaseTypeOK'
  <2>1. request' \in [Slot -> Requests]
    BY <1>1, <1>6, RequestTypes DEF LoseAnswer
  <2>2. missed' \in BOOLEAN
    BY <1>6 DEF LoseAnswer, IsFetch
  <2> QED
    BY <1>1, <1>6, <2>1, <2>2, BaseTypeNext DEF LoseAnswer
<1> QED
  BY <1>2, <1>3, <1>4, <1>5, <1>6, StrayType DEF BackEnd, Work

\* The assignment page keeps groups groups, and own servers machines.
LEMMA AnswerTypes ==
    ASSUME BaseTypeOK, NEW s \in Slot
    PROVE  /\ \A op \in FetchOp : Answered(s, op) =>
                 /\ request[s].was \in Seen
                 /\ op = "edit" => request[s].about \in RowId
                 /\ op = "state" => request[s].about \in Machine
           /\ (Drop(s) => request' \in [Slot -> Requests])
           /\ (Refused(s) => BaseTypeOK')
<1>1. request[s] \in Requests /\ request \in [Slot -> Requests]
  BY BaseTypeDef
<1>2. Drop(s) => request' \in [Slot -> Requests]
  BY <1>1, RequestTypes DEF Drop
<1>3. ASSUME NEW op \in FetchOp, Answered(s, op)
      PROVE  /\ request[s].was \in Seen
             /\ op = "edit" => request[s].about \in RowId
             /\ op = "state" => request[s].about \in Machine
  <2>1. request[s] \in Fetch
    BY <1>1, <1>3, Kinds DEF Answered, IsFetch
  <2> QED
    BY <1>3, <2>1 DEF Fetch, FetchOf, Answered
<1>4. Refused(s) => BaseTypeOK'
  BY <1>2, BaseTypeNext, BaseTypeDef DEF Refused
<1> QED
  BY <1>2, <1>3, <1>4

LEMMA ReplaceType ==
    ASSUME AssignTypeOK, OwnAreMachines(clusterMap),
           NEW g \in clusterMap, NEW h \in Group, h.id = g.id, h.own = g.own, Replace(g, h)
    PROVE  clusterMap' \subseteq Group /\ OwnAreMachines(clusterMap)'
BY DEF AssignTypeOK, OwnAreMachines, Replace

LEMMA AssignType ==
    ASSUME TypeInv, AssignNext
    PROVE  BaseTypeOK' /\ AssignTypeOK' /\ OwnAreMachines(clusterMap)'
<1>1. /\ BaseTypeOK /\ AssignTypeOK /\ OwnAreMachines(clusterMap)
      /\ clusterMap \subseteq Group /\ remaining \subseteq Machine
      /\ request \in [Slot -> Requests] /\ cluster \in Cluster
      /\ broken \in BOOLEAN /\ missed \in BOOLEAN
  BY BaseTypeDef DEF TypeInv, TypeOK, AssignTypeOK
<1>2. Edit /\ EditDone => BaseTypeOK'
  BY <1>1, BaseTypeNext DEF Edit, EditDone
<1>3. ASSUME NEW g \in clusterMap, NEW m \in Machine, MoveToServerGroup(g, m)
      PROVE  BaseTypeOK' /\ AssignTypeOK' /\ OwnAreMachines(clusterMap)'
  <2>1. [g EXCEPT !.clients = @ \cup {m}] \in Group
    BY <1>1 DEF Group
  <2>2. clusterMap' \subseteq Group /\ OwnAreMachines(clusterMap)'
    BY <1>1, <1>3, <2>1, ReplaceType DEF MoveToServerGroup, Group
  <2> QED
    BY <1>1, <1>2, <1>3, <2>2 DEF MoveToServerGroup, AssignTypeOK
<1>4. ASSUME NEW g \in clusterMap, NEW m \in Machine, MoveToRemainingSharePool(g, m)
      PROVE  BaseTypeOK' /\ AssignTypeOK' /\ OwnAreMachines(clusterMap)'
  <2>1. [g EXCEPT !.clients = @ \ {m}] \in Group
    BY <1>1 DEF Group
  <2>2. clusterMap' \subseteq Group /\ OwnAreMachines(clusterMap)'
    BY <1>1, <1>4, <2>1, ReplaceType DEF MoveToRemainingSharePool, Group
  <2> QED
    BY <1>1, <1>2, <1>4, <2>2 DEF MoveToRemainingSharePool, AssignTypeOK
<1>5. ASSUME NEW m \in Machine, AddToServerList(m)
      PROVE  BaseTypeOK' /\ AssignTypeOK' /\ OwnAreMachines(clusterMap)'
  <2> DEFINE g == [id |-> m, host |-> HostOf[m], port |-> DEFAULT_CLUSTER_SERVER_PORT,
                   clients |-> {}, own |-> TRUE]
  <2>1. g \in Group /\ g.own /\ g.id \in Machine
    BY HostAssumption, PortAssumption DEF Group, GroupId
  <2>2. clusterMap' = clusterMap \cup {g}
    BY <1>5 DEF AddToServerList
  <2> HIDE DEF g
  <2>3. OwnAreMachines(clusterMap)'
    BY <1>1, <2>1, <2>2 DEF OwnAreMachines
  <2> QED
    BY <1>1, <1>2, <1>5, <2>1, <2>2, <2>3 DEF AddToServerList, AssignTypeOK
<1>6. ASSUME NEW g \in clusterMap, RemoveFromServerList(g)
      PROVE  BaseTypeOK' /\ AssignTypeOK' /\ OwnAreMachines(clusterMap)'
  <2>1. g.clients \subseteq Machine /\ (g.own => g.id \in Machine)
    BY <1>1 DEF Group, OwnAreMachines
  <2>2. remaining' \subseteq Machine /\ clusterMap' \subseteq Group /\ OwnAreMachines(clusterMap)'
    BY <1>1, <1>6, <2>1 DEF RemoveFromServerList, OwnAreMachines
  <2> QED
    BY <1>2, <1>6, <2>2 DEF RemoveFromServerList, AssignTypeOK
<1>7. ASSUME NEW g \in clusterMap, NEW p \in Port, SetPort(g, p)
      PROVE  BaseTypeOK' /\ AssignTypeOK' /\ OwnAreMachines(clusterMap)'
  <2>1. [g EXCEPT !.port = p] \in Group
    BY <1>1 DEF Group
  <2>2. clusterMap' \subseteq Group /\ OwnAreMachines(clusterMap)'
    BY <1>1, <1>7, <2>1, ReplaceType DEF SetPort, Group
  <2> QED
    BY <1>1, <1>2, <1>7, <2>2 DEF SetPort, AssignTypeOK
<1>8. ASSUME NEW s \in Slot, SaveAndApplyAssign(s)
      PROVE  BaseTypeOK' /\ AssignTypeOK' /\ OwnAreMachines(clusterMap)'
  <2> DEFINE a == [groups |-> clusterMap, rest |-> remaining]
  <2>1. a \in Assignment /\ AssignTasks(a) \subseteq Task
    BY <1>1, TaskTypes DEF Assignment, OwnAreMachines
  <2>2. NewPush("assignAll", a) \in Requests
    BY <2>1, RequestTypes DEF PushOp, Requests
  <2>3. request' \in [Slot -> Requests]
    BY <1>1, <1>8, <2>2, SendType DEF SaveAndApplyAssign
  <2>4. BaseTypeOK'
    BY <1>1, <1>8, <2>3, BaseTypeNext DEF SaveAndApplyAssign, Edit
  <2> QED
    BY <1>1, <1>8, <2>4 DEF SaveAndApplyAssign, assign, AssignTypeOK, OwnAreMachines
<1>9. ASSUME NEW s \in Slot, RetrieveAnswered(s)
      PROVE  BaseTypeOK' /\ AssignTypeOK' /\ OwnAreMachines(clusterMap)'
  <2>1. CASE Refused(s) /\ UNCHANGED assign
    BY <1>1, <2>1, AnswerTypes DEF assign, AssignTypeOK, OwnAreMachines
  <2>2. CASE ~(Refused(s) /\ UNCHANGED assign)
    <3>1. request[s].was \in Seen
      BY <1>1, <1>9, AnswerTypes DEF RetrieveAnswered, FetchOp
    <3>2. BaseTypeOK'
      BY <1>1, <1>9, <2>2, AnswerTypes, BaseTypeNext DEF RetrieveAnswered
    <3>3. clusterMap' = ClusterMap(request[s].was) /\ remaining' = Remaining(request[s].was)
      BY <1>9, <2>2 DEF RetrieveAnswered
    <3> QED
      BY <3>1, <3>2, <3>3, ClusterMapType DEF AssignTypeOK, OwnAreMachines
  <2> QED
    BY <2>1, <2>2
<1>10. ASSUME NEW s \in Slot, SaveAnswered(s)
       PROVE  BaseTypeOK' /\ AssignTypeOK' /\ OwnAreMachines(clusterMap)'
  <2>1. NewFetch("list", NoMachine) \in Requests
    BY RequestTypes DEF Requests
  <2>2. BaseTypeOK'
    BY <1>1, <1>10, <2>1, BaseTypeNext DEF SaveAnswered
  <2> QED
    BY <1>1, <1>10, <2>2 DEF SaveAnswered, assign, AssignTypeOK, OwnAreMachines
<1> QED
  BY <1>3, <1>4, <1>5, <1>6, <1>7, <1>8, <1>9, <1>10 DEF AssignNext, AssignAnswer

\* The dialog stays a dialog.
LEMMA ReconciledType ==
    ASSUME NEW d \in Dialog, NEW S
    PROVE  /\ Reconciled(d, S) \in Dialog
           /\ Reconciled(d, S).server \in {d.server, NoMachine}
           /\ Reconciled(d, S) = d \/ d.type = "add"
           /\ Reconciled(d, S).own = d.own /\ Reconciled(d, S).type = d.type
           /\ Reconciled(d, S).clients = d.clients /\ Reconciled(d, S).open = d.open
           /\ Reconciled(d, S).touched = d.touched
<1>1. [d EXCEPT !.server = NoMachine] \in Dialog
  BY DEF Dialog
<1> QED
  BY <1>1 DEF Reconciled, Dialog

LEMMA DialogGroupType ==
    ASSUME TypeInv, dialog.server # NoMachine
    PROVE  /\ DialogGroup \in Group
           /\ DialogGroup.own => DialogGroup.id \in Machine
<1>1. /\ dialog.server \in GroupId /\ dialog.port \in Port /\ dialog.own \in BOOLEAN
      /\ dialog.own => dialog.server \in Machine
  BY DEF TypeInv, TypeOK, ServersTypeOK, Dialog, DialogOwn
<1>2. Set(dialog.clients) \subseteq Machine
  BY DEF Set
<1>3. DialogGroup.host \in Host
  <2>1. CASE dialog.server \in Machine /\ dialog.server \notin Host
    BY <2>1, HostAssumption DEF DialogGroup
  <2>2. CASE dialog.server \in Host
    BY <2>2, DisjointAssumption DEF DialogGroup
  <2>3. CASE dialog.server \notin Machine /\ dialog.server \notin Host
    BY <1>1, <2>3 DEF DialogGroup, GroupId, Address
  <2> QED
    BY <2>1, <2>2, <2>3
<1> QED
  BY <1>1, <1>2, <1>3 DEF DialogGroup, Group

LEMMA EditAnswerType ==
    ASSUME TypeInv, NEW c \in Seen, NEW g \in ServerGroups(c),
           dialog' = [type |-> "edit", server |-> g.id, own |-> g.id \in Machine,
                      port |-> g.port, clients |-> Once(g.clients),
                      open |-> dialog.open + 1, touched |-> FALSE]
    PROVE  dialog' \in Dialog /\ DialogOwn'
<1>1. g \in Group /\ g.id \in Machine \cup Address
  BY ServerListTypes
<1>2. Once(g.clients) \in Count /\ g.port \in Port
  BY <1>1, CountTypes DEF Group
<1>3. dialog.open + 1 \in Nat
  BY DEF TypeInv, TypeOK, ServersTypeOK, Dialog
<1>4. g.id \in GroupId \cup {NoMachine} /\ (g.id \in Machine) \in BOOLEAN /\ g.id # NoMachine
  BY <1>1, NoneAssumption DEF GroupId
<1> DEFINE b == g.id \in Machine
<1>5. dialog' = [type |-> "edit", server |-> g.id, own |-> b,
                 port |-> g.port, clients |-> Once(g.clients),
                 open |-> dialog.open + 1, touched |-> FALSE]
  OBVIOUS
<1>6. b \in BOOLEAN /\ (b => g.id \in Machine)
  OBVIOUS
<1> HIDE DEF b
<1> QED
  BY <1>2, <1>3, <1>4, <1>5, <1>6 DEF Dialog, DialogOwn

LEMMA FreshType ==
    ASSUME ServersFresh PROVE ServersTypeOK' /\ DialogOwn'
<1>1. Once({}) \in Count /\ NoDialog \in Dialog
  BY CountTypes
<1>2. NoDialog.own => NoDialog.server = NoMachine
  BY DEF NoDialog
<1>3. NoDialog.type # "edit"
  BY DEF NoDialog
<1>4. table' = {} /\ pool' = Once({}) /\ dialog' = NoDialog /\ unbinding' = NoMachine /\ late' = FALSE
  BY DEF ServersFresh
<1>5. ServersTypeOK'
  BY <1>1, <1>4 DEF ServersTypeOK
<1>6. DialogOwn'
  BY <1>2, <1>3, <1>4 DEF DialogOwn
<1> QED
  BY <1>5, <1>6

\* The requests of the server list page.
LEMMA ServersRequestType ==
    ASSUME TypeInv, ServersNext
    PROVE  BaseTypeOK'
<1>1. /\ BaseTypeOK /\ page \in Page /\ request \in [Slot -> Requests] /\ cluster \in Cluster
      /\ broken \in BOOLEAN /\ missed \in BOOLEAN
      /\ table \subseteq RowId /\ unbinding \in RowId \cup {NoMachine}
  BY BaseTypeDef DEF TypeInv, TypeOK, ServersTypeOK
<1>2. Click /\ UNCHANGED <<page, broken, cluster, request, stray, missed>> => BaseTypeOK'
  BY <1>1, BaseTypeNext
<1>3. \A s \in Slot : \A r \in Requests :
         Click /\ Send(s, r) /\ UNCHANGED <<page, broken, cluster, stray, missed>> => BaseTypeOK'
  BY <1>1, BaseTypeNext, SendType
<1>4. \A s \in Slot : Reload(s) /\ UNCHANGED <<page, cluster, stray, clicks>> => BaseTypeOK'
  BY <1>1, BaseTypeNext, ReloadType
<1>5. \A s \in Slot : Drop(s) /\ broken' \in BOOLEAN /\ UNCHANGED <<page, cluster, stray, clicks, missed>> => BaseTypeOK'
  BY <1>1, BaseTypeNext, AnswerTypes
<1>6. ASSUME NEW id \in table, NEW s \in Slot, ModifyServerAssignConfig(s, id) PROVE BaseTypeOK'
  <2>1. NewFetch("edit", id) \in Requests
    BY <1>1, RequestTypes DEF Requests
  <2> QED
    BY <1>3, <1>6, <2>1 DEF ModifyServerAssignConfig
<1>7. ASSUME NEW s \in Slot, ConfirmUnbind(s) PROVE BaseTypeOK'
  <2>1. [op |-> "lookup", id |-> unbinding, was |-> Nothing, heard |-> TRUE] \in Requests
    BY <1>1, <1>7, RequestTypes DEF ConfirmUnbind, Requests
  <2> QED
    BY <1>3, <1>7, <2>1 DEF ConfirmUnbind
<1>8. ASSUME NEW s \in Slot, NewServerDialog(s) PROVE BaseTypeOK'
  <2>1. NewFetch("list", NoMachine) \in Requests
    BY RequestTypes DEF Requests
  <2> QED
    BY <1>3, <1>8, <2>1 DEF NewServerDialog
<1>9. ASSUME NEW op \in PushOp, NEW rest \in SUBSET Machine, dialog.server # NoMachine
      PROVE  LET a == [groups |-> {DialogGroup}, rest |-> rest]
             IN  NewPush(op, a) \in Requests
  <2> DEFINE a == [groups |-> {DialogGroup}, rest |-> rest]
  <2>1. DialogGroup \in Group /\ (DialogGroup.own => DialogGroup.id \in Machine)
    BY <1>9, DialogGroupType
  <2>2. a \in Assignment
    BY <2>1 DEF Assignment
  <2>3. AssignTasks(a) \subseteq Task
    BY <2>1, <2>2, TaskTypes
  <2> QED
    BY <2>2, <2>3, RequestTypes DEF Requests
<1>10. ASSUME NEW s \in Slot, SaveNew(s) PROVE BaseTypeOK'
  <2>1. {m \in Set(pool) : notChosenServer(m)} \in SUBSET Machine
    BY DEF Set
  <2> QED
    BY <1>3, <1>9, <1>10, <2>1 DEF SaveNew, PushOp, Dialogs
<1>11. ASSUME NEW s \in Slot, SaveEdit(s) PROVE BaseTypeOK'
  <2>1. Set(pool) \in SUBSET Machine /\ dialog.server # NoMachine
    BY <1>11 DEF Set, SaveEdit, TypeInv, DialogOwn
  <2> QED
    BY <1>3, <1>9, <1>11, <2>1 DEF SaveEdit, PushOp, Dialogs
<1>12. ASSUME NEW s \in Slot, RetrieveServersAnswered(s) PROVE BaseTypeOK'
  BY <1>1, <1>5, <1>12, AnswerTypes DEF RetrieveServersAnswered
<1>13. ASSUME NEW s \in Slot, ListAnswered(s) PROVE BaseTypeOK'
  BY <1>1, <1>5, <1>13, AnswerTypes DEF ListAnswered
<1>14. ASSUME NEW s \in Slot, EditAnswered(s) PROVE BaseTypeOK'
  BY <1>1, <1>5, <1>14, AnswerTypes DEF EditAnswered
<1>15. ASSUME NEW s \in Slot, PushAnswered(s) PROVE BaseTypeOK'
  BY <1>4, <1>15 DEF PushAnswered
<1>16. ASSUME NEW s \in Slot, EditPushAnswered(s) PROVE BaseTypeOK'
  BY <1>1, <1>4, <1>5, <1>16 DEF EditPushAnswered
<1> QED
  BY <1>2, <1>6, <1>7, <1>8, <1>10, <1>11, <1>12, <1>13, <1>14, <1>15, <1>16
     DEF ServersNext, ServersAnswer, UnbindServer, CloseUnbind, ChooseServer, SetServerPort,
         MoveToServerClients, MoveToPool, CloseDialog, Dialogs

\* The variables of the server list page.
LEMMA ServersType ==
    ASSUME TypeInv, ServersNext
    PROVE  ServersTypeOK' /\ DialogOwn'
<1>1. /\ BaseTypeOK /\ ServersTypeOK /\ DialogOwn
      /\ table \subseteq RowId /\ unbinding \in RowId \cup {NoMachine}
      /\ pool \in Count /\ dialog \in Dialog /\ late \in BOOLEAN
  BY DEF TypeInv, TypeOK, ServersTypeOK
<1>2. UNCHANGED servers => ServersTypeOK' /\ DialogOwn'
  BY <1>1 DEF servers, ServersTypeOK, DialogOwn
<1>3. UNCHANGED <<table, unbinding>> /\ pool' \in Count /\ dialog' \in Dialog /\ late' \in BOOLEAN
      => ServersTypeOK'
  BY <1>1 DEF ServersTypeOK
<1>4. ASSUME UNCHANGED <<pool, dialog, late>>, table' \subseteq RowId,
             unbinding' \in RowId \cup {NoMachine}
      PROVE  ServersTypeOK' /\ DialogOwn'
  BY <1>1, <1>4 DEF ServersTypeOK, DialogOwn
<1>5. ASSUME NEW s \in Slot, NewServerDialog(s) PROVE ServersTypeOK' /\ DialogOwn'
  <2>1. [NoDialog EXCEPT !.type = "add", !.open = 1] \in Dialog
    BY CountTypes DEF Dialog
  <2>2. dialog'.type = "add" /\ dialog'.server = NoMachine
    BY <1>5 DEF NewServerDialog, NoDialog
  <2> QED
    BY <1>3, <1>5, <1>1, <2>1, <2>2 DEF NewServerDialog, DialogOwn
<1>6. ASSUME NEW id \in Machine \cup Host, ChooseServer(id) PROVE ServersTypeOK' /\ DialogOwn'
  <2> DEFINE b == id \in Machine
  <2>1. dialog' = [dialog EXCEPT !.server = id, !.own = b] /\ dialog.type = "add"
    BY <1>6 DEF ChooseServer
  <2>2. b \in BOOLEAN /\ (b => id \in Machine) /\ id \in GroupId
    BY DEF GroupId
  <2> HIDE DEF b
  <2>3. dialog' \in Dialog /\ DialogOwn'
    BY <1>1, <2>1, <2>2 DEF Dialog, DialogOwn
  <2> QED
    BY <1>1, <1>3, <1>6, <2>3 DEF ChooseServer
<1>7. ASSUME NEW p \in Port, SetServerPort(p) PROVE ServersTypeOK' /\ DialogOwn'
  <2>1. dialog' \in Dialog /\ DialogOwn'
    BY <1>1, <1>7 DEF SetServerPort, Dialog, DialogOwn
  <2> QED
    BY <1>1, <1>3, <1>7, <2>1 DEF SetServerPort
<1>8. ASSUME NEW m \in Machine, MoveToServerClients(m) PROVE ServersTypeOK' /\ DialogOwn'
  <2>1. Plus(dialog.clients, m) \in Count /\ Minus(pool, m) \in Count
    BY <1>1, <1>8, CountTypes DEF MoveToServerClients, Dialog
  <2>2. dialog' \in Dialog /\ DialogOwn'
    BY <1>1, <1>8, <2>1 DEF MoveToServerClients, Dialog, DialogOwn
  <2> QED
    BY <1>1, <1>3, <1>8, <2>1, <2>2 DEF MoveToServerClients
<1>9. ASSUME NEW m \in Machine, MoveToPool(m) PROVE ServersTypeOK' /\ DialogOwn'
  <2>1. Minus(dialog.clients, m) \in Count /\ Plus(pool, m) \in Count
    BY <1>1, <1>9, CountTypes DEF MoveToPool, Dialog
  <2>2. dialog' \in Dialog /\ DialogOwn'
    BY <1>1, <1>9, <2>1 DEF MoveToPool, Dialog, DialogOwn
  <2> QED
    BY <1>1, <1>3, <1>9, <2>1, <2>2 DEF MoveToPool
<1>10. ASSUME CloseDialog PROVE ServersTypeOK' /\ DialogOwn'
  <2>1. CASE dialog.open = 1
    <3>1. dialog' = NoDialog
      BY <1>10, <2>1 DEF CloseDialog
    <3>2. NoDialog.server = NoMachine /\ NoDialog.type # "edit"
      BY DEF NoDialog
    <3>3. dialog' \in Dialog /\ DialogOwn'
      BY <3>1, <3>2, CountTypes DEF DialogOwn
    <3> QED
      BY <1>1, <1>3, <1>10, <3>3 DEF CloseDialog
  <2>2. CASE dialog.open # 1
    <3>1. dialog' \in Dialog /\ DialogOwn'
      BY <1>1, <1>10, <2>2 DEF CloseDialog, Dialogs, Dialog, DialogOwn
    <3> QED
      BY <1>1, <1>3, <1>10, <3>1 DEF CloseDialog
  <2> QED
    BY <2>1, <2>2
<1>11. \A S \in SUBSET Machine : Once(S) \in Count
  BY CountTypes
<1>12. UnderDialog \in BOOLEAN
  BY DEF UnderDialog
<1>13. ASSUME NEW S \in SUBSET Machine, dialog' = Reconciled(dialog, S)
       PROVE  dialog' \in Dialog /\ DialogOwn'
  BY <1>1, <1>13, ReconciledType DEF DialogOwn
<1>14. ASSUME NEW s \in Slot, ListAnswered(s) PROVE ServersTypeOK' /\ DialogOwn'
  <2>1. PoolOf(request[s].was) \subseteq Machine
    BY <1>1, <1>14, AnswerTypes, ServerListTypes DEF ListAnswered, FetchOp
  <2>2. CASE UNCHANGED <<pool, dialog, late>>
    BY <1>1, <1>4, <1>14, <2>2 DEF ListAnswered
  <2>3. CASE ~UNCHANGED <<pool, dialog, late>>
    <3>1. /\ pool' = Once(PoolOf(request[s].was)) /\ late' = UnderDialog
          /\ dialog' = Reconciled(dialog, PoolOf(request[s].was))
      BY <1>14, <2>3 DEF ListAnswered
    <3> QED
      BY <1>3, <1>11, <1>12, <1>13, <1>14, <2>1, <3>1 DEF ListAnswered
  <2> QED
    BY <2>2, <2>3
<1>15. ASSUME NEW s \in Slot, EditAnswered(s) PROVE ServersTypeOK' /\ DialogOwn'
  <2>1. request[s].was \in Seen /\ PoolOf(request[s].was) \subseteq Machine
    BY <1>1, <1>15, AnswerTypes, ServerListTypes DEF EditAnswered, FetchOp
  <2>2. CASE UNCHANGED <<pool, dialog, late>>
    BY <1>1, <1>4, <1>15, <2>2 DEF EditAnswered
  <2>3. CASE ~UNCHANGED <<pool, dialog, late>>
    <3> DEFINE id == request[s].about
    <3>1. /\ pool' = Once(PoolOf(request[s].was)) /\ UNCHANGED <<table, unbinding>>
          /\ \/ dialog' = Reconciled(dialog, PoolOf(request[s].was)) /\ late' = UnderDialog
             \/ /\ \E g \in {h \in ServerGroups(request[s].was) : h.id = id} :
                      dialog' = [type |-> "edit", server |-> id, own |-> id \in Machine,
                                 port |-> g.port, clients |-> Once(g.clients),
                                 open |-> dialog.open + 1, touched |-> FALSE]
                /\ late' = FALSE
      BY <1>15, <2>3 DEF EditAnswered
    <3>2. CASE dialog' = Reconciled(dialog, PoolOf(request[s].was)) /\ late' = UnderDialog
      BY <1>3, <1>11, <1>12, <1>13, <2>1, <3>1, <3>2
    <3>3. CASE late' = FALSE /\ \E g \in {h \in ServerGroups(request[s].was) : h.id = id} :
                      dialog' = [type |-> "edit", server |-> id, own |-> id \in Machine,
                                 port |-> g.port, clients |-> Once(g.clients),
                                 open |-> dialog.open + 1, touched |-> FALSE]
      <4>1. dialog' \in Dialog /\ DialogOwn'
        BY <2>1, <3>3, EditAnswerType
      <4> QED
        BY <1>3, <1>11, <2>1, <3>1, <3>3, <4>1
    <3> QED
      BY <3>1, <3>2, <3>3
  <2> QED
    BY <2>2, <2>3
<1>16. ASSUME NEW s \in Slot, RetrieveServersAnswered(s) PROVE ServersTypeOK' /\ DialogOwn'
  <2>1. table' \subseteq RowId
    BY <1>1, <1>16, AnswerTypes, ServerListTypes DEF RetrieveServersAnswered, FetchOp
  <2> QED
    BY <1>1, <1>4, <1>16, <2>1 DEF RetrieveServersAnswered
<1>17. ASSUME NEW s \in Slot, PushAnswered(s) \/ EditPushAnswered(s) PROVE ServersTypeOK' /\ DialogOwn'
  BY <1>2, <1>17, FreshType DEF PushAnswered, EditPushAnswered, servers
<1>18. ASSUME NEW id \in table, UnbindServer(id) PROVE ServersTypeOK' /\ DialogOwn'
  BY <1>1, <1>4, <1>18 DEF UnbindServer
<1>19. CloseUnbind => ServersTypeOK' /\ DialogOwn'
  BY <1>1, <1>4 DEF CloseUnbind
<1>20. \A s \in Slot : ConfirmUnbind(s) \/ SaveNew(s) \/ SaveEdit(s) => ServersTypeOK' /\ DialogOwn'
  BY <1>2 DEF ConfirmUnbind, SaveNew, SaveEdit
<1>21. \A id \in table, s \in Slot : ModifyServerAssignConfig(s, id) => ServersTypeOK' /\ DialogOwn'
  BY <1>2 DEF ModifyServerAssignConfig
<1> QED
  BY <1>5, <1>6, <1>7, <1>8, <1>9, <1>10, <1>14, <1>15, <1>16, <1>17, <1>18, <1>19, <1>20, <1>21
     DEF ServersNext, ServersAnswer

\* The pages of one machine.
LEMMA ModifyType ==
    ASSUME BaseTypeOK, NEW s \in Slot, NEW m \in Machine, NEW mode \in {"server", "client"},
           NEW at \in Address, Modify(s, m, mode, at)
    PROVE  request' \in [Slot -> Requests]
<1> DEFINE g == [id |-> IF mode = "server" THEN m ELSE at, host |-> at.host, port |-> at.port,
                 clients |-> IF mode = "client" THEN {m} ELSE {}, own |-> mode = "server"]
           a == [groups |-> {g}, rest |-> {}]
<1>1. g \in Group /\ (g.own => g.id \in Machine)
  <2>1. CASE mode = "server"
    BY <2>1 DEF Group, GroupId, Address
  <2>2. CASE mode = "client"
    BY <2>2 DEF Group, GroupId, Address
  <2> QED
    BY <2>1, <2>2
<1>2. Send(s, NewPush("modify", a))
  BY DEF Modify
<1> HIDE DEF g
<1>3. a \in Assignment /\ AssignTasks(a) \subseteq Task
  BY <1>1, TaskTypes DEF Assignment
<1>4. NewPush("modify", a) \in Requests
  BY <1>3, RequestTypes DEF PushOp, Requests
<1> QED
  BY <1>2, <1>4, SendType, BaseTypeDef

LEMMA FreshSingleType ==
    ASSUME SingleFresh, TokensFresh PROVE SingleTypeOK'
BY DEF SingleFresh, TokensFresh, SingleTypeOK

LEMMA SingleType ==
    ASSUME TypeInv, SingleNext
    PROVE  BaseTypeOK' /\ SingleTypeOK'
<1>1. /\ BaseTypeOK /\ SingleTypeOK /\ page \in Page
      /\ request \in [Slot -> Requests] /\ cluster \in Cluster
      /\ broken \in BOOLEAN /\ missed \in BOOLEAN
      /\ mac \in Machine \cup {NoMachine} /\ stateVO \in StateVO \cup {NoState}
      /\ options \in (SUBSET Machine) \cup {NoMachine}
      /\ rows \subseteq Row /\ ccDialog \in Row \cup {NoConfig}
  BY BaseTypeDef DEF TypeInv, TypeOK, SingleTypeOK
<1>2. UNCHANGED <<single, tokens>> => SingleTypeOK'
  BY <1>1 DEF single, tokens, SingleTypeOK
<1>3. UNCHANGED tokens /\ mac' \in Machine \cup {NoMachine} /\ stateVO' \in StateVO \cup {NoState}
      /\ options' \in (SUBSET Machine) \cup {NoMachine} => SingleTypeOK'
  BY <1>1 DEF tokens, SingleTypeOK
<1>4. UNCHANGED single /\ rows' \subseteq Row /\ ccDialog' \in Row \cup {NoConfig} => SingleTypeOK'
  BY <1>1 DEF single, SingleTypeOK
<1>5. \A m \in Machine : NewFetch("state", m) \in Requests
  BY RequestTypes DEF Requests
<1>6. ASSUME NEW s \in Slot, NEW m \in Machine \cup {NoMachine}, Watch(s, m)
      PROVE  mac' \in Machine \cup {NoMachine} /\ request' \in [Slot -> Requests]
  BY <1>1, <1>5, <1>6 DEF Watch
<1>7. ASSUME NEW s \in Slot, NEW m \in Machine, SelectMachine(s, m) PROVE BaseTypeOK' /\ SingleTypeOK'
  BY <1>1, <1>3, <1>6, <1>7, BaseTypeNext DEF SelectMachine
<1>8. ASSUME NEW s \in Slot, NEW S \in SUBSET Machine, Search(s, S) PROVE BaseTypeOK' /\ SingleTypeOK'
  <2>1. PICK m \in (IF S = {} THEN {NoMachine} ELSE S) : Watch(s, m)
    BY <1>8 DEF Search
  <2>2. m \in Machine \cup {NoMachine}
    OBVIOUS
  <2> QED
    BY <1>1, <1>3, <1>6, <1>8, <2>1, <2>2, BaseTypeNext DEF Search
<1>9. ASSUME NEW s \in Slot, MachinesAnswered(s) PROVE BaseTypeOK' /\ SingleTypeOK'
  <2>1. request' \in [Slot -> Requests]
    BY <1>1, <1>5, <1>9, AnswerTypes DEF MachinesAnswered
  <2>2. mac' \in Machine \cup {NoMachine} /\ options' \in (SUBSET Machine) \cup {NoMachine}
    BY <1>1, <1>9 DEF MachinesAnswered
  <2> QED
    BY <1>1, <1>3, <1>9, <2>1, <2>2, BaseTypeNext DEF MachinesAnswered
<1>10. ASSUME NEW s \in Slot, StateAnswered(s) PROVE BaseTypeOK' /\ SingleTypeOK'
  <2>1. request[s].was \in Seen
    BY <1>1, <1>10, AnswerTypes DEF StateAnswered, FetchOp
  <2>2. missed' \in BOOLEAN /\ broken' \in BOOLEAN /\ request' \in [Slot -> Requests]
    BY <1>1, <1>10, AnswerTypes DEF StateAnswered, Overtakes
  <2>3. request[s].about \in Machine
    BY <1>1, <1>10, AnswerTypes DEF StateAnswered, FetchOp
  <2>4. stateVO' \in StateVO \cup {NoState}
    BY <1>10, <2>1, <2>3, SeenType DEF StateAnswered, StateVO
  <2> QED
    BY <1>1, <1>3, <1>10, <2>2, <2>4, BaseTypeNext DEF StateAnswered
<1>11. ASSUME NEW mode \in {"server", "client"}, NEW a \in Address, EditState(mode, a)
       PROVE  BaseTypeOK' /\ SingleTypeOK'
  <2>1. stateVO \in StateVO /\ a.port \in Port
    BY <1>1, <1>11 DEF EditState, Address
  <2>2. stateVO' \in StateVO
    BY <1>11, <2>1 DEF EditState, StateVO, State
  <2> QED
    BY <1>1, <1>3, <1>11, <2>2, BaseTypeNext DEF EditState
<1>12. ASSUME NEW s \in Slot, SaveConfig(s) PROVE BaseTypeOK' /\ SingleTypeOK'
  <2>1. stateVO \in StateVO /\ mac \in Machine
    BY <1>1, <1>12 DEF SaveConfig
  <2>2. stateVO.conf.target \in Address \cup {NoAddress} /\ stateVO.conf.port \in Port
    BY <2>1 DEF StateVO, State
  <2>3. [host |-> HostOf[mac], port |-> stateVO.conf.port] \in Address
    BY <2>1, <2>2, HostAssumption DEF Address
  <2>4. request' \in [Slot -> Requests]
    BY <1>1, <1>12, <2>1, <2>2, <2>3, ModifyType DEF SaveConfig
  <2> QED
    BY <1>1, <1>2, <1>12, <2>4, BaseTypeNext DEF SaveConfig
<1>13. ASSUME NEW s \in Slot, ModifyAnswered(s) PROVE BaseTypeOK' /\ SingleTypeOK'
  <2>1. request' \in [Slot -> Requests] /\ broken' \in BOOLEAN /\ missed' \in BOOLEAN
    BY <1>1, <1>13, AnswerTypes, ReloadType DEF ModifyAnswered
  <2>2. SingleTypeOK'
    BY <1>2, <1>13, FreshSingleType DEF ModifyAnswered
  <2> QED
    BY <1>1, <1>13, <2>1, <2>2, BaseTypeNext DEF ModifyAnswered
<1>14. ASSUME NEW s \in Slot, RetrieveClientsAnswered(s) PROVE BaseTypeOK' /\ SingleTypeOK'
  <2>1. request[s].was \in Seen
    BY <1>1, <1>14, AnswerTypes DEF RetrieveClientsAnswered, FetchOp
  <2>2. rows' \subseteq Row
    <3>1. \A m \in Clients(request[s].was) : m \in Machine /\ request[s].was[m] \in State
      BY <2>1, SeenType DEF Clients
    <3> QED
      BY <1>14, <3>1 DEF RetrieveClientsAnswered, Row, State
  <2>3. BaseTypeOK'
    BY <1>1, <1>14, AnswerTypes, BaseTypeNext DEF RetrieveClientsAnswered
  <2> QED
    BY <1>1, <1>4, <1>14, <2>2, <2>3 DEF RetrieveClientsAnswered
<1>15. ASSUME NEW r \in rows, ModifyClientConfigDialog(r) PROVE BaseTypeOK' /\ SingleTypeOK'
  BY <1>1, <1>4, <1>15, BaseTypeNext DEF ModifyClientConfigDialog
<1>16. ASSUME NEW a \in Address, EditClientConfig(a) PROVE BaseTypeOK' /\ SingleTypeOK'
  <2>1. ccDialog' \in Row
    BY <1>1, <1>16 DEF EditClientConfig, Row
  <2> QED
    BY <1>1, <1>4, <1>16, <2>1, BaseTypeNext DEF EditClientConfig
<1>17. ASSUME NEW s \in Slot, DoModifyClientConfig(s) PROVE BaseTypeOK' /\ SingleTypeOK'
  <2>1. ccDialog.machine \in Machine /\ ccDialog.target \in Address
    BY <1>1, <1>17 DEF DoModifyClientConfig, Row
  <2>2. request' \in [Slot -> Requests]
    BY <1>1, <1>17, <2>1, ModifyType DEF DoModifyClientConfig
  <2> QED
    BY <1>1, <1>2, <1>17, <2>2, BaseTypeNext DEF DoModifyClientConfig
<1>18. CloseClientConfig => BaseTypeOK' /\ SingleTypeOK'
  BY <1>1, <1>4, BaseTypeNext DEF CloseClientConfig
<1> QED
  BY <1>7, <1>8, <1>9, <1>10, <1>11, <1>12, <1>13, <1>14, <1>15, <1>16, <1>17, <1>18
     DEF SingleNext, SingleAnswer

LEMMA ReloadPageType ==
    ASSUME TypeInv, NEW s \in Slot, ReloadPage(s)
    PROVE  TypeInv'
<1>1. BaseTypeOK /\ page \in Page /\ cluster \in Cluster /\ request \in [Slot -> Requests]
  BY BaseTypeDef DEF TypeInv, TypeOK
<1>2. BaseTypeOK'
  BY <1>1, BaseTypeNext, ReloadType DEF ReloadPage
<1>3. AssignTypeOK' /\ OwnAreMachines(clusterMap)'
  BY DEF ReloadPage, AssignFresh, AssignTypeOK, OwnAreMachines
<1> QED
  BY <1>2, <1>3, FreshType, FreshSingleType DEF ReloadPage, TypeInv, TypeOK

LEMMA TypeStep == TypeInv /\ [Next]_vars => TypeInv'
<1> SUFFICES ASSUME TypeInv, [Next]_vars PROVE TypeInv'
  OBVIOUS
<1>1. /\ BaseTypeOK /\ AssignTypeOK /\ ServersTypeOK /\ SingleTypeOK
      /\ OwnAreMachines(clusterMap) /\ DialogOwn
  BY DEF TypeInv, TypeOK
<1>2. UNCHANGED assign => AssignTypeOK' /\ OwnAreMachines(clusterMap)'
  BY <1>1 DEF assign, AssignTypeOK, OwnAreMachines
<1>3. UNCHANGED servers => ServersTypeOK' /\ DialogOwn'
  BY <1>1 DEF servers, ServersTypeOK, DialogOwn
<1>4. UNCHANGED <<single, tokens>> => SingleTypeOK'
  BY <1>1 DEF single, tokens, SingleTypeOK
<1>5. CASE BackEnd /\ UNCHANGED <<assign, servers, single, tokens>>
  BY <1>1, <1>2, <1>3, <1>4, <1>5, BackEndType DEF TypeInv, TypeOK
<1>6. CASE AssignNext /\ UNCHANGED <<servers, single, tokens>>
  BY <1>3, <1>4, <1>6, AssignType DEF TypeInv, TypeOK
<1>7. CASE ServersNext /\ UNCHANGED <<assign, single, tokens>>
  BY <1>2, <1>4, <1>7, ServersType, ServersRequestType DEF TypeInv, TypeOK
<1>8. CASE SingleNext /\ UNCHANGED <<assign, servers>>
  BY <1>2, <1>3, <1>8, SingleType DEF TypeInv, TypeOK
<1>9. CASE UNCHANGED vars
  <2>1. BaseTypeOK'
    BY <1>1, <1>9 DEF vars, base, BaseTypeOK
  <2> QED
    BY <1>2, <1>3, <1>4, <1>9, <2>1 DEF vars, TypeInv, TypeOK
<1> QED
  BY <1>5, <1>6, <1>7, <1>8, <1>9, ReloadPageType DEF Next

LEMMA TypeInvHolds == Spec => []TypeInv
BY TypeInit, TypeStep, PTL DEF Spec

\* Machines, requests, the assignment and the dialogs keep their shapes.
THEOREM TypeCorrect == Spec => []TypeOK
<1>1. TypeInv => TypeOK
  BY DEF TypeInv
<1> QED
  BY <1>1, TypeInvHolds, PTL

-----------------------------------------------------------------------------
(* One role for each machine *)

PlacedIn(G, R) ==
    /\ \A g \in G : /\ g.id \notin R
                    /\ g.clients \cap R = {}
                    /\ \A h \in G : g.id \notin h.clients
    /\ \A g, h \in G : g # h => g.id # h.id /\ g.clients \cap h.clients = {}

LEMMA PlacedDef == Placed <=> PlacedIn(clusterMap, remaining)
BY DEF Placed, PlacedIn

\* The lists made of any states of the machines have each machine once.
LEMMA ClusterMapPlaced ==
    ASSUME NEW c \in Seen
    PROVE  PlacedIn(ClusterMap(c), Remaining(c))
<1> DEFINE local == {m \in DOMAIN c : ModeOf(c, m) = "server"}
           first(h) == CHOOSE m \in local : HostOf[m] = h
           of(h) == {m \in Bound(c) : c[m].target.host = h}
           hosts == {HostOf[m] : m \in local}
           elsewhere == {c[m].target.host : m \in Bound(c)} \ hosts
           near(h) == [id |-> first(h), host |-> h, port |-> c[first(h)].port,
                       clients |-> of(h), own |-> TRUE]
           far(h)  == [id |-> h, host |-> h, port |-> ElsewherePort(c, of(h)),
                       clients |-> of(h), own |-> FALSE]
<1>1. ClusterMap(c) = {near(h) : h \in hosts} \cup {far(h) : h \in elsewhere}
  BY DEF ClusterMap
<1>2. Remaining(c) \cap local = {} /\ Remaining(c) \cap Bound(c) = {} /\ Remaining(c) \subseteq Machine
  BY SeenType DEF Remaining
<1>3. local \cap Bound(c) = {} /\ Bound(c) \subseteq Machine /\ local \subseteq Machine
  BY SeenType DEF Bound
<1>4. \A h \in hosts : first(h) \in local /\ HostOf[first(h)] = h
  <2> TAKE h \in hosts
  <2> QED
    OBVIOUS
<1>5. hosts \cap elsewhere = {} /\ \A h \in elsewhere : h \in Host
  BY SeenType DEF Bound, State, Address
<1>6. \A h : of(h) \subseteq Bound(c)
  OBVIOUS
<1>7. \A h, k : h # k => of(h) \cap of(k) = {}
  OBVIOUS
<1>8. \A h \in hosts : near(h).id = first(h) /\ near(h).host = h /\ near(h).clients = of(h)
  OBVIOUS
<1>9. \A h \in elsewhere : far(h).id = h /\ far(h).host = h /\ far(h).clients = of(h)
  OBVIOUS
<1> HIDE DEF local, first, of, hosts, elsewhere, near, far
<1>10. ASSUME NEW g \in ClusterMap(c)
       PROVE  /\ g.clients = of(g.host)
              /\ \/ g.host \in hosts /\ g = near(g.host) /\ g.id \in local /\ HostOf[g.id] = g.host
                 \/ g.host \in elsewhere /\ g = far(g.host) /\ g.id = g.host /\ g.id \in Host
  BY <1>1, <1>4, <1>5, <1>8, <1>9
<1>11. ASSUME NEW g \in ClusterMap(c)
       PROVE  g.id \notin Remaining(c) /\ g.clients \cap Remaining(c) = {}
              /\ \A h \in ClusterMap(c) : g.id \notin h.clients
  BY <1>2, <1>3, <1>6, <1>10, DisjointAssumption
<1>12. ASSUME NEW g \in ClusterMap(c), NEW h \in ClusterMap(c), g # h
       PROVE  g.id # h.id /\ g.clients \cap h.clients = {}
  <2>1. g.host # h.host
    BY <1>5, <1>10, <1>12
  <2> QED
    BY <1>3, <1>7, <1>10, <2>1, DisjointAssumption
<1> QED
  BY <1>11, <1>12 DEF PlacedIn

\* A group is changed where it stands.
LEMMA PlacedStep ==
    ASSUME TypeInv, Placed, [Next]_vars
    PROVE  Placed'
<1>1. /\ BaseTypeOK /\ clusterMap \subseteq Group /\ remaining \subseteq Machine
      /\ OwnAreMachines(clusterMap)
  BY DEF TypeInv, TypeOK, AssignTypeOK
<1>2. UNCHANGED assign => Placed'
  BY DEF assign, Placed
<1>3. ASSUME NEW g \in clusterMap, NEW m \in Machine, MoveToServerGroup(g, m) PROVE Placed'
  <2> DEFINE h == [g EXCEPT !.clients = @ \cup {m}]
  <2>1. h.id = g.id /\ h.clients = g.clients \cup {m}
    BY <1>1 DEF Group
  <2>2. clusterMap' = (clusterMap \ {g}) \cup {h} /\ remaining' = remaining \ {m} /\ m \in remaining
    BY <1>3 DEF MoveToServerGroup, Replace
  <2> HIDE DEF h
  <2> QED
    BY <2>1, <2>2 DEF Placed
<1>4. ASSUME NEW g \in clusterMap, NEW m \in Machine, MoveToRemainingSharePool(g, m) PROVE Placed'
  <2> DEFINE h == [g EXCEPT !.clients = @ \ {m}]
  <2>1. h.id = g.id /\ h.clients = g.clients \ {m}
    BY <1>1 DEF Group
  <2>2. clusterMap' = (clusterMap \ {g}) \cup {h} /\ remaining' = remaining \cup {m} /\ m \in g.clients
    BY <1>4 DEF MoveToRemainingSharePool, Replace
  <2> HIDE DEF h
  <2> QED
    BY <2>1, <2>2 DEF Placed
<1>5. ASSUME NEW m \in Machine, AddToServerList(m) PROVE Placed'
  <2> DEFINE g == [id |-> m, host |-> HostOf[m], port |-> DEFAULT_CLUSTER_SERVER_PORT,
                   clients |-> {}, own |-> TRUE]
  <2>1. g.id = m /\ g.clients = {}
    OBVIOUS
  <2>2. clusterMap' = clusterMap \cup {g} /\ remaining' = remaining \ {m} /\ m \in remaining
    BY <1>5 DEF AddToServerList
  <2> HIDE DEF g
  <2> QED
    BY <2>1, <2>2 DEF Placed
<1>6. ASSUME NEW g \in clusterMap, RemoveFromServerList(g) PROVE Placed'
  <2>1. /\ clusterMap' = clusterMap \ {g}
        /\ remaining' = remaining \cup g.clients \cup (IF g.own THEN {g.id} ELSE {})
    BY <1>6 DEF RemoveFromServerList
  <2> QED
    BY <2>1 DEF Placed
<1>7. ASSUME NEW g \in clusterMap, NEW p \in Port, SetPort(g, p) PROVE Placed'
  <2> DEFINE h == [g EXCEPT !.port = p]
  <2>1. h.id = g.id /\ h.clients = g.clients
    BY <1>1 DEF Group
  <2>2. clusterMap' = (clusterMap \ {g}) \cup {h} /\ remaining' = remaining
    BY <1>7 DEF SetPort, Replace
  <2> HIDE DEF h
  <2> QED
    BY <2>1, <2>2 DEF Placed
<1>8. ASSUME NEW s \in Slot, RetrieveAnswered(s) PROVE Placed'
  <2>1. CASE UNCHANGED assign
    BY <1>2, <2>1
  <2>2. CASE ~UNCHANGED assign
    <3>1. request[s].was \in Seen
      BY <1>1, <1>8, AnswerTypes DEF RetrieveAnswered, FetchOp
    <3>2. clusterMap' = ClusterMap(request[s].was) /\ remaining' = Remaining(request[s].was)
      BY <1>8, <2>2 DEF RetrieveAnswered
    <3>3. PlacedIn(clusterMap', remaining')
      BY <3>1, <3>2, ClusterMapPlaced
    <3> QED
      BY <3>3 DEF Placed, PlacedIn
  <2> QED
    BY <2>1, <2>2
<1>9. \A s \in Slot : SaveAndApplyAssign(s) \/ SaveAnswered(s) => Placed'
  BY <1>2 DEF SaveAndApplyAssign, SaveAnswered
<1>10. AssignNext => Placed'
  BY <1>3, <1>4, <1>5, <1>6, <1>7, <1>8, <1>9 DEF AssignNext, AssignAnswer
<1>11. \A s \in Slot : ReloadPage(s) => Placed'
  BY DEF ReloadPage, AssignFresh, Placed
<1> QED
  BY <1>2, <1>10, <1>11 DEF Next, vars

\* What is pushed gives each machine one role.
THEOREM OneRoleEach == Spec => []Placed
<1>1. Init => Placed
  BY DEF Init, AssignInit, Placed
<1>2. TypeInv /\ Placed /\ [Next]_vars => Placed'
  BY PlacedStep
<1> QED
  BY <1>1, <1>2, TypeInvHolds, PTL DEF Spec

-----------------------------------------------------------------------------
(* No machine is forgotten *)

LEMMA KeepStep ==
    ASSUME TypeInv, Next, clicks' # clicks, assign' # <<{}, {}>>
    PROVE  Listed' = Listed
<1>1. /\ clusterMap \subseteq Group /\ remaining \subseteq Machine
      /\ OwnAreMachines(clusterMap)
  BY DEF TypeInv, TypeOK, AssignTypeOK
<1>2. UNCHANGED assign => Listed' = Listed
  BY DEF assign, Listed
<1>3. ASSUME NEW g \in clusterMap, NEW m \in Machine, MoveToServerGroup(g, m) PROVE Listed' = Listed
  <2> DEFINE h == [g EXCEPT !.clients = @ \cup {m}]
  <2>1. h.id = g.id /\ h.clients = g.clients \cup {m}
    BY <1>1 DEF Group
  <2>2. clusterMap' = (clusterMap \ {g}) \cup {h} /\ remaining' = remaining \ {m} /\ m \in remaining
    BY <1>3 DEF MoveToServerGroup, Replace
  <2> HIDE DEF h
  <2> QED
    BY <2>1, <2>2 DEF Listed
<1>4. ASSUME NEW g \in clusterMap, NEW m \in Machine, MoveToRemainingSharePool(g, m)
      PROVE  Listed' = Listed
  <2> DEFINE h == [g EXCEPT !.clients = @ \ {m}]
  <2>1. h.id = g.id /\ h.clients = g.clients \ {m}
    BY <1>1 DEF Group
  <2>2. clusterMap' = (clusterMap \ {g}) \cup {h} /\ remaining' = remaining \cup {m} /\ m \in g.clients
    BY <1>4 DEF MoveToRemainingSharePool, Replace
  <2> HIDE DEF h
  <2> QED
    BY <2>1, <2>2 DEF Listed
<1>5. ASSUME NEW m \in Machine, AddToServerList(m) PROVE Listed' = Listed
  <2> DEFINE g == [id |-> m, host |-> HostOf[m], port |-> DEFAULT_CLUSTER_SERVER_PORT,
                   clients |-> {}, own |-> TRUE]
  <2>1. g.id = m /\ g.clients = {}
    OBVIOUS
  <2>2. clusterMap' = clusterMap \cup {g} /\ remaining' = remaining \ {m} /\ m \in remaining
    BY <1>5 DEF AddToServerList
  <2> HIDE DEF g
  <2> QED
    BY <2>1, <2>2 DEF Listed
<1>6. ASSUME NEW g \in clusterMap, RemoveFromServerList(g) PROVE Listed' = Listed
  <2>1. /\ clusterMap' = clusterMap \ {g}
        /\ remaining' = remaining \cup g.clients \cup (IF g.own THEN {g.id} ELSE {})
    BY <1>6 DEF RemoveFromServerList
  <2>2. (IF g.own THEN {g.id} ELSE {}) = {g.id} \cap Machine
    BY <1>1 DEF OwnAreMachines
  <2> QED
    BY <2>1, <2>2 DEF Listed
<1>7. ASSUME NEW g \in clusterMap, NEW p \in Port, SetPort(g, p) PROVE Listed' = Listed
  <2> DEFINE h == [g EXCEPT !.port = p]
  <2>1. h.id = g.id /\ h.clients = g.clients
    BY <1>1 DEF Group
  <2>2. clusterMap' = (clusterMap \ {g}) \cup {h} /\ remaining' = remaining
    BY <1>7 DEF SetPort, Replace
  <2> HIDE DEF h
  <2> QED
    BY <2>1, <2>2 DEF Listed
<1>8. \A s \in Slot : SaveAndApplyAssign(s) => Listed' = Listed
  BY <1>2 DEF SaveAndApplyAssign
<1>9. \A s \in Slot : ~RetrieveAnswered(s) /\ ~SaveAnswered(s)
  BY DEF RetrieveAnswered, SaveAnswered, Refused
<1>10. AssignNext => Listed' = Listed
  BY <1>3, <1>4, <1>5, <1>6, <1>7, <1>8, <1>9 DEF AssignNext, AssignAnswer
<1>11. \A s \in Slot : ~ReloadPage(s)
  BY DEF ReloadPage, AssignFresh, assign
<1> QED
  BY <1>2, <1>10, <1>11 DEF Next

\* Through any sequence of edits every machine stays on the page.
THEOREM EditsForgetNone == Spec => EditsKeepMachines
<1>1. TypeInv /\ [Next]_vars => [clicks' # clicks /\ assign' # <<{}, {}>> => Listed' = Listed]_<<clicks, assign>>
  <2>1. UNCHANGED vars => UNCHANGED <<clicks, assign>>
    BY DEF vars, base
  <2> QED
    BY <2>1, KeepStep
<1> QED
  BY <1>1, TypeInvHolds, PTL DEF Spec, EditsKeepMachines

-----------------------------------------------------------------------------
(* The dialog of the server list *)

\* DialogPlaced holds whether a dialog is open or not, and a server that is
\* changed is not in the pool either.
DialogInv ==
    /\ dialog.open = 0 => dialog = NoDialog
    /\ dialog.open > 0 => dialog.type # "none"
    /\ dialog.type = "add" /\ ~dialog.touched => dialog.clients = Once({})
    /\ ~late => /\ \A m \in Machine : pool[m] + dialog.clients[m] <= 1
                /\ dialog.server \in Machine =>
                     /\ dialog.clients[dialog.server] = 0
                     /\ dialog.type = "edit" => pool[dialog.server] = 0

LEMMA DialogFacts ==
    ASSUME TypeInv
    PROVE  /\ ServersTypeOK /\ dialog \in Dialog /\ pool \in Count /\ late \in BOOLEAN
           /\ dialog.open \in Nat /\ dialog.clients \in Count
           /\ \A m \in Machine : pool[m] \in Nat /\ dialog.clients[m] \in Nat
BY DEF TypeInv, TypeOK, ServersTypeOK, Dialog, Count

\* A list of machines, and a group of servers of the same answer, have no
\* machine in common.
LEMMA ServerGroupPlaced ==
    ASSUME NEW c \in Seen, NEW g \in ServerGroups(c)
    PROVE  /\ g.clients \cap PoolOf(c) = {} /\ g.clients \subseteq Machine
           /\ g.id \in Machine => g.id \notin g.clients /\ g.id \notin PoolOf(c)
<1> DEFINE own == {m \in DOMAIN c : ListModeOf(c, m) = "server"}
           at(m) == [host |-> HostOf[m], port |-> c[m].port]
           bound == {m \in DOMAIN c : ListModeOf(c, m) = "client" /\ c[m].target # NoAddress}
           of(a) == {m \in bound : c[m].target = a}
           last(a) == CHOOSE m \in own : at(m) = a
           elsewhere == {c[m].target : m \in bound} \ {at(m) : m \in own}
           row(m) == [id |-> m, host |-> HostOf[m], port |-> c[m].port,
                      clients |-> IF m = last(at(m)) THEN of(at(m)) ELSE {}, own |-> TRUE]
           far(a) == [id |-> a, host |-> a.host, port |-> a.port, clients |-> of(a), own |-> FALSE]
<1>1. ServerGroups(c) = {row(m) : m \in own} \cup {far(a) : a \in elsewhere}
  BY DEF ServerGroups
<1>2. /\ bound \cap PoolOf(c) = {} /\ own \cap PoolOf(c) = {} /\ own \cap bound = {}
      /\ bound \subseteq Machine
  BY SeenType DEF PoolOf
<1>3. \A a : of(a) \subseteq bound
  OBVIOUS
<1>4. \A m \in own : row(m).id = m /\ row(m).clients \subseteq bound
  <2> TAKE m \in own
  <2>1. row(m).clients = IF m = last(at(m)) THEN of(at(m)) ELSE {}
    OBVIOUS
  <2> QED
    BY <1>3, <2>1
<1>5. \A a \in elsewhere : far(a).id \notin Machine /\ far(a).clients \subseteq bound
  <2> TAKE a \in elsewhere
  <2>1. a \in Address
    BY SeenType DEF State
  <2>2. far(a).id = a /\ far(a).clients = of(a)
    OBVIOUS
  <2> QED
    BY <1>3, <2>1, <2>2, DisjointAssumption
<1> HIDE DEF own, at, bound, of, last, elsewhere, row, far
<1> QED
  BY <1>1, <1>2, <1>4, <1>5

LEMMA DialogFresh == ASSUME ServersFresh PROVE DialogInv'
<1>1. /\ NoDialog.open = 0 /\ NoDialog.server = NoMachine /\ NoDialog.clients = Once({})
      /\ \A m \in Machine : Once({})[m] = 0
  BY DEF NoDialog, Once
<1>2. dialog' = NoDialog /\ pool' = Once({})
  BY DEF ServersFresh
<1> QED
  BY <1>1, <1>2, NoneAssumption DEF DialogInv

\* The answer to the list of machines, under a dialog without edits.
LEMMA DialogList ==
    ASSUME TypeInv, DialogInv, NEW S \in SUBSET Machine,
           pool' = Once(S), dialog' = Reconciled(dialog, S), late' = UnderDialog
    PROVE  DialogInv'
<1>1. /\ dialog'.open = dialog.open /\ dialog'.type = dialog.type
      /\ dialog'.touched = dialog.touched /\ dialog'.clients = dialog.clients
  BY DialogFacts, ReconciledType
<1>2. dialog.open = 0 => dialog' = NoDialog
  BY ReconciledType, DialogFacts DEF DialogInv, NoDialog
<1>3. ASSUME ~late' PROVE dialog.clients = Once({}) /\ dialog.type # "edit"
  <2>1. NoDialog.clients = Once({}) /\ NoDialog.type = "none"
    BY DEF NoDialog
  <2>2. CASE dialog.open = 0
    BY <2>1, <2>2 DEF DialogInv
  <2>3. CASE dialog.open # 0
    <3>1. dialog.open > 0
      BY <2>3, DialogFacts
    <3>2. ~dialog.touched /\ dialog.type # "edit"
      BY <1>3, <3>1 DEF UnderDialog
    <3>3. dialog.type \in {"none", "add", "edit"}
      BY DialogFacts DEF Dialog
    <3> QED
      BY <3>1, <3>2, <3>3 DEF DialogInv
  <2> QED
    BY <2>2, <2>3
<1>4. \A m \in Machine : pool'[m] \in {0, 1} /\ Once({})[m] = 0
  BY DEF Once
<1> QED
  BY <1>1, <1>2, <1>3, <1>4 DEF DialogInv

\* The answer that opens the dialog of a server.
LEMMA DialogEdit ==
    ASSUME TypeInv, NEW c \in Seen, NEW g \in ServerGroups(c), pool' = Once(PoolOf(c)),
           dialog' = [type |-> "edit", server |-> g.id, own |-> g.id \in Machine,
                      port |-> g.port, clients |-> Once(g.clients),
                      open |-> dialog.open + 1, touched |-> FALSE]
    PROVE  DialogInv'
<1>1. /\ dialog'.type = "edit" /\ dialog'.server = g.id /\ dialog'.clients = Once(g.clients)
      /\ dialog'.open = dialog.open + 1
  OBVIOUS
<1>2. dialog'.open > 0
  BY <1>1, DialogFacts
<1>3. /\ g.clients \cap PoolOf(c) = {} /\ g.clients \subseteq Machine
      /\ g.id \in Machine => g.id \notin g.clients /\ g.id \notin PoolOf(c)
  BY ServerGroupPlaced
<1>4. \A m \in Machine : /\ pool'[m] = IF m \in PoolOf(c) THEN 1 ELSE 0
                         /\ dialog'.clients[m] = IF m \in g.clients THEN 1 ELSE 0
  BY <1>1 DEF Once
<1> QED
  BY <1>1, <1>2, <1>3, <1>4 DEF DialogInv

LEMMA DialogStep ==
    ASSUME TypeInv, DialogInv, [Next]_vars
    PROVE  DialogInv'
<1> USE DialogFacts
<1>1. UNCHANGED <<pool, dialog, late>> => DialogInv'
  BY DEF DialogInv
<1>2. /\ NoDialog.open = 0 /\ NoDialog.server = NoMachine /\ NoDialog.clients = Once({})
      /\ NoDialog.type = "none" /\ NoDialog.touched = FALSE
      /\ \A m \in Machine : Once({})[m] = 0
  BY DEF NoDialog, Once
<1>3. ASSUME NEW s \in Slot, NewServerDialog(s) PROVE DialogInv'
  <2>1. /\ dialog'.type = "add" /\ dialog'.server = NoMachine /\ dialog'.clients = Once({})
        /\ dialog'.open = 1
    BY <1>3 DEF NewServerDialog, NoDialog
  <2>2. UNCHANGED <<pool, late>> /\ dialog = NoDialog
    BY <1>3 DEF NewServerDialog, Idle, DialogInv
  <2> QED
    BY <1>2, <2>1, <2>2, NoneAssumption DEF DialogInv
<1>4. ASSUME NEW id \in Machine \cup Host, ChooseServer(id) PROVE DialogInv'
  <2>1. /\ dialog'.type = "add" /\ dialog'.server = id /\ dialog'.clients = dialog.clients
        /\ dialog'.open = dialog.open /\ dialog'.touched = dialog.touched
        /\ dialog.type = "add" /\ dialog.open > 0 /\ UNCHANGED <<pool, late>>
        /\ id \in Machine => pool[id] > 0
    BY <1>4 DEF ChooseServer, Dialogs, Dialog
  <2> QED
    BY <2>1 DEF DialogInv
<1>5. ASSUME NEW p \in Port, SetServerPort(p) PROVE DialogInv'
  <2>1. /\ dialog'.type = dialog.type /\ dialog'.server = dialog.server
        /\ dialog'.clients = dialog.clients /\ dialog'.open = dialog.open
        /\ dialog'.touched = dialog.touched /\ dialog.open > 0 /\ UNCHANGED <<pool, late>>
    BY <1>5 DEF SetServerPort, Dialogs, Dialog
  <2> QED
    BY <2>1 DEF DialogInv
<1>6. ASSUME NEW m \in Machine, MoveToServerClients(m) PROVE DialogInv'
  <2>1. /\ dialog'.type = dialog.type /\ dialog'.server = dialog.server
        /\ dialog'.clients = Plus(dialog.clients, m) /\ dialog'.open = dialog.open
        /\ dialog'.touched = TRUE /\ dialog.open > 0 /\ UNCHANGED late
        /\ pool' = Minus(pool, m) /\ pool[m] > 0 /\ m # dialog.server
    BY <1>6 DEF MoveToServerClients, Dialogs, Dialog, notChosenServer
  <2>2. \A n \in Machine :
           /\ pool'[n] = IF n = m THEN pool[n] - 1 ELSE pool[n]
           /\ dialog'.clients[n] = IF n = m THEN dialog.clients[n] + 1 ELSE dialog.clients[n]
    BY <2>1 DEF Plus, Minus, Count
  <2>3. ~late => \A n \in Machine : pool'[n] + dialog'.clients[n] <= 1
    BY <2>2 DEF DialogInv
  <2> QED
    BY <2>1, <2>2, <2>3 DEF DialogInv
<1>7. ASSUME NEW m \in Machine, MoveToPool(m) PROVE DialogInv'
  <2>1. /\ dialog'.type = dialog.type /\ dialog'.server = dialog.server
        /\ dialog'.clients = Minus(dialog.clients, m) /\ dialog'.open = dialog.open
        /\ dialog'.touched = TRUE /\ dialog.open > 0 /\ UNCHANGED late
        /\ pool' = Plus(pool, m) /\ dialog.clients[m] > 0
    BY <1>7 DEF MoveToPool, Dialogs, Dialog
  <2>2. \A n \in Machine :
           /\ pool'[n] = IF n = m THEN pool[n] + 1 ELSE pool[n]
           /\ dialog'.clients[n] = IF n = m THEN dialog.clients[n] - 1 ELSE dialog.clients[n]
    BY <2>1 DEF Plus, Minus, Count
  <2>3. ~late => \A n \in Machine : pool'[n] + dialog'.clients[n] <= 1
    BY <2>2 DEF DialogInv
  <2>4. ~late /\ dialog.server \in Machine => m # dialog.server
    BY <2>1 DEF DialogInv
  <2> QED
    BY <2>1, <2>2, <2>3, <2>4 DEF DialogInv
<1>8. ASSUME CloseDialog PROVE DialogInv'
  <2>1. CASE dialog.open = 1
    <3>1. dialog' = NoDialog /\ UNCHANGED <<pool, late>>
      BY <1>8, <2>1 DEF CloseDialog
    <3>2. ~late => \A m \in Machine : pool'[m] + 0 <= 1
      BY <3>1 DEF DialogInv
    <3> QED
      BY <1>2, <3>1, <3>2, NoneAssumption DEF DialogInv
  <2>2. CASE dialog.open # 1
    <3>1. /\ dialog'.type = dialog.type /\ dialog'.server = dialog.server
          /\ dialog'.clients = dialog.clients /\ dialog'.open = dialog.open - 1
          /\ dialog'.touched = dialog.touched /\ dialog.open > 1 /\ UNCHANGED <<pool, late>>
      BY <1>8, <2>2 DEF CloseDialog, Dialogs, Dialog
    <3> QED
      BY <3>1 DEF DialogInv
  <2> QED
    BY <2>1, <2>2
<1>9. BaseTypeOK
  BY DEF TypeInv, TypeOK
<1>10. ASSUME NEW s \in Slot, ListAnswered(s) PROVE DialogInv'
  <2>1. PoolOf(request[s].was) \subseteq Machine
    BY <1>9, <1>10, AnswerTypes, ServerListTypes DEF ListAnswered, FetchOp
  <2>2. CASE UNCHANGED <<pool, dialog, late>>
    BY <1>1, <2>2
  <2>3. CASE ~UNCHANGED <<pool, dialog, late>>
    <3>1. /\ pool' = Once(PoolOf(request[s].was)) /\ late' = UnderDialog
          /\ dialog' = Reconciled(dialog, PoolOf(request[s].was))
      BY <1>10, <2>3 DEF ListAnswered
    <3> QED
      BY <2>1, <3>1, DialogList
  <2> QED
    BY <2>2, <2>3
<1>11. ASSUME NEW s \in Slot, EditAnswered(s) PROVE DialogInv'
  <2>1. request[s].was \in Seen /\ PoolOf(request[s].was) \subseteq Machine
    BY <1>9, <1>11, AnswerTypes, ServerListTypes DEF EditAnswered, FetchOp
  <2>2. CASE UNCHANGED <<pool, dialog, late>>
    BY <1>1, <2>2
  <2>3. CASE ~UNCHANGED <<pool, dialog, late>>
    <3> DEFINE id == request[s].about
    <3>1. /\ pool' = Once(PoolOf(request[s].was))
          /\ \/ dialog' = Reconciled(dialog, PoolOf(request[s].was)) /\ late' = UnderDialog
             \/ \E g \in {h \in ServerGroups(request[s].was) : h.id = id} :
                      dialog' = [type |-> "edit", server |-> id, own |-> id \in Machine,
                                 port |-> g.port, clients |-> Once(g.clients),
                                 open |-> dialog.open + 1, touched |-> FALSE]
      BY <1>11, <2>3 DEF EditAnswered
    <3>2. CASE dialog' = Reconciled(dialog, PoolOf(request[s].was)) /\ late' = UnderDialog
      BY <2>1, <3>1, <3>2, DialogList
    <3>3. CASE \E g \in {h \in ServerGroups(request[s].was) : h.id = id} :
                      dialog' = [type |-> "edit", server |-> id, own |-> id \in Machine,
                                 port |-> g.port, clients |-> Once(g.clients),
                                 open |-> dialog.open + 1, touched |-> FALSE]
      BY <2>1, <3>1, <3>3, DialogEdit
    <3> QED
      BY <3>1, <3>2, <3>3
  <2> QED
    BY <2>2, <2>3
<1>12. \A s \in Slot : PushAnswered(s) \/ EditPushAnswered(s) => DialogInv'
  BY <1>1, DialogFresh DEF PushAnswered, EditPushAnswered, servers
<1>13. ServersNext => DialogInv'
  BY <1>1, <1>3, <1>4, <1>5, <1>6, <1>7, <1>8, <1>10, <1>11, <1>12
     DEF ServersNext, ServersAnswer, UnbindServer, CloseUnbind, ConfirmUnbind, SaveNew, SaveEdit,
         ModifyServerAssignConfig, RetrieveServersAnswered, servers
<1>14. \A s \in Slot : ReloadPage(s) => DialogInv'
  BY DialogFresh DEF ReloadPage
<1> QED
  BY <1>1, <1>13, <1>14 DEF Next, vars, servers

LEMMA DialogHolds == Spec => []DialogInv
<1>1. Init => DialogInv
  <2>1. /\ NoDialog.open = 0 /\ NoDialog.server = NoMachine /\ NoDialog.clients = Once({})
        /\ \A m \in Machine : Once({})[m] = 0
    BY DEF NoDialog, Once
  <2> QED
    BY <2>1, NoneAssumption DEF Init, ServersInit, DialogInv
<1>2. TypeInv /\ DialogInv /\ [Next]_vars => DialogInv'
  BY DialogStep
<1> QED
  BY <1>1, <1>2, TypeInvHolds, PTL DEF Spec

\* A dialog has each machine once, however its answers arrived.
THEOREM DialogHasEachOnce == Spec => []DialogPlaced
<1>1. DialogInv => DialogPlaced
  BY DEF DialogInv, DialogPlaced
<1> QED
  BY <1>1, DialogHolds, PTL

-----------------------------------------------------------------------------
(* What a push does not report has been carried out.  A task that is done  *)
(* stays done: a push has no second task for its machine, and whatever     *)
(* else reaches the machine is noted.                                      *)

TaskKept(r, t, c) ==
    TasksOf(r.saved, t.machine) = {t} /\ t.machine \notin r.failed \cup r.overrun
      => c[t.machine] = Done(t, c[t.machine])
PushOK(r, c) ==
    IsPush(r) => /\ r.todo \subseteq AssignTasks(r.saved)
                 /\ \A t \in AssignTasks(r.saved) \ r.todo : TaskKept(r, t, c)
PushInv == \A s \in Slot : PushOK(request[s], cluster)

\* To do a task again changes nothing.
LEMMA DoneIsDone ==
    ASSUME NEW t \in Task, NEW st \in State
    PROVE  Done(t, Done(t, st)) = Done(t, st)
<1>1. t.mode \in {"server", "client", "off"}
  BY DEF Task
<1>2. CASE t.mode = "server"
  BY <1>2 DEF Done, Configured, State
<1>3. CASE t.mode = "client"
  BY <1>3 DEF Done, Configured, State
<1>4. CASE t.mode = "off"
  <2>1. \A st2 : Configured(t, st2) = st2
    BY <1>4 DEF Configured
  <2> QED
    BY <1>4, <2>1 DEF Done, State
<1> QED
  BY <1>1, <1>2, <1>3, <1>4

\* A push that has done nothing yet.
LEMMA FreshPush ==
    ASSUME NEW r, r.todo = AssignTasks(r.saved), NEW c
    PROVE  PushOK(r, c)
BY DEF PushOK

\* A slot whose push, if any, is the one it had, or has done nothing yet.
Calm(s) == \/ ~IsPush(request'[s])
           \/ request'[s] \in {request[s], Unheard(request[s])}
           \/ request'[s].todo = AssignTasks(request'[s].saved)

LEMMA Quiet ==
    ASSUME BaseTypeOK, PushInv, UNCHANGED cluster, \A s \in Slot : Calm(s)
    PROVE  PushInv'
<1> SUFFICES ASSUME NEW s \in Slot PROVE PushOK(request'[s], cluster)
  BY DEF PushInv
<1>1. request[s] \in Requests /\ PushOK(request[s], cluster)
  BY BaseTypeDef DEF PushInv
<1>2. CASE ~IsPush(request'[s])
  BY <1>2 DEF PushOK
<1>3. CASE request'[s] = request[s]
  BY <1>1, <1>3
<1>4. CASE request'[s].todo = AssignTasks(request'[s].saved)
  BY <1>4, FreshPush
<1>5. CASE request'[s] = Unheard(request[s]) /\ IsPush(request'[s])
  <2> DEFINE r == request[s]
             q == request'[s]
  <2>1. Pushing(r) /\ q = [r EXCEPT !.heard = FALSE]
    BY <1>5 DEF Unheard, NoRequest, IsPush, PushOp
  <2>2. r \in Push
    <3>1. CASE r.op = "lookup"
      <4>1. q.op = "lookup"
        BY <1>1, <2>1, <3>1, Kinds DEF Lookup
      <4> QED
        BY <1>5, <4>1 DEF IsPush, PushOp
    <3> QED
      BY <1>1, <2>1, <3>1, Kinds DEF Pushing
  <2>3. /\ q.saved = r.saved /\ q.todo = r.todo /\ q.failed = r.failed
        /\ q.overrun = r.overrun /\ IsPush(r)
    BY <2>1, <2>2 DEF Push, IsPush
  <2> HIDE DEF r, q
  <2>4. PushOK(r, cluster)
    BY <1>1 DEF r
  <2>5. PushOK(q, cluster)
    BY <2>3, <2>4 DEF PushOK, TaskKept
  <2> QED
    BY <2>5 DEF q
<1> QED
  BY <1>2, <1>3, <1>4, <1>5 DEF Calm

\* Sending anything, dropping a request and loading the page are calm.
LEMMA SendIsCalm ==
    ASSUME BaseTypeOK, NEW s \in Slot, NEW r, ~IsPush(r) \/ r.todo = AssignTasks(r.saved),
           \/ Send(s, r)
           \/ request' = [request EXCEPT ![s] = r]
    PROVE  \A t \in Slot : Calm(t)
<1>1. request' = [request EXCEPT ![s] = r] /\ request \in [Slot -> Requests]
  BY BaseTypeDef DEF Send
<1>2. request'[s] = r /\ \A t \in Slot \ {s} : request'[t] = request[t]
  BY <1>1
<1> QED
  BY <1>2 DEF Calm

LEMMA NotPushes ==
    /\ \A r \in Fetch \cup Lookup \cup {NoRequest} : ~IsPush(r)
    /\ \A op, id : op \in FetchOp => ~IsPush(NewFetch(op, id))
    /\ \A op, a : NewPush(op, a).todo = AssignTasks(NewPush(op, a).saved)
BY DEF Fetch, FetchOf, Lookup, NoRequest, IsPush, PushOp, FetchOp, NewFetch, NewPush

LEMMA ReloadIsCalm ==
    ASSUME BaseTypeOK, NEW s \in Slot, Reload(s)
    PROVE  \A t \in Slot : Calm(t)
<1>1. ~IsPush(FirstRequest(page))
  BY RequestTypes, NotPushes DEF BaseTypeOK
<1> QED
  BY <1>1 DEF Reload, Calm

LEMMA DropIsCalm ==
    ASSUME BaseTypeOK, NEW s \in Slot, Drop(s)
    PROVE  \A t \in Slot : Calm(t)
BY SendIsCalm, NotPushes DEF Drop

\* The machine of a task is worked on: what is done of other tasks stays done.
LEMMA OthersKept ==
    ASSUME cluster \in Cluster, NEW m \in Machine, NEW st \in State,
           cluster' = [cluster EXCEPT ![m] = st],
           NEW r \in Requests, PushOK(r, cluster)
    PROVE  PushOK(Reached(r, m), cluster')
<1> SUFFICES ASSUME IsPush(r) PROVE PushOK([r EXCEPT !.overrun = @ \cup {m}], cluster')
  BY DEF Reached, PushOK
<1> DEFINE q == [r EXCEPT !.overrun = @ \cup {m}]
<1>1. r \in Push
  BY Kinds
<1>2. q.saved = r.saved /\ q.todo = r.todo /\ q.failed = r.failed /\ q.overrun = r.overrun \cup {m}
  BY <1>1 DEF Push
<1>3. \A n : n # m => cluster'[n] = cluster[n]
  BY DEF Cluster
<1> HIDE DEF q
<1>4. ASSUME NEW t \in AssignTasks(r.saved) \ r.todo PROVE TaskKept(q, t, cluster')
  <2>1. TaskKept(r, t, cluster)
    BY <1>4 DEF PushOK
  <2> QED
    BY <1>2, <1>3, <2>1 DEF TaskKept
<1> QED
  BY <1>2, <1>4 DEF PushOK, q

\* The push itself: the task is done, or its machine is reported.
LEMMA TaskFinished ==
    ASSUME NEW c \in Cluster, NEW r \in Push, PushOK(r, c), NEW t \in r.todo,
           NEW F, NEW d, d[t.machine] \in State, \A n : n # t.machine => d[n] = c[n],
           t.machine \in F \/ d[t.machine] = Done(t, c[t.machine]),
           NEW q, q.saved = r.saved, q.todo = r.todo \ {t}, q.failed = r.failed \cup F,
           q.overrun = r.overrun \ {t.machine}
    PROVE  PushOK(q, d)
<1> DEFINE st == d[t.machine]
<1>1. /\ q.saved = r.saved /\ q.todo = r.todo \ {t} /\ q.failed = r.failed \cup F
      /\ q.overrun = r.overrun \ {t.machine}
  OBVIOUS
<1>2. IsPush(r) /\ t \in Task
  BY DEF Push, IsPush
<1>3. t.machine \in Machine /\ c[t.machine] \in State
  BY <1>2 DEF Task, Cluster
<1>4. d[t.machine] = st /\ \A n : n # t.machine => d[n] = c[n]
  OBVIOUS
<1>5. t \in AssignTasks(r.saved) /\ r.todo \subseteq AssignTasks(r.saved)
  BY <1>2 DEF PushOK
<1>6. TaskKept(q, t, d)
  <2>1. CASE t.machine \in F
    BY <1>1, <2>1 DEF TaskKept
  <2>2. CASE st = Done(t, c[t.machine])
    <3>1. Done(t, st) = st
      BY <1>2, <1>3, <2>2, DoneIsDone
    <3> QED
      BY <1>4, <3>1 DEF TaskKept
  <2> QED
    BY <2>1, <2>2
<1>7. ASSUME NEW u \in AssignTasks(r.saved) \ r.todo PROVE TaskKept(q, u, d)
  <2>1. TaskKept(r, u, c) /\ u # t
    BY <1>2, <1>7 DEF PushOK
  <2>2. CASE u.machine = t.machine
    <3>1. t \in TasksOf(r.saved, u.machine)
      BY <1>5, <2>2 DEF TasksOf
    <3> QED
      BY <1>1, <2>1, <3>1 DEF TaskKept
  <2>3. CASE u.machine # t.machine
    BY <1>1, <1>4, <2>1, <2>3 DEF TaskKept
  <2> QED
    BY <2>2, <2>3
<1> QED
  BY <1>1, <1>5, <1>6, <1>7 DEF PushOK

LEMMA PushFinishes ==
    ASSUME BaseTypeOK, PushInv, NEW s \in Slot, IsPush(request[s]), NEW t \in request[s].todo,
           NEW F \in SUBSET Machine, NEW st \in State,
           cluster' = [cluster EXCEPT ![t.machine] = st],
           t.machine \in F \/ st = Done(t, cluster[t.machine]),
           Finishes(s, t, F)
    PROVE  PushInv'
<1>1. /\ cluster \in Cluster /\ \A u \in Slot : request[u] \in Requests /\ PushOK(request[u], cluster)
      /\ request[s] \in Push
  BY BaseTypeDef, Kinds DEF PushInv
<1>2. t.machine \in Machine
  BY <1>1 DEF Push, Task
<1> DEFINE r == request[s]
           q == [r EXCEPT !.todo = @ \ {t}, !.failed = @ \cup F, !.overrun = @ \ {t.machine}]
<1>3. request'[s] = q
  BY DEF Finishes
<1>4. \A u \in Slot \ {s} : request'[u] = Reached(request[u], t.machine)
  BY DEF Finishes
<1>5. PushOK(request'[s], cluster')
  <2>1. r \in Push /\ PushOK(r, cluster) /\ t \in r.todo
    BY <1>1
  <2>2. /\ q.saved = r.saved /\ q.todo = r.todo \ {t} /\ q.failed = r.failed \cup F
        /\ q.overrun = r.overrun \ {t.machine}
    BY <1>1 DEF Push
  <2>3. cluster'[t.machine] = st /\ \A n : n # t.machine => cluster'[n] = cluster[n]
    BY <1>1, <1>2 DEF Cluster
  <2>4. PICK p, d : p = request'[s] /\ p = q /\ d = cluster'
    BY <1>3
  <2> HIDE DEF r, q
  <2>5. /\ d[t.machine] \in State /\ \A n : n # t.machine => d[n] = cluster[n]
        /\ t.machine \in F \/ d[t.machine] = Done(t, cluster[t.machine])
    BY <2>3, <2>4
  <2>6. PushOK(q, d)
    BY <1>1, <2>1, <2>2, <2>5, TaskFinished
  <2> QED
    BY <2>4, <2>6
<1>6. \A u \in Slot \ {s} : PushOK(request'[u], cluster')
  BY <1>1, <1>2, <1>4, OthersKept
<1> QED
  BY <1>5, <1>6 DEF PushInv

LEMMA PushApply ==
    ASSUME BaseTypeOK, PushInv, NEW s \in Slot, IsPush(request[s]),
           NEW t \in request[s].todo, Apply(s, t)
    PROVE  PushInv'
<1>1. /\ request[s] \in Push /\ cluster \in Cluster /\ t \in Task
  BY BaseTypeDef, Kinds DEF Push
<1>2. /\ t.machine \in Machine /\ cluster[t.machine] \in State
      /\ Outcomes(request[s].op, t) \subseteq State
  BY <1>1, OutcomeTypes
<1>3. CASE Succeeds(s, t)
  <2>1. Done(t, cluster[t.machine]) \in State
    BY <1>1, <1>2, AfterType
  <2>2. cluster' = [cluster EXCEPT ![t.machine] = Done(t, cluster[t.machine])] /\ Finishes(s, t, {})
    BY <1>3 DEF Succeeds
  <2> QED
    BY <2>1, <2>2, PushFinishes
<1>4. CASE Fails(s, t)
  <2>1. PICK st \in State : cluster' = [cluster EXCEPT ![t.machine] = st]
    BY <1>2, <1>4 DEF Fails
  <2>2. Finishes(s, t, {t.machine})
    BY <1>4 DEF Fails
  <2> QED
    BY <1>2, <2>1, <2>2, PushFinishes
<1>5. ASSUME NEW l \in Late, GivesUp(s, t, l) PROVE PushInv'
  <2>1. Halfway(request[s].op, t, cluster[t.machine]) \in State
    BY <1>1, <1>2, AfterType DEF Halfway
  <2>2. PICK k \in {1, 2} : cluster' = [cluster EXCEPT ![t.machine] =
                   IF k = 1 THEN cluster[t.machine] ELSE Halfway(request[s].op, t, cluster[t.machine])]
    BY <1>2, <1>5 DEF GivesUp
  <2>3. PICK st \in State : cluster' = [cluster EXCEPT ![t.machine] = st]
    BY <1>2, <2>1, <2>2
  <2>4. Finishes(s, t, {t.machine})
    BY <1>5 DEF GivesUp
  <2> QED
    BY <1>2, <2>3, <2>4, PushFinishes
<1> QED
  BY <1>3, <1>4, <1>5 DEF Apply

\* A call that outlived its push reaches a machine.
LEMMA PushArrives ==
    ASSUME BaseTypeOK, PushInv, NEW l \in Late, Arrives(l)
    PROVE  PushInv'
<1> DEFINE c == stray[l]
<1>1. /\ cluster \in Cluster /\ \A u \in Slot : request[u] \in Requests /\ PushOK(request[u], cluster)
      /\ c \in Call
  BY BaseTypeDef DEF PushInv, Arrives, Calls
<1>2. c.task.machine \in Machine /\ cluster[c.task.machine] \in State /\ c.task \in Task
  BY <1>1, OutcomeTypes DEF Call
<1>3. After(c.op, c.task, c.next, cluster[c.task.machine]) \in State
  BY <1>2, AfterType
<1>4. /\ cluster' = [cluster EXCEPT ![c.task.machine] = After(c.op, c.task, c.next, cluster[c.task.machine])]
      /\ \A u \in Slot : request'[u] = Reached(request[u], c.task.machine)
  BY DEF Arrives
<1> HIDE DEF c
<1>5. \A u \in Slot : PushOK(request'[u], cluster')
  BY <1>1, <1>2, <1>3, <1>4, OthersKept
<1> QED
  BY <1>5 DEF PushInv

LEMMA PushBackEnd ==
    ASSUME BaseTypeOK, PushInv, BackEnd
    PROVE  PushInv'
<1>1. ASSUME NEW s \in Slot, NEW m \in Machine, Read(s, m) PROVE PushInv'
  <2>1. PICK w \in Seen : /\ [request[s] EXCEPT !.was = w] \in Fetch \cup Lookup
                          /\ request' = [request EXCEPT ![s] = [request[s] EXCEPT !.was = w]]
    BY <1>1, ReadType
  <2>2. ~IsPush([request[s] EXCEPT !.was = w])
    BY <2>1, NotPushes
  <2>3. \A t \in Slot : Calm(t)
    BY <2>1, <2>2, SendIsCalm
  <2> QED
    BY <1>1, <2>3, Quiet DEF Read
<1>2. ASSUME NEW s \in Slot, LookUp(s) PROVE PushInv'
  <2>1. PICK r \in Push : r.todo = AssignTasks(r.saved) /\ request' = [request EXCEPT ![s] = r]
    BY <1>2, LookUpType
  <2>2. \A t \in Slot : Calm(t)
    BY <2>1, SendIsCalm
  <2> QED
    BY <1>2, <2>2, Quiet DEF LookUp
<1>3. \A s \in Slot : EndUnheard(s) => PushInv'
  BY DropIsCalm, Quiet DEF EndUnheard
<1>4. ASSUME NEW s \in Slot, LoseAnswer(s) PROVE PushInv'
  <2>1. \A t \in Slot : Calm(t)
    BY <1>4, BaseTypeDef DEF LoseAnswer, Calm
  <2> QED
    BY <1>4, <2>1, Quiet DEF LoseAnswer
<1>5. \A l \in Late : Vanishes(l) => PushInv'
  BY DEF Vanishes, PushInv
<1> QED
  BY <1>1, <1>2, <1>3, <1>4, <1>5, PushApply, PushArrives DEF BackEnd, Work

\* The pages send pushes that have done nothing yet.
LEMMA PushPages ==
    ASSUME TypeInv, PushInv, AssignNext \/ ServersNext \/ SingleNext \/ \E s \in Slot : ReloadPage(s)
    PROVE  PushInv'
<1>1. BaseTypeOK
  BY DEF TypeInv, TypeOK
<1>2. UNCHANGED <<cluster, request>> => PushInv'
  BY DEF PushInv
<1>3. \A s \in Slot : \A r : (~IsPush(r) \/ r.todo = AssignTasks(r.saved)) /\ UNCHANGED cluster
                         /\ (Send(s, r) \/ request' = [request EXCEPT ![s] = r]) => PushInv'
  BY <1>1, SendIsCalm, Quiet
<1>4. \A s \in Slot : \A op, a : Send(s, NewPush(op, a)) /\ UNCHANGED cluster => PushInv'
  BY <1>3, NotPushes
<1>5. \A s \in Slot, op \in FetchOp : \A id :
         UNCHANGED cluster
         /\ (Send(s, NewFetch(op, id)) \/ request' = [request EXCEPT ![s] = NewFetch(op, id)]) => PushInv'
  <2>1. \A op \in FetchOp : \A id : ~IsPush(NewFetch(op, id))
    BY NotPushes
  <2> HIDE DEF NewFetch, Send
  <2> QED
    BY <1>3, <2>1
<1>6. \A s \in Slot : Drop(s) /\ UNCHANGED cluster => PushInv'
  BY <1>1, DropIsCalm, Quiet
<1>7. \A s \in Slot : Reload(s) /\ UNCHANGED cluster => PushInv'
  BY <1>1, ReloadIsCalm, Quiet
<1>8. CASE AssignNext
  <2>1. \A s \in Slot : SaveAndApplyAssign(s) => PushInv'
    BY <1>4 DEF SaveAndApplyAssign
  <2>2. \A s \in Slot : RetrieveAnswered(s) => PushInv'
    BY <1>6 DEF RetrieveAnswered, Refused
  <2>3. \A s \in Slot : SaveAnswered(s) => PushInv'
    BY <1>5 DEF SaveAnswered, FetchOp
  <2> QED
    BY <1>2, <1>8, <2>1, <2>2, <2>3
       DEF AssignNext, AssignAnswer, MoveToServerGroup, MoveToRemainingSharePool, AddToServerList,
           RemoveFromServerList, SetPort, EditDone
<1>9. CASE ServersNext
  <2>1. \A s \in Slot : SaveNew(s) \/ SaveEdit(s) => PushInv'
    BY <1>4 DEF SaveNew, SaveEdit
  <2>2. \A s \in Slot : ConfirmUnbind(s) => PushInv'
    <3>1. ~IsPush([op |-> "lookup", id |-> unbinding, was |-> Nothing, heard |-> TRUE])
      BY DEF IsPush, PushOp
    <3> QED
      BY <1>3, <3>1 DEF ConfirmUnbind
  <2>3. \A s \in Slot : NewServerDialog(s) => PushInv'
    BY <1>5 DEF NewServerDialog, FetchOp
  <2>4. \A s \in Slot, id \in table : ModifyServerAssignConfig(s, id) => PushInv'
    BY <1>5 DEF ModifyServerAssignConfig, FetchOp
  <2>5. ServersAnswer => PushInv'
    BY <1>6, <1>7 DEF ServersAnswer, RetrieveServersAnswered, ListAnswered, EditAnswered, PushAnswered,
                      EditPushAnswered, Refused
  <2> QED
    BY <1>2, <1>9, <2>1, <2>2, <2>3, <2>4, <2>5
       DEF ServersNext, UnbindServer, CloseUnbind, ChooseServer, SetServerPort,
           MoveToServerClients, MoveToPool, CloseDialog
<1>10. CASE SingleNext
  <2>1. \A s \in Slot : \A m : Watch(s, m) /\ UNCHANGED cluster => PushInv'
    BY <1>2, <1>5 DEF Watch, FetchOp
  <2>2. \A s \in Slot : (\A m \in Machine : SelectMachine(s, m) => PushInv')
                        /\ (\A S \in SUBSET Machine : Search(s, S) => PushInv')
    BY <2>1 DEF SelectMachine, Search
  <2>3. \A s \in Slot : SaveConfig(s) \/ DoModifyClientConfig(s) => PushInv'
    BY <1>4 DEF SaveConfig, DoModifyClientConfig, Modify
  <2>4. \A s \in Slot : MachinesAnswered(s) => PushInv'
    BY <1>5, <1>6 DEF MachinesAnswered, FetchOp
  <2>5. \A s \in Slot : StateAnswered(s) \/ ModifyAnswered(s) \/ RetrieveClientsAnswered(s) => PushInv'
    BY <1>6, <1>7 DEF StateAnswered, ModifyAnswered, RetrieveClientsAnswered, Refused
  <2>6. \A mode \in {"server", "client"}, a \in Address : EditState(mode, a) => PushInv'
    BY <1>2 DEF EditState
  <2>7. /\ \A row \in rows : ModifyClientConfigDialog(row) => PushInv'
        /\ \A a \in Address : EditClientConfig(a) => PushInv'
        /\ CloseClientConfig => PushInv'
    BY <1>2 DEF ModifyClientConfigDialog, EditClientConfig, CloseClientConfig
  <2> QED
    BY <1>10, <2>2, <2>3, <2>4, <2>5, <2>6, <2>7 DEF SingleNext, SingleAnswer
<1>11. \A s \in Slot : ReloadPage(s) => PushInv'
  BY <1>7 DEF ReloadPage
<1> QED
  BY <1>8, <1>9, <1>10, <1>11

\* A machine that a push has worked on and does not report has the role it was
\* given, until another push, or a call that outlived one, reaches it.
THEOREM PushedMeansAssigned == Spec => []AllPushedMeansAssigned
<1>1. Init => PushInv
  <2>1. \A p \in Page : ~IsPush(FirstRequest(p)) /\ ~IsPush(NoRequest)
    BY RequestTypes, NotPushes
  <2> QED
    BY <2>1 DEF Init, BaseInit, PushInv, PushOK
<1>2. TypeInv /\ PushInv /\ [Next]_vars => PushInv'
  <2>1. UNCHANGED vars /\ PushInv => PushInv'
    BY DEF vars, base, PushInv
  <2> QED
    BY <2>1, PushBackEnd, PushPages DEF Next, TypeInv, TypeOK
<1>3. PushInv => AllPushedMeansAssigned
  BY DEF PushInv, PushOK, TaskKept, AllPushedMeansAssigned
<1> QED
  BY <1>1, <1>2, <1>3, TypeInvHolds, PTL DEF Spec

-----------------------------------------------------------------------------
(* The state shown is that of the selected machine *)

\* While states are fetched, the one of the selected machine is.
ShownInv ==
    /\ page # "single" => mac = NoMachine
    /\ mac # NoMachine /\ ~missed /\ stateVO # NoState /\ stateVO.of # mac
       => \E s \in Slot : request[s].op = "state" /\ request[s].about = mac
    /\ mac # NoMachine /\ ~missed /\ (\E s \in Slot : request[s].op = "state")
       => \E s \in Slot : request[s].op = "state" /\ request[s].about = mac

\* The fetches of states in flight stay the same.
SameFetches ==
    \A s \in Slot : /\ request'[s].op = "state" <=> request[s].op = "state"
                    /\ request[s].op = "state" => request'[s].about = request[s].about

LEMMA ShownQuiet ==
    ASSUME ShownInv, UNCHANGED <<page, mac, stateVO>>, missed' = missed \/ missed' = TRUE, SameFetches
    PROVE  ShownInv'
BY DEF ShownInv, SameFetches

\* Nothing can go wrong where no machine is selected.
LEMMA NoneSelected == ASSUME mac' = NoMachine PROVE ShownInv'
BY DEF ShownInv

LEMMA SameWhenPushing ==
    ASSUME request \in [Slot -> Requests], NEW s \in Slot, NEW r, r.op # "state",
           \/ Send(s, r)
           \/ request' = [request EXCEPT ![s] = r] /\ request[s].op # "state"
    PROVE  SameFetches
BY DEF Send, NoRequest, SameFetches

\* To be reached by a call changes no fetch.
LEMMA ReachedOp ==
    ASSUME NEW r \in Requests, NEW m
    PROVE  /\ Reached(r, m).op = r.op
           /\ r.op = "state" => Reached(r, m) = r
<1>1. CASE IsPush(r)
  <2>1. r \in Push
    BY <1>1, Kinds
  <2> QED
    BY <1>1, <2>1 DEF Reached, Push, IsPush, PushOp
<1>2. CASE ~IsPush(r)
  BY <1>2 DEF Reached
<1> QED
  BY <1>1, <1>2

LEMMA ShownFinishes ==
    ASSUME BaseTypeOK, NEW s \in Slot, NEW t, NEW F, IsPush(request[s]), Finishes(s, t, F)
    PROVE  SameFetches
<1>1. request[s] \in Push /\ \A u \in Slot : request[u] \in Requests
  BY BaseTypeDef, Kinds
<1>2. request'[s] = [request[s] EXCEPT !.todo = @ \ {t}, !.failed = @ \cup F, !.overrun = @ \ {t.machine}]
  BY DEF Finishes
<1>3. request'[s].op = request[s].op /\ request[s].op # "state"
  BY <1>1, <1>2 DEF Push, PushOp
<1>4. \A u \in Slot \ {s} : request'[u] = Reached(request[u], t.machine)
  BY DEF Finishes
<1> QED
  BY <1>1, <1>3, <1>4, ReachedOp DEF SameFetches

LEMMA ShownBackEnd ==
    ASSUME BaseTypeOK, ShownInv, BackEnd, UNCHANGED single
    PROVE  ShownInv'
<1>1. request \in [Slot -> Requests] /\ UNCHANGED <<mac, stateVO>> /\ missed \in BOOLEAN
  BY BaseTypeDef DEF single
<1>2. SameFetches /\ UNCHANGED <<page, missed>> => ShownInv'
  BY <1>1, ShownQuiet
<1>3. ASSUME NEW s \in Slot, NEW m \in Machine, Read(s, m) PROVE ShownInv'
  <2>1. PICK w \in Seen : request' = [request EXCEPT ![s] = [request[s] EXCEPT !.was = w]]
    BY <1>3, ReadType
  <2>2. request[s] \in Fetch \cup Lookup
    BY <1>1, <1>3, Kinds DEF Read
  <2>3. /\ [request[s] EXCEPT !.was = w].op = request[s].op
        /\ request[s].op = "state" => [request[s] EXCEPT !.was = w].about = request[s].about
    BY <2>2 DEF Fetch, FetchOf, Lookup
  <2>4. SameFetches
    BY <1>1, <2>1, <2>3 DEF SameFetches
  <2> QED
    BY <1>2, <1>3, <2>4 DEF Read
<1>4. ASSUME NEW s \in Slot, LookUp(s) PROVE ShownInv'
  <2>1. PICK r \in Push : request' = [request EXCEPT ![s] = r]
    BY <1>4, LookUpType
  <2>2. request[s].op # "state" /\ r.op # "state" /\ UNCHANGED <<page, missed>>
    BY <1>4 DEF LookUp, Push, PushOp
  <2> QED
    BY <1>1, <1>2, <2>1, <2>2, SameWhenPushing
<1>5. ASSUME NEW s \in Slot, EndUnheard(s) PROVE ShownInv'
  <2>1. request' = [request EXCEPT ![s] = NoRequest] /\ request[s].op # "state" /\ NoRequest.op # "state"
    BY <1>5 DEF EndUnheard, Drop, IsPush, PushOp, NoRequest
  <2> QED
    BY <1>1, <1>2, <1>5, <2>1, SameWhenPushing DEF EndUnheard
<1>6. ASSUME NEW s \in Slot, IsPush(request[s]), NEW t \in request[s].todo, Apply(s, t) PROVE ShownInv'
  <2>1. /\ Finishes(s, t, {}) \/ Finishes(s, t, {t.machine})
        /\ UNCHANGED <<page, missed>>
    BY <1>6 DEF Apply, Succeeds, Fails, GivesUp, Takes
  <2> QED
    BY <1>2, <1>6, <2>1, ShownFinishes
<1>7. ASSUME NEW s \in Slot, LoseAnswer(s) PROVE ShownInv'
  <2>1. CASE IsFetch(request[s])
    BY <1>1, <1>7, <2>1 DEF LoseAnswer, ShownInv
  <2>2. CASE ~IsFetch(request[s])
    <3>1. Pushing(request[s]) /\ request' = [request EXCEPT ![s] = [request[s] EXCEPT !.heard = FALSE]]
      BY <1>1, <1>7, <2>2 DEF LoseAnswer, Unheard
    <3>2. request[s] \in Push \cup Lookup
      BY <1>1, <3>1, Kinds DEF Pushing
    <3>3. request[s].op # "state" /\ [request[s] EXCEPT !.heard = FALSE].op # "state"
      BY <3>2 DEF Push, PushOp, Lookup
    <3>4. SameFetches
      BY <1>1, <3>1, <3>3, SameWhenPushing
    <3>5. missed' = (missed \/ IsFetch(request[s]))
      BY <1>7 DEF LoseAnswer
    <3>6. UNCHANGED <<page, missed>>
      BY <1>1, <1>7, <2>2, <3>5 DEF LoseAnswer
    <3> QED
      BY <1>2, <3>4, <3>6
  <2> QED
    BY <2>1, <2>2
<1>8. ASSUME NEW l \in Late, Arrives(l) \/ Vanishes(l) PROVE ShownInv'
  <2>1. CASE Arrives(l)
    <3>1. PICK m : \A u \in Slot : request'[u] = Reached(request[u], m)
      BY <2>1 DEF Arrives
    <3>2. SameFetches
      BY <1>1, <3>1, ReachedOp DEF SameFetches
    <3> QED
      BY <1>2, <2>1, <3>2 DEF Arrives
  <2>2. CASE Vanishes(l)
    BY <1>2, <2>2 DEF Vanishes, SameFetches
  <2> QED
    BY <1>8, <2>1, <2>2
<1> QED
  BY <1>3, <1>4, <1>5, <1>6, <1>7, <1>8 DEF BackEnd, Work

LEMMA ShownSingle ==
    ASSUME TypeInv, ShownInv, SingleNext
    PROVE  ShownInv'
<1>1. /\ BaseTypeOK /\ request \in [Slot -> Requests] /\ stateVO \in StateVO \cup {NoState}
      /\ mac \in Machine \cup {NoMachine} /\ options \in (SUBSET Machine) \cup {NoMachine}
  BY BaseTypeDef DEF TypeInv, TypeOK, SingleTypeOK
<1>2. ASSUME NEW s \in Slot, NEW m, Watch(s, m), request[s] = NoRequest, Single,
             UNCHANGED <<page, missed, stateVO>>
      PROVE  ShownInv'
  <2>1. CASE m \in {mac, NoMachine}
    BY <1>2, <2>1 DEF Watch, ShownInv, Single
  <2>2. CASE m \notin {mac, NoMachine}
    <3>1. mac' = m /\ request'[s].op = "state" /\ request'[s].about = m
      BY <1>1, <1>2, <2>2 DEF Watch, NewFetch
    <3> QED
      BY <1>2, <3>1 DEF ShownInv, Single
  <2> QED
    BY <2>1, <2>2
<1>3. \A s \in Slot, m \in Machine : SelectMachine(s, m) => ShownInv'
  BY <1>2 DEF SelectMachine
<1>4. \A s \in Slot, S \in SUBSET Machine : Search(s, S) => ShownInv'
  BY <1>2 DEF Search
<1>5. ASSUME NEW s \in Slot, MachinesAnswered(s) PROVE ShownInv'
  <2>1. CASE \E m \in Machine : mac' = m /\ request' = [request EXCEPT ![s] = NewFetch("state", m)]
    <3>1. PICK m \in Machine : mac' = m /\ request' = [request EXCEPT ![s] = NewFetch("state", m)]
      BY <2>1
    <3>2. request'[s].op = "state" /\ request'[s].about = m
      BY <1>1, <3>1 DEF NewFetch
    <3> QED
      BY <1>5, <3>1, <3>2 DEF MachinesAnswered, ShownInv, Single
  <2>2. CASE Drop(s) /\ UNCHANGED mac
    <3>1. request[s].op # "state" /\ NoRequest.op # "state"
      BY <1>5 DEF MachinesAnswered, Answered, NoRequest
    <3>2. SameFetches
      BY <1>1, <2>2, <3>1, SameWhenPushing DEF Drop
    <3> QED
      BY <1>5, <2>2, <3>2, ShownQuiet DEF MachinesAnswered
  <2> QED
    BY <1>5, <2>1, <2>2 DEF MachinesAnswered
<1>6. ASSUME NEW s \in Slot, StateAnswered(s) PROVE ShownInv'
  <2>1. /\ request[s].op = "state" /\ missed' = (missed \/ Overtakes(s)) /\ UNCHANGED <<page, mac>>
        /\ request' = [request EXCEPT ![s] = NoRequest] /\ NoRequest.op = "none"
        /\ page = "single"
    BY <1>6 DEF StateAnswered, Answered, Drop, NoRequest, Single
  <2>2. stateVO' = NoState \/ stateVO'.of = request[s].about
    BY <1>6 DEF StateAnswered
  <2>3. \A t \in Slot \ {s} : request'[t] = request[t]
    BY <1>1, <2>1
  <2>4. request'[s].op # "state"
    BY <1>1, <2>1
  <2>5. CASE mac = NoMachine \/ missed'
    BY <2>1, <2>5 DEF ShownInv
  <2>6. CASE mac # NoMachine /\ ~missed' /\ request[s].about = mac
    <3>1. \A t \in Slot : request'[t].op # "state"
      BY <2>1, <2>3, <2>4, <2>6 DEF Overtakes
    <3> QED
      BY <2>1, <2>2, <2>6, <3>1 DEF ShownInv
  <2>7. CASE mac # NoMachine /\ ~missed' /\ request[s].about # mac
    <3>1. PICK t \in Slot : request[t].op = "state" /\ request[t].about = mac
      BY <2>1, <2>7 DEF ShownInv
    <3>2. request'[t].op = "state" /\ request'[t].about = mac'
      BY <2>1, <2>3, <2>7, <3>1
    <3> QED
      BY <2>1, <3>2 DEF ShownInv
  <2> QED
    BY <2>1, <2>5, <2>6, <2>7
<1>7. ASSUME NEW mode \in {"server", "client"}, NEW a \in Address, EditState(mode, a) PROVE ShownInv'
  <2>1. stateVO \in StateVO
    BY <1>1, <1>7 DEF EditState
  <2>2. stateVO'.of = stateVO.of /\ stateVO # NoState /\ stateVO.of \in Machine
    BY <1>7, <2>1 DEF EditState, StateVO
  <2>3. UNCHANGED <<page, mac, missed, request>>
    BY <1>7 DEF EditState
  <2> QED
    BY <2>2, <2>3 DEF ShownInv
<1>8. ASSUME NEW s \in Slot, SaveConfig(s) PROVE ShownInv'
  <2>1. \A a : NewPush("modify", a).op # "state"
    BY DEF NewPush
  <2>2. PICK a : Send(s, NewPush("modify", a))
    BY <1>8 DEF SaveConfig, Modify
  <2>3. SameFetches
    BY <1>1, <2>1, <2>2, SameWhenPushing
  <2> QED
    BY <1>8, <2>3, ShownQuiet DEF SaveConfig, single
<1>9. ASSUME NEW s \in Slot, ModifyAnswered(s) PROVE ShownInv'
  <2>1. CASE SingleFresh
    BY <2>1, NoneSelected DEF SingleFresh
  <2>2. CASE Drop(s) /\ UNCHANGED <<page, missed, single>>
    <3>1. request[s].op # "state" /\ NoRequest.op # "state"
      BY <1>9 DEF ModifyAnswered, Finished, NoRequest
    <3>2. SameFetches
      BY <1>1, <2>2, <3>1, SameWhenPushing DEF Drop
    <3> QED
      BY <2>2, <3>2, ShownQuiet DEF single
  <2> QED
    BY <1>9, <2>1, <2>2 DEF ModifyAnswered
<1>10. page = "clients" /\ UNCHANGED single => ShownInv'
  BY NoneSelected DEF ShownInv, single
<1> QED
  BY <1>3, <1>4, <1>5, <1>6, <1>7, <1>8, <1>9, <1>10
     DEF SingleNext, SingleAnswer, RetrieveClientsAnswered, ModifyClientConfigDialog, EditClientConfig,
         DoModifyClientConfig, CloseClientConfig, Tokens

\* saveConfig gets the state of the machine it is sent to.
THEOREM SelectedIsShown == Spec => []ShownIsSelected
<1>1. Init => ShownInv
  BY DEF Init, SingleInit, ShownInv
<1>2. TypeInv /\ ShownInv /\ [Next]_vars => ShownInv'
  <2> SUFFICES ASSUME TypeInv, ShownInv, [Next]_vars PROVE ShownInv'
    OBVIOUS
  <2>1. CASE BackEnd /\ UNCHANGED single
    BY <2>1, ShownBackEnd DEF TypeInv, TypeOK
  <2>2. CASE AssignNext /\ UNCHANGED single
    <3>1. page = "assign"
      <4>1. Edit => page = "assign"
        BY DEF Edit
      <4>2. \A g \in clusterMap, m \in Machine :
               MoveToServerGroup(g, m) \/ MoveToRemainingSharePool(g, m) => page = "assign"
        BY <4>1 DEF MoveToServerGroup, MoveToRemainingSharePool
      <4>3. \A m \in Machine : AddToServerList(m) => page = "assign"
        BY <4>1 DEF AddToServerList
      <4>4. \A g \in clusterMap : RemoveFromServerList(g) \/ (\E p \in Port : SetPort(g, p)) => page = "assign"
        BY <4>1 DEF RemoveFromServerList, SetPort
      <4>5. \A s \in Slot : SaveAndApplyAssign(s) \/ RetrieveAnswered(s) \/ SaveAnswered(s) => page = "assign"
        BY <4>1 DEF SaveAndApplyAssign, RetrieveAnswered, SaveAnswered
      <4> QED
        BY <2>2, <4>2, <4>3, <4>4, <4>5 DEF AssignNext, AssignAnswer
    <3> QED
      BY <2>2, <3>1, NoneSelected DEF ShownInv, single
  <2>3. CASE ServersNext /\ UNCHANGED single
    <3>1. page = "servers"
      BY <2>3 DEF ServersNext, ServersAnswer, UnbindServer, CloseUnbind, ConfirmUnbind, NewServerDialog,
                  ModifyServerAssignConfig, ListAnswered, EditAnswered, ChooseServer, SetServerPort,
                  MoveToServerClients, MoveToPool, CloseDialog, SaveNew, SaveEdit, PushAnswered,
                  EditPushAnswered, RetrieveServersAnswered, Idle, Shown, Dialogs
    <3> QED
      BY <2>3, <3>1, NoneSelected DEF ShownInv, single
  <2>4. CASE SingleNext
    BY <2>4, ShownSingle
  <2>5. CASE \E s \in Slot : ReloadPage(s)
    BY <2>5, NoneSelected DEF ReloadPage, SingleFresh
  <2>6. CASE UNCHANGED vars
    BY <2>6 DEF vars, base, single, ShownInv
  <2> QED
    BY <2>1, <2>2, <2>3, <2>4, <2>5, <2>6 DEF Next
<1>3. ShownInv => ShownIsSelected
  BY DEF ShownInv, ShownIsSelected
<1> QED
  BY <1>1, <1>2, <1>3, TypeInvHolds, PTL DEF Spec
=============================================================================
