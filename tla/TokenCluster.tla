---------------------------- MODULE TokenCluster ----------------------------
(***************************************************************************)
(* Cluster flow control of one application: its machines, the dashboard's  *)
(* ClusterAssignServiceImpl and ClusterConfigService, and the requests the *)
(* pages of the web interface have in flight.                              *)
(*                                                                         *)
(*   machine  a token server, a client of the server at some address, or   *)
(*            neither.                                                     *)
(*   fetch    reads the machines one by one; the answer holds those that   *)
(*            were read and says nothing of the others.                    *)
(*   push     changes machines one by one, each by two calls (mode and     *)
(*            configuration).  A call may fail, or be given up after ten   *)
(*            seconds and arrive later; the push goes on and answers with  *)
(*            the machines that failed.                                    *)
(*                                                                         *)
(* Every answer may be lost: AuthInterceptor hands the error to .success   *)
(* as an empty body, and the handler stops at its first line.  Namespaces, *)
(* QPS limits and timeouts are left out, and one machine is read in one    *)
(* step.                                                                   *)
(***************************************************************************)
EXTENDS Naturals, FiniteSets

CONSTANTS
    Machine,      \* the healthy machines of the application
    Host,         \* hosts of machines and of token servers elsewhere
    HostOf,       \* [Machine -> Host]
    Port,         \* ports of token servers
    DEFAULT_CLUSTER_SERVER_PORT,
    Capable,      \* machines whose state has a server part
    NoAddress,    \* the target of a client whose server host is empty (a null
                  \* host is, to every page, one more host elsewhere)
    NoMachine,    \* nothing selected
    InitialClusters, \* states the machines may be in when the page is opened
    Slot,         \* requests that can be in flight at the same time
    Late,         \* calls that can be given up and on their way at the same time
    Page,         \* the pages an operator works with
    MaxClicks     \* [Page -> Nat]: bound on what the operator does

Address == [host : Host, port : Port]
State   == [mode : {"server", "client", "off"}, port : Port,
            target : Address \cup {NoAddress}]
Cluster == [Machine -> State]

ASSUME HostAssumption == HostOf \in [Machine -> Host]
ASSUME PortAssumption == DEFAULT_CLUSTER_SERVER_PORT \in Port
ASSUME CapableAssumption == Capable \subseteq Machine
ASSUME NoneAssumption == /\ NoAddress \notin Address \cup Machine
                         /\ NoMachine \notin Machine \cup Host \cup Address \cup {NoAddress}
\* A machine, a host and the address of a server are different things.
ASSUME DisjointAssumption == Machine \cap Host = {} /\ Machine \cap Address = {}
ASSUME PageAssumption == Page \subseteq {"assign", "servers", "single", "clients"}
ASSUME InitialAssumption ==
    /\ InitialClusters \subseteq Cluster
    /\ \A c \in InitialClusters, m \in Machine : c[m].mode = "server" => m \in Capable
ASSUME BoundAssumption == MaxClicks \in [Page -> Nat]

VARIABLES
    page,     \* the page that is open; it stays open, reloads included
    broken,   \* loadError is set: the page hides its content
    cluster,  \* [Machine -> State]
    request,  \* [Slot -> Request]
    stray,    \* [Late -> Call or NoCall]: calls of tasks reported as failed
    clicks,   \* what the operator has done so far
    missed    \* since the page was loaded, a fetch was not answered, or
              \* answered after a later one (history)

base == <<page, broken, cluster, request, stray, clicks, missed>>

\* One row of clusterMap, sent as ClusterAppAssignMap: a machine of the
\* application, or a server elsewhere known by its host or its address.
GroupId    == Machine \cup Host \cup Address
RowId      == Machine \cup Address \cup {NoAddress}
Group      == [id : GroupId, host : Host, port : Port,
               clients : SUBSET Machine, own : BOOLEAN]
Assignment == [groups : SUBSET Group, rest : SUBSET Machine]
Addr(g)    == [host |-> g.host, port |-> g.port]

-----------------------------------------------------------------------------
(* Requests *)

FetchOp == {"list", "edit", "table", "clients", "machines", "state"}
PushOp  == {"assignAll", "assignNew", "assignEdit", "unbind", "modify"}

\* was: the machines that were read, and their states then.
Seen == UNION {[S -> State] : S \in SUBSET Machine}
Nothing == [m \in {} |-> NoMachine]

NoRequest == [op |-> "none"]
FetchOf(ops, ids) == [op : ops, about : ids, was : Seen]
Fetch  == FetchOf({"list", "table", "clients", "machines"}, {NoMachine})
          \cup FetchOf({"edit"}, RowId) \cup FetchOf({"state"}, Machine)
Lookup == [op : {"lookup"}, id : RowId, was : Seen, heard : BOOLEAN]
Task   == [stage : {1}, machine : Machine, mode : {"server"}, at : Address]
          \cup [stage : {2}, machine : Machine, mode : {"client"}, at : Address]
          \cup [stage : {3}, machine : Machine, mode : {"off"}, at : {NoAddress}]
\* overrun: the machines that a call of another push reached after its own.
Push   == [op : PushOp, saved : Assignment, todo : SUBSET Task,
           failed : SUBSET (GroupId \cup RowId), overrun : SUBSET Machine, heard : BOOLEAN]
\* A call that was given up; next is the one of its two that may still arrive.
Call   == [op : PushOp, task : Task, next : {1, 2}]
NoCall == [op |-> "none"]

IsFetch(r) == r.op \in FetchOp
IsPush(r)  == r.op \in PushOp
Pushing(r) == IsPush(r) \/ r.op = "lookup"

\* The tasks of a push: servers first, then clients, then the rest.
ServerTasks(a) ==
    {[stage |-> 1, machine |-> g.id, mode |-> "server", at |-> Addr(g)] :
        g \in {h \in a.groups : h.own}}
ClientTasks(a) ==
    UNION {{[stage |-> 2, machine |-> m, mode |-> "client", at |-> Addr(g)] :
        m \in g.clients} : g \in a.groups}
OffTasks(S) == {[stage |-> 3, machine |-> m, mode |-> "off", at |-> NoAddress] : m \in S}
AssignTasks(a) == ServerTasks(a) \cup ClientTasks(a) \cup OffTasks(a.rest)

NewFetch(op, about) == [op |-> op, about |-> about, was |-> Nothing]
NewPush(op, saved) ==
    [op |-> op, saved |-> saved, todo |-> AssignTasks(saved), failed |-> {},
     overrun |-> {}, heard |-> TRUE]

Unheard(r)   == IF Pushing(r) THEN [r EXCEPT !.heard = FALSE] ELSE NoRequest

Send(s, r) ==
    /\ request[s] = NoRequest
    /\ request' = [request EXCEPT ![s] = r]
Drop(s) == request' = [request EXCEPT ![s] = NoRequest]

\* What a page asks for when it is loaded.
FirstRequest(p) ==
    NewFetch(CASE p = "assign"  -> "list"     [] p = "servers" -> "table"
               [] p = "single"  -> "machines" [] p = "clients" -> "clients", NoMachine)

\* The page is loaded again: nobody hears the answers to earlier requests.
Reload(s) ==
    /\ request' = [t \in Slot |-> IF t = s THEN FirstRequest(page) ELSE Unheard(request[t])]
    /\ broken' = FALSE
    /\ missed' = FALSE

Click == clicks < MaxClicks[page] /\ clicks' = clicks + 1

-----------------------------------------------------------------------------
(* The dashboard's back end *)

\* getClusterUniversalState, for one machine.  One that fails is left out.
Read(s, m) ==
    /\ IsFetch(request[s]) \/ request[s].op = "lookup"
    /\ request[s].op # "machines"
    /\ request[s].op = "state" => m = request[s].about
    /\ m \notin DOMAIN request[s].was
    /\ request' = [request EXCEPT ![s].was =
         [n \in DOMAIN @ \cup {m} |-> IF n = m THEN cluster[m] ELSE @[n]]]
    /\ UNCHANGED <<page, broken, cluster, stray, clicks, missed>>

Configured(t, st) ==
    CASE t.mode = "server" -> [st EXCEPT !.port = t.at.port]
      [] t.mode = "client" -> [st EXCEPT !.target = t.at]
      [] t.mode = "off"    -> st

\* The state after the first or the second of the two calls of a task: first the
\* mode, then the configuration; for modify_single the other way round.
After(op, t, k, st) ==
    IF (k = 1) = (op = "modify") THEN Configured(t, st) ELSE [st EXCEPT !.mode = t.mode]
Halfway(op, t, st) == After(op, t, 1, st)
Done(t, st) == [Configured(t, st) EXCEPT !.mode = t.mode]

\* A call of another push, or one that outlived its push, reaches machine m.
Reached(r, m) == IF IsPush(r) THEN [r EXCEPT !.overrun = @ \cup {m}] ELSE r

\* Push s is done with task t.
Finishes(s, t, failed) ==
    request' = [u \in Slot |->
      IF u # s THEN Reached(request[u], t.machine)
      ELSE [request[s] EXCEPT !.todo = @ \ {t}, !.failed = @ \cup failed,
                              !.overrun = @ \ {t.machine}]]

\* Servers come first, then clients, then the rest.
Takes(s, t) ==
    /\ IsPush(request[s])
    /\ t \in request[s].todo
    /\ \A u \in request[s].todo : t.stage <= u.stage
    /\ UNCHANGED <<page, broken, clicks, missed>>

\* A machine without a server part refuses to be a server.
Willing(t) == t.mode = "server" => t.machine \in Capable

Succeeds(s, t) ==
    /\ Takes(s, t)
    /\ Willing(t)
    /\ cluster' = [cluster EXCEPT ![t.machine] = Done(t, @)]
    /\ Finishes(s, t, {})
    /\ UNCHANGED stray

\* The task fails with none, one or both of its calls carried out.
Outcomes(op, t) ==
    LET st == cluster[t.machine]
    IN  IF Willing(t) THEN {st, Halfway(op, t, st), Done(t, st)} ELSE {st}

\* Mutant: a machine that fails is only logged.
FailsUnreported(s, t) ==
    /\ Takes(s, t)
    /\ \E st \in Outcomes(request[s].op, t) : cluster' = [cluster EXCEPT ![t.machine] = st]
    /\ Finishes(s, t, {})
    /\ UNCHANGED stray
Fails(s, t) ==
    /\ Takes(s, t)
    /\ \E st \in Outcomes(request[s].op, t) : cluster' = [cluster EXCEPT ![t.machine] = st]
    /\ Finishes(s, t, {t.machine})
    /\ UNCHANGED stray

\* Nobody waits longer for it: the task is reported as failed while its first
\* call, or its second, is on its way.
GivesUp(s, t, l) ==
    /\ Takes(s, t)
    /\ Willing(t)
    /\ stray[l] = NoCall
    /\ LET r == request[s]
       IN  \E k \in {1, 2} :
             /\ stray' = [stray EXCEPT ![l] = [op |-> r.op, task |-> t, next |-> k]]
             /\ cluster' = [cluster EXCEPT ![t.machine] =
                              IF k = 1 THEN @ ELSE Halfway(r.op, t, @)]
    /\ Finishes(s, t, {t.machine})

\* A call that was given up arrives: the second one may follow it.
Arrives(l) ==
    /\ stray[l] # NoCall
    /\ LET c == stray[l]
           m == c.task.machine
       IN  /\ cluster' = [cluster EXCEPT ![m] = After(c.op, c.task, c.next, @)]
           /\ request' = [u \in Slot |-> Reached(request[u], m)]
           /\ \/ stray' = [stray EXCEPT ![l] = NoCall]
              \/ c.next = 1 /\ stray' = [stray EXCEPT ![l].next = 2]
    /\ UNCHANGED <<page, broken, clicks, missed>>

\* ... or never does.
Vanishes(l) ==
    /\ stray[l] # NoCall
    /\ stray' = [stray EXCEPT ![l] = NoCall]
    /\ UNCHANGED <<page, broken, cluster, request, clicks, missed>>

Servers(c) == {m \in DOMAIN c : c[m].mode = "server"}
Clients(c) == {m \in DOMAIN c : c[m].mode = "client"}

\* wrapToClusterGroup keeps one server per host, the first in the order of a
\* hash set.
GroupServer(c, h) == CHOOSE m \in Servers(c) : HostOf[m] = h
IsGroup(c, id) == id \in Machine => id \in Servers(c) /\ id = GroupServer(c, HostOf[id])

\* The machines that unbindClusterServer switches off: the group of a server's
\* host, or the clients of an address elsewhere.
UnbindSet(c, id) ==
    IF id \in Machine
    THEN {id} \cup {m \in Clients(c) : /\ c[m].target # NoAddress
                                      /\ c[m].target.host = HostOf[id]}
    ELSE {m \in Clients(c) : c[m].target = id}

\* unbindClusterServer has read the machines, or gives up and reports the id.
LookUp(s) ==
    /\ request[s].op = "lookup"
    /\ LET r == request[s]
           unbind(S, failed) ==
             [NewPush("unbind", [groups |-> {}, rest |-> S])
                EXCEPT !.failed = failed, !.heard = r.heard]
       IN  \/ /\ IsGroup(r.was, r.id)
              /\ request' = [request EXCEPT ![s] = unbind(UnbindSet(r.was, r.id), {})]
           \/ request' = [request EXCEPT ![s] = unbind({}, {r.id})]
    /\ UNCHANGED <<page, broken, cluster, stray, clicks, missed>>

\* A push that nobody listens to has ended.
EndUnheard(s) ==
    /\ IsPush(request[s])
    /\ request[s].todo = {}
    /\ ~request[s].heard
    /\ Drop(s)
    /\ UNCHANGED <<page, broken, cluster, stray, clicks, missed>>

\* The answer is lost.  A push goes on.
LoseAnswer(s) ==
    /\ IsFetch(request[s]) \/ (Pushing(request[s]) /\ request[s].heard)
    /\ request' = [request EXCEPT ![s] = Unheard(@)]
    /\ missed' = (missed \/ IsFetch(request[s]))
    /\ UNCHANGED <<page, broken, cluster, stray, clicks>>

Apply(s, t) == Succeeds(s, t) \/ Fails(s, t) \/ \E l \in Late : GivesUp(s, t, l)

Work(s) == \/ LookUp(s)
           \/ EndUnheard(s)
           \/ IsPush(request[s]) /\ \E t \in request[s].todo : Apply(s, t)
BackEnd == \/ \E s \in Slot : \/ Work(s)
                             \/ LoseAnswer(s)
                             \/ \E m \in Machine : Read(s, m)
           \/ \E l \in Late : Arrives(l) \/ Vanishes(l)

\* The answer to a fetch, or to a push, is there.
Answered(s, op) == request[s].op = op
Finished(s, op) == request[s].op = op /\ request[s].todo = {} /\ request[s].heard

\* An answer with an error code: loadError.
Refused(s) ==
    /\ Drop(s)
    /\ broken' = TRUE
    /\ UNCHANGED <<page, cluster, stray, clicks, missed>>

BaseInit ==
    /\ page \in Page
    /\ broken = FALSE
    /\ cluster \in InitialClusters
    /\ \E s \in Slot :
          request = [t \in Slot |-> IF t = s THEN FirstRequest(page) ELSE NoRequest]
    /\ stray = [l \in Late |-> NoCall]
    /\ clicks = 0
    /\ missed = FALSE

-----------------------------------------------------------------------------
(* What holds of machines and pushes, whatever the page *)

BaseTypeOK ==
    /\ page \in Page
    /\ broken \in BOOLEAN
    /\ cluster \in Cluster
    /\ request \in [Slot -> {NoRequest} \cup Fetch \cup Lookup \cup Push]
    /\ stray \in [Late -> Call \cup {NoCall}]
    /\ clicks \in 0..MaxClicks[page]
    /\ missed \in BOOLEAN

\* The tasks an assignment gives a machine.
TasksOf(a, m) == {t \in AssignTasks(a) : t.machine = m}

\* "全部推送成功": a machine that a push has worked on and does not report has the
\* role the operator placed it in, whatever failed before, was given up or was
\* lost, until a call of another push reaches it, be it one that outlived its
\* push.  Of a machine with two roles, which a late answer can put into the
\* dialog, nothing is said (cluster_app_assign_manage.js:264,
\* cluster_app_server_list.js:340, 395).
AllPushedMeansAssigned ==
    \A s \in Slot : IsPush(request[s]) =>
        LET r == request[s]
        IN  \A t \in AssignTasks(r.saved) \ r.todo :
              TasksOf(r.saved, t.machine) = {t} /\ t.machine \notin r.failed \cup r.overrun
                => cluster[t.machine] = Done(t, cluster[t.machine])
=============================================================================
