-------------------------- MODULE MachineRegistry --------------------------
(***************************************************************************)
(* The applications and machines the Sentinel dashboard knows:             *)
(* SimpleMachineDiscovery and its AppInfo objects, filled by heartbeats    *)
(* (MachineRegistryController), cleaned up by MetricFetcher.fetchOnce and  *)
(* by the operator (AppController).                                        *)
(*                                                                         *)
(*   apps       a map from names to AppInfo objects, which are mutable and *)
(*              shared: a thread that has looked one up goes on using it   *)
(*              after the map has dropped it.  Ref stands for the objects; *)
(*              one that nobody refers to any more may be used again.      *)
(*   heartbeat  looks the AppInfo up, removes the machine's old MachineInfo*)
(*              and adds the new one: three steps, no lock.                *)
(*   fetcher    looks the AppInfo up, judges it, and either removes the    *)
(*              application by name or goes through a copy of its machines *)
(*              and removes the dead ones.                                 *)
(*                                                                         *)
(* A MachineInfo never changes once it is added; it is modelled by its     *)
(* age, the time since its lastHeartbeat, which Tick increases.  A machine *)
(* belongs to one application and sends one heartbeat at a time.           *)
(***************************************************************************)
EXTENDS Naturals

CONSTANTS
    App,         \* application names
    Machine,     \* (ip, port) of the machines
    HostApp,     \* [Machine -> App]: the application a machine reports
    Fetcher,     \* the threads of fetchWorker
    Ref,         \* AppInfo objects
    NoRef,       \* null
    NoEntry,     \* no MachineInfo
    Unhealthy,   \* unhealthyMachineMillis, in ticks
    AutoRemove,  \* autoRemoveMachineMillis, 0 when it is off
    RemoveAfter, \* removeAppNoMachineMillis, 0 when it is off
    MaxAge       \* bound on ages; an older MachineInfo has this age

ASSUME HostAssumption  == App # {} /\ HostApp \in [Machine -> App]
ASSUME NullAssumption  == NoRef \notin Ref /\ NoEntry \notin Nat
ASSUME ConfigAssumption ==
    /\ Unhealthy \in Nat \ {0} /\ AutoRemove \in Nat /\ RemoveAfter \in Nat
    /\ MaxAge \in Nat
    /\ Unhealthy <= MaxAge /\ AutoRemove < MaxAge /\ RemoveAfter <= MaxAge

VARIABLES
    apps,      \* [App -> Ref or NoRef]: SimpleMachineDiscovery.apps
    machines,  \* [Ref -> Entries]: AppInfo.machines
    handler,   \* [Machine -> Handler]: the machine's heartbeat in progress
    newest,    \* [Machine -> Age]: the age of its newest MachineInfo
    stopped,   \* machines that will never send a heartbeat again
    fetch,     \* [Fetcher -> Fetch]: the fetchOnce in progress
    steady     \* [Fetcher -> SUBSET Machine]: machines that were registered
               \* and healthy ever since the fetch began (history)

vars == <<apps, machines, handler, newest, stopped, fetch, steady>>

Age     == 0 .. MaxAge
Entries == [Machine -> Age \cup {NoEntry}]
Handler == [at : {"idle", "remove", "add"}, ref : Ref \cup {NoRef}]
\* A fetchOnce: the AppInfo in hand, the entries of its copy still to visit,
\* and the dead machine it is removing.
Fetch   == [at : {"idle", "start", "judge", "removeApp", "copy", "machines", "drop"},
            app : App, ref : Ref \cup {NoRef}, todo : Entries, dead : SUBSET Machine]

Empty == [m \in Machine |-> NoEntry]
Without(entries, S) == [m \in Machine |-> IF m \in S THEN NoEntry ELSE entries[m]]
Present(entries) == {m \in Machine : entries[m] # NoEntry}

NoHandler == [at |-> "idle", ref |-> NoRef]
NoFetch   == [at |-> "idle", app |-> CHOOSE a \in App : TRUE, ref |-> NoRef,
              todo |-> Empty, dead |-> {}]

\* The objects that neither the map nor a thread refers to.
Free == {r \in Ref : /\ \A a \in App : apps[a] # r
                     /\ \A m \in Machine : handler[m].ref # r
                     /\ \A f \in Fetcher : fetch[f].ref # r}

Init ==
    /\ apps = [a \in App |-> NoRef]
    /\ machines = [r \in Ref |-> Empty]
    /\ handler = [m \in Machine |-> NoHandler]
    /\ newest = [m \in Machine |-> MaxAge]
    /\ stopped = {}
    /\ fetch = [f \in Fetcher |-> NoFetch]
    /\ steady = [f \in Fetcher |-> {}]

-----------------------------------------------------------------------------
(* MachineInfo and AppInfo *)

isHealthy(age) == age < Unhealthy

isDead(age) == AutoRemove > 0 /\ age > AutoRemove

\* Without healthy machines the latest heartbeat decides.  Mutant: the oldest.
heartbeatJudgeByOldest(entries) ==
    /\ Present(entries) # {}
    /\ RemoveAfter > 0 =>
          \A m \in Present(entries) : isHealthy(entries[m]) \/ entries[m] < RemoveAfter
heartbeatJudge(entries) ==
    /\ Present(entries) # {}
    /\ RemoveAfter > 0 =>
          \E m \in Present(entries) : isHealthy(entries[m]) \/ entries[m] < RemoveAfter

\* Set.add keeps the MachineInfo that is there already.
Added(entries, m, age) ==
    IF m \in Present(entries) THEN entries ELSE [entries EXCEPT ![m] = age]

-----------------------------------------------------------------------------
(* Time *)

Older(age) == IF age < MaxAge THEN age + 1 ELSE age
AllOlder(entries) ==
    [m \in Machine |-> IF entries[m] = NoEntry THEN NoEntry ELSE Older(entries[m])]

\* An object that nobody refers to loses its content.
Tick ==
    /\ machines' = [r \in Ref |-> IF r \in Free THEN Empty ELSE AllOlder(machines[r])]
    /\ newest' = [m \in Machine |-> Older(newest[m])]
    /\ fetch' = [f \in Fetcher |-> [fetch[f] EXCEPT !.todo = AllOlder(fetch[f].todo)]]
    /\ UNCHANGED <<apps, handler, stopped>>

-----------------------------------------------------------------------------
(* Heartbeats: receiveHeartBeat and addMachine *)

\* computeIfAbsent: the application is created by its first heartbeat.
ReceiveHeartBeat(m) ==
    /\ handler[m].at = "idle"
    /\ m \notin stopped
    /\ newest' = [newest EXCEPT ![m] = 0]
    /\ \/ /\ apps[HostApp[m]] # NoRef
          /\ handler' = [handler EXCEPT ![m] = [at |-> "remove", ref |-> apps[HostApp[m]]]]
          /\ UNCHANGED <<apps, machines>>
       \/ /\ apps[HostApp[m]] = NoRef
          /\ Free # {}
          /\ LET new == CHOOSE r \in Free : TRUE
             IN  /\ apps' = [apps EXCEPT ![HostApp[m]] = new]
                 /\ machines' = [machines EXCEPT ![new] = Empty]
                 /\ handler' = [handler EXCEPT ![m] = [at |-> "remove", ref |-> new]]
    /\ UNCHANGED <<stopped, fetch>>

\* Mutant: the old MachineInfo is not removed first.
RemoveNothing(m) ==
    /\ handler[m].at = "remove"
    /\ handler' = [handler EXCEPT ![m].at = "add"]
    /\ UNCHANGED <<apps, machines, newest, stopped, fetch>>
RemoveOld(m) ==
    /\ handler[m].at = "remove"
    /\ machines' = [machines EXCEPT ![handler[m].ref] = Without(@, {m})]
    /\ handler' = [handler EXCEPT ![m].at = "add"]
    /\ UNCHANGED <<apps, newest, stopped, fetch>>

AddNew(m) ==
    /\ handler[m].at = "add"
    /\ machines' = [machines EXCEPT ![handler[m].ref] = Added(@, m, newest[m])]
    /\ handler' = [handler EXCEPT ![m] = NoHandler]
    /\ UNCHANGED <<apps, newest, stopped, fetch>>

\* The process behind the machine ends for good.
Stop(m) ==
    /\ m \notin stopped
    /\ stopped' = stopped \cup {m}
    /\ UNCHANGED <<apps, machines, handler, newest, fetch>>

-----------------------------------------------------------------------------
(* The operator: removeMachineById.  It may have looked up any AppInfo      *)
(* before the map dropped it.                                               *)

RemoveMachineById(m, r) ==
    /\ r \notin Free
    /\ m \in Present(machines[r])
    /\ machines' = [machines EXCEPT ![r] = Without(@, {m})]
    /\ UNCHANGED <<apps, handler, newest, stopped, fetch>>

-----------------------------------------------------------------------------
(* The fetcher: fetchAllApp, doFetchAppMetric and fetchOnce *)

\* getAppNames finds the application; the task waits for a thread.
Submit(f, a) ==
    /\ fetch[f].at = "idle"
    /\ apps[a] # NoRef
    /\ fetch' = [fetch EXCEPT ![f] = [NoFetch EXCEPT !.at = "start", !.app = a]]
    /\ UNCHANGED <<apps, machines, handler, newest, stopped>>

\* An application removed meanwhile is null, which ends the task.  Mutant: it
\* goes on with null.
StartUnchecked(f) ==
    /\ fetch[f].at = "start"
    /\ fetch' = [fetch EXCEPT ![f].at = "judge", ![f].ref = apps[fetch[f].app]]
    /\ UNCHANGED <<apps, machines, handler, newest, stopped>>
Start(f) ==
    /\ fetch[f].at = "start"
    /\ fetch' = [fetch EXCEPT ![f] =
                    IF apps[fetch[f].app] = NoRef THEN NoFetch
                    ELSE [fetch[f] EXCEPT !.at = "judge", !.ref = apps[fetch[f].app]]]
    /\ UNCHANGED <<apps, machines, handler, newest, stopped>>

Judge(f) ==
    /\ fetch[f].at = "judge"
    /\ fetch' = [fetch EXCEPT ![f].at =
                    IF heartbeatJudge(machines[fetch[f].ref]) THEN "copy" ELSE "removeApp"]
    /\ UNCHANGED <<apps, machines, handler, newest, stopped>>

\* By name, whatever AppInfo has it by now.
RemoveApp(f) ==
    /\ fetch[f].at = "removeApp"
    /\ apps' = [apps EXCEPT ![fetch[f].app] = NoRef]
    /\ fetch' = [fetch EXCEPT ![f] = NoFetch]
    /\ UNCHANGED <<machines, handler, newest, stopped>>

CopyMachines(f) ==
    /\ fetch[f].at = "copy"
    /\ fetch' = [fetch EXCEPT ![f].at = "machines", ![f].todo = machines[fetch[f].ref]]
    /\ UNCHANGED <<apps, machines, handler, newest, stopped>>

\* A machine of the copy that is dead: the AppInfo is looked up again, and
\* null ends the task.  Mutant: it is only counted.
CountDead(f, m) ==
    /\ fetch[f].at = "machines"
    /\ m \in Present(fetch[f].todo)
    /\ isDead(fetch[f].todo[m])
    /\ fetch' = [fetch EXCEPT ![f].todo = Without(@, {m})]
    /\ UNCHANGED <<apps, machines, handler, newest, stopped>>
FindDead(f, m) ==
    /\ fetch[f].at = "machines"
    /\ m \in Present(fetch[f].todo)
    /\ isDead(fetch[f].todo[m])
    /\ fetch' = [fetch EXCEPT ![f] =
                    IF apps[fetch[f].app] = NoRef THEN NoFetch
                    ELSE [fetch[f] EXCEPT !.at = "drop", !.ref = apps[fetch[f].app],
                                          !.todo = Without(@, {m}), !.dead = {m}]]
    /\ UNCHANGED <<apps, machines, handler, newest, stopped>>

\* By address, whatever MachineInfo has it by now.
DropMachine(f) ==
    /\ fetch[f].at = "drop"
    /\ machines' = [machines EXCEPT ![fetch[f].ref] = Without(@, fetch[f].dead)]
    /\ fetch' = [fetch EXCEPT ![f].at = "machines", ![f].dead = {}]
    /\ UNCHANGED <<apps, handler, newest, stopped>>

\* A healthy machine is asked for its metrics, an unhealthy one is counted.
Visit(f, m) ==
    /\ fetch[f].at = "machines"
    /\ m \in Present(fetch[f].todo)
    /\ ~ isDead(fetch[f].todo[m])
    /\ fetch' = [fetch EXCEPT ![f].todo = Without(@, {m})]
    /\ UNCHANGED <<apps, machines, handler, newest, stopped>>

Finish(f) ==
    /\ fetch[f].at = "machines"
    /\ Present(fetch[f].todo) = {}
    /\ fetch' = [fetch EXCEPT ![f] = NoFetch]
    /\ UNCHANGED <<apps, machines, handler, newest, stopped>>

FetchStep(f) ==
    \/ Start(f) \/ Judge(f) \/ RemoveApp(f) \/ CopyMachines(f) \/ DropMachine(f) \/ Finish(f)
    \/ \E m \in Machine : FindDead(f, m) \/ Visit(f, m)

-----------------------------------------------------------------------------

\* The entries the dashboard shows for an application.
Shown(a) == IF apps[a] = NoRef THEN Empty ELSE machines[apps[a]]

Registered(m) == m \in Present(Shown(HostApp[m]))
Live(m) == Registered(m) /\ isHealthy(Shown(HostApp[m])[m])

\* The history: a fetch begins with the machines live when it looks the
\* application up, and keeps those that stay so.
Watch ==
    steady' = [f \in Fetcher |->
        IF fetch'[f].at \in {"idle", "start"} THEN {}
        ELSE {m \in IF fetch[f].at = "start" THEN Machine ELSE steady[f] :
                HostApp[m] = fetch[f].app /\ Live(m)'}]

Heartbeat(m) == ReceiveHeartBeat(m) \/ RemoveOld(m) \/ AddNew(m)

Step ==
    \/ Tick
    \/ \E m \in Machine : Heartbeat(m) \/ Stop(m)
    \/ \E m \in Machine, r \in Ref : RemoveMachineById(m, r)
    \/ \E f \in Fetcher : FetchStep(f) \/ \E a \in App : Submit(f, a)

Next == Step /\ Watch

Spec == Init /\ [][Next]_vars

\* Time passes, threads go on, and every round of fetchAllApp submits the
\* applications it finds.  No machine has to send heartbeats.
Fairness ==
    /\ WF_vars(Tick /\ Watch)
    /\ \A m \in Machine : WF_vars((RemoveOld(m) \/ AddNew(m)) /\ Watch)
    /\ \A f \in Fetcher : WF_vars(FetchStep(f) /\ Watch)
    /\ \A a \in App : WF_vars(\E f \in Fetcher : Submit(f, a) /\ Watch)

FairSpec == Spec /\ Fairness

-----------------------------------------------------------------------------
(* Properties *)

TypeOK ==
    /\ apps \in [App -> Ref \cup {NoRef}]
    /\ machines \in [Ref -> Entries]
    /\ handler \in [Machine -> Handler]
    /\ newest \in [Machine -> Age]
    /\ stopped \subseteq Machine
    /\ fetch \in [Fetcher -> Fetch]
    /\ steady \in [Fetcher -> SUBSET Machine]
    /\ \A m \in Machine : handler[m].at # "idle" => handler[m].ref \in Ref
    /\ \A f \in Fetcher : fetch[f].at \in {"judge", "copy", "drop"} => fetch[f].ref \in Ref

\* Between heartbeats, a machine that is registered is registered with its
\* latest heartbeat, whichever AppInfo objects its heartbeats, the fetches and
\* the operator worked on: addMachine (AppInfo.java:76) replaces the entry
\* although Set.add does not.
EntryIsLatest ==
    \A m \in Machine :
        handler[m].at = "idle" /\ Registered(m) => Shown(HostApp[m])[m] = newest[m]

\* A fetch never unregisters a machine, on its own or with its application,
\* that was registered and healthy ever since the fetch looked the application
\* up (MetricFetcher.fetchOnce), although it judges and removes in separate
\* steps, the application by its name and the machine by its address.
SteadyStays ==
    [][\A f \in Fetcher :
          fetch'[f].at # fetch[f].at => \A m \in steady[f] : Registered(m)']_vars

\* A machine that has stopped is unregistered for good after a while
\* (autoRemoveMachineMillis, MachineInfo.isDead).
StoppedIsForgotten == <>[] (\A m \in stopped : ~ Registered(m))

\* An application is only removed when none of its machines is healthy:
\* "Check whether current application has no healthy machines and should be
\* removed" (AppInfo.java:128).
OnlyDeadRemoved ==
    [][\A a \in App : apps[a] # NoRef /\ apps'[a] = NoRef
          => \A m \in Present(Shown(a)) : ~ isHealthy(Shown(a)[m])]_vars

=============================================================================
