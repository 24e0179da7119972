----------------------- MODULE MachineRegistry_proofs -----------------------
(***************************************************************************)
(* Theorems of MachineRegistry: type correctness, that a registered        *)
(* machine is registered with its latest heartbeat, and that a fetch never *)
(* unregisters a machine that stays healthy.                               *)
(***************************************************************************)
EXTENDS MachineRegistry, TLAPS

\* The object computeIfAbsent creates is one of the unused ones.
LEMMA NewIsFree ==
    ASSUME Free # {} PROVE (CHOOSE r \in Free : TRUE) \in Free
OBVIOUS

LEMMA FreeFacts ==
    ASSUME NEW r \in Free
    PROVE  /\ r \in Ref
           /\ \A a \in App : apps[a] # r
           /\ \A m \in Machine : handler[m].ref # r
           /\ \A f \in Fetcher : fetch[f].ref # r
BY DEF Free

\* Ages stay within the bound, and entries stay entries.
LEMMA OlderIsAge ==
    ASSUME NEW age \in Age PROVE Older(age) \in Age
BY ConfigAssumption DEF Age, Older

LEMMA EntriesTypes ==
    /\ Empty \in Entries
    /\ \A e \in Entries : AllOlder(e) \in Entries
    /\ \A e \in Entries, S \in SUBSET Machine : Without(e, S) \in Entries
    /\ \A e \in Entries, m \in Machine, age \in Age : Added(e, m, age) \in Entries
BY OlderIsAge DEF Entries, Empty, AllOlder, Without, Added, Present

LEMMA NoFetchType == NoFetch \in Fetch
<1>1. (CHOOSE a \in App : TRUE) \in App
  BY HostAssumption
<1> QED
  BY <1>1, EntriesTypes DEF NoFetch, Fetch

-----------------------------------------------------------------------------
(* Type correctness *)

LEMMA TypeInit == Init => TypeOK
<1> SUFFICES ASSUME Init PROVE TypeOK
  OBVIOUS
<1>1. fetch \in [Fetcher -> Fetch]
  BY NoFetchType DEF Init
<1>2. newest \in [Machine -> Age] /\ machines \in [Ref -> Entries]
  BY EntriesTypes, ConfigAssumption DEF Init, Age
<1> QED
  BY <1>1, <1>2 DEF Init, TypeOK, Handler, NoHandler, NoFetch

\* What TypeOK says of the fetches.
FetchOK ==
    /\ fetch \in [Fetcher -> Fetch]
    /\ \A f \in Fetcher : fetch[f].at \in {"judge", "copy", "drop"} => fetch[f].ref \in Ref

LEMMA FetchType ==
    ASSUME TypeOK, NEW f \in Fetcher, FetchStep(f) \/ \E a \in App : Submit(f, a)
    PROVE  FetchOK'
<1> USE DEF FetchOK
<1>1. ASSUME NEW a \in App, Submit(f, a) PROVE FetchOK'
  <2>1. [NoFetch EXCEPT !.at = "start", !.app = a] \in Fetch
    BY NoFetchType DEF Fetch
  <2>2. [NoFetch EXCEPT !.at = "start", !.app = a].at = "start"
    BY NoFetchType DEF Fetch
  <2> QED
    BY <1>1, <2>1, <2>2 DEF TypeOK, Submit
<1>2. CASE Start(f)
  <2>1. CASE apps[fetch[f].app] = NoRef
    BY <1>2, <2>1, NoFetchType DEF TypeOK, Start, NoFetch
  <2>2. CASE apps[fetch[f].app] # NoRef
    <3>1. apps[fetch[f].app] \in Ref
      BY <2>2 DEF TypeOK, Fetch
    <3>2. [fetch[f] EXCEPT !.at = "judge", !.ref = apps[fetch[f].app]] \in Fetch
      BY <3>1 DEF TypeOK, Fetch
    <3>3. [fetch[f] EXCEPT !.at = "judge", !.ref = apps[fetch[f].app]].ref \in Ref
      BY <3>1 DEF TypeOK, Fetch
    <3> QED
      BY <1>2, <2>2, <3>2, <3>3 DEF TypeOK, Start
  <2> QED
    BY <2>1, <2>2
<1>3. CASE Judge(f)
  BY <1>3 DEF TypeOK, Judge, Fetch
<1>4. CASE RemoveApp(f)
  BY <1>4, NoFetchType DEF TypeOK, RemoveApp, NoFetch
<1>5. CASE CopyMachines(f)
  <2> DEFINE copy == [fetch[f] EXCEPT !.at = "machines", !.todo = machines[fetch[f].ref]]
  <2>1. machines[fetch[f].ref] \in Entries
    BY <1>5 DEF TypeOK, CopyMachines
  <2>2. copy \in Fetch /\ copy.at = "machines"
    BY <2>1 DEF TypeOK, Fetch
  <2>3. fetch' = [fetch EXCEPT ![f] = copy]
    BY <1>5 DEF TypeOK, CopyMachines, Fetch
  <2> QED
    BY <2>2, <2>3 DEF TypeOK
<1>6. CASE DropMachine(f)
  <2> DEFINE dropped == [fetch[f] EXCEPT !.at = "machines", !.dead = {}]
  <2>1. dropped \in Fetch /\ dropped.at = "machines"
    BY DEF TypeOK, Fetch
  <2>2. fetch' = [fetch EXCEPT ![f] = dropped]
    BY <1>6 DEF TypeOK, DropMachine, Fetch
  <2> QED
    BY <2>1, <2>2 DEF TypeOK
<1>7. CASE Finish(f)
  BY <1>7, NoFetchType DEF TypeOK, Finish, NoFetch
<1>8. ASSUME NEW m \in Machine, FindDead(f, m) PROVE FetchOK'
  <2>1. CASE apps[fetch[f].app] = NoRef
    BY <1>8, <2>1, NoFetchType DEF TypeOK, FindDead, NoFetch
  <2>2. CASE apps[fetch[f].app] # NoRef
    <3>1. apps[fetch[f].app] \in Ref /\ Without(fetch[f].todo, {m}) \in Entries
      BY <2>2, EntriesTypes DEF TypeOK, Fetch
    <3> DEFINE found == [fetch[f] EXCEPT !.at = "drop", !.ref = apps[fetch[f].app],
                                         !.todo = Without(@, {m}), !.dead = {m}]
    <3>2. found \in Fetch /\ found.ref \in Ref
      BY <3>1 DEF TypeOK, Fetch
    <3>3. fetch' = [fetch EXCEPT ![f] = found]
      BY <1>8, <2>2 DEF FindDead
    <3> QED
      BY <3>2, <3>3 DEF TypeOK
  <2> QED
    BY <2>1, <2>2
<1>9. ASSUME NEW m \in Machine, Visit(f, m) PROVE FetchOK'
  <2>1. Without(fetch[f].todo, {m}) \in Entries
    BY EntriesTypes DEF TypeOK, Fetch
  <2> QED
    BY <1>9, <2>1 DEF TypeOK, Visit, Fetch
<1> QED
  BY <1>1, <1>2, <1>3, <1>4, <1>5, <1>6, <1>7, <1>8, <1>9 DEF FetchStep

\* What TypeOK says of the objects and the heartbeats.
RegistryOK ==
    /\ apps \in [App -> Ref \cup {NoRef}]
    /\ machines \in [Ref -> Entries]
    /\ handler \in [Machine -> Handler]
    /\ newest \in [Machine -> Age]
    /\ \A m \in Machine : handler[m].at # "idle" => handler[m].ref \in Ref

LEMMA HeartbeatType ==
    ASSUME TypeOK, NEW m \in Machine, Heartbeat(m)
    PROVE  RegistryOK'
<1> USE DEF RegistryOK
<1>1. HostApp[m] \in App
  BY HostAssumption
<1>2. CASE ReceiveHeartBeat(m)
  <2>1. 0 \in Age
    BY ConfigAssumption DEF Age
  <2>2. CASE apps[HostApp[m]] # NoRef
    <3>1. apps[HostApp[m]] \in Ref
      BY <1>1, <2>2 DEF TypeOK
    <3>2. UNCHANGED <<apps, machines>>
          /\ handler' = [handler EXCEPT ![m] = [at |-> "remove", ref |-> apps[HostApp[m]]]]
          /\ newest' = [newest EXCEPT ![m] = 0]
      BY <1>2, <2>2 DEF ReceiveHeartBeat
    <3> QED
      BY <2>1, <3>1, <3>2 DEF TypeOK, Handler
  <2>3. CASE apps[HostApp[m]] = NoRef
    <3> DEFINE new == CHOOSE r \in Free : TRUE
    <3>1. new \in Ref
      BY <1>2, <2>3, NewIsFree, FreeFacts DEF ReceiveHeartBeat
    <3>2. apps' = [apps EXCEPT ![HostApp[m]] = new]
          /\ machines' = [machines EXCEPT ![new] = Empty]
          /\ handler' = [handler EXCEPT ![m] = [at |-> "remove", ref |-> new]]
          /\ newest' = [newest EXCEPT ![m] = 0]
      BY <1>2, <2>3 DEF ReceiveHeartBeat
    <3> HIDE DEF new
    <3>3. [at |-> "remove", ref |-> new] \in Handler
      BY <3>1 DEF Handler
    <3>4. handler' \in [Machine -> Handler]
          /\ \A n \in Machine : handler'[n].at # "idle" => handler'[n].ref \in Ref
      BY <3>1, <3>2, <3>3 DEF TypeOK
    <3>5. apps' \in [App -> Ref \cup {NoRef}] /\ newest' \in [Machine -> Age]
      BY <2>1, <3>1, <3>2 DEF TypeOK
    <3>6. machines' \in [Ref -> Entries]
      BY <3>1, <3>2, EntriesTypes DEF TypeOK
    <3> QED
      BY <3>4, <3>5, <3>6
  <2> QED
    BY <2>2, <2>3
<1>3. CASE RemoveOld(m)
  <2>1. handler[m].ref \in Ref /\ machines[handler[m].ref] \in Entries
    BY <1>3 DEF TypeOK, RemoveOld
  <2>2. Without(machines[handler[m].ref], {m}) \in Entries
    BY <2>1, EntriesTypes
  <2> QED
    BY <1>3, <2>1, <2>2 DEF TypeOK, RemoveOld, Handler
<1>4. CASE AddNew(m)
  <2>1. handler[m].ref \in Ref /\ machines[handler[m].ref] \in Entries
    BY <1>4 DEF TypeOK, AddNew
  <2>2. Added(machines[handler[m].ref], m, newest[m]) \in Entries
    BY <2>1, EntriesTypes DEF TypeOK
  <2> QED
    BY <1>4, <2>1, <2>2 DEF TypeOK, AddNew, Handler, NoHandler
<1> QED
  BY <1>2, <1>3, <1>4 DEF Heartbeat

LEMMA TypeStep == TypeOK /\ [Next]_vars => TypeOK'
<1> SUFFICES ASSUME TypeOK, [Next]_vars PROVE TypeOK'
  OBVIOUS
<1>1. CASE UNCHANGED vars
  BY <1>1 DEF TypeOK, vars
<1>2. ASSUME Step, Watch PROVE TypeOK'
  <2>1. steady' \in [Fetcher -> SUBSET Machine]
    BY <1>2 DEF Watch, TypeOK
  <2>2. CASE Tick
    <3>1. machines' \in [Ref -> Entries]
      BY <2>2, EntriesTypes DEF Tick, TypeOK
    <3>2. newest' \in [Machine -> Age]
      BY <2>2, OlderIsAge DEF Tick, TypeOK
    <3>3. \A f \in Fetcher : [fetch[f] EXCEPT !.todo = AllOlder(fetch[f].todo)] \in Fetch
      BY EntriesTypes DEF TypeOK, Fetch
    <3>4. fetch' \in [Fetcher -> Fetch]
          /\ \A f \in Fetcher : fetch'[f].at = fetch[f].at /\ fetch'[f].ref = fetch[f].ref
      BY <2>2, <3>3 DEF Tick, TypeOK, Fetch
    <3> QED
      BY <2>1, <2>2, <3>1, <3>2, <3>4 DEF Tick, TypeOK
  <2>3. ASSUME NEW m \in Machine, Heartbeat(m) PROVE TypeOK'
    <3>1. UNCHANGED <<stopped, fetch>>
      BY <2>3 DEF Heartbeat, ReceiveHeartBeat, RemoveOld, AddNew
    <3>2. RegistryOK'
      BY <2>3, HeartbeatType
    <3> QED
      BY <2>1, <3>1, <3>2 DEF TypeOK, RegistryOK
  <2>4. ASSUME NEW m \in Machine, Stop(m) PROVE TypeOK'
    BY <2>1, <2>4 DEF TypeOK, Stop
  <2>5. ASSUME NEW m \in Machine, NEW r \in Ref, RemoveMachineById(m, r) PROVE TypeOK'
    <3>1. Without(machines[r], {m}) \in Entries
      BY EntriesTypes DEF TypeOK
    <3> QED
      BY <2>1, <2>5, <3>1 DEF TypeOK, RemoveMachineById
  <2>6. ASSUME NEW f \in Fetcher, FetchStep(f) \/ \E a \in App : Submit(f, a) PROVE TypeOK'
    <3>1. FetchOK'
      BY <2>6, FetchType
    <3>2. UNCHANGED <<handler, newest, stopped>>
      BY <2>6 DEF FetchStep, Submit, Start, Judge, RemoveApp, CopyMachines, DropMachine,
                  FindDead, Visit, Finish
    <3>3. apps' \in [App -> Ref \cup {NoRef}]
      BY <2>6 DEF TypeOK, FetchStep, Submit, Start, Judge, RemoveApp, CopyMachines,
                  DropMachine, FindDead, Visit, Finish
    <3>4. machines' \in [Ref -> Entries]
      <4>1. CASE DropMachine(f)
        <5>1. fetch[f].ref \in Ref /\ fetch[f].dead \in SUBSET Machine
          BY <4>1 DEF TypeOK, DropMachine, Fetch
        <5>2. Without(machines[fetch[f].ref], fetch[f].dead) \in Entries
          BY <5>1, EntriesTypes DEF TypeOK
        <5> QED
          BY <4>1, <5>1, <5>2 DEF TypeOK, DropMachine
      <4>2. CASE ~ DropMachine(f)
        BY <2>6, <4>2 DEF TypeOK, FetchStep, Submit, Start, Judge, RemoveApp, CopyMachines,
                          FindDead, Visit, Finish
      <4> QED
        BY <4>1, <4>2
    <3> QED
      BY <2>1, <3>1, <3>2, <3>3, <3>4 DEF TypeOK, FetchOK
  <2> QED
    BY <1>2, <2>2, <2>3, <2>4, <2>5, <2>6 DEF Step
<1> QED
  BY <1>1, <1>2 DEF Next

\* Every reachable state is well typed; in particular no heartbeat and no
\* fetch ever works on a null AppInfo.
THEOREM TypeCorrect == Spec => []TypeOK
<1> QED
  BY TypeInit, TypeStep, PTL DEF Spec

-----------------------------------------------------------------------------
(* A registered machine is registered with its latest heartbeat *)

\* EntryIsLatest for one machine, and what keeps it: an entry is never put
\* back behind the back of a heartbeat in progress, neither into the AppInfo it
\* works on nor into one that has replaced it.
EntryInv(m) ==
    LET a == HostApp[m]
        registered == apps[a] # NoRef /\ machines[apps[a]][m] # NoEntry
    IN  /\ handler[m].at = "idle" /\ registered => machines[apps[a]][m] = newest[m]
        /\ handler[m].at = "add" => machines[handler[m].ref][m] = NoEntry
        /\ handler[m].at # "idle" /\ registered => apps[a] = handler[m].ref

LEMMA EntryInvMeaning == (\A m \in Machine : EntryInv(m)) => EntryIsLatest
<1>1. ASSUME NEW m \in Machine, Registered(m)
      PROVE  /\ apps[HostApp[m]] # NoRef /\ machines[apps[HostApp[m]]][m] # NoEntry
             /\ Shown(HostApp[m])[m] = machines[apps[HostApp[m]]][m]
  BY <1>1 DEF Registered, Shown, Present, Empty
<1> QED
  BY <1>1 DEF EntryInv, EntryIsLatest

\* Whoever else acts, the entry of a machine stays or goes, in every object,
\* and another object in the map does not have it.
LEMMA OthersOnlyRemove ==
    ASSUME TypeOK, NEW m \in Machine, EntryInv(m),
           handler'[m] = handler[m], newest'[m] = newest[m],
           \A r \in Ref : machines'[r][m] \in {machines[r][m], NoEntry},
           \/ apps'[HostApp[m]] \in {apps[HostApp[m]], NoRef}
           \/ machines'[apps'[HostApp[m]]][m] = NoEntry
    PROVE  EntryInv(m)'
<1>1. HostApp[m] \in App
  BY HostAssumption
<1>2. apps[HostApp[m]] \in Ref \cup {NoRef} /\ (handler[m].at = "add" => handler[m].ref \in Ref)
  BY <1>1 DEF TypeOK
<1> QED
  BY <1>1, <1>2 DEF EntryInv

LEMMA EntryOfOther ==
    ASSUME TypeOK, NEW n \in Machine, Heartbeat(n), NEW m \in Machine, m # n, EntryInv(m)
    PROVE  EntryInv(m)'
<1>1. HostApp[m] \in App /\ HostApp[n] \in App
  BY HostAssumption
<1>2. handler'[m] = handler[m] /\ newest'[m] = newest[m]
  BY DEF TypeOK, Heartbeat, ReceiveHeartBeat, RemoveOld, AddNew
<1>3. CASE ReceiveHeartBeat(n) /\ apps[HostApp[n]] = NoRef
  <2> DEFINE new == CHOOSE r \in Free : TRUE
  <2>1. new \in Ref
    BY <1>3, NewIsFree, FreeFacts DEF ReceiveHeartBeat
  <2>2. apps' = [apps EXCEPT ![HostApp[n]] = new]
        /\ machines' = [machines EXCEPT ![new] = Empty]
    BY <1>3 DEF ReceiveHeartBeat
  <2> HIDE DEF new
  <2>3. \A r \in Ref : machines'[r][m] \in {machines[r][m], NoEntry}
    BY <2>1, <2>2 DEF TypeOK, Empty
  <2>4. \/ apps'[HostApp[m]] \in {apps[HostApp[m]], NoRef}
        \/ machines'[apps'[HostApp[m]]][m] = NoEntry
    BY <1>1, <2>1, <2>2 DEF TypeOK, Empty
  <2> QED
    BY <1>2, <2>3, <2>4, OthersOnlyRemove
<1>4. CASE ReceiveHeartBeat(n) /\ apps[HostApp[n]] # NoRef
  BY <1>2, <1>4, OthersOnlyRemove DEF ReceiveHeartBeat
<1>5. CASE RemoveOld(n)
  <2>1. \A r \in Ref : machines'[r][m] = machines[r][m]
    BY <1>5 DEF RemoveOld, Without, TypeOK
  <2> QED
    BY <1>2, <1>5, <2>1, OthersOnlyRemove DEF RemoveOld
<1>6. CASE AddNew(n)
  <2>1. \A r \in Ref : machines'[r][m] = machines[r][m]
    BY <1>6 DEF AddNew, Added, TypeOK, Entries
  <2> QED
    BY <1>2, <1>6, <2>1, OthersOnlyRemove DEF AddNew
<1> QED
  BY <1>3, <1>4, <1>5, <1>6 DEF Heartbeat

\* The machine's own heartbeat.
LEMMA EntryOfOwn ==
    ASSUME TypeOK, NEW m \in Machine, Heartbeat(m), EntryInv(m)
    PROVE  EntryInv(m)'
<1>1. HostApp[m] \in App
  BY HostAssumption
<1>2. CASE ReceiveHeartBeat(m)
  <2>1. handler'[m].at = "remove" /\ handler'[m].ref = apps'[HostApp[m]]
    <3>1. CASE apps[HostApp[m]] # NoRef
      BY <1>2, <3>1 DEF ReceiveHeartBeat, TypeOK
    <3>2. CASE apps[HostApp[m]] = NoRef
      <4> DEFINE new == CHOOSE r \in Free : TRUE
      <4>1. apps' = [apps EXCEPT ![HostApp[m]] = new]
            /\ handler' = [handler EXCEPT ![m] = [at |-> "remove", ref |-> new]]
        BY <1>2, <3>2 DEF ReceiveHeartBeat
      <4> HIDE DEF new
      <4> QED
        BY <1>1, <4>1 DEF TypeOK
    <3> QED
      BY <3>1, <3>2
  <2> QED
    BY <2>1 DEF EntryInv
<1>3. CASE RemoveOld(m)
  <2>1. handler[m].ref \in Ref /\ machines[handler[m].ref] \in Entries
    BY <1>3 DEF RemoveOld, TypeOK
  <2>2. handler'[m].at = "add" /\ handler'[m].ref = handler[m].ref
    BY <1>3 DEF RemoveOld, TypeOK, Handler
  <2>3. machines'[handler[m].ref][m] = NoEntry
        /\ \A r \in Ref : r # handler[m].ref => machines'[r] = machines[r]
    BY <1>3, <2>1 DEF RemoveOld, Without, TypeOK
  <2>4. apps' = apps /\ apps[HostApp[m]] \in Ref \cup {NoRef} /\ handler[m].at = "remove"
    BY <1>1, <1>3 DEF RemoveOld, TypeOK
  <2> QED
    BY <2>1, <2>2, <2>3, <2>4 DEF EntryInv
<1>4. CASE AddNew(m)
  <2>1. handler[m].ref \in Ref /\ machines[handler[m].ref] \in Entries /\ handler[m].at = "add"
    BY <1>4 DEF AddNew, TypeOK
  <2>2. handler'[m].at = "idle" /\ newest'[m] = newest[m]
    BY <1>4 DEF AddNew, TypeOK, NoHandler
  <2>3. machines[handler[m].ref][m] = NoEntry
    BY <2>1 DEF EntryInv
  <2>4. machines'[handler[m].ref][m] = newest[m]
        /\ \A r \in Ref : r # handler[m].ref => machines'[r] = machines[r]
    BY <1>4, <2>1, <2>3 DEF AddNew, Added, Present, TypeOK, Entries
  <2>5. apps' = apps /\ apps[HostApp[m]] \in Ref \cup {NoRef}
    BY <1>1, <1>4 DEF AddNew, TypeOK
  <2> QED
    BY <2>1, <2>2, <2>4, <2>5 DEF EntryInv
<1> QED
  BY <1>2, <1>3, <1>4 DEF Heartbeat

LEMMA EntryOverTime ==
    ASSUME TypeOK, Tick, NEW m \in Machine, EntryInv(m)
    PROVE  EntryInv(m)'
<1>1. HostApp[m] \in App /\ apps' = apps /\ handler' = handler /\ apps[HostApp[m]] \in Ref \cup {NoRef}
  BY HostAssumption DEF Tick, TypeOK
<1>2. newest'[m] = Older(newest[m])
  BY DEF Tick
<1>3. \A r \in Ref : \/ machines'[r][m] = NoEntry /\ (machines[r][m] = NoEntry \/ r \in Free)
                     \/ machines[r][m] # NoEntry /\ machines'[r][m] = Older(machines[r][m])
  BY DEF Tick, AllOlder, Empty
<1>4. handler[m].at = "add" => handler[m].ref \in Ref
  BY DEF TypeOK
<1>5. \A r \in Ref : machines[r][m] = NoEntry => machines'[r][m] = NoEntry
  BY DEF Tick, AllOlder, Empty
<1> QED
  BY <1>1, <1>2, <1>3, <1>4, <1>5 DEF EntryInv

LEMMA EntryStep ==
    ASSUME TypeOK, [Next]_vars, NEW m \in Machine, EntryInv(m)
    PROVE  EntryInv(m)'
<1>1. CASE UNCHANGED vars
  BY <1>1 DEF EntryInv, vars
<1>2. CASE Step
  <2>1. CASE Tick
    BY <2>1, EntryOverTime
  <2>2. ASSUME NEW n \in Machine, Heartbeat(n) PROVE EntryInv(m)'
    BY <2>2, EntryOfOther, EntryOfOwn
  <2>3. ASSUME NEW n \in Machine, Stop(n) PROVE EntryInv(m)'
    BY <2>3 DEF Stop, EntryInv
  <2>4. ASSUME NEW n \in Machine, NEW r \in Ref, RemoveMachineById(n, r) PROVE EntryInv(m)'
    <3>1. \A s \in Ref : machines'[s][m] \in {machines[s][m], NoEntry}
      BY <2>4 DEF RemoveMachineById, Without, TypeOK
    <3> QED
      BY <2>4, <3>1, OthersOnlyRemove DEF RemoveMachineById
  <2>5. ASSUME NEW f \in Fetcher, FetchStep(f) \/ \E a \in App : Submit(f, a) PROVE EntryInv(m)'
    <3>1. UNCHANGED <<handler, newest>>
      BY <2>5 DEF FetchStep, Submit, Start, Judge, RemoveApp, CopyMachines, DropMachine,
                  FindDead, Visit, Finish
    <3>2. \A s \in Ref : machines'[s][m] \in {machines[s][m], NoEntry}
      <4>1. CASE DropMachine(f)
        BY <4>1 DEF DropMachine, Without, TypeOK
      <4>2. CASE ~ DropMachine(f)
        BY <2>5, <4>2 DEF FetchStep, Submit, Start, Judge, RemoveApp, CopyMachines,
                          FindDead, Visit, Finish
      <4> QED
        BY <4>1, <4>2
    <3>3. apps'[HostApp[m]] \in {apps[HostApp[m]], NoRef}
      BY <2>5, HostAssumption
         DEF FetchStep, Submit, Start, Judge, RemoveApp, CopyMachines, DropMachine,
             FindDead, Visit, Finish, TypeOK
    <3> QED
      BY <3>1, <3>2, <3>3, OthersOnlyRemove
  <2> QED
    BY <1>2, <2>1, <2>2, <2>3, <2>4, <2>5 DEF Step
<1> QED
  BY <1>1, <1>2 DEF Next

\* Between heartbeats every registered machine is registered with its latest
\* heartbeat, for any number of machines, fetches and AppInfo objects.
THEOREM EntriesAreLatest == Spec => []EntryIsLatest
<1>1. Init => \A m \in Machine : EntryInv(m)
  <2> SUFFICES ASSUME Init, NEW m \in Machine PROVE EntryInv(m)
    OBVIOUS
  <2>1. HostApp[m] \in App
    BY HostAssumption
  <2> QED
    BY <2>1 DEF Init, EntryInv, NoHandler
<1>2. TypeOK /\ (\A m \in Machine : EntryInv(m)) /\ [Next]_vars => (\A m \in Machine : EntryInv(m))'
  BY EntryStep
<1>3. (\A m \in Machine : EntryInv(m)) => EntryIsLatest
  BY EntryInvMeaning
<1> QED
  BY <1>1, <1>2, <1>3, TypeCorrect, PTL DEF Spec

-----------------------------------------------------------------------------
(* A fetch never unregisters a machine that stays healthy *)

\* The entry of machine m in the map, when there is one, is entry(m).
there(m) == apps[HostApp[m]] # NoRef /\ machines[apps[HostApp[m]]][m] # NoEntry
entry(m) == machines[apps[HostApp[m]]][m]

\* As long as a machine stays registered and healthy, the AppInfo in the hands
\* of a fetch is the one in the map, its copy has the machine's present entry,
\* and the machine is not the one it is removing.
HandInv(f, m) ==
    /\ fetch[f].at = "start" => fetch[f].todo[m] = NoEntry /\ m \notin fetch[f].dead
    /\ m \in steady[f] =>
          /\ fetch[f].at \in {"judge", "copy", "machines", "drop"}
          /\ HostApp[m] = fetch[f].app
          /\ there(m) /\ isHealthy(entry(m))
          /\ fetch[f].ref = apps[fetch[f].app]
          /\ fetch[f].todo[m] \in {NoEntry, entry(m)}
          /\ m \notin fetch[f].dead

LEMMA LiveMeaning ==
    ASSUME NEW m \in Machine
    PROVE  /\ Registered(m) <=> there(m)
           /\ Live(m) <=> there(m) /\ isHealthy(entry(m))
           /\ there(m) => Shown(HostApp[m])[m] = entry(m)
BY DEF Registered, Live, Shown, Present, Empty, there, entry

LEMMA LiveMeaningNext ==
    ASSUME NEW m \in Machine
    PROVE  /\ Registered(m)' <=> there(m)'
           /\ Live(m)' <=> there(m)' /\ isHealthy(entry(m)')
BY DEF Registered, Live, Shown, Present, Empty, there, entry, isHealthy

LEMMA WatchMeaning ==
    ASSUME Watch, NEW f \in Fetcher, NEW m \in Machine, m \in steady'[f]
    PROVE  /\ fetch'[f].at \notin {"idle", "start"}
           /\ HostApp[m] = fetch[f].app
           /\ there(m)' /\ isHealthy(entry(m)')
           /\ fetch[f].at = "start" \/ m \in steady[f]
BY LiveMeaningNext DEF Watch

\* What a heartbeat does to a machine that is registered before and after: to
\* its own entry nothing, and nothing to the AppInfo in the map.
LEMMA HeartbeatKeeps ==
    ASSUME TypeOK, NEW n \in Machine, Heartbeat(n), NEW m \in Machine, there(m), there(m)'
    PROVE  apps'[HostApp[m]] = apps[HostApp[m]] /\ entry(m)' = entry(m)
<1>1. HostApp[m] \in App /\ HostApp[n] \in App
  BY HostAssumption
<1>2. apps[HostApp[m]] \in Ref
  BY <1>1 DEF there, TypeOK
<1>3. CASE ReceiveHeartBeat(n) /\ apps[HostApp[n]] = NoRef
  <2> DEFINE new == CHOOSE r \in Free : TRUE
  <2>1. new \in Ref /\ new # apps[HostApp[m]]
    BY <1>1, <1>3, NewIsFree, FreeFacts DEF ReceiveHeartBeat
  <2>2. apps' = [apps EXCEPT ![HostApp[n]] = new]
        /\ machines' = [machines EXCEPT ![new] = Empty]
    BY <1>3 DEF ReceiveHeartBeat
  <2> HIDE DEF new
  <2>3. HostApp[m] # HostApp[n]
    BY <1>3 DEF there
  <2> QED
    BY <1>1, <1>2, <2>1, <2>2, <2>3 DEF TypeOK, entry
<1>4. CASE ReceiveHeartBeat(n) /\ apps[HostApp[n]] # NoRef
  BY <1>4 DEF ReceiveHeartBeat, entry
<1>5. CASE RemoveOld(n)
  <2>1. apps' = apps /\ handler[n].ref \in Ref
        /\ machines' = [machines EXCEPT ![handler[n].ref] = Without(@, {n})]
    BY <1>5 DEF RemoveOld, TypeOK
  <2> QED
    BY <1>2, <2>1 DEF TypeOK, there, entry, Without
<1>6. CASE AddNew(n)
  <2>1. apps' = apps /\ handler[n].ref \in Ref
        /\ machines' = [machines EXCEPT ![handler[n].ref] = Added(@, n, newest[n])]
    BY <1>6 DEF AddNew, TypeOK
  <2>2. \A e \in Entries : e[m] # NoEntry => Added(e, n, newest[n])[m] = e[m]
    BY DEF Added, Present, Entries
  <2> QED
    BY <1>2, <2>1, <2>2 DEF TypeOK, there, entry
<1> QED
  BY <1>3, <1>4, <1>5, <1>6 DEF Heartbeat

\* The same of a step of a fetch.
LEMMA FetchKeeps ==
    ASSUME TypeOK, NEW g \in Fetcher, FetchStep(g) \/ \E a \in App : Submit(g, a),
           NEW m \in Machine, there(m), there(m)'
    PROVE  apps'[HostApp[m]] = apps[HostApp[m]] /\ entry(m)' = entry(m)
<1>1. HostApp[m] \in App
  BY HostAssumption
<1>2. apps[HostApp[m]] \in Ref
  BY <1>1 DEF there, TypeOK
<1>3. CASE RemoveApp(g)
  <2>1. apps' = [apps EXCEPT ![fetch[g].app] = NoRef] /\ machines' = machines
    BY <1>3 DEF RemoveApp
  <2> QED
    BY <1>1, <2>1 DEF TypeOK, there, entry
<1>4. CASE DropMachine(g)
  <2>1. apps' = apps /\ fetch[g].ref \in Ref
        /\ machines' = [machines EXCEPT ![fetch[g].ref] = Without(@, fetch[g].dead)]
    BY <1>4 DEF DropMachine, TypeOK
  <2> QED
    BY <1>2, <2>1 DEF TypeOK, there, entry, Without
<1>5. CASE ~ RemoveApp(g) /\ ~ DropMachine(g)
  BY <1>5 DEF FetchStep, Submit, Start, Judge, CopyMachines, FindDead, Visit, Finish, entry
<1> QED
  BY <1>3, <1>4, <1>5

\* The two settings do not call a healthy machine dead.
SettingsAgree == AutoRemove = 0 \/ Unhealthy <= AutoRemove + 1

\* A step of a fetch that has a steady machine in hand leaves it in the map,
\* and goes on with the same AppInfo and the machine's present entry.
LEMMA OwnStep ==
    ASSUME SettingsAgree, TypeOK, NEW f \in Fetcher, NEW m \in Machine, HandInv(f, m),
           m \in steady[f], FetchStep(f) \/ \E a \in App : Submit(f, a)
    PROVE  /\ there(m)' /\ apps'[HostApp[m]] = apps[HostApp[m]] /\ entry(m)' = entry(m)
           /\ fetch'[f].at # "start"
           /\ fetch'[f].at # "idle" =>
                 /\ fetch'[f].at \in {"copy", "machines", "drop"}
                 /\ fetch'[f].app = fetch[f].app
                 /\ fetch'[f].ref = apps[fetch[f].app]
                 /\ fetch'[f].todo[m] \in {NoEntry, entry(m)}
                 /\ m \notin fetch'[f].dead
<1>1. /\ HostApp[m] \in App /\ HostApp[m] = fetch[f].app
      /\ fetch[f].at \in {"judge", "copy", "machines", "drop"}
      /\ apps[HostApp[m]] \in Ref /\ there(m) /\ isHealthy(entry(m))
      /\ fetch[f].ref = apps[HostApp[m]]
      /\ fetch[f].todo[m] \in {NoEntry, entry(m)} /\ m \notin fetch[f].dead
  BY HostAssumption DEF HandInv, there, TypeOK
<1>2. fetch[f] \in Fetch /\ machines[fetch[f].ref] \in Entries /\ machines[fetch[f].ref][m] = entry(m)
  BY <1>1 DEF TypeOK, entry
<1>3. entry(m) \in Age /\ ~ isDead(entry(m))
  <2>1. entry(m) \in Age
    BY <1>1, <1>2 DEF Entries, there, entry
  <2> QED
    BY <1>1, <2>1, ConfigAssumption DEF SettingsAgree, isHealthy, isDead, Age
<1>4. CASE Judge(f)
  <2>1. heartbeatJudge(machines[fetch[f].ref])
    <3>1. m \in Present(machines[fetch[f].ref])
      BY <1>1, <1>2 DEF Present, there, entry
    <3> QED
      BY <1>1, <1>2, <3>1 DEF heartbeatJudge
  <2>2. fetch' = [fetch EXCEPT ![f].at = "copy"] /\ UNCHANGED <<apps, machines>>
    BY <1>4, <2>1 DEF Judge
  <2> QED
    BY <1>1, <1>2, <2>2 DEF TypeOK, Fetch, there, entry
<1>5. CASE CopyMachines(f)
  <2>1. /\ fetch'[f] = [fetch[f] EXCEPT !.at = "machines", !.todo = machines[fetch[f].ref]]
        /\ UNCHANGED <<apps, machines>>
    BY <1>5 DEF CopyMachines, TypeOK, Fetch
  <2> QED
    BY <1>1, <1>2, <2>1 DEF Fetch, there, entry
<1>6. CASE DropMachine(f)
  <2>1. /\ fetch'[f] = [fetch[f] EXCEPT !.at = "machines", !.dead = {}]
        /\ machines' = [machines EXCEPT ![fetch[f].ref] = Without(@, fetch[f].dead)]
        /\ apps' = apps
    BY <1>6 DEF DropMachine, TypeOK, Fetch
  <2>2. entry(m)' = entry(m)
    BY <1>1, <2>1 DEF TypeOK, entry, Without
  <2> QED
    BY <1>1, <1>2, <2>1, <2>2 DEF Fetch, there, entry
<1>7. CASE Finish(f)
  BY <1>1, <1>7 DEF Finish, TypeOK, NoFetch, there, entry
<1>8. ASSUME NEW n \in Machine, FindDead(f, n)
      PROVE  /\ n # m /\ UNCHANGED <<apps, machines>>
             /\ fetch'[f] = [fetch[f] EXCEPT !.at = "drop", !.ref = apps[fetch[f].app],
                                             !.todo = Without(@, {n}), !.dead = {n}]
  <2>1. isDead(fetch[f].todo[n]) /\ fetch[f].todo[n] # NoEntry
    BY <1>8 DEF FindDead, Present
  <2>2. n # m
    BY <1>1, <1>3, <2>1
  <2>3. apps[fetch[f].app] # NoRef
    BY <1>1 DEF there
  <2> QED
    BY <1>8, <2>2, <2>3 DEF FindDead, TypeOK
<1>9. ASSUME NEW n \in Machine, Visit(f, n)
      PROVE  /\ UNCHANGED <<apps, machines>>
             /\ fetch'[f] = [fetch[f] EXCEPT !.todo = Without(@, {n})]
             /\ fetch[f].at = "machines"
  BY <1>9 DEF Visit, TypeOK
<1>10. ASSUME NEW n \in Machine
       PROVE  Without(fetch[f].todo, {n})[m] \in {NoEntry, entry(m)}
  BY <1>1 DEF Without
<1>11. CASE \E n \in Machine : FindDead(f, n)
  <2>1. PICK n \in Machine : FindDead(f, n)
    BY <1>11
  <2> DEFINE found == [fetch[f] EXCEPT !.at = "drop", !.ref = apps[fetch[f].app],
                                       !.todo = Without(@, {n}), !.dead = {n}]
  <2>3. /\ found.at = "drop" /\ found.app = fetch[f].app /\ found.ref = apps[fetch[f].app]
        /\ found.todo = Without(fetch[f].todo, {n}) /\ found.dead = {n}
    BY <1>2 DEF Fetch
  <2>4. n # m /\ UNCHANGED <<apps, machines>> /\ fetch'[f] = found
    BY <1>8, <2>1
  <2> HIDE DEF found
  <2>2. /\ UNCHANGED <<apps, machines>>
        /\ fetch'[f].at = "drop" /\ fetch'[f].app = fetch[f].app
        /\ fetch'[f].ref = apps[fetch[f].app]
        /\ fetch'[f].todo = Without(fetch[f].todo, {n}) /\ m \notin fetch'[f].dead
    BY <2>3, <2>4
  <2> QED
    BY <1>1, <1>10, <2>2 DEF there, entry
<1>12. CASE \E n \in Machine : Visit(f, n)
  <2>1. PICK n \in Machine : Visit(f, n)
    BY <1>12
  <2>2. /\ UNCHANGED <<apps, machines>>
        /\ fetch'[f].at = "machines" /\ fetch'[f].app = fetch[f].app
        /\ fetch'[f].ref = fetch[f].ref
        /\ fetch'[f].todo = Without(fetch[f].todo, {n}) /\ fetch'[f].dead = fetch[f].dead
    BY <1>2, <1>9, <2>1 DEF Fetch
  <2> QED
    BY <1>1, <1>10, <2>2 DEF there, entry
<1>13. ~ Start(f) /\ ~ RemoveApp(f) /\ ~ \E a \in App : Submit(f, a)
  BY <1>1 DEF Start, RemoveApp, Submit
<1> QED
  BY <1>4, <1>5, <1>6, <1>7, <1>11, <1>12, <1>13 DEF FetchStep

\* Who else leaves a fetch alone.
LEMMA OtherSteps ==
    ASSUME TypeOK, Step, ~ Tick, NEW f \in Fetcher,
           ~ (FetchStep(f) \/ \E a \in App : Submit(f, a))
    PROVE  fetch'[f] = fetch[f]
<1>1. ASSUME NEW g \in Fetcher, g # f, FetchStep(g) \/ \E a \in App : Submit(g, a)
      PROVE  fetch'[f] = fetch[f]
  BY <1>1 DEF FetchStep, Submit, Start, Judge, RemoveApp, CopyMachines, DropMachine,
              FindDead, Visit, Finish, TypeOK
<1>2. ASSUME NEW m \in Machine, Heartbeat(m) \/ Stop(m) \/ \E r \in Ref : RemoveMachineById(m, r)
      PROVE  fetch'[f] = fetch[f]
  BY <1>2 DEF Heartbeat, ReceiveHeartBeat, RemoveOld, AddNew, Stop, RemoveMachineById
<1> QED
  BY <1>1, <1>2 DEF Step

\* A machine registered before and after a step keeps its AppInfo and entry.
LEMMA StepKeeps ==
    ASSUME TypeOK, Step, ~ Tick, NEW m \in Machine, there(m), there(m)'
    PROVE  apps'[HostApp[m]] = apps[HostApp[m]] /\ entry(m)' = entry(m)
<1>1. ASSUME NEW n \in Machine, Stop(n)
      PROVE  apps'[HostApp[m]] = apps[HostApp[m]] /\ entry(m)' = entry(m)
  BY <1>1 DEF Stop, entry
<1>2. ASSUME NEW n \in Machine, NEW r \in Ref, RemoveMachineById(n, r)
      PROVE  apps'[HostApp[m]] = apps[HostApp[m]] /\ entry(m)' = entry(m)
  <2>1. apps[HostApp[m]] \in Ref
    BY HostAssumption DEF there, TypeOK
  <2>2. apps' = apps /\ machines' = [machines EXCEPT ![r] = Without(@, {n})]
    BY <1>2 DEF RemoveMachineById
  <2> QED
    BY <2>1, <2>2 DEF TypeOK, there, entry, Without
<1> QED
  BY <1>1, <1>2, HeartbeatKeeps, FetchKeeps DEF Step

LEMMA HandStep ==
    ASSUME SettingsAgree, TypeOK, [Next]_vars, NEW f \in Fetcher, NEW m \in Machine, HandInv(f, m)
    PROVE  HandInv(f, m)'
<1>1. CASE UNCHANGED vars
  BY <1>1 DEF HandInv, vars, there, entry, isHealthy
<1>2. CASE Step /\ Watch
  <2>1. CASE Tick
    <3>1. apps' = apps
          /\ fetch'[f] = [fetch[f] EXCEPT !.todo = AllOlder(fetch[f].todo)]
      BY <2>1 DEF Tick
    <3>2. fetch'[f].at = fetch[f].at /\ fetch'[f].app = fetch[f].app
          /\ fetch'[f].ref = fetch[f].ref /\ fetch'[f].dead = fetch[f].dead
          /\ fetch'[f].todo = AllOlder(fetch[f].todo)
      BY <3>1 DEF TypeOK, Fetch
    <3>3. fetch'[f].todo[m] = IF fetch[f].todo[m] = NoEntry THEN NoEntry ELSE Older(fetch[f].todo[m])
      BY <3>2 DEF AllOlder
    <3>4. ASSUME m \in steady'[f]
          PROVE  /\ there(m)' /\ isHealthy(entry(m)') /\ HostApp[m] = fetch[f].app
                 /\ m \in steady[f] /\ entry(m)' = Older(entry(m))
      <4>1. there(m)' /\ isHealthy(entry(m)') /\ HostApp[m] = fetch[f].app /\ m \in steady[f]
        BY <1>2, <3>2, <3>4, WatchMeaning
      <4>2. apps[HostApp[m]] \in Ref /\ apps[HostApp[m]] \notin Free
        BY <4>1, FreeFacts, HostAssumption DEF HandInv, there, TypeOK
      <4>3. entry(m) # NoEntry
        BY <4>1 DEF HandInv, there, entry
      <4>4. machines'[apps[HostApp[m]]] = AllOlder(machines[apps[HostApp[m]]])
        BY <2>1, <4>2 DEF Tick
      <4> QED
        BY <3>1, <4>1, <4>3, <4>4 DEF entry, AllOlder
    <3> QED
      BY <3>1, <3>2, <3>3, <3>4 DEF HandInv
  <2>2. CASE ~ Tick /\ ~ (FetchStep(f) \/ \E a \in App : Submit(f, a))
    <3>1. fetch'[f] = fetch[f]
      BY <1>2, <2>2, OtherSteps
    <3>2. m \in steady'[f] => m \in steady[f] /\ there(m)' /\ isHealthy(entry(m)')
      BY <1>2, <3>1, WatchMeaning
    <3>3. m \in steady'[f] => apps'[HostApp[m]] = apps[HostApp[m]] /\ entry(m)' = entry(m)
      BY <1>2, <2>2, <3>2, StepKeeps DEF HandInv
    <3> QED
      BY <3>1, <3>2, <3>3 DEF HandInv
  <2>3. ASSUME NEW a \in App, Submit(f, a) PROVE HandInv(f, m)'
    <3>1. fetch'[f] = [NoFetch EXCEPT !.at = "start", !.app = a]
      BY <2>3 DEF Submit, TypeOK
    <3>2. fetch'[f].at = "start" /\ fetch'[f].todo = Empty /\ fetch'[f].dead = {}
      BY <3>1 DEF NoFetch
    <3>3. m \notin steady'[f]
      BY <1>2, <3>2, WatchMeaning
    <3> QED
      BY <3>2, <3>3 DEF HandInv, Empty
  <2>4. CASE Start(f)
    <3>1. UNCHANGED <<apps, machines>> /\ fetch[f].at = "start"
      BY <2>4 DEF Start
    <3>2. CASE apps[fetch[f].app] = NoRef
      <4>1. fetch'[f].at = "idle"
        BY <2>4, <3>2 DEF Start, TypeOK, NoFetch
      <4> QED
        BY <1>2, <4>1, WatchMeaning DEF HandInv
    <3>3. CASE apps[fetch[f].app] # NoRef
      <4>1. fetch'[f] = [fetch[f] EXCEPT !.at = "judge", !.ref = apps[fetch[f].app]]
        BY <2>4, <3>3 DEF Start, TypeOK
      <4>2. fetch'[f].at = "judge" /\ fetch'[f].ref = apps[fetch[f].app]
            /\ fetch'[f].app = fetch[f].app
            /\ fetch'[f].todo = fetch[f].todo /\ fetch'[f].dead = fetch[f].dead
        BY <4>1 DEF TypeOK, Fetch
      <4> QED
        BY <1>2, <3>1, <4>2, WatchMeaning DEF HandInv
    <3> QED
      BY <3>2, <3>3
  <2>5. CASE FetchStep(f) /\ ~ Start(f)
    <3>1. fetch[f].at # "start" /\ fetch'[f].at # "start"
      <4>1. fetch[f] \in Fetch /\ NoFetch.at = "idle"
        BY DEF TypeOK, NoFetch
      <4>2. CASE Judge(f) \/ CopyMachines(f) \/ DropMachine(f)
        BY <4>1, <4>2 DEF Judge, CopyMachines, DropMachine, TypeOK, Fetch
      <4>3. CASE RemoveApp(f) \/ Finish(f)
        BY <4>1, <4>3 DEF RemoveApp, Finish, TypeOK
      <4>4. ASSUME NEW n \in Machine, Visit(f, n) PROVE fetch[f].at = "machines" /\ fetch'[f].at = "machines"
        BY <4>1, <4>4 DEF Visit, TypeOK, Fetch
      <4>5. ASSUME NEW n \in Machine, FindDead(f, n)
            PROVE  fetch[f].at = "machines" /\ fetch'[f].at \in {"idle", "drop"}
        <5> DEFINE found == [fetch[f] EXCEPT !.at = "drop", !.ref = apps[fetch[f].app],
                                             !.todo = Without(@, {n}), !.dead = {n}]
        <5>1. found.at = "drop"
          BY <4>1 DEF Fetch
        <5>2. fetch'[f] \in {NoFetch, found} /\ fetch[f].at = "machines"
          BY <4>5 DEF FindDead, TypeOK
        <5> QED
          BY <4>1, <5>1, <5>2
      <4> QED
        BY <2>5, <4>2, <4>3, <4>4, <4>5 DEF FetchStep
    <3>2. m \in steady'[f] => /\ m \in steady[f] /\ fetch'[f].at # "idle"
                             /\ there(m)' /\ isHealthy(entry(m)')
      BY <1>2, <3>1, WatchMeaning
    <3> QED
      BY <2>5, <3>1, <3>2, OwnStep DEF HandInv
  <2> QED
    BY <1>2, <2>1, <2>2, <2>3, <2>4, <2>5
<1> QED
  BY <1>1, <1>2 DEF Next

LEMMA HandInit ==
    ASSUME Init, NEW f \in Fetcher, NEW m \in Machine PROVE HandInv(f, m)
BY DEF Init, HandInv, NoFetch

\* Where a fetch goes on, its steady machines stay.
LEMMA SteadyStep ==
    ASSUME SettingsAgree, TypeOK, [Next]_vars, NEW f \in Fetcher,
           \A m \in Machine : HandInv(f, m), fetch'[f].at # fetch[f].at,
           NEW m \in steady[f]
    PROVE  Registered(m)'
<1>1. m \in Machine
  BY DEF TypeOK
<1>2. Step
  BY DEF Next, vars
<1>3. ~ Tick
  BY DEF Tick, TypeOK, Fetch
<1>4. FetchStep(f) \/ \E a \in App : Submit(f, a)
  BY <1>2, <1>3, OtherSteps
<1>5. there(m)'
  BY <1>1, <1>4, OwnStep
<1> QED
  BY <1>1, <1>5, LiveMeaningNext

HandInvs == \A f \in Fetcher : \A m \in Machine : HandInv(f, m)

\* No fetch unregisters a machine that was registered and healthy ever since
\* the fetch began, for any number of fetches, heartbeats and operators, when
\* the settings do not call a healthy machine dead.
THEOREM SteadyMachinesStay ==
    ASSUME SettingsAgree PROVE Spec => SteadyStays
<1>1. Init => HandInvs
  BY HandInit DEF HandInvs
<1>2. TypeOK /\ HandInvs /\ [Next]_vars => HandInvs'
  BY HandStep DEF HandInvs
<1>3. TypeOK /\ HandInvs /\ [Next]_vars
      => [\A f \in Fetcher :
            fetch'[f].at # fetch[f].at => \A m \in steady[f] : Registered(m)']_vars
  BY SteadyStep DEF HandInvs
<1> QED
  BY <1>1, <1>2, <1>3, TypeCorrect, PTL DEF Spec, SteadyStays

=============================================================================
