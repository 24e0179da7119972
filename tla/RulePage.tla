------------------------------ MODULE RulePage ------------------------------
(***************************************************************************)
(* What the rule pages of the web interface have in common: the selected   *)
(* machine, the table, one dialog at a time, and requests whose answers    *)
(* arrive in any order or not at all.  Each page's module says which of    *)
(* these steps its handlers take and with what.                            *)
(*                                                                         *)
(* A dialog covers the page, so that the table can be clicked only when    *)
(* none is open; currentRule belongs to the open one.  Requests are kept   *)
(* in the order in which they were sent.  loadError, which only words why  *)
(* the table is empty, paging and the fields that nothing here tells apart *)
(* are left out.                                                           *)
(***************************************************************************)
EXTENDS Integers, FiniteSets, SequencesExt

CONSTANTS
    Machine,      \* the healthy machines of the application
    NoMachine,    \* macInputModel is empty
    Resource,     \* names of resources, applications and references
    Blank,        \* a field that is empty
    Null,         \* null, or undefined for the table
    Unread,       \* a query that the dashboard has not worked on
    Page,         \* the pages that are looked at
    Typed,        \* [Page -> what the operator may enter into the dialog]
    InitialRules, \* [Page -> sets of rules that may exist at first]
    ApiNames,     \* [Machine -> names of the API groups of a gateway]
    FirstId,      \* [Page -> where the counter of ids may be when it is opened]
    MaxId,        \* bound on the ids that are drawn
    MaxInFlight,  \* bound on the requests in flight
    MaxClicks     \* [Page -> bound on what operators do]

VARIABLES
    page,        \* the page that is open
    mac,         \* macInputModel
    options,     \* macsInputOptions
    rows,        \* rules, or apis; Null until there is an answer
    names,       \* apiNames
    open,        \* the dialog that is open
    currentRule, \* the rule it is about
    requests,    \* in flight, in the order they were sent
    repo,        \* the dashboard's in-memory repository
    live,        \* the rules in force: in Nacos, or on the machines
    lastId,      \* the last id that was drawn
    clicks,      \* what operators have done so far
    missed       \* tables that may not be current (history)

table  == <<mac, options, rows, names>>
dialog == <<open, currentRule>>
server == <<repo, live, lastId>>
vars   == <<page, table, dialog, requests, server, clicks, missed>>

NoId  == 0
RuleId == Nat \ {NoId}
Text  == Resource \cup {Blank}
Count == Nat \cup {Blank}
Shown == IF rows = Null THEN {} ELSE rows

\* The object in the dialog is the one of the table, or a copy or a new one.
NoRule == [id |-> NoId, ofTable |-> FALSE]

-----------------------------------------------------------------------------
(* Requests *)

IsQuery(r)  == r.op \in {"rules", "names"}
IsChange(r) == r.op \in {"add", "save", "delete"}

\* todo are the rules that were read and are still to be saved, was the rules
\* that the answer lists.
Ask(op, m) == [op |-> op, mac |-> m, todo |-> Unread, was |-> Unread, old |-> FALSE]
AskAll(ops, m) == [k \in DOMAIN ops |-> Ask(ops[k], m)]
\* getMachineRules returns at once when no machine is selected.
Queries(op) == IF mac = NoMachine THEN <<>> ELSE <<Ask(op, mac)>>

\* What the dashboard has done of a query, and of a change.
Worked(r, todo, was)    == [r EXCEPT !.todo = todo, !.was = was]
Turned(r, result, data) == [r EXCEPT !.result = result, !.data = data]
\* It is done with a query, or with a change.
QueryEnded(r)  == r.was # Unread /\ r.todo = {}
ChangeEnded(r) == r.result \in {"ok", "failed"}

\* Queries with an answer still to come that is out of date.
Outdated(rs, ops) ==
    [i \in DOMAIN rs |-> IF rs[i].op \in ops THEN [rs[i] EXCEPT !.old = TRUE] ELSE rs[i]]
\* The i-th request is answered.  Queries sent before it are out of date.
Rest(i) ==
    Outdated(SubSeq(requests, 1, i - 1), {requests[i].op} \cap {"rules", "names"})
    \o SubSeq(requests, i + 1, Len(requests))

Room(n) == Len(requests) + n <= MaxInFlight
Click   == clicks < MaxClicks[page] /\ clicks' = clicks + 1
Free    == open = "none"

-----------------------------------------------------------------------------
(* Steps of a page *)

\* Mutant: the selection changes and nothing is fetched.
WatchIdle(ops, m) == mac' = m /\ Room(Len(ops)) /\ UNCHANGED requests
\* Another machine is selected: the watch fetches what the page shows.
Watch(ops, m) ==
    /\ mac' = m
    /\ Room(Len(ops))
    /\ requests' = requests \o
         (IF m \in {mac, NoMachine} THEN <<>> ELSE AskAll(ops, m))

\* onChange of the selection; it can be cleared.
Select(ops) ==
    /\ Free /\ Click
    /\ \E m \in options \cup {NoMachine} : m # mac /\ Watch(ops, m)
    /\ UNCHANGED <<page, options, rows, names, dialog, server, missed>>

\* queryAppMachines: the first machine is selected.
MachinesAnswered(i, ops) ==
    /\ requests[i].op = "machines"
    /\ \/ /\ Room(Len(ops) - 1)
          /\ options' = Machine
          /\ \E m \in Machine :
                /\ mac' = m
                /\ requests' = Rest(i) \o AskAll(ops, m)
       \/ options' = {} /\ mac' = mac /\ requests' = Rest(i)
    /\ UNCHANGED <<page, rows, names, dialog, server, clicks, missed>>

\* The table is what the answer says, whatever is selected by now; it is
\* emptied when the answer is an error, or null.
RulesAnswered(i, shown) ==
    /\ requests[i].op = "rules"
    /\ \/ /\ QueryEnded(requests[i]) /\ requests[i].was # Null
          /\ rows' = shown
          /\ missed' = IF requests[i].old THEN missed \cup {"rules"} ELSE missed \ {"rules"}
       \/ /\ requests[i].todo = Unread \/ requests[i].was = Null
          /\ rows' = {}
          /\ missed' = missed \cup {"rules"}
    /\ requests' = Rest(i)
    /\ UNCHANGED <<page, mac, options, names, dialog, server, clicks>>

Open(type, rule) ==
    /\ Free /\ Click
    /\ open' = type
    /\ currentRule' = rule
    /\ UNCHANGED <<page, table, requests, server, missed>>

\* Mutant: the dialog works on the rule of the table.
OpenEditShared(e, v) ==
    e \in Shown /\ Open("edit", [id |-> e.id, machine |-> e.machine, v |-> v, ofTable |-> TRUE])
\* editRule works on a copy, v as the dialog shows it.
OpenEdit(e, v) ==
    e \in Shown /\ Open("edit", [id |-> e.id, machine |-> e.machine, v |-> v, ofTable |-> FALSE])
\* addNewRule takes the machine that is selected, or ''; before there is a
\* selection it throws.
OpenAdd(v) ==
    /\ options # {}
    /\ Open("add", [id |-> NoId, machine |-> mac, v |-> v, ofTable |-> FALSE])
\* deleteRule works on the rule of the table.
OpenDelete(e) ==
    e \in Shown /\ Open("delete", [id |-> e.id, machine |-> e.machine, v |-> e.v, ofTable |-> TRUE])

Close ==
    /\ ~Free /\ Click
    /\ open' = "none" /\ currentRule' = NoRule
    /\ UNCHANGED <<page, table, requests, server, missed>>

\* The operator changes what the dialog shows.
Enter(v) ==
    /\ open \in {"add", "edit"} /\ Click
    /\ v # currentRule.v
    /\ currentRule' = [currentRule EXCEPT !.v = v]
    /\ rows' = IF currentRule.ofTable
               THEN {IF e.id = currentRule.id THEN [e EXCEPT !.v = v] ELSE e : e \in rows}
               ELSE rows
    /\ UNCHANGED <<page, mac, options, names, open, requests, server, missed>>

\* A field that cannot be changed when a rule is edited.
Key(new, old) == IF open = "edit" THEN old ELSE new

Change(op, sent) ==
    /\ Click /\ Room(1)
    /\ requests' = Append(requests,
         [op |-> op, id |-> currentRule.id, machine |-> currentRule.machine, v |-> sent,
          form |-> currentRule.v, result |-> "none", data |-> Unread])
    /\ UNCHANGED <<page, table, dialog, server, missed>>

\* saveRule, by the type of the dialog.  The dialog stays open until the
\* answer is there, so that it can be pressed again.
Save(addOk, saveOk, sent) ==
    \/ open = "add"  /\ addOk  /\ Change("add", sent)
    \/ open = "edit" /\ saveOk /\ Change("save", sent)
Confirm == open = "delete" /\ Change("delete", currentRule.v)

\* After a success the table is fetched again, and the dialog is closed that
\* was opened last.  After a failure the operator is alerted.
ChangeAnswered(i) ==
    /\ IsChange(requests[i])
    /\ \/ /\ requests[i].result = "ok"
          /\ requests' = Rest(i) \o Queries("rules")
          /\ IF (open = "delete") = (requests[i].op = "delete")
             THEN open' = "none" /\ currentRule' = NoRule
             ELSE UNCHANGED dialog
          /\ UNCHANGED missed
       \/ /\ requests[i].result = "failed"
          /\ requests' = Outdated(Rest(i), {"rules"})
          /\ missed' = missed \cup {"rules"}
          /\ UNCHANGED dialog
    /\ UNCHANGED <<page, table, server, clicks>>

\* The answer is lost: AuthInterceptor hands an empty body to .success, which
\* throws.  The dashboard has refused, or done its work.
LoseAnswer(i) ==
    /\ \/ IsQuery(requests[i]) /\ (requests[i].todo = Unread \/ QueryEnded(requests[i]))
       \/ IsChange(requests[i]) /\ ChangeEnded(requests[i])
    /\ requests' = Outdated(Rest(i), {"rules"})
    /\ missed' = missed \cup {IF requests[i].op = "names" THEN "names" ELSE "rules"}
    /\ UNCHANGED <<page, table, dialog, server, clicks>>
=============================================================================
