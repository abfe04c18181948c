------------------------------ MODULE Incidents ------------------------------
(***************************************************************************)
(* Major incidents with a commander, roles, a timeline and a status, and   *)
(* the sequence their numbers (and those of tickets) are drawn from.       *)
(* Declaring one is a number and a row, giving somebody a role is a role   *)
(* row and then the commander's column, a change of status is the row and  *)
(* then a line of the timeline; handlers overlap and may stop in between.  *)
(*                                                                         *)
(* Left out: severities, summaries, what people write on the timeline, the *)
(* linked ticket beyond its absence, and permissions.                      *)
(***************************************************************************)
EXTENDS Naturals

CONSTANTS
  Bridges,           \* rows of im_incidents
  Responders,        \* users
  Nobody,            \* a null commanderId
  BridgeRoles,       \* roles, "commander" among them
  Consoles,          \* bound: handlers at work at one time
  MaxNumber,         \* bound: numbers drawn
  BridgeTargets,     \* statuses that handlers set
  IncidentFeatures   \* "crash", "bad_ticket"

ASSUME IncidentsAssumption ==
  /\ "commander" \in BridgeRoles /\ Nobody \notin Responders /\ MaxNumber \in Nat
  /\ BridgeTargets \subseteq {"declared", "active", "mitigated", "resolved", "closed"}

VARIABLES
  bridge,      \* bridge[i]: the row of incident i
  lastValue,   \* ticket_number_sequences.lastValue of one prefix and year
  console      \* console[c]: the handler at work

incidentVars == <<bridge, lastValue, console>>

BridgeStatuses == {"declared", "active", "mitigated", "resolved", "closed"}

Undeclared == [number |-> 0, status |-> "none", resolved |-> FALSE, commander |-> Nobody,
               roles |-> {}, told |-> "none"]

NoCommand == [op |-> "idle", i |-> {}, who |-> Nobody, role |-> "none", number |-> 0,
              status |-> "none"]

Declared(i) == bridge[i] # Undeclared

Ends(c) == console' = [console EXCEPT ![c] = NoCommand]

DrawLast(c, u) ==   \* wrong variant: the value before the increment
  /\ console[c] = NoCommand
  /\ lastValue < MaxNumber
  /\ lastValue' = lastValue + 1
  /\ console' = [console EXCEPT ![c] = [NoCommand EXCEPT
       !.op = "declare", !.who = u, !.number = lastValue]]
  /\ UNCHANGED bridge

DrawUnused(c, u) ==   \* wrong variant: a number that no row has yet
  /\ console[c] = NoCommand
  /\ \E n \in 1..MaxNumber :
       /\ \A i \in Bridges : bridge[i].number # n
       /\ lastValue' = MaxNumber
       /\ console' = [console EXCEPT ![c] = [NoCommand EXCEPT
            !.op = "declare", !.who = u, !.number = n]]
  /\ UNCHANGED bridge

(***************************************************************************)
(* create                                                                  *)
(***************************************************************************)
(* nextNumber: an upsert that increments, in a transaction. *)
DrawNumber(c, u) ==
  /\ console[c] = NoCommand
  /\ lastValue < MaxNumber
  /\ lastValue' = lastValue + 1
  /\ console' = [console EXCEPT ![c] = [NoCommand EXCEPT
       !.op = "declare", !.who = u, !.number = lastValue + 1]]
  /\ UNCHANGED bridge

(* The linked ticket does not exist: the number is lost. *)
RefuseTicket(c) ==
  /\ "bad_ticket" \in IncidentFeatures
  /\ console[c].op = "declare"
  /\ Ends(c)
  /\ UNCHANGED <<bridge, lastValue>>

(* The row with its first role and first line. *)
Declare(c, i) ==
  /\ console[c].op = "declare"
  /\ ~Declared(i)
  /\ bridge' = [bridge EXCEPT ![i] =
       [Undeclared EXCEPT !.number = console[c].number, !.status = "declared",
          !.commander = console[c].who, !.roles = {<<console[c].who, "commander">>},
          !.told = "declared"]]
  /\ Ends(c)
  /\ UNCHANGED lastValue

BeginAssignCommander(c, i, u, role) ==   \* wrong variant: the commander's column alone is written
  /\ console[c] = NoCommand
  /\ Declared(i)
  /\ console' = [console EXCEPT ![c] = [NoCommand EXCEPT
       !.op = IF role = "commander" THEN "commander" ELSE "role",
       !.i = {i}, !.who = u, !.role = role]]
  /\ UNCHANGED <<bridge, lastValue>>

(***************************************************************************)
(* assignRole                                                              *)
(***************************************************************************)
BeginAssign(c, i, u, role) ==
  /\ console[c] = NoCommand
  /\ Declared(i)
  /\ console' = [console EXCEPT ![c] = [NoCommand EXCEPT
       !.op = "role", !.i = {i}, !.who = u, !.role = role]]
  /\ UNCHANGED <<bridge, lastValue>>

WriteRole(c, i) ==
  /\ console[c].op = "role" /\ i \in console[c].i
  /\ bridge' = [bridge EXCEPT ![i].roles = @ \cup {<<console[c].who, console[c].role>>}]
  /\ IF console[c].role = "commander"
     THEN console' = [console EXCEPT ![c].op = "commander"] ELSE Ends(c)
  /\ UNCHANGED lastValue

WriteCommander(c, i) ==
  /\ console[c].op = "commander" /\ i \in console[c].i
  /\ bridge' = [bridge EXCEPT ![i].commander = console[c].who]
  /\ Ends(c)
  /\ UNCHANGED lastValue

(***************************************************************************)
(* updateStatus                                                            *)
(***************************************************************************)
BeginStatus(c, i, status) ==
  /\ console[c] = NoCommand
  /\ Declared(i)
  /\ console' = [console EXCEPT ![c] = [NoCommand EXCEPT
       !.op = "status", !.i = {i}, !.status = status]]
  /\ UNCHANGED <<bridge, lastValue>>

(* A mitigated incident keeps the time it has. *)
ResolvedWith(status, resolved) ==
  \/ status \in {"resolved", "closed"}
  \/ status = "mitigated" /\ resolved

WriteStatus(c, i) ==
  /\ console[c].op = "status" /\ i \in console[c].i
  /\ bridge' = [bridge EXCEPT ![i].status = console[c].status,
                              ![i].resolved = ResolvedWith(console[c].status, @)]
  /\ console' = [console EXCEPT ![c].op = "tell"]
  /\ UNCHANGED lastValue

TellStatus(c, i) ==
  /\ console[c].op = "tell" /\ i \in console[c].i
  /\ bridge' = [bridge EXCEPT ![i].told = console[c].status]
  /\ Ends(c)
  /\ UNCHANGED lastValue

IncidentCrash ==
  /\ "crash" \in IncidentFeatures
  /\ \E c \in Consoles : console[c] # NoCommand
  /\ console' = [c \in Consoles |-> NoCommand]
  /\ UNCHANGED <<bridge, lastValue>>

(***************************************************************************)
(* The specification                                                       *)
(***************************************************************************)
IncidentsInit ==
  /\ bridge = [i \in Bridges |-> Undeclared]
  /\ lastValue = 0
  /\ console = [c \in Consoles |-> NoCommand]

IncidentsNext ==
  \/ \E c \in Consoles :
       \/ \E u \in Responders : DrawNumber(c, u)
       \/ RefuseTicket(c)
       \/ \E i \in Bridges :
            \/ Declare(c, i)
            \/ \E u \in Responders, role \in BridgeRoles : BeginAssign(c, i, u, role)
            \/ WriteRole(c, i) \/ WriteCommander(c, i)
            \/ \E status \in BridgeTargets : BeginStatus(c, i, status)
            \/ WriteStatus(c, i) \/ TellStatus(c, i)
  \/ IncidentCrash

IncidentsSpec == IncidentsInit /\ [][IncidentsNext]_incidentVars

(***************************************************************************)
(* Properties                                                              *)
(***************************************************************************)
\* Rows and handlers have their shape, and a handler that is about to write
\* has an incident to write to.
IncidentsTypeOK ==
  /\ bridge \in [Bridges -> [number : 0..lastValue, status : {"none"} \cup BridgeStatuses,
       resolved : BOOLEAN, commander : Responders \cup {Nobody},
       roles : SUBSET (Responders \X BridgeRoles), told : {"none"} \cup BridgeStatuses]]
  /\ lastValue \in 0..MaxNumber
  /\ console \in [Consoles ->
       [op : {"idle", "declare", "role", "commander", "status", "tell"}, i : SUBSET Bridges,
        who : Responders \cup {Nobody}, role : {"none"} \cup BridgeRoles, number : 0..lastValue,
        status : {"none"} \cup BridgeStatuses]]
  /\ \A c \in Consoles :
       /\ \A i \in console[c].i : Declared(i)
       /\ console[c].op \in {"role", "commander", "declare"} => console[c].who \in Responders
       /\ console[c].op = "role" => console[c].role \in BridgeRoles
       /\ console[c].op \in {"status", "tell"} => console[c].status \in BridgeStatuses
       /\ console[c].op = "declare" => console[c].number > 0

\* Whoever is shown as the commander has the role as well, however handlers
\* overlap and wherever one stops.
CommanderHasRole == \A i \in Bridges :
  Declared(i) => <<bridge[i].commander, "commander">> \in bridge[i].roles

\* No number is given to two incidents, nor drawn again by a handler at work.
NumbersUnique ==
  /\ \A i, j \in Bridges : Declared(i) /\ bridge[i].number = bridge[j].number => i = j
  /\ \A c \in Consoles : console[c].op = "declare" =>
       /\ \A i \in Bridges : bridge[i].number # console[c].number
       /\ \A d \in Consoles : console[d].op = "declare" /\ console[d].number = console[c].number => c = d
=============================================================================
