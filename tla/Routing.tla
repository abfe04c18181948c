------------------------------- MODULE Routing -------------------------------
(***************************************************************************)
(* Where a new ticket goes.  The first active rule that fits names a team  *)
(* and may ask for the member with the fewest open tickets; the row is     *)
(* created with both, and then the automation rules are run over a copy of *)
(* it, each changing the team or the major-incident flag of the row and of *)
(* the copy.  Members are counted some awaits before the row is created,   *)
(* and agents edit the row while the rules run.                            *)
(*                                                                         *)
(* A category, type and location are one `kind` here, and the rules of     *)
(* both sorts are constants but for when a routing rule is created.        *)
(* Left out: notifications, and everything else of the creation.           *)
(***************************************************************************)
EXTENDS Naturals, Sequences, FiniteSets

CONSTANTS
  Cases,            \* bound: rows of the tickets table
  CaseKinds,        \* what rules tell apart
  Agents, Leads,    \* members of teams, and those who lead
  AgentOrder,       \* AgentOrder[a]: place of a's id among the ids
  Crews, NoCrew, NoAgent,
  RoutingRules,     \* by priority: [kinds, crew, auto, able], `able` who may be picked
  AutomationRules,  \* by sortOrder: [kinds, major, crew, flag], `major` the flags it takes,
                    \* crew NoCrew and flag {} where it sets none
  Clerks,           \* bound: creations at one time
  RoutingFeatures   \* "edit", "rules", "overlap"

ASSUME RoutingAssumption ==
  /\ Leads \subseteq Agents /\ NoCrew \notin Crews /\ NoAgent \notin Agents
  /\ \A i \in DOMAIN RoutingRules : RoutingRules[i].crew \in Crews
                                    /\ RoutingRules[i].able \subseteq Agents
  /\ AutomationRules \in Seq([kinds : SUBSET CaseKinds, major : SUBSET BOOLEAN,
                              crew : Crews \cup {NoCrew}, flag : SUBSET BOOLEAN])
  /\ \A a, b \in Agents : AgentOrder[a] = AgentOrder[b] => a = b

VARIABLES
  case,    \* case[t]: the columns of ticket t that routing uses
  ruleOn,  \* routing rules that were created
  clerk    \* clerk[r]: the creation r is at

routingVars == <<case, ruleOn, clerk>>

NoCase == [state |-> "unborn", kind |-> "none", crew |-> NoCrew, agent |-> NoAgent, major |-> FALSE]

NoClerk == [op |-> "idle", kind |-> "none", crew |-> NoCrew, agent |-> NoAgent, major |-> FALSE,
            rule |-> 0, t |-> {}, next |-> 0]

Filing(r) == clerk[r] # NoClerk

MayInterfere == "overlap" \in RoutingFeatures \/ \A r \in Clerks : ~Filing(r)

(***************************************************************************)
(* resolveRouting and pickLeastLoadedAssignee                              *)
(***************************************************************************)
File(r, kind, major) ==
  /\ ~Filing(r) /\ MayInterfere
  /\ clerk' = [clerk EXCEPT ![r] = [NoClerk EXCEPT !.op = "route", !.kind = kind, !.major = major]]
  /\ UNCHANGED <<case, ruleOn>>

Fitting(kind) == {i \in ruleOn : kind \in RoutingRules[i].kinds}

MatchRule(r, i) ==
  /\ clerk[r].op = "route"
  /\ i \in Fitting(clerk[r].kind) /\ \A j \in Fitting(clerk[r].kind) : i <= j
  /\ clerk' = [clerk EXCEPT ![r].op = IF RoutingRules[i].auto THEN "pick" ELSE "create",
                            ![r].crew = RoutingRules[i].crew, ![r].rule = i]
  /\ UNCHANGED <<case, ruleOn>>

MatchNoneAndPick(r) ==   \* wrong variant: somebody is picked without a rule
  /\ clerk[r].op = "route" /\ Fitting(clerk[r].kind) = {}
  /\ clerk' = [clerk EXCEPT ![r].op = "pick"]
  /\ UNCHANGED <<case, ruleOn>>

MatchNone(r) ==
  /\ clerk[r].op = "route" /\ Fitting(clerk[r].kind) = {}
  /\ clerk' = [clerk EXCEPT ![r].op = "create"]
  /\ UNCHANGED <<case, ruleOn>>

Load(a) == Cardinality({t \in Cases : case[t].state = "open" /\ case[t].agent = a})

(* a comes before b: fewer tickets, then a lead, then the smaller id. *)
Before(a, b) ==
  \/ Load(a) < Load(b)
  \/ Load(a) = Load(b) /\ a \in Leads /\ b \notin Leads
  \/ Load(a) = Load(b) /\ (a \in Leads <=> b \in Leads) /\ AgentOrder[a] <= AgentOrder[b]

PickAgent(r) ==
  /\ clerk[r].op = "pick"
  /\ LET able == RoutingRules[clerk[r].rule].able
     IN  \/ \E a \in able : (\A b \in able : Before(a, b))
                            /\ clerk' = [clerk EXCEPT ![r].op = "create", ![r].agent = a]
         \/ able = {} /\ clerk' = [clerk EXCEPT ![r].op = "create"]
  /\ UNCHANGED <<case, ruleOn>>

CreateCase(r, t) ==
  /\ clerk[r].op = "create" /\ case[t] = NoCase
  /\ case' = [case EXCEPT ![t] =
       [state |-> "open", kind |-> clerk[r].kind, crew |-> clerk[r].crew,
        agent |-> clerk[r].agent, major |-> clerk[r].major]]
  /\ clerk' = [clerk EXCEPT ![r].op = "automate", ![r].t = {t}, ![r].next = 1]
  /\ UNCHANGED ruleOn

(***************************************************************************)
(* evaluateOnCreate                                                        *)
(***************************************************************************)
(* A rule is matched against the copy, and not against the row. *)
Matches(rule, copy) ==
  copy.kind \in rule.kinds /\ copy.major \in rule.major

CrewAfter(rule, copy) == IF rule.crew = NoCrew THEN copy.crew ELSE rule.crew

FlagAfter(rule, copy) == IF rule.flag = {} THEN copy.major ELSE rule.flag = {TRUE}

FirstRuleOnly(r, t) ==   \* wrong variant: a rule that matches ends the evaluation
  /\ clerk[r].op = "automate" /\ t \in clerk[r].t
  /\ clerk[r].next <= Len(AutomationRules)
  /\ LET rule == AutomationRules[clerk[r].next]
         copy == clerk[r]
     IN  IF Matches(rule, copy)
         THEN /\ case' = [case EXCEPT ![t].crew = CrewAfter(rule, copy),
                                      ![t].major = FlagAfter(rule, copy)]
              /\ clerk' = [clerk EXCEPT ![r].next = Len(AutomationRules) + 1,
                                        ![r].crew = CrewAfter(rule, copy),
                                        ![r].major = FlagAfter(rule, copy)]
         ELSE clerk' = [clerk EXCEPT ![r].next = @ + 1] /\ UNCHANGED case
  /\ UNCHANGED ruleOn

(* Columns whose value the copy has already are not written. *)
ApplyRule(r, t) ==
  /\ clerk[r].op = "automate" /\ t \in clerk[r].t
  /\ clerk[r].next <= Len(AutomationRules)
  /\ LET rule == AutomationRules[clerk[r].next]
         copy == clerk[r]
     IN  IF Matches(rule, copy)
         THEN /\ case' = [case EXCEPT
                   ![t].crew = IF CrewAfter(rule, copy) # copy.crew THEN CrewAfter(rule, copy) ELSE @,
                   ![t].major = IF FlagAfter(rule, copy) # copy.major THEN FlagAfter(rule, copy) ELSE @]
              /\ clerk' = [clerk EXCEPT ![r].next = @ + 1, ![r].crew = CrewAfter(rule, copy),
                                        ![r].major = FlagAfter(rule, copy)]
         ELSE clerk' = [clerk EXCEPT ![r].next = @ + 1] /\ UNCHANGED case
  /\ UNCHANGED ruleOn

EndCreation(r) ==
  /\ clerk[r].op = "automate" /\ clerk[r].next > Len(AutomationRules)
  /\ clerk' = [clerk EXCEPT ![r] = NoClerk]
  /\ UNCHANGED <<case, ruleOn>>

(***************************************************************************)
(* Agents and administrators                                               *)
(***************************************************************************)
EditCase(t, crew, agent) ==
  /\ "edit" \in RoutingFeatures /\ MayInterfere
  /\ case[t].state = "open"
  /\ case' = [case EXCEPT ![t].crew = crew, ![t].agent = agent]
  /\ UNCHANGED <<ruleOn, clerk>>

EndCase(t) ==
  /\ MayInterfere
  /\ case[t].state = "open"
  /\ case' = [case EXCEPT ![t].state = "ended"]
  /\ UNCHANGED <<ruleOn, clerk>>

(* Rules are created active, and nothing turns them off. *)
CreateRule(i) ==
  /\ "rules" \in RoutingFeatures /\ MayInterfere
  /\ i \notin ruleOn
  /\ ruleOn' = ruleOn \cup {i}
  /\ UNCHANGED <<case, clerk>>

(***************************************************************************)
(* The specification                                                       *)
(***************************************************************************)
RoutingInit ==
  /\ case = [t \in Cases |-> NoCase]
  /\ ruleOn = {}
  /\ clerk = [r \in Clerks |-> NoClerk]

RoutingNext ==
  \/ \E r \in Clerks :
       \/ \E kind \in CaseKinds, major \in BOOLEAN : File(r, kind, major)
       \/ \E i \in DOMAIN RoutingRules : MatchRule(r, i)
       \/ MatchNone(r) \/ PickAgent(r)
       \/ \E t \in Cases : CreateCase(r, t) \/ ApplyRule(r, t)
       \/ EndCreation(r)
  \/ \E t \in Cases :
       \/ \E crew \in Crews, agent \in Agents \cup {NoAgent} : EditCase(t, crew, agent)
       \/ EndCase(t)
  \/ \E i \in DOMAIN RoutingRules : CreateRule(i)

RoutingSpec == RoutingInit /\ [][RoutingNext]_routingVars

(***************************************************************************)
(* Properties                                                              *)
(***************************************************************************)
\* Rows and creations have their shape, and a creation that runs the
\* automation rules has its row.
RoutingTypeOK ==
  /\ case \in [Cases -> [state : {"unborn", "open", "ended"}, kind : CaseKinds \cup {"none"},
                         crew : Crews \cup {NoCrew}, agent : Agents \cup {NoAgent}, major : BOOLEAN]]
  /\ ruleOn \subseteq DOMAIN RoutingRules
  /\ \A r \in Clerks :
       /\ clerk[r].op \in {"idle", "route", "pick", "create", "automate"}
       /\ clerk[r].op = "pick" => clerk[r].rule \in DOMAIN RoutingRules
       /\ clerk[r].op = "automate" => \E t \in Cases : clerk[r].t = {t} /\ case[t] # NoCase

\* Rules are applied in order to what the earlier ones left, and none ends the
\* evaluation: when it is over, the last rule that sets a crew has decided the
\* crew of every ticket that matches it at its end (the flag having been set,
\* if at all, by an earlier rule).
LastRuleWins ==
  [][\A r \in Clerks : clerk[r].op = "automate" /\ clerk'[r].op = "idle" =>
       \A t \in clerk[r].t : \A i \in DOMAIN AutomationRules :
         LET rule == AutomationRules[i]
         IN  (/\ Matches(rule, case[t]) /\ rule.crew # NoCrew
              /\ \A j \in DOMAIN AutomationRules : j > i => AutomationRules[j].crew = NoCrew
              /\ \A j \in DOMAIN AutomationRules : j >= i => AutomationRules[j].flag = {})
               => case[t].crew = rule.crew]_routingVars
=============================================================================
