----------------------------- MODULE Approvals ------------------------------
(***************************************************************************)
(* Approval rows and policies (ApprovalsService), composed with the ticket *)
(* rows: what Tickets knows as a verdict that arrives is here the end of a *)
(* chain of steps, and CAB submission goes on to create approval rows.     *)
(*                                                                         *)
(* A request served in slot r holds what it read of the ticket in req[r]   *)
(* (see Tickets) and what it does about approvals in flow[r].  Each value  *)
(* of flow[r].pc is one await of the code.                                 *)
(***************************************************************************)
EXTENDS Tickets, Sequences, FiniteSetsExt

CONSTANTS
  Users,            \* who may hold an approver role
  Policies,         \* Policies[e]: the steps of edition e of the policy
  LegacyApprovers   \* holders of the role "approver", asked without a policy

ASSUME ApprovalsAssumption ==
  /\ LegacyApprovers \subseteq Users
  /\ Policies \in Seq(Seq([approvers : SUBSET Users, mode : {"any", "all"}]))
  /\ Len(Policies) > 0

VARIABLES
  approval,   \* the rows of the approvals table, in the order of insertion
  flow,       \* flow[r]: the approval work of request r
  edition,    \* which edition of the policy's steps is stored
  active,     \* the policy's isActive
  editing     \* an administrator's replacement of the steps is under way

avars == <<approval, flow, edition, active, editing>>
allVars == <<vars, avars>>

(* The edition of a row without a policy (policyId null). *)
NoPolicy == 0

NoFlow == [pc |-> "none", id |-> 0, t |-> NoTicket, decision |-> "pending",
           edition |-> NoPolicy, step |-> 0, mode |-> "any", left |-> {}]

(***************************************************************************)
(* Helpers                                                                 *)
(***************************************************************************)
Busy(r) == req[r].op # "idle" \/ flow[r].pc # "none"

(* A request can start in slot r. *)
Room(r) ==
  /\ ~Busy(r)
  /\ Cardinality({s \in Requests : Busy(s)}) + (IF editing THEN 1 ELSE 0) < MaxInFlight

Continue(r, f) == flow' = [flow EXCEPT ![r] = f]
Return(r) == Continue(r, NoFlow)

Pending == {i \in DOMAIN approval : approval[i].status = "pending"}

(* An update of the rows in ids; `auto` when no approver asked for it (the
   comment then says "Auto-closed ..."). *)
Decide(ids, decision, auto) ==
  approval' = [i \in DOMAIN approval |->
    IF i \in ids THEN [approval[i] EXCEPT !.status = decision, !.auto = auto]
    ELSE approval[i]]

ModeOfAny(row) == "any"   \* wrong variant: the mode is not looked at

(* `approval.step?.mode ?? 'any'`: replacing a policy's steps sets the stepId
   of the rows that were made from them to null. *)
ModeOf(row) == IF row.edition = edition THEN Policies[edition][row.step].mode ELSE "any"

(* resolvePolicy: a policy is passed over when inactive or without steps. *)
PolicyApplies == active /\ Policies[edition] # <<>>

(***************************************************************************)
(* Entering approval: on creation, and by requestCab                       *)
(***************************************************************************)
CreateForApproval(r, t) ==
  /\ Room(r)
  /\ TypeOf[t] \in ApprovalTypes
  /\ Create(t)
  /\ Continue(r, [NoFlow EXCEPT !.pc = "route", !.t = t])
  /\ UNCHANGED <<approval, edition, active, editing>>

RequestCab(r, t) == Room(r) /\ BeginCab(r, t) /\ UNCHANGED avars

SubmitToCab(r) ==
  /\ CompleteCab(r)
  /\ Continue(r, [NoFlow EXCEPT !.pc = "route", !.t = req[r].t])
  /\ UNCHANGED <<approval, edition, active, editing>>

(* The approvers who are still to get a row; none is left, and the flow
   ends, when nobody holds the role. *)
Spawning(t, e, step, approvers) ==
  IF approvers = {} THEN NoFlow
  ELSE [NoFlow EXCEPT !.pc = "insert", !.t = t, !.edition = e, !.step = step,
                      !.left = approvers]

RouteReversed(r) ==   \* wrong variant: the steps are read in descending order
  LET last == Len(Policies[edition]) IN
  /\ flow[r].pc = "route"
  /\ Continue(r, IF PolicyApplies
                 THEN Spawning(flow[r].t, edition, last, Policies[edition][last].approvers)
                 ELSE Spawning(flow[r].t, NoPolicy, 1, LegacyApprovers))
  /\ UNCHANGED <<vars, approval, edition, active, editing>>

RouteZeroBased(r) ==   \* wrong variant: the steps are numbered from 0
  /\ flow[r].pc = "route"
  /\ Continue(r, IF PolicyApplies
                 THEN Spawning(flow[r].t, edition, 0, Policies[edition][1].approvers)
                 ELSE Spawning(flow[r].t, NoPolicy, 1, LegacyApprovers))
  /\ UNCHANGED <<vars, approval, edition, active, editing>>

(* createForTicket: choose the policy, or the legacy approvers *)
Route(r) ==
  /\ flow[r].pc = "route"
  /\ Continue(r, IF PolicyApplies
                 THEN Spawning(flow[r].t, edition, 1, Policies[edition][1].approvers)
                 ELSE Spawning(flow[r].t, NoPolicy, 1, LegacyApprovers))
  /\ UNCHANGED <<vars, approval, edition, active, editing>>

(* One row per approver, each insert awaited before the next.  The insert of
   a row for a step that was replaced meanwhile breaks its foreign key. *)
InsertRow(r) ==
  LET f == flow[r] IN
  /\ f.pc = "insert"
  /\ \/ /\ f.edition \in {NoPolicy, edition}
        /\ \E a \in f.left :
             /\ approval' = Append(approval, [t |-> f.t, approver |-> a, step |-> f.step,
                                              edition |-> f.edition, status |-> "pending",
                                              auto |-> FALSE])
             /\ Continue(r, Spawning(f.t, f.edition, f.step, f.left \ {a}))
     \/ f.edition \notin {NoPolicy, edition} /\ Return(r) /\ UNCHANGED approval
  /\ UNCHANGED <<vars, edition, active, editing>>

BeginDecide(r, i, decision) ==
  LET row == approval[i] IN
  /\ Room(r)
  /\ row.status = "pending"
  /\ BeginVerdict(r, row.t, IF decision = "rejected" THEN "cancelled"
                            ELSE ApprovedStatus(TypeOf[row.t]))
  /\ Continue(r, [pc |-> "decide", id |-> i, t |-> row.t, decision |-> decision,
                  edition |-> IF row.edition = NoPolicy THEN NoPolicy ELSE edition,
                  step |-> row.step, mode |-> ModeOf(row), left |-> {}])
  /\ UNCHANGED <<approval, edition, active, editing>>

WriteDecision(r) ==
  LET f == flow[r] IN
  /\ f.pc = "decide"
  /\ Decide({f.id}, f.decision, FALSE)
  /\ Continue(r, [f EXCEPT !.pc = IF f.decision = "rejected" THEN "refuse"
                                  ELSE IF f.mode = "all" THEN "count" ELSE "close"])
  /\ UNCHANGED <<vars, edition, active, editing>>

Peers(f) == {i \in Pending \ {f.id} : approval[i].t = f.t /\ approval[i].step = f.step}

(* isStepComplete in mode "all" *)
CountPending(r) ==
  LET f == flow[r] IN
  /\ f.pc = "count"
  /\ \/ Peers(f) # {} /\ Abandon(r) /\ Return(r)
     \/ Peers(f) = {} /\ Continue(r, [f EXCEPT !.pc = "close"]) /\ UNCHANGED vars
  /\ UNCHANGED <<approval, edition, active, editing>>

HasNextStep(f) == f.edition # NoPolicy /\ f.step < Len(Policies[f.edition])

ClosePeersForgotten(r) ==   \* wrong variant: the other approvers' rows stay open
  LET f == flow[r] IN
  /\ f.pc = "close"
  /\ \/ /\ HasNextStep(f)
        /\ Abandon(r)
        /\ Continue(r, Spawning(f.t, f.edition, f.step + 1,
                                Policies[f.edition][f.step + 1].approvers))
     \/ /\ ~HasNextStep(f)
        /\ UNCHANGED vars
        /\ Continue(r, [f EXCEPT !.pc = "apply"])
  /\ UNCHANGED <<approval, edition, active, editing>>

(* The step is complete: what is left of it is closed, and the next step is
   spawned or the ticket is released. *)
ClosePeers(r) ==
  LET f == flow[r] IN
  /\ f.pc = "close"
  /\ Decide(Peers(f), "approved", TRUE)
  /\ \/ /\ HasNextStep(f)
        /\ Abandon(r)
        /\ Continue(r, Spawning(f.t, f.edition, f.step + 1,
                                Policies[f.edition][f.step + 1].approvers))
     \/ /\ ~HasNextStep(f)
        /\ UNCHANGED vars
        /\ Continue(r, [f EXCEPT !.pc = "apply"])
  /\ UNCHANGED <<edition, active, editing>>

CloseRoundOnly(r) ==   \* wrong variant: the ticket is not cancelled
  LET f == flow[r] IN
  /\ f.pc = "refuse"
  /\ Decide({i \in Pending : approval[i].t = f.t}, "rejected", TRUE)
  /\ Abandon(r) /\ Return(r)
  /\ UNCHANGED <<edition, active, editing>>

(* finalizeRejection closes the pending rows of every step. *)
CloseRound(r) ==
  LET f == flow[r] IN
  /\ f.pc = "refuse"
  /\ Decide({i \in Pending : approval[i].t = f.t}, "rejected", TRUE)
  /\ Continue(r, [f EXCEPT !.pc = "apply"])
  /\ UNCHANGED <<vars, edition, active, editing>>

ApplyUnvalidated(r) ==   \* wrong variant: the transition is not looked up
  LET h == req[r] IN
  /\ flow[r].pc = "apply"
  /\ ticket' = [ticket EXCEPT ![h.t] = [Bump(@) EXCEPT !.status = h.target]]
  /\ Finish(r)
  /\ UNCHANGED <<poller, now>>
  /\ Return(r)
  /\ UNCHANGED <<approval, edition, active, editing>>

ApplyTicketStatus(r) ==
  /\ flow[r].pc = "apply"
  /\ CompleteVerdict(r)
  /\ Return(r)
  /\ UNCHANGED <<approval, edition, active, editing>>

BeginUpdatePolicy ==
  /\ "policy" \in Features
  /\ ~editing
  /\ Cardinality({s \in Requests : Busy(s)}) < MaxInFlight
  /\ edition < Len(Policies)
  /\ \A i \in Pending : approval[i].edition = NoPolicy
  /\ editing' = TRUE
  /\ UNCHANGED <<vars, approval, flow, edition, active>>

ReplaceSteps ==
  /\ editing
  /\ edition' = edition + 1
  /\ editing' = FALSE
  /\ UNCHANGED <<vars, approval, flow, active>>

SetActive(on) ==
  /\ "policy" \in Features
  /\ active # on
  /\ active' = on
  /\ UNCHANGED <<vars, approval, flow, edition, editing>>

(***************************************************************************)
(* Staff may move the ticket by hand; the process may restart.             *)
(***************************************************************************)
MoveByHand(r, t, target) ==
  /\ Room(r)
  /\ BeginUpdate(r, t, target, "staff")
  /\ UNCHANGED avars

FinishMove(r) == CompleteUpdate(r) /\ UNCHANGED avars

Restart ==
  /\ "crash" \in Features
  /\ \E r \in Requests : Busy(r)
  /\ req' = [r \in Requests |-> Idle] /\ poller' = IdlePoller
  /\ flow' = [r \in Requests |-> NoFlow] /\ editing' = FALSE
  /\ UNCHANGED <<ticket, now, approval, edition, active>>

(***************************************************************************)
(* Specification                                                           *)
(***************************************************************************)
ApprovalsInit ==
  /\ Init
  /\ approval = <<>>
  /\ flow = [r \in Requests |-> NoFlow]
  /\ edition = 1 /\ active = TRUE /\ editing = FALSE

Enter(r) ==
  \/ \E t \in Tickets : CreateForApproval(r, t) \/ RequestCab(r, t)
  \/ SubmitToCab(r)
  \/ Route(r)
  \/ InsertRow(r)

Resolve(r) ==
  \/ \E i \in DOMAIN approval, decision \in {"approved", "rejected"} :
       BeginDecide(r, i, decision)
  \/ WriteDecision(r)
  \/ CountPending(r)
  \/ ClosePeers(r)
  \/ CloseRound(r)
  \/ ApplyTicketStatus(r)

Administer == BeginUpdatePolicy \/ ReplaceSteps \/ (\E on \in BOOLEAN : SetActive(on))

ApprovalsNext ==
  \/ \E r \in Requests :
       \/ Enter(r)
       \/ Resolve(r)
       \/ \E t \in Tickets, target \in Targets : MoveByHand(r, t, target)
       \/ FinishMove(r)
  \/ Administer
  \/ Restart

ApprovalsSpec == ApprovalsInit /\ [][ApprovalsNext]_allVars

(***************************************************************************)
(* Properties                                                              *)
(***************************************************************************)
Deciding == {"decide", "count", "close", "refuse", "apply"}
Pcs == {"none", "route", "insert"} \cup Deciding

ApprovalRow == [t : Tickets, approver : Users, step : Nat \ {0},
                edition : 0..Len(Policies), auto : BOOLEAN,
                status : {"pending", "approved", "rejected"}]

Flow == [pc : Pcs, id : Nat, t : Tickets \cup {NoTicket},
         decision : {"pending", "approved", "rejected"},
         edition : 0..Len(Policies), step : Nat, mode : {"any", "all"},
         left : SUBSET Users]

HasStep(e, s) == IF e = NoPolicy THEN s = 1 ELSE s \in 1..Len(Policies[e])

\* Rows and flows have their shape, and a row's step is one that the edition
\* of the policy it was made from has.
ApprovalsTypeOK ==
  /\ approval \in Seq(ApprovalRow)
  /\ flow \in [Requests -> Flow]
  /\ edition \in 1..Len(Policies) /\ active \in BOOLEAN /\ editing \in BOOLEAN
  /\ editing => edition < Len(Policies)
  /\ \A i \in DOMAIN approval : HasStep(approval[i].edition, approval[i].step)

StepDecided(t, s) == \E j \in DOMAIN approval :
  approval[j].t = t /\ approval[j].step = s /\ approval[j].status # "pending"

(* A flow works for an existing ticket and row, on a step that is due; while
   it decides, the request it may end with is still held for it. *)
FlowMatches(r) ==
  LET f == flow[r] IN
  /\ f.pc \in {"route", "insert"} => f.t \in Tickets /\ req[r].op = "idle"
  /\ f.pc = "insert" =>
       /\ HasStep(f.edition, f.step)
       /\ f.step > 1 => StepDecided(f.t, f.step - 1)
  /\ f.pc \in Deciding =>
       /\ f.id \in DOMAIN approval
       /\ approval[f.id].t = f.t /\ approval[f.id].step = f.step
       /\ f.decision # "pending"
       /\ req[r].op = "verdict" /\ req[r].t = f.t
  /\ f.pc \in Deciding \ {"decide"} => approval[f.id].status # "pending"

Quiet == ~editing /\ \A r \in Requests : ~Busy(r)

\* Nobody waits for nobody: when no handler is at work, a ticket in
\* "pending_approval" has a pending row, so that somebody's decision can
\* still end the wait.
NotStuck == Quiet => \A t \in Tickets :
  ticket[t].status = "pending_approval" => \E i \in Pending : approval[i].t = t

\* Only one step of a ticket is open at a time.
CurrentStepOnly == \A i, j \in Pending :
  approval[i].t = approval[j].t => approval[i].step = approval[j].step

\* Steps are opened in order: whoever is asked at a later step, a row of the
\* step before has been decided.
StepsInOrder == \A i \in DOMAIN approval :
  approval[i].step > 1 => StepDecided(approval[i].t, approval[i].step - 1)

\* The inductive invariant the proofs use, beside that of Tickets.
AInv == ApprovalsTypeOK /\ (\A r \in Requests : FlowMatches(r)) /\ StepsInOrder

\* In mode "all" the round goes past a step only when every approver of the
\* step has approved it (for the edition of the policy in force).
EveryApproverSigned == \A i \in DOMAIN approval :
  LET row == approval[i] IN
  row.edition = edition => \A s \in 1..(row.step - 1) :
    Policies[edition][s].mode = "all" =>
      \A a \in Policies[edition][s].approvers : \E j \in DOMAIN approval :
        /\ approval[j].t = row.t /\ approval[j].step = s
        /\ approval[j].approver = a /\ approval[j].status = "approved"
        /\ ~approval[j].auto

\* The composed system does to ticket rows what Tickets allows, so what is
\* shown of Tickets holds of it.
ImplementsTickets == Spec

(* The approval round as its users see it *)
StepsOf(t) == {approval[i].step : i \in {j \in DOMAIN approval : approval[j].t = t}}
CurrentStep(t) == IF StepsOf(t) = {} THEN 0 ELSE Max(StepsOf(t))
SignedBy(t) == {a \in Users : \E i \in DOMAIN approval :
  /\ approval[i].t = t /\ approval[i].step = CurrentStep(t)
  /\ approval[i].approver = a /\ approval[i].status = "approved" /\ ~approval[i].auto}
Outcome(t) ==
  CASE ticket[t].status = "absent" -> "none"
    [] ticket[t].status = "pending_approval" -> "pending"
    [] ticket[t].status = "cancelled" -> "refused"
    [] OTHER -> "approved"

Round(t) == INSTANCE ApprovalRound WITH
  Policy <- Policies[1], outcome <- Outcome(t), step <- CurrentStep(t),
  signed <- SignedBy(t)

\* Each ticket's round is the one its policy promises.
ImplementsRound ==
  /\ \A t \in Tickets : Round(t)!Init
  /\ [][\A t \in Tickets : [Round(t)!Next]_(Round(t)!vars)]_allVars
=============================================================================
