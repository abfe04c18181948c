-------------------------- MODULE ApprovalsProofs ---------------------------
(***************************************************************************)
(* Proofs about Approvals: the composed system implements Tickets, so the  *)
(* theorems of TicketsProofs hold of it, and the steps of an approval      *)
(* policy are opened in order however its handlers interleave.             *)
(***************************************************************************)
EXTENDS Approvals, TicketsProofs, SequenceTheorems

LEMMA EditionsExist == Len(Policies) \in Nat /\ 1 \in 1..Len(Policies)
<1>. DEFINE Steps == Seq([approvers : SUBSET Users, mode : {"any", "all"}])
<1>1. Policies \in Seq(Steps) /\ Len(Policies) > 0
  BY ApprovalsAssumption
<1>. HIDE DEF Steps
<1>2. Len(Policies) \in Nat
  BY <1>1, LenProperties
<1>. QED  BY <1>1, <1>2

LEMMA NoFlowIsFlow == NoFlow \in Flow /\ NoFlow.pc = "none"
BY EditionsExist DEF NoFlow, Flow, Pcs, Deciding, NoPolicy

(* The steps of an edition, and who is asked at them. *)
LEMMA PolicyFacts ==
  ASSUME NEW e \in 1..Len(Policies), NEW s \in 1..Len(Policies[e])
  PROVE  /\ Policies[e][s].approvers \subseteq Users
         /\ Policies[e][s].mode \in {"any", "all"}
<1>. DEFINE Step == [approvers : SUBSET Users, mode : {"any", "all"}]
<1>1. Policies \in Seq(Seq(Step))
  BY ApprovalsAssumption
<1>. SUFFICES Policies[e][s] \in Step
  OBVIOUS
<1>. HIDE DEF Step
<1>2. Policies[e] \in Seq(Step)
  BY <1>1, ElementOfSeq
<1>. QED  BY <1>2, ElementOfSeq

LEMMA StepFacts ==
  ASSUME NEW e \in 0..Len(Policies)
  PROVE  /\ e # NoPolicy => e \in 1..Len(Policies) /\ Len(Policies[e]) \in Nat
         /\ \A s : HasStep(e, s) => s \in Nat \ {0}
<1>. DEFINE Step == [approvers : SUBSET Users, mode : {"any", "all"}]
<1>1. Policies \in Seq(Seq(Step))
  BY ApprovalsAssumption
<1>. HIDE DEF Step
<1>2. ASSUME e # NoPolicy
      PROVE  e \in 1..Len(Policies) /\ Len(Policies[e]) \in Nat
  <2>1. e \in 1..Len(Policies)
    BY <1>2, EditionsExist DEF NoPolicy
  <2>. QED  BY <1>1, <2>1, ElementOfSeq, LenProperties
<1>. QED  BY <1>2 DEF HasStep

LEMMA ApprovalsInitInv == ApprovalsInit => AInv
<1>. SUFFICES ASSUME ApprovalsInit PROVE AInv
  OBVIOUS
<1>1. flow \in [Requests -> Flow] /\ \A r \in Requests : flow[r].pc = "none"
  BY NoFlowIsFlow DEF ApprovalsInit
<1>2. approval \in Seq(ApprovalRow) /\ DOMAIN approval = {}
  BY DEF ApprovalsInit
<1>3. /\ edition \in 1..Len(Policies) /\ active \in BOOLEAN /\ editing \in BOOLEAN
      /\ editing => edition < Len(Policies)
  BY EditionsExist DEF ApprovalsInit
<1>4. ApprovalsTypeOK
  BY <1>1, <1>2, <1>3 DEF ApprovalsTypeOK
<1>5. \A r \in Requests : FlowMatches(r)
  BY <1>1 DEF FlowMatches, Deciding
<1>6. StepsInOrder
  BY <1>2 DEF StepsInOrder
<1>. QED  BY <1>4, <1>5, <1>6 DEF AInv

(***************************************************************************)
(* What a step may do to the approval rows: keep the ticket, step and      *)
(* edition of each, never make a decided one pending, and add rows whose   *)
(* step is due.                                                            *)
(***************************************************************************)
RowsGrow ==
  /\ approval' \in Seq(ApprovalRow)
  /\ \A i \in DOMAIN approval :
       /\ i \in DOMAIN approval'
       /\ approval'[i].t = approval[i].t
       /\ approval'[i].step = approval[i].step
       /\ approval'[i].edition = approval[i].edition
       /\ approval[i].status # "pending" => approval'[i].status # "pending"
  /\ \A i \in DOMAIN approval' \ DOMAIN approval :
       /\ HasStep(approval'[i].edition, approval'[i].step)
       /\ approval'[i].step > 1 => StepDecided(approval'[i].t, approval'[i].step - 1)

LEMMA RowsSame ==
  ASSUME AInv, UNCHANGED approval
  PROVE  RowsGrow
BY DEF AInv, ApprovalsTypeOK, RowsGrow

LEMMA DecidedStays ==
  ASSUME RowsGrow, NEW t, NEW s, StepDecided(t, s)
  PROVE  StepDecided(t, s)'
BY DEF StepDecided, RowsGrow

LEMMA AppendRow ==
  ASSUME AInv, NEW row \in ApprovalRow, approval' = Append(approval, row),
         HasStep(row.edition, row.step),
         row.step > 1 => StepDecided(row.t, row.step - 1)
  PROVE  RowsGrow
<1>. DEFINE n == Len(approval)
<1>1. /\ approval \in Seq(ApprovalRow)
      /\ n \in Nat /\ DOMAIN approval = 1..n
  BY LenProperties DEF AInv, ApprovalsTypeOK
<1>2. /\ approval' \in Seq(ApprovalRow) /\ DOMAIN approval' = 1..(n + 1)
      /\ \A i \in 1..n : approval'[i] = approval[i]
      /\ approval'[n + 1] = row
  BY <1>1, AppendProperties, LenProperties
<1>3. DOMAIN approval' \ DOMAIN approval = {n + 1}
  BY <1>1, <1>2
<1>. HIDE DEF n
<1>. QED  BY <1>1, <1>2, <1>3 DEF RowsGrow

LEMMA DecideRows ==
  ASSUME AInv, NEW ids, NEW decision \in {"approved", "rejected"}, NEW auto \in BOOLEAN,
         Decide(ids, decision, auto)
  PROVE  /\ RowsGrow
         /\ \A i \in ids \cap DOMAIN approval : approval'[i].status # "pending"
<1>1. approval \in Seq(ApprovalRow)
  BY DEF AInv, ApprovalsTypeOK
<1>. DEFINE n == Len(approval)
            new == [i \in 1..n |->
                     IF i \in ids
                     THEN [approval[i] EXCEPT !.status = decision, !.auto = auto]
                     ELSE approval[i]]
<1>2. n \in Nat /\ DOMAIN approval = 1..n /\ approval' = new
  BY <1>1, LenProperties DEF Decide
<1>3. \A i \in 1..n : approval[i] \in ApprovalRow
  BY <1>1, ElementOfSeq
<1>4. ASSUME NEW i \in 1..n
      PROVE  /\ new[i] \in ApprovalRow
             /\ new[i].t = approval[i].t /\ new[i].step = approval[i].step
             /\ new[i].edition = approval[i].edition
             /\ new[i].status = IF i \in ids THEN decision ELSE approval[i].status
  BY <1>3 DEF ApprovalRow
<1>5. new \in Seq(ApprovalRow) /\ DOMAIN new = 1..n
  <2>1. new \in [1..n -> ApprovalRow]
    BY <1>4
  <2>. HIDE DEF new
  <2>. QED  BY <1>2, <2>1, SeqDef
<1>. HIDE DEF new
<1>. QED  BY <1>2, <1>4, <1>5 DEF RowsGrow

(***************************************************************************)
(* A step that changes one flow, and the handler state of its slot only,   *)
(* preserves the invariant when the flow matches the new rows.             *)
(***************************************************************************)
LEMMA MatchesKept ==
  ASSUME AInv, RowsGrow,
         NEW r \in Requests, flow'[r] = flow[r], req'[r] = req[r]
  PROVE  FlowMatches(r)'
<1>. DEFINE f == flow[r]
<1>1. FlowMatches(r) /\ f \in Flow
  BY DEF AInv, ApprovalsTypeOK
<1>2. ASSUME NEW t, NEW s, StepDecided(t, s)
      PROVE  StepDecided(t, s)'
  BY <1>2 DEF StepDecided, RowsGrow
<1>. QED  BY <1>1, <1>2 DEF FlowMatches, RowsGrow

LEMMA FlowStep ==
  ASSUME AInv, RowsGrow,
         NEW r \in Requests, NEW f \in Flow, Continue(r, f),
         FlowMatches(r)',
         \A s \in Requests \ {r} : req'[s] = req[s],
         UNCHANGED <<edition, active, editing>>
  PROVE  AInv'
<1>1. flow' \in [Requests -> Flow] /\ \A s \in Requests \ {r} : flow'[s] = flow[s]
  BY DEF AInv, ApprovalsTypeOK, Continue
<1>2. \A i \in DOMAIN approval' : HasStep(approval'[i].edition, approval'[i].step)
  BY DEF AInv, ApprovalsTypeOK, RowsGrow
<1>3. ApprovalsTypeOK'
  BY <1>1, <1>2 DEF AInv, ApprovalsTypeOK, RowsGrow, HasStep
<1>4. \A s \in Requests : FlowMatches(s)'
  BY <1>1, MatchesKept
<1>5. StepsInOrder'
  <2>1. ASSUME NEW t, NEW s, StepDecided(t, s)
        PROVE  StepDecided(t, s)'
    BY <2>1 DEF StepDecided, RowsGrow
  <2>. QED  BY <2>1 DEF AInv, StepsInOrder, RowsGrow
<1>. QED  BY <1>3, <1>4, <1>5 DEF AInv

(* Steps of Tickets alone, on slots that serve no approval work. *)
LEMMA QuietStep ==
  ASSUME AInv, UNCHANGED <<approval, flow>>,
         \A r \in Requests : flow[r].pc = "none" \/ req'[r] = req[r],
         edition' \in 1..Len(Policies), active' \in BOOLEAN, editing' \in BOOLEAN,
         editing' => edition' < Len(Policies)
  PROVE  AInv'
<1>1. RowsGrow
  BY RowsSame
<1>2. ASSUME NEW r \in Requests, flow[r].pc = "none"
      PROVE  FlowMatches(r)'
  BY <1>2 DEF FlowMatches, Deciding
<1>3. \A r \in Requests : FlowMatches(r)'
  BY <1>1, <1>2, MatchesKept
<1>4. ApprovalsTypeOK' /\ StepsInOrder'
  BY DEF AInv, ApprovalsTypeOK, StepsInOrder, StepDecided, HasStep
<1>. QED  BY <1>3, <1>4 DEF AInv

LEMMA RestMatches ==
  ASSUME NEW r \in Requests, flow'[r].pc = "none"
  PROVE  FlowMatches(r)'
BY DEF FlowMatches, Deciding

(* Ending a flow, whatever is done to its request. *)
LEMMA ReturnStep ==
  ASSUME AInv, RowsGrow, NEW r \in Requests, Return(r),
         \A s \in Requests \ {r} : req'[s] = req[s],
         UNCHANGED <<edition, active, editing>>
  PROVE  AInv'
<1>1. flow'[r] = NoFlow
  BY DEF AInv, ApprovalsTypeOK, Return, Continue
<1>2. FlowMatches(r)'
  BY <1>1, NoFlowIsFlow, RestMatches
<1>. QED  BY <1>2, NoFlowIsFlow, FlowStep DEF Return

LEMMA SpawningIsFlow ==
  ASSUME NEW t \in Tickets, NEW e \in 0..Len(Policies), NEW s \in Nat \ {0},
         NEW who \in SUBSET Users
  PROVE  /\ Spawning(t, e, s, who) \in Flow
         /\ \/ Spawning(t, e, s, who).pc = "none"
            \/ /\ Spawning(t, e, s, who).pc = "insert"
               /\ Spawning(t, e, s, who).t = t
               /\ Spawning(t, e, s, who).edition = e
               /\ Spawning(t, e, s, who).step = s
BY NoFlowIsFlow DEF Spawning, NoFlow, Flow, Pcs

(* Going on to insert the rows of a step that is due. *)
LEMMA SpawnStep ==
  ASSUME AInv, RowsGrow, NEW r \in Requests,
         NEW t \in Tickets, NEW e \in 0..Len(Policies), NEW s \in Nat \ {0},
         NEW who \in SUBSET Users,
         Continue(r, Spawning(t, e, s, who)),
         HasStep(e, s), s > 1 => StepDecided(t, s - 1)',
         req'[r].op = "idle",
         \A u \in Requests \ {r} : req'[u] = req[u],
         UNCHANGED <<edition, active, editing>>
  PROVE  AInv'
<1>. DEFINE f == Spawning(t, e, s, who)
<1>1. flow'[r] = f
  BY DEF AInv, ApprovalsTypeOK, Continue
<1>2. FlowMatches(r)'
  BY <1>1, SpawningIsFlow DEF FlowMatches, Deciding, HasStep
<1>. QED  BY <1>2, SpawningIsFlow, FlowStep

(***************************************************************************)
(* One lemma per action                                                    *)
(***************************************************************************)
(* In the terms the actions use: where a flow is, and what it knows. *)
LEMMA FlowFacts ==
  ASSUME AInv, NEW r \in Requests
  PROVE  /\ flow[r] \in Flow /\ FlowMatches(r)
         /\ edition \in 1..Len(Policies) /\ edition \in 0..Len(Policies)
         /\ flow[r].pc \in Deciding \cup {"route", "insert"} => flow[r].t \in Tickets
         /\ flow[r].pc \in Deciding => flow[r].step \in Nat \ {0}
<1>1. flow[r] \in Flow /\ FlowMatches(r) /\ edition \in 1..Len(Policies)
  BY DEF AInv, ApprovalsTypeOK
<1>2. \A i \in DOMAIN approval : approval[i] \in ApprovalRow
  BY LenProperties, ElementOfSeq DEF AInv, ApprovalsTypeOK
<1>. QED  BY <1>1, <1>2, EditionsExist DEF FlowMatches, ApprovalRow, Flow, Deciding

LEMMA EnterStep ==
  ASSUME IInv, AInv, NEW r \in Requests, Enter(r)
  PROVE  AInv'
<1>. USE FlowFacts
<1>1. ASSUME NEW t \in Tickets, CreateForApproval(r, t)
      PROVE  AInv'
  <2>. DEFINE f == [NoFlow EXCEPT !.pc = "route", !.t = t]
  <2>1. f \in Flow /\ f.pc = "route" /\ f.t = t
    BY NoFlowIsFlow DEF Flow, Pcs, NoFlow
  <2>2. flow'[r] = f /\ Continue(r, f) /\ req' = req /\ req[r].op = "idle"
        /\ UNCHANGED <<approval, edition, active, editing>>
    BY <1>1 DEF CreateForApproval, Create, Continue, AInv, ApprovalsTypeOK, Room, Busy
  <2>. HIDE DEF f
  <2>3. FlowMatches(r)'
    BY <2>1, <2>2 DEF FlowMatches, Deciding
  <2>. QED  BY <2>1, <2>2, <2>3, RowsSame, FlowStep
<1>2. ASSUME NEW t \in Tickets, RequestCab(r, t)
      PROVE  AInv'
  <2>1. /\ UNCHANGED <<approval, flow, edition, active, editing>>
        /\ flow[r].pc = "none"
        /\ \A s \in Requests \ {r} : req'[s] = req[s]
    BY <1>2 DEF RequestCab, BeginCab, Begin, avars, Room, Busy, IInv, TypeOK
  <2>. QED  BY <2>1, QuietStep DEF AInv, ApprovalsTypeOK
<1>3. CASE SubmitToCab(r)
  <2>. DEFINE f == [NoFlow EXCEPT !.pc = "route", !.t = req[r].t]
  <2>1. req[r].t \in Tickets /\ req' = [req EXCEPT ![r] = Idle]
    BY <1>3 DEF SubmitToCab, CompleteCab, Finish, IInv, TypeOK
  <2>2. f \in Flow /\ f.pc = "route" /\ f.t = req[r].t
    BY <2>1, NoFlowIsFlow DEF Flow, Pcs, NoFlow
  <2>3. flow'[r] = f /\ Continue(r, f) /\ UNCHANGED <<approval, edition, active, editing>>
    BY <1>3 DEF SubmitToCab, Continue, AInv, ApprovalsTypeOK
  <2>4. req'[r].op = "idle" /\ \A s \in Requests \ {r} : req'[s] = req[s]
    BY <2>1 DEF IInv, TypeOK, Idle
  <2>. HIDE DEF f
  <2>5. FlowMatches(r)'
    BY <2>1, <2>2, <2>3, <2>4 DEF FlowMatches, Deciding
  <2>. QED  BY <2>2, <2>3, <2>4, <2>5, RowsSame, FlowStep
<1>4. CASE Route(r)
  <2>. DEFINE t == flow[r].t
  <2>1. /\ flow[r].pc = "route" /\ t \in Tickets /\ req' = req /\ req[r].op = "idle"
        /\ UNCHANGED <<approval, edition, active, editing>>
    BY <1>4 DEF Route, vars, FlowMatches
  <2>2. CASE PolicyApplies
    <3>1. /\ 1 \in 1..Len(Policies[edition])
          /\ Policies[edition][1].approvers \subseteq Users
      <4>. DEFINE Step == [approvers : SUBSET Users, mode : {"any", "all"}]
      <4>1. Policies \in Seq(Seq(Step))
        BY ApprovalsAssumption
      <4>. HIDE DEF Step
      <4>2. Policies[edition] \in Seq(Step)
        BY <4>1, ElementOfSeq
      <4>3. 1 \in 1..Len(Policies[edition])
        BY <2>2, <4>2, EmptySeq DEF PolicyApplies
      <4>. QED  BY <4>3, PolicyFacts
    <3>2. Continue(r, Spawning(t, edition, 1, Policies[edition][1].approvers))
      BY <1>4, <2>2 DEF Route
    <3>3. HasStep(edition, 1)
      BY <3>1 DEF HasStep
    <3>. QED  BY <2>1, <3>1, <3>2, <3>3, RowsSame, SpawnStep
  <2>3. CASE ~PolicyApplies
    <3>1. Continue(r, Spawning(t, NoPolicy, 1, LegacyApprovers))
      BY <1>4, <2>3 DEF Route
    <3>2. HasStep(NoPolicy, 1) /\ NoPolicy \in 0..Len(Policies)
      BY EditionsExist DEF HasStep, NoPolicy
    <3>. QED  BY <2>1, <3>1, <3>2, RowsSame, SpawnStep, ApprovalsAssumption
  <2>. QED  BY <2>2, <2>3
<1>5. CASE InsertRow(r)
  <2>. PICK f \in Flow : f = flow[r]
    OBVIOUS
  <2>1. /\ f.pc = "insert" /\ f.t \in Tickets /\ req' = req /\ req[r].op = "idle"
        /\ HasStep(f.edition, f.step)
        /\ f.step > 1 => StepDecided(f.t, f.step - 1)
        /\ UNCHANGED <<edition, active, editing>>
    BY <1>5 DEF InsertRow, vars, FlowMatches
  <2>2. f.step \in Nat \ {0} /\ f.edition \in 0..Len(Policies) /\ f.left \subseteq Users
    <3>1. f.edition \in 0..Len(Policies) /\ f.left \subseteq Users
      BY DEF Flow
    <3>2. HasStep(f.edition, f.step)
      BY <2>1
    <3>3. f.step \in Nat \ {0}
      BY <3>1, <3>2, StepFacts
    <3>. QED  BY <3>1, <3>3
  <2>3. ASSUME NEW a \in f.left,
               approval' = Append(approval, [t |-> f.t, approver |-> a, step |-> f.step,
                                   edition |-> f.edition, status |-> "pending", auto |-> FALSE]),
               Continue(r, Spawning(f.t, f.edition, f.step, f.left \ {a}))
        PROVE  AInv'
    <3>. DEFINE row == [t |-> f.t, approver |-> a, step |-> f.step, edition |-> f.edition,
                        status |-> "pending", auto |-> FALSE]
    <3>1. row \in ApprovalRow
      BY <2>1, <2>2 DEF ApprovalRow
    <3>2. /\ row.t = f.t /\ row.step = f.step /\ row.edition = f.edition
      OBVIOUS
    <3>. HIDE DEF row
    <3>3. RowsGrow
      <4>1. approval' = Append(approval, row)
        BY <2>3 DEF row
      <4>2. HasStep(row.edition, row.step)
        BY <2>1, <3>2
      <4>3. row.step > 1 => StepDecided(row.t, row.step - 1)
        BY <2>1, <3>2
      <4>. QED  BY <3>1, <4>1, <4>2, <4>3, AppendRow
    <3>. DEFINE t == f.t
                s == f.step
    <3>. HIDE DEF t, s
    <3>4. s > 1 => StepDecided(t, s - 1)'
      <4>1. s > 1 => StepDecided(t, s - 1)
        BY <2>1 DEF t, s
      <4>. QED  BY <3>3, <4>1, DecidedStays
    <3>. QED  BY <2>1, <2>2, <2>3, <3>3, <3>4, SpawnStep DEF t, s
  <2>4. CASE Return(r) /\ UNCHANGED approval
    BY <2>1, <2>4, RowsSame, ReturnStep
  <2>. QED  BY <1>5, <2>3, <2>4 DEF InsertRow
<1>. QED  BY <1>1, <1>2, <1>3, <1>4, <1>5 DEF Enter

(* What a deciding flow can rely on. *)
LEMMA DecidingFacts ==
  ASSUME AInv, NEW r \in Requests, flow[r].pc \in Deciding
  PROVE  /\ flow[r].id \in DOMAIN approval
         /\ approval[flow[r].id].t = flow[r].t
         /\ approval[flow[r].id].step = flow[r].step
         /\ flow[r].decision \in {"approved", "rejected"}
         /\ req[r].op = "verdict" /\ req[r].t = flow[r].t
         /\ flow[r].pc # "decide" => approval[flow[r].id].status # "pending"
BY FlowFacts DEF FlowMatches, Flow

(* A deciding flow that goes on, once its own row is decided. *)
LEMMA GoOnStep ==
  ASSUME AInv, NEW r \in Requests, flow[r].pc \in Deciding,
         NEW pc \in Deciding \ {"decide"},
         Continue(r, [flow[r] EXCEPT !.pc = pc]),
         RowsGrow, approval'[flow[r].id].status # "pending",
         UNCHANGED <<req, edition, active, editing>>
  PROVE  AInv'
<1>. PICK f \in Flow : f = flow[r]
  BY FlowFacts
<1>. DEFINE g == [f EXCEPT !.pc = pc]
<1>1. /\ g \in Flow /\ g.pc = pc /\ g.id = f.id /\ g.t = f.t /\ g.step = f.step
      /\ g.decision = f.decision
  BY DEF Flow, Pcs
<1>2. Continue(r, g) /\ flow'[r] = g
  BY DEF Continue, AInv, ApprovalsTypeOK
<1>3. /\ f.id \in DOMAIN approval'
      /\ approval'[f.id].t = f.t /\ approval'[f.id].step = f.step
      /\ approval'[f.id].status # "pending"
  BY DecidingFacts DEF RowsGrow
<1>. HIDE DEF g
<1>4. FlowMatches(r)'
  BY <1>1, <1>2, <1>3, DecidingFacts DEF FlowMatches, Deciding
<1>. QED  BY <1>1, <1>2, <1>4, FlowStep

LEMMA BeginDecideStep ==
  ASSUME IInv, AInv, NEW r \in Requests, NEW i \in DOMAIN approval,
         NEW decision \in {"approved", "rejected"}, BeginDecide(r, i, decision)
  PROVE  AInv'
<1>. DEFINE row == approval[i]
<1>1. approval \in Seq(ApprovalRow) /\ i \in Nat /\ row \in ApprovalRow
      /\ HasStep(row.edition, row.step)
  BY LenProperties, ElementOfSeq DEF AInv, ApprovalsTypeOK
<1>2. edition \in 1..Len(Policies) /\ edition \in 0..Len(Policies) /\ NoPolicy \in 0..Len(Policies)
  BY EditionsExist DEF AInv, ApprovalsTypeOK, NoPolicy
<1>3. ModeOf(row) \in {"any", "all"}
  BY <1>1, <1>2, PolicyFacts DEF ModeOf, HasStep, NoPolicy
<1>. DEFINE f == [pc |-> "decide", id |-> i, t |-> row.t, decision |-> decision,
                  edition |-> IF row.edition = NoPolicy THEN NoPolicy ELSE edition,
                  step |-> row.step, mode |-> ModeOf(row), left |-> {}]
<1>4. f \in Flow
  BY <1>1, <1>2, <1>3 DEF Flow, ApprovalRow, Pcs, Deciding
<1>5. /\ Continue(r, f) /\ flow'[r] = f
      /\ UNCHANGED <<approval, edition, active, editing>>
  BY DEF BeginDecide, Continue, AInv, ApprovalsTypeOK
<1>6. /\ req'[r].op = "verdict" /\ req'[r].t = row.t
      /\ \A s \in Requests \ {r} : req'[s] = req[s]
  BY DEF BeginDecide, BeginVerdict, Begin, IInv, TypeOK
<1>7. FlowMatches(r)'
  <2>1. /\ f.pc = "decide" /\ f.id = i /\ f.t = row.t /\ f.step = row.step
        /\ f.decision # "pending"
    OBVIOUS
  <2>. HIDE DEF f
  <2>. QED  BY <1>5, <1>6, <2>1 DEF FlowMatches, Deciding
<1>. HIDE DEF f
<1>. QED  BY <1>4, <1>5, <1>6, <1>7, RowsSame, FlowStep

LEMMA CloseStep ==
  ASSUME IInv, AInv, NEW r \in Requests, ClosePeers(r)
  PROVE  AInv'
<1>. PICK f \in Flow : f = flow[r]
  BY FlowFacts
<1>1. /\ f.pc = "close" /\ f.t \in Tickets /\ f.step \in Nat \ {0}
      /\ f.edition \in 0..Len(Policies)
      /\ UNCHANGED <<edition, active, editing>>
  BY FlowFacts DEF ClosePeers, Deciding, Flow
<1>2. RowsGrow
  BY DecideRows DEF ClosePeers
<1>3. StepDecided(f.t, f.step)
  BY <1>1, DecidingFacts DEF Deciding, StepDecided
<1>4. CASE HasNextStep(f) /\ Abandon(r)
           /\ Continue(r, Spawning(f.t, f.edition, f.step + 1,
                                   Policies[f.edition][f.step + 1].approvers))
  <2>1. f.edition \in 1..Len(Policies) /\ f.step + 1 \in 1..Len(Policies[f.edition])
        /\ HasStep(f.edition, f.step + 1)
    BY <1>1, <1>4, StepFacts DEF HasNextStep, HasStep
  <2>2. Policies[f.edition][f.step + 1].approvers \in SUBSET Users
    BY <2>1, PolicyFacts
  <2>3. req'[r].op = "idle" /\ \A s \in Requests \ {r} : req'[s] = req[s]
    BY <1>4 DEF Abandon, Finish, Idle, IInv, TypeOK
  <2>4. StepDecided(f.t, (f.step + 1) - 1)'
    BY <1>1, <1>2, <1>3, DecidedStays
  <2>. QED  BY <1>1, <1>2, <1>4, <2>1, <2>2, <2>3, <2>4, SpawnStep
<1>5. CASE UNCHANGED vars /\ Continue(r, [f EXCEPT !.pc = "apply"])
  <2>1. approval'[f.id].status # "pending"
    BY <1>1, <1>2, DecidingFacts DEF RowsGrow, Deciding
  <2>. QED  BY <1>1, <1>2, <1>5, <2>1, GoOnStep DEF vars, Deciding
<1>. QED  BY <1>4, <1>5 DEF ClosePeers

LEMMA ResolveStep ==
  ASSUME IInv, AInv, NEW r \in Requests, Resolve(r)
  PROVE  AInv'
<1>. DEFINE f == flow[r]
<1>1. CASE WriteDecision(r)
  <2>1. f.pc \in Deciding /\ f.pc = "decide"
    BY <1>1 DEF WriteDecision, Deciding
  <2>2. RowsGrow /\ approval'[f.id].status # "pending"
    BY <1>1, <2>1, DecidingFacts, DecideRows DEF WriteDecision
  <2>. DEFINE pc == IF f.decision = "rejected" THEN "refuse"
                    ELSE IF f.mode = "all" THEN "count" ELSE "close"
  <2>3. pc \in Deciding \ {"decide"}
    BY DEF Deciding
  <2>4. Continue(r, [f EXCEPT !.pc = pc]) /\ UNCHANGED <<req, edition, active, editing>>
    BY <1>1 DEF WriteDecision, vars
  <2>. HIDE DEF pc
  <2>. QED  BY <2>1, <2>2, <2>3, <2>4, GoOnStep
<1>2. CASE CountPending(r)
  <2>1. f.pc = "count" /\ f.pc \in Deciding /\ UNCHANGED <<approval, edition, active, editing>>
    BY <1>2 DEF CountPending, Deciding
  <2>2. RowsGrow
    BY <2>1, RowsSame
  <2>3. CASE Abandon(r) /\ Return(r)
    <3>1. \A s \in Requests \ {r} : req'[s] = req[s]
      BY <2>3 DEF Abandon, Finish, IInv, TypeOK
    <3>. QED  BY <2>1, <2>2, <2>3, <3>1, ReturnStep
  <2>4. CASE Continue(r, [f EXCEPT !.pc = "close"]) /\ UNCHANGED vars
    <3>1. approval'[f.id].status # "pending"
      BY <2>1, DecidingFacts
    <3>. QED  BY <2>1, <2>2, <2>4, <3>1, GoOnStep DEF vars, Deciding
  <2>. QED  BY <1>2, <2>3, <2>4 DEF CountPending
<1>3. CASE ClosePeers(r)
  BY <1>3, CloseStep
<1>4. CASE CloseRound(r)
  <2>1. f.pc = "refuse" /\ f.pc \in Deciding
    BY <1>4 DEF CloseRound, Deciding
  <2>2. RowsGrow
    BY <1>4, DecideRows DEF CloseRound
  <2>3. approval'[f.id].status # "pending"
    BY <2>1, <2>2, DecidingFacts DEF RowsGrow
  <2>4. Continue(r, [f EXCEPT !.pc = "apply"]) /\ UNCHANGED <<req, edition, active, editing>>
    BY <1>4 DEF CloseRound, vars
  <2>. QED  BY <2>1, <2>2, <2>3, <2>4, GoOnStep DEF Deciding
<1>5. CASE ApplyTicketStatus(r)
  <2>1. Return(r) /\ UNCHANGED <<approval, edition, active, editing>>
        /\ \A s \in Requests \ {r} : req'[s] = req[s]
    BY <1>5 DEF ApplyTicketStatus, CompleteVerdict, Finish, IInv, TypeOK
  <2>. QED  BY <2>1, RowsSame, ReturnStep
<1>. QED  BY <1>1, <1>2, <1>3, <1>4, <1>5, BeginDecideStep DEF Resolve

LEMMA OtherStep ==
  ASSUME IInv, AInv,
         \/ \E r \in Requests, t \in Tickets, target \in Targets : MoveByHand(r, t, target)
         \/ \E r \in Requests : FinishMove(r)
         \/ Administer \/ Restart \/ UNCHANGED allVars
  PROVE  AInv'
<1>1. ASSUME NEW r \in Requests, NEW t \in Tickets, NEW target \in Targets,
             MoveByHand(r, t, target)
      PROVE  AInv'
  <2>1. flow[r].pc = "none" /\ UNCHANGED avars
        /\ \A s \in Requests \ {r} : req'[s] = req[s]
    BY <1>1 DEF MoveByHand, Room, Busy, BeginUpdate, Begin, IInv, TypeOK
  <2>. QED  BY <2>1, QuietStep DEF avars, AInv, ApprovalsTypeOK
<1>2. ASSUME NEW r \in Requests, FinishMove(r)
      PROVE  AInv'
  <2>1. req[r].op = "update" /\ UNCHANGED avars
        /\ \A s \in Requests \ {r} : req'[s] = req[s]
    BY <1>2 DEF FinishMove, CompleteUpdate, Finish, IInv, TypeOK
  <2>2. flow[r].pc = "none"
    BY <2>1, FlowFacts DEF FlowMatches, Flow, Pcs
  <2>. QED  BY <2>1, <2>2, QuietStep DEF avars, AInv, ApprovalsTypeOK
<1>3. CASE BeginUpdatePolicy
  BY <1>3, QuietStep DEF BeginUpdatePolicy, vars, AInv, ApprovalsTypeOK
<1>4. CASE ReplaceSteps
  <2>1. edition' = edition + 1 /\ edition < Len(Policies)
    BY <1>4 DEF ReplaceSteps, AInv, ApprovalsTypeOK
  <2>2. edition' \in 1..Len(Policies)
    BY <2>1, EditionsExist DEF AInv, ApprovalsTypeOK
  <2>. QED  BY <1>4, <2>2, QuietStep DEF ReplaceSteps, vars, AInv, ApprovalsTypeOK
<1>5. ASSUME NEW on \in BOOLEAN, SetActive(on)
      PROVE  AInv'
  BY <1>5, QuietStep DEF SetActive, vars, AInv, ApprovalsTypeOK
<1>6. CASE UNCHANGED allVars
  BY <1>6, QuietStep DEF allVars, avars, vars, AInv, ApprovalsTypeOK
<1>7. CASE Restart
  <2>1. /\ UNCHANGED <<approval, edition, active>> /\ editing' = FALSE
        /\ flow' \in [Requests -> Flow] /\ \A r \in Requests : flow'[r].pc = "none"
    BY <1>7, NoFlowIsFlow DEF Restart
  <2>2. \A r \in Requests : FlowMatches(r)'
    BY <2>1, RestMatches
  <2>3. ApprovalsTypeOK' /\ StepsInOrder'
    BY <2>1 DEF AInv, ApprovalsTypeOK, StepsInOrder, StepDecided, HasStep
  <2>. QED  BY <2>2, <2>3 DEF AInv
<1>. QED  BY <1>1, <1>2, <1>3, <1>4, <1>5, <1>6, <1>7 DEF Administer

(***************************************************************************)
(* Refinement                                                              *)
(***************************************************************************)
(* A step of the composed system is a step of Tickets, or leaves the rows
   and handlers of Tickets alone. *)
LEMMA StepImplements ==
  ASSUME AInv, [ApprovalsNext]_allVars
  PROVE  [Next]_vars
<1>1. ASSUME NEW r \in Requests, Enter(r)
      PROVE  [Next]_vars
  <2>1. ASSUME NEW t \in Tickets, CreateForApproval(r, t) \/ RequestCab(r, t)
        PROVE  [Next]_vars
    BY <2>1 DEF CreateForApproval, RequestCab, Next, Start
  <2>2. CASE SubmitToCab(r)
    BY <2>2 DEF SubmitToCab, Next, Complete
  <2>3. CASE Route(r) \/ InsertRow(r)
    BY <2>3 DEF Route, InsertRow
  <2>. QED  BY <1>1, <2>1, <2>2, <2>3 DEF Enter
<1>2. ASSUME NEW r \in Requests, Resolve(r)
      PROVE  [Next]_vars
  <2>1. ASSUME NEW i \in DOMAIN approval, NEW decision \in {"approved", "rejected"},
               BeginDecide(r, i, decision)
        PROVE  [Next]_vars
    <3>. DEFINE t == approval[i].t
                target == IF decision = "rejected" THEN "cancelled"
                          ELSE ApprovedStatus(TypeOf[t])
    <3>1. BeginVerdict(r, t, target)
      BY <2>1 DEF BeginDecide
    <3>2. t \in Tickets
      <4>1. approval[i] \in ApprovalRow
        BY LenProperties, ElementOfSeq DEF AInv, ApprovalsTypeOK
      <4>. QED  BY <4>1 DEF ApprovalRow
    <3>3. target \in Statuses
      BY StatusFacts DEF ApprovedStatus
    <3>. QED  BY <3>1, <3>2, <3>3 DEF Next, Start
  <2>2. CASE WriteDecision(r) \/ CloseRound(r)
    BY <2>2 DEF WriteDecision, CloseRound
  <2>3. CASE CountPending(r) \/ ClosePeers(r)
    BY <2>3 DEF CountPending, ClosePeers, Next, Complete
  <2>4. CASE ApplyTicketStatus(r)
    BY <2>4 DEF ApplyTicketStatus, Next, Complete
  <2>. QED  BY <1>2, <2>1, <2>2, <2>3, <2>4 DEF Resolve
<1>3. ASSUME NEW r \in Requests, NEW t \in Tickets, NEW target \in Targets,
             MoveByHand(r, t, target)
      PROVE  [Next]_vars
  BY <1>3 DEF MoveByHand, Next, Start
<1>4. ASSUME NEW r \in Requests, FinishMove(r)
      PROVE  [Next]_vars
  BY <1>4 DEF FinishMove, Next, Complete
<1>5. CASE Administer \/ UNCHANGED allVars
  BY <1>5 DEF Administer, BeginUpdatePolicy, ReplaceSteps, SetActive, allVars
<1>6. CASE Restart
  BY <1>6 DEF Restart, Next, Crash
<1>. QED  BY <1>1, <1>2, <1>3, <1>4, <1>5, <1>6 DEF ApprovalsNext

(* Both invariants are preserved together: each needs the other. *)
LEMMA ApprovalsNextInv == IInv /\ AInv /\ [ApprovalsNext]_allVars => IInv' /\ AInv'
<1>. SUFFICES ASSUME IInv, AInv, [ApprovalsNext]_allVars PROVE IInv' /\ AInv'
  OBVIOUS
<1>1. IInv'
  BY StepImplements, NextInv
<1>2. AInv'
  BY EnterStep, ResolveStep, OtherStep DEF ApprovalsNext
<1>. QED  BY <1>1, <1>2

LEMMA ApprovalsInvariance == ApprovalsSpec => [](IInv /\ AInv)
<1>1. ApprovalsInit => IInv /\ AInv
  BY InitInv, ApprovalsInitInv DEF ApprovalsInit
<1>. QED  BY <1>1, ApprovalsNextInv, PTL DEF ApprovalsSpec

(* Approval rows and flows keep their shape, and a row's step exists in the
   edition of the policy it was made from. *)
THEOREM ApprovalsTypeCorrect == ApprovalsSpec => []ApprovalsTypeOK
<1>1. AInv => ApprovalsTypeOK
  BY DEF AInv
<1>. QED  BY <1>1, ApprovalsInvariance, PTL

(* Whoever is asked at a later step of a policy, a row of the step before it
   has been decided, whatever approvers, agents, administrators and restarts
   do in between. *)
THEOREM StepsAreInOrder == ApprovalsSpec => []StepsInOrder
<1>1. AInv => StepsInOrder
  BY DEF AInv
<1>. QED  BY <1>1, ApprovalsInvariance, PTL

(* The approval machinery does to ticket rows only what Tickets allows. *)
THEOREM Refinement == ApprovalsSpec => ImplementsTickets
<1>1. ApprovalsInit => Init
  BY DEF ApprovalsInit
<1>2. IInv /\ AInv /\ [ApprovalsNext]_allVars => [Next]_vars
  BY StepImplements
<1>. QED  BY <1>1, <1>2, ApprovalsInvariance, PTL DEF ApprovalsSpec, ImplementsTickets, Spec

(* So the version stays a sound guard while approvals run. *)
THEOREM VersionGuardsApprovals == ApprovalsSpec => []VersionGuards
BY Refinement, VersionIsASoundGuard, PTL DEF ImplementsTickets

(***************************************************************************)
(* Nobody waits for nobody.  When every step has somebody to ask, tickets  *)
(* enter approval only as they are created, the policy's steps stay and    *)
(* the process does not stop, a ticket in "pending_approval" always has a  *)
(* pending row, or a flow that will insert one or release the ticket.      *)
(***************************************************************************)
Undisturbed ==
  /\ Features \cap {"cab", "policy", "crash"} = {}
  /\ "pending_approval" \notin Targets
  /\ LegacyApprovers # {}
  /\ \A e \in 1..Len(Policies) : \A s \in 1..Len(Policies[e]) :
       Policies[e][s].approvers # {}

Waits(t) == ticket[t].status = "pending_approval"

AtWork == {"route", "insert", "count", "close", "refuse", "apply"}

WorkLeft(t) ==
  \/ \E i \in Pending : approval[i].t = t
  \/ \E r \in Requests : flow[r].pc \in AtWork /\ flow[r].t = t

(* What a handler may carry: a verdict on a ticket that waits read it so. *)
Harmless(r) ==
  /\ req[r].op # "cab"
  /\ req[r].op = "update" => req[r].target # "pending_approval"
  /\ req[r].op = "verdict" /\ Waits(req[r].t) => req[r].seen.status = "pending_approval"

Inserts(r) ==
  /\ flow[r].edition \in {NoPolicy, 1}
  /\ flow[r].pc = "insert" => flow[r].left # {}

WaitInv ==
  /\ edition = 1 /\ ~editing
  /\ \A r \in Requests : Harmless(r) /\ Inserts(r)
  /\ \A t \in Tickets : Waits(t) => WorkLeft(t)

LEMMA WaitInit == ApprovalsInit => WaitInv
BY DEF ApprovalsInit, Init, WaitInv, Harmless, Inserts, Waits, Idle, Blank, NoFlow, NoPolicy

(* A step of one request: its own handler and flow stay harmless, and each
   ticket that waits afterwards still has work left. *)
LEMMA WaitStep ==
  ASSUME IInv, WaitInv, NEW r \in Requests,
         \A s \in Requests \ {r} : flow'[s] = flow[s] /\ req'[s] = req[s],
         Harmless(r)', Inserts(r)',
         UNCHANGED <<edition, editing>>,
         \A t \in Tickets : Waits(t)' => (Waits(t) \/ ~Exists(t)) /\ WorkLeft(t)'
  PROVE  WaitInv'
<1>1. ASSUME NEW s \in Requests \ {r}
      PROVE  Harmless(s)' /\ Inserts(s)'
  <2>1. Harmless(s) /\ Inserts(s) /\ flow'[s] = flow[s] /\ req'[s] = req[s]
    BY DEF WaitInv
  <2>2. req[s].op # "idle" => req[s].t \in Tickets /\ Exists(req[s].t)
    BY DEF IInv, TypeOK
  <2>. QED  BY <2>1, <2>2 DEF Harmless, Inserts, Waits
<1>. QED  BY <1>1 DEF WaitInv

(* Work on a ticket is not lost by a step of a flow for another one, nor by
   one of a flow that had not begun. *)
LEMMA WorkStays ==
  ASSUME NEW r \in Requests, NEW t,
         \A s \in Requests \ {r} : flow'[s] = flow[s],
         flow[r].pc \notin AtWork \/ flow[r].t # t,
         \A i \in Pending : approval[i].t = t =>
           i \in DOMAIN approval' /\ approval'[i] = approval[i],
         WorkLeft(t)
  PROVE  WorkLeft(t)'
<1>1. CASE \E i \in Pending : approval[i].t = t
  BY <1>1 DEF WorkLeft, Pending
<1>2. CASE \E s \in Requests : flow[s].pc \in AtWork /\ flow[s].t = t
  BY <1>2 DEF WorkLeft
<1>. QED  BY <1>1, <1>2 DEF WorkLeft

LEMMA DecideFacts ==
  ASSUME NEW ids, NEW decision, NEW auto, Decide(ids, decision, auto)
  PROVE  /\ DOMAIN approval' = DOMAIN approval
         /\ \A i \in DOMAIN approval \ ids : approval'[i] = approval[i]
BY DEF Decide

(* A flow that moves on within its work on t; it may decide rows of t. *)
LEMMA WaitGoesOn ==
  ASSUME IInv, AInv, WaitInv, NEW r \in Requests,
         NEW f, flow' = [flow EXCEPT ![r] = f],
         f.pc \in AtWork, f.t = flow[r].t,
         f.edition \in {NoPolicy, 1}, f.pc = "insert" => f.left # {},
         Harmless(r)',
         \A s \in Requests \ {r} : req'[s] = req[s],
         \A i \in DOMAIN approval : approval[i].t # flow[r].t =>
           i \in DOMAIN approval' /\ approval'[i] = approval[i],
         UNCHANGED <<ticket, edition, editing>>
  PROVE  WaitInv'
<1>1. flow'[r] = f /\ \A s \in Requests \ {r} : flow'[s] = flow[s]
  BY DEF AInv, ApprovalsTypeOK
<1>2. ASSUME NEW t \in Tickets, Waits(t)'
      PROVE  Waits(t) /\ WorkLeft(t)'
  <2>1. Waits(t) /\ WorkLeft(t)
    BY <1>2 DEF Waits, WaitInv
  <2>2. CASE t = f.t
    BY <1>1, <2>1, <2>2 DEF WorkLeft
  <2>3. CASE t # f.t
    BY <1>1, <2>1, <2>3, WorkStays DEF Pending
  <2>. QED  BY <2>1, <2>2, <2>3
<1>3. Inserts(r)'
  BY <1>1 DEF Inserts
<1>. QED  BY <1>1, <1>2, <1>3, WaitStep

LEMMA AppendProps ==
  ASSUME NEW row, NEW S, approval \in Seq(S), approval' = Append(approval, row)
  PROVE  LET n == Len(approval) IN
         /\ n \in Nat /\ DOMAIN approval = 1..n
         /\ DOMAIN approval' = 1..(n + 1) /\ approval'[n + 1] = row
         /\ \A i \in DOMAIN approval : approval'[i] = approval[i]
BY LenProperties, AppendProperties

LEMMA SpawningGoesOn ==
  ASSUME NEW t, NEW e \in {NoPolicy, 1}, NEW s, NEW who, who # {}
  PROVE  LET f == Spawning(t, e, s, who) IN
         /\ f.pc = "insert" /\ f.t = t /\ f.edition \in {NoPolicy, 1} /\ f.left # {}
BY DEF Spawning, NoFlow

LEMMA WaitEnter ==
  ASSUME Undisturbed, IInv, AInv, WaitInv, NEW r \in Requests, Enter(r)
  PROVE  WaitInv'
<1>. DEFINE t == flow[r].t
<1>1. ASSUME NEW u \in Tickets, CreateForApproval(r, u)
      PROVE  WaitInv'
  <2>. DEFINE f == [NoFlow EXCEPT !.pc = "route", !.t = u]
  <2>1. /\ flow[r].pc = "none" /\ UNCHANGED <<approval, req, edition, editing>>
        /\ ~Exists(u) /\ \A v \in Tickets \ {u} : ticket'[v] = ticket[v]
    BY <1>1 DEF CreateForApproval, Create, Room, Busy, IInv, TypeOK
  <2>2. f.pc = "route" /\ f.t = u /\ f.edition = NoPolicy
    BY DEF NoFlow
  <2>3. flow'[r] = f /\ \A s \in Requests \ {r} : flow'[s] = flow[s]
    BY <1>1 DEF CreateForApproval, Continue, AInv, ApprovalsTypeOK
  <2>. HIDE DEF f
  <2>4. ASSUME NEW v \in Tickets, Waits(v)'
        PROVE  (Waits(v) \/ ~Exists(v)) /\ WorkLeft(v)'
    <3>1. CASE v = u
      BY <2>1, <2>2, <2>3, <3>1 DEF WorkLeft, AtWork
    <3>2. CASE v # u
      <4>1. Waits(v) /\ WorkLeft(v)
        BY <2>1, <2>4, <3>2 DEF Waits, WaitInv
      <4>2. WorkLeft(v)'
        BY <2>1, <2>3, <4>1, WorkStays DEF AtWork, Pending
      <4>. QED  BY <4>1, <4>2
    <3>. QED  BY <3>1, <3>2
  <2>5. Harmless(r)'
    <3>1. req[r].op = "idle"
      BY <1>1 DEF CreateForApproval, Room, Busy
    <3>. QED  BY <2>1, <3>1 DEF Harmless
  <2>6. Inserts(r)'
    BY <2>2, <2>3 DEF Inserts
  <2>. QED  BY <2>1, <2>3, <2>4, <2>5, <2>6, WaitStep
<1>2. ASSUME NEW u \in Tickets, RequestCab(r, u)
      PROVE  WaitInv'
  BY <1>2 DEF RequestCab, BeginCab, Undisturbed
<1>3. CASE SubmitToCab(r)
  BY <1>3 DEF SubmitToCab, CompleteCab, WaitInv, Harmless
<1>4. CASE Route(r)
  <2>1. /\ flow[r].pc = "route"
        /\ UNCHANGED <<ticket, req, approval, edition, editing>> /\ edition = 1
    BY <1>4 DEF Route, vars, WaitInv
  <2>2. PICK e \in {NoPolicy, 1} : \E who :
          who # {} /\ flow' = [flow EXCEPT ![r] = Spawning(t, e, 1, who)]
    <3>1. CASE PolicyApplies
      <4>. DEFINE Step == [approvers : SUBSET Users, mode : {"any", "all"}]
      <4>1. Policies \in Seq(Seq(Step)) /\ edition \in 1..Len(Policies)
        BY ApprovalsAssumption, FlowFacts
      <4>. HIDE DEF Step
      <4>2. Policies[edition] \in Seq(Step)
        BY <4>1, ElementOfSeq
      <4>3. 1 \in 1..Len(Policies[edition])
        BY <3>1, <4>2, EmptySeq DEF PolicyApplies
      <4>4. Policies[edition][1].approvers # {}
        BY <4>1, <4>3 DEF Undisturbed
      <4>. QED  BY <1>4, <2>1, <3>1, <4>4 DEF Route, Continue
    <3>2. CASE ~PolicyApplies
      BY <1>4, <3>2 DEF Route, Continue, Undisturbed
    <3>. QED  BY <3>1, <3>2
  <2>. PICK who : who # {} /\ flow' = [flow EXCEPT ![r] = Spawning(t, e, 1, who)]
    BY <2>2
  <2>. DEFINE f == Spawning(t, e, 1, who)
  <2>3. f.pc = "insert" /\ f.t = t /\ f.edition \in {NoPolicy, 1} /\ f.left # {}
    BY <2>2, SpawningGoesOn
  <2>. HIDE DEF f
  <2>4. Harmless(r)'
    BY <2>1 DEF Harmless, Waits, WaitInv
  <2>. QED  BY <2>1, <2>2, <2>3, <2>4, WaitGoesOn DEF f, AtWork
<1>5. CASE InsertRow(r)
  <2>. PICK f \in Flow : f = flow[r]
    BY FlowFacts
  <2>1. /\ f.pc = "insert" /\ f.edition \in {NoPolicy, edition} /\ edition = 1
        /\ UNCHANGED <<ticket, req, edition, editing>>
    BY <1>5 DEF InsertRow, vars, WaitInv, Inserts
  <2>2. PICK a \in f.left :
          /\ approval' = Append(approval, [t |-> f.t, approver |-> a, step |-> f.step,
                            edition |-> f.edition, status |-> "pending", auto |-> FALSE])
          /\ flow' = [flow EXCEPT ![r] = Spawning(f.t, f.edition, f.step, f.left \ {a})]
    BY <1>5, <2>1 DEF InsertRow, Continue
  <2>. DEFINE row == [t |-> f.t, approver |-> a, step |-> f.step,
                      edition |-> f.edition, status |-> "pending", auto |-> FALSE]
              n == Len(approval)
  <2>3. approval \in Seq(ApprovalRow)
    BY DEF AInv, ApprovalsTypeOK
  <2>4. row.status = "pending" /\ row.t = f.t
    OBVIOUS
  <2>5. /\ n \in Nat /\ DOMAIN approval = 1..n
        /\ DOMAIN approval' = 1..(n + 1) /\ approval'[n + 1] = row
        /\ \A i \in DOMAIN approval : approval'[i] = approval[i]
    <3>1. approval' = Append(approval, row)
      BY <2>2
    <3>. HIDE DEF row
    <3>. QED  BY <2>3, <3>1, AppendProps
  <2>. HIDE DEF row, n
  <2>6. WorkLeft(f.t)'
    BY <2>4, <2>5 DEF WorkLeft, Pending
  <2>7. \A s \in Requests \ {r} : flow'[s] = flow[s]
    BY <2>2 DEF AInv, ApprovalsTypeOK
  <2>8. ASSUME NEW v \in Tickets, Waits(v)'
        PROVE  Waits(v) /\ WorkLeft(v)'
    <3>1. Waits(v) /\ WorkLeft(v)
      BY <2>1, <2>8 DEF Waits, WaitInv
    <3>2. CASE v # f.t
      <4>1. \A i \in Pending : i \in DOMAIN approval' /\ approval'[i] = approval[i]
        BY <2>5 DEF Pending
      <4>. QED  BY <2>7, <3>1, <3>2, <4>1, WorkStays
    <3>. QED  BY <2>6, <3>1, <3>2
  <2>9. Inserts(r)'
    <3>1. flow'[r] = Spawning(f.t, f.edition, f.step, f.left \ {a})
      BY <2>2 DEF AInv, ApprovalsTypeOK
    <3>. QED  BY <2>1, <3>1 DEF Inserts, Spawning, NoFlow
  <2>10. Harmless(r)'
    BY <2>1 DEF Harmless, Waits, WaitInv
  <2>. QED  BY <2>1, <2>7, <2>8, <2>9, <2>10, WaitStep
<1>. QED  BY <1>1, <1>2, <1>3, <1>4, <1>5 DEF Enter

LEMMA WaitBeginDecide ==
  ASSUME IInv, AInv, WaitInv, NEW r \in Requests, NEW i \in DOMAIN approval,
         NEW decision \in {"approved", "rejected"}, BeginDecide(r, i, decision)
  PROVE  WaitInv'
<1>1. /\ flow[r].pc = "none" /\ UNCHANGED <<ticket, approval, edition, editing>>
      /\ \A s \in Requests \ {r} : flow'[s] = flow[s] /\ req'[s] = req[s]
  BY DEF BeginDecide, BeginVerdict, Begin, Continue, Room, Busy, IInv, TypeOK,
         AInv, ApprovalsTypeOK
<1>2. req'[r].op = "verdict" /\ req'[r].seen = ticket[req'[r].t]
  BY DEF BeginDecide, BeginVerdict, Begin, IInv, TypeOK
<1>3. flow'[r].pc = "decide" /\ flow'[r].edition \in {NoPolicy, edition}
  BY DEF BeginDecide, Continue, AInv, ApprovalsTypeOK
<1>4. Harmless(r)' /\ Inserts(r)'
  BY <1>1, <1>2, <1>3 DEF Harmless, Waits, Inserts, WaitInv
<1>5. ASSUME NEW t \in Tickets, Waits(t)'
      PROVE  Waits(t) /\ WorkLeft(t)'
  <2>1. Waits(t) /\ WorkLeft(t)
    BY <1>1, <1>5 DEF Waits, WaitInv
  <2>. QED  BY <1>1, <2>1, WorkStays DEF AtWork, Pending
<1>. QED  BY <1>1, <1>4, <1>5, WaitStep

(* What a flow's step leaves behind when its request is dropped. *)
LEMMA IdleIsHarmless ==
  ASSUME IInv, NEW r \in Requests, Finish(r)
  PROVE  /\ Harmless(r)'
         /\ \A s \in Requests \ {r} : req'[s] = req[s]
BY DEF Finish, Harmless, Idle, IInv, TypeOK

(* A ticket with work left by a step of r that only decides rows of u. *)
LEMMA WaitElsewhere ==
  ASSUME AInv, WaitInv, NEW r \in Requests, NEW u,
         flow[r].pc \in AtWork => flow[r].t = u,
         \A s \in Requests \ {r} : flow'[s] = flow[s],
         \A i \in DOMAIN approval : approval[i].t # u =>
           i \in DOMAIN approval' /\ approval'[i] = approval[i],
         NEW t \in Tickets, t # u, Waits(t)
  PROVE  WorkLeft(t)'
<1>1. WorkLeft(t)
  BY DEF WaitInv
<1>. QED  BY <1>1, WorkStays DEF Pending

LEMMA WaitResolve ==
  ASSUME Undisturbed, IInv, AInv, WaitInv, NEW r \in Requests, Resolve(r)
  PROVE  WaitInv'
<1>. PICK f \in Flow : f = flow[r]
  BY FlowFacts
<1>a. f.edition \in {NoPolicy, 1} /\ edition = 1 /\ Harmless(r)
  BY DEF WaitInv, Inserts
<1>b. \A g : Continue(r, g) => /\ flow' = [flow EXCEPT ![r] = g] /\ flow'[r] = g
                               /\ \A s \in Requests \ {r} : flow'[s] = flow[s]
  BY DEF Continue, AInv, ApprovalsTypeOK
<1>c. \A pc : LET g == [f EXCEPT !.pc = pc] IN
        g.pc = pc /\ g.t = f.t /\ g.edition = f.edition /\ g.left = f.left
  BY DEF Flow
<1>1. CASE WriteDecision(r)
  <2>. DEFINE pc == IF f.decision = "rejected" THEN "refuse"
                    ELSE IF f.mode = "all" THEN "count" ELSE "close"
              g == [f EXCEPT !.pc = pc]
  <2>1. f.pc = "decide" /\ Decide({f.id}, f.decision, FALSE) /\ Continue(r, g)
        /\ UNCHANGED <<ticket, req, edition, editing>>
    BY <1>1 DEF WriteDecision, vars
  <2>2. f.id \in DOMAIN approval /\ approval[f.id].t = f.t
    BY <2>1, DecidingFacts DEF Deciding
  <2>3. \A i \in DOMAIN approval : approval[i].t # f.t =>
          i \in DOMAIN approval' /\ approval'[i] = approval[i]
    BY <2>1, <2>2, DecideFacts
  <2>4. g.pc = pc /\ pc \in AtWork \ {"insert"} /\ g.t = f.t /\ g.edition = f.edition
    BY <1>c DEF AtWork
  <2>5. Harmless(r)'
    BY <1>a, <2>1 DEF Harmless, Waits
  <2>. HIDE DEF g, pc
  <2>. QED  BY <1>a, <1>b, <2>1, <2>3, <2>4, <2>5, WaitGoesOn
<1>2. CASE CountPending(r)
  <2>1. f.pc = "count" /\ UNCHANGED <<ticket, approval, edition, editing>>
    BY <1>2 DEF CountPending, Abandon, vars
  <2>2. CASE Peers(f) # {} /\ Abandon(r) /\ Return(r)
    <3>1. PICK i \in Pending : approval[i].t = f.t
      BY <2>2 DEF Peers
    <3>2. WorkLeft(f.t)'
      BY <2>1, <3>1 DEF WorkLeft, Pending
    <3>3. Continue(r, NoFlow)
      BY <2>2 DEF Return
    <3>4. \A t \in Tickets : Waits(t)' => Waits(t) /\ WorkLeft(t)'
      <4>. SUFFICES ASSUME NEW t \in Tickets, Waits(t)' PROVE Waits(t) /\ WorkLeft(t)'
        OBVIOUS
      <4>1. Waits(t)
        BY <2>1 DEF Waits
      <4>. QED  BY <1>b, <2>1, <3>2, <3>3, <4>1, WaitElsewhere
    <3>5. Inserts(r)'
      BY <1>b, <3>3 DEF Inserts, NoFlow
    <3>. QED  BY <1>b, <2>1, <2>2, <3>3, <3>4, <3>5, IdleIsHarmless, WaitStep DEF Abandon
  <2>3. CASE Continue(r, [f EXCEPT !.pc = "close"]) /\ UNCHANGED vars
    <3>. DEFINE g == [f EXCEPT !.pc = "close"]
    <3>1. g.pc = "close" /\ g.t = f.t /\ g.edition = f.edition
      BY <1>c
    <3>2. Harmless(r)' /\ UNCHANGED <<ticket, req>> /\ Continue(r, g)
      BY <1>a, <2>3 DEF Harmless, Waits, vars
    <3>. HIDE DEF g
    <3>. QED  BY <1>a, <1>b, <2>1, <3>1, <3>2, WaitGoesOn DEF AtWork
  <2>. QED  BY <1>2, <2>2, <2>3 DEF CountPending
<1>3. CASE ClosePeers(r)
  <2>1. f.pc = "close" /\ Decide(Peers(f), "approved", TRUE)
        /\ UNCHANGED <<ticket, edition, editing>>
    BY <1>3 DEF ClosePeers, Abandon, vars
  <2>2. \A i \in DOMAIN approval : approval[i].t # f.t =>
          i \in DOMAIN approval' /\ approval'[i] = approval[i]
    BY <2>1, DecideFacts DEF Peers
  <2>3. CASE HasNextStep(f) /\ Abandon(r)
             /\ Continue(r, Spawning(f.t, f.edition, f.step + 1,
                                     Policies[f.edition][f.step + 1].approvers))
    <3>. DEFINE who == Policies[f.edition][f.step + 1].approvers
                g == Spawning(f.t, f.edition, f.step + 1, who)
    <3>1. who # {}
      <4>1. f.edition \in 0..Len(Policies) /\ f.step \in Nat \ {0}
        BY <2>1, FlowFacts DEF Flow, Deciding
      <4>2. f.edition \in 1..Len(Policies) /\ f.step + 1 \in 1..Len(Policies[f.edition])
        BY <2>3, <4>1, StepFacts DEF HasNextStep
      <4>. QED  BY <4>2 DEF Undisturbed
    <3>2. g.pc = "insert" /\ g.t = f.t /\ g.edition \in {NoPolicy, 1} /\ g.left # {}
      BY <1>a, <3>1, SpawningGoesOn
    <3>3. Harmless(r)' /\ (\A s \in Requests \ {r} : req'[s] = req[s]) /\ Continue(r, g)
      BY <2>3, IdleIsHarmless DEF Abandon
    <3>. HIDE DEF g, who
    <3>. QED  BY <1>b, <2>1, <2>2, <3>2, <3>3, WaitGoesOn DEF AtWork
  <2>4. CASE UNCHANGED vars /\ Continue(r, [f EXCEPT !.pc = "apply"])
    <3>. DEFINE g == [f EXCEPT !.pc = "apply"]
    <3>1. g.pc = "apply" /\ g.t = f.t /\ g.edition = f.edition
      BY <1>c
    <3>2. Harmless(r)' /\ UNCHANGED req /\ Continue(r, g)
      BY <1>a, <2>4 DEF Harmless, Waits, vars
    <3>. HIDE DEF g
    <3>. QED  BY <1>a, <1>b, <2>1, <2>2, <3>1, <3>2, WaitGoesOn DEF AtWork
  <2>. QED  BY <1>3, <2>3, <2>4 DEF ClosePeers
<1>4. CASE CloseRound(r)
  <2>. DEFINE g == [f EXCEPT !.pc = "apply"]
  <2>1. /\ f.pc = "refuse" /\ Continue(r, g)
        /\ Decide({i \in Pending : approval[i].t = f.t}, "rejected", TRUE)
        /\ UNCHANGED <<ticket, req, edition, editing>>
    BY <1>4 DEF CloseRound, vars
  <2>2. \A i \in DOMAIN approval : approval[i].t # f.t =>
          i \in DOMAIN approval' /\ approval'[i] = approval[i]
    BY <2>1, DecideFacts
  <2>3. g.pc = "apply" /\ g.t = f.t /\ g.edition = f.edition
    BY <1>c
  <2>4. Harmless(r)'
    BY <1>a, <2>1 DEF Harmless, Waits
  <2>. HIDE DEF g
  <2>. QED  BY <1>a, <1>b, <2>1, <2>2, <2>3, <2>4, WaitGoesOn DEF AtWork
<1>5. CASE ApplyTicketStatus(r)
  <2>. DEFINE h == req[r]
  <2>1. /\ f.pc = "apply" /\ h.op = "verdict" /\ h.t = f.t /\ f.t \in Tickets
        /\ CompleteVerdict(r) /\ Continue(r, NoFlow)
        /\ UNCHANGED <<approval, edition, editing>>
    BY <1>5, DecidingFacts, FlowFacts DEF ApplyTicketStatus, Deciding, Return
  <2>2. h.target \in {"cancelled", "open", "scheduled"}
    BY <2>1 DEF IInv, HandlerTargets
  <2>3. \A t \in Tickets : t # f.t => ticket'[t] = ticket[t]
    BY <2>1 DEF CompleteVerdict, IInv, TypeOK
  <2>4. ~Waits(f.t)'
    <3>1. CASE <<h.seen.status, h.target>> \in Transitions
      <4>1. Bump(ticket[f.t]) \in Row
        BY <2>1, BumpFacts DEF IInv, TypeOK
      <4>2. ticket'[f.t] = [Bump(ticket[f.t]) EXCEPT !.status = h.target]
        BY <2>1, <3>1 DEF CompleteVerdict, IInv, TypeOK
      <4>3. ticket'[f.t].status = h.target
        BY <4>1, <4>2 DEF Row
      <4>. QED  BY <2>2, <4>3 DEF Waits
    <3>2. CASE <<h.seen.status, h.target>> \notin Transitions
      <4>1. h.seen.status # "pending_approval"
        BY <2>2, <3>2 DEF Transitions
      <4>2. ticket' = ticket
        BY <2>1, <3>2 DEF CompleteVerdict
      <4>. QED  BY <1>a, <2>1, <4>1, <4>2 DEF Harmless, Waits
    <3>. QED  BY <3>1, <3>2
  <2>5. \A t \in Tickets : Waits(t)' => Waits(t) /\ WorkLeft(t)'
    <3>. SUFFICES ASSUME NEW t \in Tickets, Waits(t)' PROVE Waits(t) /\ WorkLeft(t)'
      OBVIOUS
    <3>1. t # f.t /\ Waits(t)
      BY <2>3, <2>4 DEF Waits
    <3>. QED  BY <1>b, <2>1, <3>1, WaitElsewhere
  <2>6. Inserts(r)'
    BY <1>b, <2>1 DEF Inserts, NoFlow
  <2>. QED  BY <1>b, <2>1, <2>5, <2>6, IdleIsHarmless, WaitStep DEF CompleteVerdict
<1>. QED  BY <1>1, <1>2, <1>3, <1>4, <1>5, WaitBeginDecide DEF Resolve

LEMMA WaitOther ==
  ASSUME Undisturbed, IInv, AInv, WaitInv,
         \/ \E r \in Requests, t \in Tickets, target \in Targets : MoveByHand(r, t, target)
         \/ \E r \in Requests : FinishMove(r)
         \/ Administer \/ Restart \/ UNCHANGED allVars
  PROVE  WaitInv'
<1>1. ASSUME NEW r \in Requests, NEW u \in Tickets, NEW target \in Targets,
             MoveByHand(r, u, target)
      PROVE  WaitInv'
  <2>1. /\ UNCHANGED <<ticket, approval, flow, edition, editing>>
        /\ \A s \in Requests \ {r} : req'[s] = req[s]
        /\ req'[r].op = "update" /\ req'[r].target = target
    BY <1>1 DEF MoveByHand, BeginUpdate, Begin, avars, IInv, TypeOK
  <2>2. Harmless(r)' /\ Inserts(r)'
    BY <2>1 DEF Harmless, Inserts, Undisturbed, WaitInv
  <2>3. \A t \in Tickets : Waits(t)' => Waits(t) /\ WorkLeft(t)'
    BY <2>1 DEF Waits, WorkLeft, Pending, WaitInv
  <2>. QED  BY <2>1, <2>2, <2>3, WaitStep
<1>2. ASSUME NEW r \in Requests, FinishMove(r)
      PROVE  WaitInv'
  <2>. DEFINE h == req[r]
  <2>1. /\ UNCHANGED <<approval, flow, edition, editing>>
        /\ h.op = "update" /\ h.target # "pending_approval" /\ h.t \in Tickets
        /\ h \in Handler /\ now \in Nat
    BY <1>2 DEF FinishMove, CompleteUpdate, avars, WaitInv, Harmless, IInv, TypeOK
  <2>2. /\ Harmless(r)'
        /\ \A s \in Requests \ {r} : req'[s] = req[s]
    BY <1>2, IdleIsHarmless DEF FinishMove, CompleteUpdate
  <2>3. \A t \in Tickets : Waits(t)' => Waits(t)
    <3>1. \A t \in Tickets : t # h.t => ticket'[t] = ticket[t]
      BY <1>2 DEF FinishMove, CompleteUpdate, IInv, TypeOK
    <3>2. PICK u \in Tickets : u = h.t
      BY <2>1
    <3>3. Waits(u)' => Waits(u)
      <4>. DEFINE old == ticket[h.t]
                  row == IF h.target = "keep" THEN old ELSE Moved(old, h.seen.status, h.target)
      <4>1. ticket'[h.t] = Bump(row) /\ old \in Row
        BY <1>2, <2>1 DEF FinishMove, CompleteUpdate, IInv, TypeOK
      <4>2. row \in Row /\ row.status = IF h.target = "keep" THEN old.status ELSE h.target
        BY <2>1, <4>1, MovedFacts DEF Handler
      <4>. HIDE DEF row
      <4>3. ticket'[h.t].status = row.status
        BY <4>1, <4>2, BumpFacts DEF Guarded
      <4>. QED  BY <2>1, <3>2, <4>2, <4>3 DEF Waits
    <3>. QED  BY <3>1, <3>2, <3>3 DEF Waits
  <2>4. \A t \in Tickets : Waits(t)' => Waits(t) /\ WorkLeft(t)'
    BY <2>1, <2>3 DEF WorkLeft, Pending, WaitInv
  <2>5. Inserts(r)'
    BY <2>1 DEF Inserts, WaitInv
  <2>. QED  BY <2>1, <2>2, <2>4, <2>5, WaitStep
<1>3. CASE Administer \/ Restart
  BY <1>3 DEF Administer, BeginUpdatePolicy, ReplaceSteps, SetActive, Restart,
              Undisturbed, WaitInv
<1>4. CASE UNCHANGED allVars
  BY <1>4 DEF allVars, vars, avars, WaitInv, Harmless, Inserts, Waits, WorkLeft, Pending
<1>. QED  BY <1>1, <1>2, <1>3, <1>4

LEMMA WaitNext ==
  ASSUME Undisturbed
  PROVE  IInv /\ AInv /\ WaitInv /\ [ApprovalsNext]_allVars => WaitInv'
BY WaitEnter, WaitResolve, WaitOther DEF ApprovalsNext

(* Approvers may decide and staff may move tickets at the same time, in any
   number: when no handler is at work, a ticket that waits for approval has a
   pending row, so somebody can still end the wait.  What this needs of the
   deployment is what Undisturbed says: somebody to ask at every step, no
   second way into approval, no replaced steps, and no stop of the process. *)
THEOREM SomebodyCanDecide ==
  ASSUME Undisturbed
  PROVE  ApprovalsSpec => []NotStuck
<1>1. WaitInv => NotStuck
  <2>. SUFFICES ASSUME WaitInv, Quiet, NEW t \in Tickets, Waits(t)
                PROVE  \E i \in Pending : approval[i].t = t
    BY DEF NotStuck, Waits
  <2>1. \A r \in Requests : flow[r].pc \notin AtWork
    BY DEF Quiet, Busy, AtWork
  <2>. QED  BY <2>1 DEF WaitInv, WorkLeft
<1>2. IInv /\ AInv /\ WaitInv /\ [ApprovalsNext]_allVars => WaitInv'
  BY WaitNext
<1>. QED  BY <1>1, <1>2, WaitInit, ApprovalsInvariance, PTL DEF ApprovalsSpec

(***************************************************************************)
(* One step at a time.  When a request is served only after the one before *)
(* it is done, and nothing enters approval twice, a flow finds the pending *)
(* rows of its ticket at its own step, and a step is opened only after the *)
(* rows of the one before are all decided.                                 *)
(***************************************************************************)
OneRequest ==
  /\ \A r, s \in Requests : Busy(r) /\ Busy(s) => r = s
  /\ \A r \in Requests : req[r].op # "cab"

(* The open rows of t are all of step s. *)
OpenAt(t, s) == \A i \in Pending : approval[i].t = t => approval[i].step = s
NoneOpen(t)  == \A i \in Pending : approval[i].t # t

FlowAtStep(r) ==
  /\ flow[r].pc # "none" => flow[r].t \in Tickets /\ Exists(flow[r].t)
  /\ flow[r].pc = "route" => NoneOpen(flow[r].t)
  /\ flow[r].pc \in Deciding \cup {"insert"} => OpenAt(flow[r].t, flow[r].step)

StepInv ==
  /\ OneRequest
  /\ \A i \in DOMAIN approval : Exists(approval[i].t)
  /\ \A r \in Requests : FlowAtStep(r)
  /\ CurrentStepOnly

LEMMA StepInit == ApprovalsInit => StepInv
BY DEF ApprovalsInit, Init, StepInv, OneRequest, Busy, Idle, NoFlow, FlowAtStep, Deciding,
       CurrentStepOnly, Pending

(* A slot has room only when no request is served. *)
LEMMA RoomForOne ==
  ASSUME MaxInFlight <= 1, IsFiniteSet(Requests), NEW r \in Requests, Room(r)
  PROVE  \A s \in Requests : ~Busy(s)
<1>. DEFINE B == {s \in Requests : Busy(s)}
<1>1. IsFiniteSet(B) /\ Cardinality(B) \in Nat
  BY FS_Subset, FS_CardinalityType
<1>2. Cardinality(B) + (IF editing THEN 1 ELSE 0) < MaxInFlight
  BY DEF Room
<1>3. Cardinality(B) = 0
  BY <1>1, <1>2, TicketsAssumption
<1>. QED  BY <1>1, <1>3, FS_EmptySet

(* A step of the one request served keeps the others at rest. *)
LEMMA StepOfOne ==
  ASSUME StepInv, NEW r \in Requests,
         \A s \in Requests : Busy(s) => s = r,
         \A s \in Requests \ {r} : flow'[s] = flow[s] /\ req'[s] = req[s],
         req'[r].op # "cab",
         \A t \in Tickets : Exists(t) => Exists(t)',
         \A i \in DOMAIN approval' : approval'[i].t \in Tickets /\ Exists(approval'[i].t),
         FlowAtStep(r)', CurrentStepOnly'
  PROVE  StepInv'
<1>1. \A s \in Requests : Busy(s)' => s = r
  BY DEF Busy
<1>2. \A s \in Requests \ {r} : flow'[s].pc = "none"
  BY DEF Busy
<1>3. \A s \in Requests : FlowAtStep(s)'
  BY <1>2 DEF FlowAtStep, Deciding
<1>4. OneRequest'
  BY <1>1 DEF StepInv, OneRequest
<1>5. \A i \in DOMAIN approval' : (Exists(approval[i].t))'
  BY DEF Exists
<1>. QED  BY <1>3, <1>4, <1>5 DEF StepInv

(* Rows may be decided: what was open at one step is so still. *)
PendingShrinks ==
  \A i \in DOMAIN approval' : approval'[i].status = "pending" =>
    /\ i \in Pending
    /\ approval'[i].t = approval[i].t /\ approval'[i].step = approval[i].step

LEMMA OpenStays ==
  ASSUME PendingShrinks
  PROVE  /\ CurrentStepOnly => CurrentStepOnly'
         /\ \A t, s : OpenAt(t, s) => OpenAt(t, s)'
         /\ \A t : NoneOpen(t) => NoneOpen(t)'
BY DEF PendingShrinks, CurrentStepOnly, OpenAt, NoneOpen, Pending

LEMMA DecideShrinks ==
  ASSUME AInv, NEW ids, NEW decision \in {"approved", "rejected"}, NEW auto \in BOOLEAN,
         Decide(ids, decision, auto)
  PROVE  /\ PendingShrinks
         /\ DOMAIN approval' = DOMAIN approval
         /\ \A i \in DOMAIN approval : approval'[i].t = approval[i].t
         /\ \A i \in DOMAIN approval' : approval'[i].status = "pending" => i \notin ids
<1>1. \A i \in DOMAIN approval : approval[i] \in ApprovalRow
  BY LenProperties, ElementOfSeq DEF AInv, ApprovalsTypeOK
<1>. QED  BY <1>1 DEF Decide, PendingShrinks, Pending, ApprovalRow

LEMMA SameShrinks ==
  ASSUME UNCHANGED approval
  PROVE  PendingShrinks
BY DEF PendingShrinks, Pending

(* Who holds the slot. *)
LEMMA TheOneBusy ==
  ASSUME StepInv, NEW r \in Requests, Busy(r)
  PROVE  \A s \in Requests : Busy(s) => s = r
BY DEF StepInv, OneRequest

LEMMA RowTickets ==
  ASSUME AInv, StepInv
  PROVE  \A i \in DOMAIN approval : approval[i].t \in Tickets /\ Exists(approval[i].t)
<1>1. \A i \in DOMAIN approval : approval[i] \in ApprovalRow
  BY LenProperties, ElementOfSeq DEF AInv, ApprovalsTypeOK
<1>. QED  BY <1>1 DEF ApprovalRow, StepInv

LEMMA TicketsStay ==
  ASSUME IInv, AInv, [ApprovalsNext]_allVars
  PROVE  \A t \in Tickets : Exists(t) => Exists(t)'
BY StepImplements, TicketsRemain

LEMMA SpawningShape ==
  ASSUME NEW t, NEW e, NEW s, NEW who
  PROVE  LET f == Spawning(t, e, s, who) IN
         \/ f = NoFlow /\ who = {}
         \/ f.pc = "insert" /\ f.t = t /\ f.edition = e /\ f.step = s /\ f.left = who
BY DEF Spawning, NoFlow

LEMMA OneEnter ==
  ASSUME MaxInFlight <= 1, IsFiniteSet(Requests), "cab" \notin Features,
         IInv, AInv, StepInv, NEW r \in Requests, Enter(r),
         \A t \in Tickets : Exists(t) => Exists(t)'
  PROVE  StepInv'
<1>. PICK f \in Flow : f = flow[r]
  BY FlowFacts
<1>b. \A g : Continue(r, g) => flow'[r] = g /\ \A s \in Requests \ {r} : flow'[s] = flow[s]
  BY DEF Continue, AInv, ApprovalsTypeOK
<1>1. ASSUME NEW t \in Tickets, CreateForApproval(r, t)
      PROVE  StepInv'
  <2>. DEFINE g == [NoFlow EXCEPT !.pc = "route", !.t = t]
  <2>1. g.pc = "route" /\ g.t = t
    BY DEF NoFlow
  <2>2. Continue(r, g) /\ UNCHANGED <<approval, req>> /\ ~Exists(t)
        /\ \A s \in Requests : ~Busy(s)
    BY <1>1, RoomForOne DEF CreateForApproval, Create
  <2>. HIDE DEF g
  <2>3. NoneOpen(t)'
    BY <2>2 DEF StepInv, NoneOpen, Pending
  <2>4. FlowAtStep(r)' /\ CurrentStepOnly'
    <3>1. Exists(t)'
      BY <1>1, StatusFacts DEF CreateForApproval, Create, IInv, TypeOK, Exists, Blank
    <3>. QED  BY <1>b, <2>1, <2>2, <2>3, <3>1, SameShrinks, OpenStays
              DEF FlowAtStep, Deciding, StepInv
  <2>5. req'[r].op # "cab"
    BY <2>2 DEF StepInv, OneRequest
  <2>6. \A i \in DOMAIN approval' : approval'[i].t \in Tickets /\ Exists(approval'[i].t)
    BY <2>2, RowTickets
  <2>. QED  BY <1>b, <2>2, <2>4, <2>5, <2>6, StepOfOne
<1>2. ASSUME NEW t \in Tickets, RequestCab(r, t)
      PROVE  StepInv'
  BY <1>2 DEF RequestCab, BeginCab
<1>3. CASE SubmitToCab(r)
  BY <1>3 DEF SubmitToCab, CompleteCab, StepInv, OneRequest
<1>4. CASE Route(r)
  <2>1. f.pc = "route" /\ UNCHANGED <<approval, ticket, req>> /\ Busy(r)
    BY <1>4 DEF Route, vars, Busy
  <2>2. NoneOpen(f.t)
    BY <2>1 DEF StepInv, FlowAtStep
  <2>3. PICK e, who : Continue(r, Spawning(f.t, e, 1, who))
    BY <1>4 DEF Route
  <2>4. FlowAtStep(r)'
    <3>1. flow'[r] = NoFlow \/ (flow'[r].pc = "insert" /\ flow'[r].t = f.t /\ flow'[r].step = 1)
      <4>. DEFINE g == Spawning(f.t, e, 1, who)
      <4>1. g = NoFlow \/ (g.pc = "insert" /\ g.t = f.t /\ g.step = 1)
        BY SpawningShape
      <4>2. Continue(r, g)
        BY <2>3
      <4>. HIDE DEF g
      <4>. QED  BY <1>b, <4>1, <4>2
    <3>2. OpenAt(f.t, 1)'
      BY <2>1, <2>2 DEF NoneOpen, OpenAt, Pending
    <3>3. f.t \in Tickets /\ Exists(f.t)'
      BY <2>1, FlowFacts DEF StepInv, FlowAtStep
    <3>. QED  BY <3>1, <3>2, <3>3 DEF FlowAtStep, NoFlow, Deciding
  <2>5. CurrentStepOnly'
    BY <2>1, SameShrinks, OpenStays DEF StepInv
  <2>6. req'[r].op # "cab" /\ \A s \in Requests : Busy(s) => s = r
    BY <2>1, TheOneBusy DEF StepInv, OneRequest
  <2>7. \A i \in DOMAIN approval' : approval'[i].t \in Tickets /\ Exists(approval'[i].t)
    BY <2>1, RowTickets
  <2>. QED  BY <1>b, <2>1, <2>3, <2>4, <2>5, <2>6, <2>7, StepOfOne
<1>5. CASE InsertRow(r)
  <2>1. /\ f.pc = "insert" /\ f.t \in Tickets /\ Busy(r)
        /\ UNCHANGED <<ticket, req>> /\ OpenAt(f.t, f.step)
    BY <1>5, FlowFacts DEF InsertRow, vars, Busy, StepInv, FlowAtStep
  <2>2. req'[r].op # "cab" /\ \A s \in Requests : Busy(s) => s = r
    BY <2>1, TheOneBusy DEF StepInv, OneRequest
  <2>3. CASE Return(r) /\ UNCHANGED approval
    <3>1. FlowAtStep(r)' /\ CurrentStepOnly'
      BY <1>b, <2>3, SameShrinks, OpenStays DEF Return, FlowAtStep, NoFlow, Deciding, StepInv
    <3>2. \A i \in DOMAIN approval' : approval'[i].t \in Tickets /\ Exists(approval'[i].t)
      BY <2>3, RowTickets
    <3>. QED  BY <1>b, <2>1, <2>2, <2>3, <3>1, <3>2, StepOfOne DEF Return
  <2>4. ASSUME NEW a \in f.left,
               approval' = Append(approval, [t |-> f.t, approver |-> a, step |-> f.step,
                             edition |-> f.edition, status |-> "pending", auto |-> FALSE]),
               Continue(r, Spawning(f.t, f.edition, f.step, f.left \ {a}))
        PROVE  StepInv'
    <3>. DEFINE row == [t |-> f.t, approver |-> a, step |-> f.step,
                        edition |-> f.edition, status |-> "pending", auto |-> FALSE]
                n == Len(approval)
    <3>1. row.t = f.t /\ row.step = f.step
      OBVIOUS
    <3>2. /\ n \in Nat /\ DOMAIN approval = 1..n
          /\ DOMAIN approval' = 1..(n + 1) /\ approval'[n + 1] = row
          /\ \A i \in DOMAIN approval : approval'[i] = approval[i]
      <4>1. approval \in Seq(ApprovalRow) /\ approval' = Append(approval, row)
        BY <2>4 DEF AInv, ApprovalsTypeOK
      <4>. HIDE DEF row
      <4>. QED  BY <4>1, AppendProps
    <3>. HIDE DEF row, n
    <3>3. \A i \in DOMAIN approval' : approval'[i].status = "pending" =>
            \/ i \in Pending /\ approval'[i] = approval[i]
            \/ approval'[i].t = f.t /\ approval'[i].step = f.step
      BY <3>1, <3>2 DEF Pending
    <3>4. OpenAt(f.t, f.step)'
      BY <2>1, <3>3 DEF OpenAt, Pending
    <3>5. CurrentStepOnly'
      BY <2>1, <3>3 DEF CurrentStepOnly, OpenAt, StepInv, Pending
    <3>6. FlowAtStep(r)'
      <4>1. flow'[r] = NoFlow
            \/ (flow'[r].pc = "insert" /\ flow'[r].t = f.t /\ flow'[r].step = f.step)
        <5>. DEFINE g == Spawning(f.t, f.edition, f.step, f.left \ {a})
        <5>1. g = NoFlow \/ (g.pc = "insert" /\ g.t = f.t /\ g.step = f.step)
          BY SpawningShape
        <5>2. Continue(r, g)
          BY <2>4
        <5>. HIDE DEF g
        <5>. QED  BY <1>b, <5>1, <5>2
      <4>2. f.t \in Tickets /\ Exists(f.t)'
        BY <2>1 DEF StepInv, FlowAtStep
      <4>. QED  BY <3>4, <4>1, <4>2 DEF FlowAtStep, NoFlow, Deciding
    <3>7. \A i \in DOMAIN approval' : approval'[i].t \in Tickets /\ Exists(approval'[i].t)
      <4>1. Exists(f.t)
        BY <2>1 DEF StepInv, FlowAtStep
      <4>. QED  BY <2>1, <3>1, <3>2, <4>1, RowTickets
    <3>. QED  BY <1>b, <2>1, <2>2, <2>4, <3>5, <3>6, <3>7, StepOfOne
  <2>. QED  BY <1>5, <2>3, <2>4 DEF InsertRow
<1>. QED  BY <1>1, <1>2, <1>3, <1>4, <1>5 DEF Enter

(* A deciding flow that goes on, or ends: rows of its ticket that are open
   are open at its step. *)
LEMMA OneGoesOn ==
  ASSUME AInv, StepInv, NEW r \in Requests, flow[r].pc \in Deciding,
         NEW t, t = flow[r].t, NEW s, s = flow[r].step,
         \A u \in Tickets : Exists(u) => Exists(u)',
         \A q \in Requests \ {r} : flow'[q] = flow[q] /\ req'[q] = req[q],
         req'[r].op # "cab",
         PendingShrinks, DOMAIN approval' = DOMAIN approval,
         \A i \in DOMAIN approval : approval'[i].t = approval[i].t,
         \/ flow'[r] = NoFlow
         \/ flow'[r].pc \in Deciding /\ flow'[r].t = t /\ flow'[r].step = s
         \/ flow'[r].pc = "insert" /\ flow'[r].t = t /\ NoneOpen(t)'
  PROVE  StepInv'
<1>1. t \in Tickets /\ Exists(t) /\ OpenAt(t, s) /\ Busy(r)
  BY DEF StepInv, FlowAtStep, Deciding, Busy
<1>2. OpenAt(t, s)' /\ CurrentStepOnly' /\ Exists(t)'
  BY <1>1, OpenStays DEF StepInv
<1>3. \A i \in DOMAIN approval' : approval'[i].t \in Tickets /\ Exists(approval'[i].t)
  BY RowTickets
<1>4. FlowAtStep(r)'
  <2>1. CASE flow'[r] = NoFlow
    BY <2>1 DEF FlowAtStep, NoFlow, Deciding
  <2>2. CASE flow'[r].pc \in Deciding /\ flow'[r].t = t /\ flow'[r].step = s
    BY <1>1, <1>2, <2>2 DEF FlowAtStep, Deciding
  <2>3. CASE flow'[r].pc = "insert" /\ flow'[r].t = t /\ NoneOpen(t)'
    <3>1. \A n : OpenAt(t, n)'
      BY <2>3 DEF NoneOpen, OpenAt
    <3>. QED  BY <1>1, <1>2, <2>3, <3>1 DEF FlowAtStep
  <2>. QED  BY <2>1, <2>2, <2>3
<1>. QED  BY <1>1, <1>2, <1>3, <1>4, StepOfOne, TheOneBusy

LEMMA OneResolve ==
  ASSUME MaxInFlight <= 1, IsFiniteSet(Requests),
         IInv, AInv, StepInv, NEW r \in Requests, Resolve(r),
         \A t \in Tickets : Exists(t) => Exists(t)'
  PROVE  StepInv'
<1>. PICK f \in Flow : f = flow[r]
  BY FlowFacts
<1>b. \A g : Continue(r, g) => flow'[r] = g /\ \A s \in Requests \ {r} : flow'[s] = flow[s]
  BY DEF Continue, AInv, ApprovalsTypeOK
<1>c. \A pc : LET g == [f EXCEPT !.pc = pc] IN g.pc = pc /\ g.t = f.t /\ g.step = f.step
  BY DEF Flow
<1>d. f.pc \in Deciding => f.decision \in {"approved", "rejected"} /\ req[r].op = "verdict"
  BY DecidingFacts
<1>e. /\ \A s \in Requests : req[s].op # "cab"
      /\ Finish(r) => req'[r].op # "cab" /\ \A s \in Requests \ {r} : req'[s] = req[s]
  BY DEF StepInv, OneRequest, Finish, Idle, IInv, TypeOK
<1>s. UNCHANGED approval => /\ PendingShrinks /\ DOMAIN approval' = DOMAIN approval
                            /\ \A i \in DOMAIN approval : approval'[i].t = approval[i].t
  BY SameShrinks
<1>1. ASSUME NEW i \in DOMAIN approval, NEW decision \in {"approved", "rejected"},
             BeginDecide(r, i, decision)
      PROVE  StepInv'
  <2>1. /\ \A s \in Requests : ~Busy(s)
        /\ UNCHANGED approval /\ approval[i].status = "pending"
    BY <1>1, RoomForOne DEF BeginDecide
  <2>2. /\ req'[r].op = "verdict" /\ \A s \in Requests \ {r} : req'[s] = req[s]
    BY <1>1 DEF BeginDecide, BeginVerdict, Begin, IInv, TypeOK
  <2>3. /\ flow'[r].pc = "decide" /\ flow'[r].t = approval[i].t
        /\ flow'[r].step = approval[i].step
        /\ \A s \in Requests \ {r} : flow'[s] = flow[s]
    BY <1>1 DEF BeginDecide, Continue, AInv, ApprovalsTypeOK
  <2>4. OpenAt(approval[i].t, approval[i].step)
    BY <2>1 DEF StepInv, CurrentStepOnly, OpenAt, Pending
  <2>5. \A j \in DOMAIN approval' : approval'[j].t \in Tickets /\ Exists(approval'[j].t)
    BY <2>1, RowTickets
  <2>6. CurrentStepOnly'
    BY <2>1, SameShrinks, OpenStays DEF StepInv
  <2>7. FlowAtStep(r)'
    <3>1. flow'[r].t \in Tickets /\ ticket'[flow'[r].t].status # "absent"
      BY <2>1, <2>3, <2>5 DEF Exists
    <3>2. \A j \in DOMAIN approval' : approval'[j].status = "pending" /\ approval'[j].t = flow'[r].t
            => approval'[j].step = flow'[r].step
      BY <2>1, <2>3, <2>4 DEF OpenAt, Pending
    <3>. QED  BY <2>3, <3>1, <3>2 DEF FlowAtStep, OpenAt, Pending, Exists
  <2>. QED  BY <2>1, <2>2, <2>3, <2>5, <2>6, <2>7, StepOfOne
<1>2. CASE WriteDecision(r)
  <2>. DEFINE pc == IF f.decision = "rejected" THEN "refuse"
                    ELSE IF f.mode = "all" THEN "count" ELSE "close"
              g == [f EXCEPT !.pc = pc]
  <2>1. f.pc = "decide" /\ f.pc \in Deciding /\ Decide({f.id}, f.decision, FALSE)
        /\ Continue(r, g) /\ UNCHANGED req
    BY <1>2 DEF WriteDecision, vars, Deciding
  <2>2. g.pc \in Deciding /\ g.t = f.t /\ g.step = f.step
    BY <1>c DEF Deciding
  <2>. HIDE DEF g, pc
  <2>3. /\ PendingShrinks /\ DOMAIN approval' = DOMAIN approval
        /\ \A i \in DOMAIN approval : approval'[i].t = approval[i].t
    BY <1>d, <2>1, DecideShrinks
  <2>. QED  BY <1>b, <1>e, <2>1, <2>2, <2>3, OneGoesOn
<1>3. CASE CountPending(r)
  <2>1. f.pc = "count" /\ f.pc \in Deciding /\ UNCHANGED approval
    BY <1>3 DEF CountPending, Deciding
  <2>2. CASE Finish(r) /\ Continue(r, NoFlow)
    BY <1>b, <1>e, <1>s, <2>1, <2>2, OneGoesOn
  <2>3. CASE Continue(r, [f EXCEPT !.pc = "close"]) /\ UNCHANGED vars
    <3>. DEFINE g == [f EXCEPT !.pc = "close"]
    <3>1. g.pc \in Deciding /\ g.t = f.t /\ g.step = f.step /\ Continue(r, g) /\ UNCHANGED req
      BY <1>c, <2>3 DEF vars, Deciding
    <3>. HIDE DEF g
    <3>. QED  BY <1>b, <1>e, <1>s, <2>1, <3>1, OneGoesOn
  <2>. QED  BY <1>3, <2>2, <2>3 DEF CountPending, Return, Abandon
<1>4. CASE ClosePeers(r)
  <2>1. f.pc = "close" /\ f.pc \in Deciding /\ Decide(Peers(f), "approved", TRUE)
    BY <1>4 DEF ClosePeers, Deciding
  <2>2. /\ PendingShrinks /\ DOMAIN approval' = DOMAIN approval
        /\ \A i \in DOMAIN approval : approval'[i].t = approval[i].t
        /\ \A i \in DOMAIN approval' : approval'[i].status = "pending" => i \notin Peers(f)
    BY <2>1, DecideShrinks
  <2>3. NoneOpen(f.t)'
    <3>1. OpenAt(f.t, f.step)
      BY <2>1 DEF StepInv, FlowAtStep
    <3>2. f.id \notin Pending
      BY <2>1, DecidingFacts DEF Pending
    <3>3. \A i \in Pending : approval[i].t = f.t => i \in Peers(f)
      BY <3>1, <3>2 DEF OpenAt, Peers
    <3>. QED  BY <2>2, <3>3 DEF NoneOpen, Pending, PendingShrinks
  <2>4. CASE Finish(r) /\ Continue(r, Spawning(f.t, f.edition, f.step + 1,
                                     Policies[f.edition][f.step + 1].approvers))
    <3>. DEFINE g == Spawning(f.t, f.edition, f.step + 1,
                              Policies[f.edition][f.step + 1].approvers)
    <3>1. g = NoFlow \/ (g.pc = "insert" /\ g.t = f.t)
      BY SpawningShape
    <3>2. Continue(r, g)
      BY <2>4
    <3>. HIDE DEF g
    <3>. QED  BY <1>b, <1>e, <2>1, <2>2, <2>3, <2>4, <3>1, <3>2, OneGoesOn
  <2>5. CASE Continue(r, [f EXCEPT !.pc = "apply"]) /\ UNCHANGED vars
    <3>. DEFINE g == [f EXCEPT !.pc = "apply"]
    <3>1. g.pc \in Deciding /\ g.t = f.t /\ g.step = f.step /\ Continue(r, g) /\ UNCHANGED req
      BY <1>c, <2>5 DEF vars, Deciding
    <3>. HIDE DEF g
    <3>. QED  BY <1>b, <1>e, <2>1, <2>2, <3>1, OneGoesOn
  <2>. QED  BY <1>4, <2>4, <2>5 DEF ClosePeers, Abandon
<1>5. CASE CloseRound(r)
  <2>. DEFINE g == [f EXCEPT !.pc = "apply"]
              ids == {i \in Pending : approval[i].t = f.t}
  <2>1. f.pc = "refuse" /\ f.pc \in Deciding /\ Decide(ids, "rejected", TRUE)
        /\ Continue(r, g) /\ UNCHANGED req
    BY <1>5 DEF CloseRound, vars, Deciding
  <2>2. g.pc \in Deciding /\ g.t = f.t /\ g.step = f.step
    BY <1>c DEF Deciding
  <2>. HIDE DEF g, ids
  <2>3. /\ PendingShrinks /\ DOMAIN approval' = DOMAIN approval
        /\ \A i \in DOMAIN approval : approval'[i].t = approval[i].t
    BY <2>1, DecideShrinks
  <2>. QED  BY <1>b, <1>e, <2>1, <2>2, <2>3, OneGoesOn
<1>6. CASE ApplyTicketStatus(r)
  <2>1. f.pc = "apply" /\ f.pc \in Deciding /\ Finish(r) /\ Continue(r, NoFlow)
        /\ UNCHANGED approval
    BY <1>6 DEF ApplyTicketStatus, CompleteVerdict, Return, Deciding
  <2>. QED  BY <1>b, <1>e, <1>s, <2>1, OneGoesOn
<1>. QED  BY <1>1, <1>2, <1>3, <1>4, <1>5, <1>6 DEF Resolve

LEMMA OneOther ==
  ASSUME MaxInFlight <= 1, IsFiniteSet(Requests),
         IInv, AInv, StepInv,
         \A t \in Tickets : Exists(t) => Exists(t)',
         \/ \E r \in Requests, t \in Tickets, target \in Targets : MoveByHand(r, t, target)
         \/ \E r \in Requests : FinishMove(r)
         \/ Administer \/ Restart \/ UNCHANGED allVars
  PROVE  StepInv'
<1>1. UNCHANGED approval /\ CurrentStepOnly'
      /\ \A i \in DOMAIN approval' : approval'[i].t \in Tickets /\ Exists(approval'[i].t)
  <2>1. UNCHANGED approval
    BY DEF MoveByHand, FinishMove, Administer, BeginUpdatePolicy, ReplaceSteps, SetActive,
           Restart, allVars, avars
  <2>. QED  BY <2>1, SameShrinks, OpenStays, RowTickets DEF StepInv
<1>2. ASSUME NEW r \in Requests, NEW t \in Tickets, NEW target \in Targets,
             MoveByHand(r, t, target)
      PROVE  StepInv'
  <2>1. /\ \A s \in Requests : ~Busy(s)
        /\ UNCHANGED flow /\ req'[r].op = "update"
        /\ \A s \in Requests \ {r} : req'[s] = req[s]
    BY <1>2, RoomForOne DEF MoveByHand, BeginUpdate, Begin, avars, IInv, TypeOK
  <2>2. FlowAtStep(r)'
    BY <2>1 DEF FlowAtStep, Deciding, Busy
  <2>. QED  BY <1>1, <2>1, <2>2, StepOfOne
<1>3. ASSUME NEW r \in Requests, FinishMove(r)
      PROVE  StepInv'
  <2>1. req[r].op = "update" /\ Finish(r) /\ UNCHANGED flow
    BY <1>3 DEF FinishMove, CompleteUpdate, avars
  <2>2. flow[r].pc = "none"
    BY <2>1, FlowFacts DEF FlowMatches, Flow, Pcs
  <2>3. FlowAtStep(r)'
    BY <2>1, <2>2 DEF FlowAtStep, Deciding
  <2>4. req'[r].op # "cab" /\ \A s \in Requests \ {r} : req'[s] = req[s]
    BY <2>1 DEF Finish, Idle, IInv, TypeOK
  <2>. QED  BY <1>1, <2>1, <2>3, <2>4, StepOfOne, TheOneBusy DEF Busy
<1>4. CASE Administer \/ UNCHANGED allVars
  BY <1>1, <1>4 DEF Administer, BeginUpdatePolicy, ReplaceSteps, SetActive, allVars, vars,
     avars, StepInv, OneRequest, Busy, FlowAtStep, OpenAt, NoneOpen, Pending, Exists
<1>5. CASE Restart
  <2>1. /\ \A r \in Requests : req'[r] = Idle /\ flow'[r] = NoFlow
    BY <1>5 DEF Restart
  <2>. QED  BY <1>1, <2>1 DEF StepInv, OneRequest, Busy, FlowAtStep, NoFlow, Idle, Deciding
<1>. QED  BY <1>2, <1>3, <1>4, <1>5

LEMMA OneNext ==
  ASSUME MaxInFlight <= 1, IsFiniteSet(Requests), "cab" \notin Features
  PROVE  IInv /\ AInv /\ StepInv /\ [ApprovalsNext]_allVars => StepInv'
<1>. SUFFICES ASSUME IInv, AInv, StepInv, [ApprovalsNext]_allVars
              PROVE  StepInv'
  OBVIOUS
<1>1. \A t \in Tickets : Exists(t) => Exists(t)'
  BY TicketsStay
<1>. QED  BY <1>1, OneEnter, OneResolve, OneOther DEF ApprovalsNext

(* Where requests are served one after the other and tickets enter approval
   only at their creation, only one step of a ticket is open at a time, even
   when the process stops in the middle of a round or the policy's steps are
   replaced.  (With overlapping requests a slow one may still be opening a step
   that its faster peer has already gone past.) *)
THEOREM OneStepAtATime ==
  ASSUME MaxInFlight <= 1, IsFiniteSet(Requests), "cab" \notin Features
  PROVE  ApprovalsSpec => []CurrentStepOnly
<1>1. IInv /\ AInv /\ StepInv /\ [ApprovalsNext]_allVars => StepInv'
  BY OneNext
<1>3. StepInv => CurrentStepOnly
  BY DEF StepInv
<1>. QED  BY <1>1, <1>3, StepInit, ApprovalsInvariance, Refinement, PTL
          DEF ApprovalsSpec, ImplementsTickets

(***************************************************************************)
(* The round that a policy promises.  With one request at a time and one   *)
(* policy in force, what stands in the approvals table is a round in       *)
(* progress: the step with the highest number is the current one, the      *)
(* signatures on it are the rows that their approvers approved, and a flow *)
(* is at the place in the round that its pc says.                          *)
(***************************************************************************)
(* Nothing but creations and verdicts, one after the other. *)
OnePolicyInForce ==
  /\ MaxInFlight <= 1 /\ IsFiniteSet(Requests)
  /\ {"cab", "policy", "crash", "update"} \cap Features = {}
  /\ Policies[1] # <<>>

Steps == Policies[1]

RowsAt(t, s) == {i \in DOMAIN approval : approval[i].t = t /\ approval[i].step = s}

(* Step s is the last that t has rows of. *)
AtStep(t, s) ==
  /\ s = 0 \/ RowsAt(t, s) # {}
  /\ \A i \in DOMAIN approval : approval[i].t = t => approval[i].step <= s

SignedAt(t, s) == {a \in Users : \E i \in RowsAt(t, s) :
  approval[i].approver = a /\ approval[i].status = "approved" /\ ~approval[i].auto}

Over(t, s) ==
  \/ s = 0
  \/ Steps[s].mode = "any" /\ SignedAt(t, s) # {}
  \/ Steps[s].mode = "all" /\ Steps[s].approvers \subseteq SignedAt(t, s)

(* Whoever is not left to be asked has a row. *)
Asked(t, s, left) ==
  \A a \in Steps[s].approvers \ left : \E i \in RowsAt(t, s) : approval[i].approver = a

(* No row of the step was refused or closed for somebody. *)
Unspoiled(t, s) == \A i \in RowsAt(t, s) : ~approval[i].auto /\ approval[i].status # "rejected"

(* A step that waits for its approvers. *)
Fair(t, s) == AtStep(t, s) /\ Asked(t, s, {}) /\ Unspoiled(t, s)

InsertsInRound(f) ==
  /\ f.edition = 1 /\ f.step \in 1..Len(Steps)
  /\ \/ AtStep(f.t, f.step - 1) /\ Over(f.t, f.step - 1) /\ f.left = Steps[f.step].approvers
     \/ /\ AtStep(f.t, f.step) /\ Asked(f.t, f.step, f.left) /\ Unspoiled(f.t, f.step)
        /\ f.left \subseteq Steps[f.step].approvers /\ SignedAt(f.t, f.step) = {}

DecidesInRound(f, h) ==
  /\ f.edition = 1 /\ f.step \in 1..Len(Steps) /\ f.mode = Steps[f.step].mode
  /\ AtStep(f.t, f.step) /\ h.seen.status = "pending_approval"
  /\ h.target = IF f.decision = "rejected" THEN "cancelled" ELSE ApprovedStatus(TypeOf[f.t])
  /\ f.pc \in {"decide", "count"} => Fair(f.t, f.step)
  /\ f.pc = "decide" => f.id \in Pending
  /\ f.pc = "count" => f.mode = "all"
  /\ f.pc \in {"count", "close"} => f.decision = "approved"
  /\ f.pc = "refuse" => f.decision = "rejected"
  /\ f.pc = "close" => Over(f.t, f.step)
  /\ f.pc = "apply" => NoneOpen(f.t)
  /\ f.pc = "apply" /\ f.decision = "approved" => Over(f.t, f.step) /\ f.step = Len(Steps)

FlowInRound(r) ==
  LET f == flow[r] IN
  /\ f.pc # "none" => Waits(f.t)
  /\ f.pc = "route" => AtStep(f.t, 0)
  /\ f.pc = "insert" => InsertsInRound(f)
  /\ f.pc \in Deciding => DecidesInRound(f, req[r])

Untouched(t) == \A r \in Requests : flow[r].pc = "none" \/ flow[r].t # t

Opened(t, s) == \E i \in Pending : approval[i].t = t /\ approval[i].step = s

RoundInv ==
  /\ edition = 1 /\ active /\ ~editing
  /\ \A r \in Requests : req[r].op \in {"idle", "verdict"} /\ FlowInRound(r)
  /\ \A i \in DOMAIN approval :
       approval[i].edition = 1 /\ approval[i].approver \in Steps[approval[i].step].approvers
  /\ \A t \in Tickets, s \in 1..Len(Steps) :
       Opened(t, s) => Waits(t) /\ (Untouched(t) => Fair(t, s))

(* The steps of the policy in force. *)
LEMMA StepsFacts ==
  ASSUME NEW s \in 1..Len(Steps)
  PROVE  /\ Len(Steps) \in Nat /\ s \in Nat \ {0} /\ s \in 1..Len(Policies[1])
         /\ Steps[s].approvers \subseteq Users /\ Steps[s].mode \in {"any", "all"}
<1>1. 1 \in 1..Len(Policies) /\ 1 \in 0..Len(Policies) /\ 1 # NoPolicy
  BY EditionsExist DEF NoPolicy
<1>. QED  BY <1>1, PolicyFacts, StepFacts DEF Steps

(* What a spawned flow looks like. *)
LEMMA SpawnedFlow ==
  ASSUME NEW t, NEW e, NEW s, NEW who, NEW g, g = Spawning(t, e, s, who)
  PROVE  \/ g = NoFlow /\ who = {}
         \/ g.pc = "insert" /\ g.t = t /\ g.edition = e /\ g.step = s /\ g.left = who
BY SpawningShape

LEMMA MaxIs ==
  ASSUME NEW S, NEW s \in Nat, s \in S, \A x \in S : x \in Nat /\ x <= s
  PROVE  Max(S) = s
<1>1. \A x \in S : (\A y \in S : x >= y) => x = s
  OBVIOUS
<1>2. (CHOOSE x \in S : \A y \in S : x >= y) = s
  BY <1>1
<1>. QED  BY <1>2 DEF Max

(* The last step that has rows is the current one, before and after a step. *)
LEMMA CurrentStepIs ==
  ASSUME NEW t, NEW s \in Nat, AtStep(t, s), \A i \in DOMAIN approval : approval[i].step \in Nat \ {0}
  PROVE  CurrentStep(t) = s
<1>1. CASE s = 0
  <2>1. \A i \in DOMAIN approval : approval[i].t # t
    BY <1>1 DEF AtStep
  <2>. QED  BY <1>1, <2>1 DEF CurrentStep, StepsOf
<1>2. CASE s # 0
  <2>1. s \in StepsOf(t)
    BY <1>2 DEF AtStep, RowsAt, StepsOf
  <2>2. \A x \in StepsOf(t) : x \in Nat /\ x <= s
    BY DEF AtStep, StepsOf
  <2>. QED  BY <2>1, <2>2, MaxIs DEF CurrentStep
<1>. QED  BY <1>1, <1>2

LEMMA NextStepIs ==
  ASSUME NEW t, NEW s \in Nat \ {0}, AtStep(t, s)',
         \A i \in DOMAIN approval' : approval'[i].step \in Nat \ {0}
  PROVE  CurrentStep(t)' = s
<1>1. s \in StepsOf(t)'
  BY DEF AtStep, RowsAt, StepsOf
<1>2. \A x \in StepsOf(t)' : x \in Nat /\ x <= s
  BY DEF AtStep, StepsOf
<1>. QED  BY <1>1, <1>2, MaxIs DEF CurrentStep

LEMMA SignedByIs ==
  ASSUME NEW t, NEW s, CurrentStep(t) = s
  PROVE  SignedBy(t) = SignedAt(t, s)
BY DEF SignedBy, SignedAt, RowsAt

LEMMA RoundStarts ==
  ASSUME OnePolicyInForce, ApprovalsInit
  PROVE  RoundInv /\ \A t \in Tickets : Round(t)!Init
<1>1. RoundInv
  BY DEF ApprovalsInit, Init, RoundInv, FlowInRound, NoFlow, Idle, Deciding, Pending, Opened
<1>2. ASSUME NEW t \in Tickets PROVE Round(t)!Init
  <2>1. Outcome(t) = "none"
    BY DEF ApprovalsInit, Init, Outcome, Blank
  <2>2. CurrentStep(t) = 0 /\ SignedBy(t) = {}
    BY DEF ApprovalsInit, CurrentStep, StepsOf, SignedBy
  <2>. QED  BY <2>1, <2>2 DEF Round!Init
<1>. QED  BY <1>1, <1>2

(* The rows of t are left alone. *)
RowsKept(t) == \A i :
  /\ i \in DOMAIN approval' /\ approval'[i].t = t <=> i \in DOMAIN approval /\ approval[i].t = t
  /\ i \in DOMAIN approval /\ approval[i].t = t => approval'[i] = approval[i]

LEMMA KeptRows ==
  ASSUME NEW t, RowsKept(t)
  PROVE  /\ \A s : /\ RowsAt(t, s)' = RowsAt(t, s) /\ SignedAt(t, s)' = SignedAt(t, s)
                   /\ AtStep(t, s) => AtStep(t, s)'
                   /\ Over(t, s) => Over(t, s)'
                   /\ Fair(t, s) => Fair(t, s)'
         /\ CurrentStep(t)' = CurrentStep(t) /\ SignedBy(t)' = SignedBy(t)
<1>1. \A s : RowsAt(t, s)' = RowsAt(t, s)
  BY DEF RowsKept, RowsAt
<1>2. \A s : \A i \in RowsAt(t, s) : approval'[i] = approval[i]
  BY DEF RowsKept, RowsAt
<1>3. \A s : SignedAt(t, s)' = SignedAt(t, s)
  BY <1>1, <1>2 DEF SignedAt
<1>4. \A s : AtStep(t, s) => AtStep(t, s)'
  BY <1>1 DEF AtStep, RowsKept
<1>5. \A s : (Over(t, s) => Over(t, s)') /\ (Fair(t, s) => Fair(t, s)')
  BY <1>1, <1>2, <1>3, <1>4 DEF Over, Fair, Asked, Unspoiled
<1>6. StepsOf(t)' = StepsOf(t)
  BY DEF RowsKept, StepsOf
<1>7. CurrentStep(t)' = CurrentStep(t)
  BY <1>6 DEF CurrentStep
<1>8. SignedBy(t)' = SignedBy(t)
  <2>1. SignedBy(t) = SignedAt(t, CurrentStep(t))
    BY SignedByIs
  <2>2. SignedBy(t)' = SignedAt(t, CurrentStep(t))'
    BY DEF SignedBy, SignedAt, RowsAt
  <2>. DEFINE s == CurrentStep(t)
  <2>3. SignedAt(t, CurrentStep(t))' = SignedAt(t, CurrentStep(t))
    BY <1>7, <1>3 DEF SignedAt, RowsAt, RowsKept
  <2>. QED  BY <2>1, <2>2, <2>3
<1>. QED  BY <1>1, <1>3, <1>4, <1>5, <1>7, <1>8

LEMMA OutcomeIs ==
  ASSUME NEW t
  PROVE  /\ ticket[t].status = "absent" => Outcome(t) = "none"
         /\ Waits(t) => Outcome(t) = "pending"
         /\ ticket[t].status = "cancelled" => Outcome(t) = "refused"
         /\ ticket[t].status \notin {"absent", "pending_approval", "cancelled"} => Outcome(t) = "approved"
BY DEF Outcome, Waits

RoundStep(t) == [Round(t)!Next]_(Round(t)!vars)

LEMMA RoundRests ==
  ASSUME NEW t, RowsKept(t), ticket'[t].status = ticket[t].status
  PROVE  RoundStep(t)
BY KeptRows DEF RoundStep, Round!vars, Outcome

(* What the argument needs of a row. *)
LEMMA RowFacts ==
  ASSUME AInv, RoundInv
  PROVE  \A i \in DOMAIN approval :
           /\ approval[i] \in ApprovalRow /\ approval[i].step \in 1..Len(Steps)
           /\ approval[i].step \in Nat \ {0} /\ approval[i].approver \in Users
           /\ approval[i].approver \in Steps[approval[i].step].approvers
<1>1. \A i \in DOMAIN approval : approval[i] \in ApprovalRow
  BY LenProperties, ElementOfSeq DEF AInv, ApprovalsTypeOK
<1>2. \A i \in DOMAIN approval : HasStep(1, approval[i].step)
  BY DEF AInv, ApprovalsTypeOK, RoundInv
<1>3. \A i \in DOMAIN approval : approval[i].step \in 1..Len(Steps)
  BY <1>2 DEF HasStep, NoPolicy, Steps
<1>. QED  BY <1>1, <1>3 DEF ApprovalRow, RoundInv

(* A decision leaves the tickets, steps and approvers of rows alone. *)
LEMMA DecideColumns ==
  ASSUME AInv, NEW ids, NEW decision \in {"approved", "rejected"}, NEW auto,
         Decide(ids, decision, auto)
  PROVE  /\ DOMAIN approval' = DOMAIN approval
         /\ \A i \in DOMAIN approval :
              /\ approval'[i].t = approval[i].t /\ approval'[i].step = approval[i].step
              /\ approval'[i].edition = approval[i].edition
              /\ approval'[i].approver = approval[i].approver
              /\ i \in ids => approval'[i].status = decision /\ approval'[i].auto = auto
              /\ i \notin ids => approval'[i] = approval[i]
<1>1. \A i \in DOMAIN approval : approval[i] \in ApprovalRow
  BY LenProperties, ElementOfSeq DEF AInv, ApprovalsTypeOK
<1>. QED  BY <1>1 DEF Decide, ApprovalRow

LEMMA DecideEffect ==
  ASSUME AInv, NEW ids, NEW decision \in {"approved", "rejected"}, NEW auto,
         Decide(ids, decision, auto)
  PROVE  /\ DOMAIN approval' = DOMAIN approval
         /\ \A i \in DOMAIN approval :
              /\ approval'[i].t = approval[i].t /\ approval'[i].step = approval[i].step
              /\ approval'[i].edition = approval[i].edition
              /\ approval'[i].approver = approval[i].approver
              /\ i \in ids => approval'[i].status = decision /\ approval'[i].auto = auto
              /\ i \notin ids => approval'[i] = approval[i]
         /\ \A t, s : /\ RowsAt(t, s)' = RowsAt(t, s)
                      /\ AtStep(t, s) => AtStep(t, s)'
                      /\ Asked(t, s, {}) => Asked(t, s, {})'
<1>2. /\ DOMAIN approval' = DOMAIN approval
      /\ \A i \in DOMAIN approval :
              /\ approval'[i].t = approval[i].t /\ approval'[i].step = approval[i].step
              /\ approval'[i].edition = approval[i].edition
              /\ approval'[i].approver = approval[i].approver
              /\ i \in ids => approval'[i].status = decision /\ approval'[i].auto = auto
              /\ i \notin ids => approval'[i] = approval[i]
  BY DecideColumns
<1>3. \A t, s : RowsAt(t, s)' = RowsAt(t, s)
  BY <1>2 DEF RowsAt
<1>4. \A t, s : AtStep(t, s) => AtStep(t, s)'
  BY <1>2, <1>3 DEF AtStep
<1>5. \A t, s : Asked(t, s, {}) => Asked(t, s, {})'
  BY <1>2, <1>3 DEF Asked, RowsAt
<1>. QED  BY <1>2, <1>3, <1>4, <1>5

(* A step of the one request served, for ticket t. *)
LEMMA RoundGoesOn ==
  ASSUME RoundInv, NEW r \in Requests, NEW t \in Tickets,
         \A q \in Requests \ {r} : /\ flow[q].pc = "none" /\ flow'[q] = flow[q]
                                   /\ req'[q].op = req[q].op,
         UNCHANGED <<edition, active, editing>>,
         flow[r].pc = "none" \/ flow[r].t = t,
         flow'[r].pc = "none" \/ flow'[r].t = t,
         req'[r].op \in {"idle", "verdict"}, FlowInRound(r)',
         \A u : u # t => RowsKept(u) /\ ticket'[u].status = ticket[u].status,
         \A i \in DOMAIN approval' : approval'[i].t = t =>
           /\ approval'[i].edition = 1
           /\ approval'[i].approver \in Steps[approval'[i].step].approvers,
         \A s \in 1..Len(Steps) : Opened(t, s)' =>
           /\ Waits(t)'
           /\ flow'[r].pc = "none" => Fair(t, s)',
         RoundStep(t)
  PROVE  RoundInv' /\ \A u \in Tickets : RoundStep(u)
<1>1. \A u \in Tickets : RoundStep(u)
  BY RoundRests
<1>2. \A q \in Requests : FlowInRound(q)' /\ req'[q].op \in {"idle", "verdict"}
  BY DEF FlowInRound, Deciding, RoundInv
<1>3. \A i \in DOMAIN approval' : approval'[i].t # t =>
        i \in DOMAIN approval /\ approval'[i] = approval[i]
  <2>. SUFFICES ASSUME NEW i \in DOMAIN approval', NEW u, u = approval'[i].t, u # t
                PROVE  i \in DOMAIN approval /\ approval'[i] = approval[i]
    OBVIOUS
  <2>1. RowsKept(u)
    OBVIOUS
  <2>. QED  BY <2>1 DEF RowsKept
<1>4. \A i \in DOMAIN approval' : approval'[i].edition = 1
        /\ approval'[i].approver \in Steps[approval'[i].step].approvers
  BY <1>3 DEF RoundInv
<1>5. ASSUME NEW u \in Tickets, NEW s \in 1..Len(Steps), Opened(u, s)'
      PROVE  Waits(u)' /\ (Untouched(u)' => Fair(u, s)')
  <2>1. CASE u = t
    BY <1>5, <2>1 DEF Untouched
  <2>2. CASE u # t
    <3>1. Opened(u, s) /\ Untouched(u) /\ RowsKept(u) /\ ticket'[u].status = ticket[u].status
      BY <1>3, <1>5, <2>2 DEF Opened, Pending, Untouched
    <3>2. Waits(u) /\ Fair(u, s)
      BY <3>1 DEF RoundInv
    <3>. QED  BY <3>1, <3>2, KeptRows DEF Waits
  <2>. QED  BY <2>1, <2>2
<1>. QED  BY <1>1, <1>2, <1>4, <1>5 DEF RoundInv

(* The request that a deciding flow, an insert or a routing serves. *)
LEMMA ServedAlone ==
  ASSUME RoundInv, StepInv, AInv, NEW r \in Requests, flow[r].pc # "none"
  PROVE  /\ \A q \in Requests \ {r} : flow[q].pc = "none"
         /\ flow[r].t \in Tickets /\ Waits(flow[r].t) /\ FlowInRound(r)
<1>1. \A q \in Requests : Busy(q) => q = r
  BY TheOneBusy DEF Busy
<1>. QED  BY <1>1 DEF Busy, RoundInv, FlowInRound, StepInv, FlowAtStep

(* Creation opens the round. *)
LEMMA RoundCreates ==
  ASSUME OnePolicyInForce, IInv, AInv, StepInv, RoundInv,
         NEW r \in Requests, NEW t \in Tickets, CreateForApproval(r, t)
  PROVE  RoundInv' /\ \A u \in Tickets : RoundStep(u)
<1>1. /\ \A q \in Requests : ~Busy(q)
      /\ UNCHANGED <<approval, req, edition, active, editing>>
  BY RoomForOne DEF CreateForApproval, Create, OnePolicyInForce
<1>2. /\ ticket[t].status = "absent" /\ Waits(t)'
      /\ \A u : u # t => ticket'[u].status = ticket[u].status
  BY DEF CreateForApproval, Create, Exists, Waits, IInv, TypeOK, Blank
<1>3. /\ flow'[r].pc = "route" /\ flow'[r].t = t
      /\ \A q \in Requests \ {r} : flow'[q] = flow[q]
  BY DEF CreateForApproval, Continue, NoFlow, AInv, ApprovalsTypeOK
<1>4. \A i \in DOMAIN approval : approval[i].t # t
  BY <1>2, RowTickets DEF Exists
<1>5. \A u : RowsKept(u)
  BY <1>1 DEF RowsKept
<1>6. FlowInRound(r)'
  BY <1>1, <1>2, <1>3, <1>4 DEF FlowInRound, AtStep, Deciding
<1>7. RoundStep(t)
  <2>1. Outcome(t) = "none" /\ Outcome(t)' = "pending"
    BY <1>2, OutcomeIs DEF Outcome, Waits
  <2>. QED  BY <1>5, <2>1, KeptRows DEF RoundStep, Round!Next, Round!Open
<1>8. \A s : ~Opened(t, s)'
  BY <1>1, <1>4 DEF Opened, Pending
<1>9. \A q \in Requests : flow[q].pc = "none" /\ req[q].op \in {"idle", "verdict"}
  BY <1>1 DEF Busy, RoundInv
<1>10. \A i \in DOMAIN approval' : approval'[i].t # t
  BY <1>1, <1>4
<1>. QED  BY <1>1, <1>2, <1>3, <1>5, <1>6, <1>7, <1>8, <1>9, <1>10, RoundGoesOn

(* The first step is chosen. *)
LEMMA RoundRoutes ==
  ASSUME OnePolicyInForce, IInv, AInv, StepInv, RoundInv, NEW r \in Requests, Route(r)
  PROVE  RoundInv' /\ \A u \in Tickets : RoundStep(u)
<1>. PICK f \in Flow : f = flow[r]
  BY FlowFacts
<1>. PICK t \in Tickets : t = f.t
  BY ServedAlone DEF Route
<1>1. /\ f.pc = "route" /\ Waits(t) /\ AtStep(t, 0)
      /\ \A q \in Requests \ {r} : flow[q].pc = "none"
  BY ServedAlone DEF Route, FlowInRound
<1>2. UNCHANGED <<ticket, req, approval, edition, active, editing>>
  BY DEF Route, vars
<1>3. Continue(r, Spawning(t, 1, 1, Steps[1].approvers))
  BY DEF Route, PolicyApplies, RoundInv, OnePolicyInForce, Steps
<1>4. Steps \in Seq([approvers : SUBSET Users, mode : {"any", "all"}])
  <2>. DEFINE Step == [approvers : SUBSET Users, mode : {"any", "all"}]
  <2>1. Policies \in Seq(Seq(Step)) /\ 1 \in 1..Len(Policies)
    BY ApprovalsAssumption, EditionsExist
  <2>. HIDE DEF Step
  <2>2. Policies[1] \in Seq(Step)
    BY <2>1, ElementOfSeq
  <2>. QED  BY <2>2 DEF Steps, Step
<1>5. 1 \in 1..Len(Steps)
  BY <1>4, EmptySeq DEF Steps, OnePolicyInForce
<1>6. /\ \/ flow'[r] = NoFlow
         \/ /\ flow'[r].pc = "insert" /\ flow'[r].t = t /\ flow'[r].edition = 1
            /\ flow'[r].step = 1 /\ flow'[r].left = Steps[1].approvers
      /\ \A q \in Requests \ {r} : flow'[q] = flow[q]
  <2>. DEFINE g == Spawning(t, 1, 1, Steps[1].approvers)
  <2>1. \/ g = NoFlow
        \/ /\ g.pc = "insert" /\ g.t = t /\ g.edition = 1
           /\ g.step = 1 /\ g.left = Steps[1].approvers
    BY SpawnedFlow
  <2>2. Continue(r, g)
    BY <1>3
  <2>. HIDE DEF g
  <2>3. flow'[r] = g /\ \A q \in Requests \ {r} : flow'[q] = flow[q]
    BY <2>2 DEF Continue, AInv, ApprovalsTypeOK
  <2>. QED  BY <2>1, <2>3
<1>7. \A i \in DOMAIN approval : approval[i].t # t
  <2>1. \A i \in DOMAIN approval : approval[i].step \in Nat \ {0}
    BY RowFacts
  <2>. QED  BY <1>1, <2>1 DEF AtStep
<1>8. \A u : RowsKept(u)
  BY <1>2 DEF RowsKept
<1>9. FlowInRound(r)'
  <2>1. CASE flow'[r] = NoFlow
    BY <2>1 DEF FlowInRound, NoFlow, Deciding
  <2>2. CASE flow'[r].pc = "insert" /\ flow'[r].t = t /\ flow'[r].edition = 1
             /\ flow'[r].step = 1 /\ flow'[r].left = Steps[1].approvers
    <3>1. AtStep(t, 0)' /\ Over(t, 0)' /\ Waits(t)'
      BY <1>1, <1>2, <1>8, KeptRows DEF Over, Waits
    <3>2. (InsertsInRound(flow[r]))'
      BY <1>5, <2>2, <3>1 DEF InsertsInRound
    <3>. QED  BY <2>2, <3>1, <3>2 DEF FlowInRound, Deciding
  <2>. QED  BY <1>6, <2>1, <2>2
<1>10. \A s : ~Opened(t, s)'
  BY <1>2, <1>7 DEF Opened, Pending
<1>11. RoundStep(t)
  BY <1>2, <1>8, RoundRests
<1>12. \A q \in Requests : req'[q].op = req[q].op /\ req'[q].op \in {"idle", "verdict"}
  BY <1>2 DEF RoundInv
<1>13. flow'[r].pc = "none" \/ flow'[r].t = t
  BY <1>6 DEF NoFlow
<1>14. \A i \in DOMAIN approval' : approval'[i].t # t
  BY <1>2, <1>7
<1>. QED  BY <1>1, <1>2, <1>6, <1>8, <1>9, <1>10, <1>11, <1>12, <1>13, <1>14, RoundGoesOn

(* A row is added: the step opens, or has one more to wait for. *)
LEMMA RoundInserts ==
  ASSUME OnePolicyInForce, IInv, AInv, StepInv, RoundInv, NEW r \in Requests, InsertRow(r)
  PROVE  RoundInv' /\ \A u \in Tickets : RoundStep(u)
<1>. PICK f \in Flow : f = flow[r]
  BY FlowFacts
<1>. PICK t \in Tickets : t = f.t
  BY ServedAlone DEF InsertRow
<1>. PICK s : s = f.step
  OBVIOUS
<1>1. /\ f.pc = "insert" /\ Waits(t) /\ InsertsInRound(f)
      /\ \A q \in Requests \ {r} : flow[q].pc = "none"
  BY ServedAlone DEF InsertRow, FlowInRound
<1>2. s \in 1..Len(Steps) /\ s \in Nat \ {0} /\ f.edition = 1 /\ edition = 1
  BY <1>1, StepsFacts DEF InsertsInRound, RoundInv
<1>3. UNCHANGED <<ticket, req, edition, active, editing>>
  BY DEF InsertRow, vars
<1>4. PICK a \in f.left :
        /\ approval' = Append(approval, [t |-> t, approver |-> a, step |-> s,
                          edition |-> 1, status |-> "pending", auto |-> FALSE])
        /\ Continue(r, Spawning(t, 1, s, f.left \ {a}))
  BY <1>2 DEF InsertRow
<1>. DEFINE row == [t |-> t, approver |-> a, step |-> s,
                    edition |-> 1, status |-> "pending", auto |-> FALSE]
            n == Len(approval)
<1>5. /\ row.t = t /\ row.step = s /\ row.approver = a /\ row.edition = 1
      /\ row.status = "pending" /\ row.auto = FALSE
  OBVIOUS
<1>6. /\ n \in Nat /\ DOMAIN approval = 1..n
      /\ DOMAIN approval' = 1..(n + 1) /\ approval'[n + 1] = row
      /\ \A i \in DOMAIN approval : approval'[i] = approval[i]
  <2>1. approval \in Seq(ApprovalRow) /\ approval' = Append(approval, row)
    BY <1>4 DEF AInv, ApprovalsTypeOK
  <2>. HIDE DEF row
  <2>. QED  BY <2>1, AppendProps
<1>. HIDE DEF row, n
<1>7. /\ RowsAt(t, s)' = RowsAt(t, s) \cup {n + 1}
      /\ \A i \in RowsAt(t, s) : i \in DOMAIN approval /\ i # n + 1 /\ approval'[i] = approval[i]
  BY <1>5, <1>6 DEF RowsAt
<1>8. \A u : u # t => RowsKept(u)
  BY <1>5, <1>6 DEF RowsKept
<1>9. /\ SignedAt(t, s) = {} /\ Unspoiled(t, s) /\ Asked(t, s, f.left)
      /\ f.left \subseteq Steps[s].approvers
      /\ \A i \in DOMAIN approval : approval[i].t = t => approval[i].step <= s
  <2>1. CASE AtStep(t, s - 1) /\ Over(t, s - 1) /\ f.left = Steps[s].approvers
    <3>1. \A i \in DOMAIN approval : approval[i].step \in Nat \ {0}
      BY RowFacts
    <3>2. RowsAt(t, s) = {}
      BY <1>2, <2>1, <3>1 DEF AtStep, RowsAt
    <3>. QED  BY <1>2, <2>1, <3>1, <3>2 DEF AtStep, SignedAt, Unspoiled, Asked
  <2>2. CASE /\ AtStep(t, s) /\ Asked(t, s, f.left) /\ Unspoiled(t, s)
             /\ f.left \subseteq Steps[s].approvers /\ SignedAt(t, s) = {}
    BY <2>2 DEF AtStep
  <2>. QED  BY <1>1, <2>1, <2>2 DEF InsertsInRound
<1>10. /\ SignedAt(t, s)' = {} /\ Unspoiled(t, s)' /\ Asked(t, s, f.left \ {a})'
       /\ AtStep(t, s)'
  <2>1. SignedAt(t, s)' = {}
    BY <1>5, <1>6, <1>7, <1>9 DEF SignedAt
  <2>2. Unspoiled(t, s)'
    BY <1>5, <1>6, <1>7, <1>9 DEF Unspoiled
  <2>3. Asked(t, s, f.left \ {a})'
    <3>1. ASSUME NEW b \in Steps[s].approvers \ (f.left \ {a})
          PROVE  \E i \in RowsAt(t, s)' : approval'[i].approver = b
      <4>1. CASE b = a
        BY <1>5, <1>6, <1>7, <4>1
      <4>2. CASE b # a
        BY <1>7, <1>9, <3>1, <4>2 DEF Asked
      <4>. QED  BY <4>1, <4>2
    <3>. QED  BY <3>1 DEF Asked
  <2>4. AtStep(t, s)'
    BY <1>2, <1>5, <1>6, <1>7, <1>9 DEF AtStep
  <2>. QED  BY <2>1, <2>2, <2>3, <2>4
<1>11. /\ \/ flow'[r] = NoFlow /\ f.left \ {a} = {}
          \/ /\ flow'[r].pc = "insert" /\ flow'[r].t = t /\ flow'[r].edition = 1
             /\ flow'[r].step = s /\ flow'[r].left = f.left \ {a}
       /\ \A q \in Requests \ {r} : flow'[q] = flow[q]
  <2>. DEFINE g == Spawning(t, 1, s, f.left \ {a})
  <2>1. \/ g = NoFlow /\ f.left \ {a} = {}
        \/ /\ g.pc = "insert" /\ g.t = t /\ g.edition = 1
           /\ g.step = s /\ g.left = f.left \ {a}
    BY SpawnedFlow
  <2>2. Continue(r, g)
    BY <1>4
  <2>. HIDE DEF g
  <2>. QED  BY <2>1, <2>2 DEF Continue, AInv, ApprovalsTypeOK
<1>12. FlowInRound(r)'
  <2>1. CASE flow'[r] = NoFlow
    BY <2>1 DEF FlowInRound, NoFlow, Deciding
  <2>2. CASE /\ flow'[r].pc = "insert" /\ flow'[r].t = t /\ flow'[r].edition = 1
             /\ flow'[r].step = s /\ flow'[r].left = f.left \ {a}
    <3>1. (InsertsInRound(flow[r]))'
      <4>. PICK left : left = f.left \ {a}
        OBVIOUS
      <4>1. Asked(t, s, left)' /\ left \subseteq Steps[s].approvers /\ flow'[r].left = left
        BY <1>9, <1>10, <2>2
      <4>. QED  BY <1>2, <1>10, <2>2, <4>1 DEF InsertsInRound
    <3>2. Waits(t)'
      BY <1>1, <1>3 DEF Waits
    <3>. QED  BY <2>2, <3>1, <3>2 DEF FlowInRound, Deciding
  <2>. QED  BY <1>11, <2>1, <2>2
<1>13. ASSUME NEW z \in 1..Len(Steps), Opened(t, z)'
       PROVE  Waits(t)' /\ (flow'[r].pc = "none" => Fair(t, z)')
  <2>1. Waits(t)'
    BY <1>1, <1>3 DEF Waits
  <2>2. ASSUME flow'[r].pc = "none" PROVE Fair(t, s)'
    <3>1. f.left \ {a} = {}
      BY <1>11, <2>2
    <3>2. Asked(t, s, {})'
      BY <1>10, <3>1
    <3>. QED  BY <1>10, <3>2 DEF Fair
  <2>3. z = s
    <3>1. OpenAt(t, s)
      BY <1>1 DEF StepInv, FlowAtStep
    <3>. QED  BY <1>5, <1>6, <1>13, <3>1 DEF Opened, Pending, OpenAt
  <2>. QED  BY <2>1, <2>2, <2>3
<1>14. RoundStep(t)
  <2>0. \A i \in DOMAIN approval : approval[i].step \in Nat \ {0}
    BY RowFacts
  <2>1. \A i \in DOMAIN approval' : approval'[i].step \in Nat \ {0}
    BY <1>2, <1>5, <1>6, <2>0
  <2>2. CurrentStep(t)' = s
    BY <1>2, <1>10, <2>1, NextStepIs
  <2>3. SignedBy(t)' = {}
    <3>1. SignedBy(t)' = SignedAt(t, s)'
      BY <2>2 DEF SignedBy, SignedAt, RowsAt
    <3>. QED  BY <1>10, <3>1
  <2>4. Outcome(t) = "pending" /\ Outcome(t)' = "pending"
    BY <1>1, <1>3, OutcomeIs DEF Outcome
  <2>5. CASE AtStep(t, s - 1) /\ Over(t, s - 1) /\ f.left = Steps[s].approvers
    <3>1. CurrentStep(t) = s - 1
      BY <1>2, <2>0, <2>5, CurrentStepIs
    <3>2. SignedBy(t) = SignedAt(t, s - 1)
      BY <3>1, SignedByIs
    <3>3. Len(Steps) \in Nat
      BY <1>2, StepsFacts
    <3>4. Round(t)!StepOver /\ CurrentStep(t) < Len(Steps) /\ CurrentStep(t) + 1 = s
      BY <1>2, <2>5, <3>1, <3>2, <3>3 DEF Over, Round!StepOver, Steps
    <3>. QED  BY <2>2, <2>3, <2>4, <3>4 DEF RoundStep, Round!Next, Round!Advance, Steps
  <2>6. CASE AtStep(t, s) /\ SignedAt(t, s) = {}
    <3>1. CurrentStep(t) = s /\ SignedBy(t) = {}
      BY <1>2, <2>0, <2>6, CurrentStepIs, SignedByIs
    <3>. QED  BY <2>2, <2>3, <2>4, <3>1 DEF RoundStep, Round!vars
  <2>. QED  BY <1>1, <2>5, <2>6 DEF InsertsInRound
<1>15. \A q \in Requests : req'[q].op = req[q].op /\ req'[q].op \in {"idle", "verdict"}
  BY <1>3 DEF RoundInv
<1>16. flow'[r].pc = "none" \/ flow'[r].t = t
  BY <1>11 DEF NoFlow
<1>17. ASSUME NEW i \in DOMAIN approval'
       PROVE  /\ approval'[i].edition = 1
              /\ approval'[i].approver \in Steps[approval'[i].step].approvers
  <2>1. CASE i = n + 1
    BY <1>5, <1>6, <1>9, <2>1
  <2>2. CASE i \in DOMAIN approval
    BY <1>6, <2>2 DEF RoundInv
  <2>. QED  BY <1>6, <2>1, <2>2
<1>. QED  BY <1>1, <1>3, <1>8, <1>11, <1>12, <1>13, <1>14, <1>15, <1>16, <1>17, RoundGoesOn

(* An approver begins to decide, on a step that waits for its approvers. *)
LEMMA RoundBegins ==
  ASSUME OnePolicyInForce, IInv, AInv, StepInv, RoundInv, NEW r \in Requests,
         NEW i \in DOMAIN approval, NEW decision \in {"approved", "rejected"},
         BeginDecide(r, i, decision)
  PROVE  RoundInv' /\ \A u \in Tickets : RoundStep(u)
<1>. PICK t \in Tickets : t = approval[i].t
  BY RowTickets
<1>. PICK s \in 1..Len(Steps) : s = approval[i].step
  BY RowFacts
<1>1. /\ \A q \in Requests : ~Busy(q)
      /\ approval[i].status = "pending" /\ i \in Pending
      /\ UNCHANGED <<approval, ticket, edition, active, editing>>
  BY RoomForOne DEF BeginDecide, BeginVerdict, Begin, OnePolicyInForce, Pending
<1>2. \A q \in Requests : flow[q].pc = "none" /\ req[q].op \in {"idle", "verdict"}
  BY <1>1 DEF Busy, RoundInv
<1>3. /\ Waits(t) /\ Fair(t, s) /\ approval[i].edition = 1 /\ edition = 1
  <2>1. Opened(t, s) /\ Untouched(t)
    BY <1>1, <1>2 DEF Opened, Untouched
  <2>. QED  BY <2>1 DEF RoundInv
<1>4. /\ req'[r].op = "verdict" /\ req'[r].seen = ticket[t]
      /\ req'[r].target = IF decision = "rejected" THEN "cancelled" ELSE ApprovedStatus(TypeOf[t])
      /\ \A q \in Requests \ {r} : req'[q] = req[q]
  BY DEF BeginDecide, BeginVerdict, Begin, IInv, TypeOK
<1>5. /\ flow'[r].pc = "decide" /\ flow'[r].id = i /\ flow'[r].t = t
      /\ flow'[r].decision = decision /\ flow'[r].edition = 1 /\ flow'[r].step = s
      /\ flow'[r].mode = Steps[s].mode
      /\ \A q \in Requests \ {r} : flow'[q] = flow[q]
  BY <1>3 DEF BeginDecide, Continue, ModeOf, NoPolicy, Steps, AInv, ApprovalsTypeOK
<1>6. \A u : RowsKept(u) /\ ticket'[u].status = ticket[u].status
  BY <1>1 DEF RowsKept
<1>7. Waits(t)' /\ Fair(t, s)' /\ i \in Pending'
  BY <1>1, <1>3, <1>6, KeptRows DEF Waits, Pending
<1>8. FlowInRound(r)'
  <2>1. (DecidesInRound(flow[r], req[r]))'
    BY <1>3, <1>4, <1>5, <1>7 DEF DecidesInRound, Fair, Waits
  <2>. QED  BY <1>5, <1>7, <2>1 DEF FlowInRound, Deciding
<1>9. \A j \in DOMAIN approval' : /\ approval'[j].edition = 1
                                  /\ approval'[j].approver \in Steps[approval'[j].step].approvers
  BY <1>1 DEF RoundInv
<1>10. RoundStep(t)
  BY <1>6, RoundRests
<1>. QED  BY <1>1, <1>2, <1>4, <1>5, <1>6, <1>7, <1>8, <1>9, <1>10, RoundGoesOn

(* What a flow that decides has to go on with. *)
LEMMA DecidingInRound ==
  ASSUME OnePolicyInForce, IInv, AInv, StepInv, RoundInv, NEW r \in Requests,
         flow[r].pc \in Deciding
  PROVE  /\ flow[r] \in Flow /\ flow[r].t \in Tickets /\ Waits(flow[r].t)
         /\ DecidesInRound(flow[r], req[r])
         /\ \A q \in Requests \ {r} : flow[q].pc = "none"
         /\ flow[r].id \in RowsAt(flow[r].t, flow[r].step)
         /\ approval[flow[r].id].approver \in Steps[flow[r].step].approvers
         /\ OpenAt(flow[r].t, flow[r].step)
         /\ flow[r].step \in Nat \ {0}
         /\ CurrentStep(flow[r].t) = flow[r].step
         /\ SignedBy(flow[r].t) = SignedAt(flow[r].t, flow[r].step)
<1>1. flow[r].pc # "none" /\ flow[r] \in Flow
  BY FlowFacts DEF Deciding
<1>2. DecidesInRound(flow[r], req[r]) /\ OpenAt(flow[r].t, flow[r].step)
  BY <1>1 DEF RoundInv, FlowInRound, StepInv, FlowAtStep
<1>3. flow[r].step \in 1..Len(Steps) /\ flow[r].step \in Nat \ {0} /\ AtStep(flow[r].t, flow[r].step)
  BY <1>2, StepsFacts DEF DecidesInRound
<1>4. /\ flow[r].id \in RowsAt(flow[r].t, flow[r].step)
      /\ approval[flow[r].id].approver \in Steps[flow[r].step].approvers
  BY <1>1, DecidingFacts, RowFacts DEF RowsAt
<1>5. CurrentStep(flow[r].t) = flow[r].step
  <2>1. \A i \in DOMAIN approval : approval[i].step \in Nat \ {0}
    BY RowFacts
  <2>. QED  BY <1>3, <2>1, CurrentStepIs
<1>. QED  BY <1>1, <1>2, <1>3, <1>4, <1>5, ServedAlone, SignedByIs

(* A deciding request goes on with rows decided and its ticket still
   waiting; it ends, opens a step, or has the next thing to do. *)
LEMMA RoundDecides ==
  ASSUME OnePolicyInForce, IInv, AInv, StepInv, RoundInv, NEW r \in Requests,
         flow[r].pc \in Deciding, NEW t \in Tickets, t = flow[r].t,
         UNCHANGED <<ticket, edition, active, editing>>,
         \A q \in Requests \ {r} : flow'[q] = flow[q] /\ req'[q] = req[q],
         req'[r].op \in {"idle", "verdict"},
         NEW ids, NEW decision \in {"approved", "rejected"}, NEW auto,
         Decide(ids, decision, auto),
         \A i \in ids : i \in DOMAIN approval => approval[i].t = t,
         flow'[r].pc = "none" \/ flow'[r].t = t,
         FlowInRound(r)',
         \A s \in 1..Len(Steps) : Opened(t, s)' /\ flow'[r].pc = "none" => Fair(t, s)',
         RoundStep(t)
  PROVE  RoundInv' /\ \A u \in Tickets : RoundStep(u)
<1>1. /\ DOMAIN approval' = DOMAIN approval
      /\ \A i \in DOMAIN approval :
              /\ approval'[i].t = approval[i].t /\ approval'[i].step = approval[i].step
              /\ approval'[i].edition = approval[i].edition
              /\ approval'[i].approver = approval[i].approver
              /\ i \notin ids => approval'[i] = approval[i]
  BY DecideColumns
<1>2. \A u : u # t => RowsKept(u) /\ ticket'[u].status = ticket[u].status
  BY <1>1 DEF RowsKept
<1>3. Waits(t)' /\ \A q \in Requests \ {r} : flow[q].pc = "none"
  BY DecidingInRound DEF Waits
<1>4. \A i \in DOMAIN approval' : /\ approval'[i].edition = 1
                                  /\ approval'[i].approver \in Steps[approval'[i].step].approvers
  BY <1>1 DEF RoundInv
<1>. QED  BY <1>2, <1>3, <1>4, RoundGoesOn

(* An approver's decision is written: a signature, or a refusal to be. *)
LEMMA RoundSigns ==
  ASSUME OnePolicyInForce, IInv, AInv, StepInv, RoundInv, NEW r \in Requests, WriteDecision(r)
  PROVE  RoundInv' /\ \A u \in Tickets : RoundStep(u)
<1>0. flow[r].pc \in Deciding
  BY DEF WriteDecision, Deciding
<1>. PICK f \in Flow : f = flow[r]
  BY <1>0, DecidingInRound
<1>. PICK t \in Tickets : t = f.t
  BY <1>0, DecidingInRound
<1>. PICK s : s = f.step
  OBVIOUS
<1>. PICK h : h = req[r]
  OBVIOUS
<1>. PICK a : a = approval[f.id].approver
  OBVIOUS
<1>1. /\ f.pc = "decide" /\ f.pc \in Deciding /\ DecidesInRound(f, h) /\ f.id \in RowsAt(t, s)
      /\ Waits(t) /\ a \in Steps[s].approvers /\ s \in 1..Len(Steps) /\ s \in Nat \ {0}
      /\ f.decision \in {"approved", "rejected"}
      /\ CurrentStep(t) = s /\ SignedBy(t) = SignedAt(t, s)
      /\ \A q \in Requests \ {r} : flow[q].pc = "none"
  BY <1>0, DecidingInRound, DecidingFacts DEF WriteDecision, DecidesInRound
<1>. PICK d \in {"approved", "rejected"} : d = f.decision
  BY <1>1
<1>. PICK ids, auto : ids = {f.id} /\ auto = FALSE
  OBVIOUS
<1>2. UNCHANGED <<ticket, req, edition, active, editing>> /\ Decide(ids, d, auto)
  BY DEF WriteDecision, vars
<1>2a. /\ DOMAIN approval' = DOMAIN approval
       /\ \A i \in DOMAIN approval :
              /\ approval'[i].t = approval[i].t /\ approval'[i].step = approval[i].step
              /\ approval'[i].edition = approval[i].edition
              /\ approval'[i].approver = approval[i].approver
              /\ i \in ids => approval'[i].status = d /\ approval'[i].auto = auto
              /\ i \notin ids => approval'[i] = approval[i]
       /\ \A u, z : /\ RowsAt(u, z)' = RowsAt(u, z)
                    /\ AtStep(u, z) => AtStep(u, z)'
                    /\ Asked(u, z, {}) => Asked(u, z, {})'
  BY <1>2, DecideEffect
<1>3. /\ DOMAIN approval' = DOMAIN approval
      /\ \A i \in DOMAIN approval :
              /\ approval'[i].t = approval[i].t /\ approval'[i].step = approval[i].step
              /\ approval'[i].approver = approval[i].approver
              /\ i = f.id => approval'[i].status = f.decision /\ ~approval'[i].auto
              /\ i # f.id => approval'[i] = approval[i]
  BY <1>2a
<1>4. RowsAt(t, s)' = RowsAt(t, s) /\ AtStep(t, s)' /\ Asked(t, s, {})'
  <2>1. AtStep(t, s) /\ Asked(t, s, {})
    BY <1>1 DEF DecidesInRound, Fair
  <2>. QED  BY <1>2a, <2>1
<1>5. Unspoiled(t, s) /\ f.id \in Pending /\ a \in Users
  BY <1>1, RowFacts DEF DecidesInRound, Fair, RowsAt
<1>6. /\ f.decision = "approved" => SignedAt(t, s)' = SignedAt(t, s) \cup {a} /\ Unspoiled(t, s)'
      /\ f.decision = "rejected" => SignedAt(t, s)' = SignedAt(t, s)
  <2>1. \A i \in RowsAt(t, s) : i \in DOMAIN approval
    BY DEF RowsAt
  <2>2. CASE f.decision = "approved"
    <3>1. SignedAt(t, s)' = SignedAt(t, s) \cup {a}
      BY <1>1, <1>3, <1>4, <1>5, <2>1, <2>2 DEF SignedAt
    <3>2. Unspoiled(t, s)'
      BY <1>3, <1>4, <1>5, <2>1, <2>2 DEF Unspoiled
    <3>. QED  BY <2>2, <3>1, <3>2
  <2>3. CASE f.decision = "rejected"
    <3>1. SignedAt(t, s)' = SignedAt(t, s)
      BY <1>3, <1>4, <1>5, <2>1, <2>3 DEF SignedAt, Pending
    <3>. QED  BY <2>3, <3>1
  <2>. QED  BY <1>1, <2>2, <2>3
<1>. DEFINE pc == IF f.decision = "rejected" THEN "refuse"
                  ELSE IF f.mode = "all" THEN "count" ELSE "close"
            g == [f EXCEPT !.pc = pc]
<1>7. /\ g.pc = pc /\ g.t = t /\ g.step = s /\ g.edition = f.edition /\ g.mode = f.mode
      /\ g.decision = f.decision /\ g.id = f.id
  BY DEF Flow
<1>8. Continue(r, g)
  BY DEF WriteDecision
<1>. HIDE DEF g
<1>9. flow'[r] = g /\ \A q \in Requests \ {r} : flow'[q] = flow[q]
  BY <1>8 DEF Continue, AInv, ApprovalsTypeOK
<1>10. f.mode = Steps[s].mode /\ f.mode \in {"any", "all"}
  BY <1>1, StepsFacts DEF DecidesInRound
<1>11. FlowInRound(r)'
  <2>1. pc \in {"refuse", "count", "close"}
    OBVIOUS
  <2>2. pc = "count" => Fair(t, s)' /\ f.mode = "all"
    BY <1>1, <1>4, <1>6 DEF Fair
  <2>3. pc = "close" => Over(t, s)'
    BY <1>1, <1>6, <1>10 DEF Over
  <2>4. /\ pc \in {"count", "close"} => f.decision = "approved"
        /\ pc = "refuse" => f.decision = "rejected"
    BY <1>1
  <2>. HIDE DEF pc
  <2>5. (DecidesInRound(flow[r], req[r]))'
    BY <1>1, <1>2, <1>4, <1>7, <1>9, <1>10, <2>1, <2>2, <2>3, <2>4 DEF DecidesInRound
  <2>6. Waits(t)'
    BY <1>1, <1>2 DEF Waits
  <2>. QED  BY <1>7, <1>9, <2>1, <2>5, <2>6 DEF FlowInRound, Deciding
<1>12. RoundStep(t)
  <2>1. \A i \in DOMAIN approval' : approval'[i].step \in Nat \ {0}
    BY <1>3, RowFacts
  <2>2. CurrentStep(t)' = s
    BY <1>1, <1>4, <2>1, NextStepIs
  <2>3. SignedBy(t)' = SignedAt(t, s)'
    BY <2>2 DEF SignedBy, SignedAt, RowsAt
  <2>4. Outcome(t) = "pending" /\ Outcome(t)' = "pending"
    BY <1>1, <1>2, OutcomeIs DEF Outcome
  <2>5. CASE f.decision = "approved"
    <3>1. {a} \in SUBSET Steps[s].approvers /\ {a} # {} /\ SignedBy(t)' = SignedBy(t) \cup {a}
      BY <1>1, <1>6, <2>3, <2>5
    <3>2. \E who \in SUBSET Steps[s].approvers : who # {} /\ SignedBy(t)' = SignedBy(t) \cup who
      BY <3>1
    <3>3. Outcome(t) = "pending" /\ CurrentStep(t) > 0
      BY <1>1, <2>4
    <3>4. UNCHANGED <<Outcome(t), CurrentStep(t)>>
      BY <1>1, <2>2, <2>4
    <3>5. Round(t)!Sign
      BY <1>1, <3>2, <3>3, <3>4 DEF Round!Sign, Steps
    <3>. QED  BY <3>5 DEF RoundStep, Round!Next
  <2>6. CASE f.decision = "rejected"
    BY <1>1, <1>6, <2>2, <2>3, <2>4, <2>6 DEF RoundStep, Round!vars
  <2>. QED  BY <1>1, <2>5, <2>6
<1>13. flow'[r].pc # "none" /\ flow'[r].t = t
  BY <1>7, <1>9
<1>14. req'[r].op \in {"idle", "verdict"} /\ \A q \in Requests \ {r} : req'[q] = req[q]
  BY <1>2 DEF RoundInv
<1>15. \A i \in ids : i \in DOMAIN approval => approval[i].t = t
  BY <1>1 DEF RowsAt
<1>. QED  BY <1>0, <1>1, <1>2, <1>9, <1>11, <1>12, <1>13, <1>14, <1>15, RoundDecides

(* What is closed for an approver is not signed by anybody. *)
LEMMA ClosingKeeps ==
  ASSUME NEW ids, ids \subseteq Pending,
         DOMAIN approval' = DOMAIN approval,
         \A i \in DOMAIN approval :
           /\ approval'[i].approver = approval[i].approver
           /\ i \in ids => approval'[i].status # "pending" /\ approval'[i].auto
           /\ i \notin ids => approval'[i] = approval[i],
         \A t, s : RowsAt(t, s)' = RowsAt(t, s)
  PROVE  /\ \A t, s : SignedAt(t, s)' = SignedAt(t, s) /\ (Over(t, s) => Over(t, s)')
         /\ Pending' = Pending \ ids
<1>1. \A t, s : SignedAt(t, s)' = SignedAt(t, s)
  <2>. SUFFICES ASSUME NEW t, NEW s PROVE SignedAt(t, s)' = SignedAt(t, s)
    OBVIOUS
  <2>1. RowsAt(t, s)' = RowsAt(t, s) /\ \A i \in RowsAt(t, s) : i \in DOMAIN approval
    BY DEF RowsAt
  <2>2. \A i \in ids : approval[i].status = "pending"
    BY DEF Pending
  <2>. QED  BY <2>1, <2>2 DEF SignedAt
<1>2. \A t, s : Over(t, s) => Over(t, s)'
  BY <1>1 DEF Over
<1>3. Pending' = Pending \ ids
  BY DEF Pending
<1>. QED  BY <1>1, <1>2, <1>3

(* In mode "all" the handler looks for rows that are still open. *)
LEMMA RoundCounts ==
  ASSUME OnePolicyInForce, IInv, AInv, StepInv, RoundInv, NEW r \in Requests, CountPending(r)
  PROVE  RoundInv' /\ \A u \in Tickets : RoundStep(u)
<1>0. flow[r].pc \in Deciding
  BY DEF CountPending, Deciding
<1>. PICK f \in Flow : f = flow[r]
  BY <1>0, DecidingInRound
<1>. PICK t \in Tickets : t = f.t
  BY <1>0, DecidingInRound
<1>. PICK s : s = f.step
  OBVIOUS
<1>. PICK h : h = req[r]
  OBVIOUS
<1>1. /\ f.pc = "count" /\ DecidesInRound(f, h) /\ f.id \in RowsAt(t, s)
      /\ Waits(t) /\ s \in 1..Len(Steps) /\ OpenAt(t, s) /\ Fair(t, s)
      /\ approval[f.id].status # "pending"
      /\ \A q \in Requests \ {r} : flow[q].pc = "none"
  BY <1>0, DecidingInRound, DecidingFacts DEF CountPending, DecidesInRound
<1>2. UNCHANGED <<ticket, approval, edition, active, editing>>
  BY DEF CountPending, Abandon, vars
<1>3. \A u : RowsKept(u) /\ ticket'[u].status = ticket[u].status
  BY <1>2 DEF RowsKept
<1>4. AtStep(t, s)' /\ Fair(t, s)' /\ Waits(t)'
  BY <1>1, <1>2, <1>3, KeptRows DEF Fair, Waits
<1>5. \A z : Opened(t, z)' => z = s
  BY <1>1, <1>2 DEF Opened, Pending, OpenAt
<1>6. \A i \in DOMAIN approval' : /\ approval'[i].edition = 1
                                  /\ approval'[i].approver \in Steps[approval'[i].step].approvers
  BY <1>2 DEF RoundInv
<1>7. RoundStep(t)
  BY <1>3, RoundRests
<1>8. CASE Peers(f) # {} /\ Abandon(r) /\ Return(r)
  <2>1. flow'[r] = NoFlow /\ \A q \in Requests \ {r} : flow'[q] = flow[q]
    BY <1>8 DEF Return, Continue, AInv, ApprovalsTypeOK
  <2>2. req'[r].op = "idle" /\ \A q \in Requests \ {r} : req'[q].op = req[q].op
    BY <1>8 DEF Abandon, Finish, Idle, IInv, TypeOK
  <2>3. FlowInRound(r)' /\ flow'[r].pc = "none"
    BY <2>1 DEF FlowInRound, NoFlow, Deciding
  <2>. QED  BY <1>1, <1>2, <1>3, <1>4, <1>5, <1>6, <1>7, <2>1, <2>2, <2>3, RoundGoesOn
<1>9. CASE Peers(f) = {} /\ Continue(r, [f EXCEPT !.pc = "close"]) /\ UNCHANGED vars
  <2>. DEFINE g == [f EXCEPT !.pc = "close"]
  <2>1. /\ g.pc = "close" /\ g.t = t /\ g.step = s /\ g.edition = f.edition
        /\ g.mode = f.mode /\ g.decision = f.decision /\ g.id = f.id
    BY DEF Flow
  <2>2. Continue(r, g) /\ UNCHANGED req
    BY <1>9 DEF vars
  <2>. HIDE DEF g
  <2>3. flow'[r] = g /\ \A q \in Requests \ {r} : flow'[q] = flow[q]
    BY <2>2 DEF Continue, AInv, ApprovalsTypeOK
  <2>4. Over(t, s)
    <3>1. \A i \in RowsAt(t, s) : i \in DOMAIN approval /\ approval[i].t = t
            /\ approval[i].step = s /\ approval[i].status # "pending"
      BY <1>1, <1>9 DEF Peers, Pending, RowsAt
    <3>2. \A i \in RowsAt(t, s) : ~approval[i].auto /\ approval[i].status = "approved"
      BY <1>1, <3>1, RowFacts DEF Fair, Unspoiled, ApprovalRow
    <3>3. Steps[s].approvers \subseteq SignedAt(t, s)
      BY <1>1, <3>2, StepsFacts DEF Fair, Asked, SignedAt
    <3>4. Steps[s].mode = "all"
      BY <1>1 DEF DecidesInRound
    <3>. QED  BY <3>3, <3>4 DEF Over
  <2>5. Over(t, s)'
    BY <1>3, <2>4, KeptRows
  <2>6. (DecidesInRound(flow[r], req[r]))'
    BY <1>1, <1>4, <2>1, <2>2, <2>3, <2>5 DEF DecidesInRound
  <2>7. FlowInRound(r)' /\ flow'[r].pc # "none" /\ flow'[r].t = t
    BY <1>4, <2>1, <2>3, <2>6 DEF FlowInRound, Deciding
  <2>8. req'[r].op \in {"idle", "verdict"} /\ \A q \in Requests \ {r} : req'[q].op = req[q].op
    BY <2>2 DEF RoundInv
  <2>. QED  BY <1>1, <1>2, <1>3, <1>4, <1>6, <1>7, <2>3, <2>7, <2>8, RoundGoesOn
<1>. QED  BY <1>8, <1>9 DEF CountPending

(* What such closings mean for the round of the ticket: nothing. *)
LEMMA RoundUnmoved ==
  ASSUME NEW t, NEW s \in Nat \ {0}, Waits(t), UNCHANGED ticket,
         CurrentStep(t) = s, SignedBy(t) = SignedAt(t, s),
         AtStep(t, s)', SignedAt(t, s)' = SignedAt(t, s),
         \A i \in DOMAIN approval' : approval'[i].step \in Nat \ {0}
  PROVE  RoundStep(t)
<1>1. CurrentStep(t)' = s
  BY NextStepIs
<1>2. SignedBy(t)' = SignedAt(t, s)'
  BY <1>1 DEF SignedBy, SignedAt, RowsAt
<1>3. Outcome(t)' = Outcome(t)
  BY DEF Outcome
<1>. QED  BY <1>1, <1>2, <1>3 DEF RoundStep, Round!vars

(* A complete step is closed: the next one is opened, or the ticket is to be
   released. *)
LEMMA RoundCloses ==
  ASSUME OnePolicyInForce, IInv, AInv, StepInv, RoundInv, NEW r \in Requests, ClosePeers(r)
  PROVE  RoundInv' /\ \A u \in Tickets : RoundStep(u)
<1>0. flow[r].pc \in Deciding
  BY DEF ClosePeers, Deciding
<1>. PICK f \in Flow : f = flow[r]
  BY <1>0, DecidingInRound
<1>. PICK t \in Tickets : t = f.t
  BY <1>0, DecidingInRound
<1>. PICK s : s = f.step
  OBVIOUS
<1>. PICK h : h = req[r]
  OBVIOUS
<1>a. PICK ids, auto : ids = Peers(f) /\ auto = TRUE
  OBVIOUS
<1>. PICK d \in {"approved", "rejected"} : d = "approved"
  OBVIOUS
<1>1. /\ f.pc = "close" /\ DecidesInRound(f, h) /\ f.id \in RowsAt(t, s)
      /\ Waits(t) /\ s \in 1..Len(Steps) /\ s \in Nat \ {0} /\ OpenAt(t, s)
      /\ approval[f.id].status # "pending"
      /\ CurrentStep(t) = s /\ SignedBy(t) = SignedAt(t, s)
      /\ \A q \in Requests \ {r} : flow[q].pc = "none"
  BY <1>0, DecidingInRound, DecidingFacts DEF ClosePeers, DecidesInRound
<1>2. UNCHANGED <<ticket, edition, active, editing>> /\ Decide(ids, d, auto)
  BY <1>a DEF ClosePeers, Abandon, vars
<1>3. ids \subseteq Pending /\ \A i \in ids : approval[i].t = t
  BY <1>a DEF Peers
<1>4. /\ \A u, z : AtStep(u, z) => AtStep(u, z)'
      /\ SignedAt(t, s)' = SignedAt(t, s)
      /\ Over(t, s) => Over(t, s)'
      /\ Pending' = Pending \ ids
  <2>1. /\ DOMAIN approval' = DOMAIN approval
        /\ \A i \in DOMAIN approval :
             /\ approval'[i].approver = approval[i].approver
             /\ i \in ids => approval'[i].status = d /\ approval'[i].auto = auto
             /\ i \notin ids => approval'[i] = approval[i]
        /\ \A u, z : RowsAt(u, z)' = RowsAt(u, z) /\ (AtStep(u, z) => AtStep(u, z)')
    BY <1>2, DecideEffect
  <2>2. \A i \in DOMAIN approval : i \in ids => approval'[i].status # "pending" /\ approval'[i].auto
    BY <1>a, <2>1
  <2>3. /\ \A u, z : SignedAt(u, z)' = SignedAt(u, z) /\ (Over(u, z) => Over(u, z)')
        /\ Pending' = Pending \ ids
    BY <1>3, <2>1, <2>2, ClosingKeeps
  <2>. QED  BY <2>1, <2>3
<1>5. AtStep(t, s)' /\ Over(t, s)' /\ Waits(t)'
  BY <1>1, <1>2, <1>4 DEF DecidesInRound, Waits
<1>5a. /\ DOMAIN approval' = DOMAIN approval
       /\ \A i \in DOMAIN approval :
            /\ approval'[i].t = approval[i].t /\ approval'[i].step = approval[i].step
  BY <1>2, DecideColumns
<1>6. NoneOpen(t)'
  <2>1. ASSUME NEW i \in Pending', approval'[i].t = t PROVE FALSE
    <3>1. i \in Pending /\ i \notin ids /\ approval[i].t = t
      BY <1>4, <1>5a, <2>1 DEF Pending
    <3>2. approval[i].step = s /\ i # f.id
      BY <1>1, <3>1 DEF OpenAt, Pending
    <3>. QED  BY <1>a, <3>1, <3>2 DEF Peers
  <2>. QED  BY <2>1 DEF NoneOpen
<1>7. \A z : ~Opened(t, z)'
  BY <1>6 DEF NoneOpen, Opened
<1>8. RoundStep(t)
  <2>1. \A i \in DOMAIN approval' : approval'[i].step \in Nat \ {0}
    BY <1>5a, RowFacts
  <2>. QED  BY <1>1, <1>2, <1>4, <1>5, <2>1, RoundUnmoved
<1>9. \A i \in ids : i \in DOMAIN approval => approval[i].t = t
  BY <1>3
<1>10. Len(Steps) \in Nat /\ (HasNextStep(f) <=> s < Len(Steps))
  <2>1. Len(Steps) \in Nat
    BY <1>1, StepsFacts
  <2>2. f.edition = 1
    BY <1>1 DEF DecidesInRound
  <2>. QED  BY <2>1, <2>2 DEF HasNextStep, NoPolicy, Steps
<1>11. CASE /\ s < Len(Steps) /\ Abandon(r)
            /\ Continue(r, Spawning(f.t, f.edition, f.step + 1,
                                    Policies[f.edition][f.step + 1].approvers))
  <2>. PICK z : z = s + 1
    OBVIOUS
  <2>. DEFINE g == Spawning(t, 1, z, Steps[z].approvers)
  <2>1. z \in 1..Len(Steps) /\ z - 1 = s
    BY <1>1, <1>10, <1>11
  <2>2. Continue(r, g)
    BY <1>1, <1>11 DEF DecidesInRound, Steps
  <2>3. \/ g = NoFlow
        \/ /\ g.pc = "insert" /\ g.t = t /\ g.edition = 1
           /\ g.step = z /\ g.left = Steps[z].approvers
    BY SpawnedFlow
  <2>. HIDE DEF g
  <2>4. flow'[r] = g /\ \A q \in Requests \ {r} : flow'[q] = flow[q]
    BY <2>2 DEF Continue, AInv, ApprovalsTypeOK
  <2>5. req'[r].op = "idle" /\ \A q \in Requests \ {r} : req'[q] = req[q]
    BY <1>11 DEF Abandon, Finish, Idle, IInv, TypeOK
  <2>6. FlowInRound(r)' /\ (flow'[r].pc = "none" \/ flow'[r].t = t)
    <3>1. CASE g = NoFlow
      BY <2>4, <3>1 DEF FlowInRound, NoFlow, Deciding
    <3>2. CASE /\ g.pc = "insert" /\ g.t = t /\ g.edition = 1
               /\ g.step = z /\ g.left = Steps[z].approvers
      <4>1. AtStep(t, z - 1)' /\ Over(t, z - 1)'
        BY <1>5, <2>1
      <4>2. (InsertsInRound(flow[r]))'
        BY <2>1, <2>4, <3>2, <4>1 DEF InsertsInRound
      <4>. QED  BY <1>5, <2>4, <3>2, <4>2 DEF FlowInRound, Deciding
    <3>. QED  BY <2>3, <3>1, <3>2
  <2>. QED  BY <1>0, <1>2, <1>7, <1>8, <1>9, <2>4, <2>5, <2>6, RoundDecides
<1>12. CASE s >= Len(Steps) /\ UNCHANGED vars /\ Continue(r, [f EXCEPT !.pc = "apply"])
  <2>. DEFINE g == [f EXCEPT !.pc = "apply"]
  <2>1. /\ g.pc = "apply" /\ g.t = t /\ g.step = s /\ g.edition = f.edition
        /\ g.mode = f.mode /\ g.decision = f.decision /\ g.id = f.id
    BY DEF Flow
  <2>2. Continue(r, g) /\ UNCHANGED req /\ s = Len(Steps)
    BY <1>1, <1>10, <1>12 DEF vars
  <2>. HIDE DEF g
  <2>3. flow'[r] = g /\ \A q \in Requests \ {r} : flow'[q] = flow[q]
    BY <2>2 DEF Continue, AInv, ApprovalsTypeOK
  <2>4. (DecidesInRound(flow[r], req[r]))'
    BY <1>1, <1>5, <1>6, <2>1, <2>2, <2>3 DEF DecidesInRound
  <2>5. FlowInRound(r)' /\ flow'[r].pc # "none" /\ flow'[r].t = t
    BY <1>5, <2>1, <2>3, <2>4 DEF FlowInRound, Deciding
  <2>6. req'[r].op \in {"idle", "verdict"} /\ \A q \in Requests \ {r} : req'[q] = req[q]
    BY <2>2 DEF RoundInv
  <2>. QED  BY <1>0, <1>2, <1>7, <1>8, <1>9, <2>3, <2>5, <2>6, RoundDecides
<1>. QED  BY <1>1, <1>10, <1>11, <1>12 DEF ClosePeers

(* A refusal closes what is open of the ticket. *)
LEMMA RoundRefuses ==
  ASSUME OnePolicyInForce, IInv, AInv, StepInv, RoundInv, NEW r \in Requests, CloseRound(r)
  PROVE  RoundInv' /\ \A u \in Tickets : RoundStep(u)
<1>0. flow[r].pc \in Deciding
  BY DEF CloseRound, Deciding
<1>. PICK f \in Flow : f = flow[r]
  BY <1>0, DecidingInRound
<1>. PICK t \in Tickets : t = f.t
  BY <1>0, DecidingInRound
<1>. PICK s : s = f.step
  OBVIOUS
<1>. PICK h : h = req[r]
  OBVIOUS
<1>a. PICK ids, auto : ids = {i \in Pending : approval[i].t = t} /\ auto = TRUE
  OBVIOUS
<1>. PICK d \in {"approved", "rejected"} : d = "rejected"
  OBVIOUS
<1>1. /\ f.pc = "refuse" /\ DecidesInRound(f, h)
      /\ Waits(t) /\ s \in 1..Len(Steps) /\ s \in Nat \ {0}
      /\ CurrentStep(t) = s /\ SignedBy(t) = SignedAt(t, s)
      /\ \A q \in Requests \ {r} : flow[q].pc = "none"
  BY <1>0, DecidingInRound DEF CloseRound, DecidesInRound
<1>2. UNCHANGED <<ticket, req, edition, active, editing>> /\ Decide(ids, d, auto)
  BY <1>a DEF CloseRound, vars
<1>3. ids \subseteq Pending /\ \A i \in ids : approval[i].t = t
  BY <1>a
<1>4. /\ \A u, z : AtStep(u, z) => AtStep(u, z)'
      /\ SignedAt(t, s)' = SignedAt(t, s)
      /\ Pending' = Pending \ ids
  <2>1. /\ DOMAIN approval' = DOMAIN approval
        /\ \A i \in DOMAIN approval :
             /\ approval'[i].approver = approval[i].approver
             /\ i \in ids => approval'[i].status = d /\ approval'[i].auto = auto
             /\ i \notin ids => approval'[i] = approval[i]
        /\ \A u, z : RowsAt(u, z)' = RowsAt(u, z) /\ (AtStep(u, z) => AtStep(u, z)')
    BY <1>2, DecideEffect
  <2>2. \A i \in DOMAIN approval : i \in ids => approval'[i].status # "pending" /\ approval'[i].auto
    BY <1>a, <2>1
  <2>3. /\ \A u, z : SignedAt(u, z)' = SignedAt(u, z) /\ (Over(u, z) => Over(u, z)')
        /\ Pending' = Pending \ ids
    BY <1>3, <2>1, <2>2, ClosingKeeps
  <2>. QED  BY <2>1, <2>3
<1>5. AtStep(t, s)' /\ Waits(t)'
  BY <1>1, <1>2, <1>4 DEF DecidesInRound, Waits
<1>5a. /\ DOMAIN approval' = DOMAIN approval
       /\ \A i \in DOMAIN approval :
            /\ approval'[i].t = approval[i].t /\ approval'[i].step = approval[i].step
  BY <1>2, DecideColumns
<1>6. NoneOpen(t)'
  BY <1>a, <1>4, <1>5a DEF NoneOpen, Pending
<1>7. \A z : ~Opened(t, z)'
  BY <1>6 DEF NoneOpen, Opened
<1>8. RoundStep(t)
  <2>1. \A i \in DOMAIN approval' : approval'[i].step \in Nat \ {0}
    BY <1>5a, RowFacts
  <2>. QED  BY <1>1, <1>2, <1>4, <1>5, <2>1, RoundUnmoved
<1>9. \A i \in ids : i \in DOMAIN approval => approval[i].t = t
  BY <1>3
<1>. DEFINE g == [f EXCEPT !.pc = "apply"]
<1>10. /\ g.pc = "apply" /\ g.t = t /\ g.step = s /\ g.edition = f.edition
       /\ g.mode = f.mode /\ g.decision = f.decision /\ g.id = f.id
  BY DEF Flow
<1>11. Continue(r, g)
  BY DEF CloseRound
<1>. HIDE DEF g
<1>12. flow'[r] = g /\ \A q \in Requests \ {r} : flow'[q] = flow[q]
  BY <1>11 DEF Continue, AInv, ApprovalsTypeOK
<1>13. (DecidesInRound(flow[r], req[r]))'
  BY <1>1, <1>2, <1>5, <1>6, <1>10, <1>12 DEF DecidesInRound
<1>14. FlowInRound(r)' /\ flow'[r].pc # "none" /\ flow'[r].t = t
  BY <1>5, <1>10, <1>12, <1>13 DEF FlowInRound, Deciding
<1>15. req'[r].op \in {"idle", "verdict"} /\ \A q \in Requests \ {r} : req'[q] = req[q]
  BY <1>2 DEF RoundInv
<1>. QED  BY <1>0, <1>2, <1>7, <1>8, <1>9, <1>12, <1>14, <1>15, RoundDecides

(* The ticket moves to the status that was decided. *)
LEMMA RoundEnds ==
  ASSUME OnePolicyInForce, IInv, AInv, StepInv, RoundInv, NEW r \in Requests,
         ApplyTicketStatus(r)
  PROVE  RoundInv' /\ \A u \in Tickets : RoundStep(u)
<1>0. flow[r].pc \in Deciding
  BY DEF ApplyTicketStatus, Deciding
<1>. PICK f \in Flow : f = flow[r]
  BY <1>0, DecidingInRound
<1>. PICK t \in Tickets : t = f.t
  BY <1>0, DecidingInRound
<1>. PICK s : s = f.step
  OBVIOUS
<1>. PICK h : h = req[r]
  OBVIOUS
<1>1. /\ f.pc = "apply" /\ DecidesInRound(f, h) /\ h.t = t
      /\ f.decision \in {"approved", "rejected"}
      /\ Waits(t) /\ s \in 1..Len(Steps) /\ s \in Nat \ {0}
      /\ CurrentStep(t) = s /\ SignedBy(t) = SignedAt(t, s)
      /\ \A q \in Requests \ {r} : flow[q].pc = "none"
  BY <1>0, DecidingInRound, DecidingFacts DEF ApplyTicketStatus, DecidesInRound
<1>2. UNCHANGED <<approval, edition, active, editing>> /\ CompleteVerdict(r) /\ Return(r)
  BY DEF ApplyTicketStatus
<1>3. /\ h.seen.status = "pending_approval"
      /\ h.target = IF f.decision = "rejected" THEN "cancelled" ELSE ApprovedStatus(TypeOf[t])
      /\ <<h.seen.status, h.target>> \in Transitions
      /\ h.target \notin {"absent", "pending_approval"}
      /\ f.decision = "approved" => h.target # "cancelled"
  BY <1>1 DEF DecidesInRound, Transitions, ApprovedStatus
<1>4. /\ ticket'[t].status = h.target
      /\ \A u : u # t => ticket'[u].status = ticket[u].status
  BY <1>1, <1>2, <1>3 DEF CompleteVerdict, Bump, IInv, TypeOK, Row
<1>5. \A u : RowsKept(u)
  BY <1>2 DEF RowsKept
<1>6. flow'[r].pc = "none" /\ FlowInRound(r)' /\ \A q \in Requests \ {r} : flow'[q] = flow[q]
  BY <1>2 DEF Return, Continue, AInv, ApprovalsTypeOK, NoFlow, FlowInRound, Deciding
<1>7. req'[r].op = "idle" /\ \A q \in Requests \ {r} : req'[q].op = req[q].op
  BY <1>2 DEF CompleteVerdict, Finish, Idle, IInv, TypeOK
<1>8. \A z : ~Opened(t, z)'
  BY <1>1, <1>2 DEF DecidesInRound, NoneOpen, Opened, Pending
<1>9. \A i \in DOMAIN approval' : /\ approval'[i].edition = 1
                                  /\ approval'[i].approver \in Steps[approval'[i].step].approvers
  BY <1>2 DEF RoundInv
<1>10. RoundStep(t)
  <2>1. Outcome(t) = "pending" /\ UNCHANGED <<CurrentStep(t), SignedBy(t)>>
    BY <1>1, <1>5, KeptRows, OutcomeIs
  <2>2. CASE f.decision = "approved"
    <3>1. Outcome(t)' = "approved"
      BY <1>3, <1>4, <2>2 DEF Outcome
    <3>2. Over(t, s) /\ s = Len(Steps)
      BY <1>1, <2>2 DEF DecidesInRound
    <3>3. Round(t)!StepOver /\ CurrentStep(t) = Len(Steps)
      BY <1>1, <3>2 DEF Over, Round!StepOver, Steps
    <3>. QED  BY <2>1, <3>1, <3>3 DEF RoundStep, Round!Next, Round!Release, Steps
  <2>3. CASE f.decision = "rejected"
    <3>1. Outcome(t)' = "refused"
      BY <1>3, <1>4, <2>3 DEF Outcome
    <3>2. CurrentStep(t) > 0
      BY <1>1
    <3>. QED  BY <2>1, <3>1, <3>2 DEF RoundStep, Round!Next, Round!Refuse
  <2>. QED  BY <1>1, <2>2, <2>3
<1>. QED  BY <1>1, <1>2, <1>4, <1>5, <1>6, <1>7, <1>8, <1>9, <1>10, RoundGoesOn

LEMMA RoundNext ==
  ASSUME OnePolicyInForce, IInv, AInv, StepInv, RoundInv, [ApprovalsNext]_allVars
  PROVE  RoundInv' /\ \A u \in Tickets : RoundStep(u)
<1>1. ASSUME NEW r \in Requests, Enter(r)
      PROVE  RoundInv' /\ \A u \in Tickets : RoundStep(u)
  <2>1. ~SubmitToCab(r) /\ \A t \in Tickets : ~RequestCab(r, t)
    BY DEF SubmitToCab, CompleteCab, RoundInv, RequestCab, BeginCab, OnePolicyInForce
  <2>. QED  BY <1>1, <2>1, RoundCreates, RoundRoutes, RoundInserts DEF Enter
<1>2. ASSUME NEW r \in Requests, Resolve(r)
      PROVE  RoundInv' /\ \A u \in Tickets : RoundStep(u)
  BY <1>2, RoundBegins, RoundSigns, RoundCounts, RoundCloses, RoundRefuses, RoundEnds DEF Resolve
<1>3. ASSUME NEW r \in Requests
      PROVE  ~FinishMove(r) /\ \A t \in Tickets, target \in Targets : ~MoveByHand(r, t, target)
  BY DEF FinishMove, CompleteUpdate, RoundInv, MoveByHand, BeginUpdate, OnePolicyInForce
<1>4. ~Administer /\ ~Restart
  BY DEF Administer, BeginUpdatePolicy, ReplaceSteps, SetActive, Restart, RoundInv, OnePolicyInForce
<1>5. CASE UNCHANGED allVars
  <2>1. UNCHANGED <<ticket, req, approval, flow, edition, active, editing>>
    BY <1>5 DEF allVars, vars, avars
  <2>2. \A u : RowsKept(u)
    BY <2>1 DEF RowsKept
  <2>3. \A u \in Tickets : RoundStep(u)
    BY <2>1, <2>2, RoundRests
  <2>4. RoundInv'
    BY <2>1 DEF RoundInv, FlowInRound, InsertsInRound, DecidesInRound, Opened, Untouched,
       Waits, Pending, Fair, AtStep, Over, Asked, Unspoiled, SignedAt, RowsAt, NoneOpen
  <2>. QED  BY <2>3, <2>4
<1>. QED  BY <1>1, <1>2, <1>3, <1>4, <1>5 DEF ApprovalsNext

(* The round that a policy promises is the one a ticket gets: with requests
   served one after the other and one policy in force, each ticket's approval
   takes the steps in order, goes past a step only when one approver (mode
   "any") or all of them (mode "all") have signed it, releases the ticket
   after the last step and never before, and ends with a refusal. *)
THEOREM RoundIsKept ==
  ASSUME OnePolicyInForce
  PROVE  ApprovalsSpec => ImplementsRound
<1>1. IInv /\ AInv /\ StepInv /\ [ApprovalsNext]_allVars => StepInv'
  BY OneNext DEF OnePolicyInForce
<1>3. ApprovalsInit => RoundInv /\ \A t \in Tickets : Round(t)!Init
  BY RoundStarts
<1>4. IInv /\ AInv /\ StepInv /\ RoundInv /\ [ApprovalsNext]_allVars
        => RoundInv' /\ [\A t \in Tickets : [Round(t)!Next]_(Round(t)!vars)]_allVars
  BY RoundNext DEF RoundStep
<1>. QED  BY <1>1, <1>3, <1>4, StepInit, ApprovalsInvariance, Refinement, PTL
          DEF ApprovalsSpec, ImplementsTickets, ImplementsRound
=============================================================================
