--------------------------- MODULE ApprovalRound ----------------------------
(***************************************************************************)
(* What an approval policy promises about one ticket: its steps are taken  *)
(* in order, a step is over when one approver (mode "any") or every one of *)
(* them (mode "all") has signed, the ticket is released after the last     *)
(* step and not before, and a refusal at any step ends the round.          *)
(***************************************************************************)
EXTENDS Naturals, Sequences

CONSTANT Policy   \* sequence of [approvers, mode]

VARIABLES
  outcome,   \* "none" (no ticket yet), "pending", "approved" or "refused"
  step,      \* the step that is open, 0 before the first one
  signed     \* the approvers who have signed that step

vars == <<outcome, step, signed>>

StepOver ==
  \/ step = 0
  \/ Policy[step].mode = "any" /\ signed # {}
  \/ Policy[step].mode = "all" /\ Policy[step].approvers \subseteq signed

Init == outcome = "none" /\ step = 0 /\ signed = {}

Open == outcome = "none" /\ outcome' = "pending" /\ UNCHANGED <<step, signed>>

Sign ==
  /\ outcome = "pending" /\ step > 0
  /\ \E who \in SUBSET Policy[step].approvers : who # {} /\ signed' = signed \cup who
  /\ UNCHANGED <<outcome, step>>

Advance ==
  /\ outcome = "pending" /\ StepOver /\ step < Len(Policy)
  /\ step' = step + 1 /\ signed' = {}
  /\ UNCHANGED outcome

Release ==
  /\ outcome = "pending" /\ StepOver /\ step = Len(Policy)
  /\ outcome' = "approved"
  /\ UNCHANGED <<step, signed>>

Refuse ==
  /\ outcome = "pending" /\ step > 0
  /\ outcome' = "refused"
  /\ UNCHANGED <<step, signed>>

Next == Open \/ Sign \/ Advance \/ Release \/ Refuse

Spec == Init /\ [][Next]_vars
=============================================================================
