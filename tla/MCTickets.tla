----------------------------- MODULE MCTickets ------------------------------
(***************************************************************************)
(* Instances of Tickets for TLC.  Ticket names are model values of the     *)
(* .cfg; the functions on them are defined here.                           *)
(***************************************************************************)
EXTENDS Tickets, TLC

CONSTANTS t1, t2, alice

Incidents == [t \in Tickets |-> "incident"]
Changes   == [t \in Tickets |-> "change"]
Promoted  == (t1 :> "incident") @@ (t2 :> "problem")
SameUser  == [t \in Tickets |-> alice]

RequestSymmetry == Permutations(Requests)
=============================================================================
