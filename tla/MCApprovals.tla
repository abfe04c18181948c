---------------------------- MODULE MCApprovals -----------------------------
(***************************************************************************)
(* Instances of Approvals for TLC.                                         *)
(***************************************************************************)
EXTENDS Approvals, TLC

CONSTANTS alice, bob, carol

Changes  == [t \in Tickets |-> "change"]
Accesses == [t \in Tickets |-> "access_request"]
Alice    == [t \in Tickets |-> alice]

Everyone == {alice, bob, carol}

(* Everyone of the first step, then someone of the second; and the reverse. *)
AllThenAny == <<[approvers |-> {alice, bob}, mode |-> "all"],
                [approvers |-> {bob, carol}, mode |-> "any"]>>
AnyThenAll == <<[approvers |-> {alice, bob}, mode |-> "any"],
                [approvers |-> {bob, carol}, mode |-> "all"]>>

(* Fewer rows, for the instances in which handlers overlap. *)
AllThenOne == <<[approvers |-> {alice, bob}, mode |-> "all"],
                [approvers |-> {carol}, mode |-> "any"]>>
AnyAlone   == <<[approvers |-> {alice, bob}, mode |-> "any"]>>

OnePolicy   == <<AllThenAny>>
AnyFirst    == <<AnyThenAll>>
SmallPolicy == <<AllThenOne>>
TwoEditions == <<AllThenOne, AnyAlone>>

RequestSymmetry == Permutations(Requests)
=============================================================================
