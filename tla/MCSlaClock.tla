---------------------------- MODULE MCSlaClock -----------------------------
(***************************************************************************)
(* Instances of SlaClock for TLC.                                          *)
(***************************************************************************)
EXTENDS SlaClock

Short == [m \in Metrics |-> 2]
Long  == [m \in Metrics |-> IF m = "first_response" THEN 2 ELSE 4]
=============================================================================
