------------------------------ MODULE MCRunPage ------------------------------
(* Instances of RunPage for TLC. *)
EXTENDS RunPage
=============================================================================
