------------------------------ MODULE MCLocalApp ------------------------------
(* Instances of LocalApp for TLC. *)
EXTENDS LocalApp
==============================================================================
