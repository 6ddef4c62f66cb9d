------------------------------- MODULE MCLivePty -------------------------------
(* Instances of LivePty for TLC. *)
EXTENDS LivePty
==============================================================================
