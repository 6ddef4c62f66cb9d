------------------------------ MODULE MCEndpoint ------------------------------
(* Endpoint: the configurations give its processes as model values.  No set  *)
(* of them is symmetric, since liveness is checked as well.                  *)
EXTENDS Endpoint
==============================================================================
