--------------------------- MODULE MCSessionService ---------------------------
(* SessionService with connection slots as model values. *)
EXTENDS SessionService

CONSTANTS c1, c2, n1, n2

TwoConns == {c1, c2}
OneName == {n1}
TwoNames == {n1, n2}
==============================================================================
