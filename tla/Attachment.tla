------------------------------ MODULE Attachment ------------------------------
(***************************************************************************)
(* What the session daemon promises about attachment, whatever its threads *)
(* do: a hosted session is free or held by one client, it passes from one  *)
(* client to another only through free, and sessions outlive the clients.  *)
(* A client that disappears while it is being welcomed leaves the session  *)
(* stuck, which only a new daemon ends.                                    *)
(***************************************************************************)
EXTENDS FiniteSets, Naturals

CONSTANTS Name, Conn

VARIABLES hosted, \* the sessions the daemon hosts
          holder  \* holder[n]: a connection, "free" or "stuck"

Init == hosted = {} /\ holder = [n \in Name |-> "free"]

Create(n) ==
    /\ n \notin hosted
    /\ hosted' = hosted \cup {n}
    /\ UNCHANGED holder

Acquire(c, n) ==
    /\ n \in hosted
    /\ holder[n] = "free"
    /\ holder' = [holder EXCEPT ![n] = c]
    /\ UNCHANGED hosted

Give(c, n) ==
    /\ holder[n] = c
    /\ \E end \in {"free", "stuck"} : holder' = [holder EXCEPT ![n] = end]
    /\ UNCHANGED hosted

(* The daemon ends, and every session with it. *)
End ==
    /\ hosted' = {}
    /\ holder' = [n \in Name |-> "free"]

Next ==
    \/ \E n \in Name : Create(n)
    \/ \E c \in Conn, n \in Name : Acquire(c, n) \/ Give(c, n)
    \/ End

Spec == Init /\ [][Next]_<<hosted, holder>>
==============================================================================
