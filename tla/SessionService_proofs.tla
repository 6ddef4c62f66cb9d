------------------------ MODULE SessionService_proofs ------------------------
(* Theorems about SessionService, for any number of sessions, connections,  *)
(* panes and any limits.                                                    *)
EXTENDS SessionService, FiniteSetTheorems, TLAPS

(* A thread that writes has a response to write, so no request is ever sent *)
(* back to a client.                                                        *)
WritesResponse ==
    \A c \in Conn : pc[c] \in {"reply", "greet", "answer"} => work[c] \in Response

(* The inductive invariant.  OneAttachment alone is not inductive: that a   *)
(* clear flag means no holder is HolderReserved, and that Release disturbs  *)
(* no other holder is OneAttachment again.                                  *)
IInv == TypeOK /\ WritesResponse /\ MutexOwner /\ HolderReserved /\ OneAttachment

LEMMA InitIInv == Init => IInv
BY ServiceAssumption DEF Init, IInv, TypeOK, Nothing, WritesResponse, MutexOwner, HolderReserved,
   OneAttachment, Holds, Hosted, PC, Client, Reserving, InCriticalSection

LEMMA NextTypeOK == IInv /\ [Next]_vars => TypeOK'
<1> SUFFICES ASSUME IInv, [Next]_vars PROVE TypeOK'
    OBVIOUS
<1> USE DEF IInv, TypeOK
<1>1. ASSUME NEW c \in Conn, ClientStep(c) PROVE TypeOK'
  BY <1>1 DEF ClientStep, Connect, Send, Receive, Received, HungUp, Disconnect, Nothing, table, socket, peer,
     Request, FirstRequest, AttachedRequest, Named, PaneRequest, Client, Waiting, PC
<1>2. ASSUME NEW c \in Conn, Accept(c) \/ RejectPeer(c) \/ ReadStep(c) PROVE TypeOK'
  BY <1>2 DEF Accept, RejectPeer, ReadStep, Read, ReadFails, Nothing, table, socket, peer, PC
<1>3. ASSUME NEW c \in Conn, Dispatch(c) PROVE TypeOK'
  BY <1>3 DEF Dispatch, Respond, CreateResponse, table, socket, peer, PC, Response
<1>4. ASSUME NEW c \in Conn,
             AttachRefused(c) \/ AttachReserve(c) \/ Enter(c) \/ Release(c)
      PROVE TypeOK'
  BY <1>4 DEF AttachRefused, AttachReserve, Enter, Release, Respond, table, socket, peer, PC, Response
<1>5. ASSUME NEW c \in Conn, Serve(c) PROVE TypeOK'
  BY <1>5 DEF Serve, ResponseTo, PanesAfter, Hosted, table, socket, peer, PC, Response
<1>6. ASSUME NEW c \in Conn, ServeFails(c) PROVE TypeOK'
  BY <1>6 DEF ServeFails, PanesAfter, Hosted, table, socket, peer, PC
<1>7. ASSUME NEW c \in Conn, WriteStep(c) PROVE TypeOK'
  BY <1>7 DEF WriteStep, Reply, Greet, Answer, Deliver, WritesResponse, Nothing, table, socket, peer, PC
<1>8. CASE DaemonExit
  BY <1>8, ServiceAssumption DEF DaemonExit, peer, PC
<1>9. CASE UNCHANGED vars
  BY <1>9 DEF vars
<1>10. QED
  BY <1>1, <1>2, <1>3, <1>4, <1>5, <1>6, <1>7, <1>8, <1>9
     DEF Next, DaemonStep, LockStep, PaneStep

(* Which steps touch what a thread holds: the client's side never moves a   *)
(* thread, except that Connect starts one that holds nothing.               *)
LEMMA NextWritesResponse == IInv /\ [Next]_vars => WritesResponse'
<1> SUFFICES ASSUME IInv, [Next]_vars PROVE WritesResponse'
    OBVIOUS
<1> USE DEF IInv, TypeOK, WritesResponse
<1>1. ASSUME NEW c \in Conn, ClientStep(c) PROVE WritesResponse'
  BY <1>1 DEF ClientStep, Connect, Send, Receive, HungUp, Disconnect, table, socket, peer
<1>2. ASSUME NEW c \in Conn, Accept(c) \/ RejectPeer(c) \/ ReadStep(c) PROVE WritesResponse'
  BY <1>2 DEF Accept, RejectPeer, ReadStep, Read, ReadFails, table, socket, peer
<1>3. ASSUME NEW c \in Conn, LockStep(c) \/ PaneStep(c) PROVE WritesResponse'
  <2>1. ASSUME Dispatch(c) PROVE WritesResponse'
    BY <2>1 DEF Dispatch, Respond, CreateResponse, Response
  <2>2. ASSUME AttachRefused(c) \/ AttachReserve(c) \/ Enter(c) \/ Release(c)
        PROVE WritesResponse'
    BY <2>2 DEF AttachRefused, AttachReserve, Enter, Release, Respond, Response
  <2>3. ASSUME Serve(c) \/ ServeFails(c) PROVE WritesResponse'
    BY <2>3 DEF Serve, ServeFails, ResponseTo, Response
  <2>4. QED
    BY <1>3, <2>1, <2>2, <2>3 DEF LockStep, PaneStep
<1>4. ASSUME NEW c \in Conn, WriteStep(c) PROVE WritesResponse'
  BY <1>4 DEF WriteStep, Reply, Greet, Answer
<1>5. CASE DaemonExit
  BY <1>5 DEF DaemonExit
<1>6. CASE UNCHANGED vars
  BY <1>6 DEF vars
<1>7. QED
  BY <1>1, <1>2, <1>3, <1>4, <1>5, <1>6 DEF Next, DaemonStep, LockStep, PaneStep

LEMMA NextMutexOwner == IInv /\ [Next]_vars => MutexOwner'
<1> SUFFICES ASSUME IInv, [Next]_vars PROVE MutexOwner'
    OBVIOUS
<1> USE ServiceAssumption DEF IInv, TypeOK, MutexOwner, InCriticalSection
<1>1. ASSUME NEW c \in Conn, ClientStep(c) PROVE MutexOwner'
  BY <1>1 DEF ClientStep, Connect, Send, Receive, HungUp, Disconnect, table, socket, peer
<1>2. ASSUME NEW c \in Conn, Accept(c) \/ RejectPeer(c) \/ ReadStep(c) PROVE MutexOwner'
  BY <1>2 DEF Accept, RejectPeer, ReadStep, Read, ReadFails, table, socket, peer
<1>3. ASSUME NEW c \in Conn, LockStep(c) \/ PaneStep(c) PROVE MutexOwner'
  <2>1. ASSUME Dispatch(c) PROVE MutexOwner'
    BY <2>1 DEF Dispatch, Respond
  <2>2. ASSUME AttachRefused(c) \/ AttachReserve(c) \/ Enter(c) \/ Release(c)
        PROVE MutexOwner'
    BY <2>2 DEF AttachRefused, AttachReserve, Enter, Release, Respond
  <2>3. ASSUME Serve(c) PROVE MutexOwner'
    BY <2>3 DEF Serve
  <2>4. ASSUME ServeFails(c) PROVE MutexOwner'
    BY <2>4 DEF ServeFails
  <2>5. QED
    BY <1>3, <2>1, <2>2, <2>3, <2>4 DEF LockStep, PaneStep
<1>4. ASSUME NEW c \in Conn, WriteStep(c) PROVE MutexOwner'
  BY <1>4 DEF WriteStep, Reply, Greet, Answer, table
<1>5. CASE DaemonExit
  BY <1>5 DEF DaemonExit
<1>6. CASE UNCHANGED vars
  BY <1>6 DEF vars
<1>7. QED
  BY <1>1, <1>2, <1>3, <1>4, <1>5, <1>6 DEF Next, DaemonStep, LockStep, PaneStep

LEMMA NextHolderReserved == IInv /\ [Next]_vars => HolderReserved'
<1> SUFFICES ASSUME IInv, [Next]_vars PROVE HolderReserved'
    OBVIOUS
<1> USE DEF IInv, TypeOK, HolderReserved, Reserving, Hosted
<1>1. ASSUME NEW c \in Conn, ClientStep(c) PROVE HolderReserved'
  BY <1>1 DEF ClientStep, Connect, Send, Receive, HungUp, Disconnect, table, socket, peer
<1>2. ASSUME NEW c \in Conn, Accept(c) \/ RejectPeer(c) \/ ReadStep(c) PROVE HolderReserved'
  BY <1>2 DEF Accept, RejectPeer, ReadStep, Read, ReadFails, table, socket, peer
<1>3. ASSUME NEW c \in Conn, Dispatch(c) \/ AttachRefused(c) \/ AttachReserve(c)
      PROVE HolderReserved'
  <2>1. ASSUME Dispatch(c) PROVE HolderReserved'
    <3>1. Hosted \subseteq Hosted'
      BY <2>1 DEF Dispatch
    <3>2. QED
      BY <2>1, <3>1 DEF Dispatch, Respond, peer
  <2>2. ASSUME AttachRefused(c) PROVE HolderReserved'
    BY <2>2 DEF AttachRefused, Respond, peer
  <2>3. ASSUME AttachReserve(c) PROVE HolderReserved'
    BY <2>3 DEF AttachReserve, peer
  <2>4. QED
    BY <1>3, <2>1, <2>2, <2>3
<1>4. ASSUME NEW c \in Conn, Enter(c) \/ Serve(c) \/ ServeFails(c) PROVE HolderReserved'
  BY <1>4 DEF Enter, Serve, ServeFails, PanesAfter, peer
<1>5. ASSUME NEW c \in Conn, Release(c) PROVE HolderReserved'
  BY <1>5 DEF Release, OneAttachment, Holds, peer
<1>6. ASSUME NEW c \in Conn, WriteStep(c) PROVE HolderReserved'
  BY <1>6 DEF WriteStep, Reply, Greet, Answer, table, peer
<1>7. CASE DaemonExit
  BY <1>7 DEF DaemonExit
<1>8. CASE UNCHANGED vars
  BY <1>8 DEF vars
<1>9. QED
  BY <1>1, <1>2, <1>3, <1>4, <1>5, <1>6, <1>7, <1>8 DEF Next, DaemonStep, LockStep, PaneStep

LEMMA NextOneAttachment == IInv /\ [Next]_vars => OneAttachment'
<1> SUFFICES ASSUME IInv, [Next]_vars PROVE OneAttachment'
    OBVIOUS
<1> USE DEF IInv, TypeOK, OneAttachment, Holds, Reserving
<1>1. ASSUME NEW c \in Conn, ClientStep(c) PROVE OneAttachment'
  BY <1>1 DEF ClientStep, Connect, Send, Receive, HungUp, Disconnect, table, socket, peer
<1>2. ASSUME NEW c \in Conn, Accept(c) \/ RejectPeer(c) \/ ReadStep(c) PROVE OneAttachment'
  BY <1>2 DEF Accept, RejectPeer, ReadStep, Read, ReadFails, table, socket, peer
<1>3. ASSUME NEW c \in Conn, AttachReserve(c) PROVE OneAttachment'
  <2>1. \A d \in Conn : ~Holds(d, target[c])
    BY <1>3 DEF AttachReserve, HolderReserved
  <2>2. QED
    BY <1>3, <2>1 DEF AttachReserve, peer
<1>4. ASSUME NEW c \in Conn,
             \/ Dispatch(c) \/ AttachRefused(c) \/ Enter(c)
             \/ Serve(c) \/ ServeFails(c) \/ Release(c)
      PROVE OneAttachment'
  <2>1. UNCHANGED target
    BY <1>4 DEF Dispatch, AttachRefused, Enter, Serve, ServeFails, Release, Respond, peer
  <2>2. \/ pc[c] = "lock" /\ pc' = [pc EXCEPT ![c] = "reply"]
        \/ pc[c] = "enter" /\ pc' = [pc EXCEPT ![c] = "serve"]
        \/ pc[c] = "serve" /\ pc' \in {[pc EXCEPT ![c] = "answer"], [pc EXCEPT ![c] = "release"]}
        \/ pc[c] = "release" /\ pc' = [pc EXCEPT ![c] = "none"]
    BY <1>4, Zenon DEF Dispatch, AttachRefused, Enter, Serve, ServeFails, Release, Respond
  <2>3. QED
    BY <2>1, <2>2
<1>5. ASSUME NEW c \in Conn, WriteStep(c) PROVE OneAttachment'
  BY <1>5 DEF WriteStep, Reply, Greet, Answer, peer
<1>6. CASE DaemonExit
  BY <1>6 DEF DaemonExit
<1>7. CASE UNCHANGED vars
  BY <1>7 DEF vars
<1>8. QED
  BY <1>1, <1>2, <1>3, <1>4, <1>5, <1>6, <1>7 DEF Next, DaemonStep, LockStep, PaneStep

(* Every reachable state satisfies the inductive invariant. *)
THEOREM InductiveInvariant == Spec => []IInv
<1>1. IInv /\ [Next]_vars => IInv'
  BY NextTypeOK, NextWritesResponse, NextMutexOwner, NextHolderReserved, NextOneAttachment
     DEF IInv
<1>2. QED
  BY InitIInv, <1>1, PTL DEF Spec

(* The state of the daemon, its sockets and clients keeps its shape: in     *)
(* particular a session never has a negative number of panes and only       *)
(* responses travel to clients.                                             *)
THEOREM TypeCorrect == Spec => []TypeOK
BY InductiveInvariant, PTL DEF IInv

(* No two connections hold one session's reservation at once. *)
THEOREM MutualExclusion == Spec => []OneAttachment
BY InductiveInvariant, PTL DEF IInv

(* "attached session disappeared" (attached_loop) is unreachable, and the   *)
(* flag of a session in use is never clear.                                 *)
THEOREM ReservationHeld == Spec => []HolderReserved
BY InductiveInvariant, PTL DEF IInv

(* The mutex is owned by exactly the thread that writes under it. *)
THEOREM MutexHeld == Spec => []MutexOwner
BY InductiveInvariant, PTL DEF IInv

------------------------------------------------------------------------------
(* How a step moves the holders: all steps but AttachReserve, Greet, Release *)
(* and DaemonExit leave the flags and the holders alone, and all but         *)
(* Dispatch and DaemonExit leave the set of hosted sessions alone.           *)
SameReservations ==
    /\ UNCHANGED attached
    /\ \A d \in Conn, n \in Name : Holds(d, n)' <=> Holds(d, n)

LEMMA QuietSteps ==
  ASSUME IInv, NEW c \in Conn,
         \/ ClientStep(c) \/ Accept(c) \/ RejectPeer(c) \/ ReadStep(c)
         \/ AttachRefused(c) \/ Enter(c) \/ PaneStep(c) \/ Reply(c) \/ Answer(c)
  PROVE  SameReservations /\ Hosted' = Hosted
<1> USE DEF IInv, TypeOK, SameReservations, Holds, Reserving, Hosted
<1>1. CASE ClientStep(c)
  BY <1>1 DEF ClientStep, Connect, Send, Receive, HungUp, Disconnect, table, socket, peer
<1>2. CASE Accept(c) \/ RejectPeer(c) \/ ReadStep(c)
  BY <1>2 DEF Accept, RejectPeer, ReadStep, Read, ReadFails, table, socket, peer
<1>3. CASE AttachRefused(c) \/ Enter(c)
  BY <1>3 DEF AttachRefused, Enter, Respond, socket, peer
<1>4. CASE PaneStep(c)
  <2>1. SameReservations
    BY <1>4 DEF PaneStep, Serve, ServeFails, peer
  <2>2. Hosted' = Hosted
    BY <1>4 DEF PaneStep, Serve, ServeFails, PanesAfter, HolderReserved
  <2>3. QED
    BY <2>1, <2>2
<1>5. CASE Reply(c) \/ Answer(c)
  BY <1>5 DEF Reply, Answer, peer
<1>6. QED
  BY <1>1, <1>2, <1>3, <1>4, <1>5

LEMMA DispatchStep ==
  ASSUME IInv, NEW c \in Conn, Dispatch(c)
  PROVE  /\ SameReservations
         /\ \/ Hosted' = Hosted
            \/ target[c] \notin Hosted /\ Hosted' = Hosted \cup {target[c]}
<1> USE DEF IInv, TypeOK
<1>1. SameReservations
  <2>1. UNCHANGED <<attached, target>> /\ pc[c] = "lock" /\ pc' = [pc EXCEPT ![c] = "reply"]
    BY Zenon DEF Dispatch, Respond, peer
  <2>2. QED
    BY <2>1 DEF SameReservations, Holds, Reserving
<1>2. CASE UNCHANGED panes
  BY <1>1, <1>2 DEF Hosted
<1>3. CASE panes' = [panes EXCEPT ![target[c]] = 1] /\ target[c] \notin Hosted
  <2>1. Hosted' = Hosted \cup {target[c]}
    BY <1>3 DEF Hosted
  <2>2. QED
    BY <1>1, <1>3, <2>1
<1>4. QED
  BY <1>2, <1>3 DEF Dispatch, CreateResponse

(* A reservation leaks in Greet and nowhere else: the other steps that end   *)
(* a holder clear the flag as well.                                          *)
THEOREM LeakSource == Spec => LeaksOnlyInGreet
<1> DEFINE Source(n) == \E c \in Conn : pc[c] = "greet" /\ pc'[c] = "none" /\ ~Open(c)
<1>1. ASSUME IInv, [Next]_vars, NEW n \in Name, ~Leaked(n), Leaked(n)'
      PROVE  Source(n)
  <2> USE <1>1 DEF Leaked
  <2>1. ~SameReservations
    BY DEF SameReservations
  <2>2. ASSUME NEW c \in Conn, AttachReserve(c) PROVE FALSE
    BY <2>2 DEF AttachReserve, IInv, TypeOK, Holds, Reserving, peer
  <2>3. ASSUME NEW c \in Conn, Release(c) PROVE FALSE
    BY <2>3 DEF Release, IInv, TypeOK, Holds, Reserving, peer
  <2>4. ASSUME NEW c \in Conn, Greet(c) PROVE Source(n)
    <3>1. CASE Open(c)
      <4>1. SameReservations
        BY <2>4, <3>1 DEF SameReservations, Greet, IInv, TypeOK, Holds, Reserving, table, peer
      <4>2. QED
        BY <4>1, <2>1
    <3>2. CASE ~Open(c)
      BY <2>4, <3>2 DEF Greet, IInv, TypeOK
    <3>3. QED
      BY <3>1, <3>2
  <2>5. CASE DaemonExit
    BY <2>5 DEF DaemonExit
  <2>6. CASE UNCHANGED vars
    BY <2>1, <2>6 DEF vars, SameReservations, Holds
  <2>7. QED
    BY <2>1, <2>2, <2>3, <2>4, <2>5, <2>6, QuietSteps, DispatchStep
       DEF Next, DaemonStep, LockStep, WriteStep
<1>2. IInv /\ [Next]_vars => [\A n \in Name : ~Leaked(n) /\ Leaked(n)' => Source(n)]_vars
  BY <1>1
<1>3. QED
  BY <1>2, InductiveInvariant, PTL DEF Spec, LeaksOnlyInGreet

(* The steps that may move the table's panes: a create, a request served, or *)
(* the end of the daemon.                                                    *)
LEMMA PaneMovers ==
  ASSUME [Next]_vars, UNCHANGED panes => FALSE
  PROVE  DaemonExit \/ \E c \in Conn : Dispatch(c) \/ PaneStep(c)
<1>1. \A c \in Conn : ~ClientStep(c)
  BY DEF ClientStep, Connect, Send, Receive, HungUp, Disconnect, table
<1>2. \A c \in Conn : ~Accept(c) /\ ~RejectPeer(c) /\ ~ReadStep(c) /\ ~WriteStep(c)
  BY DEF Accept, RejectPeer, ReadStep, Read, ReadFails, WriteStep, Reply, Greet, Answer, table
<1>3. \A c \in Conn : LockStep(c) => Dispatch(c)
  BY DEF LockStep, AttachRefused, AttachReserve, Enter, Release
<1> QED
  BY <1>1, <1>2, <1>3 DEF Next, DaemonStep, vars

(* Only the client attached to a session changes its panes: by a request     *)
(* that its thread serves while it holds the reservation and the mutex.      *)
THEOREM PanesOfHolder == Spec => OnlyHolderChangesPanes
<1> DEFINE ByHolder(n) == \E c \in Conn : Holds(c, n) /\ lock = c /\ pc[c] = "serve"
<1>1. ASSUME IInv, [Next]_vars, NEW n \in Name, n \in Hosted, panes'[n] # panes[n]
      PROVE  Hosted' = {} \/ ByHolder(n)
  <2> USE <1>1 DEF IInv, TypeOK
  (* A create leaves every hosted session as it is. *)
  <2>1. \A c \in Conn : ~Dispatch(c)
    BY DEF Dispatch, CreateResponse, Hosted
  <2>2. DaemonExit => Hosted' = {}
    BY DEF DaemonExit, Hosted
  <2>3. ASSUME NEW c \in Conn, PaneStep(c) PROVE ByHolder(n)
    <3>1. /\ pc[c] = "serve"
          /\ \/ UNCHANGED panes
             \/ \E k : panes' = [panes EXCEPT ![target[c]] = k]
      BY <2>3, Zenon DEF PaneStep, Serve, ServeFails
    <3>2. QED
      BY <3>1 DEF Holds, Reserving, MutexOwner, InCriticalSection, Hosted
  <2> QED
    BY <2>1, <2>2, <2>3, PaneMovers
<1>2. IInv /\ [Next]_vars =>
        [\A n \in Name : n \in Hosted /\ panes'[n] # panes[n] =>
            \/ Hosted' = {}
            \/ ByHolder(n)]_vars
  BY <1>1
<1>3. QED
  BY <1>2, InductiveInvariant, PTL DEF Spec, OnlyHolderChangesPanes

------------------------------------------------------------------------------
(* The refinement of Attachment.  What Holder is, without its CHOOSE.        *)
LEMMA HolderValue ==
  ASSUME OneAttachment, NEW n \in Name
  PROVE  /\ ~attached[n] => Holder(n) = "free"
         /\ attached[n] /\ (\A c \in Conn : ~Holds(c, n)) => Holder(n) = "stuck"
         /\ \A c \in Conn : attached[n] /\ Holds(c, n) => Holder(n) = c
<1>1. ASSUME NEW c \in Conn, attached[n], Holds(c, n) PROVE Holder(n) = c
  <2>1. ~Leaked(n)
    BY <1>1 DEF Leaked
  <2>2. \A d \in Conn : Holds(d, n) => d = c
    BY <1>1 DEF OneAttachment
  <2>3. (CHOOSE d \in Conn : Holds(d, n)) = c
    BY <1>1, <2>2
  <2>4. QED
    BY <1>1, <2>1, <2>3 DEF Holder
<1>2. QED
  BY <1>1 DEF Holder, Leaked

LEMMA HolderValuePrime ==
  ASSUME OneAttachment', NEW n \in Name
  PROVE  /\ ~attached'[n] => Holder(n)' = "free"
         /\ attached'[n] /\ (\A c \in Conn : ~Holds(c, n)') => Holder(n)' = "stuck"
         /\ \A c \in Conn : attached'[n] /\ Holds(c, n)' => Holder(n)' = c
<1>1. ASSUME NEW c \in Conn, attached'[n], Holds(c, n)' PROVE Holder(n)' = c
  <2>1. ~Leaked(n)'
    BY <1>1 DEF Leaked
  <2>2. \A d \in Conn : Holds(d, n)' => d = c
    BY <1>1 DEF OneAttachment
  <2>3. (CHOOSE d \in Conn : Holds(d, n)') = c
    BY <1>1, <2>2
  <2>4. QED
    BY <1>1, <2>1, <2>3 DEF Holder
<1>2. QED
  BY <1>1 DEF Holder, Leaked

LEMMA QuietHolders ==
  ASSUME OneAttachment, OneAttachment', SameReservations, NEW n \in Name
  PROVE  Holder(n)' = Holder(n)
<1>1. CASE ~attached[n]
  BY <1>1, HolderValue, HolderValuePrime DEF SameReservations
<1>2. CASE attached[n] /\ \A c \in Conn : ~Holds(c, n)
  BY <1>2, HolderValue, HolderValuePrime DEF SameReservations
<1>3. CASE attached[n] /\ \E c \in Conn : Holds(c, n)
  BY <1>3, HolderValue, HolderValuePrime DEF SameReservations
<1>4. QED
  BY <1>1, <1>2, <1>3

LEMMA ReservationStep ==
  ASSUME IInv, IInv', [Next]_vars
  PROVE  [Reservation!Next]_<<Hosted, [n \in Name |-> Holder(n)]>>
<1> DEFINE holder == [n \in Name |-> Holder(n)]
           Same == SameReservations => holder' = holder
<1>1. SameReservations => holder' = holder
  BY QuietHolders DEF IInv
<1>2. ASSUME NEW c \in Conn, Dispatch(c) PROVE [Reservation!Next]_<<Hosted, holder>>
  <2>1. target[c] \in Name
    BY DEF IInv, TypeOK
  <2>2. QED
    BY <1>1, <1>2, <2>1, DispatchStep DEF Reservation!Next, Reservation!Create
<1>3. ASSUME NEW c \in Conn, AttachReserve(c) PROVE \E m \in Name : Reservation!Acquire(c, m)
  <2>0. PICK m \in Name : m = target[c]
    BY DEF IInv, TypeOK
  <2>1. /\ m \in Hosted /\ Hosted' = Hosted
        /\ ~attached[m] /\ attached'[m] /\ Holds(c, m)'
    BY <1>3, <2>0 DEF AttachReserve, IInv, TypeOK, Holds, Reserving, Hosted, peer
  <2>2. ASSUME NEW n \in Name, n # m
        PROVE  /\ attached'[n] = attached[n]
               /\ \A d \in Conn : Holds(d, n)' <=> Holds(d, n)
    BY <1>3, <2>0, <2>2 DEF AttachReserve, IInv, TypeOK, Holds, Reserving, peer
  <2>3. \A n \in Name : n # m => Holder(n)' = Holder(n)
    BY <2>2, HolderValue, HolderValuePrime DEF IInv
  <2>4. Holder(m) = "free" /\ Holder(m)' = c
    BY <2>1, HolderValue, HolderValuePrime DEF IInv
  <2>5. QED
    BY <2>1, <2>3, <2>4 DEF Reservation!Acquire
<1>4. ASSUME NEW c \in Conn, Release(c) \/ (Greet(c) /\ ~Open(c))
      PROVE  \E m \in Name : Reservation!Give(c, m)
  <2>0. PICK m \in Name : m = target[c]
    BY DEF IInv, TypeOK
  <2>1. /\ Hosted' = Hosted
        /\ Holds(c, m) /\ attached[m] /\ ~Holds(c, m)'
    BY <1>4, <2>0 DEF Release, Greet, IInv, TypeOK, Holds, Reserving, Hosted, HolderReserved, table, peer
  <2>2. ASSUME NEW n \in Name, n # m
        PROVE  /\ attached'[n] = attached[n]
               /\ \A d \in Conn : Holds(d, n)' <=> Holds(d, n)
    BY <1>4, <2>0, <2>2 DEF Release, Greet, IInv, TypeOK, Holds, Reserving, table, peer
  <2>3. \A n \in Name : n # m => Holder(n)' = Holder(n)
    BY <2>2, HolderValue, HolderValuePrime DEF IInv
  <2>4. \A d \in Conn : ~Holds(d, m)'
    <3>1. \A d \in Conn : Holds(d, m) => d = c
      BY <2>1 DEF IInv, OneAttachment
    <3>2. \A d \in Conn : d # c => (Holds(d, m)' => Holds(d, m))
      BY <1>4, <2>0 DEF Release, Greet, IInv, TypeOK, Holds, peer
    <3>3. QED
      BY <2>1, <3>1, <3>2
  <2>5. Holder(m) = c /\ Holder(m)' \in {"free", "stuck"}
    BY <2>1, <2>4, HolderValue, HolderValuePrime DEF IInv
  <2>6. QED
    BY <2>1, <2>3, <2>5 DEF Reservation!Give
<1>5. ASSUME NEW c \in Conn, Greet(c), Open(c) PROVE UNCHANGED <<Hosted, holder>>
  <2>1. SameReservations /\ Hosted' = Hosted
    BY <1>5 DEF SameReservations, Greet, IInv, TypeOK, Holds, Reserving, Hosted, table, peer
  <2>2. QED
    BY <1>1, <2>1
<1>6. CASE DaemonExit
  <2>1. Hosted' = {} /\ \A n \in Name : Holder(n)' = "free"
    BY <1>6 DEF DaemonExit, Hosted, Holder
  <2>2. QED
    BY <2>1 DEF Reservation!Next, Reservation!End
<1>7. CASE UNCHANGED vars
  <2>1. SameReservations /\ Hosted' = Hosted
    BY <1>7 DEF vars, SameReservations, Holds, Hosted
  <2>2. QED
    BY <1>1, <2>1
<1>8. ASSUME NEW c \in Conn, SameReservations /\ Hosted' = Hosted
      PROVE  UNCHANGED <<Hosted, holder>>
  BY <1>1, <1>8
<1>9. \A c \in Conn : target[c] \in Name
  BY DEF IInv, TypeOK
<1>10. QED
  BY <1>2, <1>3, <1>4, <1>5, <1>6, <1>7, <1>8, <1>9, QuietSteps
     DEF Next, DaemonStep, LockStep, WriteStep, Reservation!Next

(* The daemon implements Attachment: whatever its threads and clients do, a  *)
(* hosted session is free, held by one client or stuck, and passes from one  *)
(* client to another only through free.                                      *)
THEOREM Refinement == Spec => ImplementsAttachment
<1>1. Init => Reservation!Init
  BY DEF Init, Reservation!Init, Hosted, Holder
<1>2. IInv /\ IInv' /\ [Next]_vars => [Reservation!Next]_<<Hosted, [n \in Name |-> Holder(n)]>>
  BY ReservationStep
<1>3. QED
  BY <1>1, <1>2, InductiveInvariant, PTL DEF Spec, ImplementsAttachment, Reservation!Spec

------------------------------------------------------------------------------
(* Where a conversation stands, for a client that is still there: what it   *)
(* waits for agrees with the request in the socket or in the thread's hand, *)
(* and the thread answers in kind.                                          *)
Conversation ==
    \A c \in Conn : Open(c) =>
        /\ client[c] = "attached" =>
             /\ pc[c] \in {"none", "loop", "release"}
             /\ inbox[c] = Nothing
        /\ pc[c] \in {"none", "lock", "reply", "greet", "enter", "serve", "answer"} =>
             inbox[c] = Nothing
        /\ pc[c] \in {"queued", "first", "lock", "reply"} =>
             client[c] \in {"asking", "attaching"}
        /\ pc[c] \in {"queued", "first"} /\ inbox[c] = "Attach" => client[c] = "attaching"
        /\ pc[c] = "lock" /\ work[c] = "Attach" => client[c] = "attaching"
        /\ pc[c] = "reply" => work[c] \notin {"Attached", "Screen", "Detached"}
        /\ pc[c] = "greet" => client[c] = "attaching" /\ work[c] = "Attached"
        /\ pc[c] \in {"loop", "release"} /\ inbox[c] # Nothing =>
             client[c] = IF inbox[c] = "Detach" THEN "detaching" ELSE "exchanging"
        /\ pc[c] \in {"enter", "serve"} =>
             client[c] = IF work[c] = "Detach" THEN "detaching" ELSE "exchanging"
        /\ pc[c] = "answer" =>
             /\ client[c] = IF work[c] = "Detached" THEN "detaching" ELSE "exchanging"
             /\ work[c] # "Attached"

(* A step of one connection leaves the conversations of the others alone, so *)
(* it is enough to look at its own.                                          *)
CInv == IInv /\ Conversation /\ AnswersMatch

LEMMA InitConversation == Init => Conversation /\ AnswersMatch
BY DEF Init, Conversation, AnswersMatch, Open

LEMMA NextConversation ==
  ASSUME CInv, [Next]_vars
  PROVE  (Conversation /\ AnswersMatch)'
<1> USE DEF CInv, IInv, TypeOK, WritesResponse, Conversation, AnswersMatch, Open, Nothing, Waiting
<1>1. ASSUME NEW c \in Conn, NEW n \in Name, NEW r \in FirstRequest \cup {Nothing}, Connect(c, n, r)
      PROVE  (Conversation /\ AnswersMatch)'
  BY <1>1 DEF Connect, FirstRequest, Named, table
<1>2. ASSUME NEW c \in Conn, NEW r \in AttachedRequest, Send(c, r)
      PROVE  (Conversation /\ AnswersMatch)'
  BY <1>2 DEF Send, AttachedRequest, PaneRequest, table
<1>3. ASSUME NEW c \in Conn, Receive(c)
      PROVE  (Conversation /\ AnswersMatch)'
  BY <1>3 DEF Receive, Received, table
<1>4. ASSUME NEW c \in Conn, HungUp(c) \/ Disconnect(c)
      PROVE  (Conversation /\ AnswersMatch)'
  BY <1>4 DEF HungUp, Disconnect, table, socket
<1>5. ASSUME NEW c \in Conn, Accept(c) \/ RejectPeer(c)
      PROVE  (Conversation /\ AnswersMatch)'
  BY <1>5 DEF Accept, RejectPeer, table, socket, peer
<1>6. ASSUME NEW c \in Conn, ReadStep(c)
      PROVE  (Conversation /\ AnswersMatch)'
  BY <1>6 DEF ReadStep, Read, ReadFails, table, peer
<1>7. ASSUME NEW c \in Conn, Dispatch(c)
      PROVE  (Conversation /\ AnswersMatch)'
  BY <1>7 DEF Dispatch, Respond, CreateResponse, socket, peer
<1>8. ASSUME NEW c \in Conn, AttachRefused(c) \/ AttachReserve(c)
      PROVE  (Conversation /\ AnswersMatch)'
  <2>1. CASE AttachRefused(c)
    BY <2>1 DEF AttachRefused, Respond, socket, peer
  <2>2. CASE AttachReserve(c)
    BY <2>2 DEF AttachReserve, socket, peer
  <2>3. QED
    BY <1>8, <2>1, <2>2
<1>9. ASSUME NEW c \in Conn, Enter(c) \/ Release(c)
      PROVE  (Conversation /\ AnswersMatch)'
  BY <1>9 DEF Enter, Release, socket, peer
<1>10. ASSUME NEW c \in Conn, PaneStep(c)
      PROVE  (Conversation /\ AnswersMatch)'
  <2>1. CASE Serve(c)
    BY <2>1 DEF Serve, ResponseTo, PaneRequest, socket, peer
  <2>2. CASE ServeFails(c)
    <3>1. /\ pc[c] = "serve" /\ pc' = [pc EXCEPT ![c] = "release"]
          /\ work' = [work EXCEPT ![c] = Nothing]
          /\ UNCHANGED <<inbox, outbox, client, target>>
      BY <2>2, Zenon DEF ServeFails, socket, peer
    <3>2. QED
      BY <3>1
  <2>3. QED
    BY <1>10, <2>1, <2>2 DEF PaneStep
<1>11. ASSUME NEW c \in Conn, WriteStep(c)
      PROVE  (Conversation /\ AnswersMatch)'
  <2>1. CASE Reply(c)
    BY <2>1 DEF Reply, Deliver, peer
  <2>2. CASE Greet(c)
    BY <2>2 DEF Greet, Deliver, table, peer
  <2>3. CASE Answer(c)
    <3>1. /\ pc[c] = "answer" /\ work[c] # Nothing
          /\ pc' = [pc EXCEPT ![c] = pc'[c]] /\ pc'[c] \in {"loop", "release"}
          /\ pc'[c] = "loop" => outbox'[c] = work[c]
          /\ outbox' \in {outbox, [outbox EXCEPT ![c] = work[c]]}
          /\ outbox' # outbox => Open(c)
          /\ work' = [work EXCEPT ![c] = Nothing]
          /\ UNCHANGED <<inbox, client, target>>
      BY <2>3 DEF Answer, Deliver, Response, peer
    <3>2. QED
      BY <3>1
  <2>4. QED
    BY <1>11, <2>1, <2>2, <2>3 DEF WriteStep
<1>12. CASE DaemonExit
  BY <1>12 DEF DaemonExit, peer
<1>13. CASE UNCHANGED vars
  BY <1>13 DEF vars
<1>14. QED
  BY <1>1, <1>2, <1>3, <1>4, <1>5, <1>6, <1>7, <1>8, <1>9, <1>10, <1>11, <1>12, <1>13
     DEF Next, ClientStep, DaemonStep, LockStep

(* On a connection requests and responses alternate, every response that     *)
(* waits for a client answers what that client asked, and never do both ends *)
(* wait for the other to write.                                              *)
THEOREM ResponsesMatch == Spec => []AnswersMatch
<1>1. Init => CInv
  BY InitIInv, InitConversation DEF CInv
<1>2. CInv /\ IInv' /\ [Next]_vars => CInv'
  BY NextConversation DEF CInv
<1>3. CInv => AnswersMatch
  BY DEF CInv
<1>4. QED
  BY <1>1, <1>2, <1>3, InductiveInvariant, PTL DEF Spec

------------------------------------------------------------------------------
(* The limit of dispatch, which is looked at and used under one hold of the  *)
(* mutex.  MaxSessions is a number, so the hosted sessions are finitely many. *)
Bounded == IsFiniteSet(Hosted) /\ Cardinality(Hosted) <= MaxSessions

LEMMA NextBounded == IInv /\ Bounded /\ [Next]_vars => Bounded'
<1> SUFFICES ASSUME IInv, Bounded, [Next]_vars PROVE Bounded'
    OBVIOUS
<1>1. ASSUME Hosted' = Hosted PROVE Bounded'
  BY <1>1 DEF Bounded
<1>2. ASSUME NEW c \in Conn, Dispatch(c) PROVE Bounded'
  <2>1. CASE Hosted' = Hosted
    BY <1>1, <2>1
  <2>2. CASE target[c] \notin Hosted /\ Hosted' = Hosted \cup {target[c]} /\ Hosted' # Hosted
    <3>1. panes' # panes
      BY <2>2 DEF Hosted
    <3>2. ~(Cardinality(Hosted) >= MaxSessions)
      BY <1>2, <2>2, <3>1 DEF Dispatch, CreateResponse
    <3>3. /\ IsFiniteSet(Hosted') /\ Cardinality(Hosted') = Cardinality(Hosted) + 1
          /\ Cardinality(Hosted) \in Nat
      BY <2>2, FS_AddElement, FS_CardinalityType DEF Bounded
    <3>4. QED
      BY <3>2, <3>3, ServiceAssumption DEF Bounded
  <2>3. QED
    BY <1>2, <2>1, <2>2, DispatchStep
<1>3. ASSUME NEW c \in Conn, AttachReserve(c) \/ Release(c) \/ Greet(c) PROVE Bounded'
  BY <1>1, <1>3 DEF AttachReserve, Release, Greet, Hosted, table
<1>4. CASE DaemonExit
  <2>1. Hosted' = {}
    BY <1>4 DEF DaemonExit, Hosted
  <2>2. QED
    BY <2>1, FS_EmptySet, ServiceAssumption DEF Bounded
<1>5. CASE UNCHANGED vars
  BY <1>1, <1>5 DEF vars, Hosted
<1>6. QED
  BY <1>1, <1>2, <1>3, <1>4, <1>5, QuietSteps DEF Next, DaemonStep, LockStep, WriteStep

(* The daemon never hosts more sessions than a Sessions response lists. *)
THEOREM SessionLimit == Spec => []ListEncodable
<1>1. Init => Bounded
  <2>1. Init => Hosted = {}
    BY DEF Init, Hosted
  <2>2. QED
    BY <2>1, FS_EmptySet, ServiceAssumption DEF Bounded
<1>2. Bounded => ListEncodable
  BY DEF Bounded, ListEncodable
<1>3. QED
  BY <1>1, <1>2, NextBounded, InductiveInvariant, PTL DEF Spec

==============================================================================
