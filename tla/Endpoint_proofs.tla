--------------------------- MODULE Endpoint_proofs ---------------------------
(* Theorems about Endpoint, for any number of daemon processes and clients. *)
EXTENDS Endpoint, TLAPS

LEMMA InitTypeOK == Init => TypeOK
<1> SUFFICES ASSUME Init PROVE TypeOK
    OBVIOUS
<1>1. /\ dir \in {"absent", "private", "insecure"} /\ path \in Daemon \cup {NoEntry, Foreign}
      /\ overlapped \in BOOLEAN /\ misprobed \in BOOLEAN /\ surprised \subseteq Daemon
  BY DEF Init
<1>2. pc \in [Daemon -> PC] /\ identity \in [Daemon -> Daemon \cup {NoEntry, Foreign}]
  BY DEF Init, PC
<1>3. /\ client \in [Client -> ClientState] /\ server \in [Client -> Daemon \cup {NoEntry}]
      /\ executed \in [Client -> Nat]
  BY DEF Init, ClientState
<1>4. QED
  BY <1>1, <1>2, <1>3 DEF TypeOK

LEMMA NextTypeOK == TypeOK /\ [Next]_vars => TypeOK'
<1> SUFFICES ASSUME TypeOK, [Next]_vars PROVE TypeOK'
    OBVIOUS
<1> USE DEF TypeOK, daemonVars, clientVars
<1>1. ASSUME NEW d \in Daemon,
             \/ Prepare(d) \/ Bind(d) \/ Listen(d) \/ Chmod(d) \/ Undo(d) \/ Identify(d)
             \/ Probe(d) \/ ProbeErrs(d) \/ Inspect(d) \/ Unlink(d)
             \/ DropInspect(d) \/ DropUnlink(d) \/ Stop(d) \/ Crash(d)
      PROVE  /\ dir' \in {"absent", "private", "insecure"}
             /\ path' \in Daemon \cup {NoEntry, Foreign}
             /\ pc' \in [Daemon -> PC]
             /\ identity' \in [Daemon -> Daemon \cup {NoEntry, Foreign}]
             /\ UNCHANGED clientVars
  BY <1>1 DEF Prepare, Bind, Listen, Chmod, Undo, Identify, Probe, ProbeErrs, Inspect,
     Unlink, DropInspect, DropUnlink, Stop, Crash, Goto, PC
<1>2. ASSUME NEW k \in Client, ClientStep(k)
      PROVE  /\ dir' \in {"absent", "private", "insecure"}
             /\ path' \in Daemon \cup {NoEntry, Foreign}
             /\ pc' \in [Daemon -> PC]
             /\ identity' \in [Daemon -> Daemon \cup {NoEntry, Foreign}]
             /\ client' \in [Client -> ClientState]
             /\ server' \in [Client -> Daemon \cup {NoEntry}]
             /\ executed' \in [Client -> Nat]
  BY <1>2 DEF ClientStep, Ask, Reach, SpawnFails, Expire, Execute, Answered, Broken,
     SpawnDaemon, Goto, Connectable, PC, ClientState
<1>3. ASSUME Next
      PROVE  overlapped' \in BOOLEAN /\ misprobed' \in BOOLEAN /\ surprised' \subseteq Daemon
  BY <1>3 DEF Next, Substitute
<1>4. ASSUME Substitute
      PROVE  UNCHANGED <<dir, pc, identity, clientVars>> /\ path' \in {NoEntry, Foreign}
  BY <1>4 DEF Substitute
<1>5. CASE UNCHANGED vars
  BY <1>5 DEF vars
<1> QED
  BY <1>1, <1>2, <1>3, <1>4, <1>5 DEF Next, DaemonStep

(* A step of one process, as seen by the others: their place stays, and so   *)
(* does what they know of the path.                                         *)
LEMMA OneMoves ==
    ASSUME TypeOK, NEW d \in Daemon, NEW next \in PC, Goto(d, next),
           surprised' = {e \in surprised : ~Looked(e) /\ pc'[e] \notin Ended}
    PROVE  /\ pc'[d] = next
           /\ \A e \in Daemon \ {d} :
                /\ pc'[e] = pc[e]
                /\ pc[e] \notin Ended => (e \in surprised' <=> e \in surprised)
           /\ d \in surprised' => d \in surprised
           /\ d \in surprised /\ next \notin Ended
                /\ pc[d] \notin {"bind", "rebind", "inspect", "dropInspect"} => d \in surprised'
BY DEF TypeOK, Goto, Looked, Ended

(* What the path is, for a daemon at each of its system calls, as long as   *)
(* daemons come and go one after another.  SequentialStartersSafe alone is  *)
(* not inductive: a starter that may remove something must know that nobody *)
(* serves unsurprised, and a daemon on its way up or down that the socket   *)
(* is its own, or has been taken away.                                      *)
Knows(d) ==
    /\ pc[d] \in {"listen", "chmod", "identify", "serving", "dropInspect"}
         => d \in surprised \/ path = d
    /\ pc[d] \in {"listen", "chmod", "undo", "identify"} => path \in {d, NoEntry, Foreign}
    /\ identity[d] \in {d, NoEntry, Foreign}
    /\ pc[d] \in {"serving", "dropInspect"} => d \in surprised \/ identity[d] = d
    /\ Busy(d) /\ pc[d] \notin {"probe", "dropInspect"}
         => \A e \in Daemon : pc[e] = "serving" => e \in surprised

Alone ==
    /\ ~overlapped => ~Overlap
    /\ ~overlapped /\ ~misprobed => \A d \in Daemon : Knows(d)

LEMMA InitAlone == Init => Alone
BY DEF Init, Alone, Knows, Overlap, Busy, Ended

LEMMA NextAlone == TypeOK /\ Alone /\ [Next]_vars => Alone'
<1> SUFFICES ASSUME TypeOK, Alone, [Next]_vars PROVE Alone'
  OBVIOUS
<1> USE DEF TypeOK
<1>1. CASE UNCHANGED vars
  BY <1>1 DEF vars, Alone, Knows, Overlap, Busy
<1>2. ASSUME Next, ~overlapped', ~misprobed'
      PROVE  \A e \in Daemon : Knows(e)'
  <2>0. ~overlapped /\ ~Overlap /\ ~Overlap' /\ ~misprobed
    <3>1. ~overlapped /\ ~Overlap'
      BY <1>2 DEF Next
    <3>2. ~misprobed
      BY <1>2 DEF Next, Substitute
    <3> QED
      BY <3>1, <3>2 DEF Alone
  <2>1. \A e \in Daemon : Knows(e)
    BY <1>2, <2>0 DEF Alone
  <2>2. ASSUME NEW d \in Daemon, DaemonStep(d) \/ Stop(d),
               surprised' = {e \in surprised : ~Looked(e) /\ pc'[e] \notin Ended}
        PROVE  \A e \in Daemon : Knows(e)'
    <3>1. PICK next \in PC : Goto(d, next)
      BY <2>2 DEF DaemonStep, Prepare, Bind, Listen, Chmod, Undo, Identify, Probe,
         Inspect, Unlink, DropInspect, DropUnlink, Stop, PC
    <3>2. /\ pc'[d] = next
          /\ \A e \in Daemon \ {d} :
               /\ pc'[e] = pc[e]
               /\ pc[e] \notin Ended => (e \in surprised' <=> e \in surprised)
          /\ d \in surprised' => d \in surprised
          /\ d \in surprised /\ next \notin Ended
               /\ pc[d] \notin {"bind", "rebind", "inspect", "dropInspect"} => d \in surprised'
      BY <2>2, <3>1, OneMoves
    <3>3. Busy(d) \/ Busy(d)' => \A e \in Daemon : e # d => ~Busy(e)
      BY <2>0, <3>1, <3>2 DEF Overlap, Busy
    <3> USE EndpointAssumption DEF Busy, Ended, Goto, Knows
    <3>4. CASE Prepare(d) \/ Listen(d) \/ Chmod(d)
      BY <2>1, <3>2, <3>3, <3>4 DEF Prepare, Listen, Chmod
    <3>5. CASE Undo(d) \/ Identify(d)
      BY <2>1, <3>2, <3>3, <3>5 DEF Undo, Identify
    <3>6. CASE Bind(d)
      BY <2>1, <3>2, <3>3, <3>6 DEF Bind
    <3>7. CASE Probe(d)
      BY <2>1, <3>2, <3>3, <3>7 DEF Probe, Connectable, Listening
    <3>8. CASE Inspect(d) \/ Unlink(d)
      BY <2>1, <3>2, <3>3, <3>8 DEF Inspect, Unlink
    <3>9. CASE DropInspect(d) \/ DropUnlink(d) \/ Stop(d)
      BY <2>1, <3>2, <3>3, <3>9 DEF DropInspect, DropUnlink, Stop
    <3> QED
      BY <2>2, <3>4, <3>5, <3>6, <3>7, <3>8, <3>9 DEF DaemonStep
  <2>3. ASSUME NEW d \in Daemon, Crash(d),
               surprised' = {e \in surprised : ~Looked(e) /\ pc'[e] \notin Ended}
        PROVE  \A e \in Daemon : Knows(e)'
    BY <2>1, <2>3 DEF Crash, Goto, Knows, Busy, Ended, Looked
  <2>4. ASSUME NEW k \in Client, ClientStep(k),
               surprised' = {e \in surprised : ~Looked(e) /\ pc'[e] \notin Ended}
        PROVE  \A e \in Daemon : Knows(e)'
    <3>1. CASE \E d \in Daemon : SpawnDaemon(k, d)
      BY <2>1, <2>4, <3>1 DEF SpawnDaemon, Goto, Knows, Busy, Ended, Looked
    <3>2. CASE ~\E d \in Daemon : SpawnDaemon(k, d)
      <4>1. UNCHANGED <<dir, path, pc, identity>>
        BY <2>4, <3>2 DEF ClientStep, Ask, Reach, SpawnFails, Expire, Execute, Answered,
           Broken, daemonVars
      <4> QED
        BY <2>1, <2>4, <4>1 DEF Knows, Busy, Ended, Looked
    <3> QED
      BY <3>1, <3>2
  <2>5. CASE Substitute
    BY <2>1, <2>5, EndpointAssumption DEF Substitute, Knows, Busy, Ended
  <2> QED
    BY <1>2, <2>2, <2>3, <2>4, <2>5 DEF Next
<1>3. ASSUME Next PROVE ~overlapped' => ~Overlap'
  BY <1>3 DEF Next
<1> QED
  BY <1>1, <1>2, <1>3 DEF Alone

(* Every value the endpoint's processes keep has its type. *)
THEOREM EndpointTypeCorrect == Spec => []TypeOK
BY InitTypeOK, NextTypeOK, PTL DEF Spec

(* As long as no two daemons are between two of their system calls on the   *)
(* path at once and connects fail only for want of a listener, a serving    *)
(* daemon whose socket nobody else has touched owns the path: there is one  *)
(* such at most, clients reach it, and its Drop will know its socket.       *)
THEOREM SequentialStarters == Spec => []SequentialStartersSafe
<1>1. Alone => SequentialStartersSafe
  BY DEF Alone, Knows, SequentialStartersSafe
<1>2. QED
  BY <1>1, InitTypeOK, NextTypeOK, InitAlone, NextAlone, PTL DEF Spec

------------------------------------------------------------------------------
(* A client that knocks, or waits for its answer, has had nothing executed  *)
(* before.                                                                  *)
Fresh == \A k \in Client : client[k] \in {"idle", "first", "retry", "connected"} => executed[k] = 0

LEMMA NextFresh ==
    TypeOK /\ Fresh /\ AtMostOnce /\ [Next]_vars => Fresh' /\ AtMostOnce'
<1> SUFFICES ASSUME TypeOK, Fresh, AtMostOnce, [Next]_vars PROVE Fresh' /\ AtMostOnce'
  OBVIOUS
<1> USE DEF TypeOK, Fresh, AtMostOnce
<1>1. CASE UNCHANGED <<client, executed>>
  BY <1>1
<1>2. ASSUME NEW d \in Daemon, DaemonStep(d) \/ Stop(d) \/ Crash(d) \/ ProbeErrs(d)
      PROVE  UNCHANGED <<client, executed>>
  BY <1>2 DEF DaemonStep, Prepare, Bind, Listen, Chmod, Undo, Identify, Probe, ProbeErrs,
     Inspect, Unlink, DropInspect, DropUnlink, Stop, Crash, clientVars
<1>3. ASSUME NEW k \in Client, ClientStep(k)
      PROVE  Fresh' /\ AtMostOnce'
  <2>1. CASE Ask(k)
    BY <2>1 DEF Ask
  <2>2. CASE Execute(k)
    BY <2>2 DEF Execute
  <2>3. CASE \/ Reach(k) \/ SpawnFails(k) \/ Expire(k) \/ Answered(k) \/ Broken(k)
             \/ \E d \in Daemon : SpawnDaemon(k, d)
    BY <2>3 DEF Reach, SpawnFails, Expire, Answered, Broken, SpawnDaemon
  <2> QED
    BY <1>3, <2>1, <2>2, <2>3 DEF ClientStep
<1>4. CASE Substitute
  BY <1>4 DEF Substitute, clientVars
<1> QED
  BY <1>1, <1>2, <1>3, <1>4 DEF Next, vars

(* No request is executed twice, whatever daemons end and start below it:   *)
(* only a connection that was refused is tried again.                       *)
THEOREM ExecutedOnce == Spec => []AtMostOnce
<1>1. Init => Fresh /\ AtMostOnce
  BY DEF Init, Fresh, AtMostOnce
<1> QED
  BY <1>1, InitTypeOK, NextTypeOK, NextFresh, PTL DEF Spec

------------------------------------------------------------------------------
(* A daemon about to remove something, or past its own bind(2), does not     *)
(* know of a foreign object at the path.                                    *)
Unaware ==
    path = Foreign => \A d \in Daemon :
        pc[d] \in {"listen", "chmod", "undo", "unlink", "dropUnlink"} => d \in surprised

LEMMA NextUnaware == TypeOK /\ Unaware /\ [Next]_vars => Unaware'
<1> SUFFICES ASSUME TypeOK, Unaware, [Next]_vars PROVE Unaware'
  OBVIOUS
<1> USE EndpointAssumption DEF TypeOK
<1>1. CASE UNCHANGED <<path, pc, surprised>>
  BY <1>1 DEF Unaware
<1>2. ASSUME NEW d \in Daemon, DaemonStep(d) \/ Stop(d) \/ Crash(d) \/ ProbeErrs(d),
             surprised' = {e \in surprised : ~Looked(e) /\ pc'[e] \notin Ended}
      PROVE  Unaware'
  <2>1. PICK next \in PC : Goto(d, next)
    BY <1>2 DEF DaemonStep, Prepare, Bind, Listen, Chmod, Undo, Identify, Probe, ProbeErrs,
       Inspect, Unlink, DropInspect, DropUnlink, Stop, Crash, PC
  <2>2. /\ pc'[d] = next
        /\ \A e \in Daemon \ {d} :
             /\ pc'[e] = pc[e]
             /\ pc[e] \notin Ended => (e \in surprised' <=> e \in surprised)
        /\ d \in surprised /\ next \notin Ended
             /\ pc[d] \notin {"bind", "rebind", "inspect", "dropInspect"} => d \in surprised'
    BY <1>2, <2>1, OneMoves
  <2> USE DEF Unaware, Goto, Ended
  <2>3. CASE Prepare(d) \/ Probe(d) \/ ProbeErrs(d) \/ Inspect(d) \/ Crash(d)
    BY <2>2, <2>3 DEF Prepare, Probe, ProbeErrs, Inspect, Crash
  <2>4. CASE Bind(d) \/ Undo(d) \/ Unlink(d) \/ DropUnlink(d)
    BY <2>2, <2>4 DEF Bind, Undo, Unlink, DropUnlink
  <2>5. CASE Listen(d) \/ Chmod(d) \/ Identify(d)
    BY <2>2, <2>5 DEF Listen, Chmod, Identify
  <2>6. CASE Stop(d) \/ DropInspect(d)
    BY <2>2, <2>6 DEF Stop, DropInspect
  <2> QED
    BY <1>2, <2>3, <2>4, <2>5, <2>6 DEF DaemonStep
<1>3. ASSUME NEW k \in Client, ClientStep(k),
             surprised' = {e \in surprised : ~Looked(e) /\ pc'[e] \notin Ended}
      PROVE  Unaware'
  <2>1. CASE \E d \in Daemon : SpawnDaemon(k, d)
    BY <1>3, <2>1 DEF SpawnDaemon, Unaware, Goto, Looked, Ended
  <2>2. CASE ~\E d \in Daemon : SpawnDaemon(k, d)
    BY <1>3, <2>2 DEF ClientStep, Ask, Reach, SpawnFails, Expire, Execute, Answered, Broken,
       daemonVars, Unaware, Looked, Ended
  <2> QED
    BY <2>1, <2>2
<1>4. CASE Substitute
  BY <1>4 DEF Substitute, Unaware, Ended
<1> QED
  BY <1>1, <1>2, <1>3, <1>4 DEF Next, vars

(* The step by which a daemon removes something is that of a daemon that     *)
(* has not looked since.                                                    *)
LEMMA RemovesUnaware ==
    TypeOK /\ Unaware /\ [Next]_vars =>
      [path = Foreign /\ path' # Foreign /\ pc' # pc =>
         \E d \in surprised : pc[d] \in {"undo", "unlink", "dropUnlink"} /\ pc'[d] # pc[d]]_vars
<1> SUFFICES ASSUME TypeOK, Unaware, Next, path = Foreign, path' # Foreign, pc' # pc
             PROVE  \E d \in surprised :
                      pc[d] \in {"undo", "unlink", "dropUnlink"} /\ pc'[d] # pc[d]
  BY DEF vars
<1>1. ASSUME NEW k \in Client, ClientStep(k) PROVE path' = path
  BY <1>1 DEF ClientStep, Ask, Reach, SpawnFails, Expire, Execute, Answered, Broken,
     SpawnDaemon, daemonVars
<1>2. ASSUME NEW d \in Daemon, DaemonStep(d) \/ Stop(d) \/ Crash(d) \/ ProbeErrs(d)
      PROVE  Undo(d) \/ Unlink(d) \/ DropUnlink(d)
  BY <1>2, EndpointAssumption DEF DaemonStep, Prepare, Bind, Listen, Chmod, Identify, Probe,
     ProbeErrs, Inspect, DropInspect, Stop, Crash
<1>3. PICK d \in Daemon : Undo(d) \/ Unlink(d) \/ DropUnlink(d)
  BY <1>1, <1>2 DEF Next, Substitute
<1>4. pc[d] \in {"undo", "unlink", "dropUnlink"} /\ pc'[d] # pc[d]
  BY <1>3 DEF Undo, Unlink, DropUnlink, Goto, TypeOK
<1> QED
  BY <1>4 DEF Unaware

(* Whatever another program puts at the path, and in whatever race of        *)
(* starters, any of them killed: a foreign object is removed only by a      *)
(* daemon that has not made its check since the object was put there.       *)
THEOREM ForeignStays == Spec => ForeignPreserved
<1>1. Init => Unaware
  BY DEF Init, Unaware
<1> QED
  BY <1>1, InitTypeOK, NextTypeOK, NextUnaware, RemovesUnaware, PTL DEF Spec, ForeignPreserved
==============================================================================
