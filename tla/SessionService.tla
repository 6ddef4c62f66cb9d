---------------------------- MODULE SessionService ----------------------------
(***************************************************************************)
(* The session daemon of crates/novamux/src/session_service.rs and its     *)
(* local clients.  The daemon keeps one table of sessions behind one       *)
(* mutex; every accepted connection gets a thread of its own.  A client    *)
(* sends one request and waits for one answer; a client whose first        *)
(* request is Attach keeps its connection and holds the session's single   *)
(* reservation (`attached`) until its thread clears it.                    *)
(*                                                                         *)
(* Conn is the set of connection slots: a slot is a client process, its    *)
(* socket (one direction each in inbox and outbox) and the daemon thread   *)
(* that serves it.  A slot is used again once both its ends are gone.      *)
(* What a pane is does not matter here, only how many a session has: the   *)
(* pane tree itself is in PaneTree.                                        *)
(***************************************************************************)
EXTENDS Naturals, FiniteSets

CONSTANTS Name,             \* session names
          Conn,             \* connection slots
          NoConn,           \* the mutex is free
          MaxSessions,      \* MAX_LISTED_SESSIONS, 64 in the code
          MaxSnapshotPanes, \* MAX_SNAPSHOT_PANES, 32 in the code
          MaxPanes          \* bound: no client splits a session this large

ASSUME ServiceAssumption ==
    /\ Name # {}
    /\ NoConn \notin Conn
    /\ MaxSessions \in Nat \ {0}
    /\ MaxSnapshotPanes \in Nat \ {0}
    /\ MaxPanes \in Nat \ {0}

VARIABLES panes,    \* panes[n]: panes of session n, 0 when it is not hosted
          attached, \* attached[n]: HostedSession.attached
          lock,     \* the thread that holds the mutex
          pc,       \* pc[c]: where the thread of connection c is
          work,     \* work[c]: the request it read, then the response it writes
          inbox,    \* inbox[c]: the request waiting in the socket
          outbox,   \* outbox[c]: the response waiting in the socket
          client,   \* client[c]: what the client process is doing
          target    \* target[c]: the session the connection names

table == <<panes, attached, lock>>
socket == <<inbox, outbox>>
peer == <<client, target>>
vars == <<panes, attached, lock, pc, work, inbox, outbox, client, target>>

------------------------------------------------------------------------------
(* Messages.  A request that the decoder refuses is Malformed; Stray stands *)
(* for every well-formed request that is out of place where it arrives,     *)
(* such as Detach of another session.                                       *)
Nothing == "Nothing"
Named == {"Create", "Attach"}
FirstRequest == Named \cup {"Ping", "List", "Stray", "Malformed"}
PaneRequest == {"Snapshot", "Input", "Resize", "Split", "FocusNext", "Close"}
AttachedRequest == PaneRequest \cup {"UnknownCommand", "Detach", "Stray", "Malformed"}
Request == FirstRequest \cup AttachedRequest
Response == {"Pong", "Sessions", "Created", "Attached", "Screen", "Detached",
             "AlreadyExists", "NotFound", "Conflict", "Internal"}

(* Where a thread is.  "queued": accepted by the kernel, not by the daemon.   *)
(* "first", "loop": blocked in read_request.  "lock", "enter", "release":     *)
(* waiting for the mutex.  With it held, "serve": calling into the panes of   *)
(* the session, "reply", "answer": writing.  "greet": writing Attached        *)
(* without it.                                                                *)
PC == {"none", "queued", "first", "lock", "reply", "greet", "loop", "enter",
       "serve", "answer", "release"}
(* The control points between setting `attached` and clearing it. *)
Reserving == {"greet", "loop", "enter", "serve", "answer", "release"}
InCriticalSection == {"reply", "serve", "answer"}

(* A client waits for the answer to a one-shot request ("asking"), to       *)
(* Attach, to a request of its attachment, or to Detach; "detached" is a    *)
(* client whose detach() returned Ok.                                       *)
Waiting == {"asking", "attaching", "exchanging", "detaching"}
Client == Waiting \cup {"closed", "attached", "detached"}
Open(c) == client[c] \notin {"closed", "detached"}

TypeOK ==
    /\ panes \in [Name -> Nat]
    /\ attached \in [Name -> BOOLEAN]
    /\ lock \in Conn \cup {NoConn}
    /\ pc \in [Conn -> PC]
    /\ work \in [Conn -> Request \cup Response \cup {Nothing}]
    /\ inbox \in [Conn -> Request \cup {Nothing}]
    /\ outbox \in [Conn -> Response \cup {Nothing}]
    /\ client \in [Conn -> Client]
    /\ target \in [Conn -> Name]

Hosted == {n \in Name : panes[n] > 0}
Holds(c, n) == pc[c] \in Reserving /\ target[c] = n

Init ==
    /\ panes = [n \in Name |-> 0]
    /\ attached = [n \in Name |-> FALSE]
    /\ lock = NoConn
    /\ pc = [c \in Conn |-> "none"]
    /\ work = [c \in Conn |-> Nothing]
    /\ inbox = [c \in Conn |-> Nothing]
    /\ outbox = [c \in Conn |-> Nothing]
    /\ client = [c \in Conn |-> "closed"]
    /\ target \in [Conn -> Name]

------------------------------------------------------------------------------
(* The clients: send_request, AttachedClient and run_attached.              *)

(* send_request or AttachedClient::connect: connect and write the first     *)
(* request.  With Nothing it is the probe of recover_stale_socket, which    *)
(* connects and hangs up.                                                   *)
Connect(c, n, r) ==
    /\ ~Open(c)
    /\ pc[c] = "none"
    /\ pc' = [pc EXCEPT ![c] = "queued"]
    /\ inbox' = [inbox EXCEPT ![c] = r]
    /\ target' = [target EXCEPT ![c] = n]
    /\ client' = [client EXCEPT ![c] = IF r = Nothing THEN "closed"
                                       ELSE IF r = "Attach" THEN "attaching"
                                       ELSE "asking"]
    /\ UNCHANGED <<table, work, outbox>>

(* Mutant of Send: a client that does not wait for its answer. *)
SendPipelined(c, r) ==
    /\ client[c] \in {"attached", "exchanging"}
    /\ pc[c] # "none"
    /\ r = "Split" => panes[target[c]] < MaxPanes
    /\ inbox' = [inbox EXCEPT ![c] = r]
    /\ client' = [client EXCEPT ![c] = IF r = "Detach" THEN "detaching"
                                                       ELSE "exchanging"]
    /\ UNCHANGED <<table, pc, work, outbox, target>>

(* AttachedClient::exchange and detach, driven by run_attached. *)
Send(c, r) ==
    /\ client[c] = "attached"
    /\ pc[c] # "none"
    /\ r = "Split" => panes[target[c]] < MaxPanes
    /\ inbox' = [inbox EXCEPT ![c] = r]
    /\ client' = [client EXCEPT ![c] = IF r = "Detach" THEN "detaching"
                                                       ELSE "exchanging"]
    /\ UNCHANGED <<table, pc, work, outbox, target>>

Received(state, r) ==
    IF <<state, r>> \in {<<"attaching", "Attached">>, <<"exchanging", "Screen">>}
      THEN "attached"
    ELSE IF state = "detaching" /\ r = "Detached" THEN "detached"
    ELSE "closed"

(* The client reads its answer.  A one-shot client is then done; an         *)
(* attached one goes on only after the answer it wanted and otherwise       *)
(* fails, which drops its stream.                                           *)
Receive(c) ==
    /\ client[c] \in Waiting
    /\ outbox[c] # Nothing
    /\ outbox' = [outbox EXCEPT ![c] = Nothing]
    /\ client' = [client EXCEPT ![c] = Received(@, outbox[c])]
    /\ UNCHANGED <<table, pc, work, inbox, target>>

(* End of file or a broken pipe: the daemon dropped the stream. *)
HungUp(c) ==
    /\ Open(c)
    /\ pc[c] = "none"
    /\ outbox[c] = Nothing
    /\ client' = [client EXCEPT ![c] = "closed"]
    /\ UNCHANGED <<table, pc, work, socket, target>>

(* The client dies, or gives up after IO_TIMEOUT.  What it wrote stays      *)
(* readable; what it was sent is lost.                                      *)
Disconnect(c) ==
    /\ Open(c)
    /\ client' = [client EXCEPT ![c] = "closed"]
    /\ outbox' = [outbox EXCEPT ![c] = Nothing]
    /\ UNCHANGED <<table, pc, work, inbox, target>>

------------------------------------------------------------------------------
(* The daemon.                                                              *)

(* run_daemon accepts the connection and starts its thread. *)
Accept(c) ==
    /\ pc[c] = "queued"
    /\ pc' = [pc EXCEPT ![c] = "first"]
    /\ UNCHANGED <<table, work, socket, peer>>

(* accept_authenticated refuses a peer of another user: the stream drops. *)
RejectPeer(c) ==
    /\ pc[c] = "queued"
    /\ pc' = [pc EXCEPT ![c] = "none"]
    /\ inbox' = [inbox EXCEPT ![c] = Nothing]
    /\ UNCHANGED <<table, work, outbox, peer>>

(* read_request returns a request, in serve_connection or attached_loop. *)
Read(c) ==
    /\ pc[c] \in {"first", "loop"}
    /\ inbox[c] \notin {Nothing, "Malformed"}
    /\ pc' = [pc EXCEPT ![c] = IF pc[c] = "first" THEN "lock" ELSE "enter"]
    /\ work' = [work EXCEPT ![c] = inbox[c]]
    /\ inbox' = [inbox EXCEPT ![c] = Nothing]
    /\ UNCHANGED <<table, outbox, peer>>

(* Mutant of ReadFails: attached_loop(...)? returns past the release. *)
ReadFailsReturns(c) ==
    /\ pc[c] \in {"first", "loop"}
    /\ inbox[c] \in {Nothing, "Malformed"}
    /\ pc' = [pc EXCEPT ![c] = "none"]
    /\ inbox' = [inbox EXCEPT ![c] = Nothing]
    /\ UNCHANGED <<table, work, outbox, peer>>

(* Mutant of ReadFails: a failed read is tried again. *)
ReadFailsRetries(c) ==
    /\ pc[c] \in {"first", "loop"}
    /\ inbox[c] = "Malformed"
    /\ inbox' = [inbox EXCEPT ![c] = Nothing]
    /\ UNCHANGED <<table, pc, work, outbox, peer>>

(* read_request fails: end of file, IO_TIMEOUT without a request, or a      *)
(* frame that does not decode.  A thread in serve_connection ends; one in   *)
(* attached_loop returns to serve_connection, which clears the reservation. *)
ReadFails(c) ==
    /\ pc[c] \in {"first", "loop"}
    /\ inbox[c] \in {Nothing, "Malformed"}
    /\ pc' = [pc EXCEPT ![c] = IF pc[c] = "first" THEN "none" ELSE "release"]
    /\ inbox' = [inbox EXCEPT ![c] = Nothing]
    /\ UNCHANGED <<table, work, outbox, peer>>

(* The thread takes the mutex and has response r to write under it. *)
Respond(c, r) ==
    /\ lock = NoConn
    /\ lock' = c
    /\ pc' = [pc EXCEPT ![c] = "reply"]
    /\ work' = [work EXCEPT ![c] = r]
    /\ UNCHANGED <<socket, peer>>

(* Mutants of CreateResponse: the limit is one too high; an existing name   *)
(* is overwritten.                                                          *)
CreateResponseOverLimit(n) ==
    IF n \in Hosted THEN {"AlreadyExists"}
    ELSE IF Cardinality(Hosted) > MaxSessions THEN {"Conflict"}
    ELSE {"Created", "Internal"}
CreateResponseOverwrites(n) ==
    IF n \notin Hosted /\ Cardinality(Hosted) >= MaxSessions THEN {"Conflict"}
    ELSE {"Created", "Internal"}

(* dispatch: every first request but Attach.  Create may fail to spawn the  *)
(* PTY of the first pane.                                                   *)
CreateResponse(n) ==
    IF n \in Hosted THEN {"AlreadyExists"}
    ELSE IF Cardinality(Hosted) >= MaxSessions THEN {"Conflict"}
    ELSE {"Created", "Internal"}

Dispatch(c) ==
    /\ pc[c] = "lock"
    /\ \/ /\ work[c] = "Ping"
          /\ Respond(c, "Pong")
          /\ UNCHANGED panes
       \/ /\ work[c] = "List"
          /\ Respond(c, "Sessions")
          /\ UNCHANGED panes
       \/ /\ work[c] \notin {"Ping", "List", "Create", "Attach"}
          /\ Respond(c, "Conflict")
          /\ UNCHANGED panes
       \/ /\ work[c] = "Create"
          /\ \E r \in CreateResponse(target[c]) :
               /\ Respond(c, r)
               /\ panes' = IF r = "Created" THEN [panes EXCEPT ![target[c]] = 1]
                                            ELSE panes
    /\ UNCHANGED attached

(* serve_connection refuses an Attach; the refusal is written with the     *)
(* mutex held.                                                              *)
AttachRefused(c) ==
    /\ pc[c] = "lock"
    /\ work[c] = "Attach"
    /\ \/ /\ target[c] \notin Hosted
          /\ Respond(c, "NotFound")
       \/ /\ target[c] \in Hosted
          /\ attached[target[c]]
          /\ Respond(c, "Conflict")
    /\ UNCHANGED <<panes, attached>>

(* Mutant of AttachReserve: the flag is not looked at. *)
AttachReserveUnchecked(c) ==
    /\ pc[c] = "lock"
    /\ work[c] = "Attach"
    /\ lock = NoConn
    /\ target[c] \in Hosted
    /\ attached' = [attached EXCEPT ![target[c]] = TRUE]
    /\ pc' = [pc EXCEPT ![c] = "greet"]
    /\ work' = [work EXCEPT ![c] = "Attached"]
    /\ UNCHANGED <<panes, lock, socket, peer>>

(* serve_connection reserves the session; the mutex is free again before   *)
(* Attached is written.                                                     *)
AttachReserve(c) ==
    /\ pc[c] = "lock"
    /\ work[c] = "Attach"
    /\ lock = NoConn
    /\ target[c] \in Hosted
    /\ ~attached[target[c]]
    /\ attached' = [attached EXCEPT ![target[c]] = TRUE]
    /\ pc' = [pc EXCEPT ![c] = "greet"]
    /\ work' = [work EXCEPT ![c] = "Attached"]
    /\ UNCHANGED <<panes, lock, socket, peer>>

(* write_response to a peer that may have closed its end. *)
Deliver(c) ==
    outbox' = IF Open(c) THEN [outbox EXCEPT ![c] = work[c]] ELSE outbox

(* The last write of a connection that does not attach.  The thread ends    *)
(* whether or not it succeeds, and the mutex is free.                       *)
Reply(c) ==
    /\ pc[c] = "reply"
    /\ Deliver(c)
    /\ pc' = [pc EXCEPT ![c] = "none"]
    /\ work' = [work EXCEPT ![c] = Nothing]
    /\ lock' = NoConn
    /\ UNCHANGED <<panes, attached, inbox, peer>>

(* write_response(Attached)?: when it fails serve_connection returns at     *)
(* once, past the code that clears `attached`.                              *)
Greet(c) ==
    /\ pc[c] = "greet"
    /\ Deliver(c)
    /\ pc' = [pc EXCEPT ![c] = IF Open(c) THEN "loop" ELSE "none"]
    /\ work' = [work EXCEPT ![c] = Nothing]
    /\ UNCHANGED <<table, inbox, peer>>

(* Mutant of PanesAfter: a close that forgets the last pane and removes the *)
(* pane and its sibling.                                                    *)
PanesAfterUnguarded(r, k, done) ==
    IF r = "Split" /\ done THEN k + 1
    ELSE IF r = "Close" THEN k - 2
    ELSE k

(* HostedSession::command and its siblings, on the number of panes.  A      *)
(* split adds its pane unless the PTY cannot be spawned; the last pane is   *)
(* never closed.                                                            *)
PanesAfter(r, k, done) ==
    IF r = "Split" /\ done THEN k + 1
    ELSE IF r = "Close" /\ k > 1 THEN k - 1
    ELSE k

ResponseTo(r) == IF r = "Detach" THEN "Detached"
                 ELSE IF r \in PaneRequest THEN "Screen"
                 ELSE "Conflict"

(* attached_loop takes the mutex for the request it has read. *)
Enter(c) ==
    /\ pc[c] = "enter"
    /\ lock = NoConn
    /\ lock' = c
    /\ pc' = [pc EXCEPT ![c] = "serve"]
    /\ UNCHANGED <<panes, attached, work, socket, peer>>

(* Mutant of Serve: Detach already clears the flag under the mutex, and     *)
(* Release clears it again.                                                 *)
ServeReleases(c) ==
    /\ pc[c] = "serve"
    /\ work[c] # "UnknownCommand"
    /\ target[c] \in Hosted
    /\ pc' = [pc EXCEPT ![c] = "answer"]
    /\ work' = [work EXCEPT ![c] = ResponseTo(@)]
    /\ panes' = [panes EXCEPT ![target[c]] = PanesAfter(work[c], @, TRUE)]
    /\ attached' = [attached EXCEPT ![target[c]] = @ /\ work[c] # "Detach"]
    /\ UNCHANGED <<lock, socket, peer>>

(* attached_loop serves one request: the panes' PTYs are spawned, written,  *)
(* resized, terminated and read while every other thread waits.             *)
Serve(c) ==
    /\ pc[c] = "serve"
    /\ work[c] # "UnknownCommand"
    /\ target[c] \in Hosted
    /\ pc' = [pc EXCEPT ![c] = "answer"]
    /\ work' = [work EXCEPT ![c] = ResponseTo(@)]
    /\ panes' = [panes EXCEPT ![target[c]] = PanesAfter(work[c], @, TRUE)]
    /\ UNCHANGED <<attached, lock, socket, peer>>

(* The ? operators of attached_loop: a PTY cannot be spawned, written,      *)
(* resized, terminated or read, the command is unknown, or the session is   *)
(* gone.  No response is written.  A failure may follow the change it       *)
(* belongs to: a split whose resize fails has split.                        *)
ServeFails(c) ==
    /\ pc[c] = "serve"
    /\ work[c] \in PaneRequest \cup {"UnknownCommand"} \/ target[c] \notin Hosted
    /\ IF target[c] \in Hosted
         THEN \E done \in BOOLEAN :
                panes' = [panes EXCEPT ![target[c]] = PanesAfter(work[c], @, done)]
         ELSE UNCHANGED panes
    /\ pc' = [pc EXCEPT ![c] = "release"]
    /\ work' = [work EXCEPT ![c] = Nothing]
    /\ lock' = NoConn
    /\ UNCHANGED <<attached, socket, peer>>

(* encode_response refuses a screen of more than MAX_SNAPSHOT_PANES panes. *)
Encodable(c) == work[c] = "Screen" => panes[target[c]] <= MaxSnapshotPanes

(* Mutant of Answer: the guard is still alive when the loop has returned    *)
(* and the reservation is to be cleared.                                    *)
AnswerKeepsMutex(c) ==
    /\ pc[c] = "answer"
    /\ IF Encodable(c) THEN Deliver(c) ELSE UNCHANGED outbox
    /\ pc' = [pc EXCEPT ![c] = IF Encodable(c) /\ Open(c) /\ work[c] # "Detached"
                                 THEN "loop" ELSE "release"]
    /\ work' = [work EXCEPT ![c] = Nothing]
    /\ lock' = IF pc'[c] = "loop" THEN NoConn ELSE c
    /\ UNCHANGED <<panes, attached, inbox, peer>>

(* attached_loop writes its response with the mutex held.  A failed write   *)
(* or a Detached ends the loop; the reservation is cleared only after the   *)
(* mutex is taken again.                                                    *)
Answer(c) ==
    /\ pc[c] = "answer"
    /\ IF Encodable(c) THEN Deliver(c) ELSE UNCHANGED outbox
    /\ pc' = [pc EXCEPT ![c] = IF Encodable(c) /\ Open(c) /\ work[c] # "Detached"
                                 THEN "loop" ELSE "release"]
    /\ work' = [work EXCEPT ![c] = Nothing]
    /\ lock' = NoConn
    /\ UNCHANGED <<panes, attached, inbox, peer>>

(* serve_connection clears the reservation and ends, dropping the stream. *)
Release(c) ==
    /\ pc[c] = "release"
    /\ lock = NoConn
    /\ attached' = [attached EXCEPT ![target[c]] = FALSE]
    /\ pc' = [pc EXCEPT ![c] = "none"]
    /\ inbox' = [inbox EXCEPT ![c] = Nothing]
    /\ UNCHANGED <<panes, lock, work, outbox, peer>>

(* run_daemon returns because accept or the thread's spawn failed, or the   *)
(* process is killed: every thread and every session go with it.  A later   *)
(* client starts an empty daemon.                                           *)
DaemonExit ==
    /\ panes' = [n \in Name |-> 0]
    /\ attached' = [n \in Name |-> FALSE]
    /\ lock' = NoConn
    /\ pc' = [c \in Conn |-> "none"]
    /\ work' = [c \in Conn |-> Nothing]
    /\ inbox' = [c \in Conn |-> Nothing]
    /\ UNCHANGED <<outbox, peer>>

------------------------------------------------------------------------------
(* A Stray or nameless request leaves the target as it is: its name plays   *)
(* no part.                                                                 *)
ClientStep(c) ==
    \/ \E n \in Name, r \in FirstRequest \cup {Nothing} :
         /\ r \in Named \/ n = target[c]
         /\ Connect(c, n, r)
    \/ \E r \in AttachedRequest : Send(c, r)
    \/ Receive(c)
    \/ HungUp(c)
    \/ Disconnect(c)

ReadStep(c) == Read(c) \/ ReadFails(c)
LockStep(c) ==
    Dispatch(c) \/ AttachRefused(c) \/ AttachReserve(c) \/ Enter(c) \/ Release(c)
PaneStep(c) == Serve(c) \/ ServeFails(c)
WriteStep(c) == Reply(c) \/ Greet(c) \/ Answer(c)

DaemonStep(c) ==
    \/ Accept(c) \/ RejectPeer(c)
    \/ ReadStep(c) \/ LockStep(c) \/ PaneStep(c) \/ WriteStep(c)

Next == (\E c \in Conn : ClientStep(c) \/ DaemonStep(c)) \/ DaemonExit

(* Every read and write of the daemon and of a waiting client ends, by      *)
(* IO_TIMEOUT at the latest.  A thread that waits for the mutex is woken    *)
(* while it is free again and again: the holder returns to a blocking read  *)
(* between any two of its turns.  Nothing makes a client send, and nothing  *)
(* in the daemon makes a call into a pane return: a PTY whose program does  *)
(* not read blocks its writer, and terminate waits for the pane's output to *)
(* end.                                                                     *)
Fairness ==
    \A c \in Conn :
        /\ WF_vars(Accept(c))
        /\ WF_vars(ReadStep(c))
        /\ WF_vars(WriteStep(c))
        /\ SF_vars(LockStep(c))
        /\ WF_vars(Receive(c))
        /\ WF_vars(HungUp(c))

Spec == Init /\ [][Next]_vars
FairSpec == Spec /\ Fairness

------------------------------------------------------------------------------
(* Safety.                                                                  *)

(* At most one connection at a time stands between setting and clearing a   *)
(* session's `attached` flag, so no thread clears the reservation of        *)
(* another.                                                                 *)
OneAttachment ==
    \A n \in Name : \A c, d \in Conn : Holds(c, n) /\ Holds(d, n) => c = d

(* A thread in attached_loop works on a session that is hosted and whose    *)
(* flag is still set: "attached session disappeared" is unreachable.        *)
HolderReserved ==
    \A c \in Conn : pc[c] \in Reserving =>
        target[c] \in Hosted /\ attached[target[c]]

(* The mutex is owned by exactly the thread that writes under it. *)
MutexOwner == \A c \in Conn : pc[c] \in InCriticalSection <=> lock = c

(* Requests and responses alternate on a connection: a response waits only  *)
(* for a client that waits for it, never beside a request, and never where  *)
(* the thread is still to write another; and it is a response to what the   *)
(* client asked, so that no exchange reads the answer of another one.       *)
(* Never do both ends wait for the other to write: it is not IO_TIMEOUT     *)
(* that ends an exchange of two live ends.                                  *)
AnswersMatch ==
    \A c \in Conn :
        /\ outbox[c] # Nothing =>
             /\ client[c] \in Waiting
             /\ inbox[c] = Nothing
             /\ pc[c] \in {"none", "loop", "release"}
             /\ outbox[c] = "Attached" => client[c] = "attaching"
             /\ outbox[c] = "Screen" => client[c] = "exchanging"
             /\ outbox[c] = "Detached" => client[c] = "detaching"
        /\ client[c] \in Waiting /\ pc[c] \in {"queued", "first", "loop"} =>
             inbox[c] # Nothing \/ outbox[c] # Nothing

(* The table never outgrows what one Sessions response can list. *)
ListEncodable == Cardinality(Hosted) <= MaxSessions

------------------------------------------------------------------------------
(* What a step may never do.                                                *)

Leaked(n) == attached[n] /\ \A c \in Conn : ~Holds(c, n)

(* A reservation that no thread will clear comes from one place only, the   *)
(* early return of serve_connection when Attached cannot be written.        *)
LeaksOnlyInGreet ==
    [][\A n \in Name : ~Leaked(n) /\ Leaked(n)' =>
         \E c \in Conn : pc[c] = "greet" /\ pc'[c] = "none" /\ ~Open(c)]_vars

(* The panes of a hosted session change only by a request of the client     *)
(* attached to it: no client disturbs a session it is not attached to, and  *)
(* detached sessions stay as they were.  (DaemonExit ends all of them.)     *)
OnlyHolderChangesPanes ==
    [][\A n \in Name : n \in Hosted /\ panes'[n] # panes[n] =>
         \/ Hosted' = {}
         \/ \E c \in Conn : Holds(c, n) /\ lock = c /\ pc[c] = "serve"]_vars

------------------------------------------------------------------------------
(* The reservation as its users see it.                                     *)
Holder(n) ==
    IF ~attached[n] THEN "free"
    ELSE IF Leaked(n) THEN "stuck"
    ELSE CHOOSE c \in Conn : Holds(c, n)

Reservation == INSTANCE Attachment WITH
    hosted <- Hosted, holder <- [n \in Name |-> Holder(n)]

(* The daemon implements Attachment: a session passes from one client to    *)
(* the next only through free.                                              *)
ImplementsAttachment == Reservation!Spec

------------------------------------------------------------------------------
(* Liveness, under FairSpec.                                                *)

(* No call into a pane blocks for ever. *)
PaneCallsReturn == \A c \in Conn : []<>(pc[c] # "serve")

(* Unless such a call does, a client that waits gets an answer or the end   *)
(* of its connection, whatever the other clients do.                        *)
ClientsAnswered ==
    PaneCallsReturn =>
        \A c \in Conn : client[c] \in Waiting ~> client[c] \notin Waiting

(* Likewise the thread of a client that is gone ends, and its reservation   *)
(* with it unless it leaks in Greet.                                        *)
ThreadsEnd ==
    PaneCallsReturn =>
        \A c \in Conn : ~Open(c) ~> (Open(c) \/ pc[c] = "none")

------------------------------------------------------------------------------
(* What the repository's text says and the code does not do.                *)

(* README.md and SECURITY.md: an unexpected disconnect releases the client  *)
(* reservation.  Greet returns without clearing it.                         *)
Deserted(n) == \A c \in Conn : target[c] = n => ~Open(c)
DisconnectReleases ==
    \A n \in Name : attached[n] /\ Deserted(n) ~> ~attached[n] \/ ~Deserted(n)

(* The comment on AttachedClient::detach: it releases the attachment.  The  *)
(* Detached response is on its way before the flag is cleared.              *)
DetachedIsReleased ==
    \A c \in Conn : client[c] = "detached" => pc[c] \notin Reserving

(* README.md: running attach again restores the latest bounded screen       *)
(* state.  A session may be split beyond what a Screen can carry.           *)
ScreenEncodable == \A c \in Conn : pc[c] = "answer" => Encodable(c)

==============================================================================
