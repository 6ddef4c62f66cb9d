------------------------------- MODULE Endpoint -------------------------------
(***************************************************************************)
(* The private endpoint of the session daemon: how starters of             *)
(* crates/novamux/src/session_transport.rs claim the control socket, one   *)
(* system call a step, and how the clients of session_service.rs find or   *)
(* start a daemon (request_with_autostart).                                *)
(*                                                                         *)
(* A daemon process binds at most once, so the socket it creates is named  *)
(* after it: path is the daemon whose socket stands at control.sock, a     *)
(* Foreign object, or NoEntry.  The kernel refuses a connection unless the *)
(* daemon of that socket listens.                                          *)
(***************************************************************************)
EXTENDS Naturals

CONSTANTS Daemon,  \* daemon processes, each started once
          Client,  \* client processes
          NoEntry, \* nothing stands at the socket's path
          Foreign  \* something stands there that is no socket of this user

ASSUME EndpointAssumption ==
    NoEntry \notin Daemon /\ Foreign \notin Daemon /\ NoEntry # Foreign

VARIABLES dir,      \* the runtime directory
          path,     \* what stands at control.sock
          pc,       \* pc[d]: the system call daemon process d is about to make
          identity, \* identity[d]: LocalEndpoint.socket_identity
          client,   \* client[k]: where the request of client k is
          server,   \* server[k]: the daemon client k is connected to
          executed, \* history: how often the request of client k was executed
          overlapped, \* history: two daemons have been between two of
                      \* their system calls on the path at once
          misprobed,  \* history: a probe has failed although the daemon
                      \* it was for listens
          surprised   \* history: the daemons that have not looked at the path
                      \* since something else was put there, or taken away

daemonVars == <<dir, path, pc, identity>>
clientVars == <<client, server, executed>>
vars == <<dir, path, pc, identity, client, server, executed, overlapped, misprobed,
          surprised>>

PC == {"unborn", "prepare", "bind", "listen", "chmod", "undo", "identify", "serving",
       "probe", "inspect", "unlink", "rebind", "dropInspect", "dropUnlink", "gone",
       "killed"}
ClientState == {"idle", "first", "retry", "connected", "executed", "served", "failed"}
Ended == {"gone", "killed"}

TypeOK ==
    /\ dir \in {"absent", "private", "insecure"}
    /\ path \in Daemon \cup {NoEntry, Foreign}
    /\ pc \in [Daemon -> PC]
    /\ identity \in [Daemon -> Daemon \cup {NoEntry, Foreign}]
    /\ client \in [Client -> ClientState]
    /\ server \in [Client -> Daemon \cup {NoEntry}]
    /\ executed \in [Client -> Nat]
    /\ overlapped \in BOOLEAN
    /\ misprobed \in BOOLEAN
    /\ surprised \subseteq Daemon

(* The listener is open until the process ends; Drop for LocalEndpoint runs *)
(* before it is closed.                                                     *)
Listening(d) ==
    pc[d] \in {"chmod", "undo", "identify", "serving", "dropInspect", "dropUnlink"}
Connectable == path \in Daemon /\ Listening(path)

(* Between two of its system calls on the path. *)
Busy(d) == pc[d] \notin {"unborn", "prepare", "bind", "serving"} \cup Ended

Init ==
    /\ dir \in {"absent", "private", "insecure"}
    /\ path \in {NoEntry, Foreign}
    /\ dir = "absent" => path = NoEntry
    /\ pc = [d \in Daemon |-> "unborn"]
    /\ identity = [d \in Daemon |-> NoEntry]
    /\ client = [k \in Client |-> "idle"]
    /\ server = [k \in Client |-> NoEntry]
    /\ executed = [k \in Client |-> 0]
    /\ overlapped = FALSE
    /\ misprobed = FALSE
    /\ surprised = {}

Goto(d, next) == pc' = [pc EXCEPT ![d] = next]

------------------------------------------------------------------------------
(* LocalEndpoint::bind.                                                     *)

(* ensure_runtime_dir and validate_socket_path: a directory that another    *)
(* starter has just created is as good as one's own.                        *)
Prepare(d) ==
    /\ pc[d] = "prepare"
    /\ dir' = IF dir = "absent" THEN "private" ELSE dir
    /\ Goto(d, IF dir = "insecure" THEN "gone" ELSE "bind")
    /\ UNCHANGED <<path, identity, clientVars>>

(* UnixListener::bind, its bind(2); rebind is the second attempt, after     *)
(* recover_stale_socket.                                                    *)
Bind(d) ==
    /\ pc[d] \in {"bind", "rebind"}
    /\ IF path = NoEntry
         THEN path' = d /\ Goto(d, "listen")
         ELSE UNCHANGED path /\ Goto(d, IF pc[d] = "bind" THEN "probe" ELSE "gone")
    /\ UNCHANGED <<dir, identity, clientVars>>

(* UnixListener::bind, its listen(2). *)
Listen(d) ==
    /\ pc[d] = "listen"
    /\ Goto(d, "chmod")
    /\ UNCHANGED <<dir, path, identity, clientVars>>

(* bind_private: set_permissions goes by path, whatever stands there now; it *)
(* may fail, and does where nothing stands.                                  *)
Chmod(d) ==
    /\ pc[d] = "chmod"
    /\ \/ path # NoEntry /\ Goto(d, "identify")
       \/ Goto(d, "undo")
    /\ UNCHANGED <<dir, path, identity, clientVars>>

(* bind_private: remove_file after set_permissions has failed, of whatever *)
(* stands there.                                                           *)
Undo(d) ==
    /\ pc[d] = "undo"
    /\ path' = NoEntry
    /\ Goto(d, "gone")
    /\ UNCHANGED <<dir, identity, clientVars>>

(* from_bound: the identity is what stands at the path by now. *)
Identify(d) ==
    /\ pc[d] = "identify"
    /\ identity' = [identity EXCEPT ![d] = path]
    /\ Goto(d, IF path = NoEntry THEN "gone" ELSE "serving")
    /\ UNCHANGED <<dir, path, clientVars>>

(* Mutant of Probe: a socket in the way is taken for a stale one. *)
ProbeSkipped(d) ==
    /\ pc[d] = "probe"
    /\ Goto(d, "inspect")
    /\ UNCHANGED <<dir, path, identity, clientVars>>

(* recover_stale_socket: a connection that succeeds means AlreadyRunning. *)
Probe(d) ==
    /\ pc[d] = "probe"
    /\ Goto(d, IF Connectable THEN "gone" ELSE "inspect")
    /\ UNCHANGED <<dir, path, identity, clientVars>>

(* The same, when connect fails for a reason of its own (no descriptors     *)
(* left, an interrupted call): is_ok() tells it from nothing else.          *)
ProbeErrs(d) ==
    /\ pc[d] = "probe"
    /\ Connectable
    /\ Goto(d, "inspect")
    /\ UNCHANGED <<dir, path, identity, clientVars>>

(* Mutant of Inspect: what stands at the path is taken for a stale socket. *)
InspectUnvalidated(d) ==
    /\ pc[d] = "inspect"
    /\ Goto(d, IF path # NoEntry THEN "unlink" ELSE "gone")
    /\ UNCHANGED <<dir, path, identity, clientVars>>

(* validate_stale_socket. *)
Inspect(d) ==
    /\ pc[d] = "inspect"
    /\ Goto(d, IF path \in Daemon THEN "unlink" ELSE "gone")
    /\ UNCHANGED <<dir, path, identity, clientVars>>

(* Mutant of Unlink: the stale socket is left for bind to replace. *)
UnlinkSkipped(d) ==
    /\ pc[d] = "unlink"
    /\ Goto(d, "rebind")
    /\ UNCHANGED <<dir, path, identity, clientVars>>

(* remove_file removes what stands there now; it need not be what Probe or  *)
(* Inspect looked at.                                                       *)
Unlink(d) ==
    /\ pc[d] = "unlink"
    /\ path' = NoEntry
    /\ Goto(d, IF path = NoEntry THEN "gone" ELSE "rebind")
    /\ UNCHANGED <<dir, identity, clientVars>>

------------------------------------------------------------------------------
(* The end of a daemon.                                                     *)

(* run_daemon returns an error of accept or of a thread's spawn. *)
Stop(d) ==
    /\ pc[d] = "serving"
    /\ Goto(d, "dropInspect")
    /\ UNCHANGED <<dir, path, identity, clientVars>>

(* Drop for LocalEndpoint compares what stands at the path, *)
DropInspect(d) ==
    /\ pc[d] = "dropInspect"
    /\ Goto(d, IF path \in Daemon /\ path = identity[d] THEN "dropUnlink" ELSE "gone")
    /\ UNCHANGED <<dir, path, identity, clientVars>>

(* and removes what stands there then. *)
DropUnlink(d) ==
    /\ pc[d] = "dropUnlink"
    /\ path' = NoEntry
    /\ Goto(d, "gone")
    /\ UNCHANGED <<dir, identity, clientVars>>

(* The process is killed: its socket stays. *)
Crash(d) ==
    /\ pc[d] \notin {"unborn"} \cup Ended
    /\ Goto(d, "killed")
    /\ UNCHANGED <<dir, path, identity, clientVars>>

------------------------------------------------------------------------------
(* The clients.                                                             *)

(* A command of the user: request_with_autostart. *)
Ask(k) ==
    /\ client[k] \in {"idle", "served", "failed"}
    /\ client' = [client EXCEPT ![k] = "first"]
    /\ server' = [server EXCEPT ![k] = NoEntry]
    /\ executed' = [executed EXCEPT ![k] = 0]
    /\ UNCHANGED daemonVars

(* Mutant of Reach: whatever stands at the path is taken for a daemon. *)
ReachAnything(k) ==
    /\ client[k] \in {"first", "retry"}
    /\ path # NoEntry
    /\ client' = [client EXCEPT ![k] = "connected"]
    /\ server' = [server EXCEPT ![k] = path]
    /\ UNCHANGED <<daemonVars, executed>>

(* send_request connects. *)
Reach(k) ==
    /\ client[k] \in {"first", "retry"}
    /\ Connectable
    /\ client' = [client EXCEPT ![k] = "connected"]
    /\ server' = [server EXCEPT ![k] = path]
    /\ UNCHANGED <<daemonVars, executed>>

(* NotFound or ConnectionRefused: spawn_daemon, once. *)
SpawnDaemon(k, d) ==
    /\ client[k] = "first"
    /\ ~Connectable
    /\ pc[d] = "unborn"
    /\ Goto(d, "prepare")
    /\ client' = [client EXCEPT ![k] = "retry"]
    /\ UNCHANGED <<dir, path, identity, server, executed>>

(* spawn_daemon returns an error: no executable, no process. *)
SpawnFails(k) ==
    /\ client[k] = "first"
    /\ ~Connectable
    /\ client' = [client EXCEPT ![k] = "failed"]
    /\ UNCHANGED <<daemonVars, server, executed>>

(* START_TIMEOUT has passed without a connection. *)
Expire(k) ==
    /\ client[k] = "retry"
    /\ ~Connectable
    /\ client' = [client EXCEPT ![k] = "failed"]
    /\ UNCHANGED <<daemonVars, server, executed>>

(* A thread of the daemon accepts the connection and serves the request. *)
Execute(k) ==
    /\ client[k] = "connected"
    /\ pc[server[k]] = "serving"
    /\ client' = [client EXCEPT ![k] = "executed"]
    /\ executed' = [executed EXCEPT ![k] = @ + 1]
    /\ UNCHANGED <<daemonVars, server>>

Answered(k) ==
    /\ client[k] = "executed"
    /\ client' = [client EXCEPT ![k] = "served"]
    /\ UNCHANGED <<daemonVars, server, executed>>

(* Mutant of Broken: a lost connection is tried again like a refused one. *)
BrokenRetries(k) ==
    /\ client[k] \in {"connected", "executed"}
    /\ pc[server[k]] \in Ended
    /\ client' = [client EXCEPT ![k] = "retry"]
    /\ UNCHANGED <<daemonVars, server, executed>>

(* The daemon ended with the request in its backlog or in a thread's hand.  *)
(* The error is not one that request_with_autostart tries again.            *)
Broken(k) ==
    /\ client[k] \in {"connected", "executed"}
    /\ pc[server[k]] \in Ended
    /\ client' = [client EXCEPT ![k] = "failed"]
    /\ UNCHANGED <<daemonVars, server, executed>>

------------------------------------------------------------------------------
DaemonStep(d) ==
    \/ Prepare(d) \/ Bind(d) \/ Listen(d) \/ Chmod(d) \/ Undo(d) \/ Identify(d)
    \/ Probe(d) \/ Inspect(d) \/ Unlink(d) \/ DropInspect(d) \/ DropUnlink(d)

ClientStep(k) ==
    \/ Ask(k) \/ Reach(k) \/ SpawnFails(k) \/ Expire(k)
    \/ Execute(k) \/ Answered(k) \/ Broken(k)
    \/ \E d \in Daemon : SpawnDaemon(k, d)

(* Another program of the user removes what stands at the path, or puts      *)
(* something else there, as the test of a substituted socket does.           *)
Substitute ==
    /\ dir # "absent"
    /\ path' \in {NoEntry, Foreign} \ {path}
    /\ surprised' = {d \in Daemon : pc[d] \notin {"unborn", "prepare", "bind"} \cup Ended}
    /\ UNCHANGED <<dir, pc, identity, clientVars, misprobed>>

(* bind(2), and the symlink_metadata before a remove_file. *)
Looked(d) == pc[d] \in {"bind", "rebind", "inspect", "dropInspect"} /\ pc'[d] # pc[d]

Overlap == \E d, e \in Daemon : d # e /\ Busy(d) /\ Busy(e)

Next ==
    /\ \/ /\ \/ /\ \/ \E d \in Daemon : DaemonStep(d) \/ Stop(d) \/ Crash(d)
                   \/ \E k \in Client : ClientStep(k)
                /\ UNCHANGED misprobed
             \/ /\ \E d \in Daemon : ProbeErrs(d)
                /\ misprobed' = TRUE
          /\ surprised' = {d \in surprised : ~Looked(d) /\ pc'[d] \notin Ended}
       \/ Substitute
    /\ overlapped' = (overlapped \/ Overlap')

Spec == Init /\ [][Next]_vars

(* A started daemon runs: nothing in bind or drop waits for anyone. *)
FairSpec == Spec /\ \A d \in Daemon : WF_daemonVars(DaemonStep(d))

------------------------------------------------------------------------------
(* Where starters come one after another and connects fail only for want of *)
(* a listener, one daemon at most serves at the path where clients look,    *)
(* and its Drop will know its own socket, unless somebody else has touched  *)
(* the path since it was bound.                                             *)
SequentialStartersSafe ==
    ~overlapped /\ ~misprobed =>
        \A d \in Daemon : pc[d] = "serving" /\ d \notin surprised =>
            path = d /\ identity[d] = d

(* A daemon removes what is no socket of this user only if it has been put  *)
(* there since that daemon last looked: since its bind(2) when it undoes    *)
(* it, since validate_stale_socket, or since Drop's comparison.             *)
ForeignPreserved ==
    [][path = Foreign /\ path' # Foreign /\ pc' # pc =>
         \E d \in surprised : pc[d] \in {"undo", "unlink", "dropUnlink"} /\ pc'[d] # pc[d]]_vars

(* A request is executed at most once, however often the client knocks: it  *)
(* retries only where no daemon can have read it.                           *)
AtMostOnce == \A k \in Client : executed[k] <= 1

(* A daemon that starts alone ends with a daemon that clients reach: a      *)
(* stale socket or a missing directory does not stop it.                    *)
StaleSocketRecovered ==
    \A d \in Daemon : pc[d] = "prepare" ~>
        \/ Connectable
        \/ pc[d] = "killed" \/ overlapped \/ path = Foreign \/ dir = "insecure"
        \/ d \in surprised

------------------------------------------------------------------------------
(* What SECURITY.md says of concurrent starters: only one can bind the      *)
(* endpoint, and the losing ones exit.  Probe refuses a socket that is bound *)
(* but does not listen yet, and Unlink removes one that another starter has  *)
(* bound since Probe.                                                        *)
SingleDaemon ==
    ~misprobed => \A d, e \in Daemon \ surprised :
        pc[d] = "serving" /\ pc[e] = "serving" => d = e

(* The comment in Drop for LocalEndpoint: "Never remove an object            *)
(* substituted after binding".  One that is substituted between the          *)
(* comparison and remove_file is removed.                                    *)
DropKeepsSubstitute ==
    [][\A d \in Daemon : pc[d] = "dropUnlink" /\ pc'[d] = "gone" => path # Foreign]_vars

==============================================================================
