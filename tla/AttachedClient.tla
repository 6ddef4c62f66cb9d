---------------------------- MODULE AttachedClient ----------------------------
(***************************************************************************)
(* One client process from its start to its end, the connection it makes   *)
(* and the thread of the daemon that serves it: `new` and `list` (main.rs) *)
(* with the probe request_with_autostart sends, and `attach`, which loads  *)
(* the configuration and runs the loop of run_attached (tui.rs).           *)
(*                                                                         *)
(* What goes over the socket are the bytes of Codec's frames, which arrive *)
(* in pieces.  The competition of several clients is SessionService's, the *)
(* tree and the rectangles of the panes are HostedSession's: here a pane   *)
(* is the text it shows, and a split adds one.                             *)
(*                                                                         *)
(* Time: every round of the client's loop takes some.  quiet counts the    *)
(* rounds begun since its last request, and Patience of them take the      *)
(* daemon's IO_TIMEOUT; held counts the events read since that request.    *)
(***************************************************************************)
EXTENDS Codec, Configuration

CONSTANTS SessionNames, \* the names clients use, as bytes
          Table,        \* the sessions a daemon may have when the client starts
          Piece,        \* bound: sizes of the pieces a frame arrives in, but for its last
          Text,         \* what a pane may show and an error may say
          File,         \* configuration files
          Probe,        \* bytes a frame is tried with
          Patience,     \* rounds of the loop within IO_TIMEOUT
          MaxPanes      \* bound: no client splits a session this large

ASSUME ClientAssumption ==
    /\ Patience \in Nat \ {0} /\ MaxPanes \in Nat \ {0}
    /\ \A f \in File : f.kind = "text" => IsText(f.lines)

(* Names have passed SessionName::parse, no table has outgrown the limit of *)
(* create, and what a pane shows and an error says are Strings.             *)
ASSUME ContentAssumption ==
    /\ SessionNames \subseteq Name
    /\ \A t \in Table : IsFiniteSet(t) /\ t \subseteq Name /\ Cardinality(t) <= MaxListedSessions
    /\ \A t \in Text : t \in Seq(Byte) /\ Utf8(t)
    /\ Probe \subseteq Byte

VARIABLES
    \* the client
    pc, name, file, loaded, scenes, saver, copy, pending, rest, quiet, held, stalled,
    asked,  \* the request that waits for its response
    answer, \* the latest response
    \* the connection: bytes still to be written, and written ones to be read
    up, down,
    \* the daemon
    dpc,
    why,    \* why it has dropped the connection
    request, reply, hosted, texts

local == <<name, file, loaded, scenes>>
modes == <<saver, copy, pending, rest>>
clock == <<quiet, held, stalled>>
client == <<pc, local, modes, clock, asked, answer>>
daemon == <<dpc, why, request, reply, hosted, texts>>
vars == <<client, up, down, daemon>>

Nothing == [kind |-> "nothing"]
Absent == [kind |-> "absent"]
Pipe == [unsent |-> <<>>, arrived |-> <<>>]
Named(kind, n) == [kind |-> kind, name |-> n]
Nonce == <<0, 0, 0, 0, 0, 0, 0, 0>>

FirstRequests ==
    {[kind |-> "LIST"], [kind |-> "PING", nonce |-> Nonce],
     Named("CREATE", name), Named("ATTACH", name)}

Ended == {"left", "failed"}
Reading == {"first", "loop"}
Writing == {"greet", "answer", "close"}

TypeOK ==
    /\ pc \in {"load", "loaded", "connect", "enter", "draw", "poll", "route", "await"} \cup Ended
    /\ dpc \in {"none", "dispatch", "serve", "gone"} \cup Reading \cup Writing
    /\ why \in {"", "done", "eof", "timeout", "malformed", "unencodable", "runtime"}
    /\ {scenes, saver, copy, pending, stalled} \subseteq BOOLEAN
    /\ quiet \in 0..Patience /\ held \in 0..Patience
    /\ Len(texts) \in 1..MaxPanes /\ \A i \in DOMAIN texts : texts[i] \in Text
    /\ \A pipe \in {up, down} : \A i \in DOMAIN (pipe.arrived \o pipe.unsent) :
         (pipe.arrived \o pipe.unsent)[i] \in Byte

Init ==
    /\ name \in SessionNames
    /\ asked \in FirstRequests
    /\ IF asked.kind = "ATTACH" THEN pc = "load" /\ file \in File ELSE pc = "connect" /\ file = Absent
    /\ loaded = Nothing
    /\ scenes = FALSE /\ saver = FALSE /\ copy = FALSE /\ pending = FALSE
    /\ rest = <<>>
    /\ quiet = 0 /\ held = 0 /\ stalled = FALSE
    /\ answer = Nothing
    /\ up = Pipe /\ down = Pipe
    /\ dpc = "none" /\ why = ""
    /\ request = Nothing /\ reply = Nothing
    /\ hosted \in Table
    /\ \E t \in Text : texts = <<t>>

------------------------------------------------------------------------------
(* The connection.  A read_exact that has its bytes takes them; the header  *)
(* is read first, so a length over the limit is refused before the rest.    *)
HeaderArrived(pipe) == Len(pipe.arrived) >= HeaderBytes
TooLong(pipe) == HeaderArrived(pipe) /\ FrameLength(pipe.arrived) > MaxFrameBytes

FrameArrived(pipe) ==
    HeaderArrived(pipe) /\ ~TooLong(pipe) /\ Len(pipe.arrived) >= FrameLength(pipe.arrived)
ReadFrame(pipe) == SubSeq(pipe.arrived, 1, FrameLength(pipe.arrived))
AfterFrame(pipe) ==
    [pipe EXCEPT !.arrived = SubSeq(@, FrameLength(pipe.arrived) + 1, Len(@))]

Pieces(pipe) == (Piece \cup {Len(pipe.unsent)}) \cap DOMAIN pipe.unsent
Carried(pipe, n) ==
    [unsent |-> SubSeq(pipe.unsent, n + 1, Len(pipe.unsent)),
     arrived |-> pipe.arrived \o SubSeq(pipe.unsent, 1, n)]

(* Some of what write_all has still to write gets written. *)
Carry ==
    /\ \/ \E n \in Pieces(up) : up' = Carried(up, n) /\ UNCHANGED down
       \/ \E n \in Pieces(down) : down' = Carried(down, n) /\ UNCHANGED up
    /\ UNCHANGED <<client, daemon>>

------------------------------------------------------------------------------
(* The client: start and exchanges.                                         *)
Load ==
    /\ pc = "load"
    /\ loaded' = LoadPath(file)
    /\ pc' = IF loaded'.verdict = "loaded" THEN "loaded" ELSE "failed"
    /\ UNCHANGED <<name, file, scenes, modes, clock, asked, answer, up, down, daemon>>

(* Scenes are allowed, as the terminal is interactive. *)
Configured ==
    /\ pc = "loaded"
    /\ scenes' = (loaded.config.screensaver # "off")
    /\ file' = Absent /\ loaded' = Nothing
    /\ pc' = "connect"
    /\ UNCHANGED <<name, modes, clock, asked, answer, up, down, daemon>>

(* write_request: a request of the client is always within the limits. *)
Write(r) ==
    /\ asked' = r
    /\ up' = [up EXCEPT !.unsent = EncodeRequest(r)]
    /\ pc' = "await"
    /\ quiet' = 0 /\ held' = 0 /\ stalled' = FALSE

Connect ==
    /\ pc = "connect"
    /\ Write(asked)
    /\ dpc' = "first"
    /\ UNCHANGED <<local, modes, answer, down, why, request, reply, hosted, texts>>

(* AttachedClient::exchange, up to its answer. *)
Ask(r) == Write(r) /\ UNCHANGED <<local, answer, down, daemon>>

(* Where the client goes on with response r. *)
Accepts(r) ==
    CASE asked.kind = "ATTACH" -> r = Named("ATTACHED", asked.name)
      [] asked.kind = "CREATE" -> r.kind = "CREATED"
      [] asked.kind = "LIST" -> r.kind = "SESSIONS"
      [] asked.kind = "DETACH" -> r.kind = "DETACHED"
      [] OTHER -> TRUE
AfterResponse(r) ==
    IF ~Accepts(r) THEN "failed"
    ELSE IF asked.kind = "ATTACH" THEN "enter"
    ELSE IF asked.kind \in {"CREATE", "LIST", "PING", "DETACH"} THEN "left"
    ELSE IF rest = <<>> THEN "draw" ELSE "route"

Receive ==
    /\ pc = "await"
    /\ FrameArrived(down)
    /\ LET response == DecodeResponse(ReadFrame(down))
       IN  IF response.ok
             THEN answer' = response.value /\ pc' = AfterResponse(response.value)
             ELSE pc' = "failed" /\ UNCHANGED answer
    /\ down' = AfterFrame(down)
    /\ asked' = Nothing
    /\ UNCHANGED <<local, modes, clock, up, daemon>>

(* Mutant of ClientFails: the loop goes on after a timeout. *)
ClientGoesOn ==
    /\ pc = "await"
    /\ answer.kind = "SCREEN"
    /\ pc' = "draw"
    /\ UNCHANGED <<local, modes, clock, asked, answer, up, down, daemon>>

(* The client dies, waits for IO_TIMEOUT or finds the connection closed. *)
ClientFails ==
    /\ pc \notin Ended \cup {"load", "loaded"}
    /\ pc' = "failed"
    /\ up' = [up EXCEPT !.unsent = <<>>]
    /\ UNCHANGED <<local, modes, clock, asked, answer, down, daemon>>

------------------------------------------------------------------------------
(* The client: the loop of run_attached.                                    *)

(* The first request of an attachment. *)
Enter ==
    /\ pc = "enter"
    /\ Ask([kind |-> "RESIZE", cols |-> 300, rows |-> 24])
    /\ UNCHANGED modes

(* A response that is no screen ends the loop, unless a scene is drawn.     *)
Draw ==
    /\ pc = "draw"
    /\ saver' \in (IF scenes THEN {saver, TRUE} ELSE {FALSE})
    /\ pc' = IF saver' \/ answer.kind = "SCREEN" THEN "poll" ELSE "failed"
    /\ quiet' = IF quiet < Patience THEN quiet + 1 ELSE quiet
    /\ UNCHANGED <<local, copy, pending, rest, held, stalled, asked, answer, up, down, daemon>>

(* Mutant of NoEvent: nothing is asked of the daemon below a scene. *)
NoEventResting ==
    /\ pc = "poll"
    /\ IF saver
         THEN /\ pc' = "draw"
              /\ UNCHANGED <<local, modes, clock, asked, answer, up, down, daemon>>
         ELSE Ask([kind |-> "SNAPSHOT"]) /\ UNCHANGED modes

(* The poll's interval passes without an event. *)
NoEvent ==
    /\ pc = "poll"
    /\ Ask([kind |-> "SNAPSHOT"])
    /\ UNCHANGED modes

WindowResized ==
    /\ pc = "poll"
    /\ Ask([kind |-> "RESIZE", cols |-> 300, rows |-> 24])
    /\ UNCHANGED modes

EventRead ==
    /\ pc = "poll"
    /\ held' = IF held < Patience THEN held + 1 ELSE held
    /\ UNCHANGED <<quiet, stalled>>

(* An event that sends nothing: the loop goes round. *)
Consume ==
    /\ EventRead
    /\ pc' = "draw"
    /\ UNCHANGED <<local, pending, rest, asked, answer, up, down, daemon>>

(* A key that dismisses a scene, a mouse event, the release of a key.       *)
Dismiss == Consume /\ saver' \in {saver, FALSE} /\ UNCHANGED copy

Keys == [Prefix |-> <<2>>, Percent |-> <<37>>, X |-> <<120>>, D |-> <<100>>,
         Bracket |-> <<91>>, Q |-> <<113>>, Letter |-> <<97>>, Up |-> <<27, 91, 65>>,
         PageUp |-> <<>>]
Key == DOMAIN Keys

(* In copy mode a key sends nothing either. *)
CopyModeKey(key) ==
    /\ Consume
    /\ ~saver /\ copy
    /\ copy' = (key # "Q")
    /\ UNCHANGED saver

Press(key) ==
    /\ ~saver /\ ~copy
    /\ IF Keys[key] = <<>>
         THEN Consume /\ UNCHANGED <<saver, copy>>
         ELSE /\ EventRead
              /\ rest' = Keys[key]
              /\ pc' = "route"
              /\ UNCHANGED <<local, saver, copy, pending, asked, answer, up, down, daemon>>

------------------------------------------------------------------------------
(* The client: InputRouter::route on the next byte.                         *)
Prefix == 2
Detaching == {100, 113}
CopyByte == 91
(* command_code of the commands the daemon carries out. *)
CommandCode == [b \in {37, 34, 111, 120} |->
                   CASE b = 37 -> 1 [] b = 34 -> 2 [] b = 111 -> 3 [] b = 120 -> 4]

Routed(b) ==
    /\ pc = "route"
    /\ b = Head(rest)
    /\ rest' = Tail(rest)
    /\ pending' = (~pending /\ b = Prefix)
    /\ UNCHANGED saver

(* A byte that sends nothing: a prefix, or the command for copy mode.       *)
RouteLocally(b) ==
    /\ Routed(b)
    /\ IF pending THEN b = CopyByte /\ copy' = TRUE ELSE b = Prefix /\ UNCHANGED copy
    /\ pc' = IF rest' = <<>> THEN "draw" ELSE "route"
    /\ UNCHANGED <<local, clock, asked, answer, up, down, daemon>>

RequestFor(b) ==
    IF pending /\ b \in Detaching THEN Named("DETACH", name)
    ELSE IF pending /\ b \in DOMAIN CommandCode
      THEN [kind |-> "COMMAND", command |-> CommandCode[b]]
    ELSE [kind |-> "INPUT", bytes |-> IF pending /\ b # Prefix THEN <<Prefix, b>> ELSE <<b>>]

RouteToDaemon(b) ==
    /\ Routed(b)
    /\ IF pending THEN b # CopyByte ELSE b # Prefix
    /\ RequestFor(b).kind = "COMMAND" => Len(texts) < MaxPanes \/ RequestFor(b).command > 2
    /\ Ask(RequestFor(b))
    /\ UNCHANGED copy

------------------------------------------------------------------------------
(* The daemon.                                                              *)
Drop(reason) ==
    /\ dpc' = "gone"
    /\ why' = reason
    /\ down' = [down EXCEPT !.unsent = <<>>]
    /\ request' = Nothing
    /\ UNCHANGED reply

(* write_response. *)
Respond(r, next) ==
    IF EncodeResponse(r) = NoFrame THEN Drop("unencodable")
    ELSE /\ down' = [down EXCEPT !.unsent = EncodeResponse(r)]
         /\ reply' = r
         /\ request' = Nothing
         /\ dpc' = next
         /\ UNCHANGED why

Written ==
    /\ dpc \in Writing
    /\ down.unsent = <<>>
    /\ IF dpc = "close" THEN dpc' = "gone" /\ why' = "done" ELSE dpc' = "loop" /\ UNCHANGED why
    /\ UNCHANGED <<client, up, down, request, reply, hosted, texts>>

(* read_request. *)
ReadRequest ==
    /\ dpc \in Reading
    /\ FrameArrived(up)
    /\ LET r == DecodeRequest(ReadFrame(up))
       IN  IF r.ok
             THEN /\ request' = r.value
                  /\ dpc' = IF dpc = "first" THEN "dispatch" ELSE "serve"
                  /\ UNCHANGED <<why, down, reply>>
             ELSE Drop("malformed")
    /\ up' = AfterFrame(up)
    /\ UNCHANGED <<client, hosted, texts>>

(* The read ends without a frame: a length over the limit, the client is    *)
(* gone, or IO_TIMEOUT has passed.                                          *)
ReadEnds ==
    /\ dpc \in Reading
    /\ ~FrameArrived(up)
    /\ \/ TooLong(up) /\ Drop("malformed")
       \/ pc \in Ended /\ up.unsent = <<>> /\ Drop("eof")
       \/ (quiet = Patience \/ stalled) /\ Drop("timeout")
    /\ UNCHANGED <<client, up, hosted, texts>>

(* Writing to the client, a PTY or the spawn of one fails. *)
DaemonFails ==
    /\ dpc \in Writing \cup {"serve"}
    /\ Drop("runtime")
    /\ UNCHANGED <<client, up, hosted, texts>>

(* service_error: the wording is as short as a text here, or too long. *)
Failure(code, text) == [kind |-> "ERROR", code |-> code, message |-> BoundedMessage(text)]

Listed(attached) ==
    LET in_order == SetToSeq(hosted)
    IN  [i \in DOMAIN in_order |-> [name |-> in_order[i], attached_clients |-> attached[in_order[i]]]]

(* dispatch of Create: the spawn of the first shell may fail. *)
Create(text) ==
    IF request.name \in hosted THEN Respond(Failure(1, text), "close") /\ UNCHANGED hosted
    ELSE IF Cardinality(hosted) >= MaxListedSessions
      THEN Respond(Failure(4, text), "close") /\ UNCHANGED hosted
    ELSE \/ Respond(Failure(5, text), "close") /\ UNCHANGED hosted
         \/ /\ Respond(Named("CREATED", request.name), "close")
            /\ hosted' = hosted \cup {request.name}

(* dispatch of the others, and serve_connection for Attach. *)
Dispatch ==
    /\ dpc = "dispatch"
    /\ \E text \in Text :
         \/ request.kind = "CREATE" /\ Create(text)
         \/ /\ request.kind = "PING"
            /\ Respond([kind |-> "PONG", nonce |-> request.nonce], "close")
            /\ UNCHANGED hosted
         \/ /\ request.kind = "LIST"
            /\ \E attached \in [hosted -> {0, 1}] :
                 Respond([kind |-> "SESSIONS", sessions |-> Listed(attached)], "close")
            /\ UNCHANGED hosted
         \/ /\ request.kind = "ATTACH"
            /\ IF request.name \in hosted
                 THEN Respond(Named("ATTACHED", request.name), "greet")
                 ELSE Respond(Failure(2, text), "close")
            /\ UNCHANGED hosted
    /\ UNCHANGED <<client, up, texts>>

(* Mutant of PaneText: every pane may fill the whole allowance. *)
PaneTextUndivided(i, shown) == TruncateUtf8(shown[i], SnapshotBytes)

(* HostedSession::snapshot: the panes share the allowance.                  *)
PaneText(i, shown) == TruncateUtf8(shown[i], SnapshotBytes \div Len(shown))
Snapshot(shown) ==
    [kind |-> "SCREEN", panes |->
       [i \in DOMAIN shown |->
          [id |-> <<0, 0, 0, 0, 0, 0, 0, i>>, x |-> 0, y |-> 0, width |-> 300, height |-> 23,
           focused |-> i = 1, text |-> PaneText(i, shown)]]]

(* Mutant of AfterCommand: the last pane is closed like any other. *)
AfterCommandLast(command) ==
    CASE command \in {1, 2} -> Append(texts, <<>>)
      [] command = 3 -> texts
      [] command = 4 -> Front(texts)

(* What HostedSession::command leaves of the panes; it refuses every other  *)
(* command.                                                                 *)
AfterCommand(command) ==
    CASE command \in {1, 2} -> Append(texts, <<>>)
      [] command = 3 -> texts
      [] command = 4 -> IF Len(texts) > 1 THEN Front(texts) ELSE texts

(* attached_loop.  By the time of the snapshot the shells have printed.     *)
Serve ==
    /\ dpc = "serve"
    /\ IF request.kind = "DETACH"
         THEN Respond(Named("DETACHED", request.name), "close") /\ UNCHANGED texts
         ELSE LET left == IF request.kind = "COMMAND" THEN AfterCommand(request.command) ELSE texts
              IN  /\ texts' \in [DOMAIN left -> Text]
                  /\ Respond(Snapshot(texts'), "answer")
    /\ UNCHANGED <<client, up, hosted>>

------------------------------------------------------------------------------
(* The client process is stopped for long, as by a suspended machine, while *)
(* the daemon reads. *)
Stall ==
    /\ ~stalled
    /\ pc \notin Ended
    /\ dpc \in Reading
    /\ stalled' = TRUE
    /\ UNCHANGED <<pc, local, modes, quiet, held, asked, answer, up, down, daemon>>

ClientStep ==
    \/ Load \/ Configured \/ Connect \/ Receive \/ Enter \/ Draw
    \/ NoEvent \/ WindowResized \/ Dismiss
    \/ \E key \in Key : CopyModeKey(key) \/ Press(key)
    \/ \E b \in Byte : RouteLocally(b) \/ RouteToDaemon(b)

DaemonStep == Written \/ ReadRequest \/ ReadEnds \/ DaemonFails \/ Dispatch \/ Serve

Next == ClientStep \/ ClientFails \/ Stall \/ Carry \/ DaemonStep

Spec == Init /\ [][Next]_vars

------------------------------------------------------------------------------
(* However the bytes arrive and whatever went before, what one side decodes *)
(* is what the other encoded, and the answer in the client's hands is the   *)
(* one to its latest request: requests and responses carry no number.       *)
MessagesIntact ==
    /\ dpc \in {"dispatch", "serve"} /\ pc \notin Ended => request = asked
    /\ pc \in {"draw", "poll", "route"} => answer = reply

(* docs/SECURITY.md, Persistent sessions: "screen snapshots remain within"  *)
(* the frame limit and are "truncated only at valid UTF-8 boundaries".  No  *)
(* message of either side is refused by the other, and one that cannot be   *)
(* encoded is a screen of too many panes.                                   *)
OnlyPanesDoNotFit ==
    /\ why # "malformed"
    /\ why = "unencodable" => Len(texts) > MaxSnapshotPanes
    /\ pc = "await" /\ FrameArrived(down) => DecodeResponse(ReadFrame(down)).ok

(* The daemon gives an attachment up as idle only when the client was held  *)
(* up, or when all rounds of the loop but the latest ended with an event    *)
(* that sends nothing (a prefix, the command for copy mode, keys in it): an *)
(* undisturbed client, under a scene or not, keeps its attachment.          *)
KeptWhileIdle ==
    [][why = "" /\ why' = "timeout" => stalled \/ held >= Patience - 1]_vars

(* docs/SECURITY.md, Session protocol: the decoder "rejects truncated       *)
(* frames, trailing bytes".  No part and no extension of a frame in flight  *)
(* decodes, no frame decodes for the other side, and one with a byte        *)
(* changed that decodes is the frame of the message it decodes to.          *)
Delimited(frame, Decode(_), Encode(_), DecodeOther(_)) ==
    /\ \A n \in 0..(Len(frame) - 1) : ~Decode(SubSeq(frame, 1, n)).ok
    /\ ~DecodeOther(frame).ok
    /\ \A b \in Probe :
         /\ ~Decode(Append(frame, b)).ok
         /\ \A i \in DOMAIN frame :
              LET other == [frame EXCEPT ![i] = b]
              IN  Decode(other).ok => Encode(Decode(other).value) = other
FramesExact ==
    /\ pc = "await" /\ up.arrived = <<>> /\ up.unsent # <<>> /\ up.unsent = EncodeRequest(asked) =>
         Delimited(up.unsent, DecodeRequest, EncodeRequest, DecodeResponse)
    /\ down.arrived = <<>> /\ down.unsent # <<>> /\ down.unsent = EncodeResponse(reply) =>
         Delimited(down.unsent, DecodeResponse, EncodeResponse, DecodeRequest)

(* docs/CONFIGURATION.md: "Unknown keys, duplicate keys, invalid colors, and*)
(* malformed lines stop startup with the exact line number".  A text with a *)
(* bad line is refused at the first one and no other text is, but for a     *)
(* file of too many lines.  A sign in the place of a digit passes, and of   *)
(* all bad lines only a colour with a character across two components may   *)
(* end the start in another way.                                            *)
ErrorNamesLine ==
    file.kind = "text" /\ pc \in Ended \cup {"loaded"} =>
        LET bad == BadLines(file.lines)
        IN  IF Len(file.lines) > MaxLines THEN loaded = Invalid(MaxLines + 1)
            ELSE IF bad = {} THEN loaded.verdict = "loaded"
            ELSE LET first == Min(bad)
                 IN  loaded = Invalid(first) \/ Fatal(loaded, file.lines[first])

(* The same page: "Settings after `theme` override that built-in theme."    *)
(* Every colour of an accepted file is that of its own line, if one comes   *)
(* after the theme's or there is none, and the theme's otherwise; the other *)
(* settings do not depend on the order.                                     *)
SettingsInOrder ==
    pc = "loaded" /\ file.kind = "text" =>
        LET lines == file.lines
            Of(key) == {n \in Pairs(lines) : lines[n].key = key}
            theme == IF Of("theme") = {} THEN DefaultTheme
                     ELSE lines[Max(Of("theme"))].value
        IN  \A key \in DOMAIN Default :
              loaded.config[key] =
                IF key \in ColorKey
                  THEN IF \E n \in Of(key) : \A m \in Of("theme") : m < n
                         THEN lines[Max(Of(key))].value ELSE <<"theme", theme>>
                  ELSE IF Of(key) = {} THEN Default[key] ELSE lines[Max(Of(key))].value

(* The same sentence, word for word: an invalid colour stops it with a line *)
(* number and a message.  One with a character across two of the slices     *)
(* ends it in a panic.                                                      *)
NoColorIsFatal == loaded # Refused("panic")

==============================================================================
