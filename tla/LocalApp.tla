------------------------------- MODULE LocalApp -------------------------------
(***************************************************************************)
(* The event loop of `novamux start`, App of crates/novamux/src/tui.rs,    *)
(* with the three state machines it owns: the prefix of the InputRouter    *)
(* (novamux-core/src/input.rs), CopyMode (copy_mode.rs) and IdleState      *)
(* (screensaver.rs).  The loop draws, waits for one event, routes the      *)
(* bytes of a key one by one, and closes a pane whose shell has exited.    *)
(* The shells run beside it.                                               *)
(*                                                                         *)
(* Panes are kept as PaneOrder promises; their rectangles and sizes are    *)
(* the matter of HostedSession, which lays out in the same way.  Time is   *)
(* not modelled: the idle deadline may pass before any frame.              *)
(***************************************************************************)
EXTENDS Naturals, Sequences

CONSTANTS MaxPaneId,   \* bound: no pane after this one
          MaxHistory,  \* bound: lines of history a pane keeps; 10000 in the code
          PageRows     \* rows of a page in copy mode

ASSUME LocalAssumption ==
    /\ MaxPaneId \in Nat \ {0}
    /\ MaxHistory \in Nat
    /\ PageRows \in Nat \ {0}

VARIABLES order, focused, next_id, \* Session
          shell,   \* shell[p]: the child of the PTY of pane p
          history, \* history[p]: max_scrollback_offset of pane p
          pending, \* InputRouter.prefix_pending
          copy,    \* CopyMode: active and offset
          saver,   \* IdleState.active_since is set
          drawn,   \* what the latest frame shows
          pc,      \* where the loop is
          rest,    \* the bytes of the key in hand still to be routed
          scan     \* the pane the loop's last part looks at, by its place

session == <<order, focused, next_id>>
modes == <<pending, copy, saver>>
loop == <<pc, rest, scan>>
vars == <<order, focused, next_id, shell, history, pending, copy, saver, drawn,
          pc, rest, scan>>

Tree == INSTANCE PaneOrder

Pane == 1..MaxPaneId

(* Keys, by what the loop tells apart.  A byte is named for the command it  *)
(* means after the prefix; "[" is one byte of an arrow key, too.  Page keys *)
(* have a meaning in copy mode only.                                        *)
KeyBytes == [Prefix |-> <<"prefix">>, Percent |-> <<"split">>, O |-> <<"focus">>,
             X |-> <<"close">>, Bracket |-> <<"copy">>, Q |-> <<"quit">>,
             Letter |-> <<"other">>, Esc |-> <<"esc">>,
             Up |-> <<"esc", "copy", "other">>, Down |-> <<"esc", "copy", "other">>,
             PageUp |-> <<>>, PageDown |-> <<>>]
Key == DOMAIN KeyBytes
Byte == {"prefix", "split", "focus", "close", "copy", "quit", "other", "esc"}
Command == {"split", "focus", "close", "copy", "quit"}

TypeOK ==
    /\ next_id \in 2..(MaxPaneId + 1)
    /\ order \in Seq(Pane)
    /\ focused \in Pane
    /\ shell \in [Pane -> {"none", "running", "exited", "reaped"}]
    /\ history \in [Pane -> 0..MaxHistory]
    /\ pending \in BOOLEAN
    /\ copy \in [active : BOOLEAN, offset : 0..MaxHistory]
    /\ saver \in BOOLEAN
    /\ drawn \in {"nothing", "panes", "copy", "saver"}
    /\ pc \in {"draw", "poll", "route", "terminate", "reap", "refocus", "bury", "shutdown",
              "ended"}
    /\ rest \in Seq(Byte)
    /\ scan \in 1..(MaxPaneId + 1)

Init ==
    /\ Tree!Init
    /\ shell = [p \in Pane |-> IF p = 1 THEN "running" ELSE "none"]
    /\ history = [p \in Pane |-> 0]
    /\ pending = FALSE
    /\ copy = [active |-> FALSE, offset |-> 0]
    /\ saver = FALSE
    /\ drawn = "nothing"
    /\ pc = "draw"
    /\ rest = <<>>
    /\ scan = 1

------------------------------------------------------------------------------
(* The shells, and what their output does to the pane's history.            *)
ShellExits(p) ==
    /\ shell[p] = "running"
    /\ shell' = [shell EXCEPT ![p] = "exited"]
    /\ UNCHANGED <<session, history, modes, drawn, loop>>

(* Output scrolls lines into the history; a terminal reset clears it. *)
ShellPrints(p) ==
    /\ shell[p] = "running"
    /\ \E lines \in {0, history[p] + 1} \cap 0..MaxHistory :
         history' = [history EXCEPT ![p] = lines]
    /\ UNCHANGED <<session, shell, modes, drawn, loop>>

(* The history copy mode shows of the focused pane: vt100's set_scrollback  *)
(* takes no offset beyond what the pane retains.                            *)
Retained == copy.offset <= history[focused]
Viewport == IF Retained THEN copy.offset ELSE history[focused]

------------------------------------------------------------------------------
(* render, with IdleState::update. *)
Draw ==
    /\ pc = "draw"
    /\ saver' \in {saver, TRUE}
    /\ drawn' = IF saver' THEN "saver" ELSE IF copy.active THEN "copy" ELSE "panes"
    /\ pc' = "poll"
    /\ UNCHANGED <<session, shell, history, pending, copy, rest, scan>>

(* No event within the poll's interval, a resize, or a key's release; a     *)
(* mouse event also dismisses the screensaver.                              *)
NoKey ==
    /\ pc = "poll"
    /\ saver' \in {saver, FALSE}
    /\ pc' = "reap"
    /\ UNCHANGED <<session, shell, history, pending, copy, drawn, rest, scan>>

(* Mutant of Dismiss: IdleState::input does not consume the key. *)
DismissForwards(key) ==
    /\ pc = "poll"
    /\ saver
    /\ ~copy.active
    /\ saver' = FALSE
    /\ rest' = KeyBytes[key]
    /\ pc' = IF rest' = <<>> THEN "reap" ELSE "route"
    /\ UNCHANGED <<session, shell, history, pending, copy, drawn, scan>>

(* IdleState::input: the key that dismisses the screensaver is consumed.    *)
Dismiss(key) ==
    /\ pc = "poll"
    /\ saver
    /\ saver' = FALSE
    /\ pc' = "draw"
    /\ UNCHANGED <<session, shell, history, pending, copy, drawn, rest, scan>>

(* Mutant of Navigated: Older is not clamped. *)
NavigatedUnclamped(key, maximum) ==
    IF key = "PageUp" THEN [copy EXCEPT !.offset = @ + PageRows] ELSE copy

(* CopyMode::apply; maximum is the history of the focused pane. *)
Navigated(key, maximum) ==
    LET Older(rows) == IF copy.offset + rows > maximum THEN maximum ELSE copy.offset + rows
        Newer(rows) == IF rows > copy.offset THEN 0 ELSE copy.offset - rows
    IN  CASE key = "Up"       -> [copy EXCEPT !.offset = Older(1)]
          [] key = "Down"     -> [copy EXCEPT !.offset = Newer(1)]
          [] key = "PageUp"   -> [copy EXCEPT !.offset = Older(PageRows)]
          [] key = "PageDown" -> [copy EXCEPT !.offset = Newer(PageRows)]
          [] key \in {"Esc", "Q"} -> [active |-> FALSE, offset |-> 0]
          [] OTHER -> copy

(* Mutant of Navigate: Older is held to the configured scrollback. *)
NavigateConfigured(key) ==
    /\ pc = "poll"
    /\ ~saver
    /\ copy.active
    /\ copy' = Navigated(key, MaxHistory)
    /\ pc' = "draw"
    /\ UNCHANGED <<session, shell, history, pending, saver, drawn, rest, scan>>

(* navigate_copy_mode; the loop starts over without looking for exited      *)
(* shells.                                                                  *)
Navigate(key) ==
    /\ pc = "poll"
    /\ ~saver
    /\ copy.active
    /\ copy' = Navigated(key, history[focused])
    /\ pc' = "draw"
    /\ UNCHANGED <<session, shell, history, pending, saver, drawn, rest, scan>>

Press(key) ==
    /\ pc = "poll"
    /\ ~saver
    /\ ~copy.active
    /\ rest' = KeyBytes[key]
    /\ pc' = IF rest' = <<>> THEN "reap" ELSE "route"
    /\ UNCHANGED <<session, shell, history, modes, drawn, scan>>

------------------------------------------------------------------------------
(* InputRouter::route on the next byte of the key.                          *)
AfterByte == IF Len(rest) > 1 THEN "route" ELSE "reap"
Routed ==
    /\ pc = "route"
    /\ rest' = Tail(rest)
    /\ UNCHANGED <<history, saver, drawn, scan>>

(* A first prefix waits for its command. *)
AwaitCommand ==
    /\ Routed
    /\ ~pending
    /\ Head(rest) = "prefix"
    /\ pending' = TRUE
    /\ pc' = AfterByte
    /\ UNCHANGED <<session, shell, copy>>

(* The byte goes to the PTY of the focused pane, after a prefix that was no *)
(* command's.                                                               *)
Forward ==
    /\ Routed
    /\ IF pending THEN Head(rest) \notin Command ELSE Head(rest) # "prefix"
    /\ pending' = FALSE
    /\ pc' = AfterByte
    /\ UNCHANGED <<session, shell, copy>>

RunCommand(command) ==
    /\ Routed
    /\ pending
    /\ Head(rest) = command
    /\ pending' = FALSE

(* App::split, once the new PTY has been spawned (if it has not, Fail); the *)
(* pane is there when a resize after it fails.                              *)
SplitPane ==
    /\ RunCommand("split")
    /\ next_id <= MaxPaneId
    /\ Tree!SplitFocused
    /\ shell' = [shell EXCEPT ![next_id] = "running"]
    /\ pc' \in {AfterByte, "shutdown"}
    /\ UNCHANGED copy

FocusNext ==
    /\ RunCommand("focus")
    /\ Tree!FocusNext
    /\ pc' = AfterByte
    /\ UNCHANGED <<shell, copy>>

(* Mutant of CloseFocused: the registry is not reconciled. *)
CloseForgets(next, terminating) ==
    \/ Len(order) = 1 /\ UNCHANGED session /\ pc' = next
    \/ Tree!CloseFocused /\ pc' = next

(* App::close_focused: the pane leaves the tree before its PTY is           *)
(* terminated.                                                              *)
CloseFocused(next, terminating) ==
    \/ Len(order) = 1 /\ UNCHANGED session /\ pc' = next
    \/ Tree!CloseFocused /\ pc' = terminating

ClosePane ==
    /\ RunCommand("close")
    /\ CloseFocused(AfterByte, "terminate")
    /\ UNCHANGED <<shell, copy>>

EnterCopyMode ==
    /\ RunCommand("copy")
    /\ copy' = [active |-> TRUE, offset |-> 0]
    /\ pc' = AfterByte
    /\ UNCHANGED <<session, shell>>

Quit ==
    /\ RunCommand("quit")
    /\ pc' = "shutdown"
    /\ UNCHANGED <<session, shell, copy>>

------------------------------------------------------------------------------
(* The loop's last part looks at one pane after the other, while shells go  *)
(* on exiting, for one whose shell has exited; not at the only one.         *)
Exited == Len(order) > 1 /\ shell[order[scan]] = "exited"

(* Mutant of Scan: it gives up at the first running pane. *)
ScanFirstOnly ==
    /\ pc = "reap"
    /\ scan <= Len(order)
    /\ \/ Exited /\ pc' = "refocus" /\ UNCHANGED scan
       \/ ~Exited /\ pc' = "draw" /\ scan' = 1
    /\ UNCHANGED <<session, shell, history, modes, drawn, rest>>

Scan ==
    /\ pc = "reap"
    /\ scan <= Len(order)
    /\ \/ Exited /\ pc' = "refocus" /\ UNCHANGED scan
       \/ ~Exited /\ scan' = scan + 1 /\ UNCHANGED pc
    /\ UNCHANGED <<session, shell, history, modes, drawn, rest>>

ScanEnds ==
    /\ pc = "reap"
    /\ scan > Len(order)
    /\ pc' = "draw"
    /\ scan' = 1
    /\ UNCHANGED <<session, shell, history, modes, drawn, rest>>

(* focus_next, until the focus is on the exited pane; *)
Refocus ==
    /\ pc = "refocus"
    /\ focused # order[scan]
    /\ Tree!FocusNext
    /\ UNCHANGED <<shell, history, modes, drawn, loop>>

(* Mutant of CloseExited: the focused pane is closed, whichever it is. *)
CloseExitedUnfocused ==
    /\ pc = "refocus"
    /\ CloseFocused("draw", "bury")
    /\ scan' = 1
    /\ UNCHANGED <<shell, history, modes, drawn, rest>>

(* it is then closed like any other. *)
CloseExited ==
    /\ pc = "refocus"
    /\ focused = order[scan]
    /\ CloseFocused("draw", "bury")
    /\ scan' = 1
    /\ UNCHANGED <<shell, history, modes, drawn, rest>>

(* LivePty::terminate of what reconcile has returned, the PTYs of no pane,  *)
(* for a command or for an exited pane.  If it fails the loop ends, and     *)
(* Drop for LivePty reaps the shell all the same.                           *)
Live == {"running", "exited"}
Stale == {p \in Pane \ Tree!Present : shell[p] \in Live}
Terminate ==
    /\ pc \in {"terminate", "bury"}
    /\ shell' = [p \in Pane |-> IF p \in Stale THEN "reaped" ELSE shell[p]]
    /\ \/ /\ pc' = IF pc = "bury" THEN "draw" ELSE IF rest = <<>> THEN "reap" ELSE "route"
          /\ UNCHANGED rest
       \/ /\ pc' = "shutdown"
          /\ rest' = <<>>
    /\ UNCHANGED <<session, history, modes, drawn, scan>>

(* The other ?s of the loop: drawing, reading an event, spawning, writing   *)
(* or resizing a PTY has failed before anything else has changed.           *)
Fail ==
    /\ pc \in {"draw", "poll", "route", "refocus"}
    /\ pc' = "shutdown"
    /\ rest' = <<>>
    /\ UNCHANGED <<session, shell, history, modes, drawn, scan>>

(* App::shutdown, and the Drop of every LivePty after it. *)
Shutdown ==
    /\ pc = "shutdown"
    /\ shell' = [p \in Pane |-> IF shell[p] = "none" THEN "none" ELSE "reaped"]
    /\ pc' = "ended"
    /\ UNCHANGED <<session, history, modes, drawn, rest, scan>>

------------------------------------------------------------------------------
RunByte ==
    \/ AwaitCommand \/ Forward \/ SplitPane \/ FocusNext \/ ClosePane
    \/ EnterCopyMode \/ Quit

User == \E key \in Key : Dismiss(key) \/ Navigate(key) \/ Press(key)

LoopStep ==
    \/ Draw \/ NoKey \/ User \/ RunByte \/ Scan \/ ScanEnds \/ Refocus
    \/ CloseExited \/ Shutdown

Next ==
    \/ LoopStep
    \/ Terminate
    \/ Fail
    \/ \E p \in Pane : ShellExits(p) \/ ShellPrints(p)

Spec == Init /\ [][Next]_vars

(* The poll returns within its interval, and nothing else in the loop waits *)
(* but Terminate, which need not return while a background job keeps the    *)
(* pane's terminal open.                                                    *)
FairSpec == Spec /\ WF_vars(LoopStep)

------------------------------------------------------------------------------
(* The bytes of a key reach a shell or run a command only while the latest  *)
(* frame shows the panes: the key that dismisses a screensaver is consumed  *)
(* (docs/SECURITY.md, Local configuration), and copy mode keeps every key.  *)
RoutedWhenShown == pc = "route" => drawn = "panes" /\ ~copy.active /\ ~saver

(* Runtime resources are those of the panes, through splits and closes that *)
(* fail half way and shells that exit meanwhile: every pane has its shell,  *)
(* and a shell without a pane is being terminated.  None outlives the       *)
(* application.                                                             *)
ShellsMatch ==
    /\ pc # "ended" => \A p \in Tree!Present : shell[p] \in Live
    /\ pc \notin {"terminate", "bury"} => Stale = {}
    /\ pc = "ended" => \A p \in Pane : shell[p] \notin Live

(* A pane leaves the tree only by the user's command or because its own     *)
(* shell has exited, and never the last one: closing an exited pane, which  *)
(* goes through the focus, closes no other.                                 *)
PanesLeaveForCause ==
    [][\A p \in Tree!Present : p \notin Tree!Present' =>
         /\ Tree!Present' # {}
         /\ \/ pc = "refocus" /\ shell[p] = "exited"
            \/ pc = "route" /\ pending /\ Head(rest) = "close" /\ p = focused]_vars

(* A key in copy mode that changes the offset moves the view, unless the    *)
(* offset has gone stale, and it goes stale only because the pane has lost  *)
(* history (a reset, the alternate screen) or because the focus has gone to *)
(* another pane, when the shell below copy mode exited.  ("Clamping to      *)
(* available retained history", says copy_mode.rs; towards newer output it  *)
(* does not, so that a stale offset takes several keys that show nothing.)  *)
ViewFollowsKeys ==
    [][Retained =>
         /\ copy.active /\ copy'.active /\ copy' # copy => Viewport' # Viewport
         /\ Retained' \/ focused' # focused \/ history'[focused] < history[focused]]_vars

(* While the loop comes by its last part again and again, a pane whose      *)
(* shell has exited is closed, unless it is the only one left.  (Keys in    *)
(* copy mode start the loop over before that part, so a user who never lets *)
(* go of them keeps the exited panes open.)                                 *)
ExitedPanesClosed ==
    []<>(pc = "reap") =>
        \A p \in Pane : shell[p] = "exited" ~> shell[p] = "reaped" \/ Len(order) = 1

==============================================================================
