---------------------------- MODULE HostedSession ----------------------------
(***************************************************************************)
(* HostedSession of crates/novamux/src/session_service.rs: a pane tree     *)
(* (Session), the PTYs that belong to its panes (PaneRegistry) and the     *)
(* viewport they are laid out in.  Every operation runs under the daemon's *)
(* mutex, so it is one step; what can fail inside it (a spawn, the resize  *)
(* of the k-th PTY, the end of a shell) fails nondeterministically, and    *)
(* the state it leaves behind is the one the next operation finds.  A PTY  *)
(* is here its size.  SessionService has the protocol around these         *)
(* operations and keeps only the number of panes.                          *)
(***************************************************************************)
EXTENDS PaneTree, FiniteSets, Functions

CONSTANTS DefaultRows, \* the size of a session nobody attached to: 24 in the code
          DefaultCols, \* 80 in the code
          Rows, Cols,  \* bound: the viewport sizes that clients send
          MaxPaneId    \* bound: no pane after this one

ASSUME HostedAssumption ==
    /\ DefaultCols \in 2..U16Max /\ Cols \subseteq 0..U16Max
    /\ DefaultRows \in 2..U16Max /\ Rows \subseteq 0..U16Max
    /\ MaxPaneId \in Nat \ {0}

VARIABLES root,     \* Session.root
          focused,  \* Session.focused
          next_id,  \* Session.next_id
          registry, \* registry[p]: the size of the PTY of pane p
          viewport, \* HostedSession.viewport
          last      \* the latest call, and whether it returned Ok

vars == <<root, focused, next_id, registry, viewport, last>>

------------------------------------------------------------------------------
Size(rows, cols) == [rows |-> rows, cols |-> cols]

(* HostedSession::layout: the lowest row is the status line. *)
Layout(tree, view) ==
    LayoutTree(tree, Rect(0, 0, view.cols, SaturatingSub(view.rows, 1)))

(* The inside of a pane, its border left out. *)
Content(rect) == Size(AtLeast(SaturatingSub(rect.height, 2), 2),
                      AtLeast(SaturatingSub(rect.width, 2), 2))

(* PaneRegistry::reconcile, when every missing PTY could be spawned: exactly *)
(* the panes of tree keep or get a PTY.                                      *)
Reconcile(ptys, tree) ==
    [p \in PaneSet(tree) |->
        IF p \in DOMAIN ptys THEN ptys[p] ELSE Size(2, 2)]

(* The loop of HostedSession::resize, stopped after the first k PTYs. *)
ResizePtys(ptys, tree, view, k) ==
    LET layout == Layout(tree, view)
    IN  [p \in DOMAIN ptys |->
            IF \E i \in 1..k : layout[i].pane = p
            THEN Content((CHOOSE l \in {layout[i] : i \in 1..k} : l.pane = p).rect)
            ELSE ptys[p]]

(* HostedSession::snapshot, the text of the panes left out. *)
Screen ==
    LET layout == Layout(root, viewport)
    IN  [i \in DOMAIN layout |->
            [id |-> layout[i].pane, rect |-> layout[i].rect,
             focused |-> layout[i].pane = focused]]

Init ==
    /\ root = Leaf(1)
    /\ focused = 1
    /\ next_id = 2
    /\ registry = [p \in {1} |-> Size(DefaultRows, DefaultCols)]
    /\ viewport = Size(DefaultRows, DefaultCols)
    /\ last = [call |-> "create", ok |-> TRUE]

------------------------------------------------------------------------------
(* resize: the viewport changes even when a PTY cannot be resized. *)
Resize(rows, cols) ==
    \E k \in 0..Len(root.panes) :
        /\ viewport' = Size(AtLeast(rows, 2), AtLeast(cols, 2))
        /\ registry' = ResizePtys(registry, root, viewport', k)
        /\ last' = [call |-> "resize", ok |-> k = Len(root.panes)]
        /\ UNCHANGED <<root, focused, next_id>>

(* Mutant of SplitFails: the session is replaced before the PTY is there. *)
SplitFailsLate ==
    /\ next_id <= MaxPaneId
    /\ \E direction \in Direction : root' = SplitPane(root, focused, next_id, direction)
    /\ focused' = next_id
    /\ next_id' = next_id + 1
    /\ last' = [call |-> "split", ok |-> FALSE]
    /\ UNCHANGED <<registry, viewport>>

(* command 1 and 2, the spawn of the new PTY failed: nothing has changed. *)
SplitFails ==
    /\ last' = [call |-> "split", ok |-> FALSE]
    /\ UNCHANGED <<root, focused, next_id, registry, viewport>>

(* Mutant of SplitFocused: the PTYs are resized to the old layout. *)
SplitFocusedStale(direction) ==
    /\ next_id <= MaxPaneId
    /\ root' = SplitPane(root, focused, next_id, direction)
    /\ focused' = next_id
    /\ next_id' = next_id + 1
    /\ registry' = ResizePtys(Reconcile(registry, root'), root, viewport, Len(root.panes))
    /\ last' = [call |-> "split", ok |-> TRUE]
    /\ UNCHANGED viewport

(* command 1 and 2: a clone of the session is split, its PTY spawned, the   *)
(* clone put in place, and only then every PTY resized.                     *)
SplitFocused(direction) ==
    /\ next_id <= MaxPaneId
    /\ root' = SplitPane(root, focused, next_id, direction)
    /\ focused' = next_id
    /\ next_id' = next_id + 1
    /\ \E k \in 0..Len(root'.panes) :
        /\ registry' = ResizePtys(Reconcile(registry, root'), root', viewport, k)
        /\ last' = [call |-> "split", ok |-> k = Len(root'.panes)]
    /\ UNCHANGED viewport

(* command 3. *)
FocusNext ==
    LET panes == root.panes
    IN  /\ focused' = panes[(Position(panes, focused) % Len(panes)) + 1]
        /\ last' = [call |-> "focus", ok |-> TRUE]
        /\ UNCHANGED <<root, next_id, registry, viewport>>

(* Mutant of CloseFocused: the identifier is given back. *)
CloseFocusedFrees ==
    LET panes == root.panes
        current == Position(panes, focused)
    IN  /\ Len(panes) > 1
        /\ root' = RemovePane(root, focused)
        /\ focused' = panes[IF current = 1 THEN 2 ELSE current - 1]
        /\ next_id' = next_id - 1
        /\ registry' = Reconcile(registry, root')
        /\ last' = [call |-> "close", ok |-> TRUE]
        /\ UNCHANGED viewport

(* command 4: no PTY is resized, and the last pane stays.  A shell that     *)
(* cannot be terminated is an error, but its pane is gone all the same.     *)
CloseFocused ==
    LET panes == root.panes
        current == Position(panes, focused)
    IN  \/ /\ Len(panes) = 1
           /\ last' = [call |-> "close", ok |-> TRUE]
           /\ UNCHANGED <<root, focused, next_id, registry, viewport>>
        \/ /\ Len(panes) > 1
           /\ root' = RemovePane(root, focused)
           /\ focused' = panes[IF current = 1 THEN 2 ELSE current - 1]
           /\ registry' = Reconcile(registry, root')
           /\ \E ok \in BOOLEAN : last' = [call |-> "close", ok |-> ok]
           /\ UNCHANGED <<next_id, viewport>>

Next ==
    \/ \E rows \in Rows, cols \in Cols : Resize(rows, cols)
    \/ SplitFails
    \/ \E direction \in Direction : SplitFocused(direction)
    \/ FocusNext
    \/ CloseFocused

Spec == Init /\ [][Next]_vars

------------------------------------------------------------------------------
(* Types, and the documented shape of a session: its panes are distinct and *)
(* older than next_id, and the focused one is among them.                   *)
TypeOK ==
    /\ root.panes \in Seq(PaneSet(root))
    /\ root.way \in [PaneSet(root) -> Seq(Turn)]
    /\ PaneSet(root) = Range(root.panes)
    /\ \A i, j \in DOMAIN root.panes : root.panes[i] = root.panes[j] => i = j
    /\ focused \in PaneSet(root)
    /\ next_id \in 2..(MaxPaneId + 1)
    /\ PaneSet(root) \subseteq 1..(next_id - 1)
    /\ \A p \in DOMAIN registry : registry[p] \in [rows : 0..U16Max, cols : 0..U16Max]
    /\ viewport \in [rows : 2..U16Max, cols : 2..U16Max]
    /\ last \in [call : {"create", "resize", "split", "focus", "close"}, ok : BOOLEAN]

(* The debug_assert of HostedSession::info and docs/ARCHITECTURE.md,        *)
(* Invariants: "Runtime resources reconcile atomically with pane IDs": a    *)
(* pane has a PTY and a PTY a pane, whatever failed before.                 *)
ResourcesMatch == DOMAIN registry = PaneSet(root)

(* A screen has every cell above the status line in exactly one pane and    *)
(* one pane focused, and shows the panes in their visual order: an earlier  *)
(* one lies to the left of a later one, or above it.                        *)
Shows(rect, x, y) ==
    /\ x \in rect.x..(rect.x + rect.width - 1)
    /\ y \in rect.y..(rect.y + rect.height - 1)
ScreenTiles ==
    LET screen == Screen
    IN  /\ \A x \in 0..(viewport.cols - 1), y \in 0..(viewport.rows - 2) :
             Cardinality({i \in DOMAIN screen : Shows(screen[i].rect, x, y)}) = 1
        /\ Cardinality({i \in DOMAIN screen : screen[i].focused}) = 1
        /\ \A i, j \in DOMAIN screen : i < j =>
             \/ screen[i].rect.x + screen[i].rect.width <= screen[j].rect.x
             \/ screen[i].rect.y + screen[i].rect.height <= screen[j].rect.y

(* A Resize or a split that returned Ok leaves every PTY at the size of the *)
(* rectangle its pane is drawn in, the new pane's included.  Nothing says   *)
(* so of a close: its survivors keep their old size until the next resize.  *)
PtysFit ==
    last.call \in {"resize", "split"} /\ last.ok =>
        \A l \in Range(Layout(root, viewport)) : registry[l.pane] = Content(l.rect)

(* Closing a pane never makes another one smaller, however the odd cells    *)
(* move when its sibling takes its place.                                   *)
CloseNeverShrinks ==
    [][last'.call = "close" =>
        \A before \in Range(Layout(root, viewport)),
           after \in Range(Layout(root, viewport))' :
            before.pane = after.pane =>
                /\ after.rect.width >= before.rect.width
                /\ after.rect.height >= before.rect.height]_vars

(* The tree implements the promise: order, focus and identifiers behave as  *)
(* PaneOrder says, through splits and closes anywhere in the tree and every *)
(* failure.                                                                 *)
Order == INSTANCE PaneOrder WITH order <- root.panes
ImplementsPaneOrder == Order!Spec
==============================================================================
