------------------------------ MODULE PaneTree ------------------------------
(***************************************************************************)
(* The binary pane tree of crates/novamux-core/src/lib.rs, kept as its     *)
(* leaves: the panes in visual order, and for each of them the way to it   *)
(* from the root, which names at every split its direction and the half    *)
(* the pane is in.  Two ways part where the tree does.  PaneNode has the   *)
(* functions of the source that recurse over boxed nodes, and              *)
(* MCHostedSession holds the two against each other.                       *)
(***************************************************************************)
EXTENDS Integers, SequencesExt

CONSTANT U16Max  \* u16::MAX, 65535 in the code

ASSUME TreeAssumption == U16Max \in Nat /\ U16Max >= 2

Direction == {"Horizontal", "Vertical"}
Turn == [direction : Direction, half : {1, 2}]

Leaf(pane) == [panes |-> <<pane>>, way |-> [p \in {pane} |-> <<>>]]

PaneSet(tree) == DOMAIN tree.way
Position(panes, id) == CHOOSE i \in DOMAIN panes : panes[i] = id

(* Both ways begin with the same n turns. *)
Agree(a, b, n) ==
    n <= Len(a) /\ n <= Len(b) /\ \A k \in 1..n : a[k] = b[k]

(* split_node: the leaf of target becomes a split of target and new. *)
SplitPane(tree, target, new, direction) ==
    LET To(half) == Append(tree.way[target], [direction |-> direction, half |-> half])
    IN  [panes |-> InsertAt(tree.panes, Position(tree.panes, target) + 1, new),
         way |-> [p \in PaneSet(tree) \cup {new} |->
                    IF p = target THEN To(1) ELSE IF p = new THEN To(2) ELSE tree.way[p]]]

(* Mutant of RemovePane: the splits above are rebuilt in one direction. *)
RemovePaneTurned(tree, target) ==
    LET gone == tree.way[target]
        Turned(way) == [k \in DOMAIN way |-> [way[k] EXCEPT !.direction = "Horizontal"]]
    IN  [panes |-> RemoveAt(tree.panes, Position(tree.panes, target)),
         way |-> [p \in PaneSet(tree) \ {target} |->
                    IF Agree(gone, tree.way[p], Len(gone) - 1)
                      THEN Turned(RemoveAt(tree.way[p], Len(gone))) ELSE tree.way[p]]]

(* remove_pane: the sibling of the leaf takes the place of the split that   *)
(* loses it, so the panes in the other half have one turn less to make.     *)
RemovePane(tree, target) ==
    LET gone == tree.way[target]
    IN  [panes |-> RemoveAt(tree.panes, Position(tree.panes, target)),
         way |-> [p \in PaneSet(tree) \ {target} |->
                    IF Agree(gone, tree.way[p], Len(gone) - 1)
                      THEN RemoveAt(tree.way[p], Len(gone)) ELSE tree.way[p]]]

------------------------------------------------------------------------------
(* Rectangles, in u16 arithmetic that saturates. *)
Rect(x, y, width, height) ==
    [x |-> x, y |-> y, width |-> width, height |-> height]
SaturatingAdd(a, b) == IF a + b > U16Max THEN U16Max ELSE a + b
SaturatingSub(a, b) == IF a < b THEN 0 ELSE a - b
AtLeast(a, b) == IF a < b THEN b ELSE a

(* The share of n cells that goes to the first child. *)
Half(n) == SaturatingAdd(n, 1) \div 2

(* Mutant of SplitRect: both children get the size of the first. *)
SplitRectEven(area, direction) ==
    LET width == Half(area.width)
        height == Half(area.height)
    IN  IF direction = "Horizontal"
        THEN <<Rect(area.x, area.y, width, area.height),
               Rect(SaturatingAdd(area.x, width), area.y, width, area.height)>>
        ELSE <<Rect(area.x, area.y, area.width, height),
               Rect(area.x, SaturatingAdd(area.y, height), area.width, height)>>

(* split_rect: Horizontal puts the children side by side. *)
SplitRect(area, direction) ==
    IF direction = "Horizontal"
    THEN LET first == Half(area.width)
         IN  <<Rect(area.x, area.y, first, area.height),
               Rect(SaturatingAdd(area.x, first), area.y,
                    SaturatingSub(area.width, first), area.height)>>
    ELSE LET first == Half(area.height)
         IN  <<Rect(area.x, area.y, area.width, first),
               Rect(area.x, SaturatingAdd(area.y, first),
                    area.width, SaturatingSub(area.height, first))>>

(* The rectangle of the half that a turn leads to, and the one at the end   *)
(* of a way that starts in area.                                            *)
Portion(area, turn) == SplitRect(area, turn.direction)[turn.half]
Cut(area, way) ==
    LET cut[n \in 0..Len(way)] ==
            IF n = 0 THEN area ELSE Portion(cut[n - 1], way[n])
    IN  cut[Len(way)]

(* layout_node: the rectangle of every pane, in visual order. *)
LayoutTree(tree, area) ==
    [i \in DOMAIN tree.panes |->
        [pane |-> tree.panes[i], rect |-> Cut(area, tree.way[tree.panes[i]])]]
==============================================================================
