------------------------------ MODULE PaneNode ------------------------------
(***************************************************************************)
(* The pane tree of crates/novamux-core/src/lib.rs as its nodes, with the  *)
(* recursive functions of the source: a node is a pane, or a split of two  *)
(* nodes.  NodeOf rebuilds the nodes from the leaves that PaneTree keeps.  *)
(***************************************************************************)
EXTENDS PaneTree

CONSTANT NoNode \* Option::None of a node

Node(pane) == [pane |-> pane]
Split(direction, first, second) ==
    [direction |-> direction, first |-> first, second |-> second]
IsPane(node) == "pane" \in DOMAIN node

RECURSIVE collect_panes(_)
collect_panes(node) ==
    IF IsPane(node) THEN <<node.pane>>
    ELSE collect_panes(node.first) \o collect_panes(node.second)

(* Whether the target has been found is told by the node that comes back.   *)
RECURSIVE split_node(_, _, _, _)
split_node(node, target, new, direction) ==
    IF IsPane(node)
    THEN IF node.pane = target THEN Split(direction, node, Node(new)) ELSE node
    ELSE LET first == split_node(node.first, target, new, direction)
         IN  IF first # node.first THEN [node EXCEPT !.first = first]
             ELSE [node EXCEPT !.second = split_node(@, target, new, direction)]

RECURSIVE remove_pane(_, _)
remove_pane(node, target) ==
    IF IsPane(node)
    THEN IF node.pane = target THEN NoNode ELSE node
    ELSE LET first == remove_pane(node.first, target)
             second == remove_pane(node.second, target)
         IN  IF first = NoNode THEN second
             ELSE IF second = NoNode THEN first
             ELSE Split(node.direction, first, second)

RECURSIVE layout_node(_, _)
layout_node(node, area) ==
    IF IsPane(node)
    THEN <<[pane |-> node.pane, rect |-> area]>>
    ELSE LET halves == SplitRect(area, node.direction)
         IN  layout_node(node.first, halves[1]) \o layout_node(node.second, halves[2])

(* The node that holds these panes of the tree, depth turns below the root. *)
RECURSIVE NodeOf(_, _, _)
NodeOf(tree, panes, depth) ==
    LET some == CHOOSE p \in panes : TRUE
        In(half) == {p \in panes : tree.way[p][depth + 1].half = half}
    IN  IF panes = {some} THEN Node(some)
        ELSE Split(tree.way[some][depth + 1].direction,
                   NodeOf(tree, In(1), depth + 1), NodeOf(tree, In(2), depth + 1))
==============================================================================
