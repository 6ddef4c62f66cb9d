--------------------------- MODULE MCHostedSession ---------------------------
(* HostedSession for TLC: U16Max is 7, so a viewport may be as wide as the  *)
(* arithmetic goes, or so narrow that panes have no area.                   *)
EXTENDS HostedSession, PaneNode

SmallCols == {0, 7}
SmallRows == {6}

NodesOf(tree) == NodeOf(tree, PaneSet(tree), 0)

(* The leaves of these nodes: reading them off the tree is what             *)
(* collect_panes and layout_node do with the nodes.                         *)
LeavesOf(nodes, tree, size) ==
    /\ collect_panes(nodes) = tree.panes
    /\ layout_node(nodes, Rect(0, 0, size.cols, size.rows - 1)) = Layout(tree, size)

(* The leaves stay those of the nodes of the source: what a split and a     *)
(* close do to the leaves, split_node and remove_pane do to the nodes.      *)
NodesFollow ==
    [][\/ UNCHANGED <<root, viewport>>
       \/ LET nodes == NodesOf(root)
              after == NodesOf(root')
          IN  /\ LeavesOf(after, root', viewport')
              /\ \/ UNCHANGED root
                 \/ /\ last'.call = "split"
                    /\ \E direction \in Direction :
                          after = split_node(nodes, focused, next_id, direction)
                 \/ last'.call = "close" /\ after = remove_pane(nodes, focused)]_vars
==============================================================================
