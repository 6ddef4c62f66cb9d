------------------------------ MODULE PaneOrder ------------------------------
(***************************************************************************)
(* What crates/novamux-core/src/lib.rs promises of a session's panes: they *)
(* have a stable visual order, one of them is focused, and an identifier   *)
(* is never given out twice.  The tree they are kept in is not part of the *)
(* promise; HostedSession implements this specification with it.           *)
(***************************************************************************)
EXTENDS Integers, SequencesExt

VARIABLES order,   \* the panes, in visual order
          focused, \* the focused pane
          next_id  \* the identifier of the next pane

vars == <<order, focused, next_id>>

Present == {order[i] : i \in DOMAIN order}

Init == order = <<1>> /\ focused = 1 /\ next_id = 2

(* The new pane comes right after the focused one, and takes the focus. *)
SplitFocused ==
    \E i \in DOMAIN order :
        /\ order[i] = focused
        /\ order' = InsertAt(order, i + 1, next_id)
        /\ focused' = next_id
        /\ next_id' = next_id + 1

(* The focus goes round the panes. *)
FocusNext ==
    \E i \in DOMAIN order :
        /\ order[i] = focused
        /\ focused' = order[(i % Len(order)) + 1]
        /\ UNCHANGED <<order, next_id>>

(* The last pane stays; otherwise the focus goes to the pane before. *)
CloseFocused ==
    \E i \in DOMAIN order :
        /\ order[i] = focused
        /\ Len(order) > 1
        /\ order' = RemoveAt(order, i)
        /\ focused' = order[IF i = 1 THEN 2 ELSE i - 1]
        /\ UNCHANGED next_id

Next == SplitFocused \/ FocusNext \/ CloseFocused

Spec == Init /\ [][Next]_vars

(* docs/ARCHITECTURE.md, Invariants: "A live session always contains at     *)
(* least one pane", "Exactly one pane is focused" and "Pane identifiers are *)
(* unique within a session": the expects of focus_next and close_focused    *)
(* rely on the second.                                                      *)
WellFormed ==
    /\ order # <<>>
    /\ focused \in Present
    /\ \A i, j \in DOMAIN order : order[i] = order[j] => i = j
    /\ \A p \in Present : p < next_id

(* The same list: "and never reused".  A pane that appears is one that no   *)
(* pane was before.                                                         *)
NeverReused == [][\A p \in Present' : p \in Present \/ p >= next_id]_vars
==============================================================================
