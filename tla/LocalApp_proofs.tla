---------------------------- MODULE LocalApp_proofs ----------------------------
(* Theorems of LocalApp, for any number of panes and any history. *)
EXTENDS LocalApp, TLAPS

Panes == INSTANCE PaneOrder_proofs

(* The part of TypeOK that does not depend on the tree. *)
ModesTyped ==
    /\ history \in [Pane -> 0..MaxHistory]
    /\ pending \in BOOLEAN
    /\ copy \in [active : BOOLEAN, offset : 0..MaxHistory]
    /\ saver \in BOOLEAN
    /\ drawn \in {"nothing", "panes", "copy", "saver"}
    /\ pc \in {"draw", "poll", "route", "terminate", "reap", "refocus", "bury", "shutdown",
              "ended"}

(* What is left of a key while its bytes are routed: the arrow keys have a  *)
(* byte that would be a command's, and its prefix is gone by then.  Nothing *)
(* follows the key that closes a pane.                                      *)
Routing ==
    /\ pc = "route" =>
         /\ drawn = "panes" /\ ~copy.active /\ ~saver
         /\ \/ \E b \in Byte : rest = <<b>>
            \/ rest = <<"esc", "copy", "other">>
            \/ rest = <<"copy", "other">> /\ ~pending
    /\ pc = "terminate" => rest = <<>>
    /\ pc = "poll" => drawn = IF saver THEN "saver" ELSE IF copy.active THEN "copy" ELSE "panes"

LEMMA KeySequences ==
    ASSUME NEW key \in Key
    PROVE  \/ KeyBytes[key] = <<>>
           \/ \E b \in Byte : KeyBytes[key] = <<b>>
           \/ KeyBytes[key] = <<"esc", "copy", "other">>
  BY DEF Key, KeyBytes, Byte

LEMMA RemainingBytes ==
    /\ \A b : Len(<<b>>) = 1 /\ Head(<<b>>) = b /\ Tail(<<b>>) = <<>>
    /\ Head(<<"esc", "copy", "other">>) = "esc" /\ Len(<<"esc", "copy", "other">>) = 3
    /\ Tail(<<"esc", "copy", "other">>) = <<"copy", "other">>
    /\ Head(<<"copy", "other">>) = "copy" /\ Len(<<"copy", "other">>) = 2
    /\ Tail(<<"copy", "other">>) = <<"other">>
  OBVIOUS

LEMMA InitRouting == Init => ModesTyped /\ Routing
<1> SUFFICES ASSUME Init PROVE ModesTyped /\ Routing
  OBVIOUS
<1>1. 0 \in 0..MaxHistory
  BY LocalAssumption
<1> QED
  BY <1>1 DEF Init, ModesTyped, Routing

LEMMA NextModesTyped == ModesTyped /\ focused \in Pane /\ [Next]_vars => ModesTyped'
<1> SUFFICES ASSUME ModesTyped, focused \in Pane, [Next]_vars PROVE ModesTyped'
  OBVIOUS
<1> USE DEF ModesTyped, session, modes, loop
<1>1. CASE UNCHANGED vars
  BY <1>1 DEF vars
<1>2. CASE Draw \/ NoKey \/ Scan \/ ScanEnds \/ Refocus \/ CloseExited \/ Fail \/ Shutdown
           \/ Terminate
  BY <1>2 DEF Draw, NoKey, Scan, ScanEnds, Refocus, CloseExited, CloseFocused, Fail, Shutdown,
     Terminate
<1>3. CASE RunByte
  <2>1. 0 \in 0..MaxHistory
    BY LocalAssumption
  <2>2. UNCHANGED <<history, saver, drawn>> /\ pc' \in {"route", "reap", "terminate", "shutdown"}
    BY <1>3 DEF RunByte, AwaitCommand, Forward, SplitPane, FocusNext, ClosePane, CloseFocused,
       EnterCopyMode, Quit, RunCommand, Routed, AfterByte
  <2>3. pending' \in BOOLEAN
    BY <1>3, Zenon DEF RunByte, AwaitCommand, Forward, SplitPane, FocusNext, ClosePane,
       EnterCopyMode, Quit, RunCommand
  <2>4. copy' = copy \/ copy' = [active |-> TRUE, offset |-> 0]
    BY <1>3, Zenon DEF RunByte, AwaitCommand, Forward, SplitPane, FocusNext, ClosePane,
       EnterCopyMode, Quit
  <2>5. copy' \in [active : BOOLEAN, offset : 0..MaxHistory]
    <3>1. [active |-> TRUE, offset |-> 0] \in [active : BOOLEAN, offset : 0..MaxHistory]
      BY <2>1
    <3> QED
      BY <2>4, <3>1, Zenon
  <2> QED
    BY <2>2, <2>3, <2>5
<1>4. ASSUME NEW key \in Key, Dismiss(key) \/ Press(key)
      PROVE  ModesTyped'
  BY <1>4 DEF Dismiss, Press
<1>5. ASSUME NEW key \in Key, Navigate(key)
      PROVE  ModesTyped'
  <2>1. copy' = Navigated(key, history[focused]) /\ history[focused] \in 0..MaxHistory
    BY <1>5 DEF Navigate
  <2>2. copy' \in [active : BOOLEAN, offset : 0..MaxHistory]
    BY <2>1, LocalAssumption DEF Navigated
  <2> QED
    BY <1>5, <2>2 DEF Navigate
<1>6. ASSUME NEW p \in Pane, ShellExits(p) \/ ShellPrints(p)
      PROVE  ModesTyped'
  BY <1>6, LocalAssumption DEF ShellExits, ShellPrints
<1> QED
  BY <1>1, <1>2, <1>3, <1>4, <1>5, <1>6 DEF Next, LoopStep, User

LEMMA NextRouting == ModesTyped /\ Routing /\ [Next]_vars => Routing'
<1> SUFFICES ASSUME ModesTyped, Routing, [Next]_vars PROVE Routing'
  OBVIOUS
<1> USE DEF Routing, session, modes, loop
<1>1. CASE UNCHANGED vars
  BY <1>1 DEF vars
<1>2. CASE Draw \/ NoKey \/ Scan \/ ScanEnds \/ Refocus \/ CloseExited \/ Fail \/ Shutdown
           \/ Terminate
  BY <1>2 DEF Draw, NoKey, Scan, ScanEnds, Refocus, CloseExited, CloseFocused, Fail, Shutdown,
     Terminate
<1>3. CASE RunByte
  <2>0. /\ pc = "route" /\ rest' = Tail(rest) /\ UNCHANGED <<saver, drawn>>
        /\ pc' \in {AfterByte, "shutdown", "terminate"}
    BY <1>3 DEF RunByte, AwaitCommand, Forward, SplitPane, FocusNext, ClosePane, CloseFocused,
       EnterCopyMode, Quit, RunCommand, Routed
  <2>1. ASSUME NEW b \in Byte, rest = <<b>>
        PROVE  pc' \notin {"route", "poll"} /\ rest' = <<>>
    BY <2>0, <2>1, RemainingBytes DEF AfterByte
  <2>2. CASE rest = <<"esc", "copy", "other">>
    <3>1. rest' = <<"copy", "other">> /\ pc' \in {"route", "shutdown", "terminate"}
      BY <2>0, <2>2, RemainingBytes DEF AfterByte
    <3>2. Forward
      BY <1>3, <2>2, RemainingBytes DEF RunByte, AwaitCommand, SplitPane, FocusNext, ClosePane, EnterCopyMode,
     Quit, RunCommand
    <3>3. pc' = "route"
      BY <2>2, <3>2, RemainingBytes DEF Forward, AfterByte
    <3> QED
      BY <2>0, <3>1, <3>2, <3>3 DEF Forward
  <2>3. CASE rest = <<"copy", "other">> /\ ~pending
    <3>1. rest' = <<"other">> /\ pc' \in {"route", "shutdown", "terminate"}
      BY <2>0, <2>3, RemainingBytes DEF AfterByte
    <3>2. Forward
      BY <1>3, <2>3, RemainingBytes DEF RunByte, AwaitCommand, SplitPane, FocusNext, ClosePane, EnterCopyMode,
     Quit, RunCommand
    <3>3. pc' = "route"
      BY <2>3, <3>2, RemainingBytes DEF Forward, AfterByte
    <3> QED
      BY <2>0, <3>1, <3>2, <3>3 DEF Forward, Byte
  <2> QED
    BY <2>0, <2>1, <2>2, <2>3
<1>4. ASSUME NEW key \in Key, Dismiss(key) \/ Navigate(key)
      PROVE  Routing'
  BY <1>4 DEF Dismiss, Navigate
<1>5. ASSUME NEW key \in Key, Press(key)
      PROVE  Routing'
  BY <1>5, KeySequences DEF Press
<1>6. ASSUME NEW p \in Pane, ShellExits(p) \/ ShellPrints(p)
      PROVE  Routing'
  BY <1>6 DEF ShellExits, ShellPrints
<1> QED
  BY <1>1, <1>2, <1>3, <1>4, <1>5, <1>6 DEF Next, LoopStep, User

LEMMA NextRest == Routing /\ rest \in Seq(Byte) /\ [Next]_vars => rest' \in Seq(Byte)
<1> SUFFICES ASSUME Routing, rest \in Seq(Byte), [Next]_vars PROVE rest' \in Seq(Byte)
  OBVIOUS
<1>1. ASSUME NEW key \in Key PROVE KeyBytes[key] \in Seq(Byte)
  <2>1. <<"esc", "copy", "other">> \in Seq(Byte) /\ <<>> \in Seq(Byte)
    BY DEF Byte
  <2>2. \A b \in Byte : <<b>> \in Seq(Byte)
    OBVIOUS
  <2> QED
    BY <2>1, <2>2, KeySequences, Zenon
<1>2. CASE RunByte
  <2>1. rest' = Tail(rest) /\ pc = "route"
    BY <1>2 DEF RunByte, AwaitCommand, Forward, SplitPane, FocusNext, ClosePane, EnterCopyMode,
       Quit, RunCommand, Routed
  <2>2. rest # <<>>
    <3>1. \A b : <<b>> # <<>>
      OBVIOUS
    <3>2. <<"esc", "copy", "other">> # <<>> /\ <<"copy", "other">> # <<>>
      OBVIOUS
    <3> QED
      BY <2>1, <3>1, <3>2, Zenon DEF Routing
  <2> QED
    BY <2>1, <2>2
<1>3. <<>> \in Seq(Byte)
  OBVIOUS
<1>4. \/ rest' = rest \/ rest' = <<>> \/ RunByte \/ \E key \in Key : rest' = KeyBytes[key]
  BY DEF Next, LoopStep, User, vars, loop, Draw, NoKey, Dismiss, Navigate, Press, Scan, ScanEnds,
     Refocus, CloseExited, Terminate, Fail, Shutdown, ShellExits, ShellPrints
<1> QED
  BY <1>1, <1>2, <1>3, <1>4, Zenon

------------------------------------------------------------------------------
(* The tree's state.  That order is shorter than next_id bounds it, and so  *)
(* scan, by the number of panes.                                            *)
Shape ==
    /\ next_id \in 2..(MaxPaneId + 1)
    /\ order \in Seq(Pane)
    /\ Panes!Fresh(order, Len(order), next_id)
    /\ Len(order) < next_id
    /\ \E i \in 1..Len(order) : order[i] = focused

Elements(s, m) == {s[j] : j \in 1..m}

LEMMA ElementsInserted ==
    ASSUME NEW m \in Nat, NEW p \in 1..(m + 1), NEW e, NEW s, NEW t,
           Panes!Inserts(s, m, p, e, t)
    PROVE  Elements(t, m + 1) = Elements(s, m) \cup {e}
<1>1. ASSUME NEW j \in 1..(m + 1)
      PROVE  t[j] = e \/ \E i \in 1..m : t[j] = s[i]
  <2>1. CASE j < p
    BY <2>1 DEF Panes!Inserts
  <2>2. CASE j = p
    BY <2>2 DEF Panes!Inserts
  <2>3. CASE j > p
    <3>1. j - 1 \in 1..m /\ t[j] = s[j - 1]
      BY <2>3 DEF Panes!Inserts
    <3> QED
      BY <3>1
  <2> QED
    BY <2>1, <2>2, <2>3
<1>2. ASSUME NEW i \in 1..m
      PROVE  \E j \in 1..(m + 1) : t[j] = s[i]
  <2>1. CASE i < p
    <3>1. i \in 1..(m + 1) /\ t[i] = s[i]
      BY <2>1 DEF Panes!Inserts
    <3> QED
      BY <3>1
  <2>2. CASE i >= p
    <3>1. i + 1 \in 1..(m + 1) /\ t[i + 1] = s[i]
      BY <2>2 DEF Panes!Inserts
    <3> QED
      BY <3>1
  <2> QED
    BY <2>1, <2>2
<1>3. t[p] = e
  BY DEF Panes!Inserts
<1> QED
  BY <1>1, <1>2, <1>3 DEF Elements

LEMMA ElementsRemoved ==
    ASSUME NEW m \in Nat, NEW p \in 1..m, NEW s, NEW t,
           \A j, k \in 1..m : s[j] = s[k] => j = k,
           Panes!Removes(s, m, p, t)
    PROVE  Elements(t, m - 1) = Elements(s, m) \ {s[p]}
<1>1. ASSUME NEW j \in 1..(m - 1)
      PROVE  t[j] # s[p] /\ \E i \in 1..m : t[j] = s[i]
  <2>1. CASE j < p
    BY <2>1 DEF Panes!Removes
  <2>2. CASE j >= p
    <3>1. j + 1 \in 1..m /\ t[j] = s[j + 1] /\ j + 1 # p
      BY <2>2 DEF Panes!Removes
    <3> QED
      BY <3>1
  <2> QED
    BY <2>1, <2>2
<1>2. ASSUME NEW i \in 1..m, s[i] # s[p]
      PROVE  \E j \in 1..(m - 1) : t[j] = s[i]
  <2>1. CASE i < p
    <3>1. i \in 1..(m - 1) /\ t[i] = s[i]
      BY <2>1 DEF Panes!Removes
    <3> QED
      BY <3>1
  <2>2. CASE i > p
    <3>1. i - 1 \in 1..(m - 1) /\ t[i - 1] = s[i]
      BY <2>2 DEF Panes!Removes
    <3> QED
      BY <3>1
  <2> QED
    BY <1>2, <2>1, <2>2
<1> QED
  BY <1>1, <1>2 DEF Elements

LEMMA PresentPanes ==
    Shape => /\ Tree!Present = Elements(order, Len(order))
             /\ focused \in Tree!Present
             /\ Tree!Present \subseteq Pane
             /\ \A p \in Tree!Present : p < next_id
<1> SUFFICES ASSUME Shape PROVE
             /\ Tree!Present = Elements(order, Len(order))
             /\ focused \in Tree!Present
             /\ Tree!Present \subseteq Pane
             /\ \A p \in Tree!Present : p < next_id
  OBVIOUS
<1>1. DOMAIN order = 1..Len(order) /\ \A j \in 1..Len(order) : order[j] \in Pane
  BY DEF Shape
<1> QED
  BY <1>1 DEF Shape, Tree!Present, Elements, Panes!Fresh

LEMMA SplitShape ==
    ASSUME Shape, Tree!SplitFocused, next_id <= MaxPaneId
    PROVE  Shape' /\ Tree!Present' = Tree!Present \cup {next_id} /\ next_id' = next_id + 1
<1>1. DOMAIN order = 1..Len(order) /\ Len(order) \in Nat /\ next_id \in Pane /\ next_id \in Nat
  BY DEF Shape, Pane
<1>2. PICK i \in 1..Len(order) :
        /\ order' = Panes!InsertAt(order, i + 1, next_id)
        /\ focused' = next_id
        /\ next_id' = next_id + 1
  BY <1>1 DEF Tree!SplitFocused, Tree!InsertAt, Panes!InsertAt
<1>3. PICK p \in 1..(Len(order) + 1) : p = i + 1
  BY <1>1
<1>4. order \in Seq(Pane) /\ order' = Panes!InsertAt(order, p, next_id)
  BY <1>2, <1>3 DEF Shape
<1>5. /\ order' \in Seq(Pane)
      /\ Len(order') = Len(order) + 1
      /\ Panes!Inserts(order, Len(order), p, next_id, order')
  <2>1. Panes!Grown(Pane, order, p, next_id, order')
    BY <1>1, <1>3, <1>4, Panes!InsertAtElements, Zenon
  <2> QED
    BY <2>1 DEF Panes!Grown
<1>6. Panes!Fresh(order', Len(order) + 1, next_id + 1)
  BY <1>1, <1>3, <1>5, Panes!InsertFresh, Zenon DEF Shape
<1>7. order'[p] = next_id
  BY <1>1, <1>3, <1>5, Panes!InsertPlace, Zenon
<1>8. Shape'
  <2>1. \E j \in 1..Len(order') : order'[j] = focused'
    BY <1>2, <1>5, <1>7, Zenon
  <2>2. Len(order') < next_id' /\ next_id' \in 2..(MaxPaneId + 1)
    BY <1>1, <1>2, <1>5, LocalAssumption DEF Shape
  <2>3. Panes!Fresh(order', Len(order'), next_id')
    BY <1>2, <1>5, <1>6, Zenon
  <2> QED
    BY <1>5, <2>1, <2>2, <2>3, Zenon DEF Shape
<1>9. Tree!Present' = Elements(order', Len(order) + 1)
  <2>1. DOMAIN order' = 1..(Len(order) + 1)
    BY <1>5
  <2> QED
    BY <2>1, Zenon DEF Tree!Present, Elements
<1>10. Tree!Present' = Elements(order, Len(order)) \cup {next_id}
  <2>1. Elements(order', Len(order) + 1) = Elements(order, Len(order)) \cup {next_id}
    BY <1>1, <1>3, <1>5, ElementsInserted
  <2> QED
    BY <1>9, <2>1, Zenon
<1> QED
  BY <1>2, <1>8, <1>10, PresentPanes, Zenon

LEMMA FocusShape ==
    ASSUME Shape, Tree!FocusNext
    PROVE  Shape' /\ Tree!Present' = Tree!Present
<1>1. DOMAIN order = 1..Len(order) /\ Len(order) \in Nat
  BY DEF Shape
<1>2. PICK i \in 1..Len(order) :
        focused' = order[(i % Len(order)) + 1] /\ UNCHANGED <<order, next_id>>
  BY <1>1 DEF Tree!FocusNext
<1>3. (i % Len(order)) + 1 \in 1..Len(order)
  BY <1>1
<1> QED
  BY <1>2, <1>3 DEF Shape, Panes!Fresh, Tree!Present

LEMMA CloseShape ==
    ASSUME Shape, Tree!CloseFocused
    PROVE  /\ Shape' /\ Tree!Present' = Tree!Present \ {focused} /\ UNCHANGED next_id
           /\ Tree!Present' # {}
<1>1. DOMAIN order = 1..Len(order) /\ Len(order) \in Nat /\ next_id \in Nat
  BY DEF Shape
<1>2. PICK i \in 1..Len(order) :
        /\ order[i] = focused
        /\ Len(order) > 1
        /\ order' = Panes!RemoveAt(order, i)
        /\ focused' = order[IF i = 1 THEN 2 ELSE i - 1]
        /\ UNCHANGED next_id
  BY <1>1 DEF Tree!CloseFocused, Tree!RemoveAt, Panes!RemoveAt
<1>3. order \in Seq(Pane)
  BY DEF Shape
<1>4. /\ order' \in Seq(Pane)
      /\ Len(order') = Len(order) - 1
      /\ Panes!Removes(order, Len(order), i, order')
  BY <1>2, <1>3, Panes!RemoveAtElements, Zenon
<1>5. Panes!Fresh(order', Len(order) - 1, next_id)
  BY <1>1, <1>4, Panes!RemoveFresh, Zenon DEF Shape
<1>6. \E j \in 1..Len(order') : order'[j] = focused'
  <2>1. CASE i = 1
    <3>1. 1 \in 1..Len(order') /\ order'[1] = order[2]
      BY <1>1, <1>2, <1>4, <2>1 DEF Panes!Removes
    <3> QED
      BY <1>2, <2>1, <3>1
  <2>2. CASE i # 1
    <3>1. i - 1 \in 1..Len(order') /\ order'[i - 1] = order[i - 1]
      BY <1>1, <1>2, <1>4, <2>2 DEF Panes!Removes
    <3> QED
      BY <1>2, <2>2, <3>1
  <2> QED
    BY <2>1, <2>2
<1>7. Shape'
  <2>1. Len(order') < next_id' /\ next_id' \in 2..(MaxPaneId + 1)
    BY <1>1, <1>2, <1>4 DEF Shape
  <2>2. Panes!Fresh(order', Len(order'), next_id')
    BY <1>2, <1>4, <1>5, Zenon
  <2> QED
    BY <1>4, <1>6, <2>1, <2>2, Zenon DEF Shape
<1>8. Tree!Present' = Elements(order', Len(order) - 1)
  <2>1. DOMAIN order' = 1..(Len(order) - 1)
    BY <1>4
  <2> QED
    BY <2>1, Zenon DEF Tree!Present, Elements
<1>9. Tree!Present' = Elements(order, Len(order)) \ {order[i]}
  <2>1. \A j, k \in 1..Len(order) : order[j] = order[k] => j = k
    BY DEF Shape, Panes!Fresh
  <2> QED
    BY <1>1, <1>2, <1>4, <1>8, <2>1, ElementsRemoved, Zenon
<1>10. Tree!Present' # {}
  BY <1>4, <1>6, <1>8 DEF Elements
<1> QED
  BY <1>2, <1>7, <1>9, <1>10, PresentPanes, Zenon

------------------------------------------------------------------------------
(* The shells.  A pane that the loop is about to close for its shell's end  *)
(* is still there, and its shell has ended.                                 *)
Shells ==
    /\ shell \in [Pane -> {"none", "running", "exited", "reaped"}]
    /\ scan \in 1..(MaxPaneId + 1)
    /\ \A p \in Pane : p >= next_id => shell[p] = "none"
    /\ ShellsMatch
    /\ pc = "refocus" => scan <= Len(order) /\ shell[order[scan]] = "exited"

LoopInv == Shape /\ Shells

LEMMA InitLoopInv == Init => LoopInv
<1> SUFFICES ASSUME Init PROVE LoopInv
  OBVIOUS
<1>1. 1 \in Pane /\ MaxPaneId \in Nat /\ MaxPaneId >= 1
  BY LocalAssumption DEF Pane
<1>2. order = <<1>> /\ focused = 1 /\ next_id = 2
  BY DEF Init, Tree!Init
<1>3. order \in Seq(Pane) /\ Len(order) = 1 /\ order[1] = 1 /\ DOMAIN order = {1}
  BY <1>1, <1>2
<1>4. Shape
  BY <1>1, <1>2, <1>3 DEF Shape, Panes!Fresh
<1>5. Tree!Present = {1}
  BY <1>3 DEF Tree!Present
<1>6. /\ shell \in [Pane -> {"none", "running", "exited", "reaped"}]
      /\ \A p \in Pane : shell[p] = IF p = 1 THEN "running" ELSE "none"
      /\ pc = "draw" /\ scan = 1
  BY DEF Init
<1>7. ShellsMatch
  <2>1. Stale = {}
    BY <1>5, <1>6 DEF Stale, Live
  <2> QED
    BY <1>1, <1>5, <1>6, <2>1 DEF ShellsMatch, Live
<1>8. Shells
  BY <1>1, <1>2, <1>6, <1>7 DEF Shells, Pane
<1> QED
  BY <1>4, <1>8 DEF LoopInv

LEMMA SplitShells ==
    ASSUME LoopInv, SplitPane
    PROVE  LoopInv'
<1>1. /\ Shape' /\ Tree!Present' = Tree!Present \cup {next_id} /\ next_id' = next_id + 1
      /\ shell' = [shell EXCEPT ![next_id] = "running"]
      /\ pc = "route" /\ pc' \in {"route", "reap", "shutdown"} /\ UNCHANGED scan
  BY SplitShape DEF LoopInv, SplitPane, RunCommand, Routed, AfterByte
<1>2. next_id \in Pane /\ next_id \in Nat /\ next_id \notin Tree!Present
  BY PresentPanes DEF SplitPane, LoopInv, Shape, Pane
<1> QED
  BY <1>1, <1>2 DEF LoopInv, Shells, ShellsMatch, Stale, Live, Pane

(* After a close the shells of no pane are at most that of the pane closed. *)
LEMMA CloseShells ==
    ASSUME LoopInv, pc \in {"route", "refocus"},
           NEW next \in {"route", "reap", "draw"}, NEW terminating \in {"terminate", "bury"},
           CloseFocused(next, terminating), UNCHANGED shell, scan' \in {scan, 1}
    PROVE  LoopInv'
<1>1. CASE UNCHANGED session /\ pc' = next
  BY <1>1, LocalAssumption DEF LoopInv, session, Shape, Shells, ShellsMatch, Stale, Tree!Present
<1>2. CASE Tree!CloseFocused /\ pc' = terminating
  <2>1. Shape' /\ Tree!Present' = Tree!Present \ {focused} /\ UNCHANGED next_id
    BY <1>2, CloseShape DEF LoopInv
  <2>2. scan' \in 1..(MaxPaneId + 1)
    BY LocalAssumption DEF LoopInv, Shells
  <2> QED
    BY <1>2, <2>1, <2>2 DEF LoopInv, Shells, ShellsMatch
<1> QED
  BY <1>1, <1>2 DEF CloseFocused

(* Terminate leaves no shell without a pane, whether it fails or not. *)
LEMMA TerminateShells == ASSUME LoopInv, Terminate PROVE LoopInv'
<1>1. Shape' /\ Tree!Present' = Tree!Present /\ UNCHANGED <<session, scan>>
  BY DEF Terminate, LoopInv, Shape, session, Tree!Present
<1>2. \A p \in Pane : shell'[p] = IF p \in Stale THEN "reaped" ELSE shell[p]
  BY DEF Terminate
<1>3. shell' \in [Pane -> {"none", "running", "exited", "reaped"}]
  BY DEF Terminate, LoopInv, Shells
<1>4. /\ pc \in {"terminate", "bury"}
      /\ pc' \notin {"terminate", "refocus", "bury", "ended"}
  BY DEF Terminate
<1>5. ShellsMatch'
  <2>1. \A p \in Tree!Present : p \in Pane /\ p \notin Stale /\ shell[p] \in Live
    BY <1>4, PresentPanes DEF LoopInv, Shells, ShellsMatch, Stale
  <2>2. Stale' = {}
    BY <1>1, <1>2 DEF Stale, Live
  <2> QED
    BY <1>1, <1>2, <1>4, <2>1, <2>2 DEF ShellsMatch
<1>6. \A p \in Pane : p >= next_id' => shell'[p] = "none"
  BY <1>1, <1>2 DEF LoopInv, Shells, Stale, Live, session
<1> QED
  BY <1>1, <1>3, <1>4, <1>5, <1>6 DEF LoopInv, Shells

LEMMA NextLoopInv == LoopInv /\ [Next]_vars => LoopInv'
<1> SUFFICES ASSUME LoopInv, [Next]_vars PROVE LoopInv'
  OBVIOUS
<1>0. /\ Shape /\ Shells
      /\ UNCHANGED <<session>> => Shape' /\ Tree!Present' = Tree!Present
  BY DEF LoopInv, Shape, session, Tree!Present
<1>a. ASSUME UNCHANGED <<session, shell, scan>>, pc \notin {"terminate", "bury", "ended"},
             pc' \notin {"refocus", "ended"}
      PROVE  LoopInv'
  BY <1>0, <1>a DEF LoopInv, session, Shells, ShellsMatch, Stale
<1>1. CASE UNCHANGED vars
  BY <1>0, <1>1 DEF vars, session, LoopInv, Shells, ShellsMatch, Stale
<1>2. CASE Draw \/ NoKey \/ AwaitCommand \/ Forward \/ EnterCopyMode \/ Quit \/ Fail
  BY <1>a, <1>2 DEF Draw, NoKey, AwaitCommand, Forward, EnterCopyMode, Quit, Fail,
     RunCommand, Routed, AfterByte, loop
<1>3. ASSUME NEW key \in Key, Dismiss(key) \/ Navigate(key) \/ Press(key)
      PROVE  LoopInv'
  BY <1>a, <1>3 DEF Dismiss, Navigate, Press, modes
<1>4. CASE SplitPane
  BY <1>4, SplitShells
<1>5. CASE ClosePane
  <2>1. /\ CloseFocused(AfterByte, "terminate") /\ UNCHANGED shell /\ scan' \in {scan, 1}
        /\ pc = "route" /\ AfterByte \in {"route", "reap", "draw"}
    BY <1>5 DEF ClosePane, RunCommand, Routed, AfterByte
  <2> QED
    BY <2>1, CloseShells
<1>6. CASE CloseExited
  <2>1. /\ CloseFocused("draw", "bury") /\ UNCHANGED shell /\ scan' \in {scan, 1}
        /\ pc = "refocus"
    BY <1>6 DEF CloseExited
  <2> QED
    BY <2>1, CloseShells
<1>7. CASE FocusNext
  <2>1. Shape' /\ Tree!Present' = Tree!Present /\ UNCHANGED <<order, next_id>>
    BY <1>0, <1>7, FocusShape DEF FocusNext, Tree!FocusNext
  <2> QED
    BY <1>0, <1>7, <2>1 DEF FocusNext, RunCommand, Routed, AfterByte, LoopInv, Shells, ShellsMatch, Stale
<1>8. CASE Refocus
  <2>1. Shape' /\ Tree!Present' = Tree!Present /\ UNCHANGED <<order, next_id>>
    BY <1>0, <1>8, FocusShape DEF Refocus, Tree!FocusNext
  <2> QED
    BY <1>0, <1>8, <2>1 DEF Refocus, loop, LoopInv, Shells, ShellsMatch, Stale
<1>9. CASE Scan
  <2>1. Len(order) \in Nat /\ Len(order) <= MaxPaneId /\ MaxPaneId \in Nat
    BY <1>0, LocalAssumption DEF Shape
  <2>2. scan' \in 1..(MaxPaneId + 1)
    BY <1>0, <1>9, <2>1 DEF Scan, Shells
  <2> QED
    BY <1>0, <1>9, <2>2 DEF Scan, Exited, session, LoopInv, Shells, ShellsMatch, Stale
<1>10. CASE ScanEnds
  BY <1>0, <1>10, LocalAssumption DEF ScanEnds, session, LoopInv, Shells, ShellsMatch, Stale
<1>11. CASE Shutdown
  BY <1>0, <1>11 DEF Shutdown, session, LoopInv, Shells, ShellsMatch, Stale, Live
<1>12. ASSUME NEW p \in Pane, ShellExits(p)
       PROVE  LoopInv'
  <2>1. Shape' /\ Tree!Present' = Tree!Present
    BY <1>0, <1>12 DEF ShellExits
  <2>2. pc = "refocus" => order[scan] \in Pane
    BY <1>0 DEF Shape, Shells
  <2> QED
    BY <1>0, <1>12, <2>1, <2>2 DEF ShellExits, session, loop, LoopInv, Shells, ShellsMatch, Stale, Live
<1>13. ASSUME NEW p \in Pane, ShellPrints(p)
       PROVE  LoopInv'
  BY <1>0, <1>13 DEF ShellPrints, session, loop, LoopInv, Shells, ShellsMatch, Stale
<1>14. CASE Terminate
  BY <1>14, TerminateShells
<1> QED
  BY <1>1, <1>2, <1>3, <1>4, <1>5, <1>6, <1>7, <1>8, <1>9, <1>10, <1>11, <1>12, <1>13, <1>14
  DEF Next, LoopStep, User, RunByte

------------------------------------------------------------------------------
(* The whole invariant. *)
IInv == ModesTyped /\ Routing /\ rest \in Seq(Byte) /\ LoopInv

LEMMA Invariant == Spec => []IInv
<1>1. Init => IInv
  BY InitRouting, InitLoopInv DEF IInv, Init
<1>2. IInv => focused \in Pane
  BY PresentPanes DEF IInv, LoopInv
<1>3. IInv /\ [Next]_vars => IInv'
  BY <1>2, NextModesTyped, NextRouting, NextRest, NextLoopInv DEF IInv
<1> QED
  BY <1>1, <1>3, PTL DEF Spec

(* Every value the application keeps has its type, the scan's place in the  *)
(* order of the panes among them.                                           *)
THEOREM LocalTypeCorrect == Spec => []TypeOK
<1>1. IInv => TypeOK
  BY PresentPanes DEF IInv, ModesTyped, LoopInv, Shape, Shells, TypeOK
<1> QED
  BY <1>1, Invariant, PTL

(* A byte of a key is routed only below a frame that showed the panes: no   *)
(* byte reaches a shell from a key that dismissed a screensaver or that     *)
(* copy mode was to take.                                                   *)
THEOREM KeysRoutedWhenShown == Spec => []RoutedWhenShown
<1>1. IInv => RoutedWhenShown
  BY DEF IInv, Routing, RoutedWhenShown
<1> QED
  BY <1>1, Invariant, PTL

(* Every pane has its shell, a shell without a pane is being terminated, and *)
(* none is left after the end, whatever failed half way.                     *)
THEOREM ShellsMatchPanes == Spec => []ShellsMatch
<1>1. IInv => ShellsMatch
  BY DEF IInv, LoopInv, Shells
<1> QED
  BY <1>1, Invariant, PTL

(* A pane is closed by its user's command or for its own shell's end, and   *)
(* the last one is not closed at all.                                       *)
THEOREM ClosedForCause == Spec => PanesLeaveForCause
<1>1. ASSUME LoopInv, [Next]_vars, NEW p \in Tree!Present, p \notin Tree!Present'
      PROVE  /\ Tree!Present' # {}
             /\ \/ pc = "refocus" /\ shell[p] = "exited"
                \/ pc = "route" /\ pending /\ Head(rest) = "close" /\ p = focused
  <2>1. UNCHANGED order => FALSE
    BY <1>1 DEF Tree!Present
  <2>2. (SplitPane => FALSE) /\ (Tree!FocusNext => FALSE)
    BY <1>1, SplitShape, FocusShape DEF LoopInv, SplitPane
  <2>3. Tree!CloseFocused => p = focused /\ Tree!Present' # {}
    BY <1>1, CloseShape DEF LoopInv
  <2>4. CASE ClosePane
    BY <2>1, <2>3, <2>4 DEF ClosePane, CloseFocused, RunCommand, Routed, session
  <2>5. CASE CloseExited
    BY <1>1, <2>1, <2>3, <2>5 DEF CloseExited, CloseFocused, session, LoopInv, Shells
  <2>6. ClosePane \/ CloseExited
    BY <1>1, <2>1, <2>2 DEF Next, LoopStep, User, RunByte, vars, session, Draw, NoKey, Dismiss,
       Navigate, Press, AwaitCommand, Forward, FocusNext, EnterCopyMode, Quit, Scan, ScanEnds,
       Refocus, Shutdown, Terminate, Fail, ShellExits, ShellPrints
  <2> QED
    BY <2>4, <2>5, <2>6
<1>2. IInv /\ [Next]_vars =>
        [\A p \in Tree!Present : p \notin Tree!Present' =>
         /\ Tree!Present' # {}
         /\ \/ pc = "refocus" /\ shell[p] = "exited"
            \/ pc = "route" /\ pending /\ Head(rest) = "close" /\ p = focused]_vars
  BY <1>1 DEF IInv
<1> QED
  BY <1>2, Invariant, PTL DEF Spec, PanesLeaveForCause

(* A copy-mode key that changes the offset moves the view, as long as the   *)
(* pane keeps its history and its focus.                                    *)
THEOREM ViewMoves == Spec => ViewFollowsKeys
<1>1. ASSUME ModesTyped, focused \in Pane, [Next]_vars, Retained
      PROVE  /\ copy.active /\ copy'.active /\ copy' # copy => Viewport' # Viewport
             /\ Retained' \/ focused' # focused \/ history'[focused] < history[focused]
  <2>1. history[focused] \in Nat /\ copy.offset \in Nat /\ copy.offset <= history[focused]
        /\ copy = [active |-> copy.active, offset |-> copy.offset]
    BY <1>1, LocalAssumption DEF ModesTyped, Retained
  <2>2. CASE UNCHANGED <<copy, focused>>
    <3>1. history'[focused] \in Nat
      BY <1>1, NextModesTyped, LocalAssumption DEF ModesTyped
    <3> QED
      BY <2>1, <2>2, <3>1 DEF Retained
  <2>3. ASSUME NEW key \in Key, Navigate(key)
        PROVE  /\ copy.active /\ copy'.active /\ copy' # copy => Viewport' # Viewport
               /\ Retained'
    <3>1. copy' = Navigated(key, history[focused]) /\ UNCHANGED <<history, focused>>
      BY <2>3 DEF Navigate, session
    <3>2. \/ copy' = [active |-> FALSE, offset |-> 0]
          \/ \E n \in Nat : copy' = [copy EXCEPT !.offset = n] /\ n <= history[focused]
      <4> DEFINE max == history[focused]
                 Older(r) == IF copy.offset + r > max THEN max ELSE copy.offset + r
                 Newer(r) == IF r > copy.offset THEN 0 ELSE copy.offset - r
      <4>1. ASSUME NEW r \in Nat
            PROVE  Older(r) \in Nat /\ Older(r) <= max /\ Newer(r) \in Nat /\ Newer(r) <= max
        BY <2>1
      <4>2. \/ copy' = [active |-> FALSE, offset |-> 0] \/ copy' = copy
            \/ \E r \in {1, PageRows} : \/ copy' = [copy EXCEPT !.offset = Older(r)]
                                        \/ copy' = [copy EXCEPT !.offset = Newer(r)]
        BY <3>1, Zenon DEF Navigated
      <4>3. copy = [copy EXCEPT !.offset = copy.offset]
        BY <2>1
      <4> HIDE DEF max, Older, Newer
      <4>4. ASSUME NEW r \in {1, PageRows}
            PROVE  Older(r) \in Nat /\ Older(r) <= max /\ Newer(r) \in Nat /\ Newer(r) <= max
        BY <4>1, LocalAssumption
      <4> QED
        BY <2>1, <4>2, <4>3, <4>4, Zenon DEF max
    <3>3. CASE copy' = [active |-> FALSE, offset |-> 0]
      BY <2>1, <3>1, <3>3 DEF Retained
    <3>4. ASSUME NEW n \in Nat, copy' = [copy EXCEPT !.offset = n], n <= history[focused]
          PROVE  /\ copy' # copy => Viewport' # Viewport
                 /\ Retained'
      <4>1. copy'.offset = n
        BY <2>1, <3>4
      <4>2. copy' # copy => n # copy.offset
        BY <2>1, <3>4
      <4>3. Viewport' = n /\ Viewport = copy.offset /\ Retained'
        BY <1>1, <3>1, <3>4, <4>1 DEF Retained, Viewport
      <4> QED
        BY <4>2, <4>3
    <3> QED
      BY <3>2, <3>3, <3>4
  <2>4. CASE EnterCopyMode
    BY <2>1, <2>4 DEF EnterCopyMode, RunCommand, Routed, session, Retained, Viewport
  <2>5. CASE copy' = copy /\ focused' # focused
    BY <2>5
  <2>6. \/ copy' = copy \/ EnterCopyMode \/ \E key \in Key : Navigate(key)
    BY <1>1 DEF Next, LoopStep, User, RunByte, vars, modes, Draw, NoKey, Dismiss,
       Press, AwaitCommand, Forward, FocusNext, SplitPane, ClosePane, Quit, Scan, ScanEnds,
       Refocus, CloseExited, Shutdown, Terminate, Fail, ShellExits, ShellPrints
  <2> QED
    BY <2>2, <2>3, <2>4, <2>5, <2>6
<1>2. IInv => ModesTyped /\ focused \in Pane
  BY PresentPanes DEF IInv, LoopInv
<1>3. IInv /\ [Next]_vars =>
    [Retained =>
         /\ copy.active /\ copy'.active /\ copy' # copy => Viewport' # Viewport
         /\ Retained' \/ focused' # focused \/ history'[focused] < history[focused]]_vars
  BY <1>1, <1>2
<1> QED
  BY <1>3, Invariant, PTL DEF Spec, ViewFollowsKeys
==============================================================================
