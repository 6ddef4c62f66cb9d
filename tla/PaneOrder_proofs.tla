--------------------------- MODULE PaneOrder_proofs ---------------------------
(* Theorems of PaneOrder: the documented invariants of a session's panes    *)
(* hold for any number of panes and of operations.                          *)
EXTENDS PaneOrder, SequenceTheorems, TLAPS

(* t is s, of length m, with e put in at position p, or without position p. *)
Inserts(s, m, p, e, t) ==
    \A j \in 1..(m + 1) : t[j] = IF j < p THEN s[j] ELSE IF j = p THEN e ELSE s[j - 1]
Removes(s, m, p, t) ==
    \A j \in 1..(m - 1) : t[j] = IF j < p THEN s[j] ELSE s[j + 1]

(* t is a sequence over S, and s with e put in at position p. *)
Grown(S, s, p, e, t) == t \in Seq(S) /\ Len(t) = Len(s) + 1 /\ Inserts(s, Len(s), p, e, t)

(* What InsertAt and RemoveAt do to the elements of a sequence. *)
LEMMA InsertAtElements ==
    ASSUME NEW S, NEW s \in Seq(S), NEW i \in 1..(Len(s) + 1), NEW e \in S
    PROVE  Grown(S, s, i, e, InsertAt(s, i, e))
<1> DEFINE before == SubSeq(s, 1, i - 1)
           after == SubSeq(s, i, Len(s))
<1>1. /\ before \in Seq(S)
      /\ Len(before) = i - 1
      /\ \A j \in 1..(i - 1) : before[j] = s[j]
  BY SubSeqProperties, 1 \in Int, i - 1 \in Int, \A j \in 1..(i - 1) : s[j] \in S
<1>2. /\ after \in Seq(S)
      /\ Len(after) = Len(s) - i + 1
      /\ \A j \in 1..(Len(s) - i + 1) : after[j] = s[i + j - 1]
  BY SubSeqProperties, i \in Int, Len(s) \in Int, \A j \in i..Len(s) : s[j] \in S
<1> HIDE DEF before, after
<1> DEFINE left == before \o <<e>>
           whole == left \o after
<1>3. /\ left \in Seq(S)
      /\ Len(left) = i
      /\ \A j \in 1..i : left[j] = IF j < i THEN s[j] ELSE e
  BY <1>1, ConcatProperties, <<e>> \in Seq(S), Len(<<e>>) = 1, <<e>>[1] = e
<1> HIDE DEF left
<1>4. /\ whole \in Seq(S)
      /\ Len(whole) = Len(left) + Len(after)
      /\ \A j \in 1..(Len(left) + Len(after)) :
            whole[j] = IF j <= Len(left) THEN left[j] ELSE after[j - Len(left)]
  BY <1>2, <1>3, ConcatProperties, Zenon
<1>5. InsertAt(s, i, e) = whole
  BY Zenon DEF InsertAt, before, after, left
<1> HIDE DEF whole
<1>6. Len(whole) = Len(s) + 1
  BY <1>2, <1>3, <1>4
<1>7. ASSUME NEW j \in 1..(Len(s) + 1)
      PROVE  whole[j] = IF j < i THEN s[j] ELSE IF j = i THEN e ELSE s[j - 1]
  <2>1. CASE j <= i
    BY <1>2, <1>3, <1>4, <2>1
  <2>2. CASE j > i
    <3>1. j - i \in 1..(Len(s) - i + 1) /\ i + (j - i) - 1 = j - 1
      BY <2>2
    <3>2. whole[j] = after[j - i]
      BY <1>2, <1>3, <1>4, <2>2
    <3> QED
      BY <1>2, <2>2, <3>1, <3>2
  <2> QED
    BY <2>1, <2>2
<1> QED
  BY <1>4, <1>5, <1>6, <1>7 DEF Grown, Inserts

LEMMA RemoveAtElements ==
    ASSUME NEW S, NEW s \in Seq(S), NEW i \in 1..Len(s)
    PROVE  /\ RemoveAt(s, i) \in Seq(S)
           /\ Len(RemoveAt(s, i)) = Len(s) - 1
           /\ Removes(s, Len(s), i, RemoveAt(s, i))
<1> DEFINE before == SubSeq(s, 1, i - 1)
           after == SubSeq(s, i + 1, Len(s))
<1>1. /\ before \in Seq(S)
      /\ Len(before) = i - 1
      /\ \A j \in 1..(i - 1) : before[j] = s[j]
  BY SubSeqProperties, 1 \in Int, i - 1 \in Int, \A j \in 1..(i - 1) : s[j] \in S
<1>2. /\ after \in Seq(S)
      /\ Len(after) = Len(s) - i
      /\ \A j \in 1..(Len(s) - i) : after[j] = s[i + j]
  BY SubSeqProperties, i + 1 \in Int, Len(s) \in Int, \A j \in (i + 1)..Len(s) : s[j] \in S
<1> HIDE DEF before, after
<1>3. /\ before \o after \in Seq(S)
      /\ Len(before \o after) = Len(s) - 1
      /\ \A j \in 1..(Len(s) - 1) : (before \o after)[j] =
            IF j <= i - 1 THEN before[j] ELSE after[j - (i - 1)]
  BY <1>1, <1>2, ConcatProperties
<1>4. RemoveAt(s, i) = before \o after
  BY Zenon DEF RemoveAt, before, after
<1>5. \A j \in 1..(Len(s) - 1) : (before \o after)[j] = IF j < i THEN s[j] ELSE s[j + 1]
  BY <1>1, <1>2, <1>3
<1> QED
  BY <1>3, <1>4, <1>5 DEF Removes

(* The first m elements of s are natural, below n and distinct. *)
Fresh(s, m, n) ==
    /\ \A j \in 1..m : s[j] \in Nat /\ s[j] < n
    /\ \A j, k \in 1..m : s[j] = s[k] => j = k

(* The elements of t are among those of s, or e. *)
Among(t, k, s, m, e) ==
    \A j \in 1..k : t[j] = e \/ \E l \in 1..m : t[j] = s[l]

(* Both operations keep a sequence of identifiers fresh, and only n is new. *)
LEMMA InsertFresh ==
    ASSUME NEW m \in Nat, NEW n \in Nat, NEW p \in 1..(m + 1), NEW s, NEW t,
           Fresh(s, m, n), Inserts(s, m, p, n, t)
    PROVE  Fresh(t, m + 1, n + 1) /\ Among(t, m + 1, s, m, n)
<1>1. ASSUME NEW j \in 1..(m + 1)
      PROVE  \/ j < p /\ j \in 1..m /\ t[j] = s[j]
             \/ j = p /\ t[j] = n
             \/ j > p /\ j - 1 \in 1..m /\ t[j] = s[j - 1]
  BY DEF Inserts
<1>2. ASSUME NEW j \in 1..(m + 1)
      PROVE  t[j] \in Nat /\ t[j] < n + 1
  BY <1>1 DEF Fresh
<1>3. ASSUME NEW j \in 1..(m + 1), NEW k \in 1..(m + 1), t[j] = t[k]
      PROVE  j = k
  BY <1>1, <1>3 DEF Fresh
<1> QED
  BY <1>1, <1>2, <1>3 DEF Fresh, Among

LEMMA InsertPlace ==
    ASSUME NEW m \in Nat, NEW p \in 1..(m + 1), NEW n, NEW s, NEW t, Inserts(s, m, p, n, t)
    PROVE  t[p] = n
  BY DEF Inserts

LEMMA RemoveFresh ==
    ASSUME NEW m \in Nat, NEW n \in Nat, NEW p \in 1..m, NEW s, NEW t,
           Fresh(s, m, n), Removes(s, m, p, t)
    PROVE  Fresh(t, m - 1, n) /\ Among(t, m - 1, s, m, n)
<1>1. ASSUME NEW j \in 1..(m - 1)
      PROVE  \/ j < p /\ j \in 1..m /\ t[j] = s[j]
             \/ j >= p /\ j + 1 \in 1..m /\ t[j] = s[j + 1]
  BY DEF Removes
<1>2. ASSUME NEW j \in 1..(m - 1), NEW k \in 1..(m - 1), t[j] = t[k]
      PROVE  j = k
  BY <1>1, <1>2 DEF Fresh
<1> QED
  BY <1>1, <1>2 DEF Fresh, Among

(* The inductive invariant: WellFormed, over the sequence's positions. *)
Inv ==
    /\ order \in Seq(Nat)
    /\ next_id \in Nat
    /\ Fresh(order, Len(order), next_id)
    /\ \E i \in 1..Len(order) : order[i] = focused

LEMMA InitInv == Init => Inv
  BY DEF Init, Inv, Fresh

(* What a split and a close do to the order. *)
LEMMA SplitOrder ==
    ASSUME Inv, NEW i \in 1..Len(order), order' = InsertAt(order, i + 1, next_id)
    PROVE  /\ order' \in Seq(Nat)
           /\ Len(order') = Len(order) + 1
           /\ Fresh(order', Len(order) + 1, next_id + 1)
           /\ i + 1 \in 1..(Len(order) + 1) /\ order'[i + 1] = next_id
           /\ Among(order', Len(order) + 1, order, Len(order), next_id)
<1>1. /\ order \in Seq(Nat) /\ next_id \in Nat /\ Len(order) \in Nat
      /\ Fresh(order, Len(order), next_id)
  BY DEF Inv
<1>2. i + 1 \in 1..(Len(order) + 1)
  BY <1>1
<1>3. /\ order' \in Seq(Nat)
      /\ Len(order') = Len(order) + 1
      /\ Inserts(order, Len(order), i + 1, next_id, order')
  <2>1. Grown(Nat, order, i + 1, next_id, order')
    BY <1>1, <1>2, InsertAtElements, Zenon
  <2> QED
    BY <2>1 DEF Grown
<1>4. /\ Fresh(order', Len(order) + 1, next_id + 1)
      /\ order'[i + 1] = next_id
      /\ Among(order', Len(order) + 1, order, Len(order), next_id)
  <2>1. PICK p \in 1..(Len(order) + 1) : p = i + 1
    BY <1>2
  <2>2. Inserts(order, Len(order), p, next_id, order')
    BY <1>3, <2>1
  <2>3. /\ Fresh(order', Len(order) + 1, next_id + 1)
        /\ Among(order', Len(order) + 1, order, Len(order), next_id)
    BY <1>1, <2>2, InsertFresh, Zenon
  <2>4. order'[p] = next_id
    BY <1>1, <2>2, InsertPlace, Zenon
  <2> QED
    BY <2>1, <2>3, <2>4, Zenon
<1> QED
  BY <1>2, <1>3, <1>4, Zenon

LEMMA CloseOrder ==
    ASSUME Inv, NEW i \in 1..Len(order), order' = RemoveAt(order, i)
    PROVE  /\ order' \in Seq(Nat)
           /\ Len(order') = Len(order) - 1
           /\ Fresh(order', Len(order) - 1, next_id)
           /\ Removes(order, Len(order), i, order')
           /\ Among(order', Len(order) - 1, order, Len(order), next_id)
<1>1. /\ order \in Seq(Nat) /\ next_id \in Nat /\ Len(order) \in Nat
      /\ Fresh(order, Len(order), next_id)
  BY DEF Inv
<1>2. /\ order' \in Seq(Nat)
      /\ Len(order') = Len(order) - 1
      /\ Removes(order, Len(order), i, order')
  BY <1>1, RemoveAtElements, Zenon
<1>3. /\ Fresh(order', Len(order) - 1, next_id)
      /\ Among(order', Len(order) - 1, order, Len(order), next_id)
  BY <1>1, <1>2, RemoveFresh, Zenon
<1> QED
  BY <1>2, <1>3, Zenon

LEMMA SplitInv == Inv /\ SplitFocused => Inv'
<1> SUFFICES ASSUME Inv, SplitFocused PROVE Inv'
  OBVIOUS
<1>1. PICK i \in 1..Len(order) :
        /\ order' = InsertAt(order, i + 1, next_id)
        /\ focused' = next_id
        /\ next_id' = next_id + 1
  BY DEF SplitFocused, Inv
<1>2. /\ order' \in Seq(Nat)
      /\ Len(order') = Len(order) + 1
      /\ Fresh(order', Len(order) + 1, next_id + 1)
      /\ i + 1 \in 1..(Len(order) + 1) /\ order'[i + 1] = next_id
  BY <1>1, SplitOrder, Zenon
<1>3. next_id' \in Nat
  BY <1>1 DEF Inv
<1>4. Fresh(order', Len(order'), next_id')
  BY <1>1, <1>2, Zenon
<1>5. \E j \in 1..Len(order') : order'[j] = focused'
  BY <1>1, <1>2, Zenon
<1> QED
  BY <1>2, <1>3, <1>4, <1>5, Zenon DEF Inv

LEMMA FocusInv == Inv /\ FocusNext => Inv'
<1> SUFFICES ASSUME Inv, FocusNext PROVE Inv'
  OBVIOUS
<1>1. PICK i \in 1..Len(order) :
        focused' = order[(i % Len(order)) + 1] /\ UNCHANGED <<order, next_id>>
  BY DEF FocusNext, Inv
<1>2. (i % Len(order)) + 1 \in 1..Len(order)
  BY DEF Inv
<1> QED
  BY <1>1, <1>2 DEF Inv

LEMMA CloseInv == Inv /\ CloseFocused => Inv'
<1> SUFFICES ASSUME Inv, CloseFocused PROVE Inv'
  OBVIOUS
<1>1. PICK i \in 1..Len(order) :
        /\ Len(order) > 1
        /\ order' = RemoveAt(order, i)
        /\ focused' = order[IF i = 1 THEN 2 ELSE i - 1]
        /\ UNCHANGED next_id
  BY DEF CloseFocused, Inv
<1>2. /\ order' \in Seq(Nat)
      /\ Len(order') = Len(order) - 1
      /\ Fresh(order', Len(order) - 1, next_id)
      /\ Removes(order, Len(order), i, order')
  BY <1>1, CloseOrder, Zenon
<1>3. \E j \in 1..Len(order') : order'[j] = focused'
  <2>1. CASE i = 1
    <3>1. 1 \in 1..Len(order') /\ order'[1] = order[2]
      BY <1>1, <1>2, <2>1 DEF Inv, Removes
    <3> QED
      BY <1>1, <2>1, <3>1
  <2>2. CASE i # 1
    <3>1. i - 1 \in 1..Len(order') /\ order'[i - 1] = order[i - 1]
      BY <1>1, <1>2, <2>2 DEF Inv, Removes
    <3> QED
      BY <1>1, <2>2, <3>1
  <2> QED
    BY <2>1, <2>2
<1> QED
  BY <1>1, <1>2, <1>3 DEF Inv

LEMMA NextInv == Inv /\ [Next]_vars => Inv'
<1>1. Inv /\ UNCHANGED vars => Inv'
  BY DEF Inv, vars
<1> QED
  BY <1>1, SplitInv, FocusInv, CloseInv DEF Next

(* A session always has a pane, exactly one focused pane that is in its     *)
(* order, and distinct identifiers: focus_next and close_focused never      *)
(* panic on a focused pane that is not there.                               *)
THEOREM PanesWellFormed == Spec => []WellFormed
<1>1. ASSUME Inv
      PROVE  WellFormed
  <2>1. DOMAIN order = 1..Len(order) /\ order # <<>> /\ focused \in Present
    BY <1>1 DEF Inv, Present
  <2>2. \A i, j \in DOMAIN order : order[i] = order[j] => i = j
    BY <1>1, <2>1 DEF Inv, Fresh
  <2>3. \A p \in Present : p < next_id
    BY <1>1, <2>1 DEF Inv, Fresh, Present
  <2> QED
    BY <2>1, <2>2, <2>3, Zenon DEF WellFormed
<1> QED
  BY <1>1, InitInv, NextInv, PTL DEF Spec

(* A pane identifier is never given to a second pane. *)
THEOREM IdentifiersFresh == Spec => NeverReused
<1>1. Inv /\ [Next]_vars => [\A p \in Present' : p \in Present \/ p >= next_id]_vars
  <2> SUFFICES ASSUME Inv, Next, NEW p \in Present'
               PROVE  p \in Present \/ p >= next_id
    OBVIOUS
  <2>1. CASE SplitFocused
    <3>1. PICK i \in 1..Len(order) : order' = InsertAt(order, i + 1, next_id)
      BY <2>1 DEF SplitFocused, Inv
    <3>2. /\ order' \in Seq(Nat)
          /\ Len(order') = Len(order) + 1
          /\ Among(order', Len(order) + 1, order, Len(order), next_id)
      BY <3>1, SplitOrder, Zenon
    <3>3. PICK j \in 1..Len(order') : p = order'[j]
      BY <3>2 DEF Present
    <3>4. next_id \in Nat
      BY DEF Inv
    <3>5. p = next_id \/ \E l \in 1..Len(order) : p = order[l]
      BY <3>2, <3>3, Zenon DEF Among
    <3>6. CASE p = next_id
      BY <3>4, <3>6
    <3>7. CASE \E l \in 1..Len(order) : p = order[l]
      BY <3>7 DEF Present, Inv
    <3> QED
      BY <3>5, <3>6, <3>7
  <2>2. CASE FocusNext
    BY <2>2 DEF FocusNext, Present
  <2>3. CASE CloseFocused
    <3>1. PICK i \in 1..Len(order) : order' = RemoveAt(order, i)
      BY <2>3 DEF CloseFocused, Inv
    <3>2. /\ order' \in Seq(Nat)
          /\ Len(order') = Len(order) - 1
          /\ Among(order', Len(order) - 1, order, Len(order), next_id)
      BY <3>1, CloseOrder, Zenon
    <3>3. PICK j \in 1..Len(order') : p = order'[j]
      BY <3>2 DEF Present
    <3>4. next_id \in Nat
      BY DEF Inv
    <3>5. p = next_id \/ \E l \in 1..Len(order) : p = order[l]
      BY <3>2, <3>3, Zenon DEF Among
    <3>6. CASE p = next_id
      BY <3>4, <3>6
    <3>7. CASE \E l \in 1..Len(order) : p = order[l]
      BY <3>7 DEF Present, Inv
    <3> QED
      BY <3>5, <3>6, <3>7
  <2> QED
    BY <2>1, <2>2, <2>3 DEF Next
<1> QED
  BY <1>1, InitInv, NextInv, PTL DEF Spec, NeverReused
==============================================================================
