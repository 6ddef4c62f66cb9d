------------------------ MODULE HostedSession_proofs ------------------------
(* Theorems of HostedSession, for every tree and every size of a u16. *)
EXTENDS HostedSession, FiniteSetTheorems, SequenceTheorems, WellFoundedInduction, TLAPS

Order_proofs == INSTANCE PaneOrder_proofs WITH order <- root.panes

------------------------------------------------------------------------------
(* Induction, with a set in the place of a predicate. *)
LEMMA SetInduction ==
    ASSUME NEW S, 0 \in S, \A n \in Nat : n \in S => n + 1 \in S
    PROVE  Nat \subseteq S
<1> DEFINE R == OpToRel(<, Nat)
           T == Nat \ S
<1> SUFFICES ASSUME T # {} PROVE FALSE
  OBVIOUS
<1>1. IsWellFoundedOn(R, Nat)
  BY NatLessThanWellFounded, Zenon
<1>2. T \subseteq Nat
  OBVIOUS
<1> HIDE DEF T, R
<1>3. PICK n \in T : \A m \in T : ~ (<<m, n>> \in R)
  BY <1>1, <1>2, WFMin, Zenon
<1>4. n \in Nat /\ n # 0 /\ n - 1 \in Nat /\ n - 1 \in T
  BY <1>3 DEF T
<1>5. <<n - 1, n>> \in R
  BY <1>4 DEF R, OpToRel
<1> QED
  BY <1>3, <1>4, <1>5

LEMMA DownInduction ==
    ASSUME NEW m \in Nat, NEW S, m \in S, \A n \in 0..(m - 1) : n + 1 \in S => n \in S
    PROVE  0..m \subseteq S
<1> DEFINE T == {k \in Nat : k <= m => m - k \in S}
<1>1. 0 \in T
  OBVIOUS
<1>2. ASSUME NEW k \in Nat, k \in T
      PROVE  k + 1 \in T
  <2> SUFFICES ASSUME k + 1 <= m PROVE m - (k + 1) \in S
    OBVIOUS
  <2>1. m - (k + 1) \in 0..(m - 1) /\ m - (k + 1) + 1 = m - k
    OBVIOUS
  <2>2. m - k \in S
    BY <1>2
  <2> QED
    BY <2>1, <2>2
<1> HIDE DEF T
<1>3. Nat \subseteq T
  BY <1>1, <1>2, SetInduction
<1>4. ASSUME NEW n \in 0..m
      PROVE  n \in S
  <2>1. m - n \in Nat /\ m - (m - n) = n
    OBVIOUS
  <2> QED
    BY <1>3, <2>1 DEF T
<1> QED
  BY <1>4

------------------------------------------------------------------------------
(* Rectangles.  An area is one whose cells a u16 can count. *)
Area ==
    {a \in [x : Nat, y : Nat, width : Nat, height : Nat] :
        a.x + a.width <= U16Max /\ a.y + a.height <= U16Max}

Inside(a, b) ==
    /\ b.x <= a.x /\ a.x + a.width <= b.x + b.width
    /\ b.y <= a.y /\ a.y + a.height <= b.y + b.height

NoLarger(a, b) == a.width <= b.width /\ a.height <= b.height
Precedes(a, b) == a.x + a.width <= b.x \/ a.y + a.height <= b.y

First(direction) == [direction |-> direction, half |-> 1]
Second(direction) == [direction |-> direction, half |-> 2]

LEMMA AreaNumbers ==
    ASSUME NEW a \in Area
    PROVE  /\ a.x \in Nat /\ a.y \in Nat /\ a.width \in Nat /\ a.height \in Nat
           /\ a.x + a.width <= U16Max /\ a.y + a.height <= U16Max
           /\ a.width <= U16Max /\ a.height <= U16Max
  BY TreeAssumption DEF Area

LEMMA Halves ==
    ASSUME NEW n \in Nat, n <= U16Max
    PROVE  Half(n) \in Nat /\ Half(n) <= n
  BY TreeAssumption DEF Half, SaturatingAdd

LEMMA HalvesGrow ==
    ASSUME NEW n \in Nat, NEW m \in Nat, n <= m, m <= U16Max
    PROVE  Half(n) <= Half(m) /\ n - Half(n) <= m - Half(m)
  BY TreeAssumption DEF Half, SaturatingAdd

(* A split of an area: its halves are areas, share out its cells and come   *)
(* one after the other.                                                     *)
LEMMA Portions ==
    ASSUME NEW a \in Area, NEW direction \in Direction
    PROVE  LET first == Portion(a, First(direction))
               second == Portion(a, Second(direction))
           IN  /\ first \in Area /\ second \in Area
               /\ Inside(first, a) /\ Inside(second, a)
               /\ NoLarger(first, a) /\ NoLarger(second, a)
               /\ Precedes(first, second)
               /\ \A x, y \in Nat : Shows(a, x, y) => Shows(first, x, y) \/ Shows(second, x, y)
<1> DEFINE first == Portion(a, First(direction))
           second == Portion(a, Second(direction))
<1>1. /\ a.x \in Nat /\ a.y \in Nat /\ a.width \in Nat /\ a.height \in Nat
      /\ a.x + a.width <= U16Max /\ a.y + a.height <= U16Max /\ U16Max \in Nat
      /\ a = Rect(a.x, a.y, a.width, a.height)
  BY TreeAssumption DEF Area, Rect
<1>2. CASE direction = "Horizontal"
  <2>1. PICK w \in Nat : w = Half(a.width) /\ w <= a.width
    BY <1>1, Halves
  <2>2. /\ first = Rect(a.x, a.y, w, a.height)
        /\ second = Rect(a.x + w, a.y, a.width - w, a.height)
    BY <1>1, <1>2, <2>1 DEF Portion, SplitRect, First, Second, SaturatingAdd, SaturatingSub
  <2> HIDE DEF first, second
  <2>3. /\ first.x = a.x /\ first.y = a.y /\ first.width = w /\ first.height = a.height
        /\ second.x = a.x + w /\ second.y = a.y /\ second.width = a.width - w
        /\ second.height = a.height
    BY <2>2 DEF Rect
  <2>4. first \in Area /\ second \in Area
    BY <1>1, <2>1, <2>2, <2>3 DEF Area, Rect
  <2>5. \A x, y \in Nat : Shows(a, x, y) => Shows(first, x, y) \/ Shows(second, x, y)
    BY <1>1, <2>1, <2>3 DEF Shows
  <2> QED
    BY <1>1, <2>1, <2>3, <2>4, <2>5 DEF Inside, NoLarger, Precedes, first, second
<1>3. CASE direction = "Vertical"
  <2>1. PICK h \in Nat : h = Half(a.height) /\ h <= a.height
    BY <1>1, Halves
  <2>2. /\ first = Rect(a.x, a.y, a.width, h)
        /\ second = Rect(a.x, a.y + h, a.width, a.height - h)
    BY <1>1, <1>3, <2>1 DEF Portion, SplitRect, First, Second, SaturatingAdd, SaturatingSub
  <2> HIDE DEF first, second
  <2>3. /\ first.x = a.x /\ first.y = a.y /\ first.width = a.width /\ first.height = h
        /\ second.x = a.x /\ second.y = a.y + h /\ second.width = a.width
        /\ second.height = a.height - h
    BY <2>2 DEF Rect
  <2>4. first \in Area /\ second \in Area
    BY <1>1, <2>1, <2>2, <2>3 DEF Area, Rect
  <2>5. \A x, y \in Nat : Shows(a, x, y) => Shows(first, x, y) \/ Shows(second, x, y)
    BY <1>1, <2>1, <2>3 DEF Shows
  <2> QED
    BY <1>1, <2>1, <2>3, <2>4, <2>5 DEF Inside, NoLarger, Precedes, first, second
<1> QED
  BY <1>2, <1>3 DEF Direction

LEMMA PortionsGrow ==
    ASSUME NEW a \in Area, NEW b \in Area, NoLarger(a, b), NEW turn \in Turn
    PROVE  NoLarger(Portion(a, turn), Portion(b, turn))
<1>1. /\ a.width \in Nat /\ a.height \in Nat /\ b.width \in Nat /\ b.height \in Nat
      /\ b.width <= U16Max /\ b.height <= U16Max
      /\ a.width <= b.width /\ a.height <= b.height
  BY AreaNumbers DEF NoLarger
<1>2. /\ Half(a.width) <= Half(b.width) /\ a.width - Half(a.width) <= b.width - Half(b.width)
      /\ Half(a.height) <= Half(b.height) /\ a.height - Half(a.height) <= b.height - Half(b.height)
  BY <1>1, HalvesGrow
<1>3. /\ Half(a.width) \in Nat /\ Half(a.width) <= a.width
      /\ Half(b.width) \in Nat /\ Half(b.width) <= b.width
      /\ Half(a.height) \in Nat /\ Half(a.height) <= a.height
      /\ Half(b.height) \in Nat /\ Half(b.height) <= b.height
  BY <1>1, Halves, TreeAssumption
<1>4. turn.direction \in Direction /\ turn.half \in {1, 2}
  BY DEF Turn
<1>5. \A n, m \in Nat : m <= n => SaturatingSub(n, m) = n - m
  BY DEF SaturatingSub
<1>6. CASE turn.direction = "Horizontal" /\ turn.half = 1
  BY <1>1, <1>2, <1>6 DEF NoLarger, Portion, SplitRect, Rect
<1>7. CASE turn.direction = "Horizontal" /\ turn.half = 2
  BY <1>1, <1>2, <1>3, <1>5, <1>7 DEF NoLarger, Portion, SplitRect, Rect
<1>8. CASE turn.direction = "Vertical" /\ turn.half = 1
  BY <1>1, <1>2, <1>8 DEF NoLarger, Portion, SplitRect, Rect
<1>9. CASE turn.direction = "Vertical" /\ turn.half = 2
  BY <1>1, <1>2, <1>3, <1>5, <1>9 DEF NoLarger, Portion, SplitRect, Rect
<1> QED
  BY <1>4, <1>6, <1>7, <1>8, <1>9 DEF Direction

LEMMA InsideTransitive ==
    ASSUME NEW a \in Area, NEW b \in Area, NEW c \in Area, Inside(a, b), Inside(b, c)
    PROVE  Inside(a, c)
<1> DEFINE Whole(r) == r.x \in Nat /\ r.y \in Nat /\ r.width \in Nat /\ r.height \in Nat
<1>1. Whole(a) /\ Whole(b) /\ Whole(c)
  BY AreaNumbers
<1> QED
  BY <1>1 DEF Inside

LEMMA ShowsInside ==
    ASSUME NEW a \in Area, NEW b \in Area, Inside(a, b),
           NEW x \in Nat, NEW y \in Nat, Shows(a, x, y)
    PROVE  Shows(b, x, y)
<1>1. /\ a.x \in Nat /\ a.y \in Nat /\ a.width \in Nat /\ a.height \in Nat
      /\ b.x \in Nat /\ b.y \in Nat /\ b.width \in Nat /\ b.height \in Nat
  BY AreaNumbers
<1>2. /\ a.x <= x /\ x <= a.x + a.width - 1 /\ b.x <= a.x /\ a.x + a.width <= b.x + b.width
  BY <1>1 DEF Shows, Inside
<1>3. /\ a.y <= y /\ y <= a.y + a.height - 1 /\ b.y <= a.y /\ a.y + a.height <= b.y + b.height
  BY <1>1 DEF Shows, Inside
<1>4. x \in b.x..(b.x + b.width - 1)
  BY <1>1, <1>2
<1>5. y \in b.y..(b.y + b.height - 1)
  BY <1>1, <1>3
<1> QED
  BY <1>4, <1>5 DEF Shows

LEMMA PrecedesInside ==
    ASSUME NEW a \in Area, NEW b \in Area, NEW c \in Area, NEW d \in Area,
           Inside(a, b), Inside(c, d), Precedes(b, d)
    PROVE  Precedes(a, c)
<1> DEFINE Whole(r) == r.x \in Nat /\ r.y \in Nat /\ r.width \in Nat /\ r.height \in Nat
<1>1. Whole(a) /\ Whole(b) /\ Whole(c) /\ Whole(d)
  BY AreaNumbers
<1>2. CASE b.x + b.width <= d.x
  <2>1. a.x + a.width <= b.x + b.width /\ d.x <= c.x
    BY DEF Inside
  <2> QED
    BY <1>1, <1>2, <2>1 DEF Precedes
<1>3. CASE b.y + b.height <= d.y
  <2>1. a.y + a.height <= b.y + b.height /\ d.y <= c.y
    BY DEF Inside
  <2> QED
    BY <1>1, <1>3, <2>1 DEF Precedes
<1> QED
  BY <1>2, <1>3 DEF Precedes

(* A turn leads to the first or to the second half. *)
LEMMA TurnHalves ==
    ASSUME NEW turn \in Turn
    PROVE  /\ turn.direction \in Direction /\ turn.half \in {1, 2}
           /\ turn = First(turn.direction) \/ turn = Second(turn.direction)
           /\ turn.half = 1 => turn = First(turn.direction)
           /\ turn.half = 2 => turn = Second(turn.direction)
  BY DEF Turn, First, Second

LEMMA PortionInside ==
    ASSUME NEW a \in Area, NEW turn \in Turn
    PROVE  /\ Portion(a, turn) \in Area
           /\ Inside(Portion(a, turn), a) /\ NoLarger(Portion(a, turn), a)
  BY TurnHalves, Portions

------------------------------------------------------------------------------
(* Ways. *)

(* f goes from area along the first n turns of way. *)
Along(f, area, way, n) ==
    f[0] = area /\ \A k \in 1..n : f[k] = Portion(f[k - 1], way[k])

LEMMA AlongExists ==
    ASSUME NEW area, NEW way, NEW n \in Nat
    PROVE  \E f : Along(f, area, way, n)
<1> DEFINE S == {k \in Nat : \E f : Along(f, area, way, k)}
<1>1. 0 \in S
  <2>1. Along([k \in {0} |-> area], area, way, 0)
    BY DEF Along
  <2> QED
    BY <2>1
<1>2. ASSUME NEW k \in Nat, k \in S
      PROVE  k + 1 \in S
  <2>1. PICK f : Along(f, area, way, k)
    BY <1>2
  <2> DEFINE g == [j \in 0..(k + 1) |-> IF j <= k THEN f[j] ELSE Portion(f[k], way[k + 1])]
  <2>2. Along(g, area, way, k + 1)
    BY <2>1 DEF Along
  <2> QED
    BY <2>2
<1> HIDE DEF S
<1>3. Nat \subseteq S
  BY <1>1, <1>2, SetInduction
<1> QED
  BY <1>3 DEF S

LEMMA AlongUnique ==
    ASSUME NEW area, NEW way, NEW n \in Nat, NEW f, NEW g,
           Along(f, area, way, n), Along(g, area, way, n)
    PROVE  f[n] = g[n]
<1> DEFINE S == {k \in Nat : k <= n => f[k] = g[k]}
<1>1. 0 \in S
  BY DEF Along
<1>2. ASSUME NEW k \in Nat, k \in S
      PROVE  k + 1 \in S
  <2> SUFFICES ASSUME k + 1 <= n PROVE f[k + 1] = g[k + 1]
    OBVIOUS
  <2>1. k + 1 \in 1..n /\ (k + 1) - 1 = k /\ f[k] = g[k]
    BY <1>2
  <2> QED
    BY <2>1 DEF Along
<1> HIDE DEF S
<1>3. Nat \subseteq S
  BY <1>1, <1>2, SetInduction
<1> QED
  BY <1>3 DEF S

(* Cut is what its recursive definition says. *)
LEMMA CutAlong ==
    ASSUME NEW area, NEW way, Len(way) \in Nat, NEW f, Along(f, area, way, Len(way))
    PROVE  Cut(area, way) = f[Len(way)]
<1> DEFINE n == Len(way)
           Is(c) == c = [k \in 0..n |-> IF k = 0 THEN area ELSE Portion(c[k - 1], way[k])]
           cut == CHOOSE c : Is(c)
           g == [k \in 0..n |-> f[k]]
<1>1. Is(g)
  <2>1. ASSUME NEW k \in 0..n, k # 0
        PROVE  g[k] = Portion(g[k - 1], way[k])
    BY <2>1 DEF Along
  <2>2. g[0] = area
    BY DEF Along
  <2> QED
    BY <2>1, <2>2
<1>2. Is(cut)
  BY <1>1
<1>3. Cut(area, way) = cut[n]
  BY DEF Cut
<1> HIDE DEF cut, g
<1>4. Along(cut, area, way, n)
  <2>1. cut[0] = area
    BY <1>2
  <2>2. ASSUME NEW k \in 1..n
        PROVE  cut[k] = Portion(cut[k - 1], way[k])
    BY <1>2
  <2> QED
    BY <2>1, <2>2 DEF Along
<1> QED
  BY <1>3, <1>4, AlongUnique

(* What is left of a way after n turns, and where it leads from an area. *)
Rest(way, n) == [k \in 1..(Len(way) - n) |-> way[n + k]]
CutFrom(area, way, n) == Cut(area, Rest(way, n))

LEMMA RestOfWay ==
    ASSUME NEW way \in Seq(Turn), NEW n \in 0..Len(way)
    PROVE  /\ Rest(way, n) \in Seq(Turn)
           /\ Len(Rest(way, n)) = Len(way) - n
           /\ \A k \in 1..(Len(way) - n) : Rest(way, n)[k] = way[n + k]
<1>1. Len(way) \in Nat /\ Len(way) - n \in Nat /\ n \in Nat
  OBVIOUS
<1>2. \A k \in 1..(Len(way) - n) : n + k \in 1..Len(way) /\ way[n + k] \in Turn
  BY <1>1
<1>3. Rest(way, n) \in [1..(Len(way) - n) -> Turn]
  BY <1>2 DEF Rest
<1>4. Rest(way, n) \in Seq(Turn) /\ Len(Rest(way, n)) = Len(way) - n
  BY <1>1, <1>3
<1> QED
  BY <1>4 DEF Rest

LEMMA CutWhole ==
    ASSUME NEW way \in Seq(Turn), NEW area
    PROVE  CutFrom(area, way, 0) = Cut(area, way)
<1>1. Rest(way, 0) = way
  BY DEF Rest
<1> QED
  BY <1>1 DEF CutFrom

LEMMA CutEnd ==
    ASSUME NEW way \in Seq(Turn), NEW area
    PROVE  CutFrom(area, way, Len(way)) = area
<1>1. Len(way) \in 0..Len(way) /\ Len(Rest(way, Len(way))) = 0
  BY RestOfWay
<1>2. PICK f : Along(f, area, Rest(way, Len(way)), 0)
  BY AlongExists
<1>3. Cut(area, Rest(way, Len(way))) = f[0]
  BY <1>1, <1>2, CutAlong
<1> QED
  BY <1>2, <1>3 DEF CutFrom, Along

LEMMA CutTurn ==
    ASSUME NEW way \in Seq(Turn), NEW area, NEW n \in 0..(Len(way) - 1)
    PROVE  CutFrom(area, way, n) = CutFrom(Portion(area, way[n + 1]), way, n + 1)
<1> DEFINE m == Len(way) - n
           r == Rest(way, n)
           t == Rest(way, n + 1)
<1>1. /\ m \in Nat \ {0} /\ Len(r) = m /\ Len(t) = m - 1
      /\ \A k \in 1..m : r[k] = way[n + k]
      /\ \A k \in 1..(m - 1) : t[k] = way[n + 1 + k]
  <2>1. n \in 0..Len(way) /\ n + 1 \in 0..Len(way) /\ Len(way) \in Nat
    OBVIOUS
  <2>2. Len(r) = m /\ \A k \in 1..m : r[k] = way[n + k]
    BY <2>1, RestOfWay
  <2>3. /\ Len(t) = Len(way) - (n + 1)
        /\ \A k \in 1..(Len(way) - (n + 1)) : t[k] = way[n + 1 + k]
    BY <2>1, RestOfWay
  <2>4. m \in Nat \ {0} /\ Len(way) - (n + 1) = m - 1
    BY <2>1
  <2> HIDE DEF m, r, t
  <2> QED
    BY <2>2, <2>3, <2>4
<1>2. PICK f : Along(f, area, r, m)
  BY <1>1, AlongExists
<1> DEFINE g == [k \in 0..(m - 1) |-> f[k + 1]]
<1>3. Along(g, Portion(area, way[n + 1]), t, m - 1)
  <2>1. g[0] = Portion(area, way[n + 1])
    BY <1>1, <1>2 DEF Along
  <2>2. ASSUME NEW k \in 1..(m - 1)
        PROVE  g[k] = Portion(g[k - 1], t[k])
    <3>1. k + 1 \in 1..m /\ r[k + 1] = t[k]
      <4>1. k + 1 \in 1..m /\ n + (k + 1) = n + 1 + k
        BY <1>1
      <4>2. r[k + 1] = way[n + (k + 1)] /\ t[k] = way[n + 1 + k]
        BY <1>1, <4>1
      <4> QED
        BY <4>1, <4>2
    <3>2. f[k + 1] = Portion(f[k], r[k + 1])
      BY <1>1, <1>2, <3>1 DEF Along
    <3>3. g[k] = f[k + 1] /\ g[k - 1] = f[k]
      BY <1>1
    <3> QED
      BY <3>1, <3>2, <3>3
  <2> QED
    BY <2>1, <2>2 DEF Along
<1>4. g[m - 1] = f[m]
  BY <1>1
<1> HIDE DEF g, r, t, m
<1>5. Cut(area, r) = f[m]
  BY <1>1, <1>2, CutAlong
<1>6. Cut(Portion(area, way[n + 1]), t) = g[m - 1]
  <2>1. Len(t) \in Nat /\ Along(g, Portion(area, way[n + 1]), t, Len(t))
    BY <1>1, <1>3
  <2> QED
    <3>1. Cut(Portion(area, way[n + 1]), t) = g[Len(t)]
      BY <2>1, CutAlong
    <3> QED
      BY <1>1, <3>1
<1> QED
  BY <1>4, <1>5, <1>6 DEF CutFrom, r, t

(* By induction on what is left of the way: an area's part is an area       *)
(* inside it, and grows with it.                                            *)
LEMMA CutInside ==
    ASSUME NEW way \in Seq(Turn), NEW n \in 0..Len(way), NEW a \in Area
    PROVE  /\ CutFrom(a, way, n) \in Area
           /\ Inside(CutFrom(a, way, n), a)
<1> DEFINE m == Len(way)
           S == {k \in 0..m : \A b \in Area :
                    CutFrom(b, way, k) \in Area /\ Inside(CutFrom(b, way, k), b)}
<1>1. m \in Nat
  OBVIOUS
<1>2. m \in S
  <2>1. \A b \in Area : Inside(b, b)
    BY DEF Area, Inside
  <2> QED
    BY <1>1, <2>1, CutEnd
<1>3. ASSUME NEW k \in 0..(m - 1), k + 1 \in S
      PROVE  k \in S
  <2> SUFFICES ASSUME NEW b \in Area
               PROVE  CutFrom(b, way, k) \in Area /\ Inside(CutFrom(b, way, k), b)
    OBVIOUS
  <2>1. way[k + 1] \in Turn
    OBVIOUS
  <2>2. PICK c \in Area : c = Portion(b, way[k + 1]) /\ Inside(c, b)
    BY <2>1, PortionInside
  <2>3. CutFrom(b, way, k) = CutFrom(c, way, k + 1)
    BY <2>2, CutTurn
  <2>4. CutFrom(c, way, k + 1) \in Area /\ Inside(CutFrom(c, way, k + 1), c)
    BY <1>3
  <2>5. ASSUME NEW d \in Area, Inside(d, c)
        PROVE  Inside(d, b)
    BY <2>2, <2>5, InsideTransitive
  <2> QED
    BY <2>3, <2>4, <2>5
<1> HIDE DEF S
<1>4. 0..m \subseteq S
  BY <1>1, <1>2, <1>3, DownInduction
<1> QED
  BY <1>4 DEF S

LEMMA CutGrows ==
    ASSUME NEW way \in Seq(Turn), NEW n \in 0..Len(way),
           NEW a \in Area, NEW b \in Area, NoLarger(a, b)
    PROVE  NoLarger(CutFrom(a, way, n), CutFrom(b, way, n))
<1> DEFINE m == Len(way)
           S == {k \in 0..m : \A c, d \in Area :
                    NoLarger(c, d) => NoLarger(CutFrom(c, way, k), CutFrom(d, way, k))}
<1>1. m \in Nat
  OBVIOUS
<1>2. m \in S
  BY <1>1, CutEnd
<1>3. ASSUME NEW k \in 0..(m - 1), k + 1 \in S
      PROVE  k \in S
  <2> SUFFICES ASSUME NEW c \in Area, NEW d \in Area, NoLarger(c, d)
               PROVE  NoLarger(CutFrom(c, way, k), CutFrom(d, way, k))
    OBVIOUS
  <2>1. way[k + 1] \in Turn
    OBVIOUS
  <2>2. /\ Portion(c, way[k + 1]) \in Area /\ Portion(d, way[k + 1]) \in Area
        /\ NoLarger(Portion(c, way[k + 1]), Portion(d, way[k + 1]))
    BY <2>1, PortionInside, PortionsGrow
  <2>3. /\ CutFrom(c, way, k) = CutFrom(Portion(c, way[k + 1]), way, k + 1)
        /\ CutFrom(d, way, k) = CutFrom(Portion(d, way[k + 1]), way, k + 1)
    BY CutTurn
  <2> QED
    BY <1>3, <2>2, <2>3
<1> HIDE DEF S
<1>4. 0..m \subseteq S
  BY <1>1, <1>2, <1>3, DownInduction
<1> QED
  BY <1>4 DEF S

(* Two ways that begin with the same turns have the same area there. *)
LEMMA CutAgreed ==
    ASSUME NEW start \in Seq(Turn), NEW way \in Seq(Turn), Agree(start, way, Len(start)),
           NEW n \in 0..Len(start), NEW a
    PROVE  CutFrom(a, way, n) = CutFrom(CutFrom(a, start, n), way, Len(start))
<1> DEFINE m == Len(start)
           S == {k \in 0..m : \A b :
                    CutFrom(b, way, k) = CutFrom(CutFrom(b, start, k), way, m)}
<1>1. m \in Nat /\ m <= Len(way) /\ Len(way) \in Nat
  BY DEF Agree
<1>2. m \in S
  BY <1>1, CutEnd
<1>3. ASSUME NEW k \in 0..(m - 1), k + 1 \in S
      PROVE  k \in S
  <2> SUFFICES ASSUME NEW b
               PROVE  CutFrom(b, way, k) = CutFrom(CutFrom(b, start, k), way, m)
    OBVIOUS
  <2>1. way[k + 1] = start[k + 1]
    BY <1>1 DEF Agree
  <2>2. k \in 0..(Len(way) - 1)
    BY <1>1
  <2>3. /\ CutFrom(b, way, k) = CutFrom(Portion(b, way[k + 1]), way, k + 1)
        /\ CutFrom(b, start, k) = CutFrom(Portion(b, start[k + 1]), start, k + 1)
    BY <2>2, CutTurn
  <2> QED
    BY <1>3, <2>1, <2>3
<1> HIDE DEF S
<1>4. 0..m \subseteq S
  BY <1>1, <1>2, <1>3, DownInduction
<1> QED
  BY <1>4 DEF S

------------------------------------------------------------------------------
(* Trees, as a function from panes to their ways. *)

(* The ways part after n turns, a to the first half and b to the second. *)
Parts(a, b, n) ==
    /\ n < Len(a) /\ n < Len(b) /\ Agree(a, b, n)
    /\ a[n + 1].direction = b[n + 1].direction
    /\ a[n + 1].half = 1 /\ b[n + 1].half = 2
Before(a, b) == \E n \in Nat : Parts(a, b, n)

(* Every way but the whole one is parted from every other. *)
Apart(S, P) == \A p, q \in S : p # q => Before(P[p], P[q]) \/ Before(P[q], P[p])

(* Both halves of a split have a pane. *)
Siblings(S, P) ==
    \A p \in S : \A n \in 0..(Len(P[p]) - 1) :
        \E q \in S : /\ n < Len(P[q]) /\ Agree(P[p], P[q], n)
                     /\ P[q][n + 1].half # P[p][n + 1].half

(* Below a node, wherever it is laid out, no cell is left without a pane. *)
CoversBelow(S, P, way, n) ==
    \A a \in Area, x, y \in Nat :
        Shows(a, x, y) => \E q \in S : Agree(way, P[q], n) /\ Shows(CutFrom(a, P[q], n), x, y)
Covers(S, P) == \A p \in S : \A n \in 0..Len(P[p]) : CoversBelow(S, P, P[p], n)

Tree(S, P) ==
    P \in [S -> Seq(Turn)] /\ Apart(S, P) /\ Siblings(S, P) /\ Covers(S, P)

(* Ways that go on part where they did. *)
LEMMA BeforeLonger ==
    ASSUME NEW a \in Seq(Turn), NEW b \in Seq(Turn), NEW c \in Seq(Turn), NEW d \in Seq(Turn),
           Agree(a, c, Len(a)), Agree(b, d, Len(b)), Before(a, b)
    PROVE  Before(c, d)
<1>1. PICK n \in Nat : Parts(a, b, n)
  BY DEF Before
<1>2. /\ n < Len(a) /\ n < Len(b) /\ n + 1 \in 1..Len(a) /\ n + 1 \in 1..Len(b)
      /\ n < Len(c) /\ n < Len(d)
  BY <1>1 DEF Parts, Agree
<1>3. c[n + 1] = a[n + 1] /\ d[n + 1] = b[n + 1] /\ Agree(c, d, n)
  BY <1>1, <1>2 DEF Parts, Agree
<1>4. Parts(c, d, n)
  BY <1>1, <1>2, <1>3 DEF Parts
<1> QED
  BY <1>4 DEF Before

LEMMA AgreeWhole == \A a \in Seq(Turn) : Agree(a, a, Len(a))
  BY DEF Agree

LEMMA AppendTurn ==
    ASSUME NEW a \in Seq(Turn), NEW turn \in Turn
    PROVE  /\ Append(a, turn) \in Seq(Turn)
           /\ Len(Append(a, turn)) = Len(a) + 1
           /\ Agree(a, Append(a, turn), Len(a))
           /\ Append(a, turn)[Len(a) + 1] = turn
  BY AppendProperties DEF Agree

(* One turn more at the end takes its half of what the way had. *)
LEMMA CutAppend ==
    ASSUME NEW way \in Seq(Turn), NEW turn \in Turn, NEW n \in 0..Len(way), NEW a
    PROVE  CutFrom(a, Append(way, turn), n) = Portion(CutFrom(a, way, n), turn)
<1> DEFINE m == Len(way)
           longer == Append(way, turn)
<1>1. /\ longer \in Seq(Turn) /\ Len(longer) = m + 1 /\ Agree(way, longer, m)
      /\ longer[m + 1] = turn /\ m \in Nat
  BY AppendTurn
<1> HIDE DEF longer
<1>2. CutFrom(a, longer, n) = CutFrom(CutFrom(a, way, n), longer, m)
  BY <1>1, CutAgreed
<1>3. \A b : CutFrom(b, longer, m) = CutFrom(Portion(b, turn), longer, m + 1)
  <2>1. m \in 0..(Len(longer) - 1)
    BY <1>1
  <2> QED
    BY <1>1, <2>1, CutTurn
<1>4. \A b : CutFrom(b, longer, m + 1) = b
  BY <1>1, CutEnd
<1> QED
  BY <1>2, <1>3, <1>4 DEF longer

------------------------------------------------------------------------------
(* SplitPane keeps a tree. *)
Splits(S, P, z, new, direction, Q) ==
    /\ P \in [S -> Seq(Turn)] /\ z \in S /\ new \notin S /\ direction \in Direction
    /\ Q = [p \in S \cup {new} |->
              IF p = z THEN Append(P[z], First(direction))
              ELSE IF p = new THEN Append(P[z], Second(direction)) ELSE P[p]]

LEMMA SplitWays ==
    ASSUME NEW S, NEW P, NEW z, NEW new, NEW direction, NEW Q, Splits(S, P, z, new, direction, Q)
    PROVE  /\ Q \in [S \cup {new} -> Seq(Turn)]
           /\ z \in S /\ new \notin S
           /\ \A p \in S : P[p] \in Seq(Turn) /\ Q[p] \in Seq(Turn)
           /\ P[z] \in Seq(Turn) /\ Q[new] \in Seq(Turn)
           /\ Q[z] = Append(P[z], First(direction))
           /\ Q[new] = Append(P[z], Second(direction))
           /\ \A p \in S : p # z => Q[p] = P[p] /\ P[p] \in Seq(Turn) /\ p # new
           /\ First(direction) \in Turn /\ Second(direction) \in Turn
           /\ \A p \in S : Agree(P[p], Q[p], Len(P[p]))
           /\ Agree(P[z], Q[new], Len(P[z]))
           /\ Before(Q[z], Q[new])
<1>1. First(direction) \in Turn /\ Second(direction) \in Turn
  BY DEF Splits, First, Second, Turn
<1>2. /\ P[z] \in Seq(Turn)
      /\ Q[z] = Append(P[z], First(direction))
      /\ Q[new] = Append(P[z], Second(direction))
      /\ \A p \in S : p # z => Q[p] = P[p] /\ P[p] \in Seq(Turn) /\ p # new
  BY DEF Splits
<1>3. /\ Q[z] \in Seq(Turn) /\ Q[new] \in Seq(Turn)
      /\ Agree(P[z], Q[z], Len(P[z])) /\ Agree(P[z], Q[new], Len(P[z]))
      /\ Len(Q[z]) = Len(P[z]) + 1 /\ Len(Q[new]) = Len(P[z]) + 1
      /\ Q[z][Len(P[z]) + 1] = First(direction) /\ Q[new][Len(P[z]) + 1] = Second(direction)
  BY <1>1, <1>2, AppendTurn
<1>4. Q \in [S \cup {new} -> Seq(Turn)]
  BY <1>2, <1>3 DEF Splits
<1>5. \A p \in S : Agree(P[p], Q[p], Len(P[p]))
  BY <1>2, <1>3, AgreeWhole
<1>6. Parts(Q[z], Q[new], Len(P[z]))
  BY <1>2, <1>3 DEF Parts, Agree, First, Second
<1>7. Before(Q[z], Q[new])
  BY <1>2, <1>6 DEF Before
<1>8. /\ z \in S /\ new \notin S
      /\ \A p \in S : P[p] \in Seq(Turn) /\ Q[p] \in Seq(Turn)
  BY <1>4 DEF Splits
<1> QED
  BY <1>1, <1>2, <1>3, <1>4, <1>5, <1>7, <1>8

LEMMA SplitBefore ==
    ASSUME NEW S, NEW P, NEW z, NEW new, NEW direction, NEW Q, Splits(S, P, z, new, direction, Q),
           NEW p \in S, NEW q \in S, Before(P[p], P[q])
    PROVE  Before(Q[p], Q[q])
<1>1. \A r \in S : P[r] \in Seq(Turn) /\ Q[r] \in Seq(Turn) /\ Agree(P[r], Q[r], Len(P[r]))
  BY SplitWays
<1> QED
  BY <1>1, BeforeLonger

(* The new path takes the place of z's among those of the other panes. *)
NewBeside(S, P, z, new, Q) ==
    \A p \in S : p # z => /\ Before(P[p], P[z]) => Before(Q[p], Q[new])
                          /\ Before(P[z], P[p]) => Before(Q[new], Q[p])

LEMMA SplitApart ==
    ASSUME NEW S, NEW P, NEW z, NEW new, NEW direction, NEW Q, Splits(S, P, z, new, direction, Q)
    PROVE  NewBeside(S, P, z, new, Q) /\ (Apart(S, P) => Apart(S \cup {new}, Q))
<1>1. \A p \in S : P[p] \in Seq(Turn) /\ Q[p] \in Seq(Turn) /\ Agree(P[p], Q[p], Len(P[p]))
  BY SplitWays
<1>2. /\ P[z] \in Seq(Turn) /\ Q[new] \in Seq(Turn) /\ Agree(P[z], Q[new], Len(P[z]))
      /\ Before(Q[z], Q[new]) /\ z \in S /\ new \notin S
  BY SplitWays
<1>3. \A p, q \in S : Before(P[p], P[q]) => Before(Q[p], Q[q])
  BY SplitBefore
<1>4. \A p \in S : p # z => /\ Before(P[p], P[z]) => Before(Q[p], Q[new])
                            /\ Before(P[z], P[p]) => Before(Q[new], Q[p])
  BY <1>1, <1>2, BeforeLonger
<1>5. Apart(S, P) => Apart(S \cup {new}, Q)
  BY <1>2, <1>3, <1>4 DEF Apart
<1> QED
  BY <1>4, <1>5 DEF NewBeside

LEMMA SplitSiblings ==
    ASSUME NEW S, NEW P, NEW z, NEW new, NEW direction, NEW Q, Splits(S, P, z, new, direction, Q),
           Siblings(S, P)
    PROVE  Siblings(S \cup {new}, Q)
<1> DEFINE m == Len(P[z])
           Sibling(p, q, n) == /\ n < Len(Q[q]) /\ Agree(Q[p], Q[q], n)
                               /\ Q[q][n + 1].half # Q[p][n + 1].half
<1>1. /\ \A p \in S : P[p] \in Seq(Turn) /\ Q[p] \in Seq(Turn) /\ Agree(P[p], Q[p], Len(P[p]))
      /\ \A p \in S : p # z => Q[p] = P[p]
      /\ z \in S
  <2>1. \A p \in S : P[p] \in Seq(Turn) /\ Q[p] \in Seq(Turn)
    BY SplitWays, Zenon
  <2>2. \A p \in S : Agree(P[p], Q[p], Len(P[p]))
    BY SplitWays, Zenon
  <2>3. \A p \in S : p # z => Q[p] = P[p]
    BY DEF Splits
  <2>4. z \in S
    BY SplitWays, Zenon
  <2> QED
    BY <2>1, <2>2, <2>3, <2>4
<1>2. /\ Q[new] \in Seq(Turn) /\ Agree(P[z], Q[new], m) /\ m \in Nat
      /\ Len(Q[z]) = m + 1 /\ Len(Q[new]) = m + 1
      /\ Q[z][m + 1].half = 1 /\ Q[new][m + 1].half = 2
  <2>1. /\ Q[z] = Append(P[z], First(direction)) /\ Q[new] = Append(P[z], Second(direction))
        /\ First(direction) \in Turn /\ Second(direction) \in Turn /\ P[z] \in Seq(Turn)
    BY DEF Splits, First, Second, Turn
  <2>2. /\ Len(Q[z]) = m + 1 /\ Len(Q[new]) = m + 1
        /\ Q[z][m + 1] = First(direction) /\ Q[new][m + 1] = Second(direction)
        /\ Q[new] \in Seq(Turn) /\ Agree(P[z], Q[new], m)
    BY <2>1, AppendTurn
  <2>3. First(direction).half = 1 /\ Second(direction).half = 2
    BY DEF First, Second
  <2>4. m \in Nat
    BY <2>1
  <2> QED
    BY <2>2, <2>3, <2>4, Zenon
(* The sibling of p at a turn that P has. *)
<1>3. ASSUME NEW p \in S, NEW r \in {p, new}, r = new => p = z, NEW n \in 0..(Len(P[p]) - 1)
      PROVE  \E q \in S \cup {new} : Sibling(r, q, n)
  <2>1. PICK q \in S : /\ n < Len(P[q]) /\ Agree(P[p], P[q], n)
                       /\ P[q][n + 1].half # P[p][n + 1].half
    BY DEF Siblings
  <2>2. Agree(P[p], Q[r], Len(P[p])) /\ Agree(P[q], Q[q], Len(P[q]))
    BY <1>1, <1>2, <1>3
  <2>3. n + 1 \in 1..Len(P[p]) /\ n + 1 \in 1..Len(P[q]) /\ n < Len(Q[q]) /\ n <= Len(Q[r])
    <3>1. Len(P[p]) \in Nat /\ Len(P[q]) \in Nat /\ Len(Q[q]) \in Nat
      BY <1>1
    <3>2. Len(Q[r]) \in Nat
      BY <1>1, <1>2
    <3>3. Len(P[p]) <= Len(Q[r]) /\ Len(P[q]) <= Len(Q[q])
      BY <2>2 DEF Agree
    <3> QED
      BY <2>1, <3>1, <3>2, <3>3
  <2>4. Q[r][n + 1] = P[p][n + 1] /\ Q[q][n + 1] = P[q][n + 1]
    BY <2>2, <2>3 DEF Agree
  <2>5. Agree(Q[r], Q[q], n)
    <3>1. ASSUME NEW k \in 1..n
          PROVE  Q[r][k] = Q[q][k]
      <4>1. k \in 1..Len(P[p]) /\ k \in 1..Len(P[q])
        BY <2>3
      <4> QED
        BY <2>1, <2>2, <4>1 DEF Agree
    <3> QED
      BY <2>3, <3>1 DEF Agree
  <2> QED
    BY <2>1, <2>3, <2>4, <2>5
<1>4. Sibling(z, new, m) /\ Sibling(new, z, m)
  BY <1>1, <1>2 DEF Agree
<1>5. ASSUME NEW r \in S \cup {new}, NEW n \in 0..(Len(Q[r]) - 1)
      PROVE  \E q \in S \cup {new} : Sibling(r, q, n)
  <2>1. CASE r \notin {z, new}
    BY <1>1, <1>3, <2>1
  <2>2. CASE r \in {z, new} /\ n < m
    <3>1. n \in 0..(Len(P[z]) - 1)
      BY <1>2, <2>2
    <3> QED
      BY <1>1, <1>3, <2>2, <3>1
  <2>3. CASE r \in {z, new} /\ n >= m
    <3>1. n = m
      BY <1>2, <2>3
    <3> QED
      BY <1>1, <1>4, <2>3, <3>1
  <2> QED
    BY <1>2, <2>1, <2>2, <2>3
<1> QED
  BY <1>5 DEF Siblings

(* CoversBelow is about a node, whichever of the ways through it is named. *)
LEMMA CoversAgreed ==
    ASSUME NEW S, NEW P, NEW way, NEW other, NEW n \in Nat,
           Agree(way, other, n), CoversBelow(S, P, way, n)
    PROVE  CoversBelow(S, P, other, n)
<1>1. ASSUME NEW u, Agree(way, u, n) PROVE Agree(other, u, n)
  BY <1>1 DEF Agree
<1> QED
  BY <1>1 DEF CoversBelow

(* A leaf covers its own area. *)
LEMMA CoversLeaf ==
    ASSUME NEW S, NEW P, NEW p \in S, P[p] \in Seq(Turn)
    PROVE  CoversBelow(S, P, P[p], Len(P[p]))
<1>1. Agree(P[p], P[p], Len(P[p])) /\ \A a : CutFrom(a, P[p], Len(P[p])) = a
  BY AgreeWhole, CutEnd
<1> QED
  BY <1>1 DEF CoversBelow

LEMMA SplitCovers ==
    ASSUME NEW S, NEW P, NEW z, NEW new, NEW direction, NEW Q, Splits(S, P, z, new, direction, Q),
           Covers(S, P)
    PROVE  Covers(S \cup {new}, Q)
<1> DEFINE T == S \cup {new}
           m == Len(P[z])
<1>1. /\ \A p \in S : P[p] \in Seq(Turn) /\ p # new
      /\ \A p \in S : p # z => Q[p] = P[p]
      /\ z \in S /\ direction \in Direction
      /\ Q[z] = Append(P[z], First(direction)) /\ Q[new] = Append(P[z], Second(direction))
  BY DEF Splits
<1>2. First(direction) \in Turn /\ Second(direction) \in Turn
  BY <1>1 DEF First, Second, Turn
<1>3. /\ Q[z] \in Seq(Turn) /\ Q[new] \in Seq(Turn) /\ m \in Nat
      /\ Len(Q[z]) = m + 1 /\ Len(Q[new]) = m + 1
      /\ Agree(P[z], Q[z], m) /\ Agree(P[z], Q[new], m)
  BY <1>1, <1>2, AppendTurn
(* The nodes of P. *)
<1>4. ASSUME NEW p \in S, NEW n \in 0..Len(P[p])
      PROVE  CoversBelow(T, Q, P[p], n)
  <2> SUFFICES ASSUME NEW a \in Area, NEW x \in Nat, NEW y \in Nat, Shows(a, x, y)
               PROVE  \E q \in T : Agree(P[p], Q[q], n) /\ Shows(CutFrom(a, Q[q], n), x, y)
    BY DEF CoversBelow
  <2>1. PICK q \in S : Agree(P[p], P[q], n) /\ Shows(CutFrom(a, P[q], n), x, y)
    BY DEF Covers, CoversBelow
  <2>2. CASE q # z
    BY <1>1, <2>1, <2>2
  <2>3. CASE q = z
    <3>1. n \in 0..m
      BY <1>1, <1>3, <2>1, <2>3 DEF Agree
    <3> DEFINE b == CutFrom(a, P[z], n)
    <3>2. b \in Area
      BY <1>1, <3>1, CutInside
    <3>3. /\ CutFrom(a, Q[z], n) = Portion(b, First(direction))
          /\ CutFrom(a, Q[new], n) = Portion(b, Second(direction))
      BY <1>1, <1>2, <3>1, CutAppend
    <3>4. Agree(P[p], Q[z], n) /\ Agree(P[p], Q[new], n)
      <4>1. Agree(P[p], P[z], n) /\ n <= m /\ n \in Nat /\ n <= Len(Q[z]) /\ n <= Len(Q[new])
        BY <1>3, <2>1, <2>3, <3>1
      <4>2. ASSUME NEW k \in 1..n
            PROVE  P[p][k] = Q[z][k] /\ P[p][k] = Q[new][k]
        <5>1. k \in 1..m
          BY <1>3, <4>1
        <5> QED
          BY <1>3, <4>1, <5>1 DEF Agree
      <4> QED
        BY <4>1, <4>2 DEF Agree
    <3> HIDE DEF b
    <3>5. Shows(Portion(b, First(direction)), x, y) \/ Shows(Portion(b, Second(direction)), x, y)
      <4>1. Shows(b, x, y)
        BY <2>1, <2>3 DEF b
      <4> QED
        BY <1>1, <3>2, <4>1, Portions
    <3> QED
      BY <1>1, <3>3, <3>4, <3>5
  <2> QED
    BY <2>2, <2>3
<1> HIDE DEF T
<1>5. ASSUME NEW r \in T, NEW n \in 0..Len(Q[r])
      PROVE  CoversBelow(T, Q, Q[r], n)
  <2>1. CASE r \notin {z, new}
    BY <1>1, <1>4, <2>1 DEF T
  <2>2. CASE r \in {z, new} /\ n <= m
    <3>1. n \in 0..Len(P[z]) /\ n \in Nat /\ Agree(P[z], Q[r], n)
      <4>1. n \in Nat /\ n <= m
        BY <1>3, <2>2
      <4> QED
        BY <1>3, <2>2, <4>1 DEF Agree
    <3>2. CoversBelow(T, Q, P[z], n)
      BY <1>1, <1>4, <3>1
    <3> QED
      BY <3>1, <3>2, CoversAgreed
  <2>3. CASE r \in {z, new} /\ n > m
    <3>1. n = Len(Q[r]) /\ Q[r] \in Seq(Turn)
      BY <1>3, <2>3
    <3> QED
      BY <3>1, CoversLeaf
  <2> QED
    BY <1>3, <2>1, <2>2, <2>3
<1> QED
  BY <1>5 DEF Covers, T

LEMMA SplitTree ==
    ASSUME NEW S, NEW P, NEW z, NEW new, NEW direction, NEW Q, Splits(S, P, z, new, direction, Q),
           Tree(S, P)
    PROVE  Tree(S \cup {new}, Q)
<1>1. Q \in [S \cup {new} -> Seq(Turn)]
  BY SplitWays
<1>2. Apart(S \cup {new}, Q)
  BY SplitApart DEF Tree
<1> QED
  BY <1>1, <1>2, SplitSiblings, SplitCovers DEF Tree

------------------------------------------------------------------------------
(* RemovePane keeps a tree. *)
Under(P, z, p) == Agree(P[z], P[p], Len(P[z]) - 1)
Closes(S, P, z, Q) ==
    /\ P \in [S -> Seq(Turn)] /\ z \in S /\ Len(P[z]) > 0 /\ Apart(S, P)
    /\ Q = [p \in S \ {z} |-> IF Under(P, z, p) THEN RemoveAt(P[p], Len(P[z])) ELSE P[p]]

(* A way without its turn m. *)
Without(way, m, rest) ==
    /\ rest \in Seq(Turn) /\ Len(rest) = Len(way) - 1
    /\ \A k \in 1..(m - 1) : rest[k] = way[k]
    /\ \A k \in m..(Len(way) - 1) : rest[k] = way[k + 1]

LEMMA RemoveTurn ==
    ASSUME NEW way \in Seq(Turn), NEW m \in 1..Len(way)
    PROVE  Without(way, m, RemoveAt(way, m))
<1>1. /\ RemoveAt(way, m) \in Seq(Turn)
      /\ Len(RemoveAt(way, m)) = Len(way) - 1
      /\ Order_proofs!Removes(way, Len(way), m, RemoveAt(way, m))
  BY Order_proofs!RemoveAtElements, Zenon DEF RemoveAt, Order_proofs!RemoveAt
<1>2. \A j \in 1..(Len(way) - 1) :
         RemoveAt(way, m)[j] = IF j < m THEN way[j] ELSE way[j + 1]
  BY <1>1 DEF Order_proofs!Removes
<1> QED
  BY <1>1, <1>2 DEF Without

(* The panes in the other half of the split that goes. *)
LEMMA CloseUnder ==
    ASSUME NEW S, NEW P, NEW z, NEW Q, Closes(S, P, z, Q),
           NEW p \in S, p # z, Under(P, z, p)
    PROVE  /\ Len(P[p]) >= Len(P[z])
           /\ P[p][Len(P[z])].half # P[z][Len(P[z])].half
<1> DEFINE m == Len(P[z])
<1>1. P[z] \in Seq(Turn) /\ P[p] \in Seq(Turn) /\ m \in Nat /\ Len(P[p]) \in Nat /\ z \in S
  BY DEF Closes
<1>2. PICK n \in Nat : Parts(P[p], P[z], n) \/ Parts(P[z], P[p], n)
  BY <1>1 DEF Closes, Apart, Before
<1>3. /\ n < m /\ n < Len(P[p]) /\ P[p][n + 1].half # P[z][n + 1].half
  BY <1>2 DEF Parts
<1>4. ~ (n + 1 <= m - 1)
  BY <1>1, <1>3 DEF Under, Agree
<1>5. n + 1 = m
  BY <1>1, <1>3, <1>4
<1> QED
  BY <1>1, <1>3, <1>5

LEMMA CloseWay ==
    ASSUME NEW S, NEW P, NEW z, NEW Q, Closes(S, P, z, Q), NEW p \in S, p # z
    PROVE  /\ P[p] \in Seq(Turn) /\ Q[p] \in Seq(Turn)
           /\ ~ Under(P, z, p) => Q[p] = P[p]
           /\ Under(P, z, p) =>
                /\ Len(P[p]) >= Len(P[z]) /\ Len(Q[p]) = Len(P[p]) - 1
                /\ \A k \in 1..(Len(P[z]) - 1) : Q[p][k] = P[p][k] /\ Q[p][k] = P[z][k]
                /\ \A k \in Len(P[z])..(Len(P[p]) - 1) : Q[p][k] = P[p][k + 1]
<1> DEFINE m == Len(P[z])
<1>1. /\ P[z] \in Seq(Turn) /\ P[p] \in Seq(Turn) /\ m \in Nat /\ Len(P[p]) \in Nat
      /\ z \in S /\ m > 0
      /\ Q[p] = IF Under(P, z, p) THEN RemoveAt(P[p], Len(P[z])) ELSE P[p]
  BY DEF Closes
<1>2. CASE ~ Under(P, z, p)
  BY <1>1, <1>2
<1>3. CASE Under(P, z, p)
  <2>1. m \in 1..Len(P[p])
    BY <1>1, <1>3, CloseUnder
  <2>2. Q[p] = RemoveAt(P[p], m)
    BY <1>1, <1>3
  <2>3. /\ Q[p] \in Seq(Turn) /\ Len(Q[p]) = Len(P[p]) - 1
        /\ \A k \in 1..(m - 1) : Q[p][k] = P[p][k]
        /\ \A k \in m..(Len(P[p]) - 1) : Q[p][k] = P[p][k + 1]
    <3>1. Without(P[p], m, Q[p])
      BY <1>1, <2>1, <2>2, RemoveTurn, Zenon
    <3> QED
      BY <3>1 DEF Without
  <2>4. \A k \in 1..(m - 1) : P[p][k] = P[z][k]
    BY <1>1, <1>3 DEF Under, Agree
  <2> QED
    BY <1>1, <1>3, <2>1, <2>3, <2>4
<1> QED
  BY <1>2, <1>3

LEMMA CloseBefore ==
    ASSUME NEW S, NEW P, NEW z, NEW Q, Closes(S, P, z, Q),
           NEW p \in S, p # z, NEW q \in S, q # z, Before(P[p], P[q])
    PROVE  Before(Q[p], Q[q])
<1> DEFINE m == Len(P[z])
<1>1. /\ P[z] \in Seq(Turn) /\ P[p] \in Seq(Turn) /\ P[q] \in Seq(Turn)
      /\ m \in Nat /\ m > 0 /\ Len(P[p]) \in Nat /\ Len(P[q]) \in Nat
  BY DEF Closes
<1>2. PICK n \in Nat : Parts(P[p], P[q], n)
  BY DEF Before
<1>3. CASE Under(P, z, p) /\ Under(P, z, q)
  <2>1. /\ Len(P[p]) >= m /\ Len(Q[p]) = Len(P[p]) - 1
        /\ Len(P[q]) >= m /\ Len(Q[q]) = Len(P[q]) - 1
        /\ \A k \in 1..(m - 1) : Q[p][k] = P[z][k] /\ Q[q][k] = P[z][k]
        /\ \A k \in m..(Len(P[p]) - 1) : Q[p][k] = P[p][k + 1]
        /\ \A k \in m..(Len(P[q]) - 1) : Q[q][k] = P[q][k + 1]
    BY <1>3, CloseWay
  <2>2. /\ P[p][m].half # P[z][m].half /\ P[q][m].half # P[z][m].half
        /\ P[p][m] \in Turn /\ P[q][m] \in Turn /\ P[z][m] \in Turn
    <3>1. Len(P[p]) >= m /\ Len(P[q]) >= m
      BY <2>1
    <3> QED
      BY <1>1, <1>3, <3>1, CloseUnder
  <2>3. P[p][m].half = P[q][m].half
    BY <2>2 DEF Turn
  <2>4. n + 1 # m
    BY <1>2, <2>3 DEF Parts
  <2>5. ~ (n + 1 < m)
    <3>1. \A k \in 1..(m - 1) : P[p][k] = P[q][k]
      BY <1>1, <1>3 DEF Under, Agree
    <3> QED
      BY <1>1, <1>2, <3>1 DEF Parts
  <2>6. n >= m /\ n - 1 \in Nat /\ n < Len(P[p]) /\ n < Len(P[q])
    BY <1>1, <1>2, <2>4, <2>5 DEF Parts
  <2>7. ASSUME NEW k \in 1..(n - 1)
        PROVE  Q[p][k] = Q[q][k]
    <3>1. CASE k < m
      BY <1>1, <2>1, <3>1
    <3>2. CASE k >= m
      <4>1. k + 1 \in 1..n /\ k \in m..(Len(P[p]) - 1) /\ k \in m..(Len(P[q]) - 1)
        BY <1>1, <2>6, <3>2
      <4>2. P[p][k + 1] = P[q][k + 1]
        BY <1>2, <4>1 DEF Parts, Agree
      <4> QED
        BY <2>1, <4>1, <4>2
    <3> QED
      BY <1>1, <3>1, <3>2
  <2>8. Q[p][n] = P[p][n + 1] /\ Q[q][n] = P[q][n + 1]
    <3>1. n \in m..(Len(P[p]) - 1) /\ n \in m..(Len(P[q]) - 1)
      BY <1>1, <2>6
    <3> QED
      BY <2>1, <3>1
  <2>9. Agree(Q[p], Q[q], n - 1) /\ n - 1 < Len(Q[p]) /\ n - 1 < Len(Q[q]) /\ (n - 1) + 1 = n
    BY <1>1, <2>1, <2>6, <2>7 DEF Agree
  <2>10. Parts(Q[p], Q[q], n - 1)
    BY <1>2, <2>8, <2>9 DEF Parts
  <2> QED
    BY <2>6, <2>10 DEF Before
<1>4. CASE ~ (Under(P, z, p) /\ Under(P, z, q))
  <2>1. CASE ~ Under(P, z, p) /\ ~ Under(P, z, q)
    BY <1>2, <2>1, CloseWay DEF Before
(* They part above the split that goes. *)
  <2>2. CASE Under(P, z, p) \/ Under(P, z, q)
    <3>1. n + 1 < m
      <4> SUFFICES ASSUME n >= m - 1 PROVE FALSE
        BY <1>1
      <4>1. m - 1 <= Len(P[p]) /\ m - 1 <= Len(P[q]) /\ \A k \in 1..(m - 1) : P[p][k] = P[q][k]
        BY <1>1, <1>2 DEF Parts, Agree
      <4> QED
        BY <1>1, <1>4, <2>2, <4>1 DEF Under, Agree
    <3>2. ASSUME NEW r \in {p, q}
          PROVE  /\ n < Len(Q[r])
                 /\ \A k \in 1..(n + 1) : Q[r][k] = P[r][k]
      <4>1. r \in S /\ r # z /\ n < Len(P[r])
        BY <1>2 DEF Parts
      <4>2. CASE ~ Under(P, z, r)
        BY <4>1, <4>2, CloseWay
      <4>3. CASE Under(P, z, r)
        <5>1. /\ Len(P[r]) >= m /\ Len(Q[r]) = Len(P[r]) - 1
              /\ \A k \in 1..(m - 1) : Q[r][k] = P[r][k]
          BY <4>1, <4>3, CloseWay
        <5>2. Len(P[r]) \in Nat
          BY <1>1
        <5>3. n < Len(P[r]) - 1
          BY <1>1, <3>1, <5>1, <5>2
        <5>4. \A k \in 1..(n + 1) : k \in 1..(m - 1)
          BY <1>1, <3>1
        <5> QED
          BY <5>1, <5>3, <5>4
      <4> QED
        BY <4>2, <4>3
    <3>3. /\ n < Len(Q[p]) /\ n < Len(Q[q])
          /\ \A k \in 1..(n + 1) : Q[p][k] = P[p][k] /\ Q[q][k] = P[q][k]
      BY <3>2
    <3>4. Q[p] \in Seq(Turn) /\ Q[q] \in Seq(Turn)
      BY CloseWay
    <3>5. Agree(Q[p], Q[q], n)
      BY <1>2, <3>3, <3>4 DEF Parts, Agree
    <3>6. n + 1 \in 1..(n + 1)
      OBVIOUS
    <3>7. Q[p][n + 1] = P[p][n + 1] /\ Q[q][n + 1] = P[q][n + 1]
      BY <3>3, <3>6
    <3> QED
      BY <1>2, <3>3, <3>5, <3>7 DEF Parts, Before
  <2> QED
    BY <2>1, <2>2
<1> QED
  BY <1>3, <1>4

(* The split that goes has another pane below it. *)
LEMMA CloseSibling ==
    ASSUME NEW S, NEW P, NEW z, NEW Q, Closes(S, P, z, Q), Siblings(S, P)
    PROVE  \E q \in S : q # z /\ Under(P, z, q)
<1> DEFINE m == Len(P[z])
<1>1. z \in S /\ P[z] \in Seq(Turn) /\ m \in Nat /\ m > 0
  BY DEF Closes
<1>2. m - 1 \in 0..(m - 1) /\ (m - 1) + 1 = m
  BY <1>1
<1>3. PICK q \in S : /\ Agree(P[z], P[q], m - 1)
                     /\ P[q][(m - 1) + 1].half # P[z][(m - 1) + 1].half
  BY <1>1, <1>2 DEF Siblings
<1> QED
  BY <1>3 DEF Under

LEMMA CloseSiblings ==
    ASSUME NEW S, NEW P, NEW z, NEW Q, Closes(S, P, z, Q), Siblings(S, P)
    PROVE  Siblings(S \ {z}, Q)
<1> DEFINE m == Len(P[z])
           Sibling(p, q, n) == /\ n < Len(Q[q]) /\ Agree(Q[p], Q[q], n)
                               /\ Q[q][n + 1].half # Q[p][n + 1].half
<1>1. /\ z \in S /\ P[z] \in Seq(Turn) /\ m \in Nat /\ m > 0
      /\ \A p \in S : P[p] \in Seq(Turn) /\ Len(P[p]) \in Nat
  BY DEF Closes
<1> SUFFICES ASSUME NEW p \in S, p # z, NEW n \in 0..(Len(Q[p]) - 1)
             PROVE  \E q \in S : q # z /\ Sibling(p, q, n)
  BY DEF Siblings
<1>2. Q[p] \in Seq(Turn) /\ Len(Q[p]) \in Nat /\ n \in Nat /\ n < Len(Q[p])
  BY CloseWay
(* Above the split the ways are the old ones. *)
<1>3. ASSUME NEW q \in S, q # z, n + 1 < m \/ ~ Under(P, z, q), n < Len(P[q])
      PROVE  n < Len(Q[q]) /\ \A k \in 1..(n + 1) : Q[q][k] = P[q][k]
  <2>1. CASE ~ Under(P, z, q)
    BY <1>3, <2>1, CloseWay
  <2>2. CASE Under(P, z, q)
    <3>1. /\ Len(P[q]) >= m /\ Len(Q[q]) = Len(P[q]) - 1
          /\ \A k \in 1..(m - 1) : Q[q][k] = P[q][k]
      BY <1>3, <2>2, CloseWay
    <3>2. n < Len(P[q]) - 1
      BY <1>1, <1>2, <1>3, <2>2, <3>1
    <3>3. \A k \in 1..(n + 1) : k \in 1..(m - 1)
      BY <1>1, <1>2, <1>3, <2>2
    <3> QED
      BY <3>1, <3>2, <3>3
  <2> QED
    BY <2>1, <2>2
<1>4. ASSUME NEW q \in S, q # z, n < Len(P[q]), Agree(P[p], P[q], n), n < Len(P[p]),
             P[q][n + 1].half # P[p][n + 1].half,
             n + 1 < m \/ ~ Under(P, z, p), n + 1 < m \/ ~ Under(P, z, q)
      PROVE  Sibling(p, q, n)
  <2>1. n < Len(Q[q]) /\ \A k \in 1..(n + 1) : Q[q][k] = P[q][k] /\ Q[p][k] = P[p][k]
    BY <1>3, <1>4
  <2>2. Q[q] \in Seq(Turn)
    BY <1>4, CloseWay
  <2>3. n + 1 \in 1..(n + 1) /\ \A k \in 1..n : k \in 1..(n + 1)
    BY <1>2
  <2>4. Agree(Q[p], Q[q], n)
    BY <1>2, <1>4, <2>1, <2>2, <2>3 DEF Agree
  <2>5. Q[q][n + 1] = P[q][n + 1] /\ Q[p][n + 1] = P[p][n + 1]
    BY <2>1, <2>3
  <2> QED
    BY <1>4, <2>1, <2>4, <2>5
<1>5. CASE Under(P, z, p) /\ n + 1 >= m
  <2>1. /\ Len(P[p]) >= m /\ Len(Q[p]) = Len(P[p]) - 1
        /\ \A k \in 1..(m - 1) : Q[p][k] = P[z][k]
        /\ \A k \in m..(Len(P[p]) - 1) : Q[p][k] = P[p][k + 1]
    BY <1>5, CloseWay
  <2>2. n + 1 \in 0..(Len(P[p]) - 1)
    BY <1>1, <1>2, <2>1
  <2>3. PICK q \in S : /\ n + 1 < Len(P[q]) /\ Agree(P[p], P[q], n + 1)
                       /\ P[q][(n + 1) + 1].half # P[p][(n + 1) + 1].half
    BY <2>2 DEF Siblings
  <2>4. P[p][m].half # P[z][m].half
    BY <1>5, CloseUnder
  <2>5. m \in 1..(n + 1)
    BY <1>1, <1>2, <1>5
  <2>6. q # z
    BY <2>3, <2>4, <2>5 DEF Agree
  <2>7. Under(P, z, q)
    <3>1. m - 1 <= Len(P[q])
      BY <1>1, <1>2, <1>5, <2>3
    <3>2. ASSUME NEW k \in 1..(m - 1)
          PROVE  P[z][k] = P[q][k]
      <4>1. k \in 1..(n + 1)
        BY <1>1, <1>2, <1>5
      <4> QED
        BY <1>5, <2>3, <4>1 DEF Under, Agree
    <3> QED
      BY <1>1, <3>1, <3>2 DEF Under, Agree
  <2>8. /\ Len(P[q]) >= m /\ Len(Q[q]) = Len(P[q]) - 1
        /\ \A k \in 1..(m - 1) : Q[q][k] = P[z][k]
        /\ \A k \in m..(Len(P[q]) - 1) : Q[q][k] = P[q][k + 1]
        /\ Q[q] \in Seq(Turn)
    BY <2>6, <2>7, CloseWay
  <2>9. n < Len(Q[q])
    BY <1>1, <1>2, <2>3, <2>8
  <2>10. ASSUME NEW k \in 1..n
         PROVE  Q[p][k] = Q[q][k]
    <3>1. CASE k < m
      <4>1. k \in 1..(m - 1)
        BY <1>1, <3>1
      <4> QED
        BY <2>1, <2>8, <4>1
    <3>2. CASE k >= m
      <4>1. k \in m..(Len(P[p]) - 1) /\ k \in m..(Len(P[q]) - 1) /\ k + 1 \in 1..(n + 1)
        <5>1. m \in Nat /\ n < Len(P[p]) - 1 /\ n + 1 < Len(P[q])
          BY <1>1, <1>2, <2>1, <2>3
        <5>2. Len(P[p]) \in Nat /\ Len(P[q]) \in Nat
          BY <1>1, <2>8
        <5> QED
          BY <1>2, <3>2, <5>1, <5>2
      <4> QED
        BY <2>1, <2>3, <2>8, <4>1 DEF Agree
    <3> QED
      BY <1>1, <3>1, <3>2
  <2>11. Q[p][n + 1] = P[p][(n + 1) + 1] /\ Q[q][n + 1] = P[q][(n + 1) + 1]
    <3>1. n + 1 \in m..(Len(P[p]) - 1) /\ n + 1 \in m..(Len(P[q]) - 1)
      BY <1>1, <1>2, <1>5, <2>1, <2>3
    <3> QED
      BY <2>1, <2>8, <3>1
  <2>12. Agree(Q[p], Q[q], n)
    BY <1>2, <2>9, <2>10 DEF Agree
  <2> QED
    BY <2>3, <2>6, <2>9, <2>11, <2>12
<1>6. CASE n + 1 < m \/ ~ Under(P, z, p)
  <2>1. n < Len(P[p])
    <3>1. CASE Under(P, z, p)
      BY <1>1, <1>2, <1>6, <3>1, CloseWay
    <3>2. CASE ~ Under(P, z, p)
      BY <1>2, <3>2, CloseWay
    <3> QED
      BY <3>1, <3>2
  <2>2. n \in 0..(Len(P[p]) - 1)
    BY <1>1, <1>2, <2>1
  <2>3. PICK q \in S : /\ n < Len(P[q]) /\ Agree(P[p], P[q], n)
                       /\ P[q][n + 1].half # P[p][n + 1].half
    BY <2>2 DEF Siblings
  <2>4. ASSUME q = z \/ Under(P, z, q)
        PROVE  n + 1 < m
    <3> SUFFICES ASSUME n + 1 >= m PROVE Under(P, z, p)
      BY <1>1, <1>2, <1>6
    <3>1. \A k \in 1..(m - 1) : k \in 1..n /\ P[z][k] = P[q][k]
      BY <1>1, <1>2, <2>4 DEF Under, Agree
    <3>2. m - 1 <= Len(P[p])
      BY <1>1, <1>2, <2>1, <1>6, <2>3 DEF Agree
    <3>3. \A k \in 1..n : P[p][k] = P[q][k]
      BY <2>3 DEF Agree
    <3>4. m - 1 <= m /\ \A k \in 1..(m - 1) : P[z][k] = P[p][k]
      <4>1. m - 1 <= m
        BY <1>1
      <4> QED
        BY <3>1, <3>3, <4>1
    <3> QED
      BY <3>2, <3>4 DEF Under, Agree
  <2>5. CASE q # z
    <3>1. n + 1 < m \/ ~ Under(P, z, q)
      BY <2>4
    <3>2. Sibling(p, q, n)
      BY <1>4, <1>6, <2>1, <2>3, <2>5, <3>1
    <3> QED
      BY <2>5, <3>2
  <2>6. CASE q = z
    <3>1. PICK r \in S : r # z /\ Under(P, z, r)
      BY CloseSibling
    <3>2. n + 1 < m /\ n + 1 \in 1..(m - 1) /\ \A k \in 1..n : k \in 1..(m - 1)
      BY <1>2, <1>1, <2>4, <2>6
    <3>3. Len(P[r]) >= m /\ \A k \in 1..(m - 1) : P[r][k] = P[z][k]
      <4>1. Len(P[r]) >= m
        BY <3>1, CloseUnder
      <4> QED
        BY <3>1, <4>1 DEF Under, Agree
    <3>4. n < Len(P[r])
      BY <1>1, <1>2, <3>2, <3>3
    <3>5. P[r][n + 1].half # P[p][n + 1].half
      BY <2>3, <2>6, <3>2, <3>3
    <3>6. Agree(P[p], P[r], n)
      BY <1>1, <1>2, <2>1, <2>3, <2>6, <3>2, <3>3, <3>4 DEF Agree
    <3>7. Sibling(p, r, n)
      BY <1>4, <2>1, <3>1, <3>2, <3>4, <3>5, <3>6
    <3> QED
      BY <3>1, <3>7
  <2> QED
    BY <2>5, <2>6
<1> QED
  BY <1>1, <1>2, <1>5, <1>6

(* The way to the split that goes. *)
Above(P, z) == SubSeq(P[z], 1, Len(P[z]) - 1)

LEMMA AboveWay ==
    ASSUME NEW S, NEW P, NEW z, NEW Q, Closes(S, P, z, Q)
    PROVE  /\ Above(P, z) \in Seq(Turn) /\ Len(Above(P, z)) = Len(P[z]) - 1
           /\ Len(P[z]) \in Nat
           /\ Agree(Above(P, z), P[z], Len(P[z]) - 1)
           /\ \A p \in S : p # z /\ Under(P, z, p) =>
                 Agree(Above(P, z), P[p], Len(P[z]) - 1) /\ Agree(Above(P, z), Q[p], Len(P[z]) - 1)
<1> DEFINE m == Len(P[z])
           start == Above(P, z)
<1>1. P[z] \in Seq(Turn) /\ m \in Nat /\ m > 0
  BY DEF Closes
<1>2. 1 \in 1..(m + 1) /\ m - 1 \in 0..m /\ m - 1 \in Nat
  BY <1>1
<1>3. /\ start \in Seq(Turn) /\ Len(start) = m - 1
      /\ \A k \in 1..(m - 1) : start[k] = P[z][k]
  <2>1. \A k \in 1..(m - 1) : P[z][k] \in Turn
    BY <1>1
  <2>2. start = [k \in 1..(m - 1) |-> P[z][k]]
    BY <1>1 DEF Above
  <2> HIDE DEF start
  <2>3. start \in [1..(m - 1) -> Turn]
    BY <2>1, <2>2
  <2> QED
    BY <1>2, <2>2, <2>3
<1> HIDE DEF start
<1>4. Agree(start, P[z], m - 1)
  BY <1>1, <1>3 DEF Agree
<1>5. ASSUME NEW p \in S, p # z, Under(P, z, p)
      PROVE  Agree(start, P[p], m - 1) /\ Agree(start, Q[p], m - 1)
  <2>1. P[p] \in Seq(Turn) /\ Len(P[p]) \in Nat
    BY DEF Closes
  <2>2. /\ Len(P[p]) >= m /\ Len(Q[p]) = Len(P[p]) - 1
        /\ \A k \in 1..(m - 1) : Q[p][k] = P[p][k] /\ Q[p][k] = P[z][k]
    BY <1>5, CloseWay
  <2>3. /\ m - 1 <= Len(P[p]) /\ m - 1 <= Len(Q[p]) /\ m - 1 <= Len(start)
    BY <1>1, <1>3, <2>1, <2>2
  <2> QED
    BY <1>3, <2>2, <2>3 DEF Agree
<1> QED
  BY <1>1, <1>3, <1>4, <1>5 DEF start

(* Below the split that goes, the rest of a way is the old one less a turn. *)
LEMMA CloseRest ==
    ASSUME NEW S, NEW P, NEW z, NEW Q, Closes(S, P, z, Q),
           NEW p \in S, p # z, Under(P, z, p)
    PROVE  \A n \in (Len(P[z]) - 1)..Len(Q[p]) : \A a :
             CutFrom(a, Q[p], n) = CutFrom(a, P[p], n + 1)
<1> SUFFICES ASSUME NEW n \in (Len(P[z]) - 1)..Len(Q[p]), NEW a
             PROVE  CutFrom(a, Q[p], n) = CutFrom(a, P[p], n + 1)
  OBVIOUS
<1> DEFINE m == Len(P[z])
           r == Rest(Q[p], n)
           t == Rest(P[p], n + 1)
<1>1. m \in Nat /\ m > 0 /\ P[p] \in Seq(Turn) /\ Len(P[p]) \in Nat
  <2>1. P[z] \in Seq(Turn) /\ P[p] \in Seq(Turn) /\ Len(P[z]) > 0
    BY DEF Closes
  <2> QED
    BY <2>1
<1>2. /\ Len(P[p]) >= m /\ Len(Q[p]) = Len(P[p]) - 1
      /\ \A k \in m..(Len(P[p]) - 1) : Q[p][k] = P[p][k + 1]
  BY CloseWay
<1>3. Len(Q[p]) - n = Len(P[p]) - (n + 1) /\ n \in Nat
  BY <1>1, <1>2
<1>4. ASSUME NEW k \in 1..(Len(Q[p]) - n)
      PROVE  Q[p][n + k] = P[p][n + 1 + k]
  <2>1. n + k \in m..(Len(P[p]) - 1) /\ n + 1 + k = n + k + 1
    BY <1>1, <1>2, <1>3
  <2> QED
    BY <1>2, <2>1
<1>5. r = t
  BY <1>3, <1>4 DEF Rest
<1> QED
  BY <1>5 DEF CutFrom

(* The pane that goes leaves no hole: what its sibling covered from half    *)
(* the area it now covers from the whole.                                   *)
LEMMA CloseCoversAbove ==
    ASSUME NEW S, NEW P, NEW z, NEW Q, Closes(S, P, z, Q), Siblings(S, P), Covers(S, P),
           NEW b \in Area, NEW x \in Nat, NEW y \in Nat, Shows(b, x, y)
    PROVE  \E q \in S : /\ q # z /\ Under(P, z, q)
                        /\ Shows(CutFrom(b, Q[q], Len(P[z]) - 1), x, y)
<1> DEFINE m == Len(P[z])
<1>1. P[z] \in Seq(Turn) /\ m \in Nat /\ m > 0 /\ z \in S
  BY DEF Closes
<1>2. PICK r \in S : r # z /\ Under(P, z, r)
  BY CloseSibling
<1>3. /\ P[r] \in Seq(Turn) /\ Len(P[r]) >= m /\ Len(P[r]) \in Nat
      /\ P[r][m].half # P[z][m].half
  <2>1. P[r] \in Seq(Turn) /\ Len(P[r]) >= m
    BY <1>2, CloseWay
  <2>2. P[r][m].half # P[z][m].half
    BY <1>2, CloseUnder
  <2> QED
    BY <2>1, <2>2
<1>4. m \in 0..Len(P[r]) /\ m \in 1..m
  BY <1>1, <1>3
<1>5. PICK q \in S : Agree(P[r], P[q], m) /\ Shows(CutFrom(b, P[q], m), x, y)
  BY <1>4 DEF Covers, CoversBelow
<1>6. q # z
  BY <1>3, <1>4, <1>5 DEF Agree
<1>7. Under(P, z, q)
  <2>1. \A k \in 1..(m - 1) : k \in 1..m
    BY <1>1
  <2>2. m - 1 <= m /\ m - 1 <= Len(P[q]) /\ Len(P[q]) \in Nat
    <3>1. P[q] \in Seq(Turn) /\ m <= Len(P[q])
      BY <1>5 DEF Closes, Agree
    <3> QED
      BY <1>1, <3>1
  <2>3. \A k \in 1..(m - 1) : P[z][k] = P[q][k]
    BY <1>2, <1>5, <2>1 DEF Under, Agree
  <2> QED
    BY <2>2, <2>3 DEF Under, Agree
<1>8. m - 1 \in (m - 1)..Len(Q[q]) /\ (m - 1) + 1 = m
  <2>1. Len(P[q]) >= m /\ Len(Q[q]) = Len(P[q]) - 1 /\ P[q] \in Seq(Turn)
    BY <1>6, <1>7, CloseWay
  <2> QED
    BY <1>1, <2>1
<1>9. CutFrom(b, Q[q], m - 1) = CutFrom(b, P[q], (m - 1) + 1)
  <2>1. \A n \in (m - 1)..Len(Q[q]) : \A a : CutFrom(a, Q[q], n) = CutFrom(a, P[q], n + 1)
    BY <1>6, <1>7, CloseRest
  <2> QED
    BY <1>8, <2>1
<1> QED
  BY <1>5, <1>6, <1>7, <1>8, <1>9

LEMMA CloseCovers ==
    ASSUME NEW S, NEW P, NEW z, NEW Q, Closes(S, P, z, Q), Siblings(S, P), Covers(S, P)
    PROVE  Covers(S \ {z}, Q)
<1> DEFINE m == Len(P[z])
           start == Above(P, z)
<1>1. /\ P[z] \in Seq(Turn) /\ m \in Nat /\ m > 0 /\ z \in S
      /\ \A p \in S : P[p] \in Seq(Turn) /\ Len(P[p]) \in Nat
  BY DEF Closes
<1> SUFFICES ASSUME NEW p \in S, p # z, NEW n \in 0..Len(Q[p]),
                    NEW a \in Area, NEW x \in Nat, NEW y \in Nat, Shows(a, x, y)
             PROVE  \E q \in S : /\ q # z /\ Agree(Q[p], Q[q], n)
                                 /\ Shows(CutFrom(a, Q[q], n), x, y)
  BY DEF Covers, CoversBelow
<1>2. Q[p] \in Seq(Turn) /\ Len(Q[p]) \in Nat /\ n \in Nat /\ n <= Len(Q[p])
  BY CloseWay
<1>3. CASE Under(P, z, p) /\ n + 1 >= m
  <2>1. /\ Len(P[p]) >= m /\ Len(Q[p]) = Len(P[p]) - 1
        /\ \A k \in 1..(m - 1) : Q[p][k] = P[z][k]
        /\ \A k \in m..(Len(P[p]) - 1) : Q[p][k] = P[p][k + 1]
    BY <1>3, CloseWay
  <2>2. n + 1 \in 0..Len(P[p])
    BY <1>1, <1>2, <2>1
  <2>3. PICK q \in S : Agree(P[p], P[q], n + 1) /\ Shows(CutFrom(a, P[q], n + 1), x, y)
    BY <2>2 DEF Covers, CoversBelow
  <2>4. P[p][m].half # P[z][m].half
    BY <1>3, CloseUnder
  <2>5. m \in 1..(n + 1)
    BY <1>1, <1>2, <1>3
  <2>6. q # z
    BY <2>3, <2>4, <2>5 DEF Agree
  <2>7. Under(P, z, q)
    <3>1. n + 1 <= Len(P[q])
      BY <2>3 DEF Agree
    <3>2. m - 1 <= m /\ m - 1 <= Len(P[q]) /\ \A k \in 1..(m - 1) : k \in 1..(n + 1)
      BY <1>1, <1>2, <1>3, <3>1
    <3>3. \A k \in 1..(m - 1) : P[z][k] = P[q][k]
      BY <1>3, <2>3, <3>2 DEF Under, Agree
    <3> QED
      BY <3>2, <3>3 DEF Under, Agree
  <2>8. /\ Len(P[q]) >= m /\ Len(Q[q]) = Len(P[q]) - 1
        /\ \A k \in 1..(m - 1) : Q[q][k] = P[z][k]
        /\ \A k \in m..(Len(P[q]) - 1) : Q[q][k] = P[q][k + 1]
    BY <2>6, <2>7, CloseWay
  <2>9. n \in (m - 1)..Len(Q[q]) /\ n <= Len(Q[q])
    BY <1>1, <1>2, <1>3, <2>3, <2>8 DEF Agree
  <2>10. CutFrom(a, Q[q], n) = CutFrom(a, P[q], n + 1)
    <3>1. \A k \in (m - 1)..Len(Q[q]) : \A b : CutFrom(b, Q[q], k) = CutFrom(b, P[q], k + 1)
      BY <2>6, <2>7, CloseRest
    <3> QED
      BY <2>9, <3>1
  <2>11. ASSUME NEW k \in 1..n
         PROVE  Q[p][k] = Q[q][k]
    <3>1. CASE k < m
      <4>1. k \in 1..(m - 1)
        BY <1>1, <3>1
      <4> QED
        BY <2>1, <2>8, <4>1
    <3>2. CASE k >= m
      <4>1. k \in m..(Len(P[p]) - 1) /\ k \in m..(Len(P[q]) - 1) /\ k + 1 \in 1..(n + 1)
        <5>1. m \in Nat /\ n <= Len(Q[p]) /\ Len(Q[p]) = Len(P[p]) - 1
          BY <1>1, <1>2, <2>1
        <5>2. n <= Len(Q[q]) /\ Len(Q[q]) = Len(P[q]) - 1 /\ Len(P[q]) \in Nat
          BY <1>1, <2>8, <2>9
        <5>3. Len(P[p]) \in Nat
          BY <1>1, <2>1
        <5> QED
          BY <1>2, <3>2, <5>1, <5>2, <5>3
      <4> QED
        BY <2>1, <2>3, <2>8, <4>1 DEF Agree
    <3> QED
      BY <1>1, <3>1, <3>2
  <2>12. Agree(Q[p], Q[q], n)
    BY <1>2, <2>9, <2>11 DEF Agree
  <2> QED
    BY <2>3, <2>6, <2>10, <2>12
<1>4. CASE n + 1 < m \/ ~ Under(P, z, p)
(* Above the split the way to p is the old one. *)
  <2>1. n <= Len(P[p]) /\ \A k \in 1..n : Q[p][k] = P[p][k]
    <3>1. CASE Under(P, z, p)
      <4>1. /\ Len(P[p]) >= m /\ Len(Q[p]) = Len(P[p]) - 1
            /\ \A k \in 1..(m - 1) : Q[p][k] = P[p][k]
        BY <3>1, CloseWay
      <4>2. \A k \in 1..n : k \in 1..(m - 1)
        BY <1>1, <1>2, <1>4, <3>1
      <4> QED
        BY <1>1, <1>2, <4>1, <4>2
    <3>2. CASE ~ Under(P, z, p)
      BY <1>2, <3>2, CloseWay
    <3> QED
      BY <3>1, <3>2
  <2>2. n \in 0..Len(P[p])
    BY <1>1, <1>2, <2>1
  <2>3. PICK q \in S : Agree(P[p], P[q], n) /\ Shows(CutFrom(a, P[q], n), x, y)
    BY <2>2 DEF Covers, CoversBelow
  <2>4. CASE q # z /\ ~ Under(P, z, q)
    <3>1. Q[q] = P[q] /\ n <= Len(Q[q])
      BY <2>3, <2>4, CloseWay DEF Agree
    <3>2. Agree(Q[p], Q[q], n)
      BY <1>2, <2>1, <2>3, <3>1 DEF Agree
    <3> QED
      BY <2>3, <2>4, <3>1, <3>2
  <2>5. CASE q = z \/ Under(P, z, q)
    <3>1. n <= Len(P[q]) /\ \A k \in 1..n : P[p][k] = P[q][k]
      BY <2>3 DEF Agree
    <3>2. m - 1 <= Len(P[q]) /\ \A k \in 1..(m - 1) : P[q][k] = P[z][k]
      BY <1>1, <2>5 DEF Under, Agree
    <3>3. n <= m - 1
      <4> SUFFICES ASSUME n > m - 1 PROVE Under(P, z, p)
        BY <1>1, <1>2, <1>4
      <4>1. m - 1 <= m /\ m - 1 <= Len(P[p]) /\ \A k \in 1..(m - 1) : k \in 1..n
        BY <1>1, <1>2, <2>1
      <4> QED
        BY <3>1, <3>2, <4>1 DEF Under, Agree
    <3>4. /\ start \in Seq(Turn) /\ Len(start) = m - 1 /\ n \in 0..Len(start)
          /\ Agree(start, P[q], Len(start))
      <4>1. start \in Seq(Turn) /\ Len(start) = m - 1 /\ Agree(start, P[z], m - 1)
        BY AboveWay
      <4>2. Agree(start, P[q], m - 1)
        BY <3>2, <4>1 DEF Agree
      <4> QED
        BY <1>1, <1>2, <3>3, <4>1, <4>2
    <3> HIDE DEF start
    <3>5. CutFrom(a, P[q], n) = CutFrom(CutFrom(a, start, n), P[q], m - 1)
      <4>1. CutFrom(a, P[q], n) = CutFrom(CutFrom(a, start, n), P[q], Len(start))
        BY <1>1, <3>4, CutAgreed
      <4>2. Len(start) = m - 1
        BY <3>4, Zenon
      <4> QED
        BY <4>1, <4>2, Zenon
    <3>6. PICK b \in Area : b = CutFrom(a, start, n)
      BY <3>4, CutInside
    <3>7. Shows(b, x, y)
      <4>1. m - 1 \in 0..Len(P[q]) /\ P[q] \in Seq(Turn)
        BY <1>1, <3>2
      <4>2. PICK c \in Area : c = CutFrom(b, P[q], m - 1) /\ Inside(c, b)
        BY <4>1, CutInside
      <4>3. Shows(c, x, y)
        BY <2>3, <3>5, <3>6, <4>2
      <4> QED
        BY <4>2, <4>3, ShowsInside
    <3>8. PICK r \in S : r # z /\ Under(P, z, r) /\ Shows(CutFrom(b, Q[r], m - 1), x, y)
      BY <3>7, CloseCoversAbove
    <3>9. Agree(start, Q[r], m - 1) /\ Q[r] \in Seq(Turn)
      BY <3>8, AboveWay, CloseWay DEF start
    <3>10. CutFrom(a, Q[r], n) = CutFrom(b, Q[r], m - 1)
      <4>1. Agree(start, Q[r], Len(start))
        BY <3>4, <3>9
      <4>2. CutFrom(a, Q[r], n) = CutFrom(CutFrom(a, start, n), Q[r], Len(start))
        BY <3>4, <3>9, <4>1, CutAgreed
      <4> QED
        BY <3>4, <3>6, <4>2
    <3>11. Agree(Q[p], Q[r], n)
      <4>1. \A k \in 1..n : k \in 1..(m - 1)
        BY <1>1, <1>2, <3>3
      <4>2. /\ m - 1 <= Len(Q[r]) /\ \A k \in 1..(m - 1) : Q[r][k] = P[z][k]
        <5>1. /\ Len(P[r]) >= m /\ Len(Q[r]) = Len(P[r]) - 1
              /\ \A k \in 1..(m - 1) : Q[r][k] = P[z][k]
          BY <3>8, CloseWay
        <5> QED
          BY <1>1, <5>1
      <4>3. \A k \in 1..n : Q[p][k] = Q[r][k]
        BY <2>1, <3>1, <3>2, <4>1, <4>2
      <4>4. n <= Len(Q[r])
        BY <1>1, <1>2, <3>3, <3>9, <4>2
      <4> QED
        BY <1>2, <4>3, <4>4 DEF Agree
    <3> QED
      BY <3>8, <3>10, <3>11
  <2> QED
    BY <2>4, <2>5
<1> QED
  BY <1>1, <1>2, <1>3, <1>4

LEMMA CloseTree ==
    ASSUME NEW S, NEW P, NEW z, NEW Q, Closes(S, P, z, Q), Tree(S, P)
    PROVE  Tree(S \ {z}, Q)
<1>1. \A p \in S : p # z => Q[p] \in Seq(Turn)
  BY CloseWay
<1>2. Q \in [S \ {z} -> Seq(Turn)]
  BY <1>1 DEF Closes
<1>3. \A p, q \in S : p # z /\ q # z /\ Before(P[p], P[q]) => Before(Q[p], Q[q])
  BY CloseBefore
<1>4. Apart(S \ {z}, Q)
  BY <1>3 DEF Apart, Closes
<1> QED
  BY <1>2, <1>4, CloseSiblings, CloseCovers DEF Tree

(* The pane whose sibling goes has the room of both, and every pane below   *)
(* grows with it.                                                           *)
LEMMA CloseGrows ==
    ASSUME NEW S, NEW P, NEW z, NEW Q, Closes(S, P, z, Q), NEW p \in S, p # z, NEW a \in Area
    PROVE  NoLarger(Cut(a, P[p]), Cut(a, Q[p]))
<1> DEFINE m == Len(P[z])
           start == Above(P, z)
           b == CutFrom(a, start, 0)
<1>1. /\ P[p] \in Seq(Turn) /\ Len(P[p]) \in Nat /\ P[z] \in Seq(Turn) /\ m \in Nat /\ m > 0
  BY DEF Closes
<1>2. Q[p] \in Seq(Turn)
  BY CloseWay
<1>3. CASE ~ Under(P, z, p)
  <2>1. Q[p] = P[p]
    BY <1>3, CloseWay
  <2>2. Cut(a, P[p]) \in Area
    BY <1>1, CutWhole, CutInside
  <2> QED
    BY <2>1, <2>2, AreaNumbers DEF NoLarger
<1>4. CASE Under(P, z, p)
  <2>1. Len(P[p]) >= m /\ Len(Q[p]) = Len(P[p]) - 1
    BY <1>4, CloseWay
  <2>2. /\ start \in Seq(Turn) /\ Len(start) = m - 1 /\ 0 \in 0..Len(start)
        /\ Agree(start, P[p], Len(start)) /\ Agree(start, Q[p], Len(start))
    <3>1. start \in Seq(Turn) /\ Len(start) = m - 1
      BY AboveWay
    <3>2. Agree(start, P[p], m - 1) /\ Agree(start, Q[p], m - 1)
      BY <1>4, AboveWay
    <3> QED
      BY <1>1, <3>1, <3>2
  <2> HIDE DEF start
  <2>3. b \in Area
    BY <2>2, CutInside
  <2>4. Cut(a, P[p]) = CutFrom(b, P[p], m - 1) /\ Cut(a, Q[p]) = CutFrom(b, Q[p], m - 1)
    <3>1. Cut(a, P[p]) = CutFrom(a, P[p], 0) /\ Cut(a, Q[p]) = CutFrom(a, Q[p], 0)
      BY <1>1, <1>2, CutWhole
    <3>2. CutFrom(a, P[p], 0) = CutFrom(b, P[p], Len(start))
      BY <1>1, <2>2, CutAgreed
    <3>3. CutFrom(a, Q[p], 0) = CutFrom(b, Q[p], Len(start))
      BY <1>2, <2>2, CutAgreed
    <3> QED
      BY <2>2, <3>1, <3>2, <3>3
  <2> HIDE DEF b
  <2>5. CutFrom(b, Q[p], m - 1) = CutFrom(b, P[p], m)
    <3>1. m - 1 \in (m - 1)..Len(Q[p]) /\ (m - 1) + 1 = m
      BY <1>1, <2>1
    <3>2. \A n \in (m - 1)..Len(Q[p]) : \A c : CutFrom(c, Q[p], n) = CutFrom(c, P[p], n + 1)
      BY <1>4, CloseRest
    <3> QED
      BY <3>1, <3>2
  <2>6. CutFrom(b, P[p], m - 1) = CutFrom(Portion(b, P[p][m]), P[p], m)
    <3>1. m - 1 \in 0..(Len(P[p]) - 1) /\ (m - 1) + 1 = m
      BY <1>1, <2>1
    <3>2. CutFrom(b, P[p], m - 1) = CutFrom(Portion(b, P[p][(m - 1) + 1]), P[p], (m - 1) + 1)
      BY <1>1, <3>1, CutTurn
    <3> QED
      BY <3>1, <3>2
  <2>7. m \in 0..Len(P[p]) /\ P[p][m] \in Turn
    BY <1>1, <2>1
  <2>8. NoLarger(Portion(b, P[p][m]), b) /\ Portion(b, P[p][m]) \in Area
    BY <2>3, <2>7, PortionInside
  <2>9. NoLarger(CutFrom(Portion(b, P[p][m]), P[p], m), CutFrom(b, P[p], m))
    BY <1>1, <2>3, <2>7, <2>8, CutGrows
  <2> QED
    BY <2>4, <2>5, <2>6, <2>9
<1> QED
  BY <1>3, <1>4

------------------------------------------------------------------------------
(* Where ways part, so do their rectangles. *)
LEMMA StartOfWay ==
    ASSUME NEW way \in Seq(Turn), NEW n \in Nat, n < Len(way)
    PROVE  /\ SubSeq(way, 1, n) \in Seq(Turn) /\ Len(SubSeq(way, 1, n)) = n
           /\ Agree(SubSeq(way, 1, n), way, n)
<1> DEFINE start == SubSeq(way, 1, n)
<1>1. \A k \in 1..n : k \in 1..Len(way) /\ way[k] \in Turn
  OBVIOUS
<1>2. start = [k \in 1..n |-> way[k]]
  OBVIOUS
<1> HIDE DEF start
<1>3. start \in [1..n -> Turn]
  BY <1>1, <1>2
<1>4. start \in Seq(Turn) /\ Len(start) = n
  BY <1>2, <1>3
<1>5. Agree(start, way, n)
  BY <1>2, <1>4 DEF Agree
<1> QED
  BY <1>4, <1>5 DEF start

LEMMA BeforePrecedes ==
    ASSUME NEW u \in Seq(Turn), NEW v \in Seq(Turn), Before(u, v), NEW a \in Area
    PROVE  Precedes(Cut(a, u), Cut(a, v))
<1>1. PICK n \in Nat : Parts(u, v, n)
  BY DEF Before
<1> DEFINE start == SubSeq(u, 1, n)
           b == CutFrom(a, start, 0)
           d == u[n + 1].direction
<1>2. /\ start \in Seq(Turn) /\ Len(start) = n /\ Agree(start, u, n)
  BY <1>1, StartOfWay DEF Parts
<1> HIDE DEF start
<1>3. Agree(start, u, Len(start)) /\ Agree(start, v, Len(start)) /\ 0 \in 0..Len(start)
  BY <1>1, <1>2 DEF Parts, Agree
<1>4. b \in Area
  BY <1>2, <1>3, CutInside
<1>5. Cut(a, u) = CutFrom(b, u, n) /\ Cut(a, v) = CutFrom(b, v, n)
  <2>1. CutFrom(a, u, 0) = CutFrom(b, u, Len(start)) /\ CutFrom(a, v, 0) = CutFrom(b, v, Len(start))
    BY <1>2, <1>3, CutAgreed
  <2> QED
    BY <1>2, <2>1, CutWhole
<1> HIDE DEF b
<1>6. /\ n \in 0..(Len(u) - 1) /\ n \in 0..(Len(v) - 1)
      /\ n + 1 \in 0..Len(u) /\ n + 1 \in 0..Len(v) /\ n + 1 \in 1..Len(u) /\ n + 1 \in 1..Len(v)
      /\ Len(u) \in Nat /\ Len(v) \in Nat
  BY <1>1 DEF Parts
<1>7. u[n + 1] \in Turn /\ v[n + 1] \in Turn
  BY <1>6
<1>8. d \in Direction /\ u[n + 1] = First(d) /\ v[n + 1] = Second(d)
  <2>1. u[n + 1].half = 1 /\ v[n + 1].half = 2 /\ v[n + 1].direction = u[n + 1].direction
    BY <1>1 DEF Parts
  <2> QED
    BY <1>7, <2>1, TurnHalves
<1> HIDE DEF d
<1>9. PICK first \in Area, second \in Area :
         /\ first = Portion(b, First(d)) /\ second = Portion(b, Second(d))
         /\ Precedes(first, second)
  BY <1>4, <1>8, Portions
<1>10. Cut(a, u) = CutFrom(first, u, n + 1) /\ Cut(a, v) = CutFrom(second, v, n + 1)
  BY <1>5, <1>6, <1>8, <1>9, CutTurn
<1>11. PICK r \in Area : r = Cut(a, u) /\ Inside(r, first)
  BY <1>6, <1>10, CutInside
<1>12. PICK t \in Area : t = Cut(a, v) /\ Inside(t, second)
  BY <1>6, <1>10, CutInside
<1>13. Precedes(r, t)
  BY <1>9, <1>11, <1>12, PrecedesInside
<1> QED
  BY <1>11, <1>12, <1>13

------------------------------------------------------------------------------
(* The panes in visual order, the order in which their ways part. *)
Ordered(s, P) == \A i, j \in 1..Len(s) : i < j => Before(P[s[i]], P[s[j]])
Listed(s, S) == s \in Seq(S) /\ \A p \in S : \E i \in 1..Len(s) : s[i] = p

LEMMA NotBeforeItself == \A a : ~ Before(a, a)
  BY DEF Before, Parts

LEMMA OrderedDistinct ==
    ASSUME NEW S, NEW s \in Seq(S), NEW P, Ordered(s, P),
           NEW i \in 1..Len(s), NEW j \in 1..Len(s), s[i] = s[j]
    PROVE  i = j
<1>1. Len(s) \in Nat
  OBVIOUS
<1>2. ~ (i < j) /\ ~ (j < i)
  BY NotBeforeItself DEF Ordered
<1> QED
  BY <1>1, <1>2

LEMMA SplitOrdered ==
    ASSUME NEW S, NEW P, NEW z, NEW new, NEW direction, NEW Q, Splits(S, P, z, new, direction, Q),
           NEW s, Listed(s, S), Ordered(s, P), NEW i \in 1..Len(s), s[i] = z,
           NEW t, t = InsertAt(s, i + 1, new)
    PROVE  Listed(t, S \cup {new}) /\ Ordered(t, Q) /\ Len(t) = Len(s) + 1
<1> DEFINE m == Len(s)
           T == S \cup {new}
           Old(j) == IF j <= i THEN j ELSE j - 1
<1>1. s \in Seq(S) /\ s \in Seq(T) /\ m \in Nat /\ new \in T /\ i + 1 \in 1..(m + 1)
  <2>1. s \in Seq(S)
    BY DEF Listed
  <2> QED
    BY <2>1
<1>2. t \in Seq(T) /\ Len(t) = m + 1 /\ Order_proofs!Inserts(s, m, i + 1, new, t)
  <2>1. Order_proofs!Grown(T, s, i + 1, new, t)
    BY <1>1, Order_proofs!InsertAtElements, Zenon DEF InsertAt, Order_proofs!InsertAt
  <2> QED
    BY <2>1 DEF Order_proofs!Grown
<1>3. /\ t[i + 1] = new
      /\ \A j \in 1..(m + 1) : j # i + 1 =>
            Old(j) \in 1..m /\ t[j] = s[Old(j)] /\ t[j] \in S
  <2>1. \A j \in 1..(m + 1) : t[j] = IF j < i + 1 THEN s[j] ELSE IF j = i + 1 THEN new ELSE s[j - 1]
    BY <1>2 DEF Order_proofs!Inserts
  <2>2. t[i + 1] = new
    BY <1>1, <2>1
  <2>3. ASSUME NEW j \in 1..(m + 1), j # i + 1
        PROVE  Old(j) \in 1..m /\ t[j] = s[Old(j)]
    BY <1>1, <2>1, <2>3
  <2>4. ASSUME NEW j \in 1..(m + 1), j # i + 1
        PROVE  s[Old(j)] \in S
    <3>1. Old(j) \in 1..m
      BY <2>3, <2>4
    <3> HIDE DEF Old
    <3> QED
      BY <1>1, <3>1
  <2> QED
    BY <2>2, <2>3, <2>4
<1>4. \A p \in T : \E j \in 1..(m + 1) : t[j] = p
  <2>1. ASSUME NEW p \in S
        PROVE  \E j \in 1..(m + 1) : t[j] = p
    <3>1. PICK k \in 1..m : s[k] = p
      BY DEF Listed
    <3>2. PICK j \in 1..(m + 1) : j # i + 1 /\ Old(j) = k
      <4>1. CASE k <= i
        BY <1>1, <4>1
      <4>2. CASE k > i
        <5>1. k + 1 \in 1..(m + 1) /\ k + 1 # i + 1 /\ Old(k + 1) = k
          BY <1>1, <4>2
        <5> QED
          BY <5>1
      <4> QED
        BY <1>1, <4>1, <4>2
    <3> QED
      BY <1>3, <3>1, <3>2
  <2> QED
    BY <1>1, <1>3, <2>1
<1>5. /\ \A p, q \in S : Before(P[p], P[q]) => Before(Q[p], Q[q])
      /\ \A p \in S : p # z => /\ Before(P[p], P[z]) => Before(Q[p], Q[new])
                               /\ Before(P[z], P[p]) => Before(Q[new], Q[p])
  <2>1. \A p, q \in S : Before(P[p], P[q]) => Before(Q[p], Q[q])
    BY SplitBefore
  <2>2. NewBeside(S, P, z, new, Q)
    BY SplitApart, Zenon
  <2> QED
    BY <2>1, <2>2 DEF NewBeside
<1>6. Before(Q[z], Q[new])
  BY SplitWays, Zenon
<1>7. ASSUME NEW j \in 1..(m + 1), NEW k \in 1..(m + 1), j < k
      PROVE  Before(Q[t[j]], Q[t[k]])
  <2>1. CASE j # i + 1 /\ k # i + 1
    <3>1. Old(j) \in 1..m /\ Old(k) \in 1..m /\ Old(j) < Old(k)
      BY <1>1, <1>7, <2>1
    <3>2. t[j] = s[Old(j)] /\ t[k] = s[Old(k)] /\ t[j] \in S /\ t[k] \in S
      BY <1>3, <2>1
    <3> HIDE DEF Old
    <3>3. Before(P[s[Old(j)]], P[s[Old(k)]])
      BY <3>1 DEF Ordered
    <3> QED
      BY <1>5, <3>2, <3>3
  <2>2. CASE k = i + 1 /\ j = i
    <3>1. t[j] = z /\ t[k] = new
      BY <1>1, <1>3, <2>2
    <3> QED
      BY <1>6, <3>1
  <2>3. CASE k = i + 1 /\ j < i
    <3>1. t[k] = new /\ t[j] = s[j] /\ t[j] \in S /\ j \in 1..m
      BY <1>1, <1>3, <2>3
    <3>2. Before(P[s[j]], P[z])
      BY <2>3, <3>1 DEF Ordered
    <3>3. s[j] # z
      BY <3>2, NotBeforeItself
    <3> QED
      BY <1>5, <3>1, <3>2, <3>3
  <2>4. CASE j = i + 1 /\ k > i + 1
    <3>1. t[j] = new /\ t[k] = s[k - 1] /\ t[k] \in S /\ k - 1 \in 1..m /\ i < k - 1
      BY <1>1, <1>3, <2>4
    <3>2. Before(P[z], P[s[k - 1]])
      BY <3>1 DEF Ordered
    <3>3. s[k - 1] # z
      BY <3>2, NotBeforeItself
    <3> QED
      BY <1>5, <3>1, <3>2, <3>3
  <2> QED
    BY <1>1, <1>7, <2>1, <2>2, <2>3, <2>4
<1> QED
  BY <1>2, <1>4, <1>7 DEF Listed, Ordered

LEMMA CloseOrdered ==
    ASSUME NEW S, NEW P, NEW z, NEW Q, Closes(S, P, z, Q),
           NEW s, Listed(s, S), Ordered(s, P)
    PROVE  \A i \in 1..Len(s) : s[i] = z =>
              /\ Listed(RemoveAt(s, i), S \ {z}) /\ Ordered(RemoveAt(s, i), Q)
              /\ Len(RemoveAt(s, i)) = Len(s) - 1
<1> SUFFICES ASSUME NEW i \in 1..Len(s), s[i] = z
             PROVE  /\ Listed(RemoveAt(s, i), S \ {z}) /\ Ordered(RemoveAt(s, i), Q)
                    /\ Len(RemoveAt(s, i)) = Len(s) - 1
  OBVIOUS
<1> DEFINE m == Len(s)
           t == RemoveAt(s, i)
           Old(j) == IF j < i THEN j ELSE j + 1
<1>1. s \in Seq(S) /\ m \in Nat
  <2>1. s \in Seq(S)
    BY DEF Listed
  <2> QED
    BY <2>1
<1>2. t \in Seq(S) /\ Len(t) = m - 1 /\ Order_proofs!Removes(s, m, i, t)
  BY <1>1, Order_proofs!RemoveAtElements, Zenon DEF RemoveAt, Order_proofs!RemoveAt
<1> HIDE DEF t
<1>3. ASSUME NEW j \in 1..(m - 1)
      PROVE  Old(j) \in 1..m /\ Old(j) # i /\ t[j] = s[Old(j)]
  <2>1. t[j] = IF j < i THEN s[j] ELSE s[j + 1]
    BY <1>2 DEF Order_proofs!Removes
  <2> QED
    BY <1>1, <2>1
<1>4. ASSUME NEW j \in 1..(m - 1)
      PROVE  t[j] \in S /\ t[j] # z
  <2>1. Old(j) \in 1..m /\ Old(j) # i /\ t[j] = s[Old(j)]
    BY <1>3
  <2> HIDE DEF Old
  <2> QED
    BY <1>1, <2>1, OrderedDistinct
<1>5. t \in Seq(S \ {z})
  BY <1>1, <1>2, <1>4
<1>6. ASSUME NEW p \in S, p # z
      PROVE  \E j \in 1..(m - 1) : t[j] = p
  <2>1. PICK k \in 1..m : s[k] = p
    BY DEF Listed
  <2>2. k # i
    BY <1>6, <2>1
  <2>3. PICK j \in 1..(m - 1) : Old(j) = k
    <3>1. CASE k < i
      BY <1>1, <3>1
    <3>2. CASE k > i
      <4>1. k - 1 \in 1..(m - 1) /\ Old(k - 1) = k
        BY <1>1, <3>2
      <4> QED
        BY <4>1
    <3> QED
      BY <1>1, <2>2, <3>1, <3>2
  <2> QED
    BY <1>3, <2>1, <2>3
<1>7. ASSUME NEW j \in 1..(m - 1), NEW k \in 1..(m - 1), j < k
      PROVE  Before(Q[t[j]], Q[t[k]])
  <2>1. Old(j) \in 1..m /\ Old(k) \in 1..m /\ Old(j) < Old(k)
    BY <1>1, <1>7
  <2>2. t[j] = s[Old(j)] /\ t[k] = s[Old(k)] /\ t[j] \in S \ {z} /\ t[k] \in S \ {z}
    BY <1>3, <1>4
  <2> HIDE DEF Old
  <2>3. Before(P[t[j]], P[t[k]])
    BY <2>1, <2>2 DEF Ordered
  <2> QED
    BY <2>2, <2>3, CloseBefore
<1> QED
  BY <1>2, <1>5, <1>6, <1>7 DEF Listed, Ordered, t

------------------------------------------------------------------------------
(* The trees that splits and closes build, and what they look like laid out. *)
Good(tree) ==
    /\ Tree(PaneSet(tree), tree.way)
    /\ Listed(tree.panes, PaneSet(tree))
    /\ Ordered(tree.panes, tree.way)

LEMMA GoodPanes ==
    ASSUME NEW tree, Good(tree)
    PROVE  /\ tree.panes \in Seq(PaneSet(tree)) /\ Len(tree.panes) \in Nat
           /\ DOMAIN tree.panes = 1..Len(tree.panes)
           /\ tree.way \in [PaneSet(tree) -> Seq(Turn)]
           /\ PaneSet(tree) = Range(tree.panes)
           /\ \A i \in 1..Len(tree.panes) : tree.panes[i] \in PaneSet(tree)
           /\ \A i, j \in 1..Len(tree.panes) : tree.panes[i] = tree.panes[j] => i = j
<1>1. tree.panes \in Seq(PaneSet(tree)) /\ \A p \in PaneSet(tree) : \E i \in 1..Len(tree.panes) : tree.panes[i] = p
  BY DEF Good, Listed
<1>2. /\ Len(tree.panes) \in Nat /\ DOMAIN tree.panes = 1..Len(tree.panes)
      /\ \A i \in 1..Len(tree.panes) : tree.panes[i] \in PaneSet(tree)
  BY <1>1
<1>3. PaneSet(tree) = Range(tree.panes)
  BY <1>1, <1>2 DEF Range
<1>4. \A i, j \in 1..Len(tree.panes) : tree.panes[i] = tree.panes[j] => i = j
  BY <1>1, OrderedDistinct DEF Good
<1> QED
  BY <1>1, <1>2, <1>3, <1>4 DEF Good, Tree

LEMMA GoodPosition ==
    ASSUME NEW tree, Good(tree), NEW p \in PaneSet(tree)
    PROVE  /\ Position(tree.panes, p) \in 1..Len(tree.panes)
           /\ tree.panes[Position(tree.panes, p)] = p
<1>1. \E i \in DOMAIN tree.panes : tree.panes[i] = p
  BY GoodPanes DEF Good, Listed
<1>2. Position(tree.panes, p) \in DOMAIN tree.panes /\ tree.panes[Position(tree.panes, p)] = p
  BY <1>1 DEF Position
<1> QED
  BY <1>2, GoodPanes

LEMMA GoodLeaf ==
    ASSUME NEW p
    PROVE  Good(Leaf(p)) /\ PaneSet(Leaf(p)) = {p} /\ Leaf(p).panes = <<p>>
<1> DEFINE P == [q \in {p} |-> <<>>]
<1>1. PaneSet(Leaf(p)) = {p} /\ Leaf(p).panes = <<p>> /\ Leaf(p).way = P
  BY DEF Leaf, PaneSet
<1>2. P \in [{p} -> Seq(Turn)] /\ P[p] = <<>> /\ Len(P[p]) = 0 /\ P[p] \in Seq(Turn)
  OBVIOUS
<1> HIDE DEF P
<1>3. Apart({p}, P) /\ Siblings({p}, P)
  BY <1>2 DEF Apart, Siblings
<1>4. Covers({p}, P)
  <2>1. CoversBelow({p}, P, P[p], Len(P[p]))
    BY <1>2, CoversLeaf
  <2>2. \A q \in {p}, n \in 0..Len(P[p]) : q = p /\ n = Len(P[p])
    BY <1>2
  <2> QED
    BY <2>1, <2>2 DEF Covers
<1>5. Listed(<<p>>, {p}) /\ Ordered(<<p>>, P)
  BY DEF Listed, Ordered
<1> QED
  BY <1>1, <1>2, <1>3, <1>4, <1>5 DEF Good, Tree

LEMMA GoodSplit ==
    ASSUME NEW tree, Good(tree), NEW target \in PaneSet(tree), NEW new, new \notin PaneSet(tree),
           NEW direction \in Direction
    PROVE  LET split == SplitPane(tree, target, new, direction)
           IN  /\ Good(split) /\ PaneSet(split) = PaneSet(tree) \cup {new}
               /\ Len(split.panes) = Len(tree.panes) + 1
               /\ split.panes = InsertAt(tree.panes, Position(tree.panes, target) + 1, new)
<1> DEFINE split == SplitPane(tree, target, new, direction)
           S == PaneSet(tree)
           Q == [p \in S \cup {new} |->
                   IF p = target THEN Append(tree.way[target], First(direction))
                   ELSE IF p = new THEN Append(tree.way[target], Second(direction))
                   ELSE tree.way[p]]
           i == Position(tree.panes, target)
<1>1. split.panes = InsertAt(tree.panes, i + 1, new) /\ split.way = Q
  BY DEF SplitPane, First, Second
<1>2. PaneSet(split) = S \cup {new}
  BY <1>1 DEF PaneSet
<1>3. Splits(S, tree.way, target, new, direction, Q)
  <2>1. tree.way \in [S -> Seq(Turn)]
    BY DEF Good, Tree
  <2> QED
    BY <2>1, Zenon DEF Splits
<1>4. i \in 1..Len(tree.panes) /\ tree.panes[i] = target
  BY GoodPosition
<1> HIDE DEF split, Q, i, S
<1>5. Tree(S \cup {new}, Q)
  <2>1. Tree(S, tree.way)
    BY DEF Good, S
  <2> QED
    BY <1>3, <2>1, SplitTree, Zenon
<1>6. /\ Listed(split.panes, S \cup {new}) /\ Ordered(split.panes, Q)
      /\ Len(split.panes) = Len(tree.panes) + 1
  <2>1. Listed(tree.panes, S) /\ Ordered(tree.panes, tree.way)
    BY DEF Good, S
  <2> QED
    BY <1>1, <1>3, <1>4, <2>1, SplitOrdered
<1> QED
  BY <1>1, <1>2, <1>5, <1>6 DEF Good, split, S, i

LEMMA GoodRemove ==
    ASSUME NEW tree, Good(tree), NEW target \in PaneSet(tree), Len(tree.panes) > 1
    PROVE  LET rest == RemovePane(tree, target)
           IN  /\ Good(rest) /\ PaneSet(rest) = PaneSet(tree) \ {target}
               /\ Len(rest.panes) = Len(tree.panes) - 1
               /\ rest.panes = RemoveAt(tree.panes, Position(tree.panes, target))
               /\ Closes(PaneSet(tree), tree.way, target, rest.way)
<1> DEFINE rest == RemovePane(tree, target)
           S == PaneSet(tree)
           P == tree.way
           Q == [p \in S \ {target} |-> IF Under(P, target, p) THEN RemoveAt(P[p], Len(P[target])) ELSE P[p]]
           i == Position(tree.panes, target)
<1>1. rest.panes = RemoveAt(tree.panes, i) /\ rest.way = Q
  BY DEF RemovePane, Under
<1>2. PaneSet(rest) = S \ {target}
  BY <1>1 DEF PaneSet
<1>3. i \in 1..Len(tree.panes) /\ tree.panes[i] = target /\ Len(tree.panes) \in Nat
  BY GoodPosition, GoodPanes
<1>4. P \in [S -> Seq(Turn)] /\ Apart(S, P)
  BY DEF Good, Tree
(* Another pane parts from it, so there is a split above. *)
<1>5. Len(P[target]) > 0
  <2>1. PICK j \in 1..Len(tree.panes) : j # i
    BY <1>3
  <2>2. tree.panes[j] \in S /\ tree.panes[j] # target
    BY <1>3, <2>1, GoodPanes
  <2>3. Before(P[tree.panes[j]], P[target]) \/ Before(P[target], P[tree.panes[j]])
    BY <1>4, <2>2 DEF Apart
  <2>4. P[target] \in Seq(Turn)
    BY <1>4
  <2> QED
    BY <2>3, <2>4 DEF Before, Parts
<1>6. Closes(S, P, target, Q)
  BY <1>4, <1>5 DEF Closes
<1> HIDE DEF rest, Q, i, S, P
<1>7. Tree(S \ {target}, Q)
  <2>1. Tree(S, P)
    BY DEF Good, S, P
  <2> QED
    BY <1>6, <2>1, CloseTree, Zenon
<1>8. /\ Listed(rest.panes, S \ {target}) /\ Ordered(rest.panes, Q)
      /\ Len(rest.panes) = Len(tree.panes) - 1
  <2>1. Listed(tree.panes, S) /\ Ordered(tree.panes, P)
    BY DEF Good, S, P
  <2> QED
    <3> DEFINE s == tree.panes
    <3>1. \A j \in 1..Len(s) : s[j] = target =>
            /\ Listed(RemoveAt(s, j), S \ {target}) /\ Ordered(RemoveAt(s, j), Q)
            /\ Len(RemoveAt(s, j)) = Len(s) - 1
      <4> HIDE DEF s
      <4>1. Listed(s, S) /\ Ordered(s, P)
        BY <2>1 DEF s
      <4> QED
        BY <1>6, <4>1, CloseOrdered
    <3> QED
      BY <1>1, <1>3, <3>1, Zenon
<1> QED
  BY <1>1, <1>2, <1>6, <1>7, <1>8 DEF Good, rest, S, P, i

(* The layout of a good tree shares the area out. *)
View == [rows : 2..U16Max, cols : 2..U16Max]
Canvas(view) == Rect(0, 0, view.cols, SaturatingSub(view.rows, 1))

LEMMA CanvasArea ==
    ASSUME NEW view \in View
    PROVE  /\ Canvas(view) \in Area
           /\ \A x \in 0..(view.cols - 1), y \in 0..(view.rows - 2) : Shows(Canvas(view), x, y)
<1>1. /\ view.cols \in Nat /\ view.rows \in Nat /\ view.rows >= 2
      /\ view.cols <= U16Max /\ view.rows <= U16Max
  BY TreeAssumption DEF View
<1>2. /\ Canvas(view).x = 0 /\ Canvas(view).y = 0
      /\ Canvas(view).width = view.cols /\ Canvas(view).height = view.rows - 1
      /\ Canvas(view) \in [x : Nat, y : Nat, width : Nat, height : Nat]
  BY <1>1 DEF Canvas, Rect, SaturatingSub
<1>3. Canvas(view) \in Area
  BY <1>1, <1>2, TreeAssumption DEF Area
<1>4. ASSUME NEW x \in 0..(view.cols - 1), NEW y \in 0..(view.rows - 2)
      PROVE  Shows(Canvas(view), x, y)
  BY <1>1, <1>2 DEF Shows
<1> QED
  BY <1>3, <1>4

LEMMA LayoutPanes ==
    ASSUME NEW tree, Good(tree), NEW view \in View
    PROVE  /\ DOMAIN Layout(tree, view) = 1..Len(tree.panes)
           /\ \A i \in 1..Len(tree.panes) :
                 /\ Layout(tree, view)[i].pane = tree.panes[i]
                 /\ Layout(tree, view)[i].rect = Cut(Canvas(view), tree.way[tree.panes[i]])
                 /\ Layout(tree, view)[i].rect \in Area
<1> DEFINE L == Layout(tree, view)
<1>1. L = [i \in DOMAIN tree.panes |->
              [pane |-> tree.panes[i], rect |-> Cut(Canvas(view), tree.way[tree.panes[i]])]]
  BY DEF Layout, LayoutTree, Canvas
<1>2. DOMAIN tree.panes = 1..Len(tree.panes)
  BY GoodPanes
<1> HIDE DEF L
<1>3. DOMAIN L = 1..Len(tree.panes)
  BY <1>1, <1>2
<1>4. ASSUME NEW i \in 1..Len(tree.panes)
      PROVE  /\ L[i].pane = tree.panes[i]
             /\ L[i].rect = Cut(Canvas(view), tree.way[tree.panes[i]])
             /\ L[i].rect \in Area
  <2>1. L[i] = [pane |-> tree.panes[i], rect |-> Cut(Canvas(view), tree.way[tree.panes[i]])]
    BY <1>1, <1>2
  <2>2. tree.way[tree.panes[i]] \in Seq(Turn)
    BY GoodPanes
  <2>3. Cut(Canvas(view), tree.way[tree.panes[i]]) \in Area
    BY <2>2, CanvasArea, CutWhole, CutInside
  <2> QED
    BY <2>1, <2>3
<1> QED
  BY <1>3, <1>4 DEF L

LEMMA LayoutPrecedes ==
    ASSUME NEW tree, Good(tree), NEW view \in View,
           NEW i \in 1..Len(tree.panes), NEW j \in 1..Len(tree.panes), i < j
    PROVE  Precedes(Layout(tree, view)[i].rect, Layout(tree, view)[j].rect)
<1> DEFINE u == tree.way[tree.panes[i]]
           v == tree.way[tree.panes[j]]
<1>1. u \in Seq(Turn) /\ v \in Seq(Turn)
  BY GoodPanes
<1>2. Before(u, v)
  BY DEF Good, Ordered
<1>3. Canvas(view) \in Area
  BY CanvasArea
<1>4. Precedes(Cut(Canvas(view), u), Cut(Canvas(view), v))
  BY <1>1, <1>2, <1>3, BeforePrecedes
<1> QED
  BY <1>4, LayoutPanes

LEMMA LayoutCovers ==
    ASSUME NEW tree, Good(tree), NEW p \in PaneSet(tree), NEW view \in View,
           NEW x \in 0..(view.cols - 1), NEW y \in 0..(view.rows - 2)
    PROVE  \E i \in 1..Len(tree.panes) : Shows(Layout(tree, view)[i].rect, x, y)
<1>1. /\ Canvas(view) \in Area /\ Shows(Canvas(view), x, y)
  BY CanvasArea
<1>2. x \in Nat /\ y \in Nat
  BY DEF View
<1>3. 0 \in 0..Len(tree.way[p])
  BY GoodPanes
<1>4. PICK q \in PaneSet(tree) : Shows(CutFrom(Canvas(view), tree.way[q], 0), x, y)
  BY <1>1, <1>2, <1>3 DEF Good, Tree, Covers, CoversBelow
<1>5. CutFrom(Canvas(view), tree.way[q], 0) = Cut(Canvas(view), tree.way[q])
  BY GoodPanes, CutWhole
<1>6. PICK i \in 1..Len(tree.panes) : tree.panes[i] = q
  BY GoodPosition
<1> QED
  BY <1>4, <1>5, <1>6, LayoutPanes

(* No cell lies in two rectangles of which one precedes the other. *)
LEMMA PrecedesApart ==
    ASSUME NEW a \in Area, NEW b \in Area, Precedes(a, b), NEW x \in Int, NEW y \in Int
    PROVE  ~ (Shows(a, x, y) /\ Shows(b, x, y))
<1>1. /\ a.x \in Nat /\ a.y \in Nat /\ a.width \in Nat /\ a.height \in Nat
      /\ b.x \in Nat /\ b.y \in Nat /\ b.width \in Nat /\ b.height \in Nat
  BY AreaNumbers
<1> QED
  BY <1>1 DEF Precedes, Shows

(* The content of a pane is a size that a PTY can have. *)
LEMMA ContentSize ==
    ASSUME NEW a \in Area
    PROVE  Content(a) \in [rows : 0..U16Max, cols : 0..U16Max]
<1>1. /\ a.width \in Nat /\ a.height \in Nat /\ a.width <= U16Max /\ a.height <= U16Max
  BY AreaNumbers
<1>2. \A n \in Nat : n <= U16Max => AtLeast(SaturatingSub(n, 2), 2) \in 0..U16Max
  BY TreeAssumption DEF AtLeast, SaturatingSub
<1> QED
  BY <1>1, <1>2 DEF Content, Size

LEMMA ResizedSizes ==
    ASSUME NEW tree, Good(tree), NEW view \in View, NEW k \in 0..Len(tree.panes),
           NEW ptys, \A p \in DOMAIN ptys : ptys[p] \in [rows : 0..U16Max, cols : 0..U16Max]
    PROVE  /\ DOMAIN ResizePtys(ptys, tree, view, k) = DOMAIN ptys
           /\ \A p \in DOMAIN ptys :
                ResizePtys(ptys, tree, view, k)[p] \in [rows : 0..U16Max, cols : 0..U16Max]
<1> DEFINE L == Layout(tree, view)
           R == ResizePtys(ptys, tree, view, k)
           Sizes == [rows : 0..U16Max, cols : 0..U16Max]
<1>1. R = [p \in DOMAIN ptys |->
             IF \E i \in 1..k : L[i].pane = p
             THEN Content((CHOOSE l \in {L[i] : i \in 1..k} : l.pane = p).rect)
             ELSE ptys[p]]
  BY DEF ResizePtys
<1> HIDE DEF R, L
<1>2. \A i \in 1..k : L[i].rect \in Area
  <2>1. \A i \in 1..k : i \in 1..Len(tree.panes)
    BY GoodPanes
  <2> QED
    BY <2>1, LayoutPanes DEF L
<1>3. ASSUME NEW p \in DOMAIN ptys
      PROVE  R[p] \in Sizes
  <2>1. CASE \E i \in 1..k : L[i].pane = p
    <3>1. PICK i \in 1..k : (CHOOSE l \in {L[j] : j \in 1..k} : l.pane = p) = L[i]
      BY <2>1
    <3>2. R[p] = Content(L[i].rect)
      BY <1>1, <2>1, <3>1
    <3> QED
      BY <1>2, <3>2, ContentSize
  <2>2. CASE ~ \E i \in 1..k : L[i].pane = p
    BY <1>1, <2>2
  <2> QED
    BY <2>1, <2>2
<1> QED
  BY <1>1, <1>3 DEF R

(* When the loop got to the end, every pane has its size. *)
LEMMA ResizedFits ==
    ASSUME NEW tree, Good(tree), NEW view \in View, NEW ptys, DOMAIN ptys = PaneSet(tree)
    PROVE  \A l \in Range(Layout(tree, view)) :
              ResizePtys(ptys, tree, view, Len(tree.panes))[l.pane] = Content(l.rect)
<1> DEFINE L == Layout(tree, view)
           n == Len(tree.panes)
           R == ResizePtys(ptys, tree, view, n)
<1>1. R = [p \in DOMAIN ptys |->
             IF \E i \in 1..n : L[i].pane = p
             THEN Content((CHOOSE l \in {L[i] : i \in 1..n} : l.pane = p).rect)
             ELSE ptys[p]]
  BY DEF ResizePtys
<1>2. DOMAIN L = 1..n /\ \A i \in 1..n : L[i].pane = tree.panes[i]
  BY LayoutPanes
<1> HIDE DEF R, L
<1> SUFFICES ASSUME NEW i \in 1..n
             PROVE  R[L[i].pane] = Content(L[i].rect)
  BY <1>2 DEF Range, R, L
<1>3. L[i].pane \in DOMAIN ptys
  BY <1>2, GoodPanes
<1>4. PICK j \in 1..n : /\ (CHOOSE l \in {L[k] : k \in 1..n} : l.pane = L[i].pane) = L[j]
                        /\ L[j].pane = L[i].pane
  OBVIOUS
<1>5. j = i
  BY <1>2, <1>4, GoodPanes
<1> QED
  BY <1>1, <1>3, <1>4, <1>5

------------------------------------------------------------------------------
(* The session. *)
Sizes == [rows : 0..U16Max, cols : 0..U16Max]

Kept ==
    /\ focused \in PaneSet(root)
    /\ next_id \in 2..(MaxPaneId + 1)
    /\ PaneSet(root) \subseteq 1..(next_id - 1)
    /\ \A p \in DOMAIN registry : registry[p] \in Sizes
    /\ viewport \in View
    /\ last \in [call : {"create", "resize", "split", "focus", "close"}, ok : BOOLEAN]

(* The inductive invariant: beyond the types, what makes the ways those of  *)
(* a tree, and the panes in its order.                                      *)
Inv == Good(root) /\ Kept /\ ResourcesMatch /\ PtysFit

LEMMA InvTypes == Inv => TypeOK
<1> SUFFICES ASSUME Inv PROVE TypeOK
  OBVIOUS
<1>1. Good(root) /\ Kept
  BY DEF Inv
<1>2. /\ root.panes \in Seq(PaneSet(root)) /\ DOMAIN root.panes = 1..Len(root.panes)
      /\ root.way \in [PaneSet(root) -> Seq(Turn)]
      /\ PaneSet(root) = Range(root.panes)
      /\ \A i, j \in 1..Len(root.panes) : root.panes[i] = root.panes[j] => i = j
  BY <1>1, GoodPanes
<1> QED
  BY <1>1, <1>2 DEF TypeOK, Kept, View, Sizes

LEMMA InitInv == Init => Inv
<1> SUFFICES ASSUME Init PROVE Inv
  OBVIOUS
<1>1. Good(root) /\ PaneSet(root) = {1}
  BY GoodLeaf DEF Init
<1>2. Kept
  BY <1>1, HostedAssumption, TreeAssumption DEF Init, Kept, Size, Sizes, View
<1>3. ResourcesMatch
  BY <1>1 DEF Init, ResourcesMatch
<1>4. PtysFit
  BY DEF Init, PtysFit
<1> QED
  BY <1>1, <1>2, <1>3, <1>4 DEF Inv

LEMMA ResizeInv ==
    ASSUME Inv, NEW rows \in Rows, NEW cols \in Cols, Resize(rows, cols)
    PROVE  Inv'
<1>1. PICK k \in 0..Len(root.panes) :
        /\ viewport' = Size(AtLeast(rows, 2), AtLeast(cols, 2))
        /\ registry' = ResizePtys(registry, root, viewport', k)
        /\ last' = [call |-> "resize", ok |-> k = Len(root.panes)]
        /\ UNCHANGED <<root, focused, next_id>>
  BY DEF Resize
<1>2. Good(root) /\ Kept /\ DOMAIN registry = PaneSet(root)
  BY DEF Inv, ResourcesMatch
<1>3. viewport' \in View
  BY <1>1, HostedAssumption, TreeAssumption DEF Size, AtLeast, View
<1>4. Good(root)' /\ PaneSet(root)' = PaneSet(root)
  BY <1>1, <1>2
<1>5. /\ DOMAIN registry' = DOMAIN registry
      /\ \A p \in DOMAIN registry' : registry'[p] \in Sizes
  <2>1. \A p \in DOMAIN registry : registry[p] \in [rows : 0..U16Max, cols : 0..U16Max]
    BY <1>2 DEF Kept, Sizes
  <2> QED
    BY <1>1, <1>2, <1>3, <2>1, ResizedSizes DEF Sizes
<1>6. Kept'
  BY <1>1, <1>2, <1>3, <1>4, <1>5 DEF Kept
<1>7. PtysFit'
  <2> SUFFICES ASSUME last'.ok
               PROVE  \A l \in Range(Layout(root, viewport')) : registry'[l.pane] = Content(l.rect)
    BY <1>1 DEF PtysFit
  <2>1. k = Len(root.panes)
    BY <1>1
  <2> QED
    BY <1>1, <1>2, <1>3, <2>1, ResizedFits
<1> QED
  BY <1>2, <1>4, <1>5, <1>6, <1>7 DEF Inv, ResourcesMatch

LEMMA Reconciled ==
    ASSUME NEW ptys, \A p \in DOMAIN ptys : ptys[p] \in Sizes, NEW tree
    PROVE  /\ DOMAIN Reconcile(ptys, tree) = PaneSet(tree)
           /\ \A p \in PaneSet(tree) : Reconcile(ptys, tree)[p] \in Sizes
<1>1. Size(2, 2) \in Sizes
  BY TreeAssumption DEF Size, Sizes
<1> QED
  BY <1>1 DEF Reconcile

LEMMA SplitInv ==
    ASSUME Inv, NEW direction \in Direction, SplitFocused(direction)
    PROVE  Inv'
<1>1. PICK k \in 0..Len(root'.panes) :
        /\ registry' = ResizePtys(Reconcile(registry, root'), root', viewport, k)
        /\ last' = [call |-> "split", ok |-> k = Len(root'.panes)]
  BY DEF SplitFocused
<1>2. /\ next_id <= MaxPaneId
      /\ root' = SplitPane(root, focused, next_id, direction)
      /\ focused' = next_id /\ next_id' = next_id + 1 /\ viewport' = viewport
  BY DEF SplitFocused
<1>3. Good(root) /\ Kept
  BY DEF Inv
<1>4. /\ next_id \in Nat /\ next_id >= 2 /\ next_id \notin PaneSet(root)
      /\ focused \in PaneSet(root) /\ viewport \in View
      /\ PaneSet(root) \subseteq 1..(next_id - 1)
  BY <1>3, HostedAssumption DEF Kept
<1>5. Good(root') /\ PaneSet(root') = PaneSet(root) \cup {next_id}
  BY <1>2, <1>3, <1>4, GoodSplit
<1>6. DOMAIN Reconcile(registry, root') = PaneSet(root')
      /\ \A p \in PaneSet(root') : Reconcile(registry, root')[p] \in Sizes
  BY <1>3, Reconciled DEF Kept
<1>7. /\ DOMAIN registry' = PaneSet(root')
      /\ \A p \in DOMAIN registry' : registry'[p] \in Sizes
  BY <1>1, <1>4, <1>5, <1>6, ResizedSizes DEF Sizes
<1>8. Kept'
  <2>1. next_id' \in 2..(MaxPaneId + 1) /\ PaneSet(root') \subseteq 1..(next_id' - 1)
    BY <1>2, <1>4, <1>5, HostedAssumption
  <2>2. focused' \in PaneSet(root') /\ viewport' \in View
    BY <1>2, <1>4, <1>5
  <2>3. last' \in [call : {"create", "resize", "split", "focus", "close"}, ok : BOOLEAN]
    BY <1>1
  <2> QED
    BY <1>7, <2>1, <2>2, <2>3 DEF Kept
<1>9. PtysFit'
  <2> SUFFICES ASSUME last'.ok
               PROVE  \A l \in Range(Layout(root', viewport')) : registry'[l.pane] = Content(l.rect)
    BY <1>1 DEF PtysFit
  <2>1. k = Len(root'.panes)
    BY <1>1
  <2> QED
    BY <1>1, <1>2, <1>4, <1>5, <1>6, <2>1, ResizedFits
<1> QED
  BY <1>5, <1>7, <1>8, <1>9 DEF Inv, ResourcesMatch

LEMMA FocusInv == Inv /\ FocusNext => Inv'
<1> SUFFICES ASSUME Inv, FocusNext PROVE Inv'
  OBVIOUS
<1>1. /\ focused' = root.panes[(Position(root.panes, focused) % Len(root.panes)) + 1]
      /\ last' = [call |-> "focus", ok |-> TRUE]
      /\ UNCHANGED <<root, next_id, registry, viewport>>
  BY DEF FocusNext
<1>2. Good(root) /\ Kept /\ focused \in PaneSet(root)
  BY DEF Inv, Kept
<1>3. (Position(root.panes, focused) % Len(root.panes)) + 1 \in 1..Len(root.panes)
  <2>1. Position(root.panes, focused) \in 1..Len(root.panes) /\ Len(root.panes) \in Nat
    BY <1>2, GoodPosition, GoodPanes
  <2> QED
    BY <2>1
<1>4. focused' \in PaneSet(root)
  BY <1>1, <1>2, <1>3, GoodPanes
<1>5. Kept'
  BY <1>1, <1>2, <1>4 DEF Kept
<1>6. PtysFit'
  BY <1>1 DEF PtysFit
<1> QED
  BY <1>1, <1>2, <1>5, <1>6 DEF Inv, ResourcesMatch

LEMMA CloseStep ==
    ASSUME Inv, Len(root.panes) > 1, root' = RemovePane(root, focused),
           focused' = root.panes[IF Position(root.panes, focused) = 1 THEN 2
                                 ELSE Position(root.panes, focused) - 1]
    PROVE  /\ Good(root') /\ PaneSet(root') = PaneSet(root) \ {focused}
           /\ focused' \in PaneSet(root')
<1>1. Good(root) /\ focused \in PaneSet(root)
  BY DEF Inv, Kept
<1>2. Good(root') /\ PaneSet(root') = PaneSet(root) \ {focused}
  BY <1>1, GoodRemove
<1>3. PICK i \in 1..Len(root.panes) : i = Position(root.panes, focused) /\ root.panes[i] = focused
  BY <1>1, GoodPosition
<1>4. PICK j \in 1..Len(root.panes) : j = (IF i = 1 THEN 2 ELSE i - 1) /\ j # i
  <2>1. Len(root.panes) \in Nat
    BY <1>1, GoodPanes
  <2> QED
    BY <2>1
<1>5. root.panes[j] \in PaneSet(root) /\ root.panes[j] # focused
  BY <1>1, <1>3, <1>4, GoodPanes
<1> QED
  BY <1>2, <1>3, <1>4, <1>5

LEMMA CloseInv == Inv /\ CloseFocused => Inv'
<1> SUFFICES ASSUME Inv, CloseFocused PROVE Inv'
  OBVIOUS
<1>1. Good(root) /\ Kept
  BY DEF Inv
<1>2. CASE last' = [call |-> "close", ok |-> TRUE]
           /\ UNCHANGED <<root, focused, next_id, registry, viewport>>
  <2>1. Kept'
    BY <1>1, <1>2 DEF Kept
  <2>2. PtysFit'
    BY <1>2 DEF PtysFit
  <2> QED
    BY <1>2, <2>1, <2>2 DEF Inv, ResourcesMatch
<1>3. ASSUME NEW ok \in BOOLEAN, last' = [call |-> "close", ok |-> ok],
             Len(root.panes) > 1, root' = RemovePane(root, focused),
             focused' = root.panes[IF Position(root.panes, focused) = 1 THEN 2
                                   ELSE Position(root.panes, focused) - 1],
             registry' = Reconcile(registry, root'), UNCHANGED <<next_id, viewport>>
      PROVE  Inv'
  <2>1. /\ Good(root') /\ PaneSet(root') = PaneSet(root) \ {focused}
        /\ focused' \in PaneSet(root')
    BY <1>3, CloseStep
  <2>2. /\ DOMAIN registry' = PaneSet(root')
        /\ \A p \in DOMAIN registry' : registry'[p] \in Sizes
    BY <1>1, <1>3, Reconciled DEF Kept
  <2>3. Kept'
    <3>1. last' \in [call : {"create", "resize", "split", "focus", "close"}, ok : BOOLEAN]
      BY <1>3
    <3> QED
      BY <1>1, <1>3, <2>1, <2>2, <3>1 DEF Kept
  <2>4. PtysFit'
    BY <1>3 DEF PtysFit
  <2> QED
    BY <2>1, <2>2, <2>3, <2>4 DEF Inv, ResourcesMatch
<1> QED
  BY <1>2, <1>3 DEF CloseFocused

LEMMA NextInv == Inv /\ [Next]_vars => Inv'
<1> SUFFICES ASSUME Inv, [Next]_vars PROVE Inv'
  OBVIOUS
<1>1. CASE UNCHANGED vars
  BY <1>1 DEF Inv, Kept, ResourcesMatch, PtysFit, vars
<1>2. CASE SplitFails
  <2>1. Kept' /\ PtysFit'
    BY <1>2 DEF SplitFails, Inv, Kept, PtysFit
  <2> QED
    BY <1>2, <2>1 DEF SplitFails, Inv, ResourcesMatch
<1> QED
  BY <1>1, <1>2, ResizeInv, SplitInv, FocusInv, CloseInv DEF Next

LEMMA InvTiles == Inv => ScreenTiles
<1> SUFFICES ASSUME Inv PROVE ScreenTiles
  OBVIOUS
<1> DEFINE L == Layout(root, viewport)
           n == Len(root.panes)
<1>1. Good(root) /\ focused \in PaneSet(root) /\ viewport \in View
  BY DEF Inv, Kept
<1>2. DOMAIN L = 1..n /\ n \in Nat /\ \A i \in 1..n : L[i].pane = root.panes[i] /\ L[i].rect \in Area
  BY <1>1, LayoutPanes, GoodPanes
<1>3. /\ DOMAIN Screen = 1..n
      /\ \A i \in 1..n : /\ Screen[i].rect = L[i].rect
                         /\ Screen[i].focused = (root.panes[i] = focused)
  <2>1. Screen = [i \in DOMAIN L |->
                    [id |-> L[i].pane, rect |-> L[i].rect, focused |-> L[i].pane = focused]]
    BY DEF Screen
  <2> HIDE DEF L
  <2> QED
    BY <1>2, <2>1
<1>4. \A i, j \in 1..n : i < j => Precedes(L[i].rect, L[j].rect)
  BY <1>1, LayoutPrecedes
<1> HIDE DEF L
<1>5. ASSUME NEW x \in 0..(viewport.cols - 1), NEW y \in 0..(viewport.rows - 2)
      PROVE  Cardinality({i \in DOMAIN Screen : Shows(Screen[i].rect, x, y)}) = 1
  <2>1. PICK i \in 1..n : Shows(L[i].rect, x, y)
    BY <1>1, LayoutCovers DEF L
  <2>2. ASSUME NEW j \in 1..n, Shows(L[j].rect, x, y)
        PROVE  j = i
    <3>1. x \in Int /\ y \in Int
      BY <1>1 DEF View
    <3>2. ~ (i < j) /\ ~ (j < i)
      BY <1>2, <1>4, <2>1, <2>2, <3>1, PrecedesApart
    <3> QED
      BY <1>2, <3>2
  <2>3. {j \in DOMAIN Screen : Shows(Screen[j].rect, x, y)} = {i}
    BY <1>3, <2>1, <2>2
  <2> QED
    BY <2>3, FS_Singleton
<1>6. Cardinality({i \in DOMAIN Screen : Screen[i].focused}) = 1
  <2>1. PICK i \in 1..n : root.panes[i] = focused
    BY <1>1, GoodPosition
  <2>2. \A j \in 1..n : root.panes[j] = focused => j = i
    BY <1>1, <2>1, GoodPanes
  <2>3. {j \in DOMAIN Screen : Screen[j].focused} = {i}
    BY <1>3, <2>1, <2>2
  <2> QED
    BY <2>3, FS_Singleton
<1>7. ASSUME NEW i \in DOMAIN Screen, NEW j \in DOMAIN Screen, i < j
      PROVE  \/ Screen[i].rect.x + Screen[i].rect.width <= Screen[j].rect.x
             \/ Screen[i].rect.y + Screen[i].rect.height <= Screen[j].rect.y
  BY <1>3, <1>4, <1>7 DEF Precedes
<1> QED
  BY <1>5, <1>6, <1>7 DEF ScreenTiles

(* The core of CloseNeverShrinks: a step that ends in a close. *)
LEMMA CloseGrowsPanes ==
    ASSUME Inv, CloseFocused,
           NEW i \in DOMAIN Layout(root, viewport), NEW j \in DOMAIN Layout(root', viewport'),
           Layout(root, viewport)[i].pane = Layout(root', viewport')[j].pane
    PROVE  NoLarger(Layout(root, viewport)[i].rect, Layout(root', viewport')[j].rect)
<1>1. Good(root) /\ focused \in PaneSet(root) /\ viewport \in View /\ viewport' = viewport
  BY DEF Inv, Kept, CloseFocused
<1>2. Good(root')
  BY CloseInv DEF Inv
<1> DEFINE p == root.panes[i]
           a == Canvas(viewport)
<1>3. /\ i \in 1..Len(root.panes) /\ Layout(root, viewport)[i].pane = p
      /\ Layout(root, viewport)[i].rect = Cut(a, root.way[p])
      /\ Layout(root, viewport)[i].rect \in Area
  BY <1>1, LayoutPanes
<1>4. /\ j \in 1..Len(root'.panes)
      /\ Layout(root', viewport')[j].pane = root'.panes[j]
      /\ Layout(root', viewport')[j].rect = Cut(a, root'.way[root'.panes[j]])
  BY <1>1, <1>2, LayoutPanes
<1>5. root'.panes[j] = p
  BY <1>3, <1>4
<1> HIDE DEF p
<1>6. CASE root' = root
  <2>1. Layout(root', viewport')[j].rect = Layout(root, viewport)[i].rect
    BY <1>3, <1>4, <1>5, <1>6
  <2> QED
    BY <1>3, <2>1, AreaNumbers DEF NoLarger
<1>7. CASE Len(root.panes) > 1 /\ root' = RemovePane(root, focused)
  <2>1. /\ PaneSet(root') = PaneSet(root) \ {focused}
        /\ Closes(PaneSet(root), root.way, focused, root'.way)
    BY <1>1, <1>7, GoodRemove
  <2>2. p \in PaneSet(root) /\ p # focused
    BY <1>2, <1>4, <1>5, <2>1, GoodPanes
  <2>3. NoLarger(Cut(a, root.way[p]), Cut(a, root'.way[p]))
    BY <1>1, <2>1, <2>2, CanvasArea, CloseGrows
  <2> QED
    BY <1>3, <1>4, <1>5, <2>3
<1> QED
  BY <1>6, <1>7 DEF CloseFocused

LEMMA OnlyClosesClose == [Next]_vars /\ ~ CloseFocused => UNCHANGED vars \/ last'.call # "close"
  BY DEF Next, Resize, SplitFails, SplitFocused, FocusNext

------------------------------------------------------------------------------
(* The session as PaneOrder has it. *)
LEMMA OrderInit == Init => Order!Init
  BY GoodLeaf DEF Init, Order!Init

LEMMA OrderStep == Inv /\ [Next]_vars => [Order!Next]_(Order!vars)
<1> SUFFICES ASSUME Inv, [Next]_vars PROVE [Order!Next]_(Order!vars)
  OBVIOUS
<1>1. Good(root) /\ focused \in PaneSet(root) /\ next_id \notin PaneSet(root)
  BY HostedAssumption DEF Inv, Kept
<1>2. PICK i \in DOMAIN root.panes : root.panes[i] = focused /\ i = Position(root.panes, focused)
  BY <1>1, GoodPosition, GoodPanes
<1>3. CASE UNCHANGED vars
  BY <1>3 DEF vars, Order!vars
<1>4. ASSUME NEW rows \in Rows, NEW cols \in Cols, Resize(rows, cols)
      PROVE  UNCHANGED Order!vars
  BY <1>4 DEF Resize, Order!vars
<1>5. CASE SplitFails
  BY <1>5 DEF SplitFails, Order!vars
<1>6. ASSUME NEW direction \in Direction, SplitFocused(direction)
      PROVE  Order!SplitFocused
  <2>1. root'.panes = InsertAt(root.panes, i + 1, next_id)
    BY <1>1, <1>2, <1>6, GoodSplit DEF SplitFocused
  <2> QED
    BY <1>2, <1>6, <2>1 DEF SplitFocused, Order!SplitFocused, InsertAt, Order!InsertAt
<1>7. CASE FocusNext
  <2>1. /\ focused' = root.panes[(i % Len(root.panes)) + 1]
        /\ root' = root /\ next_id' = next_id
    BY <1>2, <1>7 DEF FocusNext
  <2>2. Order!FocusNext
    BY <1>2, <2>1 DEF Order!FocusNext
  <2> QED
    BY <2>2 DEF Order!Next
<1>8. CASE CloseFocused
  <2>1. CASE UNCHANGED <<root, focused, next_id>>
    BY <2>1 DEF Order!vars
  <2>2. CASE /\ Len(root.panes) > 1 /\ root' = RemovePane(root, focused)
             /\ focused' = root.panes[IF i = 1 THEN 2 ELSE i - 1] /\ UNCHANGED next_id
    <3>1. root'.panes = RemoveAt(root.panes, i)
      BY <1>1, <1>2, <2>2, GoodRemove
    <3>2. Order!CloseFocused
      BY <1>2, <2>2, <3>1 DEF Order!CloseFocused, RemoveAt, Order!RemoveAt
    <3> QED
      BY <3>2 DEF Order!Next
  <2>3. \/ UNCHANGED <<root, focused, next_id>>
        \/ /\ Len(root.panes) > 1 /\ root' = RemovePane(root, focused)
           /\ focused' = root.panes[IF i = 1 THEN 2 ELSE i - 1] /\ UNCHANGED next_id
    BY <1>2, <1>8 DEF CloseFocused
  <2> QED
    BY <2>1, <2>2, <2>3
<1> QED
  BY <1>3, <1>4, <1>5, <1>6, <1>7, <1>8 DEF Next, Order!Next

------------------------------------------------------------------------------
LEMMA Invariant == Spec => []Inv
<1> QED
  BY InitInv, NextInv, PTL DEF Spec

(* The shape of a session: its panes are distinct, older than next_id, and  *)
(* the focused one is among them, after any splits, closes and failures.    *)
THEOREM SessionTypeCorrect == Spec => []TypeOK
<1> QED
  BY Invariant, InvTypes, PTL

(* A pane has a PTY and a PTY has a pane, whatever failed before.           *)
THEOREM ResourcesAlwaysMatch == Spec => []ResourcesMatch
<1>1. Inv => ResourcesMatch
  BY DEF Inv
<1> QED
  BY <1>1, Invariant, PTL

(* layout_node gives every cell above the status line to exactly one pane,  *)
(* for any tree that splits and closes build and any viewport of u16 sizes. *)
THEOREM ScreenAlwaysTiles == Spec => []ScreenTiles
<1> QED
  BY Invariant, InvTiles, PTL

(* A resize or a split that returned Ok left every PTY at the size its pane *)
(* is drawn in, until the next call.                                        *)
THEOREM PtysAlwaysFit == Spec => []PtysFit
<1>1. Inv => PtysFit
  BY DEF Inv
<1> QED
  BY <1>1, Invariant, PTL

(* remove_pane never makes a surviving pane narrower or lower. *)
THEOREM ClosesNeverShrink == Spec => CloseNeverShrinks
<1> DEFINE Grown ==
       last'.call = "close" =>
         \A before \in Range(Layout(root, viewport)), after \in Range(Layout(root, viewport))' :
            before.pane = after.pane =>
                /\ after.rect.width >= before.rect.width
                /\ after.rect.height >= before.rect.height
<1>1. Inv /\ [Next]_vars => [Grown]_vars
  <2> SUFFICES ASSUME Inv, [Next]_vars, ~ UNCHANGED vars, last'.call = "close",
                      NEW i \in DOMAIN Layout(root, viewport),
                      NEW j \in DOMAIN Layout(root', viewport'),
                      Layout(root, viewport)[i].pane = Layout(root', viewport')[j].pane
               PROVE  /\ Layout(root', viewport')[j].rect.width >= Layout(root, viewport)[i].rect.width
                      /\ Layout(root', viewport')[j].rect.height >= Layout(root, viewport)[i].rect.height
    BY DEF Range
  <2>1. CloseFocused
    BY OnlyClosesClose
  <2>2. NoLarger(Layout(root, viewport)[i].rect, Layout(root', viewport')[j].rect)
    BY <2>1, CloseGrowsPanes
  <2>3. Layout(root, viewport)[i].rect \in Area /\ Layout(root', viewport')[j].rect \in Area
    <3>1. /\ Good(root) /\ viewport \in View
          /\ Good(root') /\ viewport' \in View
      BY <2>1, CloseInv DEF Inv, Kept
    <3> QED
      BY <3>1, LayoutPanes
  <2> QED
    BY <2>2, <2>3, AreaNumbers DEF NoLarger
<1> QED
  BY <1>1, Invariant, PTL DEF Spec, CloseNeverShrinks

(* The session implements the promise of its panes: whatever happens in the *)
(* tree, the order, the focus and the identifiers go as PaneOrder says.     *)
THEOREM SessionImplementsPaneOrder == Spec => ImplementsPaneOrder
<1> QED
  BY Invariant, OrderInit, OrderStep, PTL DEF Spec, ImplementsPaneOrder, Order!Spec
==============================================================================
