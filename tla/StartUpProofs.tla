---------------------------- MODULE StartUpProofs ----------------------------
(***************************************************************************)
(* Theorems about StartUp for every number of events, clients, keys,       *)
(* batches, crashes and failures.                                          *)
(*                                                                         *)
(* The types come first, then the import, then the hourly totals: where    *)
(* the backfill is (BackfillInv) and what each cell has (CellInv).  What   *)
(* is read is a sum over cells; SumBounds takes the bounds of each cell to *)
(* bounds of the sum, by induction along the fold that computes it.        *)
(***************************************************************************)
EXTENDS StartUp, FiniteSetTheorems, TLAPS
----------------------------------------------------------------------------
(* Recursion over the subsets of a finite set that takes out one member    *)
(* after the other, which is what the folds are.                           *)

\* A set of natural numbers that is not empty has a least one.
LEMMA NatMin ==
  ASSUME NEW S \in SUBSET Nat, S # {}
  PROVE  \E x \in S : \A y \in S : x <= y
<1> DEFINE R == OpToRel(<, Nat)
<1>1. PICK x \in S : \A y \in S : ~(<<y, x>> \in R)
  BY NatLessThanWellFounded, WFMin
<1>2. ASSUME NEW y \in S PROVE x <= y
  <2>1. x \in Nat /\ y \in Nat  OBVIOUS
  <2>2. ~(<<y, x>> \in R)  BY <1>1
  <2>3. ~(y < x)  BY <2>1, <2>2 DEF OpToRel
  <2>. QED  BY <2>1, <2>3
<1>. QED  BY <1>2

\* pick[s] is the member that is taken out of s.
Picks(pick, S) == \A s \in SUBSET S : s # {} => pick[s] \in s
Rest(pick, s) == s \ {pick[s]}

LEMMA RestShrinks ==
  ASSUME NEW S, IsFiniteSet(S), NEW pick, Picks(pick, S), NEW s \in SUBSET S, s # {}
  PROVE  /\ Rest(pick, s) \in SUBSET S
         /\ Cardinality(s) \in Nat /\ Cardinality(Rest(pick, s)) \in Nat
         /\ Cardinality(s) = Cardinality(Rest(pick, s)) + 1
<1>1. pick[s] \in s /\ IsFiniteSet(s)
  BY FS_Subset DEF Picks
<1>2. IsFiniteSet(s \ {pick[s]}) /\ Cardinality(s \ {pick[s]}) = Cardinality(s) - 1
  BY <1>1, FS_RemoveElement
<1>3. Cardinality(s) \in Nat /\ Cardinality(s \ {pick[s]}) \in Nat
  BY <1>1, <1>2, FS_CardinalityType
<1>. QED  BY <1>2, <1>3 DEF Rest

\* Induction along it.
LEMMA SubsetInduction ==
  ASSUME NEW S, IsFiniteSet(S), NEW pick, Picks(pick, S), NEW G, {} \in G,
         \A s \in SUBSET S : s # {} /\ Rest(pick, s) \in G => s \in G
  PROVE  \A s \in SUBSET S : s \in G
<1> DEFINE Bad == {n \in Nat : \E s \in SUBSET S : Cardinality(s) = n /\ s \notin G}
<1>1. Bad = {}
  <2> SUFFICES ASSUME Bad # {} PROVE FALSE  OBVIOUS
  <2>1. PICK n \in Bad : \A m \in Bad : n <= m
    BY NatMin
  <2>2. PICK s \in SUBSET S : Cardinality(s) = n /\ s \notin G
    BY <2>1
  <2> DEFINE t == Rest(pick, s)
  <2>3. s # {} /\ t \notin G
    BY <2>2
  <2>4. t \in SUBSET S /\ Cardinality(t) \in Nat /\ ~(n <= Cardinality(t))
    <3>1. Cardinality(s) = Cardinality(t) + 1 /\ Cardinality(t) \in Nat /\ t \in SUBSET S
      BY <2>3, RestShrinks
    <3> HIDE DEF t
    <3>. QED  BY <2>2, <3>1
  <2>5. Cardinality(t) \in Bad
    BY <2>3, <2>4
  <2>. QED  BY <2>1, <2>4, <2>5
<1>2. \A s \in SUBSET S : Cardinality(s) \in Nat
  BY FS_Subset, FS_CardinalityType
<1>. QED  BY <1>1, <1>2

\* A recursion: step gives the value for a member and
\* the value of the rest.
Solves(g, A, pick, base, step) ==
  \A s \in A : g[s] = IF s = {} THEN base ELSE step[<<pick[s], g[Rest(pick, s)]>>]

\* It has a solution, level by level.
LEMMA RecursionSolved ==
  ASSUME NEW S, IsFiniteSet(S), NEW pick, Picks(pick, S), NEW V, NEW base \in V,
         NEW step \in [S \X V -> V]
  PROVE  \E g \in [SUBSET S -> V] : Solves(g, SUBSET S, pick, base, step)
<1> DEFINE Level(n) == {s \in SUBSET S : Cardinality(s) <= n}
           To(n, g) == g \in [Level(n) -> V] /\ Solves(g, Level(n), pick, base, step)
           Bad == {n \in Nat : ~ \E g : To(n, g)}
<1>1. \A s \in SUBSET S : IsFiniteSet(s) /\ Cardinality(s) \in Nat
  BY FS_Subset, FS_CardinalityType
<1>2. Bad = {}
  <2> SUFFICES ASSUME Bad # {} PROVE FALSE  OBVIOUS
  <2>1. PICK n \in Bad : \A m \in Bad : n <= m
    <3> HIDE DEF To
    <3>. QED  BY NatMin
  <2>2. \A s \in Level(0) : s = {}
    BY <1>1, FS_EmptySet
  <2>3. CASE n = 0
    <3>1. To(0, [s \in Level(0) |-> base])
      BY <2>2 DEF Solves
    <3>. QED  BY <2>1, <2>3, <3>1
  <2>4. CASE n # 0
    <3>1. n - 1 \in Nat /\ n - 1 \notin Bad
      <4> HIDE DEF To
      <4>1. n \in Nat /\ n - 1 \in Nat /\ ~(n <= n - 1)
        BY <2>4
      <4>. QED  BY <2>1, <4>1
    <3>2. PICK g : To(n - 1, g)
      BY <3>1
    <3> DEFINE h == [s \in Level(n) |->
                       IF s = {} THEN base ELSE step[<<pick[s], g[Rest(pick, s)]>>]]
    <3>3. ASSUME NEW s \in Level(n), s # {}
          PROVE  /\ pick[s] \in S /\ g[Rest(pick, s)] \in V
                 /\ h[Rest(pick, s)] = g[Rest(pick, s)]
      <4> DEFINE t == Rest(pick, s)
      <4>1. t \in Level(n) /\ t \in Level(n - 1)
        BY <1>1, <3>1, <3>3, RestShrinks
      <4>2. g[t] \in V /\ g[t] = IF t = {} THEN base ELSE step[<<pick[t], g[Rest(pick, t)]>>]
        BY <3>2, <4>1 DEF Solves
      <4> QED  BY <3>3, <4>1, <4>2 DEF Picks
    <3>4. h \in [Level(n) -> V]
      BY <3>3
    <3>5. To(n, h)
      BY <3>3, <3>4 DEF Solves
    <3>. QED  BY <2>1, <3>5
  <2>. QED  BY <2>3, <2>4
<1>3. PICK g : To(Cardinality(S), g)
  BY <1>1, <1>2
<1>4. Level(Cardinality(S)) = SUBSET S
  BY <1>1, FS_Subset
<1>. QED  BY <1>3, <1>4
----------------------------------------------------------------------------
(* The fold of SumOf. *)

Nothing == [requests |-> 0, success |-> 0]
Total == [requests : Nat, success : Nat]
Pick(s) == CHOOSE x \in s : TRUE
IsAddition(g, S) ==
  g = [s \in SUBSET S |-> IF s = {} THEN Nothing ELSE Plus(g[s \ {Pick(s)}], agg[Pick(s)])]

\* SumOf is what that recursion gives for its cells.
LEMMA SumOfIsAddition ==
  ASSUME NEW S
  PROVE  SumOf(S) = (CHOOSE g : IsAddition(g, S))[S]
BY DEF SumOf, FoldSet, MapThenFoldSet, IsAddition, Pick, Nothing

LEMMA AdditionExists ==
  ASSUME NEW S, IsFiniteSet(S), \A c \in S : agg[c] \in Total
  PROVE  \E g : IsAddition(g, S)
<1> DEFINE pick == [s \in SUBSET S |-> Pick(s)]
           step == [q \in S \X Total |-> Plus(q[2], agg[q[1]])]
<1>1. Picks(pick, S)
  BY DEF Picks, Pick
<1>2. step \in [S \X Total -> Total]
  BY DEF Plus, Total
<1>3. Nothing \in Total
  BY DEF Nothing, Total
<1>4. PICK g \in [SUBSET S -> Total] : Solves(g, SUBSET S, pick, Nothing, step)
  <2> HIDE DEF pick, step
  <2>. QED  BY <1>1, <1>2, <1>3, RecursionSolved
<1>5. ASSUME NEW s \in SUBSET S, s # {}
      PROVE  g[s] = Plus(g[s \ {Pick(s)}], agg[Pick(s)])
  <2>1. pick[s] = Pick(s) /\ Pick(s) \in S /\ s \ {Pick(s)} \in SUBSET S
    BY <1>1, <1>5 DEF Picks
  <2>2. step[<<Pick(s), g[s \ {Pick(s)}]>>] = Plus(g[s \ {Pick(s)}], agg[Pick(s)])
    BY <1>4, <2>1
  <2>. QED  BY <1>4, <1>5, <2>1, <2>2 DEF Rest, Solves
<1>. QED  BY <1>4, <1>5 DEF IsAddition, Solves
----------------------------------------------------------------------------
(* Totals of sets of events. *)

LEMMA EventsFinite ==
  ASSUME NEW E \in SUBSET Event
  PROVE  IsFiniteSet(E) /\ Cardinality(E) \in Nat
<1>1. IsFiniteSet(Event)
  BY EventAssumption, FS_Interval DEF Event
<1>. QED  BY <1>1, FS_Subset, FS_CardinalityType

LEMMA TotalsTyped ==
  ASSUME NEW E \in SUBSET Event
  PROVE  Totals(E) \in Total
<1>1. E \cap Successful \in SUBSET Event  OBVIOUS
<1>. QED  BY <1>1, EventsFinite DEF Totals, Total

LEMMA NoTotal == Totals({}) = Nothing
BY FS_EmptySet DEF Totals, Nothing

LEMMA TotalsMonotone ==
  ASSUME NEW E \in SUBSET Event, NEW D \in SUBSET E
  PROVE  AtMost(Totals(D), Totals(E))
<1>1. D \cap Successful \in SUBSET (E \cap Successful) /\ E \cap Successful \in SUBSET Event
  OBVIOUS
<1>2. Cardinality(D) <= Cardinality(E)
  BY EventsFinite, FS_Subset
<1>3. Cardinality(D \cap Successful) <= Cardinality(E \cap Successful)
  BY <1>1, EventsFinite, FS_Subset
<1>. QED  BY <1>2, <1>3 DEF Totals, AtMost

\* Cardinality of two disjoint sets of events.
LEMMA CardDisjoint ==
  ASSUME NEW D \in SUBSET Event, NEW E \in SUBSET Event, D \cap E = {}
  PROVE  Cardinality(D \cup E) = Cardinality(D) + Cardinality(E)
<1>1. Cardinality(D \cup E) = Cardinality(D) + Cardinality(E) - Cardinality(D \cap E)
  BY EventsFinite, FS_Union
<1>2. Cardinality(D \cap E) = 0
  BY FS_EmptySet
<1>. QED  BY <1>1, <1>2, EventsFinite

LEMMA TotalsDisjoint ==
  ASSUME NEW D \in SUBSET Event, NEW E \in SUBSET Event, D \cap E = {}
  PROVE  Totals(D \cup E) = Plus(Totals(D), Totals(E))
<1>1. (D \cup E) \cap Successful = (D \cap Successful) \cup (E \cap Successful)
  OBVIOUS
<1>2. (D \cap Successful) \cap (E \cap Successful) = {}
  OBVIOUS
<1>3. Cardinality((D \cap Successful) \cup (E \cap Successful))
        = Cardinality(D \cap Successful) + Cardinality(E \cap Successful)
  BY <1>2, CardDisjoint
<1>. QED  BY <1>1, <1>3, CardDisjoint DEF Totals, Plus
----------------------------------------------------------------------------
(* From bounds of the cells to bounds of their sums. *)

\* The events of a set of cells.
Covered(C, E) == {e \in E : <<Hour(TimeOf[e]), ClientOf[e]>> \in C}

\* The total of each cell lies between its events of L and n times those of U.
Bounded(C, L, U, n) ==
  \A c \in C : /\ agg[c] \in Total
               /\ AtMost(Totals(InCell(c, L)), agg[c])
               /\ AtMost(agg[c], Times(n, Totals(InCell(c, U))))

\* One more cell.
LEMMA BoundStep ==
  ASSUME NEW l \in Total, NEW l1 \in Total, NEW a \in Total, NEW a1 \in Total,
         NEW u \in Total, NEW u1 \in Total, NEW n \in Nat,
         AtMost(l, a), AtMost(a, Times(n, u)), AtMost(l1, a1), AtMost(a1, Times(n, u1))
  PROVE  /\ Plus(a, a1) \in Total
         /\ AtMost(Plus(l, l1), Plus(a, a1))
         /\ AtMost(Plus(a, a1), Times(n, Plus(u, u1)))
<1>1. \A x, y \in Nat : n * (x + y) = n * x + n * y /\ n * x \in Nat
  OBVIOUS
<1>. QED  BY <1>1 DEF Total, AtMost, Plus, Times

LEMMA InCellCovers ==
  ASSUME NEW c \in Cell, NEW E \in SUBSET Event
  PROVE  InCell(c, E) = Covered({c}, E)
BY DEF InCell, Covered, Cell

LEMMA SumBounds ==
  ASSUME NEW C \in SUBSET Cell, IsFiniteSet(C), NEW L \in SUBSET Event, NEW U \in SUBSET Event,
         NEW n \in Nat, Bounded(C, L, U, n)
  PROVE  /\ SumOf(C) \in Total
         /\ AtMost(Totals(Covered(C, L)), SumOf(C))
         /\ AtMost(SumOf(C), Times(n, Totals(Covered(C, U))))
<1> DEFINE iter == CHOOSE g : IsAddition(g, C)
           Good(s) == /\ iter[s] \in Total
                      /\ AtMost(Totals(Covered(s, L)), iter[s])
                      /\ AtMost(iter[s], Times(n, Totals(Covered(s, U))))
           pick == [s \in SUBSET C |-> Pick(s)]
           G == {s \in SUBSET C : Good(s)}
<1>1. IsAddition(iter, C)
  BY AdditionExists DEF Bounded
<1>2. SumOf(C) = iter[C]
  BY SumOfIsAddition
<1> HIDE DEF iter
<1>3. Good({})
  <2>1. iter[{}] = Nothing  BY <1>1 DEF IsAddition
  <2>2. Covered({}, L) = {} /\ Covered({}, U) = {}  BY DEF Covered
  <2>. QED  BY <2>1, <2>2, NoTotal DEF Nothing, Total, AtMost, Times
<1>4. ASSUME NEW s \in SUBSET C, s # {}, Good(s \ {Pick(s)}), Pick(s) \in s
      PROVE  Good(s)
  <2> DEFINE c == Pick(s)
             t == s \ {c}
  <2>1. iter[s] = Plus(iter[t], agg[c])
    BY <1>1, <1>4 DEF IsAddition
  <2>2. c \in C /\ c \in Cell
    BY <1>4
  <2> HIDE DEF c
  <2>3. ASSUME NEW E \in SUBSET Event
        PROVE  /\ Totals(Covered(s, E)) = Plus(Totals(Covered(t, E)), Totals(InCell(c, E)))
               /\ Totals(Covered(t, E)) \in Total /\ Totals(InCell(c, E)) \in Total
    <3>1. Covered(s, E) = Covered(t, E) \cup InCell(c, E) /\ Covered(t, E) \cap InCell(c, E) = {}
      BY <1>4, <2>2, InCellCovers DEF Covered, c
    <3>2. Covered(t, E) \in SUBSET Event /\ InCell(c, E) \in SUBSET Event
      BY DEF Covered, InCell
    <3>. QED  BY <3>1, <3>2, TotalsDisjoint, TotalsTyped
  <2>4. /\ agg[c] \in Total
        /\ AtMost(Totals(InCell(c, L)), agg[c])
        /\ AtMost(agg[c], Times(n, Totals(InCell(c, U))))
    BY <2>2 DEF Bounded
  <2>5. Good(t)
    BY <1>4 DEF c
  <2> DEFINE a == iter[t]
             l == Totals(Covered(t, L))
             l1 == Totals(InCell(c, L))
             u == Totals(Covered(t, U))
             u1 == Totals(InCell(c, U))
  <2>6. /\ a \in Total /\ l \in Total /\ l1 \in Total /\ u \in Total /\ u1 \in Total
        /\ AtMost(l, a) /\ AtMost(a, Times(n, u))
    BY <2>3, <2>5
  <2>7. AtMost(l1, agg[c]) /\ AtMost(agg[c], Times(n, u1)) /\ agg[c] \in Total
    BY <2>4
  <2>8. iter[s] = Plus(a, agg[c])
    BY <2>1
  <2>9. Totals(Covered(s, L)) = Plus(l, l1) /\ Totals(Covered(s, U)) = Plus(u, u1)
    BY <2>3
  <2> HIDE DEF a, l, l1, u, u1
  <2>10. /\ Plus(a, agg[c]) \in Total
         /\ AtMost(Plus(l, l1), Plus(a, agg[c]))
         /\ AtMost(Plus(a, agg[c]), Times(n, Plus(u, u1)))
    BY <2>6, <2>7, BoundStep
  <2>. QED  BY <2>8, <2>9, <2>10
<1>5. Picks(pick, C)
  BY DEF Picks, Pick
<1>6. Good(C)
  <2> HIDE DEF Good
  <2>1. {} \in G
    BY <1>3
  <2>2. ASSUME NEW s \in SUBSET C, s # {}, Rest(pick, s) \in G
        PROVE  s \in G
    <3>1. pick[s] = Pick(s) /\ Pick(s) \in s
      BY <1>5, <2>2 DEF Picks
    <3>. QED  BY <1>4, <2>2, <3>1 DEF Rest
  <2>3. \A s \in SUBSET C : s \in G
    <3> HIDE DEF G, pick
    <3>. QED  BY <1>5, <2>1, <2>2, SubsetInduction
  <2>. QED  BY <2>3
<1>. QED  BY <1>2, <1>6

\* The sum over one cell.
LEMMA SumOfOne ==
  ASSUME NEW c, agg[c] \in Total
  PROVE  SumOf({c}) = agg[c]
<1> DEFINE iter == CHOOSE g : IsAddition(g, {c})
<1>1. SumOf({c}) = iter[{c}]
  BY SumOfIsAddition
<1>2. IsAddition(iter, {c})
  BY AdditionExists, FS_Singleton
<1> HIDE DEF iter
<1>3. Pick({c}) = c
  BY DEF Pick
<1>4. iter[{}] = Nothing /\ iter[{c}] = Plus(iter[{c} \ {c}], agg[c])
  BY <1>2, <1>3 DEF IsAddition
<1>5. iter[{c}] = Plus(Nothing, agg[c])
  BY <1>4
<1>6. agg[c].requests \in Nat /\ agg[c].success \in Nat
      /\ agg[c] = [requests |-> agg[c].requests, success |-> agg[c].success]
  BY DEF Total
<1>. QED  BY <1>1, <1>5, <1>6 DEF Plus, Nothing
----------------------------------------------------------------------------
(* The types.  What is left of the bounds and the starts that were cut short *)
(* after a batch add up to no more than the bounds.                          *)

Places == {"down", "clients", "costs", "usage", "import", "marker", "check",
           "scan", "flush", "mark", "keys", "serve"}
Left == [crashes : 0 .. MaxCrashes, failures : 0 .. MaxFailures, changes : 0 .. MaxChanges]
History == [whole : BOOLEAN, redone : 0 .. MaxCrashes + MaxFailures,
            removed : SUBSET Client, missed : SUBSET InFile]
Prices == [Key -> Price \cup {NoPrice}]

StoreTyped ==
  /\ events \subseteq Event /\ agg \in [Cell -> Total]
  /\ clients \subseteq Client /\ costs \in Prices
  /\ migrated \in BOOLEAN /\ built \in BOOLEAN
PlaceTyped ==
  /\ pc \in Places
  /\ todo \subseteq InFile /\ lastKey \in 0 .. Events /\ batch \subseteq events
BoundTyped ==
  /\ left \in Left /\ history \in History
  /\ history.redone + left.crashes + left.failures <= MaxCrashes + MaxFailures
Typed == StoreTyped /\ PlaceTyped /\ BoundTyped

LEMMA TypedIsTypeOK == Typed => TypeOK
BY DEF Typed, StoreTyped, PlaceTyped, BoundTyped, TypeOK, Places, Left, History, Prices, Total

LEMMA FirstIsPart == \A n, E : First(n, E) \subseteq E
BY DEF First

\* The bounds, when one is used and when the process ends.
LEMMA SpendTyped ==
  ASSUME BoundTyped, NEW b \in {"crashes", "failures", "changes"}, Spend(b)
  PROVE  /\ left' \in Left
         /\ history.redone + left'.crashes + left'.failures <= MaxCrashes + MaxFailures
         /\ b # "changes" =>
              history.redone + 1 + left'.crashes + left'.failures <= MaxCrashes + MaxFailures
<1>1. left \in Left /\ history.redone \in Nat /\ MaxCrashes \in Nat /\ MaxFailures \in Nat /\ MaxChanges \in Nat
  BY BoundAssumption DEF BoundTyped, History
<1>2. history.redone + left.crashes + left.failures <= MaxCrashes + MaxFailures
  BY DEF BoundTyped
<1>. QED  BY <1>1, <1>2 DEF Spend, Left

LEMMA ExitTyped ==
  ASSUME BoundTyped, NEW b \in {"crashes", "failures"}, Spend(b), Exit
  PROVE  BoundTyped'
<1> DEFINE more == IF Flushed # {} /\ ~built THEN 1 ELSE 0
           still == history.whole /\ ~(pc = "import" /\ events # {} /\ todo # {})
<1>1. history \in History /\ MaxCrashes \in Nat /\ MaxFailures \in Nat
  BY BoundAssumption DEF BoundTyped
<1>2. history' = [history EXCEPT !.whole = still, !.redone = history.redone + more]
  BY <1>1 DEF Exit, History
<1>3. still \in BOOLEAN /\ more \in {0, 1}
  BY <1>1 DEF History
<1> HIDE DEF still, more
<1>4. left' \in Left
      /\ history.redone + 1 + left'.crashes + left'.failures <= MaxCrashes + MaxFailures
  BY SpendTyped
<1>5. left'.crashes \in Nat /\ left'.failures \in Nat /\ history.redone \in Nat
  BY <1>1, <1>4, BoundAssumption DEF Left, History
<1>6. history'.redone = history.redone + more
  BY <1>1, <1>2 DEF History
<1>7. /\ history.redone + more + left'.crashes + left'.failures <= MaxCrashes + MaxFailures
      /\ history.redone + more \in 0 .. MaxCrashes + MaxFailures
  BY <1>1, <1>3, <1>4, <1>5
<1>8. history' \in History
  BY <1>1, <1>2, <1>3, <1>7 DEF History
<1>. QED  BY <1>4, <1>6, <1>7, <1>8 DEF BoundTyped

\* A step that works or fails and leaves the history alone.
LEMMA WorksOrFails ==
  ASSUME BoundTyped, Works \/ Fails, UNCHANGED history
  PROVE  BoundTyped'
<1>1. CASE Works
  BY <1>1 DEF Works, BoundTyped
<1>2. CASE Fails
  BY <1>2, SpendTyped DEF Fails, BoundTyped
<1>. QED  BY <1>1, <1>2

\* An update of the totals.
LEMMA BumpAggTyped ==
  ASSUME agg \in [Cell -> Total], NEW E \in SUBSET Event
  PROVE  BumpAgg(E) \in [Cell -> Total]
<1>1. ASSUME NEW c \in Cell PROVE Plus(agg[c], Totals(InCell(c, E))) \in Total
  <2>1. InCell(c, E) \in SUBSET Event  BY DEF InCell
  <2>2. Totals(InCell(c, E)) \in Total /\ agg[c] \in Total  BY <2>1, TotalsTyped
  <2>. QED  BY <2>2 DEF Plus, Total
<1>. QED  BY <1>1 DEF BumpAgg

\* The largest of a set of events.
LEMMA MaxOfEvents ==
  ASSUME NEW E \in SUBSET Event, E # {}
  PROVE  Max(E) \in E /\ \A e \in E : e <= Max(E)
<1> DEFINE U == {n \in Nat : \A e \in E : e <= n}
<1>1. Events \in U
  BY EventAssumption DEF Event
<1>2. PICK m \in U : \A n \in U : m <= n
  BY <1>1, NatMin
<1>3. \A e \in E : e \in Nat /\ e >= 1
  BY EventAssumption DEF Event
<1>4. m \in E
  <2> SUFFICES ASSUME m \notin E PROVE FALSE  OBVIOUS
  <2>1. \A e \in E : e <= m - 1
    BY <1>2, <1>3
  <2>2. PICK e \in E : TRUE
    OBVIOUS
  <2>3. m - 1 \in Nat
    BY <1>2, <1>3, <2>1, <2>2
  <2>4. m - 1 \in U
    BY <2>1, <2>3
  <2>5. m \in Nat /\ m <= m - 1
    BY <1>2, <2>4
  <2>. QED  BY <2>5
<1>5. \E x \in E : \A y \in E : x >= y
  BY <1>2, <1>3, <1>4
<1>6. Max(E) \in E /\ \A y \in E : Max(E) >= y
  BY <1>5 DEF Max
<1>. QED  BY <1>3, <1>6

\* The price that is moved.
LEMMA MoveKeyTyped ==
  ASSUME NEW old \in Prices, NEW new \in Prices, NEW k \in Key
  PROVE  MoveKey(old, new, k) \in Prices
<1>1. NewKey(k) \in Key /\ old[k] \in Price \cup {NoPrice}
  BY PriceAssumption DEF NewKey, Key, Prices
<1>2. [new EXCEPT ![NewKey(k)] = old[k]] \in Prices
  BY <1>1 DEF Prices
<1>. QED  BY <1>2 DEF MoveKey, Prices

\* The largest member of a set of indices.
LEMMA MaxOfIndices ==
  ASSUME NEW n \in Nat, NEW s \in SUBSET (1 .. n), s # {}
  PROVE  Max(s) \in s
<1> DEFINE U == {m \in Nat : \A i \in s : i <= m}
<1>1. n \in U
  OBVIOUS
<1>2. PICK m \in U : \A k \in U : m <= k
  BY <1>1, NatMin
<1>3. m \in s
  <2> SUFFICES ASSUME m \notin s PROVE FALSE  OBVIOUS
  <2>1. PICK i \in s : TRUE
    OBVIOUS
  <2>2. \A j \in s : j \in Nat /\ j >= 1 /\ j <= m - 1
    BY <1>2
  <2>3. m - 1 \in U
    BY <1>2, <2>1, <2>2
  <2>4. m \in Nat /\ m <= m - 1
    BY <1>2, <2>3
  <2>. QED  BY <2>4
<1>4. \E x \in s : \A y \in s : x >= y
  BY <1>2, <1>3
<1>. QED  BY <1>4 DEF Max

\* What the renaming makes of prices is prices again.
IsRenaming(g, old) ==
  g = [s \in SUBSET DOMAIN KeysWithColon |->
         IF s = {} THEN old ELSE MoveKey(old, g[s \ {Max(s)}], KeysWithColon[Max(s)])]
Renamed(old) ==
  LET Move(new, k) == MoveKey(old, new, k)
  IN FoldLeft(Move, old, KeysWithColon)

LEMMA RenamedIsRenaming ==
  ASSUME NEW old
  PROVE  Renamed(old) = (CHOOSE g : IsRenaming(g, old))[DOMAIN KeysWithColon]
BY DEF Renamed, FoldLeft, MapThenFoldSet, IsRenaming

LEMMA RenamedTyped ==
  ASSUME NEW old \in Prices
  PROVE  Renamed(old) \in Prices
<1> DEFINE D == DOMAIN KeysWithColon
           pick == [s \in SUBSET D |-> Max(s)]
           step == [q \in D \X Prices |-> MoveKey(old, q[2], KeysWithColon[q[1]])]
           iter == CHOOSE g : IsRenaming(g, old)
           G == {s \in SUBSET D : iter[s] \in Prices}
<1>1. PICK n \in Nat : D = 1 .. n
  BY PriceAssumption
<1>2. IsFiniteSet(D) /\ Picks(pick, D) /\ \A i \in D : KeysWithColon[i] \in Key
  <2>1. IsFiniteSet(D)
    BY <1>1, FS_Interval
  <2>2. \A s \in SUBSET D : s # {} => Max(s) \in s
    BY <1>1, MaxOfIndices
  <2>3. \A i \in D : KeysWithColon[i] \in Key
    BY PriceAssumption
  <2>. QED  BY <2>1, <2>2, <2>3 DEF Picks
<1>3. step \in [D \X Prices -> Prices]
  BY <1>2, MoveKeyTyped
<1>4. \E g : IsRenaming(g, old)
  <2>1. PICK g \in [SUBSET D -> Prices] : Solves(g, SUBSET D, pick, old, step)
    <3> HIDE DEF pick, step, D
    <3>. QED  BY <1>2, <1>3, RecursionSolved
  <2>2. ASSUME NEW s \in SUBSET D, s # {}
        PROVE  g[s] = MoveKey(old, g[s \ {Max(s)}], KeysWithColon[Max(s)])
    <3>1. pick[s] = Max(s) /\ Max(s) \in D /\ s \ {Max(s)} \in SUBSET D
      BY <1>2, <2>2 DEF Picks
    <3>2. step[<<Max(s), g[s \ {Max(s)}]>>] = MoveKey(old, g[s \ {Max(s)}], KeysWithColon[Max(s)])
      BY <2>1, <3>1
    <3>. QED  BY <2>1, <2>2, <3>1, <3>2 DEF Rest, Solves
  <2>. QED  BY <2>1, <2>2 DEF IsRenaming, Solves
<1>5. IsRenaming(iter, old)
  BY <1>4
<1> HIDE DEF iter
<1>6. {} \in G
  BY <1>5 DEF IsRenaming
<1>7. ASSUME NEW s \in SUBSET D, s # {}, Rest(pick, s) \in G
      PROVE  s \in G
  <2>1. pick[s] = Max(s) /\ Max(s) \in D
    BY <1>2, <1>7 DEF Picks
  <2>2. iter[s] = MoveKey(old, iter[s \ {Max(s)}], KeysWithColon[Max(s)])
    BY <1>5, <1>7 DEF IsRenaming
  <2>3. iter[s \ {Max(s)}] \in Prices
    BY <1>7, <2>1 DEF Rest
  <2>. QED  BY <1>2, <2>1, <2>2, <2>3, MoveKeyTyped
<1>8. \A s \in SUBSET D : s \in G
  <2> HIDE DEF G, pick, D
  <2>. QED  BY <1>2, <1>6, <1>7, SubsetInduction
<1>. QED  BY <1>8, RenamedIsRenaming DEF iter

\* Every step keeps the types.
LEMMA ImportTyped ==
  ASSUME Typed, MigrateClients \/ MigrateModelCosts \/ ReadUsageFile \/ ImportBatch
  PROVE  Typed'
<1>1. CASE MigrateClients
  <2>1. clients' \subseteq Client
    BY <1>1, ClientAssumption DEF MigrateClients, Typed, StoreTyped
  <2>2. BoundTyped'
    BY <1>1, WorksOrFails DEF MigrateClients, Typed
  <2>. QED  BY <1>1, <2>1, <2>2 DEF MigrateClients, Typed, StoreTyped, PlaceTyped, Places
<1>2. CASE MigrateModelCosts
  <2>1. costs' \in Prices
    BY <1>2, PriceAssumption DEF MigrateModelCosts, Typed, StoreTyped, Prices, Key
  <2>2. BoundTyped'
    BY <1>2, WorksOrFails DEF MigrateModelCosts, Typed
  <2>. QED  BY <1>2, <2>1, <2>2 DEF MigrateModelCosts, Typed, StoreTyped, PlaceTyped, Places
<1>3. CASE ReadUsageFile
  <2>1. BoundTyped'
    <3>1. CASE Works /\ UNCHANGED history
      BY <3>1, WorksOrFails DEF Typed
    <3>2. CASE Fails /\ history' = [history EXCEPT !.whole = FALSE]
      BY <3>2, SpendTyped DEF Fails, Typed, BoundTyped, History
    <3>. QED  BY <1>3, <3>1, <3>2 DEF ReadUsageFile
  <2>2. StoreTyped' /\ PlaceTyped'
    BY <1>3 DEF ReadUsageFile, db, Typed, StoreTyped, PlaceTyped, Places
  <2>. QED  BY <2>1, <2>2 DEF Typed
<1>4. CASE ImportBatch
  <2> DEFINE F == First(FileBatch, todo)
  <2>1. F \subseteq todo /\ todo \subseteq InFile /\ InFile \subseteq Event
    BY FirstIsPart, EventAssumption DEF Typed, PlaceTyped
  <2> HIDE DEF F
  <2>2. CASE /\ Works /\ pc' = "import" /\ events' = events \cup F /\ todo' = todo \ F
             /\ history' = [history EXCEPT !.missed = IF built THEN @ \cup F ELSE @]
    <3>1. BoundTyped'
      BY <2>1, <2>2 DEF Works, Typed, BoundTyped, History
    <3>2. StoreTyped' /\ PlaceTyped'
      BY <1>4, <2>1, <2>2 DEF ImportBatch, Typed, StoreTyped, PlaceTyped, Places
    <3>. QED  BY <3>1, <3>2 DEF Typed
  <2>3. CASE /\ Fails /\ pc' = "marker" /\ UNCHANGED events /\ todo' = {}
             /\ history' = [history EXCEPT !.whole = FALSE]
    <3>1. BoundTyped'
      BY <2>3, SpendTyped DEF Fails, Typed, BoundTyped, History
    <3>2. StoreTyped' /\ PlaceTyped'
      BY <1>4, <2>3 DEF ImportBatch, Typed, StoreTyped, PlaceTyped, Places
    <3>. QED  BY <3>1, <3>2 DEF Typed
  <2>. QED  BY <1>4, <2>2, <2>3 DEF ImportBatch, F
<1>. QED  BY <1>1, <1>2, <1>3, <1>4

LEMMA BackfillTyped ==
  ASSUME Typed, CheckBuilt \/ Scan \/ Flush \/ MarkBuilt
  PROVE  Typed'
<1>1. CASE CheckBuilt
  BY <1>1 DEF CheckBuilt, db, Typed, StoreTyped, PlaceTyped, BoundTyped, Places
<1>2. CASE Scan
  <2> DEFINE E == {e \in events : e > lastKey}
             next == First(AggBatch, E)
  <2>1. next \subseteq events /\ next \subseteq Event
    BY FirstIsPart DEF Typed, StoreTyped
  <2>2. \/ next = {} /\ pc' = "mark" /\ batch' = {} /\ UNCHANGED lastKey
        \/ next # {} /\ pc' = "flush" /\ batch' = next /\ lastKey' = Max(next)
    BY <1>2 DEF Scan
  <2> HIDE DEF next
  <2>3. lastKey' \in 0 .. Events
    <3>1. next # {} => Max(next) \in Event  BY <2>1, MaxOfEvents
    <3>. QED  BY <2>2, <3>1, EventAssumption DEF Event, Typed, PlaceTyped
  <2>. QED  BY <1>2, <2>1, <2>2, <2>3 DEF Scan, db, Typed, StoreTyped, PlaceTyped, BoundTyped, Places
<1>3. CASE Flush
  <2>1. CASE Works /\ agg' = BumpAgg(batch) /\ pc' = "scan" /\ UNCHANGED <<todo, lastKey, batch, history>>
    <3>1. agg' \in [Cell -> Total]
      BY <2>1, BumpAggTyped DEF Typed, StoreTyped, PlaceTyped
    <3>. QED  BY <1>3, <2>1, <3>1 DEF Flush, Works, Typed, StoreTyped, PlaceTyped, BoundTyped, Places
  <2>2. CASE Fails /\ Exit /\ UNCHANGED agg
    <3>1. BoundTyped'
      BY <2>2, ExitTyped DEF Fails, Typed
    <3>2. PlaceTyped' /\ StoreTyped'
      BY <1>3, <2>2, EventAssumption DEF Flush, Exit, Typed, StoreTyped, PlaceTyped, Places
    <3>. QED  BY <3>1, <3>2 DEF Typed
  <2>. QED  BY <1>3, <2>1, <2>2 DEF Flush
<1>4. CASE MarkBuilt
  <2>1. CASE Works /\ built' = TRUE /\ pc' = "keys" /\ lastKey' = 0 /\ UNCHANGED <<todo, batch, history>>
    BY <1>4, <2>1, EventAssumption
    DEF MarkBuilt, Works, Typed, StoreTyped, PlaceTyped, BoundTyped, Places
  <2>2. CASE Fails /\ Exit /\ UNCHANGED built
    <3>1. BoundTyped'
      BY <2>2, ExitTyped DEF Fails, Typed
    <3>2. PlaceTyped' /\ StoreTyped'
      BY <1>4, <2>2, EventAssumption DEF MarkBuilt, Exit, Typed, StoreTyped, PlaceTyped, Places
    <3>. QED  BY <3>1, <3>2 DEF Typed
  <2>. QED  BY <1>4, <2>1, <2>2 DEF MarkBuilt
<1>. QED  BY <1>1, <1>2, <1>3, <1>4

LEMMA ServingTyped ==
  ASSUME Typed
  PROVE  /\ \A e \in Event : Record(e) => Typed'
         /\ \A m \in Model, p \in Price \cup {NoPrice} : ChangeCost(m, p) => Typed'
         /\ \A c \in Client : ChangeClients(c) => Typed'
<1>1. ASSUME NEW e \in Event, Record(e) PROVE Typed'
  <2>1. agg' \in [Cell -> Total]
    <3>1. {e} \in SUBSET Event  OBVIOUS
    <3>. QED  BY <1>1, <3>1, BumpAggTyped DEF Record, Typed, StoreTyped
  <2>. QED  BY <1>1, <2>1 DEF Record, Typed, StoreTyped, PlaceTyped, BoundTyped
<1>2. ASSUME NEW m \in Model, NEW p \in Price \cup {NoPrice}, ChangeCost(m, p) PROVE Typed'
  <2>1. costs' \in Prices
    BY <1>2 DEF ChangeCost, Typed, StoreTyped, Prices, Key
  <2>2. BoundTyped'
    BY <1>2, SpendTyped DEF ChangeCost, Typed, BoundTyped
  <2>. QED  BY <1>2, <2>1, <2>2 DEF ChangeCost, Typed, StoreTyped, PlaceTyped
<1>3. ASSUME NEW c \in Client, ChangeClients(c) PROVE Typed'
  <2>1. left' \in Left /\ history.redone + left'.crashes + left'.failures <= MaxCrashes + MaxFailures
    BY <1>3, SpendTyped DEF ChangeClients, Typed
  <2>2. history \in History
    BY DEF Typed, BoundTyped
  <2>3. \E R \in SUBSET Client : history' = [history EXCEPT !.removed = R]
    <3>1. history.removed \in SUBSET Client /\ history.removed \ {c} \in SUBSET Client
          /\ history.removed \cup {c} \in SUBSET Client
      BY <2>2 DEF History
    <3>. QED  BY <1>3, <2>2, <3>1 DEF ChangeClients, History
  <2>4. history' \in History /\ history'.redone = history.redone
    BY <2>2, <2>3 DEF History
  <2>5. BoundTyped'
    BY <2>1, <2>4 DEF BoundTyped
  <2>6. clients' \subseteq Client
    BY <1>3 DEF ChangeClients, Typed, StoreTyped
  <2>. QED  BY <1>3, <2>5, <2>6 DEF ChangeClients, Typed, StoreTyped, PlaceTyped
<1>. QED  BY <1>1, <1>2, <1>3

LEMMA TypedInductive ==
  ASSUME Typed, [Next]_vars
  PROVE  Typed'
<1>1. CASE Start \/ EndImport
  BY <1>1 DEF Start, EndImport, db, Typed, StoreTyped, PlaceTyped, BoundTyped, Places
<1>2. CASE WriteMarker
  <2>1. BoundTyped'
    BY <1>2, WorksOrFails DEF WriteMarker, Typed
  <2>. QED  BY <1>2, <2>1 DEF WriteMarker, Typed, StoreTyped, PlaceTyped, Places
<1>3. CASE MigrateKeys
  <2>1. BoundTyped'
    BY <1>3, WorksOrFails DEF MigrateKeys, Typed
  <2>2. costs' \in Prices
    BY <1>3, RenamedTyped DEF MigrateKeys, Renamed, Typed, StoreTyped
  <2>. QED  BY <1>3, <2>1, <2>2 DEF MigrateKeys, Typed, StoreTyped, PlaceTyped, Places
<1>4. CASE Crash
  <2>1. BoundTyped'
    BY <1>4, ExitTyped DEF Crash, Typed
  <2>2. StoreTyped' /\ PlaceTyped'
    BY <1>4, EventAssumption DEF Crash, Exit, db, Typed, StoreTyped, PlaceTyped, Places
  <2>. QED  BY <2>1, <2>2 DEF Typed
<1>5. CASE UNCHANGED vars
  BY <1>5 DEF vars, db, Typed, StoreTyped, PlaceTyped, BoundTyped
<1>. QED  BY <1>1, <1>2, <1>3, <1>4, <1>5, ImportTyped, BackfillTyped, ServingTyped DEF Next, Boot

LEMMA TypedInitial == Init => Typed
<1> SUFFICES ASSUME Init PROVE Typed  OBVIOUS
<1>1. agg \in [Cell -> Total]
  BY DEF Init, NoTotals, Total
<1>2. events \subseteq Event /\ costs \in Prices
  BY EventAssumption, PriceAssumption DEF Init, Prices
<1>3. left \in Left /\ history \in History /\ history.redone = 0
      /\ left.crashes = MaxCrashes /\ left.failures = MaxFailures
  BY BoundAssumption DEF Init, Left, History
<1>4. BoundTyped
  BY <1>3, BoundAssumption DEF BoundTyped
<1>5. /\ clients = {} /\ migrated \in BOOLEAN /\ built = FALSE
      /\ pc = "down" /\ todo = {} /\ lastKey = 0 /\ batch = {}
  BY DEF Init
<1>6. StoreTyped
  BY <1>1, <1>2, <1>5 DEF StoreTyped
<1>7. PlaceTyped
  BY <1>5, EventAssumption DEF PlaceTyped, Places
<1>. QED  BY <1>4, <1>6, <1>7 DEF Typed

LEMMA TypedInvariant == Spec => []Typed
BY TypedInitial, TypedInductive, PTL DEF Spec

\* Through every failing transaction, crash and start the database keeps its
\* shape: what is renamed, imported and added up is prices, events and totals.
THEOREM StartTypeCorrect == Spec => []TypeOK
BY TypedIsTypeOK, TypedInvariant, PTL
----------------------------------------------------------------------------
(* The import. *)

Importing == {"clients", "costs", "usage", "import", "marker"}
Imported == {"marker", "check", "scan", "flush", "mark", "keys", "serve"}

\* Clients are imported only before the marker, and none has been removed
\* after it by then.  As long as the file has not been cut short, either none
\* of its events is there, or all of them, or what is missing is to come.
ImportInv ==
  /\ pc \in Importing => ~migrated
  /\ history.removed # {} => migrated
  /\ history.removed \cap clients = {}
  /\ history.whole =>
       /\ events = {} \/ InFile \subseteq events \/ pc = "import"
       /\ pc = "import" => InFile \subseteq events \cup todo
       /\ migrated \/ pc \in Imported => InFile \subseteq events

LEMMA ImportInvInductive ==
  ASSUME Typed, ImportInv, [Next]_vars
  PROVE  ImportInv'
<1> USE DEF ImportInv, Importing, Imported
<1>1. CASE Start
  BY <1>1 DEF Start, db
<1>2. CASE MigrateClients \/ MigrateModelCosts
  BY <1>2 DEF MigrateClients, MigrateModelCosts
<1>3. CASE ReadUsageFile
  <2>1. /\ history'.removed = history.removed /\ pc = "usage" /\ UNCHANGED <<events, clients, migrated>>
        /\ \/ events # {} /\ pc' = "marker" /\ history' = history
           \/ pc' = "import" /\ todo' = InFile /\ history' = history
           \/ pc' = "marker" /\ ~history'.whole
    BY <1>3 DEF ReadUsageFile, db, Typed, BoundTyped, History
  <2>. QED  BY <2>1
<1>4. CASE ImportBatch
  <2>1. history \in History
    BY DEF Typed, BoundTyped
  <2>2. First(FileBatch, todo) \subseteq todo
    BY FirstIsPart
  <2>3. history'.removed = history.removed /\ (history'.whole => history.whole)
    BY <1>4, <2>1 DEF ImportBatch, History
  <2>4. \/ pc' = "import" /\ events' \cup todo' = events \cup todo
        \/ pc' = "marker" /\ ~history'.whole /\ UNCHANGED events
    BY <1>4, <2>1, <2>2 DEF ImportBatch, History
  <2>5. pc = "import" /\ UNCHANGED <<clients, migrated>>
    BY <1>4 DEF ImportBatch
  <2>. QED  BY <2>3, <2>4, <2>5
<1>5. CASE EndImport
  BY <1>5 DEF EndImport, db
<1>6. CASE WriteMarker \/ CheckBuilt \/ Scan \/ MigrateKeys
  BY <1>6 DEF WriteMarker, CheckBuilt, Scan, MigrateKeys, db
<1>7. ASSUME Exit, UNCHANGED <<events, clients, migrated>>
      PROVE  ImportInv'
  <2>1. history'.removed = history.removed
        /\ (history'.whole => history.whole /\ ~(pc = "import" /\ events # {} /\ todo # {}))
        /\ pc' = "down"
    BY <1>7 DEF Exit, Typed, BoundTyped, History
  <2>. QED  BY <1>7, <2>1
<1>8. CASE Flush \/ MarkBuilt
  BY <1>7, <1>8 DEF Flush, MarkBuilt
<1>9. CASE Crash
  BY <1>7, <1>9 DEF Crash, db
<1>10. ASSUME NEW e \in Event, Record(e) PROVE ImportInv'
  BY <1>10 DEF Record
<1>11. ASSUME NEW m, NEW p, ChangeCost(m, p) PROVE ImportInv'
  BY <1>11 DEF ChangeCost
<1>12. ASSUME NEW c \in Client, ChangeClients(c) PROVE ImportInv'
  <2>1. history \in History
    BY DEF Typed, BoundTyped
  <2>2. history'.whole = history.whole /\ pc = "serve" /\ UNCHANGED <<events, migrated, pc>>
    BY <1>12, <2>1 DEF ChangeClients, History
  <2>3. history'.removed \cap clients' = {} /\ (history'.removed # {} => migrated)
    BY <1>12, <2>1 DEF ChangeClients, History
  <2>. QED  BY <2>2, <2>3
<1>13. CASE UNCHANGED vars
  BY <1>13 DEF vars, db
<1>. QED  BY <1>1, <1>2, <1>3, <1>4, <1>5, <1>6, <1>8, <1>9, <1>10, <1>11, <1>12, <1>13
          DEF Next, Boot

\* The import of clients and events is one import: after a start that was cut
\* short the next one completes it or leaves it alone, and what has been removed
\* since does not come back.
THEOREM ImportIsOnce == Spec => []ImportedOnce
<1>1. Init => ImportInv
  <2> SUFFICES ASSUME Init PROVE ImportInv  OBVIOUS
  <2>1. pc = "down" /\ history.removed = {} /\ (history.whole => ~migrated /\ events = {})
    BY DEF Init
  <2>. QED  BY <2>1 DEF ImportInv, Importing, Imported
<1>2. Typed /\ ImportInv /\ [Next]_vars => ImportInv'
  BY ImportInvInductive
<1>3. ImportInv => ImportedOnce
  BY DEF ImportInv, ImportedOnce, Imported
<1>. QED  BY <1>1, <1>2, <1>3, TypedInvariant, PTL DEF Spec
----------------------------------------------------------------------------
(* The backfill. *)

Backfilling == {"scan", "flush", "mark"}

\* Where the backfill is: its last key belongs to it alone, the batch lies at
\* or before that key, and at the end nothing lies behind it.  Events are
\* missed only after the totals were built.
BackfillInv ==
  /\ pc \in Backfilling => ~built
  /\ pc \in {"keys", "serve"} => built
  /\ lastKey > 0 => pc \in Backfilling
  /\ pc = "flush" => \A e \in batch : e <= lastKey
  /\ pc = "mark" => \A e \in events : e <= lastKey
  /\ ~built => history.missed = {}

\* The first events of a set are an initial part of it, and not none.
LEMMA FirstIsInitial ==
  ASSUME NEW n \in Nat, NEW E \in SUBSET Event, NEW f \in First(n, E), NEW e \in E, e <= f
  PROVE  e \in First(n, E)
<1> DEFINE Before(x) == {g \in E : g < x}
<1>1. f \in E /\ Cardinality(Before(f)) < n
  BY DEF First
<1>2. \A g \in E : g \in Int
  BY EventAssumption DEF Event
<1>3. Before(e) \in SUBSET Before(f) /\ Before(f) \in SUBSET Event
  BY <1>1, <1>2
<1>4. Cardinality(Before(e)) <= Cardinality(Before(f))
  BY <1>3, EventsFinite, FS_Subset
<1>5. Cardinality(Before(e)) \in Nat /\ Cardinality(Before(f)) \in Nat
  BY <1>3, EventsFinite
<1>6. Cardinality(Before(e)) < n
  BY <1>1, <1>4, <1>5
<1>. QED  BY <1>6 DEF First

LEMMA FirstIsSome ==
  ASSUME NEW n \in Nat \ {0}, NEW E \in SUBSET Event, E # {}
  PROVE  First(n, E) # {}
<1>1. E \in SUBSET Nat
  BY EventAssumption DEF Event
<1>2. PICK x \in E : \A y \in E : x <= y
  BY <1>1, NatMin
<1>3. {g \in E : g < x} = {}
  <2>1. \A g \in E : g \in Nat /\ x \in Nat /\ x <= g
    BY <1>1, <1>2
  <2>. QED  BY <2>1
<1>4. Cardinality({g \in E : g < x}) = 0
  BY <1>3, FS_EmptySet
<1>. QED  BY <1>4 DEF First

\* What Scan reads: all that lies between the last key and the new one.
LEMMA ScanReads ==
  ASSUME Typed, Scan
  PROVE  \/ /\ pc' = "mark" /\ UNCHANGED lastKey
            /\ \A e \in events : e <= lastKey
         \/ /\ pc' = "flush"
            /\ batch' = {e \in events : lastKey < e /\ e <= lastKey'}
            /\ lastKey < lastKey'
<1> DEFINE E == {e \in events : e > lastKey}
           next == First(AggBatch, E)
<1>1. E \in SUBSET Event /\ next \in SUBSET E /\ AggBatch \in Nat \ {0}
  BY FirstIsPart, LengthAssumption DEF Typed, StoreTyped
<1>2. lastKey \in Int /\ \A e \in events : e \in Int
  BY EventAssumption DEF Typed, StoreTyped, PlaceTyped, Event
<1>3. CASE next = {}
  <2>1. E = {}
    BY <1>1, <1>3, FirstIsSome
  <2>. QED  BY <1>2, <1>3, <2>1 DEF Scan
<1>4. CASE next # {}
  <2>1. Max(next) \in next /\ \A e \in next : e <= Max(next)
    BY <1>1, <1>4, MaxOfEvents
  <2>2. pc' = "flush" /\ batch' = next /\ lastKey' = Max(next)
    BY <1>4 DEF Scan
  <2>3. \A e \in E : e <= Max(next) => e \in next
    BY <1>1, <2>1, FirstIsInitial
  <2> HIDE DEF next
  <2>. QED  BY <1>1, <1>2, <2>1, <2>2, <2>3
<1>. QED  BY <1>3, <1>4

LEMMA BackfillInvInductive ==
  ASSUME Typed, BackfillInv, [Next]_vars
  PROVE  BackfillInv'
<1> USE DEF BackfillInv, Backfilling
<1>0. lastKey \in Nat /\ built \in BOOLEAN /\ \A e \in events : e \in Nat
  BY EventAssumption DEF Typed, StoreTyped, PlaceTyped, Event
<1>1. CASE Start \/ EndImport \/ MigrateClients \/ MigrateModelCosts \/ WriteMarker
  BY <1>1 DEF Start, EndImport, MigrateClients, MigrateModelCosts, WriteMarker, db
<1>2. CASE ReadUsageFile
  <2>1. history'.missed = history.missed
    BY <1>2 DEF ReadUsageFile, Typed, BoundTyped, History
  <2>. QED  BY <1>2, <2>1 DEF ReadUsageFile, db
<1>3. CASE ImportBatch
  <2>1. ~built => history'.missed = history.missed
    BY <1>3 DEF ImportBatch, Typed, BoundTyped, History
  <2>. QED  BY <1>3, <2>1 DEF ImportBatch
<1>4. CASE CheckBuilt \/ MigrateKeys
  <2>1. /\ UNCHANGED <<events, built, lastKey, batch, history>>
        /\ \/ pc = "check" /\ built /\ pc' = "keys"
           \/ pc = "check" /\ ~built /\ pc' = "scan"
           \/ pc = "keys" /\ pc' = "serve"
    BY <1>0, <1>4 DEF CheckBuilt, MigrateKeys, db
  <2>. QED  BY <2>1
<1>5. CASE Scan
  <2>1. pc = "scan" /\ UNCHANGED <<db, history>>
    BY <1>5 DEF Scan
  <2>. QED  BY <1>0, <1>5, <2>1, ScanReads DEF db
<1>6. ASSUME Exit, UNCHANGED <<events, built>>
      PROVE  BackfillInv'
  <2>1. history'.missed = history.missed /\ pc' = "down" /\ lastKey' = 0
    BY <1>6 DEF Exit, Typed, BoundTyped, History
  <2>. QED  BY <1>6, <2>1
<1>7. CASE Flush
  BY <1>6, <1>7 DEF Flush
<1>8. CASE MarkBuilt
  BY <1>6, <1>8 DEF MarkBuilt
<1>9. CASE Crash
  BY <1>6, <1>9 DEF Crash, db
<1>10. ASSUME NEW e \in Event, Record(e) PROVE BackfillInv'
  BY <1>10 DEF Record
<1>11. ASSUME NEW m, NEW p, ChangeCost(m, p) PROVE BackfillInv'
  BY <1>11 DEF ChangeCost
<1>12. ASSUME NEW c \in Client, ChangeClients(c) PROVE BackfillInv'
  <2>1. history'.missed = history.missed
    BY <1>12 DEF ChangeClients, Typed, BoundTyped, History
  <2>. QED  BY <1>12, <2>1 DEF ChangeClients
<1>13. CASE UNCHANGED vars
  BY <1>13 DEF vars, db
<1>. QED  BY <1>1, <1>2, <1>3, <1>4, <1>5, <1>7, <1>8, <1>9, <1>10, <1>11, <1>12, <1>13
          DEF Next, Boot

LEMMA BackfillInvInitial == Init => BackfillInv
<1> SUFFICES ASSUME Init PROVE BackfillInv  OBVIOUS
<1>1. pc = "down" /\ lastKey = 0 /\ history.missed = {}
  BY DEF Init
<1>. QED  BY <1>1 DEF BackfillInv, Backfilling
----------------------------------------------------------------------------
(* The totals of each cell. *)

\* The events that are in the totals, apart from what earlier starts have left.
Added == IF built THEN events ELSE Flushed

\* Each cell has at least the events that are certain to be in it, and at most
\* those of this start and all events once for every start cut short before.
CellInv ==
  \A c \in Cell :
    /\ AtMost(Totals(InCell(c, Added \ history.missed)), agg[c])
    /\ AtMost(agg[c], Plus(Times(history.redone, Totals(InCell(c, events))),
                           Totals(InCell(c, Added))))

\* The arithmetic of one cell: l lies below, d and r times t above.
Within(l, a, r, t, d) == AtMost(l, a) /\ AtMost(a, Plus(Times(r, t), d))

LEMMA TimesMonotone ==
  ASSUME NEW r \in Nat, NEW x \in Nat, NEW y \in Nat, x <= y
  PROVE  r * x \in Nat /\ r * y \in Nat /\ r * x <= r * y
<1>1. r * (y - x) \in Nat /\ r * x \in Nat /\ r * y \in Nat
  OBVIOUS
<1>2. r * y = r * x + r * (y - x)
  OBVIOUS
<1>. QED  BY <1>1, <1>2

LEMMA WithinMonotone ==
  ASSUME NEW l \in Total, NEW a \in Total, NEW r \in Nat, NEW t \in Total, NEW d \in Total,
         NEW l1 \in Total, NEW t1 \in Total, NEW d1 \in Total,
         Within(l, a, r, t, d), AtMost(l1, l), AtMost(t, t1), AtMost(d, d1)
  PROVE  Within(l1, a, r, t1, d1)
<1>1. r * t.requests \in Nat /\ r * t1.requests \in Nat /\ r * t.requests <= r * t1.requests
  BY TimesMonotone DEF Total, AtMost
<1>2. r * t.success \in Nat /\ r * t1.success \in Nat /\ r * t.success <= r * t1.success
  BY TimesMonotone DEF Total, AtMost
<1>. QED  BY <1>1, <1>2 DEF Total, Within, AtMost, Plus, Times

LEMMA WithinBumped ==
  ASSUME NEW l \in Total, NEW a \in Total, NEW r \in Nat, NEW t \in Total, NEW d \in Total,
         NEW b \in Total, Within(l, a, r, t, d)
  PROVE  Within(Plus(l, b), Plus(a, b), r, t, Plus(d, b))
<1>1. r * t.requests \in Nat /\ r * t.success \in Nat
  BY DEF Total
<1>. QED  BY <1>1 DEF Total, Within, AtMost, Plus, Times

LEMMA WithinRedone ==
  ASSUME NEW l \in Total, NEW a \in Total, NEW r \in Nat, NEW t \in Total, NEW d \in Total,
         Within(l, a, r, t, d), AtMost(d, t)
  PROVE  Within(Nothing, a, r + 1, t, Nothing)
<1>1. r * t.requests \in Nat /\ r * t.success \in Nat
  BY DEF Total
<1>2. (r + 1) * t.requests = r * t.requests + t.requests
      /\ (r + 1) * t.success = r * t.success + t.success
  BY DEF Total
<1>. QED  BY <1>1, <1>2 DEF Total, Within, AtMost, Plus, Times, Nothing

LEMMA InCellSets ==
  ASSUME NEW c, NEW D \in SUBSET Event, NEW E \in SUBSET Event
  PROVE  /\ InCell(c, D) \in SUBSET Event
         /\ InCell(c, {}) = {}
         /\ D \subseteq E => InCell(c, D) \in SUBSET InCell(c, E)
         /\ InCell(c, D \cup E) = InCell(c, D) \cup InCell(c, E)
         /\ D \cap E = {} => InCell(c, D) \cap InCell(c, E) = {}
BY DEF InCell

LEMMA AddedIsPart ==
  ASSUME Typed
  PROVE  Added \subseteq events /\ events \subseteq Event
BY DEF Typed, StoreTyped, Added, Flushed

\* Nothing is added: fewer events are certain, and more may be there.
LEMMA CellsKept ==
  ASSUME Typed, Typed', CellInv, UNCHANGED agg, history'.redone = history.redone,
         events \subseteq events', Added \subseteq Added',
         Added' \ history'.missed \subseteq Added \ history.missed
  PROVE  CellInv'
<1> SUFFICES ASSUME NEW c \in Cell
             PROVE  Within(Totals(InCell(c, Added' \ history'.missed)), agg[c], history.redone,
                           Totals(InCell(c, events')), Totals(InCell(c, Added')))
  BY DEF CellInv, Within
<1> DEFINE L == InCell(c, Added \ history.missed)
           L1 == InCell(c, Added' \ history'.missed)
           T == InCell(c, events)
           T1 == InCell(c, events')
           D == InCell(c, Added)
           D1 == InCell(c, Added')
<1>1. /\ Added \subseteq Event /\ Added' \subseteq Event /\ events \subseteq Event /\ events' \subseteq Event
  BY AddedIsPart DEF Typed, StoreTyped, Added, Flushed
<1>2. /\ L \in SUBSET Event /\ L1 \in SUBSET L /\ T1 \in SUBSET Event /\ T \in SUBSET T1
      /\ D1 \in SUBSET Event /\ D \in SUBSET D1
  BY <1>1 DEF InCell
<1>3. agg[c] \in Total /\ history.redone \in Nat
  BY DEF Typed, StoreTyped, BoundTyped, History
<1>4. Within(Totals(L), agg[c], history.redone, Totals(T), Totals(D))
  BY DEF CellInv, Within
<1> HIDE DEF L, L1, T, T1, D, D1
<1>5. /\ Totals(L) \in Total /\ Totals(L1) \in Total /\ Totals(T) \in Total /\ Totals(T1) \in Total
      /\ Totals(D) \in Total /\ Totals(D1) \in Total
  BY <1>2, TotalsTyped
<1>6. AtMost(Totals(L1), Totals(L)) /\ AtMost(Totals(T), Totals(T1)) /\ AtMost(Totals(D), Totals(D1))
  BY <1>2, TotalsMonotone
<1>7. Within(Totals(L1), agg[c], history.redone, Totals(T1), Totals(D1))
  BY <1>3, <1>4, <1>5, <1>6, WithinMonotone
<1>. QED  BY <1>7 DEF L1, T1, D1

\* Events are added that have not been before.
LEMMA CellsBumped ==
  ASSUME Typed, Typed', CellInv, NEW E \in SUBSET Event, agg' = BumpAgg(E),
         history'.redone = history.redone, events \subseteq events', E \cap Added = {},
         Added' = Added \cup E,
         Added' \ history'.missed = (Added \ history.missed) \cup E
  PROVE  CellInv'
<1> SUFFICES ASSUME NEW c \in Cell
             PROVE  Within(Totals(InCell(c, Added' \ history'.missed)), agg'[c], history.redone,
                           Totals(InCell(c, events')), Totals(InCell(c, Added')))
  BY DEF CellInv, Within
<1> DEFINE L == InCell(c, Added \ history.missed)
           T == InCell(c, events)
           T1 == InCell(c, events')
           D == InCell(c, Added)
           B == InCell(c, E)
<1>1. Added \subseteq Event /\ events \subseteq Event /\ events' \subseteq Event
  BY AddedIsPart DEF Typed, StoreTyped
<1>2. /\ L \in SUBSET Event /\ D \in SUBSET Event /\ B \in SUBSET Event
      /\ T1 \in SUBSET Event /\ T \in SUBSET T1
      /\ L \cap B = {} /\ D \cap B = {}
      /\ InCell(c, Added' \ history'.missed) = L \cup B /\ InCell(c, Added') = D \cup B
  BY <1>1 DEF InCell
<1>3. agg[c] \in Total /\ history.redone \in Nat /\ agg'[c] = Plus(agg[c], Totals(B))
  BY DEF Typed, StoreTyped, BoundTyped, History, BumpAgg
<1>4. Within(Totals(L), agg[c], history.redone, Totals(T), Totals(D))
  BY DEF CellInv, Within
<1> HIDE DEF L, T, T1, D, B
<1>5. /\ Totals(L) \in Total /\ Totals(T) \in Total /\ Totals(T1) \in Total
      /\ Totals(D) \in Total /\ Totals(B) \in Total
  BY <1>2, TotalsTyped
<1>6. AtMost(Totals(T), Totals(T1)) /\ AtMost(Totals(L), Totals(L)) /\ AtMost(Totals(D), Totals(D))
  BY <1>2, TotalsMonotone
<1>7. Within(Totals(L), agg[c], history.redone, Totals(T1), Totals(D))
  BY <1>3, <1>4, <1>5, <1>6, WithinMonotone
<1>8. Within(Plus(Totals(L), Totals(B)), Plus(agg[c], Totals(B)), history.redone, Totals(T1),
             Plus(Totals(D), Totals(B)))
  BY <1>3, <1>5, <1>7, WithinBumped
<1>9. Totals(L \cup B) = Plus(Totals(L), Totals(B)) /\ Totals(D \cup B) = Plus(Totals(D), Totals(B))
  BY <1>2, TotalsDisjoint
<1>10. Within(Totals(L \cup B), agg'[c], history.redone, Totals(T1), Totals(D \cup B))
  BY <1>3, <1>8, <1>9
<1>. QED  BY <1>2, <1>10 DEF T1

\* The start ends, and the next one begins with no event added.
LEMMA CellsRedone ==
  ASSUME Typed, Typed', CellInv, UNCHANGED <<agg, events>>,
         history'.redone = history.redone + 1, Added' = {}
  PROVE  CellInv'
<1> SUFFICES ASSUME NEW c \in Cell
             PROVE  Within(Totals(InCell(c, {})), agg[c], history.redone + 1,
                           Totals(InCell(c, events)), Totals(InCell(c, {})))
  <2>1. Added' \ history'.missed = {}  OBVIOUS
  <2>. QED  BY <2>1 DEF CellInv, Within
<1> DEFINE L == InCell(c, Added \ history.missed)
           T == InCell(c, events)
           D == InCell(c, Added)
<1>1. Added \subseteq events /\ events \subseteq Event
  BY AddedIsPart
<1>2. /\ L \in SUBSET Event /\ T \in SUBSET Event /\ D \in SUBSET T
      /\ InCell(c, {}) = {}
  BY <1>1 DEF InCell
<1>3. agg[c] \in Total /\ history.redone \in Nat
  BY DEF Typed, StoreTyped, BoundTyped, History
<1>4. Within(Totals(L), agg[c], history.redone, Totals(T), Totals(D))
  BY DEF CellInv, Within
<1> HIDE DEF L, T, D
<1>5. Totals(L) \in Total /\ Totals(T) \in Total /\ Totals(D) \in Total /\ AtMost(Totals(D), Totals(T))
  BY <1>2, TotalsTyped, TotalsMonotone
<1>6. Within(Nothing, agg[c], history.redone + 1, Totals(T), Nothing)
  BY <1>3, <1>4, <1>5, WithinRedone
<1>. QED  BY <1>2, <1>6, NoTotal DEF T

\* A step that neither writes events nor totals nor moves the backfill.
LEMMA CellsQuiet ==
  ASSUME Typed, Typed', CellInv, UNCHANGED <<events, agg, built, lastKey, batch>>,
         history'.redone = history.redone, history'.missed = history.missed,
         pc = "flush" <=> pc' = "flush"
  PROVE  CellInv'
<1>1. Added' = Added
  BY DEF Added, Flushed
<1>. QED  BY <1>1, CellsKept

\* The process ends.
LEMMA CellsExit ==
  ASSUME Typed, Typed', BackfillInv, CellInv, Exit, UNCHANGED <<events, agg, built>>
  PROVE  CellInv'
<1>1. /\ lastKey' = 0 /\ pc' = "down" /\ history'.missed = history.missed
      /\ history'.redone = history.redone + (IF Flushed # {} /\ ~built THEN 1 ELSE 0)
  BY DEF Exit, Typed, BoundTyped, History
<1>2. /\ lastKey \in Nat /\ history.redone \in Nat
      /\ \A e \in events : e \in Nat /\ e >= 1
  BY EventAssumption DEF Typed, StoreTyped, PlaceTyped, BoundTyped, History, Event
<1>3. Flushed' = {}
  BY <1>1, <1>2 DEF Flushed
<1>4. CASE built
  <2>1. Added' = Added
    BY <1>4 DEF Added
  <2>. QED  BY <1>1, <1>2, <1>4, <2>1, CellsKept
<1>5. CASE ~built /\ Flushed # {}
  BY <1>1, <1>3, <1>5, CellsRedone DEF Added
<1>6. CASE ~built /\ Flushed = {}
  BY <1>1, <1>2, <1>3, <1>6, CellsKept DEF Added
<1>. QED  BY <1>4, <1>5, <1>6

\* Events are imported.
LEMMA CellsImport ==
  ASSUME Typed, Typed', BackfillInv, CellInv, ImportBatch
  PROVE  CellInv'
<1> DEFINE F == First(FileBatch, todo)
<1>1. history \in History /\ pc = "import" /\ UNCHANGED <<agg, built, lastKey, batch>>
  BY DEF ImportBatch, Typed, BoundTyped
<1>2. history'.redone = history.redone /\ pc' # "flush" /\ events \subseteq events'
  BY <1>1 DEF ImportBatch, History
<1>3. CASE built
  <2>1. \/ events' = events /\ history'.missed = history.missed
        \/ events' = events \cup F /\ history'.missed = history.missed \cup F
    BY <1>1, <1>3 DEF ImportBatch, History
  <2> HIDE DEF F
  <2>2. Added = events /\ Added' = events'
    BY <1>1, <1>3 DEF Added
  <2>. QED  BY <1>1, <1>2, <2>1, <2>2, CellsKept
<1>4. CASE ~built
  <2>1. lastKey = 0 /\ lastKey' = 0
    BY <1>1 DEF BackfillInv, Backfilling, Typed, PlaceTyped
  <2>2. \A e \in events \cup events' : e \in Nat /\ e >= 1
    BY EventAssumption DEF Typed, StoreTyped, Event
  <2>3. Flushed = {} /\ Flushed' = {}
    BY <2>1, <2>2 DEF Flushed
  <2>. QED  BY <1>1, <1>2, <1>4, <2>3, CellsKept DEF Added
<1>. QED  BY <1>3, <1>4

\* A batch is read: as much as before is added, and the batch is not.
LEMMA CellsScan ==
  ASSUME Typed, Typed', BackfillInv, CellInv, Scan
  PROVE  CellInv'
<1>1. pc = "scan" /\ UNCHANGED <<events, agg, built, history>> /\ ~built
  BY DEF Scan, db, BackfillInv, Backfilling
<1>2. lastKey \in Int /\ lastKey' \in Int /\ \A e \in events : e \in Int
  BY EventAssumption DEF Typed, StoreTyped, PlaceTyped, Event
<1>3. Flushed = {e \in events : e <= lastKey}
  BY <1>1 DEF Flushed
<1>4. Flushed' = {e \in events : e <= lastKey}
  <2>1. CASE pc' = "mark" /\ UNCHANGED lastKey
    BY <1>1, <2>1 DEF Flushed
  <2>2. CASE /\ pc' = "flush" /\ batch' = {e \in events : lastKey < e /\ e <= lastKey'}
             /\ lastKey < lastKey'
    BY <1>1, <1>2, <2>2 DEF Flushed
  <2>. QED  BY <2>1, <2>2, ScanReads
<1>. QED  BY <1>1, <1>3, <1>4, CellsKept DEF Added

\* The batch is added.
LEMMA CellsFlush ==
  ASSUME Typed, Typed', BackfillInv, CellInv, Flush
  PROVE  CellInv'
<1>1. CASE Fails /\ Exit /\ UNCHANGED agg
  BY <1>1, CellsExit DEF Flush
<1>2. CASE agg' = BumpAgg(batch) /\ pc' = "scan" /\ UNCHANGED <<lastKey, batch, history>>
  <2>1. pc = "flush" /\ UNCHANGED <<events, built>> /\ ~built /\ history.missed = {}
    BY DEF Flush, BackfillInv, Backfilling
  <2>2. batch \subseteq events /\ events \subseteq Event /\ \A e \in batch : e <= lastKey
    BY <2>1 DEF BackfillInv, Typed, StoreTyped, PlaceTyped
  <2>3. Added = {e \in events : e <= lastKey} \ batch
    BY <2>1 DEF Added, Flushed
  <2>4. Added' = {e \in events : e <= lastKey}
    BY <1>2, <2>1 DEF Added, Flushed
  <2>. QED  BY <1>2, <2>1, <2>2, <2>3, <2>4, CellsBumped
<1>. QED  BY <1>1, <1>2 DEF Flush

\* All events have been added when the totals are marked as built.
LEMMA CellsMark ==
  ASSUME Typed, Typed', BackfillInv, CellInv, MarkBuilt
  PROVE  CellInv'
<1>1. CASE Fails /\ Exit /\ UNCHANGED built
  BY <1>1, CellsExit DEF MarkBuilt
<1>2. CASE built' = TRUE /\ UNCHANGED history
  <2>1. pc = "mark" /\ UNCHANGED <<events, agg>> /\ ~built /\ \A e \in events : e <= lastKey
    BY DEF MarkBuilt, BackfillInv, Backfilling
  <2>2. Added = events /\ Added' = events
    BY <1>2, <2>1 DEF Added, Flushed
  <2>. QED  BY <1>2, <2>1, <2>2, CellsKept
<1>. QED  BY <1>1, <1>2 DEF MarkBuilt

\* An event is recorded with its total.
LEMMA CellsRecord ==
  ASSUME Typed, Typed', BackfillInv, CellInv, NEW e \in Event, Record(e)
  PROVE  CellInv'
<1>1. /\ pc = "serve" /\ built /\ UNCHANGED <<built, history>>
      /\ events' = events \cup {e} /\ agg' = BumpAgg({e})
      /\ \A f \in events \cup InFile : e > f
  BY DEF Record, BackfillInv
<1>2. \A f \in Event : ~(f > f)
  BY EventAssumption DEF Event
<1>3. events \subseteq Event /\ history.missed \subseteq InFile /\ InFile \subseteq Event
  BY EventAssumption DEF Typed, StoreTyped, BoundTyped, History
<1>4. e \notin events /\ e \notin history.missed
  BY <1>1, <1>2, <1>3
<1>5. Added = events /\ Added' = events'
  BY <1>1 DEF Added
<1>. QED  BY <1>1, <1>3, <1>4, <1>5, CellsBumped

LEMMA CellInvInductive ==
  ASSUME Typed, BackfillInv, CellInv, [Next]_vars
  PROVE  CellInv'
<1>1. Typed'
  BY TypedInductive
<1>2. history \in History
  BY DEF Typed, BoundTyped
<1>3. CASE Start \/ MigrateClients \/ MigrateModelCosts \/ EndImport \/ WriteMarker
  BY <1>1, <1>3, CellsQuiet DEF Start, MigrateClients, MigrateModelCosts, EndImport, WriteMarker, db
<1>4. CASE CheckBuilt \/ MigrateKeys
  <2>1. UNCHANGED <<events, agg, built, lastKey, batch, history>> /\ pc # "flush" /\ pc' # "flush"
    BY <1>4 DEF CheckBuilt, MigrateKeys, db
  <2>. QED  BY <1>1, <2>1, CellsQuiet
<1>5. CASE ReadUsageFile
  <2>1. /\ UNCHANGED <<events, agg, built, lastKey, batch>> /\ pc # "flush" /\ pc' # "flush"
        /\ history'.redone = history.redone /\ history'.missed = history.missed
    BY <1>2, <1>5 DEF ReadUsageFile, db, History
  <2>. QED  BY <1>1, <2>1, CellsQuiet
<1>6. CASE Crash
  BY <1>1, <1>6, CellsExit DEF Crash, db
<1>7. ASSUME NEW m, NEW p, ChangeCost(m, p) PROVE CellInv'
  BY <1>1, <1>7, CellsQuiet DEF ChangeCost
<1>8. ASSUME NEW c \in Client, ChangeClients(c) PROVE CellInv'
  <2>1. /\ UNCHANGED <<events, agg, built, lastKey, batch, pc>>
        /\ history'.redone = history.redone /\ history'.missed = history.missed
    BY <1>2, <1>8 DEF ChangeClients, History
  <2>. QED  BY <1>1, <2>1, CellsQuiet
<1>9. CASE UNCHANGED vars
  BY <1>1, <1>9, CellsQuiet DEF vars, db
<1>. QED  BY <1>1, <1>3, <1>4, <1>5, <1>6, <1>7, <1>8, <1>9, CellsImport, CellsScan, CellsFlush,
             CellsMark, CellsRecord DEF Next, Boot

LEMMA CellInvInitial == Init => CellInv
<1> SUFFICES ASSUME Init PROVE CellInv  OBVIOUS
<1>1. built = FALSE /\ lastKey = 0 /\ pc = "down" /\ agg = NoTotals /\ history.redone = 0
  BY DEF Init
<1>2. \A e \in events : e \in Nat /\ e >= 1
  BY TypedInitial, EventAssumption DEF Typed, StoreTyped, Event
<1>3. Added = {}
  BY <1>1, <1>2 DEF Added, Flushed
<1>4. ASSUME NEW c \in Cell
      PROVE  Within(Totals(InCell(c, {})), agg[c], 0, Totals(InCell(c, events)), Totals(InCell(c, {})))
  <2>1. InCell(c, {}) = {} /\ InCell(c, events) \in SUBSET Event
    BY TypedInitial DEF InCell, Typed, StoreTyped
  <2>2. agg[c] = Nothing
    BY <1>1 DEF NoTotals, Nothing
  <2>3. Totals(InCell(c, events)) \in Total
    BY <2>1, TotalsTyped
  <2> DEFINE t == Totals(InCell(c, events))
  <2>4. t.requests \in Nat /\ t.success \in Nat
    BY <2>3 DEF Total
  <2>5. Within(Nothing, Nothing, 0, t, Nothing)
    <3> HIDE DEF t
    <3>1. 0 * t.requests = 0 /\ 0 * t.success = 0
      BY <2>4
    <3>. QED  BY <3>1 DEF Within, AtMost, Nothing, Plus, Times
  <2>. QED  BY <2>1, <2>2, <2>5, NoTotal
<1>. QED  BY <1>1, <1>3, <1>4 DEF CellInv, Within

LEMMA CountInvariant == Spec => [](Typed /\ BackfillInv /\ CellInv)
<1>1. Init => Typed /\ BackfillInv /\ CellInv
  BY TypedInitial, BackfillInvInitial, CellInvInitial
<1>2. Typed /\ BackfillInv /\ CellInv /\ [Next]_vars => (Typed /\ BackfillInv /\ CellInv)'
  BY TypedInductive, BackfillInvInductive, CellInvInductive
<1>. QED  BY <1>1, <1>2, PTL DEF Spec
----------------------------------------------------------------------------
(* From the totals of the cells to what is read from them. *)

LEMMA CellsFinite == IsFiniteSet(Cell)
<1> DEFINE Hours == {Hour(TimeOf[e]) : e \in Event}
           f == [e \in Event |-> Hour(TimeOf[e])]
<1>1. f \in Surjection(Event, Hours)
  BY DEF Surjection
<1>2. IsFiniteSet(Event)
  BY EventsFinite
<1>3. IsFiniteSet(Hours)
  <2> HIDE DEF f, Hours
  <2>. QED  BY <1>1, <1>2, FS_Surjection
<1>. QED  BY <1>3, ClientAssumption, FS_Product DEF Cell

\* No event is later than the newest.
LEMMA NewestBounds ==
  ASSUME Typed
  PROVE  Newest \in Nat /\ \A e \in events : TimeOf[e] \in 0 .. Newest
<1> DEFINE S == {0} \cup {TimeOf[e] : e \in events}
<1>1. events \in SUBSET Event
  BY DEF Typed, StoreTyped
<1>2. \E x \in S : \A y \in S : x >= y
  <2>1. CASE events = {}
    BY <2>1
  <2>2. CASE events # {}
    <3> DEFINE m == Max(events)
    <3>1. m \in events /\ \A e \in events : e <= m
      BY <1>1, <2>2, MaxOfEvents
    <3> HIDE DEF m
    <3>2. TimeOf[m] \in Nat /\ \A e \in events : TimeOf[e] <= TimeOf[m] /\ TimeOf[e] \in Nat
      <4>1. ASSUME NEW e \in events PROVE TimeOf[e] <= TimeOf[m] /\ TimeOf[e] \in Nat
        <5>1. e \in Event /\ m \in Event /\ e \in Int /\ m \in Int /\ e <= m
          BY <1>1, <3>1 DEF Event
        <5>2. TimeOf[e] \in Nat /\ TimeOf[m] \in Nat
          BY <5>1, EventAssumption
        <5>3. CASE e = m
          BY <5>2, <5>3
        <5>4. CASE e # m
          BY <5>1, <5>2, <5>4, EventAssumption
        <5>. QED  BY <5>3, <5>4
      <4>. QED  BY <3>1, <4>1
    <3>. QED  BY <3>1, <3>2
  <2>. QED  BY <2>1, <2>2
<1>3. Newest \in S /\ \A y \in S : Newest >= y
  BY <1>2 DEF Newest, Max
<1>4. S \subseteq Nat
  BY <1>1, EventAssumption
<1>. QED  BY <1>3, <1>4

\* The sum over cells, while the program serves.
LEMMA SumsServed ==
  ASSUME Typed, BackfillInv, CellInv, pc = "serve", NEW C \in SUBSET Cell
  PROVE  /\ SumOf(C) \in Total
         /\ AtMost(Totals(Covered(C, events \ history.missed)), SumOf(C))
         /\ AtMost(SumOf(C), Times(1 + history.redone, Totals(Covered(C, events))))
<1>1. /\ events \in SUBSET Event /\ agg \in [Cell -> Total] /\ history.redone \in Nat
      /\ built /\ Added = events
  BY DEF Typed, StoreTyped, BoundTyped, History, BackfillInv, Added
<1>2. ASSUME NEW c \in C
      PROVE  /\ agg[c] \in Total
             /\ AtMost(Totals(InCell(c, events \ history.missed)), agg[c])
             /\ AtMost(agg[c], Times(1 + history.redone, Totals(InCell(c, events))))
  <2> DEFINE r == history.redone
             t == Totals(InCell(c, events))
  <2>1. agg[c] \in Total /\ t \in Total /\ r \in Nat
    <3>1. InCell(c, events) \in SUBSET Event
      BY <1>1 DEF InCell
    <3>. QED  BY <1>1, <3>1, TotalsTyped
  <2>2. AtMost(Totals(InCell(c, events \ history.missed)), agg[c]) /\ AtMost(agg[c], Plus(Times(r, t), t))
    BY <1>1 DEF CellInv
  <2> HIDE DEF r, t
  <2>3. Times(1 + r, t) = Plus(Times(r, t), t)
    <3>1. \A n \in Nat : (1 + r) * n = r * n + n
      BY <2>1
    <3>. QED  BY <2>1, <3>1 DEF Times, Plus, Total
  <2>. QED  BY <2>1, <2>2, <2>3 DEF r, t
<1>3. Bounded(C, events \ history.missed, events, 1 + history.redone)
  BY <1>2 DEF Bounded
<1>4. IsFiniteSet(C)
  BY CellsFinite, FS_Subset
<1>5. 1 + history.redone \in Nat /\ events \ history.missed \in SUBSET Event
  BY <1>1
<1>. QED  BY <1>1, <1>3, <1>4, <1>5, SumBounds

\* What is read is what the events say: of those that were not missed, each is
\* counted at least once and at most once more for every start that ended
\* between a batch and the marker.
THEOREM EveryEventIsCounted == Spec => []CountsEveryEvent
<1>1. Typed /\ BackfillInv /\ CellInv => CountsEveryEvent
  <2> SUFFICES ASSUME Typed, BackfillInv, CellInv, pc = "serve",
                      NEW from \in 0 .. Newest, NEW to \in from .. Newest
               PROVE  LET There(E) == Totals({e \in E : Hour(TimeOf[e]) \in Hour(from) .. Hour(to)})
                      IN /\ AtMost(There(events \ history.missed), Count(from, to))
                         /\ AtMost(Count(from, to), Times(1 + history.redone, There(events)))
    BY DEF CountsEveryEvent
  <2>1. events \in SUBSET Event
    BY DEF Typed, StoreTyped
  <2>2. ASSUME NEW E \in SUBSET events
        PROVE  {e \in E : Hour(TimeOf[e]) \in Hour(from) .. Hour(to)} = Covered(Between(from, to), E)
    BY <2>1, EventAssumption DEF Covered, Between, Cell
  <2>3. Between(from, to) \in SUBSET Cell
    BY DEF Between
  <2>. QED  BY <2>2, <2>3, SumsServed DEF Count
<1>. QED  BY <1>1, CountInvariant, PTL
----------------------------------------------------------------------------
(* Hours, days and windows. *)

LEMMA Floor ==
  ASSUME NEW t \in Int, NEW n \in Nat \ {0}
  PROVE  /\ t \div n \in Int /\ t % n \in Int
         /\ (t \div n) * n <= t /\ t < (t \div n) * n + n
         /\ t - (t % n) = (t \div n) * n
<1>1. t \div n \in Int /\ t % n \in 0 .. n-1  OBVIOUS
<1>2. t = n * (t \div n) + (t % n)  OBVIOUS
<1>3. n * (t \div n) = (t \div n) * n  BY <1>1
<1>. QED  BY <1>1, <1>2, <1>3

LEMMA ProductMonotone ==
  ASSUME NEW x \in Int, NEW y \in Int, NEW n \in Nat, x <= y
  PROVE  x * n \in Int /\ y * n \in Int /\ x * n <= y * n
<1>1. x * n \in Int /\ y * n \in Int  OBVIOUS
<1>2. (y - x) * n \in Nat  OBVIOUS
<1>3. y * n = x * n + (y - x) * n OBVIOUS
<1>. QED  BY <1>1, <1>2, <1>3

LEMMA Quotient ==
  ASSUME NEW t \in Int, NEW k \in Int, NEW n \in Nat \ {0}
  PROVE  k * n \in Int /\ (k * n <= t <=> k <= t \div n)
<1> DEFINE q == t \div n
<1>1. q \in Int /\ q * n \in Int /\ q * n <= t /\ t < q * n + n  BY Floor
<1> HIDE DEF q
<1>2. CASE k <= q
  BY <1>1, <1>2, ProductMonotone
<1>3. CASE ~(k <= q)
  <2>1. (q + 1) * n <= k * n /\ k * n \in Int  BY <1>1, <1>3, ProductMonotone
  <2>2. (q + 1) * n = q * n + n  BY <1>1
  <2>. QED  BY <1>1, <1>3, <2>1, <2>2
<1>. QED  BY <1>2, <1>3 DEF q

LEMMA Multiple ==
  ASSUME NEW t \in Int, NEW k \in Int, NEW n \in Nat \ {0}
  PROVE  k * n <= (t \div n) * n <=> k * n <= t
<1> DEFINE q == t \div n
<1>1. q \in Int /\ q * n <= t  BY Floor
<1>2. k * n <= t <=> k <= q  BY Quotient
<1>3. k * n \in Int /\ q * n \in Int  BY <1>1
<1> HIDE DEF q
<1>4. k <= q => k * n <= q * n  BY <1>1, ProductMonotone
<1>5. k * n <= q * n => k * n <= t  BY <1>1, <1>3
<1>. QED  BY <1>2, <1>4, <1>5 DEF q

\* Hours of a moment, and what begins with an hour.
LEMMA OnTheHour ==
  ASSUME NEW t \in Int, NEW k \in Int
  PROVE  /\ Hour(t) \in Int /\ k * HourLength \in Int /\ Hour(t) * HourLength \in Int
         /\ Hour(t) * HourLength <= t /\ t < Hour(t) * HourLength + HourLength
         /\ Hour(t) * HourLength >= k * HourLength <=> t >= k * HourLength
BY Floor, Multiple, Quotient, LengthAssumption DEF Hour

LEMMA HourMonotone ==
  ASSUME NEW s \in Int, NEW t \in Int, s <= t
  PROVE  Hour(s) <= Hour(t)
<1>1. Hour(s) \in Int /\ Hour(s) * HourLength <= s /\ Hour(s) * HourLength \in Int
  BY OnTheHour
<1>2. Hour(s) * HourLength <= t
  BY <1>1
<1>. QED  BY <1>1, <1>2, Quotient, LengthAssumption DEF Hour

\* Buckets have whole hours.
Lengths == {HourLength, DayLength}

LEMMA WholeHours ==
  ASSUME NEW length \in Lengths, NEW q \in Int
  PROVE  /\ length \in Nat \ {0} /\ q * length \in Int
         /\ \E k \in Int : q * length = k * HourLength
<1>1. HourLength \in Nat \ {0} /\ DayLength \in Nat \ {0}
  BY LengthAssumption
<1>2. CASE length = HourLength
  BY <1>1, <1>2
<1>3. CASE length = DayLength
  <2> DEFINE d == DayLength \div HourLength
  <2>1. d \in Int /\ DayLength = d * HourLength
    BY <1>1, Floor, LengthAssumption
  <2> HIDE DEF d
  <2>2. q * (d * HourLength) = (q * d) * HourLength /\ q * d \in Int
    BY <1>1, <2>1
  <2>. QED  BY <1>1, <1>3, <2>1, <2>2
<1>. QED  BY <1>2, <1>3 DEF Lengths

LEMMA BucketHolds ==
  ASSUME NEW length \in Lengths, NEW t \in Int, NEW h \in Int
  PROVE  /\ BucketStart(h, length) \in Int
         /\ BucketStart(Hour(t), length) = BucketStart(h, length)
              <=> t \in BucketStart(h, length) .. (BucketStart(h, length) + length - 1)
<1> DEFINE H == HourLength
           a == h * H
           b == a \div length
           s == Hour(t) * H
           q == s \div length
<1>1. H \in Nat \ {0} /\ length \in Nat \ {0} /\ a \in Int /\ s \in Int
  BY LengthAssumption, WholeHours, OnTheHour
<1>2. b \in Int /\ q \in Int /\ q * length <= s /\ s < q * length + length /\ q * length \in Int
  <2> HIDE DEF a, s, H
  <2>1. b \in Int /\ q \in Int /\ q * length <= s /\ s < q * length + length
    BY <1>1, Floor
  <2> HIDE DEF q
  <2>. QED  BY <1>1, <2>1
<1>3. b * length \in Int /\ (b + 1) * length = b * length + length
  BY <1>1, <1>2
<1>4. BucketStart(h, length) = b * length /\ BucketStart(Hour(t), length) = q * length
  BY DEF BucketStart
<1>5. (b * length <= s <=> b <= q) /\ ((b + 1) * length <= s <=> b + 1 <= q)
  <2> HIDE DEF b, s
  <2>. QED  BY <1>1, <1>2, Quotient
<1>6. (s >= b * length <=> t >= b * length) /\ (s >= (b + 1) * length <=> t >= (b + 1) * length)
  <2>1. PICK k \in Int : b * length = k * H
    BY <1>2, WholeHours
  <2>2. PICK l \in Int : (b + 1) * length = l * H
    <3>1. b + 1 \in Int
      BY <1>2
    <3>. QED  BY <3>1, WholeHours
  <2>3. (s >= k * H <=> t >= k * H) /\ (s >= l * H <=> t >= l * H)
    BY OnTheHour
  <2>. QED  BY <2>1, <2>2, <2>3
<1> HIDE DEF b, s, q, H
<1>7. q * length = b * length => q = b
  <2>1. q < b => (q + 1) * length <= b * length
    BY <1>1, <1>2, ProductMonotone
  <2>2. b < q => (b + 1) * length <= q * length
    BY <1>1, <1>2, ProductMonotone
  <2>3. (q + 1) * length = q * length + length
    BY <1>1, <1>2
  <2>. QED  BY <1>1, <1>2, <1>3, <2>1, <2>2, <2>3
<1>8. q = b <=> t \in b * length .. (b * length + length - 1)
  BY <1>1, <1>2, <1>3, <1>5, <1>6
<1>. QED  BY <1>3, <1>4, <1>7, <1>8
----------------------------------------------------------------------------
(* The reports, when no event was counted twice or missed. *)

Exact == \A C \in SUBSET Cell : SumOf(C) = Totals(Covered(C, events))

LEMMA SumsExact ==
  ASSUME Typed, BackfillInv, CellInv, pc = "serve", history.redone = 0, history.missed = {}
  PROVE  Exact
<1> SUFFICES ASSUME NEW C \in SUBSET Cell
             PROVE  SumOf(C) = Totals(Covered(C, events))
  BY DEF Exact
<1> DEFINE s == SumOf(C)
           t == Totals(Covered(C, events))
<1>1. Covered(C, events) \in SUBSET Event
  BY DEF Covered, Typed, StoreTyped
<1>2. events \ history.missed = events /\ 1 + history.redone = 1
  OBVIOUS
<1>3. s \in Total /\ t \in Total /\ AtMost(t, s) /\ AtMost(s, Times(1, t))
  BY <1>1, <1>2, SumsServed, TotalsTyped
<1> HIDE DEF s, t
<1>4. /\ s.requests \in Nat /\ t.requests \in Nat /\ s.success \in Nat /\ t.success \in Nat
      /\ t.requests <= s.requests /\ t.success <= s.success
      /\ s.requests <= 1 * t.requests /\ s.success <= 1 * t.success
  BY <1>3 DEF Total, AtMost, Times
<1>5. s.requests = t.requests /\ s.success = t.success
  BY <1>4
<1>6. s = [requests |-> s.requests, success |-> s.success]
      /\ t = [requests |-> t.requests, success |-> t.success]
  BY <1>3 DEF Total
<1>. QED  BY <1>5, <1>6 DEF s, t

\* An event and the cell it is in.
LEMMA EventInCell ==
  ASSUME Typed, NEW e \in events
  PROVE  /\ e \in Event /\ TimeOf[e] \in Nat /\ Newest \in Nat /\ TimeOf[e] <= Newest
         /\ Hour(TimeOf[e]) \in Int /\ ClientOf[e] \in Client
         /\ <<Hour(TimeOf[e]), ClientOf[e]>> \in Cell
<1>1. e \in Event /\ events \in SUBSET Event
  BY DEF Typed, StoreTyped
<1>2. TimeOf[e] \in Nat /\ ClientOf[e] \in Client
  BY <1>1, EventAssumption
<1>3. Newest \in Nat /\ TimeOf[e] \in 0 .. Newest
  BY NewestBounds
<1>4. TimeOf[e] <= Newest /\ Hour(TimeOf[e]) \in Int
  BY <1>2, <1>3, OnTheHour
<1>. QED  BY <1>1, <1>2, <1>3, <1>4 DEF Cell

LEMMA CellTyped ==
  ASSUME NEW c \in Cell
  PROVE  c[1] \in Int /\ c[2] \in Client /\ c = <<c[1], c[2]>>
<1>1. \A e \in Event : Hour(TimeOf[e]) \in Int
  BY OnTheHour, EventAssumption
<1>. QED  BY <1>1 DEF Cell

\* All events lie between the beginning and the newest.
LEMMA AllBetween ==
  ASSUME Typed, NEW e \in events
  PROVE  <<Hour(TimeOf[e]), ClientOf[e]>> \in Between(0, Newest)
<1> DEFINE t == TimeOf[e]
<1>1. t \in Nat /\ Newest \in Nat /\ t <= Newest /\ <<Hour(t), ClientOf[e]>> \in Cell
  BY EventInCell
<1> HIDE DEF t
<1>2. Hour(0) \in Int /\ Hour(t) \in Int /\ Hour(Newest) \in Int
  BY <1>1, OnTheHour
<1>3. Hour(0) <= Hour(t) /\ Hour(t) <= Hour(Newest)
  <2>1. 0 \in Int /\ t \in Int /\ Newest \in Int /\ 0 <= t
    BY <1>1
  <2>. QED  BY <1>1, <2>1, HourMonotone
<1>. QED  BY <1>1, <1>2, <1>3 DEF Between, t

\* Aggregate.
BucketsAgree(length, some) ==
  LET a == Aggregate(0, Newest, some, length)
      mine == {e \in events : ClientOf[e] \in some}
  IN /\ \A b \in DOMAIN a.buckets :
          a.buckets[b] = Totals({e \in mine : TimeOf[e] \in b .. (b + length - 1)})
     /\ \A e \in mine : BucketStart(Hour(TimeOf[e]), length) \in DOMAIN a.buckets
     /\ \A u \in DOMAIN a.byClient : a.byClient[u] = Totals({e \in mine : ClientOf[e] = u})

LEMMA Buckets ==
  ASSUME Typed, Exact, NEW length \in Lengths, NEW some
  PROVE  BucketsAgree(length, some)
<1> DEFINE a == Aggregate(0, Newest, some, length)
           mine == {e \in events : ClientOf[e] \in some}
           cells == {c \in Between(0, Newest) : c[2] \in some}
           Full == {d \in cells : agg[d].requests > 0}
           Starts == {BucketStart(c[1], length) : c \in Full}
           Of(b) == {c \in cells : BucketStart(c[1], length) = b}
           By(u) == {c \in cells : c[2] = u}
<1>0. a = [buckets |-> [b \in Starts |-> SumOf(Of(b))],
           byClient |-> [u \in {c[2] : c \in Full} |-> SumOf(By(u))]]
  BY DEF Aggregate
<1>1. /\ DOMAIN a.buckets = Starts /\ \A b \in Starts : a.buckets[b] = SumOf(Of(b))
      /\ \A u \in DOMAIN a.byClient : a.byClient[u] = SumOf(By(u))
  <2> HIDE DEF Starts, Of, By, Full, a
  <2>. QED  BY <1>0
<1>2. cells \in SUBSET Cell
  BY DEF Between
<1>3. \A e \in mine : /\ e \in events /\ TimeOf[e] \in Int
                      /\ <<Hour(TimeOf[e]), ClientOf[e]>> \in cells
  BY AllBetween, EventInCell
<1>4. \A b : Covered(Of(b), events) = {e \in mine : BucketStart(Hour(TimeOf[e]), length) = b}
  <2> HIDE DEF cells
  <2>1. \A e \in events : <<Hour(TimeOf[e]), ClientOf[e]>> \in cells => ClientOf[e] \in some
    BY DEF cells
  <2>. QED  BY <1>3, <2>1 DEF Covered
<1>5. \A u : Covered(By(u), events) = {e \in mine : ClientOf[e] = u}
  <2> HIDE DEF cells
  <2>1. \A e \in events : <<Hour(TimeOf[e]), ClientOf[e]>> \in cells => ClientOf[e] \in some
    BY DEF cells
  <2>. QED  BY <1>3, <2>1 DEF Covered
<1>6. ASSUME NEW b \in Starts
      PROVE  a.buckets[b] = Totals({e \in mine : TimeOf[e] \in b .. (b + length - 1)})
  <2>1. PICK c \in Full : b = BucketStart(c[1], length)
    OBVIOUS
  <2>2. c[1] \in Int
    BY <1>2, CellTyped
  <2>3. \A e \in mine : BucketStart(Hour(TimeOf[e]), length) = b
                          <=> TimeOf[e] \in b .. (b + length - 1)
    <3> HIDE DEF mine
    <3>. QED  BY <1>3, <2>1, <2>2, BucketHolds
  <2>4. a.buckets[b] = Totals(Covered(Of(b), events))
    <3>1. Of(b) \in SUBSET Cell
      BY <1>2
    <3>. QED  BY <1>1, <3>1 DEF Exact
  <2>5. {e \in mine : BucketStart(Hour(TimeOf[e]), length) = b}
          = {e \in mine : TimeOf[e] \in b .. (b + length - 1)}
    <3> HIDE DEF mine
    <3>. QED  BY <2>3
  <2>. QED  BY <1>4, <2>4, <2>5
<1>7. ASSUME NEW e \in mine
      PROVE  BucketStart(Hour(TimeOf[e]), length) \in Starts
  <2> DEFINE c == <<Hour(TimeOf[e]), ClientOf[e]>>
  <2>1. c \in cells /\ c \in Cell /\ c[1] = Hour(TimeOf[e]) /\ e \in events
    BY <1>2, <1>3
  <2>2. agg[c].requests > 0
    <3> HIDE DEF c
    <3>1. SumOf({c}) = Totals(InCell(c, events))
      <4>1. {c} \in SUBSET Cell /\ events \in SUBSET Event
        BY <2>1 DEF Typed, StoreTyped
      <4>. QED  BY <2>1, <4>1, InCellCovers DEF Exact
    <3>2. SumOf({c}) = agg[c]
      BY <2>1, SumOfOne DEF Typed, StoreTyped
    <3>3. InCell(c, events) \in SUBSET Event /\ e \in InCell(c, events)
      BY <2>1 DEF InCell, Typed, StoreTyped, c
    <3>4. Cardinality(InCell(c, events)) > 0
      <4>1. IsFiniteSet(InCell(c, events)) /\ Cardinality(InCell(c, events)) \in Nat
        BY <3>3, EventsFinite
      <4>2. Cardinality(InCell(c, events)) # 0
        BY <3>3, <4>1, FS_EmptySet
      <4>. QED  BY <4>1, <4>2
    <3>. QED  BY <3>1, <3>2, <3>4 DEF Totals
  <2>. QED  BY <2>1, <2>2
<1>8. ASSUME NEW u \in DOMAIN a.byClient
      PROVE  a.byClient[u] = Totals({e \in mine : ClientOf[e] = u})
  <2>1. By(u) \in SUBSET Cell
    BY <1>2
  <2>. QED  BY <1>1, <1>5, <2>1 DEF Exact
<1>. QED  BY <1>1, <1>6, <1>7, <1>8 DEF BucketsAgree

\* Summary: the window of the totals from one moment to before another.
Window(now, from, to) ==
  {c \in Between(now - Month, now) :
     c[1] * HourLength >= from /\ c[1] * HourLength < to /\ c[1] * HourLength >= now - Month}
Covers(now, from, to) == Covered(Window(now, from, to), events)
Day(now) == (now \div DayLength) * DayLength

LEMMA SummaryExact ==
  ASSUME Exact, NEW now
  PROVE  /\ Summary(now).today = Totals(Covers(now, Day(now), now + 1))
         /\ Summary(now).yesterday = Totals(Covers(now, Day(now) - DayLength, Day(now)))
         /\ Summary(now).week = Totals(Covers(now, now - Week, now + 1))
         /\ Summary(now).month = Totals(Covers(now, now - Month, now + 1))
<1>1. \A from, to : Window(now, from, to) \in SUBSET Cell
  BY DEF Window, Between
<1>2. \A from, to : SumOf(Window(now, from, to)) = Totals(Covers(now, from, to))
  BY <1>1 DEF Exact, Covers
<1>3. /\ Summary(now).today = SumOf(Window(now, Day(now), now + 1))
      /\ Summary(now).yesterday = SumOf(Window(now, Day(now) - DayLength, Day(now)))
      /\ Summary(now).week = SumOf(Window(now, now - Week, now + 1))
      /\ Summary(now).month = SumOf(Window(now, now - Month, now + 1))
  BY DEF Summary, Window, Day
<1>. QED  BY <1>2, <1>3

\* The hours of a moment that are within a window, in numbers.
InWindow(now, from, to, t) ==
  /\ Hour(t) * HourLength >= from /\ Hour(t) * HourLength < to
  /\ Hour(t) * HourLength >= now - Month

LEMMA CoversHours ==
  ASSUME Typed, NEW now \in Int, Newest <= now, NEW from, NEW to
  PROVE  Covers(now, from, to) = {e \in events : InWindow(now, from, to, TimeOf[e])}
<1>1. ASSUME NEW e \in events, InWindow(now, from, to, TimeOf[e])
      PROVE  <<Hour(TimeOf[e]), ClientOf[e]>> \in Between(now - Month, now)
  <2> DEFINE t == TimeOf[e]
  <2>1. t \in Nat /\ Newest \in Nat /\ t <= Newest /\ <<Hour(t), ClientOf[e]>> \in Cell
    BY EventInCell
  <2>2. Hour(t) * HourLength >= now - Month
    BY <1>1 DEF InWindow
  <2> HIDE DEF t
  <2>3. Month \in Nat /\ now - Month \in Int /\ t <= now /\ t \in Int /\ Hour(t) * HourLength <= t
    <3>1. Month \in Nat
      BY LengthAssumption
    <3>2. t \in Int /\ t <= now
      BY <2>1
    <3>. QED  BY <3>1, <3>2, OnTheHour
  <2>4. now - Month <= t
    BY <2>2, <2>3, OnTheHour
  <2>5. Hour(now - Month) <= Hour(t) /\ Hour(t) <= Hour(now)
    BY <2>3, <2>4, HourMonotone
  <2>6. Hour(now - Month) \in Int /\ Hour(t) \in Int /\ Hour(now) \in Int
    BY <2>3, OnTheHour
  <2>. QED  BY <2>1, <2>5, <2>6 DEF Between, t
<1>. QED  BY <1>1 DEF Covers, Covered, Window, InWindow

\* Days begin with an hour, at most a day ago.
LEMMA DayBounds ==
  ASSUME NEW now \in Int
  PROVE  /\ Day(now) \in Int /\ DayLength \in Nat /\ now - (now % DayLength) = Day(now)
         /\ Day(now) <= now /\ now < Day(now) + DayLength
         /\ \E k \in Int : Day(now) = k * HourLength
         /\ \E k \in Int : Day(now) - DayLength = k * HourLength
<1> DEFINE q == now \div DayLength
<1>1. DayLength \in Nat \ {0} /\ DayLength \in Lengths
  BY LengthAssumption DEF Lengths
<1>2. q \in Int /\ q * DayLength <= now /\ now < q * DayLength + DayLength
      /\ now - (now % DayLength) = q * DayLength
  BY <1>1, Floor
<1>3. Day(now) = q * DayLength
  BY DEF Day
<1> HIDE DEF q
<1>4. q * DayLength \in Int /\ (q - 1) * DayLength = q * DayLength - DayLength /\ q - 1 \in Int
  BY <1>1, <1>2
<1>5. \E k \in Int : q * DayLength = k * HourLength
  BY <1>1, <1>2, WholeHours
<1>6. \E k \in Int : (q - 1) * DayLength = k * HourLength
  BY <1>1, <1>4, WholeHours
<1>. QED  BY <1>1, <1>2, <1>3, <1>4, <1>5, <1>6

\* Where a window begins with an hour, it has what happened since.
LEMMA FromTheHour ==
  ASSUME NEW t \in Int, NEW from, \E k \in Int : from = k * HourLength
  PROVE  Hour(t) * HourLength >= from <=> t >= from
BY OnTheHour

WindowsAgree(now) ==
  LET s == Summary(now)  day == now - (now % DayLength)
  IN /\ s.today = Totals(Since(day))
     /\ s.yesterday = Totals(Since(day - DayLength) \ Since(day))
     /\ AtMost(s.week, Totals(Since(now - Week)))
     /\ AtMost(Totals(Since(now - Week + HourLength)), s.week)
     /\ AtMost(s.week, s.month)

LEMMA Windows ==
  ASSUME Typed, Exact, NEW now \in Newest .. Newest + DayLength
  PROVE  WindowsAgree(now)
<1> DEFINE day == Day(now)
           H == HourLength
<1>1. now \in Int /\ Newest <= now /\ Newest \in Nat /\ events \in SUBSET Event
  <2>1. Newest \in Nat /\ DayLength \in Nat
    BY NewestBounds, LengthAssumption
  <2>2. now \in Newest .. Newest + DayLength
    OBVIOUS
  <2>3. now \in Int /\ Newest <= now
    BY <2>1, <2>2
  <2>. QED  BY <2>1, <2>3 DEF Typed, StoreTyped
<1>2. /\ day \in Int /\ DayLength \in Nat /\ now - (now % DayLength) = day
      /\ day <= now /\ now < day + DayLength
      /\ \E k \in Int : day = k * HourLength
      /\ \E k \in Int : day - DayLength = k * HourLength
  BY <1>1, DayBounds
<1>3. /\ H \in Nat /\ Week \in Nat /\ Month \in Nat
      /\ DayLength <= Week /\ Week <= Month /\ 2 * DayLength <= Month
  BY LengthAssumption
<1>4. ASSUME NEW e \in events
      PROVE  /\ TimeOf[e] \in Int /\ TimeOf[e] <= now
             /\ Hour(TimeOf[e]) * H \in Int /\ Hour(TimeOf[e]) * H <= TimeOf[e]
             /\ TimeOf[e] < Hour(TimeOf[e]) * H + H
             /\ Hour(TimeOf[e]) * H >= day <=> TimeOf[e] >= day
             /\ Hour(TimeOf[e]) * H >= day - DayLength <=> TimeOf[e] >= day - DayLength
  <2>1. TimeOf[e] \in Int /\ TimeOf[e] <= now
    <3>1. TimeOf[e] \in Nat /\ Newest \in Nat /\ TimeOf[e] <= Newest
      BY EventInCell
    <3>. QED  BY <1>1, <3>1
  <2>. QED  BY <1>2, <2>1, OnTheHour, FromTheHour
<1> HIDE DEF day
<1>5. Covers(now, day, now + 1) = Since(day)
  <2>1. ASSUME NEW e \in events
        PROVE  InWindow(now, day, now + 1, TimeOf[e]) <=> TimeOf[e] >= day
    <3> DEFINE t == TimeOf[e]
               h == Hour(t) * H
    <3>1. /\ t \in Int /\ t <= now /\ h \in Int /\ h <= t /\ (h >= day <=> t >= day)
      BY <1>4
    <3>2. InWindow(now, day, now + 1, t) <=> h >= day /\ h < now + 1 /\ h >= now - Month
      BY DEF InWindow
    <3> HIDE DEF h, t
    <3>. QED  BY <1>1, <1>2, <1>3, <3>1, <3>2 DEF t
  <2>. QED  BY <1>1, <2>1, CoversHours DEF Since
<1>6. Covers(now, day - DayLength, day) = Since(day - DayLength) \ Since(day)
  <2>1. ASSUME NEW e \in events
        PROVE  InWindow(now, day - DayLength, day, TimeOf[e])
                 <=> TimeOf[e] >= day - DayLength /\ ~(TimeOf[e] >= day)
    <3> DEFINE t == TimeOf[e]
               h == Hour(t) * H
    <3>1. /\ t \in Int /\ h \in Int /\ h <= t /\ (h >= day <=> t >= day)
          /\ h >= day - DayLength <=> t >= day - DayLength
      BY <1>4
    <3>2. InWindow(now, day - DayLength, day, t) <=> h >= day - DayLength /\ h < day /\ h >= now - Month
      BY DEF InWindow
    <3> HIDE DEF h, t
    <3>. QED  BY <1>1, <1>2, <1>3, <3>1, <3>2 DEF t
  <2>. QED  BY <1>1, <2>1, CoversHours DEF Since
<1>7. /\ Covers(now, now - Week, now + 1) \in SUBSET Since(now - Week)
      /\ Since(now - Week + H) \in SUBSET Covers(now, now - Week, now + 1)
      /\ Covers(now, now - Week, now + 1) \in SUBSET Covers(now, now - Month, now + 1)
  <2>1. ASSUME NEW e \in events
        PROVE  /\ InWindow(now, now - Week, now + 1, TimeOf[e]) => TimeOf[e] >= now - Week
               /\ TimeOf[e] >= now - Week + H => InWindow(now, now - Week, now + 1, TimeOf[e])
               /\ InWindow(now, now - Week, now + 1, TimeOf[e])
                    => InWindow(now, now - Month, now + 1, TimeOf[e])
    <3> DEFINE t == TimeOf[e]
               h == Hour(t) * H
    <3>1. t \in Int /\ t <= now /\ h \in Int /\ h <= t /\ t < h + H
      BY <1>4
    <3>2. \A from : InWindow(now, from, now + 1, t) <=> h >= from /\ h < now + 1 /\ h >= now - Month
      BY DEF InWindow
    <3> HIDE DEF h, t
    <3>. QED  BY <1>1, <1>3, <3>1, <3>2 DEF t
  <2>. QED  BY <1>1, <2>1, CoversHours DEF Since
<1>8. \A from : Since(from) \in SUBSET Event /\ \A to : Covers(now, from, to) \in SUBSET Event
  BY <1>1 DEF Since, Covers, Covered
<1> DEFINE s == Summary(now)
<1>9. s.today = Totals(Since(day)) /\ s.yesterday = Totals(Since(day - DayLength) \ Since(day))
  BY <1>5, <1>6, SummaryExact DEF day
<1>10. s.week = Totals(Covers(now, now - Week, now + 1)) /\ s.month = Totals(Covers(now, now - Month, now + 1))
  BY SummaryExact
<1> HIDE DEF s
<1>11. AtMost(s.week, Totals(Since(now - Week))) /\ AtMost(Totals(Since(now - Week + H)), s.week)
       /\ AtMost(s.week, s.month)
  BY <1>7, <1>8, <1>10, TotalsMonotone
<1>. QED  BY <1>2, <1>9, <1>11 DEF WindowsAgree, s

\* While nothing was counted twice or missed, the reports say what the events
\* say: buckets and clients, today, yesterday, the week and the month.
THEOREM ReportsAreTrue == Spec => []ReportsAgree
<1>1. Typed /\ BackfillInv /\ CellInv => ReportsAgree
  <2> SUFFICES ASSUME Typed, BackfillInv, CellInv, pc = "serve",
                      history.redone = 0, history.missed = {}
               PROVE  ReportsAgree
    BY DEF ReportsAgree
  <2>1. Exact
    BY SumsExact
  <2>2. \A length \in {HourLength, DayLength}, some \in {{c} : c \in Client} \cup {Client} :
          BucketsAgree(length, some)
    BY <2>1, Buckets DEF Lengths
  <2>3. \A now \in Newest .. Newest + DayLength : WindowsAgree(now)
    BY <2>1, Windows
  <2>. QED  BY <2>2, <2>3 DEF ReportsAgree, BucketsAgree, WindowsAgree
<1>. QED  BY <1>1, CountInvariant, PTL
=============================================================================
