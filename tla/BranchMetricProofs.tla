------------------------- MODULE BranchMetricProofs -------------------------
(* The costs of a step, for every code, every channel and every stream:    *)
(* the fast form of the forward pass is the general one, no path dies but  *)
(* of an erasure that the channel rules out, and what a node holds is the  *)
(* cost of the cheapest of all paths there.                                *)
EXTENDS BranchMetric, Induction, SequenceTheorems

----------------------------------------------------------------------------
(* Costs.                                                                  *)

LEMMA InfiniteIsCost == Infinite \in Nat /\ Infinite > 0
  BY DEF Infinite

LEMMA PlusFacts ==
    ASSUME NEW a \in Nat, NEW b \in Nat
    PROVE  /\ Plus(a, b) \in Nat
           /\ Plus(a, b) < Infinite => a < Infinite /\ b < Infinite /\ Plus(a, b) = a + b
           /\ a < Infinite /\ b < Infinite => Plus(a, b) = a + b
           /\ a >= Infinite \/ b >= Infinite => Plus(a, b) = Infinite
  BY DEF Plus, Infinite

\* The least of a set of costs is one of them, or Infinite.
LEMMA LeastFacts ==
    ASSUME NEW costs \in SUBSET Nat
    PROVE  /\ Least(costs) \in Nat /\ Least(costs) <= Infinite
           /\ Least(costs) \in costs \cup {Infinite}
           /\ \A c \in costs : Least(costs) <= c
<1>1. costs \cup {Infinite} \subseteq Nat /\ costs \cup {Infinite} # {}
  BY InfiniteIsCost
<1>2. \E m \in costs \cup {Infinite} : \A c \in costs \cup {Infinite} : m <= c
  BY <1>1, LeastExists
<1>3. /\ Least(costs) \in costs \cup {Infinite}
      /\ \A c \in costs \cup {Infinite} : Least(costs) <= c
  BY <1>2 DEF Least, Min
<1> QED
  BY <1>1, <1>3

LEMMA LeastIs ==
    ASSUME NEW costs \in SUBSET Nat, NEW m \in costs, m <= Infinite,
           \A c \in costs : m <= c
    PROVE  Least(costs) = m
<1>1. /\ Least(costs) \in Nat /\ Least(costs) <= m
      /\ Least(costs) \in costs \cup {Infinite} /\ m \in Nat
  BY LeastFacts
<1>2. m <= Least(costs)
  BY <1>1
<1> QED
  BY <1>1, <1>2

LEMMA LeastOfDead ==
    ASSUME NEW costs \in SUBSET Nat, \A c \in costs : c >= Infinite
    PROVE  Least(costs) = Infinite
<1>1. /\ Least(costs) \in Nat /\ Least(costs) <= Infinite
      /\ Least(costs) \in costs \cup {Infinite}
  BY LeastFacts
<1> QED
  BY <1>1, InfiniteIsCost

----------------------------------------------------------------------------
(* The rows of align_fill_into.                                            *)

Given == channel \in Channels /\ received \in Streams

Reach == N + 2 * channel.max_drift

LEMMA ReachFacts ==
    ASSUME Given
    PROVE  /\ Reach \in Nat /\ Reach >= N /\ N \in Nat \ {0}
           /\ channel.max_drift \in Nat
           /\ channel.cost_match \in Nat /\ channel.cost_miss \in Nat
           /\ channel.cost_erase \in Nat /\ channel.cost_keep \in Nat
           /\ channel.cost_ins \in Nat /\ channel.cost_del \in Nat
           /\ Consumed = [c \in 1 .. Reach |-> c]
           /\ received \in Seq({0, 1, Erasure})
<1>1. channel \in Settings /\ N \in Nat \ {0} /\ received \in Seq({0, 1, Erasure})
  BY MetricAssumption DEF Given
<1>2. channel.max_drift \in Nat
  BY <1>1 DEF Settings
<1> QED
  BY <1>1, <1>2 DEF Settings, Cost, Reach, Consumed

RowCosts == [1 .. (Reach + 1) -> Nat]
Started == {row \in Seq(Nat) : row # << >>}

LEMMA AppendStarted ==
    ASSUME NEW row \in Started, NEW x \in Nat
    PROVE  /\ Last(row) \in Nat /\ Append(row, x) \in Started
           /\ Len(Append(row, x)) = Len(row) + 1
           /\ Last(Append(row, x)) = x
           /\ \A i \in 1 .. Len(row) : Append(row, x)[i] = row[i]
<1>1. row \in Seq(Nat) /\ row # << >> /\ Len(row) \in Nat /\ Len(row) > 0
  <2>1. row \in Seq(Nat) /\ row # << >>
    BY DEF Started
  <2> QED
    BY <2>1, EmptySeq
<1>2. Append(row, x) \in Seq(Nat) /\ Len(Append(row, x)) = Len(row) + 1
  BY <1>1
<1>3. Append(row, x)[Len(row) + 1] = x
  BY <1>1
<1>4. Append(row, x) # << >>
  BY <1>1, <1>2
<1> QED
  BY <1>1, <1>2, <1>3, <1>4 DEF Started, Last

TopCost(left, place) ==
    IF InRange(place) THEN Plus(left, channel.cost_ins) ELSE Infinite

TopUnfolds(h, base) ==
    h = [s \in SUBSET DOMAIN Consumed |->
            IF s = {} THEN <<0>>
            ELSE Append(h[s \ {Max(s)}],
                        TopCost(Last(h[s \ {Max(s)}]), base + Consumed[Max(s)] - 1))]

LEMMA TopRowIsChosen ==
    ASSUME NEW base
    PROVE  TopRow(base) = (CHOOSE h : TopUnfolds(h, base))[DOMAIN Consumed]
  BY DEF TopRow, FoldLeft, MapThenFoldSet, TopUnfolds, TopCost

RowUnfolds(h, above, bit, base) ==
    h = [s \in SUBSET DOMAIN Consumed |->
            IF s = {} THEN <<Plus(above[1], channel.cost_del)>>
            ELSE Append(h[s \ {Max(s)}],
                        Cell(Last(h[s \ {Max(s)}]), above, Consumed[Max(s)], bit,
                             base + Consumed[Max(s)] - 1))]

NextRow(above, bit, base) ==
    FoldLeft(LAMBDA row, c : Append(row, Cell(Last(row), above, c, bit, base + c - 1)),
             <<Plus(above[1], channel.cost_del)>>, Consumed)

LEMMA NextRowIsChosen ==
    ASSUME NEW above, NEW bit, NEW base
    PROVE  NextRow(above, bit, base) =
               (CHOOSE h : RowUnfolds(h, above, bit, base))[DOMAIN Consumed]
  BY DEF NextRow, FoldLeft, MapThenFoldSet, RowUnfolds

FillUnfolds(h, expected, base) ==
    h = [s \in SUBSET DOMAIN expected |->
            IF s = {} THEN TopRow(base)
            ELSE NextRow(h[s \ {Max(s)}], expected[Max(s)], base)]

LEMMA AlignFillIsChosen ==
    ASSUME NEW expected, NEW base
    PROVE  AlignFill(expected, base) =
               (CHOOSE h : FillUnfolds(h, expected, base))[DOMAIN expected]
  BY DEF AlignFill, FoldLeft, MapThenFoldSet, FillUnfolds, NextRow

\* A row that starts with `first` and goes on by G.
RowBy(row, first, G, k) ==
    /\ row \in Started /\ Len(row) = k + 1
    /\ row[1] = first
    /\ \A c \in 1 .. k : row[c + 1] = G[<<row[c], c>>]

\* h builds its rows by G, as far as they are rows.
Grows(h, first, G, n) ==
    /\ h[{}] = <<first>>
    /\ \A s \in SUBSET (1 .. n) :
          s # {} /\ h[s \ {Max(s)}] \in Started =>
              h[s] = Append(h[s \ {Max(s)}], G[<<Last(h[s \ {Max(s)}]), Max(s)>>])

LEMMA GrowerExists ==
    ASSUME NEW n \in Nat, NEW first \in Nat, NEW G \in [Nat \X (1 .. n) -> Nat]
    PROVE  \E h \in [SUBSET (1 .. n) -> Started] : Grows(h, first, G, n)
<1> DEFINE F == [p \in Started \X (1 .. n) |-> Append(p[1], G[<<Last(p[1]), p[2]>>])]
<1>1. IsFiniteSet(1 .. n)
  BY FS_Interval
<1>2. <<first>> \in Started
  BY DEF Started
<1>3. F \in [Started \X (1 .. n) -> Started]
  <2> SUFFICES ASSUME NEW row \in Started, NEW c \in 1 .. n
               PROVE  Append(row, G[<<Last(row), c>>]) \in Started
    OBVIOUS
  <2>1. Last(row) \in Nat
    BY AppendStarted
  <2>2. G[<<Last(row), c>>] \in Nat
    BY <2>1
  <2> QED
    BY <2>2, AppendStarted
<1>4. \E h \in [SUBSET (1 .. n) -> Started] : FoldsBy(h, F, <<first>>, Top(n), 1 .. n)
  <2> HIDE DEF F
  <2> QED
    BY <1>1, <1>2, <1>3, TopPicks, FoldExists
<1>5. PICK h \in [SUBSET (1 .. n) -> Started] : FoldsBy(h, F, <<first>>, Top(n), 1 .. n)
  BY <1>4
<1>6. h[{}] = <<first>>
  <2>1. {} \in SUBSET (1 .. n)
    OBVIOUS
  <2> QED
    BY <1>5, <2>1 DEF FoldsBy, FoldOf
<1>7. ASSUME NEW s \in SUBSET (1 .. n), s # {}
      PROVE  h[s] = Append(h[s \ {Max(s)}], G[<<Last(h[s \ {Max(s)}]), Max(s)>>])
  <2>1. Top(n)[s] = Max(s) /\ Max(s) \in 1 .. n
    BY <1>7, MaxOfPart DEF Top
  <2>2. h[s] = F[<<h[s \ {Max(s)}], Max(s)>>]
    <3> HIDE DEF F
    <3> QED
      BY <1>5, <1>7, <2>1 DEF FoldsBy, FoldOf
  <2>3. h[s \ {Max(s)}] \in Started
    OBVIOUS
  <2> QED
    BY <2>1, <2>2, <2>3
<1> QED
  BY <1>6, <1>7 DEF Grows

LEMMA GrownRow ==
    ASSUME NEW n \in Nat, NEW first \in Nat, NEW G \in [Nat \X (1 .. n) -> Nat],
           NEW h, Grows(h, first, G, n)
    PROVE  \A k \in 0 .. n : RowBy(h[1 .. k], first, G, k)
<1> DEFINE T == {k \in Nat : k <= n => RowBy(h[1 .. k], first, G, k)}
<1>1. 0 \in T
  <2>1. 1 .. 0 = {} /\ h[{}] = <<first>>
    BY DEF Grows
  <2>2. <<first>> \in Started /\ Len(<<first>>) = 0 + 1 /\ <<first>>[1] = first
    BY DEF Started
  <2>3. RowBy(<<first>>, first, G, 0)
    BY <2>2 DEF RowBy
  <2> QED
    BY <2>1, <2>3
<1>2. ASSUME NEW k \in Nat, k \in T PROVE k + 1 \in T
  <2> SUFFICES ASSUME k + 1 <= n PROVE RowBy(h[1 .. (k + 1)], first, G, k + 1)
    OBVIOUS
  <2> DEFINE row == h[1 .. k]
             x == G[<<Last(row), k + 1>>]
             next == h[1 .. (k + 1)]
  <2>1. RowBy(row, first, G, k)
    BY <1>2
  <2>2. k + 1 \in 1 .. n /\ (k + 1) - 1 = k
    OBVIOUS
  <2>3. /\ 1 .. (k + 1) \in SUBSET (1 .. n) /\ 1 .. (k + 1) # {}
        /\ Max(1 .. (k + 1)) = k + 1 /\ (1 .. (k + 1)) \ {k + 1} = 1 .. k
    BY <2>2, IntervalPeels
  <2>4. row \in Started /\ Len(row) = k + 1
    BY <2>1 DEF RowBy
  <2>5. next = Append(row, x)
    BY <2>3, <2>4 DEF Grows
  <2>6. Last(row) \in Nat
    BY <2>4, AppendStarted
  <2>7. x \in Nat
    BY <2>2, <2>6
  <2> HIDE DEF next, x, row
  <2>8. /\ next \in Started /\ Len(next) = (k + 1) + 1
        /\ \A i \in 1 .. (k + 1) : next[i] = row[i]
        /\ Last(next) = x
    BY <2>4, <2>5, <2>7, AppendStarted
  <2>9. next[(k + 1) + 1] = G[<<row[k + 1], k + 1>>]
    BY <2>4, <2>8 DEF Last, x
  <2>10. ASSUME NEW c \in 1 .. (k + 1) PROVE next[c + 1] = G[<<next[c], c>>]
    <3>1. CASE c = k + 1
      BY <2>8, <2>9, <3>1
    <3>2. CASE c # k + 1
      <4>1. c \in 1 .. k /\ c \in 1 .. (k + 1) /\ c + 1 \in 1 .. (k + 1)
        BY <3>2
      <4>2. row[c + 1] = G[<<row[c], c>>]
        BY <2>1, <4>1 DEF RowBy
      <4> QED
        BY <2>8, <4>1, <4>2
    <3> QED
      BY <3>1, <3>2
  <2>11. next[1] = first
    <3>1. 1 \in 1 .. (k + 1)
      OBVIOUS
    <3> QED
      BY <2>1, <2>8, <3>1 DEF RowBy
  <2>12. RowBy(next, first, G, k + 1)
    BY <2>8, <2>10, <2>11 DEF RowBy
  <2> QED
    BY <2>12 DEF next
<1>3. Nat \subseteq T
  <2> HIDE DEF T
  <2> QED
    BY <1>1, <1>2, NumberInduction
<1> QED
  BY <1>3

LEMMA TopCostType ==
    ASSUME Given, NEW left \in Nat, NEW place \in Int
    PROVE  TopCost(left, place) \in Nat
  BY ReachFacts, PlusFacts, InfiniteIsCost DEF TopCost

LEMMA MatchCostType ==
    ASSUME Given, NEW bit \in {0, 1}, NEW place \in Int, InRange(place)
    PROVE  MatchCost(bit, place) \in Nat
<1>1. received[place + 1] \in {0, 1, Erasure}
  BY ReachFacts DEF InRange
<1> DEFINE price == CASE received[place + 1] = Erasure -> channel.cost_erase
                      [] received[place + 1] = bit -> channel.cost_match
                      [] OTHER -> channel.cost_miss
<1>2. price \in Nat
  BY <1>1, ReachFacts DEF Erasure
<1>3. MatchCost(bit, place) = Plus(channel.cost_keep, price)
  BY DEF MatchCost
<1> HIDE DEF price
<1>4. channel.cost_keep \in Nat
  BY ReachFacts
<1> QED
  BY <1>2, <1>3, <1>4, PlusFacts

\* What one cell is the least of.
Offers(left, above, c, bit, place) ==
    {Plus(above[c + 1], channel.cost_del)} \cup
    (IF InRange(place)
     THEN {Plus(above[c], MatchCost(bit, place)), Plus(left, channel.cost_ins)}
     ELSE {})

LEMMA CellFacts ==
    ASSUME Given, NEW left \in Nat, NEW above \in RowCosts, NEW c \in 1 .. Reach,
           NEW bit \in {0, 1}, NEW place \in Int
    PROVE  /\ Offers(left, above, c, bit, place) \in SUBSET Nat
           /\ Cell(left, above, c, bit, place) = Least(Offers(left, above, c, bit, place))
           /\ Cell(left, above, c, bit, place) \in Nat
           /\ Cell(left, above, c, bit, place) <= Infinite
<1>1. above[c] \in Nat /\ above[c + 1] \in Nat
  <2>1. Reach \in Nat
    BY ReachFacts
  <2>2. c \in 1 .. (Reach + 1) /\ c + 1 \in 1 .. (Reach + 1)
    BY <2>1
  <2> QED
    BY <2>2 DEF RowCosts
<1>2. Plus(above[c + 1], channel.cost_del) \in Nat /\ Plus(left, channel.cost_ins) \in Nat
  BY <1>1, ReachFacts, PlusFacts
<1>3. InRange(place) => Plus(above[c], MatchCost(bit, place)) \in Nat
  BY <1>1, MatchCostType, PlusFacts
<1>4. Offers(left, above, c, bit, place) \in SUBSET Nat
  BY <1>2, <1>3 DEF Offers
<1>5. Cell(left, above, c, bit, place) = Least(Offers(left, above, c, bit, place))
  BY DEF Cell, Offers
<1> QED
  BY <1>4, <1>5, LeastFacts

IsTopRow(row, base) ==
    /\ row \in RowCosts
    /\ row[1] = 0
    /\ \A c \in 1 .. Reach : row[c + 1] = TopCost(row[c], base + c - 1)

IsNextRow(row, above, bit, base) ==
    /\ row \in RowCosts
    /\ row[1] = Plus(above[1], channel.cost_del)
    /\ \A c \in 1 .. Reach : row[c + 1] = Cell(row[c], above, c, bit, base + c - 1)

LEMMA StartedIsRow ==
    ASSUME Given, NEW row \in Started, Len(row) = Reach + 1
    PROVE  row \in RowCosts
  BY ReachFacts, SMTT(30) DEF Started, RowCosts

LEMMA ConsumedIs ==
    ASSUME Given
    PROVE  DOMAIN Consumed = 1 .. Reach /\ \A c \in 1 .. Reach : Consumed[c] = c
  BY ReachFacts

LEMMA TopRowFacts ==
    ASSUME Given, NEW base \in Int
    PROVE  IsTopRow(TopRow(base), base)
<1> DEFINE G == [p \in Nat \X (1 .. Reach) |-> TopCost(p[1], base + p[2] - 1)]
           h == CHOOSE k : TopUnfolds(k, base)
<1>0. Reach \in Nat /\ 0 \in Nat
  BY ReachFacts
<1>1. G \in [Nat \X (1 .. Reach) -> Nat]
  <2>1. \A left \in Nat, c \in 1 .. Reach : TopCost(left, base + c - 1) \in Nat
    BY <1>0, TopCostType
  <2> QED
    BY <2>1
<1>2. \A left \in Nat, c \in 1 .. Reach : G[<<left, c>>] = TopCost(left, base + c - 1)
  OBVIOUS
<1>3. \A s \in SUBSET (1 .. Reach) : s # {} => Max(s) \in 1 .. Reach /\ Consumed[Max(s)] = Max(s)
  BY <1>0, ConsumedIs, MaxOfPart
<1>4. \E k : TopUnfolds(k, base)
  <2>1. PICK k \in [SUBSET (1 .. Reach) -> Started] : Grows(k, 0, G, Reach)
    <3> HIDE DEF G
    <3> QED
      BY <1>0, <1>1, GrowerExists
  <2>2. ASSUME NEW s \in SUBSET (1 .. Reach)
        PROVE  k[s] = IF s = {} THEN <<0>>
                      ELSE Append(k[s \ {Max(s)}],
                                  TopCost(Last(k[s \ {Max(s)}]), base + Consumed[Max(s)] - 1))
    <3>1. CASE s = {}
      BY <2>1, <3>1 DEF Grows
    <3>2. CASE s # {}
      <4>1. k[s \ {Max(s)}] \in Started
        OBVIOUS
      <4>2. Last(k[s \ {Max(s)}]) \in Nat
        BY <4>1, AppendStarted
      <4>3. k[s] = Append(k[s \ {Max(s)}], G[<<Last(k[s \ {Max(s)}]), Max(s)>>])
        BY <2>1, <3>2, <4>1 DEF Grows
      <4> HIDE DEF G
      <4> QED
        BY <1>2, <1>3, <3>2, <4>2, <4>3
    <3> QED
      BY <3>1, <3>2
  <2>3. k = [s \in SUBSET (1 .. Reach) |-> k[s]]
    OBVIOUS
  <2>4. [s \in SUBSET (1 .. Reach) |-> k[s]] =
        [s \in SUBSET (1 .. Reach) |->
            IF s = {} THEN <<0>>
            ELSE Append(k[s \ {Max(s)}],
                        TopCost(Last(k[s \ {Max(s)}]), base + Consumed[Max(s)] - 1))]
    BY <2>2, Zenon
  <2>5. TopUnfolds(k, base)
    BY <2>3, <2>4, ConsumedIs DEF TopUnfolds
  <2> QED
    BY <2>5
<1>5. TopUnfolds(h, base)
  BY <1>4
<1>6. TopRow(base) = h[1 .. Reach]
  BY TopRowIsChosen, ConsumedIs
<1> HIDE DEF h, G
<1>7. Grows(h, 0, G, Reach)
  <2>1. \A s \in SUBSET (1 .. Reach) :
           h[s] = IF s = {} THEN <<0>>
                  ELSE Append(h[s \ {Max(s)}],
                              TopCost(Last(h[s \ {Max(s)}]), base + Consumed[Max(s)] - 1))
    BY <1>5, ConsumedIs DEF TopUnfolds
  <2>2. h[{}] = <<0>>
    <3>1. {} \in SUBSET (1 .. Reach)
      OBVIOUS
    <3> QED
      BY <2>1, <3>1
  <2>3. ASSUME NEW s \in SUBSET (1 .. Reach), s # {}, h[s \ {Max(s)}] \in Started
        PROVE  h[s] = Append(h[s \ {Max(s)}], G[<<Last(h[s \ {Max(s)}]), Max(s)>>])
    <3>1. Last(h[s \ {Max(s)}]) \in Nat
      BY <2>3, AppendStarted
    <3> QED
      BY <1>2, <1>3, <2>1, <2>3, <3>1, ZenonT(30)
  <2> QED
    BY <2>2, <2>3 DEF Grows
<1>8. RowBy(h[1 .. Reach], 0, G, Reach)
  <2>1. Reach \in 0 .. Reach
    BY <1>0
  <2> QED
    BY <1>0, <1>1, <1>7, <2>1, GrownRow
<1> DEFINE row == TopRow(base)
<1>9. /\ row \in RowCosts /\ row[1] = 0
      /\ \A c \in 1 .. Reach : row[c + 1] = G[<<row[c], c>>]
  BY <1>6, <1>8, StartedIsRow DEF RowBy
<1>10. \A c \in 1 .. Reach : row[c] \in Nat
  BY <1>0, <1>9 DEF RowCosts
<1> HIDE DEF row
<1> QED
  BY <1>2, <1>9, <1>10 DEF IsTopRow, row

LEMMA NextRowFacts ==
    ASSUME Given, NEW above \in RowCosts, NEW bit \in {0, 1}, NEW base \in Int
    PROVE  IsNextRow(NextRow(above, bit, base), above, bit, base)
<1> DEFINE G == [p \in Nat \X (1 .. Reach) |-> Cell(p[1], above, p[2], bit, base + p[2] - 1)]
           first == Plus(above[1], channel.cost_del)
           h == CHOOSE k : RowUnfolds(k, above, bit, base)
<1>0. Reach \in Nat /\ first \in Nat
  <2>1. Reach \in Nat /\ channel.cost_del \in Nat
    BY ReachFacts
  <2>2. above[1] \in Nat
    BY <2>1 DEF RowCosts
  <2> QED
    BY <2>1, <2>2, PlusFacts
<1>1. G \in [Nat \X (1 .. Reach) -> Nat]
  <2>1. \A left \in Nat, c \in 1 .. Reach : Cell(left, above, c, bit, base + c - 1) \in Nat
    BY <1>0, CellFacts
  <2> QED
    BY <2>1
<1>2. \A left \in Nat, c \in 1 .. Reach : G[<<left, c>>] = Cell(left, above, c, bit, base + c - 1)
  OBVIOUS
<1>3. \A s \in SUBSET (1 .. Reach) : s # {} => Max(s) \in 1 .. Reach /\ Consumed[Max(s)] = Max(s)
  BY <1>0, ConsumedIs, MaxOfPart
<1>4. \E k : RowUnfolds(k, above, bit, base)
  <2>1. PICK k \in [SUBSET (1 .. Reach) -> Started] : Grows(k, first, G, Reach)
    <3> HIDE DEF G
    <3> QED
      BY <1>0, <1>1, GrowerExists
  <2>2. ASSUME NEW s \in SUBSET (1 .. Reach)
        PROVE  k[s] = IF s = {} THEN <<first>>
                      ELSE Append(k[s \ {Max(s)}],
                                  Cell(Last(k[s \ {Max(s)}]), above, Consumed[Max(s)], bit,
                                       base + Consumed[Max(s)] - 1))
    <3>1. CASE s = {}
      BY <2>1, <3>1 DEF Grows
    <3>2. CASE s # {}
      <4>1. k[s \ {Max(s)}] \in Started
        OBVIOUS
      <4>2. Last(k[s \ {Max(s)}]) \in Nat
        BY <4>1, AppendStarted
      <4>3. k[s] = Append(k[s \ {Max(s)}], G[<<Last(k[s \ {Max(s)}]), Max(s)>>])
        BY <2>1, <3>2, <4>1 DEF Grows
      <4> HIDE DEF G
      <4> QED
        BY <1>2, <1>3, <3>2, <4>2, <4>3
    <3> QED
      BY <3>1, <3>2
  <2>3. k = [s \in SUBSET (1 .. Reach) |-> k[s]]
    OBVIOUS
  <2>4. [s \in SUBSET (1 .. Reach) |-> k[s]] =
        [s \in SUBSET (1 .. Reach) |->
            IF s = {} THEN <<first>>
            ELSE Append(k[s \ {Max(s)}],
                        Cell(Last(k[s \ {Max(s)}]), above, Consumed[Max(s)], bit,
                                       base + Consumed[Max(s)] - 1))]
    BY <2>2, Zenon
  <2>5. RowUnfolds(k, above, bit, base)
    BY <2>3, <2>4, ConsumedIs DEF RowUnfolds
  <2> QED
    BY <2>5
<1>5. RowUnfolds(h, above, bit, base)
  BY <1>4
<1>6. NextRow(above, bit, base) = h[1 .. Reach]
  BY NextRowIsChosen, ConsumedIs
<1> HIDE DEF h, G, first
<1>7. Grows(h, first, G, Reach)
  <2>1. \A s \in SUBSET (1 .. Reach) :
           h[s] = IF s = {} THEN <<first>>
                  ELSE Append(h[s \ {Max(s)}],
                              Cell(Last(h[s \ {Max(s)}]), above, Consumed[Max(s)], bit,
                                   base + Consumed[Max(s)] - 1))
    BY <1>5, ConsumedIs DEF RowUnfolds, first
  <2>2. h[{}] = <<first>>
    <3>1. {} \in SUBSET (1 .. Reach)
      OBVIOUS
    <3> QED
      BY <2>1, <3>1
  <2>3. ASSUME NEW s \in SUBSET (1 .. Reach), s # {}, h[s \ {Max(s)}] \in Started
        PROVE  h[s] = Append(h[s \ {Max(s)}], G[<<Last(h[s \ {Max(s)}]), Max(s)>>])
    <3>1. Last(h[s \ {Max(s)}]) \in Nat
      BY <2>3, AppendStarted
    <3> QED
      BY <1>2, <1>3, <2>1, <2>3, <3>1
  <2> QED
    BY <2>2, <2>3 DEF Grows
<1>8. RowBy(h[1 .. Reach], first, G, Reach)
  <2>1. Reach \in 0 .. Reach
    BY <1>0
  <2> QED
    BY <1>0, <1>1, <1>7, <2>1, GrownRow
<1> DEFINE row == NextRow(above, bit, base)
<1>9. /\ row \in RowCosts /\ row[1] = first
      /\ \A c \in 1 .. Reach : row[c + 1] = G[<<row[c], c>>]
  BY <1>6, <1>8, StartedIsRow DEF RowBy
<1>10. \A c \in 1 .. Reach : row[c] \in Nat
  BY <1>0, <1>9 DEF RowCosts
<1> HIDE DEF row
<1> QED
  BY <1>2, <1>9, <1>10 DEF IsNextRow, row, first


Expected == [1 .. N -> {0, 1}]

\* The rows of one alignment, and what the last one is.
Aligned(rows, expected, base) ==
    /\ rows \in [0 .. N -> RowCosts]
    /\ IsTopRow(rows[0], base)
    /\ \A r \in 1 .. N : IsNextRow(rows[r], rows[r - 1], expected[r], base)

LEMMA AlignFillRows ==
    ASSUME Given, NEW expected \in Expected, NEW base \in Int
    PROVE  \E rows : Aligned(rows, expected, base) /\ AlignFill(expected, base) = rows[N]
<1> DEFINE F == [p \in RowCosts \X (1 .. N) |-> NextRow(p[1], expected[p[2]], base)]
           h == CHOOSE k : FillUnfolds(k, expected, base)
           rows == [r \in 0 .. N |-> h[1 .. r]]
<1>0. N \in Nat /\ IsFiniteSet(1 .. N) /\ DOMAIN expected = 1 .. N
  BY ReachFacts, FS_Interval DEF Expected
<1>1. \A above \in RowCosts, r \in 1 .. N :
         /\ IsNextRow(NextRow(above, expected[r], base), above, expected[r], base)
         /\ NextRow(above, expected[r], base) \in RowCosts
  <2> SUFFICES ASSUME NEW above \in RowCosts, NEW r \in 1 .. N
               PROVE  /\ IsNextRow(NextRow(above, expected[r], base), above, expected[r], base)
                      /\ NextRow(above, expected[r], base) \in RowCosts
    OBVIOUS
  <2>1. expected[r] \in {0, 1}
    BY DEF Expected
  <2>2. IsNextRow(NextRow(above, expected[r], base), above, expected[r], base)
    BY <2>1, NextRowFacts
  <2> QED
    BY <2>2 DEF IsNextRow
<1>2. IsTopRow(TopRow(base), base) /\ TopRow(base) \in RowCosts
  BY TopRowFacts DEF IsTopRow
<1>3. F \in [RowCosts \X (1 .. N) -> RowCosts]
  BY <1>1
<1>4. \A above \in RowCosts, r \in 1 .. N : F[<<above, r>>] = NextRow(above, expected[r], base)
  OBVIOUS
<1>5. \E k : FillUnfolds(k, expected, base)
  <2>1. PICK k \in [SUBSET (1 .. N) -> RowCosts] : FoldsBy(k, F, TopRow(base), Top(N), 1 .. N)
    <3> HIDE DEF F
    <3> QED
      BY <1>0, <1>2, <1>3, TopPicks, FoldExists
  <2> HIDE DEF F
  <2>2. ASSUME NEW s \in SUBSET (1 .. N)
        PROVE  k[s] = IF s = {} THEN TopRow(base)
                      ELSE NextRow(k[s \ {Max(s)}], expected[Max(s)], base)
    <3>1. CASE s = {}
      BY <2>1, <3>1 DEF FoldsBy, FoldOf
    <3>2. CASE s # {}
      <4>1. Top(N)[s] = Max(s) /\ Max(s) \in 1 .. N
        BY <1>0, <3>2, MaxOfPart DEF Top
      <4>2. k[s] = F[<<k[s \ {Max(s)}], Max(s)>>]
        BY <2>1, <3>2, <4>1 DEF FoldsBy, FoldOf
      <4>3. k[s \ {Max(s)}] \in RowCosts
        OBVIOUS
      <4> QED
        BY <1>4, <3>2, <4>1, <4>2, <4>3
    <3> QED
      BY <3>1, <3>2
  <2>3. k = [s \in SUBSET (1 .. N) |-> k[s]]
    OBVIOUS
  <2>4. [s \in SUBSET (1 .. N) |-> k[s]] =
        [s \in SUBSET (1 .. N) |->
            IF s = {} THEN TopRow(base)
            ELSE NextRow(k[s \ {Max(s)}], expected[Max(s)], base)]
    BY <2>2, Zenon
  <2>5. FillUnfolds(k, expected, base)
    BY <1>0, <2>3, <2>4 DEF FillUnfolds
  <2> QED
    BY <2>5
<1>6. FillUnfolds(h, expected, base)
  BY <1>5
<1>7. AlignFill(expected, base) = h[1 .. N]
  BY <1>0, AlignFillIsChosen
<1> HIDE DEF h, F
<1>8. \A s \in SUBSET (1 .. N) :
         h[s] = IF s = {} THEN TopRow(base)
                ELSE NextRow(h[s \ {Max(s)}], expected[Max(s)], base)
  BY <1>0, <1>6 DEF FillUnfolds
<1>9. rows[0] = TopRow(base)
  <2>1. 1 .. 0 = {} /\ {} \in SUBSET (1 .. N) /\ 0 \in 0 .. N
    BY <1>0
  <2>2. h[{}] = TopRow(base)
    BY <1>8, <2>1
  <2> QED
    BY <2>1, <2>2
<1>10. ASSUME NEW r \in 1 .. N PROVE rows[r] = NextRow(rows[r - 1], expected[r], base)
  <2>1. /\ 1 .. r \in SUBSET (1 .. N) /\ 1 .. r # {}
        /\ Max(1 .. r) = r /\ (1 .. r) \ {r} = 1 .. (r - 1)
    BY <1>0, IntervalPeels
  <2>2. r \in 0 .. N /\ r - 1 \in 0 .. N
    BY <1>0
  <2>3. h[1 .. r] = NextRow(h[1 .. (r - 1)], expected[r], base)
    BY <1>8, <2>1
  <2> QED
    BY <2>2, <2>3
<1>11. N \in 0 .. N /\ rows[N] = h[1 .. N] /\ DOMAIN rows = 0 .. N
       /\ rows = [r \in 0 .. N |-> rows[r]]
  BY <1>0
<1> HIDE DEF rows
<1> DEFINE T == {r \in Nat : r <= N => rows[r] \in RowCosts}
<1>12. 0 \in T
  BY <1>2, <1>9
<1>13. ASSUME NEW r \in Nat, r \in T PROVE r + 1 \in T
  <2> SUFFICES ASSUME r + 1 <= N PROVE rows[r + 1] \in RowCosts
    OBVIOUS
  <2>1. r + 1 \in 1 .. N /\ (r + 1) - 1 = r /\ rows[r] \in RowCosts
    BY <1>0, <1>13
  <2>2. rows[r + 1] = NextRow(rows[r], expected[r + 1], base)
    BY <1>10, <2>1
  <2> QED
    BY <1>1, <2>1, <2>2
<1>14. Nat \subseteq T
  <2> HIDE DEF T
  <2> QED
    BY <1>12, <1>13, NumberInduction
<1>15. \A r \in 0 .. N : rows[r] \in RowCosts
  BY <1>0, <1>14
<1>16. rows \in [0 .. N -> RowCosts]
  BY <1>11, <1>15
<1>17. ASSUME NEW r \in 1 .. N PROVE IsNextRow(rows[r], rows[r - 1], expected[r], base)
  <2>1. r - 1 \in 0 .. N
    BY <1>0
  <2> QED
    BY <1>1, <1>10, <1>15, <2>1
<1>18. Aligned(rows, expected, base)
  BY <1>2, <1>9, <1>16, <1>17 DEF Aligned
<1> QED
  BY <1>7, <1>11, <1>18

----------------------------------------------------------------------------
(* The fast form: the group bit by bit is the diagonal of the alignment.   *)

\* Equal as costs: INFINITY is as good as any sum beyond it.
SameCost(a, b) == a = b \/ (a >= Infinite /\ b >= Infinite)

GroupPrice(expected, base, j) ==
    CASE received[base + j] = Erasure -> channel.cost_erase
      [] received[base + j] = expected[j] -> channel.cost_match
      [] OTHER -> channel.cost_miss

GroupIndexes == [j \in 1 .. N |-> j]

GroupUnfolds(h, expected, base) ==
    h = [s \in SUBSET DOMAIN GroupIndexes |->
            IF s = {} THEN N * channel.cost_keep
            ELSE Plus(h[s \ {Max(s)}], GroupPrice(expected, base, GroupIndexes[Max(s)]))]

GroupSum(expected, base) ==
    FoldLeft(LAMBDA sum, j : Plus(sum, GroupPrice(expected, base, j)),
             N * channel.cost_keep, GroupIndexes)

LEMMA GroupCostIs ==
    ASSUME NEW expected, NEW base
    PROVE  GroupCost(expected, base) =
               IF base >= 0 /\ base + N <= Len(received)
               THEN GroupSum(expected, base) ELSE Infinite
  BY DEF GroupCost, GroupSum, GroupPrice, GroupIndexes

LEMMA GroupSumIsChosen ==
    ASSUME NEW expected, NEW base
    PROVE  GroupSum(expected, base) =
               (CHOOSE h : GroupUnfolds(h, expected, base))[DOMAIN GroupIndexes]
  BY DEF GroupSum, FoldLeft, MapThenFoldSet, GroupUnfolds

LEMMA PriceType ==
    ASSUME Given, NEW expected \in Expected, NEW base \in Int, NEW j \in 1 .. N,
           base >= 0, base + N <= Len(received)
    PROVE  /\ GroupPrice(expected, base, j) \in Nat
           /\ InRange(base + j - 1)
           /\ MatchCost(expected[j], base + j - 1) =
                  Plus(channel.cost_keep, GroupPrice(expected, base, j))
<1>1. N \in Nat /\ Len(received) \in Nat /\ (base + j - 1) + 1 = base + j
  BY ReachFacts
<1>2. InRange(base + j - 1)
  BY <1>1 DEF InRange
<1>3. received[base + j] \in {0, 1, Erasure}
  <2>1. base + j \in 1 .. Len(received)
    BY <1>1
  <2>2. received \in Seq({0, 1, Erasure})
    BY ReachFacts
  <2> QED
    BY <2>1, <2>2
<1>4. /\ channel.cost_erase \in Nat /\ channel.cost_match \in Nat
      /\ channel.cost_miss \in Nat
  BY ReachFacts
<1>5. GroupPrice(expected, base, j) \in Nat
  BY <1>4 DEF GroupPrice
<1>6. MatchCost(expected[j], base + j - 1) =
          Plus(channel.cost_keep, GroupPrice(expected, base, j))
  BY <1>1 DEF MatchCost, GroupPrice
<1> QED
  BY <1>2, <1>5, <1>6

\* The sum of the group, bit by bit.
GroupSums(g, expected, base) ==
    /\ g \in [0 .. N -> Nat]
    /\ g[0] = N * channel.cost_keep
    /\ \A j \in 1 .. N : g[j] = Plus(g[j - 1], GroupPrice(expected, base, j))

LEMMA GroupSumFacts ==
    ASSUME Given, NEW expected \in Expected, NEW base \in Int,
           base >= 0, base + N <= Len(received)
    PROVE  \E g : GroupSums(g, expected, base) /\ GroupSum(expected, base) = g[N]
<1> DEFINE F == [p \in Nat \X (1 .. N) |-> Plus(p[1], GroupPrice(expected, base, p[2]))]
           start == N * channel.cost_keep
           h == CHOOSE k : GroupUnfolds(k, expected, base)
           g == [j \in 0 .. N |-> h[1 .. j]]
<1>0. N \in Nat /\ IsFiniteSet(1 .. N) /\ DOMAIN GroupIndexes = 1 .. N
      /\ \A j \in 1 .. N : GroupIndexes[j] = j
  BY ReachFacts, FS_Interval DEF GroupIndexes
<1>1. start \in Nat
  <2>1. channel.cost_keep \in Nat
    BY ReachFacts
  <2> QED
    BY <1>0, <2>1
<1>2. \A j \in 1 .. N : GroupPrice(expected, base, j) \in Nat
  BY PriceType
<1>3. \A x \in Nat, j \in 1 .. N : Plus(x, GroupPrice(expected, base, j)) \in Nat
  BY <1>2, PlusFacts
<1>4. F \in [Nat \X (1 .. N) -> Nat]
  BY <1>3
<1>5. \A x \in Nat, j \in 1 .. N : F[<<x, j>>] = Plus(x, GroupPrice(expected, base, j))
  OBVIOUS
<1> HIDE DEF start
<1>6. \E k : GroupUnfolds(k, expected, base)
  <2>1. PICK k \in [SUBSET (1 .. N) -> Nat] : FoldsBy(k, F, start, Top(N), 1 .. N)
    <3> HIDE DEF F
    <3> QED
      BY <1>0, <1>1, <1>4, TopPicks, FoldExists
  <2> HIDE DEF F
  <2>2. ASSUME NEW s \in SUBSET (1 .. N)
        PROVE  k[s] = IF s = {} THEN start
                      ELSE Plus(k[s \ {Max(s)}], GroupPrice(expected, base, GroupIndexes[Max(s)]))
    <3>1. CASE s = {}
      BY <2>1, <3>1 DEF FoldsBy, FoldOf
    <3>2. CASE s # {}
      <4>1. Top(N)[s] = Max(s) /\ Max(s) \in 1 .. N /\ GroupIndexes[Max(s)] = Max(s)
        BY <1>0, <3>2, MaxOfPart DEF Top
      <4>2. k[s] = F[<<k[s \ {Max(s)}], Max(s)>>]
        BY <2>1, <3>2, <4>1 DEF FoldsBy, FoldOf
      <4>3. k[s \ {Max(s)}] \in Nat
        OBVIOUS
      <4> QED
        BY <1>5, <3>2, <4>1, <4>2, <4>3
    <3> QED
      BY <3>1, <3>2
  <2>3. k = [s \in SUBSET (1 .. N) |-> k[s]]
    OBVIOUS
  <2>4. [s \in SUBSET (1 .. N) |-> k[s]] =
        [s \in SUBSET (1 .. N) |->
            IF s = {} THEN start
            ELSE Plus(k[s \ {Max(s)}], GroupPrice(expected, base, GroupIndexes[Max(s)]))]
    BY <2>2, Zenon
  <2>5. GroupUnfolds(k, expected, base)
    BY <1>0, <2>3, <2>4 DEF GroupUnfolds, start
  <2> QED
    BY <2>5
<1>7. GroupUnfolds(h, expected, base)
  BY <1>6
<1>8. GroupSum(expected, base) = h[1 .. N]
  BY <1>0, GroupSumIsChosen
<1> HIDE DEF h, F
<1>9. \A s \in SUBSET (1 .. N) :
         h[s] = IF s = {} THEN start
                ELSE Plus(h[s \ {Max(s)}], GroupPrice(expected, base, GroupIndexes[Max(s)]))
  BY <1>0, <1>7 DEF GroupUnfolds, start
<1>10. g[0] = start
  <2>1. 1 .. 0 = {} /\ {} \in SUBSET (1 .. N) /\ 0 \in 0 .. N
    BY <1>0
  <2>2. h[{}] = start
    BY <1>9, <2>1
  <2> QED
    BY <2>1, <2>2
<1>11. ASSUME NEW j \in 1 .. N PROVE g[j] = Plus(g[j - 1], GroupPrice(expected, base, j))
  <2>1. /\ 1 .. j \in SUBSET (1 .. N) /\ 1 .. j # {}
        /\ Max(1 .. j) = j /\ (1 .. j) \ {j} = 1 .. (j - 1)
    BY <1>0, IntervalPeels
  <2>2. j \in 0 .. N /\ j - 1 \in 0 .. N
    BY <1>0
  <2>3. h[1 .. j] = Plus(h[1 .. (j - 1)], GroupPrice(expected, base, j))
    BY <1>0, <1>9, <2>1
  <2> QED
    BY <2>2, <2>3
<1>12. N \in 0 .. N /\ g[N] = h[1 .. N] /\ g = [j \in 0 .. N |-> g[j]]
  BY <1>0
<1> HIDE DEF g
<1> DEFINE T == {j \in Nat : j <= N => g[j] \in Nat}
<1>13. 0 \in T
  BY <1>1, <1>10
<1>14. ASSUME NEW j \in Nat, j \in T PROVE j + 1 \in T
  <2> SUFFICES ASSUME j + 1 <= N PROVE g[j + 1] \in Nat
    OBVIOUS
  <2>1. j + 1 \in 1 .. N /\ (j + 1) - 1 = j /\ g[j] \in Nat
    BY <1>0, <1>14
  <2>2. g[j + 1] = Plus(g[j], GroupPrice(expected, base, j + 1))
    BY <1>11, <2>1
  <2> QED
    BY <1>3, <2>1, <2>2
<1>15. Nat \subseteq T
  <2> HIDE DEF T
  <2> QED
    BY <1>13, <1>14, NumberInduction
<1>16. \A j \in 0 .. N : g[j] \in Nat
  BY <1>0, <1>15
<1>17. GroupSums(g, expected, base)
  BY <1>10, <1>11, <1>12, <1>16 DEF GroupSums, start
<1> QED
  BY <1>8, <1>12, <1>17

LEMMA SameStep ==
    ASSUME NEW a \in Nat, NEW b \in Nat, NEW c \in Nat, NEW keep \in Nat,
           NEW p \in Nat, NEW rest \in Nat,
           SameCost(b, a + (rest + keep)), SameCost(c, Plus(a, Plus(keep, p)))
    PROVE  SameCost(Plus(b, p), c + rest)
  BY DEF SameCost, Plus, Infinite

LEMMA OneLess ==
    ASSUME NEW n \in Nat, NEW r \in Nat, r + 1 <= n, NEW k \in Nat
    PROVE  /\ (n - r) * k = (n - (r + 1)) * k + k
           /\ (n - (r + 1)) * k \in Nat
<1>1. n - (r + 1) \in Nat /\ n - r = (n - (r + 1)) + 1
  OBVIOUS
<1> DEFINE m == n - (r + 1)
<1>2. m \in Nat /\ n - r = m + 1
  BY <1>1
<1> HIDE DEF m
<1>3. (m + 1) * k = m * k + k /\ m * k \in Nat
  BY <1>2
<1> QED
  BY <1>2, <1>3 DEF m

\* Without indels a cell that is not matched is dead.
LEMMA DiagonalStep ==
    ASSUME Given, channel.cost_ins = Infinite, channel.cost_del = Infinite,
           NEW left \in Nat, NEW above \in RowCosts, NEW c \in 1 .. Reach,
           NEW bit \in {0, 1}, NEW place \in Int
    PROVE  /\ ~InRange(place) => Cell(left, above, c, bit, place) = Infinite
           /\ InRange(place) => SameCost(Cell(left, above, c, bit, place),
                                         Plus(above[c], MatchCost(bit, place)))
<1> DEFINE offers == Offers(left, above, c, bit, place)
           cell == Cell(left, above, c, bit, place)
           match == Plus(above[c], MatchCost(bit, place))
<1>1. /\ offers \in SUBSET Nat /\ cell = Least(offers)
      /\ cell \in Nat /\ cell <= Infinite
  BY CellFacts
<1>2. above[c] \in Nat /\ above[c + 1] \in Nat
  <2>1. Reach \in Nat
    BY ReachFacts
  <2>2. c \in 1 .. (Reach + 1) /\ c + 1 \in 1 .. (Reach + 1)
    BY <2>1
  <2> QED
    BY <2>2 DEF RowCosts
<1>3. Plus(above[c + 1], channel.cost_del) = Infinite /\ Plus(left, channel.cost_ins) = Infinite
  <2>1. channel.cost_ins \in Nat /\ channel.cost_del \in Nat
    BY ReachFacts
  <2>2. channel.cost_del >= Infinite /\ channel.cost_ins >= Infinite
    BY InfiniteIsCost
  <2> QED
    BY <1>2, <2>1, <2>2, PlusFacts
<1>4. CASE ~InRange(place)
  <2>1. offers = {Infinite}
    BY <1>3, <1>4 DEF Offers
  <2>2. Least(offers) = Infinite
    BY <1>1, <2>1, LeastFacts
  <2> QED
    BY <1>1, <1>4, <2>2
<1>5. CASE InRange(place)
  <2>1. offers = {Infinite, match}
    BY <1>3, <1>5 DEF Offers
  <2>2. match \in Nat
    BY <1>1, <2>1
  <2> HIDE DEF match, offers, cell
  <2>3. cell \in {Infinite, match} /\ cell <= match
    <3>1. /\ Least(offers) \in offers \cup {Infinite}
          /\ \A x \in offers : Least(offers) <= x
      BY <1>1, LeastFacts
    <3> QED
      BY <1>1, <2>1, <3>1
  <2>4. SameCost(cell, match)
    BY <1>1, <2>2, <2>3, InfiniteIsCost DEF SameCost
  <2> QED
    BY <1>5, <2>4 DEF cell, match
<1> QED
  BY <1>4, <1>5

LEMMA DiagonalIsGroup ==
    ASSUME Given, NoDrift, NEW expected \in Expected, NEW base \in Nat
    PROVE  SameCost(GroupCost(expected, base), AlignFill(expected, base)[N + 1])
<1>1. PICK rows : Aligned(rows, expected, base) /\ AlignFill(expected, base) = rows[N]
  BY AlignFillRows
<1>2. /\ N \in Nat \ {0} /\ Reach = N /\ channel.cost_keep \in Nat
      /\ channel.cost_ins = Infinite /\ channel.cost_del = Infinite
      /\ Len(received) \in Nat
  BY ReachFacts DEF NoDrift, Reach
<1>3. \A r \in 0 .. N : rows[r] \in RowCosts
  BY <1>1 DEF Aligned
<1>4. \A r \in 0 .. N : \A c \in 1 .. (N + 1) : rows[r][c] \in Nat
  BY <1>2, <1>3 DEF RowCosts
<1>5. rows[0][0 + 1] = 0
  BY <1>1 DEF Aligned, IsTopRow
<1>6. ASSUME NEW r \in 1 .. N
      PROVE  /\ ~InRange(base + r - 1) => rows[r][r + 1] = Infinite
             /\ InRange(base + r - 1) =>
                   SameCost(rows[r][r + 1],
                            Plus(rows[r - 1][r], MatchCost(expected[r], base + r - 1)))
  <2>1. /\ r \in 1 .. Reach /\ r - 1 \in 0 .. N /\ r \in 0 .. N /\ r \in 1 .. (N + 1)
        /\ base + r - 1 \in Int
    BY <1>2
  <2>2. rows[r][r + 1] = Cell(rows[r][r], rows[r - 1], r, expected[r], base + r - 1)
    BY <1>1, <2>1 DEF Aligned, IsNextRow
  <2>3. rows[r - 1] \in RowCosts /\ rows[r][r] \in Nat /\ expected[r] \in {0, 1}
    BY <1>3, <1>4, <2>1 DEF Expected
  <2> DEFINE above == rows[r - 1]
             left == rows[r][r]
             place == base + r - 1
  <2>4. above \in RowCosts /\ left \in Nat /\ place \in Int /\ r \in 1 .. Reach
    BY <2>1, <2>3
  <2> HIDE DEF above, left, place
  <2>5. /\ ~InRange(place) => Cell(left, above, r, expected[r], place) = Infinite
        /\ InRange(place) => SameCost(Cell(left, above, r, expected[r], place),
                                      Plus(above[r], MatchCost(expected[r], place)))
    BY <1>2, <2>3, <2>4, DiagonalStep
  <2> QED
    BY <2>2, <2>5 DEF above, left, place
<1>7. CASE ~(base + N <= Len(received))
  <2>1. N \in 1 .. N /\ ~InRange(base + N - 1)
    <3> DEFINE length == Len(received)
    <3>1. N \in Nat \ {0} /\ length \in Nat /\ ~(base + N <= length)
      BY <1>2, <1>7
    <3>2. ~InRange(base + N - 1) <=> ~(base + N - 1 >= 0 /\ base + N - 1 < length)
      BY DEF InRange
    <3> HIDE DEF length
    <3> QED
      BY <3>1, <3>2
  <2>2. rows[N][N + 1] = Infinite
    BY <1>6, <2>1
  <2>3. GroupCost(expected, base) = Infinite
    BY <1>7, GroupCostIs
  <2> QED
    BY <1>1, <2>2, <2>3 DEF SameCost
<1>8. CASE base + N <= Len(received)
  <2>0. base >= 0 /\ base \in Int
    OBVIOUS
  <2>1. PICK g : GroupSums(g, expected, base) /\ GroupSum(expected, base) = g[N]
    BY <1>8, <2>0, GroupSumFacts
  <2>2. GroupCost(expected, base) = g[N]
    BY <1>8, <2>0, <2>1, GroupCostIs
  <2>3. \A r \in 0 .. N : g[r] \in Nat
    BY <2>1 DEF GroupSums
  <2> DEFINE keep == channel.cost_keep
             T == {r \in Nat : r <= N =>
                      SameCost(g[r], rows[r][r + 1] + (N - r) * keep)}
  <2>4. 0 \in T
    <3>1. g[0] = N * keep /\ N - 0 = N /\ N * keep \in Nat
      BY <1>2, <2>1 DEF GroupSums
    <3>2. rows[0][0 + 1] + (N - 0) * keep = N * keep
      BY <1>5, <3>1
    <3> QED
      BY <3>1, <3>2 DEF SameCost
  <2>5. ASSUME NEW r \in Nat, r \in T PROVE r + 1 \in T
    <3> SUFFICES ASSUME r + 1 <= N
                 PROVE  SameCost(g[r + 1], rows[r + 1][(r + 1) + 1] + (N - (r + 1)) * keep)
      OBVIOUS
    <3> DEFINE a == rows[r][r + 1]
               c == rows[r + 1][(r + 1) + 1]
               p == GroupPrice(expected, base, r + 1)
               rest == (N - (r + 1)) * keep
    <3>1. /\ r + 1 \in 1 .. N /\ r \in 0 .. N /\ r + 1 \in 0 .. N
          /\ (r + 1) - 1 = r /\ r <= N
          /\ r + 1 \in 1 .. (N + 1) /\ (r + 1) + 1 \in 1 .. (N + 1)
      BY <1>2
    <3>2. a \in Nat /\ c \in Nat /\ g[r] \in Nat
      BY <1>4, <2>3, <3>1
    <3>3. /\ p \in Nat /\ InRange(base + (r + 1) - 1)
          /\ MatchCost(expected[r + 1], base + (r + 1) - 1) = Plus(keep, p)
      BY <1>8, <2>0, <3>1, PriceType
    <3>4. SameCost(c, Plus(a, Plus(keep, p)))
      BY <1>6, <3>1, <3>3
    <3>5. (N - r) * keep = rest + keep /\ rest \in Nat
      BY <1>2, <3>1, OneLess
    <3>6. SameCost(g[r], a + (rest + keep))
      <4>1. SameCost(g[r], a + (N - r) * keep)
        BY <2>5, <3>1
      <4> QED
        BY <3>5, <4>1
    <3>7. g[r + 1] = Plus(g[r], p)
      BY <2>1, <3>1 DEF GroupSums
    <3> HIDE DEF a, c, p, rest
    <3>8. keep \in Nat
      BY <1>2
    <3> HIDE DEF keep
    <3>9. SameCost(Plus(g[r], p), c + rest)
      BY <3>2, <3>3, <3>4, <3>5, <3>6, <3>8, SameStep
    <3> QED
      BY <3>7, <3>9 DEF c, rest
  <2>6. Nat \subseteq T
    <3> HIDE DEF T
    <3> QED
      BY <2>4, <2>5, NumberInduction
  <2>7. SameCost(g[N], rows[N][N + 1] + (N - N) * keep)
    BY <1>2, <2>6
  <2>8. rows[N][N + 1] + (N - N) * keep = rows[N][N + 1]
    <3>1. N \in 0 .. N /\ N + 1 \in 1 .. (N + 1) /\ (N - N) * keep = 0
      BY <1>2
    <3>2. rows[N][N + 1] \in Nat
      BY <1>4, <3>1
    <3> QED
      BY <3>1, <3>2
  <2> QED
    BY <1>1, <2>2, <2>7, <2>8
<1> QED
  BY <1>7, <1>8

----------------------------------------------------------------------------
(* Nodes.                                                                  *)

\* The quotient of a number below n * d is below n.
LEMMA QuotientInRange ==
    ASSUME NEW d \in Nat \ {0}, NEW n \in Nat \ {0}, NEW q \in Int, NEW r \in 0 .. (d - 1),
           d * q + r >= 0, d * q + r <= n * d - 1
    PROVE  q \in 0 .. (n - 1)
<1>1. ~(q < 0)
  <2> SUFFICES ASSUME q < 0 PROVE FALSE
    OBVIOUS
  <2>1. d * (0 - q) >= d
    BY MultipleAtLeast
  <2>2. d * (0 - q) = 0 - d * q
    OBVIOUS
  <2> QED
    BY <2>1, <2>2
<1>2. ~(q >= n)
  <2> SUFFICES ASSUME q >= n PROVE FALSE
    OBVIOUS
  <2>1. d * (q - n + 1) >= d
    BY MultipleAtLeast
  <2>2. d * (q - n + 1) = d * q - n * d + d
    BY SMT
  <2> QED
    BY <2>1, <2>2
<1> QED
  BY <1>1, <1>2

LEMMA FlatInRange ==
    ASSUME NEW d \in Nat \ {0}, NEW n \in Nat \ {0}, NEW q \in 0 .. (n - 1),
           NEW r \in 0 .. (d - 1)
    PROVE  q * d + r \in 0 .. (n * d - 1) /\ q * d + r = d * q + r
<1>1. d * (n - q) >= d
  BY MultipleAtLeast
<1>2. d * (n - q) = n * d - q * d
  OBVIOUS
<1>3. q * d \in Nat /\ n * d \in Nat /\ q * d = d * q
  OBVIOUS
<1> QED
  BY <1>1, <1>2, <1>3

States == 0 .. (NumStates - 1)
Drifts == 0 .. (DriftWidth - 1)

LEMMA WidthFacts ==
    ASSUME Given
    PROVE  DriftWidth \in Nat \ {0} /\ NumStates \in Nat \ {0}
  BY ReachFacts, MetricAssumption, SMTT(30) DEF DriftWidth

LEMMA NodeFacts ==
    ASSUME Given, NEW v \in Nodes
    PROVE  State(v) \in States /\ Drift(v) \in Drifts /\ NodeAt(State(v), Drift(v)) = v
<1>1. DriftWidth \in Nat \ {0} /\ NumStates \in Nat \ {0}
  BY WidthFacts
<1>2. v \in Int /\ v >= 0 /\ v <= NumStates * DriftWidth - 1
  BY <1>1 DEF Nodes
<1>3. /\ State(v) \in Int /\ Drift(v) \in Drifts
      /\ v = DriftWidth * State(v) + Drift(v)
  BY <1>1, <1>2, DivisionFacts DEF State, Drift, Drifts
<1>4. State(v) \in States
  BY <1>1, <1>2, <1>3, QuotientInRange DEF States, Drifts
<1> QED
  BY <1>1, <1>3, <1>4, FlatInRange DEF NodeAt, States, Drifts

LEMMA NodeAtFacts ==
    ASSUME Given, NEW s \in States, NEW d \in Drifts
    PROVE  /\ NodeAt(s, d) \in Nodes
           /\ State(NodeAt(s, d)) = s /\ Drift(NodeAt(s, d)) = d
<1> DEFINE v == NodeAt(s, d)
<1>1. DriftWidth \in Nat \ {0} /\ NumStates \in Nat \ {0} /\ s \in Int
  BY WidthFacts DEF States
<1>2. v \in Nodes /\ v = DriftWidth * s + d /\ v \in Int
  BY <1>1, FlatInRange DEF NodeAt, Nodes, States, Drifts
<1> HIDE DEF v
<1>3. /\ State(v) \in Int /\ Drift(v) \in Drifts
      /\ v = DriftWidth * State(v) + Drift(v)
  BY <1>1, <1>2, DivisionFacts DEF State, Drift, Drifts
<1>4. State(v) = s /\ Drift(v) = d
  <2> DEFINE w == DriftWidth
             q == State(v)
             r == Drift(v)
  <2>1. /\ w \in Nat \ {0} /\ q \in Int /\ r \in 0 .. (w - 1)
        /\ s \in Int /\ d \in 0 .. (w - 1) /\ w * q + r = w * s + d
    BY <1>1, <1>2, <1>3 DEF Drifts
  <2> HIDE DEF w, q, r
  <2>2. q = s /\ r = d
    BY <2>1, DivisionIsUnique
  <2> QED
    BY <2>2 DEF q, r
<1> QED
  BY <1>2, <1>4 DEF v

----------------------------------------------------------------------------
(* The forward pass.                                                       *)

Patterns == {output[e] : e \in DOMAIN output}
LiveDrifts(m) == {Drift(u) : u \in {w \in Nodes : m[w] < Infinite}}
Rows(m, base) ==
    [p \in Patterns |->
        [d \in LiveDrifts(m) |-> AlignFill(p, base + d - channel.max_drift)]]
Reaching(m, v) ==
    {e \in LiveEdges(m) : /\ next_state[<<e[1], e[3]>>] = State(v)
                          /\ N + Drift(v) - e[2] >= 0}
EdgeCost(m, base, v, e) ==
    Plus(m[NodeAt(e[1], e[2])],
         Rows(m, base)[output[<<e[1], e[3]>>]][e[2]][N + Drift(v) - e[2] + 1])
Costs(m, base, v) == [e \in Reaching(m, v) |-> EdgeCost(m, base, v, e)]

LEMMA ForwardPassIs ==
    ASSUME NEW m, NEW base
    PROVE  ForwardPass(m, base) = [v \in Nodes |-> Arrival(Reaching(m, v), Costs(m, base, v))]
  BY DEF ForwardPass, Patterns, LiveDrifts, Rows, Reaching, EdgeCost, Costs

ReachingNoDrift(m, v) == {e \in LiveEdges(m) : next_state[<<e[1], e[3]>>] = v}
EdgeCostNoDrift(m, base, e) == Plus(m[e[1]], GroupCost(output[<<e[1], e[3]>>], base))
CostsNoDrift(m, base, v) == [e \in ReachingNoDrift(m, v) |-> EdgeCostNoDrift(m, base, e)]

LEMMA ForwardPassNoDriftIs ==
    ASSUME NEW m, NEW base
    PROVE  ForwardPassNoDrift(m, base) =
               [v \in Nodes |-> Arrival(ReachingNoDrift(m, v), CostsNoDrift(m, base, v))]
  BY DEF ForwardPassNoDrift, ReachingNoDrift, EdgeCostNoDrift, CostsNoDrift

\* e leaves the live node u of m for the state of the node v.
Leads(m, u, v, e) ==
    /\ u \in Nodes /\ m[u] < Infinite
    /\ e[1] = State(u) /\ e[2] = Drift(u) /\ e[3] \in {0, 1}
    /\ e = <<e[1], e[2], e[3]>>
    /\ next_state[<<e[1], e[3]>>] = State(v) /\ N + Drift(v) - e[2] >= 0

LEMMA ReachingFacts ==
    ASSUME NEW m, NEW v, NEW e
    PROVE  e \in Reaching(m, v) <=> \E u : Leads(m, u, v, e)
<1>1. ASSUME e \in Reaching(m, v) PROVE \E u : Leads(m, u, v, e)
  <2>1. PICK u \in Nodes : m[u] < Infinite /\ e \in OutEdges(u)
    BY <1>1 DEF Reaching, LiveEdges
  <2>2. PICK bit \in {0, 1} : e = <<State(u), Drift(u), bit>>
    BY <2>1 DEF OutEdges
  <2>3. next_state[<<e[1], e[3]>>] = State(v) /\ N + Drift(v) - e[2] >= 0
    BY <1>1 DEF Reaching
  <2>4. Leads(m, u, v, e)
    BY <2>1, <2>2, <2>3 DEF Leads
  <2> QED
    BY <2>4
<1>2. ASSUME NEW u, Leads(m, u, v, e) PROVE e \in Reaching(m, v)
  <2>1. e \in OutEdges(u)
    BY <1>2 DEF Leads, OutEdges
  <2>2. e \in LiveEdges(m)
    BY <1>2, <2>1 DEF Leads, LiveEdges
  <2> QED
    BY <1>2, <2>2 DEF Leads, Reaching
<1> QED
  BY <1>1, <1>2

Metrics == [Nodes -> Nat]

\* What an edge adds to the node it leaves.
Branch(u, v, e, base) ==
    AlignFill(output[<<e[1], e[3]>>], base + Drift(u) - channel.max_drift)
        [N + Drift(v) - Drift(u) + 1]

LEMMA AlignFillType ==
    ASSUME Given, NEW expected \in Expected, NEW base \in Int
    PROVE  AlignFill(expected, base) \in RowCosts
<1>1. PICK rows : Aligned(rows, expected, base) /\ AlignFill(expected, base) = rows[N]
  BY AlignFillRows
<1>2. N \in 0 .. N
  BY ReachFacts
<1> QED
  BY <1>1, <1>2 DEF Aligned

LEMMA LeadsFacts ==
    ASSUME Given, NEW m \in Metrics, NEW base \in Int, NEW v \in Nodes,
           NEW u, NEW e, Leads(m, u, v, e)
    PROVE  /\ m[u] \in Nat /\ NodeAt(e[1], e[2]) = u
           /\ output[<<e[1], e[3]>>] \in Expected /\ output[<<e[1], e[3]>>] \in Patterns
           /\ base + Drift(u) - channel.max_drift \in Int
           /\ N + Drift(v) - Drift(u) \in 0 .. Reach
<1>1. u \in Nodes /\ m[u] < Infinite /\ e[3] \in {0, 1} /\ e[1] = State(u) /\ e[2] = Drift(u)
      /\ N + Drift(v) - Drift(u) >= 0
  BY DEF Leads
<1>2. /\ State(u) \in States /\ Drift(u) \in Drifts /\ NodeAt(State(u), Drift(u)) = u
      /\ Drift(v) \in Drifts
  BY <1>1, NodeFacts
<1>3. m[u] \in Nat
  BY <1>1 DEF Metrics
<1>4. <<e[1], e[3]>> \in Edges
  BY <1>1, <1>2 DEF Edges, States
<1>5. output[<<e[1], e[3]>>] \in Expected /\ output[<<e[1], e[3]>>] \in Patterns
  BY <1>4, MetricAssumption DEF Expected, Patterns
<1>6. N \in Nat /\ channel.max_drift \in Nat /\ Reach \in Nat
  BY ReachFacts
<1>7. Drift(u) \in 0 .. (2 * channel.max_drift) /\ Drift(v) \in 0 .. (2 * channel.max_drift)
  BY <1>2, <1>6 DEF Drifts, DriftWidth
<1>8. base + Drift(u) - channel.max_drift \in Int
  BY <1>6, <1>7
<1>9. N + Drift(v) - Drift(u) \in 0 .. Reach
  BY <1>1, <1>6, <1>7 DEF Reach
<1> QED
  BY <1>1, <1>2, <1>3, <1>5, <1>8, <1>9

\* An edge costs what its node does, and its branch.
LEMMA LeadsCost ==
    ASSUME Given, NEW m \in Metrics, NEW base \in Int, NEW v \in Nodes,
           NEW u, NEW e, Leads(m, u, v, e)
    PROVE  /\ m[u] \in Nat /\ Branch(u, v, e, base) \in Nat
           /\ EdgeCost(m, base, v, e) = Plus(m[u], Branch(u, v, e, base))
           /\ EdgeCost(m, base, v, e) \in Nat
<1> DEFINE expected == output[<<e[1], e[3]>>]
           place == base + Drift(u) - channel.max_drift
           c == N + Drift(v) - Drift(u)
<1>1. /\ m[u] \in Nat /\ NodeAt(e[1], e[2]) = u
      /\ expected \in Expected /\ expected \in Patterns
      /\ place \in Int /\ c \in 0 .. Reach
  BY LeadsFacts
<1>2. e[2] = Drift(u) /\ Drift(u) \in LiveDrifts(m)
  BY DEF Leads, LiveDrifts
<1>3. Rows(m, base)[expected][e[2]] = AlignFill(expected, place)
  BY <1>1, <1>2 DEF Rows
<1>4. EdgeCost(m, base, v, e) = Plus(m[u], Branch(u, v, e, base))
  BY <1>1, <1>2, <1>3 DEF EdgeCost, Branch
<1>5. Branch(u, v, e, base) = AlignFill(expected, place)[c + 1]
  BY DEF Branch
<1> HIDE DEF expected, place, c
<1>6. AlignFill(expected, place) \in RowCosts
  BY <1>1, AlignFillType
<1>7. c + 1 \in 1 .. (Reach + 1)
  BY <1>1, ReachFacts
<1>8. Branch(u, v, e, base) \in Nat
  BY <1>5, <1>6, <1>7 DEF RowCosts
<1> QED
  BY <1>1, <1>4, <1>8, PlusFacts

LEMMA ArrivalCost ==
    ASSUME NEW edges, NEW cost
    PROVE  Arrival(edges, cost).cost = Least({cost[e] : e \in edges})
<1> DEFINE least == Least({cost[e] : e \in edges})
<1>1. CASE least = Infinite
  BY <1>1 DEF Arrival
<1>2. CASE least # Infinite
  BY <1>2 DEF Arrival
<1> QED
  BY <1>1, <1>2

----------------------------------------------------------------------------
(* The fast form is the general one.                                       *)

LEMMA NoDriftNodes ==
    ASSUME Given, NoDrift, NEW v \in Nodes
    PROVE  State(v) = v /\ Drift(v) = 0
<1>1. DriftWidth = 1
  BY DEF NoDrift, DriftWidth
<1>2. State(v) \in States /\ Drift(v) \in Drifts /\ NodeAt(State(v), Drift(v)) = v
  BY NodeFacts
<1>3. Drift(v) = 0 /\ State(v) \in Int
  BY <1>1, <1>2, MetricAssumption DEF Drifts, States
<1> QED
  BY <1>1, <1>2, <1>3 DEF NodeAt

LEMMA SamePlus ==
    ASSUME NEW x, NEW a, NEW b, SameCost(a, b)
    PROVE  Plus(x, a) = Plus(x, b)
  BY DEF SameCost, Plus

LEMMA PassesAgree ==
    ASSUME Given, NoDrift, NEW m \in Metrics, NEW base \in Nat
    PROVE  ForwardPassNoDrift(m, base) = ForwardPass(m, base)
<1>1. ASSUME NEW v \in Nodes
      PROVE  /\ Reaching(m, v) = ReachingNoDrift(m, v)
             /\ \A e \in Reaching(m, v) : EdgeCost(m, base, v, e) = EdgeCostNoDrift(m, base, e)
  <2>1. State(v) = v /\ Drift(v) = 0 /\ N \in Nat
    BY NoDriftNodes, ReachFacts
  <2>2. Reaching(m, v) \subseteq ReachingNoDrift(m, v)
    BY <2>1 DEF Reaching, ReachingNoDrift
  <2>3. ASSUME NEW e \in ReachingNoDrift(m, v) PROVE e \in Reaching(m, v)
    <3>1. PICK u \in Nodes : m[u] < Infinite /\ e \in OutEdges(u)
      BY <2>3 DEF ReachingNoDrift, LiveEdges
    <3>2. e[2] = Drift(u) /\ Drift(u) = 0
      BY <3>1, NoDriftNodes DEF OutEdges
    <3> QED
      BY <2>1, <2>3, <3>2 DEF Reaching, ReachingNoDrift
  <2>4. ASSUME NEW e \in Reaching(m, v)
        PROVE  EdgeCost(m, base, v, e) = EdgeCostNoDrift(m, base, e)
    <3> DEFINE expected == output[<<e[1], e[3]>>]
    <3>1. PICK u : Leads(m, u, v, e)
      BY ReachingFacts
    <3>2. u \in Nodes /\ e[1] = State(u)
      BY <3>1 DEF Leads
    <3>3. State(u) = u /\ Drift(u) = 0
      BY <3>2, NoDriftNodes
    <3>4. base \in Int /\ channel.max_drift = 0
      BY DEF NoDrift
    <3>5. /\ expected \in Expected
          /\ EdgeCost(m, base, v, e) = Plus(m[u], Branch(u, v, e, base))
      BY <3>1, <3>4, LeadsFacts, LeadsCost
    <3>6. base + Drift(u) - channel.max_drift = base /\ N + Drift(v) - Drift(u) + 1 = N + 1
      BY <2>1, <3>3, <3>4
    <3>7. Branch(u, v, e, base) = AlignFill(expected, base)[N + 1]
      BY <3>6 DEF Branch
    <3> HIDE DEF expected
    <3>8. SameCost(GroupCost(expected, base), AlignFill(expected, base)[N + 1])
      BY <3>5, DiagonalIsGroup
    <3>9. Plus(m[u], GroupCost(expected, base)) = Plus(m[u], AlignFill(expected, base)[N + 1])
      BY <3>8, SamePlus
    <3> QED
      BY <3>2, <3>3, <3>5, <3>7, <3>9 DEF EdgeCostNoDrift, expected
  <2> QED
    BY <2>2, <2>3, <2>4
<1>2. ASSUME NEW v \in Nodes
      PROVE  Arrival(ReachingNoDrift(m, v), CostsNoDrift(m, base, v)) =
             Arrival(Reaching(m, v), Costs(m, base, v))
  <2>1. /\ Reaching(m, v) = ReachingNoDrift(m, v)
        /\ \A e \in Reaching(m, v) : EdgeCost(m, base, v, e) = EdgeCostNoDrift(m, base, e)
    BY <1>1
  <2>2. Costs(m, base, v) = CostsNoDrift(m, base, v)
    BY <2>1, Zenon DEF Costs, CostsNoDrift
  <2> QED
    BY <2>1, <2>2
<1>3. [v \in Nodes |-> Arrival(ReachingNoDrift(m, v), CostsNoDrift(m, base, v))] =
      [v \in Nodes |-> Arrival(Reaching(m, v), Costs(m, base, v))]
  BY <1>2, Zenon
<1> QED
  BY <1>3, ForwardPassIs, ForwardPassNoDriftIs

----------------------------------------------------------------------------
(* What keeps a path alive: finite costs add up to a finite cost.          *)

LEMMA OneMore ==
    ASSUME NEW n \in Nat, NEW k \in Nat, k + 1 <= n, NEW b \in Nat
    PROVE  /\ (k + 1) * b = k * b + b /\ k * b \in Nat /\ (k + 1) * b <= n * b
           /\ n * b \in Nat
<1>1. (n - (k + 1)) * b \in Nat
  BY OneLess
<1>2. (k + 1) * b = k * b + b /\ k * b \in Nat /\ n * b \in Nat
  OBVIOUS
<1>3. n * b = (n - (k + 1)) * b + (k + 1) * b
  BY SMT
<1> QED
  BY <1>1, <1>2, <1>3

\* Each cost is at most that of the one before with b more.
Chain(f, start, b, n) ==
    /\ \A k \in 0 .. n : f[k] \in Nat
    /\ f[0] <= start
    /\ \A k \in 1 .. n : f[k] <= Plus(f[k - 1], b)

LEMMA ChainIsFinite ==
    ASSUME NEW n \in Nat, NEW b \in Nat, NEW start \in Nat, start + n * b < Infinite,
           NEW f, Chain(f, start, b, n)
    PROVE  f[n] \in Nat /\ f[n] <= start + n * b
<1> DEFINE T == {k \in Nat : k <= n => f[k] <= start + k * b}
<1>1. 0 \in T
  <2>1. 0 * b = 0 /\ f[0] \in Nat
    BY DEF Chain
  <2> QED
    BY <2>1 DEF Chain
<1>2. ASSUME NEW k \in Nat, k \in T PROVE k + 1 \in T
  <2> SUFFICES ASSUME k + 1 <= n PROVE f[k + 1] <= start + (k + 1) * b
    OBVIOUS
  <2> DEFINE x == f[k]
             y == f[k + 1]
             kb == k * b
             nb == n * b
             sb == (k + 1) * b
  <2>1. /\ sb = kb + b /\ kb \in Nat /\ sb <= nb /\ nb \in Nat
    BY OneMore
  <2>2. k \in 0 .. n /\ k + 1 \in 0 .. n /\ k + 1 \in 1 .. n /\ (k + 1) - 1 = k
    OBVIOUS
  <2>3. x \in Nat /\ y \in Nat /\ y <= Plus(x, b)
    BY <2>2 DEF Chain
  <2>4. x <= start + kb /\ start + nb < Infinite
    BY <1>2, <2>2
  <2> HIDE DEF x, y, kb, nb, sb
  <2>5. Infinite \in Nat
    BY InfiniteIsCost
  <2>6. x < Infinite /\ b < Infinite
    BY <2>1, <2>3, <2>4, <2>5
  <2>7. Plus(x, b) = x + b
    BY <2>3, <2>6, PlusFacts
  <2>8. y <= start + sb
    BY <2>1, <2>3, <2>4, <2>7
  <2> QED
    BY <2>8 DEF y, sb
<1>3. Nat \subseteq T
  <2> HIDE DEF T
  <2> QED
    BY <1>1, <1>2, NumberInduction
<1> QED
  BY <1>3 DEF Chain

LEMMA Halves ==
    ASSUME Given, NEW a \in Nat, NEW b \in Nat,
           2 * N * a < Infinite, 2 * N * b < Infinite
    PROVE  /\ N * a \in Nat /\ N * b \in Nat /\ N * a + N * b < Infinite
           /\ N * (a + b) = N * a + N * b
<1>1. N \in Nat
  BY ReachFacts
<1>2. N * a \in Nat /\ N * b \in Nat
  BY <1>1
<1>3. 2 * N * a = 2 * (N * a) /\ 2 * N * b = 2 * (N * b) /\ N * (a + b) = N * a + N * b
  BY <1>1, SMT
<1>4. Infinite \in Nat
  BY InfiniteIsCost
<1> QED
  BY <1>2, <1>3, <1>4

LEMMA MoreTimes ==
    ASSUME NEW a \in Nat, NEW b \in Nat, a <= b, NEW c \in Nat
    PROVE  a * c <= b * c /\ a * c \in Nat /\ b * c \in Nat
<1> DEFINE d == b - a
<1>1. d \in Nat /\ b = a + d
  OBVIOUS
<1> HIDE DEF d
<1>2. d * c \in Nat /\ a * c \in Nat /\ (a + d) * c = a * c + d * c
  BY <1>1
<1> QED
  BY <1>1, <1>2

LEMMA CostsAreSummable ==
    ASSUME Given
    PROVE  /\ 2 * N * channel.cost_keep < Infinite
           /\ 2 * N * channel.cost_match < Infinite
           /\ 2 * N * channel.cost_miss < Infinite
           /\ channel.cost_erase # Infinite => 2 * N * channel.cost_erase < Infinite
           /\ channel.cost_ins # Infinite => 2 * N * channel.cost_ins < Infinite
           /\ channel.cost_del # Infinite => 2 * N * channel.cost_del < Infinite
<1>1. /\ channel.cost_match # Infinite /\ channel.cost_miss # Infinite
      /\ channel.cost_keep # Infinite
  BY ReachFacts, MetricAssumption DEF Given, Infinite
<1>2. \A cost \in {channel.cost_match, channel.cost_miss, channel.cost_erase,
                     channel.cost_keep, channel.cost_ins, channel.cost_del} :
         cost \in Nat /\ Summable(channel, cost)
  BY ReachFacts, MetricAssumption DEF Given
<1>3. ASSUME NEW cost \in Nat, Summable(channel, cost), cost # Infinite
      PROVE  2 * N * cost < Infinite
  <2> DEFINE w == 2 * (N + channel.max_drift)
             k == MaxSteps
  <2>1. k * w * cost < Infinite
    BY <1>3 DEF Summable
  <2>2. N \in Nat /\ w \in Nat /\ 2 * N \in Nat /\ 2 * N <= w /\ k \in Nat /\ 1 <= k
    <3>1. N \in Nat /\ channel.max_drift \in Nat
      BY ReachFacts
    <3>2. k \in Nat /\ 1 <= k
      <4>1. Depth \in Nat /\ MaxSteps \in 1 .. Depth
        BY MetricAssumption
      <4> QED
        BY <4>1
    <3>3. w \in Nat /\ 2 * N \in Nat /\ 2 * N <= w
      BY <3>1
    <3> QED
      BY <3>1, <3>2, <3>3
  <2> HIDE DEF w, k
  <2>3. /\ 2 * N * cost <= w * cost /\ 2 * N * cost \in Nat /\ w * cost \in Nat
    BY <2>2, MoreTimes
  <2>4. k * (w * cost) = k * w * cost
    BY <2>2, SMT
  <2>5. 1 * (w * cost) <= k * (w * cost) /\ k * (w * cost) \in Nat
    BY <2>2, <2>3, MoreTimes
  <2> QED
    BY <2>1, <2>3, <2>4, <2>5, InfiniteIsCost
<1> QED
  BY <1>1, <1>2, <1>3

LEMMA CellAtMost ==
    ASSUME Given, NEW left \in Nat, NEW above \in RowCosts, NEW c \in 1 .. Reach,
           NEW bit \in {0, 1}, NEW place \in Int, InRange(place)
    PROVE  /\ Cell(left, above, c, bit, place) <= Plus(above[c], MatchCost(bit, place))
           /\ Cell(left, above, c, bit, place) <= Plus(left, channel.cost_ins)
<1>1. /\ Plus(above[c], MatchCost(bit, place)) \in Offers(left, above, c, bit, place)
      /\ Plus(left, channel.cost_ins) \in Offers(left, above, c, bit, place)
  BY DEF Offers
<1>2. /\ Offers(left, above, c, bit, place) \in SUBSET Nat
      /\ Cell(left, above, c, bit, place) = Least(Offers(left, above, c, bit, place))
  BY CellFacts
<1> QED
  BY <1>1, <1>2, LeastFacts

\* A cell past the end of the buffer is dead in every row.
LEMMA PastEndIsDead ==
    ASSUME Given, NEW expected \in Expected, NEW base \in Int,
           NEW c \in 1 .. Reach, ~InRange(base + c - 1)
    PROVE  AlignFill(expected, base)[c + 1] >= Infinite
<1>1. PICK rows : Aligned(rows, expected, base) /\ AlignFill(expected, base) = rows[N]
  BY AlignFillRows
<1>2. N \in Nat /\ Reach \in Nat /\ c \in 1 .. (Reach + 1) /\ c + 1 \in 1 .. (Reach + 1)
  BY ReachFacts
<1>3. \A r \in 0 .. N : rows[r] \in RowCosts
  BY <1>1 DEF Aligned
<1>4. \A r \in 0 .. N : rows[r][c] \in Nat /\ rows[r][c + 1] \in Nat
  BY <1>2, <1>3 DEF RowCosts
<1> DEFINE T == {r \in Nat : r <= N => rows[r][c + 1] >= Infinite}
<1>5. 0 \in T
  <2>1. rows[0][c + 1] = TopCost(rows[0][c], base + c - 1)
    BY <1>1 DEF Aligned, IsTopRow
  <2> QED
    BY <2>1, InfiniteIsCost DEF TopCost
<1>6. ASSUME NEW r \in Nat, r \in T PROVE r + 1 \in T
  <2> SUFFICES ASSUME r + 1 <= N PROVE rows[r + 1][c + 1] >= Infinite
    OBVIOUS
  <2>1. /\ r \in 0 .. N /\ r + 1 \in 0 .. N /\ r + 1 \in 1 .. N /\ (r + 1) - 1 = r
        /\ base + c - 1 \in Int
    BY <1>2
  <2> DEFINE left == rows[r + 1][c]
             above == rows[r]
             place == base + c - 1
             bit == expected[r + 1]
             offers == Offers(left, above, c, bit, place)
  <2>2. rows[r + 1][c + 1] = Cell(left, above, c, bit, place)
    BY <1>1, <2>1 DEF Aligned, IsNextRow
  <2>3. /\ left \in Nat /\ above \in RowCosts /\ bit \in {0, 1} /\ place \in Int
        /\ above[c + 1] \in Nat
    BY <1>3, <1>4, <2>1 DEF Expected
  <2>4. above[c + 1] >= Infinite
    BY <1>6, <2>1
  <2>5. channel.cost_del \in Nat
    BY ReachFacts
  <2>6. ~InRange(place)
    OBVIOUS
  <2> HIDE DEF left, above, place, bit
  <2>7. offers = {Infinite}
    <3>1. Plus(above[c + 1], channel.cost_del) = Infinite
      BY <2>3, <2>4, <2>5, PlusFacts
    <3> QED
      BY <2>6, <3>1 DEF Offers
  <2>8. Cell(left, above, c, bit, place) = Least(offers) /\ offers \in SUBSET Nat
    BY <2>3, CellFacts
  <2>9. Least(offers) = Infinite
    <3>1. Least(offers) \in offers \cup {Infinite}
      BY <2>8, LeastFacts
    <3> QED
      BY <2>7, <3>1
  <2> QED
    BY <2>2, <2>8, <2>9, InfiniteIsCost
<1>7. Nat \subseteq T
  <2> HIDE DEF T
  <2> QED
    BY <1>5, <1>6, NumberInduction
<1> QED
  BY <1>1, <1>2, <1>7

\* With both indels finite, deleting the group and inserting what the stream
\* has is a path.
LEMMA IndelPath ==
    ASSUME Given, NEW expected \in Expected, NEW base \in Nat, NEW c \in 0 .. N,
           base + c <= Len(received),
           channel.cost_ins # Infinite, channel.cost_del # Infinite
    PROVE  AlignFill(expected, base)[c + 1] < Infinite
<1>1. PICK rows : Aligned(rows, expected, base) /\ AlignFill(expected, base) = rows[N]
  BY AlignFillRows
<1> DEFINE ins == channel.cost_ins
           del == channel.cost_del
           f == [r \in 0 .. N |-> rows[r][1]]
           g == [k \in 0 .. c |-> rows[N][k + 1]]
<1>2. N \in Nat /\ Reach \in Nat /\ Reach >= N /\ ins \in Nat /\ del \in Nat
  BY ReachFacts
<1>3. \A r \in 0 .. N : rows[r] \in RowCosts
  BY <1>1 DEF Aligned
<1>4. \A r \in 0 .. N : \A k \in 1 .. (Reach + 1) : rows[r][k] \in Nat
  BY <1>3 DEF RowCosts
<1>5. 2 * N * ins < Infinite /\ 2 * N * del < Infinite
  BY CostsAreSummable
<1>6. /\ N * del \in Nat /\ N * ins \in Nat /\ N * del + N * ins < Infinite
  BY <1>2, <1>5, Halves
<1>7. Chain(f, 0, del, N)
  <2>1. \A r \in 0 .. N : f[r] \in Nat
    BY <1>2, <1>4
  <2>2. f[0] <= 0
    BY <1>1, <1>2 DEF Aligned, IsTopRow
  <2>3. ASSUME NEW r \in 1 .. N PROVE f[r] <= Plus(f[r - 1], del)
    <3>1. r \in 0 .. N /\ r - 1 \in 0 .. N
      BY <1>2
    <3>2. f[r] = Plus(f[r - 1], del)
      BY <1>1, <3>1 DEF Aligned, IsNextRow
    <3>3. f[r] \in Nat
      BY <2>1, <3>1
    <3> QED
      BY <3>2, <3>3
  <2> QED
    BY <2>1, <2>2, <2>3 DEF Chain
<1>8. rows[N][1] \in Nat /\ rows[N][1] <= N * del
  <2>1. 0 + N * del < Infinite /\ 0 \in Nat
    BY <1>6, InfiniteIsCost
  <2> HIDE DEF f, del
  <2>2. f[N] \in Nat /\ f[N] <= 0 + N * del
    BY <1>2, <1>7, <2>1, ChainIsFinite
  <2>3. f[N] = rows[N][1]
    BY <1>2 DEF f
  <2> QED
    BY <1>6, <2>2, <2>3
<1>9. Chain(g, N * del, ins, c)
  <2>1. \A k \in 0 .. c : g[k] \in Nat
    <3>1. \A k \in 0 .. c : k + 1 \in 1 .. (Reach + 1) /\ N \in 0 .. N
      BY <1>2
    <3> QED
      BY <1>4, <3>1
  <2>2. g[0] <= N * del
    BY <1>8
  <2>3. ASSUME NEW k \in 1 .. c PROVE g[k] <= Plus(g[k - 1], ins)
    <3> DEFINE left == rows[N][k]
               above == rows[N - 1]
               place == base + k - 1
               bit == expected[N]
    <3>1. /\ N \in 1 .. N /\ N - 1 \in 0 .. N /\ k \in 1 .. Reach /\ k - 1 \in 0 .. c
          /\ k \in 0 .. c /\ N \in 0 .. N /\ k \in 1 .. (Reach + 1) /\ place \in Int
          /\ (k - 1) + 1 = k
      BY <1>2, ReachFacts
    <3>2. InRange(place)
      BY <1>2 DEF InRange
    <3>3. left \in Nat /\ above \in RowCosts /\ bit \in {0, 1}
      BY <1>3, <1>4, <3>1 DEF Expected
    <3>4. rows[N][k + 1] = Cell(left, above, k, bit, place)
      BY <1>1, <3>1 DEF Aligned, IsNextRow
    <3>5. g[k] = rows[N][k + 1] /\ g[k - 1] = left
      BY <3>1
    <3> HIDE DEF left, above, place, bit, g
    <3> QED
      BY <3>1, <3>2, <3>3, <3>4, <3>5, CellAtMost
  <2> QED
    BY <2>1, <2>2, <2>3 DEF Chain
<1>10. c \in Nat /\ c * ins \in Nat /\ c * ins <= N * ins
  <2>1. c \in Nat /\ N - c \in Nat
    BY <1>2
  <2>2. c * ins \in Nat /\ (N - c) * ins \in Nat
    BY <1>2, <2>1
  <2>3. N * ins = c * ins + (N - c) * ins
    BY <1>2, <2>1, SMT
  <2> QED
    BY <2>1, <2>2, <2>3
<1> QED
  <2> DEFINE nd == N * del
             ci == c * ins
             ni == N * ins
  <2>1. nd + ci < Infinite
    <3>1. nd \in Nat /\ ci \in Nat /\ ni \in Nat /\ nd + ni < Infinite /\ ci <= ni
      BY <1>6, <1>10
    <3> HIDE DEF nd, ci, ni
    <3> QED
      BY <3>1, InfiniteIsCost
  <2> HIDE DEF g, ins, nd
  <2>2. g[c] \in Nat /\ g[c] <= nd + c * ins
    BY <1>2, <1>6, <1>9, <1>10, <2>1, ChainIsFinite DEF nd
  <2>3. g[c] = AlignFill(expected, base)[c + 1]
    BY <1>1, <1>10 DEF g
  <2> QED
    <3>1. nd \in Nat /\ ci \in Nat /\ g[c] <= nd + ci
      BY <1>6, <1>10, <2>2 DEF nd
    <3> HIDE DEF ci
    <3> QED
      BY <2>1, <2>2, <2>3, <3>1, InfiniteIsCost

\* A cost that no bit of the group exceeds, be it kept as it is or erased.
PriceBound(base, b) ==
    /\ b \in Nat /\ 2 * N * b < Infinite
    /\ channel.cost_match <= b /\ channel.cost_miss <= b
    /\ channel.cost_erase <= b \/ \A j \in 1 .. N : received[base + j] # Erasure

LEMMA PlusIsMonotone ==
    ASSUME NEW x \in Nat, NEW keep \in Nat, NEW a \in Nat, NEW b \in Nat,
           a <= b, keep + b < Infinite
    PROVE  Plus(x, Plus(keep, a)) <= Plus(x, keep + b)
<1>1. Infinite \in Nat
  BY InfiniteIsCost
<1>2. keep < Infinite /\ a < Infinite
  BY <1>1
<1>3. Plus(keep, a) = keep + a
  BY <1>2, PlusFacts
<1>4. keep + a \in Nat /\ keep + b \in Nat /\ keep + a <= keep + b /\ keep + a < Infinite
  BY <1>1
<1>5. CASE x >= Infinite
  <2>1. Plus(x, keep + a) = Infinite /\ Plus(x, keep + b) = Infinite
    BY <1>4, <1>5, PlusFacts
  <2> QED
    BY <1>1, <1>3, <2>1
<1>6. CASE x < Infinite
  <2>1. Plus(x, keep + a) = x + (keep + a) /\ Plus(x, keep + b) = x + (keep + b)
    BY <1>4, <1>6, PlusFacts
  <2> QED
    BY <1>3, <1>4, <2>1
<1> QED
  BY <1>1, <1>5, <1>6

LEMMA AtMostTimes ==
    ASSUME NEW n \in Nat \ {0}, NEW b \in Nat
    PROVE  b <= n * b
<1>1. (n - 1) * b \in Nat
  OBVIOUS
<1>2. n * b = (n - 1) * b + b
  BY SMT
<1> QED
  BY <1>1, <1>2

LEMMA PriceIs ==
    ASSUME NEW expected, NEW base, NEW j, expected[j] # Erasure
    PROVE  \/ /\ received[base + j] = Erasure
              /\ GroupPrice(expected, base, j) = channel.cost_erase
           \/ GroupPrice(expected, base, j) \in {channel.cost_match, channel.cost_miss}
<1>1. CASE received[base + j] = Erasure
  BY <1>1 DEF GroupPrice
<1>2. CASE received[base + j] # Erasure /\ received[base + j] = expected[j]
  <2>1. GroupPrice(expected, base, j) = channel.cost_match
    BY <1>2 DEF GroupPrice
  <2> QED
    BY <2>1
<1>3. CASE received[base + j] # Erasure /\ received[base + j] # expected[j]
  <2>1. GroupPrice(expected, base, j) = channel.cost_miss
    BY <1>3 DEF GroupPrice
  <2> QED
    BY <2>1
<1> QED
  BY <1>1, <1>2, <1>3

LEMMA PriceBoundExists ==
    ASSUME Given, NEW base \in Nat,
           \/ channel.cost_erase # Infinite
           \/ \A j \in 1 .. N : received[base + j] # Erasure
    PROVE  \E b : PriceBound(base, b)
<1> DEFINE match == channel.cost_match
           miss == channel.cost_miss
           erase == channel.cost_erase
           larger == IF match <= miss THEN miss ELSE match
           largest == IF erase <= larger THEN larger ELSE erase
<1>1. match \in Nat /\ miss \in Nat /\ erase \in Nat
  BY ReachFacts
<1>2. larger \in Nat /\ 2 * N * larger < Infinite /\ match <= larger /\ miss <= larger
  BY <1>1, CostsAreSummable
<1>3. CASE erase # Infinite
  <2>1. largest \in Nat /\ 2 * N * largest < Infinite
    BY <1>1, <1>2, <1>3, CostsAreSummable
  <2>2. match <= largest /\ miss <= largest /\ erase <= largest
    BY <1>1, <1>2
  <2>3. PriceBound(base, largest)
    BY <2>1, <2>2 DEF PriceBound
  <2> QED
    BY <2>3
<1>4. CASE \A j \in 1 .. N : received[base + j] # Erasure
  <2>1. PriceBound(base, larger)
    BY <1>2, <1>4 DEF PriceBound
  <2> QED
    BY <2>1
<1> QED
  BY <1>3, <1>4

\* A group that is all there, with no erasure the channel rules out, is
\* matched bit by bit by a path.
LEMMA MatchPath ==
    ASSUME Given, NEW expected \in Expected, NEW base \in Nat,
           base + N <= Len(received),
           \/ channel.cost_erase # Infinite
           \/ \A j \in 1 .. N : received[base + j] # Erasure
    PROVE  AlignFill(expected, base)[N + 1] < Infinite
<1>1. PICK rows : Aligned(rows, expected, base) /\ AlignFill(expected, base) = rows[N]
  BY AlignFillRows
<1>2. PICK b : PriceBound(base, b)
  BY PriceBoundExists
<1> DEFINE keep == channel.cost_keep
           each == keep + b
           f == [r \in 0 .. N |-> rows[r][r + 1]]
<1>3. N \in Nat /\ Reach \in Nat /\ Reach >= N /\ keep \in Nat /\ b \in Nat /\ each \in Nat
  <2>1. N \in Nat /\ Reach \in Nat /\ Reach >= N /\ keep \in Nat
    BY ReachFacts
  <2>2. b \in Nat
    BY <1>2 DEF PriceBound
  <2> QED
    BY <2>1, <2>2
<1>4. \A r \in 0 .. N : rows[r] \in RowCosts
  BY <1>1 DEF Aligned
<1>5. \A r \in 0 .. N : \A k \in 1 .. (Reach + 1) : rows[r][k] \in Nat
  BY <1>4 DEF RowCosts
<1>6. 2 * N * keep < Infinite /\ 2 * N * b < Infinite
  <2>1. 2 * N * keep < Infinite
    BY CostsAreSummable
  <2>2. 2 * N * b < Infinite
    BY <1>2 DEF PriceBound
  <2> QED
    BY <2>1, <2>2
<1>7. N * each \in Nat /\ 0 + N * each < Infinite
  <2> HIDE DEF keep
  <2>1. N * keep \in Nat /\ N * b \in Nat /\ N * keep + N * b < Infinite
        /\ N * each = N * keep + N * b
    BY <1>3, <1>6, Halves
  <2> QED
    BY <2>1
<1>14. keep + b < Infinite
  <2>1. each <= N * each /\ each \in Nat
    BY <1>3, ReachFacts, AtMostTimes
  <2> HIDE DEF each
  <2>2. each < Infinite
    BY <1>7, <2>1, InfiniteIsCost
  <2> QED
    BY <2>2 DEF each
<1>8. ASSUME NEW r \in 1 .. N PROVE f[r] \in Nat /\ f[r - 1] \in Nat /\ f[r] <= Plus(f[r - 1], each)
  <2> DEFINE left == rows[r][r]
             above == rows[r - 1]
             place == base + r - 1
             bit == expected[r]
             price == GroupPrice(expected, base, r)
  <2>1. /\ r \in 0 .. N /\ r - 1 \in 0 .. N /\ r \in 1 .. Reach /\ r \in 1 .. (Reach + 1)
        /\ r + 1 \in 1 .. (Reach + 1) /\ place \in Int /\ base >= 0 /\ (r - 1) + 1 = r
        /\ base \in Int
    BY <1>3
  <2>2. left \in Nat /\ above \in RowCosts /\ bit \in {0, 1} /\ above[r] \in Nat
    BY <1>4, <1>5, <2>1 DEF Expected
  <2>3. rows[r][r + 1] = Cell(left, above, r, bit, place)
    BY <1>1, <2>1 DEF Aligned, IsNextRow
  <2>4. f[r] = rows[r][r + 1] /\ f[r - 1] = above[r] /\ f[r] \in Nat
    BY <1>5, <2>1
  <2>5. price \in Nat /\ InRange(place) /\ MatchCost(bit, place) = Plus(keep, price)
    BY <2>1, PriceType
  <2>6. price <= b
    <3>1. expected[r] # Erasure
      BY <2>2 DEF Erasure
    <3> QED
      BY <1>2, <3>1, PriceIs DEF PriceBound
  <2> HIDE DEF left, above, place, bit, price, f, keep
  <2>7. f[r] <= Plus(above[r], Plus(keep, price))
    BY <2>1, <2>2, <2>3, <2>4, <2>5, CellAtMost
  <2>8. Plus(above[r], Plus(keep, price)) <= Plus(above[r], keep + b)
    BY <1>3, <1>14, <2>2, <2>5, <2>6, PlusIsMonotone
  <2>9. Plus(above[r], Plus(keep, price)) \in Nat /\ Plus(above[r], keep + b) \in Nat
    BY <1>3, <2>2, <2>5, PlusFacts
  <2> QED
    BY <2>2, <2>4, <2>7, <2>8, <2>9
<1>9. f[0] \in Nat /\ f[0] <= 0
  BY <1>1, <1>3 DEF Aligned, IsTopRow
<1>10. \A k \in 0 .. N : f[k] \in Nat
  <2>1. \A k \in 0 .. N : k = 0 \/ k \in 1 .. N
    BY <1>3
  <2> HIDE DEF f
  <2> QED
    BY <1>8, <1>9, <2>1
<1>11. f[N] = AlignFill(expected, base)[N + 1]
  BY <1>1, <1>3
<1> HIDE DEF f, each
<1>12. Chain(f, 0, each, N)
  BY <1>8, <1>9, <1>10 DEF Chain
<1>13. f[N] \in Nat /\ f[N] <= 0 + N * each
  BY <1>3, <1>7, <1>12, ChainIsFinite, SMT
<1> QED
  BY <1>7, <1>11, <1>13, InfiniteIsCost

----------------------------------------------------------------------------
(* The inductive invariant.                                                *)

Typed ==
    /\ Given
    /\ read_base \in Nat
    /\ metric \in [Nodes -> 0 .. Infinite]

\* A live node stands at a place of the stream.
InWindow ==
    \A v \in Nodes : metric[v] < Infinite =>
        read_base + Drift(v) - channel.max_drift \in 0 .. Len(received)

Dead == \A v \in Nodes : metric[v] = Infinite

\* Normalisation leaves the cheapest node at 0.
Normal == Dead \/ \E v \in Nodes : metric[v] = 0

MetricInv == Typed /\ InWindow /\ Normal /\ DiesOnlyOfErasure

LEMMA CostRange == \A x \in 0 .. Infinite : x \in Nat
  BY InfiniteIsCost

LEMMA ArrivalFacts ==
    ASSUME Given, NEW m \in Metrics, NEW base \in Int, NEW v \in Nodes
    PROVE  /\ ForwardPass(m, base)[v].cost \in 0 .. Infinite
           /\ ForwardPass(m, base)[v].cost < Infinite =>
                 \E u, e : Leads(m, u, v, e) /\ Branch(u, v, e, base) < Infinite
           /\ \A u, e : Leads(m, u, v, e) /\ m[u] = 0 /\ Branch(u, v, e, base) < Infinite
                 => ForwardPass(m, base)[v].cost < Infinite
<1> DEFINE edges == Reaching(m, v)
           costs == {Costs(m, base, v)[e] : e \in edges}
           arrival == ForwardPass(m, base)[v].cost
<1>1. arrival = Least(costs)
  BY ForwardPassIs, ArrivalCost
<1>2. ASSUME NEW e \in edges
      PROVE  \E u : /\ Leads(m, u, v, e)
                    /\ Costs(m, base, v)[e] = Plus(m[u], Branch(u, v, e, base))
                    /\ m[u] \in Nat /\ Branch(u, v, e, base) \in Nat
                    /\ Costs(m, base, v)[e] \in Nat
  <2>1. PICK u : Leads(m, u, v, e)
    BY ReachingFacts
  <2>2. /\ m[u] \in Nat /\ Branch(u, v, e, base) \in Nat
        /\ EdgeCost(m, base, v, e) = Plus(m[u], Branch(u, v, e, base))
        /\ EdgeCost(m, base, v, e) \in Nat
    BY <2>1, LeadsCost
  <2>3. Costs(m, base, v)[e] = EdgeCost(m, base, v, e)
    BY DEF Costs
  <2> QED
    BY <2>1, <2>2, <2>3
<1>3. costs \in SUBSET Nat
  BY <1>2
<1>4. /\ arrival \in Nat /\ arrival <= Infinite
      /\ arrival \in costs \cup {Infinite}
      /\ \A c \in costs : arrival <= c
  <2> HIDE DEF costs, arrival
  <2> QED
    BY <1>1, <1>3, LeastFacts
<1>5. arrival \in 0 .. Infinite
  <2> HIDE DEF arrival
  <2> QED
    BY <1>4, InfiniteIsCost
<1>6. ASSUME arrival < Infinite
      PROVE  \E u, e : Leads(m, u, v, e) /\ Branch(u, v, e, base) < Infinite
  <2>1. arrival \in costs
    <3> HIDE DEF arrival, costs
    <3> QED
      BY <1>4, <1>6, InfiniteIsCost
  <2>2. PICK e \in edges : arrival = Costs(m, base, v)[e]
    BY <2>1
  <2>3. PICK u : /\ Leads(m, u, v, e)
                 /\ Costs(m, base, v)[e] = Plus(m[u], Branch(u, v, e, base))
                 /\ m[u] \in Nat /\ Branch(u, v, e, base) \in Nat
    BY <1>2
  <2>4. Plus(m[u], Branch(u, v, e, base)) < Infinite
    BY <1>6, <2>2, <2>3
  <2>5. Branch(u, v, e, base) < Infinite
    BY <2>3, <2>4, PlusFacts
  <2> QED
    BY <2>3, <2>5
<1>7. ASSUME NEW u, NEW e, Leads(m, u, v, e), m[u] = 0, Branch(u, v, e, base) < Infinite
      PROVE  arrival < Infinite
  <2>1. e \in edges
    BY <1>7, ReachingFacts
  <2>2. /\ Branch(u, v, e, base) \in Nat
        /\ EdgeCost(m, base, v, e) = Plus(m[u], Branch(u, v, e, base))
    BY <1>7, LeadsCost
  <2>3. Costs(m, base, v)[e] = EdgeCost(m, base, v, e) /\ Costs(m, base, v)[e] \in costs
    BY <2>1 DEF Costs
  <2>4. Plus(0, Branch(u, v, e, base)) = Branch(u, v, e, base)
    <3>1. 0 \in Nat /\ 0 < Infinite
      BY InfiniteIsCost
    <3> DEFINE x == Branch(u, v, e, base)
    <3>2. x \in Nat /\ x < Infinite
      BY <1>7, <2>2
    <3> HIDE DEF x
    <3>3. Plus(0, x) = 0 + x
      BY <3>1, <3>2, PlusFacts
    <3> QED
      BY <3>2, <3>3 DEF x
  <2>5. arrival <= Branch(u, v, e, base)
    BY <1>4, <1>7, <2>2, <2>3, <2>4
  <2> HIDE DEF arrival
  <2> QED
    BY <1>4, <1>7, <2>2, <2>5, InfiniteIsCost
<1> QED
  BY <1>5, <1>6, <1>7

LEMMA IncrementFacts ==
    ASSUME NEW arrivals, \A v \in Nodes : arrivals[v].cost \in 0 .. Infinite
    PROVE  /\ Increment(arrivals) \in Nat
           /\ \A v \in Nodes : arrivals[v].cost < Infinite =>
                 /\ arrivals[v].cost - Increment(arrivals) \in Nat
                 /\ arrivals[v].cost - Increment(arrivals) < Infinite
           /\ (\E v \in Nodes : arrivals[v].cost < Infinite) =>
                 \E v \in Nodes : /\ arrivals[v].cost < Infinite
                                  /\ arrivals[v].cost - Increment(arrivals) = 0
<1> DEFINE costs == {arrivals[v].cost : v \in Nodes}
           least == Least(costs)
<1>1. costs \in SUBSET Nat
  BY CostRange
<1>2. /\ least \in Nat /\ least <= Infinite
      /\ least \in costs \cup {Infinite}
      /\ \A c \in costs : least <= c
  <2> HIDE DEF costs
  <2> QED
    BY <1>1, LeastFacts
<1>3. Increment(arrivals) = IF least = Infinite THEN 0 ELSE least
  BY DEF Increment
<1>4. Infinite \in Nat
  BY InfiniteIsCost
<1>5. \A v \in Nodes : arrivals[v].cost \in Nat /\ arrivals[v].cost \in costs
  BY <1>1
<1>6. CASE \A v \in Nodes : ~(arrivals[v].cost < Infinite)
  <2> HIDE DEF least
  <2> QED
    BY <1>2, <1>3, <1>4, <1>6
<1>7. CASE \E v \in Nodes : arrivals[v].cost < Infinite
  <2>1. PICK v \in Nodes : arrivals[v].cost < Infinite
    BY <1>7
  <2>2. least <= arrivals[v].cost /\ arrivals[v].cost \in Nat
    BY <1>2, <1>5
  <2>3. least < Infinite
    <3> HIDE DEF least
    <3> QED
      BY <1>2, <1>4, <2>1, <2>2
  <2>4. Increment(arrivals) = least
    <3> HIDE DEF least
    <3> QED
      BY <1>2, <1>3, <1>4, <2>3
  <2>5. PICK w \in Nodes : arrivals[w].cost = least
    <3>1. least \in costs
      <4> HIDE DEF least, costs
      <4> QED
        BY <1>2, <1>4, <2>3
    <3> QED
      BY <3>1
  <2>6. arrivals[w].cost < Infinite /\ arrivals[w].cost - Increment(arrivals) = 0
    <3> HIDE DEF least
    <3> QED
      BY <1>2, <2>3, <2>4, <2>5
  <2>7. ASSUME NEW x \in Nodes, arrivals[x].cost < Infinite
        PROVE  /\ arrivals[x].cost - Increment(arrivals) \in Nat
               /\ arrivals[x].cost - Increment(arrivals) < Infinite
    <3>1. arrivals[x].cost \in Nat /\ least <= arrivals[x].cost
      BY <1>2, <1>5
    <3> HIDE DEF least
    <3> QED
      BY <1>2, <1>4, <2>4, <2>7, <3>1
  <2>8. Increment(arrivals) \in Nat
    BY <1>2, <2>4
  <2> QED
    BY <2>6, <2>7, <2>8
<1> QED
  BY <1>6, <1>7

\* A pass that is alive when every node was dead has nothing to start from.
LEMMA DeadStaysDead ==
    ASSUME Given, NEW m \in Metrics, \A u \in Nodes : m[u] >= Infinite, NEW base \in Int
    PROVE  \A v \in Nodes : ForwardPass(m, base)[v].cost = Infinite
<1> SUFFICES ASSUME NEW v \in Nodes
             PROVE  ForwardPass(m, base)[v].cost = Infinite
  OBVIOUS
<1>1. ~ \E u, e : Leads(m, u, v, e)
  <2> SUFFICES ASSUME NEW u, NEW e, Leads(m, u, v, e) PROVE FALSE
    OBVIOUS
  <2>1. u \in Nodes /\ m[u] < Infinite
    BY DEF Leads
  <2>2. m[u] \in Nat /\ m[u] >= Infinite
    BY <2>1 DEF Metrics
  <2> QED
    BY <2>1, <2>2, InfiniteIsCost
<1> DEFINE arrival == ForwardPass(m, base)[v].cost
<1>2. arrival \in 0 .. Infinite /\ ~(arrival < Infinite)
  BY <1>1, ArrivalFacts
<1> HIDE DEF arrival
<1>3. arrival = Infinite
  BY <1>2, InfiniteIsCost
<1> QED
  BY <1>3 DEF arrival

----------------------------------------------------------------------------
(* Re-anchoring.                                                           *)

LEMMA FrontierFacts ==
    ASSUME Typed, Normal, ~Dead
    PROVE  Frontier \in Nodes /\ metric[Frontier] = 0
<1> DEFINE costs == {metric[v] : v \in Nodes}
           best == {v \in Nodes : metric[v] = 0}
<1>1. PICK z \in Nodes : metric[z] = 0
  BY DEF Normal
<1>2. costs \in SUBSET Nat /\ 0 \in costs
  BY <1>1, CostRange DEF Typed
<1>3. Least(costs) = 0
  <2>1. 0 <= Infinite /\ \A c \in costs : 0 <= c
    BY <1>2, InfiniteIsCost
  <2> HIDE DEF costs
  <2> QED
    BY <1>2, <2>1, LeastIs
<1>4. best \subseteq Nat /\ best # {}
  <2>1. Nodes \subseteq Nat
    BY WidthFacts DEF Nodes, Typed
  <2> QED
    BY <1>1, <2>1
<1>5. Min(best) \in best
  <2>1. \E m \in best : \A x \in best : m <= x
    BY <1>4, LeastExists
  <2> QED
    BY <2>1 DEF Min
<1>6. Frontier = Min(best)
  BY <1>3, InfiniteIsCost DEF Frontier
<1> QED
  BY <1>5, <1>6

LEMMA ShiftFacts ==
    ASSUME Typed, NEW f, f = Frontier
    PROVE  /\ PickShift \in {-1, 0, 1}
           /\ channel.max_drift = 0 => PickShift = 0
           /\ Drift(f) \in Int /\ PickShift = 1 => Drift(f) >= channel.max_drift + 1
           /\ Drift(f) \in Int /\ PickShift = -1 => Drift(f) <= channel.max_drift - 1
<1> DEFINE deadband == (channel.max_drift + 1) \div 2
           drift == Drift(f) - channel.max_drift
           md == channel.max_drift
<1>1. md \in Nat
  BY ReachFacts DEF Typed
<1>2. md > 0 => deadband >= 1
  BY <1>1, SMT
<1>3. deadband \in Int
  BY <1>1, SMT
<1>4. PickShift = CASE md > 0 /\ drift >= deadband -> 1
                    [] md > 0 /\ drift <= -deadband -> -1
                    [] OTHER -> 0
  BY DEF PickShift
<1>5. CASE md = 0
  <2>1. PickShift = 0
    <3>1. ~(md > 0)
      BY <1>5
    <3> HIDE DEF md, deadband, drift
    <3> QED
      BY <1>4, <3>1
  <2> QED
    BY <2>1
<1>6. CASE md > 0 /\ Drift(f) \in Int
  <2>1. drift \in Int /\ deadband >= 1
    BY <1>1, <1>2, <1>6
  <2>2. CASE drift >= deadband
    <3>1. ~(drift <= -deadband)
      <4> HIDE DEF drift, deadband
      <4> QED
        BY <1>3, <2>1, <2>2
    <3>2. PickShift = 1
      <4> HIDE DEF md, deadband, drift
      <4> QED
        BY <1>4, <1>6, <2>2, <3>1
    <3>3. drift >= 1
      <4> HIDE DEF drift, deadband
      <4> QED
        BY <1>3, <2>1, <2>2
    <3> QED
      BY <1>1, <1>6, <3>2, <3>3
  <2>3. CASE drift <= -deadband
    <3>1. ~(drift >= deadband)
      <4> HIDE DEF drift, deadband
      <4> QED
        BY <1>3, <2>1, <2>3
    <3>2. PickShift = -1
      <4> HIDE DEF md, deadband, drift
      <4> QED
        BY <1>4, <1>6, <2>3, <3>1
    <3>3. drift <= -1
      <4> HIDE DEF drift, deadband
      <4> QED
        BY <1>3, <2>1, <2>3
    <3> QED
      BY <1>1, <1>6, <3>2, <3>3
  <2>4. CASE ~(drift >= deadband) /\ ~(drift <= -deadband)
    <3>1. PickShift = 0
      <4> HIDE DEF md, deadband, drift
      <4> QED
        BY <1>4, <2>4
    <3> QED
      BY <1>6, <3>1
  <2> QED
    BY <2>2, <2>3, <2>4
<1>7. CASE md > 0
  <2>1. PickShift \in {-1, 0, 1}
    <3>1. CASE drift >= deadband /\ drift <= -deadband
      <4> HIDE DEF md, deadband, drift
      <4> QED
        BY <1>4, <1>7, <3>1
    <3>2. CASE ~(drift >= deadband)
      <4> HIDE DEF md, deadband, drift
      <4> QED
        BY <1>4, <1>7, <3>2
    <3>3. CASE ~(drift <= -deadband)
      <4> HIDE DEF md, deadband, drift
      <4> QED
        BY <1>4, <1>7, <3>3
    <3> QED
      BY <3>1, <3>2, <3>3
  <2> QED
    BY <1>1, <1>6, <1>7, <2>1
<1> QED
  BY <1>1, <1>5, <1>7

\* The zero-drift bit and the metric that a step starts from.
Base == read_base + PickShift
Anchor == Reanchor(PickShift)

LEMMA BaseIsNat ==
    ASSUME MetricInv
    PROVE  /\ Base \in Nat
           /\ channel.max_drift = 0 => Base = read_base
<1>1. /\ Typed /\ InWindow /\ Normal /\ DiesOnlyOfErasure
      /\ read_base \in Nat /\ channel.max_drift \in Nat /\ Len(received) \in Nat
  BY ReachFacts DEF MetricInv, Typed
<1>2. PickShift \in {-1, 0, 1} /\ (channel.max_drift = 0 => PickShift = 0)
  BY <1>1, ShiftFacts
<1>3. CASE PickShift # -1
  BY <1>1, <1>2, <1>3 DEF Base
<1>4. CASE PickShift = -1
  <2>1. channel.max_drift # 0
    BY <1>2, <1>4
  <2>2. ~Dead
    BY <1>1, <2>1 DEF DiesOnlyOfErasure, Dead
  <2>3. Frontier \in Nodes /\ metric[Frontier] = 0
    BY <1>1, <2>2, FrontierFacts
  <2>4. read_base + Drift(Frontier) - channel.max_drift \in 0 .. Len(received)
    BY <1>1, <2>3, InfiniteIsCost DEF InWindow
  <2>5. Drift(Frontier) \in Int
    BY <1>1, <2>3, NodeFacts, WidthFacts DEF Drifts, Typed
  <2>6. Drift(Frontier) <= channel.max_drift - 1
    BY <1>1, <1>4, <2>5, ShiftFacts
  <2>7. read_base >= 1
    BY <1>1, <2>4, <2>5, <2>6
  <2> QED
    BY <1>1, <1>4, <2>1, <2>7 DEF Base
<1> QED
  BY <1>3, <1>4

\* Re-anchoring moves no path along the stream.
LEMMA AnchorFacts ==
    ASSUME MetricInv
    PROVE  /\ Anchor \in Metrics
           /\ \A u \in Nodes : Anchor[u] < Infinite =>
                 Base + Drift(u) - channel.max_drift \in 0 .. Len(received)
           /\ Dead => \A u \in Nodes : Anchor[u] >= Infinite
<1>1. /\ Typed /\ InWindow /\ Given
      /\ read_base \in Nat /\ channel.max_drift \in Nat
      /\ PickShift \in Int
  BY ReachFacts, ShiftFacts DEF MetricInv, Typed
<1>2. ASSUME NEW u \in Nodes
      PROVE  /\ Anchor[u] \in Nat
             /\ Anchor[u] < Infinite =>
                   Base + Drift(u) - channel.max_drift \in 0 .. Len(received)
             /\ Dead => Anchor[u] >= Infinite
  <2> DEFINE d == Drift(u) + PickShift
             w == NodeAt(State(u), d)
  <2>1. Anchor[u] = IF d \in Drifts THEN metric[w] ELSE Infinite
    BY DEF Anchor, Reanchor, Drifts
  <2>2. State(u) \in States /\ Drift(u) \in Int
    BY <1>1, NodeFacts, WidthFacts DEF Drifts
  <2>3. CASE d \in Drifts
    <3>1. w \in Nodes /\ Drift(w) = d
      BY <1>1, <2>2, <2>3, NodeAtFacts
    <3>2. Anchor[u] = metric[w]
      BY <2>1, <2>3
    <3> HIDE DEF w
    <3>3. metric[w] \in 0 .. Infinite
      BY <1>1, <3>1 DEF Typed
    <3>4. metric[w] < Infinite =>
              read_base + d - channel.max_drift \in 0 .. Len(received)
      BY <1>1, <3>1 DEF InWindow
    <3>5. read_base + d - channel.max_drift = Base + Drift(u) - channel.max_drift
      BY <1>1, <2>2 DEF Base
    <3>6. Dead => metric[w] >= Infinite
      BY <3>1, InfiniteIsCost DEF Dead
    <3> QED
      BY <3>2, <3>3, <3>4, <3>5, <3>6, CostRange
  <2>4. CASE d \notin Drifts
    BY <2>1, <2>4, InfiniteIsCost
  <2> QED
    BY <2>3, <2>4
<1>3. Anchor = [u \in Nodes |-> Anchor[u]]
  BY DEF Anchor, Reanchor
<1> QED
  BY <1>2, <1>3 DEF Metrics

\* The cheapest path survives re-anchoring.
LEMMA AnchorIsAlive ==
    ASSUME MetricInv, ~Dead
    PROVE  \E u \in Nodes : Anchor[u] = 0
<1>1. /\ Typed /\ Normal /\ Given /\ channel.max_drift \in Nat
      /\ DriftWidth = 2 * channel.max_drift + 1
  BY ReachFacts DEF MetricInv, Typed, DriftWidth
<1> DEFINE f == Frontier
           d == Drift(f) - PickShift
           u == NodeAt(State(f), d)
<1>2. f \in Nodes /\ metric[f] = 0
  BY <1>1, FrontierFacts
<1>3. /\ State(f) \in States /\ Drift(f) \in 0 .. (2 * channel.max_drift)
      /\ NodeAt(State(f), Drift(f)) = f
  BY <1>1, <1>2, NodeFacts DEF Drifts
<1>4. /\ PickShift \in {-1, 0, 1}
      /\ PickShift = 1 => Drift(f) >= channel.max_drift + 1
      /\ PickShift = -1 => Drift(f) <= channel.max_drift - 1
  BY <1>1, <1>3, ShiftFacts
<1>5. d \in 0 .. (2 * channel.max_drift) /\ d + PickShift = Drift(f)
  BY <1>1, <1>3, <1>4
<1>6. u \in Nodes /\ State(u) = State(f) /\ Drift(u) = d
  BY <1>1, <1>3, <1>5, NodeAtFacts DEF Drifts
<1>7. Drift(u) + PickShift \in 0 .. (DriftWidth - 1)
  BY <1>1, <1>3, <1>5, <1>6
<1>8. Anchor[u] = metric[NodeAt(State(u), Drift(u) + PickShift)]
  BY <1>6, <1>7 DEF Anchor, Reanchor
<1>9. Anchor[u] = 0
  BY <1>2, <1>3, <1>5, <1>6, <1>8
<1> QED
  BY <1>6, <1>9

----------------------------------------------------------------------------
(* One step of the forward pass.                                           *)

Arrivals == ForwardPass(Anchor, Base)

\* What a step arrives at is at a place of the stream.
LEMMA ArrivesInWindow ==
    ASSUME MetricInv, NEW v \in Nodes, Arrivals[v].cost < Infinite
    PROVE  Base + N + Drift(v) - channel.max_drift \in 0 .. Len(received)
<1>1. /\ Given /\ Base \in Int /\ Anchor \in Metrics
      /\ N \in Nat /\ Reach \in Nat /\ channel.max_drift \in Nat
      /\ Len(received) \in Nat
  BY BaseIsNat, AnchorFacts, ReachFacts DEF MetricInv, Typed
<1>2. PICK u, e : Leads(Anchor, u, v, e) /\ Branch(u, v, e, Base) < Infinite
  BY <1>1, ArrivalFacts DEF Arrivals
<1> DEFINE expected == output[<<e[1], e[3]>>]
           place == Base + Drift(u) - channel.max_drift
           c == N + Drift(v) - Drift(u)
<1>3. u \in Nodes /\ Anchor[u] < Infinite
  BY <1>2 DEF Leads
<1>4. expected \in Expected /\ c \in 0 .. Reach
  BY <1>1, <1>2, LeadsFacts
<1>5. place \in 0 .. Len(received)
  BY <1>3, AnchorFacts
<1>6. AlignFill(expected, place)[c + 1] < Infinite
  BY <1>2 DEF Branch
<1>7. Drift(u) \in Int /\ Drift(v) \in Int
  BY <1>1, <1>3, NodeFacts, WidthFacts DEF Drifts
<1>8. place + c = Base + N + Drift(v) - channel.max_drift
  BY <1>1, <1>7
<1>9. AlignFill(expected, place)[c + 1] \in Nat
  <2> HIDE DEF expected, place, c
  <2>1. AlignFill(expected, place) \in RowCosts
    BY <1>1, <1>4, <1>5, AlignFillType
  <2>2. c + 1 \in 1 .. (Reach + 1)
    BY <1>1, <1>4
  <2> QED
    BY <2>1, <2>2 DEF RowCosts
<1> HIDE DEF expected, place, c
<1>10. CASE c = 0
  BY <1>1, <1>5, <1>8, <1>10
<1>11. CASE c # 0
  <2>1. c \in 1 .. Reach /\ place \in Int
    BY <1>1, <1>4, <1>5, <1>11
  <2>2. InRange(place + c - 1)
    <3> SUFFICES ASSUME ~InRange(place + c - 1) PROVE FALSE
      OBVIOUS
    <3>1. AlignFill(expected, place)[c + 1] >= Infinite
      BY <1>1, <1>4, <2>1, PastEndIsDead
    <3> QED
      BY <1>6, <1>9, <3>1, InfiniteIsCost
  <2>3. place + c \in 0 .. Len(received)
    BY <1>1, <1>5, <2>1, <2>2 DEF InRange
  <2> QED
    BY <1>8, <2>3
<1> QED
  BY <1>10, <1>11

\* A path through the alignment of an edge arrives at a node.
LEMMA PathArrives ==
    ASSUME MetricInv, NEW u \in Nodes, Anchor[u] = 0,
           NEW c \in 0 .. N, Drift(u) + c - N \in Drifts,
           AlignFill(output[<<State(u), 0>>], Base + Drift(u) - channel.max_drift)[c + 1]
               < Infinite
    PROVE  \E v \in Nodes : Arrivals[v].cost < Infinite
<1>1. /\ Given /\ Base \in Int /\ Anchor \in Metrics /\ N \in Nat /\ Drift(u) \in Int
      /\ State(u) \in States
  <2>1. Given /\ Base \in Int /\ Anchor \in Metrics
    BY BaseIsNat, AnchorFacts DEF MetricInv, Typed
  <2>2. N \in Nat /\ DriftWidth \in Nat \ {0}
    BY <2>1, ReachFacts, WidthFacts
  <2>3. State(u) \in States /\ Drift(u) \in Drifts
    BY <2>1, NodeFacts
  <2> QED
    BY <2>1, <2>2, <2>3 DEF Drifts
<1> DEFINE e == <<State(u), Drift(u), 0>>
           t == next_state[<<State(u), 0>>]
           d == Drift(u) + c - N
           v == NodeAt(t, d)
<1>2. t \in States
  BY <1>1, MetricAssumption DEF Edges, States
<1>3. v \in Nodes /\ State(v) = t /\ Drift(v) = d
  BY <1>1, <1>2, NodeAtFacts
<1>4. N + Drift(v) - Drift(u) = c /\ N + Drift(v) - Drift(u) >= 0
  BY <1>1, <1>3
<1>5. e[1] = State(u) /\ e[2] = Drift(u) /\ e[3] = 0 /\ e = <<e[1], e[2], e[3]>>
  OBVIOUS
<1>6. Anchor[u] < Infinite
  BY InfiniteIsCost
<1> HIDE DEF e, v
<1>7. Leads(Anchor, u, v, e)
  <2>1. next_state[<<e[1], e[3]>>] = State(v)
    BY <1>3, <1>5
  <2>2. N + Drift(v) - e[2] >= 0
    BY <1>4, <1>5
  <2>3. e[3] \in {0, 1}
    BY <1>5
  <2> QED
    BY <1>5, <1>6, <2>1, <2>2, <2>3, Zenon DEF Leads
<1>8. Branch(u, v, e, Base) < Infinite
  BY <1>4, <1>5 DEF Branch
<1>9. Arrivals[v].cost < Infinite
  BY <1>1, <1>3, <1>7, <1>8, ArrivalFacts DEF Arrivals
<1> QED
  BY <1>3, <1>9

\* What rules every path of a step out.
RuledOut ==
    /\ channel.max_drift = 0
    /\ channel.cost_erase = Infinite
    /\ Infinite \in {channel.cost_ins, channel.cost_del}
    /\ \E j \in 1 .. N : received[Base + j] = Erasure

LEMMA StepKeepsAPath ==
    ASSUME MetricInv, ~Dead, Len(received) - read_base >= N, ~RuledOut
    PROVE  \E v \in Nodes : Arrivals[v].cost < Infinite
<1>1. PICK u \in Nodes : Anchor[u] = 0
  BY AnchorIsAlive
<1> DEFINE md == channel.max_drift
           p == Base + Drift(u) - md
           expected == output[<<State(u), 0>>]
<1>2. /\ Given /\ Typed /\ N \in Nat \ {0} /\ md \in Nat /\ Len(received) \in Nat
      /\ Base \in Nat /\ read_base \in Nat
      /\ State(u) \in States /\ Drift(u) \in 0 .. (2 * md) /\ Drifts = 0 .. (2 * md)
  <2>1. Given /\ Typed /\ read_base \in Nat
    BY DEF MetricInv, Typed
  <2>2. N \in Nat \ {0} /\ md \in Nat
    BY <2>1, ReachFacts
  <2>3. Len(received) \in Nat
    BY <2>1, ReachFacts
  <2>4. Drifts = 0 .. (2 * md)
    BY <2>2 DEF Drifts, DriftWidth
  <2>5. State(u) \in States /\ Drift(u) \in Drifts
    BY <2>1, NodeFacts
  <2> QED
    BY <2>1, <2>2, <2>3, <2>4, <2>5, BaseIsNat
<1>3. p \in 0 .. Len(received)
  BY <1>1, AnchorFacts, InfiniteIsCost
<1>4. expected \in Expected
  BY <1>2, MetricAssumption DEF Edges, States, Expected
<1>5. CASE channel.cost_ins # Infinite /\ channel.cost_del # Infinite
  <2> DEFINE c == IF Len(received) - p >= N THEN N ELSE Len(received) - p
  <2>1. c \in 0 .. N /\ p + c <= Len(received) /\ p \in Nat
    BY <1>2, <1>3, SMTT(30)
  <2>2. Base = read_base + PickShift /\ PickShift \in {-1, 0, 1}
        /\ (md = 0 => PickShift = 0)
    BY <1>2, ShiftFacts DEF Base
  <2>3. Drift(u) + c - N \in 0 .. (2 * md)
    <3>1. CASE c = N
      BY <1>2, <3>1
    <3>2. CASE c # N
      <4>1. c = Len(received) - p /\ c < N
        BY <1>2, <1>3, <3>2
      <4>2. Drift(u) + c - N = (Len(received) - read_base - N) + md - PickShift
        <5>1. c = Len(received) - (Base + Drift(u) - md)
          BY <4>1
        <5>2. /\ PickShift \in Int /\ Drift(u) \in Int /\ md \in Int /\ N \in Int
              /\ Len(received) \in Int /\ read_base \in Int /\ Base = read_base + PickShift
          BY <1>2, <2>2
        <5> HIDE DEF c, md, p
        <5> QED
          BY <5>1, <5>2
      <4>3. Drift(u) + c - N >= 0
        <5>1. md - PickShift >= 0
          BY <1>2, <2>2
        <5> QED
          BY <1>2, <2>2, <4>2, <5>1, SMTT(30)
      <4>4. Drift(u) + c - N <= 2 * md
        BY <1>2, <1>3, <4>1, SMTT(30)
      <4> QED
        BY <1>2, <1>3, <4>1, <4>3, <4>4, SMTT(30)
    <3> QED
      BY <3>1, <3>2
  <2> HIDE DEF p, c, expected
  <2>4. AlignFill(expected, p)[c + 1] < Infinite
    BY <1>2, <1>4, <1>5, <2>1, IndelPath
  <2> QED
    BY <1>1, <1>2, <2>1, <2>3, <2>4, PathArrives DEF p, expected
<1>6. CASE ~(channel.cost_ins # Infinite /\ channel.cost_del # Infinite)
  <2>1. md = 0
    <3>1. channel.max_drift > 0 => channel.cost_ins < Infinite /\ channel.cost_del < Infinite
      BY <1>2, MetricAssumption DEF Given
    <3>2. channel.cost_ins \in Nat /\ channel.cost_del \in Nat
      BY <1>2, ReachFacts
    <3> QED
      BY <1>2, <1>6, <3>1, <3>2, InfiniteIsCost
  <2>2. Base = read_base /\ Drift(u) = 0 /\ p = Base /\ p + N <= Len(received)
    BY <1>2, <2>1, BaseIsNat
  <2>3. \/ channel.cost_erase # Infinite
        \/ \A j \in 1 .. N : received[p + j] # Erasure
    BY <1>6, <2>1, <2>2 DEF RuledOut
  <2>4. N \in 0 .. N /\ Drift(u) + N - N \in Drifts
    BY <1>2, <2>1, <2>2
  <2>5. p \in Nat /\ p + N <= Len(received)
    BY <1>2, <2>2
  <2> HIDE DEF p, expected
  <2>6. AlignFill(expected, p)[N + 1] < Infinite
    BY <1>2, <1>4, <2>3, <2>5, MatchPath
  <2> QED
    BY <1>1, <2>4, <2>6, PathArrives DEF p, expected
<1> QED
  BY <1>5, <1>6

----------------------------------------------------------------------------
(* Of what paths die, and the fast form.                                   *)

LEMMA ArrivalsIs ==
    ASSUME MetricInv
    PROVE  /\ (IF NoDrift THEN ForwardPassNoDrift(Reanchor(PickShift), read_base + PickShift)
               ELSE ForwardPass(Reanchor(PickShift), read_base + PickShift)) = Arrivals
           /\ \A v \in Nodes : Arrivals[v].cost \in 0 .. Infinite
<1>1. Given /\ Base \in Nat /\ Base \in Int /\ Anchor \in Metrics
  BY BaseIsNat, AnchorFacts DEF MetricInv, Typed
<1>2. NoDrift => ForwardPassNoDrift(Anchor, Base) = ForwardPass(Anchor, Base)
  BY <1>1, PassesAgree
<1>3. \A v \in Nodes : Arrivals[v].cost \in 0 .. Infinite
  BY <1>1, ArrivalFacts DEF Arrivals
<1> QED
  BY <1>2, <1>3 DEF Arrivals, Anchor, Base

LEMMA MetricInvInit == ASSUME Init PROVE MetricInv
<1>1. Given /\ read_base = 0 /\ metric = [v \in Nodes |-> IF Drift(v) = channel.max_drift
                                                          THEN 0 ELSE Infinite]
  BY DEF Init, Given
<1>2. channel.max_drift \in Nat /\ Len(received) \in Nat
  BY <1>1, ReachFacts
<1>3. Typed
  BY <1>1, InfiniteIsCost DEF Typed
<1>4. InWindow
  <2> SUFFICES ASSUME NEW v \in Nodes, metric[v] < Infinite
               PROVE  read_base + Drift(v) - channel.max_drift \in 0 .. Len(received)
    BY DEF InWindow
  <2>1. Drift(v) = channel.max_drift
    BY <1>1, InfiniteIsCost
  <2> QED
    BY <1>1, <1>2, <2>1
<1>5. \E v \in Nodes : metric[v] = 0
  <2> DEFINE v == NodeAt(0, channel.max_drift)
  <2>1. 0 \in States /\ channel.max_drift \in Drifts
    BY <1>1, <1>2, WidthFacts DEF States, Drifts, DriftWidth
  <2>2. v \in Nodes /\ Drift(v) = channel.max_drift
    BY <1>1, <2>1, NodeAtFacts
  <2>3. metric[v] = 0
    <3> HIDE DEF v
    <3> QED
      BY <1>1, <2>2
  <2> QED
    BY <2>2, <2>3
<1>6. Normal /\ ~Dead
  BY <1>5, InfiniteIsCost DEF Normal, Dead
<1> QED
  BY <1>3, <1>4, <1>6 DEF MetricInv, DiesOnlyOfErasure, Dead

LEMMA MetricInvStep ==
    ASSUME MetricInv, [Next]_vars
    PROVE  MetricInv'
<1>1. CASE UNCHANGED vars
  BY <1>1 DEF vars, MetricInv, Typed, Given, InWindow, Normal, Dead, DiesOnlyOfErasure,
              Nodes, DriftWidth, Drift
<1>2. CASE Step
  <2> DEFINE inc == Increment(Arrivals)
  <2>1. /\ Given /\ N \in Nat \ {0} /\ channel.max_drift \in Nat /\ read_base \in Nat
        /\ Len(received) \in Nat /\ Base \in Nat
        /\ (channel.max_drift = 0 => Base = read_base)
    BY BaseIsNat, ReachFacts DEF MetricInv, Typed
  <2>2. /\ \A v \in Nodes : Arrivals[v].cost \in 0 .. Infinite
        /\ Len(received) - read_base >= N
        /\ metric' = [v \in Nodes |-> IF Arrivals[v].cost = Infinite THEN Infinite
                                      ELSE Arrivals[v].cost - inc]
        /\ read_base' = Base + N
        /\ channel' = channel /\ received' = received
    BY <1>2, ArrivalsIs DEF Step, Base
  <2>3. Nodes' = Nodes /\ \A v : Drift(v)' = Drift(v)
    BY <2>2 DEF Nodes, DriftWidth, Drift
  <2>4. /\ inc \in Nat
        /\ \A v \in Nodes : Arrivals[v].cost < Infinite =>
              Arrivals[v].cost - inc \in Nat /\ Arrivals[v].cost - inc < Infinite
        /\ (\E v \in Nodes : Arrivals[v].cost < Infinite) =>
              \E v \in Nodes : Arrivals[v].cost < Infinite /\ Arrivals[v].cost - inc = 0
    BY <2>2, IncrementFacts
  <2> HIDE DEF inc
  <2>5. ASSUME NEW v \in Nodes
        PROVE  /\ metric'[v] \in 0 .. Infinite
               /\ metric'[v] < Infinite <=> Arrivals[v].cost < Infinite
               /\ Arrivals[v].cost < Infinite => metric'[v] = Arrivals[v].cost - inc
    <3> DEFINE a == Arrivals[v].cost
    <3>1. a \in 0 .. Infinite /\ metric'[v] = IF a = Infinite THEN Infinite ELSE a - inc
      BY <2>2
    <3>2. a < Infinite => a - inc \in Nat /\ a - inc < Infinite
      BY <2>4
    <3> HIDE DEF a
    <3>3. CASE a = Infinite
      BY <3>1, <3>3, InfiniteIsCost DEF a
    <3>4. CASE a # Infinite
      <4>1. a < Infinite
        BY <3>1, <3>4, InfiniteIsCost
      <4> QED
        BY <3>1, <3>2, <3>4, <4>1, InfiniteIsCost DEF a
    <3> QED
      BY <3>3, <3>4
  <2>6. Typed'
    <3>1. metric' \in [Nodes -> 0 .. Infinite]
      <4>1. metric' = [v \in Nodes |-> metric'[v]]
        BY <2>2
      <4> QED
        BY <2>5, <4>1
    <3>2. read_base' \in Nat
      BY <2>1, <2>2
    <3> QED
      BY <2>1, <2>2, <2>3, <3>1, <3>2 DEF Typed, Given
  <2>7. InWindow'
    <3> SUFFICES ASSUME NEW v \in Nodes, metric'[v] < Infinite
                 PROVE  read_base' + Drift(v) - channel.max_drift \in 0 .. Len(received)
      BY <2>2, <2>3 DEF InWindow
    <3>1. Base + N + Drift(v) - channel.max_drift \in 0 .. Len(received)
      BY <2>5, ArrivesInWindow
    <3> QED
      BY <2>2, <3>1
  <2>8. Dead' <=> \A v \in Nodes : ~(Arrivals[v].cost < Infinite)
    <3>1. \A v \in Nodes : metric'[v] = Infinite <=> ~(metric'[v] < Infinite)
      BY <2>5, InfiniteIsCost
    <3> QED
      BY <2>3, <2>5, <3>1 DEF Dead
  <2>9. Normal'
    <3>1. CASE \E v \in Nodes : Arrivals[v].cost < Infinite
      <4>1. PICK v \in Nodes : Arrivals[v].cost < Infinite /\ Arrivals[v].cost - inc = 0
        BY <2>4, <3>1
      <4>2. metric'[v] = 0
        BY <2>5, <4>1
      <4> QED
        BY <2>3, <4>2 DEF Normal
    <3>2. CASE ~ \E v \in Nodes : Arrivals[v].cost < Infinite
      BY <2>8, <3>2 DEF Normal
    <3> QED
      BY <3>1, <3>2
  <2>10. DiesOnlyOfErasure'
    <3> SUFFICES ASSUME Dead'
                 PROVE  /\ channel.max_drift = 0
                        /\ channel.cost_erase = Infinite
                        /\ Infinite \in {channel.cost_ins, channel.cost_del}
                        /\ Erasure \in {received[i] : i \in 1 .. (Base + N)}
      BY <2>2, <2>3 DEF DiesOnlyOfErasure, Dead
    <3>1. CASE Dead
      <4>1. /\ channel.max_drift = 0 /\ channel.cost_erase = Infinite
            /\ Infinite \in {channel.cost_ins, channel.cost_del}
            /\ Erasure \in {received[i] : i \in 1 .. read_base}
        BY <3>1 DEF MetricInv, DiesOnlyOfErasure, Dead
      <4>2. 1 .. read_base \subseteq 1 .. (Base + N)
        BY <2>1, <4>1
      <4> QED
        BY <4>1, <4>2
    <3>2. CASE ~Dead
      <4>1. RuledOut
        BY <2>2, <2>8, <3>2, StepKeepsAPath
      <4>2. PICK j \in 1 .. N : received[Base + j] = Erasure
        BY <4>1 DEF RuledOut
      <4>3. Base + j \in 1 .. (Base + N)
        BY <2>1
      <4> QED
        BY <4>1, <4>2, <4>3 DEF RuledOut
    <3> QED
      BY <3>1, <3>2
  <2> QED
    BY <2>6, <2>7, <2>9, <2>10 DEF MetricInv
<1> QED
  BY <1>1, <1>2 DEF Next

\* A live node is at a place of the stream, the cheapest one costs 0.
THEOREM MetricIsInvariant == Spec => []MetricInv
<1>1. Init => MetricInv
  BY MetricInvInit
<1>2. MetricInv /\ [Next]_vars => MetricInv'
  BY MetricInvStep
<1> QED
  BY <1>1, <1>2, PTL DEF Spec

\* Nothing but an erased bit the channel rules out leaves the trellis without
\* a path.
THEOREM PathsDieOnlyOfErasure == Spec => []DiesOnlyOfErasure
<1>1. MetricInv => DiesOnlyOfErasure
  BY DEF MetricInv
<1> QED
  BY <1>1, MetricIsInvariant, PTL

\* The fast form of the forward pass is the general one, from every state.
THEOREM FastPathIsTheGeneralOne == Spec => []FastPathAgrees
<1>1. ASSUME MetricInv PROVE FastPathAgrees
  <2>1. Given /\ read_base \in Nat /\ metric \in Metrics
    BY <1>1, CostRange DEF MetricInv, Typed, Metrics
  <2> QED
    BY <2>1, PassesAgree DEF FastPathAgrees
<1> QED
  BY <1>1, MetricIsInvariant, PTL

----------------------------------------------------------------------------
(* The alignments of the reference, bit by bit.                            *)

LEMMA SumFunctionIs ==
    ASSUME NEW w
    PROVE  SumFunction(w) = SumOf(w, DOMAIN w)
  BY DEF SumFunction, SumFunctionOnSet, FoldFunctionOnSet, SumOf, MapThenSumSet

LEMMA SumOnSetIs ==
    ASSUME NEW w, NEW S
    PROVE  SumFunctionOnSet(w, S) = SumOf(w, S)
  BY DEF SumFunctionOnSet, FoldFunctionOnSet, SumOf, MapThenSumSet

\* What a sent bit that became the received one at `place` costs.
BitPrice(sent, place) ==
    CASE received[place] = Erasure -> channel.cost_erase
      [] received[place] = sent -> channel.cost_match
      [] OTHER -> channel.cost_miss

Tolls(expected, way) ==
    [a \in DOMAIN way |-> channel.cost_keep + BitPrice(expected[a], way[a])]

\* An alignment of n sent bits with k received ones, and its cost.
WayCost(expected, way, n, k) ==
    SumOf(Tolls(expected, way), DOMAIN way)
        + (n - Cardinality(DOMAIN way)) * channel.cost_del
        + (k - Cardinality(DOMAIN way)) * channel.cost_ins

Increasing(way) == \A a, b \in DOMAIN way : a < b => way[a] < way[b]

IsWay(way, n, from, k) ==
    /\ DOMAIN way \subseteq 1 .. n
    /\ way \in [DOMAIN way -> (from + 1) .. (from + k)]
    /\ Increasing(way)

LEMMA WaysAre ==
    ASSUME NEW n, NEW from, NEW k, NEW way
    PROVE  way \in Alignments(n, from, from + k) <=> IsWay(way, n, from, k)
<1>1. ASSUME way \in Alignments(n, from, from + k) PROVE IsWay(way, n, from, k)
  <2>1. PICK sent \in SUBSET (1 .. n) : way \in [sent -> (from + 1) .. (from + k)]
    BY <1>1 DEF Alignments
  <2>2. DOMAIN way = sent
    BY <2>1
  <2>3. Increasing(way)
    BY <1>1 DEF Alignments, Increasing
  <2> QED
    BY <2>1, <2>2, <2>3 DEF IsWay
<1>2. ASSUME IsWay(way, n, from, k) PROVE way \in Alignments(n, from, from + k)
  <2>1. DOMAIN way \in SUBSET (1 .. n) /\ way \in [DOMAIN way -> (from + 1) .. (from + k)]
    BY <1>2 DEF IsWay
  <2>2. way \in UNION {[sent -> (from + 1) .. (from + k)] : sent \in SUBSET (1 .. n)}
    BY <2>1
  <2> QED
    BY <1>2, <2>2 DEF Alignments, IsWay, Increasing
<1> QED
  BY <1>1, <1>2

LEMMA BitPriceType ==
    ASSUME Given, NEW sent \in {0, 1}, NEW place \in 1 .. Len(received)
    PROVE  /\ BitPrice(sent, place) \in Nat
           /\ InRange(place - 1)
           /\ MatchCost(sent, place - 1) = Plus(channel.cost_keep, BitPrice(sent, place))
<1>1. /\ channel.cost_erase \in Nat /\ channel.cost_match \in Nat
      /\ channel.cost_miss \in Nat /\ Len(received) \in Nat
  BY ReachFacts
<1>2. BitPrice(sent, place) \in Nat
  BY <1>1 DEF BitPrice
<1>3. InRange(place - 1) /\ (place - 1) + 1 = place
  BY <1>1 DEF InRange
<1>4. MatchCost(sent, place - 1) = Plus(channel.cost_keep, BitPrice(sent, place))
  BY <1>3 DEF MatchCost, BitPrice
<1> QED
  BY <1>2, <1>3, <1>4

\* The bits that are aligned, and the stream they are aligned with.
Within(n, from, k) ==
    n \in 0 .. N /\ from \in Nat /\ k \in Nat /\ from + k <= Len(received)

LEMMA WayFacts ==
    ASSUME Given, NEW expected \in Expected, NEW n, NEW from, NEW k, Within(n, from, k),
           NEW way, IsWay(way, n, from, k)
    PROVE  /\ IsFiniteSet(DOMAIN way)
           /\ Cardinality(DOMAIN way) \in Nat
           /\ Cardinality(DOMAIN way) <= n /\ Cardinality(DOMAIN way) <= k
           /\ Tolls(expected, way) \in [DOMAIN way -> Nat]
           /\ SumOf(Tolls(expected, way), DOMAIN way) \in Nat
           /\ (n - Cardinality(DOMAIN way)) * channel.cost_del \in Nat
           /\ (k - Cardinality(DOMAIN way)) * channel.cost_ins \in Nat
           /\ WayCost(expected, way, n, k) \in Nat
<1> DEFINE places == (from + 1) .. (from + k)
           size == Cardinality(DOMAIN way)
<1>1. n \in Nat /\ n <= N /\ from \in Nat /\ k \in Nat /\ from + k <= Len(received) /\ N \in Nat
      /\ Len(received) \in Nat
  BY ReachFacts DEF Within
<1>2. IsFiniteSet(1 .. n) /\ Cardinality(1 .. n) = n
  BY <1>1, FS_Interval
<1>3. IsFiniteSet(places) /\ Cardinality(places) = k
  BY <1>1, FS_Interval
<1>4. IsFiniteSet(DOMAIN way) /\ size <= n /\ size \in Nat
  <2>1. DOMAIN way \subseteq 1 .. n
    BY DEF IsWay
  <2> QED
    BY <1>2, <2>1, FS_Subset, FS_CardinalityType
<1>5. way \in [DOMAIN way -> places]
  BY DEF IsWay
<1>6. way \in Injection(DOMAIN way, places)
  <2>1. ASSUME NEW a \in DOMAIN way, NEW b \in DOMAIN way, a # b
        PROVE  way[a] # way[b]
    <3>1. a \in 1 .. n /\ b \in 1 .. n /\ way[a] \in places /\ way[b] \in places
      BY <1>5 DEF IsWay
    <3>2. a < b \/ b < a
      BY <1>1, <2>1, <3>1
    <3>3. way[a] < way[b] \/ way[b] < way[a]
      BY <3>2 DEF IsWay, Increasing
    <3> QED
      BY <1>1, <3>1, <3>3
  <2> HIDE DEF places
  <2> QED
    BY <1>5, <2>1 DEF Injection, IsInjective
<1>7. size <= k
  <2> HIDE DEF places
  <2> QED
    BY <1>3, <1>6, FS_Injection
<1>8. \A a \in DOMAIN way : channel.cost_keep + BitPrice(expected[a], way[a]) \in Nat
  <2> SUFFICES ASSUME NEW a \in DOMAIN way
               PROVE  channel.cost_keep + BitPrice(expected[a], way[a]) \in Nat
    OBVIOUS
  <2>1. a \in 1 .. N
    BY <1>1 DEF IsWay
  <2>2. expected[a] \in {0, 1}
    BY <2>1 DEF Expected
  <2>3. way[a] \in 1 .. Len(received)
    BY <1>1, <1>5
  <2>4. BitPrice(expected[a], way[a]) \in Nat /\ channel.cost_keep \in Nat
    BY <2>2, <2>3, BitPriceType, ReachFacts
  <2> QED
    BY <2>4
<1>9. Tolls(expected, way) \in [DOMAIN way -> Nat]
  BY <1>8 DEF Tolls
<1>10. SumOf(Tolls(expected, way), DOMAIN way) \in Nat
  BY <1>4, <1>9, SumIsNumber
<1>11. /\ (n - size) * channel.cost_del \in Nat
       /\ (k - size) * channel.cost_ins \in Nat
  <2> DEFINE p == n - size
             q == k - size
  <2>1. p \in Nat /\ q \in Nat
    <3> HIDE DEF size
    <3> QED
      BY <1>1, <1>4, <1>7
  <2>3. channel.cost_del \in Nat /\ channel.cost_ins \in Nat
    BY ReachFacts
  <2> HIDE DEF p, q
  <2>2. p * channel.cost_del \in Nat /\ q * channel.cost_ins \in Nat
    BY <2>1, <2>3
  <2> QED
    BY <2>2 DEF p, q
<1> HIDE DEF size
<1>12. WayCost(expected, way, n, k) \in Nat
  BY <1>10, <1>11 DEF WayCost, size
<1> QED
  BY <1>4, <1>7, <1>9, <1>10, <1>11, <1>12 DEF size

LEMMA OneMoreOf ==
    ASSUME NEW a \in Nat, NEW b \in Nat, b <= a, NEW x \in Nat
    PROVE  ((a + 1) - b) * x = (a - b) * x + x
<1> DEFINE d == a - b
<1>1. d \in Nat /\ (a + 1) - b = d + 1
  OBVIOUS
<1> HIDE DEF d
<1>2. (d + 1) * x = d * x + x
  BY <1>1
<1> QED
  BY <1>1, <1>2 DEF d

\* One sent bit more, which is deleted.
LEMMA WayDeletes ==
    ASSUME Given, NEW expected \in Expected, NEW n, NEW from, NEW k, Within(n, from, k),
           n + 1 <= N, NEW way, IsWay(way, n, from, k)
    PROVE  /\ IsWay(way, n + 1, from, k)
           /\ WayCost(expected, way, n + 1, k) = WayCost(expected, way, n, k) + channel.cost_del
<1> DEFINE size == Cardinality(DOMAIN way)
           sum == SumOf(Tolls(expected, way), DOMAIN way)
           dels == (n - size) * channel.cost_del
           inss == (k - size) * channel.cost_ins
<1>1. size \in Nat /\ size <= n /\ sum \in Nat /\ dels \in Nat /\ inss \in Nat
  BY WayFacts
<1>2. n \in Nat /\ channel.cost_del \in Nat
  BY ReachFacts DEF Within
<1>3. IsWay(way, n + 1, from, k)
  BY <1>2 DEF IsWay
<1>4. ((n + 1) - size) * channel.cost_del = dels + channel.cost_del
  <2> HIDE DEF size
  <2> QED
    BY <1>1, <1>2, OneMoreOf
<1>5. WayCost(expected, way, n, k) = sum + dels + inss
  BY DEF WayCost
<1>6. WayCost(expected, way, n + 1, k) = sum + (dels + channel.cost_del) + inss
  BY <1>4 DEF WayCost
<1> HIDE DEF sum, dels, inss
<1> QED
  BY <1>1, <1>2, <1>3, <1>5, <1>6

\* One received bit more, which was inserted.
LEMMA WayInserts ==
    ASSUME Given, NEW expected \in Expected, NEW n, NEW from, NEW k, Within(n, from, k),
           from + (k + 1) <= Len(received), NEW way, IsWay(way, n, from, k)
    PROVE  /\ IsWay(way, n, from, k + 1)
           /\ WayCost(expected, way, n, k + 1) = WayCost(expected, way, n, k) + channel.cost_ins
<1> DEFINE size == Cardinality(DOMAIN way)
           sum == SumOf(Tolls(expected, way), DOMAIN way)
           dels == (n - size) * channel.cost_del
           inss == (k - size) * channel.cost_ins
<1>1. size \in Nat /\ size <= k /\ sum \in Nat /\ dels \in Nat /\ inss \in Nat
  BY WayFacts
<1>2. k \in Nat /\ from \in Nat /\ channel.cost_ins \in Nat
  BY ReachFacts DEF Within
<1>3. IsWay(way, n, from, k + 1)
  <2>1. (from + 1) .. (from + k) \subseteq (from + 1) .. (from + (k + 1))
    BY <1>2
  <2>2. way \in [DOMAIN way -> (from + 1) .. (from + (k + 1))]
    BY <2>1 DEF IsWay
  <2> QED
    BY <2>2 DEF IsWay
<1>4. ((k + 1) - size) * channel.cost_ins = inss + channel.cost_ins
  <2> HIDE DEF size
  <2> QED
    BY <1>1, <1>2, OneMoreOf
<1>5. WayCost(expected, way, n, k) = sum + dels + inss
  BY DEF WayCost
<1>6. WayCost(expected, way, n, k + 1) = sum + dels + (inss + channel.cost_ins)
  BY <1>4 DEF WayCost
<1> HIDE DEF sum, dels, inss
<1> QED
  BY <1>1, <1>2, <1>3, <1>5, <1>6

\* One bit more on both sides, which the one became the other.
Toll(expected, n, place) == channel.cost_keep + BitPrice(expected[n], place)

Extends(way, shorter, n, place) ==
    /\ n \in DOMAIN way /\ way[n] = place
    /\ DOMAIN shorter = DOMAIN way \ {n}
    /\ \A a \in DOMAIN shorter : shorter[a] = way[a]

LEMMA WayMatches ==
    ASSUME Given, NEW expected \in Expected, NEW n, NEW from, NEW k, Within(n, from, k),
           n + 1 <= N, from + (k + 1) <= Len(received),
           NEW way, IsWay(way, n + 1, from, k + 1), NEW shorter, IsWay(shorter, n, from, k),
           Extends(way, shorter, n + 1, from + (k + 1))
    PROVE  WayCost(expected, way, n + 1, k + 1) =
               WayCost(expected, shorter, n, k) + Toll(expected, n + 1, from + (k + 1))
<1> DEFINE size == Cardinality(DOMAIN shorter)
           sum == SumOf(Tolls(expected, shorter), DOMAIN shorter)
           dels == (n - size) * channel.cost_del
           inss == (k - size) * channel.cost_ins
           toll == Toll(expected, n + 1, from + (k + 1))
           S == DOMAIN way
           w == Tolls(expected, way)
           V == DOMAIN shorter
           v == Tolls(expected, shorter)
<1>1. n \in Nat /\ k \in Nat /\ from \in Nat
  BY DEF Within
<1>2. Within(n + 1, from, k + 1)
  BY <1>1, ReachFacts DEF Within
<1>3. IsFiniteSet(S) /\ w \in [S -> Nat] /\ Cardinality(S) \in Nat
  BY <1>2, WayFacts
<1>4. /\ IsFiniteSet(V) /\ v \in [V -> Nat] /\ size \in Nat /\ size <= n /\ size <= k
      /\ sum \in Nat /\ dels \in Nat /\ inss \in Nat
  BY WayFacts
<1>5. n + 1 \in S /\ V = S \ {n + 1} /\ w[n + 1] = toll
  BY DEF Extends, Tolls, Toll
<1>6. Cardinality(S) = size + 1
  BY <1>3, <1>4, <1>5, FS_RemoveElement
<1>7. \A a \in V : w[a] = v[a]
  BY DEF Extends, Tolls
<1>8. SumOf(w, V) = SumOf(v, V)
  <2>1. V \subseteq S /\ V \subseteq V
    BY <1>5
  <2>2. IsFiniteSet(S) /\ w \in [S -> Nat] /\ IsFiniteSet(V) /\ v \in [V -> Nat]
    BY <1>3, <1>4
  <2> HIDE DEF w, v, S, V
  <2>3. \A a \in V : w[a] = v[a]
    BY <1>7
  <2>4. Nat \in {Nat, Int}
    OBVIOUS
  <2> QED
    BY <2>1, <2>2, <2>3, <2>4, SumAgrees
<1>9. SumOf(w, S) = toll + SumOf(w, V)
  <2>1. S \in SUBSET S
    OBVIOUS
  <2> HIDE DEF w, S, V, toll
  <2> QED
    BY <1>3, <1>5, <2>1, SumRemoves
<1>10. SumOf(w, S) = toll + sum
  BY <1>8, <1>9
<1>11. (n + 1) - Cardinality(S) = n - size /\ (k + 1) - Cardinality(S) = k - size
  <2> HIDE DEF size, S
  <2> QED
    BY <1>1, <1>4, <1>6
<1>12. WayCost(expected, way, n + 1, k + 1) = (toll + sum) + dels + inss
  BY <1>10, <1>11 DEF WayCost
<1>13. WayCost(expected, shorter, n, k) = sum + dels + inss
  BY DEF WayCost
<1>14. toll \in Nat
  <2> HIDE DEF w, S, toll
  <2> QED
    BY <1>3, <1>5
<1>15. WayCost(expected, way, n + 1, k + 1) = WayCost(expected, shorter, n, k) + toll
  <2> HIDE DEF toll, sum, dels, inss
  <2> QED
    BY <1>4, <1>12, <1>13, <1>14
<1> QED
  BY <1>15

\* What the alignments of n sent bits with k received ones cost.
WayCosts(expected, from, n, k) ==
    {WayCost(expected, way, n, k) : way \in Alignments(n, from, from + k)}

LEMMA WayCostsAre ==
    ASSUME NEW expected, NEW from, NEW n, NEW k, NEW x
    PROVE  x \in WayCosts(expected, from, n, k) <=>
               \E way : IsWay(way, n, from, k) /\ x = WayCost(expected, way, n, k)
  BY WaysAre DEF WayCosts

LEMMA WayCostsType ==
    ASSUME Given, NEW expected \in Expected, NEW n, NEW from, NEW k, Within(n, from, k)
    PROVE  WayCosts(expected, from, n, k) \in SUBSET Nat
<1> SUFFICES ASSUME NEW x \in WayCosts(expected, from, n, k) PROVE x \in Nat
  OBVIOUS
<1>1. PICK way : IsWay(way, n, from, k) /\ x = WayCost(expected, way, n, k)
  BY WayCostsAre
<1> QED
  BY <1>1, WayFacts

LEMMA TollType ==
    ASSUME Given, NEW expected \in Expected, NEW n \in 1 .. N,
           NEW place \in 1 .. Len(received)
    PROVE  Toll(expected, n, place) \in Nat
<1>1. expected[n] \in {0, 1} /\ channel.cost_keep \in Nat
  BY ReachFacts DEF Expected
<1>2. BitPrice(expected[n], place) \in Nat
  BY <1>1, BitPriceType
<1> QED
  BY <1>1, <1>2 DEF Toll

\* Every alignment of fewer bits goes on in up to three ways.
LEMMA DeletesGrow ==
    ASSUME Given, NEW expected \in Expected, NEW n, NEW from, NEW k, Within(n, from, k),
           n + 1 <= N, NEW x \in WayCosts(expected, from, n, k)
    PROVE  x + channel.cost_del \in WayCosts(expected, from, n + 1, k)
<1>1. PICK way : IsWay(way, n, from, k) /\ x = WayCost(expected, way, n, k)
  BY WayCostsAre
<1> QED
  BY <1>1, WayDeletes, WayCostsAre

LEMMA InsertsGrow ==
    ASSUME Given, NEW expected \in Expected, NEW n, NEW from, NEW k, Within(n, from, k),
           from + (k + 1) <= Len(received), NEW x \in WayCosts(expected, from, n, k)
    PROVE  x + channel.cost_ins \in WayCosts(expected, from, n, k + 1)
<1>1. PICK way : IsWay(way, n, from, k) /\ x = WayCost(expected, way, n, k)
  BY WayCostsAre
<1> QED
  BY <1>1, WayInserts, WayCostsAre

LEMMA MatchesGrow ==
    ASSUME Given, NEW expected \in Expected, NEW n, NEW from, NEW k, Within(n, from, k),
           n + 1 <= N, from + (k + 1) <= Len(received),
           NEW x \in WayCosts(expected, from, n, k)
    PROVE  x + Toll(expected, n + 1, from + (k + 1)) \in WayCosts(expected, from, n + 1, k + 1)
<1>1. PICK shorter : IsWay(shorter, n, from, k) /\ x = WayCost(expected, shorter, n, k)
  BY WayCostsAre
<1> DEFINE place == from + (k + 1)
           V == DOMAIN shorter
           way == [a \in V \cup {n + 1} |-> IF a = n + 1 THEN place ELSE shorter[a]]
<1>2. n \in Nat /\ from \in Nat /\ k \in Nat
  BY DEF Within
<1>3. V \subseteq 1 .. n /\ n + 1 \notin V /\ shorter \in [V -> (from + 1) .. (from + k)]
  BY <1>1, <1>2 DEF IsWay
<1>4. /\ DOMAIN way = V \cup {n + 1} /\ way[n + 1] = place
      /\ \A a \in V : way[a] = shorter[a]
  BY <1>3
<1>5. \A a \in V : shorter[a] \in (from + 1) .. (from + k)
  BY <1>3
<1>6. IsWay(way, n + 1, from, k + 1)
  <2>1. V \cup {n + 1} \subseteq 1 .. (n + 1)
    BY <1>2, <1>3
  <2>2. way \in [V \cup {n + 1} -> (from + 1) .. place]
    <3>1. \A a \in V \cup {n + 1} : way[a] \in (from + 1) .. place
      BY <1>2, <1>4, <1>5
    <3>2. way = [a \in V \cup {n + 1} |-> way[a]]
      OBVIOUS
    <3> HIDE DEF way
    <3> QED
      BY <3>1, <3>2
  <2>3. Increasing(way)
    <3> SUFFICES ASSUME NEW a \in DOMAIN way, NEW b \in DOMAIN way, a < b
                 PROVE  way[a] < way[b]
      BY DEF Increasing
    <3>1. a \in V
      BY <1>2, <1>3, <1>4
    <3>2. CASE b = n + 1
      BY <1>2, <1>4, <1>5, <3>1, <3>2
    <3>3. CASE b # n + 1
      <4>1. b \in V
        BY <1>4, <3>3
      <4>2. shorter[a] < shorter[b]
        BY <1>1, <3>1, <4>1 DEF IsWay, Increasing
      <4> QED
        BY <1>4, <3>1, <4>1, <4>2
    <3> QED
      BY <3>2, <3>3
  <2> HIDE DEF way
  <2> QED
    BY <1>4, <2>1, <2>2, <2>3 DEF IsWay
<1> HIDE DEF way
<1>7. Extends(way, shorter, n + 1, place)
  BY <1>3, <1>4 DEF Extends
<1>8. WayCost(expected, way, n + 1, k + 1) = x + Toll(expected, n + 1, place)
  BY <1>1, <1>6, <1>7, WayMatches
<1> QED
  BY <1>6, <1>8, WayCostsAre

\* And every alignment of any bits is one that went on.
ComesFrom(x, expected, from, n, k) ==
    \/ n >= 1 /\ \E y \in WayCosts(expected, from, n - 1, k) : x = y + channel.cost_del
    \/ k >= 1 /\ \E y \in WayCosts(expected, from, n, k - 1) : x = y + channel.cost_ins
    \/ /\ n >= 1 /\ k >= 1
       /\ \E y \in WayCosts(expected, from, n - 1, k - 1) :
              x = y + Toll(expected, n, from + k)

LEMMA WaysComeFrom ==
    ASSUME Given, NEW expected \in Expected, NEW n, NEW from, NEW k, Within(n, from, k),
           n # 0 \/ k # 0, NEW x \in WayCosts(expected, from, n, k)
    PROVE  ComesFrom(x, expected, from, n, k)
<1>1. PICK way : IsWay(way, n, from, k) /\ x = WayCost(expected, way, n, k)
  BY WayCostsAre
<1> DEFINE S == DOMAIN way
<1>2. /\ n \in Nat /\ n <= N /\ from \in Nat /\ k \in Nat /\ N \in Nat
      /\ from + k <= Len(received) /\ Len(received) \in Nat
  BY ReachFacts DEF Within
<1>3. S \subseteq 1 .. n /\ way \in [S -> (from + 1) .. (from + k)]
  BY <1>1 DEF IsWay
<1>4. \A a \in S : way[a] \in (from + 1) .. (from + k)
  BY <1>3
<1>5. CASE n >= 1 /\ n \notin S
  <2>1. n - 1 \in Nat /\ (n - 1) + 1 = n /\ S \subseteq 1 .. (n - 1)
    BY <1>2, <1>3, <1>5
  <2>2. Within(n - 1, from, k)
    BY <1>2, <2>1 DEF Within
  <2>3. IsWay(way, n - 1, from, k)
    BY <1>1, <2>1 DEF IsWay
  <2>4. x = WayCost(expected, way, n - 1, k) + channel.cost_del
    <3> DEFINE p == n - 1
    <3>1. Within(p, from, k) /\ p + 1 <= N /\ IsWay(way, p, from, k) /\ p + 1 = n
      BY <1>2, <2>1, <2>2, <2>3
    <3> HIDE DEF p
    <3>2. WayCost(expected, way, p + 1, k) = WayCost(expected, way, p, k) + channel.cost_del
      BY <3>1, WayDeletes
    <3> QED
      BY <1>1, <3>1, <3>2 DEF p
  <2>5. WayCost(expected, way, n - 1, k) \in WayCosts(expected, from, n - 1, k)
    BY <2>3, WayCostsAre
  <2> QED
    BY <1>5, <2>4, <2>5 DEF ComesFrom
<1>6. CASE k >= 1 /\ \A a \in S : way[a] # from + k
  <2>1. /\ k - 1 \in Nat /\ (k - 1) + 1 = k
        /\ \A a \in S : way[a] \in (from + 1) .. (from + (k - 1))
    BY <1>2, <1>4, <1>6
  <2>2. Within(n, from, k - 1)
    BY <1>2, <2>1 DEF Within
  <2>3. IsWay(way, n, from, k - 1)
    <3>1. way = [a \in S |-> way[a]]
      BY <1>3
    <3>2. way \in [S -> (from + 1) .. (from + (k - 1))]
      BY <2>1, <3>1
    <3> QED
      BY <1>1, <3>2 DEF IsWay
  <2>4. x = WayCost(expected, way, n, k - 1) + channel.cost_ins
    <3> DEFINE q == k - 1
    <3>1. Within(n, from, q) /\ from + (q + 1) <= Len(received) /\ IsWay(way, n, from, q)
          /\ q + 1 = k
      BY <1>2, <2>1, <2>2, <2>3
    <3> HIDE DEF q
    <3>2. WayCost(expected, way, n, q + 1) = WayCost(expected, way, n, q) + channel.cost_ins
      BY <3>1, WayInserts
    <3> QED
      BY <1>1, <3>1, <3>2 DEF q
  <2>5. WayCost(expected, way, n, k - 1) \in WayCosts(expected, from, n, k - 1)
    BY <2>3, WayCostsAre
  <2> QED
    BY <1>6, <2>4, <2>5 DEF ComesFrom
<1>7. CASE n \in S /\ way[n] = from + k
  <2> DEFINE V == S \ {n}
             shorter == [a \in V |-> way[a]]
  <2>1. n \in 1 .. n /\ k >= 1
    BY <1>2, <1>3, <1>4, <1>7
  <2>2. /\ n - 1 \in Nat /\ k - 1 \in Nat /\ (n - 1) + 1 = n /\ (k - 1) + 1 = k
        /\ V \subseteq 1 .. (n - 1)
    BY <1>2, <1>3, <2>1
  <2>3. Within(n - 1, from, k - 1)
    BY <1>2, <2>2 DEF Within
  <2>4. \A a \in V : way[a] \in (from + 1) .. (from + (k - 1))
    <3> SUFFICES ASSUME NEW a \in V PROVE way[a] \in (from + 1) .. (from + (k - 1))
      OBVIOUS
    <3>1. a \in S /\ a < n
      BY <1>2, <2>2
    <3>2. way[a] < from + k
      BY <1>1, <1>7, <3>1 DEF IsWay, Increasing
    <3>3. way[a] \in (from + 1) .. (from + k)
      BY <1>4, <3>1
    <3> QED
      BY <1>2, <2>2, <3>2, <3>3
  <2>5. DOMAIN shorter = V /\ \A a \in V : shorter[a] = way[a]
    OBVIOUS
  <2>6. shorter \in [V -> (from + 1) .. (from + (k - 1))]
    BY <2>4
  <2> HIDE DEF shorter
  <2>7. Increasing(shorter)
    BY <1>1, <2>5 DEF IsWay, Increasing
  <2>8. IsWay(shorter, n - 1, from, k - 1)
    BY <2>2, <2>5, <2>6, <2>7 DEF IsWay
  <2>9. Extends(way, shorter, n, from + k)
    BY <1>7, <2>5 DEF Extends
  <2>10. x = WayCost(expected, shorter, n - 1, k - 1) + Toll(expected, n, from + k)
    <3> DEFINE p == n - 1
               q == k - 1
    <3>1. /\ Within(p, from, q) /\ p + 1 <= N /\ from + (q + 1) <= Len(received)
          /\ IsWay(shorter, p, from, q) /\ p + 1 = n /\ q + 1 = k
      BY <1>2, <2>2, <2>3, <2>8
    <3> HIDE DEF p, q
    <3>2. IsWay(way, p + 1, from, q + 1) /\ Extends(way, shorter, p + 1, from + (q + 1))
      BY <1>1, <2>9, <3>1
    <3>3. WayCost(expected, way, p + 1, q + 1) =
              WayCost(expected, shorter, p, q) + Toll(expected, p + 1, from + (q + 1))
      BY <3>1, <3>2, WayMatches
    <3> QED
      BY <1>1, <3>1, <3>3 DEF p, q
  <2>11. WayCost(expected, shorter, n - 1, k - 1) \in WayCosts(expected, from, n - 1, k - 1)
    BY <2>8, WayCostsAre
  <2>12. n >= 1
    BY <1>2, <2>1
  <2> HIDE DEF shorter, V, S
  <2>13. \E y \in WayCosts(expected, from, n - 1, k - 1) : x = y + Toll(expected, n, from + k)
    BY <2>10, <2>11
  <2> QED
    BY <2>1, <2>12, <2>13 DEF ComesFrom
<1>8. CASE n = 0
  <2>1. S = {} /\ k >= 1
    <3>1. 1 .. n = {}
      BY <1>8
    <3>2. k >= 1
      BY <1>2, <1>8
    <3> QED
      BY <1>3, <3>1, <3>2
  <2> QED
    BY <1>6, <2>1
<1>9. CASE n \in S /\ way[n] # from + k
  <2>1. way[n] < from + k /\ k >= 1
    BY <1>2, <1>4, <1>9
  <2>2. ASSUME NEW a \in S PROVE way[a] # from + k
    <3>1. a \in 1 .. n /\ way[a] \in (from + 1) .. (from + k) /\ way[n] \in (from + 1) .. (from + k)
      BY <1>3, <1>4, <1>9
    <3>2. CASE a = n
      BY <1>9, <3>2
    <3>3. CASE a # n
      <4>1. a < n
        BY <1>2, <3>1, <3>3
      <4>2. way[a] < way[n]
        BY <1>1, <1>9, <4>1 DEF IsWay, Increasing
      <4> QED
        BY <1>2, <2>1, <3>1, <4>2
    <3> QED
      BY <3>2, <3>3
  <2> QED
    BY <1>6, <2>1, <2>2
<1> QED
  BY <1>2, <1>5, <1>7, <1>8, <1>9

LEMMA NoWayIsFree ==
    ASSUME Given, NEW expected \in Expected, NEW from, Within(0, from, 0)
    PROVE  WayCosts(expected, from, 0, 0) = {0}
<1>1. ASSUME NEW way, IsWay(way, 0, from, 0) PROVE WayCost(expected, way, 0, 0) = 0
  <2>1. DOMAIN way = {}
    <3>1. 1 .. 0 = {}
      OBVIOUS
    <3> QED
      BY <1>1, <3>1 DEF IsWay
  <2>2. Tolls(expected, way) \in [{} -> Nat] /\ IsFiniteSet({}) /\ Cardinality({}) = 0
    BY <1>1, <2>1, WayFacts, FS_EmptySet
  <2>3. SumOf(Tolls(expected, way), {}) = 0
    <3> DEFINE w == Tolls(expected, way)
               S == {}
    <3>1. w \in [S -> Nat] /\ IsFiniteSet(S) /\ Nat \in {Nat, Int}
      BY <2>2
    <3> HIDE DEF w, S
    <3>2. SumOf(w, {}) = 0
      BY <3>1, SumOfNone
    <3> QED
      BY <3>2 DEF w
  <2>4. channel.cost_del \in Nat /\ channel.cost_ins \in Nat
    BY ReachFacts
  <2>5. (0 - 0) * channel.cost_del = 0 /\ (0 - 0) * channel.cost_ins = 0
    BY <2>4
  <2>6. WayCost(expected, way, 0, 0) = 0 + (0 - 0) * channel.cost_del + (0 - 0) * channel.cost_ins
    BY <2>1, <2>2, <2>3 DEF WayCost
  <2> QED
    BY <2>5, <2>6
<1> DEFINE none == [a \in {} |-> 0]
<1>2. IsWay(none, 0, from, 0)
  <2>1. DOMAIN none = {} /\ none \in [{} -> (from + 1) .. (from + 0)]
    OBVIOUS
  <2> HIDE DEF none
  <2> QED
    BY <2>1 DEF IsWay, Increasing
<1>3. 0 \in WayCosts(expected, from, 0, 0)
  BY <1>1, <1>2, WayCostsAre
<1>4. ASSUME NEW x \in WayCosts(expected, from, 0, 0) PROVE x = 0
  <2>1. PICK way : IsWay(way, 0, from, 0) /\ x = WayCost(expected, way, 0, 0)
    BY WayCostsAre
  <2> QED
    BY <1>1, <2>1
<1> QED
  BY <1>3, <1>4

----------------------------------------------------------------------------
(* The cells of align_fill_into are the least of these costs.              *)

\* x is the least of the costs G, as far as these are finite, and at most b.
Reckons(x, G, b) ==
    /\ x \in Nat
    /\ x < Infinite => x \in G /\ x <= b
    /\ \A g \in G : g < Infinite => x <= g

\* p is the least of the costs G with k more.
OfferedBy(p, G, k, b) ==
    /\ p \in Nat
    /\ p < Infinite => p <= b /\ \E g \in G : p = g + k
    /\ \A g \in G : g + k < Infinite => p <= g + k

LEMMA PlusOffers ==
    ASSUME NEW G \in SUBSET Nat, NEW x, NEW b \in Nat, Reckons(x, G, b),
           NEW k \in Nat, NEW cost \in Nat, k < Infinite \/ cost < Infinite => cost = k,
           NEW m \in Nat, cost < Infinite => cost <= m
    PROVE  OfferedBy(Plus(x, cost), G, k, b + m)
<1> DEFINE p == Plus(x, cost)
<1>1. /\ x \in Nat
      /\ x < Infinite => x \in G /\ x <= b
      /\ \A g \in G : g < Infinite => x <= g
  BY DEF Reckons
<1>2. /\ p \in Nat
      /\ p < Infinite => x < Infinite /\ cost < Infinite /\ p = x + cost
      /\ x < Infinite /\ cost < Infinite => p = x + cost
  BY <1>1, PlusFacts
<1> HIDE DEF p
<1>3. ASSUME p < Infinite PROVE p <= b + m /\ \E g \in G : p = g + k
  <2>1. x \in G /\ x <= b /\ cost <= m /\ cost = k /\ p = x + k
    BY <1>1, <1>2, <1>3
  <2> QED
    BY <1>1, <2>1
<1>4. ASSUME NEW g \in G, g + k < Infinite PROVE p <= g + k
  <2>1. g \in Nat /\ g < Infinite /\ k < Infinite
    BY <1>4, InfiniteIsCost
  <2>2. x <= g /\ x < Infinite /\ cost = k
    BY <1>1, <2>1, InfiniteIsCost
  <2>3. p = x + k
    BY <1>2, <2>1, <2>2
  <2> QED
    BY <1>1, <2>1, <2>2, <2>3
<1> QED
  BY <1>2, <1>3, <1>4 DEF OfferedBy, p

LEMMA TopCellReckons ==
    ASSUME Given, NEW expected \in Expected, NEW from, NEW k, Within(0, from, k), k >= 1,
           NEW p, NEW b \in Nat,
           OfferedBy(p, WayCosts(expected, from, 0, k - 1), channel.cost_ins, b)
    PROVE  Reckons(p, WayCosts(expected, from, 0, k), b)
<1> DEFINE q == k - 1
           G == WayCosts(expected, from, 0, q)
<1>1. q \in Nat /\ q + 1 = k /\ from \in Nat /\ from + k <= Len(received) /\ k \in Nat
      /\ 0 \in 0 .. N /\ Len(received) \in Nat
  BY ReachFacts DEF Within
<1>2. Within(0, from, q)
  BY <1>1 DEF Within
<1>3. \A g \in G : g + channel.cost_ins \in WayCosts(expected, from, 0, k)
  <2> HIDE DEF q
  <2> QED
    BY <1>1, <1>2, InsertsGrow
<1>4. \A g \in WayCosts(expected, from, 0, k) : \E y \in G : g = y + channel.cost_ins
  <2> SUFFICES ASSUME NEW g \in WayCosts(expected, from, 0, k)
               PROVE  \E y \in G : g = y + channel.cost_ins
    OBVIOUS
  <2>1. ComesFrom(g, expected, from, 0, k)
    BY WaysComeFrom
  <2> QED
    BY <2>1 DEF ComesFrom
<1>5. OfferedBy(p, G, channel.cost_ins, b)
  OBVIOUS
<1> HIDE DEF G
<1> QED
  BY <1>3, <1>4, <1>5 DEF Reckons, OfferedBy

LEMMA LeftCellReckons ==
    ASSUME Given, NEW expected \in Expected, NEW n, NEW from, Within(n, from, 0), n >= 1,
           NEW p, NEW b \in Nat,
           OfferedBy(p, WayCosts(expected, from, n - 1, 0), channel.cost_del, b)
    PROVE  Reckons(p, WayCosts(expected, from, n, 0), b)
<1> DEFINE q == n - 1
           G == WayCosts(expected, from, q, 0)
<1>1. q \in Nat /\ q + 1 = n /\ n <= N /\ from \in Nat /\ from + 0 <= Len(received) /\ n \in Nat
      /\ Len(received) \in Nat /\ N \in Nat
  BY ReachFacts DEF Within
<1>2. Within(q, from, 0)
  BY <1>1 DEF Within
<1>3. \A g \in G : g + channel.cost_del \in WayCosts(expected, from, n, 0)
  <2> HIDE DEF q
  <2> QED
    BY <1>1, <1>2, DeletesGrow
<1>4. \A g \in WayCosts(expected, from, n, 0) : \E y \in G : g = y + channel.cost_del
  <2> SUFFICES ASSUME NEW g \in WayCosts(expected, from, n, 0)
               PROVE  \E y \in G : g = y + channel.cost_del
    OBVIOUS
  <2>1. ComesFrom(g, expected, from, n, 0)
    <3>1. n # 0
      BY <1>1
    <3> QED
      BY <3>1, WaysComeFrom
  <2> QED
    BY <2>1 DEF ComesFrom
<1>5. OfferedBy(p, G, channel.cost_del, b)
  OBVIOUS
<1> HIDE DEF G
<1> QED
  BY <1>3, <1>4, <1>5 DEF Reckons, OfferedBy

LEMMA InnerCellReckons ==
    ASSUME Given, NEW expected \in Expected, NEW n, NEW from, NEW k, Within(n, from, k),
           n >= 1, k >= 1, NEW p1, NEW p2, NEW p3, NEW b \in Nat,
           OfferedBy(p1, WayCosts(expected, from, n - 1, k), channel.cost_del, b),
           OfferedBy(p2, WayCosts(expected, from, n - 1, k - 1), Toll(expected, n, from + k), b),
           OfferedBy(p3, WayCosts(expected, from, n, k - 1), channel.cost_ins, b)
    PROVE  Reckons(Least({p1, p2, p3}), WayCosts(expected, from, n, k), b)
<1> DEFINE m == n - 1
           q == k - 1
           G == WayCosts(expected, from, n, k)
           G1 == WayCosts(expected, from, m, k)
           G2 == WayCosts(expected, from, m, q)
           G3 == WayCosts(expected, from, n, q)
           toll == Toll(expected, n, from + k)
           offers == {p1, p2, p3}
           x == Least(offers)
<1>1. /\ n \in Nat /\ k \in Nat /\ m \in Nat /\ q \in Nat /\ m + 1 = n /\ q + 1 = k
      /\ n <= N /\ N \in Nat /\ from \in Nat /\ from + k <= Len(received) /\ Len(received) \in Nat
  BY ReachFacts DEF Within
<1>2. Within(m, from, k) /\ Within(m, from, q) /\ Within(n, from, q)
  BY <1>1 DEF Within
<1>3. \A g \in G1 : g + channel.cost_del \in G
  <2> HIDE DEF m
  <2> QED
    BY <1>1, <1>2, DeletesGrow
<1>4. \A g \in G2 : g + toll \in G
  <2> HIDE DEF m, q
  <2>1. \A g \in G2 : g + Toll(expected, m + 1, from + (q + 1))
                          \in WayCosts(expected, from, m + 1, q + 1)
    BY <1>1, <1>2, MatchesGrow
  <2> QED
    BY <1>1, <2>1
<1>5. \A g \in G3 : g + channel.cost_ins \in G
  <2> HIDE DEF q
  <2> QED
    BY <1>1, <1>2, InsertsGrow
<1>6. \A g \in G : \/ \E y \in G1 : g = y + channel.cost_del
                   \/ \E y \in G2 : g = y + toll
                   \/ \E y \in G3 : g = y + channel.cost_ins
  <2> SUFFICES ASSUME NEW g \in G
               PROVE  \/ \E y \in G1 : g = y + channel.cost_del
                      \/ \E y \in G2 : g = y + toll
                      \/ \E y \in G3 : g = y + channel.cost_ins
    OBVIOUS
  <2>1. ComesFrom(g, expected, from, n, k)
    <3>1. n # 0
      BY <1>1
    <3> QED
      BY <3>1, WaysComeFrom
  <2> QED
    BY <2>1 DEF ComesFrom
<1>7. /\ OfferedBy(p1, G1, channel.cost_del, b) /\ OfferedBy(p2, G2, toll, b)
      /\ OfferedBy(p3, G3, channel.cost_ins, b)
  OBVIOUS
<1> HIDE DEF G, G1, G2, G3, toll, m, q
<1>8. offers \in SUBSET Nat
  BY <1>7 DEF OfferedBy
<1>9. /\ x \in Nat /\ x <= Infinite /\ x \in offers \cup {Infinite}
      /\ \A c \in offers : x <= c
  <2> HIDE DEF offers
  <2> QED
    BY <1>8, LeastFacts
<1>10. x <= p1 /\ x <= p2 /\ x <= p3 /\ x \in {p1, p2, p3, Infinite}
  <2> HIDE DEF x
  <2> QED
    BY <1>9
<1> HIDE DEF x
<1>11. ASSUME x < Infinite PROVE x \in G /\ x <= b
  <2>1. x \in {p1, p2, p3}
    BY <1>10, <1>11, InfiniteIsCost
  <2>2. CASE x = p1
    BY <1>3, <1>7, <1>11, <2>2 DEF OfferedBy
  <2>3. CASE x = p2
    BY <1>4, <1>7, <1>11, <2>3 DEF OfferedBy
  <2>4. CASE x = p3
    BY <1>5, <1>7, <1>11, <2>4 DEF OfferedBy
  <2> QED
    BY <2>1, <2>2, <2>3, <2>4
<1>12. ASSUME NEW g \in G, g < Infinite PROVE x <= g
  <2>1. p1 \in Nat /\ p2 \in Nat /\ p3 \in Nat
    BY <1>7 DEF OfferedBy
  <2>2. p1 <= g \/ p2 <= g \/ p3 <= g
    BY <1>6, <1>7, <1>12 DEF OfferedBy
  <2>3. g \in Nat
    BY <1>2, <1>1, WayCostsType DEF G
  <2> QED
    BY <1>9, <1>10, <2>1, <2>2, <2>3
<1>13. Reckons(x, G, b)
  BY <1>9, <1>11, <1>12 DEF Reckons
<1> QED
  BY <1>13 DEF x, G

AllCosts ==
    {channel.cost_match, channel.cost_miss, channel.cost_erase, channel.cost_keep,
     channel.cost_ins, channel.cost_del}

\* b is at least every finite cost, and as summable as these.
CostBound(b) ==
    /\ b \in Nat
    /\ \A cost \in AllCosts : cost < Infinite => cost <= b
    /\ MaxSteps * (2 * (N + channel.max_drift)) * b < Infinite

LEMMA CostBoundExists ==
    ASSUME Given
    PROVE  \E b : CostBound(b)
<1> DEFINE finite == {cost \in AllCosts : cost < Infinite}
           below == {Infinite - cost : cost \in finite}
<1>1. AllCosts \subseteq Nat
  BY ReachFacts DEF AllCosts
<1>2. channel.cost_keep \in finite
  BY MetricAssumption DEF Given, AllCosts
<1>3. below \subseteq Nat /\ below # {}
  <2>1. \A cost \in finite : Infinite - cost \in Nat
    BY <1>1, InfiniteIsCost
  <2> HIDE DEF finite
  <2> QED
    BY <1>2, <2>1
<1>4. PICK m \in below : \A d \in below : m <= d
  <2> HIDE DEF below
  <2> QED
    BY <1>3, LeastExists
<1>5. PICK b \in finite : m = Infinite - b
  BY <1>4
<1>6. b \in Nat /\ b \in AllCosts /\ b < Infinite
  BY <1>1
<1>7. \A cost \in AllCosts : cost < Infinite => cost <= b
  <2> SUFFICES ASSUME NEW cost \in AllCosts, cost < Infinite PROVE cost <= b
    OBVIOUS
  <2>1. Infinite - cost \in below /\ cost \in Nat
    BY <1>1
  <2>2. Infinite - b <= Infinite - cost
    BY <1>4, <1>5, <2>1
  <2> HIDE DEF below
  <2> QED
    BY <1>6, <2>1, <2>2, InfiniteIsCost
<1>8. Summable(channel, b)
  BY <1>6, MetricAssumption DEF Given, AllCosts
<1>9. MaxSteps * (2 * (N + channel.max_drift)) * b < Infinite
  BY <1>6, <1>8, InfiniteIsCost DEF Summable
<1> HIDE DEF finite, below
<1> QED
  BY <1>6, <1>7, <1>9 DEF CostBound

LEMMA BoundedCosts ==
    ASSUME Given, NEW b, CostBound(b)
    PROVE  /\ b \in Nat
           /\ channel.cost_del < Infinite => channel.cost_del <= b
           /\ channel.cost_ins < Infinite => channel.cost_ins <= b
           /\ \A expected \in Expected, n \in 1 .. N, place \in 1 .. Len(received) :
                 LET cost == MatchCost(expected[n], place - 1)
                     toll == Toll(expected, n, place)
                 IN  /\ cost \in Nat /\ toll \in Nat
                     /\ toll < Infinite \/ cost < Infinite => cost = toll
                     /\ cost < Infinite => cost <= b + b
<1>1. /\ b \in Nat
      /\ \A cost \in AllCosts : cost < Infinite => cost <= b
  BY DEF CostBound
<1>2. /\ channel.cost_del < Infinite => channel.cost_del <= b
      /\ channel.cost_ins < Infinite => channel.cost_ins <= b
  BY <1>1 DEF AllCosts
<1>3. ASSUME NEW expected \in Expected, NEW n \in 1 .. N, NEW place \in 1 .. Len(received)
      PROVE  LET cost == MatchCost(expected[n], place - 1)
                 toll == Toll(expected, n, place)
             IN  /\ cost \in Nat /\ toll \in Nat
                 /\ toll < Infinite \/ cost < Infinite => cost = toll
                 /\ cost < Infinite => cost <= b + b
  <2> DEFINE cost == MatchCost(expected[n], place - 1)
             toll == Toll(expected, n, place)
             price == BitPrice(expected[n], place)
             keep == channel.cost_keep
  <2>1. expected[n] \in {0, 1}
    BY DEF Expected
  <2>2. price \in Nat /\ cost = Plus(keep, price) /\ toll = keep + price
    BY <2>1, BitPriceType DEF Toll
  <2>3. price \in AllCosts /\ keep \in AllCosts /\ keep \in Nat
    BY ReachFacts DEF AllCosts, BitPrice
  <2>4. (price < Infinite => price <= b) /\ (keep < Infinite => keep <= b)
    BY <1>1, <2>3
  <2> HIDE DEF cost, toll, price, keep
  <2>5. /\ cost \in Nat
        /\ cost < Infinite => keep < Infinite /\ price < Infinite /\ cost = keep + price
        /\ keep < Infinite /\ price < Infinite => cost = keep + price
    BY <2>2, <2>3, PlusFacts
  <2>6. toll < Infinite => keep < Infinite /\ price < Infinite
    BY <2>2, <2>3, InfiniteIsCost
  <2>7. toll \in Nat /\ (toll < Infinite \/ cost < Infinite => cost = toll)
    BY <2>2, <2>3, <2>5, <2>6
  <2>8. cost < Infinite => cost <= b + b
    BY <1>1, <2>2, <2>3, <2>4, <2>5
  <2> QED
    BY <2>5, <2>7, <2>8 DEF cost, toll
<1> QED
  BY <1>1, <1>2, <1>3

LEMMA OneTimesMore ==
    ASSUME NEW a \in Nat, NEW b \in Nat
    PROVE  (a + 1) * b = a * b + b /\ a * b \in Nat /\ (a + 1) * b \in Nat
  OBVIOUS

\* One cell: n sent bits with k received ones.
CellIs(rows, expected, from, b, n, k) ==
    Reckons(rows[n][k + 1], WayCosts(expected, from, n, k), (n + k) * b)

\* The setting of the lemmas on cells.
Aligning(rows, expected, from, b) ==
    /\ Given /\ CostBound(b) /\ expected \in Expected
    /\ from \in Nat /\ from <= Len(received)
    /\ Aligned(rows, expected, from)

LEMMA FirstCell ==
    ASSUME NEW rows, NEW expected, NEW from, NEW b, Aligning(rows, expected, from, b)
    PROVE  CellIs(rows, expected, from, b, 0, 0)
<1>1. Given /\ b \in Nat /\ expected \in Expected /\ N \in Nat /\ from \in Nat
      /\ from + 0 <= Len(received)
  BY ReachFacts DEF Aligning, CostBound
<1>2. rows[0][0 + 1] = 0
  BY DEF Aligning, Aligned, IsTopRow
<1>3. Within(0, from, 0)
  BY <1>1 DEF Within
<1>4. WayCosts(expected, from, 0, 0) = {0}
  BY <1>1, <1>3, NoWayIsFree
<1>5. (0 + 0) * b = 0
  BY <1>1
<1> QED
  BY <1>2, <1>4, <1>5 DEF CellIs, Reckons

LEMMA TopCells ==
    ASSUME NEW rows, NEW expected, NEW from, NEW b, Aligning(rows, expected, from, b),
           NEW k \in Nat, k + 1 <= Reach, from + (k + 1) <= Len(received),
           CellIs(rows, expected, from, b, 0, k)
    PROVE  CellIs(rows, expected, from, b, 0, k + 1)
<1> DEFINE left == rows[0][k + 1]
           G == WayCosts(expected, from, 0, k)
           kb == k * b
           ins == channel.cost_ins
           p == rows[0][(k + 1) + 1]
<1>1. Given /\ b \in Nat /\ expected \in Expected /\ N \in Nat /\ from \in Nat /\ Reach \in Nat
      /\ Len(received) \in Nat /\ ins \in Nat
  BY ReachFacts DEF Aligning, CostBound
<1>2. Within(0, from, k) /\ Within(0, from, k + 1)
  BY <1>1 DEF Within
<1>3. p = Plus(left, ins)
  <2>1. k + 1 \in 1 .. Reach /\ from + (k + 1) - 1 \in Int
    BY <1>1
  <2>2. p = TopCost(left, from + (k + 1) - 1)
    BY <2>1 DEF Aligning, Aligned, IsTopRow
  <2>3. InRange(from + (k + 1) - 1)
    BY <1>1 DEF InRange
  <2> HIDE DEF p, left
  <2> QED
    BY <2>2, <2>3 DEF TopCost
<1>4. Reckons(left, G, kb) /\ kb \in Nat
  <2>1. (0 + k) * b = kb /\ kb \in Nat
    BY <1>1
  <2> QED
    BY <2>1 DEF CellIs
<1>5. G \in SUBSET Nat
  BY <1>1, <1>2, WayCostsType
<1>6. ins < Infinite => ins <= b
  BY <1>1, BoundedCosts DEF Aligning
<1> HIDE DEF G, left, ins, p, kb
<1>7. OfferedBy(p, G, ins, kb + b)
  BY <1>1, <1>3, <1>4, <1>5, <1>6, PlusOffers
<1>8. (k + 1) - 1 = k /\ k + 1 >= 1
  OBVIOUS
<1>9. Reckons(p, WayCosts(expected, from, 0, k + 1), kb + b)
  BY <1>1, <1>2, <1>4, <1>7, <1>8, TopCellReckons DEF G, ins
<1>10. (0 + (k + 1)) * b = kb + b
  BY <1>1, OneTimesMore DEF kb
<1> QED
  BY <1>9, <1>10 DEF CellIs, p

LEMMA LeftCells ==
    ASSUME NEW rows, NEW expected, NEW from, NEW b, Aligning(rows, expected, from, b),
           NEW n \in Nat, n + 1 <= N, CellIs(rows, expected, from, b, n, 0)
    PROVE  CellIs(rows, expected, from, b, n + 1, 0)
<1> DEFINE above == rows[n][0 + 1]
           G == WayCosts(expected, from, n, 0)
           nb == n * b
           del == channel.cost_del
           p == rows[n + 1][0 + 1]
<1>1. Given /\ b \in Nat /\ expected \in Expected /\ N \in Nat /\ from \in Nat
      /\ Len(received) \in Nat /\ del \in Nat /\ from <= Len(received)
  BY ReachFacts DEF Aligning, CostBound
<1>2. Within(n, from, 0) /\ Within(n + 1, from, 0)
  BY <1>1 DEF Within
<1>3. p = Plus(above, del)
  <2>1. n + 1 \in 1 .. N /\ (n + 1) - 1 = n
    BY <1>1
  <2>2. IsNextRow(rows[n + 1], rows[n], expected[n + 1], from)
    BY <2>1 DEF Aligning, Aligned
  <2> QED
    BY <2>2 DEF IsNextRow
<1>4. Reckons(above, G, nb) /\ nb \in Nat
  <2>1. (n + 0) * b = nb /\ nb \in Nat
    BY <1>1
  <2> QED
    BY <2>1 DEF CellIs
<1>5. G \in SUBSET Nat
  BY <1>1, <1>2, WayCostsType
<1>6. del < Infinite => del <= b
  BY <1>1, BoundedCosts DEF Aligning
<1> HIDE DEF G, above, del, p, nb
<1>7. OfferedBy(p, G, del, nb + b)
  BY <1>1, <1>3, <1>4, <1>5, <1>6, PlusOffers
<1>8. (n + 1) - 1 = n /\ n + 1 >= 1
  OBVIOUS
<1>9. Reckons(p, WayCosts(expected, from, n + 1, 0), nb + b)
  BY <1>1, <1>2, <1>4, <1>7, <1>8, LeftCellReckons DEF G, del
<1>10. ((n + 1) + 0) * b = nb + b
  BY <1>1, OneTimesMore DEF nb
<1> QED
  BY <1>9, <1>10 DEF CellIs, p

LEMMA InnerCells ==
    ASSUME NEW rows, NEW expected, NEW from, NEW b, Aligning(rows, expected, from, b),
           NEW n \in Nat, n + 1 <= N,
           NEW k \in Nat, k + 1 <= Reach, from + (k + 1) <= Len(received),
           CellIs(rows, expected, from, b, n, k), CellIs(rows, expected, from, b, n, k + 1),
           CellIs(rows, expected, from, b, n + 1, k)
    PROVE  CellIs(rows, expected, from, b, n + 1, k + 1)
<1> DEFINE diagonal == rows[n][k + 1]
           above == rows[n][(k + 1) + 1]
           left == rows[n + 1][k + 1]
           G1 == WayCosts(expected, from, n, k + 1)
           G2 == WayCosts(expected, from, n, k)
           G3 == WayCosts(expected, from, n + 1, k)
           ins == channel.cost_ins
           del == channel.cost_del
           place == from + (k + 1)
           cost == MatchCost(expected[n + 1], place - 1)
           toll == Toll(expected, n + 1, place)
           nkb == (n + k) * b
           nkb1 == nkb + b
           nkb2 == nkb + b + b
           p1 == Plus(above, del)
           p2 == Plus(diagonal, cost)
           p3 == Plus(left, ins)
           c == rows[n + 1][(k + 1) + 1]
<1>1. Given /\ b \in Nat /\ expected \in Expected /\ N \in Nat /\ from \in Nat /\ Reach \in Nat
      /\ Len(received) \in Nat /\ ins \in Nat /\ del \in Nat
  BY ReachFacts DEF Aligning, CostBound
<1>2. Within(n, from, k) /\ Within(n, from, k + 1) /\ Within(n + 1, from, k)
      /\ Within(n + 1, from, k + 1)
  BY <1>1 DEF Within
<1>3. c = Least({p1, p2, p3})
  <2>1. k + 1 \in 1 .. Reach /\ n + 1 \in 1 .. N /\ (n + 1) - 1 = n
        /\ from + (k + 1) - 1 \in Int /\ place - 1 = from + (k + 1) - 1
    BY <1>1
  <2>2. IsNextRow(rows[n + 1], rows[n], expected[n + 1], from)
    BY <2>1 DEF Aligning, Aligned
  <2>3. c = Cell(left, rows[n], k + 1, expected[n + 1], from + (k + 1) - 1)
    BY <2>1, <2>2 DEF IsNextRow
  <2>4. InRange(place - 1)
    BY <1>1 DEF InRange
  <2>5. c = Cell(left, rows[n], k + 1, expected[n + 1], place - 1)
    <3> HIDE DEF c, left
    <3> QED
      BY <2>1, <2>3
  <2>6. c = Least({p1} \cup {p2, p3})
    <3> HIDE DEF place, left, c, ins, del
    <3> QED
      BY <2>4, <2>5 DEF Cell, ins, del
  <2>7. {p1} \cup {p2, p3} = {p1, p2, p3}
    OBVIOUS
  <2> QED
    BY <2>6, <2>7
<1>4. nkb \in Nat /\ ((n + 1) + k) * b = nkb1 /\ (n + (k + 1)) * b = nkb1
      /\ ((n + 1) + (k + 1)) * b = nkb2 /\ nkb1 \in Nat /\ nkb2 \in Nat
  <2> DEFINE nk == n + k
  <2>1. nk \in Nat /\ nk + 1 \in Nat /\ (n + 1) + k = nk + 1 /\ n + (k + 1) = nk + 1
        /\ (n + 1) + (k + 1) = (nk + 1) + 1
    OBVIOUS
  <2> HIDE DEF nk
  <2>2. nk * b \in Nat /\ (nk + 1) * b = nk * b + b /\ ((nk + 1) + 1) * b = (nk + 1) * b + b
        /\ (nk + 1) * b \in Nat /\ ((nk + 1) + 1) * b \in Nat
    BY <1>1, <2>1, OneTimesMore
  <2> QED
    BY <2>1, <2>2 DEF nk
<1>5. Reckons(above, G1, nkb1) /\ Reckons(diagonal, G2, nkb) /\ Reckons(left, G3, nkb1)
  BY <1>4 DEF CellIs
<1>6. G1 \in SUBSET Nat /\ G2 \in SUBSET Nat /\ G3 \in SUBSET Nat
  BY <1>1, <1>2, WayCostsType
<1>7. /\ del < Infinite => del <= b
      /\ ins < Infinite => ins <= b
      /\ cost \in Nat /\ toll \in Nat
      /\ toll < Infinite \/ cost < Infinite => cost = toll
      /\ cost < Infinite => cost <= b + b
  <2>1. n + 1 \in 1 .. N /\ place \in 1 .. Len(received)
    BY <1>1
  <2>2. CostBound(b)
    BY DEF Aligning
  <2> HIDE DEF place
  <2> QED
    BY <1>1, <2>1, <2>2, BoundedCosts
<1>8. /\ (n + 1) - 1 = n /\ (k + 1) - 1 = k /\ n + 1 >= 1 /\ k + 1 >= 1
  OBVIOUS
<1>9. /\ OfferedBy(p1, WayCosts(expected, from, (n + 1) - 1, k + 1), del, nkb2)
      /\ OfferedBy(p2, WayCosts(expected, from, (n + 1) - 1, (k + 1) - 1), toll, nkb2)
      /\ OfferedBy(p3, WayCosts(expected, from, n + 1, (k + 1) - 1), ins, nkb2)
  <2>1. nkb + (b + b) = nkb2 /\ b + b \in Nat
    BY <1>1, <1>4
  <2>2. /\ OfferedBy(p1, G1, del, nkb1 + b)
        /\ OfferedBy(p2, G2, toll, nkb + (b + b))
        /\ OfferedBy(p3, G3, ins, nkb1 + b)
    <3> HIDE DEF G1, G2, G3, above, diagonal, left, ins, del, cost, toll, nkb, nkb1
    <3>1. OfferedBy(p1, G1, del, nkb1 + b)
      BY <1>1, <1>4, <1>5, <1>6, <1>7, PlusOffers
    <3>2. OfferedBy(p2, G2, toll, nkb + (b + b))
      BY <1>1, <1>4, <1>5, <1>6, <1>7, <2>1, PlusOffers
    <3>3. OfferedBy(p3, G3, ins, nkb1 + b)
      BY <1>1, <1>4, <1>5, <1>6, <1>7, PlusOffers
    <3> QED
      BY <3>1, <3>2, <3>3
  <2> QED
    BY <1>8, <2>1, <2>2
<1>10. Reckons(Least({p1, p2, p3}), WayCosts(expected, from, n + 1, k + 1), nkb2)
  <2> DEFINE n1 == n + 1
             k1 == k + 1
  <2>1. n1 >= 1 /\ k1 >= 1 /\ Within(n1, from, k1)
    BY <1>2
  <2>2. /\ OfferedBy(p1, WayCosts(expected, from, n1 - 1, k1), channel.cost_del, nkb2)
        /\ OfferedBy(p2, WayCosts(expected, from, n1 - 1, k1 - 1), Toll(expected, n1, from + k1),
                     nkb2)
        /\ OfferedBy(p3, WayCosts(expected, from, n1, k1 - 1), channel.cost_ins, nkb2)
    BY <1>9
  <2> HIDE DEF n1, k1, p1, p2, p3, nkb2
  <2>3. Reckons(Least({p1, p2, p3}), WayCosts(expected, from, n1, k1), nkb2)
    BY <1>1, <1>4, <2>1, <2>2, InnerCellReckons
  <2> QED
    BY <2>3 DEF n1, k1
<1> HIDE DEF p1, p2, p3
<1>11. Reckons(c, WayCosts(expected, from, n + 1, k + 1), ((n + 1) + (k + 1)) * b)
  <2> HIDE DEF c, nkb2
  <2> QED
    BY <1>3, <1>4, <1>10
<1> QED
  BY <1>11 DEF CellIs, c

LEMMA CellsReckon ==
    ASSUME NEW rows, NEW expected, NEW from, NEW b, Aligning(rows, expected, from, b)
    PROVE  \A n \in 0 .. N, k \in 0 .. Reach :
              from + k <= Len(received) => CellIs(rows, expected, from, b, n, k)
<1> DEFINE Filled(n, k) == k <= Reach /\ from + k <= Len(received)
                              => CellIs(rows, expected, from, b, n, k)
           T == {n \in Nat : n <= N => \A k \in Nat : Filled(n, k)}
<1>1. Given /\ from \in Nat /\ Len(received) \in Nat /\ N \in Nat /\ Reach \in Nat
  BY ReachFacts DEF Aligning
<1>2. 0 \in T
  <2> DEFINE U == {k \in Nat : Filled(0, k)}
  <2>1. 0 \in U
    BY FirstCell
  <2>2. ASSUME NEW k \in Nat, k \in U PROVE k + 1 \in U
    <3> SUFFICES ASSUME k + 1 <= Reach, from + (k + 1) <= Len(received)
                 PROVE  CellIs(rows, expected, from, b, 0, k + 1)
      OBVIOUS
    <3>1. CellIs(rows, expected, from, b, 0, k)
      BY <1>1, <2>2
    <3> QED
      BY <3>1, TopCells
  <2>3. Nat \subseteq U
    <3> HIDE DEF U
    <3> QED
      BY <2>1, <2>2, NumberInduction
  <2> QED
    BY <2>3
<1>3. ASSUME NEW n \in Nat, n \in T PROVE n + 1 \in T
  <2> SUFFICES ASSUME n + 1 <= N PROVE \A k \in Nat : Filled(n + 1, k)
    OBVIOUS
  <2> DEFINE U == {k \in Nat : Filled(n + 1, k)}
  <2>0. \A k \in Nat : Filled(n, k)
    BY <1>1, <1>3
  <2>1. 0 \in U
    <3>1. CellIs(rows, expected, from, b, n, 0)
      <4>1. 0 <= Reach /\ from + 0 <= Len(received)
        BY <1>1 DEF Aligning
      <4> QED
        BY <2>0, <4>1
    <3> QED
      BY <3>1, LeftCells
  <2>2. ASSUME NEW k \in Nat, k \in U PROVE k + 1 \in U
    <3> SUFFICES ASSUME k + 1 <= Reach, from + (k + 1) <= Len(received)
                 PROVE  CellIs(rows, expected, from, b, n + 1, k + 1)
      OBVIOUS
    <3>1. k <= Reach /\ from + k <= Len(received) /\ k + 1 \in Nat
      BY <1>1
    <3>2. /\ CellIs(rows, expected, from, b, n, k)
          /\ CellIs(rows, expected, from, b, n, k + 1)
          /\ CellIs(rows, expected, from, b, n + 1, k)
      BY <2>0, <2>2, <3>1
    <3> QED
      BY <3>2, InnerCells
  <2>3. Nat \subseteq U
    <3> HIDE DEF U
    <3> QED
      BY <2>1, <2>2, NumberInduction
  <2> QED
    BY <2>3
<1>4. Nat \subseteq T
  <2> HIDE DEF T
  <2> QED
    BY <1>2, <1>3, NumberInduction
<1> QED
  BY <1>1, <1>4

----------------------------------------------------------------------------
(* An edge costs what the cheapest of its alignments does.                 *)

LEMMA WayCostIs ==
    ASSUME NEW expected, NEW way, NEW from, NEW to
    PROVE  AlignmentCost(expected, way, from, to) = WayCost(expected, way, N, to - from)
<1>1. /\ \A w : SumFunction(w) = SumOf(w, DOMAIN w)
      /\ DOMAIN Tolls(expected, way) = DOMAIN way
  BY SumFunctionIs DEF Tolls
<1>2. AlignmentCost(expected, way, from, to) =
          SumFunction(Tolls(expected, way))
              + (N - Cardinality(DOMAIN way)) * channel.cost_del
              + (to - from - Cardinality(DOMAIN way)) * channel.cost_ins
  BY DEF AlignmentCost, Tolls, BitPrice
<1>3. SumFunction(Tolls(expected, way)) = SumOf(Tolls(expected, way), DOMAIN way)
  BY <1>1
<1> QED
  BY <1>2, <1>3 DEF WayCost

LEMMA CrossedIs ==
    ASSUME NEW s, NEW bit, NEW from \in Nat, NEW k \in Nat, from + k <= Len(received),
           Len(received) \in Nat
    PROVE  Crossed(s, bit, from, from + k) = Least(WayCosts(output[<<s, bit>>], from, N, k))
<1> DEFINE expected == output[<<s, bit>>]
           to == from + k
<1>1. 0 <= from /\ from <= to /\ to <= Len(received) /\ to - from = k
  OBVIOUS
<1>2. Crossed(s, bit, from, to) =
          Least({AlignmentCost(expected, way, from, to) : way \in Alignments(N, from, to)})
  <2> HIDE DEF to
  <2> QED
    BY <1>1 DEF Crossed
<1>3. \A way : AlignmentCost(expected, way, from, to) = WayCost(expected, way, N, k)
  <2> HIDE DEF to, expected
  <2> QED
    BY <1>1, WayCostIs
<1>4. {AlignmentCost(expected, way, from, to) : way \in Alignments(N, from, to)} =
      {WayCost(expected, way, N, k) : way \in Alignments(N, from, to)}
  <2> HIDE DEF to, expected
  <2> QED
    BY <1>3
<1> QED
  BY <1>2, <1>4 DEF WayCosts

LEMMA CrossedFacts ==
    ASSUME Given, NEW s \in States, NEW bit \in {0, 1}, NEW from \in Int, NEW to \in Int
    PROVE  /\ Crossed(s, bit, from, to) \in Nat
           /\ Crossed(s, bit, from, to) <= Infinite
           /\ Crossed(s, bit, from, to) < Infinite =>
                 0 <= from /\ from <= to /\ to <= Len(received)
<1>1. Len(received) \in Nat /\ N \in Nat
  BY ReachFacts
<1>2. CASE 0 <= from /\ from <= to /\ to <= Len(received)
  <2> DEFINE k == to - from
  <2>1. from \in Nat /\ k \in Nat /\ from + k = to /\ from + k <= Len(received)
    BY <1>2
  <2>2. output[<<s, bit>>] \in Expected
    BY MetricAssumption DEF Edges, States, Expected
  <2>3. Within(N, from, k)
    BY <1>1, <2>1 DEF Within
  <2> HIDE DEF k
  <2>4. WayCosts(output[<<s, bit>>], from, N, k) \in SUBSET Nat
    BY <2>2, <2>3, WayCostsType
  <2>5. Crossed(s, bit, from, to) = Least(WayCosts(output[<<s, bit>>], from, N, k))
    <3>1. Crossed(s, bit, from, from + k) = Least(WayCosts(output[<<s, bit>>], from, N, k))
      BY <1>1, <2>1, CrossedIs
    <3> QED
      BY <2>1, <3>1
  <2> DEFINE ways == WayCosts(output[<<s, bit>>], from, N, k)
  <2>6. Least(ways) \in Nat /\ Least(ways) <= Infinite
    <3> HIDE DEF ways
    <3> QED
      BY <2>4, LeastFacts DEF ways
  <2> QED
    BY <1>2, <2>5, <2>6
<1>3. CASE ~(0 <= from /\ from <= to /\ to <= Len(received))
  <2>1. Crossed(s, bit, from, to) = Infinite
    BY <1>3 DEF Crossed
  <2> QED
    BY <2>1, InfiniteIsCost
<1> QED
  BY <1>2, <1>3

\* The cost of an edge is at most b for each bit it sends and receives.
EdgeBound(b) == 2 * (N + channel.max_drift) * b

LEMMA EdgeBoundFacts ==
    ASSUME Given, NEW b \in Nat, NEW c \in 0 .. Reach
    PROVE  (N + c) * b <= EdgeBound(b) /\ (N + c) * b \in Nat /\ EdgeBound(b) \in Nat
<1> DEFINE w == 2 * (N + channel.max_drift)
           v == N + c
<1>1. N \in Nat /\ channel.max_drift \in Nat /\ Reach = N + 2 * channel.max_drift
  BY ReachFacts DEF Reach
<1>2. w \in Nat /\ v \in Nat /\ v <= w
  BY <1>1
<1> HIDE DEF w, v
<1>3. v * b <= w * b /\ v * b \in Nat /\ w * b \in Nat
  BY <1>2, MoreTimes
<1> QED
  BY <1>3 DEF EdgeBound, w, v

AlignedAs(a, crossed, bound) ==
    /\ a \in Nat
    /\ a < Infinite => a = crossed /\ a <= bound
    /\ crossed < Infinite => a = crossed

\* The alignment of an edge costs what the cheapest way to receive its bits
\* does, and a bounded number.
LEMMA AlignFillIsCheapest ==
    ASSUME Given, NEW b, CostBound(b), NEW s \in States, NEW bit \in {0, 1},
           NEW from \in 0 .. Len(received), NEW c \in 0 .. Reach
    PROVE  AlignedAs(AlignFill(output[<<s, bit>>], from)[c + 1],
                     Crossed(s, bit, from, from + c), EdgeBound(b))
<1> DEFINE expected == output[<<s, bit>>]
           a == AlignFill(expected, from)[c + 1]
           x == Crossed(s, bit, from, from + c)
<1>1. Len(received) \in Nat /\ N \in Nat /\ Reach \in Nat /\ b \in Nat
  BY ReachFacts DEF CostBound
<1>2. expected \in Expected
  BY MetricAssumption DEF Edges, States, Expected
<1>3. from \in Nat /\ from <= Len(received) /\ from \in Int /\ c \in Nat /\ c <= Reach
  BY <1>1
<1>4. a \in Nat
  <2>1. AlignFill(expected, from) \in RowCosts
    <3> HIDE DEF expected
    <3> QED
      BY <1>2, <1>3, AlignFillType
  <2>2. c + 1 \in 1 .. (Reach + 1)
    BY <1>1, <1>3
  <2> HIDE DEF expected
  <2> QED
    BY <2>1, <2>2 DEF RowCosts
<1>5. CASE from + c <= Len(received)
  <2>1. PICK rows : Aligned(rows, expected, from) /\ AlignFill(expected, from) = rows[N]
    <3> HIDE DEF expected
    <3> QED
      BY <1>2, <1>3, AlignFillRows
  <2>2. Aligning(rows, expected, from, b)
    <3> HIDE DEF expected
    <3> QED
      BY <1>2, <1>3, <2>1 DEF Aligning
  <2> DEFINE G == WayCosts(expected, from, N, c)
  <2>3. CellIs(rows, expected, from, b, N, c)
    <3>1. N \in 0 .. N
      BY <1>1
    <3> HIDE DEF expected
    <3> QED
      BY <1>5, <2>2, <3>1, CellsReckon
  <2>4. Reckons(a, G, (N + c) * b)
    BY <2>1, <2>3 DEF CellIs
  <2>5. G \in SUBSET Nat
    <3>1. Within(N, from, c)
      BY <1>1, <1>3, <1>5 DEF Within
    <3> HIDE DEF expected
    <3> QED
      BY <1>2, <3>1, WayCostsType
  <2>6. x = Least(G)
    BY <1>1, <1>3, <1>5, CrossedIs
  <2>7. (N + c) * b <= EdgeBound(b) /\ (N + c) * b \in Nat /\ EdgeBound(b) \in Nat
    BY <1>1, EdgeBoundFacts
  <2> HIDE DEF a, x, G
  <2>8. x \in Nat /\ x <= Infinite /\ x \in G \cup {Infinite} /\ \A g \in G : x <= g
    BY <2>5, <2>6, LeastFacts
  <2>9. /\ a < Infinite => a \in G /\ a <= (N + c) * b
        /\ \A g \in G : g < Infinite => a <= g
    BY <2>4 DEF Reckons
  <2>10. ASSUME a < Infinite PROVE a = x /\ a <= EdgeBound(b)
    <3>1. a \in G /\ x <= a
      BY <2>8, <2>9, <2>10
    <3>2. x < Infinite
      BY <1>4, <2>8, <2>10, <3>1, InfiniteIsCost
    <3>3. x \in G /\ a <= x
      BY <2>8, <2>9, <3>2
    <3>4. a <= (N + c) * b
      BY <2>9, <2>10
    <3> DEFINE k == (N + c) * b
    <3>5. a <= k /\ k <= EdgeBound(b) /\ k \in Nat
      BY <2>7, <3>4
    <3> HIDE DEF k
    <3> QED
      BY <1>4, <2>7, <2>8, <3>1, <3>3, <3>5
  <2>11. ASSUME x < Infinite PROVE a = x
    <3>1. x \in G /\ a <= x
      BY <2>8, <2>9, <2>11
    <3>2. a < Infinite
      BY <1>4, <2>8, <2>11, <3>1, InfiniteIsCost
    <3> QED
      BY <2>10, <3>2
  <2>12. AlignedAs(a, x, EdgeBound(b))
    BY <1>4, <2>10, <2>11 DEF AlignedAs
  <2> QED
    BY <2>12 DEF a, x
<1>6. CASE ~(from + c <= Len(received))
  <2>1. c \in 1 .. Reach /\ ~InRange(from + c - 1)
    BY <1>1, <1>3, <1>6 DEF InRange
  <2>2. a >= Infinite
    <3> HIDE DEF expected
    <3> QED
      BY <1>2, <1>3, <2>1, PastEndIsDead
  <2>3. x = Infinite
    BY <1>6 DEF Crossed
  <2> HIDE DEF a, x
  <2>4. AlignedAs(a, x, EdgeBound(b))
    BY <1>4, <2>2, <2>3, InfiniteIsCost DEF AlignedAs
  <2> QED
    BY <2>4 DEF a, x
<1> QED
  BY <1>5, <1>6

\* What the reference charges for the edge e from u to v.
BranchCrossed(u, v, e, base) ==
    Crossed(e[1], e[3], base + Drift(u) - channel.max_drift,
            base + N + Drift(v) - channel.max_drift)

LEMMA BranchIsCrossed ==
    ASSUME Given, NEW b, CostBound(b), NEW m \in Metrics, NEW base \in Int, NEW v \in Nodes,
           NEW u, NEW e, Leads(m, u, v, e),
           base + Drift(u) - channel.max_drift \in 0 .. Len(received)
    PROVE  AlignedAs(Branch(u, v, e, base), BranchCrossed(u, v, e, base), EdgeBound(b))
<1> DEFINE from == base + Drift(u) - channel.max_drift
           c == N + Drift(v) - Drift(u)
<1>1. c \in 0 .. Reach
  BY LeadsFacts
<1>2. u \in Nodes /\ e[1] = State(u) /\ e[3] \in {0, 1}
  BY DEF Leads
<1>3. State(u) \in States /\ Drift(u) \in Int /\ Drift(v) \in Int
  BY <1>2, NodeFacts, WidthFacts DEF Drifts
<1>4. from + c = base + N + Drift(v) - channel.max_drift
  <2> DEFINE du == Drift(u)
             dv == Drift(v)
  <2>1. N \in Int /\ channel.max_drift \in Int /\ du \in Int /\ dv \in Int
    BY <1>3, ReachFacts
  <2> HIDE DEF du, dv
  <2>2. base + du - channel.max_drift + (N + dv - du) = base + N + dv - channel.max_drift
    BY <2>1
  <2> QED
    BY <2>2 DEF du, dv
<1>5. Branch(u, v, e, base) = AlignFill(output[<<e[1], e[3]>>], from)[c + 1]
  BY DEF Branch
<1>6. BranchCrossed(u, v, e, base) = Crossed(e[1], e[3], from, from + c)
  <2> HIDE DEF c
  <2> QED
    BY <1>4 DEF BranchCrossed
<1> HIDE DEF c
<1>7. from \in 0 .. Len(received)
  OBVIOUS
<1> HIDE DEF from
<1> QED
  BY <1>1, <1>2, <1>3, <1>5, <1>6, <1>7, AlignFillIsCheapest

----------------------------------------------------------------------------
(* What a node keeps of the edges that reach it.                           *)

EdgeOrder(e) == (e[1] * DriftWidth + e[2]) * 2 + e[3]

IsFirst(e, edges, cost, least) ==
    /\ e \in edges /\ cost[e] = least
    /\ \A f \in edges : cost[f] = least => EdgeOrder(e) <= EdgeOrder(f)

LEMMA ArrivalFrom ==
    ASSUME NEW edges, NEW cost,
           \A e \in edges : cost[e] \in Nat /\ EdgeOrder(e) \in Nat
    PROVE  LET a == Arrival(edges, cost)
           IN  IF a.cost = Infinite THEN a.from = NoPointer
               ELSE a.from \in edges /\ cost[a.from] = a.cost
<1> DEFINE costs == {cost[e] : e \in edges}
           least == Least(costs)
           a == Arrival(edges, cost)
           first == CHOOSE e \in edges :
                        /\ cost[e] = least
                        /\ \A f \in edges : cost[f] = least => EdgeOrder(e) <= EdgeOrder(f)
<1>1. a = IF least = Infinite THEN [cost |-> Infinite, from |-> NoPointer]
          ELSE [cost |-> least, from |-> first]
  BY DEF Arrival, EdgeOrder
<1>2. CASE least = Infinite
  <2>1. a.cost = Infinite /\ a.from = NoPointer
    <3> HIDE DEF least, first, a
    <3> QED
      BY <1>1, <1>2
  <2> HIDE DEF a
  <2> QED
    BY <2>1 DEF a
<1>3. CASE least # Infinite
  <2> DEFINE best == {e \in edges : cost[e] = least}
             orders == {EdgeOrder(e) : e \in best}
  <2>1. costs \in SUBSET Nat
    OBVIOUS
  <2>2. least \in costs
    <3> HIDE DEF costs
    <3> QED
      BY <1>3, <2>1, LeastFacts
  <2>3. best # {}
    <3> HIDE DEF least
    <3> QED
      BY <2>2
  <2>4. orders \subseteq Nat /\ orders # {}
    <3> HIDE DEF least
    <3> QED
      BY <2>3
  <2>5. PICK m \in orders : \A o \in orders : m <= o
    <3> HIDE DEF orders
    <3> QED
      BY <2>4, LeastExists
  <2>6. PICK e \in best : m = EdgeOrder(e)
    BY <2>5
  <2>7. IsFirst(e, edges, cost, least)
    <3> HIDE DEF least
    <3>1. \A f \in edges : cost[f] = least => EdgeOrder(f) \in orders
      OBVIOUS
    <3> HIDE DEF orders
    <3> QED
      BY <2>5, <2>6, <3>1 DEF IsFirst
  <2>8. IsFirst(first, edges, cost, least)
    <3> HIDE DEF least
    <3>1. \E f \in edges : /\ cost[f] = least
                           /\ \A g \in edges : cost[g] = least => EdgeOrder(f) <= EdgeOrder(g)
      BY <2>7 DEF IsFirst
    <3> QED
      BY <3>1 DEF IsFirst
  <2>9. a.cost = least /\ a.from = first
    <3> HIDE DEF least, first, a
    <3> QED
      BY <1>1, <1>3
  <2>10. a.from \in edges /\ cost[a.from] = a.cost
    <3> HIDE DEF least, first, a
    <3> QED
      BY <2>8, <2>9 DEF IsFirst
  <2>11. a.cost # Infinite
    <3> HIDE DEF least, a
    <3> QED
      BY <1>3, <2>9
  <2> HIDE DEF a
  <2> QED
    BY <2>10, <2>11 DEF a
<1> QED
  BY <1>2, <1>3

Pointer == States \X Drifts \X {0, 1}

LEMMA LeadsPointer ==
    ASSUME Given, NEW m, NEW u, NEW v, NEW e, Leads(m, u, v, e)
    PROVE  e \in Pointer /\ EdgeOrder(e) \in Nat
<1>1. u \in Nodes /\ e[1] = State(u) /\ e[2] = Drift(u) /\ e[3] \in {0, 1}
      /\ e = <<e[1], e[2], e[3]>>
  BY DEF Leads
<1>2. State(u) \in States /\ Drift(u) \in Drifts
  BY <1>1, NodeFacts
<1>3. e[1] \in Nat /\ e[2] \in Nat /\ e[3] \in Nat /\ DriftWidth \in Nat
  BY <1>1, <1>2, WidthFacts DEF States, Drifts
<1>4. EdgeOrder(e) \in Nat
  <2> DEFINE a == e[1]
             d == e[2]
             w == DriftWidth
  <2>1. a \in Nat /\ d \in Nat /\ w \in Nat
    BY <1>3
  <2> HIDE DEF a, d, w
  <2>2. (a * w + d) * 2 \in Nat
    BY <2>1
  <2> QED
    BY <1>3, <2>2 DEF EdgeOrder, a, d, w
<1>5. e \in Pointer
  BY <1>1, <1>2 DEF Pointer
<1> QED
  BY <1>4, <1>5

\* The edge v keeps is one that leads there, at the least cost.
ComesBy(v, u, e) ==
    /\ Leads(Anchor, u, v, e)
    /\ Anchor[u] \in Nat /\ Branch(u, v, e, Base) \in Nat
    /\ Anchor[u] < Infinite /\ Branch(u, v, e, Base) < Infinite
    /\ Arrivals[v].cost = Anchor[u] + Branch(u, v, e, Base)

LEMMA ArrivalComes ==
    ASSUME MetricInv, NEW v \in Nodes
    PROVE  /\ Arrivals[v].cost \in 0 .. Infinite
           /\ Arrivals[v].from \in Pointer
           /\ Arrivals[v].cost < Infinite => \E u : ComesBy(v, u, Arrivals[v].from)
           /\ \A u, e : Leads(Anchor, u, v, e) =>
                 Arrivals[v].cost <= Plus(Anchor[u], Branch(u, v, e, Base))
<1> DEFINE edges == Reaching(Anchor, v)
           cost == Costs(Anchor, Base, v)
           a == Arrivals[v]
<1>1. Given /\ Base \in Int /\ Anchor \in Metrics
  BY BaseIsNat, AnchorFacts DEF MetricInv, Typed
<1>2. a = Arrival(edges, cost)
  BY ForwardPassIs DEF Arrivals
<1>3. ASSUME NEW e, NEW u, Leads(Anchor, u, v, e)
      PROVE  /\ e \in edges /\ Anchor[u] \in Nat /\ Branch(u, v, e, Base) \in Nat
             /\ cost[e] = Plus(Anchor[u], Branch(u, v, e, Base)) /\ cost[e] \in Nat
  <2>1. e \in edges
    BY <1>3, ReachingFacts
  <2>2. /\ Anchor[u] \in Nat /\ Branch(u, v, e, Base) \in Nat
        /\ EdgeCost(Anchor, Base, v, e) = Plus(Anchor[u], Branch(u, v, e, Base))
        /\ EdgeCost(Anchor, Base, v, e) \in Nat
    BY <1>1, <1>3, LeadsCost
  <2>3. cost[e] = EdgeCost(Anchor, Base, v, e)
    BY <2>1 DEF Costs
  <2> QED
    BY <2>1, <2>2, <2>3
<1>4. \A e \in edges : \E u : Leads(Anchor, u, v, e)
  BY ReachingFacts
<1>5. \A e \in edges : cost[e] \in Nat /\ EdgeOrder(e) \in Nat
  <2> HIDE DEF edges, cost
  <2> QED
    BY <1>1, <1>3, <1>4, LeadsPointer
<1>6. a.cost = Least({cost[e] : e \in edges})
  BY <1>2, ArrivalCost
<1>7. IF a.cost = Infinite THEN a.from = NoPointer
      ELSE a.from \in edges /\ cost[a.from] = a.cost
  <2> HIDE DEF edges, cost, a
  <2> QED
    BY <1>2, <1>5, ArrivalFrom
<1> HIDE DEF edges, cost
<1>8. /\ a.cost \in Nat /\ a.cost <= Infinite
      /\ \A e \in edges : a.cost <= cost[e]
  <2> DEFINE costs == {cost[e] : e \in edges}
  <2>1. costs \in SUBSET Nat /\ \A e \in edges : cost[e] \in costs
    BY <1>5
  <2> HIDE DEF costs
  <2>2. Least(costs) \in Nat /\ Least(costs) <= Infinite /\ \A k \in costs : Least(costs) <= k
    BY <2>1, LeastFacts
  <2>3. a.cost = Least(costs)
    BY <1>6 DEF costs
  <2> HIDE DEF a
  <2> QED
    BY <2>1, <2>2, <2>3
<1>9. a.from \in Pointer
  <2>1. CASE a.cost = Infinite
    <3>1. a.from = NoPointer
      BY <1>7, <2>1
    <3>2. 0 \in States /\ 0 \in Drifts
      BY <1>1, WidthFacts DEF States, Drifts
    <3> QED
      BY <3>1, <3>2 DEF Pointer, NoPointer
  <2>2. CASE a.cost # Infinite
    <3>1. a.from \in edges
      BY <1>7, <2>2
    <3> HIDE DEF a
    <3> QED
      BY <1>1, <1>4, <3>1, LeadsPointer
  <2> QED
    BY <2>1, <2>2
<1>10. ASSUME a.cost < Infinite PROVE \E u : ComesBy(v, u, a.from)
  <2>1. a.from \in edges /\ cost[a.from] = a.cost
    BY <1>7, <1>10, InfiniteIsCost
  <2>2. PICK u : Leads(Anchor, u, v, a.from)
    BY <1>4, <2>1
  <2>3. /\ Anchor[u] \in Nat /\ Branch(u, v, a.from, Base) \in Nat
        /\ a.cost = Plus(Anchor[u], Branch(u, v, a.from, Base))
    BY <1>3, <2>1, <2>2
  <2> DEFINE x == Anchor[u]
             y == Branch(u, v, a.from, Base)
             z == a.cost
  <2>4. x \in Nat /\ y \in Nat /\ z = Plus(x, y) /\ z < Infinite
    BY <1>10, <2>3
  <2> HIDE DEF x, y, z
  <2>5. x < Infinite /\ y < Infinite /\ z = x + y
    BY <2>4, PlusFacts
  <2>6. ComesBy(v, u, a.from)
    BY <2>2, <2>3, <2>5 DEF ComesBy, x, y, z
  <2> QED
    BY <2>6
<1>11. a.cost \in 0 .. Infinite
  <2> HIDE DEF a
  <2> QED
    BY <1>8, InfiniteIsCost
<1>12. \A u, e : Leads(Anchor, u, v, e) =>
          a.cost <= Plus(Anchor[u], Branch(u, v, e, Base))
  BY <1>3, <1>8
<1> QED
  BY <1>9, <1>10, <1>11, <1>12

\* Re-anchoring moves a live node, with its cost, by the shift.
Moved(u, w) ==
    /\ u \in Nodes /\ w \in Nodes
    /\ State(w) = State(u) /\ Drift(w) = Drift(u) + PickShift
    /\ w = NodeAt(State(u), Drift(u) + PickShift)
    /\ Anchor[u] = metric[w]

LEMMA AnchorIs ==
    ASSUME MetricInv, NEW u \in Nodes
    PROVE  /\ Anchor[u] < Infinite => \E w : Moved(u, w)
           /\ Drift(u) + PickShift \in Drifts => \E w : Moved(u, w)
<1>1. Given
  BY DEF MetricInv, Typed
<1> DEFINE d == Drift(u) + PickShift
           w == NodeAt(State(u), d)
<1>2. Anchor[u] = IF d \in Drifts THEN metric[w] ELSE Infinite
  BY DEF Anchor, Reanchor, Drifts
<1>3. State(u) \in States
  BY <1>1, NodeFacts
<1>4. ASSUME d \in Drifts PROVE Moved(u, w)
  <2>1. w \in Nodes /\ State(w) = State(u) /\ Drift(w) = d
    BY <1>1, <1>3, <1>4, NodeAtFacts
  <2> QED
    BY <1>2, <1>4, <2>1 DEF Moved
<1>5. ASSUME Anchor[u] < Infinite PROVE d \in Drifts
  <2> SUFFICES ASSUME d \notin Drifts PROVE FALSE
    OBVIOUS
  <2>1. Anchor[u] = Infinite
    BY <1>2
  <2> QED
    BY <1>5, <2>1, InfiniteIsCost
<1> QED
  BY <1>4, <1>5

----------------------------------------------------------------------------
(* The recursions of the reference, and how a step extends them.           *)

BaseBy(sh, i) == N * (i - 1) + SumFunctionOnSet(sh, 1 .. i)

LEMMA BaseByFacts ==
    ASSUME NEW n \in Nat, NEW sh \in Seq(Int), Len(sh) = n, NEW sigma \in Int
    PROVE  /\ \A i \in 0 .. n : BaseBy(sh, i) \in Int
           /\ \A i \in 0 .. n : BaseBy(Append(sh, sigma), i) = BaseBy(sh, i)
           /\ BaseBy(Append(sh, sigma), n + 1) = BaseBy(sh, n) + N + sigma
           /\ n = 0 => BaseBy(sh, n) + N = 0
<1> DEFINE longer == Append(sh, sigma)
           S == 1 .. n
           L == 1 .. (n + 1)
<1>1. /\ longer \in Seq(Int) /\ Len(longer) = n + 1
      /\ \A i \in 1 .. n : longer[i] = sh[i]
      /\ longer[n + 1] = sigma
  BY AppendProperties
<1>2. sh \in [S -> Int] /\ longer \in [L -> Int] /\ N \in Nat
  BY <1>1, LenProperties, MetricAssumption
<1>3. IsFiniteSet(S) /\ IsFiniteSet(L) /\ Int \in {Nat, Int}
  BY FS_Interval
<1> HIDE DEF longer
<1>4. ASSUME NEW i \in 0 .. n
      PROVE  /\ SumOf(sh, 1 .. i) \in Int
             /\ SumOf(longer, 1 .. i) = SumOf(sh, 1 .. i)
  <2> DEFINE T == 1 .. i
  <2>1. T \subseteq S /\ T \subseteq L
    OBVIOUS
  <2>2. \A k \in T : longer[k] = sh[k]
    BY <1>1, <2>1
  <2> HIDE DEF T, S, L
  <2>3. SumOf(sh, T) \in Int
    BY <1>2, <1>3, <2>1, SumIsNumber
  <2>4. SumOf(longer, T) = SumOf(sh, T)
    <3>1. \A k \in T : sh[k] = longer[k]
      BY <2>2
    <3>2. SumOf(sh, T) = SumOf(longer, T)
      BY <1>2, <1>3, <2>1, <3>1, SumAgrees
    <3> QED
      BY <3>2
  <2> QED
    BY <2>3, <2>4 DEF T
<1>5. SumOf(longer, L) = sigma + SumOf(sh, S)
  <2>1. L \in SUBSET L /\ n + 1 \in L /\ L \ {n + 1} = S
    OBVIOUS
  <2>2. n \in 0 .. n
    OBVIOUS
  <2>3. SumOf(longer, S) = SumOf(sh, S)
    BY <1>4, <2>2
  <2> HIDE DEF S, L
  <2>4. SumOf(longer, L) = longer[n + 1] + SumOf(longer, L \ {n + 1})
    BY <1>2, <1>3, <2>1, SumRemoves
  <2> QED
    BY <1>1, <2>1, <2>3, <2>4
<1>6. \A w, i : BaseBy(w, i) = N * (i - 1) + SumOf(w, 1 .. i)
  BY SumOnSetIs DEF BaseBy
<1>7. ASSUME NEW i \in 0 .. n
      PROVE  BaseBy(sh, i) \in Int /\ BaseBy(longer, i) = BaseBy(sh, i)
  <2> DEFINE k == i - 1
             q == SumOf(sh, 1 .. i)
  <2>1. k \in Int /\ q \in Int /\ BaseBy(sh, i) = N * k + q
    BY <1>4, <1>6
  <2>2. N * k \in Int
    <3> HIDE DEF k
    <3> QED
      BY <1>2, <2>1
  <2> HIDE DEF q, k
  <2>3. BaseBy(sh, i) \in Int
    BY <2>1, <2>2
  <2> QED
    BY <1>4, <1>6, <2>3
<1>8. BaseBy(longer, n + 1) = BaseBy(sh, n) + N + sigma
  <2> DEFINE q == SumOf(sh, S)
             p == N * (n - 1)
  <2>1. q \in Int
    <3>1. n \in 0 .. n
      OBVIOUS
    <3> QED
      BY <1>4, <3>1
  <2>2. N * ((n + 1) - 1) = p + N /\ p \in Int
    <3> DEFINE k == n - 1
    <3>1. k \in Int /\ (n + 1) - 1 = k + 1
      OBVIOUS
    <3> HIDE DEF k
    <3>2. N * (k + 1) = N * k + N /\ N * k \in Int
      BY <1>2, <3>1
    <3> QED
      BY <3>1, <3>2 DEF k
  <2>3. BaseBy(longer, n + 1) = (p + N) + (sigma + q)
    BY <1>5, <1>6, <2>2
  <2>4. BaseBy(sh, n) = p + q
    BY <1>6
  <2> HIDE DEF p, q
  <2> QED
    BY <1>2, <2>1, <2>2, <2>3, <2>4
<1>9. ASSUME n = 0 PROVE BaseBy(sh, n) + N = 0
  <2>1. SumOf(sh, {}) = 0
    <3> HIDE DEF S
    <3> QED
      BY <1>2, <1>3, SumOfNone
  <2>2. 1 .. n = {}
    BY <1>9
  <2>3. BaseBy(sh, n) = N * (n - 1) + 0
    BY <1>6, <2>1, <2>2
  <2>4. N * (n - 1) = -N
    <3>1. n - 1 = -1
      BY <1>9
    <3>2. N * (-1) = -N
      BY <1>2
    <3> QED
      BY <3>1, <3>2
  <2> QED
    BY <1>2, <2>3, <2>4
<1> QED
  BY <1>7, <1>8, <1>9 DEF longer

\* What the recursions of CheapestPaths and TracedCost solve.
PathsBy(c, sh, n) ==
    c = [i \in 0 .. n |-> IF i = 0 THEN Origins ELSE Extended(c[i - 1], BaseBy(sh, i))]

SourceBy(ly, sh, i, v) == NodeAt(ly[i][v][1], ly[i][v][2] + sh[i])
TracedBranch(ly, sh, i, v) ==
    Crossed(ly[i][v][1], ly[i][v][3],
            BaseBy(sh, i) + ly[i][v][2] - channel.max_drift,
            BaseBy(sh, i) + N + Drift(v) - channel.max_drift)
ContinuedBy(traced, ly, sh, i) ==
    [v \in Nodes |->
        IF SourceBy(ly, sh, i, v) \in Nodes
        THEN Plus(traced[SourceBy(ly, sh, i, v)], TracedBranch(ly, sh, i, v)) ELSE Infinite]

TracesBy(t, ly, sh, n) ==
    t = [i \in 0 .. n |-> IF i = 0 THEN Starts ELSE ContinuedBy(t[i - 1], ly, sh, i)]

LEMMA CheapestPathsIs ==
    CheapestPaths = (CHOOSE c : PathsBy(c, shift, steps))[steps]
  BY DEF CheapestPaths, PathsBy, BaseBy, BaseAt

LEMMA TracedCostIs ==
    ASSUME NEW w
    PROVE  TracedCost(w) = (CHOOSE t : TracesBy(t, layers, shift, steps))[steps][w]
  BY DEF TracedCost, TracesBy, Continued, ContinuedBy, Source, SourceBy, BranchTaken,
         TracedBranch, BaseBy, BaseAt

LEMMA PathsAreUnique ==
    ASSUME NEW sh, NEW n \in Nat, NEW c, PathsBy(c, sh, n)
    PROVE  (CHOOSE d : PathsBy(d, sh, n))[n] = c[n]
<1> DEFINE d == CHOOSE k : PathsBy(k, sh, n)
           T == {i \in 0 .. n : c[i] = d[i]}
<1>1. PathsBy(d, sh, n)
  OBVIOUS
<1> HIDE DEF d
<1>2. \A i \in 0 .. n :
         /\ c[i] = IF i = 0 THEN Origins ELSE Extended(c[i - 1], BaseBy(sh, i))
         /\ d[i] = IF i = 0 THEN Origins ELSE Extended(d[i - 1], BaseBy(sh, i))
  BY <1>1 DEF PathsBy
<1>3. 0 \in T
  BY <1>2
<1>4. ASSUME NEW i \in 1 .. n, i - 1 \in T PROVE i \in T
  <2>1. i \in 0 .. n /\ i # 0 /\ c[i - 1] = d[i - 1]
    BY <1>4
  <2> QED
    BY <1>2, <2>1
<1>5. 0 .. n \subseteq T
  <2> HIDE DEF T
  <2> QED
    BY <1>3, <1>4, BoundedInduction
<1> QED
  BY <1>5 DEF d

LEMMA TracesAreUnique ==
    ASSUME NEW ly, NEW sh, NEW n \in Nat, NEW t, TracesBy(t, ly, sh, n)
    PROVE  (CHOOSE d : TracesBy(d, ly, sh, n))[n] = t[n]
<1> DEFINE d == CHOOSE k : TracesBy(k, ly, sh, n)
           T == {i \in 0 .. n : t[i] = d[i]}
<1>1. TracesBy(d, ly, sh, n)
  OBVIOUS
<1> HIDE DEF d
<1>2. \A i \in 0 .. n :
         /\ t[i] = IF i = 0 THEN Starts ELSE ContinuedBy(t[i - 1], ly, sh, i)
         /\ d[i] = IF i = 0 THEN Starts ELSE ContinuedBy(d[i - 1], ly, sh, i)
  BY <1>1 DEF TracesBy
<1>3. 0 \in T
  BY <1>2
<1>4. ASSUME NEW i \in 1 .. n, i - 1 \in T PROVE i \in T
  <2>1. i \in 0 .. n /\ i # 0 /\ t[i - 1] = d[i - 1]
    BY <1>4
  <2> QED
    BY <1>2, <2>1
<1>5. 0 .. n \subseteq T
  <2> HIDE DEF T
  <2> QED
    BY <1>3, <1>4, BoundedInduction
<1> QED
  BY <1>5 DEF d

LEMMA PathsExtend ==
    ASSUME NEW n \in Nat, NEW sh \in Seq(Int), Len(sh) = n, NEW sigma \in Int,
           NEW c, PathsBy(c, sh, n)
    PROVE  \E d : /\ PathsBy(d, Append(sh, sigma), n + 1)
                  /\ d[n + 1] = Extended(c[n], BaseBy(sh, n) + N + sigma)
<1> DEFINE longer == Append(sh, sigma)
           new == Extended(c[n], BaseBy(longer, n + 1))
           d == [i \in 0 .. (n + 1) |-> IF i = n + 1 THEN new ELSE c[i]]
<1>1. /\ \A i \in 0 .. n : BaseBy(longer, i) = BaseBy(sh, i)
      /\ BaseBy(longer, n + 1) = BaseBy(sh, n) + N + sigma
  BY BaseByFacts
<1> HIDE DEF longer
<1>2. d[n + 1] = new /\ \A i \in 0 .. n : d[i] = c[i]
  OBVIOUS
<1>3. d = [i \in 0 .. (n + 1) |-> d[i]]
  OBVIOUS
<1> HIDE DEF d
<1>4. ASSUME NEW i \in 0 .. (n + 1)
      PROVE  d[i] = IF i = 0 THEN Origins ELSE Extended(d[i - 1], BaseBy(longer, i))
  <2>1. CASE i = n + 1
    <3>1. i # 0 /\ i - 1 = n /\ n \in 0 .. n
      BY <2>1
    <3> QED
      BY <1>2, <2>1, <3>1
  <2>2. CASE i # n + 1
    <3>1. i \in 0 .. n /\ (i # 0 => i - 1 \in 0 .. n)
      BY <2>2
    <3>2. c[i] = IF i = 0 THEN Origins ELSE Extended(c[i - 1], BaseBy(sh, i))
      BY <3>1 DEF PathsBy
    <3> QED
      BY <1>1, <1>2, <3>1, <3>2
  <2> QED
    BY <2>1, <2>2
<1>5. [i \in 0 .. (n + 1) |-> d[i]] =
      [i \in 0 .. (n + 1) |->
          IF i = 0 THEN Origins ELSE Extended(d[i - 1], BaseBy(longer, i))]
  BY <1>4, Zenon
<1>6. PathsBy(d, longer, n + 1)
  BY <1>3, <1>5 DEF PathsBy
<1> QED
  BY <1>1, <1>2, <1>6 DEF longer

LEMMA TracesExtend ==
    ASSUME NEW n \in Nat, NEW sh \in Seq(Int), Len(sh) = n, NEW sigma \in Int,
           NEW S, NEW ly \in Seq(S), Len(ly) = n, NEW layer \in S,
           NEW t, TracesBy(t, ly, sh, n)
    PROVE  \E d : /\ TracesBy(d, Append(ly, layer), Append(sh, sigma), n + 1)
                  /\ d[n + 1] = ContinuedBy(t[n], Append(ly, layer), Append(sh, sigma), n + 1)
<1> DEFINE longer == Append(sh, sigma)
           deeper == Append(ly, layer)
           new == ContinuedBy(t[n], deeper, longer, n + 1)
           d == [i \in 0 .. (n + 1) |-> IF i = n + 1 THEN new ELSE t[i]]
<1>1. \A i \in 0 .. n : BaseBy(longer, i) = BaseBy(sh, i)
  BY BaseByFacts
<1>2. \A i \in 1 .. n : longer[i] = sh[i] /\ deeper[i] = ly[i]
  BY AppendProperties
<1> HIDE DEF longer, deeper
<1>3. d[n + 1] = new /\ \A i \in 0 .. n : d[i] = t[i]
  OBVIOUS
<1>4. d = [i \in 0 .. (n + 1) |-> d[i]]
  OBVIOUS
<1> HIDE DEF d
<1>5. ASSUME NEW i \in 0 .. (n + 1)
      PROVE  d[i] = IF i = 0 THEN Starts ELSE ContinuedBy(d[i - 1], deeper, longer, i)
  <2>1. CASE i = n + 1
    <3>1. i # 0 /\ i - 1 = n /\ n \in 0 .. n
      BY <2>1
    <3> QED
      BY <1>3, <2>1, <3>1
  <2>2. CASE i # n + 1
    <3>1. i \in 0 .. n /\ (i # 0 => i - 1 \in 0 .. n /\ i \in 1 .. n)
      BY <2>2
    <3>2. t[i] = IF i = 0 THEN Starts ELSE ContinuedBy(t[i - 1], ly, sh, i)
      BY <3>1 DEF TracesBy
    <3>3. ASSUME i # 0
          PROVE  ContinuedBy(t[i - 1], ly, sh, i) = ContinuedBy(d[i - 1], deeper, longer, i)
      <4>1. longer[i] = sh[i] /\ deeper[i] = ly[i] /\ d[i - 1] = t[i - 1]
            /\ BaseBy(longer, i) = BaseBy(sh, i)
        BY <1>1, <1>2, <1>3, <3>1, <3>3
      <4>2. \A v : /\ SourceBy(ly, sh, i, v) = SourceBy(deeper, longer, i, v)
                   /\ TracedBranch(ly, sh, i, v) = TracedBranch(deeper, longer, i, v)
        BY <4>1 DEF SourceBy, TracedBranch
      <4> DEFINE old(v) == IF SourceBy(ly, sh, i, v) \in Nodes
                           THEN Plus(t[i - 1][SourceBy(ly, sh, i, v)], TracedBranch(ly, sh, i, v))
                           ELSE Infinite
                 young(v) == IF SourceBy(deeper, longer, i, v) \in Nodes
                             THEN Plus(d[i - 1][SourceBy(deeper, longer, i, v)],
                                       TracedBranch(deeper, longer, i, v))
                             ELSE Infinite
      <4>3. \A v : old(v) = young(v)
        BY <4>1, <4>2
      <4> HIDE DEF old, young
      <4>4. [v \in Nodes |-> old(v)] = [v \in Nodes |-> young(v)]
        BY <4>3
      <4> QED
        BY <4>4 DEF ContinuedBy, old, young
    <3> QED
      BY <1>3, <3>1, <3>2, <3>3
  <2> QED
    BY <2>1, <2>2
<1>6. [i \in 0 .. (n + 1) |-> d[i]] =
      [i \in 0 .. (n + 1) |->
          IF i = 0 THEN Starts ELSE ContinuedBy(d[i - 1], deeper, longer, i)]
  BY <1>5, Zenon
<1>7. TracesBy(d, deeper, longer, n + 1)
  BY <1>4, <1>6 DEF TracesBy
<1> QED
  BY <1>3, <1>7 DEF longer, deeper

----------------------------------------------------------------------------
(* A step carries the cheapest paths on.                                   *)

Place(base, v) == base + Drift(v) - channel.max_drift

Reaches(p, base, v) == p.state = State(v) /\ p.at = Place(base, v)

\* m holds, but for `extra`, the costs of the cheapest of the paths.
Carries(paths, m, base, extra) ==
    /\ \A p \in paths : p.state \in States /\ p.at \in Around(base) /\ p.cost \in Nat
    /\ \A v \in Nodes : m[v] < Infinite =>
          \E p \in paths : Reaches(p, base, v) /\ p.cost = m[v] + extra
    /\ \A v \in Nodes, p \in paths : Reaches(p, base, v) /\ p.cost < Infinite =>
          m[v] < Infinite /\ m[v] + extra <= p.cost

Bounded(m, extra, k) ==
    \A b : CostBound(b) => \A v \in Nodes : m[v] < Infinite => m[v] + extra <= k * EdgeBound(b)

LEMMA PlaceFacts ==
    ASSUME Given, NEW base \in Int, NEW v \in Nodes
    PROVE  /\ Place(base, v) \in (base - channel.max_drift) .. (base + channel.max_drift)
           /\ Place(base, v) \in Int /\ Drift(v) = Place(base, v) - base + channel.max_drift
           /\ Drift(v) \in Int
<1>1. channel.max_drift \in Nat
  BY ReachFacts
<1>2. Drift(v) \in 0 .. (2 * channel.max_drift)
  BY <1>1, NodeFacts DEF Drifts, DriftWidth
<1> QED
  BY <1>1, <1>2 DEF Place

\* The node of a state at a place inside the window.
LEMMA NodeOfPlace ==
    ASSUME Given, NEW base \in Int, NEW s \in States, NEW q \in Around(base)
    PROVE  /\ q - base + channel.max_drift \in Drifts
           /\ NodeAt(s, q - base + channel.max_drift) \in Nodes
           /\ State(NodeAt(s, q - base + channel.max_drift)) = s
           /\ Place(base, NodeAt(s, q - base + channel.max_drift)) = q
<1> DEFINE d == q - base + channel.max_drift
           v == NodeAt(s, d)
<1>1. channel.max_drift \in Nat /\ q \in Int
      /\ q \in (base - channel.max_drift) .. (base + channel.max_drift)
  BY ReachFacts DEF Around
<1>2. d \in Drifts
  BY <1>1 DEF Drifts, DriftWidth
<1>3. v \in Nodes /\ State(v) = s /\ Drift(v) = d
  <2> HIDE DEF d
  <2> QED
    BY <1>2, NodeAtFacts
<1>4. Place(base, v) = base + d - channel.max_drift
  <2> HIDE DEF v, d
  <2> QED
    BY <1>3 DEF Place
<1>5. base + d - channel.max_drift = q
  BY <1>1
<1> HIDE DEF v
<1> QED
  BY <1>2, <1>3, <1>4, <1>5 DEF v

\* Re-anchoring moves a node, not its place.
LEMMA SamePlace ==
    ASSUME MetricInv, NEW u, NEW w, Moved(u, w)
    PROVE  Place(read_base, w) = Place(Base, u) /\ State(w) = State(u)
<1>1. Given /\ u \in Nodes /\ w \in Nodes /\ Typed
  BY DEF Moved, MetricInv, Typed
<1>2. /\ read_base \in Int /\ PickShift \in Int /\ channel.max_drift \in Int
      /\ Drift(u) \in Int
  <2>1. read_base \in Nat /\ channel.max_drift \in Nat
    BY <1>1, ReachFacts DEF Typed
  <2>2. PickShift \in {-1, 0, 1}
    BY <1>1, ShiftFacts
  <2>3. Drift(u) \in Drifts /\ DriftWidth \in Nat
    BY <1>1, NodeFacts, WidthFacts
  <2> QED
    BY <2>1, <2>2, <2>3 DEF Drifts
<1>3. Drift(w) = Drift(u) + PickShift /\ State(w) = State(u)
  BY DEF Moved
<1> DEFINE d == Drift(u)
           sigma == PickShift
<1>4. Place(read_base, w) = read_base + (d + sigma) - channel.max_drift
  BY <1>3 DEF Place
<1>5. Place(Base, u) = read_base + sigma + d - channel.max_drift
  BY DEF Place, Base
<1>6. d \in Int /\ sigma \in Int
  BY <1>2
<1> HIDE DEF d, sigma
<1> QED
  BY <1>2, <1>3, <1>4, <1>5, <1>6

\* How the path kept at v came from w, and what it then costs.
Onto(v, u, w, e, extra) ==
    /\ u \in Nodes /\ w \in Nodes /\ e[1] = State(u) /\ e[2] = Drift(u) /\ e[3] \in {0, 1}
    /\ w = NodeAt(e[1], e[2] + PickShift)
    /\ next_state[<<State(u), e[3]>>] = State(v)
    /\ State(w) = State(u) /\ Place(read_base, w) = Place(Base, u)
    /\ metric[w] < Infinite
    /\ Place(Base, u) \in Around(Base) /\ Place(Base + N, v) \in Around(Base + N)
    /\ Plus(metric[w] + extra, BranchCrossed(u, v, e, Base)) = Arrivals[v].cost + extra
    /\ BranchCrossed(u, v, e, Base) = Crossed(e[1], e[3], Place(Base, u), Place(Base + N, v))
    /\ Arrivals[v].cost + extra < Infinite

LEMMA OneMoreEdge ==
    ASSUME Given, NEW b, CostBound(b), NEW k \in Nat, k < MaxSteps
    PROVE  /\ k * EdgeBound(b) \in Nat /\ EdgeBound(b) \in Nat
           /\ (k + 1) * EdgeBound(b) = k * EdgeBound(b) + EdgeBound(b)
           /\ (k + 1) * EdgeBound(b) < Infinite
<1> DEFINE eb == EdgeBound(b)
           w == 2 * (N + channel.max_drift)
           most == MaxSteps
<1>1. b \in Nat /\ most \in Nat /\ k + 1 <= most /\ w \in Nat /\ eb = w * b
      /\ most * w * b < Infinite
  <2>1. b \in Nat /\ most * w * b < Infinite /\ eb = w * b
    BY DEF CostBound, EdgeBound
  <2>2. most \in Nat /\ N \in Nat /\ channel.max_drift \in Nat
    BY ReachFacts, MetricAssumption
  <2>3. w \in Nat
    BY <2>2
  <2>4. k + 1 <= most
    BY <2>2
  <2> QED
    BY <2>1, <2>2, <2>3, <2>4
<1> HIDE DEF eb, w, most
<1>2. eb \in Nat /\ most * eb = most * w * b
  <2>1. most * (w * b) = most * w * b
    BY <1>1, SMT
  <2> QED
    BY <1>1, <2>1
<1>3. (k + 1) * eb <= most * eb /\ (k + 1) * eb \in Nat /\ most * eb \in Nat
  BY <1>1, <1>2, MoreTimes
<1>4. (k + 1) * eb = k * eb + eb /\ k * eb \in Nat
  BY <1>2
<1>5. (k + 1) * eb < Infinite
  BY <1>1, <1>2, <1>3, InfiniteIsCost
<1> QED
  BY <1>2, <1>4, <1>5 DEF eb

LEMMA ArrivesOnto ==
    ASSUME MetricInv, NEW v \in Nodes, NEW extra \in Nat, NEW k \in Nat, k < MaxSteps,
           Bounded(metric, extra, k), Arrivals[v].cost < Infinite
    PROVE  /\ \E u, w : Onto(v, u, w, Arrivals[v].from, extra)
           /\ \A b : CostBound(b) => Arrivals[v].cost + extra <= (k + 1) * EdgeBound(b)
<1> DEFINE e == Arrivals[v].from
           a == Arrivals[v].cost
<1>1. Given /\ Base \in Int /\ Anchor \in Metrics /\ N \in Nat /\ Base + N \in Int
  BY BaseIsNat, AnchorFacts, ReachFacts DEF MetricInv, Typed
<1>2. PICK u : ComesBy(v, u, e)
  BY ArrivalComes
<1>3. /\ Leads(Anchor, u, v, e)
      /\ Anchor[u] \in Nat /\ Branch(u, v, e, Base) \in Nat
      /\ Anchor[u] < Infinite /\ Branch(u, v, e, Base) < Infinite
      /\ a = Anchor[u] + Branch(u, v, e, Base)
  BY <1>2 DEF ComesBy
<1>4. /\ u \in Nodes /\ e[1] = State(u) /\ e[2] = Drift(u) /\ e[3] \in {0, 1}
      /\ next_state[<<State(u), e[3]>>] = State(v)
  BY <1>3 DEF Leads
<1>5. PICK w : Moved(u, w)
  BY <1>3, <1>4, AnchorIs
<1>6. /\ w \in Nodes /\ w = NodeAt(e[1], e[2] + PickShift) /\ metric[w] = Anchor[u]
      /\ State(w) = State(u) /\ Place(read_base, w) = Place(Base, u)
  BY <1>4, <1>5, SamePlace DEF Moved
<1>7. Place(Base, u) \in 0 .. Len(received)
  BY <1>3, <1>4, AnchorFacts DEF Place
<1>8. Place(Base, u) \in Around(Base)
  BY <1>1, <1>4, <1>7, PlaceFacts DEF Around
<1>9. Place(Base + N, v) \in 0 .. Len(received)
  BY ArrivesInWindow DEF Place
<1>10. Place(Base + N, v) \in Around(Base + N)
  BY <1>1, <1>9, PlaceFacts DEF Around
<1>11. BranchCrossed(u, v, e, Base) = Crossed(e[1], e[3], Place(Base, u), Place(Base + N, v))
  BY DEF BranchCrossed, Place
<1>12. ASSUME NEW b, CostBound(b)
       PROVE  /\ BranchCrossed(u, v, e, Base) = Branch(u, v, e, Base)
              /\ a + extra <= (k + 1) * EdgeBound(b) /\ a + extra < Infinite
  <2>1. AlignedAs(Branch(u, v, e, Base), BranchCrossed(u, v, e, Base), EdgeBound(b))
    BY <1>1, <1>3, <1>7, <1>12, BranchIsCrossed DEF Place
  <2>2. /\ BranchCrossed(u, v, e, Base) = Branch(u, v, e, Base)
        /\ Branch(u, v, e, Base) <= EdgeBound(b)
    BY <1>3, <2>1 DEF AlignedAs
  <2>3. metric[w] + extra <= k * EdgeBound(b)
    BY <1>3, <1>6, <1>12 DEF Bounded
  <2>4. /\ k * EdgeBound(b) \in Nat /\ EdgeBound(b) \in Nat
        /\ (k + 1) * EdgeBound(b) = k * EdgeBound(b) + EdgeBound(b)
        /\ (k + 1) * EdgeBound(b) < Infinite
    BY <1>1, <1>12, OneMoreEdge
  <2> DEFINE kept == metric[w]
             branch == Branch(u, v, e, Base)
             most == k * EdgeBound(b)
             one == EdgeBound(b)
             all == (k + 1) * EdgeBound(b)
  <2>5. /\ kept \in Nat /\ branch \in Nat /\ most \in Nat /\ one \in Nat
        /\ a = kept + branch /\ kept + extra <= most /\ branch <= one /\ all = most + one
        /\ all < Infinite
    BY <1>3, <1>6, <2>2, <2>3, <2>4
  <2> HIDE DEF kept, branch, most, one, all, a
  <2>6. a + extra <= all /\ a + extra < Infinite
    BY <2>5, InfiniteIsCost
  <2> QED
    BY <2>2, <2>6 DEF all
<1>13. PICK b : CostBound(b)
  BY <1>1, CostBoundExists
<1>14. Plus(metric[w] + extra, BranchCrossed(u, v, e, Base)) = a + extra
  <2> DEFINE kept == metric[w]
             branch == Branch(u, v, e, Base)
  <2>1. /\ kept \in Nat /\ branch \in Nat /\ a = kept + branch /\ a + extra < Infinite
        /\ BranchCrossed(u, v, e, Base) = branch
    BY <1>3, <1>6, <1>12, <1>13
  <2> HIDE DEF kept, branch, a
  <2>2. Plus(kept + extra, branch) = kept + extra + branch
    BY <2>1, InfiniteIsCost DEF Plus
  <2> QED
    BY <2>1, <2>2 DEF kept
<1>15. metric[w] < Infinite
  BY <1>3, <1>6
<1>16. Onto(v, u, w, e, extra)
  BY <1>4, <1>6, <1>8, <1>10, <1>11, <1>12, <1>13, <1>14, <1>15 DEF Onto
<1> QED
  BY <1>12, <1>16

\* One edge after one path.
Move(u, bit, q) ==
    [state |-> next_state[<<u.state, bit>>], at |-> q,
     cost |-> Plus(u.cost, Crossed(u.state, bit, u.at, q))]

IsMove(o, paths, base) ==
    \E u \in paths, bit \in {0, 1}, q \in Around(base + N) :
        u.at \in Around(base) /\ o = Move(u, bit, q)

LEMMA ExtendedIs ==
    ASSUME NEW paths, NEW base, NEW o
    PROVE  o \in Extended(paths, base) <=>
              /\ IsMove(o, paths, base)
              /\ \A p : IsMove(p, paths, base) /\ p.state = o.state /\ p.at = o.at
                            => o.cost <= p.cost
<1> DEFINE moves == {Move(u, bit, q) : u \in {p \in paths : p.at \in Around(base)},
                                       bit \in {0, 1}, q \in Around(base + N)}
<1>1. \A p : p \in moves <=> IsMove(p, paths, base)
  BY DEF IsMove
<1>2. Extended(paths, base) =
        {m \in moves : \A p \in moves : p.state = m.state /\ p.at = m.at => m.cost <= p.cost}
  BY DEF Extended, Move
<1> HIDE DEF moves
<1> QED
  BY <1>1, <1>2

LEMMA MoveFacts ==
    ASSUME Given, NEW paths, NEW base \in Int, NEW o, IsMove(o, paths, base),
           \A p \in paths : p.state \in States /\ p.cost \in Nat
    PROVE  o.state \in States /\ o.at \in Around(base + N) /\ o.cost \in Nat
<1>1. PICK u \in paths, bit \in {0, 1}, q \in Around(base + N) :
         u.at \in Around(base) /\ o = Move(u, bit, q)
  BY DEF IsMove
<1>2. u.state \in States /\ u.cost \in Nat /\ u.at \in Int /\ q \in Int
  BY <1>1 DEF Around
<1>3. Crossed(u.state, bit, u.at, q) \in Nat
  BY <1>2, CrossedFacts
<1>4. /\ o.state = next_state[<<u.state, bit>>] /\ o.at = q
      /\ o.cost = Plus(u.cost, Crossed(u.state, bit, u.at, q))
  BY <1>1 DEF Move
<1>5. o.state \in States
  BY <1>2, <1>4, MetricAssumption DEF Edges, States
<1> QED
  BY <1>2, <1>3, <1>4, <1>5, PlusFacts

\* No path of the reference is cheaper than the one a node keeps.
LEMMA NoMoveIsCheaper ==
    ASSUME MetricInv, NEW extra \in Nat, NEW paths,
           Carries(paths, metric, read_base, extra),
           NEW v \in Nodes, NEW o, IsMove(o, paths, Base), Reaches(o, Base + N, v),
           o.cost < Infinite
    PROVE  Arrivals[v].cost < Infinite /\ Arrivals[v].cost + extra <= o.cost
<1>1. Given /\ Base \in Int /\ Anchor \in Metrics /\ N \in Nat /\ Base + N \in Int
      /\ read_base \in Int
  BY BaseIsNat, AnchorFacts, ReachFacts DEF MetricInv, Typed
<1>2. PICK p \in paths, bit \in {0, 1}, q \in Around(Base + N) :
         p.at \in Around(Base) /\ o = Move(p, bit, q)
  BY DEF IsMove
<1>3. p.state \in States /\ p.at \in Around(read_base) /\ p.cost \in Nat
      /\ p.at \in Int /\ q \in Int
  BY DEF Carries, Around
<1> DEFINE x == NodeAt(p.state, p.at - Base + channel.max_drift)
           e == <<p.state, p.at - Base + channel.max_drift, bit>>
           c == Crossed(p.state, bit, p.at, q)
<1>4. /\ p.at - Base + channel.max_drift \in Drifts
      /\ x \in Nodes /\ State(x) = p.state /\ Place(Base, x) = p.at
  BY <1>1, <1>2, <1>3, NodeOfPlace
<1>5. q = Place(Base + N, v) /\ next_state[<<p.state, bit>>] = State(v)
      /\ o.cost = Plus(p.cost, c)
  BY <1>2 DEF Move, Reaches
<1>6. c \in Nat /\ (c < Infinite => p.at <= q)
  BY <1>1, <1>3, CrossedFacts
<1>7. p.cost < Infinite /\ c < Infinite /\ o.cost = p.cost + c
  <2> DEFINE paid == p.cost
             all == o.cost
  <2>1. paid \in Nat /\ c \in Nat /\ all = Plus(paid, c) /\ all < Infinite
    BY <1>3, <1>5, <1>6
  <2> HIDE DEF c, paid, all
  <2>2. paid < Infinite /\ c < Infinite /\ all = paid + c
    BY <2>1, PlusFacts
  <2> QED
    BY <2>2 DEF paid, all
<1>8. Drift(x) = p.at - Base + channel.max_drift /\ e[1] = State(x) /\ e[2] = Drift(x)
      /\ e[3] = bit /\ e = <<e[1], e[2], e[3]>>
  <2>1. Drift(x) = p.at - Base + channel.max_drift
    <3> HIDE DEF x
    <3> QED
      BY <1>1, <1>4, PlaceFacts
  <2> HIDE DEF x
  <2> QED
    BY <1>4, <2>1
<1> HIDE DEF x
<1>9. PICK w : Moved(x, w)
  <2>1. Drift(x) + PickShift \in Drifts
    <3>1. p.at - read_base + channel.max_drift \in Drifts
      BY <1>1, <1>3, NodeOfPlace
    <3>2. PickShift \in Int /\ Base = read_base + PickShift /\ channel.max_drift \in Int
      <4>1. Typed
        BY DEF MetricInv
      <4>2. PickShift \in {-1, 0, 1}
        BY <4>1, ShiftFacts
      <4>3. channel.max_drift \in Nat
        BY <1>1, ReachFacts
      <4> QED
        BY <4>2, <4>3 DEF Base
    <3>3. Drift(x) + PickShift = p.at - read_base + channel.max_drift
      BY <1>1, <1>3, <1>8, <3>2
    <3> QED
      BY <3>1, <3>3
  <2> QED
    BY <1>4, <2>1, AnchorIs
<1>10. w \in Nodes /\ metric[w] = Anchor[x] /\ Reaches(p, read_base, w)
  BY <1>4, <1>9, SamePlace DEF Moved, Reaches
<1>11. metric[w] < Infinite /\ metric[w] + extra <= p.cost /\ metric[w] \in Nat
  BY <1>7, <1>10, CostRange DEF Carries, MetricInv, Typed
<1>12. Leads(Anchor, x, v, e)
  <2>1. N + Drift(v) - Drift(x) >= 0
    <3>1. Drift(v) = q - (Base + N) + channel.max_drift
      BY <1>1, <1>5, PlaceFacts
    <3>2. channel.max_drift \in Int /\ p.at <= q
      BY <1>1, <1>6, <1>7, ReachFacts
    <3> QED
      BY <1>1, <1>3, <1>8, <3>1, <3>2
  <2> HIDE DEF e
  <2> QED
    BY <1>4, <1>5, <1>8, <1>10, <1>11, <2>1 DEF Leads
<1>13. Arrivals[v].cost \in 0 .. Infinite
       /\ Arrivals[v].cost <= Plus(Anchor[x], Branch(x, v, e, Base))
  BY <1>12, ArrivalComes
<1>14. Branch(x, v, e, Base) = c
  <2>1. PICK b : CostBound(b)
    BY <1>1, CostBoundExists
  <2>2. Base + Drift(x) - channel.max_drift \in 0 .. Len(received)
    BY <1>2, <1>4 DEF Place, Around
  <2>3. AlignedAs(Branch(x, v, e, Base), BranchCrossed(x, v, e, Base), EdgeBound(b))
    BY <1>1, <1>12, <2>1, <2>2, BranchIsCrossed
  <2>4. BranchCrossed(x, v, e, Base) = c
    BY <1>4, <1>5, <1>8 DEF BranchCrossed, Place
  <2> QED
    BY <1>7, <2>3, <2>4 DEF AlignedAs
<1> DEFINE a == Arrivals[v].cost
           kept == metric[w]
           paid == p.cost
           all == o.cost
<1>15. a \in 0 .. Infinite /\ a <= Plus(kept, c) /\ kept \in Nat /\ kept + extra <= paid
       /\ paid \in Nat /\ c \in Nat /\ all = paid + c /\ all < Infinite
  BY <1>3, <1>6, <1>7, <1>10, <1>11, <1>13, <1>14
<1> HIDE DEF a, kept, paid, all, c
<1>16. kept < Infinite /\ c < Infinite /\ kept + c + extra <= all
  BY <1>15, InfiniteIsCost
<1>17. a <= kept + c
  BY <1>15, <1>16, PlusFacts
<1>18. a < Infinite /\ a + extra <= all
  BY <1>15, <1>16, <1>17, InfiniteIsCost
<1> QED
  BY <1>18 DEF a, all

----------------------------------------------------------------------------
(* What a step leaves as it was.                                           *)

Fixed == channel' = channel /\ received' = received

LEMMA PathsStay ==
    ASSUME Fixed, NEW CONSTANT c
    PROVE  PathsBy(c, shift, steps)' <=> PathsBy(c, shift', steps')
<1>1. \A p, base : Extended(p, base)' = Extended(p, base)
  BY SMT DEF Fixed, Extended, Around, Crossed, AlignmentCost
<1> QED
  BY <1>1, SMT DEF PathsBy

LEMMA TracesStay ==
    ASSUME Fixed, NEW CONSTANT t
    PROVE  TracesBy(t, layers, shift, steps)' <=> TracesBy(t, layers', shift', steps')
<1>1. \A s, bit, from, to : Crossed(s, bit, from, to)' = Crossed(s, bit, from, to)
  BY SMT DEF Fixed, Crossed, AlignmentCost
<1>2. /\ Nodes' = Nodes
      /\ \A v : Drift(v)' = Drift(v)
      /\ \A s, d : NodeAt(s, d)' = NodeAt(s, d)
  BY DEF Fixed, Nodes, DriftWidth, Drift, NodeAt
<1> QED
  BY <1>1, <1>2, SMT DEF Fixed, TracesBy, Starts, ContinuedBy, SourceBy, TracedBranch

LEMMA CarriesStays ==
    ASSUME Fixed, NEW CONSTANT paths
    PROVE  Carries(paths, metric, read_base, total)' <=>
           Carries(paths, metric', read_base', total')
  BY SMT DEF Fixed, Carries, Reaches, Place, Around, Nodes, DriftWidth, State, Drift

LEMMA BoundStays ==
    ASSUME Fixed
    PROVE  Bounded(metric, total, steps)' <=> Bounded(metric', total', steps')
<1>1. /\ \A b : CostBound(b)' <=> CostBound(b)
      /\ \A b : EdgeBound(b)' = EdgeBound(b)
  BY DEF Fixed, CostBound, AllCosts, EdgeBound
<1>2. Nodes' = Nodes
  BY DEF Fixed, Nodes, DriftWidth
<1> QED
  BY <1>1, <1>2, SMT DEF Bounded

LEMMA PointersStay == ASSUME Fixed PROVE [Nodes -> Pointer]' = [Nodes -> Pointer]
  BY DEF Fixed, Nodes, DriftWidth, Pointer, Drifts

----------------------------------------------------------------------------
(* The costs of the nodes after a step are those of the cheapest paths.    *)

ArrivalCosts == [v \in Nodes |-> Arrivals[v].cost]

LEMMA ExtendedCarries ==
    ASSUME MetricInv, NEW extra \in Nat, NEW k \in Nat, k < MaxSteps, NEW paths,
           Carries(paths, metric, read_base, extra), Bounded(metric, extra, k)
    PROVE  /\ Carries(Extended(paths, Base), ArrivalCosts, Base + N, extra)
           /\ Bounded(ArrivalCosts, extra, k + 1)
<1>1. Given /\ Base \in Int /\ N \in Nat
  BY BaseIsNat, ReachFacts DEF MetricInv, Typed
<1>2. \A p \in paths : p.state \in States /\ p.cost \in Nat
  BY DEF Carries
<1>3. \A v \in Nodes : ArrivalCosts[v] = Arrivals[v].cost
  BY DEF ArrivalCosts
<1>4. \A o \in Extended(paths, Base) :
         o.state \in States /\ o.at \in Around(Base + N) /\ o.cost \in Nat
  BY <1>1, <1>2, ExtendedIs, MoveFacts
<1>5. ASSUME NEW v \in Nodes, NEW o, IsMove(o, paths, Base), Reaches(o, Base + N, v),
             o.cost < Infinite
      PROVE  Arrivals[v].cost < Infinite /\ Arrivals[v].cost + extra <= o.cost
  BY <1>5, NoMoveIsCheaper
<1>6. ASSUME NEW v \in Nodes, Arrivals[v].cost < Infinite
      PROVE  \E o \in Extended(paths, Base) :
                Reaches(o, Base + N, v) /\ o.cost = Arrivals[v].cost + extra
  <2> DEFINE e == Arrivals[v].from
             a == Arrivals[v].cost
  <2>1. PICK u, w : Onto(v, u, w, e, extra)
    BY <1>6, ArrivesOnto
  <2>2. /\ u \in Nodes /\ w \in Nodes /\ e[1] = State(u) /\ e[3] \in {0, 1}
        /\ next_state[<<State(u), e[3]>>] = State(v)
        /\ State(w) = State(u) /\ Place(read_base, w) = Place(Base, u)
        /\ metric[w] < Infinite
        /\ Place(Base, u) \in Around(Base) /\ Place(Base + N, v) \in Around(Base + N)
        /\ Plus(metric[w] + extra, BranchCrossed(u, v, e, Base)) = a + extra
        /\ BranchCrossed(u, v, e, Base) =
              Crossed(e[1], e[3], Place(Base, u), Place(Base + N, v))
        /\ a + extra < Infinite
    BY <2>1 DEF Onto
  <2>3. PICK p \in paths : Reaches(p, read_base, w) /\ p.cost = metric[w] + extra
    BY <2>2 DEF Carries
  <2> DEFINE q == Place(Base + N, v)
             o == Move(p, e[3], q)
  <2>4. p.state = State(u) /\ p.at = Place(Base, u)
    BY <2>2, <2>3 DEF Reaches
  <2>5. IsMove(o, paths, Base)
    BY <2>2, <2>4 DEF IsMove
  <2>6. o.state = State(v) /\ o.at = q /\ o.cost = a + extra
    <3>1. o.cost = Plus(p.cost, Crossed(p.state, e[3], p.at, q))
          /\ o.state = next_state[<<p.state, e[3]>>] /\ o.at = q
      BY DEF Move
    <3> HIDE DEF o, q, a, e
    <3> QED
      BY <2>2, <2>3, <2>4, <3>1 DEF q
  <2> HIDE DEF o, a
  <2>7. ASSUME NEW r, IsMove(r, paths, Base), r.state = o.state, r.at = o.at
        PROVE  o.cost <= r.cost
    <3>1. r.cost \in Nat
      BY <1>1, <1>2, <2>7, MoveFacts
    <3>2. r.cost < Infinite => a + extra <= r.cost
      BY <1>5, <2>6, <2>7 DEF Reaches, a
    <3> DEFINE rc == r.cost
               all == a + extra
    <3>3. rc \in Nat /\ (rc < Infinite => all <= rc) /\ all < Infinite /\ all \in Int
      <4>1. a \in Int
        BY ArrivalsIs DEF a
      <4> QED
        BY <2>2, <3>1, <3>2, <4>1
    <3> HIDE DEF rc, all
    <3>4. all <= rc
      BY <3>3, InfiniteIsCost
    <3> QED
      BY <2>6, <3>4 DEF rc, all
  <2>8. o \in Extended(paths, Base)
    BY <2>5, <2>7, ExtendedIs
  <2> QED
    BY <2>6, <2>8 DEF Reaches, a
<1>7. Carries(Extended(paths, Base), ArrivalCosts, Base + N, extra)
  <2>1. \A o \in Extended(paths, Base) : IsMove(o, paths, Base)
    BY ExtendedIs
  <2> QED
    BY <1>3, <1>4, <1>5, <1>6, <2>1 DEF Carries
<1>8. Bounded(ArrivalCosts, extra, k + 1)
  BY <1>3, ArrivesOnto DEF Bounded
<1> QED
  BY <1>7, <1>8

\* Normalisation moves a cost from the nodes to what it has subtracted.
Normalises(m, a, inc) ==
    /\ inc \in Nat
    /\ \A v \in Nodes : /\ a[v] \in 0 .. Infinite
                        /\ m[v] < Infinite <=> a[v] < Infinite
                        /\ a[v] < Infinite => m[v] = a[v] - inc

LEMMA NormalisedCarries ==
    ASSUME Given, NEW a, NEW m, NEW inc, Normalises(m, a, inc), NEW extra \in Nat,
           NEW paths, NEW base, NEW k, Carries(paths, a, base, extra), Bounded(a, extra, k)
    PROVE  Carries(paths, m, base, extra + inc) /\ Bounded(m, extra + inc, k)
<1>1. ASSUME NEW v \in Nodes, m[v] < Infinite
      PROVE  a[v] < Infinite /\ m[v] + (extra + inc) = a[v] + extra
  <2> DEFINE before == a[v]
             after == m[v]
  <2>1. inc \in Nat /\ before \in Int /\ before < Infinite /\ after = before - inc
    BY <1>1 DEF Normalises
  <2> HIDE DEF before, after
  <2>2. after + (extra + inc) = before + extra
    BY <2>1
  <2> QED
    BY <2>1, <2>2 DEF before, after
<1>2. Carries(paths, m, base, extra + inc)
  <2>1. \A p \in paths : p.state \in States /\ p.at \in Around(base) /\ p.cost \in Nat
    BY DEF Carries
  <2>2. ASSUME NEW v \in Nodes, m[v] < Infinite
        PROVE  \E p \in paths : Reaches(p, base, v) /\ p.cost = m[v] + (extra + inc)
    BY <1>1, <2>2 DEF Carries
  <2>3. ASSUME NEW v \in Nodes, NEW p \in paths, Reaches(p, base, v), p.cost < Infinite
        PROVE  m[v] < Infinite /\ m[v] + (extra + inc) <= p.cost
    <3>1. a[v] < Infinite /\ a[v] + extra <= p.cost
      BY <2>3 DEF Carries
    <3>2. m[v] < Infinite
      BY <3>1 DEF Normalises
    <3> QED
      BY <1>1, <3>1, <3>2
  <2> QED
    BY <2>1, <2>2, <2>3 DEF Carries
<1>3. Bounded(m, extra + inc, k)
  BY <1>1 DEF Bounded
<1> QED
  BY <1>2, <1>3

----------------------------------------------------------------------------
(* The inductive invariant of the survivors.                               *)

\* c are the cheapest paths of the reference, t the costs traced back.
Walked(c, t) ==
    /\ PathsBy(c, shift, steps)
    /\ TracesBy(t, layers, shift, steps)
    /\ Carries(c[steps], metric, read_base, total)
    /\ \A v \in Nodes : metric[v] < Infinite => t[steps][v] = metric[v] + total

Recorded ==
    /\ steps \in 0 .. MaxSteps
    /\ shift \in Seq(Int) /\ Len(shift) = steps
    /\ layers \in Seq([Nodes -> Pointer]) /\ Len(layers) = steps
    /\ total \in Nat
    /\ read_base = BaseBy(shift, steps) + N

SurvivorInv ==
    /\ MetricInv
    /\ Recorded
    /\ Bounded(metric, total, steps)
    /\ \E c, t : Walked(c, t)

LEMMA SurvivorInvInit == ASSUME Init PROVE SurvivorInv
<1>1. /\ Given /\ read_base = 0 /\ steps = 0 /\ total = 0 /\ shift = << >> /\ layers = << >>
      /\ metric = [v \in Nodes |-> IF Drift(v) = channel.max_drift THEN 0 ELSE Infinite]
  BY DEF Init, Given
<1>2. channel.max_drift \in Nat /\ Len(received) \in Nat /\ N \in Nat
  BY <1>1, ReachFacts
<1>3. MetricInv
  BY MetricInvInit
<1>4. Recorded
  <2>1. /\ shift \in Seq(Int) /\ Len(shift) = 0
        /\ layers \in Seq([Nodes -> Pointer]) /\ Len(layers) = 0
    BY <1>1
  <2>2. BaseBy(shift, 0) + N = 0
    <3> DEFINE sh == shift
    <3>1. sh \in Seq(Int) /\ Len(sh) = 0
      BY <2>1
    <3> HIDE DEF sh
    <3>2. ASSUME NEW n \in Nat, n = 0, NEW sigma \in Int PROVE BaseBy(sh, n) + N = 0
      BY <3>1, <3>2, BaseByFacts
    <3>3. BaseBy(sh, 0) + N = 0
      BY <3>2
    <3> QED
      BY <3>3 DEF sh
  <2>3. 0 \in 0 .. MaxSteps
    BY MetricAssumption
  <2> QED
    BY <1>1, <2>1, <2>2, <2>3 DEF Recorded
<1>5. \A v \in Nodes : metric[v] < Infinite => metric[v] = 0 /\ Drift(v) = channel.max_drift
  BY <1>1, InfiniteIsCost
<1>6. Bounded(metric, total, steps)
  <2> SUFFICES ASSUME NEW b, CostBound(b), NEW v \in Nodes, metric[v] < Infinite
               PROVE  metric[v] + total <= steps * EdgeBound(b)
    BY DEF Bounded
  <2>1. EdgeBound(b) \in Nat
    <3>1. b \in Nat /\ 0 \in 0 .. Reach
      BY <1>1, ReachFacts DEF CostBound
    <3> QED
      BY <1>1, <3>1, EdgeBoundFacts
  <2>2. 0 * EdgeBound(b) = 0
    BY <2>1
  <2> QED
    BY <1>1, <1>5, <2>2
<1>7. \E c, t : Walked(c, t)
  <2> DEFINE c == [i \in 0 .. 0 |-> Origins]
             t == [i \in 0 .. 0 |-> Starts]
  <2>1. 0 .. 0 = {0}
    OBVIOUS
  <2>2. PathsBy(c, shift, 0)
    <3>1. \A i \in 0 .. 0 :
            Origins = IF i = 0 THEN Origins ELSE Extended(c[i - 1], BaseBy(shift, i))
      BY <2>1
    <3>2. [i \in 0 .. 0 |-> Origins] =
          [i \in 0 .. 0 |-> IF i = 0 THEN Origins ELSE Extended(c[i - 1], BaseBy(shift, i))]
      <4> HIDE DEF c
      <4> QED
        BY <3>1, Zenon
    <3> QED
      BY <3>2 DEF PathsBy
  <2>3. TracesBy(t, layers, shift, 0)
    <3>1. \A i \in 0 .. 0 :
            Starts = IF i = 0 THEN Starts ELSE ContinuedBy(t[i - 1], layers, shift, i)
      BY <2>1
    <3>2. [i \in 0 .. 0 |-> Starts] =
          [i \in 0 .. 0 |-> IF i = 0 THEN Starts
                            ELSE ContinuedBy(t[i - 1], layers, shift, i)]
      <4> HIDE DEF t
      <4> QED
        BY <3>1, Zenon
    <3> QED
      BY <3>2 DEF TracesBy
  <2>4. c[0] = Origins /\ t[0] = Starts
    OBVIOUS
  <2>5. Carries(Origins, metric, 0, 0)
    <3>1. \A p \in Origins : p.state \in States /\ p.at = 0 /\ p.cost = 0
      BY DEF Origins, States
    <3>2. 0 \in Around(0)
      BY <1>2 DEF Around
    <3>3. ASSUME NEW v \in Nodes
          PROVE  Place(0, v) = 0 <=> Drift(v) = channel.max_drift
      <4> DEFINE place == Place(0, v)
                 drift == Drift(v)
      <4>1. place \in Int /\ drift \in Int /\ drift = place - 0 + channel.max_drift
        BY <1>1, PlaceFacts
      <4> HIDE DEF place, drift
      <4>2. place = 0 <=> drift = channel.max_drift
        BY <1>2, <4>1
      <4> QED
        BY <4>2 DEF place, drift
    <3>4. ASSUME NEW v \in Nodes, metric[v] < Infinite
          PROVE  \E p \in Origins : Reaches(p, 0, v) /\ p.cost = metric[v] + 0
      <4> DEFINE p == [state |-> State(v), at |-> 0, cost |-> 0]
      <4>1. State(v) \in States
        BY <1>1, NodeFacts
      <4>2. p \in Origins
        BY <4>1 DEF Origins, States
      <4>3. p.state = State(v) /\ p.at = 0 /\ p.cost = 0
        OBVIOUS
      <4> HIDE DEF p
      <4>4. Place(0, v) = 0 /\ metric[v] = 0
        BY <1>5, <3>3, <3>4
      <4> QED
        BY <4>2, <4>3, <4>4 DEF Reaches
    <3>5. ASSUME NEW v \in Nodes, NEW p \in Origins, Reaches(p, 0, v)
          PROVE  metric[v] < Infinite /\ metric[v] + 0 <= p.cost
      <4>1. Drift(v) = channel.max_drift
        BY <3>1, <3>3, <3>5 DEF Reaches
      <4>2. metric[v] = 0
        BY <1>1, <4>1
      <4> QED
        BY <3>1, <4>2, InfiniteIsCost
    <3> QED
      BY <3>1, <3>2, <3>4, <3>5 DEF Carries
  <2>6. \A v \in Nodes : metric[v] < Infinite => Starts[v] = metric[v] + 0
    BY <1>5 DEF Starts
  <2> HIDE DEF c, t
  <2>7. Walked(c, t)
    BY <1>1, <2>2, <2>3, <2>4, <2>5, <2>6 DEF Walked
  <2> QED
    BY <2>7
<1> QED
  BY <1>3, <1>4, <1>6, <1>7 DEF SurvivorInv

LEMMA StutterKeepsSurvivors ==
    ASSUME SurvivorInv, UNCHANGED vars
    PROVE  Recorded' /\ Bounded(metric, total, steps)' /\ (\E c, t : Walked(c, t))'
<1>1. /\ Fixed
      /\ metric' = metric /\ total' = total /\ steps' = steps /\ shift' = shift
      /\ layers' = layers /\ read_base' = read_base
  BY DEF vars, Fixed
<1>2. Recorded'
  <2>1. [Nodes -> Pointer]' = [Nodes -> Pointer]
    BY <1>1, PointersStay
  <2> QED
    BY <1>1, <2>1 DEF Recorded, SurvivorInv, BaseBy
<1>3. Bounded(metric, total, steps)'
  BY <1>1, BoundStays DEF SurvivorInv
<1>4. PICK c, t : Walked(c, t)
  BY DEF SurvivorInv
<1>5. Nodes' = Nodes
  BY <1>1 DEF Fixed, Nodes, DriftWidth
<1>6. Walked(c, t)'
  <2>1. PathsBy(c, shift, steps)'
    BY <1>1, <1>4, PathsStay DEF Walked
  <2>2. TracesBy(t, layers, shift, steps)'
    BY <1>1, <1>4, TracesStay DEF Walked
  <2>3. Carries(c[steps], metric, read_base, total)'
    <3> DEFINE paths == c[steps]
    <3>1. paths' = paths
      BY <1>1
    <3>2. Carries(paths, metric, read_base, total)
      BY <1>4 DEF Walked
    <3> QED
      BY <1>1, <1>4 DEF Walked, Fixed, Carries, Reaches, Place, Around, Nodes, DriftWidth,
                        State, Drift
  <2> QED
    BY <1>1, <1>4, <1>5, <2>1, <2>2, <2>3 DEF Walked
<1> QED
  BY <1>2, <1>3, <1>6

\* What the backpointers of a step lead back along costs what the nodes do.
LEMMA StepIsTraced ==
    ASSUME MetricInv, NEW extra \in Nat, NEW k \in Nat, k < MaxSteps,
           Bounded(metric, extra, k),
           NEW sh \in Seq(Int), Len(sh) = k, read_base = BaseBy(sh, k) + N,
           NEW ly \in Seq([Nodes -> Pointer]), Len(ly) = k,
           NEW layer, layer = [v \in Nodes |-> Arrivals[v].from],
           NEW costs, \A v \in Nodes : metric[v] < Infinite => costs[v] = metric[v] + extra,
           NEW v \in Nodes, Arrivals[v].cost < Infinite
    PROVE  ContinuedBy(costs, Append(ly, layer), Append(sh, PickShift), k + 1)[v] =
               Arrivals[v].cost + extra
<1> DEFINE e == Arrivals[v].from
           deeper == Append(ly, layer)
           longer == Append(sh, PickShift)
           n == k + 1
<1>1. PickShift \in Int /\ read_base \in Int /\ Given
  BY ShiftFacts DEF MetricInv, Typed
<1>2. layer \in [Nodes -> Pointer]
  <2>1. \A w \in Nodes : Arrivals[w].from \in Pointer
    BY ArrivalComes
  <2> QED
    BY <2>1
<1>3. deeper[n] = layer /\ longer[n] = PickShift
  BY <1>1, <1>2, AppendProperties
<1>4. BaseBy(longer, n) = Base
  <2>1. BaseBy(longer, n) = BaseBy(sh, k) + N + PickShift
    <3>1. \A s \in Int : BaseBy(Append(sh, s), k + 1) = BaseBy(sh, k) + N + s
      BY BaseByFacts
    <3> QED
      BY <1>1, <3>1
  <2> QED
    BY <2>1 DEF Base
<1>5. PICK u, w : Onto(v, u, w, e, extra)
  BY ArrivesOnto
<1>6. /\ w \in Nodes /\ e[1] = State(u) /\ e[2] = Drift(u)
      /\ w = NodeAt(e[1], e[2] + PickShift)
      /\ metric[w] < Infinite
      /\ Plus(metric[w] + extra, BranchCrossed(u, v, e, Base)) = Arrivals[v].cost + extra
  BY <1>5 DEF Onto
<1>7. deeper[n][v] = e
  BY <1>3
<1> HIDE DEF deeper, longer, n, e
<1>8. SourceBy(deeper, longer, n, v) = w
  BY <1>3, <1>6, <1>7 DEF SourceBy
<1>9. TracedBranch(deeper, longer, n, v) = BranchCrossed(u, v, e, Base)
  BY <1>4, <1>6, <1>7 DEF TracedBranch, BranchCrossed
<1>10. costs[w] = metric[w] + extra
  BY <1>6
<1>11. ContinuedBy(costs, deeper, longer, n)[v] = Plus(costs[w], BranchCrossed(u, v, e, Base))
  BY <1>6, <1>8, <1>9 DEF ContinuedBy
<1> QED
  BY <1>6, <1>10, <1>11 DEF deeper, longer, n

LEMMA StepKeepsSurvivors ==
    ASSUME SurvivorInv, Step
    PROVE  Recorded' /\ Bounded(metric, total, steps)' /\ (\E c, t : Walked(c, t))'
<1> DEFINE inc == Increment(Arrivals)
           layer == [v \in Nodes |-> Arrivals[v].from]
<1>1. /\ MetricInv /\ Recorded /\ Bounded(metric, total, steps)
      /\ Given /\ PickShift \in Int /\ Base \in Nat /\ N \in Nat
  BY ShiftFacts, BaseIsNat, ReachFacts DEF SurvivorInv, MetricInv, Typed
<1>2. /\ \A v \in Nodes : Arrivals[v].cost \in 0 .. Infinite
      /\ metric' = [v \in Nodes |-> IF Arrivals[v].cost = Infinite THEN Infinite
                                    ELSE Arrivals[v].cost - inc]
      /\ layers' = Append(layers, layer) /\ shift' = Append(shift, PickShift)
      /\ total' = total + inc /\ read_base' = Base + N /\ steps' = steps + 1
      /\ steps < MaxSteps /\ Fixed
  BY <1>1, ArrivalsIs DEF Step, Base, Fixed
<1>3. /\ steps \in Nat /\ steps \in 0 .. MaxSteps /\ MaxSteps \in Nat /\ total \in Nat
      /\ shift \in Seq(Int) /\ Len(shift) = steps
      /\ layers \in Seq([Nodes -> Pointer]) /\ Len(layers) = steps
      /\ read_base = BaseBy(shift, steps) + N
  BY <1>1, MetricAssumption DEF Recorded
<1>4. /\ inc \in Nat
      /\ \A v \in Nodes : Arrivals[v].cost < Infinite =>
            Arrivals[v].cost - inc \in Nat /\ Arrivals[v].cost - inc < Infinite
  BY <1>2, IncrementFacts
<1>5. layer \in [Nodes -> Pointer]
  <2>1. \A w \in Nodes : Arrivals[w].from \in Pointer
    BY <1>1, ArrivalComes
  <2> QED
    BY <2>1
<1>6. BaseBy(shift', steps + 1) = Base
  <2>1. \A s \in Int : BaseBy(Append(shift, s), steps + 1) = BaseBy(shift, steps) + N + s
    BY <1>3, BaseByFacts
  <2> QED
    BY <1>1, <1>2, <1>3, <2>1 DEF Base
<1>7. Normalises(metric', ArrivalCosts, inc)
  <2> SUFFICES ASSUME NEW v \in Nodes
               PROVE  /\ ArrivalCosts[v] \in 0 .. Infinite
                      /\ metric'[v] < Infinite <=> ArrivalCosts[v] < Infinite
                      /\ ArrivalCosts[v] < Infinite => metric'[v] = ArrivalCosts[v] - inc
    BY <1>4 DEF Normalises
  <2> DEFINE a == Arrivals[v].cost
             i == inc
  <2>1. /\ a \in 0 .. Infinite /\ metric'[v] = IF a = Infinite THEN Infinite ELSE a - i
        /\ a < Infinite => a - i \in Nat /\ a - i < Infinite
        /\ ArrivalCosts[v] = a
    BY <1>2, <1>4 DEF ArrivalCosts
  <2> HIDE DEF a, i
  <2>2. CASE a = Infinite
    BY <2>1, <2>2, InfiniteIsCost DEF i
  <2>3. CASE a # Infinite
    <3>1. a < Infinite
      BY <2>1, <2>3, InfiniteIsCost
    <3> QED
      BY <2>1, <2>3, <3>1 DEF i
  <2> QED
    BY <2>2, <2>3
<1> HIDE DEF inc, layer
<1>8. Recorded'
  <2>1. [Nodes -> Pointer]' = [Nodes -> Pointer]
    BY <1>2, PointersStay
  <2>2. shift' \in Seq(Int) /\ Len(shift') = steps'
    BY <1>1, <1>2, <1>3, AppendProperties
  <2>3. layers' \in Seq([Nodes -> Pointer]) /\ Len(layers') = steps'
    BY <1>2, <1>3, <1>5, AppendProperties
  <2>4. steps' \in 0 .. MaxSteps /\ total' \in Nat
    BY <1>2, <1>3, <1>4
  <2>5. read_base' = BaseBy(shift', steps') + N
    BY <1>2, <1>6
  <2> QED
    BY <2>1, <2>2, <2>3, <2>4, <2>5 DEF Recorded, BaseBy
<1>9. PICK c, t : Walked(c, t)
  BY DEF SurvivorInv
<1>10. /\ PathsBy(c, shift, steps) /\ TracesBy(t, layers, shift, steps)
       /\ Carries(c[steps], metric, read_base, total)
       /\ \A v \in Nodes : metric[v] < Infinite => t[steps][v] = metric[v] + total
  BY <1>9 DEF Walked
<1>11. /\ Carries(Extended(c[steps], Base), ArrivalCosts, Base + N, total)
       /\ Bounded(ArrivalCosts, total, steps + 1)
  BY <1>1, <1>2, <1>3, <1>10, ExtendedCarries
<1>12. /\ Carries(Extended(c[steps], Base), metric', Base + N, total + inc)
       /\ Bounded(metric', total + inc, steps + 1)
  BY <1>1, <1>3, <1>7, <1>11, NormalisedCarries
<1>13. Bounded(metric, total, steps)'
  BY <1>2, <1>12, BoundStays
<1>14. PICK d : /\ PathsBy(d, shift', steps')
                /\ d[steps + 1] = Extended(c[steps], Base)
  <2>1. \E d : /\ PathsBy(d, Append(shift, PickShift), steps + 1)
               /\ d[steps + 1] = Extended(c[steps], BaseBy(shift, steps) + N + PickShift)
    <3>1. /\ steps \in Nat /\ shift \in Seq(Int) /\ Len(shift) = steps
          /\ PickShift \in Int /\ PathsBy(c, shift, steps)
      BY <1>1, <1>3, <1>10
    <3> QED
      BY <3>1, PathsExtend
  <2> QED
    BY <1>2, <1>3, <2>1 DEF Base
<1>15. PICK r : /\ TracesBy(r, layers', shift', steps')
                /\ r[steps + 1] = ContinuedBy(t[steps], layers', shift', steps + 1)
  <2>1. \E r : /\ TracesBy(r, Append(layers, layer), Append(shift, PickShift), steps + 1)
               /\ r[steps + 1] = ContinuedBy(t[steps], Append(layers, layer),
                                             Append(shift, PickShift), steps + 1)
    <3> DEFINE P == [Nodes -> Pointer]
    <3>1. /\ steps \in Nat /\ shift \in Seq(Int) /\ Len(shift) = steps /\ PickShift \in Int
          /\ layers \in Seq(P) /\ Len(layers) = steps /\ layer \in P
          /\ TracesBy(t, layers, shift, steps)
      BY <1>1, <1>3, <1>5, <1>10
    <3> HIDE DEF P
    <3> QED
      BY <3>1, TracesExtend, SMTT(60)
  <2> QED
    BY <1>2, <2>1
<1>16. ASSUME NEW v \in Nodes, metric'[v] < Infinite
       PROVE  r[steps + 1][v] = metric'[v] + (total + inc)
  <2>1. ArrivalCosts[v] = Arrivals[v].cost
    BY DEF ArrivalCosts
  <2>2. Arrivals[v].cost < Infinite /\ metric'[v] = Arrivals[v].cost - inc
        /\ Arrivals[v].cost \in Int
    BY <1>2, <1>7, <1>16, <2>1 DEF Normalises
  <2>3. ContinuedBy(t[steps], Append(layers, layer), Append(shift, PickShift), steps + 1)[v]
            = Arrivals[v].cost + total
    <3>1. layer = [w \in Nodes |-> Arrivals[w].from]
      BY DEF layer
    <3>2. /\ MetricInv /\ total \in Nat /\ steps \in Nat /\ steps < MaxSteps
          /\ Bounded(metric, total, steps)
          /\ shift \in Seq(Int) /\ Len(shift) = steps /\ read_base = BaseBy(shift, steps) + N
          /\ layers \in Seq([Nodes -> Pointer]) /\ Len(layers) = steps
          /\ \A w \in Nodes : metric[w] < Infinite => t[steps][w] = metric[w] + total
          /\ Arrivals[v].cost < Infinite
      BY <1>1, <1>2, <1>3, <1>10, <2>2
    <3> QED
      BY <3>1, <3>2, StepIsTraced, SMTT(60)
  <2>4. r[steps + 1][v] = Arrivals[v].cost + total
    BY <1>2, <1>15, <2>3
  <2> DEFINE a == Arrivals[v].cost
             after == metric'[v]
  <2>5. a \in Int /\ after = a - inc /\ r[steps + 1][v] = a + total
    BY <2>2, <2>4
  <2> HIDE DEF a, after
  <2>6. after + (total + inc) = a + total
    BY <1>3, <1>4, <2>5
  <2> QED
    BY <2>5, <2>6 DEF after
<1>17. Walked(d, r)'
  <2>1. PathsBy(d, shift, steps)'
    BY <1>2, <1>14, PathsStay
  <2>2. TracesBy(r, layers, shift, steps)'
    BY <1>2, <1>15, TracesStay
  <2>3. Carries(d[steps], metric, read_base, total)'
    <3>1. PICK paths : paths = d[steps']
      OBVIOUS
    <3>2. Carries(paths, metric', read_base', total')
      BY <1>2, <1>12, <1>14, <3>1
    <3>3. Carries(paths, metric, read_base, total)'
      BY <1>2, <3>2, CarriesStays
    <3> QED
      BY <3>1, <3>3 DEF Carries
  <2>4. Nodes' = Nodes
    BY <1>2 DEF Fixed, Nodes, DriftWidth
  <2> QED
    BY <1>2, <1>16, <2>1, <2>2, <2>3, <2>4 DEF Walked
<1> QED
  BY <1>8, <1>13, <1>17

----------------------------------------------------------------------------
(* The survivors are the cheapest paths.                                   *)

LEMMA SurvivorsFollow == ASSUME SurvivorInv PROVE SurvivorsAreCheapest
<1>1. /\ MetricInv /\ Given /\ Recorded /\ Bounded(metric, total, steps)
      /\ read_base \in Int /\ metric \in [Nodes -> 0 .. Infinite]
  BY DEF SurvivorInv, MetricInv, Typed
<1>2. PICK c, t : Walked(c, t)
  BY DEF SurvivorInv
<1>3. steps \in Nat /\ steps <= MaxSteps /\ total \in Nat
  BY <1>1, MetricAssumption DEF Recorded
<1>4. CheapestPaths = c[steps]
  BY <1>2, <1>3, CheapestPathsIs, PathsAreUnique DEF Walked
<1>5. \A v : TracedCost(v) = t[steps][v]
  BY <1>2, <1>3, TracedCostIs, TracesAreUnique DEF Walked
<1>6. /\ Carries(c[steps], metric, read_base, total)
      /\ \A v \in Nodes : metric[v] < Infinite => t[steps][v] = metric[v] + total
  BY <1>2 DEF Walked
<1>7. ASSUME NEW v \in Nodes, metric[v] < Infinite
      PROVE  metric[v] + total < Infinite
  <2>1. PICK b : CostBound(b)
    BY <1>1, CostBoundExists
  <2>2. metric[v] + total <= steps * EdgeBound(b)
    BY <1>1, <1>7, <2>1 DEF Bounded
  <2> DEFINE w == 2 * (N + channel.max_drift)
             most == MaxSteps
  <2>3. b \in Nat /\ most * w * b < Infinite /\ w \in Nat /\ most \in Nat /\ steps <= most
    <3>1. b \in Nat /\ most * w * b < Infinite
      BY <2>1 DEF CostBound
    <3>2. most \in Nat /\ N \in Nat /\ channel.max_drift \in Nat
      BY <1>1, ReachFacts, MetricAssumption
    <3>3. w \in Nat
      BY <3>2
    <3> QED
      BY <1>3, <3>1, <3>2, <3>3
  <2>4. EdgeBound(b) = w * b
    BY DEF EdgeBound
  <2> HIDE DEF w, most
  <2>5. w * b \in Nat /\ most * (w * b) = most * w * b
    BY <2>3, SMT
  <2>6. steps * (w * b) <= most * (w * b) /\ steps * (w * b) \in Nat
    BY <1>3, <2>3, <2>5, MoreTimes
  <2> DEFINE kept == metric[v]
             left == steps * (w * b)
             right == most * (w * b)
  <2>7. kept \in Int /\ kept + total <= left /\ left <= right /\ right < Infinite
        /\ left \in Int /\ right \in Int
    BY <1>1, <2>2, <2>3, <2>4, <2>5, <2>6
  <2> HIDE DEF kept, left, right
  <2>8. kept + total < Infinite
    BY <1>3, <2>7, InfiniteIsCost
  <2> QED
    BY <2>8 DEF kept
<1> DEFINE reaching(v) == {q \in c[steps] : q.state = State(v)
                                           /\ q.at = read_base + Drift(v) - channel.max_drift}
           costs(v) == {p.cost : p \in reaching(v)}
<1>8. ASSUME NEW v \in Nodes
      PROVE  IF Least(costs(v)) = Infinite THEN metric[v] = Infinite
             ELSE metric[v] + total = Least(costs(v)) /\ TracedCost(v) = Least(costs(v))
  <2> DEFINE C == costs(v)
  <2>1. \A p : p \in reaching(v) <=> p \in c[steps] /\ Reaches(p, read_base, v)
    BY DEF Reaches, Place
  <2>2. C \in SUBSET Nat
    BY <1>6 DEF Carries
  <2>3. ASSUME NEW g \in C, g < Infinite
        PROVE  metric[v] < Infinite /\ metric[v] + total <= g
    <3>1. PICK p \in reaching(v) : g = p.cost
      BY <2>3
    <3> QED
      BY <1>6, <2>1, <2>3, <3>1 DEF Carries
  <2>4. CASE metric[v] < Infinite
    <3>1. metric[v] + total \in C
      <4>1. PICK p \in c[steps] : Reaches(p, read_base, v) /\ p.cost = metric[v] + total
        BY <1>6, <2>4 DEF Carries
      <4>2. p \in reaching(v)
        BY <2>1, <4>1
      <4> QED
        BY <4>1, <4>2
    <3> HIDE DEF C
    <3>2. metric[v] + total < Infinite
      BY <1>7, <2>4
    <3> DEFINE m == metric[v] + total
    <3>3. m \in C /\ m < Infinite /\ m \in Nat /\ \A g \in C : g < Infinite => m <= g
      BY <2>2, <2>3, <3>1, <3>2
    <3> HIDE DEF m
    <3>4. \A g \in C : m <= g
      BY <2>2, <3>3, InfiniteIsCost
    <3>5. Least(C) = m
      BY <2>2, <3>3, <3>4, InfiniteIsCost, LeastIs
    <3>6. TracedCost(v) = m
      BY <1>5, <1>6, <2>4 DEF m
    <3>7. m # Infinite
      BY <3>3, InfiniteIsCost
    <3> QED
      BY <3>5, <3>6, <3>7 DEF m, C
  <2>5. CASE ~(metric[v] < Infinite)
    <3>1. metric[v] = Infinite
      BY <1>1, <2>5, InfiniteIsCost
    <3>2. \A g \in C : g >= Infinite
      <4> HIDE DEF C
      <4> QED
        BY <2>2, <2>3, <2>5, InfiniteIsCost
    <3>3. Least(C) = Infinite
      <4> HIDE DEF C
      <4> QED
        BY <2>2, <3>2, LeastOfDead
    <3> QED
      BY <3>1, <3>3
  <2> QED
    BY <2>4, <2>5
<1> QED
  BY <1>4, <1>8 DEF SurvivorsAreCheapest

\* At every step the nodes hold the costs of the cheapest paths.
THEOREM SurvivorsAreInvariant == Spec => []SurvivorInv
<1>1. Init => SurvivorInv
  BY SurvivorInvInit
<1>2. ASSUME SurvivorInv, [Next]_vars PROVE SurvivorInv'
  <2>1. MetricInv'
    BY <1>2, MetricInvStep DEF SurvivorInv
  <2>2. CASE UNCHANGED vars
    BY <1>2, <2>1, <2>2, StutterKeepsSurvivors DEF SurvivorInv
  <2>3. CASE Step
    BY <1>2, <2>1, <2>3, StepKeepsSurvivors DEF SurvivorInv
  <2> QED
    BY <1>2, <2>2, <2>3 DEF Next
<1> QED
  BY <1>1, <1>2, PTL DEF Spec

\* The decoder is a maximum-likelihood decoder within its drift window: every
\* node holds the cost of the cheapest of all paths there, and its
\* backpointers lead back along one of these.
THEOREM SurvivorsAreTheCheapest == Spec => []SurvivorsAreCheapest
<1>1. SurvivorInv => SurvivorsAreCheapest
  BY SurvivorsFollow
<1> QED
  BY <1>1, SurvivorsAreInvariant, PTL
=============================================================================
