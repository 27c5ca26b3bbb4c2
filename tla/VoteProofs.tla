----------------------------- MODULE VoteProofs -----------------------------
(* The vote of multi_run, for any number of codes, any table of weights    *)
(* that falls geometrically with the cost, and any thresholds.             *)
EXTENDS Vote, Induction

LEMMA AnotherTimes ==
    ASSUME NEW n \in Nat, NEW m \in Nat PROVE (n + 1) * m = n * m + m
  OBVIOUS

\* If no element weighs more than m, the sum is at most m for each.
LEMMA SumBounded ==
    ASSUME NEW S, IsFiniteSet(S), NEW w \in [S -> Nat], NEW m \in Nat,
           \A x \in S : w[x] <= m
    PROVE  SumOf(w, S) <= Cardinality(S) * m
<1> DEFINE F == {U \in SUBSET S : SumOf(w, U) <= Cardinality(U) * m}
<1>1. \A U \in SUBSET S : SumOf(w, U) \in Nat
  BY SumIsNumber
<1>2. \A U \in SUBSET S : IsFiniteSet(U) /\ Cardinality(U) \in Nat
  BY FS_Subset, FS_CardinalityType
<1>3. {} \in F
  BY SumOfNone, FS_EmptySet
<1>4. ASSUME NEW U \in SUBSET S, NEW x \in S \ U, U \in F
      PROVE  U \cup {x} \in F
  <2>1. SumOf(w, U \cup {x}) = w[x] + SumOf(w, U)
    BY SumAdds
  <2>2. Cardinality(U \cup {x}) = Cardinality(U) + 1
    <3>1. IsFiniteSet(U)
      BY <1>2
    <3> QED
      BY <3>1, FS_AddElement
  <2>3. (Cardinality(U) + 1) * m = Cardinality(U) * m + m
    BY <1>2, AnotherTimes
  <2>4. SumOf(w, U) <= Cardinality(U) * m
    BY <1>4
  <2>5. w[x] \in Nat /\ w[x] <= m
    OBVIOUS
  <2>6. Cardinality(U) * m \in Nat /\ SumOf(w, U) \in Nat
    BY <1>1, <1>2
  <2>7. SumOf(w, U \cup {x}) <= Cardinality(U \cup {x}) * m
    BY <2>1, <2>2, <2>3, <2>4, <2>5, <2>6
  <2> QED
    BY <2>7
<1>5. S \in F
  <2> HIDE DEF F
  <2> QED
    BY <1>3, <1>4, FiniteSetInduction
<1> QED
  BY <1>5

LEMMA Distributes ==
    ASSUME NEW a \in Nat, NEW x \in Nat, NEW y \in Nat
    PROVE  a * (x + y) = a * x + a * y /\ a * x \in Nat /\ a * y \in Nat
  OBVIOUS

\* x is to y as b is to a.
Proportion(a, x, b, y) == a * x = b * y

\* Weights in a fixed proportion have sums in that proportion.
LEMMA SumScales ==
    ASSUME NEW S, IsFiniteSet(S), NEW w \in [S -> Nat], NEW v \in [S -> Nat],
           NEW a \in Nat, NEW b \in Nat, NEW T \in SUBSET S,
           \A x \in T : Proportion(a, w[x], b, v[x])
    PROVE  Proportion(a, SumOf(w, T), b, SumOf(v, T))
<1>0. \A x \in T : a * w[x] = b * v[x]
  BY DEF Proportion
<1> DEFINE F == {U \in SUBSET T : a * SumOf(w, U) = b * SumOf(v, U)}
<1>1. \A U \in SUBSET S : SumOf(w, U) \in Nat /\ SumOf(v, U) \in Nat
  BY SumIsNumber
<1>2. {} \in F
  BY SumOfNone
<1>3. ASSUME NEW U \in SUBSET T, NEW x \in T \ U, U \in F
      PROVE  U \cup {x} \in F
  <2>1. U \in SUBSET S /\ x \in S \ U
    OBVIOUS
  <2>2. SumOf(w, U \cup {x}) = w[x] + SumOf(w, U)
    BY <2>1, SumAdds
  <2>3. SumOf(v, U \cup {x}) = v[x] + SumOf(v, U)
    BY <2>1, SumAdds
  <2>4. a * w[x] = b * v[x]
    BY <1>0
  <2>5. a * SumOf(w, U) = b * SumOf(v, U)
    BY <1>3
  <2>6. w[x] \in Nat /\ v[x] \in Nat /\ SumOf(w, U) \in Nat /\ SumOf(v, U) \in Nat
    BY <1>1, <2>1
  <2>7. a * (w[x] + SumOf(w, U)) = a * w[x] + a * SumOf(w, U)
    BY <2>6, Distributes
  <2>8. b * (v[x] + SumOf(v, U)) = b * v[x] + b * SumOf(v, U)
    BY <2>6, Distributes
  <2>9. a * SumOf(w, U \cup {x}) = b * SumOf(v, U \cup {x})
    BY <2>2, <2>3, <2>4, <2>5, <2>7, <2>8
  <2> QED
    BY <2>9
<1>4. IsFiniteSet(T)
  BY FS_Subset
<1>5. T \in F
  <2> HIDE DEF F
  <2> QED
    BY <1>2, <1>3, <1>4, FiniteSetInduction
<1> QED
  BY <1>5 DEF Proportion

\* Where no element weighs more, neither does the sum.
LEMMA SumMonotone ==
    ASSUME NEW S, IsFiniteSet(S), NEW w \in [S -> Nat], NEW v \in [S -> Nat],
           NEW T \in SUBSET S, \A x \in T : w[x] <= v[x]
    PROVE  SumOf(w, T) <= SumOf(v, T)
<1> DEFINE F == {U \in SUBSET T : SumOf(w, U) <= SumOf(v, U)}
<1>1. \A U \in SUBSET S : SumOf(w, U) \in Nat /\ SumOf(v, U) \in Nat
  BY SumIsNumber
<1>2. {} \in F
  BY SumOfNone
<1>3. ASSUME NEW U \in SUBSET T, NEW x \in T \ U, U \in F
      PROVE  U \cup {x} \in F
  <2>1. U \in SUBSET S /\ x \in S \ U
    OBVIOUS
  <2>2. SumOf(w, U \cup {x}) = w[x] + SumOf(w, U)
    BY <2>1, SumAdds
  <2>3. SumOf(v, U \cup {x}) = v[x] + SumOf(v, U)
    BY <2>1, SumAdds
  <2>4. SumOf(w, U) <= SumOf(v, U) /\ w[x] <= v[x]
    BY <1>3
  <2>5. w[x] \in Nat /\ v[x] \in Nat /\ SumOf(w, U) \in Nat /\ SumOf(v, U) \in Nat
    BY <1>1, <2>1
  <2>6. SumOf(w, U \cup {x}) <= SumOf(v, U \cup {x})
    BY <2>2, <2>3, <2>4, <2>5
  <2> QED
    BY <2>6
<1>4. IsFiniteSet(T)
  BY FS_Subset
<1>5. T \in F
  <2> HIDE DEF F
  <2> QED
    BY <1>2, <1>3, <1>4, FiniteSetInduction
<1> QED
  BY <1>5

----------------------------------------------------------------------------
(* The weights of the vote.                                                *)

LEMMA VoteConstants ==
    /\ NumCodes \in Nat \ {0} /\ MaxCost \in Nat
    /\ Scale \in Nat \ {0}
    /\ Weight \in [Costs -> Nat \ {0}]
    /\ 0 \in Codes /\ Codes \subseteq Nat
    /\ IsFiniteSet(Codes) /\ Cardinality(Codes) = NumCodes
<1>1. NumCodes \in Nat \ {0} /\ MaxCost \in Nat
  BY VoteAssumption
<1>2. IsFiniteSet(Codes) /\ Cardinality(Codes) = NumCodes
  <2>1. 0 \in Int /\ NumCodes - 1 \in Int /\ ~(0 > NumCodes - 1)
    BY <1>1
  <2>2. Cardinality(0 .. (NumCodes - 1)) = (NumCodes - 1) - 0 + 1
    BY <2>1, FS_Interval
  <2>3. (NumCodes - 1) - 0 + 1 = NumCodes
    BY <1>1
  <2> QED
    BY <2>1, <2>2, <2>3, FS_Interval DEF Codes
<1> QED
  BY <1>1, <1>2, VoteAssumption DEF Codes, Costs

LEMMA LeastFacts ==
    ASSUME NEW c \in [Codes -> Costs]
    PROVE  /\ LeastCost(c) \in Costs /\ LeastCost(c) \in Nat
           /\ \A j \in Codes : LeastCost(c) <= c[j]
           /\ \E j \in Codes : c[j] = LeastCost(c)
<1>1. Range(c) = {c[j] : j \in Codes}
  BY DEF Range
<1>2. Range(c) \subseteq Nat /\ Range(c) # {} /\ Range(c) \subseteq Costs
  BY <1>1, VoteConstants DEF Costs
<1>3. \E m \in Range(c) : \A x \in Range(c) : m <= x
  BY <1>2, LeastExists
<1>4. LeastCost(c) \in Range(c) /\ \A x \in Range(c) : LeastCost(c) <= x
  BY <1>3 DEF LeastCost, Min
<1> QED
  BY <1>1, <1>2, <1>4

LEMMA BestFacts ==
    ASSUME NEW c \in [Codes -> Costs]
    PROVE  BestOf(c) \in Codes /\ c[BestOf(c)] = LeastCost(c)
<1> DEFINE bests == {j \in Codes : c[j] = LeastCost(c)}
<1>1. bests \subseteq Nat /\ bests # {}
  BY LeastFacts, VoteConstants
<1>2. \E m \in bests : \A x \in bests : m <= x
  <2> HIDE DEF bests
  <2> QED
    BY <1>1, LeastExists
<1>3. BestOf(c) \in bests
  BY <1>2 DEF BestOf, Min
<1> QED
  BY <1>3

\* The weight of each code.
Weights(c) == [j \in Codes |-> Weight[c[j] - LeastCost(c)]]

LEMMA WeightsFacts ==
    ASSUME NEW c \in [Codes -> Costs]
    PROVE  /\ Weights(c) \in [Codes -> Nat]
           /\ \A j \in Codes : /\ c[j] - LeastCost(c) \in Costs
                               /\ Weights(c)[j] = Weight[c[j] - LeastCost(c)]
                               /\ Weights(c)[j] > 0
<1>1. ASSUME NEW j \in Codes PROVE c[j] - LeastCost(c) \in Costs
  <2>1. c[j] \in Nat /\ c[j] <= MaxCost /\ MaxCost \in Nat
    BY VoteConstants DEF Costs
  <2>2. LeastCost(c) \in Nat /\ LeastCost(c) <= c[j]
    BY LeastFacts
  <2> QED
    BY <2>1, <2>2 DEF Costs
<1> QED
  BY <1>1, VoteConstants DEF Weights

\* The total weight of a set of codes is the sum of their weights.
LEMMA WeightIsSum ==
    ASSUME NEW c \in [Codes -> Costs], NEW S \in SUBSET Codes
    PROVE  WeightOf(c, S) = SumOf(Weights(c), S)
<1> DEFINE w == Weights(c)
           body(f, s) == IF s = {} THEN 0
                         ELSE Weight[c[Chosen(s)] - LeastCost(c)]
                              + f[s \ {Chosen(s)}]
           P(f) == f = [s \in SUBSET S |-> body(f, s)]
           h == CHOOSE f : P(f)
<1>1. WeightOf(c, S) = h[S]
  BY DEF WeightOf, MapThenSumSet, MapThenFoldSet, Chosen
<1>2. ASSUME NEW f, NEW s \in SUBSET S PROVE body(f, s) = SumBody(f, w, s)
  <2>1. CASE s = {}
    BY <2>1 DEF SumBody
  <2>2. CASE s # {}
    <3>1. Chosen(s) \in Codes
      BY <2>2, ChosenIn
    <3>2. w[Chosen(s)] = Weight[c[Chosen(s)] - LeastCost(c)]
      BY <3>1 DEF Weights
    <3> QED
      BY <2>2, <3>2 DEF SumBody
  <2> QED
    BY <2>1, <2>2
<1>3. ASSUME NEW f
      PROVE  [s \in SUBSET S |-> body(f, s)] = [s \in SUBSET S |-> SumBody(f, w, s)]
  <2> HIDE DEF body
  <2> QED
    BY <1>2, Zenon
<1>4. \A f : P(f) <=> SolvesSum(f, w, S)
  <2> HIDE DEF body, w
  <2> QED
    BY <1>3 DEF SolvesSum
<1>5. IsFiniteSet(S) /\ w \in [Codes -> Nat] /\ IsFiniteSet(Codes)
  BY VoteConstants, WeightsFacts, FS_Subset
<1>6. \E g : SolvesSum(g, w, S)
  <2> HIDE DEF w
  <2>1. PICK f : Sums(f, w, Codes, Nat)
    BY <1>5, SumIsSolution
  <2> QED
    BY <2>1, SolutionRestricts DEF Sums
<1> DEFINE k == CHOOSE g : SolvesSum(g, w, S)
<1> HIDE DEF w
<1>7. SolvesSum(k, w, S) /\ SumOf(w, S) = k[S]
  BY <1>6, SumIsChosen
<1>8. SolvesSum(h, w, S)
  <2> HIDE DEF P
  <2>1. P(h)
    BY <1>4, <1>6
  <2> QED
    BY <1>4, <2>1
<1> HIDE DEF h, k
<1>9. h[S] = k[S]
  BY <1>5, <1>7, <1>8, SumUnique
<1> QED
  BY <1>1, <1>7, <1>9 DEF w

\* Weights fall with the cost, and by the same ratio at every step.
LEMMA WeightFalls ==
    ASSUME NEW d \in Nat, NEW a \in Costs, a + d \in Costs
    PROVE  Weight[a + d] <= Weight[a]
<1> DEFINE T == {n \in Nat : \A x \in Costs : x + n \in Costs =>
                                Weight[x + n] <= Weight[x]}
<1>1. \A x \in Costs : x + 0 = x /\ Weight[x] \in Nat /\ x \in Nat
  BY VoteConstants DEF Costs
<1>2. 0 \in T
  BY <1>1
<1>3. ASSUME NEW n \in Nat, n \in T PROVE n + 1 \in T
  <2> SUFFICES ASSUME NEW x \in Costs, x + (n + 1) \in Costs
               PROVE  Weight[x + (n + 1)] <= Weight[x]
    OBVIOUS
  <2>1. /\ x + n \in Costs /\ x + n \in 0 .. (MaxCost - 1)
        /\ x + (n + 1) = (x + n) + 1
    BY VoteConstants DEF Costs
  <2>2. Weight[(x + n) + 1] < Weight[x + n]
    BY <2>1, VoteAssumption
  <2>3. Weight[x + n] <= Weight[x]
    BY <1>3, <2>1
  <2>4. Weight[x + (n + 1)] \in Nat /\ Weight[x + n] \in Nat /\ Weight[x] \in Nat
    BY <1>1, <2>1
  <2> QED
    BY <2>1, <2>2, <2>3, <2>4
<1>4. Nat \subseteq T
  <2> HIDE DEF T
  <2> QED
    BY <1>2, <1>3, NumberInduction
<1> QED
  BY <1>4

LEMMA WeightIsGeometric ==
    ASSUME NEW d \in Nat, NEW a \in Costs, a + d \in Costs
    PROVE  Weight[a] * Weight[d] = Weight[a + d] * Weight[0]
<1> DEFINE T == {n \in Nat : \A x \in Costs : x + n \in Costs =>
                    Weight[x] * Weight[n] = Weight[x + n] * Weight[0]}
<1>1. 0 \in T
  <2>1. \A x \in Costs : x + 0 = x
    BY DEF Costs
  <2> QED
    BY <2>1
<1>2. ASSUME NEW n \in Nat, n \in T PROVE n + 1 \in T
  <2> SUFFICES ASSUME NEW x \in Costs, x + (n + 1) \in Costs
               PROVE  Weight[x] * Weight[n + 1] = Weight[x + (n + 1)] * Weight[0]
    OBVIOUS
  <2>1. /\ x \in 0 .. (MaxCost - 1) /\ n \in 0 .. (MaxCost - 1)
        /\ x + 1 \in Costs /\ (x + 1) + n = x + (n + 1)
    BY VoteConstants DEF Costs
  <2>2. Weight[x] * Weight[n + 1] = Weight[x + 1] * Weight[n]
    BY <2>1, VoteAssumption
  <2>3. (x + 1) + n \in Costs
    BY <2>1
  <2>4. Weight[x + 1] * Weight[n] = Weight[(x + 1) + n] * Weight[0]
    BY <1>2, <2>1, <2>3
  <2> QED
    BY <2>1, <2>2, <2>4
<1>3. Nat \subseteq T
  <2> HIDE DEF T
  <2> QED
    BY <1>1, <1>2, NumberInduction
<1> QED
  BY <1>3

----------------------------------------------------------------------------
(* What the decision comes to.                                             *)

\* The codes that vote for a bit, and their weight.
Voters(b, x) == {j \in Codes : b[j] = x}
Votes(c, b, x) == WeightOf(c, Voters(b, x))

LEMMA OtherBit ==
    \A x \in Bits : 1 - x \in Bits /\ 1 - x # x /\ 1 - (1 - x) = x
                   /\ x \in Int /\ x # Erasure /\ x # Pending
  BY DEF Bits, Erasure, Pending

LEMMA VotesFacts ==
    ASSUME NEW c \in [Codes -> Costs], NEW b \in [Codes -> Bits]
    PROVE  /\ \A x \in Bits : Votes(c, b, x) \in Nat
           /\ \A x \in Bits : WeightOf(c, Codes) = Votes(c, b, x) + Votes(c, b, 1 - x)
           /\ WeightOf(c, Codes) \in Nat \ {0}
           /\ \A x \in Bits : \A j \in Voters(b, x) :
                 Weights(c)[j] <= Votes(c, b, x)
<1> DEFINE w == Weights(c)
<1>1. w \in [Codes -> Nat] /\ IsFiniteSet(Codes)
  BY WeightsFacts, VoteConstants
<1>2. \A x : Voters(b, x) \in SUBSET Codes
  BY DEF Voters
<1>3. \A x : Votes(c, b, x) = SumOf(w, Voters(b, x))
  BY <1>2, WeightIsSum DEF Votes
<1>4. WeightOf(c, Codes) = SumOf(w, Codes)
  BY WeightIsSum
<1>5. \A j \in Codes : w[j] > 0
  BY WeightsFacts
<1> HIDE DEF w
<1>6. \A x : Votes(c, b, x) \in Nat
  BY <1>1, <1>2, <1>3, SumIsNumber
<1>7. ASSUME NEW x \in Bits
      PROVE  WeightOf(c, Codes) = Votes(c, b, x) + Votes(c, b, 1 - x)
  <2>1. \A j \in Codes : b[j] # x <=> b[j] = 1 - x
    <3>1. \A y \in Bits : y # x <=> y = 1 - x
      BY DEF Bits
    <3>2. \A j \in Codes : b[j] \in Bits
      OBVIOUS
    <3> QED
      BY <3>1, <3>2
  <2>2. Codes \ Voters(b, x) = Voters(b, 1 - x)
    BY <2>1 DEF Voters
  <2> QED
    BY <1>1, <1>2, <1>3, <1>4, <2>2, SumSplits
<1>8. ASSUME NEW T \in SUBSET Codes, NEW j \in T PROVE w[j] <= SumOf(w, T)
  BY <1>1, SumAtLeast
<1>9. WeightOf(c, Codes) \in Nat \ {0}
  <2>1. 0 \in Codes /\ Codes \in SUBSET Codes
    BY VoteConstants
  <2>2. w[0] <= SumOf(w, Codes)
    BY <1>8, <2>1
  <2>3. w[0] > 0 /\ w[0] \in Nat /\ SumOf(w, Codes) \in Nat
    BY <1>1, <1>5, <2>1, SumIsNumber
  <2> QED
    BY <1>4, <2>2, <2>3
<1>10. ASSUME NEW x \in Bits, NEW j \in Voters(b, x)
       PROVE  w[j] <= Votes(c, b, x)
  BY <1>2, <1>3, <1>8
<1> QED
  BY <1>6, <1>7, <1>9, <1>10 DEF w

LEMMA MarginExcludes ==
    ASSUME NEW x \in Nat, NEW y \in Nat, NEW m \in Nat \ {0}, x + y # 0
    PROVE  ~ /\ (x - y) * Scale >= m * (x + y)
             /\ (y - x) * Scale >= m * (x + y)
<1>1. m * (x + y) > 0
  <2>1. x + y \in Nat \ {0}
    OBVIOUS
  <2> QED
    BY <2>1
<1>2. Scale \in Nat
  BY VoteConstants
<1>3. (y - x) * Scale = - ((x - y) * Scale)
  BY <1>2
<1>4. (x - y) * Scale \in Int /\ m * (x + y) \in Int
  BY <1>2
<1> QED
  BY <1>1, <1>3, <1>4

\* The votes for x lead those for the other bit by the margin.
Carries(c, b, x, m) ==
    (Votes(c, b, x) - Votes(c, b, 1 - x)) * Scale >= m * WeightOf(c, Codes)

\* The decision is the bit that carries the vote of a locked group.
LEMMA DecideCases ==
    ASSUME NEW c \in [Codes -> Costs], NEW b \in [Codes -> Bits],
           NEW f, NEW m \in Nat \ {0}
    PROVE  /\ Decide(c, b, f, m) \in Bits \cup {Erasure}
           /\ \A x \in Bits : Decide(c, b, f, m) = x
                  <=> Locked(LeastCost(c), f) /\ Carries(c, b, x, m)
<1> DEFINE L == Locked(LeastCost(c), f)
           O == Votes(c, b, 1)
           Z == Votes(c, b, 0)
           W == WeightOf(c, Codes)
<1>1. L \in BOOLEAN
  BY DEF Locked
<1>2. O \in Nat /\ Z \in Nat /\ W = O + Z /\ O + Z # 0
  <2>1. 1 \in Bits /\ 1 - 1 = 0 /\ 0 \in Bits
    BY DEF Bits
  <2> HIDE DEF O, Z, W
  <2> QED
    BY <2>1, VotesFacts DEF O, Z, W
<1>3. Lead(c, b) = O - Z
  <2>1. Lead(c, b) = 2 * O - W
    BY DEF Lead, Votes, Voters
  <2> HIDE DEF O, Z, W
  <2> QED
    BY <1>2, <2>1
<1>4. Leads(c, Lead(c, b), m) <=> Carries(c, b, 1, m)
  <2>1. 1 - 1 = 0
    OBVIOUS
  <2> QED
    BY <1>3, <2>1 DEF Leads, Carries
<1>5. Leads(c, -Lead(c, b), m) <=> Carries(c, b, 0, m)
  <2>1. 1 - 0 = 1 /\ -(O - Z) = Z - O
    <3> HIDE DEF O, Z
    <3> QED
      BY <1>2
  <2> QED
    BY <1>3, <2>1 DEF Leads, Carries
<1>6. ~(Carries(c, b, 1, m) /\ Carries(c, b, 0, m))
  <2>1. ~ /\ (O - Z) * Scale >= m * (O + Z)
          /\ (Z - O) * Scale >= m * (O + Z)
    <3> HIDE DEF O, Z
    <3> QED
      BY <1>2, MarginExcludes
  <2>2. 1 - 1 = 0 /\ 1 - 0 = 1
    OBVIOUS
  <2> QED
    BY <1>2, <2>1, <2>2 DEF Carries
<1> DEFINE one == Carries(c, b, 1, m)
           zero == Carries(c, b, 0, m)
           d == Decide(c, b, f, m)
<1>7. one \in BOOLEAN /\ zero \in BOOLEAN
  BY DEF Carries
<1>8. d = CASE L /\ one -> 1
            [] L /\ ~one /\ zero -> 0
            [] OTHER -> Erasure
  <2> HIDE DEF L, one, zero
  <2> QED
    BY <1>4, <1>5 DEF Decide, L, one, zero
<1> HIDE DEF L, one, zero, d
<1>9. /\ d \in {0, 1, Erasure}
      /\ d = 1 <=> L /\ one
      /\ d = 0 <=> L /\ zero
  BY <1>1, <1>6, <1>7, <1>8 DEF Erasure, one, zero
<1> QED
  BY <1>9 DEF Bits, L, one, zero, d

----------------------------------------------------------------------------
(* The invariant.                                                          *)

LEMMA ThresholdIsPositive ==
    ASSUME NEW given \in Int, NEW tenths \in {2, 6}
    PROVE  Threshold(given, tenths) \in Nat \ {0}
<1>1. Scale \in Nat /\ Scale > 0 /\ Scale % 10 = 0
  BY VoteAssumption
<1>2. Scale >= 10
  BY <1>1
<1>3. (tenths * Scale) \div 10 \in Nat \ {0}
  <2>1. CASE tenths = 2
    BY <1>1, <1>2, <2>1
  <2>2. CASE tenths = 6
    BY <1>1, <1>2, <2>2
  <2> QED
    BY <2>1, <2>2
<1> QED
  BY <1>3 DEF Threshold

LEMMA VoteInvHolds == Spec => []VoteInv
<1>1. Init => VoteInv
  <2> SUFFICES ASSUME Init PROVE VoteInv
    OBVIOUS
  <2>1. Floors \subseteq Int /\ Margins \subseteq Int
    BY VoteAssumption
  <2>2. lock_floor \in Nat \ {0} /\ lock_margin \in Nat \ {0}
    BY <2>1, ThresholdIsPositive DEF Init
  <2> QED
    BY <2>2 DEF VoteInv, Init
<1>2. VoteInv /\ [DecideBit]_vars => VoteInv'
  <2> SUFFICES ASSUME VoteInv, [DecideBit]_vars PROVE VoteInv'
    OBVIOUS
  <2>1. CASE DecideBit
    BY <2>1 DEF DecideBit, VoteInv
  <2>2. CASE UNCHANGED vars
    BY <2>2 DEF vars, VoteInv
  <2> QED
    BY <2>1, <2>2
<1> QED
  BY <1>1, <1>2, PTL DEF Spec

\* What the invariant says of a decision.
LEMMA Decided ==
    ASSUME VoteInv, out # Pending
    PROVE  /\ cost \in [Codes -> Costs] /\ bit \in [Codes -> Bits]
           /\ out \in Bits \cup {Erasure} /\ lock_margin \in Nat \ {0}
           /\ out = Decide(cost, bit, lock_floor, lock_margin)
           /\ \A x \in Bits : out = x
                 <=> /\ Locked(LeastCost(cost), lock_floor)
                     /\ Carries(cost, bit, x, lock_margin)
<1>1. /\ cost \in [Codes -> Costs] /\ bit \in [Codes -> Bits]
      /\ lock_margin \in Nat \ {0}
      /\ out = Decide(cost, bit, lock_floor, lock_margin)
  BY DEF VoteInv
<1> QED
  BY <1>1, DecideCases

----------------------------------------------------------------------------
(* The theorems.                                                           *)

\* Codes that agree are never erased while one of them is locked: the whole
\* weight is on their side, and the margin is less than the whole.
THEOREM AgreementIsHeard == Spec => []UnanimityCommits
<1>1. ASSUME VoteInv PROVE UnanimityCommits
  <2> SUFFICES ASSUME out # Pending,
                      \A j, k \in Codes : bit[j] = bit[k],
                      Locked(LeastCost(cost), lock_floor),
                      lock_margin < Scale
               PROVE  out = bit[0]
    BY DEF UnanimityCommits
  <2> DEFINE x == bit[0]
             W == WeightOf(cost, Codes)
  <2>1. /\ cost \in [Codes -> Costs] /\ bit \in [Codes -> Bits]
        /\ lock_margin \in Nat \ {0}
    BY <1>1, Decided
  <2>2. x \in Bits /\ 1 - x \in Bits /\ 1 - x # x
    BY <2>1, VoteConstants, OtherBit
  <2>3. Voters(bit, x) = Codes /\ Voters(bit, 1 - x) = {}
    <3>1. \A j \in Codes : bit[j] = x
      BY VoteConstants
    <3> HIDE DEF x
    <3> QED
      BY <2>2, <3>1 DEF Voters
  <2>4. Votes(cost, bit, x) = W
    BY <2>3 DEF Votes
  <2>5. Votes(cost, bit, x) \in Nat /\ Votes(cost, bit, 1 - x) \in Nat
        /\ W = Votes(cost, bit, x) + Votes(cost, bit, 1 - x)
    <3> HIDE DEF x, W
    <3> QED
      BY <2>1, <2>2, VotesFacts DEF W
  <2> HIDE DEF x, W
  <2>6. Votes(cost, bit, 1 - x) = 0
    BY <2>4, <2>5
  <2>7. (W - 0) * Scale >= lock_margin * W
    <3>1. W \in Nat /\ Scale \in Nat
      BY <2>4, <2>5, VoteConstants
    <3> QED
      BY <2>1, <3>1
  <2>8. Carries(cost, bit, x, lock_margin)
    BY <2>4, <2>6, <2>7 DEF Carries, W
  <2>9. out = x
    BY <1>1, <2>2, <2>8, Decided
  <2> QED
    BY <2>9 DEF x
<1> QED
  BY <1>1, VoteInvHolds, PTL

\* The vote favours neither bit value: inverting every traced bit swaps the
\* two weights.
THEOREM VoteIsSymmetric == Spec => []FavoursNeither
<1>1. ASSUME VoteInv PROVE FavoursNeither
  <2> DEFINE inverted == [j \in Codes |-> 1 - bit[j]]
             d == Decide(cost, inverted, lock_floor, lock_margin)
  <2> SUFFICES ASSUME out # Pending
               PROVE  d = IF out = Erasure THEN Erasure ELSE 1 - out
    BY DEF FavoursNeither
  <2>1. /\ cost \in [Codes -> Costs] /\ bit \in [Codes -> Bits]
        /\ lock_margin \in Nat \ {0}
    BY <1>1, Decided
  <2>2. inverted \in [Codes -> Bits]
    BY <2>1, OtherBit
  <2>3. ASSUME NEW x \in Bits PROVE Voters(inverted, x) = Voters(bit, 1 - x)
    <3>1. \A y \in Bits : 1 - y = x <=> y = 1 - x
      BY DEF Bits
    <3>2. \A j \in Codes : inverted[j] = x <=> bit[j] = 1 - x
      BY <2>1, <3>1
    <3> HIDE DEF inverted
    <3> QED
      BY <3>2 DEF Voters
  <2> HIDE DEF inverted
  <2>4. ASSUME NEW x \in Bits
        PROVE  Carries(cost, inverted, x, lock_margin)
                  <=> Carries(cost, bit, 1 - x, lock_margin)
    <3>1. 1 - x \in Bits
      BY OtherBit
    <3>2. Voters(inverted, x) = Voters(bit, 1 - x)
      BY <2>3
    <3>3. Voters(inverted, 1 - x) = Voters(bit, 1 - (1 - x))
      BY <2>3, <3>1
    <3> QED
      BY <3>2, <3>3 DEF Carries, Votes
  <2>5. ASSUME NEW x \in Bits PROVE d = x <=> out = 1 - x
    <3>1. d = x <=> /\ Locked(LeastCost(cost), lock_floor)
                    /\ Carries(cost, inverted, x, lock_margin)
      BY <2>1, <2>2, DecideCases
    <3>2. out = 1 - x <=> /\ Locked(LeastCost(cost), lock_floor)
                          /\ Carries(cost, bit, 1 - x, lock_margin)
      BY <1>1, Decided, OtherBit
    <3> HIDE DEF d
    <3> QED
      BY <2>4, <3>1, <3>2
  <2>6. d \in Bits \cup {Erasure}
    BY <2>1, <2>2, DecideCases
  <2>7. out \in Bits \cup {Erasure}
    BY <1>1, Decided
  <2> HIDE DEF d
  <2> QED
    BY <2>5, <2>6, <2>7 DEF Bits, Erasure
<1> QED
  BY <1>1, VoteInvHolds, PTL

LEMMA TimesMonotone ==
    ASSUME NEW x \in Int, NEW y \in Int, NEW n \in Nat, x >= y
    PROVE  /\ x * n \in Int /\ y * n \in Int
           /\ x * n >= y * n
<1>1. x - y \in Nat
  OBVIOUS
<1>2. (x - y) * n >= 0
  BY <1>1
<1>3. (x - y) * n = x * n - y * n
  OBVIOUS
<1> QED
  BY <1>2, <1>3

\* Two weights, K times the second at least the whole, and a margin above
\* 1 - 2/K: the first does not lead by the margin.
LEMMA NoLead ==
    ASSUME NEW A \in Nat, NEW B \in Nat, A + B # 0,
           NEW K \in Nat, NEW m \in Nat,
           A + B <= B * K, m * K > (K - 2) * Scale
    PROVE  ~((A - B) * Scale >= m * (A + B))
<1> DEFINE W == A + B
           R == (K - 2) * Scale
           S == Scale
<1>1. S \in Nat /\ W \in Nat \ {0} /\ R \in Int
  BY VoteConstants
<1>2. SUFFICES ASSUME (A - B) * S >= m * W PROVE FALSE
  OBVIOUS
<1> HIDE DEF S
<1>3. ((A - B) * S) * K >= (m * W) * K
  BY <1>1, <1>2, TimesMonotone
<1>4. (m * W) * K = (m * K) * W
  <2> HIDE DEF W
  <2> QED
    BY <1>1
<1>5. (m * K) * W >= (R + 1) * W
  <2>1. m * K \in Int /\ R + 1 \in Int /\ m * K >= R + 1
    BY <1>1
  <2> HIDE DEF W, R
  <2> QED
    BY <1>1, <2>1, TimesMonotone
<1>6. (R + 1) * W = R * W + W
  <2> HIDE DEF W, R
  <2> QED
    BY <1>1
<1>7. (B * K) * S >= W * S
  <2>1. B * K \in Int /\ W \in Int /\ B * K >= W
    BY <1>1
  <2> HIDE DEF W
  <2> QED
    BY <1>1, <2>1, TimesMonotone
<1>8. ((A - B) * S) * K = R * W - 2 * ((B * K) * S - W * S)
  <2>1. A - B = W - 2 * B
    OBVIOUS
  <2>2. R = (K - 2) * S
    BY DEF S
  <2> HIDE DEF W, R
  <2>3. ((W - 2 * B) * S) * K = (W * S) * K - 2 * ((B * K) * S)
    BY <1>1
  <2>4. R * W = (W * S) * K - 2 * (W * S)
    BY <1>1, <2>2
  <2>5. (W * S) * K \in Int /\ (B * K) * S \in Int /\ W * S \in Int
    BY <1>1
  <2> QED
    BY <2>1, <2>3, <2>4, <2>5
<1>9. /\ (B * K) * S \in Int /\ W * S \in Int /\ R * W \in Int
      /\ W \in Int /\ W > 0
  <2> HIDE DEF W, R
  <2> QED
    BY <1>1
<1> HIDE DEF W, R
<1> QED
  BY <1>3, <1>4, <1>5, <1>6, <1>7, <1>8, <1>9

\* The likeliest code prevails: no code weighs more than it does, so the
\* whole is at most codes_len times its weight.
THEOREM LeaderIsHeard == Spec => []LeaderPrevails
<1>1. ASSUME VoteInv PROVE LeaderPrevails
  <2> SUFFICES ASSUME out \in Bits, lock_margin * NumCodes > (NumCodes - 2) * Scale,
                      out # bit[BestOf(cost)]
               PROVE  FALSE
    BY DEF LeaderPrevails
  <2> DEFINE w == Weights(cost)
             A == Votes(cost, bit, out)
             B == Votes(cost, bit, 1 - out)
             best == BestOf(cost)
  <2>1. out # Pending
    BY OtherBit
  <2>2. /\ cost \in [Codes -> Costs] /\ bit \in [Codes -> Bits]
        /\ lock_margin \in Nat \ {0}
        /\ Carries(cost, bit, out, lock_margin)
    BY <1>1, <2>1, Decided
  <2>3. best \in Codes /\ cost[best] = LeastCost(cost)
    BY <2>2, BestFacts
  <2>4. bit[best] = 1 - out
    BY <2>2, <2>3 DEF Bits
  <2>5. best \in Voters(bit, 1 - out) /\ 1 - out \in Bits
    BY <2>3, <2>4, OtherBit DEF Voters
  <2>6. /\ A \in Nat /\ B \in Nat /\ A + B # 0
        /\ WeightOf(cost, Codes) = A + B
        /\ w[best] <= B
    <3> HIDE DEF A, B, w, best
    <3>1. WeightOf(cost, Codes) \in Nat \ {0}
      BY <2>2, VotesFacts
    <3>2. A \in Nat /\ B \in Nat /\ WeightOf(cost, Codes) = A + B
      BY <2>2, <2>5, VotesFacts DEF A, B
    <3>3. w[best] <= B
      BY <2>2, <2>5, VotesFacts DEF B, w
    <3> QED
      BY <3>1, <3>2, <3>3
  <2>7. w \in [Codes -> Nat] /\ w[best] = Weight[0] /\ Weight[0] \in Nat
    <3>1. LeastCost(cost) \in Nat
      BY <2>2, LeastFacts
    <3>2. w[best] = Weight[cost[best] - LeastCost(cost)]
      BY <2>2, <2>3, WeightsFacts
    <3>3. cost[best] - LeastCost(cost) = 0
      BY <2>3, <3>1
    <3>4. 0 \in Costs
      BY VoteConstants DEF Costs
    <3> QED
      BY <2>2, <3>2, <3>3, <3>4, WeightsFacts, VoteConstants
  <2>8. \A j \in Codes : w[j] <= Weight[0]
    <3> SUFFICES ASSUME NEW j \in Codes PROVE w[j] <= Weight[0]
      OBVIOUS
    <3> DEFINE d == cost[j] - LeastCost(cost)
    <3>1. d \in Costs /\ w[j] = Weight[d]
      BY <2>2, WeightsFacts
    <3> HIDE DEF d
    <3>2. d \in Nat /\ 0 \in Costs /\ 0 + d = d
      BY <3>1, VoteConstants DEF Costs
    <3>3. Weight[0 + d] <= Weight[0]
      BY <3>1, <3>2, WeightFalls
    <3> QED
      BY <3>1, <3>2, <3>3
  <2>9. A + B <= NumCodes * Weight[0]
    <3> HIDE DEF w, A, B
    <3>1. SumOf(w, Codes) <= Cardinality(Codes) * Weight[0]
      BY <2>7, <2>8, VoteConstants, SumBounded
    <3>2. Codes \in SUBSET Codes
      OBVIOUS
    <3>3. WeightOf(cost, Codes) = SumOf(w, Codes)
      BY <2>2, <3>2, WeightIsSum DEF w
    <3> QED
      BY <2>6, <3>1, <3>3, VoteConstants
  <2> HIDE DEF A, B, w, best
  <2>10. A + B <= B * NumCodes
    <3>1. NumCodes \in Nat
      BY VoteConstants
    <3>2. Weight[0] <= B
      BY <2>6, <2>7
    <3>3. B * NumCodes >= Weight[0] * NumCodes
      BY <2>6, <2>7, <3>1, <3>2, TimesMonotone
    <3>4. Weight[0] * NumCodes = NumCodes * Weight[0]
      BY <2>7, <3>1
    <3>5. NumCodes * Weight[0] \in Int /\ B * NumCodes \in Int
      BY <2>6, <2>7, <3>1
    <3> QED
      BY <2>6, <2>9, <3>3, <3>4, <3>5
  <2>11. ~((A - B) * Scale >= lock_margin * (A + B))
    BY <2>2, <2>6, <2>10, VoteConstants, NoLead
  <2> QED
    BY <2>2, <2>6, <2>11 DEF Carries, A, B
<1> QED
  BY <1>1, VoteInvHolds, PTL

\* The first of two weights leads the second by the margin.
LeadsBy(A, B, m) == (A - B) * Scale >= m * (A + B)

\* Two weights whose lead reaches the margin still do after the second has
\* fallen and both have been rescaled.
LEMMA LeadRemains ==
    ASSUME NEW A \in Nat, NEW B \in Nat, NEW V \in Nat, V <= B,
           NEW X \in Nat, NEW Y \in Nat, NEW m \in Nat,
           NEW p \in Nat \ {0}, NEW q \in Nat,
           Proportion(p, X, q, A), Proportion(p, Y, q, V), LeadsBy(A, B, m)
    PROVE  LeadsBy(X, Y, m)
<1> DEFINE S == Scale
           D == (A - V) * S - m * (A + V)
           E == (X - Y) * S - m * (X + Y)
<1>1. S \in Nat
  BY VoteConstants
<1> HIDE DEF S
<1>2. D >= 0 /\ D \in Int
  <2>1. (A - V) * S >= (A - B) * S /\ (A - V) * S \in Int /\ (A - B) * S \in Int
    <3>1. A - V \in Int /\ A - B \in Int /\ A - V >= A - B
      OBVIOUS
    <3> QED
      BY <1>1, <3>1, TimesMonotone
  <2>2. (A + B) * m >= (A + V) * m
    <3>1. A + V \in Int /\ A + B \in Int /\ A + B >= A + V
      OBVIOUS
    <3> QED
      BY <3>1, TimesMonotone
  <2>3. /\ (A + B) * m = m * (A + B) /\ (A + V) * m = m * (A + V)
        /\ m * (A + B) \in Int /\ m * (A + V) \in Int
    OBVIOUS
  <2>4. (A - B) * S >= m * (A + B)
    BY DEF S, LeadsBy
  <2> QED
    BY <2>1, <2>2, <2>3, <2>4
<1>3. p * E = q * D
  <2>1. p * E = (p * X - p * Y) * S - m * (p * X + p * Y)
    BY <1>1
  <2>2. q * D = (q * A - q * V) * S - m * (q * A + q * V)
    BY <1>1
  <2>3. p * X = q * A /\ p * Y = q * V
    BY DEF Proportion
  <2> HIDE DEF D, E
  <2> QED
    BY <2>1, <2>2, <2>3
<1>4. E \in Int
  BY <1>1
<1> HIDE DEF D, E
<1>5. q * D >= 0
  BY <1>2
<1>6. E >= 0
  <2>1. CASE E < 0
    <3>1. p * E < 0
      BY <1>4, <2>1
    <3>2. p * E \in Int /\ q * D \in Int
      BY <1>2, <1>4
    <3> QED
      BY <1>3, <1>5, <3>1, <3>2
  <2> QED
    BY <1>4, <2>1
<1>7. (X - Y) * S \in Int /\ m * (X + Y) \in Int
  BY <1>1
<1> QED
  BY <1>6, <1>7 DEF E, S, LeadsBy

\* A vote that carries still does when a code of the other side fits worse:
\* that code's weight falls, and where it was the best fit alone, all the
\* weights are rescaled together.
LEMMA CarriesOn ==
    ASSUME NEW c \in [Codes -> Costs], NEW b \in [Codes -> Bits],
           NEW x \in Bits, NEW m \in Nat, Carries(c, b, x, m),
           NEW j \in Codes, b[j] # x, NEW t \in Costs, t > c[j]
    PROVE  Carries([c EXCEPT ![j] = t], b, x, m)
<1> DEFINE h == [c EXCEPT ![j] = t]
           L == LeastCost(c)
           M == LeastCost(h)
           d == M - L
           w == Weights(c)
           u == Weights(h)
           v == [i \in Codes |-> Weight[h[i] - L]]
           A == Voters(b, x)
           B == Voters(b, 1 - x)
<1>1. /\ h \in [Codes -> Costs]
      /\ \A i \in Codes : h[i] >= c[i] /\ h[i] \in Nat /\ c[i] \in Nat
      /\ \A i \in A : h[i] = c[i]
  BY DEF Costs, Voters
<1>2. 1 - x \in Bits /\ 1 - (1 - x) = x
  BY OtherBit
<1>3. A \in SUBSET Codes /\ B \in SUBSET Codes
  BY DEF Voters
<1> HIDE DEF h, A, B
<1>4. L \in Nat /\ \A i \in Codes : L <= c[i]
  BY LeastFacts
<1>5. /\ M \in Nat /\ M \in Costs
      /\ \A i \in Codes : M <= h[i] /\ h[i] - M \in Costs
      /\ \E i \in Codes : h[i] = M
  BY <1>1, LeastFacts, WeightsFacts
<1> HIDE DEF L, M
<1>6. d \in Nat /\ d \in Costs
  <2>1. PICK i \in Codes : h[i] = M
    BY <1>5
  <2>2. L <= c[i] /\ c[i] <= h[i] /\ c[i] \in Nat /\ h[i] \in Nat
    BY <1>1, <1>4
  <2>3. L <= M /\ L \in Nat /\ M \in Nat
    BY <1>4, <1>5, <2>1, <2>2
  <2>4. M <= MaxCost /\ MaxCost \in Nat
    BY <1>5, VoteConstants DEF Costs
  <2> QED
    BY <2>3, <2>4 DEF Costs
<1>7. ASSUME NEW i \in Codes
      PROVE  /\ h[i] - L \in Costs /\ c[i] - L \in Costs
             /\ (h[i] - M) + d = h[i] - L
             /\ (c[i] - L) + (h[i] - c[i]) = h[i] - L
             /\ h[i] - c[i] \in Nat
  <2>1. /\ h[i] \in Nat /\ c[i] \in Nat /\ h[i] >= c[i] /\ L <= c[i]
        /\ h[i] <= MaxCost /\ MaxCost \in Nat
    BY <1>1, <1>4, VoteConstants DEF Costs
  <2> QED
    BY <1>4, <1>5, <2>1 DEF Costs
<1>8. w \in [Codes -> Nat] /\ u \in [Codes -> Nat] /\ IsFiniteSet(Codes)
  BY <1>1, WeightsFacts, VoteConstants
<1>9. v \in [Codes -> Nat]
  BY <1>7, VoteConstants
<1>10. \A i \in Codes : Weight[d] * u[i] = Weight[0] * v[i]
  <2> SUFFICES ASSUME NEW i \in Codes PROVE Weight[d] * u[i] = Weight[0] * v[i]
    OBVIOUS
  <2> DEFINE a == h[i] - M
             g == h[i] - L
  <2>1. u[i] = Weight[a] /\ v[i] = Weight[g]
    BY <1>1, WeightsFacts DEF M
  <2>2. a \in Costs /\ g \in Costs /\ a + d = g
    BY <1>5, <1>7
  <2> HIDE DEF a, g, d, u, v
  <2>3. Weight[a] * Weight[d] = Weight[g] * Weight[0]
    BY <1>6, <2>2, WeightIsGeometric
  <2>4. /\ Weight[a] \in Nat /\ Weight[d] \in Nat /\ Weight[g] \in Nat
        /\ 0 \in Costs /\ Weight[0] \in Nat
    <3>1. 0 \in Costs
      BY VoteConstants DEF Costs
    <3> QED
      BY <1>6, <2>2, <3>1, VoteConstants
  <2>5. Weight[d] * Weight[a] = Weight[a] * Weight[d]
    BY <2>4
  <2>6. Weight[0] * Weight[g] = Weight[g] * Weight[0]
    BY <2>4
  <2> QED
    BY <2>1, <2>3, <2>5, <2>6
<1>11. \A i \in Codes : v[i] <= w[i]
  <2> SUFFICES ASSUME NEW i \in Codes PROVE v[i] <= w[i]
    OBVIOUS
  <2> DEFINE a == c[i] - L
             e == h[i] - c[i]
  <2>1. w[i] = Weight[a] /\ v[i] = Weight[h[i] - L]
    BY WeightsFacts DEF L
  <2>2. a \in Costs /\ a + e \in Costs /\ a + e = h[i] - L /\ e \in Nat
    BY <1>7
  <2> HIDE DEF a, e, v, w
  <2>3. Weight[a + e] <= Weight[a]
    BY <2>2, WeightFalls
  <2> QED
    BY <2>1, <2>2, <2>3
<1>12. \A i \in A : v[i] = w[i]
  <2> SUFFICES ASSUME NEW i \in A PROVE v[i] = w[i]
    OBVIOUS
  <2>1. i \in Codes /\ h[i] = c[i]
    BY <1>1, <1>3
  <2>2. w[i] = Weight[c[i] - L] /\ v[i] = Weight[h[i] - L]
    BY <2>1, WeightsFacts DEF L
  <2> QED
    BY <2>1, <2>2
<1> DEFINE wA == SumOf(w, A)
           wB == SumOf(w, B)
           vA == SumOf(v, A)
           vB == SumOf(v, B)
           uA == SumOf(u, A)
           uB == SumOf(u, B)
           p == Weight[d]
           q == Weight[0]
<1>13. p \in Nat \ {0} /\ q \in Nat
  <2>1. 0 \in Costs
    BY VoteConstants DEF Costs
  <2> HIDE DEF d
  <2> QED
    BY <1>6, <2>1, VoteConstants
<1>14. /\ Votes(c, b, x) = wA /\ Votes(c, b, 1 - x) = wB
       /\ Votes(h, b, x) = uA /\ Votes(h, b, 1 - x) = uB
  BY <1>1, <1>3, WeightIsSum DEF Votes, A, B
<1> HIDE DEF w, u, v, d
<1>15. /\ wA \in Nat /\ wB \in Nat /\ vA \in Nat /\ vB \in Nat
       /\ uA \in Nat /\ uB \in Nat
  BY <1>3, <1>8, <1>9, SumIsNumber
<1>16. Proportion(p, uA, q, vA) /\ Proportion(p, uB, q, vB)
  <2>1. \A i \in Codes : Proportion(p, u[i], q, v[i])
    BY <1>10 DEF Proportion
  <2> HIDE DEF p, q
  <2>2. \A T \in SUBSET Codes : Proportion(p, SumOf(u, T), q, SumOf(v, T))
    <3> SUFFICES ASSUME NEW T \in SUBSET Codes
                 PROVE  Proportion(p, SumOf(u, T), q, SumOf(v, T))
      OBVIOUS
    <3>1. \A i \in T : Proportion(p, u[i], q, v[i])
      BY <2>1
    <3>2. p \in Nat /\ q \in Nat
      BY <1>13
    <3> QED
      BY <1>8, <1>9, <3>1, <3>2, SumScales
  <2> QED
    BY <1>3, <2>2
<1>17. vB <= wB
  <2>1. \A i \in B : v[i] <= w[i]
    BY <1>3, <1>11
  <2> QED
    BY <1>3, <1>8, <1>9, <2>1, SumMonotone
<1>18. vA = wA
  <2>1. \A i \in A : v[i] <= w[i] /\ w[i] <= v[i]
    <3>1. \A i \in A : v[i] = w[i] /\ w[i] \in Nat
      BY <1>3, <1>8, <1>12
    <3> QED
      BY <3>1
  <2>2. vA <= wA /\ wA <= vA
    BY <1>3, <1>8, <1>9, <2>1, SumMonotone
  <2> QED
    BY <1>15, <2>2
<1>19. /\ WeightOf(c, Codes) = wA + wB
       /\ WeightOf(h, Codes) = uA + uB
  BY <1>1, <1>14, VotesFacts
<1> HIDE DEF wA, wB, vA, vB, uA, uB, p, q
<1>20. LeadsBy(wA, wB, m)
  BY <1>14, <1>19 DEF Carries, LeadsBy
<1>21. Proportion(p, uA, q, wA)
  BY <1>16, <1>18
<1>22. LeadsBy(uA, uB, m)
  BY <1>13, <1>15, <1>16, <1>17, <1>20, <1>21, LeadRemains
<1> QED
  BY <1>14, <1>19, <1>22 DEF Carries, LeadsBy, h

\* Evidence counts the right way: the bit stays when a code that voted
\* against it fits worse, unless the group is no longer locked.
THEOREM EvidenceIsHeeded == Spec => []EvidenceCounts
<1>1. ASSUME VoteInv PROVE EvidenceCounts
  <2> SUFFICES ASSUME out \in Bits, NEW j \in Codes, bit[j] # out,
                      NEW c \in Costs, c > cost[j]
               PROVE  Decide([cost EXCEPT ![j] = c], bit, lock_floor, lock_margin) =
                          IF Locked(LeastCost([cost EXCEPT ![j] = c]), lock_floor)
                          THEN out ELSE Erasure
    BY DEF EvidenceCounts
  <2> DEFINE worse == [cost EXCEPT ![j] = c]
             d == Decide(worse, bit, lock_floor, lock_margin)
             L == Locked(LeastCost(worse), lock_floor)
  <2>1. out # Pending
    BY OtherBit
  <2>2. /\ cost \in [Codes -> Costs] /\ bit \in [Codes -> Bits]
        /\ lock_margin \in Nat \ {0}
        /\ Carries(cost, bit, out, lock_margin)
    BY <1>1, <2>1, Decided
  <2>3. worse \in [Codes -> Costs]
    BY <2>2
  <2>4. Carries(worse, bit, out, lock_margin)
    BY <2>2, CarriesOn
  <2> HIDE DEF worse
  <2>5. /\ d \in Bits \cup {Erasure}
        /\ \A x \in Bits : d = x <=> L /\ Carries(worse, bit, x, lock_margin)
    BY <2>2, <2>3, DecideCases
  <2> HIDE DEF d, L
  <2>6. CASE L
    BY <2>4, <2>5, <2>6 DEF d, L, worse
  <2>7. CASE ~L
    BY <2>5, <2>7 DEF d, L, worse
  <2> QED
    BY <2>6, <2>7
<1> QED
  BY <1>1, VoteInvHolds, PTL
=============================================================================
