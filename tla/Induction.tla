----------------------------- MODULE Induction -----------------------------
(* Induction in the form the provers can use: over the members of a set    *)
(* instead of over an operator.  A property of numbers is the set of the   *)
(* numbers that have it, a property of finite sets a set of sets, and the  *)
(* step of a recursion is a function.  The minimal counterexample comes    *)
(* from the well-foundedness of < on Nat.                                  *)
EXTENDS Integers, Functions, FiniteSetsExt, FiniteSetTheorems, WellFoundedInduction, TLAPS

\* A set of numbers that has 0, and the successor of each of its members,
\* has every number.
LEMMA NumberInduction ==
    ASSUME NEW T, 0 \in T, \A n \in Nat : n \in T => n + 1 \in T
    PROVE  Nat \subseteq T
<1> DEFINE missing == Nat \ T
           less == OpToRel(<, Nat)
<1>1. SUFFICES ASSUME missing # {} PROVE FALSE
  OBVIOUS
<1>2. IsWellFoundedOn(less, Nat)
  BY NatLessThanWellFounded
<1>3. missing \subseteq Nat
  OBVIOUS
<1>4. PICK m \in missing : \A y \in missing : ~(<<y, m>> \in less)
  <2> HIDE DEF less, missing
  <2> QED
    BY <1>1, <1>2, <1>3, WFMin
<1>5. m \in Nat /\ m # 0
  BY <1>4
<1>6. m - 1 \in Nat /\ m - 1 < m /\ (m - 1) + 1 = m
  BY <1>5
<1>7. <<m - 1, m>> \in less
  BY <1>5, <1>6 DEF OpToRel
<1>8. m - 1 \in T
  BY <1>4, <1>6, <1>7
<1>9. (m - 1) + 1 \in T
  BY <1>6, <1>8
<1> QED
  BY <1>6, <1>9

\* A set of sets that has {}, and with a part of S that part with one more
\* element of S, has S itself.
LEMMA FiniteSetInduction ==
    ASSUME NEW S, IsFiniteSet(S), NEW F, {} \in F,
           \A T \in SUBSET S : \A x \in S \ T : T \in F => T \cup {x} \in F
    PROVE  S \in F
<1> DEFINE K == {n \in Nat : \A T \in SUBSET S : Cardinality(T) = n => T \in F}
<1>1. \A T \in SUBSET S : IsFiniteSet(T) /\ Cardinality(T) \in Nat
  BY FS_Subset, FS_CardinalityType
<1>2. 0 \in K
  BY <1>1, FS_EmptySet
<1>3. ASSUME NEW n \in Nat, n \in K PROVE n + 1 \in K
  <2>1. SUFFICES ASSUME NEW T \in SUBSET S, Cardinality(T) = n + 1 PROVE T \in F
    OBVIOUS
  <2>2. T # {}
    <3>1. CASE T = {}
      BY <2>1, <3>1, FS_EmptySet
    <3> QED
      BY <3>1
  <2>3. PICK x : x \in T
    BY <2>2
  <2>4. Cardinality(T \ {x}) = n
    <3>1. IsFiniteSet(T) /\ Cardinality(T) = n + 1
      BY <1>1, <2>1
    <3>2. Cardinality(T \ {x}) = Cardinality(T) - 1
      BY <2>3, <3>1, FS_RemoveElement
    <3> QED
      BY <3>1, <3>2
  <2>5. T \ {x} \in F
    BY <1>3, <2>1, <2>4
  <2>6. (T \ {x}) \cup {x} \in F
    BY <2>1, <2>3, <2>5
  <2>7. (T \ {x}) \cup {x} = T
    BY <2>3
  <2> QED
    BY <2>6, <2>7
<1>4. Nat \subseteq K
  <2> HIDE DEF K
  <2> QED
    BY <1>2, <1>3, NumberInduction
<1>5. S \in SUBSET S /\ Cardinality(S) \in K
  BY <1>1, <1>4
<1>6. \A T \in SUBSET S : Cardinality(T) = Cardinality(S) => T \in F
  BY <1>5
<1> QED
  BY <1>6

\* f is what the recursion from `base` by `step` computes over 0 .. n.
Solves(f, base, step, n) ==
    \A k \in 0 .. n : f[k] = IF k = 0 THEN base ELSE step[<<k, f[k - 1]>>]

\* A recursion over 0 .. n has a solution.
LEMMA RecursionExists ==
    ASSUME NEW V, NEW base \in V, NEW n \in Nat,
           NEW step \in [(1 .. n) \X V -> V]
    PROVE  \E f \in [0 .. n -> V] : Solves(f, base, step, n)
<1> DEFINE T == {m \in Nat : m <= n =>
                     \E f \in [0 .. m -> V] : Solves(f, base, step, m)}
<1>1. 0 \in T
  <2> DEFINE f == [k \in 0 .. 0 |-> base]
  <2>1. f \in [0 .. 0 -> V] /\ Solves(f, base, step, 0)
    BY DEF Solves
  <2> QED
    BY <2>1
<1>2. ASSUME NEW m \in Nat, m \in T PROVE m + 1 \in T
  <2> SUFFICES ASSUME m + 1 <= n
                PROVE  \E f \in [0 .. (m + 1) -> V] : Solves(f, base, step, m + 1)
    OBVIOUS
  <2>0. m <= n
    OBVIOUS
  <2>1. PICK f \in [0 .. m -> V] : Solves(f, base, step, m)
    BY <1>2, <2>0
  <2> DEFINE top == step[<<m + 1, f[m]>>]
             g == [k \in 0 .. (m + 1) |-> IF k <= m THEN f[k] ELSE top]
  <2>2. m + 1 \in 1 .. n /\ f[m] \in V
    OBVIOUS
  <2>3. top \in V
    BY <2>2
  <2>4. g \in [0 .. (m + 1) -> V]
    <3> HIDE DEF top
    <3> QED
      BY <2>3
  <2>5. \A k \in 0 .. m : g[k] = f[k]
    OBVIOUS
  <2>6. g[m + 1] = top
    OBVIOUS
  <2>7. ASSUME NEW k \in 0 .. (m + 1)
        PROVE  g[k] = IF k = 0 THEN base ELSE step[<<k, g[k - 1]>>]
    <3> HIDE DEF g, top
    <3>1. CASE k = 0
      <4>1. 0 \in 0 .. m
        OBVIOUS
      <4>2. f[0] = base
        BY <2>1, <4>1 DEF Solves
      <4>3. g[0] = base
        BY <2>5, <4>1, <4>2
      <4> QED
        BY <3>1, <4>3
    <3>2. CASE k > 0 /\ k <= m
      <4>1. k \in 0 .. m /\ k - 1 \in 0 .. m
        BY <3>2
      <4>2. g[k] = f[k] /\ g[k - 1] = f[k - 1]
        BY <2>5, <4>1
      <4>3. f[k] = step[<<k, f[k - 1]>>]
        BY <2>1, <3>2, <4>1 DEF Solves
      <4> QED
        BY <3>2, <4>2, <4>3
    <3>3. CASE k = m + 1
      <4>1. k - 1 = m /\ m \in 0 .. m /\ k # 0
        BY <3>3
      <4>2. g[k - 1] = f[m]
        BY <2>5, <4>1
      <4>3. g[k] = step[<<k, f[m]>>]
        BY <2>6, <3>3 DEF top
      <4> QED
        BY <4>1, <4>2, <4>3
    <3> QED
      BY <3>1, <3>2, <3>3
  <2>8. Solves(g, base, step, m + 1)
    <3> HIDE DEF g
    <3> QED
      BY <2>7 DEF Solves
  <2> QED
    BY <2>2, <2>4, <2>8
<1>3. Nat \subseteq T
  <2> HIDE DEF T
  <2> QED
    BY <1>1, <1>2, NumberInduction
<1>4. n \in T /\ n <= n
  BY <1>3
<1> QED
  BY <1>4

\* A set that has every part of S whose own smaller parts it has, has every
\* part of S.
LEMMA SubsetInduction ==
    ASSUME NEW S, IsFiniteSet(S), NEW F,
           \A s \in SUBSET S :
              (\A r \in SUBSET s : r # s => r \in F) => s \in F
    PROVE  SUBSET S \subseteq F
<1> DEFINE K == {n \in Nat : \A s \in SUBSET S : Cardinality(s) <= n => s \in F}
<1>1. \A s \in SUBSET S : IsFiniteSet(s) /\ Cardinality(s) \in Nat
  BY FS_Subset, FS_CardinalityType
<1>2. \A s \in SUBSET S : \A r \in SUBSET s :
         r # s => r \in SUBSET S /\ Cardinality(r) < Cardinality(s)
  <2> SUFFICES ASSUME NEW s \in SUBSET S, NEW r \in SUBSET s, r # s
               PROVE  r \in SUBSET S /\ Cardinality(r) < Cardinality(s)
    OBVIOUS
  <2>1. Cardinality(r) <= Cardinality(s) /\ Cardinality(r) # Cardinality(s)
    <3>1. IsFiniteSet(s)
      BY <1>1
    <3> QED
      BY <3>1, FS_Subset
  <2>2. r \in SUBSET S
    OBVIOUS
  <2>3. Cardinality(r) \in Nat /\ Cardinality(s) \in Nat
    BY <1>1, <2>2
  <2> QED
    BY <2>1, <2>2, <2>3
<1>3. 0 \in K
  <2> SUFFICES ASSUME NEW s \in SUBSET S, Cardinality(s) <= 0 PROVE s \in F
    OBVIOUS
  <2>1. ASSUME NEW r \in SUBSET s, r # s PROVE FALSE
    <3>1. r \in SUBSET S /\ Cardinality(r) < Cardinality(s)
      BY <1>2, <2>1
    <3>2. Cardinality(r) \in Nat /\ Cardinality(s) \in Nat
      BY <1>1, <3>1
    <3> QED
      BY <3>1, <3>2
  <2> QED
    BY <2>1
<1>4. ASSUME NEW n \in Nat, n \in K PROVE n + 1 \in K
  <2> SUFFICES ASSUME NEW s \in SUBSET S, Cardinality(s) <= n + 1 PROVE s \in F
    OBVIOUS
  <2>1. ASSUME NEW r \in SUBSET s, r # s PROVE r \in F
    <3>1. r \in SUBSET S /\ Cardinality(r) < Cardinality(s)
      BY <1>2, <2>1
    <3>2. Cardinality(r) <= n
      BY <1>1, <3>1
    <3> QED
      BY <1>4, <3>1, <3>2
  <2> QED
    BY <2>1
<1>5. Nat \subseteq K
  <2> HIDE DEF K
  <2> QED
    BY <1>3, <1>4, NumberInduction
<1>6. ASSUME NEW s \in SUBSET S PROVE s \in F
  <2>1. Cardinality(s) \in K /\ Cardinality(s) <= Cardinality(s)
    BY <1>1, <1>5
  <2> QED
    BY <2>1
<1> QED
  BY <1>6

\* A set of numbers that is not empty has a least member.
LEMMA LeastExists ==
    ASSUME NEW S, S \subseteq Nat, S # {}
    PROVE  \E m \in S : \A x \in S : m <= x
<1> DEFINE less == OpToRel(<, Nat)
<1>1. IsWellFoundedOn(less, Nat)
  BY NatLessThanWellFounded
<1>2. PICK m \in S : \A y \in S : ~(<<y, m>> \in less)
  <2> HIDE DEF less
  <2> QED
    BY <1>1, WFMin
<1>3. ASSUME NEW x \in S PROVE m <= x
  <2>1. m \in Nat /\ x \in Nat /\ ~(<<x, m>> \in less)
    BY <1>2
  <2> QED
    BY <2>1 DEF OpToRel
<1> QED
  BY <1>3
\* f folds every part of S by F, taking out first the element that `pick`
\* names.
FoldOf(f, F, base, pick, s) ==
    IF s = {} THEN base ELSE F[<<f[s \ {pick[s]}], pick[s]>>]

FoldsBy(f, F, base, pick, S) ==
    \A s \in SUBSET S : f[s] = FoldOf(f, F, base, pick, s)

Picks(pick, S) == \A s \in SUBSET S : s # {} => pick[s] \in s

\* A fold over the parts of a finite set has a solution.
LEMMA FoldExists ==
    ASSUME NEW S, IsFiniteSet(S), NEW A, NEW base \in A, NEW pick,
           Picks(pick, S), NEW F \in [A \X S -> A]
    PROVE  \E f \in [SUBSET S -> A] : FoldsBy(f, F, base, pick, S)
<1> DEFINE Good(f, n) == \A s \in SUBSET S :
                 Cardinality(s) <= n => f[s] = FoldOf(f, F, base, pick, s)
           K == {n \in Nat : \E f \in [SUBSET S -> A] : Good(f, n)}
<1>1. \A s \in SUBSET S : IsFiniteSet(s) /\ Cardinality(s) \in Nat
  BY FS_Subset, FS_CardinalityType
<1>2. ASSUME NEW s \in SUBSET S, NEW x \in s
      PROVE  s \ {x} \in SUBSET S /\ Cardinality(s \ {x}) = Cardinality(s) - 1
  <2>1. IsFiniteSet(s)
    BY <1>1
  <2> QED
    BY <2>1, FS_RemoveElement
<1>3. ASSUME NEW f \in [SUBSET S -> A], NEW s \in SUBSET S
      PROVE  FoldOf(f, F, base, pick, s) \in A
  <2>1. CASE s = {}
    BY <2>1 DEF FoldOf
  <2>2. CASE s # {}
    <3>1. pick[s] \in s
      BY <2>2 DEF Picks
    <3>2. <<f[s \ {pick[s]}], pick[s]>> \in A \X S
      BY <3>1
    <3>3. F[<<f[s \ {pick[s]}], pick[s]>>] \in A
      BY <3>2
    <3> QED
      BY <2>2, <3>3 DEF FoldOf
  <2> QED
    BY <2>1, <2>2
<1>4. 0 \in K
  <2> DEFINE f == [s \in SUBSET S |-> base]
  <2>1. ASSUME NEW s \in SUBSET S, Cardinality(s) <= 0
        PROVE  f[s] = FoldOf(f, F, base, pick, s)
    <3>1. Cardinality(s) = 0 /\ IsFiniteSet(s)
      BY <1>1, <2>1
    <3>2. s = {}
      BY <3>1, FS_EmptySet
    <3> QED
      BY <3>2 DEF FoldOf
  <2>2. f \in [SUBSET S -> A] /\ Good(f, 0)
    BY <2>1
  <2> QED
    BY <2>2
<1>5. ASSUME NEW n \in Nat, n \in K PROVE n + 1 \in K
  <2>1. PICK f \in [SUBSET S -> A] : Good(f, n)
    BY <1>5
  <2> DEFINE g == [s \in SUBSET S |-> FoldOf(f, F, base, pick, s)]
  <2>2. g \in [SUBSET S -> A]
    BY <1>3
  <2>3. \A s \in SUBSET S : g[s] = FoldOf(f, F, base, pick, s)
    OBVIOUS
  <2> HIDE DEF g
  <2>4. ASSUME NEW s \in SUBSET S, Cardinality(s) <= n PROVE g[s] = f[s]
    BY <2>1, <2>3, <2>4
  <2>5. ASSUME NEW s \in SUBSET S, Cardinality(s) <= n + 1
        PROVE  g[s] = FoldOf(g, F, base, pick, s)
    <3>1. CASE s = {}
      BY <2>3, <3>1 DEF FoldOf
    <3>2. CASE s # {}
      <4>1. pick[s] \in s
        BY <3>2 DEF Picks
      <4>2. s \ {pick[s]} \in SUBSET S /\ Cardinality(s \ {pick[s]}) <= n
        <5>1. /\ s \ {pick[s]} \in SUBSET S
              /\ Cardinality(s \ {pick[s]}) = Cardinality(s) - 1
          BY <1>2, <4>1
        <5>2. Cardinality(s) \in Nat
          BY <1>1
        <5> QED
          BY <2>5, <5>1, <5>2
      <4>3. g[s \ {pick[s]}] = f[s \ {pick[s]}]
        BY <2>4, <4>2
      <4> QED
        BY <2>3, <3>2, <4>3 DEF FoldOf
    <3> QED
      BY <3>1, <3>2
  <2> QED
    BY <2>2, <2>5
<1>6. Nat \subseteq K
  <2> HIDE DEF K
  <2> QED
    BY <1>4, <1>5, NumberInduction
<1>7. Cardinality(S) \in K
  BY <1>6, FS_CardinalityType
<1>8. PICK f \in [SUBSET S -> A] : Good(f, Cardinality(S))
  BY <1>7
<1>9. ASSUME NEW s \in SUBSET S
      PROVE  f[s] = FoldOf(f, F, base, pick, s)
  <2>1. Cardinality(s) <= Cardinality(S)
    BY FS_Subset
  <2> QED
    BY <1>8, <2>1
<1> QED
  BY <1>9 DEF FoldsBy

----------------------------------------------------------------------------
(* Sums of natural numbers, or of integers, over the parts of a finite set. *)

SumOf(w, S) == MapThenSumSet(LAMBDA x : w[x], S)

Chosen(s) == CHOOSE x \in s : TRUE

\* What the recursion of the sum makes of the part s, given its own values.
SumBody(f, w, s) ==
    IF s = {} THEN 0 ELSE w[Chosen(s)] + f[s \ {Chosen(s)}]

SolvesSum(f, w, S) == f = [s \in SUBSET S |-> SumBody(f, w, s)]

LEMMA SumIsChosen ==
    ASSUME NEW w, NEW S
    PROVE  SumOf(w, S) = (CHOOSE f : SolvesSum(f, w, S))[S]
  BY DEF SumOf, MapThenSumSet, MapThenFoldSet, SolvesSum, SumBody, Chosen

LEMMA ChosenIn == \A s : s # {} => Chosen(s) \in s
  BY DEF Chosen

LEMMA BodyOfNonempty ==
    \A f, w, s : s # {} =>
        SumBody(f, w, s) = w[Chosen(s)] + f[s \ {Chosen(s)}]
  BY DEF SumBody

\* The recursion has a solution: the parts of at most n elements have one.
LEMMA SumExists ==
    ASSUME NEW S, IsFiniteSet(S), NEW A \in {Nat, Int}, NEW w \in [S -> A]
    PROVE  \E f \in [SUBSET S -> A] : SolvesSum(f, w, S)
<1> DEFINE Good(f, n) == \A s \in SUBSET S :
                            Cardinality(s) <= n => f[s] = SumBody(f, w, s)
           K == {n \in Nat : \E f \in [SUBSET S -> A] : Good(f, n)}
<1>1. \A s \in SUBSET S : IsFiniteSet(s) /\ Cardinality(s) \in Nat
  BY FS_Subset, FS_CardinalityType
<1>2. ASSUME NEW s \in SUBSET S, NEW x \in s
      PROVE  s \ {x} \in SUBSET S /\ Cardinality(s \ {x}) = Cardinality(s) - 1
  <2>1. IsFiniteSet(s)
    BY <1>1
  <2> QED
    BY <2>1, FS_RemoveElement
<1>3. 0 \in K
  <2> DEFINE f == [s \in SUBSET S |-> 0]
  <2>1. ASSUME NEW s \in SUBSET S, Cardinality(s) <= 0
        PROVE  f[s] = SumBody(f, w, s)
    <3>1. Cardinality(s) = 0 /\ IsFiniteSet(s)
      BY <1>1, <2>1
    <3>2. s = {}
      BY <3>1, FS_EmptySet
    <3> QED
      BY <3>2 DEF SumBody
  <2>2. f \in [SUBSET S -> A] /\ Good(f, 0)
    BY <2>1
  <2> QED
    BY <2>2
<1>4. ASSUME NEW n \in Nat, n \in K PROVE n + 1 \in K
  <2>1. PICK f \in [SUBSET S -> A] : Good(f, n)
    BY <1>4
  <2> DEFINE g == [s \in SUBSET S |->
                      IF Cardinality(s) <= n + 1 THEN SumBody(f, w, s) ELSE 0]
  <2>2. ASSUME NEW s \in SUBSET S PROVE SumBody(f, w, s) \in A
    <3>1. CASE s = {}
      BY <3>1 DEF SumBody
    <3>2. CASE s # {}
      <4>1. PICK x \in s : SumBody(f, w, s) = w[x] + f[s \ {x}]
        BY <3>2, ChosenIn, BodyOfNonempty
      <4>2. w[x] \in A /\ f[s \ {x}] \in A
        BY <1>2
      <4> QED
        BY <4>1, <4>2
    <3> QED
      BY <3>1, <3>2
  <2>3. g \in [SUBSET S -> A]
    BY <2>2
  <2>4. \A s \in SUBSET S : Cardinality(s) <= n + 1 => g[s] = SumBody(f, w, s)
    OBVIOUS
  <2>5. ASSUME NEW s \in SUBSET S, Cardinality(s) <= n PROVE g[s] = f[s]
    <3>1. Cardinality(s) <= n + 1
      BY <1>1, <2>5
    <3> HIDE DEF g
    <3> QED
      BY <2>1, <2>4, <2>5, <3>1
  <2> HIDE DEF g
  <2>6. ASSUME NEW s \in SUBSET S, Cardinality(s) <= n + 1
        PROVE  g[s] = SumBody(g, w, s)
    <3>1. CASE s = {}
      BY <2>4, <2>6, <3>1 DEF SumBody
    <3>2. CASE s # {}
      <4>1. PICK x \in s : /\ x = Chosen(s)
                           /\ SumBody(f, w, s) = w[x] + f[s \ {x}]
        BY <3>2, ChosenIn, BodyOfNonempty
      <4>2. SumBody(g, w, s) = w[x] + g[s \ {x}]
        BY <3>2, <4>1, BodyOfNonempty
      <4>3. s \ {x} \in SUBSET S /\ Cardinality(s \ {x}) <= n
        <5>1. s \ {x} \in SUBSET S /\ Cardinality(s \ {x}) = Cardinality(s) - 1
          BY <1>2
        <5>2. Cardinality(s) \in Nat
          BY <1>1
        <5> QED
          BY <2>6, <5>1, <5>2
      <4>4. g[s \ {x}] = f[s \ {x}]
        BY <2>5, <4>3
      <4> QED
        BY <2>4, <2>6, <4>1, <4>2, <4>4
    <3> QED
      BY <3>1, <3>2
  <2> QED
    BY <2>3, <2>6
<1>5. Nat \subseteq K
  <2> HIDE DEF K
  <2> QED
    BY <1>3, <1>4, NumberInduction
<1>6. Cardinality(S) \in K
  BY <1>5, FS_CardinalityType
<1>7. PICK f \in [SUBSET S -> A] : Good(f, Cardinality(S))
  BY <1>6
<1>8. ASSUME NEW s \in SUBSET S PROVE f[s] = SumBody(f, w, s)
  <2>1. Cardinality(s) <= Cardinality(S)
    BY FS_Subset
  <2> QED
    BY <1>7, <2>1
<1>9. f = [s \in SUBSET S |-> f[s]]
  OBVIOUS
<1>10. f = [s \in SUBSET S |-> SumBody(f, w, s)]
  <2>1. [s \in SUBSET S |-> f[s]] = [s \in SUBSET S |-> SumBody(f, w, s)]
    BY <1>8, Zenon
  <2> QED
    BY <1>9, <2>1
<1> QED
  BY <1>10 DEF SolvesSum

\* The solutions over two sets agree on what both solve.
LEMMA SumUnique ==
    ASSUME NEW S, IsFiniteSet(S), NEW T \in SUBSET S, NEW w, NEW f, NEW g,
           SolvesSum(f, w, S), SolvesSum(g, w, T)
    PROVE  \A s \in SUBSET T : f[s] = g[s]
<1> DEFINE F == {s \in SUBSET T : f[s] = g[s]}
<1>1. IsFiniteSet(T)
  BY FS_Subset
<1>2. \A s \in SUBSET T : f[s] = SumBody(f, w, s) /\ g[s] = SumBody(g, w, s)
  BY DEF SolvesSum
<1>3. ASSUME NEW s \in SUBSET T, \A r \in SUBSET s : r # s => r \in F
      PROVE  s \in F
  <2>1. CASE s = {}
    BY <1>2, <2>1 DEF SumBody
  <2>2. CASE s # {}
    <3>1. PICK x \in s : /\ x = Chosen(s)
                         /\ SumBody(f, w, s) = w[x] + f[s \ {x}]
      BY <2>2, ChosenIn, BodyOfNonempty
    <3>2. SumBody(g, w, s) = w[x] + g[s \ {x}]
      BY <2>2, <3>1, BodyOfNonempty
    <3>3. s \ {x} \in F
      BY <1>3
    <3>4. f[s \ {x}] = g[s \ {x}]
      BY <3>3
    <3> QED
      BY <1>2, <3>1, <3>2, <3>4
  <2> QED
    BY <2>1, <2>2
<1>4. SUBSET T \subseteq F
  <2> HIDE DEF F
  <2> QED
    BY <1>1, <1>3, SubsetInduction
<1> QED
  BY <1>4

\* A solution, restricted to the parts of a part, is one there.
LEMMA SolutionRestricts ==
    ASSUME NEW S, NEW w, NEW f, SolvesSum(f, w, S), NEW T \in SUBSET S
    PROVE  \E g : SolvesSum(g, w, T) /\ \A s \in SUBSET T : g[s] = f[s]
<1> DEFINE g == [s \in SUBSET T |-> f[s]]
<1>1. \A s \in SUBSET T : f[s] = SumBody(f, w, s)
  BY DEF SolvesSum
<1>2. ASSUME NEW s \in SUBSET T PROVE g[s] = SumBody(g, w, s)
  <2>1. CASE s = {}
    BY <1>1, <2>1 DEF SumBody
  <2>2. CASE s # {}
    <3>1. PICK x \in s : /\ x = Chosen(s)
                         /\ SumBody(f, w, s) = w[x] + f[s \ {x}]
      BY <2>2, ChosenIn, BodyOfNonempty
    <3>2. SumBody(g, w, s) = w[x] + g[s \ {x}]
      <4> HIDE DEF g
      <4> QED
        BY <2>2, <3>1, BodyOfNonempty
    <3>3. g[s \ {x}] = f[s \ {x}] /\ g[s] = f[s]
      OBVIOUS
    <3> HIDE DEF g
    <3> QED
      BY <1>1, <3>1, <3>2, <3>3
  <2> QED
    BY <2>1, <2>2
<1>3. g = [s \in SUBSET T |-> SumBody(g, w, s)]
  <2>1. g = [s \in SUBSET T |-> g[s]]
    OBVIOUS
  <2> HIDE DEF g
  <2>2. [s \in SUBSET T |-> g[s]] = [s \in SUBSET T |-> SumBody(g, w, s)]
    BY <1>2, Zenon
  <2> QED
    BY <2>1, <2>2
<1>4. SolvesSum(g, w, T) /\ \A s \in SUBSET T : g[s] = f[s]
  BY <1>3 DEF SolvesSum
<1> HIDE DEF g
<1> QED
  BY <1>4

\* f is the sum over every part of S.
Sums(f, w, S, A) ==
    /\ f \in [SUBSET S -> A]
    /\ SolvesSum(f, w, S)
    /\ \A T \in SUBSET S : SumOf(w, T) = f[T]

\* The sum over a part is what any solution over the whole says of it.
LEMMA SumIsSolution ==
    ASSUME NEW S, IsFiniteSet(S), NEW A \in {Nat, Int}, NEW w \in [S -> A]
    PROVE  \E f : Sums(f, w, S, A)
<1>1. PICK f \in [SUBSET S -> A] : SolvesSum(f, w, S)
  BY SumExists
<1>2. ASSUME NEW T \in SUBSET S PROVE SumOf(w, T) = f[T]
  <2> DEFINE h == CHOOSE k : SolvesSum(k, w, T)
  <2>1. \E g : SolvesSum(g, w, T)
    BY <1>1, SolutionRestricts
  <2>2. SolvesSum(h, w, T)
    BY <2>1
  <2>3. SumOf(w, T) = h[T]
    BY SumIsChosen
  <2> HIDE DEF h
  <2>4. \A s \in SUBSET T : f[s] = h[s]
    BY <1>1, <2>2, SumUnique
  <2> QED
    BY <2>3, <2>4
<1> QED
  BY <1>1, <1>2 DEF Sums

LEMMA SumOfNone ==
    ASSUME NEW S, IsFiniteSet(S), NEW A \in {Nat, Int}, NEW w \in [S -> A]
    PROVE  SumOf(w, {}) = 0
<1>1. PICK f : Sums(f, w, S, A)
  BY SumIsSolution
<1>2. f[{}] = SumBody(f, w, {})
  BY <1>1 DEF Sums, SolvesSum
<1> QED
  BY <1>1, <1>2 DEF SumBody, Sums

\* Any element may be taken out first.
LEMMA SumRemoves ==
    ASSUME NEW S, IsFiniteSet(S), NEW A \in {Nat, Int}, NEW w \in [S -> A],
           NEW T \in SUBSET S, NEW x \in T
    PROVE  /\ SumOf(w, T) \in A /\ SumOf(w, T \ {x}) \in A
           /\ SumOf(w, T) = w[x] + SumOf(w, T \ {x})
<1>1. PICK f : Sums(f, w, S, A)
  BY SumIsSolution
<1> DEFINE F == {s \in SUBSET S : \A y \in s : f[s] = w[y] + f[s \ {y}]}
<1>2. \A s \in SUBSET S : f[s] = SumBody(f, w, s) /\ f[s] \in A
  BY <1>1 DEF Sums, SolvesSum
<1>3. ASSUME NEW s \in SUBSET S, \A r \in SUBSET s : r # s => r \in F
      PROVE  s \in F
  <2> SUFFICES ASSUME NEW y \in s PROVE f[s] = w[y] + f[s \ {y}]
    OBVIOUS
  <2>1. PICK z \in s : f[s] = w[z] + f[s \ {z}]
    BY <1>2, ChosenIn, BodyOfNonempty
  <2>2. CASE z = y
    BY <2>1, <2>2
  <2>3. CASE z # y
    <3> DEFINE rest == (s \ {y}) \ {z}
    <3>1. s \ {z} \in F /\ s \ {y} \in F
      BY <1>3
    <3>2. (s \ {z}) \ {y} = rest
      OBVIOUS
    <3>3. f[s \ {z}] = w[y] + f[rest]
      BY <2>3, <3>1, <3>2
    <3>4. f[s \ {y}] = w[z] + f[rest]
      BY <2>3, <3>1
    <3>5. w[y] \in A /\ w[z] \in A /\ f[rest] \in A
      BY <1>2
    <3> HIDE DEF rest
    <3> QED
      BY <2>1, <3>3, <3>4, <3>5
  <2> QED
    BY <2>2, <2>3
<1>4. SUBSET S \subseteq F
  <2> HIDE DEF F
  <2> QED
    BY <1>3, SubsetInduction
<1>5. T \ {x} \in SUBSET S
  OBVIOUS
<1> QED
  BY <1>1, <1>2, <1>4, <1>5 DEF Sums

LEMMA SumIsNumber ==
    ASSUME NEW S, IsFiniteSet(S), NEW A \in {Nat, Int}, NEW w \in [S -> A],
           NEW T \in SUBSET S
    PROVE  SumOf(w, T) \in A
<1>1. PICK f : Sums(f, w, S, A)
  BY SumIsSolution
<1> QED
  BY <1>1 DEF Sums

LEMMA SumAtLeast ==
    ASSUME NEW S, IsFiniteSet(S), NEW w \in [S -> Nat],
           NEW T \in SUBSET S, NEW x \in T
    PROVE  w[x] <= SumOf(w, T)
<1>1. /\ SumOf(w, T) = w[x] + SumOf(w, T \ {x})
      /\ SumOf(w, T) \in Nat /\ SumOf(w, T \ {x}) \in Nat
  BY SumRemoves
<1>2. w[x] \in Nat
  OBVIOUS
<1> QED
  BY <1>1, <1>2

\* One element more.
LEMMA SumAdds ==
    ASSUME NEW S, IsFiniteSet(S), NEW A \in {Nat, Int}, NEW w \in [S -> A],
           NEW T \in SUBSET S, NEW x \in S \ T
    PROVE  SumOf(w, T \cup {x}) = w[x] + SumOf(w, T)
<1>1. T \cup {x} \in SUBSET S /\ x \in T \cup {x} /\ (T \cup {x}) \ {x} = T
  OBVIOUS
<1> QED
  BY <1>1, SumRemoves

\* The sum over a part and the sum over the rest make the whole.
LEMMA SumSplits ==
    ASSUME NEW S, IsFiniteSet(S), NEW A \in {Nat, Int}, NEW w \in [S -> A],
           NEW T \in SUBSET S
    PROVE  SumOf(w, S) = SumOf(w, T) + SumOf(w, S \ T)
<1> DEFINE R == S \ T
           F == {U \in SUBSET R : SumOf(w, T \cup U) = SumOf(w, T) + SumOf(w, U)}
<1>1. \A U \in SUBSET S : SumOf(w, U) \in A
  BY SumIsNumber
<1>2. {} \in F
  <2>1. T \cup {} = T
    OBVIOUS
  <2>2. SumOf(w, {}) = 0 /\ SumOf(w, T) \in A
    BY <1>1, SumOfNone
  <2> QED
    BY <2>1, <2>2
<1>3. ASSUME NEW U \in SUBSET R, NEW x \in R \ U, U \in F
      PROVE  U \cup {x} \in F
  <2>1. /\ U \in SUBSET S /\ T \cup U \in SUBSET S
        /\ x \in S \ U /\ x \in S \ (T \cup U)
        /\ T \cup (U \cup {x}) = (T \cup U) \cup {x}
    OBVIOUS
  <2>2. SumOf(w, U \cup {x}) = w[x] + SumOf(w, U)
    BY <2>1, SumAdds
  <2>3. SumOf(w, (T \cup U) \cup {x}) = w[x] + SumOf(w, T \cup U)
    BY <2>1, SumAdds
  <2>4. SumOf(w, T \cup U) = SumOf(w, T) + SumOf(w, U)
    BY <1>3
  <2>5. w[x] \in A /\ SumOf(w, T) \in A /\ SumOf(w, U) \in A
    BY <1>1, <2>1
  <2>6. SumOf(w, T \cup (U \cup {x})) = w[x] + (SumOf(w, T) + SumOf(w, U))
    BY <2>1, <2>3, <2>4
  <2>7. w[x] + (SumOf(w, T) + SumOf(w, U)) = SumOf(w, T) + (w[x] + SumOf(w, U))
    BY <2>5
  <2>8. SumOf(w, T \cup (U \cup {x})) = SumOf(w, T) + SumOf(w, U \cup {x})
    BY <2>2, <2>6, <2>7
  <2> QED
    BY <2>1, <2>8
<1>4. IsFiniteSet(R)
  BY FS_Subset
<1>5. R \in F
  <2> HIDE DEF F, R
  <2> QED
    BY <1>2, <1>3, <1>4, FiniteSetInduction
<1>6. T \cup R = S
  OBVIOUS
<1> QED
  BY <1>5, <1>6

\* What two functions agree on they sum to the same.
LEMMA SumAgrees ==
    ASSUME NEW S, IsFiniteSet(S), NEW A \in {Nat, Int}, NEW w \in [S -> A],
           NEW V, IsFiniteSet(V), NEW v \in [V -> A],
           NEW T, T \subseteq S, T \subseteq V, \A x \in T : w[x] = v[x]
    PROVE  SumOf(w, T) = SumOf(v, T)
<1> DEFINE F == {U \in SUBSET T : SumOf(w, U) = SumOf(v, U)}
<1>1. {} \in F
  BY SumOfNone
<1>2. ASSUME NEW U \in SUBSET T, NEW x \in T \ U, U \in F
      PROVE  U \cup {x} \in F
  <2>1. SumOf(w, U \cup {x}) = w[x] + SumOf(w, U)
    <3>1. U \in SUBSET S /\ x \in S \ U
      OBVIOUS
    <3> QED
      BY <3>1, SumAdds
  <2>2. SumOf(v, U \cup {x}) = v[x] + SumOf(v, U)
    <3>1. U \in SUBSET V /\ x \in V \ U
      OBVIOUS
    <3> QED
      BY <3>1, SumAdds
  <2> QED
    BY <1>2, <2>1, <2>2
<1>3. T \in F
  <2>1. IsFiniteSet(T)
    BY FS_Subset
  <2> HIDE DEF F
  <2> QED
    BY <1>1, <1>2, <2>1, FiniteSetInduction
<1> QED
  BY <1>3

----------------------------------------------------------------------------
(* Folds over an interval.                                                 *)

LEMMA MaxOfPart ==
    ASSUME NEW n \in Nat, NEW s \in SUBSET (1 .. n), s # {}
    PROVE  Max(s) \in s
<1> DEFINE below == {n - x : x \in s}
<1>1. below \subseteq Nat /\ below # {}
  <2>1. \A x \in s : n - x \in Nat
    OBVIOUS
  <2> QED
    BY <2>1
<1>2. PICK m \in below : \A y \in below : m <= y
  <2> HIDE DEF below
  <2> QED
    BY <1>1, LeastExists
<1>3. PICK x \in s : m = n - x
  BY <1>2
<1>4. \A y \in s : x >= y
  <2> SUFFICES ASSUME NEW y \in s PROVE x >= y
    OBVIOUS
  <2>1. n - y \in below
    OBVIOUS
  <2>2. n - x <= n - y
    BY <1>2, <1>3, <2>1
  <2>3. x \in Int /\ y \in Int
    OBVIOUS
  <2> QED
    BY <2>2, <2>3
<1> QED
  BY <1>4 DEF Max

Top(n) == [s \in SUBSET (1 .. n) |-> Max(s)]

LEMMA TopPicks == ASSUME NEW n \in Nat PROVE Picks(Top(n), 1 .. n)
  BY MaxOfPart DEF Picks, Top

LEMMA IntervalPeels ==
    ASSUME NEW n \in Nat, NEW k \in 1 .. n
    PROVE  /\ 1 .. k \in SUBSET (1 .. n) /\ 1 .. k # {}
           /\ Max(1 .. k) = k /\ (1 .. k) \ {k} = 1 .. (k - 1)
<1>1. 1 .. k \in SUBSET (1 .. n) /\ k \in 1 .. k
  OBVIOUS
<1>2. Max(1 .. k) \in 1 .. k /\ \A y \in 1 .. k : Max(1 .. k) >= y
  <2>1. \A y \in 1 .. k : k >= y
    OBVIOUS
  <2> QED
    BY <1>1, <2>1 DEF Max
<1> QED
  BY <1>1, <1>2

\* What holds at 0, and after each step up to n, holds up to n.
LEMMA BoundedInduction ==
    ASSUME NEW n \in Nat, NEW T, 0 \in T, \A k \in 1 .. n : k - 1 \in T => k \in T
    PROVE  0 .. n \subseteq T
<1> DEFINE U == {k \in Nat : k <= n => k \in T}
<1>1. 0 \in U
  OBVIOUS
<1>2. ASSUME NEW k \in Nat, k \in U PROVE k + 1 \in U
  <2> SUFFICES ASSUME k + 1 <= n PROVE k + 1 \in T
    OBVIOUS
  <2>1. k + 1 \in 1 .. n /\ (k + 1) - 1 = k /\ k \in T
    BY <1>2
  <2> QED
    BY <2>1
<1>3. Nat \subseteq U
  <2> HIDE DEF U
  <2> QED
    BY <1>1, <1>2, NumberInduction
<1> QED
  BY <1>3

\* c goes by F from base, one step per number up to n.
Chained(c, F, base, n) ==
    c[0] = base /\ \A k \in 1 .. n : c[k] = F[<<c[k - 1], k>>]

\* A fold over 1 .. n from the top goes by F as long as it stays in V.
Folds(h, F, base, n, V) ==
    /\ h[{}] = base
    /\ \A s \in SUBSET (1 .. n) :
          s # {} /\ h[s \ {Max(s)}] \in V =>
              h[s] = F[<<h[s \ {Max(s)}], Max(s)>>]

Folder(f, F, base, n) ==
    \A s \in SUBSET (1 .. n) :
        f[s] = IF s = {} THEN base ELSE F[<<f[s \ {Max(s)}], Max(s)>>]

LEMMA FolderExists ==
    ASSUME NEW n \in Nat, NEW V, NEW base \in V, NEW F \in [V \X (1 .. n) -> V]
    PROVE  \E f \in [SUBSET (1 .. n) -> V] : Folder(f, F, base, n)
<1>1. IsFiniteSet(1 .. n)
  BY FS_Interval
<1>2. PICK f \in [SUBSET (1 .. n) -> V] : FoldsBy(f, F, base, Top(n), 1 .. n)
  BY <1>1, TopPicks, FoldExists
<1>3. ASSUME NEW s \in SUBSET (1 .. n)
      PROVE  f[s] = IF s = {} THEN base ELSE F[<<f[s \ {Max(s)}], Max(s)>>]
  <2>1. Top(n)[s] = Max(s)
    BY DEF Top
  <2> QED
    BY <1>2, <2>1 DEF FoldsBy, FoldOf
<1> QED
  BY <1>3 DEF Folder

\* The chain that a fold h goes through.
ChainOf(c, h, F, base, n) == Chained(c, F, base, n) /\ h[1 .. n] = c[n]

LEMMA FoldChain ==
    ASSUME NEW n \in Nat, NEW V, NEW base \in V, NEW F \in [V \X (1 .. n) -> V],
           NEW h, Folds(h, F, base, n, V)
    PROVE  \E c \in [0 .. n -> V] : ChainOf(c, h, F, base, n)
<1> DEFINE c == [k \in 0 .. n |-> h[1 .. k]]
           T == {k \in 0 .. n : h[1 .. k] \in V}
<1>1. h[1 .. 0] = base
  <2>1. 1 .. 0 = {}
    OBVIOUS
  <2> QED
    BY <2>1 DEF Folds
<1>2. ASSUME NEW k \in 1 .. n, k - 1 \in T
      PROVE  h[1 .. k] = F[<<h[1 .. (k - 1)], k>>] /\ k \in T
  <2>1. /\ 1 .. k \in SUBSET (1 .. n) /\ 1 .. k # {}
        /\ Max(1 .. k) = k /\ (1 .. k) \ {k} = 1 .. (k - 1)
    BY IntervalPeels
  <2>2. h[1 .. (k - 1)] \in V
    BY <1>2
  <2>3. h[1 .. k] = F[<<h[1 .. (k - 1)], k>>]
    BY <2>1, <2>2 DEF Folds
  <2>4. <<h[1 .. (k - 1)], k>> \in V \X (1 .. n)
    BY <2>2
  <2>5. h[1 .. k] \in V
    BY <2>3, <2>4
  <2> QED
    BY <2>3, <2>5
<1>3. 0 .. n \subseteq T
  <2>1. 0 \in T
    BY <1>1
  <2> HIDE DEF T
  <2> QED
    BY <1>2, <2>1, BoundedInduction
<1>4. c \in [0 .. n -> V] /\ c[0] = base /\ c[n] = h[1 .. n]
  BY <1>1, <1>3
<1>5. ASSUME NEW k \in 1 .. n PROVE c[k] = F[<<c[k - 1], k>>]
  <2>1. k \in 0 .. n /\ k - 1 \in 0 .. n
    OBVIOUS
  <2>2. c[k] = h[1 .. k] /\ c[k - 1] = h[1 .. (k - 1)]
    BY <2>1
  <2>3. k - 1 \in T
    BY <1>3, <2>1
  <2>4. h[1 .. k] = F[<<h[1 .. (k - 1)], k>>]
    <3> HIDE DEF T
    <3> QED
      BY <1>2, <2>3
  <2> HIDE DEF c
  <2> QED
    BY <2>2, <2>4
<1> HIDE DEF c
<1> QED
  BY <1>4, <1>5 DEF ChainOf, Chained

----------------------------------------------------------------------------
(* Division.                                                                *)

LEMMA DivisionFacts ==
    ASSUME NEW d \in Nat \ {0}, NEW i \in Int
    PROVE  /\ i \div d \in Int
           /\ i % d \in 0 .. (d - 1)
           /\ i = d * (i \div d) + (i % d)
  BY SMT

LEMMA MultipleAtLeast ==
    ASSUME NEW d \in Nat \ {0}, NEW m \in Int, m > 0
    PROVE  d * m >= d
  BY SMT

LEMMA QuotientIsNatural ==
    ASSUME NEW d \in Nat \ {0}, NEW i \in Nat
    PROVE  i \div d \in Nat
<1>1. i \div d \in Int /\ i % d \in 0 .. (d - 1) /\ i = d * (i \div d) + (i % d)
  BY DivisionFacts
<1>2. i \div d >= 0
  <2>1. SUFFICES ASSUME i \div d < 0 PROVE FALSE
    BY <1>1
  <2> DEFINE q == i \div d
  <2>2. q \in Int /\ -q > 0
    BY <1>1, <2>1
  <2> HIDE DEF q
  <2>3. d * (-q) >= d
    BY <2>2, MultipleAtLeast
  <2>4. d * q <= -d
    BY <2>2, <2>3
  <2> QED
    BY <1>1, <2>4 DEF q
<1> QED
  BY <1>1, <1>2

\* A number has one quotient and one remainder.
LEMMA DivisionIsUnique ==
    ASSUME NEW d \in Nat \ {0}, NEW p \in Int, NEW q \in Int,
           NEW a \in 0 .. (d - 1), NEW b \in 0 .. (d - 1), d * p + a = d * q + b
    PROVE  p = q /\ a = b
<1>1. d * (p - q) = b - a /\ d * (q - p) = a - b
  BY SMT
<1>2. ~(p - q > 0)
  <2> SUFFICES ASSUME p - q > 0 PROVE FALSE
    OBVIOUS
  <2>1. d * (p - q) >= d
    BY MultipleAtLeast
  <2> QED
    BY <1>1, <2>1
<1>3. ~(q - p > 0)
  <2> SUFFICES ASSUME q - p > 0 PROVE FALSE
    OBVIOUS
  <2>1. d * (q - p) >= d
    BY MultipleAtLeast
  <2> QED
    BY <1>1, <2>1
<1>4. p = q
  BY <1>2, <1>3
<1> QED
  BY <1>1, <1>4

=============================================================================
