--------------------------- MODULE CompareProofs ---------------------------
(* What Compare promises of the calls of compare.h, for every window cap,  *)
(* every drift bound, every stream and every code: an answer is what the   *)
(* definitions of the source say (the invariant), and the definitions      *)
(* compute what their reference definitions ask for.                       *)
EXTENDS Compare, Induction, SequenceTheorems

Given == call \in Calls

\* The inductive invariant: what is served is a call, and what is answered is
\* its answer.
CompareInv ==
    /\ pc \in {"idle", "called", "answered", "gave_up"}
    /\ pc # "idle" => Given
    /\ pc = "answered" => result = IF Refused(call) THEN Undetermined ELSE Answer(call)

\* Every state of the machine satisfies the invariant.
THEOREM AnswersAreComputed == Spec => []CompareInv
<1>1. Init => CompareInv
  BY DEF Init, CompareInv
<1>2. CompareInv /\ [Next]_vars => CompareInv'
  <2> SUFFICES ASSUME CompareInv, [Next]_vars PROVE CompareInv'
    OBVIOUS
  <2>1. CASE Enter
    BY <2>1 DEF Enter, CompareInv, Given
  <2>2. CASE Serve
    BY <2>2 DEF Serve, CompareInv, Given
  <2>3. CASE OutOfMemory
    BY <2>3 DEF OutOfMemory, CompareInv, Given
  <2>4. CASE Return
    BY <2>4 DEF Return, CompareInv, Given
  <2>5. CASE UNCHANGED vars
    BY <2>5 DEF vars, CompareInv, Given
  <2> QED
    BY <2>1, <2>2, <2>3, <2>4, <2>5 DEF Next
<1> QED
  BY <1>1, <1>2, PTL DEF Spec

----------------------------------------------------------------------------
(* Codes, windows and lengths.                                             *)

LEMMA CallFacts ==
    ASSUME Given
    PROVE  /\ call.n \in Int /\ call.k \in Int
           /\ call.lhs \in Seq({0, 1}) /\ call.rhs \in Seq({0, 1})
           /\ call.op # "compare" => call.lhs = call.rhs
<1>1. /\ <<call.n, call.k>> \in Codes
      /\ call.lhs \in Samples /\ call.rhs \in Samples
      /\ call.op # "compare" => call.lhs = call.rhs
  BY DEF Given, Calls
<1> QED
  BY <1>1, CallerAssumption

\* A code and the width of its windows: a multiple of n, unless the product
\* wrapped around to less than n.
IsCode(n, width) ==
    /\ n \in Nat \ {0} /\ width \in Nat \ {0}
    /\ width <= HardWindowCap
    /\ \E m \in 0 .. 10 : width \div n = m /\ (width = n * m \/ m = 0)

\* An int product is exact as long as it fits.
LEMMA WrapIsExact ==
    ASSUME NEW product \in Nat, product <= IntMax
    PROVE  Wrap(product) = product
<1> DEFINE range == 2 * IntMax + 2
           sum == product + IntMax + 1
<1>1. IntMax \in Nat
  BY WindowAssumption
<1>2. range \in Nat \ {0} /\ sum \in 0 .. (range - 1)
  BY <1>1
<1>3. sum % range = sum
  <2> HIDE DEF sum, range
  <2> QED
    BY <1>2
<1> QED
  BY <1>1, <1>3 DEF Wrap

LEMMA WidthFacts ==
    ASSUME NEW n \in Int, NEW k \in Int, WindowBits(n, k) # 0
    PROVE  IsCode(n, WindowBits(n, k))
<1> DEFINE width == n * (k + 1)
           bits == WindowBits(n, k)
<1>1. /\ n \in Nat \ {0} /\ k \in 2 .. 9
      /\ bits = Wrap(width) /\ bits \in 1 .. HardWindowCap
  BY DEF WindowBits
<1>2. k + 1 \in 3 .. 10
  BY <1>1
<1>3. width >= n /\ width \in Int
  BY <1>1, <1>2, MultipleAtLeast
<1>4. width \div n = k + 1
  <2>1. width \div n \in Int /\ width % n \in 0 .. (n - 1)
    BY <1>1, <1>3, DivisionFacts
  <2>2. n * (width \div n) + (width % n) = n * (k + 1) + 0
    <3>1. width = n * (width \div n) + (width % n)
      BY <1>1, <1>3, DivisionFacts
    <3>2. width = width + 0 /\ width + 0 = n * (k + 1) + 0
      BY <1>3
    <3> HIDE DEF width
    <3> QED
      BY <3>1, <3>2
  <2>3. 0 \in 0 .. (n - 1) /\ k + 1 \in Int
    BY <1>1
  <2> HIDE DEF width
  <2> QED
    BY <1>1, <2>1, <2>2, <2>3, DivisionIsUnique
<1>5. width <= 10 * n
  <2>1. 10 * n - width = n * (10 - (k + 1))
    BY <1>1
  <2>2. n * (10 - (k + 1)) >= 0
    BY <1>1, <1>2, Z3
  <2> HIDE DEF width
  <2> QED
    BY <1>1, <1>3, <2>1, <2>2
<1>6. width = n * (k + 1)
  OBVIOUS
<1>7. HardWindowCap \in Nat /\ IntMax \in Nat /\ 10 * HardWindowCap <= IntMax
  BY WindowAssumption
<1> HIDE DEF width, bits
<1>8. CASE width <= IntMax
  <2>1. bits = width
    BY <1>1, <1>3, <1>7, <1>8, WrapIsExact
  <2> QED
    BY <1>1, <1>2, <1>4, <1>6, <2>1 DEF IsCode, bits
<1>9. CASE width > IntMax
  <2>1. bits < n
    BY <1>1, <1>3, <1>5, <1>7, <1>9
  <2>2. bits \div n = 0
    BY <1>1, <2>1
  <2> QED
    BY <1>1, <1>7, <2>2 DEF IsCode, bits
<1> QED
  BY <1>3, <1>7, <1>8, <1>9

\* The windows of a stream count up to its end.
LEMMA QuotientAtLeast ==
    ASSUME NEW d \in Nat \ {0}, NEW a \in Int, NEW m \in Int
    PROVE  a \div d >= m <=> a >= d * m
<1> DEFINE q == a \div d
           r == a % d
<1>1. q \in Int /\ r \in 0 .. (d - 1) /\ a = d * q + r
  BY DivisionFacts
<1> HIDE DEF q, r
<1>2. ASSUME q >= m PROVE a >= d * m
  <2>1. CASE q = m
    BY <1>1, <2>1
  <2>2. CASE q > m
    <3>1. d * (q - m) >= d
      BY <1>1, <2>2, MultipleAtLeast
    <3>2. d * (q - m) = d * q - d * m
      BY <1>1
    <3> QED
      BY <1>1, <3>1, <3>2
  <2> QED
    BY <1>1, <1>2, <2>1, <2>2
<1>3. ASSUME ~(q >= m) PROVE ~(a >= d * m)
  <2>1. d * (m - q) >= d
    BY <1>1, <1>3, MultipleAtLeast
  <2>2. d * (m - q) = d * m - d * q
    BY <1>1
  <2> QED
    BY <1>1, <2>1, <2>2
<1> QED
  BY <1>2, <1>3 DEF q

\* The length test of a call is a bound on the length.
LEMMA LengthFacts ==
    ASSUME NEW n \in Int, NEW k \in Int, WindowBits(n, k) # 0,
           NEW stream \in Seq({0, 1})
    PROVE  /\ LongEnough(stream, n, WindowBits(n, k)) <=> Len(stream) >= MinLength(n, k)
           /\ MinLength(n, k) >= 0
<1> DEFINE width == WindowBits(n, k)
           need == MinRecoveryWindows(n, width)
           rest == Len(stream) - width
<1>1. IsCode(n, width) /\ width \div n \in 0 .. 10
  BY WidthFacts DEF IsCode
<1>2. n \in Nat \ {0} /\ width \in Nat \ {0}
  BY <1>1 DEF IsCode
<1>3. need = width \div n + RecoveryMargin /\ need \in Nat \ {0} /\ need - 1 \in Nat
  <2> DEFINE symbols == width \div n
  <2>1. symbols \in 0 .. 10 /\ need = symbols + RecoveryMargin
    BY <1>1 DEF MinRecoveryWindows
  <2> HIDE DEF symbols, need
  <2> QED
    BY <2>1, WindowAssumption DEF symbols
<1>4. Len(stream) \in Nat /\ rest \in Int
  BY <1>2
<1>5. MinLength(n, k) = width + (need - 1) * n
  BY DEF MinLength
<1> DEFINE m == need - 1
<1>6. n * m = m * n /\ n * m \in Nat
  BY <1>2, <1>3
<1>7. rest \div n >= m <=> rest >= n * m
  <2>1. m \in Int
    BY <1>3
  <2> HIDE DEF rest, m
  <2> QED
    BY <1>2, <1>4, <2>1, QuotientAtLeast
<1>8. LongEnough(stream, n, width) <=> rest >= 0 /\ rest \div n + 1 >= need
  BY <1>2, <1>4 DEF LongEnough, WindowCount
<1>9. rest \div n \in Int
  BY <1>2, <1>4, DivisionFacts
<1> DEFINE product == n * m
           quotient == rest \div n
<1>10. MinLength(n, k) = width + product /\ MinLength(n, k) >= 0
  <2>1. MinLength(n, k) = width + m * n
    BY <1>5
  <2>2. m * n = product
    BY <1>6
  <2> HIDE DEF m, product
  <2> QED
    BY <1>2, <1>6, <2>1, <2>2 DEF product
<1>11. LongEnough(stream, n, width) <=> rest >= 0 /\ rest >= product
  <2>1. quotient + 1 >= need <=> quotient >= m
    BY <1>3, <1>9
  <2>2. quotient >= m <=> rest >= product
    BY <1>7
  <2>3. LongEnough(stream, n, width) <=> rest >= 0 /\ quotient + 1 >= need
    BY <1>8
  <2> HIDE DEF m, product, quotient, rest
  <2> QED
    BY <2>1, <2>2, <2>3
<1>12. product \in Nat
  BY <1>6
<1> HIDE DEF m, product, quotient, need
<1> QED
  BY <1>2, <1>4, <1>10, <1>11, <1>12

\* dv_compare_min_len and dv_detect_min_len are the exact length at which a
\* call stops being refused, for every code and every stream.
THEOREM RefusedBelowMinLength == Spec => []MinLengthIsSharp
<1>1. ASSUME CompareInv PROVE MinLengthIsSharp
  <2> SUFFICES ASSUME pc = "answered"
               PROVE  Refused(call) <=>
                          \/ MinLength(call.n, call.k) < 0
                          \/ \E s \in {call.lhs, call.rhs} : Len(s) < MinLength(call.n, call.k)
    BY DEF MinLengthIsSharp
  <2>1. /\ call.n \in Int /\ call.k \in Int
        /\ call.lhs \in Seq({0, 1}) /\ call.rhs \in Seq({0, 1})
    BY <1>1, CallFacts DEF CompareInv
  <2>2. CASE WindowBits(call.n, call.k) = 0
    BY <2>2 DEF Refused, MinLength
  <2>3. CASE WindowBits(call.n, call.k) # 0
    <3> DEFINE least == MinLength(call.n, call.k)
               width == WindowBits(call.n, call.k)
    <3>1. \A s \in {call.lhs, call.rhs} :
             /\ LongEnough(s, call.n, width) <=> Len(s) >= least
             /\ least >= 0 /\ Len(s) \in Nat
      BY <2>1, <2>3, LengthFacts
    <3>2. least \in Int
      <4>1. IsCode(call.n, width)
        BY <2>1, <2>3, WidthFacts
      <4> QED
        BY <2>1, <2>3, <4>1, WindowAssumption DEF MinLength, IsCode, MinRecoveryWindows
    <3>3. Refused(call) <=> \E s \in {call.lhs, call.rhs} : ~LongEnough(s, call.n, width)
      BY <2>3 DEF Refused
    <3> HIDE DEF least, width
    <3> QED
      BY <3>1, <3>2, <3>3 DEF least
  <2> QED
    BY <2>2, <2>3
<1>2. Spec => []CompareInv
  BY AnswersAreComputed
<1> QED
  BY <1>1, <1>2, PTL

----------------------------------------------------------------------------
(* Parity, and sums of vectors over GF(2).                                 *)

Odd(S) == Cardinality(S) % 2 = 1

LEMMA OddOrEven ==
    ASSUME NEW S, IsFiniteSet(S)
    PROVE  Odd(S) <=> Cardinality(S) % 2 # 0
<1>1. Cardinality(S) \in Nat
  BY FS_CardinalityType
<1> QED
  BY <1>1 DEF Odd

LEMMA NoneIsEven == ~Odd({})
<1>1. Cardinality({}) = 0
  BY FS_EmptySet
<1>2. 0 % 2 = 0
  OBVIOUS
<1> QED
  BY <1>1, <1>2 DEF Odd

LEMMA OddOfSymDiff ==
    ASSUME NEW X, NEW Y, IsFiniteSet(X), IsFiniteSet(Y)
    PROVE  /\ IsFiniteSet(SymDiff(X, Y))
           /\ Odd(SymDiff(X, Y)) <=> ~(Odd(X) <=> Odd(Y))
<1> DEFINE a == Cardinality(X)
           b == Cardinality(Y)
           c == Cardinality(X \cap Y)
<1>1. a \in Nat /\ b \in Nat /\ c \in Nat
  BY FS_CardinalityType, FS_Intersection
<1>2. IsFiniteSet(X \ Y) /\ Cardinality(X \ Y) = a - c
  BY FS_Difference
<1>3. IsFiniteSet(Y \ X) /\ Cardinality(Y \ X) = b - c
  <2>1. Y \cap X = X \cap Y
    OBVIOUS
  <2> QED
    BY <2>1, FS_Difference
<1>4. (X \ Y) \cap (Y \ X) = {}
  OBVIOUS
<1>5. /\ IsFiniteSet((X \ Y) \cup (Y \ X))
      /\ Cardinality((X \ Y) \cup (Y \ X)) = (a - c) + (b - c) - 0
  BY <1>2, <1>3, <1>4, FS_Union, FS_EmptySet
<1> HIDE DEF a, b, c
<1>6. Cardinality(SymDiff(X, Y)) = a + b - 2 * c
  BY <1>1, <1>5 DEF SymDiff
<1>7. (a + b - 2 * c) % 2 = 1 <=> ~(a % 2 = 1 <=> b % 2 = 1)
  BY <1>1
<1> QED
  BY <1>5, <1>6, <1>7 DEF Odd, SymDiff, a, b

LEMMA SatisfiesIsEven ==
    ASSUME NEW X, NEW C, IsFiniteSet(X)
    PROVE  Satisfies(X, C) <=> ~Odd(X \cap C)
<1>1. Cardinality(X \cap C) \in Nat
  BY FS_CardinalityType, FS_Intersection
<1> QED
  BY <1>1 DEF Satisfies, Odd

\* The sum of two windows satisfies a check if both do or neither does.
LEMMA SumSatisfies ==
    ASSUME NEW X, NEW Y, NEW C, IsFiniteSet(X), IsFiniteSet(Y)
    PROVE  Satisfies(SymDiff(X, Y), C) <=> (Satisfies(X, C) <=> Satisfies(Y, C))
<1>1. SymDiff(X, Y) \cap C = SymDiff(X \cap C, Y \cap C)
  BY DEF SymDiff
<1>2. IsFiniteSet(X \cap C) /\ IsFiniteSet(Y \cap C)
  BY FS_Intersection
<1>3. IsFiniteSet(SymDiff(X, Y))
  BY OddOfSymDiff
<1>4. Odd(SymDiff(X \cap C, Y \cap C)) <=> ~(Odd(X \cap C) <=> Odd(Y \cap C))
  BY <1>2, OddOfSymDiff
<1> QED
  BY <1>1, <1>3, <1>4, SatisfiesIsEven

\* The sum of the vectors of a set.
XorOf(S) == FoldSet(SymDiff, {}, S)

Having(S, b) == {v \in S : b \in v}

XorBody(h, s) ==
    IF s = {} THEN {} ELSE SymDiff(Chosen(s), h[s \ {Chosen(s)}])

LEMMA XorIsChosen ==
    ASSUME NEW S
    PROVE  XorOf(S) = (CHOOSE h : h = [s \in SUBSET S |-> XorBody(h, s)])[S]
  BY DEF XorOf, FoldSet, MapThenFoldSet, XorBody, Chosen

\* A sum has the bits that an odd number of its vectors have.
LEMMA XorFacts ==
    ASSUME NEW S, IsFiniteSet(S), NEW U, S \subseteq SUBSET U
    PROVE  /\ XorOf(S) \subseteq U
           /\ \A b : b \in XorOf(S) <=> Odd(Having(S, b))
<1> DEFINE F == [p \in (SUBSET U) \X S |-> SymDiff(p[2], p[1])]
           pick == [s \in SUBSET S |-> Chosen(s)]
           Solved(k) == k = [s \in SUBSET S |-> XorBody(k, s)]
           h == CHOOSE k : Solved(k)
<1>1. \A x \in SUBSET U, y \in SUBSET U : SymDiff(x, y) \in SUBSET U
  BY DEF SymDiff
<1>2. F \in [(SUBSET U) \X S -> SUBSET U]
  BY <1>1
<1>3. Picks(pick, S)
  BY ChosenIn DEF Picks
<1>4. PICK f \in [SUBSET S -> SUBSET U] : FoldsBy(f, F, {}, pick, S)
  <2>1. {} \in SUBSET U
    OBVIOUS
  <2> HIDE DEF F, pick
  <2> QED
    BY <1>2, <1>3, <2>1, FoldExists
<1>5. ASSUME NEW s \in SUBSET S PROVE f[s] = XorBody(f, s)
  <2>1. CASE s = {}
    BY <1>4, <2>1 DEF FoldsBy, FoldOf, XorBody
  <2>2. CASE s # {}
    <3>1. Chosen(s) \in s /\ pick[s] = Chosen(s)
      BY <2>2, ChosenIn
    <3>2. f[s] = F[<<f[s \ {Chosen(s)}], Chosen(s)>>]
      <4> HIDE DEF F, pick
      <4> QED
        BY <1>4, <2>2, <3>1 DEF FoldsBy, FoldOf
    <3>3. f[s \ {Chosen(s)}] \in SUBSET U
      OBVIOUS
    <3> QED
      BY <2>2, <3>1, <3>2, <3>3 DEF XorBody
  <2> QED
    BY <2>1, <2>2
<1>6. Solved(f)
  <2>1. f = [s \in SUBSET S |-> f[s]]
    OBVIOUS
  <2>2. [s \in SUBSET S |-> f[s]] = [s \in SUBSET S |-> XorBody(f, s)]
    BY <1>5, Zenon
  <2> QED
    BY <2>1, <2>2
<1>7. Solved(h)
  <2> HIDE DEF Solved
  <2> QED
    BY <1>6
<1>8. XorOf(S) = h[S]
  BY XorIsChosen
<1>9. \A s \in SUBSET S : h[s] = XorBody(h, s)
  <2>1. h = [s \in SUBSET S |-> XorBody(h, s)]
    BY <1>7
  <2> HIDE DEF h
  <2> QED
    BY <2>1
<1> HIDE DEF h
<1> DEFINE T == {s \in SUBSET S : /\ h[s] \subseteq U
                                  /\ \A b : b \in h[s] <=> Odd(Having(s, b))}
<1>10. ASSUME NEW s \in SUBSET S, \A r \in SUBSET s : r # s => r \in T
       PROVE  s \in T
  <2>1. CASE s = {}
    <3>1. h[s] = {}
      BY <1>9, <2>1 DEF XorBody
    <3>2. ASSUME NEW b PROVE ~Odd(Having(s, b))
      <4>1. Having(s, b) = {}
        BY <2>1 DEF Having
      <4> QED
        BY <4>1, NoneIsEven
    <3> QED
      BY <3>1, <3>2
  <2>2. CASE s # {}
    <3> DEFINE x == Chosen(s)
               r == s \ {x}
    <3>1. x \in s /\ r \in T
      BY <1>10, <2>2, ChosenIn
    <3>2. h[s] = SymDiff(x, h[r])
      BY <1>9, <2>2 DEF XorBody
    <3>3. h[r] \subseteq U /\ \A b : b \in h[r] <=> Odd(Having(r, b))
      BY <3>1
    <3> HIDE DEF x
    <3>4. ASSUME NEW b PROVE b \in h[s] <=> Odd(Having(s, b))
      <4>1. IsFiniteSet(Having(r, b)) /\ ~(x \in Having(r, b))
        <5>1. Having(r, b) \subseteq S
          BY DEF Having
        <5> QED
          BY <5>1, FS_Subset DEF Having
      <4>2. CASE b \in x
        <5>1. Having(s, b) = Having(r, b) \cup {x}
          BY <3>1, <4>2 DEF Having
        <5>2. Cardinality(Having(s, b)) = Cardinality(Having(r, b)) + 1
          BY <4>1, <5>1, FS_AddElement
        <5>3. Cardinality(Having(r, b)) \in Nat
          BY <4>1, FS_CardinalityType
        <5>4. Odd(Having(s, b)) <=> ~Odd(Having(r, b))
          BY <5>2, <5>3 DEF Odd
        <5>5. b \in h[s] <=> ~(b \in h[r])
          BY <3>2, <4>2 DEF SymDiff
        <5> QED
          BY <3>3, <5>4, <5>5
      <4>3. CASE ~(b \in x)
        <5>1. Having(s, b) = Having(r, b)
          BY <3>1, <4>3 DEF Having
        <5>2. b \in h[s] <=> b \in h[r]
          BY <3>2, <4>3 DEF SymDiff
        <5> QED
          BY <3>3, <5>1, <5>2
      <4> QED
        BY <4>2, <4>3
    <3>5. h[s] \subseteq U
      <4>1. x \subseteq U
        BY <3>1
      <4> HIDE DEF r
      <4> QED
        BY <3>2, <3>3, <4>1 DEF SymDiff
    <3> QED
      BY <3>4, <3>5
  <2> QED
    BY <2>1, <2>2
<1>11. S \in T
  <2> HIDE DEF T
  <2>1. SUBSET S \subseteq T
    BY <1>10, SubsetInduction
  <2> QED
    BY <2>1
<1> QED
  BY <1>8, <1>11

LEMMA XorOfNone == XorOf({}) = {}
<1>1. IsFiniteSet({})
  BY FS_EmptySet
<1>2. XorOf({}) \subseteq {}
  BY <1>1, XorFacts
<1> QED
  BY <1>2

LEMMA OneIsOdd == ASSUME NEW x PROVE Odd({x})
<1>1. Cardinality({x}) = 1
  BY FS_Singleton
<1>2. 1 % 2 = 1
  OBVIOUS
<1> QED
  BY <1>1, <1>2 DEF Odd

LEMMA XorOfOne ==
    ASSUME NEW v
    PROVE  XorOf({v}) = v
<1>1. IsFiniteSet({v}) /\ {v} \subseteq SUBSET v
  BY FS_Singleton
<1>2. XorOf({v}) \subseteq v /\ \A b : b \in XorOf({v}) <=> Odd(Having({v}, b))
  BY <1>1, XorFacts
<1>3. \A b \in v : Having({v}, b) = {v}
  BY DEF Having
<1>4. Odd({v})
  BY OneIsOdd
<1> QED
  BY <1>2, <1>3, <1>4

LEMMA XorAdds ==
    ASSUME NEW S, NEW T, IsFiniteSet(S), IsFiniteSet(T)
    PROVE  XorOf(SymDiff(S, T)) = SymDiff(XorOf(S), XorOf(T))
<1> DEFINE U == UNION (S \cup T)
<1>0. S \subseteq SUBSET U /\ T \subseteq SUBSET U
  OBVIOUS
<1> HIDE DEF U
<1>1. /\ XorOf(S) \subseteq U /\ XorOf(T) \subseteq U
      /\ \A b : b \in XorOf(S) <=> Odd(Having(S, b))
      /\ \A b : b \in XorOf(T) <=> Odd(Having(T, b))
  BY <1>0, XorFacts
<1>2. IsFiniteSet(SymDiff(S, T)) /\ SymDiff(S, T) \subseteq SUBSET U
  BY <1>0, OddOfSymDiff DEF SymDiff
<1>3. /\ XorOf(SymDiff(S, T)) \subseteq U
      /\ \A b : b \in XorOf(SymDiff(S, T)) <=> Odd(Having(SymDiff(S, T), b))
  BY <1>2, XorFacts
<1>4. ASSUME NEW b
      PROVE  b \in XorOf(SymDiff(S, T)) <=> ~(b \in XorOf(S) <=> b \in XorOf(T))
  <2>1. Having(SymDiff(S, T), b) = SymDiff(Having(S, b), Having(T, b))
    BY DEF Having, SymDiff
  <2>2. IsFiniteSet(Having(S, b)) /\ IsFiniteSet(Having(T, b))
    <3>1. Having(S, b) \subseteq S /\ Having(T, b) \subseteq T
      BY DEF Having
    <3> QED
      BY <3>1, FS_Subset
  <2>3. Odd(SymDiff(Having(S, b), Having(T, b))) <=> ~(Odd(Having(S, b)) <=> Odd(Having(T, b)))
    BY <2>2, OddOfSymDiff
  <2> QED
    BY <1>1, <1>3, <2>1, <2>3
<1>5. \A b : b \in SymDiff(XorOf(S), XorOf(T)) <=> ~(b \in XorOf(S) <=> b \in XorOf(T))
  BY DEF SymDiff
<1> QED
  BY <1>4, <1>5

\* What a span is closed under.
LEMMA SpanIs == ASSUME NEW basis PROVE Span(basis) = {XorOf(S) : S \in SUBSET basis}
  BY DEF Span, XorOf

LEMMA SpanFacts ==
    ASSUME NEW U, NEW basis, IsFiniteSet(basis), basis \subseteq SUBSET U
    PROVE  /\ {} \in Span(basis)
           /\ basis \subseteq Span(basis)
           /\ \A x \in Span(basis), y \in Span(basis) : SymDiff(x, y) \in Span(basis)
           /\ Span(basis) \subseteq SUBSET U
<1>1. {} \in Span(basis)
  <2>1. {} \in SUBSET basis
    OBVIOUS
  <2> QED
    BY <2>1, XorOfNone, SpanIs
<1>2. ASSUME NEW v \in basis PROVE v \in Span(basis)
  <2>1. {v} \in SUBSET basis /\ XorOf({v}) = v
    BY XorOfOne
  <2> QED
    BY <2>1, SpanIs
<1>3. ASSUME NEW x \in Span(basis), NEW y \in Span(basis)
      PROVE  SymDiff(x, y) \in Span(basis)
  <2>1. PICK S \in SUBSET basis : x = XorOf(S)
    BY SpanIs
  <2>2. PICK T \in SUBSET basis : y = XorOf(T)
    BY SpanIs
  <2>3. IsFiniteSet(S) /\ IsFiniteSet(T)
    BY FS_Subset
  <2>4. S \subseteq SUBSET U /\ T \subseteq SUBSET U
    OBVIOUS
  <2>5. XorOf(SymDiff(S, T)) = SymDiff(x, y)
    BY <2>1, <2>2, <2>3, <2>4, XorAdds
  <2>6. SymDiff(S, T) \in SUBSET basis
    BY DEF SymDiff
  <2> QED
    BY <2>5, <2>6, SpanIs
<1>4. ASSUME NEW x \in Span(basis) PROVE x \subseteq U
  <2>1. PICK S \in SUBSET basis : x = XorOf(S)
    BY SpanIs
  <2>2. IsFiniteSet(S) /\ S \subseteq SUBSET U
    BY FS_Subset
  <2> QED
    BY <2>1, <2>2, XorFacts
<1> QED
  BY <1>1, <1>2, <1>3, <1>4

LEMMA SpanGrows ==
    ASSUME NEW basis, NEW more, basis \subseteq more
    PROVE  Span(basis) \subseteq Span(more)
<1>1. SUBSET basis \subseteq SUBSET more
  OBVIOUS
<1> QED
  BY <1>1, SpanIs

\* What the members of a basis satisfy, its span does.
LEMMA SpanSatisfies ==
    ASSUME NEW U, IsFiniteSet(U), NEW basis, IsFiniteSet(basis), basis \subseteq SUBSET U,
           NEW check, \A v \in basis : Satisfies(v, check),
           NEW x \in Span(basis)
    PROVE  Satisfies(x, check)
<1>1. PICK S \in SUBSET basis : x = XorOf(S)
  BY SpanIs
<1>2. IsFiniteSet(S)
  BY FS_Subset
<1> DEFINE T == {s \in SUBSET S : Satisfies(XorOf(s), check)}
<1>3. {} \in T
  <2>1. {} \cap check = {}
    OBVIOUS
  <2>2. Satisfies({}, check)
    BY <2>1, NoneIsEven, FS_EmptySet, SatisfiesIsEven
  <2> QED
    BY <2>2, XorOfNone
<1>4. ASSUME NEW s \in SUBSET S, NEW v \in S \ s, s \in T
      PROVE  s \cup {v} \in T
  <2>1. IsFiniteSet(s) /\ IsFiniteSet({v})
    BY <1>2, FS_Subset, FS_Singleton
  <2>2. s \subseteq SUBSET U /\ {v} \subseteq SUBSET U /\ v \subseteq U
    OBVIOUS
  <2>3. SymDiff(s, {v}) = s \cup {v}
    BY DEF SymDiff
  <2>4. XorOf(s \cup {v}) = SymDiff(XorOf(s), v)
    <3>1. XorOf(SymDiff(s, {v})) = SymDiff(XorOf(s), XorOf({v}))
      BY <2>1, <2>2, XorAdds
    <3> QED
      BY <2>3, <3>1, XorOfOne
  <2>5. IsFiniteSet(XorOf(s)) /\ IsFiniteSet(v)
    <3>1. XorOf(s) \subseteq U
      BY <2>1, <2>2, XorFacts
    <3> QED
      BY <2>2, <3>1, FS_Subset
  <2>6. Satisfies(v, check) /\ Satisfies(XorOf(s), check)
    BY <1>4
  <2>7. Satisfies(SymDiff(XorOf(s), v), check)
    BY <2>5, <2>6, SumSatisfies
  <2> QED
    BY <2>4, <2>7
<1>5. S \in T
  <2> HIDE DEF T
  <2> QED
    BY <1>2, <1>3, <1>4, FiniteSetInduction
<1> QED
  BY <1>1, <1>5

\* Vectors are independent if, of any of them, one has a bit of its own.
LEMMA OwnBits ==
    ASSUME NEW U, NEW basis, IsFiniteSet(basis), basis \subseteq SUBSET U,
           \A D \in SUBSET basis : D # {} => \E b : \E v : Having(D, b) = {v}
    PROVE  Independent(basis)
<1> DEFINE f == [S \in SUBSET basis |-> XorOf(S)]
<1>1. ASSUME NEW D \in SUBSET basis, D # {} PROVE XorOf(D) # {}
  <2>1. PICK b : \E v : Having(D, b) = {v}
    BY <1>1
  <2>2. Odd(Having(D, b))
    BY <2>1, OneIsOdd
  <2>3. IsFiniteSet(D) /\ D \subseteq SUBSET U
    BY FS_Subset
  <2>4. b \in XorOf(D)
    BY <2>2, <2>3, XorFacts
  <2> QED
    BY <2>4
<1>2. ASSUME NEW S \in SUBSET basis, NEW T \in SUBSET basis, XorOf(S) = XorOf(T)
      PROVE  S = T
  <2>1. IsFiniteSet(S) /\ IsFiniteSet(T) /\ S \subseteq SUBSET U /\ T \subseteq SUBSET U
    BY FS_Subset
  <2>2. XorOf(SymDiff(S, T)) = SymDiff(XorOf(S), XorOf(T))
    BY <2>1, XorAdds
  <2>3. SymDiff(XorOf(S), XorOf(T)) = {}
    BY <1>2 DEF SymDiff
  <2>4. SymDiff(S, T) \in SUBSET basis
    BY DEF SymDiff
  <2>5. SymDiff(S, T) = {}
    BY <1>1, <2>2, <2>3, <2>4
  <2> QED
    BY <2>5 DEF SymDiff
<1>3. f \in Bijection(SUBSET basis, Span(basis))
  <2>1. f \in [SUBSET basis -> Span(basis)]
    BY SpanIs
  <2>2. f \in Injection(SUBSET basis, Span(basis))
    BY <1>2, <2>1 DEF Injection, IsInjective
  <2>3. f \in Surjection(SUBSET basis, Span(basis))
    <3>1. \A x \in Span(basis) : \E S \in SUBSET basis : f[S] = x
      BY SpanIs
    <3> QED
      BY <2>1, <3>1 DEF Surjection
  <2> QED
    BY <2>2, <2>3 DEF Bijection
<1>4. ExistsBijection(SUBSET basis, Span(basis))
  BY <1>3 DEF ExistsBijection
<1>5. IsFiniteSet(SUBSET basis) /\ Cardinality(SUBSET basis) = 2^Cardinality(basis)
  BY FS_SUBSET
<1>6. Cardinality(Span(basis)) = Cardinality(SUBSET basis)
  BY <1>4, <1>5, FS_Bijection
<1> QED
  BY <1>5, <1>6 DEF Independent

----------------------------------------------------------------------------
(* Elimination.                                                            *)

Bases(width) == SUBSET Vectors(width)

LEMMA BasesFacts ==
    ASSUME NEW width \in Nat
    PROVE  /\ IsFiniteSet(Bits(width)) /\ Bits(width) \subseteq Nat
           /\ \A v \in Vectors(width) : IsFiniteSet(v)
           /\ \A rows \in Bases(width) : IsFiniteSet(rows) /\ Cardinality(rows) \in Nat
<1>1. IsFiniteSet(Bits(width)) /\ Bits(width) \subseteq Nat
  <2>1. IsFiniteSet(0 .. (width - 1))
    <3>1. 0 \in Int /\ width - 1 \in Int
      OBVIOUS
    <3> QED
      BY <3>1, FS_Interval
  <2>2. 0 .. (width - 1) \subseteq Nat
    OBVIOUS
  <2> QED
    BY <2>1, <2>2 DEF Bits
<1>2. \A v \in Vectors(width) : IsFiniteSet(v)
  BY <1>1, FS_Subset DEF Vectors
<1>3. IsFiniteSet(Vectors(width))
  BY <1>1, FS_SUBSET DEF Vectors
<1>4. \A rows \in Bases(width) : IsFiniteSet(rows)
  BY <1>3, FS_Subset DEF Bases
<1>5. \A rows \in Bases(width) : Cardinality(rows) \in Nat
  BY <1>4, FS_CardinalityType
<1> QED
  BY <1>1, <1>2, <1>4, <1>5

LEMMA LeadIs ==
    ASSUME NEW v, NEW b \in v, v \subseteq Nat, \A x \in v : x <= b
    PROVE  Lead(v) = b
<1>1. Lead(v) \in v /\ \A y \in v : Lead(v) >= y
  <2>1. \A y \in v : b >= y
    OBVIOUS
  <2> QED
    BY <2>1 DEF Lead, Max
<1> DEFINE a == Lead(v)
<1>2. a \in Nat /\ b \in Nat /\ a >= b /\ a <= b
  BY <1>1
<1> HIDE DEF a
<1>3. a = b
  BY <1>2
<1> QED
  BY <1>3 DEF a

LEMMA LeadFacts ==
    ASSUME NEW width \in Nat, NEW v \in Vectors(width), v # {}
    PROVE  /\ Lead(v) \in v /\ Lead(v) \in Bits(width) /\ Lead(v) \in Nat
           /\ \A x \in v : x \in Nat /\ x <= Lead(v)
<1> DEFINE below == {width - x : x \in v}
<1>1. v \subseteq 0 .. (width - 1)
  BY DEF Vectors, Bits
<1>2. below \subseteq Nat /\ below # {}
  <2>1. \A x \in v : width - x \in Nat
    BY <1>1
  <2> QED
    BY <2>1
<1>3. PICK m \in below : \A y \in below : m <= y
  <2> HIDE DEF below
  <2> QED
    BY <1>2, LeastExists
<1>4. PICK b \in v : m = width - b
  BY <1>3
<1>5. ASSUME NEW x \in v PROVE x <= b
  <2>1. width - x \in below
    OBVIOUS
  <2>2. width - b <= width - x
    BY <1>3, <1>4, <2>1
  <2>3. x \in Int /\ b \in Int
    BY <1>1
  <2> QED
    BY <2>2, <2>3
<1>6. v \subseteq Nat
  BY <1>1
<1>7. Lead(v) = b
  BY <1>5, <1>6, LeadIs
<1> QED
  BY <1>1, <1>5, <1>6, <1>7 DEF Bits

\* The rows of an echelon basis have distinct leading bits.
Ech(rows, width) ==
    /\ rows \in Bases(width)
    /\ ~({} \in rows)
    /\ \A p \in rows, q \in rows : Lead(p) = Lead(q) => p = q

LEMMA PivotsFacts ==
    ASSUME NEW width \in Nat, NEW rows, Ech(rows, width), NEW bit
    PROVE  /\ \A p \in rows : Lead(p) = bit => UNION Pivots(rows, bit) = p
           /\ (\A p \in rows : Lead(p) # bit) => UNION Pivots(rows, bit) = {}
<1>1. ASSUME NEW p \in rows, Lead(p) = bit PROVE UNION Pivots(rows, bit) = p
  <2>1. Pivots(rows, bit) = {p}
    BY <1>1 DEF Pivots, Ech
  <2> QED
    BY <2>1
<1>2. ASSUME \A p \in rows : Lead(p) # bit PROVE UNION Pivots(rows, bit) = {}
  <2>1. Pivots(rows, bit) = {}
    BY <1>2 DEF Pivots
  <2> QED
    BY <2>1
<1> QED
  BY <1>1, <1>2

LEMMA EchSpan ==
    ASSUME NEW width \in Nat, NEW rows \in Bases(width)
    PROVE  /\ {} \in Span(rows)
           /\ rows \subseteq Span(rows)
           /\ \A x \in Span(rows), y \in Span(rows) : SymDiff(x, y) \in Span(rows)
           /\ Span(rows) \subseteq Vectors(width)
<1>1. IsFiniteSet(rows) /\ rows \subseteq SUBSET Bits(width)
  BY BasesFacts DEF Bases, Vectors
<1> QED
  BY <1>1, SpanFacts DEF Vectors

\* What clearing one leading bit does.
LEMMA ClearFacts ==
    ASSUME NEW width \in Nat, NEW rows, Ech(rows, width),
           NEW row \in Vectors(width), NEW bit \in Int
    PROVE  LET r == Clear(rows, row, bit)
           IN  /\ r \in Vectors(width)
               /\ r = row \/ r \in {SymDiff(row, p) : p \in rows}
               /\ (row = {} \/ Lead(row) # bit \/ \A p \in rows : Lead(p) # bit) => r = row
               /\ row # {} /\ Lead(row) = bit /\ (\E p \in rows : Lead(p) = bit)
                      => r = {} \/ Lead(r) < bit
<1> DEFINE r == Clear(rows, row, bit)
<1>1. CASE row = {} \/ Lead(row) # bit \/ \A p \in rows : Lead(p) # bit
  <2>1. r = row
    <3>1. CASE row = {} \/ Lead(row) # bit
      BY <3>1 DEF Clear
    <3>2. CASE \A p \in rows : Lead(p) # bit
      <4>1. UNION Pivots(rows, bit) = {}
        BY <3>2, PivotsFacts
      <4>2. SymDiff(row, {}) = row
        BY DEF SymDiff
      <4> QED
        BY <4>1, <4>2 DEF Clear
    <3> QED
      BY <1>1, <3>1, <3>2
  <2>2. ~(row # {} /\ Lead(row) = bit /\ \E p \in rows : Lead(p) = bit)
    BY <1>1
  <2> HIDE DEF r
  <2> QED
    BY <2>1, <2>2 DEF r
<1>2. CASE row # {} /\ Lead(row) = bit /\ \E p \in rows : Lead(p) = bit
  <2>1. PICK p \in rows : Lead(p) = bit
    BY <1>2
  <2>2. r = SymDiff(row, p)
    BY <1>2, <2>1, PivotsFacts DEF Clear
  <2>3. p \in Vectors(width) /\ p # {}
    BY DEF Ech, Bases
  <2>4. r \in Vectors(width)
    BY <2>2, <2>3 DEF Vectors, SymDiff
  <2>5. r = {} \/ Lead(r) < bit
    <3> SUFFICES ASSUME r # {} PROVE Lead(r) < bit
      OBVIOUS
    <3>1. bit \in row /\ bit \in p
      BY <1>2, <2>1, <2>3, LeadFacts
    <3>2. \A x \in r : x \in Nat /\ x <= bit
      <4>1. \A x \in row : x \in Nat /\ x <= bit
        BY <1>2, LeadFacts
      <4>2. \A x \in p : x \in Nat /\ x <= bit
        BY <2>1, <2>3, LeadFacts
      <4> QED
        BY <2>2, <4>1, <4>2 DEF SymDiff
    <3>3. ~(bit \in r)
      BY <2>2, <3>1 DEF SymDiff
    <3>4. Lead(r) \in r /\ Lead(r) \in Nat
      BY <2>4, LeadFacts
    <3> QED
      BY <3>2, <3>3, <3>4
  <2> HIDE DEF r
  <2> QED
    BY <1>2, <2>2, <2>4, <2>5 DEF r
<1> QED
  BY <1>1, <1>2

LEMMA ReduceIsChosen ==
    ASSUME NEW rows, NEW row
    PROVE  Reduce(rows, row) =
               (CHOOSE f : f = [j \in 0 .. HardWindowCap |->
                                   IF j = 0 THEN row
                                   ELSE Clear(rows, f[j - 1], HardWindowCap - j)])[HardWindowCap]
  BY DEF Reduce

\* What is left of a row is its sum with some of the rows, and is zero or
\* leads with a bit that no row leads with.
LEMMA ReduceFacts ==
    ASSUME NEW width \in Nat, width <= HardWindowCap,
           NEW rows, Ech(rows, width), NEW row \in Vectors(width)
    PROVE  /\ Reduce(rows, row) \in Vectors(width)
           /\ SymDiff(row, Reduce(rows, row)) \in Span(rows)
           /\ Reduce(rows, row) # {} => \A p \in rows : Lead(p) # Lead(Reduce(rows, row))
<1> DEFINE H == HardWindowCap
           V == Vectors(width)
           step == [p \in (1 .. H) \X V |-> Clear(rows, p[2], H - p[1])]
           Unfolds(f) == f = [j \in 0 .. H |-> IF j = 0 THEN row
                                               ELSE Clear(rows, f[j - 1], H - j)]
           left == CHOOSE f : Unfolds(f)
<1>1. H \in Nat
  BY WindowAssumption
<1>2. step \in [(1 .. H) \X V -> V]
  <2>1. \A j \in 1 .. H : \A r \in V : Clear(rows, r, H - j) \in V
    BY <1>1, ClearFacts
  <2> QED
    BY <2>1
<1>3. PICK f \in [0 .. H -> V] : Solves(f, row, step, H)
  <2> HIDE DEF H, V, step
  <2>1. row \in V
    BY DEF V
  <2> QED
    BY <1>1, <1>2, <2>1, RecursionExists
<1>4. ASSUME NEW j \in 0 .. H
      PROVE  f[j] = IF j = 0 THEN row ELSE Clear(rows, f[j - 1], H - j)
  <2>1. CASE j = 0
    <3> HIDE DEF H, V, step
    <3> QED
      BY <1>3, <2>1 DEF Solves
  <2>2. CASE j # 0
    <3>1. j \in 1 .. H /\ j - 1 \in 0 .. H
      BY <1>1, <2>2
    <3>2. f[j] = step[<<j, f[j - 1]>>] /\ f[j - 1] \in V
      <4> HIDE DEF H, V, step
      <4> QED
        BY <1>3, <2>2, <3>1 DEF Solves
    <3> QED
      BY <2>2, <3>1, <3>2
  <2> QED
    BY <2>1, <2>2
<1>5. Unfolds(f)
  <2> HIDE DEF H, V
  <2>1. f = [j \in 0 .. H |-> f[j]]
    BY <1>3
  <2>2. [j \in 0 .. H |-> f[j]] = [j \in 0 .. H |-> IF j = 0 THEN row
                                                   ELSE Clear(rows, f[j - 1], H - j)]
    BY <1>4, Zenon
  <2> QED
    BY <2>1, <2>2
<1>6. Unfolds(left)
  <2> HIDE DEF Unfolds
  <2> QED
    BY <1>5
<1>7. Reduce(rows, row) = left[H]
  BY ReduceIsChosen
<1>8. \A j \in 0 .. H : left[j] = IF j = 0 THEN row ELSE Clear(rows, left[j - 1], H - j)
  <2> HIDE DEF left, H
  <2> QED
    BY <1>6
<1> HIDE DEF left, Unfolds, step
<1> DEFINE Blocked(r) == \A p \in rows : Lead(p) # Lead(r)
           T == {j \in 0 .. H : /\ left[j] \in V
                                /\ SymDiff(row, left[j]) \in Span(rows)
                                /\ left[j] = {} \/ Lead(left[j]) < H - j \/ Blocked(left[j])}
<1>9. 0 \in T
  <2>1. left[0] = row /\ 0 \in 0 .. H
    BY <1>1, <1>8
  <2>2. SymDiff(row, row) = {} /\ {} \in Span(rows)
    BY EchSpan DEF SymDiff, Ech
  <2>3. row = {} \/ Lead(row) < H - 0
    <3>1. CASE row # {}
      <4>1. Lead(row) \in 0 .. (width - 1)
        BY <3>1, LeadFacts DEF Bits
      <4> QED
        BY <1>1, <4>1
    <3> QED
      BY <3>1
  <2> QED
    BY <2>1, <2>2, <2>3
<1>10. ASSUME NEW j \in 1 .. H, j - 1 \in T PROVE j \in T
  <2> DEFINE l == left[j - 1]
             bit == H - j
             r == Clear(rows, l, bit)
  <2>1. j \in 0 .. H /\ left[j] = r /\ bit \in Nat
    BY <1>1, <1>8
  <2>2. /\ l \in V /\ SymDiff(row, l) \in Span(rows)
        /\ l = {} \/ Lead(l) < bit + 1 \/ Blocked(l)
    <3>1. H - (j - 1) = bit + 1
      BY <1>1
    <3> HIDE DEF bit, H, V
    <3> QED
      BY <1>10, <3>1
  <2> HIDE DEF l, bit
  <2>3. /\ r \in V
        /\ r = l \/ r \in {SymDiff(l, p) : p \in rows}
        /\ (l = {} \/ Lead(l) # bit \/ \A p \in rows : Lead(p) # bit) => r = l
        /\ l # {} /\ Lead(l) = bit /\ (\E p \in rows : Lead(p) = bit)
               => r = {} \/ Lead(r) < bit
    BY <2>1, <2>2, ClearFacts, SMTT(30)
  <2> HIDE DEF r
  <2>4. SymDiff(row, r) \in Span(rows)
    <3>1. CASE r = l
      BY <2>2, <3>1
    <3>2. CASE r # l
      <4>1. PICK p \in rows : r = SymDiff(l, p)
        BY <2>3, <3>2
      <4>2. SymDiff(row, r) = SymDiff(SymDiff(row, l), p)
        BY <4>1 DEF SymDiff
      <4>3. p \in Span(rows)
        BY EchSpan DEF Ech
      <4> QED
        BY <2>2, <4>2, <4>3, EchSpan DEF Ech
    <3> QED
      BY <3>1, <3>2
  <2>5. r = {} \/ Lead(r) < bit \/ Blocked(r)
    <3>1. CASE l # {} /\ Lead(l) = bit /\ \E p \in rows : Lead(p) = bit
      BY <2>3, <3>1
    <3>2. CASE l = {}
      BY <2>3, <3>2
    <3>3. CASE l # {} /\ Lead(l) = bit /\ \A p \in rows : Lead(p) # bit
      BY <2>3, <3>3
    <3>4. CASE l # {} /\ Lead(l) # bit
      <4>1. r = l
        BY <2>3, <3>4
      <4>2. Lead(l) \in Nat
        BY <2>2, <3>4, LeadFacts
      <4>3. Lead(l) < bit + 1 => Lead(l) < bit
        BY <2>1, <3>4, <4>2
      <4> QED
        BY <2>2, <3>4, <4>1, <4>3
    <3> QED
      BY <3>1, <3>2, <3>3, <3>4
  <2> HIDE DEF H, V, Blocked
  <2>6. H - j = bit
    BY DEF bit
  <2> QED
    BY <2>1, <2>3, <2>4, <2>5, <2>6
<1>11. H \in T
  <2>1. 0 .. H \subseteq T
    <3> HIDE DEF T, H
    <3> QED
      BY <1>1, <1>9, <1>10, BoundedInduction
  <2> QED
    BY <1>1, <2>1
<1>12. left[H] # {} => Blocked(left[H])
  <2>1. ASSUME left[H] # {}, Lead(left[H]) < H - H PROVE FALSE
    <3>1. Lead(left[H]) \in Nat
      BY <1>11, <2>1, LeadFacts
    <3> QED
      BY <1>1, <2>1, <3>1
  <2> HIDE DEF Blocked
  <2> QED
    BY <1>11, <2>1
<1> QED
  BY <1>7, <1>11, <1>12

Obeyed(rows, check) == \A r \in rows : Satisfies(r, check)

LEMMA SpanObeys ==
    ASSUME NEW width \in Nat, NEW rows \in Bases(width), NEW check, Obeyed(rows, check),
           NEW x \in Span(rows)
    PROVE  Satisfies(x, check)
<1>1. IsFiniteSet(Bits(width)) /\ IsFiniteSet(rows) /\ rows \subseteq SUBSET Bits(width)
  BY BasesFacts DEF Bases, Vectors
<1> QED
  BY <1>1, SpanSatisfies DEF Obeyed

\* One more vector in a basis.
LEMMA InsertFacts ==
    ASSUME NEW width \in Nat, width <= HardWindowCap,
           NEW rows, Ech(rows, width), NEW row \in Vectors(width)
    PROVE  /\ Ech(Insert(rows, row), width)
           /\ rows \subseteq Insert(rows, row)
           /\ row \in Span(Insert(rows, row))
           /\ \A check : Obeyed(Insert(rows, row), check)
                             <=> Obeyed(rows, check) /\ Satisfies(row, check)
<1> DEFINE r == Reduce(rows, row)
           more == Insert(rows, row)
<1>1. /\ r \in Vectors(width) /\ SymDiff(row, r) \in Span(rows)
      /\ r # {} => \A p \in rows : Lead(p) # Lead(r)
  BY ReduceFacts
<1>2. rows \in Bases(width) /\ ~({} \in rows)
  BY DEF Ech
<1> HIDE DEF r
<1>3. more = IF r = {} THEN rows ELSE rows \cup {r}
  BY <1>2 DEF Insert, r
<1>4. more \in Bases(width) /\ rows \subseteq more
  BY <1>1, <1>2, <1>3 DEF Bases
<1>5. Ech(more, width)
  <2>1. ~({} \in more)
    BY <1>2, <1>3
  <2>2. ASSUME NEW p \in more, NEW q \in more, Lead(p) = Lead(q) PROVE p = q
    BY <1>1, <1>3, <2>2 DEF Ech
  <2> HIDE DEF more
  <2> QED
    BY <1>4, <2>1, <2>2 DEF Ech
<1>6. r \in Span(more)
  <2>1. CASE r = {}
    BY <1>4, <2>1, EchSpan
  <2>2. CASE r # {}
    BY <1>3, <1>4, <2>2, EchSpan
  <2> QED
    BY <2>1, <2>2
<1>7. row = SymDiff(SymDiff(row, r), r)
  BY DEF SymDiff
<1>8. SymDiff(row, r) \in Span(more)
  BY <1>1, <1>4, SpanGrows
<1>9. row \in Span(more)
  <2> HIDE DEF more
  <2>1. SymDiff(SymDiff(row, r), r) \in Span(more)
    BY <1>4, <1>6, <1>8, EchSpan
  <2> QED
    BY <1>7, <2>1
<1>10. ASSUME NEW check, Obeyed(more, check)
       PROVE  Obeyed(rows, check) /\ Satisfies(row, check)
  <2>1. Satisfies(row, check)
    <3> HIDE DEF more
    <3> QED
      BY <1>4, <1>9, <1>10, SpanObeys
  <2>2. Obeyed(rows, check)
    <3> HIDE DEF more
    <3> QED
      BY <1>4, <1>10 DEF Obeyed
  <2> QED
    BY <2>1, <2>2
<1>11. ASSUME NEW check, Obeyed(rows, check), Satisfies(row, check)
       PROVE  Obeyed(more, check)
  <2>1. Satisfies(SymDiff(row, r), check)
    BY <1>1, <1>2, <1>11, SpanObeys
  <2>2. IsFiniteSet(row) /\ IsFiniteSet(r)
    BY <1>1, BasesFacts
  <2>3. Satisfies(r, check)
    BY <1>11, <2>1, <2>2, SumSatisfies
  <2> QED
    BY <1>3, <1>11, <2>3 DEF Obeyed
<1> HIDE DEF more
<1> QED
  BY <1>4, <1>5, <1>9, <1>10, <1>11 DEF more

EchSets(width) == {rows \in Bases(width) : Ech(rows, width)}

LEMMA EchelonIsChosen ==
    ASSUME NEW vectors
    PROVE  Echelon(vectors) =
               (CHOOSE h : h = [s \in SUBSET DOMAIN vectors |->
                                   IF s = {} THEN {}
                                   ELSE Insert(h[s \ {Max(s)}], vectors[Max(s)])])[DOMAIN vectors]
  BY DEF Echelon, FoldLeft, MapThenFoldSet

\* The bases that an elimination goes through.
EchelonChain(c, vectors, m) ==
    c[0] = {} /\ \A k \in 1 .. m : c[k] = Insert(c[k - 1], vectors[k])

LEMMA EchelonSteps ==
    ASSUME NEW width \in Nat, width <= HardWindowCap,
           NEW m \in Nat, NEW vectors \in [1 .. m -> Vectors(width)]
    PROVE  \E c \in [0 .. m -> EchSets(width)] :
               EchelonChain(c, vectors, m) /\ Echelon(vectors) = c[m]
<1> DEFINE V == EchSets(width)
           F == [p \in V \X (1 .. m) |-> Insert(p[1], vectors[p[2]])]
           Unfolds(h) == h = [s \in SUBSET (1 .. m) |->
                                 IF s = {} THEN {}
                                 ELSE Insert(h[s \ {Max(s)}], vectors[Max(s)])]
           h == CHOOSE k : Unfolds(k)
<1>1. {} \in V
  BY DEF EchSets, Ech, Bases
<1>2. ASSUME NEW rows \in V, NEW k \in 1 .. m PROVE Insert(rows, vectors[k]) \in V
  <2>1. Ech(rows, width) /\ vectors[k] \in Vectors(width)
    BY DEF EchSets
  <2>2. Ech(Insert(rows, vectors[k]), width)
    BY <2>1, InsertFacts
  <2> QED
    BY <2>2 DEF EchSets, Ech
<1>3. F \in [V \X (1 .. m) -> V]
  <2> HIDE DEF V
  <2> QED
    BY <1>2
<1>4. PICK f \in [SUBSET (1 .. m) -> V] : Folder(f, F, {}, m)
  <2> HIDE DEF V, F
  <2> QED
    BY <1>1, <1>3, FolderExists
<1>5. ASSUME NEW s \in SUBSET (1 .. m)
      PROVE  f[s] = IF s = {} THEN {} ELSE Insert(f[s \ {Max(s)}], vectors[Max(s)])
  <2>1. CASE s = {}
    BY <1>4, <2>1 DEF Folder
  <2>2. CASE s # {}
    <3>1. Max(s) \in 1 .. m /\ f[s \ {Max(s)}] \in V
      <4>1. Max(s) \in s
        BY <2>2, MaxOfPart
      <4> HIDE DEF V
      <4> QED
        BY <4>1
    <3>2. f[s] = F[<<f[s \ {Max(s)}], Max(s)>>]
      <4> HIDE DEF F, V
      <4> QED
        BY <1>4, <2>2 DEF Folder
    <3> HIDE DEF V
    <3> QED
      BY <2>2, <3>1, <3>2
  <2> QED
    BY <2>1, <2>2
<1>6. Unfolds(f)
  <2> HIDE DEF V
  <2>1. f = [s \in SUBSET (1 .. m) |-> f[s]]
    BY <1>4
  <2>2. [s \in SUBSET (1 .. m) |-> f[s]]
           = [s \in SUBSET (1 .. m) |->
                 IF s = {} THEN {} ELSE Insert(f[s \ {Max(s)}], vectors[Max(s)])]
    BY <1>5, Zenon
  <2> QED
    BY <2>1, <2>2
<1>7. Unfolds(h)
  <2> HIDE DEF Unfolds
  <2> QED
    BY <1>6
<1>8. DOMAIN vectors = 1 .. m
  OBVIOUS
<1>9. Echelon(vectors) = h[1 .. m]
  BY <1>8, EchelonIsChosen
<1>10. Folds(h, F, {}, m, V)
  <2>1. \A s \in SUBSET (1 .. m) :
           h[s] = IF s = {} THEN {} ELSE Insert(h[s \ {Max(s)}], vectors[Max(s)])
    <3> HIDE DEF h
    <3> QED
      BY <1>7
  <2> HIDE DEF h, V
  <2>2. h[{}] = {}
    <3>1. {} \in SUBSET (1 .. m)
      OBVIOUS
    <3> QED
      BY <2>1, <3>1
  <2>3. ASSUME NEW s \in SUBSET (1 .. m), s # {}, h[s \ {Max(s)}] \in V
        PROVE  h[s] = F[<<h[s \ {Max(s)}], Max(s)>>]
    <3>1. Max(s) \in 1 .. m
      BY <2>3, MaxOfPart
    <3> QED
      BY <2>1, <2>3, <3>1
  <2> HIDE DEF F
  <2> QED
    BY <2>2, <2>3 DEF Folds
<1> HIDE DEF h
<1>11. PICK c \in [0 .. m -> V] : ChainOf(c, h, F, {}, m)
  <2> HIDE DEF V, F
  <2> QED
    BY <1>1, <1>3, <1>10, FoldChain
<1>12. EchelonChain(c, vectors, m)
  <2>1. ASSUME NEW k \in 1 .. m PROVE c[k] = Insert(c[k - 1], vectors[k])
    <3>1. c[k] = F[<<c[k - 1], k>>] /\ k - 1 \in 0 .. m
      <4> HIDE DEF F, V
      <4> QED
        BY <1>11 DEF ChainOf, Chained
    <3>2. c[k - 1] \in V
      BY <3>1
    <3> HIDE DEF V
    <3> QED
      BY <3>1, <3>2
  <2>2. c[0] = {}
    BY <1>11 DEF ChainOf, Chained
  <2> QED
    BY <2>1, <2>2 DEF EchelonChain
<1> QED
  BY <1>9, <1>11, <1>12 DEF ChainOf

\* An echelon basis of vectors spans them, and what it obeys is what they
\* all obey.
LEMMA EchelonFacts ==
    ASSUME NEW width \in Nat, width <= HardWindowCap,
           NEW m \in Nat, NEW vectors \in [1 .. m -> Vectors(width)]
    PROVE  /\ Ech(Echelon(vectors), width)
           /\ \A check : Obeyed(Echelon(vectors), check)
                             <=> \A k \in 1 .. m : Satisfies(vectors[k], check)
<1>1. PICK c \in [0 .. m -> EchSets(width)] :
         EchelonChain(c, vectors, m) /\ Echelon(vectors) = c[m]
  BY EchelonSteps
<1>2. \A k \in 0 .. m : Ech(c[k], width)
  BY DEF EchSets
<1> DEFINE T == {k \in 0 .. m : \A check : Obeyed(c[k], check)
                                   <=> \A j \in 1 .. k : Satisfies(vectors[j], check)}
<1>3. 0 \in T
  <2>1. c[0] = {} /\ 1 .. 0 = {}
    BY <1>1 DEF EchelonChain
  <2> QED
    BY <2>1 DEF Obeyed
<1>4. ASSUME NEW k \in 1 .. m, k - 1 \in T PROVE k \in T
  <2>1. k - 1 \in 0 .. m /\ k \in 0 .. m /\ vectors[k] \in Vectors(width)
    OBVIOUS
  <2>2. c[k] = Insert(c[k - 1], vectors[k])
    BY <1>1 DEF EchelonChain
  <2>3. ASSUME NEW check
        PROVE  Obeyed(c[k], check) <=> \A j \in 1 .. k : Satisfies(vectors[j], check)
    <3>1. Obeyed(c[k], check) <=> Obeyed(c[k - 1], check) /\ Satisfies(vectors[k], check)
      BY <1>2, <2>1, <2>2, InsertFacts
    <3>2. Obeyed(c[k - 1], check) <=> \A j \in 1 .. (k - 1) : Satisfies(vectors[j], check)
      BY <1>4
    <3>3. 1 .. k = (1 .. (k - 1)) \cup {k}
      OBVIOUS
    <3> QED
      BY <3>1, <3>2, <3>3
  <2> QED
    BY <2>1, <2>3
<1>5. m \in T
  <2>1. 0 .. m \subseteq T
    <3> HIDE DEF T
    <3> QED
      BY <1>3, <1>4, BoundedInduction
  <2> QED
    BY <2>1
<1>6. Ech(c[m], width)
  BY <1>2
<1> QED
  BY <1>1, <1>5, <1>6

----------------------------------------------------------------------------
(* The reduction to reduced row echelon form.                               *)

Cleaned(rows, r, bit) ==
    IF Lead(r) # bit /\ bit \in r THEN SymDiff(r, UNION Pivots(rows, bit)) ELSE r

\* A row without the pivot of another: its lead stays, and the column goes.
LEMMA CleanedFacts ==
    ASSUME NEW width \in Nat, NEW rows, Ech(rows, width), NEW bit \in Nat, NEW r \in rows
    PROVE  /\ Cleaned(rows, r, bit) \in Vectors(width) /\ Cleaned(rows, r, bit) # {}
           /\ Lead(Cleaned(rows, r, bit)) = Lead(r)
           /\ Lead(r) = bit => Cleaned(rows, r, bit) = r
           /\ \A p \in rows : Lead(p) = bit /\ p # r => ~(bit \in Cleaned(rows, r, bit))
           /\ \/ Cleaned(rows, r, bit) = r
              \/ \E p \in rows : Lead(p) = bit /\ p # r /\ Cleaned(rows, r, bit) = SymDiff(r, p)
<1> DEFINE c == Cleaned(rows, r, bit)
<1>1. r \in Vectors(width) /\ r # {} /\ rows \subseteq Vectors(width)
  BY DEF Ech, Bases
<1>2. Lead(r) \in r /\ Lead(r) \in Nat /\ \A x \in r : x \in Nat /\ x <= Lead(r)
  BY <1>1, LeadFacts
<1>3. CASE Lead(r) = bit
  <2>1. c = r
    BY <1>3 DEF Cleaned
  <2>2. \A p \in rows : Lead(p) = bit => p = r
    BY <1>3 DEF Ech
  <2> QED
    BY <1>1, <2>1, <2>2
<1>4. CASE Lead(r) # bit /\ ~(bit \in r)
  <2>1. c = r
    BY <1>4 DEF Cleaned
  <2> QED
    BY <1>1, <1>4, <2>1
<1>5. CASE Lead(r) # bit /\ bit \in r /\ \A p \in rows : Lead(p) # bit
  <2>1. UNION Pivots(rows, bit) = {}
    BY <1>5, PivotsFacts
  <2>2. c = r
    BY <1>5, <2>1 DEF Cleaned, SymDiff
  <2> QED
    BY <1>1, <1>5, <2>2
<1>6. ASSUME Lead(r) # bit, bit \in r, NEW p \in rows, Lead(p) = bit
      PROVE  /\ c \in Vectors(width) /\ c # {} /\ Lead(c) = Lead(r)
             /\ ~(bit \in c) /\ p # r /\ c = SymDiff(r, p)
  <2>1. c = SymDiff(r, p)
    <3>1. UNION Pivots(rows, bit) = p
      BY <1>6, PivotsFacts
    <3> QED
      BY <1>6, <3>1 DEF Cleaned
  <2>2. p \in Vectors(width) /\ p # {}
    BY <1>1 DEF Ech
  <2>3. bit \in p /\ \A x \in p : x \in Nat /\ x <= bit
    BY <1>6, <2>2, LeadFacts
  <2>4. bit < Lead(r)
    BY <1>2, <1>6
  <2>5. Lead(r) \in c
    <3>1. ~(Lead(r) \in p)
      BY <1>2, <2>3, <2>4
    <3> QED
      BY <1>2, <2>1, <3>1 DEF SymDiff
  <2>6. c \in Vectors(width)
    BY <1>1, <2>1, <2>2 DEF SymDiff, Vectors
  <2>7. \A x \in c : x \in Nat /\ x <= Lead(r)
    <3> SUFFICES ASSUME NEW x \in c PROVE x \in Nat /\ x <= Lead(r)
      OBVIOUS
    <3>1. x \in r \/ x \in p
      BY <2>1 DEF SymDiff
    <3>2. CASE x \in r
      BY <1>2, <3>2
    <3>3. CASE x \in p
      <4>1. x \in Nat /\ x <= bit
        BY <2>3, <3>3
      <4> QED
        BY <1>2, <2>4, <4>1
    <3> QED
      BY <3>1, <3>2, <3>3
  <2>8. Lead(c) = Lead(r)
    <3> HIDE DEF c
    <3>1. c \subseteq Nat
      BY <2>7
    <3> QED
      BY <2>5, <2>7, <3>1, LeadIs
  <2>9. ~(bit \in c)
    BY <1>6, <2>1, <2>3 DEF SymDiff
  <2> HIDE DEF c
  <2> QED
    BY <1>6, <2>1, <2>5, <2>6, <2>8, <2>9
<1>7. CASE Lead(r) # bit /\ bit \in r /\ \E p \in rows : Lead(p) = bit
  <2>1. PICK p \in rows : Lead(p) = bit
    BY <1>7
  <2>2. /\ c \in Vectors(width) /\ c # {} /\ Lead(c) = Lead(r)
        /\ ~(bit \in c) /\ p # r /\ c = SymDiff(r, p)
    BY <1>6, <1>7, <2>1
  <2> HIDE DEF c
  <2>3. Lead(r) = bit => c = r
    BY <1>7
  <2>4. \E q \in rows : Lead(q) = bit /\ q # r /\ c = SymDiff(r, q)
    BY <2>1, <2>2
  <2> QED
    BY <2>2, <2>3, <2>4 DEF c
<1> QED
  BY <1>3, <1>4, <1>5, <1>7

LEMMA ClearsRows ==
    ASSUME NEW rows, NEW bit
    PROVE  ClearColumn(rows, bit) = {Cleaned(rows, r, bit) : r \in rows}
  BY DEF ClearColumn, Cleaned

\* An echelon basis whose pivots below k are in their own rows only.
Rref(rows, width, k) ==
    /\ Ech(rows, width)
    /\ \A p \in rows, r \in rows : Lead(p) < k /\ p # r => ~(Lead(p) \in r)

LEMMA ClearedIsEchelon ==
    ASSUME NEW width \in Nat, NEW rows, Ech(rows, width), NEW k \in Nat
    PROVE  Ech(ClearColumn(rows, k), width)
<1> DEFINE C(r) == Cleaned(rows, r, k)
           more == ClearColumn(rows, k)
<1>1. more = {C(r) : r \in rows}
  BY ClearsRows
<1>2. ASSUME NEW r \in rows
      PROVE  C(r) \in Vectors(width) /\ C(r) # {} /\ Lead(C(r)) = Lead(r)
  BY CleanedFacts
<1> HIDE DEF C
<1>3. more \in Bases(width) /\ ~({} \in more)
  BY <1>1, <1>2 DEF Bases
<1>4. ASSUME NEW p \in more, NEW q \in more, Lead(p) = Lead(q) PROVE p = q
  <2>1. PICK a \in rows : p = C(a)
    BY <1>1
  <2>2. PICK b \in rows : q = C(b)
    BY <1>1
  <2>3. Lead(a) = Lead(b)
    BY <1>2, <1>4, <2>1, <2>2
  <2>4. a = b
    BY <2>3 DEF Ech
  <2> QED
    BY <2>1, <2>2, <2>4
<1> HIDE DEF more
<1>5. Ech(more, width)
  BY <1>3, <1>4 DEF Ech
<1> QED
  BY <1>5 DEF more

LEMMA ClearColumnFacts ==
    ASSUME NEW width \in Nat, NEW k \in Nat, NEW rows, Rref(rows, width, k)
    PROVE  /\ Rref(ClearColumn(rows, k), width, k + 1)
           /\ \A check : Obeyed(ClearColumn(rows, k), check) <=> Obeyed(rows, check)
<1> DEFINE C(r) == Cleaned(rows, r, k)
           more == ClearColumn(rows, k)
<1>1. Ech(rows, width) /\ rows \in Bases(width)
  BY DEF Rref, Ech
<1>2. more = {C(r) : r \in rows}
  BY ClearsRows
<1>3. ASSUME NEW r \in rows
      PROVE  /\ C(r) \in Vectors(width) /\ C(r) # {} /\ Lead(C(r)) = Lead(r)
             /\ Lead(r) = k => C(r) = r
             /\ \A p \in rows : Lead(p) = k /\ p # r => ~(k \in C(r))
             /\ \/ C(r) = r
                \/ \E p \in rows : Lead(p) = k /\ p # r /\ C(r) = SymDiff(r, p)
  BY <1>1, CleanedFacts
<1> HIDE DEF C
<1>4. Ech(more, width)
  BY <1>1, ClearedIsEchelon
<1>5. ASSUME NEW p \in more, NEW q \in more, Lead(p) < k + 1, p # q
      PROVE  ~(Lead(p) \in q)
  <2>1. PICK a \in rows : p = C(a)
    BY <1>2
  <2>2. PICK b \in rows : q = C(b)
    BY <1>2
  <2>3. Lead(p) = Lead(a) /\ a # b
    BY <1>3, <1>5, <2>1, <2>2
  <2>4. Lead(a) \in Nat
    <3>1. a \in Vectors(width) /\ a # {}
      BY <1>1 DEF Ech, Bases
    <3> QED
      BY <3>1, LeadFacts
  <2>5. CASE Lead(a) = k
    BY <1>3, <2>2, <2>3, <2>5
  <2>6. CASE Lead(a) < k
    <3>1. ~(Lead(a) \in b)
      BY <2>3, <2>6 DEF Rref
    <3>2. \A c \in rows : Lead(c) = k => ~(Lead(a) \in c)
      BY <2>4, <2>6 DEF Rref
    <3>3. ~(Lead(a) \in C(b))
      <4>1. CASE C(b) = b
        BY <3>1, <4>1
      <4>2. CASE \E c \in rows : Lead(c) = k /\ c # b /\ C(b) = SymDiff(b, c)
        BY <3>1, <3>2, <4>2 DEF SymDiff
      <4> QED
        BY <1>3, <4>1, <4>2
    <3> QED
      BY <2>2, <2>3, <3>3
  <2> QED
    BY <1>5, <2>3, <2>4, <2>5, <2>6
<1>6. \A r \in rows : IsFiniteSet(r)
  BY <1>1, BasesFacts DEF Bases
<1>7. ASSUME NEW check, Obeyed(rows, check) PROVE Obeyed(more, check)
  <2> SUFFICES ASSUME NEW r \in rows PROVE Satisfies(C(r), check)
    BY <1>2 DEF Obeyed
  <2>1. CASE C(r) = r
    BY <1>7, <2>1 DEF Obeyed
  <2>2. CASE \E p \in rows : Lead(p) = k /\ p # r /\ C(r) = SymDiff(r, p)
    <3>1. PICK p \in rows : C(r) = SymDiff(r, p)
      BY <2>2
    <3>2. Satisfies(r, check) /\ Satisfies(p, check)
      BY <1>7 DEF Obeyed
    <3> QED
      BY <1>6, <3>1, <3>2, SumSatisfies
  <2> QED
    BY <1>3, <2>1, <2>2
<1>8. ASSUME NEW check, Obeyed(more, check) PROVE Obeyed(rows, check)
  <2>1. \A r \in rows : Satisfies(C(r), check)
    BY <1>2, <1>8 DEF Obeyed
  <2> SUFFICES ASSUME NEW r \in rows PROVE Satisfies(r, check)
    BY DEF Obeyed
  <2>2. CASE C(r) = r
    BY <2>1, <2>2
  <2>3. CASE \E p \in rows : Lead(p) = k /\ p # r /\ C(r) = SymDiff(r, p)
    <3>1. PICK p \in rows : Lead(p) = k /\ C(r) = SymDiff(r, p)
      BY <2>3
    <3>2. C(p) = p
      BY <1>3, <3>1
    <3>3. Satisfies(p, check) /\ Satisfies(SymDiff(r, p), check)
      BY <2>1, <3>1, <3>2
    <3> QED
      BY <1>6, <3>3, SumSatisfies
  <2> QED
    BY <1>3, <2>2, <2>3
<1> HIDE DEF more
<1>9. Rref(more, width, k + 1)
  BY <1>4, <1>5 DEF Rref
<1> QED
  BY <1>7, <1>8, <1>9 DEF more

LEMMA ReducedIsChosen ==
    ASSUME NEW rows, NEW width
    PROVE  Reduced(rows, width) =
               (CHOOSE h : h = [s \in SUBSET DOMAIN [b \in 1 .. width |-> b - 1] |->
                                   IF s = {} THEN rows
                                   ELSE ClearColumn(h[s \ {Max(s)}],
                                                    [b \in 1 .. width |-> b - 1][Max(s)])])
                                                        [DOMAIN [b \in 1 .. width |-> b - 1]]
  BY DEF Reduced, FoldLeft, MapThenFoldSet

\* The bases that the reduction goes through.
ReducedChain(c, rows, m) ==
    c[0] = rows /\ \A k \in 1 .. m : c[k] = ClearColumn(c[k - 1], k - 1)

LEMMA ReducedSteps ==
    ASSUME NEW width \in Nat, NEW rows, Ech(rows, width)
    PROVE  \E c \in [0 .. width -> EchSets(width)] :
               ReducedChain(c, rows, width) /\ Reduced(rows, width) = c[width]
<1> DEFINE q == [b \in 1 .. width |-> b - 1]
           V == EchSets(width)
           F == [p \in V \X (1 .. width) |-> ClearColumn(p[1], q[p[2]])]
           Unfolds(h) == h = [s \in SUBSET (1 .. width) |->
                                 IF s = {} THEN rows
                                 ELSE ClearColumn(h[s \ {Max(s)}], q[Max(s)])]
           h == CHOOSE k : Unfolds(k)
<1>0. q \in [1 .. width -> Nat] /\ \A k \in 1 .. width : q[k] = k - 1
  OBVIOUS
<1> HIDE DEF q
<1>1. rows \in V
  BY DEF EchSets, Ech
<1>2. ASSUME NEW r \in V, NEW k \in 1 .. width PROVE ClearColumn(r, q[k]) \in V
  <2>1. Ech(r, width) /\ q[k] \in Nat
    BY <1>0 DEF EchSets
  <2>2. Ech(ClearColumn(r, q[k]), width)
    BY <2>1, ClearedIsEchelon
  <2> QED
    BY <2>2 DEF EchSets, Ech
<1>3. F \in [V \X (1 .. width) -> V]
  <2> HIDE DEF V
  <2> QED
    BY <1>2
<1>4. PICK f \in [SUBSET (1 .. width) -> V] : Folder(f, F, rows, width)
  <2> HIDE DEF V, F
  <2> QED
    BY <1>1, <1>3, FolderExists
<1>5. ASSUME NEW s \in SUBSET (1 .. width)
      PROVE  f[s] = IF s = {} THEN rows ELSE ClearColumn(f[s \ {Max(s)}], q[Max(s)])
  <2>1. CASE s = {}
    BY <1>4, <2>1 DEF Folder
  <2>2. CASE s # {}
    <3>1. Max(s) \in 1 .. width /\ f[s \ {Max(s)}] \in V
      <4>1. Max(s) \in s
        BY <2>2, MaxOfPart
      <4> HIDE DEF V
      <4> QED
        BY <4>1
    <3>2. f[s] = F[<<f[s \ {Max(s)}], Max(s)>>]
      <4> HIDE DEF F, V
      <4> QED
        BY <1>4, <2>2 DEF Folder
    <3> HIDE DEF V
    <3> QED
      BY <2>2, <3>1, <3>2
  <2> QED
    BY <2>1, <2>2
<1>6. Unfolds(f)
  <2> HIDE DEF V
  <2>1. f = [s \in SUBSET (1 .. width) |-> f[s]]
    BY <1>4
  <2>2. [s \in SUBSET (1 .. width) |-> f[s]]
           = [s \in SUBSET (1 .. width) |->
                 IF s = {} THEN rows ELSE ClearColumn(f[s \ {Max(s)}], q[Max(s)])]
    BY <1>5, Zenon
  <2> QED
    BY <2>1, <2>2
<1>7. Unfolds(h)
  <2> HIDE DEF Unfolds
  <2> QED
    BY <1>6
<1>8. Reduced(rows, width) = h[1 .. width]
  <2>1. Reduced(rows, width) =
           (CHOOSE g : g = [s \in SUBSET DOMAIN q |->
                               IF s = {} THEN rows
                               ELSE ClearColumn(g[s \ {Max(s)}], q[Max(s)])])[DOMAIN q]
    BY ReducedIsChosen DEF q
  <2>2. DOMAIN q = 1 .. width
    BY <1>0
  <2> HIDE DEF q
  <2> QED
    BY <2>1, <2>2
<1>9. Folds(h, F, rows, width, V)
  <2>1. \A s \in SUBSET (1 .. width) :
           h[s] = IF s = {} THEN rows ELSE ClearColumn(h[s \ {Max(s)}], q[Max(s)])
    <3> HIDE DEF h
    <3> QED
      BY <1>7
  <2> HIDE DEF h, V
  <2>2. h[{}] = rows
    <3>1. {} \in SUBSET (1 .. width)
      OBVIOUS
    <3> QED
      BY <2>1, <3>1
  <2>3. ASSUME NEW s \in SUBSET (1 .. width), s # {}, h[s \ {Max(s)}] \in V
        PROVE  h[s] = F[<<h[s \ {Max(s)}], Max(s)>>]
    <3>1. Max(s) \in 1 .. width
      BY <2>3, MaxOfPart
    <3> QED
      BY <2>1, <2>3, <3>1
  <2> HIDE DEF F
  <2> QED
    BY <2>2, <2>3 DEF Folds
<1> HIDE DEF h
<1>10. PICK c \in [0 .. width -> V] : ChainOf(c, h, F, rows, width)
  <2> HIDE DEF V, F
  <2> QED
    BY <1>1, <1>3, <1>9, FoldChain
<1>11. ReducedChain(c, rows, width)
  <2>1. ASSUME NEW k \in 1 .. width PROVE c[k] = ClearColumn(c[k - 1], k - 1)
    <3>1. c[k] = F[<<c[k - 1], k>>] /\ k - 1 \in 0 .. width
      <4> HIDE DEF F, V
      <4> QED
        BY <1>10 DEF ChainOf, Chained
    <3>2. c[k - 1] \in V
      BY <3>1
    <3>3. c[k] = ClearColumn(c[k - 1], q[k])
      <4> HIDE DEF V
      <4> QED
        BY <3>1, <3>2
    <3> QED
      BY <1>0, <3>3
  <2>2. c[0] = rows
    BY <1>10 DEF ChainOf, Chained
  <2> QED
    BY <2>1, <2>2 DEF ReducedChain
<1> QED
  BY <1>8, <1>10, <1>11 DEF ChainOf

\* The reduced rows: no pivot is in another row, and the checks are those of
\* the basis that was reduced.
LEMMA ReducedFacts ==
    ASSUME NEW width \in Nat, NEW rows, Ech(rows, width)
    PROVE  /\ Rref(Reduced(rows, width), width, width)
           /\ \A check : Obeyed(Reduced(rows, width), check) <=> Obeyed(rows, check)
<1>1. PICK c \in [0 .. width -> EchSets(width)] :
         ReducedChain(c, rows, width) /\ Reduced(rows, width) = c[width]
  BY ReducedSteps
<1> DEFINE T == {k \in 0 .. width : /\ Rref(c[k], width, k)
                                    /\ \A check : Obeyed(c[k], check) <=> Obeyed(rows, check)}
<1>2. 0 \in T
  <2>1. c[0] = rows
    BY <1>1 DEF ReducedChain
  <2>2. \A p \in rows : Lead(p) \in Nat
    BY LeadFacts DEF Ech, Bases
  <2>3. \A p \in rows : ~(Lead(p) < 0)
    BY <2>2
  <2> QED
    BY <2>1, <2>3 DEF Rref
<1>3. ASSUME NEW k \in 1 .. width, k - 1 \in T PROVE k \in T
  <2>1. c[k] = ClearColumn(c[k - 1], k - 1) /\ k - 1 \in Nat /\ (k - 1) + 1 = k
    BY <1>1 DEF ReducedChain
  <2>2. Rref(c[k - 1], width, k - 1) /\ \A check : Obeyed(c[k - 1], check) <=> Obeyed(rows, check)
    BY <1>3
  <2>3. Rref(c[k], width, k)
    BY <2>1, <2>2, ClearColumnFacts
  <2>4. \A check : Obeyed(c[k], check) <=> Obeyed(c[k - 1], check)
    BY <2>1, <2>2, ClearColumnFacts
  <2> QED
    BY <2>2, <2>3, <2>4
<1>4. 0 .. width \subseteq T
  <2> HIDE DEF T
  <2> QED
    BY <1>2, <1>3, BoundedInduction
<1> QED
  BY <1>1, <1>4

----------------------------------------------------------------------------
(* The checks read off the reduced rows.                                    *)

LEMMA PairIsEven == ASSUME NEW a, NEW b, a # b PROVE ~Odd({a, b})
<1>1. IsFiniteSet({a}) /\ Cardinality({a}) = 1 /\ ~(b \in {a})
  BY FS_Singleton
<1>2. Cardinality({a} \cup {b}) = Cardinality({a}) + 1
  BY <1>1, FS_AddElement
<1>3. {a} \cup {b} = {a, b}
  OBVIOUS
<1>4. Cardinality({a, b}) = 2
  BY <1>1, <1>2, <1>3
<1> QED
  BY <1>4 DEF Odd

FreeColumns(rows, width) == {b \in Bits(width) : Pivots(rows, b) = {}}

\* A free check is its own column, and the pivots of the rows that hold it.
LEMMA FreeCheckFacts ==
    ASSUME NEW width \in Nat, NEW rows, Rref(rows, width, width),
           NEW c \in FreeColumns(rows, width)
    PROVE  /\ FreeCheck(rows, c) \in Vectors(width)
           /\ \A b \in FreeColumns(rows, width) : b \in FreeCheck(rows, c) <=> b = c
           /\ \A r \in rows : Lead(r) \in FreeCheck(rows, c) <=> c \in r
           /\ \A r \in rows : Satisfies(r, FreeCheck(rows, c))
<1> DEFINE v == FreeCheck(rows, c)
<1>1. Ech(rows, width) /\ rows \subseteq Vectors(width)
  BY DEF Rref, Ech, Bases
<1>2. ASSUME NEW r \in rows
      PROVE  /\ r \in Vectors(width) /\ r # {} /\ Lead(r) \in r
             /\ Lead(r) \in Bits(width) /\ ~(Lead(r) \in FreeColumns(rows, width))
             /\ Lead(r) < width
  <2>1. r \in Vectors(width) /\ r # {}
    BY <1>1 DEF Ech
  <2>2. Lead(r) \in r /\ Lead(r) \in Bits(width)
    BY <2>1, LeadFacts
  <2>3. r \in Pivots(rows, Lead(r))
    BY DEF Pivots
  <2> QED
    BY <2>1, <2>2, <2>3 DEF FreeColumns, Bits
<1>3. v = {c} \cup {Lead(r) : r \in {q \in rows : c \in q}}
  BY DEF FreeCheck
<1>4. c \in Bits(width)
  BY DEF FreeColumns
<1> HIDE DEF v
<1>5. v \in Vectors(width)
  BY <1>2, <1>3, <1>4 DEF Vectors
<1>6. \A b \in FreeColumns(rows, width) : b \in v <=> b = c
  BY <1>2, <1>3
<1>7. ASSUME NEW r \in rows PROVE Lead(r) \in v <=> c \in r
  <2>1. Lead(r) # c
    BY <1>2
  <2>2. ASSUME NEW q \in rows, Lead(q) = Lead(r) PROVE q = r
    BY <1>1, <2>2 DEF Ech
  <2> QED
    BY <1>3, <2>1, <2>2
<1>8. ASSUME NEW r \in rows PROVE Satisfies(r, v)
  <2>1. IsFiniteSet(r)
    BY <1>2, BasesFacts
  <2>2. ASSUME NEW x \in r \cap v PROVE c \in r /\ x \in {c, Lead(r)}
    <3>1. CASE x = c
      BY <2>2, <3>1
    <3>2. CASE x # c
      <4>1. PICK q \in rows : c \in q /\ x = Lead(q)
        BY <1>3, <2>2, <3>2
      <4>2. q = r
        BY <1>2, <2>2, <4>1 DEF Rref
      <4> QED
        BY <4>1, <4>2
    <3> QED
      BY <3>1, <3>2
  <2>3. CASE c \in r
    <3>1. r \cap v = {c, Lead(r)}
      BY <1>2, <1>3, <2>2, <2>3
    <3>2. c # Lead(r)
      BY <1>2
    <3>3. ~Odd(r \cap v)
      BY <3>1, <3>2, PairIsEven
    <3> QED
      BY <2>1, <3>3, SatisfiesIsEven
  <2>4. CASE ~(c \in r)
    <3>1. r \cap v = {}
      BY <2>2, <2>4
    <3>2. ~Odd(r \cap v)
      BY <3>1, NoneIsEven
    <3> QED
      BY <2>1, <3>2, SatisfiesIsEven
  <2> QED
    BY <2>3, <2>4
<1> QED
  BY <1>5, <1>6, <1>7, <1>8 DEF v

\* As many checks as columns, on any set of free columns.
LEMMA ChecksOfColumns ==
    ASSUME NEW width \in Nat, NEW rows, Rref(rows, width, width),
           NEW D \in SUBSET FreeColumns(rows, width)
    PROVE  /\ IsFiniteSet(D)
           /\ Odd({FreeCheck(rows, c) : c \in D}) <=> Odd(D)
<1> DEFINE image == {FreeCheck(rows, c) : c \in D}
           check == [c \in D |-> FreeCheck(rows, c)]
<1>1. D \subseteq Bits(width) /\ IsFiniteSet(Bits(width))
  BY BasesFacts DEF FreeColumns
<1>2. IsFiniteSet(D)
  BY <1>1, FS_Subset
<1>3. ASSUME NEW a \in D, NEW b \in D, FreeCheck(rows, a) = FreeCheck(rows, b) PROVE a = b
  BY <1>3, FreeCheckFacts
<1>4. check \in Bijection(D, image)
  BY <1>3 DEF Bijection, Injection, Surjection, IsInjective
<1>5. Cardinality(image) = Cardinality(D)
  <2> HIDE DEF check, image
  <2>1. ExistsBijection(D, image)
    BY <1>4 DEF ExistsBijection
  <2> QED
    BY <1>2, <2>1, FS_Bijection, FS_SameCardinalityBij
<1> QED
  BY <1>2, <1>5 DEF Odd

\* The free checks are a basis of the vectors that all rows obey.
LEMMA FreeChecksFacts ==
    ASSUME NEW width \in Nat, NEW rows, Rref(rows, width, width)
    PROVE  /\ FreeChecks(rows, width) \in Bases(width)
           /\ Independent(FreeChecks(rows, width))
           /\ Span(FreeChecks(rows, width)) = {v \in Vectors(width) : Obeyed(rows, v)}
<1> DEFINE F == FreeColumns(rows, width)
           K(c) == FreeCheck(rows, c)
           basis == FreeChecks(rows, width)
<1>1. basis = {K(c) : c \in F}
  BY DEF FreeChecks, FreeColumns
<1>2. \A c \in F : /\ K(c) \in Vectors(width)
                   /\ \A b \in F : b \in K(c) <=> b = c
                   /\ \A r \in rows : Lead(r) \in K(c) <=> c \in r
                   /\ \A r \in rows : Satisfies(r, K(c))
  BY FreeCheckFacts
<1>3. \A D \in SUBSET F : IsFiniteSet(D) /\ (Odd({K(c) : c \in D}) <=> Odd(D))
  BY ChecksOfColumns
<1>4. rows \in Bases(width) /\ ~({} \in rows)
  BY DEF Rref, Ech
<1>5. /\ IsFiniteSet(Bits(width))
      /\ \A v \in Vectors(width) : IsFiniteSet(v)
      /\ \A b \in Bases(width) : IsFiniteSet(b)
  BY BasesFacts
<1> HIDE DEF F, K, basis
<1>6. basis \in Bases(width) /\ IsFiniteSet(basis) /\ basis \subseteq SUBSET Bits(width)
  BY <1>1, <1>2, <1>5 DEF Bases, Vectors
<1>7. Independent(basis)
  <2>1. ASSUME NEW D \in SUBSET basis, D # {} PROVE \E b : \E v : Having(D, b) = {v}
    <3>1. PICK c \in F : K(c) \in D
      BY <1>1, <2>1
    <3>2. Having(D, c) = {K(c)}
      BY <1>1, <1>2, <3>1 DEF Having
    <3> QED
      BY <3>2
  <2> QED
    BY <1>6, <2>1, OwnBits
<1>8. ASSUME NEW v \in Span(basis) PROVE v \in Vectors(width) /\ Obeyed(rows, v)
  <2>1. v \in Vectors(width)
    BY <1>6, EchSpan
  <2>2. ASSUME NEW r \in rows PROVE Satisfies(r, v)
    <3>1. r \in Vectors(width)
      BY <1>4 DEF Bases
    <3>2. Obeyed(basis, r)
      <4> SUFFICES ASSUME NEW c \in F PROVE Satisfies(K(c), r)
        BY <1>1 DEF Obeyed
      <4> QED
        BY <1>2 DEF Satisfies
    <3>3. Satisfies(v, r)
      BY <1>6, <3>2, SpanObeys
    <3>4. v \cap r = r \cap v
      OBVIOUS
    <3> QED
      BY <3>3, <3>4 DEF Satisfies
  <2> QED
    BY <2>1, <2>2 DEF Obeyed
<1>9. ASSUME NEW v \in Vectors(width), Obeyed(rows, v) PROVE v \in Span(basis)
  <2> DEFINE D == {K(c) : c \in v \cap F}
             x == XorOf(D)
  <2>1. D \subseteq basis
    BY <1>1
  <2>2. IsFiniteSet(D) /\ D \subseteq SUBSET Bits(width)
    BY <1>6, <2>1, FS_Subset
  <2>3. x \in Span(basis)
    BY <2>1, SpanIs
  <2>4. x \subseteq Bits(width) /\ \A b : b \in x <=> Odd(Having(D, b))
    <3> HIDE DEF D
    <3> QED
      BY <2>2, XorFacts
  <2> HIDE DEF x
  <2>5. ASSUME NEW b \in F PROVE b \in x <=> b \in v
    <3>1. CASE b \in v
      <4>1. Having(D, b) = {K(b)}
        BY <1>2, <3>1 DEF Having
      <4> QED
        BY <2>4, <3>1, <4>1, OneIsOdd
    <3>2. CASE ~(b \in v)
      <4>1. Having(D, b) = {}
        BY <1>2, <3>2 DEF Having
      <4> QED
        BY <2>4, <3>2, <4>1, NoneIsEven
    <3> QED
      BY <3>1, <3>2
  <2>6. ASSUME NEW r \in rows PROVE Lead(r) \in x <=> Lead(r) \in v
    <3> DEFINE E == v \cap F \cap r
               l == Lead(r)
    <3>1. Having(D, l) = {K(c) : c \in E}
      BY <1>2 DEF Having
    <3>2. l \in x <=> Odd(E)
      <4>1. E \in SUBSET F
        OBVIOUS
      <4> HIDE DEF E, l
      <4>2. Odd({K(c) : c \in E}) <=> Odd(E)
        BY <1>3, <4>1
      <4>3. l \in x <=> Odd(Having(D, l))
        BY <2>4
      <4>4. Odd(Having(D, l)) <=> Odd({K(c) : c \in E})
        BY <3>1
      <4> QED
        BY <4>2, <4>3, <4>4
    <3>3. r \in Vectors(width) /\ r # {}
      BY <1>4 DEF Bases
    <3>4. l \in r /\ l \in Bits(width)
      BY <3>3, LeadFacts
    <3>5. ~(l \in F)
      <4>1. r \in Pivots(rows, l)
        BY DEF Pivots
      <4> QED
        BY <4>1 DEF F, FreeColumns
    <3>6. r \cap v = E \cup ({l} \cap v)
      <4>1. ASSUME NEW b \in r \cap v, ~(b \in F) PROVE b = l
        <5>1. b \in Bits(width)
          BY <3>3 DEF Vectors
        <5>2. PICK p \in rows : Lead(p) = b
          BY <4>1, <5>1 DEF F, FreeColumns, Pivots
        <5>3. b < width
          BY <5>1 DEF Bits
        <5>4. p = r
          BY <4>1, <5>2, <5>3 DEF Rref
        <5> QED
          BY <5>2, <5>4
      <4> QED
        BY <3>4, <4>1
    <3>7. ~Odd(r \cap v)
      BY <1>5, <1>9, <3>3, SatisfiesIsEven DEF Obeyed
    <3>8. IsFiniteSet(E)
      BY <1>3
    <3>9. CASE l \in v
      <4>1. r \cap v = SymDiff(E, {l})
        BY <3>5, <3>6, <3>9 DEF SymDiff
      <4>2. IsFiniteSet({l}) /\ Odd({l})
        BY FS_Singleton, OneIsOdd
      <4>3. Odd(E)
        <5> HIDE DEF E, l
        <5> QED
          BY <3>7, <3>8, <4>1, <4>2, OddOfSymDiff
      <4> QED
        BY <3>2, <3>9, <4>3
    <3>10. CASE ~(l \in v)
      <4>1. r \cap v = E
        BY <3>6, <3>10
      <4> QED
        BY <3>2, <3>7, <3>10, <4>1
    <3> QED
      BY <3>9, <3>10
  <2>7. x = v
    <3>1. ASSUME NEW b \in Bits(width) PROVE b \in x <=> b \in v
      <4>1. CASE b \in F
        BY <2>5, <4>1
      <4>2. CASE ~(b \in F)
        <5>1. PICK p \in rows : Lead(p) = b
          BY <4>2 DEF F, FreeColumns, Pivots
        <5> QED
          BY <2>6, <5>1
      <4> QED
        BY <4>1, <4>2
    <3> QED
      BY <2>4, <3>1 DEF Vectors
  <2> QED
    BY <2>3, <2>7
<1>10. Span(basis) = {v \in Vectors(width) : Obeyed(rows, v)}
  BY <1>8, <1>9
<1> QED
  BY <1>6, <1>7, <1>10 DEF basis

----------------------------------------------------------------------------
(* The windows of a stream, and the checks recovered from them.             *)

LEMMA WindowsOfLong ==
    ASSUME NEW n, NEW width, IsCode(n, width), NEW stream, Len(stream) \in Int,
           Len(stream) >= width
    PROVE  WindowCount(stream, n, width) >= 1
<1> DEFINE room == Len(stream) - width
           q == room \div n
<1>1. n \in Nat \ {0} /\ room \in Nat
  BY DEF IsCode
<1>2. WindowCount(stream, n, width) = q + 1
  BY DEF WindowCount
<1> HIDE DEF room
<1>3. q \in Nat
  BY <1>1, QuotientIsNatural
<1> HIDE DEF q
<1> QED
  BY <1>2, <1>3

LEMMA WindowsFacts ==
    ASSUME NEW n, NEW width, IsCode(n, width), NEW stream, Len(stream) \in Int,
           NEW max \in Int
    PROVE  \E m \in Nat : /\ Windows(stream, n, width, max) \in [1 .. m -> Vectors(width)]
                          /\ DOMAIN Windows(stream, n, width, max) = 1 .. m
                          /\ Len(Windows(stream, n, width, max)) = m
                          /\ Len(stream) >= width /\ max > 0 => m > 0
<1> DEFINE all == WindowCount(stream, n, width)
           used == IF max > 0 THEN Min({all, max}) ELSE all
           m == IF used < 0 THEN 0 ELSE used
           f == [w \in 1 .. used |-> Window(stream, (w - 1) * n, width)]
<1>1. all \in Int
  BY DivisionFacts DEF WindowCount, IsCode
<1>2. used \in Int
  <2>1. Min({all, max}) \in {all, max}
    <3> HIDE DEF all
    <3> QED
      BY <1>1 DEF Min
  <2> HIDE DEF all
  <2> QED
    BY <1>1, <2>1
<1>3. f \in Seq(Vectors(width))
  <2> HIDE DEF used
  <2>1. m \in Nat /\ 1 .. used = 1 .. m
    BY <1>2
  <2> HIDE DEF m
  <2>2. \A w \in 1 .. used : Window(stream, (w - 1) * n, width) \in Vectors(width)
    BY DEF Window, Vectors
  <2>3. f \in [1 .. m -> Vectors(width)]
    BY <2>1, <2>2
  <2> HIDE DEF f
  <2> QED
    BY <2>1, <2>3, SeqDef
<1>4. Windows(stream, n, width, max) = f \o << >>
  BY DEF Windows
<1>5. Windows(stream, n, width, max) = f
  <2> HIDE DEF f
  <2> QED
    BY <1>3, <1>4, ConcatEmptySeq
<1>6. f \in [1 .. Len(f) -> Vectors(width)] /\ Len(f) \in Nat
  <2> HIDE DEF f
  <2> QED
    BY <1>3
<1>7. Len(stream) >= width /\ max > 0 => Len(f) > 0
  <2>1. SUFFICES ASSUME Len(stream) >= width, max > 0 PROVE Len(f) > 0
    OBVIOUS
  <2>2. all >= 1
    BY <2>1, WindowsOfLong
  <2>3. used >= 1
    <3>1. Min({all, max}) \in {all, max}
      <4> HIDE DEF all
      <4> QED
        BY <1>1 DEF Min
    <3> HIDE DEF all
    <3> QED
      BY <1>1, <2>1, <2>2, <3>1
  <2> HIDE DEF used
  <2>4. 1 \in DOMAIN f
    BY <1>2, <2>3
  <2> HIDE DEF f
  <2> QED
    BY <1>3, <2>4
<1> HIDE DEF f
<1> QED
  BY <1>5, <1>6, <1>7

\* The null space of a stream's windows is a basis of their orthogonal
\* complement.
LEMMA NullSpaceFacts ==
    ASSUME NEW n, NEW width, IsCode(n, width), NEW stream, Len(stream) \in Int,
           NEW max \in Int
    PROVE  /\ NullSpace(stream, n, width, max) \in Bases(width)
           /\ Independent(NullSpace(stream, n, width, max))
           /\ Span(NullSpace(stream, n, width, max))
                  = Complement(Windows(stream, n, width, max), width)
<1> DEFINE windows == Windows(stream, n, width, max)
<1>1. PICK m \in Nat : windows \in [1 .. m -> Vectors(width)] /\ DOMAIN windows = 1 .. m
  BY WindowsFacts
<1>2. width \in Nat /\ width <= HardWindowCap
  BY DEF IsCode
<1> DEFINE rows == Echelon(windows)
           rref == Reduced(rows, width)
<1>3. NullSpace(stream, n, width, max) = FreeChecks(rref, width)
  BY DEF NullSpace
<1> HIDE DEF windows
<1>4. /\ Ech(rows, width)
      /\ \A check : Obeyed(rows, check) <=> \A k \in 1 .. m : Satisfies(windows[k], check)
  BY <1>1, <1>2, EchelonFacts
<1> HIDE DEF rows
<1>5. /\ Rref(rref, width, width)
      /\ \A check : Obeyed(rref, check) <=> Obeyed(rows, check)
  BY <1>2, <1>4, ReducedFacts
<1> HIDE DEF rref
<1>6. /\ FreeChecks(rref, width) \in Bases(width)
      /\ Independent(FreeChecks(rref, width))
      /\ Span(FreeChecks(rref, width)) = {v \in Vectors(width) : Obeyed(rref, v)}
  BY <1>2, <1>5, FreeChecksFacts
<1>7. {v \in Vectors(width) : Obeyed(rref, v)} = Complement(windows, width)
  BY <1>1, <1>4, <1>5 DEF Complement
<1> QED
  BY <1>3, <1>6, <1>7 DEF windows

LEMMA SegmentWindowsType ==
    ASSUME NEW n, NEW width, IsCode(n, width)
    PROVE  SegmentWindows(width) \in Nat \ {0}
<1> DEFINE a == SegmentFactor * width
           b == width + RecoveryMargin
<1>1. width \in Nat \ {0}
  BY DEF IsCode
<1>2. a \in Nat /\ b \in Nat \ {0}
  BY <1>1, WindowAssumption
<1> HIDE DEF a, b
<1>3. Max({a, b}) \in {a, b} /\ Max({a, b}) >= b
  BY <1>2 DEF Max
<1> QED
  BY <1>2, <1>3 DEF SegmentWindows, a, b

\* The call being served, when it was not refused.
LEMMA AcceptedFacts ==
    ASSUME Given, ~Refused(call)
    PROVE  /\ IsCode(call.n, Width) /\ Width = WindowBits(call.n, call.k)
           /\ call.lhs \in Seq({0, 1}) /\ call.rhs \in Seq({0, 1})
           /\ LongEnough(call.lhs, call.n, Width) /\ LongEnough(call.rhs, call.n, Width)
           /\ SegmentWindows(Width) \in Nat \ {0}
<1>1. call.n \in Int /\ call.k \in Int /\ call.lhs \in Seq({0, 1}) /\ call.rhs \in Seq({0, 1})
  BY CallFacts
<1>2. Width = WindowBits(call.n, call.k) /\ Width # 0
  BY DEF Refused, Width
<1>3. IsCode(call.n, Width)
  BY <1>1, <1>2, WidthFacts
<1>4. LongEnough(call.lhs, call.n, Width) /\ LongEnough(call.rhs, call.n, Width)
  BY <1>2 DEF Refused
<1>5. SegmentWindows(Width) \in Nat \ {0}
  BY <1>3, SegmentWindowsType
<1> QED
  BY <1>1, <1>2, <1>3, <1>4, <1>5

\* The null space read off the reduced rows is a basis of the whole orthogonal
\* complement of a segment's windows, for every code and every stream
\* (compare.c:254-313).
THEOREM NullSpaceIsTheComplement == Spec => []NullSpaceIsComplement
<1>1. CompareInv => NullSpaceIsComplement
  <2> SUFFICES ASSUME Given, ~Refused(call)
               PROVE  LET windows == Windows(call.lhs, call.n, Width, SegmentWindows(Width))
                          basis == NullSpace(call.lhs, call.n, Width, SegmentWindows(Width))
                      IN  Independent(basis) /\ Span(basis) = Complement(windows, Width)
    BY DEF CompareInv, NullSpaceIsComplement, Answered
  <2>1. /\ IsCode(call.n, Width) /\ call.lhs \in Seq({0, 1})
        /\ SegmentWindows(Width) \in Int
    BY AcceptedFacts
  <2>2. Len(call.lhs) \in Int
    BY <2>1
  <2> QED
    BY <2>1, <2>2, NullSpaceFacts
<1> QED
  BY <1>1, AnswersAreComputed, PTL

----------------------------------------------------------------------------
(* Powers of two, and the vectors by their packed value.                    *)

LEMMA PowerFacts ==
    /\ 2^0 = 1
    /\ \A n \in Nat : 2^n \in Nat \ {0} /\ 2^(n + 1) = 2 * 2^n
<1>1. ASSUME NEW n \in Nat
      PROVE  IsFiniteSet(SUBSET (1 .. n)) /\ Cardinality(SUBSET (1 .. n)) = 2^n
  <2>1. IsFiniteSet(1 .. n) /\ Cardinality(1 .. n) = n
    BY FS_Interval
  <2> QED
    BY <2>1, FS_SUBSET
<1>2. 2^0 = 1
  <2>1. 1 .. 0 = {} /\ SUBSET {} = {{}}
    OBVIOUS
  <2>2. Cardinality({{}}) = 1
    BY FS_Singleton
  <2> QED
    BY <1>1, <2>1, <2>2
<1>3. ASSUME NEW n \in Nat PROVE 2^(n + 1) = 2 * 2^n
  <2> DEFINE A == SUBSET (1 .. n)
             B == {s \cup {n + 1} : s \in A}
             f == [s \in A |-> s \cup {n + 1}]
  <2>1. \A s \in A : ~(n + 1 \in s)
    OBVIOUS
  <2>2. f \in Bijection(A, B)
    <3>1. ASSUME NEW a \in A, NEW b \in A, f[a] = f[b] PROVE a = b
      <4>1. a = (a \cup {n + 1}) \ {n + 1} /\ b = (b \cup {n + 1}) \ {n + 1}
        BY <2>1
      <4>2. a \cup {n + 1} = b \cup {n + 1}
        BY <3>1
      <4> QED
        BY <4>1, <4>2
    <3>2. f \in [A -> B] /\ \A b \in B : \E a \in A : f[a] = b
      OBVIOUS
    <3> HIDE DEF f, A, B
    <3> QED
      BY <3>1, <3>2 DEF Bijection, Injection, Surjection, IsInjective
  <2>3. IsFiniteSet(A) /\ Cardinality(A) = 2^n /\ Cardinality(A) \in Nat
    BY <1>1, FS_CardinalityType
  <2>4. IsFiniteSet(B) /\ Cardinality(B) = 2^n
    <3> HIDE DEF A, B, f
    <3>1. ExistsBijection(A, B)
      BY <2>2 DEF ExistsBijection
    <3> QED
      BY <2>3, <3>1, FS_Bijection
  <2>5. A \cap B = {}
    BY <2>1
  <2>6. SUBSET (1 .. (n + 1)) = A \cup B
    <3>1. ASSUME NEW s \in SUBSET (1 .. (n + 1)) PROVE s \in A \cup B
      <4>1. CASE n + 1 \in s
        <5>1. s \ {n + 1} \in A /\ s = (s \ {n + 1}) \cup {n + 1}
          BY <4>1
        <5> QED
          BY <5>1
      <4>2. CASE ~(n + 1 \in s)
        <5>1. s \in A
          BY <4>2
        <5> QED
          BY <5>1
      <4> QED
        BY <4>1, <4>2
    <3>2. 1 .. (n + 1) = (1 .. n) \cup {n + 1}
      OBVIOUS
    <3>3. A \subseteq SUBSET (1 .. (n + 1)) /\ B \subseteq SUBSET (1 .. (n + 1))
      BY <3>2
    <3> HIDE DEF A, B
    <3> QED
      BY <3>1, <3>3
  <2>7. Cardinality(A \cup B) = 2^n + 2^n
    <3> HIDE DEF A, B
    <3>1. Cardinality(A \cup B) = Cardinality(A) + Cardinality(B) - Cardinality({})
      BY <2>3, <2>4, <2>5, FS_Union
    <3>2. Cardinality({}) = 0
      BY FS_EmptySet
    <3> QED
      BY <2>3, <2>4, <3>1, <3>2
  <2>8. Cardinality(SUBSET (1 .. (n + 1))) = 2^(n + 1)
    BY <1>1
  <2>9. 2^(n + 1) = 2^n + 2^n /\ 2^n \in Nat
    <3> HIDE DEF A, B
    <3> QED
      BY <2>3, <2>6, <2>7, <2>8
  <2> QED
    BY <2>9
<1>4. ASSUME NEW n \in Nat PROVE 2^n \in Nat \ {0}
  <2>1. Cardinality(SUBSET (1 .. n)) \in Nat
    BY <1>1, FS_CardinalityType
  <2>2. SUBSET (1 .. n) # {}
    OBVIOUS
  <2>3. Cardinality(SUBSET (1 .. n)) # 0
    BY <1>1, <2>2, FS_EmptySet
  <2> QED
    BY <1>1, <2>1, <2>3
<1> QED
  BY <1>2, <1>3, <1>4

\* A bit above the lowest, of a number and of its half.
LEMMA HalfFacts ==
    ASSUME NEW d \in Nat \ {0}, NEW x \in Nat, NEW e \in {0, 1}
    PROVE  (2 * x + e) \div (2 * d) = x \div d
<1> DEFINE q == x \div d
           r == x % d
           p == d * q
<1>1. q \in Int /\ r \in 0 .. (d - 1) /\ x = p + r
  BY DivisionFacts
<1>2. p \in Int
  BY <1>1
<1>3. (2 * d) * q = 2 * p
  BY <1>1
<1> HIDE DEF q, r, p
<1>4. /\ 2 * d \in Nat \ {0} /\ 2 * x + e \in Int
      /\ 2 * x + e = 2 * p + (2 * r + e) /\ 2 * r + e \in 0 .. (2 * d - 1)
  BY <1>1, <1>2
<1> DEFINE dd == 2 * d
           rr == 2 * r + e
           xx == 2 * x + e
<1>5. dd \in Nat \ {0} /\ xx \in Int /\ rr \in 0 .. (dd - 1) /\ xx = dd * q + rr
  BY <1>3, <1>4
<1> HIDE DEF dd, rr, xx
<1>6. xx \div dd = q
  BY <1>1, <1>5, DivisionIsUnique
<1> QED
  BY <1>6 DEF xx, dd, q

Packs(value, v, width) ==
    \A b \in Bits(width) : (value \div 2^b) % 2 = 1 <=> b \in v

\* Every vector has a packed value.
LEMMA PackedExists ==
    ASSUME NEW width \in Nat, NEW v \in Vectors(width)
    PROVE  \E value \in 0 .. (2^width - 1) : Packs(value, v, width)
<1> DEFINE T == {m \in 0 .. width : \A u \in Vectors(m) :
                    \E value \in 0 .. (2^m - 1) : Packs(value, u, m)}
<1>1. 0 \in T
  <2>1. Bits(0) = {}
    BY DEF Bits
  <2>2. 0 \in 0 .. (2^0 - 1)
    BY PowerFacts
  <2>3. \A u : Packs(0, u, 0)
    BY <2>1 DEF Packs
  <2> QED
    BY <2>2, <2>3
<1>2. ASSUME NEW k \in 1 .. width, k - 1 \in T PROVE k \in T
  <2> DEFINE m == k - 1
  <2>1. m \in Nat /\ k = m + 1 /\ k \in 0 .. width
    OBVIOUS
  <2>2. ASSUME NEW u \in Vectors(k)
        PROVE  \E value \in 0 .. (2^k - 1) : Packs(value, u, k)
    <3> DEFINE t == {b \in Bits(m) : b + 1 \in u}
               e == IF 0 \in u THEN 1 ELSE 0
    <3>1. t \in Vectors(m)
      BY DEF Vectors
    <3>2. PICK x \in 0 .. (2^m - 1) : Packs(x, t, m)
      BY <1>2, <3>1
    <3>3. 2^m \in Nat \ {0} /\ 2^k = 2 * 2^m
      BY <2>1, PowerFacts
    <3>4. e \in {0, 1} /\ x \in Nat
      BY <3>3
    <3>5. 2 * x + e \in 0 .. (2^k - 1)
      BY <3>3, <3>4
    <3>6. ASSUME NEW b \in Bits(k)
          PROVE  ((2 * x + e) \div 2^b) % 2 = 1 <=> b \in u
      <4>1. CASE b = 0
        <5>1. (2 * x + e) \div 1 = 2 * x + e
          BY <3>4
        <5>2. (2 * x + e) % 2 = e
          BY <3>4
        <5> QED
          BY <4>1, <5>1, <5>2, PowerFacts
      <4>2. CASE b # 0
        <5> DEFINE c == b - 1
        <5>1. c \in Bits(m) /\ c \in Nat /\ b = c + 1
          BY <2>1, <4>2 DEF Bits
        <5> HIDE DEF c
        <5>2. 2^c \in Nat \ {0} /\ 2^b = 2 * 2^c
          BY <5>1, PowerFacts
        <5>3. (2 * x + e) \div 2^b = x \div 2^c
          <6> HIDE DEF e
          <6> QED
            BY <3>4, <5>2, HalfFacts
        <5>4. (x \div 2^c) % 2 = 1 <=> c \in t
          BY <3>2, <5>1 DEF Packs
        <5>5. c \in t <=> b \in u
          BY <5>1
        <5>6. ((2 * x + e) \div 2^b) % 2 = (x \div 2^c) % 2
          BY <5>3
        <5> QED
          BY <5>4, <5>5, <5>6
      <4> QED
        BY <4>1, <4>2
    <3> HIDE DEF e
    <3>7. Packs(2 * x + e, u, k)
      BY <3>6 DEF Packs
    <3> QED
      BY <3>5, <3>7
  <2> QED
    BY <2>1, <2>2
<1>3. 0 .. width \subseteq T
  <2> HIDE DEF T
  <2> QED
    BY <1>1, <1>2, BoundedInduction
<1> QED
  BY <1>3

LEMMA AscendingFacts ==
    ASSUME NEW width \in Nat
    PROVE  /\ 2^width - 1 \in Nat
           /\ Ascending(width) \in [1 .. (2^width - 1) -> Vectors(width)]
           /\ \A v \in Vectors(width) : v # {} =>
                  \E value \in 1 .. (2^width - 1) : Ascending(width)[value] = v
<1>1. 2^width \in Nat \ {0}
  BY PowerFacts
<1> DEFINE N == 2^width - 1
<1>2. N \in Nat
  BY <1>1
<1> HIDE DEF N
<1>3. Ascending(width) = [value \in 1 .. N |-> {b \in Bits(width) : (value \div 2^b) % 2 = 1}]
  BY DEF Ascending, N
<1>4. Ascending(width) \in [1 .. N -> Vectors(width)]
  BY <1>3 DEF Vectors
<1>5. ASSUME NEW v \in Vectors(width), v # {}
      PROVE  \E value \in 1 .. N : Ascending(width)[value] = v
  <2>1. PICK value \in 0 .. N : Packs(value, v, width)
    BY PackedExists DEF N
  <2>2. v = {b \in Bits(width) : (value \div 2^b) % 2 = 1}
    BY <2>1 DEF Packs, Vectors
  <2>3. value # 0
    <3>1. PICK b \in v : TRUE
      BY <1>5
    <3>2. (value \div 2^b) % 2 = 1 /\ b \in Nat
      BY <2>2 DEF Bits
    <3>3. 2^b \in Nat \ {0}
      BY <3>2, PowerFacts
    <3>4. (0 \div 2^b) % 2 = 0
      BY <3>3
    <3> QED
      BY <3>2, <3>4
  <2>4. value \in 1 .. N
    BY <1>2, <2>1, <2>3
  <2> QED
    BY <1>3, <2>2, <2>4
<1> QED
  BY <1>2, <1>4, <1>5 DEF N

----------------------------------------------------------------------------
(* The basis made of a spectrum.                                            *)

\* Rows with distinct leading bits are independent.
LEMMA EchelonIsIndependent ==
    ASSUME NEW width \in Nat, NEW rows, Ech(rows, width)
    PROVE  Independent(rows)
<1>1. rows \in Bases(width) /\ ~({} \in rows)
  BY DEF Ech
<1>2. IsFiniteSet(rows) /\ rows \subseteq SUBSET Bits(width)
  BY <1>1, BasesFacts DEF Bases, Vectors
<1>3. ASSUME NEW D \in SUBSET rows, D # {} PROVE \E b : \E v : Having(D, b) = {v}
  <2> DEFINE leads == {Lead(v) : v \in D}
  <2>1. ASSUME NEW v \in D
        PROVE  Lead(v) \in v /\ Lead(v) \in Bits(width) /\ \A x \in v : x \in Nat /\ x <= Lead(v)
    <3>1. v \in Vectors(width) /\ v # {}
      BY <1>1 DEF Bases
    <3> QED
      BY <3>1, LeadFacts
  <2>2. leads \in Vectors(width) /\ leads # {}
    BY <1>3, <2>1 DEF Vectors
  <2> HIDE DEF leads
  <2>3. Lead(leads) \in leads /\ Lead(leads) \in Nat /\ \A x \in leads : x \in Nat /\ x <= Lead(leads)
    BY <2>2, LeadFacts
  <2>4. PICK v \in D : Lead(v) = Lead(leads)
    BY <2>3 DEF leads
  <2>5. ASSUME NEW u \in D, Lead(v) \in u PROVE u = v
    <3>1. Lead(v) <= Lead(u) /\ Lead(u) \in Nat /\ Lead(v) \in Nat
      BY <2>1, <2>5 DEF Bits
    <3>2. Lead(u) <= Lead(v)
      BY <2>3, <2>4 DEF leads
    <3>3. Lead(u) = Lead(v)
      BY <3>1, <3>2
    <3> QED
      BY <3>3 DEF Ech
  <2>6. Having(D, Lead(v)) = {v}
    BY <2>1, <2>5 DEF Having
  <2> QED
    BY <2>6
<1> QED
  BY <1>2, <1>3, OwnBits

Taken(spectrum, count, rows, v) ==
    IF Satisfied(spectrum, count, v) THEN Insert(rows, v) ELSE rows

LEMMA DualBasisIsChosen ==
    ASSUME NEW spectrum, NEW count, NEW width
    PROVE  DualBasis(spectrum, count, width) =
               (CHOOSE h : h = [s \in SUBSET DOMAIN Ascending(width) |->
                                   IF s = {} THEN {}
                                   ELSE Taken(spectrum, count, h[s \ {Max(s)}],
                                              Ascending(width)[Max(s)])])
                                                  [DOMAIN Ascending(width)]
  BY DEF DualBasis, FoldLeft, MapThenFoldSet, Taken

DualChain(c, spectrum, count, vectors, m) ==
    c[0] = {} /\ \A k \in 1 .. m : c[k] = Taken(spectrum, count, c[k - 1], vectors[k])

LEMMA DualBasisSteps ==
    ASSUME NEW width \in Nat, width <= HardWindowCap, NEW spectrum, NEW count
    PROVE  \E c \in [0 .. (2^width - 1) -> EchSets(width)] :
               /\ DualChain(c, spectrum, count, Ascending(width), 2^width - 1)
               /\ DualBasis(spectrum, count, width) = c[2^width - 1]
<1> DEFINE m == 2^width - 1
           vectors == Ascending(width)
           V == EchSets(width)
           F == [p \in V \X (1 .. m) |-> Taken(spectrum, count, p[1], vectors[p[2]])]
           Unfolds(h) == h = [s \in SUBSET (1 .. m) |->
                                 IF s = {} THEN {}
                                 ELSE Taken(spectrum, count, h[s \ {Max(s)}], vectors[Max(s)])]
           h == CHOOSE k : Unfolds(k)
<1>0. m \in Nat /\ vectors \in [1 .. m -> Vectors(width)]
  BY AscendingFacts
<1>8. DOMAIN vectors = 1 .. m
  BY <1>0
<1>9. DualBasis(spectrum, count, width) = h[1 .. m]
  BY <1>8, DualBasisIsChosen
<1> HIDE DEF m, vectors
<1>1. {} \in V
  BY DEF EchSets, Ech, Bases
<1>2. ASSUME NEW rows \in V, NEW k \in 1 .. m
      PROVE  Taken(spectrum, count, rows, vectors[k]) \in V
  <2>1. Ech(rows, width) /\ vectors[k] \in Vectors(width)
    BY <1>0 DEF EchSets
  <2>2. Ech(Insert(rows, vectors[k]), width)
    BY <2>1, InsertFacts
  <2> QED
    BY <2>2 DEF EchSets, Ech, Taken
<1>3. F \in [V \X (1 .. m) -> V]
  <2> HIDE DEF V
  <2> QED
    BY <1>2
<1>4. PICK f \in [SUBSET (1 .. m) -> V] : Folder(f, F, {}, m)
  <2> HIDE DEF V, F
  <2> QED
    BY <1>0, <1>1, <1>3, FolderExists
<1>5. ASSUME NEW s \in SUBSET (1 .. m)
      PROVE  f[s] = IF s = {} THEN {}
                    ELSE Taken(spectrum, count, f[s \ {Max(s)}], vectors[Max(s)])
  <2>1. CASE s = {}
    BY <1>4, <2>1 DEF Folder
  <2>2. CASE s # {}
    <3>1. Max(s) \in 1 .. m /\ f[s \ {Max(s)}] \in V
      <4>1. Max(s) \in s
        BY <1>0, <2>2, MaxOfPart
      <4> HIDE DEF V
      <4> QED
        BY <4>1
    <3>2. f[s] = F[<<f[s \ {Max(s)}], Max(s)>>]
      <4> HIDE DEF F, V
      <4> QED
        BY <1>4, <2>2 DEF Folder
    <3> HIDE DEF V
    <3> QED
      BY <2>2, <3>1, <3>2
  <2> QED
    BY <2>1, <2>2
<1>6. Unfolds(f)
  <2> HIDE DEF V
  <2>1. f = [s \in SUBSET (1 .. m) |-> f[s]]
    BY <1>4
  <2>2. [s \in SUBSET (1 .. m) |-> f[s]]
           = [s \in SUBSET (1 .. m) |->
                 IF s = {} THEN {}
                 ELSE Taken(spectrum, count, f[s \ {Max(s)}], vectors[Max(s)])]
    BY <1>5, Zenon
  <2> QED
    BY <2>1, <2>2
<1>7. Unfolds(h)
  <2> HIDE DEF Unfolds
  <2> QED
    BY <1>6
<1>10. Folds(h, F, {}, m, V)
  <2>1. \A s \in SUBSET (1 .. m) :
           h[s] = IF s = {} THEN {}
                  ELSE Taken(spectrum, count, h[s \ {Max(s)}], vectors[Max(s)])
    <3> HIDE DEF h
    <3> QED
      BY <1>7
  <2> HIDE DEF h, V
  <2>2. h[{}] = {}
    <3>1. {} \in SUBSET (1 .. m)
      OBVIOUS
    <3> QED
      BY <2>1, <3>1
  <2>3. ASSUME NEW s \in SUBSET (1 .. m), s # {}, h[s \ {Max(s)}] \in V
        PROVE  h[s] = F[<<h[s \ {Max(s)}], Max(s)>>]
    <3>1. Max(s) \in 1 .. m
      BY <1>0, <2>3, MaxOfPart
    <3> QED
      BY <2>1, <2>3, <3>1
  <2> HIDE DEF F
  <2> QED
    BY <2>2, <2>3 DEF Folds
<1> HIDE DEF h
<1>11. PICK c \in [0 .. m -> V] : ChainOf(c, h, F, {}, m)
  <2> HIDE DEF V, F
  <2> QED
    BY <1>0, <1>1, <1>3, <1>10, FoldChain
<1>12. DualChain(c, spectrum, count, vectors, m)
  <2>1. ASSUME NEW k \in 1 .. m PROVE c[k] = Taken(spectrum, count, c[k - 1], vectors[k])
    <3>1. c[k] = F[<<c[k - 1], k>>] /\ k - 1 \in 0 .. m
      <4> HIDE DEF F, V
      <4> QED
        BY <1>0, <1>11 DEF ChainOf, Chained
    <3>2. c[k - 1] \in V
      BY <3>1
    <3> HIDE DEF V
    <3> QED
      BY <3>1, <3>2
  <2>2. c[0] = {}
    BY <1>11 DEF ChainOf, Chained
  <2> QED
    BY <2>1, <2>2 DEF DualChain
<1> QED
  BY <1>9, <1>11, <1>12 DEF ChainOf, m, vectors

\* The basis is independent, no satisfied check is out of its span, and
\* whatever obeys the satisfied checks obeys the basis.
LEMMA DualBasisFacts ==
    ASSUME NEW width \in Nat, width <= HardWindowCap, NEW spectrum, NEW count
    PROVE  /\ Ech(DualBasis(spectrum, count, width), width)
           /\ \A v \in Vectors(width) :
                  Satisfied(spectrum, count, v) => v \in Span(DualBasis(spectrum, count, width))
           /\ \A w : (\A v \in Vectors(width) :
                          Satisfied(spectrum, count, v) => Satisfies(v, w))
                     => Obeyed(DualBasis(spectrum, count, width), w)
<1> DEFINE m == 2^width - 1
           vectors == Ascending(width)
           basis == DualBasis(spectrum, count, width)
<1>1. /\ m \in Nat /\ vectors \in [1 .. m -> Vectors(width)]
      /\ \A v \in Vectors(width) : v # {} => \E value \in 1 .. m : vectors[value] = v
  BY AscendingFacts
<1>2. PICK c \in [0 .. m -> EchSets(width)] :
         DualChain(c, spectrum, count, vectors, m) /\ basis = c[m]
  BY DualBasisSteps
<1> HIDE DEF m, vectors, basis
<1>3. \A k \in 0 .. m : Ech(c[k], width)
  BY DEF EchSets
<1> DEFINE T == {k \in 0 .. m : \A j \in 1 .. k :
                    Satisfied(spectrum, count, vectors[j]) => vectors[j] \in Span(c[k])}
<1>4. 0 \in T
  BY <1>1
<1>5. ASSUME NEW k \in 1 .. m, k - 1 \in T PROVE k \in T
  <2>1. k - 1 \in 0 .. m /\ k \in 0 .. m /\ 1 .. k = (1 .. (k - 1)) \cup {k}
    BY <1>1
  <2>2. c[k] = Taken(spectrum, count, c[k - 1], vectors[k])
    BY <1>2 DEF DualChain
  <2>3. Ech(c[k - 1], width) /\ vectors[k] \in Vectors(width)
    BY <1>1, <1>3, <2>1
  <2>4. /\ c[k - 1] \subseteq c[k]
        /\ Satisfied(spectrum, count, vectors[k]) => vectors[k] \in Span(c[k])
    <3>1. CASE Satisfied(spectrum, count, vectors[k])
      <4>1. c[k] = Insert(c[k - 1], vectors[k])
        BY <2>2, <3>1 DEF Taken
      <4> QED
        BY <2>3, <4>1, InsertFacts
    <3>2. CASE ~Satisfied(spectrum, count, vectors[k])
      BY <2>2, <3>2 DEF Taken
    <3> QED
      BY <3>1, <3>2
  <2>5. Span(c[k - 1]) \subseteq Span(c[k])
    BY <2>4, SpanGrows
  <2>6. \A j \in 1 .. (k - 1) :
           Satisfied(spectrum, count, vectors[j]) => vectors[j] \in Span(c[k - 1])
    BY <1>5
  <2> QED
    BY <2>1, <2>4, <2>5, <2>6
<1>6. m \in T
  <2>1. 0 .. m \subseteq T
    <3> HIDE DEF T
    <3> QED
      BY <1>1, <1>4, <1>5, BoundedInduction
  <2> QED
    BY <1>1, <2>1
<1>7. Ech(basis, width)
  BY <1>1, <1>2, <1>3
<1>8. ASSUME NEW v \in Vectors(width), Satisfied(spectrum, count, v) PROVE v \in Span(basis)
  <2>1. CASE v = {}
    BY <1>7, <2>1, EchSpan DEF Ech
  <2>2. CASE v # {}
    <3>1. PICK value \in 1 .. m : vectors[value] = v
      BY <1>1, <2>2
    <3> QED
      BY <1>2, <1>6, <1>8, <3>1
  <2> QED
    BY <2>1, <2>2
<1>9. ASSUME NEW w,
             \A v \in Vectors(width) : Satisfied(spectrum, count, v) => Satisfies(v, w)
      PROVE  Obeyed(basis, w)
  <2> DEFINE U == {k \in 0 .. m : Obeyed(c[k], w)}
  <2>1. 0 \in U
    BY <1>1, <1>2 DEF DualChain, Obeyed
  <2>2. ASSUME NEW k \in 1 .. m, k - 1 \in U PROVE k \in U
    <3>1. k - 1 \in 0 .. m /\ k \in 0 .. m /\ vectors[k] \in Vectors(width)
      BY <1>1
    <3>2. c[k] = Taken(spectrum, count, c[k - 1], vectors[k])
      BY <1>2 DEF DualChain
    <3>3. Obeyed(c[k - 1], w) /\ Ech(c[k - 1], width)
      BY <1>3, <2>2, <3>1
    <3>4. CASE Satisfied(spectrum, count, vectors[k])
      <4>1. c[k] = Insert(c[k - 1], vectors[k]) /\ Satisfies(vectors[k], w)
        BY <1>9, <3>1, <3>2, <3>4 DEF Taken
      <4> QED
        BY <3>1, <3>3, <4>1, InsertFacts
    <3>5. CASE ~Satisfied(spectrum, count, vectors[k])
      BY <3>1, <3>2, <3>3, <3>5 DEF Taken
    <3> QED
      BY <3>4, <3>5
  <2>3. 0 .. m \subseteq U
    <3> HIDE DEF U
    <3> QED
      BY <1>1, <2>1, <2>2, BoundedInduction
  <2> QED
    BY <1>1, <1>2, <2>3
<1> QED
  BY <1>7, <1>8, <1>9 DEF basis

----------------------------------------------------------------------------
(* The transform.                                                           *)

Spectra(width) == [Vectors(width) -> Int]

LEMMA ButterflyType ==
    ASSUME NEW width \in Nat, NEW s \in Spectra(width), NEW bit \in Bits(width)
    PROVE  Butterfly(s, bit) \in Spectra(width)
<1>1. DOMAIN s = Vectors(width) /\ \A v \in Vectors(width) : s[v] \in Int
  BY DEF Spectra
<1>2. ASSUME NEW v \in Vectors(width)
      PROVE  v \ {bit} \in Vectors(width) /\ v \cup {bit} \in Vectors(width)
  BY DEF Vectors
<1>3. ASSUME NEW v \in Vectors(width)
      PROVE  (IF bit \in v THEN s[v \ {bit}] - s[v] ELSE s[v] + s[v \cup {bit}]) \in Int
  BY <1>1, <1>2
<1> QED
  BY <1>1, <1>3 DEF Butterfly, Spectra

\* The windows that agree with a vector from bit k on, and of them those with
\* an even and with an odd number of common bits below k.
Agreeing(windows, v, k) == {w \in DOMAIN windows : windows[w] \ Bits(k) = v \ Bits(k)}
Evens(windows, v, k) == {w \in Agreeing(windows, v, k) : ~Odd((windows[w] \cap v) \cap Bits(k))}
Odds(windows, v, k) == {w \in Agreeing(windows, v, k) : Odd((windows[w] \cap v) \cap Bits(k))}

\* What the table holds after the strides below k.
Counts(s, windows, width, k) ==
    \A v \in Vectors(width) :
        s[v] = Cardinality(Evens(windows, v, k)) - Cardinality(Odds(windows, v, k))

LEMMA DisjointSum ==
    ASSUME NEW A, NEW B, IsFiniteSet(A), IsFiniteSet(B), A \cap B = {}
    PROVE  Cardinality(A \cup B) = Cardinality(A) + Cardinality(B)
<1>1. Cardinality(A \cup B) = Cardinality(A) + Cardinality(B) - Cardinality({})
  BY FS_Union
<1>2. Cardinality({}) = 0 /\ Cardinality(A) \in Nat /\ Cardinality(B) \in Nat
  BY FS_EmptySet, FS_CardinalityType
<1> QED
  BY <1>1, <1>2

LEMMA CountsAreFinite ==
    ASSUME NEW m \in Nat, NEW windows, DOMAIN windows = 1 .. m, NEW v, NEW k
    PROVE  /\ IsFiniteSet(Evens(windows, v, k)) /\ IsFiniteSet(Odds(windows, v, k))
           /\ Cardinality(Evens(windows, v, k)) \in Nat
           /\ Cardinality(Odds(windows, v, k)) \in Nat
<1>1. IsFiniteSet(1 .. m)
  BY FS_Interval
<1>2. Evens(windows, v, k) \in SUBSET (1 .. m) /\ Odds(windows, v, k) \in SUBSET (1 .. m)
  BY DEF Evens, Odds, Agreeing
<1>3. IsFiniteSet(Evens(windows, v, k)) /\ IsFiniteSet(Odds(windows, v, k))
  BY <1>1, <1>2, FS_Subset
<1> QED
  BY <1>3, FS_CardinalityType

\* One more stride.
LEMMA ButterflyCounts ==
    ASSUME NEW width \in Nat, NEW m \in Nat, NEW windows \in [1 .. m -> Vectors(width)],
           NEW k \in Bits(width), NEW s \in Spectra(width), Counts(s, windows, width, k)
    PROVE  Counts(Butterfly(s, k), windows, width, k + 1)
<1>1. k \in Nat /\ Bits(k + 1) = Bits(k) \cup {k} /\ ~(k \in Bits(k))
  BY DEF Bits
<1>2. \A w \in 1 .. m : windows[w] \subseteq Bits(width) /\ IsFiniteSet(windows[w])
  BY BasesFacts DEF Vectors
<1>3. DOMAIN windows = 1 .. m
  OBVIOUS
<1>4. ASSUME NEW v \in Vectors(width), k \in v
      PROVE  LET u == v \ {k}
             IN  /\ Evens(windows, v, k + 1) = Evens(windows, u, k) \cup Odds(windows, v, k)
                 /\ Odds(windows, v, k + 1) = Odds(windows, u, k) \cup Evens(windows, v, k)
                 /\ Agreeing(windows, u, k) \cap Agreeing(windows, v, k) = {}
  <2> DEFINE u == v \ {k}
  <2>1. ASSUME NEW w \in 1 .. m
        PROVE  /\ w \in Agreeing(windows, v, k) <=>
                      w \in Agreeing(windows, v, k + 1) /\ k \in windows[w]
               /\ w \in Agreeing(windows, u, k) <=>
                      w \in Agreeing(windows, v, k + 1) /\ ~(k \in windows[w])
    BY <1>1, <1>3, <1>4 DEF Agreeing
  <2>2. ASSUME NEW w \in 1 .. m
        PROVE  (windows[w] \cap u) \cap Bits(k) = (windows[w] \cap v) \cap Bits(k)
    BY <1>1
  <2>3. ASSUME NEW w \in 1 .. m, ~(k \in windows[w])
        PROVE  (windows[w] \cap v) \cap Bits(k + 1) = (windows[w] \cap v) \cap Bits(k)
    BY <1>1, <2>3
  <2>4. ASSUME NEW w \in 1 .. m, k \in windows[w]
        PROVE  Odd((windows[w] \cap v) \cap Bits(k + 1))
                   <=> ~Odd((windows[w] \cap v) \cap Bits(k))
    <3> DEFINE x == (windows[w] \cap v) \cap Bits(k)
    <3>1. (windows[w] \cap v) \cap Bits(k + 1) = SymDiff(x, {k})
      BY <1>1, <1>4, <2>4 DEF SymDiff
    <3>2. IsFiniteSet(x)
      BY <1>2, FS_Subset
    <3>3. IsFiniteSet({k}) /\ Odd({k})
      BY FS_Singleton, OneIsOdd
    <3> HIDE DEF x
    <3>4. Odd(SymDiff(x, {k})) <=> ~Odd(x)
      BY <3>2, <3>3, OddOfSymDiff
    <3> QED
      BY <3>1, <3>4 DEF x
  <2> HIDE DEF u
  <2>5. Agreeing(windows, u, k) \cap Agreeing(windows, v, k) = {}
    BY <1>3, <2>1 DEF Agreeing
  <2>6. ASSUME NEW w \in 1 .. m
        PROVE  /\ w \in Evens(windows, v, k + 1)
                      <=> w \in Evens(windows, u, k) \/ w \in Odds(windows, v, k)
               /\ w \in Odds(windows, v, k + 1)
                      <=> w \in Odds(windows, u, k) \/ w \in Evens(windows, v, k)
    <3>1. CASE k \in windows[w]
      BY <2>1, <2>4, <3>1 DEF Evens, Odds
    <3>2. CASE ~(k \in windows[w])
      BY <2>1, <2>2, <2>3, <3>2 DEF Evens, Odds
    <3> QED
      BY <3>1, <3>2
  <2>7. \A x, j : Evens(windows, x, j) \subseteq 1 .. m /\ Odds(windows, x, j) \subseteq 1 .. m
    BY <1>3 DEF Evens, Odds, Agreeing
  <2> QED
    BY <2>5, <2>6, <2>7 DEF u
<1>5. ASSUME NEW v \in Vectors(width), ~(k \in v)
      PROVE  LET u == v \cup {k}
             IN  /\ Evens(windows, v, k + 1) = Evens(windows, v, k) \cup Evens(windows, u, k)
                 /\ Odds(windows, v, k + 1) = Odds(windows, v, k) \cup Odds(windows, u, k)
                 /\ Agreeing(windows, v, k) \cap Agreeing(windows, u, k) = {}
  <2> DEFINE u == v \cup {k}
  <2>1. ASSUME NEW w \in 1 .. m
        PROVE  /\ w \in Agreeing(windows, u, k) <=>
                      w \in Agreeing(windows, v, k + 1) /\ k \in windows[w]
               /\ w \in Agreeing(windows, v, k) <=>
                      w \in Agreeing(windows, v, k + 1) /\ ~(k \in windows[w])
    BY <1>1, <1>3, <1>5 DEF Agreeing
  <2>2. ASSUME NEW w \in 1 .. m
        PROVE  /\ (windows[w] \cap u) \cap Bits(k) = (windows[w] \cap v) \cap Bits(k)
               /\ (windows[w] \cap v) \cap Bits(k + 1) = (windows[w] \cap v) \cap Bits(k)
    BY <1>1, <1>5
  <2> HIDE DEF u
  <2>3. Agreeing(windows, v, k) \cap Agreeing(windows, u, k) = {}
    BY <1>3, <2>1 DEF Agreeing
  <2>4. ASSUME NEW w \in 1 .. m
        PROVE  /\ w \in Evens(windows, v, k + 1)
                      <=> w \in Evens(windows, v, k) \/ w \in Evens(windows, u, k)
               /\ w \in Odds(windows, v, k + 1)
                      <=> w \in Odds(windows, v, k) \/ w \in Odds(windows, u, k)
    <3>1. CASE k \in windows[w]
      BY <2>1, <2>2, <3>1 DEF Evens, Odds
    <3>2. CASE ~(k \in windows[w])
      BY <2>1, <2>2, <3>2 DEF Evens, Odds
    <3> QED
      BY <3>1, <3>2
  <2>5. \A x, j : Evens(windows, x, j) \subseteq 1 .. m /\ Odds(windows, x, j) \subseteq 1 .. m
    BY <1>3 DEF Evens, Odds, Agreeing
  <2> QED
    BY <2>3, <2>4, <2>5 DEF u
<1>6. ASSUME NEW v \in Vectors(width), NEW u \in Vectors(width),
             Agreeing(windows, u, k) \cap Agreeing(windows, v, k) = {}
      PROVE  /\ Cardinality(Evens(windows, u, k) \cup Odds(windows, v, k))
                    = Cardinality(Evens(windows, u, k)) + Cardinality(Odds(windows, v, k))
             /\ Cardinality(Odds(windows, u, k) \cup Evens(windows, v, k))
                    = Cardinality(Odds(windows, u, k)) + Cardinality(Evens(windows, v, k))
             /\ Cardinality(Evens(windows, u, k) \cup Evens(windows, v, k))
                    = Cardinality(Evens(windows, u, k)) + Cardinality(Evens(windows, v, k))
             /\ Cardinality(Odds(windows, u, k) \cup Odds(windows, v, k))
                    = Cardinality(Odds(windows, u, k)) + Cardinality(Odds(windows, v, k))
  <2>1. /\ IsFiniteSet(Evens(windows, u, k)) /\ IsFiniteSet(Odds(windows, u, k))
        /\ IsFiniteSet(Evens(windows, v, k)) /\ IsFiniteSet(Odds(windows, v, k))
    BY <1>3, CountsAreFinite
  <2>2. /\ Evens(windows, u, k) \cap Odds(windows, v, k) = {}
        /\ Odds(windows, u, k) \cap Evens(windows, v, k) = {}
        /\ Evens(windows, u, k) \cap Evens(windows, v, k) = {}
        /\ Odds(windows, u, k) \cap Odds(windows, v, k) = {}
    BY <1>6 DEF Evens, Odds
  <2> QED
    BY <2>1, <2>2, DisjointSum
<1>7. DOMAIN s = Vectors(width)
  BY DEF Spectra
<1> DEFINE E(v, j) == Cardinality(Evens(windows, v, j))
           O(v, j) == Cardinality(Odds(windows, v, j))
<1>8. \A v, j : E(v, j) \in Nat /\ O(v, j) \in Nat
  BY <1>3, CountsAreFinite
<1>9. \A v \in Vectors(width) : s[v] = E(v, k) - O(v, k)
  BY DEF Counts
<1>10. ASSUME NEW v \in Vectors(width)
       PROVE  Butterfly(s, k)[v] = E(v, k + 1) - O(v, k + 1)
  <2>1. CASE k \in v
    <3> DEFINE u == v \ {k}
    <3>1. u \in Vectors(width)
      BY DEF Vectors
    <3>2. Butterfly(s, k)[v] = s[u] - s[v]
      BY <1>7, <2>1 DEF Butterfly
    <3>3. /\ Evens(windows, v, k + 1) = Evens(windows, u, k) \cup Odds(windows, v, k)
          /\ Odds(windows, v, k + 1) = Odds(windows, u, k) \cup Evens(windows, v, k)
          /\ Agreeing(windows, u, k) \cap Agreeing(windows, v, k) = {}
      BY <1>4, <2>1
    <3> HIDE DEF u
    <3>4. E(v, k + 1) = E(u, k) + O(v, k) /\ O(v, k + 1) = O(u, k) + E(v, k)
      BY <1>6, <3>1, <3>3
    <3>5. s[u] = E(u, k) - O(u, k) /\ s[v] = E(v, k) - O(v, k)
      BY <1>9, <3>1
    <3> HIDE DEF E, O
    <3> QED
      BY <1>8, <3>2, <3>4, <3>5
  <2>2. CASE ~(k \in v)
    <3> DEFINE u == v \cup {k}
    <3>1. u \in Vectors(width)
      BY DEF Vectors
    <3>2. Butterfly(s, k)[v] = s[v] + s[u]
      BY <1>7, <2>2 DEF Butterfly
    <3>3. /\ Evens(windows, v, k + 1) = Evens(windows, v, k) \cup Evens(windows, u, k)
          /\ Odds(windows, v, k + 1) = Odds(windows, v, k) \cup Odds(windows, u, k)
          /\ Agreeing(windows, v, k) \cap Agreeing(windows, u, k) = {}
      BY <1>5, <2>2
    <3> HIDE DEF u
    <3>4. E(v, k + 1) = E(v, k) + E(u, k) /\ O(v, k + 1) = O(v, k) + O(u, k)
      BY <1>6, <3>1, <3>3
    <3>5. s[u] = E(u, k) - O(u, k) /\ s[v] = E(v, k) - O(v, k)
      BY <1>9, <3>1
    <3> HIDE DEF E, O
    <3> QED
      BY <1>8, <3>2, <3>4, <3>5
  <2> QED
    BY <2>1, <2>2
<1> QED
  BY <1>10 DEF Counts

Histogram(windows, width) ==
    [v \in Vectors(width) |-> Cardinality({w \in DOMAIN windows : windows[w] = v})]

LEMMA SpectrumIsChosen ==
    ASSUME NEW windows, NEW width
    PROVE  Spectrum(windows, width) =
               (CHOOSE h : h = [s \in SUBSET DOMAIN [b \in 1 .. width |-> b - 1] |->
                                   IF s = {} THEN Histogram(windows, width)
                                   ELSE Butterfly(h[s \ {Max(s)}],
                                                  [b \in 1 .. width |-> b - 1][Max(s)])])
                                                      [DOMAIN [b \in 1 .. width |-> b - 1]]
  BY DEF Spectrum, FoldLeft, MapThenFoldSet, Quantify, Histogram

\* The tables that the transform goes through.
SpectrumChain(c, first, m) ==
    c[0] = first /\ \A k \in 1 .. m : c[k] = Butterfly(c[k - 1], k - 1)

LEMMA SpectrumSteps ==
    ASSUME NEW width \in Nat, NEW windows, Histogram(windows, width) \in Spectra(width)
    PROVE  \E c \in [0 .. width -> Spectra(width)] :
               /\ SpectrumChain(c, Histogram(windows, width), width)
               /\ Spectrum(windows, width) = c[width]
<1> DEFINE q == [b \in 1 .. width |-> b - 1]
           first == Histogram(windows, width)
           V == Spectra(width)
           F == [p \in V \X (1 .. width) |-> Butterfly(p[1], q[p[2]])]
           Unfolds(h) == h = [s \in SUBSET (1 .. width) |->
                                 IF s = {} THEN first
                                 ELSE Butterfly(h[s \ {Max(s)}], q[Max(s)])]
           h == CHOOSE k : Unfolds(k)
<1>0. q \in [1 .. width -> Bits(width)] /\ \A k \in 1 .. width : q[k] = k - 1
  BY DEF Bits
<1>8. Spectrum(windows, width) = h[1 .. width]
  <2>1. Spectrum(windows, width) =
           (CHOOSE g : g = [s \in SUBSET DOMAIN q |->
                               IF s = {} THEN first
                               ELSE Butterfly(g[s \ {Max(s)}], q[Max(s)])])[DOMAIN q]
    BY SpectrumIsChosen
  <2>2. DOMAIN q = 1 .. width
    BY <1>0
  <2> HIDE DEF q, first
  <2> QED
    BY <2>1, <2>2
<1> HIDE DEF q, first
<1>1. first \in V
  BY DEF first
<1>2. ASSUME NEW r \in V, NEW k \in 1 .. width PROVE Butterfly(r, q[k]) \in V
  BY <1>0, ButterflyType
<1>3. F \in [V \X (1 .. width) -> V]
  <2> HIDE DEF V
  <2> QED
    BY <1>2
<1>4. PICK f \in [SUBSET (1 .. width) -> V] : Folder(f, F, first, width)
  <2> HIDE DEF V, F
  <2> QED
    BY <1>1, <1>3, FolderExists
<1>5. ASSUME NEW s \in SUBSET (1 .. width)
      PROVE  f[s] = IF s = {} THEN first ELSE Butterfly(f[s \ {Max(s)}], q[Max(s)])
  <2>1. CASE s = {}
    BY <1>4, <2>1 DEF Folder
  <2>2. CASE s # {}
    <3>1. Max(s) \in 1 .. width /\ f[s \ {Max(s)}] \in V
      <4>1. Max(s) \in s
        BY <2>2, MaxOfPart
      <4> HIDE DEF V
      <4> QED
        BY <4>1
    <3>2. f[s] = F[<<f[s \ {Max(s)}], Max(s)>>]
      <4> HIDE DEF F, V
      <4> QED
        BY <1>4, <2>2 DEF Folder
    <3> HIDE DEF V
    <3> QED
      BY <2>2, <3>1, <3>2
  <2> QED
    BY <2>1, <2>2
<1>6. Unfolds(f)
  <2> HIDE DEF V
  <2>1. f = [s \in SUBSET (1 .. width) |-> f[s]]
    BY <1>4
  <2>2. [s \in SUBSET (1 .. width) |-> f[s]]
           = [s \in SUBSET (1 .. width) |->
                 IF s = {} THEN first ELSE Butterfly(f[s \ {Max(s)}], q[Max(s)])]
    BY <1>5, Zenon
  <2> QED
    BY <2>1, <2>2
<1>7. Unfolds(h)
  <2> HIDE DEF Unfolds
  <2> QED
    BY <1>6
<1>9. Folds(h, F, first, width, V)
  <2>1. \A s \in SUBSET (1 .. width) :
           h[s] = IF s = {} THEN first ELSE Butterfly(h[s \ {Max(s)}], q[Max(s)])
    <3> HIDE DEF h
    <3> QED
      BY <1>7
  <2> HIDE DEF h, V
  <2>2. h[{}] = first
    <3>1. {} \in SUBSET (1 .. width)
      OBVIOUS
    <3> QED
      BY <2>1, <3>1
  <2>3. ASSUME NEW s \in SUBSET (1 .. width), s # {}, h[s \ {Max(s)}] \in V
        PROVE  h[s] = F[<<h[s \ {Max(s)}], Max(s)>>]
    <3>1. Max(s) \in 1 .. width
      BY <2>3, MaxOfPart
    <3> QED
      BY <2>1, <2>3, <3>1
  <2> HIDE DEF F
  <2> QED
    BY <2>2, <2>3 DEF Folds
<1> HIDE DEF h
<1>10. PICK c \in [0 .. width -> V] : ChainOf(c, h, F, first, width)
  <2> HIDE DEF V, F
  <2> QED
    BY <1>1, <1>3, <1>9, FoldChain
<1>11. SpectrumChain(c, first, width)
  <2>1. ASSUME NEW k \in 1 .. width PROVE c[k] = Butterfly(c[k - 1], k - 1)
    <3>1. c[k] = F[<<c[k - 1], k>>] /\ k - 1 \in 0 .. width
      <4> HIDE DEF F, V
      <4> QED
        BY <1>10 DEF ChainOf, Chained
    <3>2. c[k - 1] \in V
      BY <3>1
    <3>3. c[k] = Butterfly(c[k - 1], q[k])
      <4> HIDE DEF V
      <4> QED
        BY <3>1, <3>2
    <3> QED
      BY <1>0, <3>3
  <2>2. c[0] = first
    BY <1>10 DEF ChainOf, Chained
  <2> QED
    BY <2>1, <2>2 DEF SpectrumChain
<1> QED
  BY <1>8, <1>10, <1>11 DEF ChainOf, first

Satisfying(windows, v) == {w \in DOMAIN windows : Satisfies(windows[w], v)}

\* The transform counts, for every vector, the windows that satisfy it.
LEMMA SpectrumFacts ==
    ASSUME NEW width \in Nat, NEW m \in Nat, NEW windows \in [1 .. m -> Vectors(width)],
           NEW v \in Vectors(width)
    PROVE  /\ Spectrum(windows, width)[v] = 2 * Cardinality(Satisfying(windows, v)) - m
           /\ Cardinality(Satisfying(windows, v)) \in Nat
           /\ Spectrum(windows, width) \in [Vectors(width) -> Int]
<1> DEFINE first == Histogram(windows, width)
<1>1. DOMAIN windows = 1 .. m
  OBVIOUS
<1>2. \A u, k : /\ IsFiniteSet(Evens(windows, u, k)) /\ IsFiniteSet(Odds(windows, u, k))
                /\ Cardinality(Evens(windows, u, k)) \in Nat
                /\ Cardinality(Odds(windows, u, k)) \in Nat
  BY <1>1, CountsAreFinite
<1>3. ASSUME NEW u \in Vectors(width)
      PROVE  /\ first[u] = Cardinality(Evens(windows, u, 0))
             /\ Cardinality(Odds(windows, u, 0)) = 0
  <2>1. Bits(0) = {}
    BY DEF Bits
  <2>2. Agreeing(windows, u, 0) = {w \in DOMAIN windows : windows[w] = u}
    BY <2>1 DEF Agreeing
  <2>3. \A w : ~Odd((windows[w] \cap u) \cap Bits(0))
    BY <2>1, NoneIsEven
  <2>4. Evens(windows, u, 0) = {w \in DOMAIN windows : windows[w] = u}
    BY <2>2, <2>3 DEF Evens
  <2>5. Odds(windows, u, 0) = {}
    BY <2>3 DEF Odds
  <2> QED
    BY <2>4, <2>5, FS_EmptySet DEF Histogram
<1>4. first \in Spectra(width)
  <2>1. first = [u \in Vectors(width) |-> first[u]]
    BY DEF Histogram
  <2> HIDE DEF first
  <2>2. \A u \in Vectors(width) : first[u] \in Int
    BY <1>2, <1>3
  <2> QED
    BY <2>1, <2>2 DEF Spectra
<1>5. PICK c \in [0 .. width -> Spectra(width)] :
         SpectrumChain(c, first, width) /\ Spectrum(windows, width) = c[width]
  BY <1>4, SpectrumSteps
<1> HIDE DEF first
<1> DEFINE T == {k \in 0 .. width : Counts(c[k], windows, width, k)}
<1>6. 0 \in T
  <2>1. c[0] = first
    BY <1>5 DEF SpectrumChain
  <2>2. Counts(first, windows, width, 0)
    BY <1>2, <1>3 DEF Counts
  <2> QED
    BY <2>1, <2>2
<1>7. ASSUME NEW k \in 1 .. width, k - 1 \in T PROVE k \in T
  <2>1. k - 1 \in Bits(width) /\ k - 1 \in 0 .. width /\ (k - 1) + 1 = k
    BY DEF Bits
  <2>2. c[k] = Butterfly(c[k - 1], k - 1)
    BY <1>5 DEF SpectrumChain
  <2>3. Counts(c[k - 1], windows, width, k - 1) /\ c[k - 1] \in Spectra(width)
    BY <1>7, <2>1
  <2>4. Counts(Butterfly(c[k - 1], k - 1), windows, width, (k - 1) + 1)
    BY <2>1, <2>3, ButterflyCounts
  <2> QED
    BY <2>1, <2>2, <2>4
<1>8. Counts(c[width], windows, width, width)
  <2>1. 0 .. width \subseteq T
    <3> HIDE DEF T
    <3> QED
      BY <1>6, <1>7, BoundedInduction
  <2> QED
    BY <2>1
<1>9. \A w \in 1 .. m : windows[w] \subseteq Bits(width) /\ IsFiniteSet(windows[w])
  BY BasesFacts DEF Vectors
<1>10. Agreeing(windows, v, width) = 1 .. m
  <2>1. \A w \in 1 .. m : windows[w] \ Bits(width) = {} /\ v \ Bits(width) = {}
    BY <1>9 DEF Vectors
  <2> QED
    BY <1>1, <2>1 DEF Agreeing
<1>11. ASSUME NEW w \in 1 .. m
       PROVE  Satisfies(windows[w], v) <=> ~Odd((windows[w] \cap v) \cap Bits(width))
  <2>1. (windows[w] \cap v) \cap Bits(width) = windows[w] \cap v
    BY <1>9
  <2> QED
    BY <1>9, <2>1, SatisfiesIsEven
<1> DEFINE A == Evens(windows, v, width)
           B == Odds(windows, v, width)
<1>12. A = Satisfying(windows, v)
  BY <1>1, <1>10, <1>11 DEF Evens, Satisfying
<1>13. A \cup B = 1 .. m /\ A \cap B = {}
  BY <1>10 DEF Evens, Odds
<1>14. Spectrum(windows, width)[v] = Cardinality(A) - Cardinality(B)
  BY <1>5, <1>8 DEF Counts
<1>15. IsFiniteSet(A) /\ IsFiniteSet(B) /\ Cardinality(A) \in Nat /\ Cardinality(B) \in Nat
  BY <1>2
<1> HIDE DEF A, B
<1>16. Cardinality(A) + Cardinality(B) = m
  <2>1. Cardinality(A \cup B) = Cardinality(A) + Cardinality(B)
    BY <1>13, <1>15, DisjointSum
  <2>2. Cardinality(1 .. m) = m
    BY FS_Interval
  <2> QED
    BY <1>13, <2>1, <2>2
<1>17. Spectrum(windows, width) \in [Vectors(width) -> Int]
  BY <1>5 DEF Spectra
<1> QED
  BY <1>12, <1>14, <1>15, <1>16, <1>17

\* For every code and stream the transform counts, for every vector, the
\* windows that satisfy it less those that violate it, and the basis made of
\* it is independent and spans what 85 % of the windows satisfy, and no more
\* (compare.c:162-236).
THEOREM SpectrumCountsWindows == Spec => []SpectrumCounts
<1>1. CompareInv => SpectrumCounts
  <2> DEFINE windows == Windows(call.lhs, call.n, Width, SegmentWindows(Width))
             spectrum == Spectrum(windows, Width)
             satisfied(v) == Quantify(DOMAIN windows, LAMBDA w : Satisfies(windows[w], v))
             frequent == {v \in Vectors(Width) :
                             100 * satisfied(v) >= 85 * Len(windows)}
             basis == DualBasis(spectrum, Len(windows), Width)
  <2> SUFFICES ASSUME Given, ~Refused(call)
               PROVE  /\ \A v \in Vectors(Width) :
                             spectrum[v] = 2 * satisfied(v) - Len(windows)
                      /\ Independent(basis)
                      /\ frequent \subseteq Span(basis)
                      /\ \A w \in Vectors(Width) :
                             (\A v \in frequent : Satisfies(w, v)) =>
                                 \A check \in basis : Satisfies(w, check)
    BY DEF CompareInv, SpectrumCounts, Answered
  <2>1. /\ IsCode(call.n, Width) /\ call.lhs \in Seq({0, 1})
        /\ SegmentWindows(Width) \in Int
    BY AcceptedFacts
  <2>2. Len(call.lhs) \in Int
    BY <2>1
  <2>3. PICK m \in Nat : /\ windows \in [1 .. m -> Vectors(Width)]
                         /\ DOMAIN windows = 1 .. m /\ Len(windows) = m
    BY <2>1, <2>2, WindowsFacts
  <2> HIDE DEF windows
  <2>4. Width \in Nat /\ Width <= HardWindowCap
    BY <2>1 DEF IsCode
  <2>5. ASSUME NEW v \in Vectors(Width)
        PROVE  /\ satisfied(v) = Cardinality(Satisfying(windows, v)) /\ satisfied(v) \in Nat
               /\ spectrum[v] = 2 * satisfied(v) - m
    <3>1. satisfied(v) = Cardinality(Satisfying(windows, v))
      BY DEF Satisfying, Quantify
    <3> QED
      BY <2>3, <2>4, <3>1, SpectrumFacts
  <2> HIDE DEF spectrum, satisfied
  <2>6. /\ Ech(basis, Width)
        /\ \A v \in Vectors(Width) : Satisfied(spectrum, m, v) => v \in Span(basis)
        /\ \A w : (\A v \in Vectors(Width) :
                       Satisfied(spectrum, m, v) => Satisfies(v, w))
                  => Obeyed(basis, w)
    BY <2>3, <2>4, DualBasisFacts
  <2>7. Independent(basis)
    BY <2>4, <2>6, EchelonIsIndependent
  <2>8. \A v \in Vectors(Width) :
           Satisfied(spectrum, m, v) <=> 100 * satisfied(v) >= 85 * m
    BY <2>3, <2>5 DEF Satisfied
  <2> HIDE DEF basis
  <2>9. frequent \subseteq Span(basis)
    BY <2>3, <2>6, <2>8
  <2>10. ASSUME NEW w \in Vectors(Width), \A v \in frequent : Satisfies(w, v)
         PROVE  \A check \in basis : Satisfies(w, check)
    <3>1. \A v : Satisfies(w, v) <=> Satisfies(v, w)
      <4>1. \A v : w \cap v = v \cap w
        OBVIOUS
      <4> QED
        BY <4>1 DEF Satisfies
    <3>2. \A v \in Vectors(Width) : Satisfied(spectrum, m, v) => Satisfies(v, w)
      BY <2>3, <2>8, <2>10, <3>1
    <3> QED
      BY <2>6, <3>1, <3>2 DEF Obeyed
  <2> QED
    BY <2>3, <2>5, <2>7, <2>9, <2>10
<1> QED
  BY <1>1, AnswersAreComputed, PTL

----------------------------------------------------------------------------
(* The search of the framing offset.                                        *)

LEMMA GoodFacts ==
    ASSUME NEW width \in Nat, NEW basis \in Bases(width), NEW stream, NEW position
    PROVE  /\ Cardinality(basis) \in Nat
           /\ Good(stream, position, width, basis) \in 0 .. Cardinality(basis)
<1> DEFINE S == {c \in basis : Satisfies(Window(stream, position, width), c)}
<1>1. IsFiniteSet(basis) /\ Cardinality(basis) \in Nat
  BY BasesFacts
<1>2. IsFiniteSet(S) /\ Cardinality(S) <= Cardinality(basis)
  BY <1>1, FS_Subset
<1>3. Cardinality(S) \in Nat
  BY <1>2, FS_CardinalityType
<1>4. Good(stream, position, width, basis) = Cardinality(S)
  BY DEF Good
<1> HIDE DEF S
<1> QED
  BY <1>1, <1>2, <1>3, <1>4

Live == [cost : Nat, good : Nat]
Cells == {NoPath} \cup Live

LEMMA LiveFacts ==
    /\ \A c \in Cells : c # NoPath <=> c \in Live
    /\ \A c \in Live : c.cost \in Nat /\ c.good \in Nat /\ c = [cost |-> c.cost, good |-> c.good]
<1>1. ~(NoPath \in Live)
  BY DEF NoPath, Live
<1> QED
  BY <1>1 DEF Cells, Live

\* The first of the cheapest cells, if there is a path to any.
Picked(row, S, c) ==
    \E i \in S : /\ c = row[i] /\ row[i] # NoPath
                 /\ \A j \in S : row[j] # NoPath => row[i].cost <= row[j].cost

LEMMA CheapestFacts ==
    ASSUME NEW S, S \subseteq Nat, NEW row, \A i \in S : row[i] \in Cells
    PROVE  /\ (\A i \in S : row[i] = NoPath) => Cheapest(row, S) = NoPath
           /\ (\E i \in S : row[i] # NoPath) => Picked(row, S, Cheapest(row, S))
<1> DEFINE live == {i \in S : row[i] # NoPath}
           costs == {row[i].cost : i \in live}
           least == Min(costs)
           first == {i \in live : row[i].cost = least}
<1>1. ASSUME \A i \in S : row[i] = NoPath PROVE Cheapest(row, S) = NoPath
  <2>1. live = {}
    BY <1>1
  <2> QED
    BY <2>1 DEF Cheapest
<1>2. ASSUME \E i \in S : row[i] # NoPath PROVE Picked(row, S, Cheapest(row, S))
  <2>1. live # {} /\ live \subseteq Nat
    BY <1>2
  <2>2. \A i \in live : row[i].cost \in Nat
    BY LiveFacts
  <2>3. Cheapest(row, S) = row[Min(first)]
    <3> HIDE DEF live
    <3> QED
      BY <2>1 DEF Cheapest, live
  <2>4. costs \subseteq Nat /\ costs # {}
    <3> HIDE DEF live
    <3> QED
      BY <2>1, <2>2
  <2> HIDE DEF costs
  <2>5. least \in costs /\ \A x \in costs : least <= x
    <3>1. \E x \in costs : \A y \in costs : x <= y
      BY <2>4, LeastExists
    <3> QED
      BY <3>1 DEF Min
  <2> HIDE DEF least
  <2>6. first \subseteq Nat /\ first # {}
    BY <2>1, <2>5 DEF costs
  <2> HIDE DEF first
  <2>7. Min(first) \in first
    <3>1. \E x \in first : \A y \in first : x <= y
      BY <2>6, LeastExists
    <3> QED
      BY <3>1 DEF Min
  <2>8. PICK i \in first : i = Min(first)
    BY <2>7
  <2>9. i \in S /\ row[i] # NoPath /\ row[i].cost = least
    BY DEF first
  <2>10. \A j \in S : row[j] # NoPath => least <= row[j].cost
    BY <2>5 DEF costs
  <2> QED
    BY <2>3, <2>8, <2>9, <2>10 DEF Picked
<1> QED
  BY <1>1, <1>2

IndexFacts == /\ Indexes \subseteq Nat
              /\ \A i \in Indexes : Offset(i) \in -MaxCumulativeDrift .. MaxCumulativeDrift
              /\ \A d \in -MaxCumulativeDrift .. MaxCumulativeDrift :
                     d + 1 + MaxCumulativeDrift \in Indexes /\ Offset(d + 1 + MaxCumulativeDrift) = d
              /\ \A i \in Indexes, j \in Indexes : Offset(i) - Offset(j) = i - j

LEMMA IndexesFit == IndexFacts
  BY DriftAssumption DEF IndexFacts, Indexes, Offset

Preds(i) == {i - 1, i, i + 1} \cap Indexes
StepCost(p, i) == IF p = i THEN 0 ELSE CostIndel

\* What the best predecessor of an index gives.
Reached(row, i, c) ==
    /\ c \in Live
    /\ \E p \in Preds(i) : /\ row[p] # NoPath
                           /\ c.cost = row[p].cost + StepCost(p, i) /\ c.good = row[p].good
    /\ \A p \in Preds(i) : row[p] # NoPath => c.cost <= row[p].cost + StepCost(p, i)

Rows == [Indexes -> Cells]

LEMMA BestFacts ==
    ASSUME NEW row \in Rows, NEW i \in Indexes
    PROVE  /\ (\A p \in Preds(i) : row[p] = NoPath) => Best(row, i) = NoPath
           /\ (\E p \in Preds(i) : row[p] # NoPath) => Reached(row, i, Best(row, i))
<1> DEFINE S == {i - 1, i, i + 1} \cap DOMAIN row
           stepped == [p \in S |-> IF p = i \/ row[p] = NoPath THEN row[p]
                                   ELSE [row[p] EXCEPT !.cost = @ + CostIndel]]
<1>1. DOMAIN row = Indexes /\ S = Preds(i) /\ \A p \in S : row[p] \in Cells
  BY DEF Rows, Preds
<1>2. Best(row, i) = Cheapest(stepped, S)
  <2>1. DOMAIN stepped = S
    OBVIOUS
  <2> QED
    BY <2>1 DEF Best
<1>3. ASSUME NEW p \in S
      PROVE  /\ row[p] = NoPath => stepped[p] = NoPath
             /\ row[p] # NoPath => /\ stepped[p] \in Live
                                   /\ stepped[p].cost = row[p].cost + StepCost(p, i)
                                   /\ stepped[p].good = row[p].good
  <2>1. CASE row[p] = NoPath
    BY <2>1
  <2>2. CASE row[p] # NoPath /\ p = i
    <3>1. row[p] \in Live /\ row[p].cost \in Nat
      BY <1>1, <2>2, LiveFacts
    <3>2. stepped[p] = row[p]
      BY <2>2
    <3> QED
      BY <2>2, <3>1, <3>2 DEF StepCost
  <2>3. CASE row[p] # NoPath /\ p # i
    <3>1. row[p] \in Live
      BY <1>1, <2>3, LiveFacts
    <3>2. stepped[p] = [row[p] EXCEPT !.cost = @ + CostIndel]
      BY <2>3
    <3> HIDE DEF stepped
    <3>3. stepped[p] = [cost |-> row[p].cost + CostIndel, good |-> row[p].good]
      BY <3>1, <3>2 DEF Live
    <3>4. CostIndel \in Nat
      BY DEF CostIndel
    <3> QED
      BY <2>3, <3>1, <3>3, <3>4 DEF StepCost, Live
  <2> QED
    BY <2>1, <2>2, <2>3
<1> HIDE DEF S, stepped
<1>4. \A p \in S : stepped[p] \in Cells
  BY <1>1, <1>3 DEF Cells
<1>5. S \subseteq Nat
  BY <1>1, IndexesFit DEF Preds, IndexFacts
<1>6. \A p \in S : stepped[p] = NoPath <=> row[p] = NoPath
  BY <1>3, <1>4, LiveFacts
<1>7. ASSUME \E p \in Preds(i) : row[p] # NoPath PROVE Reached(row, i, Best(row, i))
  <2>1. Picked(stepped, S, Best(row, i))
    BY <1>1, <1>2, <1>4, <1>5, <1>6, <1>7, CheapestFacts
  <2>2. PICK p \in S : /\ Best(row, i) = stepped[p] /\ stepped[p] # NoPath
                       /\ \A j \in S : stepped[j] # NoPath => stepped[p].cost <= stepped[j].cost
    BY <2>1 DEF Picked
  <2>3. row[p] # NoPath
    BY <1>6, <2>2
  <2>4. \A j \in S : row[j] # NoPath => Best(row, i).cost <= row[j].cost + StepCost(j, i)
    BY <1>3, <1>6, <2>2
  <2> QED
    BY <1>1, <1>3, <2>2, <2>3, <2>4 DEF Reached
<1>8. ASSUME \A p \in Preds(i) : row[p] = NoPath PROVE Best(row, i) = NoPath
  BY <1>1, <1>2, <1>4, <1>5, <1>6, <1>8, CheapestFacts
<1> QED
  BY <1>7, <1>8

\* What a window adds to a path.
WindowCost(good, dimension) == good * CostMatch + (dimension - good) * CostMiss

LEMMA ExtendFacts ==
    ASSUME NEW cell \in Cells, NEW dimension \in Nat, NEW good \in 0 .. dimension
    PROVE  /\ WindowCost(good, dimension) \in Nat
           /\ cell = NoPath => Extend(cell, good, dimension) = NoPath
           /\ cell # NoPath => LET c == Extend(cell, good, dimension)
                               IN  /\ c \in Live
                                   /\ c.cost = cell.cost + WindowCost(good, dimension)
                                   /\ c.good = cell.good + good
<1>1. WindowCost(good, dimension) \in Nat
  BY DEF WindowCost, CostMatch, CostMiss
<1>2. CASE cell = NoPath
  BY <1>1, <1>2 DEF Extend
<1>3. CASE cell # NoPath
  <2>1. cell \in Live /\ cell.cost \in Nat /\ cell.good \in Nat
    BY <1>3, LiveFacts
  <2>2. Extend(cell, good, dimension)
            = [cost |-> cell.cost + (dimension - good) * CostMiss + good * CostMatch,
               good |-> cell.good + good]
    BY <1>3 DEF Extend
  <2>3. cell.cost + (dimension - good) * CostMiss + good * CostMatch
            = cell.cost + WindowCost(good, dimension)
    BY <2>1 DEF WindowCost, CostMatch, CostMiss
  <2> QED
    BY <1>1, <1>3, <2>1, <2>2, <2>3 DEF Live
<1> QED
  BY <1>2, <1>3

\* What the windows of a path satisfy and cost, one by one.
GoodAt(stream, n, width, basis, path) ==
    [w \in DOMAIN path |-> Good(stream, (w - 1) * n + path[w], width, basis)]

StepAt(path, w) == IF w > 1 /\ path[w] # path[w - 1] THEN CostIndel ELSE 0

CostAt(stream, n, width, basis, path) ==
    [w \in DOMAIN path |->
        WindowCost(Good(stream, (w - 1) * n + path[w], width, basis), Cardinality(basis))
            + StepAt(path, w)]

LEMMA SumFunctionIs ==
    ASSUME NEW f PROVE SumFunction(f) = SumOf(f, DOMAIN f)
  BY DEF SumFunction, SumFunctionOnSet, FoldFunctionOnSet, SumOf, MapThenSumSet

LEMMA GoodOfIs ==
    ASSUME NEW stream, NEW n, NEW width, NEW basis, NEW path
    PROVE  GoodOf(path, stream, n, width, basis)
               = SumOf(GoodAt(stream, n, width, basis, path), DOMAIN path)
<1>1. DOMAIN GoodAt(stream, n, width, basis, path) = DOMAIN path
  BY DEF GoodAt
<1>2. GoodOf(path, stream, n, width, basis) = SumFunction(GoodAt(stream, n, width, basis, path))
  BY DEF GoodOf, GoodAt
<1> QED
  BY <1>1, <1>2, SumFunctionIs

LEMMA CostOfIs ==
    ASSUME NEW stream, NEW n, NEW width, NEW basis, NEW path
    PROVE  CostOf(path, stream, n, width, basis)
               = SumOf(CostAt(stream, n, width, basis, path), DOMAIN path)
<1>1. DOMAIN CostAt(stream, n, width, basis, path) = DOMAIN path
  BY DEF CostAt
<1>2. CostOf(path, stream, n, width, basis) = SumFunction(CostAt(stream, n, width, basis, path))
  BY DEF CostOf, CostAt, WindowCost, StepAt
<1> QED
  BY <1>1, <1>2, SumFunctionIs

Offsets == -MaxCumulativeDrift .. MaxCumulativeDrift

\* A path with one more window.
Prefix(path, m) == [w \in 1 .. m |-> path[w]]

LEMMA WindowCostType ==
    ASSUME NEW width \in Nat, NEW basis \in Bases(width), NEW stream, NEW position
    PROVE  WindowCost(Good(stream, position, width, basis), Cardinality(basis)) \in Nat
<1> DEFINE g == Good(stream, position, width, basis)
           d == Cardinality(basis)
<1>1. d \in Nat /\ g \in 0 .. d
  BY GoodFacts
<1> HIDE DEF g, d
<1>2. g \in Nat /\ d - g \in Nat
  BY <1>1
<1>3. g * 51 \in Nat /\ (d - g) * 2996 \in Nat
  BY <1>2
<1>4. WindowCost(g, d) = g * 51 + (d - g) * 2996
  BY DEF WindowCost, CostMatch, CostMiss
<1>5. WindowCost(g, d) \in Nat
  BY <1>3, <1>4
<1> QED
  BY <1>5 DEF g, d

LEMMA AtTypes ==
    ASSUME NEW width \in Nat, NEW basis \in Bases(width), NEW stream, NEW n,
           NEW m \in Nat, NEW path \in [1 .. m -> Offsets]
    PROVE  /\ GoodAt(stream, n, width, basis, path) \in [1 .. m -> Nat]
           /\ CostAt(stream, n, width, basis, path) \in [1 .. m -> Nat]
           /\ \A w : StepAt(path, w) \in Nat
<1>1. DOMAIN path = 1 .. m
  OBVIOUS
<1>2. \A w : StepAt(path, w) \in Nat
  BY DEF StepAt, CostIndel
<1>3. ASSUME NEW w \in 1 .. m
      PROVE  /\ Good(stream, (w - 1) * n + path[w], width, basis) \in Nat
             /\ WindowCost(Good(stream, (w - 1) * n + path[w], width, basis), Cardinality(basis))
                    + StepAt(path, w) \in Nat
  <2> DEFINE x == (w - 1) * n + path[w]
             c == WindowCost(Good(stream, x, width, basis), Cardinality(basis))
  <2>1. Good(stream, x, width, basis) \in Nat
    <3> HIDE DEF x
    <3> QED
      BY GoodFacts
  <2>2. c \in Nat
    <3> HIDE DEF x
    <3> QED
      BY WindowCostType
  <2> HIDE DEF c
  <2>3. c + StepAt(path, w) \in Nat
    BY <1>2, <2>2
  <2> QED
    BY <2>1, <2>3 DEF c
<1>4. GoodAt(stream, n, width, basis, path) \in [1 .. m -> Nat]
  BY <1>1, <1>3 DEF GoodAt
<1>5. CostAt(stream, n, width, basis, path) \in [1 .. m -> Nat]
  BY <1>1, <1>3 DEF CostAt
<1> QED
  BY <1>2, <1>4, <1>5

LEMMA SumOneMore ==
    ASSUME NEW m \in Nat, NEW A \in {Nat, Int}, NEW f \in [1 .. (m + 1) -> A]
    PROVE  SumOf(f, 1 .. (m + 1)) = f[m + 1] + SumOf(f, 1 .. m)
<1> DEFINE S == 1 .. (m + 1)
           R == 1 .. m
           e == m + 1
<1>1. IsFiniteSet(S)
  BY FS_Interval
<1>2. R \in SUBSET S /\ e \in S \ R /\ S = R \cup {e} /\ f \in [S -> A]
  OBVIOUS
<1> HIDE DEF S, R, e
<1>3. SumOf(f, R \cup {e}) = f[e] + SumOf(f, R)
  BY <1>1, <1>2, SumAdds
<1> QED
  BY <1>2, <1>3 DEF S, R, e

Grows(path, stream, n, width, basis, m) ==
    LET q == Prefix(path, m)
        good == Good(stream, m * n + path[m + 1], width, basis)
    IN  /\ q \in [1 .. m -> Offsets]
        /\ GoodOf(q, stream, n, width, basis) \in Nat
        /\ CostOf(q, stream, n, width, basis) \in Nat
        /\ GoodOf(path, stream, n, width, basis) = GoodOf(q, stream, n, width, basis) + good
        /\ CostOf(path, stream, n, width, basis)
               = CostOf(q, stream, n, width, basis)
                 + WindowCost(good, Cardinality(basis)) + StepAt(path, m + 1)

LEMMA PathGrows ==
    ASSUME NEW width \in Nat, NEW basis \in Bases(width), NEW stream, NEW n \in Nat,
           NEW m \in Nat, NEW path \in [1 .. (m + 1) -> Offsets]
    PROVE  Grows(path, stream, n, width, basis, m)
<1> DEFINE q == Prefix(path, m)
           S == 1 .. (m + 1)
           R == 1 .. m
           gp == GoodAt(stream, n, width, basis, path)
           gq == GoodAt(stream, n, width, basis, q)
           cp == CostAt(stream, n, width, basis, path)
           cq == CostAt(stream, n, width, basis, q)
<1>1. q \in [1 .. m -> Offsets] /\ \A w \in R : q[w] = path[w] /\ w \in S
  BY DEF Prefix
<1>2. DOMAIN path = S /\ DOMAIN q = R
  BY <1>1
<1> HIDE DEF q
<1>3. gq \in [R -> Nat] /\ cq \in [R -> Nat]
  BY <1>1, AtTypes
<1>4. m + 1 \in Nat
  OBVIOUS
<1>5. gp \in [S -> Nat] /\ cp \in [S -> Nat] /\ \A w : StepAt(path, w) \in Nat
  BY <1>4, AtTypes
<1>6. \A w \in R : gp[w] = gq[w] /\ cp[w] = cq[w]
  <2> SUFFICES ASSUME NEW w \in R PROVE gp[w] = gq[w] /\ cp[w] = cq[w]
    OBVIOUS
  <2>1. q[w] = path[w] /\ (w > 1 => q[w - 1] = path[w - 1])
    BY <1>1
  <2>2. StepAt(q, w) = StepAt(path, w)
    BY <2>1 DEF StepAt
  <2> QED
    BY <1>1, <1>2, <2>1, <2>2 DEF GoodAt, CostAt
<1>7. /\ gp[m + 1] = Good(stream, m * n + path[m + 1], width, basis)
      /\ cp[m + 1] = WindowCost(Good(stream, m * n + path[m + 1], width, basis), Cardinality(basis))
                     + StepAt(path, m + 1)
  <2>1. m + 1 \in S /\ (m + 1) - 1 = m
    OBVIOUS
  <2> QED
    BY <1>2, <2>1 DEF GoodAt, CostAt
<1>8. /\ GoodOf(path, stream, n, width, basis) = SumOf(gp, S)
      /\ CostOf(path, stream, n, width, basis) = SumOf(cp, S)
      /\ GoodOf(q, stream, n, width, basis) = SumOf(gq, R)
      /\ CostOf(q, stream, n, width, basis) = SumOf(cq, R)
  BY <1>2, GoodOfIs, CostOfIs
<1>9. WindowCost(Good(stream, m * n + path[m + 1], width, basis), Cardinality(basis)) \in Nat
  BY WindowCostType
<1>10. Good(stream, m * n + path[m + 1], width, basis) \in Nat
  BY GoodFacts
<1>11. /\ IsFiniteSet(S) /\ IsFiniteSet(R)
       /\ R \cup {m + 1} = S /\ m + 1 \in S \ R /\ R \in SUBSET S
  <2>1. IsFiniteSet(1 .. (m + 1)) /\ IsFiniteSet(1 .. m)
    BY <1>4, FS_Interval
  <2> QED
    BY <2>1
<1>12. Nat \in {Nat, Int}
  OBVIOUS
<1> HIDE DEF gp, gq, cp, cq, S, R
<1>13. SumOf(gp, S) = gp[m + 1] + SumOf(gp, R) /\ SumOf(cp, S) = cp[m + 1] + SumOf(cp, R)
  <2>1. SumOf(gp, S) = gp[m + 1] + SumOf(gp, R)
    BY <1>5, <1>12, SumOneMore DEF S, R
  <2>2. SumOf(cp, S) = cp[m + 1] + SumOf(cp, R)
    BY <1>5, <1>12, SumOneMore DEF S, R
  <2> QED
    BY <2>1, <2>2
<1>14. SumOf(gp, R) = SumOf(gq, R) /\ SumOf(cp, R) = SumOf(cq, R)
  <2>1. SumOf(gp, R) = SumOf(gq, R)
    BY <1>3, <1>5, <1>6, <1>11, <1>12, SumAgrees, SMTT(30)
  <2>2. SumOf(cp, R) = SumOf(cq, R)
    BY <1>3, <1>5, <1>6, <1>11, <1>12, SumAgrees, SMTT(30)
  <2> QED
    BY <2>1, <2>2
<1>15. SumOf(gq, R) \in Nat /\ SumOf(cq, R) \in Nat
  <2>1. R \in SUBSET R
    OBVIOUS
  <2> QED
    BY <1>3, <1>11, <1>12, <2>1, SumIsNumber
<1> DEFINE good == Good(stream, m * n + path[m + 1], width, basis)
           cost == WindowCost(good, Cardinality(basis))
           step == StepAt(path, m + 1)
<1>16. good \in Nat /\ cost \in Nat /\ step \in Nat /\ gp[m + 1] = good /\ cp[m + 1] = cost + step
  BY <1>5, <1>7, <1>9, <1>10
<1> HIDE DEF good, cost, step
<1>17. SumOf(gp, S) = SumOf(gq, R) + good /\ SumOf(cp, S) = SumOf(cq, R) + cost + step
  BY <1>13, <1>14, <1>15, <1>16
<1> QED
  BY <1>1, <1>8, <1>15, <1>17 DEF Grows, q, R, good, cost, step

\* The paths of m windows that end at index i.
PathsTo(stream, n, width, m, i) == {p \in Paths(stream, n, width, m) : p[m] = Offset(i)}

\* A cell of a row holds a cheapest path to its index.
CellTracks(cell, stream, n, width, basis, m, i) ==
    LET paths == PathsTo(stream, n, width, m, i)
    IN  /\ paths = {} => cell = NoPath
        /\ paths # {} =>
               /\ cell \in Live
               /\ \E p \in paths : /\ CostOf(p, stream, n, width, basis) = cell.cost
                                   /\ GoodOf(p, stream, n, width, basis) = cell.good
               /\ \A p \in paths : cell.cost <= CostOf(p, stream, n, width, basis)

RowTracks(row, stream, n, width, basis, m) ==
    \A i \in Indexes : CellTracks(row[i], stream, n, width, basis, m, i)

\* The path of one window.
LEMMA FirstPath ==
    ASSUME NEW width \in Nat, NEW basis \in Bases(width), NEW stream, NEW n \in Nat,
           NEW path \in [1 .. 1 -> Offsets]
    PROVE  LET good == Good(stream, path[1], width, basis)
           IN  /\ GoodOf(path, stream, n, width, basis) = good
               /\ CostOf(path, stream, n, width, basis) = WindowCost(good, Cardinality(basis))
<1>1. PICK m \in Nat : m = 0
  OBVIOUS
<1> DEFINE q == Prefix(path, m)
           x == m * n + path[m + 1]
           good == Good(stream, x, width, basis)
           cost == WindowCost(good, Cardinality(basis))
<1>2. path[1] \in Int
  BY DriftAssumption DEF Offsets
<1>3. path \in [1 .. (m + 1) -> Offsets] /\ m * n + path[m + 1] = path[1]
  BY <1>1, <1>2
<1>4. /\ q \in [1 .. m -> Offsets]
      /\ GoodOf(path, stream, n, width, basis) = GoodOf(q, stream, n, width, basis) + good
      /\ CostOf(path, stream, n, width, basis)
             = CostOf(q, stream, n, width, basis) + cost + StepAt(path, m + 1)
  <2>1. Grows(path, stream, n, width, basis, m)
    BY <1>3, PathGrows
  <2> QED
    BY <2>1 DEF Grows
<1>5. StepAt(path, m + 1) = 0
  BY <1>1 DEF StepAt
<1> HIDE DEF q, x
<1>6. GoodOf(q, stream, n, width, basis) = 0 /\ CostOf(q, stream, n, width, basis) = 0
  <2> DEFINE f == GoodAt(stream, n, width, basis, q)
             g == CostAt(stream, n, width, basis, q)
  <2>1. f \in [1 .. m -> Nat] /\ g \in [1 .. m -> Nat]
    BY <1>4, AtTypes
  <2>2. DOMAIN q = {} /\ 1 .. m = {}
    BY <1>1, <1>4
  <2>3. /\ GoodOf(q, stream, n, width, basis) = SumOf(f, {})
        /\ CostOf(q, stream, n, width, basis) = SumOf(g, {})
    BY <2>2, GoodOfIs, CostOfIs
  <2>4. IsFiniteSet({}) /\ Nat \in {Nat, Int}
    BY FS_EmptySet
  <2> HIDE DEF f, g
  <2>5. SumOf(f, {}) = 0 /\ SumOf(g, {}) = 0
    BY <2>1, <2>2, <2>4, SumOfNone
  <2> QED
    BY <2>3, <2>5
<1>7. good \in Nat /\ cost \in Nat
  BY GoodFacts, WindowCostType
<1>8. x = path[1]
  BY <1>3 DEF x
<1> HIDE DEF good, cost
<1>9. /\ GoodOf(path, stream, n, width, basis) = good
      /\ CostOf(path, stream, n, width, basis) = cost
  BY <1>4, <1>5, <1>6, <1>7
<1> QED
  BY <1>8, <1>9 DEF good, cost

LEMMA FirstRowTracks ==
    ASSUME NEW width \in Nat, NEW basis \in Bases(width), NEW stream, NEW n \in Nat
    PROVE  /\ FirstRow(stream, width, basis) \in Rows
           /\ RowTracks(FirstRow(stream, width, basis), stream, n, width, basis, 1)
<1> DEFINE start == [cost |-> 0, good |-> 0]
           cell(i) == Extend(start, Good(stream, Offset(i), width, basis), Cardinality(basis))
           row == FirstRow(stream, width, basis)
<1>1. start \in Cells /\ start # NoPath /\ start.cost = 0 /\ start.good = 0
  BY DEF Cells, Live, NoPath
<1>2. \A i : /\ Good(stream, Offset(i), width, basis) \in 0 .. Cardinality(basis)
             /\ Cardinality(basis) \in Nat
  BY GoodFacts
<1>3. \A i : /\ cell(i) \in Live
             /\ cell(i).cost = 0 + WindowCost(Good(stream, Offset(i), width, basis), Cardinality(basis))
             /\ cell(i).good = 0 + Good(stream, Offset(i), width, basis)
             /\ WindowCost(Good(stream, Offset(i), width, basis), Cardinality(basis)) \in Nat
  <2> HIDE DEF start
  <2> QED
    BY <1>1, <1>2, ExtendFacts
<1>4. row = [i \in Indexes |->
                IF Offset(i) \in 0 .. MaxDrift /\ Fits(stream, Offset(i), width)
                THEN cell(i) ELSE NoPath]
  BY DEF FirstRow
<1> HIDE DEF cell, row
<1>5. row \in Rows
  BY <1>3, <1>4 DEF Rows, Cells
<1>6. ASSUME NEW i \in Indexes PROVE CellTracks(row[i], stream, n, width, basis, 1, i)
  <2> DEFINE d == Offset(i)
             good == Good(stream, d, width, basis)
             paths == PathsTo(stream, n, width, 1, i)
             path == [w \in 1 .. 1 |-> d]
  <2>1. d \in Offsets /\ d \in Int
    BY IndexesFit, DriftAssumption DEF IndexFacts, Offsets
  <2>2. ASSUME NEW p \in paths
        PROVE  /\ p \in [1 .. 1 -> Offsets] /\ p[1] = d
               /\ d \in 0 .. MaxDrift /\ Fits(stream, d, width)
    <3>1. p \in Paths(stream, n, width, 1) /\ p[1] = d
      BY DEF PathsTo
    <3>2. p \in [1 .. 1 -> Offsets] /\ p[1] \in 0 .. MaxDrift
      BY <3>1 DEF Paths, Offsets
    <3>3. Fits(stream, (1 - 1) * n + p[1], width)
      BY <3>1 DEF Paths
    <3>4. (1 - 1) * n + p[1] = d
      BY <2>1, <3>1
    <3> QED
      BY <3>1, <3>2, <3>3, <3>4
  <2>3. ASSUME d \in 0 .. MaxDrift, Fits(stream, d, width) PROVE path \in paths
    <3>1. path \in [1 .. 1 -> Offsets] /\ path[1] = d
      BY <2>1
    <3> HIDE DEF path
    <3>2. \A w \in 1 .. 1 : Fits(stream, (w - 1) * n + path[w], width)
      <4>1. (1 - 1) * n + path[1] = d
        BY <2>1, <3>1
      <4>2. \A w \in 1 .. 1 : w = 1
        OBVIOUS
      <4> QED
        BY <2>3, <4>1, <4>2
    <3>3. 2 .. 1 = {}
      OBVIOUS
    <3>4. path \in Paths(stream, n, width, 1)
      BY <2>3, <3>1, <3>2, <3>3 DEF Paths, Offsets
    <3> QED
      BY <3>1, <3>4 DEF PathsTo
  <2> HIDE DEF paths, path
  <2>4. ASSUME NEW p \in paths
        PROVE  /\ GoodOf(p, stream, n, width, basis) = good
               /\ CostOf(p, stream, n, width, basis) = WindowCost(good, Cardinality(basis))
    BY <2>2, FirstPath
  <2>5. CASE d \in 0 .. MaxDrift /\ Fits(stream, d, width)
    <3>1. row[i] = cell(i)
      BY <1>4, <2>5
    <3>2. path \in paths
      BY <2>3, <2>5
    <3> DEFINE cost == WindowCost(good, Cardinality(basis))
    <3>3. /\ cell(i) \in Live /\ cell(i).cost = 0 + cost /\ cell(i).good = 0 + good
          /\ cost \in Nat /\ good \in Nat
      BY <1>2, <1>3
    <3>4. \A p \in paths : /\ GoodOf(p, stream, n, width, basis) = good
                           /\ CostOf(p, stream, n, width, basis) = cost
      BY <2>4
    <3> HIDE DEF cost, good
    <3>5. cell(i).cost = cost /\ cell(i).good = good /\ cost <= cost
      BY <3>3
    <3> QED
      BY <3>1, <3>2, <3>3, <3>4, <3>5 DEF CellTracks, paths
  <2>6. CASE ~(d \in 0 .. MaxDrift /\ Fits(stream, d, width))
    <3>1. row[i] = NoPath
      BY <1>4, <2>6
    <3>2. paths = {}
      BY <2>2, <2>6
    <3> QED
      BY <3>1, <3>2 DEF CellTracks, paths
  <2> QED
    BY <2>5, <2>6
<1>7. RowTracks(row, stream, n, width, basis, 1)
  BY <1>6 DEF RowTracks
<1> QED
  BY <1>5, <1>7 DEF row

\* A path of one window more to an index: a path to one of its predecessors
\* and a window in the stream.
Grown(p, stream, n, width, m, i) ==
    /\ p[m + 1] = Offset(i)
    /\ Fits(stream, m * n + Offset(i), width)
    /\ \E j \in Preds(i) : Prefix(p, m) \in PathsTo(stream, n, width, m, j)

LEMMA PathsGrow ==
    ASSUME NEW stream, NEW width, NEW n \in Nat, NEW m \in Nat \ {0}, NEW i \in Indexes,
           NEW p \in [1 .. (m + 1) -> Offsets]
    PROVE  p \in PathsTo(stream, n, width, m + 1, i) <=> Grown(p, stream, n, width, m, i)
<1> DEFINE q == Prefix(p, m)
<1>1. /\ q \in [1 .. m -> Offsets] /\ \A w \in 1 .. m : q[w] = p[w]
      /\ 1 \in 1 .. m /\ m \in 1 .. m
  BY DEF Prefix
<1> HIDE DEF q
<1>2. q[m] \in Int /\ q[m] \in Offsets /\ p[m] = q[m] /\ p[m + 1] \in Int
  BY <1>1, DriftAssumption DEF Offsets
<1>3. \A j : q \in PathsTo(stream, n, width, m, j)
                 <=> /\ q[1] \in 0 .. MaxDrift
                     /\ \A w \in 2 .. m : q[w] - q[w - 1] \in {-1, 0, 1}
                     /\ \A w \in 1 .. m : Fits(stream, (w - 1) * n + q[w], width)
                     /\ q[m] = Offset(j)
  BY <1>1 DEF PathsTo, Paths, Offsets
<1>4. p \in PathsTo(stream, n, width, m + 1, i)
          <=> /\ p[1] \in 0 .. MaxDrift
              /\ \A w \in 2 .. (m + 1) : p[w] - p[w - 1] \in {-1, 0, 1}
              /\ \A w \in 1 .. (m + 1) : Fits(stream, (w - 1) * n + p[w], width)
              /\ p[m + 1] = Offset(i)
  BY DEF PathsTo, Paths, Offsets
<1>5. (\A w \in 2 .. (m + 1) : p[w] - p[w - 1] \in {-1, 0, 1})
          <=> /\ \A w \in 2 .. m : q[w] - q[w - 1] \in {-1, 0, 1}
              /\ p[m + 1] - q[m] \in {-1, 0, 1}
  <2>1. 2 .. (m + 1) = (2 .. m) \cup {m + 1} /\ (m + 1) - 1 = m
    OBVIOUS
  <2>2. \A w \in 2 .. m : q[w] = p[w] /\ q[w - 1] = p[w - 1]
    BY <1>1
  <2>3. (\A w \in 2 .. m : p[w] - p[w - 1] \in {-1, 0, 1})
            <=> \A w \in 2 .. m : q[w] - q[w - 1] \in {-1, 0, 1}
    BY <2>2
  <2>4. p[m + 1] - p[(m + 1) - 1] = p[m + 1] - q[m]
    BY <1>2, <2>1
  <2> QED
    BY <2>1, <2>3, <2>4
<1>6. (\A w \in 1 .. (m + 1) : Fits(stream, (w - 1) * n + p[w], width))
          <=> /\ \A w \in 1 .. m : Fits(stream, (w - 1) * n + q[w], width)
              /\ Fits(stream, m * n + p[m + 1], width)
  <2>1. 1 .. (m + 1) = (1 .. m) \cup {m + 1} /\ (m + 1) - 1 = m
    OBVIOUS
  <2>2. ((m + 1) - 1) * n + p[m + 1] = m * n + p[m + 1]
    BY <2>1
  <2>3. (\A w \in 1 .. m : Fits(stream, (w - 1) * n + p[w], width))
            <=> \A w \in 1 .. m : Fits(stream, (w - 1) * n + q[w], width)
    BY <1>1
  <2> QED
    BY <2>1, <2>2, <2>3
<1>7. ASSUME p[m + 1] = Offset(i)
      PROVE  p[m + 1] - q[m] \in {-1, 0, 1} <=> \E j \in Preds(i) : q[m] = Offset(j)
  <2> DEFINE j == q[m] + 1 + MaxCumulativeDrift
  <2>1. j \in Indexes /\ Offset(j) = q[m]
    BY <1>2, IndexesFit DEF IndexFacts, Offsets
  <2> HIDE DEF j
  <2>2. Offset(i) - Offset(j) = i - j /\ i \in Nat /\ j \in Nat
    BY <2>1, IndexesFit DEF IndexFacts
  <2>3. p[m + 1] - q[m] \in {-1, 0, 1} <=> j \in Preds(i)
    <3>1. p[m + 1] - q[m] = i - j
      BY <1>7, <2>1, <2>2
    <3> QED
      BY <2>1, <2>2, <3>1 DEF Preds
  <2>4. ASSUME NEW k \in Preds(i), q[m] = Offset(k) PROVE k = j
    <3>1. k \in Indexes /\ k \in Nat
      BY IndexesFit DEF IndexFacts, Preds
    <3>2. Offset(k) - Offset(j) = k - j
      BY <2>1, <3>1, IndexesFit DEF IndexFacts
    <3>3. Offset(k) - Offset(j) = 0
      BY <1>2, <2>1, <2>4
    <3> QED
      BY <2>2, <3>1, <3>2, <3>3
  <2> QED
    BY <2>1, <2>3, <2>4
<1>8. p[1] = q[1]
  BY <1>1
<1> QED
  BY <1>3, <1>4, <1>5, <1>6, <1>7, <1>8 DEF Grown, q

LEMMA NextRowTracks ==
    ASSUME NEW width \in Nat, NEW basis \in Bases(width), NEW stream, NEW n \in Nat,
           NEW m \in Nat \ {0}, NEW row \in Rows, RowTracks(row, stream, n, width, basis, m)
    PROVE  RowTracks(NextRow(stream, n, width, basis, row, m), stream, n, width, basis, m + 1)
<1> DEFINE next == NextRow(stream, n, width, basis, row, m)
           cost(p) == CostOf(p, stream, n, width, basis)
           good(p) == GoodOf(p, stream, n, width, basis)
           To(j) == PathsTo(stream, n, width, m, j)
<1> SUFFICES ASSUME NEW i \in Indexes
             PROVE  CellTracks(next[i], stream, n, width, basis, m + 1, i)
  BY DEF RowTracks
<1> DEFINE x == m * n + Offset(i)
           g == Good(stream, x, width, basis)
           D == Cardinality(basis)
           wc == WindowCost(g, D)
           paths == PathsTo(stream, n, width, m + 1, i)
<1>1. next[i] = IF Fits(stream, x, width) THEN Extend(Best(row, i), g, D) ELSE NoPath
  BY DEF NextRow
<1>2. D \in Nat /\ g \in 0 .. D /\ wc \in Nat
  <2> HIDE DEF x
  <2> QED
    BY GoodFacts, WindowCostType
<1>3. ASSUME NEW j \in Preds(i)
      PROVE  /\ To(j) = {} => row[j] = NoPath
             /\ To(j) # {} => /\ row[j] \in Live /\ row[j] # NoPath
                              /\ \E q \in To(j) : cost(q) = row[j].cost /\ good(q) = row[j].good
                              /\ \A q \in To(j) : row[j].cost <= cost(q)
  <2>1. j \in Indexes /\ CellTracks(row[j], stream, n, width, basis, m, j)
    BY DEF RowTracks, Preds
  <2>2. ~(NoPath \in Live)
    BY DEF NoPath, Live
  <2> QED
    BY <2>1, <2>2 DEF CellTracks
<1>4. ASSUME NEW p \in paths
      PROVE  /\ p \in [1 .. (m + 1) -> Offsets] /\ p[m + 1] = Offset(i)
             /\ Fits(stream, x, width)
             /\ \E j \in Preds(i) : Prefix(p, m) \in To(j)
  <2>1. p \in [1 .. (m + 1) -> Offsets]
    BY DEF PathsTo, Paths, Offsets
  <2>2. p \in PathsTo(stream, n, width, m + 1, i)
    OBVIOUS
  <2>3. /\ p[m + 1] = Offset(i) /\ Fits(stream, m * n + Offset(i), width)
        /\ \E j \in Preds(i) : Prefix(p, m) \in PathsTo(stream, n, width, m, j)
    <3>1. Grown(p, stream, n, width, m, i)
      BY <2>1, <2>2, PathsGrow
    <3> QED
      BY <3>1 DEF Grown
  <2> QED
    BY <2>1, <2>3
\* What a path of one window more costs and satisfies.
<1>5. ASSUME NEW p \in [1 .. (m + 1) -> Offsets], p[m + 1] = Offset(i),
             NEW j \in Preds(i), Prefix(p, m) \in To(j)
      PROVE  /\ cost(p) = cost(Prefix(p, m)) + wc + StepCost(j, i)
             /\ good(p) = good(Prefix(p, m)) + g
             /\ cost(Prefix(p, m)) \in Nat /\ good(Prefix(p, m)) \in Nat
  <2>1. Grows(p, stream, n, width, basis, m)
    BY PathGrows
  <2>2. StepAt(p, m + 1) = StepCost(j, i)
    <3>1. Prefix(p, m)[m] = Offset(j) /\ Prefix(p, m)[m] = p[m]
      BY <1>5 DEF PathsTo, Prefix
    <3>2. j \in Indexes /\ j \in Nat /\ i \in Nat
      BY IndexesFit DEF IndexFacts, Preds
    <3>3. Offset(i) - Offset(j) = i - j /\ Offset(i) \in Int /\ Offset(j) \in Int
      BY <3>2, IndexesFit, DriftAssumption DEF IndexFacts
    <3>4. p[m + 1] = p[m] <=> j = i
      BY <1>5, <3>1, <3>2, <3>3
    <3>5. m + 1 > 1 /\ (m + 1) - 1 = m
      OBVIOUS
    <3> QED
      BY <3>4, <3>5 DEF StepAt, StepCost
  <2>3. /\ good(p) = good(Prefix(p, m)) + Good(stream, m * n + p[m + 1], width, basis)
        /\ cost(p) = cost(Prefix(p, m))
                     + WindowCost(Good(stream, m * n + p[m + 1], width, basis), D)
                     + StepAt(p, m + 1)
        /\ cost(Prefix(p, m)) \in Nat /\ good(Prefix(p, m)) \in Nat
    BY <2>1 DEF Grows
  <2> QED
    BY <1>5, <2>2, <2>3
\* A path to a predecessor extends, where the window fits.
<1>6. ASSUME Fits(stream, x, width), NEW j \in Preds(i), NEW q \in To(j)
      PROVE  \E p \in paths : p \in [1 .. (m + 1) -> Offsets] /\ Prefix(p, m) = q
  <2> DEFINE p == [w \in 1 .. (m + 1) |-> IF w = m + 1 THEN Offset(i) ELSE q[w]]
  <2>1. q \in [1 .. m -> Offsets]
    BY DEF PathsTo, Paths, Offsets
  <2>2. Offset(i) \in Offsets
    BY IndexesFit DEF IndexFacts, Offsets
  <2>3. p \in [1 .. (m + 1) -> Offsets] /\ p[m + 1] = Offset(i) /\ \A w \in 1 .. m : p[w] = q[w]
    BY <2>1, <2>2
  <2> HIDE DEF p
  <2>4. Prefix(p, m) = q
    BY <2>1, <2>3 DEF Prefix
  <2>5. p \in paths
    BY <1>6, <2>3, <2>4, PathsGrow DEF Grown
  <2> QED
    BY <2>3, <2>4, <2>5
<1> HIDE DEF cost, good, To, x, g, D, wc, paths, next
<1>7. \A j \in Preds(i) : StepCost(j, i) \in Nat
  BY DEF StepCost, CostIndel
<1>8. CASE ~Fits(stream, x, width) \/ \A j \in Preds(i) : To(j) = {}
  <2>1. paths = {}
    BY <1>4, <1>8
  <2>2. next[i] = NoPath
    <3>1. CASE ~Fits(stream, x, width)
      BY <1>1, <3>1
    <3>2. CASE \A j \in Preds(i) : To(j) = {}
      <4>1. Best(row, i) = NoPath
        BY <1>3, <3>2, BestFacts
      <4>2. NoPath \in Cells
        BY DEF Cells
      <4>3. Extend(Best(row, i), g, D) = NoPath
        BY <1>2, <4>1, <4>2, ExtendFacts
      <4> QED
        BY <1>1, <4>3
    <3> QED
      BY <1>8, <3>1, <3>2
  <2> QED
    BY <2>1, <2>2 DEF CellTracks, paths
<1>9. CASE Fits(stream, x, width) /\ \E j \in Preds(i) : To(j) # {}
  <2> DEFINE b == Best(row, i)
  <2>1. Reached(row, i, b)
    BY <1>3, <1>9, BestFacts
  <2>2. b \in Live /\ b \in Cells /\ b # NoPath /\ b.cost \in Nat /\ b.good \in Nat
    BY <2>1, LiveFacts DEF Reached, Cells
  <2>3. PICK j \in Preds(i) : /\ row[j] # NoPath
                              /\ b.cost = row[j].cost + StepCost(j, i) /\ b.good = row[j].good
    BY <2>1 DEF Reached
  <2>4. \A k \in Preds(i) : row[k] # NoPath => b.cost <= row[k].cost + StepCost(k, i)
    BY <2>1 DEF Reached
  <2> HIDE DEF b
  <2>5. next[i] \in Live /\ next[i].cost = b.cost + wc /\ next[i].good = b.good + g
    <3>1. next[i] = Extend(b, g, D)
      BY <1>1, <1>9 DEF b
    <3>2. /\ Extend(b, g, D) \in Live
          /\ Extend(b, g, D).cost = b.cost + WindowCost(g, D)
          /\ Extend(b, g, D).good = b.good + g
      BY <1>2, <2>2, ExtendFacts
    <3> QED
      BY <3>1, <3>2 DEF wc
  <2>6. PICK q \in To(j) : cost(q) = row[j].cost /\ good(q) = row[j].good
    BY <1>3, <2>3
  <2>7. PICK p \in paths : p \in [1 .. (m + 1) -> Offsets] /\ Prefix(p, m) = q
    BY <1>6, <1>9
  <2>8. cost(p) = next[i].cost /\ good(p) = next[i].good
    <3>1. /\ cost(p) = cost(q) + wc + StepCost(j, i) /\ good(p) = good(q) + g
          /\ cost(q) \in Nat /\ good(q) \in Nat
      BY <1>4, <1>5, <2>7
    <3> QED
      BY <1>2, <1>7, <2>3, <2>5, <2>6, <3>1
  <2>9. ASSUME NEW r \in paths PROVE next[i].cost <= cost(r)
    <3>1. PICK k \in Preds(i) : Prefix(r, m) \in To(k)
      BY <1>4
    <3>2. /\ cost(r) = cost(Prefix(r, m)) + wc + StepCost(k, i)
          /\ cost(Prefix(r, m)) \in Nat
      BY <1>4, <1>5, <3>1
    <3>3. row[k] # NoPath /\ row[k] \in Live /\ row[k].cost <= cost(Prefix(r, m))
      BY <1>3, <3>1
    <3>4. b.cost <= row[k].cost + StepCost(k, i) /\ row[k].cost \in Nat
      BY <2>4, <3>3, LiveFacts
    <3> QED
      BY <1>2, <1>7, <2>2, <2>5, <3>2, <3>3, <3>4
  <2> QED
    BY <2>5, <2>7, <2>8, <2>9 DEF CellTracks, paths, cost, good
<1> QED
  BY <1>8, <1>9 DEF next

LEMMA NextRowType ==
    ASSUME NEW width \in Nat, NEW basis \in Bases(width), NEW stream, NEW n, NEW w,
           NEW row \in Rows
    PROVE  NextRow(stream, n, width, basis, row, w) \in Rows
<1>1. ASSUME NEW i \in Indexes, NEW x
      PROVE  Extend(Best(row, i), Good(stream, x, width, basis), Cardinality(basis)) \in Cells
  <2> DEFINE b == Best(row, i)
             g == Good(stream, x, width, basis)
             D == Cardinality(basis)
  <2>1. b \in Cells
    <3>1. CASE \A p \in Preds(i) : row[p] = NoPath
      BY <3>1, BestFacts DEF Cells
    <3>2. CASE \E p \in Preds(i) : row[p] # NoPath
      <4>1. Reached(row, i, b)
        BY <3>2, BestFacts
      <4> QED
        BY <4>1 DEF Reached, Cells
    <3> QED
      BY <3>1, <3>2
  <2>2. D \in Nat /\ g \in 0 .. D
    BY GoodFacts
  <2> HIDE DEF b, g, D
  <2>3. Extend(b, g, D) \in Cells
    <3>1. CASE b = NoPath
      BY <2>1, <2>2, <3>1, ExtendFacts DEF Cells
    <3>2. CASE b # NoPath
      <4>1. Extend(b, g, D) \in Live
        BY <2>1, <2>2, <3>2, ExtendFacts
      <4> QED
        BY <4>1 DEF Cells
    <3> QED
      BY <3>1, <3>2
  <2> QED
    BY <2>3 DEF b, g, D
<1>2. NoPath \in Cells
  BY DEF Cells
<1> QED
  BY <1>1, <1>2 DEF NextRow, Rows

LEMMA LastRowIsChosen ==
    ASSUME NEW stream, NEW n, NEW width, NEW basis, NEW windows
    PROVE  LastRow(stream, n, width, basis, windows) =
               (CHOOSE f : f = [w \in 0 .. (windows - 1) |->
                                   IF w = 0 THEN FirstRow(stream, width, basis)
                                   ELSE NextRow(stream, n, width, basis, f[w - 1], w)])
                                       [windows - 1]
  BY DEF LastRow

\* The rows that the search goes through.
RowChain(f, stream, n, width, basis, N) ==
    /\ f[0] = FirstRow(stream, width, basis)
    /\ \A w \in 1 .. N : f[w] = NextRow(stream, n, width, basis, f[w - 1], w)

LEMMA LastRowSteps ==
    ASSUME NEW width \in Nat, NEW basis \in Bases(width), NEW stream, NEW n \in Nat,
           NEW N \in Nat
    PROVE  \E f \in [0 .. N -> Rows] :
               /\ RowChain(f, stream, n, width, basis, N)
               /\ LastRow(stream, n, width, basis, N + 1) = f[N]
<1> DEFINE base == FirstRow(stream, width, basis)
           step == [p \in (1 .. N) \X Rows |-> NextRow(stream, n, width, basis, p[2], p[1])]
           Unfolds(f) == f = [w \in 0 .. N |->
                                 IF w = 0 THEN base
                                 ELSE NextRow(stream, n, width, basis, f[w - 1], w)]
           h == CHOOSE f : Unfolds(f)
<1>1. base \in Rows
  BY FirstRowTracks
<1>2. step \in [(1 .. N) \X Rows -> Rows]
  <2>1. \A p \in (1 .. N) \X Rows : NextRow(stream, n, width, basis, p[2], p[1]) \in Rows
    BY NextRowType
  <2> QED
    BY <2>1
<1>3. PICK f \in [0 .. N -> Rows] : Solves(f, base, step, N)
  <2> HIDE DEF base, step
  <2> QED
    BY <1>1, <1>2, RecursionExists
<1>4. ASSUME NEW w \in 0 .. N
      PROVE  f[w] = IF w = 0 THEN base ELSE NextRow(stream, n, width, basis, f[w - 1], w)
  <2>1. CASE w = 0
    BY <1>3, <2>1 DEF Solves
  <2>2. CASE w # 0
    <3>1. w \in 1 .. N /\ w - 1 \in 0 .. N
      BY <2>2
    <3>2. f[w] = step[<<w, f[w - 1]>>]
      <4> HIDE DEF step, base
      <4> QED
        BY <1>3, <2>2 DEF Solves
    <3>3. f[w - 1] \in Rows
      BY <3>1
    <3> QED
      BY <2>2, <3>1, <3>2, <3>3
  <2> QED
    BY <2>1, <2>2
<1>5. Unfolds(f)
  <2>1. f = [w \in 0 .. N |-> f[w]]
    OBVIOUS
  <2>2. [w \in 0 .. N |-> f[w]]
           = [w \in 0 .. N |-> IF w = 0 THEN base
                               ELSE NextRow(stream, n, width, basis, f[w - 1], w)]
    BY <1>4, Zenon
  <2> QED
    BY <2>1, <2>2
<1>6. Unfolds(h)
  <2> HIDE DEF Unfolds
  <2> QED
    BY <1>5
<1>7. LastRow(stream, n, width, basis, N + 1) = h[N]
  <2>1. (N + 1) - 1 = N
    OBVIOUS
  <2> QED
    BY <2>1, LastRowIsChosen
<1> HIDE DEF h, base
<1>8. ASSUME NEW w \in 0 .. N
      PROVE  h[w] = IF w = 0 THEN base ELSE NextRow(stream, n, width, basis, h[w - 1], w)
  BY <1>6
<1> DEFINE T == {w \in 0 .. N : h[w] = f[w]}
<1>9. 0 .. N \subseteq T
  <2>1. 0 \in T
    <3>1. 0 \in 0 .. N
      OBVIOUS
    <3>2. h[0] = base /\ f[0] = base
      BY <1>4, <1>8, <3>1
    <3> QED
      BY <3>1, <3>2
  <2>2. ASSUME NEW k \in 1 .. N, k - 1 \in T PROVE k \in T
    <3>1. k \in 0 .. N /\ k # 0
      OBVIOUS
    <3>2. /\ h[k] = NextRow(stream, n, width, basis, h[k - 1], k)
          /\ f[k] = NextRow(stream, n, width, basis, f[k - 1], k)
      BY <1>4, <1>8, <3>1
    <3>3. h[k - 1] = f[k - 1]
      BY <2>2
    <3> QED
      BY <3>1, <3>2, <3>3
  <2> HIDE DEF T
  <2> QED
    BY <2>1, <2>2, BoundedInduction
<1>10. h[N] = f[N]
  BY <1>9
<1>11. RowChain(f, stream, n, width, basis, N)
  <2>1. f[0] = base
    BY <1>4
  <2>2. ASSUME NEW w \in 1 .. N
        PROVE  f[w] = NextRow(stream, n, width, basis, f[w - 1], w)
    <3>1. w \in 0 .. N /\ w # 0
      OBVIOUS
    <3> QED
      BY <1>4, <3>1
  <2> QED
    BY <2>1, <2>2 DEF RowChain, base
<1> QED
  BY <1>7, <1>10, <1>11

\* The last row holds a cheapest path to each of its indexes.
LEMMA LastRowTracks ==
    ASSUME NEW width \in Nat, NEW basis \in Bases(width), NEW stream, NEW n \in Nat,
           NEW windows \in Nat \ {0}
    PROVE  /\ LastRow(stream, n, width, basis, windows) \in Rows
           /\ RowTracks(LastRow(stream, n, width, basis, windows),
                        stream, n, width, basis, windows)
<1> DEFINE N == windows - 1
<1>1. N \in Nat /\ windows = N + 1
  OBVIOUS
<1> HIDE DEF N
<1>2. PICK f \in [0 .. N -> Rows] : /\ RowChain(f, stream, n, width, basis, N)
                                    /\ LastRow(stream, n, width, basis, N + 1) = f[N]
  BY <1>1, LastRowSteps
<1> DEFINE T == {w \in 0 .. N : RowTracks(f[w], stream, n, width, basis, w + 1)}
<1>3. 0 \in T
  <2>1. 0 \in 0 .. N /\ f[0] = FirstRow(stream, width, basis)
    BY <1>1, <1>2 DEF RowChain
  <2>2. RowTracks(f[0], stream, n, width, basis, 1)
    BY <2>1, FirstRowTracks
  <2>3. RowTracks(f[0], stream, n, width, basis, 0 + 1)
    BY <2>2
  <2> QED
    BY <2>1, <2>3
<1>4. ASSUME NEW k \in 1 .. N, k - 1 \in T PROVE k \in T
  <2>1. /\ k \in Nat \ {0} /\ k \in 0 .. N /\ (k - 1) + 1 = k /\ k - 1 \in 0 .. N
        /\ f[k] = NextRow(stream, n, width, basis, f[k - 1], k)
    BY <1>1, <1>2 DEF RowChain
  <2>2. f[k - 1] \in Rows
    BY <2>1
  <2>3. RowTracks(f[k - 1], stream, n, width, basis, k)
    BY <1>4, <2>1
  <2>4. RowTracks(f[k], stream, n, width, basis, k + 1)
    BY <2>1, <2>2, <2>3, NextRowTracks
  <2> QED
    BY <2>1, <2>4
<1>5. N \in T
  <2>1. 0 .. N \subseteq T
    <3> HIDE DEF T
    <3> QED
      BY <1>1, <1>3, <1>4, BoundedInduction
  <2> QED
    BY <1>1, <2>1
<1> QED
  BY <1>1, <1>2, <1>5

\* What remains of a stream from a position on is a stream.
LEMMA FromType ==
    ASSUME NEW S, NEW stream \in Seq(S), NEW phase \in Nat
    PROVE  From(stream, phase) \in Seq(S) /\ Len(From(stream, phase)) \in Int
<1>1. CASE phase + 1 <= Len(stream) + 1
  <2>1. SubSeq(stream, phase + 1, Len(stream)) \in Seq(S)
    BY <1>1, SubSeqProperties
  <2> QED
    BY <2>1 DEF From
<1>2. CASE phase + 1 > Len(stream) + 1
  <2>1. SubSeq(stream, phase + 1, Len(stream)) = << >>
    BY <1>2, SubSeqEmpty
  <2> QED
    BY <2>1 DEF From
<1> QED
  BY <1>1, <1>2

\* The windows a basis is tried on.
LEMMA CrossWindowsFacts ==
    ASSUME NEW n, NEW width, IsCode(n, width), NEW stream, Len(stream) \in Int
    PROVE  /\ CrossWindows(stream, n, width) \in Int
           /\ WindowCount(stream, n, width) \in Int
           /\ LongEnough(stream, n, width) => CrossWindows(stream, n, width) >= 1
<1> DEFINE all == WindowCount(stream, n, width)
<1>1. all \in Int
  BY DivisionFacts DEF WindowCount, IsCode
<1>2. MaxCrossWindows \in Nat \ {0}
  BY DriftAssumption
<1>3. LongEnough(stream, n, width) => all >= 1
  <2>1. PICK m \in 0 .. 10 : width \div n = m
    BY DEF IsCode
  <2>2. LongEnough(stream, n, width) => all >= m + RecoveryMargin
    BY <2>1 DEF LongEnough, MinRecoveryWindows
  <2> HIDE DEF all
  <2> QED
    BY <1>1, <2>2, WindowAssumption
<1>4. CrossWindows(stream, n, width) = Min({all, MaxCrossWindows})
  BY DEF CrossWindows
<1> HIDE DEF all
<1>5. Min({all, MaxCrossWindows}) \in {all, MaxCrossWindows}
  BY <1>1, <1>2 DEF Min
<1> QED
  BY <1>1, <1>2, <1>3, <1>4, <1>5 DEF all

Fractions == [good : Nat, total : Nat]

\* The satisfied share of a basis is a fraction of naturals.
LEMMA SatisfactionType ==
    ASSUME NEW n, NEW width, IsCode(n, width), NEW stream, Len(stream) \in Int,
           NEW basis \in Bases(width)
    PROVE  Satisfaction(stream, n, width, basis) \in Fractions
<1> DEFINE windows == CrossWindows(stream, n, width)
           last == LastRow(stream, n, width, basis, windows)
           cell == Cheapest(last, Indexes)
           total == windows * Cardinality(basis)
<1>1. width \in Nat /\ n \in Nat /\ windows \in Int /\ Cardinality(basis) \in Nat
  BY CrossWindowsFacts, BasesFacts DEF IsCode
<1>2. CASE windows < 1
  BY <1>2 DEF Satisfaction, Fractions, Fraction
<1>3. CASE ~(windows < 1)
  <2>1. Satisfaction(stream, n, width, basis) = [good |-> cell.good, total |-> total]
    BY <1>3 DEF Satisfaction, Fraction
  <2> HIDE DEF windows
  <2>2. windows \in Nat \ {0}
    BY <1>1, <1>3
  <2>3. total \in Nat
    BY <1>1, <2>2
  <2>4. last \in [Indexes -> Cells]
    BY <1>1, <2>2, LastRowTracks DEF Rows
  <2> HIDE DEF last, total
  <2>5. cell = NoPath \/ Picked(last, Indexes, cell)
    <3>1. Indexes \subseteq Nat /\ \A i \in Indexes : last[i] \in Cells
      BY <2>4, IndexesFit DEF IndexFacts
    <3> QED
      BY <3>1, CheapestFacts
  <2> HIDE DEF cell
  <2>6. cell.good \in Nat
    <3>1. CASE cell = NoPath
      BY <3>1 DEF NoPath
    <3>2. CASE Picked(last, Indexes, cell)
      <4>1. cell \in Cells /\ cell # NoPath
        BY <2>4, <3>2 DEF Picked
      <4> QED
        BY <4>1, LiveFacts
    <3> QED
      BY <2>5, <3>1, <3>2
  <2> QED
    BY <2>1, <2>3, <2>6 DEF Fractions
<1> QED
  BY <1>2, <1>3

\* What is recovered from a segment is a basis.
LEMMA RecoverSegmentType ==
    ASSUME NEW n, NEW width, IsCode(n, width), NEW stream, Len(stream) \in Int,
           NEW max \in Int
    PROVE  RecoverSegment(stream, n, width, max) \in Bases(width)
<1> DEFINE windows == Windows(stream, n, width, max)
           spectrum == Spectrum(windows, width)
<1>1. width \in Nat /\ width <= HardWindowCap
  BY DEF IsCode
<1>2. NullSpace(stream, n, width, max) \in Bases(width)
  BY NullSpaceFacts
<1>3. {} \in Bases(width)
  BY DEF Bases
<1>4. DualBasis(spectrum, Len(windows), width) \in Bases(width)
  <2> HIDE DEF spectrum
  <2>1. Ech(DualBasis(spectrum, Len(windows), width), width)
    BY <1>1, DualBasisFacts
  <2> QED
    BY <2>1 DEF Ech
<1> QED
  BY <1>2, <1>3, <1>4 DEF RecoverSegment

\* A candidate of the scan carries its own fit.
Candidates(stream, n, width) ==
    {b \in [basis : Bases(width), fit : Fractions] :
        b.basis # {} => b.fit = Satisfaction(stream, n, width, b.basis)}

LEMMA TryKeepsFit ==
    ASSUME NEW n, NEW width, IsCode(n, width), NEW stream \in Seq({0, 1}),
           NEW segment \in Nat, NEW best \in Candidates(stream, n, width)
    PROVE  Try(stream, n, width, segment, best) \in Candidates(stream, n, width)
<1> DEFINE length == SegmentWindows(width)
           start == segment * length * n
           rest == From(stream, start)
           candidate == RecoverSegment(rest, n, width, length)
           fit == Satisfaction(stream, n, width, candidate)
<1>1. length \in Nat /\ n \in Nat
  BY SegmentWindowsType DEF IsCode
<1>2. start \in Nat
  <2> HIDE DEF length
  <2>1. segment * length \in Nat
    BY <1>1
  <2> QED
    BY <1>1, <2>1
<1>3. Len(rest) \in Int
  <2> HIDE DEF start
  <2> QED
    BY <1>2, FromType
<1>4. candidate \in Bases(width)
  <2> HIDE DEF rest, length
  <2> QED
    BY <1>1, <1>3, RecoverSegmentType
<1>5. fit \in Fractions
  <2> HIDE DEF candidate
  <2>1. Len(stream) \in Int
    OBVIOUS
  <2> QED
    BY <1>4, <2>1, SatisfactionType
<1>6. Try(stream, n, width, segment, best)
          \in {best, [basis |-> candidate, fit |-> fit]}
  BY DEF Try, Keep
<1> HIDE DEF candidate
<1>7. [basis |-> candidate, fit |-> fit] \in Candidates(stream, n, width)
  <2> DEFINE kept == [basis |-> candidate, fit |-> fit]
  <2>1. kept.basis = candidate /\ kept.fit = Satisfaction(stream, n, width, candidate)
    OBVIOUS
  <2>2. kept \in [basis : Bases(width), fit : Fractions]
    <3> HIDE DEF fit
    <3> QED
      BY <1>4, <1>5
  <2> HIDE DEF kept
  <2> QED
    BY <2>1, <2>2 DEF Candidates
<1> QED
  BY <1>6, <1>7

LEMMA ScanIsChosen ==
    ASSUME NEW stream, NEW n, NEW width
    PROVE  LET last == Segments(stream, n, width, SegmentWindows(width))
           IN  Scan(stream, n, width) =
               (CHOOSE f : f = [s \in 0 .. last |->
                                   IF s = 0 THEN [basis |-> {}, fit |-> Fraction(0, 1)]
                                   ELSE Try(stream, n, width, s - 1, f[s - 1])])[last]
  BY DEF Scan

\* What the scan finds is a basis and the fit of that basis.
LEMMA ScanKeepsFit ==
    ASSUME NEW n, NEW width, IsCode(n, width), NEW stream \in Seq({0, 1})
    PROVE  Scan(stream, n, width) \in Candidates(stream, n, width)
<1> DEFINE N == Segments(stream, n, width, SegmentWindows(width))
           V == Candidates(stream, n, width)
           base == [basis |-> {}, fit |-> Fraction(0, 1)]
           step == [p \in (1 .. N) \X V |-> Try(stream, n, width, p[1] - 1, p[2])]
           Unfolds(f) == f = [s \in 0 .. N |->
                                 IF s = 0 THEN base
                                 ELSE Try(stream, n, width, s - 1, f[s - 1])]
           h == CHOOSE f : Unfolds(f)
<1>1. N \in Nat
  <2> DEFINE count == WindowCount(stream, n, width)
             need == MinRecoveryWindows(n, width)
  <2>1. SegmentWindows(width) \in Nat \ {0} /\ Len(stream) \in Int
    BY SegmentWindowsType
  <2>2. count \in Int
    BY <2>1, CrossWindowsFacts
  <2>3. need \in Int
    BY WindowAssumption DEF MinRecoveryWindows, IsCode
  <2>4. N = IF count < need THEN 0 ELSE (count - need) \div SegmentWindows(width) + 1
    BY DEF Segments
  <2> HIDE DEF N, count, need
  <2>5. CASE count < need
    BY <2>4, <2>5
  <2>6. CASE ~(count < need)
    <3> DEFINE i == count - need
               d == SegmentWindows(width)
    <3>1. i \in Nat /\ d \in Nat \ {0}
      BY <2>1, <2>2, <2>3, <2>6
    <3>2. N = i \div d + 1
      BY <2>4, <2>6
    <3> HIDE DEF i, d
    <3>3. i \div d \in Nat
      BY <3>1, QuotientIsNatural
    <3> QED
      BY <3>2, <3>3
  <2> QED
    BY <2>5, <2>6
<1>2. base \in V
  <2>1. base \in [basis : Bases(width), fit : Fractions]
    BY DEF Bases, Fractions, Fraction
  <2>2. base.basis = {}
    OBVIOUS
  <2> HIDE DEF base
  <2> QED
    BY <2>1, <2>2 DEF Candidates
<1> HIDE DEF N, V
<1>3. step \in [(1 .. N) \X V -> V]
  <2>1. \A p \in (1 .. N) \X V : p[1] - 1 \in Nat /\ p[2] \in V
    BY <1>1
  <2>2. \A p \in (1 .. N) \X V : Try(stream, n, width, p[1] - 1, p[2]) \in V
    BY <2>1, TryKeepsFit DEF V
  <2> QED
    BY <2>2
<1>4. PICK f \in [0 .. N -> V] : Solves(f, base, step, N)
  <2> HIDE DEF base, step
  <2> QED
    BY <1>1, <1>2, <1>3, RecursionExists
<1>5. ASSUME NEW s \in 0 .. N
      PROVE  f[s] = IF s = 0 THEN base ELSE Try(stream, n, width, s - 1, f[s - 1])
  <2>1. CASE s = 0
    BY <1>4, <2>1 DEF Solves
  <2>2. CASE s # 0
    <3>1. s \in 1 .. N /\ s - 1 \in 0 .. N
      BY <1>1, <2>2
    <3>2. f[s] = step[<<s, f[s - 1]>>]
      <4> HIDE DEF step, base
      <4> QED
        BY <1>4, <2>2 DEF Solves
    <3>3. f[s - 1] \in V
      BY <3>1
    <3> QED
      BY <2>2, <3>1, <3>2, <3>3
  <2> QED
    BY <2>1, <2>2
<1>6. Unfolds(f)
  <2>1. f = [s \in 0 .. N |-> f[s]]
    OBVIOUS
  <2>2. [s \in 0 .. N |-> f[s]]
           = [s \in 0 .. N |-> IF s = 0 THEN base
                               ELSE Try(stream, n, width, s - 1, f[s - 1])]
    BY <1>5, Zenon
  <2> QED
    BY <2>1, <2>2
<1>7. Unfolds(h)
  <2> HIDE DEF Unfolds
  <2> QED
    BY <1>6
<1>8. Scan(stream, n, width) = h[N]
  BY ScanIsChosen DEF N
<1> HIDE DEF h, base
<1>9. ASSUME NEW s \in 0 .. N
      PROVE  h[s] = IF s = 0 THEN base ELSE Try(stream, n, width, s - 1, h[s - 1])
  BY <1>7
<1> DEFINE T == {s \in 0 .. N : h[s] \in V}
<1>10. 0 \in T
  <2>1. 0 \in 0 .. N
    BY <1>1
  <2>2. h[0] = base
    BY <1>9, <2>1
  <2> QED
    BY <1>2, <2>1, <2>2
<1>11. ASSUME NEW k \in 1 .. N, k - 1 \in T PROVE k \in T
  <2>1. k \in 0 .. N /\ k # 0 /\ k - 1 \in Nat
    BY <1>1
  <2>2. h[k] = Try(stream, n, width, k - 1, h[k - 1])
    BY <1>9, <2>1
  <2>3. h[k - 1] \in V
    BY <1>11
  <2>4. Try(stream, n, width, k - 1, h[k - 1]) \in V
    BY <2>1, <2>3, TryKeepsFit DEF V
  <2> QED
    BY <2>1, <2>2, <2>4
<1>12. N \in T
  <2>1. 0 .. N \subseteq T
    <3> HIDE DEF T
    <3> QED
      BY <1>1, <1>10, <1>11, BoundedInduction
  <2> QED
    BY <1>1, <2>1
<1> QED
  BY <1>8, <1>12 DEF V

\* What is recovered of a stream is a basis; when it is one of checks, its own
\* stream satisfies them to 90 %.
LEMMA RecoverBasisFacts ==
    ASSUME NEW n, NEW width, IsCode(n, width), NEW stream \in Seq({0, 1})
    PROVE  /\ RecoverBasis(stream, n, width) \in Bases(width)
           /\ RecoverBasis(stream, n, width) # {} =>
                  AtLeast(Satisfaction(stream, n, width, RecoverBasis(stream, n, width)), 90)
<1> DEFINE found == Scan(stream, n, width)
<1>1. found \in Candidates(stream, n, width)
  BY ScanKeepsFit
<1>2. RecoverBasis(stream, n, width) = IF AtLeast(found.fit, 90) THEN found.basis ELSE {}
  BY DEF RecoverBasis
<1> HIDE DEF found
<1>3. /\ found.basis \in Bases(width)
      /\ found.basis # {} => found.fit = Satisfaction(stream, n, width, found.basis)
  BY <1>1 DEF Candidates
<1>4. {} \in Bases(width)
  BY DEF Bases
<1> QED
  BY <1>2, <1>3, <1>4

\* A sample compared with itself is undetermined or fits to 80 % at least, for
\* every code and every sample (compare.c:516-560).
THEOREM SelfComparisonFits == Spec => []OwnChecksHold
<1>1. CompareInv => OwnChecksHold
  <2> SUFFICES ASSUME Given, call.op = "compare", call.lhs = call.rhs,
                      result = IF Refused(call) THEN Undetermined ELSE Answer(call)
               PROVE  result = Undetermined \/ AtLeast(result, 80)
    BY DEF CompareInv, OwnChecksHold, Answered
  <2> DEFINE basis == RecoverBasis(call.lhs, call.n, Width)
             fit == Satisfaction(call.lhs, call.n, Width, basis)
             score == Rescaled(fit)
  <2>1. CASE Refused(call)
    BY <2>1
  <2>2. CASE ~Refused(call)
    <3>1. IsCode(call.n, Width) /\ call.lhs \in Seq({0, 1}) /\ Len(call.lhs) \in Int
      BY <2>2, AcceptedFacts
    <3>2. result = CompareResult(call.n, Width, call.lhs, call.lhs)
      BY <2>2 DEF Answer, Width
    <3>3. CASE basis = {}
      BY <3>2, <3>3 DEF CompareResult, CrossScore
    <3>4. CASE basis # {}
      <4>1. basis \in Bases(Width) /\ AtLeast(fit, 90)
        BY <3>1, <3>4, RecoverBasisFacts
      <4>2. result = Weaker(score, score)
        BY <3>2, <3>4 DEF CompareResult, CrossScore
      <4> HIDE DEF basis
      <4>3. fit \in Fractions
        BY <3>1, <4>1, SatisfactionType
      <4>4. result = score
        <5> HIDE DEF score
        <5> QED
          BY <4>2 DEF Weaker
      <4> HIDE DEF fit
      <4> DEFINE g == fit.good
                 t == fit.total
                 m == Max({0, 2 * g - t})
      <4>5. g \in Nat /\ t \in Nat /\ 100 * g >= 90 * t
        BY <4>1, <4>3 DEF Fractions, AtLeast
      <4>6. score = [good |-> m, total |-> t]
        BY DEF Rescaled, Fraction
      <4> HIDE DEF g, t
      <4>7. m \in Int /\ m >= 2 * g - t
        BY <4>5 DEF Max
      <4> HIDE DEF m
      <4>8. 100 * m >= 80 * t
        BY <4>5, <4>7
      <4> QED
        BY <4>4, <4>6, <4>8 DEF AtLeast
    <3> QED
      BY <3>3, <3>4
  <2> QED
    BY <2>1, <2>2
<1> QED
  BY <1>1, AnswersAreComputed, PTL

\* A path costs a natural number.
LEMMA CostType ==
    ASSUME NEW width \in Nat, NEW basis \in Bases(width), NEW stream, NEW n,
           NEW m \in Nat, NEW path \in [1 .. m -> Offsets]
    PROVE  CostOf(path, stream, n, width, basis) \in Nat
<1> DEFINE f == CostAt(stream, n, width, basis, path)
           S == 1 .. m
<1>1. f \in [S -> Nat] /\ DOMAIN path = S
  BY AtTypes
<1>2. IsFiniteSet(S) /\ S \in SUBSET S
  BY FS_Interval
<1>3. CostOf(path, stream, n, width, basis) = SumOf(f, S)
  BY <1>1, CostOfIs
<1> HIDE DEF f, S
<1>4. SumOf(f, S) \in Nat
  BY <1>1, <1>2, SumIsNumber
<1> QED
  BY <1>3, <1>4

\* A path that costs least, and satisfies `good` checks.
Shows(stream, n, width, basis, windows, good) ==
    \E p \in Paths(stream, n, width, windows) :
        /\ CostOf(p, stream, n, width, basis) \in Nat
        /\ GoodOf(p, stream, n, width, basis) = good
        /\ \A q \in Paths(stream, n, width, windows) :
               CostOf(p, stream, n, width, basis) <= CostOf(q, stream, n, width, basis)

\* The frame that never slips stays within the stream.
LEMMA StraightPath ==
    ASSUME NEW n, NEW width, IsCode(n, width), NEW stream, Len(stream) \in Int,
           NEW windows \in Nat \ {0}, windows <= WindowCount(stream, n, width)
    PROVE  Paths(stream, n, width, windows) # {}
<1> DEFINE path == [w \in 1 .. windows |-> 0]
           room == Len(stream) - width
           q == room \div n
<1>1. n \in Nat \ {0} /\ width \in Nat /\ room \in Int
  BY DEF IsCode
<1>2. windows <= q + 1
  BY DEF WindowCount
<1> HIDE DEF room
<1>3. q \in Int /\ room % n \in 0 .. (n - 1) /\ room = n * q + (room % n)
  BY <1>1, DivisionFacts
<1> HIDE DEF q
<1>4. ASSUME NEW w \in 1 .. windows
      PROVE  Fits(stream, (w - 1) * n + path[w], width)
  <2> DEFINE a == w - 1
             x == a * n
  <2>1. a \in Nat /\ q - a \in Nat
    BY <1>2, <1>3
  <2> HIDE DEF a
  <2>2. x \in Nat /\ n * (q - a) \in Nat
    BY <1>1, <2>1
  <2>3. n * (q - a) = n * q - x
    BY <1>1, <1>3, <2>1
  <2> DEFINE y == n * q
             r == room % n
  <2>4. y \in Int /\ r \in Nat /\ room = y + r
    BY <1>1, <1>3
  <2>5. n * (q - a) = y - x
    BY <2>3
  <2> HIDE DEF y, r, x
  <2>6. x <= y
    BY <2>2, <2>4, <2>5
  <2>7. x <= room
    BY <2>2, <2>4, <2>6
  <2>8. x + width <= Len(stream)
    BY <1>1, <2>2, <2>7 DEF room
  <2>9. path[w] = 0 /\ x + 0 = x
    BY <2>2
  <2> HIDE DEF path
  <2>10. Fits(stream, x + path[w], width)
    BY <2>2, <2>8, <2>9 DEF Fits
  <2> QED
    BY <2>10 DEF x, a
<1>5. 0 \in -MaxCumulativeDrift .. MaxCumulativeDrift /\ 0 \in 0 .. MaxDrift
  BY DriftAssumption
<1>6. path \in [1 .. windows -> -MaxCumulativeDrift .. MaxCumulativeDrift]
  BY <1>5
<1>7. path[1] \in 0 .. MaxDrift /\ \A w \in 2 .. windows : path[w] - path[w - 1] \in {-1, 0, 1}
  BY <1>5
<1> HIDE DEF path
<1>8. path \in Paths(stream, n, width, windows)
  BY <1>4, <1>6, <1>7 DEF Paths
<1> QED
  BY <1>8

\* The cell that the search returns is that of a cheapest path.
LEMMA SearchIsCheapest ==
    ASSUME NEW width \in Nat, NEW basis \in Bases(width), NEW stream, NEW n \in Nat,
           NEW windows \in Nat \ {0}, Paths(stream, n, width, windows) # {}
    PROVE  Shows(stream, n, width, basis, windows,
                 Cheapest(LastRow(stream, n, width, basis, windows), Indexes).good)
<1> DEFINE row == LastRow(stream, n, width, basis, windows)
           cell == Cheapest(row, Indexes)
           cost(p) == CostOf(p, stream, n, width, basis)
           good(p) == GoodOf(p, stream, n, width, basis)
           paths == Paths(stream, n, width, windows)
           To(j) == PathsTo(stream, n, width, windows, j)
<1>1. row \in [Indexes -> Cells] /\ RowTracks(row, stream, n, width, basis, windows)
  BY LastRowTracks DEF Rows
<1> HIDE DEF row
<1>2. ASSUME NEW j \in Indexes
      PROVE  /\ To(j) = {} => row[j] = NoPath
             /\ To(j) # {} => /\ row[j] \in Live /\ row[j] # NoPath
                              /\ \E q \in To(j) : cost(q) = row[j].cost /\ good(q) = row[j].good
                              /\ \A q \in To(j) : row[j].cost <= cost(q)
  <2>1. CellTracks(row[j], stream, n, width, basis, windows, j)
    BY <1>1 DEF RowTracks
  <2>2. ~(NoPath \in Live)
    BY DEF NoPath, Live
  <2> QED
    BY <2>1, <2>2 DEF CellTracks
<1>3. \A p \in paths : \E j \in Indexes : p \in To(j)
  <2> SUFFICES ASSUME NEW p \in paths PROVE \E j \in Indexes : p \in To(j)
    OBVIOUS
  <2> DEFINE j == p[windows] + 1 + MaxCumulativeDrift
  <2>1. p[windows] \in -MaxCumulativeDrift .. MaxCumulativeDrift
    <3>1. windows \in 1 .. windows
      OBVIOUS
    <3>2. p \in [1 .. windows -> -MaxCumulativeDrift .. MaxCumulativeDrift]
      BY DEF Paths
    <3> QED
      BY <3>1, <3>2
  <2>2. j \in Indexes /\ Offset(j) = p[windows]
    BY <2>1, IndexesFit DEF IndexFacts
  <2> HIDE DEF j
  <2> QED
    BY <2>2 DEF PathsTo
<1>4. \A j \in Indexes : To(j) \subseteq paths
  BY DEF PathsTo
<1> HIDE DEF cost, good, paths, To
<1>5. Picked(row, Indexes, cell)
  <2>1. PICK p \in paths : TRUE
    BY DEF paths
  <2>2. PICK j \in Indexes : p \in To(j)
    BY <1>3
  <2>3. row[j] # NoPath
    BY <1>2, <2>2
  <2>4. Indexes \subseteq Nat /\ \A i \in Indexes : row[i] \in Cells
    BY <1>1, IndexesFit DEF IndexFacts
  <2> QED
    BY <2>3, <2>4, CheapestFacts
<1> HIDE DEF cell
<1>6. PICK i \in Indexes : /\ cell = row[i] /\ row[i] # NoPath
                           /\ \A j \in Indexes : row[j] # NoPath => row[i].cost <= row[j].cost
  BY <1>5 DEF Picked
<1>7. To(i) # {}
  BY <1>2, <1>6
<1>8. PICK p \in To(i) : cost(p) = row[i].cost /\ good(p) = row[i].good
  BY <1>2, <1>7
<1>9. cost(p) \in Nat
  BY <1>2, <1>7, <1>8, LiveFacts
<1>10. \A q \in paths : cost(p) <= cost(q)
  <2> SUFFICES ASSUME NEW q \in paths PROVE cost(p) <= cost(q)
    OBVIOUS
  <2>1. PICK j \in Indexes : q \in To(j)
    BY <1>3
  <2>2. row[j] \in Live /\ row[j] # NoPath
    BY <1>2, <2>1
  <2>3. PICK r \in To(j) : cost(r) = row[j].cost
    BY <1>2, <2>1
  <2>4. row[j].cost <= cost(q)
    BY <1>2, <2>1
  <2>5. row[j].cost \in Nat /\ row[i].cost <= row[j].cost
    BY <1>6, <2>2, LiveFacts
  <2>6. cost(q) \in Int
    <3>1. q \in paths
      OBVIOUS
    <3>2. q \in [1 .. windows -> Offsets]
      BY <3>1 DEF paths, Paths, Offsets
    <3> QED
      BY <3>2, CostType DEF cost
  <2> QED
    BY <1>8, <1>9, <2>4, <2>5, <2>6
<1>11. p \in paths
  BY <1>4, <1>8
<1> QED
  BY <1>6, <1>8, <1>9, <1>10, <1>11 DEF Shows, cost, good, paths, cell, row

\* The search of the framing offset returns what a cheapest path satisfies,
\* for every code, every stream and the bases it is run with
\* (compare.c:384-478).
THEOREM SearchFindsACheapestPath == Spec => []OffsetPathIsCheapest
<1>1. CompareInv => OffsetPathIsCheapest
  <2> DEFINE windows == CrossWindows(call.lhs, call.n, Width)
             paths == Paths(call.lhs, call.n, Width, windows)
             tried == {RecoverBasis(call.lhs, call.n, Width)}
                          \cup {{{b, Width - 1}} : b \in Bits(Width)}
  <2> SUFFICES ASSUME Given, ~Refused(call), NEW basis \in tried
               PROVE  LET cost == [p \in paths |-> CostOf(p, call.lhs, call.n, Width, basis)]
                          least == Min({cost[p] : p \in paths})
                      IN  \E p \in paths :
                              /\ cost[p] = least
                              /\ GoodOf(p, call.lhs, call.n, Width, basis)
                                     = Satisfaction(call.lhs, call.n, Width, basis).good
    BY DEF CompareInv, OffsetPathIsCheapest, Answered
  <2> DEFINE cost == [p \in paths |-> CostOf(p, call.lhs, call.n, Width, basis)]
             last == LastRow(call.lhs, call.n, Width, basis, windows)
             good == Satisfaction(call.lhs, call.n, Width, basis).good
  <2>1. /\ IsCode(call.n, Width) /\ call.lhs \in Seq({0, 1}) /\ Len(call.lhs) \in Int
        /\ LongEnough(call.lhs, call.n, Width)
    BY AcceptedFacts
  <2>2. Width \in Nat \ {0} /\ call.n \in Nat
    BY <2>1 DEF IsCode
  <2>3. windows \in Nat \ {0} /\ windows <= WindowCount(call.lhs, call.n, Width)
    <3>1. /\ windows \in Int /\ windows >= 1
          /\ WindowCount(call.lhs, call.n, Width) \in Int
      BY <2>1, CrossWindowsFacts
    <3> DEFINE all == WindowCount(call.lhs, call.n, Width)
    <3>2. windows = Min({all, MaxCrossWindows})
      BY DEF CrossWindows
    <3>3. all \in Int /\ MaxCrossWindows \in Int
      BY <3>1, DriftAssumption
    <3> HIDE DEF all
    <3>4. Min({all, MaxCrossWindows}) <= all
      BY <3>3 DEF Min
    <3> HIDE DEF windows
    <3> QED
      BY <3>1, <3>2, <3>4 DEF all
  <2>4. basis \in Bases(Width)
    <3>1. RecoverBasis(call.lhs, call.n, Width) \in Bases(Width)
      BY <2>1, RecoverBasisFacts
    <3>2. \A b \in Bits(Width) : {{b, Width - 1}} \in Bases(Width)
      BY <2>2 DEF Bases, Vectors, Bits
    <3> QED
      BY <3>1, <3>2
  <2>5. good = Cheapest(last, Indexes).good
    <3>1. ~(windows < 1)
      BY <2>3
    <3> QED
      BY <3>1 DEF Satisfaction, Fraction
  <2> HIDE DEF windows, tried
  <2>6. paths # {}
    BY <2>1, <2>3, StraightPath
  <2>7. Shows(call.lhs, call.n, Width, basis, windows, good)
    BY <2>2, <2>3, <2>4, <2>5, <2>6, SearchIsCheapest
  <2> HIDE DEF good
  <2>8. PICK p \in paths :
          /\ CostOf(p, call.lhs, call.n, Width, basis) \in Nat
          /\ GoodOf(p, call.lhs, call.n, Width, basis) = good
          /\ \A q \in paths : CostOf(p, call.lhs, call.n, Width, basis)
                                  <= CostOf(q, call.lhs, call.n, Width, basis)
    BY <2>7 DEF Shows
  <2> HIDE DEF paths
  <2>9. /\ cost[p] \in Nat
        /\ \A q \in paths : cost[p] <= cost[q]
    BY <2>8
  <2>10. \A q \in paths : cost[q] \in Nat
    <3> SUFFICES ASSUME NEW q \in paths PROVE cost[q] \in Nat
      OBVIOUS
    <3>1. q \in [1 .. windows -> Offsets] /\ windows \in Nat
      BY <2>3 DEF paths, Paths, Offsets
    <3>2. CostOf(q, call.lhs, call.n, Width, basis) \in Nat
      BY <2>2, <2>4, <3>1, CostType
    <3> QED
      BY <3>2
  <2> DEFINE costs == {cost[q] : q \in paths}
             least == Min(costs)
  <2>11. cost[p] = least
    <3> HIDE DEF cost
    <3>1. cost[p] \in costs /\ costs \subseteq Nat /\ \A x \in costs : cost[p] <= x
      BY <2>9, <2>10
    <3> HIDE DEF costs
    <3>2. least \in costs /\ \A x \in costs : least <= x
      BY <3>1 DEF Min
    <3> HIDE DEF least
    <3>3. cost[p] \in Nat /\ least \in Nat
      BY <3>1, <3>2
    <3>4. least <= cost[p] /\ cost[p] <= least
      BY <3>1, <3>2
    <3> QED
      BY <3>3, <3>4
  <2> QED
    BY <2>8, <2>11 DEF good
<1> QED
  BY <1>1, AnswersAreComputed, PTL

----------------------------------------------------------------------------
(* The sequential test.                                                     *)

\* The sum before window w is the most that a run of windows up to there
\* carries, or nothing.
RunsTo(sum, evidence, w) ==
    /\ sum[w] \in Nat
    /\ \A i \in 0 .. (w - 1) : /\ SumOf(evidence, i .. (w - 1)) \in Int
                               /\ SumOf(evidence, i .. (w - 1)) <= sum[w]
    /\ sum[w] = 0 \/ \E i \in 0 .. (w - 1) : sum[w] = SumOf(evidence, i .. (w - 1))

LEMMA AccumulateIs ==
    ASSUME NEW a \in Int, NEW b \in Int
    PROVE  Accumulate(a, b) = IF a + b >= 0 THEN a + b ELSE 0
<1> DEFINE c == a + b
<1>1. c \in Int
  OBVIOUS
<1> HIDE DEF c
<1>2. Max({0, c}) = IF c >= 0 THEN c ELSE 0
  BY <1>1 DEF Max
<1> QED
  BY <1>2 DEF Accumulate, c

LEMMA SumToLater ==
    ASSUME NEW N \in Nat, NEW e \in [0 .. (N - 1) -> Int], NEW j \in 0 .. (N - 1),
           NEW i \in 0 .. j
    PROVE  /\ SumOf(e, i .. (j - 1)) \in Int
           /\ SumOf(e, i .. j) = e[j] + SumOf(e, i .. (j - 1))
           /\ i = j => SumOf(e, i .. j) = e[j]
<1> DEFINE S == 0 .. (N - 1)
           R == i .. (j - 1)
<1>1. IsFiniteSet(S)
  BY FS_Interval
<1>2. R \in SUBSET S /\ j \in S \ R /\ i .. j = R \cup {j} /\ Int \in {Nat, Int}
  OBVIOUS
<1>3. i = j => R = {}
  OBVIOUS
<1> HIDE DEF S, R
<1>4. e \in [S -> Int] /\ e[j] \in Int
  BY <1>2 DEF S
<1>5. SumOf(e, R) \in Int
  BY <1>1, <1>2, <1>4, SumIsNumber
<1>6. SumOf(e, R \cup {j}) = e[j] + SumOf(e, R)
  BY <1>1, <1>2, <1>4, SumAdds
<1>7. R = {} => SumOf(e, R) = 0
  <2>1. SumOf(e, {}) = 0
    BY <1>1, <1>2, <1>4, SumOfNone
  <2> QED
    BY <2>1
<1>8. i = j => SumOf(e, R \cup {j}) = e[j]
  BY <1>3, <1>4, <1>6, <1>7
<1> QED
  BY <1>2, <1>5, <1>6, <1>8 DEF R

LEMMA CusumRuns ==
    ASSUME NEW N \in Nat, NEW e \in [0 .. (N - 1) -> Int], NEW sum, sum[0] = 0,
           \A w \in 1 .. N : sum[w] = Accumulate(sum[w - 1], e[w - 1])
    PROVE  \A w \in 0 .. N : RunsTo(sum, e, w)
<1> DEFINE T == {w \in 0 .. N : RunsTo(sum, e, w)}
<1>1. 0 \in T
  <2>1. 0 \in 0 .. N /\ 0 .. (0 - 1) = {}
    OBVIOUS
  <2> QED
    BY <2>1 DEF RunsTo
<1>2. ASSUME NEW w \in 1 .. N, w - 1 \in T PROVE w \in T
  <2> DEFINE j == w - 1
             s == sum[j]
             x == e[j]
             To(i, k) == SumOf(e, i .. k)
  <2>1. j \in 0 .. (N - 1) /\ j \in Nat /\ w \in 0 .. N
    OBVIOUS
  <2>2. RunsTo(sum, e, j)
    BY <1>2
  <2>3. x \in Int
    BY <2>1
  <2>4. sum[w] = Accumulate(s, x)
    OBVIOUS
  <2> HIDE DEF j
  <2>5. s \in Nat
    BY <2>2 DEF RunsTo
  <2>6. ASSUME NEW i \in 0 .. (j - 1)
        PROVE  /\ To(i, j - 1) \in Int /\ To(i, j - 1) <= s
               /\ To(i, j) = x + To(i, j - 1)
    <3>1. i \in 0 .. j
      BY <2>1
    <3>2. To(i, j) = x + To(i, j - 1)
      BY <2>1, <3>1, SumToLater, ZenonT(30)
    <3> QED
      BY <2>2, <3>2 DEF RunsTo
  <2>7. To(j, j) = x
    <3>1. j \in 0 .. j
      BY <2>1
    <3> QED
      BY <2>1, <3>1, SumToLater
  <2>8. s = 0 \/ \E i \in 0 .. (j - 1) : s = To(i, j - 1)
    BY <2>2 DEF RunsTo
  <2> HIDE DEF s, x, To
  <2>9. sum[w] = IF s + x >= 0 THEN s + x ELSE 0
    BY <2>3, <2>4, <2>5, AccumulateIs
  <2>10. sum[w] \in Nat /\ sum[w] >= s + x
    BY <2>3, <2>5, <2>9
  <2>11. ASSUME NEW i \in 0 .. j
         PROVE  To(i, j) \in Int /\ To(i, j) <= sum[w]
    <3>1. CASE i = j
      BY <2>3, <2>5, <2>7, <2>10, <3>1
    <3>2. CASE i # j
      <4>1. i \in 0 .. (j - 1)
        BY <2>1, <3>2
      <4> QED
        BY <2>3, <2>5, <2>6, <2>10, <4>1
    <3> QED
      BY <3>1, <3>2
  <2>12. sum[w] = 0 \/ \E i \in 0 .. j : sum[w] = To(i, j)
    <3>1. SUFFICES ASSUME sum[w] # 0 PROVE \E i \in 0 .. j : sum[w] = To(i, j)
      OBVIOUS
    <3>2. sum[w] = s + x
      BY <2>9, <3>1
    <3>3. CASE s = 0
      <4>1. sum[w] = To(j, j) /\ j \in 0 .. j
        BY <2>1, <2>3, <2>7, <3>2, <3>3
      <4> QED
        BY <4>1
    <3>4. CASE s # 0
      <4>1. PICK i \in 0 .. (j - 1) : s = To(i, j - 1)
        BY <2>8, <3>4
      <4>2. To(i, j) = x + s /\ i \in 0 .. j
        BY <2>1, <2>6, <4>1
      <4>3. sum[w] = To(i, j)
        BY <2>3, <2>5, <3>2, <4>2
      <4> QED
        BY <4>2, <4>3
    <3> QED
      BY <3>3, <3>4
  <2>13. RunsTo(sum, e, w)
    BY <2>10, <2>11, <2>12 DEF RunsTo, To, j
  <2> QED
    BY <2>1, <2>13
<1>3. 0 .. N \subseteq T
  <2> HIDE DEF T
  <2> QED
    BY <1>1, <1>2, BoundedInduction
<1> QED
  BY <1>3

\* The evidence of each window of the steering phase.
Weighed(stream, n, width, steering, N) ==
    [w \in 0 .. (N - 1) |->
        Evidence(stream, width, steering.basis, steering.phase + w * n)]

LEMMA EvidenceType ==
    ASSUME NEW width \in Nat, NEW basis \in Bases(width), NEW stream, NEW position
    PROVE  Evidence(stream, width, basis, position) \in Int
<1> DEFINE g == Good(stream, position, width, basis)
           d == Cardinality(basis)
<1>1. d \in Nat /\ g \in 0 .. d
  BY GoodFacts
<1>2. Evidence(stream, width, basis, position) = g * LogSatisfied + (d - g) * LogViolated
  BY DEF Evidence
<1> HIDE DEF g, d
<1>3. LogSatisfied \in Int /\ LogViolated \in Int
  BY DEF LogSatisfied, LogViolated
<1> QED
  BY <1>1, <1>2, <1>3

LEMMA CusumIsChosen ==
    ASSUME NEW stream, NEW n, NEW width, NEW steering
    PROVE  Cusum(stream, n, width, steering) =
               (CHOOSE f : f =
                   [w \in 0 .. WindowCount(From(stream, steering.phase), n, width) |->
                       IF w = 0 THEN 0
                       ELSE Accumulate(f[w - 1], Evidence(stream, width, steering.basis,
                                                 steering.phase + (w - 1) * n))])
  BY DEF Cusum

\* The sums that the test goes through.
CusumChain(sum, evidence, N) ==
    /\ DOMAIN sum = 0 .. N
    /\ N >= 0 => sum[0] = 0
    /\ \A w \in 1 .. N : sum[w] = Accumulate(sum[w - 1], evidence[w - 1])

LEMMA CusumSteps ==
    ASSUME NEW width \in Nat, NEW stream, NEW n, NEW steering,
           steering.basis \in Bases(width), NEW N \in Int,
           N = WindowCount(From(stream, steering.phase), n, width)
    PROVE  CusumChain(Cusum(stream, n, width, steering),
                      Weighed(stream, n, width, steering, N), N)
<1> DEFINE e == Weighed(stream, n, width, steering, N)
           weight(w) == Evidence(stream, width, steering.basis, steering.phase + (w - 1) * n)
           step == [p \in (1 .. N) \X Int |-> Accumulate(p[2], e[p[1] - 1])]
           Unfolds(f) == f = [w \in 0 .. N |->
                                 IF w = 0 THEN 0 ELSE Accumulate(f[w - 1], weight(w))]
           h == CHOOSE f : Unfolds(f)
<1>1. ASSUME NEW w \in 1 .. N
      PROVE  weight(w) = e[w - 1] /\ e[w - 1] \in Int
  <2>1. w - 1 \in 0 .. (N - 1)
    OBVIOUS
  <2>2. weight(w) = e[w - 1]
    BY <2>1 DEF Weighed
  <2>3. weight(w) \in Int
    <3> DEFINE x == steering.phase + (w - 1) * n
    <3> HIDE DEF x
    <3>1. Evidence(stream, width, steering.basis, x) \in Int
      BY EvidenceType
    <3> QED
      BY <3>1 DEF x
  <2> QED
    BY <2>2, <2>3
<1> HIDE DEF e, weight
<1>2. \E f : Unfolds(f)
  <2>1. CASE N < 0
    <3> DEFINE f == [w \in 0 .. N |-> 0]
    <3>1. 0 .. N = {}
      BY <2>1
    <3>2. Unfolds(f)
      BY <3>1
    <3> HIDE DEF Unfolds, f
    <3> QED
      BY <3>2
  <2>2. CASE N >= 0
    <3>1. N \in Nat
      BY <2>2
    <3>2. step \in [(1 .. N) \X Int -> Int]
      <4>1. \A p \in (1 .. N) \X Int : p[2] \in Int /\ e[p[1] - 1] \in Int
        BY <1>1
      <4>2. ASSUME NEW a \in Int, NEW b \in Int PROVE Accumulate(a, b) \in Int
        <5>1. Accumulate(a, b) = IF a + b >= 0 THEN a + b ELSE 0
          BY AccumulateIs
        <5> QED
          BY <5>1
      <4>3. \A p \in (1 .. N) \X Int : Accumulate(p[2], e[p[1] - 1]) \in Int
        BY <4>1, <4>2
      <4> QED
        BY <4>3
    <3>3. PICK f \in [0 .. N -> Int] : Solves(f, 0, step, N)
      <4> DEFINE V == Int
                 base == 0
      <4>1. base \in V /\ step \in [(1 .. N) \X V -> V]
        BY <3>2
      <4> HIDE DEF step, V, base
      <4>2. \E f \in [0 .. N -> V] : Solves(f, base, step, N)
        BY <3>1, <4>1, RecursionExists
      <4> QED
        BY <4>2 DEF V, base
    <3>4. ASSUME NEW w \in 0 .. N
          PROVE  f[w] = IF w = 0 THEN 0 ELSE Accumulate(f[w - 1], weight(w))
      <4>1. CASE w = 0
        BY <3>3, <4>1 DEF Solves
      <4>2. CASE w # 0
        <5>1. w \in 1 .. N /\ w - 1 \in 0 .. N
          BY <4>2
        <5>2. f[w] = step[<<w, f[w - 1]>>]
          <6> HIDE DEF step
          <6> QED
            BY <3>3, <4>2 DEF Solves
        <5>3. f[w - 1] \in Int
          BY <5>1
        <5>4. f[w] = Accumulate(f[w - 1], e[w - 1])
          BY <5>1, <5>2, <5>3
        <5> QED
          BY <1>1, <4>2, <5>1, <5>4
      <4> QED
        BY <4>1, <4>2
    <3>5. f = [w \in 0 .. N |-> f[w]]
      OBVIOUS
    <3>6. [w \in 0 .. N |-> f[w]]
             = [w \in 0 .. N |-> IF w = 0 THEN 0 ELSE Accumulate(f[w - 1], weight(w))]
      BY <3>4, Zenon
    <3>7. Unfolds(f)
      BY <3>5, <3>6
    <3> HIDE DEF Unfolds
    <3> QED
      BY <3>7
  <2> QED
    BY <2>1, <2>2
<1>3. Unfolds(h)
  <2> HIDE DEF Unfolds
  <2> QED
    BY <1>2
<1>4. Cusum(stream, n, width, steering) = h
  BY CusumIsChosen DEF weight
<1> HIDE DEF h
<1>5. DOMAIN h = 0 .. N
  BY <1>3
<1>6. ASSUME NEW w \in 0 .. N
      PROVE  h[w] = IF w = 0 THEN 0 ELSE Accumulate(h[w - 1], weight(w))
  BY <1>3
<1>7. N >= 0 => h[0] = 0
  BY <1>6
<1>8. ASSUME NEW w \in 1 .. N PROVE h[w] = Accumulate(h[w - 1], e[w - 1])
  <2>1. w \in 0 .. N /\ w # 0
    OBVIOUS
  <2> QED
    BY <1>1, <1>6, <2>1
<1>9. CusumChain(h, e, N)
  BY <1>5, <1>7, <1>8 DEF CusumChain
<1> QED
  BY <1>4, <1>9 DEF e

\* The least of a set of naturals, whichever way it is known.
LEMMA LeastIs ==
    ASSUME NEW S, S \subseteq Nat, NEW m \in S, \A x \in S : m <= x
    PROVE  Min(S) = m
<1>1. Min(S) \in S /\ \A x \in S : Min(S) <= x
  BY DEF Min
<1> DEFINE k == Min(S)
<1>2. k \in Nat /\ m \in Nat /\ k <= m /\ m <= k
  BY <1>1
<1> HIDE DEF k
<1> QED
  BY <1>2 DEF k

LEMMA SumOnSetIs ==
    ASSUME NEW f, NEW S PROVE SumFunctionOnSet(f, S) = SumOf(f, S)
  BY DEF SumFunctionOnSet, FoldFunctionOnSet, SumOf, MapThenSumSet

\* The windows that end a run over the threshold.
Reaching(evidence, N) ==
    {j \in 0 .. (N - 1) : \E i \in 0 .. j : SumOf(evidence, i .. j) >= Threshold}

LEMMA ReachedAfterReaching ==
    ASSUME NEW N \in Int, NEW e \in [0 .. (N - 1) -> Int], NEW sum, CusumChain(sum, e, N),
           NEW w
    PROVE  w \in DOMAIN sum /\ sum[w] >= Threshold
               <=> w \in 1 .. N /\ w - 1 \in Reaching(e, N)
<1>1. DOMAIN sum = 0 .. N
  BY DEF CusumChain
<1>2. CASE ~(w \in 0 .. N)
  <2>1. ~(w \in 1 .. N)
    BY <1>2
  <2> QED
    BY <1>1, <1>2, <2>1
<1>3. CASE w \in 0 .. N
  <2>1. N \in Nat
    BY <1>3
  <2>2. RunsTo(sum, e, w)
    <3>1. sum[0] = 0 /\ \A v \in 1 .. N : sum[v] = Accumulate(sum[v - 1], e[v - 1])
      BY <2>1 DEF CusumChain
    <3> QED
      BY <1>3, <2>1, <3>1, CusumRuns
  <2>3. sum[w] \in Nat
    BY <2>2 DEF RunsTo
  <2>4. CASE w = 0
    <3>1. sum[w] = 0
      BY <2>1, <2>4 DEF CusumChain
    <3> QED
      BY <2>4, <3>1 DEF Threshold
  <2>5. CASE w # 0
    <3> DEFINE j == w - 1
               To(i) == SumOf(e, i .. j)
    <3>1. w \in 1 .. N /\ j \in 0 .. (N - 1)
      BY <1>3, <2>5
    <3>2. /\ \A i \in 0 .. j : To(i) \in Int /\ To(i) <= sum[w]
          /\ sum[w] = 0 \/ \E i \in 0 .. j : sum[w] = To(i)
      BY <2>2 DEF RunsTo
    <3>3. j \in Reaching(e, N) <=> \E i \in 0 .. j : To(i) >= Threshold
      BY <3>1 DEF Reaching
    <3> HIDE DEF To, j
    <3>4. Threshold \in Nat /\ Threshold > 0
      BY DEF Threshold
    <3>5. sum[w] >= Threshold <=> \E i \in 0 .. j : To(i) >= Threshold
      BY <2>3, <3>2, <3>4
    <3> QED
      BY <1>1, <1>3, <3>1, <3>3, <3>5 DEF j
  <2> QED
    BY <2>4, <2>5
<1> QED
  BY <1>2, <1>3

LEMMA DeclaredIsFirst ==
    ASSUME NEW width \in Nat, NEW stream, NEW n, NEW steering,
           steering.basis \in Bases(width),
           WindowCount(From(stream, steering.phase), n, width) \in Int
    PROVE  Declared(stream, n, width, steering) = FirstEvidence(stream, n, width, steering)
<1> DEFINE N == WindowCount(From(stream, steering.phase), n, width)
           e == Weighed(stream, n, width, steering, N)
           sum == Cusum(stream, n, width, steering)
           reached == {w \in DOMAIN sum : sum[w] >= Threshold}
           reaching == Reaching(e, N)
<1>1. CusumChain(sum, e, N)
  BY CusumSteps
<1>2. e \in [0 .. (N - 1) -> Int]
  <2>1. \A w \in 0 .. (N - 1) :
           Evidence(stream, width, steering.basis, steering.phase + w * n) \in Int
    BY EvidenceType
  <2> QED
    BY <2>1 DEF Weighed
<1>3. Declared(stream, n, width, steering)
         = IF steering.basis = {} \/ reached = {} THEN -1
           ELSE steering.phase + (Min(reached) - 1) * n
  BY DEF Declared
<1>4. FirstEvidence(stream, n, width, steering)
         = IF steering.basis = {} \/ reaching = {} THEN -1
           ELSE steering.phase + Min(reaching) * n
  <2> DEFINE found == {j \in 0 .. (N - 1) :
                          \E i \in 0 .. j : SumFunctionOnSet(e, i .. j) >= Threshold}
  <2>1. FirstEvidence(stream, n, width, steering)
           = IF steering.basis = {} \/ found = {} THEN -1
             ELSE steering.phase + Min(found) * n
    BY DEF FirstEvidence, Weighed
  <2>2. found = reaching
    <3> HIDE DEF e, N
    <3> QED
      BY SumOnSetIs DEF Reaching
  <2> HIDE DEF found
  <2> QED
    BY <2>1, <2>2
<1> HIDE DEF N, e, sum
<1>5. \A w : w \in reached <=> w \in 1 .. N /\ w - 1 \in reaching
  <2> SUFFICES ASSUME NEW w PROVE w \in reached <=> w \in 1 .. N /\ w - 1 \in reaching
    OBVIOUS
  <2>1. N \in Int
    BY DEF N
  <2> HIDE DEF reaching
  <2>2. w \in DOMAIN sum /\ sum[w] >= Threshold <=> w \in 1 .. N /\ w - 1 \in reaching
    BY <1>1, <1>2, <2>1, ReachedAfterReaching DEF reaching
  <2> QED
    BY <2>2
<1>6. reaching \subseteq 0 .. (N - 1) /\ N \in Int
  BY DEF Reaching, N
<1> HIDE DEF reached, reaching
<1>7. reached # {} <=> reaching # {}
  <2>1. ASSUME NEW j \in reaching PROVE j + 1 \in reached
    <3>1. j + 1 \in 1 .. N /\ (j + 1) - 1 = j
      BY <1>6
    <3> QED
      BY <1>5, <3>1
  <2> QED
    BY <1>5, <2>1
<1>8. ASSUME reached # {} PROVE Min(reached) - 1 = Min(reaching)
  <2>1. reached \subseteq Nat
    BY <1>5, <1>6
  <2>2. PICK m \in reached : \A x \in reached : m <= x
    BY <1>8, <2>1, LeastExists
  <2>3. m \in 1 .. N /\ m - 1 \in reaching
    BY <1>5
  <2>4. \A j \in reaching : m - 1 <= j
    <3> SUFFICES ASSUME NEW j \in reaching PROVE m - 1 <= j
      OBVIOUS
    <3>1. j \in Int /\ j + 1 \in 1 .. N /\ (j + 1) - 1 = j
      BY <1>6
    <3>2. j + 1 \in reached
      BY <1>5, <3>1
    <3>3. m <= j + 1
      BY <2>2, <3>2
    <3> QED
      BY <2>3, <3>1, <3>3
  <2>5. reaching \subseteq Nat
    BY <1>6
  <2> DEFINE k == m - 1
  <2>6. k \in reaching /\ \A j \in reaching : k <= j
    BY <2>3, <2>4
  <2> HIDE DEF k
  <2>7. Min(reaching) = k
    BY <2>5, <2>6, LeastIs
  <2>8. Min(reached) = m
    BY <2>1, <2>2, LeastIs
  <2> QED
    BY <2>7, <2>8 DEF k
<1> QED
  BY <1>3, <1>4, <1>7, <1>8

----------------------------------------------------------------------------
(* The alignment the test steers by.                                        *)

\* Of finitely many numbers one is the greatest.
LEMMA GreatestExists ==
    ASSUME NEW S, IsFiniteSet(S), S # {}, NEW f \in [S -> Int]
    PROVE  \E m \in S : \A x \in S : f[x] <= f[m]
<1> DEFINE F == {T \in SUBSET S : T # {} => \E m \in T : \A x \in T : f[x] <= f[m]}
<1>1. {} \in F
  OBVIOUS
<1>2. ASSUME NEW T \in SUBSET S, NEW x \in S \ T, T \in F
      PROVE  T \cup {x} \in F
  <2>1. CASE T = {}
    BY <2>1
  <2>2. CASE T # {}
    <3>1. PICK m \in T : \A y \in T : f[y] <= f[m]
      BY <1>2, <2>2
    <3>2. f[m] \in Int /\ f[x] \in Int /\ \A y \in T : f[y] \in Int
      OBVIOUS
    <3>3. CASE f[x] <= f[m]
      BY <3>1, <3>2, <3>3
    <3>4. CASE ~(f[x] <= f[m])
      <4>1. \A y \in T \cup {x} : f[y] <= f[x]
        BY <3>1, <3>2, <3>4
      <4> QED
        BY <4>1
    <3> QED
      BY <3>3, <3>4
  <2> QED
    BY <2>1, <2>2
<1>3. S \in F
  <2> HIDE DEF F
  <2> QED
    BY <1>1, <1>2, FiniteSetInduction
<1> QED
  BY <1>3

\* The greatest of them is the value of one, and a first one has it.
PeakOf(f, S) == Max({f[x] : x \in S})
FirstPeak(f, S) == Min({x \in S : f[x] = PeakOf(f, S)})

LEMMA PeakFacts ==
    ASSUME NEW n \in Nat, NEW S, S \subseteq 0 .. n, S # {}, NEW f \in [S -> Int]
    PROVE  PeakOf(f, S) \in Int /\ FirstPeak(f, S) \in S
<1> DEFINE values == {f[x] : x \in S}
           peak == Max(values)
           first == {x \in S : f[x] = peak}
<1>1. IsFiniteSet(S)
  <2>1. IsFiniteSet(0 .. n)
    BY FS_Interval
  <2> QED
    BY <2>1, FS_Subset
<1>2. PICK m \in S : \A x \in S : f[x] <= f[m]
  BY <1>1, GreatestExists
<1>3. peak \in values
  <2>1. f[m] \in values /\ \A y \in values : f[m] >= y
    BY <1>2
  <2> HIDE DEF values
  <2> QED
    BY <2>1 DEF Max
<1>4. peak \in Int
  <2>1. values \subseteq Int
    OBVIOUS
  <2> HIDE DEF peak, values
  <2> QED
    BY <1>3, <2>1
<1> HIDE DEF peak
<1>5. first # {} /\ first \subseteq Nat
  <2>1. PICK x \in S : f[x] = peak
    BY <1>3
  <2>2. x \in first
    BY <2>1
  <2>3. first \subseteq S /\ S \subseteq Nat
    OBVIOUS
  <2> HIDE DEF first
  <2> QED
    BY <2>2, <2>3
<1> HIDE DEF first
<1>6. PICK k \in first : \A x \in first : k <= x
  BY <1>5, LeastExists
<1>7. Min(first) = k
  BY <1>5, <1>6, LeastIs
<1>8. k \in S
  BY <1>6 DEF first
<1> QED
  BY <1>4, <1>7, <1>8 DEF peak, first, PeakOf, FirstPeak

RootStep(x, r, bit) == IF (r + bit) * (r + bit) <= x THEN r + bit ELSE r
RootBits == [i \in 1 .. 15 |-> 2^(15 - i)]

LEMMA RootIsChosen ==
    ASSUME NEW x
    PROVE  Root(x) = (CHOOSE h : h = [s \in SUBSET DOMAIN RootBits |->
                                         IF s = {} THEN 0
                                         ELSE RootStep(x, h[s \ {Max(s)}], RootBits[Max(s)])])
                                             [DOMAIN RootBits]
  BY DEF Root, RootBits, FoldLeft, MapThenFoldSet, RootStep

\* The root is a number, whatever its argument.
LEMMA RootType == ASSUME NEW x PROVE Root(x) \in Int
<1> DEFINE m == 15
           q == RootBits
           F == [p \in Int \X (1 .. m) |-> RootStep(x, p[1], q[p[2]])]
           base == 0
           V == Int
           Unfolds(h) == h = [s \in SUBSET (1 .. m) |->
                                 IF s = {} THEN base
                                 ELSE RootStep(x, h[s \ {Max(s)}], q[Max(s)])]
           h == CHOOSE k : Unfolds(k)
<1>0. m \in Nat /\ q \in [1 .. m -> Int]
  <2>1. \A i \in 1 .. m : 2^(15 - i) \in Int
    <3> SUFFICES ASSUME NEW i \in 1 .. m PROVE 2^(15 - i) \in Int
      OBVIOUS
    <3>1. 15 - i \in Nat
      OBVIOUS
    <3> QED
      BY <3>1, PowerFacts
  <2> QED
    BY <2>1 DEF RootBits
<1>1. Root(x) = h[1 .. m]
  <2>1. DOMAIN RootBits = 1 .. m
    BY DEF RootBits
  <2> QED
    BY <2>1, RootIsChosen
<1> HIDE DEF m, q
<1>2. F \in [V \X (1 .. m) -> V] /\ base \in V
  <2>1. \A r \in Int, k \in 1 .. m : RootStep(x, r, q[k]) \in Int
    BY <1>0 DEF RootStep
  <2> QED
    BY <2>1
<1>3. PICK f \in [SUBSET (1 .. m) -> V] : Folder(f, F, base, m)
  <2> HIDE DEF V, F, base
  <2> QED
    BY <1>0, <1>2, FolderExists
<1>4. ASSUME NEW s \in SUBSET (1 .. m)
      PROVE  f[s] = IF s = {} THEN base ELSE RootStep(x, f[s \ {Max(s)}], q[Max(s)])
  <2>1. CASE s = {}
    BY <1>3, <2>1 DEF Folder
  <2>2. CASE s # {}
    <3>1. Max(s) \in 1 .. m /\ f[s \ {Max(s)}] \in V
      <4>1. Max(s) \in s
        BY <1>0, <2>2, MaxOfPart
      <4> QED
        BY <4>1
    <3>2. f[s] = F[<<f[s \ {Max(s)}], Max(s)>>]
      <4> HIDE DEF F, V, base
      <4> QED
        BY <1>3, <2>2 DEF Folder
    <3> QED
      BY <2>2, <3>1, <3>2
  <2> QED
    BY <2>1, <2>2
<1>5. Unfolds(f)
  <2>1. f = [s \in SUBSET (1 .. m) |-> f[s]]
    BY <1>3
  <2>2. [s \in SUBSET (1 .. m) |-> f[s]]
           = [s \in SUBSET (1 .. m) |->
                 IF s = {} THEN base ELSE RootStep(x, f[s \ {Max(s)}], q[Max(s)])]
    BY <1>4, Zenon
  <2> QED
    BY <2>1, <2>2
<1>6. Unfolds(h)
  <2> HIDE DEF Unfolds
  <2> QED
    BY <1>5
<1>7. Folds(h, F, base, m, V)
  <2>1. \A s \in SUBSET (1 .. m) :
           h[s] = IF s = {} THEN base ELSE RootStep(x, h[s \ {Max(s)}], q[Max(s)])
    <3> HIDE DEF h
    <3> QED
      BY <1>6
  <2> HIDE DEF h
  <2>2. h[{}] = base
    <3>1. {} \in SUBSET (1 .. m)
      OBVIOUS
    <3> QED
      BY <2>1, <3>1
  <2>3. ASSUME NEW s \in SUBSET (1 .. m), s # {}, h[s \ {Max(s)}] \in V
        PROVE  h[s] = F[<<h[s \ {Max(s)}], Max(s)>>]
    <3>1. Max(s) \in 1 .. m
      BY <1>0, <2>3, MaxOfPart
    <3> QED
      BY <2>1, <2>3, <3>1
  <2> HIDE DEF F, base, V
  <2> QED
    BY <2>2, <2>3 DEF Folds
<1> HIDE DEF h
<1>8. PICK c \in [0 .. m -> V] : ChainOf(c, h, F, base, m)
  <2> HIDE DEF V, F, base
  <2> QED
    BY <1>0, <1>2, <1>7, FoldChain
<1>9. m \in 0 .. m
  BY <1>0
<1> QED
  BY <1>1, <1>8, <1>9 DEF ChainOf

LEMMA ScoreTypes ==
    /\ \A width, count : PeakFloor(width, count) \in Int
    /\ \A excess \in Int, count \in Nat \ {0} : Alignment(excess, count) \in Int
<1>1. ASSUME NEW width, NEW count PROVE PeakFloor(width, count) \in Int
  BY RootType DEF PeakFloor
<1>2. ASSUME NEW excess \in Int, NEW count \in Nat \ {0}
      PROVE  Alignment(excess, count) \in Int
  <2> DEFINE i == 1000 * Magnitude(excess)
  <2>1. i \in Int
    BY DEF Magnitude
  <2>2. Alignment(excess, count) = i \div count
    BY DEF Alignment
  <2> HIDE DEF i
  <2> QED
    BY <2>1, <2>2, DivisionFacts
<1> QED
  BY <1>1, <1>2

\* What a phase shows, and what the picks of a spectrum have so far.
Shown(width) == [excess : Int, basis : Bases(width)]
PickStates(width) == [rows : EchSets(width), found : Shown(width)]

LEMMA NothingIsShown == ASSUME NEW width PROVE Nothing \in Shown(width)
  BY DEF Nothing, Shown, Bases

LEMMA PickType ==
    ASSUME NEW width \in Nat, width <= HardWindowCap,
           NEW strength \in [Vectors(width) -> Int], NEW floor \in Int,
           NEW picked \in PickStates(width)
    PROVE  Pick(strength, floor, width, picked) \in PickStates(width)
<1> DEFINE check == Ascending(width)
           m == 2^width - 1
           open == {value \in DOMAIN check :
                       /\ strength[check[value]] > floor
                       /\ Reduce(picked.rows, check[value]) # {}}
           f == [value \in open |-> strength[check[value]]]
           peak == Max({strength[check[value]] : value \in open})
           first == Min({value \in open : strength[check[value]] = peak})
           best == check[first]
           next == [rows |-> Insert(picked.rows, best),
                    found |-> [excess |-> picked.found.excess + peak - floor,
                               basis |-> picked.found.basis \cup {best}]]
<1>1. m \in Nat /\ check \in [1 .. m -> Vectors(width)] /\ DOMAIN check = 1 .. m
  BY AscendingFacts
<1>2. Pick(strength, floor, width, picked) = IF open = {} THEN picked ELSE next
  BY DEF Pick
<1> HIDE DEF m, check
<1>3. open \subseteq 1 .. m /\ open \subseteq 0 .. m
  BY <1>1
<1>4. f \in [open -> Int]
  BY <1>1, <1>3
<1>5. peak = PeakOf(f, open) /\ first = FirstPeak(f, open)
  <2> HIDE DEF open
  <2>1. {f[x] : x \in open} = {strength[check[value]] : value \in open}
    OBVIOUS
  <2>2. peak = PeakOf(f, open)
    BY <2>1 DEF PeakOf
  <2> HIDE DEF peak
  <2>3. {x \in open : f[x] = PeakOf(f, open)} = {value \in open : strength[check[value]] = peak}
    BY <2>2
  <2> QED
    BY <2>2, <2>3 DEF FirstPeak
<1> HIDE DEF open, f, peak, first
<1>6. CASE open = {}
  BY <1>2, <1>6
<1>7. CASE open # {}
  <2>1. peak \in Int /\ first \in open
    BY <1>1, <1>3, <1>4, <1>5, <1>7, PeakFacts
  <2>2. best \in Vectors(width)
    BY <1>1, <1>3, <2>1
  <2> HIDE DEF best
  <2>3. Ech(picked.rows, width) /\ picked.found.excess \in Int /\ picked.found.basis \in Bases(width)
    BY DEF PickStates, EchSets, Shown
  <2>4. Insert(picked.rows, best) \in EchSets(width)
    <3>1. Ech(Insert(picked.rows, best), width)
      BY <2>2, <2>3, InsertFacts
    <3> QED
      BY <3>1 DEF EchSets, Ech
  <2>5. picked.found.basis \cup {best} \in Bases(width)
    BY <2>2, <2>3 DEF Bases
  <2>6. picked.found.excess + peak - floor \in Int
    BY <2>1, <2>3
  <2> QED
    BY <1>2, <1>7, <2>4, <2>5, <2>6 DEF PickStates, Shown
<1> QED
  BY <1>6, <1>7

LEMMA SpectralExcessIsChosen ==
    ASSUME NEW spectrum, NEW count, NEW width
    PROVE  LET strength == [v \in DOMAIN spectrum |-> Alignment(spectrum[v], count)]
           IN  SpectralExcess(spectrum, count, width) =
               (CHOOSE f : f = [r \in 0 .. width |->
                                   IF r = 0 THEN [rows |-> {}, found |-> Nothing]
                                   ELSE Pick(strength, PeakFloor(width, count), width, f[r - 1])])
                                       [width].found
  BY DEF SpectralExcess

LEMMA SpectralExcessType ==
    ASSUME NEW width \in Nat, width <= HardWindowCap,
           NEW spectrum \in [Vectors(width) -> Int], NEW count \in Nat \ {0}
    PROVE  SpectralExcess(spectrum, count, width) \in Shown(width)
<1> DEFINE strength == [v \in DOMAIN spectrum |-> Alignment(spectrum[v], count)]
           floor == PeakFloor(width, count)
           V == PickStates(width)
           base == [rows |-> {}, found |-> Nothing]
           step == [p \in (1 .. width) \X V |-> Pick(strength, floor, width, p[2])]
           Unfolds(f) == f = [r \in 0 .. width |->
                                 IF r = 0 THEN base
                                 ELSE Pick(strength, floor, width, f[r - 1])]
           h == CHOOSE f : Unfolds(f)
<1>1. strength \in [Vectors(width) -> Int] /\ floor \in Int
  BY ScoreTypes
<1>2. SpectralExcess(spectrum, count, width) = h[width].found
  BY SpectralExcessIsChosen
<1> HIDE DEF strength, floor
<1>3. base \in V
  BY NothingIsShown DEF PickStates, EchSets, Ech, Bases
<1>4. ASSUME NEW picked \in V PROVE Pick(strength, floor, width, picked) \in V
  BY <1>1, PickType
<1> HIDE DEF V, base
<1>5. step \in [(1 .. width) \X V -> V]
  <2>1. \A p \in (1 .. width) \X V : p[2] \in V
    OBVIOUS
  <2> QED
    BY <1>4, <2>1
<1>6. PICK f \in [0 .. width -> V] : Solves(f, base, step, width)
  <2> HIDE DEF step
  <2> QED
    BY <1>3, <1>5, RecursionExists
<1>7. ASSUME NEW r \in 0 .. width
      PROVE  f[r] = IF r = 0 THEN base ELSE Pick(strength, floor, width, f[r - 1])
  <2>1. CASE r = 0
    BY <1>6, <2>1 DEF Solves
  <2>2. CASE r # 0
    <3>1. r \in 1 .. width /\ r - 1 \in 0 .. width
      BY <2>2
    <3>2. f[r] = step[<<r, f[r - 1]>>]
      <4> HIDE DEF step
      <4> QED
        BY <1>6, <2>2 DEF Solves
    <3>3. f[r - 1] \in V
      BY <3>1
    <3> QED
      BY <2>2, <3>1, <3>2, <3>3
  <2> QED
    BY <2>1, <2>2
<1>8. Unfolds(f)
  <2>1. f = [r \in 0 .. width |-> f[r]]
    OBVIOUS
  <2>2. [r \in 0 .. width |-> f[r]]
           = [r \in 0 .. width |-> IF r = 0 THEN base
                                   ELSE Pick(strength, floor, width, f[r - 1])]
    BY <1>7, Zenon
  <2> QED
    BY <2>1, <2>2
<1>9. Unfolds(h)
  <2> HIDE DEF Unfolds
  <2> QED
    BY <1>8
<1> HIDE DEF h
<1>10. ASSUME NEW r \in 0 .. width
       PROVE  h[r] = IF r = 0 THEN base ELSE Pick(strength, floor, width, h[r - 1])
  BY <1>9
<1> DEFINE T == {r \in 0 .. width : h[r] \in V}
<1>11. 0 \in T
  <2>1. 0 \in 0 .. width
    OBVIOUS
  <2>2. h[0] = base
    BY <1>10, <2>1
  <2> QED
    BY <1>3, <2>1, <2>2
<1>12. ASSUME NEW k \in 1 .. width, k - 1 \in T PROVE k \in T
  <2>1. k \in 0 .. width /\ k # 0
    OBVIOUS
  <2>2. h[k] = Pick(strength, floor, width, h[k - 1])
    BY <1>10, <2>1
  <2> QED
    BY <1>4, <1>12, <2>1, <2>2
<1>13. width \in T
  <2>1. 0 .. width \subseteq T
    <3> HIDE DEF T
    <3> QED
      BY <1>11, <1>12, BoundedInduction
  <2> QED
    BY <2>1
<1> QED
  BY <1>2, <1>13 DEF V, PickStates

LEMMA GenuineType ==
    ASSUME NEW n, NEW width, NEW found \in Shown(width)
    PROVE  Genuine(found, n, width) \in Shown(width)
  BY NothingIsShown DEF Genuine

\* What remains of a stream has the bits from the position on.
LEMMA FromLength ==
    ASSUME NEW S, NEW stream \in Seq(S), NEW phase \in Nat, phase <= Len(stream)
    PROVE  Len(From(stream, phase)) = Len(stream) - phase
<1> DEFINE a == phase + 1
           b == Len(stream)
<1>1. a \in Int /\ b \in Int /\ a <= b + 1 /\ b - a + 1 = b - phase
  OBVIOUS
<1>2. \A i \in a .. b : stream[i] \in S
  OBVIOUS
<1>3. Len(SubSeq(stream, a, b)) = IF a <= b THEN b - a + 1 ELSE 0
  <2> HIDE DEF a, b
  <2> QED
    BY <1>1, <1>2, SubSeqProperties
<1>4. From(stream, phase) = SubSeq(stream, a, b)
  BY DEF From
<1>5. (IF a <= b THEN b - a + 1 ELSE 0) = b - phase
  <2> HIDE DEF a, b
  <2>1. CASE a <= b
    BY <1>1, <2>1
  <2>2. CASE ~(a <= b)
    <3>1. a = b + 1
      BY <1>1, <2>2
    <3>2. b - a + 1 = 0
      BY <1>1, <3>1
    <3> QED
      BY <1>1, <2>2, <3>2
  <2> QED
    BY <2>1, <2>2
<1> QED
  BY <1>3, <1>4, <1>5

LEMMA PhaseExcessType ==
    ASSUME NEW n, NEW width, IsCode(n, width), NEW stream \in Seq({0, 1}), NEW phase \in Nat
    PROVE  PhaseExcess(stream, n, width, phase) \in Shown(width)
<1> DEFINE rest == From(stream, phase)
           windows == Windows(rest, n, width, MaxCrossWindows)
           spectrum == Spectrum(windows, width)
           found == SpectralExcess(spectrum, Len(windows), width)
<1>1. width \in Nat \ {0} /\ width <= HardWindowCap
  BY DEF IsCode
<1>2. CASE phase + width > Len(stream)
  BY <1>2, NothingIsShown DEF PhaseExcess
<1>3. CASE ~(phase + width > Len(stream))
  <2>1. PhaseExcess(stream, n, width, phase) = Genuine(found, n, width)
    BY <1>3 DEF PhaseExcess
  <2>2. Len(rest) \in Int /\ Len(rest) >= width
    <3>1. Len(stream) \in Nat /\ phase <= Len(stream)
      BY <1>1, <1>3
    <3>2. Len(rest) = Len(stream) - phase
      BY <3>1, FromLength
    <3> HIDE DEF rest
    <3> QED
      BY <1>1, <1>3, <3>1, <3>2
  <2> HIDE DEF rest
  <2>3. MaxCrossWindows \in Int /\ MaxCrossWindows > 0
    BY DriftAssumption
  <2>4. PICK m \in Nat : /\ windows \in [1 .. m -> Vectors(width)]
                         /\ Len(windows) = m
                         /\ Len(rest) >= width /\ MaxCrossWindows > 0 => m > 0
    BY <2>2, <2>3, WindowsFacts
  <2>5. m \in Nat \ {0}
    BY <2>2, <2>3, <2>4
  <2> HIDE DEF windows
  <2>6. spectrum \in [Vectors(width) -> Int]
    <3>1. {} \in Vectors(width)
      BY DEF Vectors
    <3> QED
      BY <1>1, <2>4, <3>1, SpectrumFacts
  <2> HIDE DEF spectrum
  <2>7. found \in Shown(width)
    BY <1>1, <2>4, <2>5, <2>6, SpectralExcessType
  <2> HIDE DEF found
  <2> QED
    BY <2>1, <2>7, GenuineType
<1> QED
  BY <1>2, <1>3

LEMMA FixedExcessType ==
    ASSUME NEW n, NEW width, IsCode(n, width), NEW stream \in Seq({0, 1}), NEW phase \in Nat,
           NEW basis \in Bases(width)
    PROVE  FixedExcess(stream, n, width, phase, basis) \in Int
<1> DEFINE rest == From(stream, phase)
           all == WindowCount(rest, n, width)
           count == Min({all, MaxCrossWindows})
           positions == [w \in 1 .. count |-> phase + (w - 1) * n]
           satisfied(c) == Quantify(DOMAIN positions, LAMBDA w :
                               Satisfies(Window(stream, positions[w], width), c))
           excess(c) == Alignment(2 * satisfied(c) - Len(positions), Len(positions))
                            - PeakFloor(width, Len(positions))
           gain == [c \in basis |-> Max({0, excess(c)})]
<1>1. width \in Nat /\ IsFiniteSet(basis)
  BY BasesFacts DEF IsCode
<1>2. count \in Int
  <2>1. Len(rest) \in Int
    BY FromType
  <2> HIDE DEF rest
  <2>2. all \in Int
    BY <2>1, CrossWindowsFacts
  <2>3. MaxCrossWindows \in Int
    BY DriftAssumption
  <2> HIDE DEF all
  <2>4. Min({all, MaxCrossWindows}) \in {all, MaxCrossWindows}
    BY <2>2, <2>3 DEF Min
  <2> QED
    BY <2>2, <2>3, <2>4
<1>3. FixedExcess(stream, n, width, phase, basis)
         = IF Len(positions) = 0 \/ basis = {} THEN 0 ELSE SumFunction(gain)
  BY DEF FixedExcess, Score
<1> HIDE DEF count
<1>4. CASE Len(positions) = 0
  BY <1>3, <1>4
<1>5. CASE Len(positions) # 0
  <2>1. Len(positions) \in Nat \ {0} /\ DOMAIN positions = 1 .. Len(positions)
    <3> DEFINE m == IF count < 0 THEN 0 ELSE count
    <3>1. m \in Nat /\ 1 .. count = 1 .. m
      BY <1>2
    <3> HIDE DEF m
    <3>2. DOMAIN positions = 1 .. m
      BY <3>1
    <3> HIDE DEF positions
    <3>3. Len(positions) = m
      BY <3>1, <3>2
    <3> QED
      BY <1>5, <3>1, <3>2, <3>3
  <2> DEFINE k == Len(positions)
  <2> HIDE DEF positions
  <2>2. ASSUME NEW c PROVE satisfied(c) \in Nat
    <3> DEFINE S == {w \in DOMAIN positions : Satisfies(Window(stream, positions[w], width), c)}
    <3>1. satisfied(c) = Cardinality(S)
      BY DEF Quantify
    <3>2. IsFiniteSet(DOMAIN positions)
      BY <2>1, FS_Interval
    <3>3. IsFiniteSet(S)
      BY <3>2, FS_Subset
    <3> HIDE DEF S
    <3> QED
      BY <3>1, <3>3, FS_CardinalityType
  <2> HIDE DEF satisfied
  <2>3. ASSUME NEW c PROVE excess(c) \in Int
    <3>1. k \in Nat \ {0}
      BY <2>1
    <3> HIDE DEF k
    <3>2. 2 * satisfied(c) - k \in Int
      BY <2>2, <3>1
    <3>3. /\ Alignment(2 * satisfied(c) - k, k) \in Int
          /\ PeakFloor(width, k) \in Int
      BY <3>1, <3>2, ScoreTypes
    <3> QED
      BY <3>3 DEF k
  <2> HIDE DEF excess
  <2>4. gain \in [basis -> Int]
    <3>1. \A c \in basis : Max({0, excess(c)}) \in Int
      <4> SUFFICES ASSUME NEW c \in basis PROVE Max({0, excess(c)}) \in Int
        OBVIOUS
      <4>1. excess(c) \in Int
        BY <2>3
      <4>2. Max({0, excess(c)}) \in {0, excess(c)}
        BY <4>1 DEF Max
      <4> QED
        BY <4>1, <4>2
    <3> QED
      BY <3>1
  <2>5. DOMAIN gain = basis
    OBVIOUS
  <2> HIDE DEF gain
  <2>6. SumFunction(gain) = SumOf(gain, basis)
    BY <2>5, SumFunctionIs
  <2>7. SumOf(gain, basis) \in Int
    BY <1>1, <2>4, SumIsNumber
  <2> QED
    BY <1>3, <2>6, <2>7
<1> QED
  BY <1>4, <1>5

LEMMA WarmupExcessType ==
    ASSUME NEW n, NEW width, IsCode(n, width), NEW prefix \in Seq({0, 1}), NEW phase \in Nat
    PROVE  WarmupExcess(prefix, n, width, phase) \in Shown(width)
<1> DEFINE basis == NullSpace(From(prefix, phase), n, width, SegmentFactor * width)
           wide == Genuine([excess |-> 0, basis |-> basis], n, width).basis
           fixed == FixedExcess(prefix, n, width, phase, wide)
<1>1. Len(From(prefix, phase)) \in Int /\ SegmentFactor * width \in Int
  BY FromType, WindowAssumption DEF IsCode
<1>2. basis \in Bases(width)
  <2> DEFINE rest == From(prefix, phase)
             max == SegmentFactor * width
  <2> HIDE DEF rest, max
  <2>1. NullSpace(rest, n, width, max) \in Bases(width)
    BY <1>1, NullSpaceFacts DEF rest, max
  <2> QED
    BY <2>1 DEF rest, max
<1>3. wide \in Bases(width)
  <2> HIDE DEF basis
  <2>1. [excess |-> 0, basis |-> basis] \in Shown(width)
    BY <1>2 DEF Shown
  <2>2. Genuine([excess |-> 0, basis |-> basis], n, width) \in Shown(width)
    BY <2>1, GenuineType
  <2> QED
    BY <2>2 DEF Shown
<1>4. WarmupExcess(prefix, n, width, phase)
         \in {PhaseExcess(prefix, n, width, phase), Nothing, [excess |-> fixed, basis |-> wide]}
  BY DEF WarmupExcess
<1> HIDE DEF wide
<1>5. fixed \in Int
  BY <1>3, FixedExcessType
<1>6. [excess |-> fixed, basis |-> wide] \in Shown(width)
  BY <1>3, <1>5 DEF Shown
<1>7. Nothing \in Shown(width) /\ PhaseExcess(prefix, n, width, phase) \in Shown(width)
  BY NothingIsShown, PhaseExcessType
<1> QED
  BY <1>4, <1>6, <1>7

\* The test steers by a phase of the code and a basis of checks.
LEMMA SteeringType ==
    ASSUME NEW n, NEW width, IsCode(n, width), NEW stream \in Seq({0, 1})
    PROVE  /\ Steering(stream, n, width).phase \in Nat
           /\ Steering(stream, n, width).basis \in Bases(width)
<1> DEFINE cut == Min({WarmupWindows * n + width, Len(stream)})
           warmup == SubSeq(stream, 1, cut)
           S == 0 .. (n - 1)
           shows == [p \in S |-> WarmupExcess(warmup, n, width, p)]
           f == [p \in S |-> shows[p].excess]
           best == Max({shows[p].excess : p \in DOMAIN shows})
           phase == Min({p \in DOMAIN shows : shows[p].excess = best})
<1>1. n \in Nat \ {0} /\ width \in Nat /\ WarmupWindows \in Nat /\ Len(stream) \in Nat
  BY WarmupAssumption DEF IsCode
<1>2. warmup \in Seq({0, 1})
  <2> DEFINE a == WarmupWindows * n + width
             b == Len(stream)
  <2>1. a \in Nat /\ b \in Nat
    BY <1>1
  <2> HIDE DEF a, b
  <2>2. Min({a, b}) \in {a, b} /\ Min({a, b}) <= b
    <3>1. \E u \in {a, b} : \A v \in {a, b} : u <= v
      <4>1. CASE a <= b
        BY <2>1, <4>1
      <4>2. CASE ~(a <= b)
        BY <2>1, <4>2
      <4> QED
        BY <4>1, <4>2
    <3> QED
      BY <3>1 DEF Min
  <2>3. cut \in Nat /\ cut <= Len(stream)
    <3>1. cut = Min({a, b})
      BY DEF a, b
    <3> HIDE DEF cut
    <3>2. cut \in Nat /\ cut <= b
      BY <2>1, <2>2, <3>1
    <3> QED
      BY <3>2 DEF b
  <2> HIDE DEF cut
  <2>4. \A i \in 1 .. cut : stream[i] \in {0, 1}
    BY <1>1, <2>3
  <2>5. 1 \in Int /\ cut \in Int
    BY <2>3
  <2> QED
    BY <2>4, <2>5, SubSeqProperties
<1>3. Steering(stream, n, width)
         = [phase |-> phase, basis |-> IF best > 0 THEN shows[phase].basis ELSE {}]
  BY DEF Steering, SteeringOf
<1> HIDE DEF warmup
<1>4. shows \in [S -> Shown(width)]
  <2>1. \A p \in S : WarmupExcess(warmup, n, width, p) \in Shown(width)
    <3> SUFFICES ASSUME NEW p \in S PROVE WarmupExcess(warmup, n, width, p) \in Shown(width)
      OBVIOUS
    <3>1. p \in Nat
      BY <1>1
    <3> QED
      BY <1>2, <3>1, WarmupExcessType
  <2> QED
    BY <2>1
<1> HIDE DEF shows
<1>5. f \in [S -> Int]
  BY <1>4 DEF Shown
<1>6. best = PeakOf(f, S) /\ phase = FirstPeak(f, S)
  <2>1. DOMAIN shows = S
    BY <1>4
  <2>2. {f[x] : x \in S} = {shows[p].excess : p \in DOMAIN shows}
    BY <2>1
  <2>3. best = PeakOf(f, S)
    BY <2>2 DEF PeakOf
  <2> HIDE DEF best
  <2>4. {x \in S : f[x] = PeakOf(f, S)} = {p \in DOMAIN shows : shows[p].excess = best}
    BY <2>1, <2>3
  <2> QED
    BY <2>3, <2>4 DEF FirstPeak
<1> HIDE DEF f, best, phase
<1>7. phase \in S
  <2> DEFINE m == n - 1
  <2>1. m \in Nat /\ S \subseteq 0 .. m /\ 0 \in S
    BY <1>1
  <2> HIDE DEF m, S
  <2> QED
    BY <1>5, <1>6, <2>1, PeakFacts
<1>8. phase \in Nat
  BY <1>1, <1>7
<1>9. shows[phase].basis \in Bases(width) /\ {} \in Bases(width)
  BY <1>4, <1>7 DEF Shown, Bases
<1> QED
  BY <1>3, <1>8, <1>9

\* The sequential test declares a code at the first window that ends a run
\* over the threshold and only there, for every code, every stream and every
\* warmup (compare.c:1105-1121).
THEOREM DeclaresAtTheFirstRun == Spec => []DeclaresAtFirstEvidence
<1>1. CompareInv => DeclaresAtFirstEvidence
  <2> DEFINE steering == Steering(call.lhs, call.n, Width)
             rest == From(call.lhs, steering.phase)
  <2> SUFFICES ASSUME Given, ~Refused(call), call.op = "sequential", result = Answer(call)
               PROVE  result.good = FirstEvidence(call.lhs, call.n, Width, steering)
    BY DEF CompareInv, DeclaresAtFirstEvidence, Answered
  <2>1. IsCode(call.n, Width) /\ call.lhs \in Seq({0, 1})
    BY AcceptedFacts
  <2>2. Width \in Nat
    BY <2>1 DEF IsCode
  <2>3. result.good = Declared(call.lhs, call.n, Width, steering)
    BY DEF Answer, Width, FirstDeclared, Fraction
  <2>4. steering.phase \in Nat /\ steering.basis \in Bases(Width)
    BY <2>1, SteeringType
  <2> HIDE DEF steering
  <2>5. WindowCount(rest, call.n, Width) \in Int
    <3>1. Len(rest) \in Int
      BY <2>1, <2>4, FromType
    <3> HIDE DEF rest
    <3> QED
      BY <2>1, <3>1, CrossWindowsFacts
  <2> QED
    BY <2>2, <2>3, <2>4, <2>5, DeclaredIsFirst
<1> QED
  BY <1>1, AnswersAreComputed, PTL

----------------------------------------------------------------------------
(* Few windows leave too many checks.                                      *)

\* The span of a basis holds no more vectors than the basis has subsets.
LEMMA SpanIsSmall ==
    ASSUME NEW U, NEW basis, IsFiniteSet(basis)
    PROVE  /\ IsFiniteSet(Span(basis)) /\ Cardinality(Span(basis)) \in Nat
           /\ Cardinality(Span(basis)) <= 2^Cardinality(basis)
<1> DEFINE f == [S \in SUBSET basis |-> XorOf(S)]
<1>1. Span(basis) = {XorOf(S) : S \in SUBSET basis}
  BY SpanIs
<1>2. f \in Surjection(SUBSET basis, Span(basis))
  BY <1>1 DEF Surjection
<1>3. IsFiniteSet(SUBSET basis) /\ Cardinality(SUBSET basis) = 2^Cardinality(basis)
  BY FS_SUBSET
<1>4. /\ IsFiniteSet(Span(basis))
      /\ Cardinality(Span(basis)) <= Cardinality(SUBSET basis)
  <2> HIDE DEF f
  <2> QED
    BY <1>2, <1>3, FS_Surjection
<1> QED
  BY <1>3, <1>4, FS_CardinalityType

\* The powers of two grow.
LEMMA PowersGrow ==
    ASSUME NEW a \in Nat, NEW b \in Nat, a < b
    PROVE  2^a < 2^b
<1> DEFINE T == {d \in Nat : 2^a < 2^(a + 1 + d)}
<1>1. 0 \in T
  <2>1. 2^(a + 1) = 2 * 2^a /\ 2^a \in Nat \ {0}
    BY PowerFacts
  <2>2. a + 1 + 0 = a + 1
    OBVIOUS
  <2> DEFINE p == 2^a
             q == 2^(a + 1)
  <2>3. q = 2 * p /\ p \in Nat \ {0}
    BY <2>1
  <2>4. 2^(a + 1 + 0) = q
    BY <2>2
  <2> HIDE DEF p, q
  <2>5. p < q
    BY <2>3
  <2>6. 2^a < 2^(a + 1 + 0)
    BY <2>4, <2>5 DEF p
  <2> QED
    BY <2>6
<1>2. ASSUME NEW d \in Nat, d \in T PROVE d + 1 \in T
  <2> DEFINE e == a + 1 + d
             p == 2^a
             q == 2^e
             r == 2^(e + 1)
  <2>1. e \in Nat /\ a + 1 + (d + 1) = e + 1
    OBVIOUS
  <2>2. p < q
    BY <1>2
  <2>3. 2^(a + 1 + (d + 1)) = r
    BY <2>1
  <2> HIDE DEF e
  <2>4. r = 2 * q /\ q \in Nat \ {0} /\ p \in Nat
    BY <2>1, PowerFacts
  <2> HIDE DEF p, q, r
  <2>5. p < r
    BY <2>2, <2>4
  <2>6. 2^a < 2^(a + 1 + (d + 1))
    BY <2>3, <2>5 DEF p
  <2> QED
    BY <2>6
<1>3. Nat \subseteq T
  <2> HIDE DEF T
  <2> QED
    BY <1>1, <1>2, NumberInduction
<1>4. b - a - 1 \in Nat /\ a + 1 + (b - a - 1) = b
  OBVIOUS
<1>5. b - a - 1 \in T
  BY <1>3, <1>4
<1> QED
  BY <1>4, <1>5

\* The vectors that the first q of some windows satisfy.
Kept(first, q, width) ==
    {v \in Vectors(width) : \A w \in 1 .. q : Satisfies(first[w], v)}

\* A window more keeps half of them at least.
LEMMA OneWindowHalves ==
    ASSUME NEW width \in Nat, NEW first, NEW q \in Nat, first[q + 1] \in Vectors(width)
    PROVE  /\ Cardinality(Kept(first, q, width)) \in Nat
           /\ Cardinality(Kept(first, q + 1, width)) \in Nat
           /\ Cardinality(Kept(first, q, width)) <= 2 * Cardinality(Kept(first, q + 1, width))
<1> DEFINE all == Kept(first, q, width)
           in == Kept(first, q + 1, width)
           out == all \ in
<1>1. \A k \in Nat : IsFiniteSet(Kept(first, k, width)) /\ Cardinality(Kept(first, k, width)) \in Nat
  <2>1. \A k \in Nat : Kept(first, k, width) \in Bases(width)
    BY DEF Kept, Bases
  <2> QED
    BY <2>1, BasesFacts
<1>2. 1 .. (q + 1) = (1 .. q) \cup {q + 1} /\ q + 1 \in Nat
  OBVIOUS
<1>3. in \subseteq all /\ \A v : v \in out <=> v \in all /\ ~Satisfies(first[q + 1], v)
  BY <1>2 DEF Kept
<1>4. IsFiniteSet(in) /\ IsFiniteSet(all) /\ Cardinality(in) \in Nat /\ Cardinality(all) \in Nat
  BY <1>1, <1>2
<1> HIDE DEF all, in
<1>5. IsFiniteSet(out) /\ Cardinality(out) \in Nat
  BY <1>4, FS_Subset, FS_CardinalityType
<1>6. Cardinality(all) = Cardinality(in) + Cardinality(out)
  <2>1. all = in \cup out /\ in \cap out = {}
    BY <1>3
  <2> HIDE DEF out
  <2> QED
    BY <1>4, <1>5, <2>1, DisjointSum
<1>7. Cardinality(out) <= Cardinality(in)
  <2>1. CASE out = {}
    <3>1. Cardinality(out) = 0
      BY <2>1, FS_EmptySet
    <3> QED
      BY <1>4, <3>1
  <2>2. CASE out # {}
    <3>1. PICK u \in out : TRUE
      BY <2>2
    <3> DEFINE f == [v \in out |-> SymDiff(v, u)]
    <3>2. ASSUME NEW v \in out PROVE SymDiff(v, u) \in in
      <4>1. v \in all /\ u \in all /\ ~Satisfies(first[q + 1], v) /\ ~Satisfies(first[q + 1], u)
        BY <1>3, <3>1
      <4>2. v \in Vectors(width) /\ u \in Vectors(width)
        BY <4>1 DEF all, Kept
      <4>3. SymDiff(v, u) \in Vectors(width)
        BY <4>2 DEF Vectors, SymDiff
      <4>4. \A w : Satisfies(first[w], SymDiff(v, u)) <=> (Satisfies(first[w], v) <=> Satisfies(first[w], u))
        <5>1. IsFiniteSet(v) /\ IsFiniteSet(u)
          BY <4>2, BasesFacts
        <5>2. \A w : Satisfies(SymDiff(v, u), first[w]) <=> (Satisfies(v, first[w]) <=> Satisfies(u, first[w]))
          BY <5>1, SumSatisfies
        <5>3. \A X, Y : Satisfies(X, Y) <=> Satisfies(Y, X)
          <6>1. \A X, Y : X \cap Y = Y \cap X
            OBVIOUS
          <6> QED
            BY <6>1 DEF Satisfies
        <5> QED
          BY <5>2, <5>3
      <4>5. \A w \in 1 .. q : Satisfies(first[w], v) /\ Satisfies(first[w], u)
        BY <4>1 DEF all, Kept
      <4>6. \A w \in 1 .. (q + 1) : Satisfies(first[w], SymDiff(v, u))
        BY <1>2, <4>1, <4>4, <4>5
      <4> QED
        BY <4>3, <4>6 DEF in, Kept
    <3>3. f \in [out -> in]
      BY <3>2
    <3>4. ASSUME NEW v \in out, NEW w \in out, f[v] = f[w] PROVE v = w
      <4>1. SymDiff(v, u) = SymDiff(w, u)
        BY <3>4
      <4>2. \A t : t \in SymDiff(v, u) <=> t \in SymDiff(w, u)
        BY <4>1
      <4> QED
        BY <4>2 DEF SymDiff
    <3>5. f \in Injection(out, in)
      <4> HIDE DEF f
      <4> QED
        BY <3>3, <3>4 DEF Injection, IsInjective
    <3> HIDE DEF f, out
    <3> QED
      BY <1>4, <3>5, FS_Injection
  <2> QED
    BY <2>1, <2>2
<1> HIDE DEF out
<1>8. Cardinality(all) <= 2 * Cardinality(in)
  BY <1>4, <1>5, <1>6, <1>7
<1> QED
  BY <1>4, <1>8 DEF all, in

\* q windows keep 2^(width - q) vectors at least.
LEMMA FewWindowsKeepMany ==
    ASSUME NEW width \in Nat, NEW q \in 0 .. width, NEW first \in [1 .. q -> Vectors(width)]
    PROVE  /\ Cardinality(Kept(first, q, width)) \in Nat
           /\ 2^(width - q) <= Cardinality(Kept(first, q, width))
<1> DEFINE T == {k \in 0 .. q : /\ Cardinality(Kept(first, k, width)) \in Nat
                                /\ 2^(width - k) <= Cardinality(Kept(first, k, width))}
<1>1. 0 \in T
  <2>1. Kept(first, 0, width) = Vectors(width)
    BY DEF Kept
  <2>2. IsFiniteSet(Bits(width)) /\ Cardinality(Bits(width)) = width
    <3>1. 0 \in Int /\ width - 1 \in Int
      OBVIOUS
    <3>2. /\ IsFiniteSet(0 .. (width - 1))
          /\ Cardinality(0 .. (width - 1)) = IF 0 > width - 1 THEN 0 ELSE width - 1 - 0 + 1
      BY <3>1, FS_Interval
    <3>3. (IF 0 > width - 1 THEN 0 ELSE width - 1 - 0 + 1) = width
      OBVIOUS
    <3> QED
      BY <3>2, <3>3 DEF Bits
  <2>3. Cardinality(Vectors(width)) = 2^width
    BY <2>2, FS_SUBSET DEF Vectors
  <2>4. 2^width \in Nat /\ width - 0 = width
    BY PowerFacts
  <2> DEFINE p == 2^width
  <2>5. 2^(width - 0) = p /\ p \in Nat /\ Cardinality(Kept(first, 0, width)) = p
    BY <2>1, <2>3, <2>4
  <2> HIDE DEF p
  <2>6. 2^(width - 0) <= Cardinality(Kept(first, 0, width)) /\ Cardinality(Kept(first, 0, width)) \in Nat
    BY <2>5
  <2> QED
    BY <2>6
<1>2. ASSUME NEW k \in 1 .. q, k - 1 \in T PROVE k \in T
  <2> DEFINE j == k - 1
             e == width - k
             a == Cardinality(Kept(first, j, width))
             b == Cardinality(Kept(first, k, width))
  <2>1. j \in Nat /\ k = j + 1 /\ k \in 0 .. q /\ first[j + 1] \in Vectors(width)
    OBVIOUS
  <2>2. e \in Nat /\ width - j = e + 1
    OBVIOUS
  <2>3. 2^(width - j) <= a
    BY <1>2
  <2>4. a \in Nat /\ b \in Nat /\ a <= 2 * b
    BY <2>1, OneWindowHalves
  <2>5. 2^(e + 1) = 2 * 2^e /\ 2^e \in Nat
    BY <2>2, PowerFacts
  <2> DEFINE p == 2^e
  <2>6. 2 * p <= a /\ p \in Nat
    BY <2>2, <2>3, <2>5
  <2> HIDE DEF a, b, p
  <2>7. p <= b
    BY <2>4, <2>6
  <2>8. 2^(width - k) <= Cardinality(Kept(first, k, width)) /\ Cardinality(Kept(first, k, width)) \in Nat
    BY <2>4, <2>7 DEF p, b
  <2> QED
    BY <2>1, <2>8
<1>3. q \in T
  <2>1. 0 .. q \subseteq T
    <3>1. q \in Nat
      OBVIOUS
    <3> HIDE DEF T
    <3> QED
      BY <1>1, <1>2, <3>1, BoundedInduction
  <2> QED
    BY <2>1
<1> QED
  BY <1>3

\* A basis whose span holds all that q windows keep has width - q vectors at
\* least.
LEMMA BasisIsLarge ==
    ASSUME NEW width \in Nat, NEW q \in 0 .. width, NEW first \in [1 .. q -> Vectors(width)],
           NEW basis \in Bases(width), Kept(first, q, width) \subseteq Span(basis)
    PROVE  Cardinality(basis) \in Nat /\ Cardinality(basis) >= width - q
<1> DEFINE kept == Cardinality(Kept(first, q, width))
           dimension == Cardinality(basis)
           least == width - q
<1>1. IsFiniteSet(basis) /\ dimension \in Nat /\ least \in Nat
  BY BasesFacts
<1>2. kept \in Nat /\ 2^least <= kept
  BY FewWindowsKeepMany
<1>3. kept <= Cardinality(Span(basis))
  <2>1. IsFiniteSet(Span(basis))
    BY <1>1, SpanIsSmall
  <2> QED
    BY <2>1, FS_Subset
<1>4. Cardinality(Span(basis)) \in Nat /\ Cardinality(Span(basis)) <= 2^dimension
  BY <1>1, SpanIsSmall
<1>5. dimension < least => 2^dimension < 2^least
  BY <1>1, PowersGrow
<1>6. 2^dimension \in Nat /\ 2^least \in Nat
  BY <1>1, PowerFacts
<1> DEFINE p == 2^dimension
           r == 2^least
           s == Cardinality(Span(basis))
<1>7. p \in Nat /\ r \in Nat /\ s \in Nat /\ r <= kept /\ kept <= s /\ s <= p /\ (dimension < least => p < r)
  BY <1>2, <1>3, <1>4, <1>5, <1>6
<1> HIDE DEF p, r, s, kept, dimension, least
<1>8. dimension >= least
  BY <1>1, <1>2, <1>7
<1> QED
  BY <1>1, <1>8 DEF dimension, least

\* What the rows span reduces to nothing.
LEMMA SpannedReduces ==
    ASSUME NEW width \in Nat, width <= HardWindowCap,
           NEW rows, Ech(rows, width), NEW v \in Span(rows)
    PROVE  Reduce(rows, v) = {}
<1> DEFINE r == Reduce(rows, v)
<1>1. rows \in Bases(width) /\ ~({} \in rows)
  BY DEF Ech
<1>2. v \in Vectors(width)
  BY <1>1, EchSpan
<1>3. /\ r \in Vectors(width) /\ SymDiff(v, r) \in Span(rows)
      /\ r # {} => \A p \in rows : Lead(p) # Lead(r)
  BY <1>2, ReduceFacts
<1> HIDE DEF r
<1>4. r \in Span(rows)
  <2>1. SymDiff(v, SymDiff(v, r)) \in Span(rows)
    BY <1>1, <1>3, EchSpan
  <2>2. SymDiff(v, SymDiff(v, r)) = r
    BY DEF SymDiff
  <2> QED
    BY <2>1, <2>2
<1>5. PICK D \in SUBSET rows : r = XorOf(D)
  BY <1>4, SpanIs
<1>6. SUFFICES ASSUME r # {} PROVE FALSE
  BY DEF r
<1>7. D # {}
  BY <1>5, <1>6, XorOfNone
<1>8. IsFiniteSet(D) /\ D \subseteq SUBSET Bits(width)
  <2>1. D \in Bases(width)
    BY <1>1 DEF Bases
  <2> QED
    BY <2>1, BasesFacts DEF Bases, Vectors
<1>9. ASSUME NEW u \in D
      PROVE  Lead(u) \in u /\ Lead(u) \in Nat /\ \A b \in u : b \in Nat /\ b <= Lead(u)
  <2>1. u \in Vectors(width) /\ u # {}
    BY <1>1 DEF Bases
  <2> QED
    BY <2>1, LeadFacts
<1> DEFINE f == [u \in D |-> Lead(u)]
<1>10. PICK top \in D : \A u \in D : f[u] <= f[top]
  <2>1. f \in [D -> Int]
    BY <1>9
  <2> HIDE DEF f
  <2> QED
    BY <1>7, <1>8, <2>1, GreatestExists
<1>11. \A u \in D : Lead(u) <= Lead(top)
  BY <1>10
<1>12. \A b : b \in r <=> Odd(Having(D, b))
  BY <1>5, <1>8, XorFacts
<1>13. Lead(top) \in r
  <2>1. ASSUME NEW u \in D, Lead(top) \in u PROVE u = top
    <3>1. Lead(top) <= Lead(u) /\ Lead(u) <= Lead(top) /\ Lead(u) \in Nat /\ Lead(top) \in Nat
      BY <1>9, <1>11, <2>1
    <3>2. Lead(u) = Lead(top)
      BY <3>1
    <3> QED
      BY <3>2 DEF Ech
  <2>2. Having(D, Lead(top)) = {top}
    BY <1>9, <2>1 DEF Having
  <2>3. Odd(Having(D, Lead(top)))
    BY <2>2, OneIsOdd
  <2> QED
    BY <1>12, <2>3
<1>14. ASSUME NEW b \in r PROVE b <= Lead(top)
  <2>1. Having(D, b) # {}
    BY <1>12, NoneIsEven
  <2>2. PICK u \in D : b \in u
    BY <2>1 DEF Having
  <2>3. b \in Nat /\ b <= Lead(u) /\ Lead(u) \in Nat /\ Lead(top) \in Nat /\ Lead(u) <= Lead(top)
    BY <1>9, <1>11, <2>2
  <2> QED
    BY <2>3
<1>15. Lead(r) = Lead(top)
  <2>1. r \subseteq Nat
    BY <1>3, BasesFacts DEF Vectors
  <2> QED
    BY <1>13, <1>14, <2>1, LeadIs
<1> QED
  BY <1>3, <1>6, <1>15

\* A vector that does not reduce to nothing makes one row more.
LEMMA InsertAddsOne ==
    ASSUME NEW width \in Nat, width <= HardWindowCap,
           NEW rows, Ech(rows, width), NEW v \in Vectors(width), Reduce(rows, v) # {}
    PROVE  /\ Cardinality(rows) \in Nat
           /\ Cardinality(Insert(rows, v)) = Cardinality(rows) + 1
<1> DEFINE r == Reduce(rows, v)
<1>1. rows \in Bases(width) /\ ~({} \in rows)
  BY DEF Ech
<1>2. r # {} /\ \A p \in rows : Lead(p) # Lead(r)
  BY ReduceFacts
<1> HIDE DEF r
<1>3. Insert(rows, v) = rows \cup {r} /\ ~(r \in rows)
  BY <1>1, <1>2 DEF Insert, r
<1>4. IsFiniteSet(rows) /\ Cardinality(rows) \in Nat
  BY <1>1, BasesFacts
<1> QED
  BY <1>3, <1>4, FS_AddElement

----------------------------------------------------------------------------
(* A stream that repeats has few windows.                                  *)

LEMMA FromRepeats ==
    ASSUME NEW stream \in Seq({0, 1}), NEW phase \in Nat, NEW period \in Nat,
           Repeats(stream, period)
    PROVE  Repeats(From(stream, phase), period)
<1> DEFINE a == phase + 1
           b == Len(stream)
           rest == From(stream, phase)
           length == IF a <= b THEN b - a + 1 ELSE 0
<1>1. a \in Int /\ b \in Int /\ \A i \in a .. b : stream[i] \in {0, 1}
  OBVIOUS
<1>2. rest = SubSeq(stream, a, b)
  BY DEF From
<1>3. Len(rest) = length /\ \A i \in 1 .. length : rest[i] = stream[a + i - 1]
  <2>1. /\ Len(SubSeq(stream, a, b)) = length
        /\ \A i \in 1 .. length : SubSeq(stream, a, b)[i] = stream[a + i - 1]
    <3> HIDE DEF a, b
    <3> QED
      BY <1>1, SubSeqProperties
  <2> QED
    BY <1>2, <2>1
<1> HIDE DEF rest
<1>4. ASSUME NEW i \in 1 .. (Len(rest) - period)
      PROVE  rest[i] = rest[i + period]
  <2>1. length = b - phase /\ i + period <= length /\ length \in Nat
    BY <1>3, <1>4
  <2>2. i \in 1 .. length /\ i + period \in 1 .. length
    BY <2>1
  <2>3. rest[i] = stream[a + i - 1] /\ rest[i + period] = stream[a + (i + period) - 1]
    BY <1>3, <2>2
  <2>4. a + i - 1 = phase + i /\ a + (i + period) - 1 = phase + i + period
    OBVIOUS
  <2>5. phase + i \in 1 .. (Len(stream) - period)
    BY <2>1
  <2>6. stream[phase + i] = stream[phase + i + period]
    BY <2>5 DEF Repeats
  <2> QED
    BY <2>3, <2>4, <2>6
<1> QED
  BY <1>4 DEF Repeats, rest

\* The windows of a stream, one by one.
LEMMA WindowsAre ==
    ASSUME NEW n, NEW width, IsCode(n, width), NEW stream, Len(stream) \in Int,
           NEW max \in Int
    PROVE  \A w \in DOMAIN Windows(stream, n, width, max) :
               /\ w \in Nat \ {0}
               /\ Windows(stream, n, width, max)[w] = Window(stream, (w - 1) * n, width)
               /\ (w - 1) * n + width <= Len(stream)
<1> DEFINE all == WindowCount(stream, n, width)
           used == IF max > 0 THEN Min({all, max}) ELSE all
           m == IF used < 0 THEN 0 ELSE used
           f == [w \in 1 .. used |-> Window(stream, (w - 1) * n, width)]
<1>1. all \in Int
  BY DivisionFacts DEF WindowCount, IsCode
<1>2. used \in Int /\ used <= all
  <2>1. Min({all, max}) \in {all, max} /\ Min({all, max}) <= all
    <3> HIDE DEF all
    <3>1. \E u \in {all, max} : \A v \in {all, max} : u <= v
      <4>1. CASE all <= max
        BY <1>1, <4>1
      <4>2. CASE ~(all <= max)
        BY <1>1, <4>2
      <4> QED
        BY <4>1, <4>2
    <3> QED
      BY <1>1, <3>1 DEF Min
  <2> HIDE DEF all
  <2> QED
    BY <1>1, <2>1
<1>3. f \in Seq(Vectors(width))
  <2> HIDE DEF used
  <2>1. m \in Nat /\ 1 .. used = 1 .. m
    BY <1>2
  <2> HIDE DEF m
  <2>2. \A w \in 1 .. used : Window(stream, (w - 1) * n, width) \in Vectors(width)
    BY DEF Window, Vectors
  <2>3. f \in [1 .. m -> Vectors(width)]
    BY <2>1, <2>2
  <2> HIDE DEF f
  <2> QED
    BY <2>1, <2>3, SeqDef
<1>4. Windows(stream, n, width, max) = f
  <2>1. Windows(stream, n, width, max) = f \o << >>
    BY DEF Windows
  <2> HIDE DEF f
  <2> QED
    BY <1>3, <2>1, ConcatEmptySeq
<1>5. ASSUME NEW w \in 1 .. used
      PROVE  w \in Nat \ {0} /\ (w - 1) * n + width <= Len(stream)
  <2> DEFINE room == Len(stream) - width
             k == w - 1
  <2>1. room \in Int /\ n \in Nat \ {0} /\ width \in Nat
    BY DEF IsCode
  <2>2. w \in Nat \ {0} /\ k \in Int /\ w <= all
    BY <1>1, <1>2
  <2>3. all = room \div n + 1
    BY DEF WindowCount
  <2> HIDE DEF room
  <2>4. room \div n >= k
    <3>1. room \div n \in Int
      BY <2>1, DivisionFacts
    <3> QED
      BY <2>2, <2>3, <3>1
  <2>5. room >= n * k
    <3> HIDE DEF k
    <3> QED
      BY <2>1, <2>2, <2>4, QuotientAtLeast
  <2>6. n * k = (w - 1) * n /\ n * k \in Int
    BY <2>1, <2>2
  <2> DEFINE start == (w - 1) * n
  <2>7. room >= start /\ start \in Int
    BY <2>5, <2>6
  <2> HIDE DEF start
  <2>8. start + width <= Len(stream)
    BY <2>1, <2>7 DEF room
  <2> QED
    BY <2>2, <2>8 DEF start
<1> HIDE DEF used
<1>6. DOMAIN f = 1 .. used /\ \A w \in 1 .. used : f[w] = Window(stream, (w - 1) * n, width)
  OBVIOUS
<1> HIDE DEF f
<1> QED
  BY <1>4, <1>5, <1>6

\* A stream that repeats after q symbols shows the same window q windows on.
LEMMA WindowsRepeat ==
    ASSUME NEW n, NEW width, IsCode(n, width), NEW stream, Len(stream) \in Int,
           NEW q \in Nat \ {0}, Repeats(stream, q * n),
           NEW k \in Nat, (k + q) * n + width <= Len(stream)
    PROVE  Window(stream, (k + q) * n, width) = Window(stream, k * n, width)
<1> DEFINE a == k * n
           d == q * n
<1>1. n \in Nat \ {0} /\ width \in Nat \ {0}
  BY DEF IsCode
<1>2. (k + q) * n = a + d /\ a \in Nat /\ d \in Nat
  BY <1>1
<1> HIDE DEF a, d
<1>3. ASSUME NEW i \in Bits(width) PROVE stream[a + i + 1] = stream[a + d + i + 1]
  <2>1. i \in Nat /\ i < width
    BY <1>1 DEF Bits
  <2>2. a + d + width <= Len(stream)
    BY <1>2
  <2>3. a + i + 1 \in 1 .. (Len(stream) - d) /\ (a + i + 1) + d = a + d + i + 1
    BY <1>1, <1>2, <2>1, <2>2
  <2>4. stream[a + i + 1] = stream[(a + i + 1) + d]
    BY <2>3 DEF Repeats, d
  <2> QED
    BY <2>3, <2>4
<1>4. Window(stream, a + d, width) = Window(stream, a, width)
  BY <1>3 DEF Window
<1> QED
  BY <1>2, <1>4 DEF a

\* So the checks of its first q windows are those of all its windows.
LEMMA FewWindowsShow ==
    ASSUME NEW n, NEW width, IsCode(n, width), NEW stream, Len(stream) \in Int,
           NEW max \in Int, NEW q \in Nat \ {0}, Repeats(stream, q * n)
    PROVE  \E first \in [1 .. q -> Vectors(width)] :
               Kept(first, q, width) \subseteq Complement(Windows(stream, n, width, max), width)
<1> DEFINE windows == Windows(stream, n, width, max)
           first == [w \in 1 .. q |-> IF w \in DOMAIN windows THEN windows[w] ELSE {}]
<1>1. PICK m \in Nat : windows \in [1 .. m -> Vectors(width)] /\ DOMAIN windows = 1 .. m
  BY WindowsFacts
<1>2. \A w \in 1 .. m : /\ windows[w] = Window(stream, (w - 1) * n, width)
                        /\ (w - 1) * n + width <= Len(stream)
  BY <1>1, WindowsAre
<1> HIDE DEF windows
<1>3. first \in [1 .. q -> Vectors(width)]
  <2>1. {} \in Vectors(width)
    BY DEF Vectors
  <2> QED
    BY <1>1, <2>1
<1>4. ASSUME NEW w \in 1 .. m, w > q
      PROVE  w - q \in 1 .. m /\ w - q < w /\ windows[w] = windows[w - q]
  <2> DEFINE k == w - q - 1
  <2>1. w - q \in 1 .. m /\ w - q < w /\ k \in Nat /\ k + q = w - 1 /\ k = (w - q) - 1
    BY <1>4
  <2>2. (k + q) * n + width <= Len(stream)
    BY <1>2, <2>1
  <2>3. Window(stream, (k + q) * n, width) = Window(stream, k * n, width)
    <3> HIDE DEF k
    <3> QED
      BY <2>1, <2>2, WindowsRepeat
  <2>4. windows[w] = Window(stream, (k + q) * n, width)
    BY <1>2, <2>1
  <2>5. windows[w - q] = Window(stream, k * n, width)
    BY <1>2, <2>1
  <2> QED
    BY <2>1, <2>3, <2>4, <2>5
<1>5. ASSUME NEW v \in Kept(first, q, width), NEW w \in 1 .. m PROVE Satisfies(windows[w], v)
  <2> DEFINE bad == {j \in 1 .. m : ~Satisfies(windows[j], v)}
  <2>1. SUFFICES ASSUME bad # {} PROVE FALSE
    OBVIOUS
  <2>2. bad \subseteq Nat
    OBVIOUS
  <2>3. PICK j \in bad : \A i \in bad : j <= i
    <3> HIDE DEF bad
    <3> QED
      BY <2>1, <2>2, LeastExists
  <2>4. CASE j <= q
    <3>1. j \in 1 .. q /\ first[j] = windows[j]
      BY <1>1, <2>4
    <3>2. Satisfies(first[j], v)
      BY <3>1 DEF Kept
    <3> QED
      BY <3>1, <3>2
  <2>5. CASE ~(j <= q)
    <3>1. j \in 1 .. m /\ j > q
      BY <2>5
    <3>2. j - q \in 1 .. m /\ j - q < j /\ windows[j] = windows[j - q]
      BY <1>4, <3>1
    <3>3. j - q \in bad
      BY <3>2
    <3>4. j <= j - q
      BY <2>3, <3>3
    <3> QED
      BY <3>1, <3>2, <3>4
  <2> QED
    BY <2>4, <2>5
<1>6. Kept(first, q, width) \subseteq Complement(windows, width)
  <2> HIDE DEF first
  <2>1. Kept(first, q, width) \subseteq Vectors(width)
    BY DEF Kept
  <2> QED
    BY <1>1, <1>5, <2>1 DEF Complement
<1> QED
  BY <1>3, <1>6 DEF windows

\* The windows of a stream that repeats leave more checks than a code has.
LEMMA RepeatingIsDegenerate ==
    ASSUME NEW n, NEW width, IsCode(n, width), NEW stream, Len(stream) \in Int,
           NEW max \in Int, NEW q \in 1 .. (width \div n - 1), Repeats(stream, q * n),
           NEW basis \in Bases(width),
           Complement(Windows(stream, n, width, max), width) \subseteq Span(basis)
    PROVE  Cardinality(basis) > MaxDual(n, width)
<1>1. PICK m \in 0 .. 10 : width = n * m /\ width \div n = m /\ m >= 2
  BY DEF IsCode
<1>2. n \in Nat \ {0} /\ width \in Nat
  BY DEF IsCode
<1>3. MaxDual(n, width) = width - m /\ q \in Nat \ {0} /\ q <= m - 1
  <2>1. MaxDual(n, width) = (n - 1) * m
    BY <1>1 DEF MaxDual
  <2>2. (n - 1) * m = n * m - m
    BY <1>2
  <2> QED
    BY <1>1, <2>1, <2>2
<1>4. q \in 0 .. width
  <2>1. n * m >= m
    BY <1>2
  <2> QED
    BY <1>1, <1>2, <1>3, <2>1
<1>5. PICK first \in [1 .. q -> Vectors(width)] :
         Kept(first, q, width) \subseteq Complement(Windows(stream, n, width, max), width)
  BY <1>3, FewWindowsShow
<1>6. Cardinality(basis) \in Nat /\ Cardinality(basis) >= width - q
  BY <1>2, <1>4, <1>5, BasisIsLarge
<1> QED
  BY <1>2, <1>3, <1>6

----------------------------------------------------------------------------
(* What the transform shows of such a stream.                              *)

\* No alignment exceeds a thousand, and a check that all windows obey has it.
LEMMA AlignmentFacts ==
    ASSUME NEW width \in Nat, NEW m \in Nat \ {0}, NEW windows \in [1 .. m -> Vectors(width)],
           NEW v \in Vectors(width)
    PROVE  /\ Alignment(Spectrum(windows, width)[v], m) \in Int
           /\ Alignment(Spectrum(windows, width)[v], m) <= 1000
           /\ v \in Complement(windows, width) =>
                  Alignment(Spectrum(windows, width)[v], m) = 1000
<1> DEFINE s == Spectrum(windows, width)[v]
           good == Cardinality(Satisfying(windows, v))
           size == Magnitude(s)
           a == Alignment(s, m)
<1>1. s = 2 * good - m /\ good \in Nat
  BY SpectrumFacts
<1>2. DOMAIN windows = 1 .. m /\ IsFiniteSet(1 .. m) /\ Cardinality(1 .. m) = m
  <2>1. 1 \in Int /\ m \in Int
    OBVIOUS
  <2>2. IsFiniteSet(1 .. m) /\ Cardinality(1 .. m) = IF 1 > m THEN 0 ELSE m - 1 + 1
    BY <2>1, FS_Interval
  <2> QED
    BY <2>2
<1>3. good <= m
  <2>1. Satisfying(windows, v) \in SUBSET (1 .. m)
    BY <1>2 DEF Satisfying
  <2> QED
    BY <1>2, <2>1, FS_Subset
<1>4. v \in Complement(windows, width) => good = m
  <2>1. v \in Complement(windows, width) => Satisfying(windows, v) = 1 .. m
    BY <1>2 DEF Satisfying, Complement
  <2> QED
    BY <1>2, <2>1
<1> HIDE DEF s, good
<1>5. s \in Int /\ size \in Nat /\ size <= m /\ (v \in Complement(windows, width) => size = m)
  <2>1. s \in Int
    BY <1>1
  <2>2. size = IF s < 0 THEN -s ELSE s
    BY DEF Magnitude
  <2> HIDE DEF size
  <2> QED
    BY <1>1, <1>3, <1>4, <2>1, <2>2
<1>6. a = (1000 * size) \div m /\ a \in Int
  <2>1. a \in Int
    BY <1>5, ScoreTypes
  <2> QED
    BY <2>1 DEF Alignment
<1> HIDE DEF a, size
<1> DEFINE t == 1000 * size
<1>7. t \in Int /\ t <= 1000 * m /\ (v \in Complement(windows, width) => t = 1000 * m)
  BY <1>5
<1>8. t \div m = a
  BY <1>6
<1> HIDE DEF t
<1>9. ~(a >= 1001)
  <2>1. t \div m >= 1001 <=> t >= m * 1001
    BY <1>7, QuotientAtLeast
  <2> QED
    BY <1>7, <1>8, <2>1
<1>10. v \in Complement(windows, width) => a >= 1000
  <2>1. t \div m >= 1000 <=> t >= m * 1000
    BY <1>7, QuotientAtLeast
  <2> QED
    BY <1>7, <1>8, <2>1
<1>11. a \in Int /\ a <= 1000 /\ (v \in Complement(windows, width) => a = 1000)
  BY <1>6, <1>9, <1>10
<1> QED
  BY <1>11 DEF a, s

\* A check that may still be picked.
Open(strength, floor, width, rows) ==
    {value \in DOMAIN Ascending(width) :
        /\ strength[Ascending(width)[value]] > floor
        /\ Reduce(rows, Ascending(width)[value]) # {}}

\* The checks picked are as many as the rows, span them, and are one more at
\* every pick, until none may be picked.
PickedSo(picked, strength, floor, width, r) ==
    /\ picked \in PickStates(width)
    /\ picked.found.basis \subseteq Span(picked.rows)
    /\ Cardinality(picked.found.basis) = Cardinality(picked.rows)
    /\ Cardinality(picked.rows) = r \/ Open(strength, floor, width, picked.rows) = {}

LEMMA PickAddsOne ==
    ASSUME NEW width \in Nat, width <= HardWindowCap,
           NEW strength \in [Vectors(width) -> Int], NEW floor \in Int, NEW r \in Nat,
           NEW picked, PickedSo(picked, strength, floor, width, r)
    PROVE  /\ PickedSo(Pick(strength, floor, width, picked), strength, floor, width, r + 1)
           /\ Open(strength, floor, width, picked.rows) = {} =>
                  Pick(strength, floor, width, picked) = picked
<1> DEFINE check == Ascending(width)
           m == 2^width - 1
           open == Open(strength, floor, width, picked.rows)
           f == [value \in open |-> strength[check[value]]]
           peak == Max({strength[check[value]] : value \in open})
           first == Min({value \in open : strength[check[value]] = peak})
           best == check[first]
           next == [rows |-> Insert(picked.rows, best),
                    found |-> [excess |-> picked.found.excess + peak - floor,
                               basis |-> picked.found.basis \cup {best}]]
<1>1. m \in Nat /\ check \in [1 .. m -> Vectors(width)] /\ DOMAIN check = 1 .. m
  BY AscendingFacts
<1>2. Pick(strength, floor, width, picked) = IF open = {} THEN picked ELSE next
  BY DEF Pick, Open
<1>3. Pick(strength, floor, width, picked) \in PickStates(width)
  BY PickType DEF PickedSo
<1>4. \A value \in open : value \in DOMAIN check /\ Reduce(picked.rows, check[value]) # {}
  BY DEF Open
<1> HIDE DEF m, check
<1>5. open \subseteq 1 .. m /\ open \subseteq 0 .. m
  BY <1>1, <1>4
<1>6. f \in [open -> Int]
  BY <1>1, <1>5
<1>7. peak = PeakOf(f, open) /\ first = FirstPeak(f, open)
  <2> HIDE DEF open
  <2>1. {f[x] : x \in open} = {strength[check[value]] : value \in open}
    OBVIOUS
  <2>2. peak = PeakOf(f, open)
    BY <2>1 DEF PeakOf
  <2> HIDE DEF peak
  <2>3. {x \in open : f[x] = PeakOf(f, open)} = {value \in open : strength[check[value]] = peak}
    BY <2>2
  <2> QED
    BY <2>2, <2>3 DEF FirstPeak
<1> HIDE DEF f, peak, first
<1>8. CASE open = {}
  BY <1>2, <1>3, <1>8 DEF PickedSo
<1>9. CASE open # {}
  <2> HIDE DEF open
  <2>1. first \in open
    BY <1>1, <1>5, <1>6, <1>7, <1>9, PeakFacts
  <2>2. best \in Vectors(width) /\ Reduce(picked.rows, best) # {}
    BY <1>1, <1>4, <1>5, <2>1
  <2> HIDE DEF best
  <2> DEFINE rows == picked.rows
             basis == picked.found.basis
             moreRows == Insert(rows, best)
             moreBasis == basis \cup {best}
  <2>3. /\ Ech(rows, width) /\ basis \in Bases(width) /\ basis \subseteq Span(rows)
        /\ Cardinality(basis) = Cardinality(rows)
        /\ Cardinality(rows) = r \/ open = {}
    BY DEF PickedSo, PickStates, EchSets, Shown, open
  <2>4. next.rows = moreRows /\ next.found.basis = moreBasis
    OBVIOUS
  <2>5. Pick(strength, floor, width, picked) = next
    BY <1>2, <1>9
  <2> HIDE DEF next, rows, basis
  <2>6. Cardinality(rows) \in Nat /\ Cardinality(moreRows) = Cardinality(rows) + 1
    BY <2>2, <2>3, InsertAddsOne DEF rows
  <2>7. ~(best \in basis)
    BY <2>2, <2>3, SpannedReduces DEF rows
  <2>8. Cardinality(moreBasis) = Cardinality(basis) + 1
    <3>1. IsFiniteSet(basis)
      BY <2>3, BasesFacts
    <3> QED
      BY <2>7, <3>1, FS_AddElement
  <2>9. moreBasis \subseteq Span(moreRows)
    <3>1. rows \subseteq moreRows /\ best \in Span(moreRows)
      BY <2>2, <2>3, InsertFacts
    <3>2. Span(rows) \subseteq Span(moreRows)
      BY <3>1, SpanGrows
    <3> QED
      BY <2>3, <3>1, <3>2
  <2>10. Cardinality(moreRows) = r + 1
    BY <1>9, <2>3, <2>6
  <2>11. Cardinality(moreBasis) = Cardinality(moreRows)
    BY <2>3, <2>6, <2>8
  <2> HIDE DEF moreRows, moreBasis
  <2>12. PickedSo(next, strength, floor, width, r + 1)
    BY <1>3, <2>4, <2>5, <2>9, <2>10, <2>11 DEF PickedSo
  <2> QED
    BY <1>9, <2>5, <2>12 DEF open
<1> QED
  BY <1>8, <1>9

\* What the picks of a spectrum come to.
LEMMA PicksCome ==
    ASSUME NEW width \in Nat, width <= HardWindowCap,
           NEW spectrum \in [Vectors(width) -> Int], NEW count \in Nat \ {0},
           NEW strength, strength = [v \in DOMAIN spectrum |-> Alignment(spectrum[v], count)],
           NEW floor, floor = PeakFloor(width, count)
    PROVE  /\ strength \in [Vectors(width) -> Int] /\ floor \in Int
           /\ \E picked : /\ PickedSo(picked, strength, floor, width, width)
                          /\ SpectralExcess(spectrum, count, width) = picked.found
                          /\ Open(strength, floor, width, {}) = {} => picked.found = Nothing
<1> DEFINE V == PickStates(width)
           base == [rows |-> {}, found |-> Nothing]
           step == [p \in (1 .. width) \X V |-> Pick(strength, floor, width, p[2])]
           Unfolds(f) == f = [r \in 0 .. width |->
                                 IF r = 0 THEN base
                                 ELSE Pick(strength, floor, width, f[r - 1])]
           h == CHOOSE f : Unfolds(f)
<1>1. strength \in [Vectors(width) -> Int] /\ floor \in Int
  BY ScoreTypes
<1>2. SpectralExcess(spectrum, count, width) = h[width].found
  BY SpectralExcessIsChosen
<1>3. base \in V
  BY NothingIsShown DEF PickStates, EchSets, Ech, Bases
<1>4. PickedSo(base, strength, floor, width, 0)
  <2>1. base.rows = {} /\ base.found.basis = {} /\ {} \in Bases(width)
    BY DEF Nothing, Bases
  <2>2. Cardinality({}) = 0
    BY FS_EmptySet
  <2> QED
    BY <1>3, <2>1, <2>2 DEF PickedSo
<1>5. ASSUME NEW picked \in V PROVE Pick(strength, floor, width, picked) \in V
  BY <1>1, PickType
<1>6. base.rows = {} /\ base.found = Nothing
  OBVIOUS
<1> HIDE DEF V, base
<1>7. step \in [(1 .. width) \X V -> V]
  <2>1. \A p \in (1 .. width) \X V : p[2] \in V
    OBVIOUS
  <2> QED
    BY <1>5, <2>1
<1>8. PICK f \in [0 .. width -> V] : Solves(f, base, step, width)
  <2> HIDE DEF step
  <2> QED
    BY <1>3, <1>7, RecursionExists
<1>9. ASSUME NEW r \in 0 .. width
      PROVE  f[r] = IF r = 0 THEN base ELSE Pick(strength, floor, width, f[r - 1])
  <2>1. CASE r = 0
    BY <1>8, <2>1 DEF Solves
  <2>2. CASE r # 0
    <3>1. r \in 1 .. width /\ r - 1 \in 0 .. width
      BY <2>2
    <3>2. f[r] = step[<<r, f[r - 1]>>]
      <4> HIDE DEF step
      <4> QED
        BY <1>8, <2>2 DEF Solves
    <3>3. f[r - 1] \in V
      BY <3>1
    <3> QED
      BY <2>2, <3>1, <3>2, <3>3
  <2> QED
    BY <2>1, <2>2
<1>10. Unfolds(f)
  <2>1. f = [r \in 0 .. width |-> f[r]]
    OBVIOUS
  <2>2. [r \in 0 .. width |-> f[r]]
           = [r \in 0 .. width |-> IF r = 0 THEN base
                                   ELSE Pick(strength, floor, width, f[r - 1])]
    BY <1>9, Zenon
  <2> QED
    BY <2>1, <2>2
<1>11. Unfolds(h)
  <2> HIDE DEF Unfolds
  <2> QED
    BY <1>10
<1> HIDE DEF h
<1>12. ASSUME NEW r \in 0 .. width
       PROVE  h[r] = IF r = 0 THEN base ELSE Pick(strength, floor, width, h[r - 1])
  BY <1>11
<1> DEFINE none == Open(strength, floor, width, {}) = {}
           T == {r \in 0 .. width : /\ PickedSo(h[r], strength, floor, width, r)
                                    /\ none => h[r] = base}
<1>13. 0 \in T
  <2>1. 0 \in 0 .. width
    OBVIOUS
  <2>2. h[0] = base
    BY <1>12, <2>1
  <2> QED
    BY <1>4, <2>1, <2>2
<1>14. ASSUME NEW k \in 1 .. width, k - 1 \in T PROVE k \in T
  <2> DEFINE j == k - 1
  <2>1. k \in 0 .. width /\ k # 0 /\ j \in Nat /\ k = j + 1
    OBVIOUS
  <2>2. h[k] = Pick(strength, floor, width, h[j])
    BY <1>12, <2>1
  <2>3. PickedSo(h[j], strength, floor, width, j) /\ (none => h[j] = base)
    BY <1>14
  <2> HIDE DEF j, none
  <2>4. /\ PickedSo(Pick(strength, floor, width, h[j]), strength, floor, width, j + 1)
        /\ Open(strength, floor, width, h[j].rows) = {} => Pick(strength, floor, width, h[j]) = h[j]
    BY <1>1, <2>1, <2>3, PickAddsOne, SMTT(30)
  <2>5. none => h[k] = base
    BY <1>6, <2>2, <2>3, <2>4 DEF none
  <2> QED
    BY <2>1, <2>2, <2>4, <2>5
<1>15. width \in T
  <2>1. 0 .. width \subseteq T
    <3> HIDE DEF T
    <3> QED
      BY <1>13, <1>14, BoundedInduction
  <2> QED
    BY <2>1
<1> QED
  BY <1>1, <1>2, <1>6, <1>15

\* The picks of the transform of few windows are either none at all or too
\* many for a code.
LEMMA TransformShowsNothing ==
    ASSUME NEW n, NEW width, IsCode(n, width), NEW stream, Len(stream) \in Int,
           Len(stream) >= width, NEW q \in 1 .. (width \div n - 1), Repeats(stream, q * n)
    PROVE  LET windows == Windows(stream, n, width, MaxCrossWindows)
           IN  Genuine(SpectralExcess(Spectrum(windows, width), Len(windows), width), n, width)
                   = Nothing
<1> DEFINE windows == Windows(stream, n, width, MaxCrossWindows)
           count == Len(windows)
           spectrum == Spectrum(windows, width)
           strength == [v \in DOMAIN spectrum |-> Alignment(spectrum[v], count)]
           floor == PeakFloor(width, count)
           found == SpectralExcess(spectrum, count, width)
<1>1. width \in Nat /\ width <= HardWindowCap /\ MaxCrossWindows \in Int /\ MaxCrossWindows > 0
  BY DriftAssumption DEF IsCode
<1>2. windows \in [1 .. count -> Vectors(width)] /\ count \in Nat \ {0}
  <2>1. PICK m \in Nat : /\ windows \in [1 .. m -> Vectors(width)]
                         /\ Len(windows) = m
                         /\ Len(stream) >= width /\ MaxCrossWindows > 0 => m > 0
    BY <1>1, WindowsFacts
  <2> HIDE DEF windows
  <2> QED
    BY <1>1, <2>1
<1>3. \A basis \in Bases(width) : Complement(windows, width) \subseteq Span(basis) =>
          Cardinality(basis) > MaxDual(n, width)
  BY <1>1, RepeatingIsDegenerate
<1> HIDE DEF windows, count
<1>4. spectrum \in [Vectors(width) -> Int]
  <2>1. {} \in Vectors(width)
    BY DEF Vectors
  <2> QED
    BY <1>1, <1>2, <2>1, SpectrumFacts
<1>5. \A v \in Vectors(width) : /\ strength[v] \in Int /\ strength[v] <= 1000
                                /\ v \in Complement(windows, width) => strength[v] = 1000
  <2>1. \A v \in Vectors(width) : strength[v] = Alignment(Spectrum(windows, width)[v], count)
    BY <1>4
  <2> HIDE DEF strength
  <2> QED
    BY <1>1, <1>2, <2>1, AlignmentFacts
<1> HIDE DEF spectrum
<1>6. /\ strength \in [Vectors(width) -> Int] /\ floor \in Int
      /\ \E picked : /\ PickedSo(picked, strength, floor, width, width)
                     /\ found = picked.found
                     /\ Open(strength, floor, width, {}) = {} => picked.found = Nothing
  <2> DEFINE st == strength
             fl == floor
  <2>1. st = [v \in DOMAIN spectrum |-> Alignment(spectrum[v], count)] /\ fl = PeakFloor(width, count)
    OBVIOUS
  <2> HIDE DEF st, fl
  <2>2. /\ st \in [Vectors(width) -> Int] /\ fl \in Int
        /\ \E picked : /\ PickedSo(picked, st, fl, width, width)
                       /\ SpectralExcess(spectrum, count, width) = picked.found
                       /\ Open(st, fl, width, {}) = {} => picked.found = Nothing
    BY <1>1, <1>2, <1>4, <2>1, PicksCome, SMTT(30)
  <2> QED
    BY <2>2 DEF st, fl
<1>7. PICK picked : /\ PickedSo(picked, strength, floor, width, width)
                    /\ found = picked.found
                    /\ Open(strength, floor, width, {}) = {} => picked.found = Nothing
  BY <1>6
<1> HIDE DEF strength, floor, found
<1>8. \A value \in DOMAIN Ascending(width) : Ascending(width)[value] \in Vectors(width)
  BY <1>1, AscendingFacts
<1>9. CASE floor >= 1000
  <2>1. \A value \in DOMAIN Ascending(width) : ~(strength[Ascending(width)[value]] > floor)
    <3> SUFFICES ASSUME NEW value \in DOMAIN Ascending(width)
                 PROVE  ~(strength[Ascending(width)[value]] > floor)
      OBVIOUS
    <3> DEFINE s == strength[Ascending(width)[value]]
    <3>1. s \in Int /\ s <= 1000
      BY <1>5, <1>8
    <3> HIDE DEF s
    <3>2. ~(s > floor)
      BY <1>6, <1>9, <3>1
    <3> QED
      BY <3>2 DEF s
  <2>2. Open(strength, floor, width, {}) = {}
    BY <2>1 DEF Open
  <2>3. found = Nothing
    BY <1>7, <2>2
  <2> QED
    BY <2>3 DEF Genuine, found, count, spectrum, windows
<1>10. CASE ~(floor >= 1000)
  <2> DEFINE rows == picked.rows
             basis == picked.found.basis
  <2>1. /\ Ech(rows, width) /\ rows \in Bases(width) /\ basis \in Bases(width)
        /\ Cardinality(basis) = Cardinality(rows)
        /\ Cardinality(rows) = width \/ Open(strength, floor, width, rows) = {}
    BY <1>7 DEF PickedSo, PickStates, EchSets, Shown
  <2> HIDE DEF rows, basis
  <2>2. CASE Open(strength, floor, width, rows) = {}
    <3>1. ASSUME NEW v \in Complement(windows, width) PROVE v \in Span(rows)
      <4>1. v \in Vectors(width)
        BY DEF Complement
      <4>2. CASE v = {}
        BY <2>1, <4>2, <1>1, EchSpan
      <4>3. CASE v # {}
        <5>1. PICK value \in 1 .. (2^width - 1) : Ascending(width)[value] = v
          BY <1>1, <4>1, <4>3, AscendingFacts
        <5>2. value \in DOMAIN Ascending(width)
          BY <1>1, AscendingFacts
        <5>3. strength[v] > floor
          <6>1. strength[v] = 1000
            BY <1>5, <4>1
          <6> QED
            BY <1>6, <1>10, <6>1
        <5>4. Reduce(rows, v) = {}
          BY <2>2, <5>1, <5>2, <5>3 DEF Open
        <5>5. SymDiff(v, Reduce(rows, v)) \in Span(rows)
          BY <1>1, <2>1, <4>1, ReduceFacts
        <5>6. SymDiff(v, {}) = v
          BY DEF SymDiff
        <5> QED
          BY <5>4, <5>5, <5>6
      <4> QED
        BY <4>2, <4>3
    <3>2. Cardinality(rows) > MaxDual(n, width)
      BY <1>3, <2>1, <3>1
    <3> QED
      BY <1>7, <2>1, <3>2 DEF Genuine, basis, found, count, spectrum, windows
  <2>3. CASE Cardinality(rows) = width
    <3>1. PICK m \in 1 .. 10 : width = n * m /\ width \div n = m /\ n \in Nat \ {0}
      BY DEF IsCode
    <3>2. MaxDual(n, width) = (n - 1) * m
      BY <3>1 DEF MaxDual
    <3>3. (n - 1) * m = n * m - m
      BY <3>1
    <3>4. width > MaxDual(n, width)
      BY <1>1, <3>1, <3>2, <3>3
    <3> QED
      BY <1>7, <2>1, <2>3, <3>4 DEF Genuine, basis, found, count, spectrum, windows
  <2> QED
    BY <2>1, <2>2, <2>3
<1> QED
  BY <1>1, <1>6, <1>9, <1>10

----------------------------------------------------------------------------
(* No phase of such a stream shows a code.                                 *)

\* What the null space of one segment shows.
ShownBy(stream, n, width, phase, segment) ==
    LET length == SegmentFactor * width
        basis == NullSpace(From(From(stream, phase), segment * length * n), n, width, length)
    IN  Genuine([excess |-> FixedExcess(stream, n, width, phase, basis),
                 basis |-> basis], n, width)

LEMMA SegmentShowsNothing ==
    ASSUME NEW n, NEW width, IsCode(n, width), NEW stream \in Seq({0, 1}),
           NEW q \in 1 .. (width \div n - 1), Repeats(stream, q * n),
           NEW phase \in Nat, NEW segment \in Nat
    PROVE  ShownBy(stream, n, width, phase, segment) = Nothing
<1> DEFINE length == SegmentFactor * width
           skipped == segment * length * n
           rest == From(From(stream, phase), skipped)
           basis == NullSpace(rest, n, width, length)
           excess == FixedExcess(stream, n, width, phase, basis)
           found == [excess |-> excess, basis |-> basis]
<1>1. n \in Nat \ {0} /\ width \in Nat \ {0} /\ SegmentFactor \in Nat \ {0}
  BY WindowAssumption DEF IsCode
<1>2. length \in Nat
  BY <1>1
<1>3. skipped \in Nat
  <2> HIDE DEF length
  <2> QED
    BY <1>1, <1>2
<1>4. q * n \in Nat
  <2>1. q \in Nat
    OBVIOUS
  <2> QED
    BY <1>1, <2>1
<1> HIDE DEF length, skipped
<1>5. rest \in Seq({0, 1}) /\ Len(rest) \in Int /\ Repeats(rest, q * n)
  <2>1. From(stream, phase) \in Seq({0, 1}) /\ Repeats(From(stream, phase), q * n)
    BY <1>4, FromType, FromRepeats
  <2> QED
    BY <1>3, <1>4, <2>1, FromType, FromRepeats
<1> HIDE DEF rest
<1>6. /\ basis \in Bases(width)
      /\ Span(basis) = Complement(Windows(rest, n, width, length), width)
  BY <1>2, <1>5, NullSpaceFacts
<1> HIDE DEF basis
<1>7. Cardinality(basis) > MaxDual(n, width)
  BY <1>2, <1>5, <1>6, RepeatingIsDegenerate
<1>8. Genuine(found, n, width) = Nothing
  BY <1>7 DEF Genuine
<1> QED
  BY <1>8 DEF ShownBy, found, excess, basis, rest, skipped, length

LEMMA ScanWideIsChosen ==
    ASSUME NEW stream, NEW n, NEW width, NEW phase
    PROVE  LET last == Segments(From(stream, phase), n, width, SegmentFactor * width)
           IN  ScanWide(stream, n, width, phase) =
               (CHOOSE f : f = [s \in 0 .. last |->
                                   IF s = 0 THEN Nothing
                                   ELSE Better(ShownBy(stream, n, width, phase, s - 1),
                                               f[s - 1])])[last]
  BY DEF ScanWide, ShownBy

LEMMA SegmentsType ==
    ASSUME NEW n, NEW width, IsCode(n, width), NEW stream, Len(stream) \in Int,
           NEW length \in Nat \ {0}
    PROVE  Segments(stream, n, width, length) \in Nat
<1> DEFINE count == WindowCount(stream, n, width)
           need == MinRecoveryWindows(n, width)
           room == count - need
           all == room \div length
<1>1. count \in Int
  BY CrossWindowsFacts
<1>2. need \in Int
  BY WindowAssumption DEF IsCode, MinRecoveryWindows
<1>3. Segments(stream, n, width, length) = IF count < need THEN 0 ELSE all + 1
  BY DEF Segments
<1> HIDE DEF count, need
<1>4. ~(count < need) => room \in Nat
  BY <1>1, <1>2
<1> HIDE DEF room
<1>5. room \in Nat => all \in Nat
  BY QuotientIsNatural
<1> HIDE DEF all
<1> QED
  BY <1>3, <1>4, <1>5

LEMMA ScanShowsNothing ==
    ASSUME NEW n, NEW width, IsCode(n, width), NEW stream \in Seq({0, 1}),
           NEW q \in 1 .. (width \div n - 1), Repeats(stream, q * n), NEW phase \in Nat
    PROVE  ScanWide(stream, n, width, phase) = Nothing
<1> DEFINE last == Segments(From(stream, phase), n, width, SegmentFactor * width)
           V == {Nothing}
           step == [p \in (1 .. last) \X V |-> Nothing]
           Unfolds(f) == f = [s \in 0 .. last |->
                                 IF s = 0 THEN Nothing
                                 ELSE Better(ShownBy(stream, n, width, phase, s - 1), f[s - 1])]
           h == CHOOSE f : Unfolds(f)
<1>1. last \in Nat
  <2>1. Len(From(stream, phase)) \in Int
    BY FromType
  <2>2. SegmentFactor * width \in Nat \ {0}
    BY WindowAssumption DEF IsCode
  <2> QED
    BY <2>1, <2>2, SegmentsType
<1>2. ScanWide(stream, n, width, phase) = h[last]
  BY ScanWideIsChosen
<1> HIDE DEF last
<1>3. ASSUME NEW s \in 1 .. last
      PROVE  Better(ShownBy(stream, n, width, phase, s - 1), Nothing) = Nothing
  <2>1. s - 1 \in Nat
    OBVIOUS
  <2>2. ShownBy(stream, n, width, phase, s - 1) = Nothing
    BY <2>1, SegmentShowsNothing
  <2> QED
    BY <2>2 DEF Better
<1> DEFINE f == [s \in 0 .. last |-> Nothing]
<1>4. ASSUME NEW s \in 0 .. last
      PROVE  f[s] = IF s = 0 THEN Nothing
                    ELSE Better(ShownBy(stream, n, width, phase, s - 1), f[s - 1])
  <2>1. CASE s = 0
    BY <2>1
  <2>2. CASE s # 0
    <3>1. s \in 1 .. last /\ s - 1 \in 0 .. last
      BY <1>1, <2>2
    <3>2. f[s - 1] = Nothing
      BY <3>1
    <3> QED
      BY <1>3, <2>2, <3>1, <3>2
  <2> QED
    BY <2>1, <2>2
<1>5. Unfolds(f)
  <2>1. f = [s \in 0 .. last |-> f[s]]
    OBVIOUS
  <2> HIDE DEF f
  <2>2. [s \in 0 .. last |-> f[s]]
           = [s \in 0 .. last |-> IF s = 0 THEN Nothing
                 ELSE Better(ShownBy(stream, n, width, phase, s - 1), f[s - 1])]
    BY <1>4, Zenon
  <2> QED
    BY <2>1, <2>2
<1>6. Unfolds(h)
  <2> HIDE DEF Unfolds, f
  <2> QED
    BY <1>5
<1> HIDE DEF h
<1>7. ASSUME NEW s \in 0 .. last
      PROVE  h[s] = IF s = 0 THEN Nothing
                    ELSE Better(ShownBy(stream, n, width, phase, s - 1), h[s - 1])
  BY <1>6
<1> DEFINE T == {s \in 0 .. last : h[s] = Nothing}
<1>8. 0 \in T
  BY <1>1, <1>7
<1>9. ASSUME NEW k \in 1 .. last, k - 1 \in T PROVE k \in T
  <2>1. k \in 0 .. last /\ k # 0
    BY <1>1
  <2>2. h[k] = Better(ShownBy(stream, n, width, phase, k - 1), h[k - 1])
    BY <1>7, <2>1
  <2> QED
    BY <1>3, <1>9, <2>1, <2>2
<1>10. last \in T
  <2>1. 0 .. last \subseteq T
    <3> HIDE DEF T
    <3> QED
      BY <1>1, <1>8, <1>9, BoundedInduction
  <2> QED
    BY <1>1, <2>1
<1> QED
  BY <1>2, <1>10

LEMMA PhaseShowsNothing ==
    ASSUME NEW n, NEW width, IsCode(n, width), NEW stream \in Seq({0, 1}),
           NEW q \in 1 .. (width \div n - 1), Repeats(stream, q * n), NEW phase \in Nat
    PROVE  PhaseScore(stream, n, width, phase) = 0
<1>1. PhaseFound(stream, n, width, phase) = Nothing
  <2>1. CASE width <= MaxWindowBits
    <3>1. PhaseFound(stream, n, width, phase) = PhaseExcess(stream, n, width, phase)
      BY <2>1 DEF PhaseFound
    <3>2. CASE phase + width > Len(stream)
      BY <3>1, <3>2 DEF PhaseExcess
    <3>3. CASE ~(phase + width > Len(stream))
      <4> DEFINE rest == From(stream, phase)
      <4>1. width \in Nat /\ n \in Nat /\ q \in Nat
        BY DEF IsCode
      <4>2. Len(stream) \in Nat /\ phase <= Len(stream)
        BY <3>3, <4>1
      <4>3. Len(rest) = Len(stream) - phase
        BY <4>2, FromLength
      <4>4. q * n \in Nat
        BY <4>1
      <4>5. Repeats(rest, q * n)
        BY <4>4, FromRepeats
      <4> HIDE DEF rest
      <4>6. Len(rest) \in Int /\ Len(rest) >= width
        BY <3>3, <4>1, <4>2, <4>3
      <4>7. LET windows == Windows(rest, n, width, MaxCrossWindows)
            IN  Genuine(SpectralExcess(Spectrum(windows, width), Len(windows), width), n, width)
                    = Nothing
        BY <4>5, <4>6, TransformShowsNothing
      <4>8. PhaseExcess(stream, n, width, phase) = Nothing
        BY <3>3, <4>7 DEF PhaseExcess, rest
      <4> QED
        BY <3>1, <4>8
    <3> QED
      BY <3>2, <3>3
  <2>2. CASE ~(width <= MaxWindowBits)
    BY <2>2, ScanShowsNothing DEF PhaseFound
  <2> QED
    BY <2>1, <2>2
<1> QED
  BY <1>1 DEF PhaseScore, Drifted, Nothing

\* A stream that repeats after fewer symbols than a window spans is never
\* taken for a code, by any transform, any segment and at any phase: its windows are too few to
\* leave as few checks as a code has (compare.c:751-753).
THEOREM RepeatingIsNeverACode == Spec => []DegenerateIsNoCode
<1>1. CompareInv => DegenerateIsNoCode
  <2> SUFFICES ASSUME CompareInv, Answered("detect"), ~Refused(call),
                      NEW q \in 1 .. (Width \div call.n - 1),
                      Repeats(call.lhs, q * call.n)
               PROVE  result.good <= 0
    BY DEF DegenerateIsNoCode
  <2>1. Given /\ call.op = "detect"
        /\ result = IF Refused(call) THEN Undetermined ELSE Answer(call)
    BY DEF CompareInv, Answered
  <2>2. CASE Refused(call)
    BY <2>1, <2>2 DEF Undetermined, Fraction
  <2>3. CASE ~Refused(call)
    <3> DEFINE n == call.n
               width == Width
               stream == call.lhs
               scores == {PhaseScore(stream, n, width, p) : p \in 0 .. (n - 1)}
    <3>1. IsCode(n, width) /\ stream \in Seq({0, 1}) /\ width = WindowBits(n, call.k)
      BY <2>1, <2>3, AcceptedFacts
    <3>2. n \in Nat \ {0}
      BY <3>1 DEF IsCode
    <3>3. result = Fraction(Confidence(stream, n, width), 1000)
      BY <2>1, <2>3 DEF Answer, Width
    <3>4. q \in 1 .. (width \div n - 1) /\ Repeats(stream, q * n)
      OBVIOUS
    <3> HIDE DEF n, width, stream
    <3>5. \A p \in 0 .. (n - 1) : PhaseScore(stream, n, width, p) = 0
      <4>1. \A p \in 0 .. (n - 1) : p \in Nat
        OBVIOUS
      <4> QED
        BY <3>1, <3>4, <4>1, PhaseShowsNothing
    <3>6. scores = {0}
      <4>1. 0 \in 0 .. (n - 1)
        BY <3>2
      <4> QED
        BY <3>5, <4>1
    <3> HIDE DEF scores
    <3>7. Max(scores) = 0 /\ Min({1000, 0}) = 0
      <4>1. Max({0}) \in {0}
        BY DEF Max
      <4>2. Min({1000, 0}) = 0
        <5>1. {1000, 0} \subseteq Nat /\ 0 \in {1000, 0} /\ \A a \in {1000, 0} : 0 <= a
          OBVIOUS
        <5> QED
          BY <5>1, LeastIs
      <4> QED
        BY <3>6, <4>1, <4>2
    <3>8. Confidence(stream, n, width) = 0
      <4>1. Confidence(stream, n, width) = Min({1000, Max(scores)})
        BY DEF Confidence, scores
      <4> QED
        BY <3>7, <4>1
    <3> QED
      BY <3>3, <3>8 DEF Fraction
  <2> QED
    BY <2>2, <2>3
<1> QED
  BY <1>1, AnswersAreComputed, PTL
=============================================================================
