-------------------------- MODULE CrossSatisfaction --------------------------
(* How well one stream obeys given parity checks when its frame may slip   *)
(* (dv_cross_satisfaction of compare.c): a Viterbi search over the framing *)
(* offset, one row of cells per window.  Costs are -log probabilities in   *)
(* thousandths.                                                            *)
EXTENDS DualSpace

CONSTANTS
    MaxDrift,            \* DV_MAX_DRIFT: of the offset of the first window
    MaxCumulativeDrift,  \* DV_MAX_CUMULATIVE_DRIFT: of every later one
    MaxCrossWindows      \* DV_MAX_CROSS_WINDOWS

ASSUME DriftAssumption ==
    /\ MaxDrift \in Nat /\ MaxCumulativeDrift \in Nat
    /\ MaxCrossWindows \in Nat \ {0}

CostMatch == 51     \* -log(1 - DV_NOMINAL_P_SUB)
CostMiss == 2996    \* -log(DV_NOMINAL_P_SUB)
CostIndel == 3912   \* -log(DV_NOMINAL_P_INDEL)

\* The offset axis, and the offset an index stands for.
Indexes == 1 .. (2 * MaxCumulativeDrift + 1)
Offset(i) == i - 1 - MaxCumulativeDrift

\* A cell of a row: the cost of the cheapest path to it and its satisfied
\* checks.  -1 is the infinite cost.
NoPath == [cost |-> -1, good |-> 0]

\* dv_window_good.
Good(stream, position, width, basis) ==
    Cardinality({c \in basis : Satisfies(Window(stream, position, width), c)})

Fits(stream, position, width) == position >= 0 /\ position + width <= Len(stream)

\* What a window adds to a path.
Extend(cell, good, dimension) ==
    IF cell = NoPath THEN NoPath
    ELSE [cost |-> cell.cost + (dimension - good) * CostMiss + good * CostMatch,
          good |-> cell.good + good]

\* The cheapest of the cells S of a row, the first of equals.
Cheapest(row, S) ==
    LET live == {i \in S : row[i] # NoPath}
        least == Min({row[i].cost : i \in live})
    IN  IF live = {} THEN NoPath
        ELSE row[Min({i \in live : row[i].cost = least})]

\* Mutant: a step of the offset is free.
Mutant_Best(row, i) == Cheapest(row, {i - 1, i, i + 1} \cap DOMAIN row)

\* The best predecessor of index i: a step of the offset pays CostIndel.
Best(row, i) ==
    LET stepped == [p \in {i - 1, i, i + 1} \cap DOMAIN row |->
                       IF p = i \/ row[p] = NoPath THEN row[p]
                       ELSE [row[p] EXCEPT !.cost = @ + CostIndel]]
    IN  Cheapest(stepped, DOMAIN stepped)

FirstRow(stream, width, basis) ==
    [i \in Indexes |->
        IF Offset(i) \in 0 .. MaxDrift /\ Fits(stream, Offset(i), width)
        THEN Extend([cost |-> 0, good |-> 0],
                    Good(stream, Offset(i), width, basis), Cardinality(basis))
        ELSE NoPath]

NextRow(stream, n, width, basis, row, w) ==
    [i \in Indexes |->
        LET position == w * n + Offset(i)
        IN  IF Fits(stream, position, width)
            THEN Extend(Best(row, i), Good(stream, position, width, basis),
                        Cardinality(basis))
            ELSE NoPath]

CrossWindows(stream, n, width) ==
    Min({WindowCount(stream, n, width), MaxCrossWindows})

\* The row of the last of the windows.
LastRow(stream, n, width, basis, windows) ==
    LET row[w \in 0 .. (windows - 1)] ==
            IF w = 0 THEN FirstRow(stream, width, basis)
            ELSE NextRow(stream, n, width, basis, row[w - 1], w)
    IN  row[windows - 1]

\* A fraction of satisfied checks; the code divides the two.
Fraction(good, total) == [good |-> good, total |-> total]
Above(f, g) == f.good * g.total > g.good * f.total
AtLeast(f, percent) == 100 * f.good >= percent * f.total

\* dv_cross_satisfaction.  No path leaves the good of NoPath, 0.
Satisfaction(stream, n, width, basis) ==
    LET windows == CrossWindows(stream, n, width)
        last == LastRow(stream, n, width, basis, windows)
    IN  IF windows < 1 THEN Fraction(0, 1)
        ELSE Fraction(Cheapest(last, Indexes).good, windows * Cardinality(basis))
=============================================================================
