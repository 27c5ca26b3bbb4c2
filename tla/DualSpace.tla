------------------------------ MODULE DualSpace ------------------------------
(* How compare.c recovers, blindly, the parity checks that a stream obeys: *)
(* its dual space over GF(2).  A window or a parity vector, packed into a  *)
(* uint32_t there, is the set of its bit positions here, so that xor is    *)
(* the symmetric difference, and a basis is the set of its vectors: no     *)
(* result depends on the order they are stored in.  A stream is a sequence *)
(* of bits, as only the low bit of a byte counts (an erasure reads as 1).  *)
EXTENDS Integers, Sequences, FiniteSets, FiniteSetsExt, SequencesExt

CONSTANTS
    MaxWindowBits,   \* DV_MAX_WINDOW_BITS: widest window of the transform
    HardWindowCap,   \* DV_HARD_WINDOW_CAP: widest window at all
    IntMax,          \* INT_MAX
    RecoveryMargin,  \* the 8 of dv_min_recovery_windows
    SegmentFactor    \* the 4 of the windows in a segment, 4 * window_bits

ASSUME WindowAssumption ==
    /\ MaxWindowBits \in Nat /\ HardWindowCap \in Nat
    /\ IntMax \in Nat /\ 10 * HardWindowCap <= IntMax
    /\ RecoveryMargin \in Nat \ {0} /\ SegmentFactor \in Nat \ {0}

\* A signed int product: what does not fit wraps around.
Wrap(product) ==
    ((product + IntMax + 1) % (2 * IntMax + 2)) - IntMax - 1

\* dv_window_bits: 0 when the code is out of range.  The product of a huge n
\* may wrap around into the range, to a width below n.
WindowBits(n, k) ==
    LET width == Wrap(n * (k + 1))
    IN  IF n >= 1 /\ k \in 2 .. 9 /\ width \in 1 .. HardWindowCap THEN width ELSE 0

\* dv_min_recovery_windows; its lower clamp never applies to a quotient of
\* positive numbers.
MinRecoveryWindows(n, width) == width \div n + RecoveryMargin

Bits(width) == 0 .. (width - 1)
Vectors(width) == SUBSET Bits(width)

\* dv_window: the bits from `start` on, a 0-based position of the stream.
Window(stream, start, width) ==
    {i \in Bits(width) : stream[start + i + 1] = 1}

WindowCount(stream, n, width) == (Len(stream) - width) \div n + 1

\* The segments of `length` windows of a stream that start early enough to be
\* recovered from.
Segments(stream, n, width, length) ==
    LET count == WindowCount(stream, n, width)
        need == MinRecoveryWindows(n, width)
    IN  IF count < need THEN 0 ELSE (count - need) \div length + 1

\* The windows a recovery reads, slid by n; max_windows <= 0 means all.
Windows(stream, n, width, max_windows) ==
    LET all == WindowCount(stream, n, width)
        used == IF max_windows > 0 THEN Min({all, max_windows}) ELSE all
    IN  [w \in 1 .. used |-> Window(stream, (w - 1) * n, width)] \o << >>

\* parity(window & check) == 0.
Satisfies(window, check) == Cardinality(window \cap check) % 2 = 0

----------------------------------------------------------------------------
(* Elimination over GF(2).  The rows of an echelon basis have distinct     *)
(* leading bits, so the array indexed by leading bit is a set.             *)

Lead(row) == Max(row)
Pivots(rows, bit) == {p \in rows : Lead(p) = bit}

\* What is left of a row when the pivots have cleared its leading bits, from
\* the highest on.
Clear(rows, row, bit) ==
    IF row # {} /\ Lead(row) = bit THEN SymDiff(row, UNION Pivots(rows, bit)) ELSE row

Reduce(rows, row) ==
    LET left[j \in 0 .. HardWindowCap] ==
            IF j = 0 THEN row ELSE Clear(rows, left[j - 1], HardWindowCap - j)
    IN  left[HardWindowCap]

Insert(rows, row) == {r \in rows \cup {Reduce(rows, row)} : r # {}}

\* The echelon basis of a sequence of vectors, taken in turn.
Echelon(vectors) == FoldLeft(Insert, {}, vectors)

\* Mutant: the pivot columns are not cleared from the other rows.
Mutant_ClearColumn(rows, bit) == rows

\* One round of the reduction to RREF: `bit` stays in its own row only.
ClearColumn(rows, bit) ==
    {IF Lead(r) # bit /\ bit \in r
     THEN SymDiff(r, UNION Pivots(rows, bit)) ELSE r : r \in rows}

Reduced(rows, width) ==
    FoldLeft(ClearColumn, rows, [b \in 1 .. width |-> b - 1])

\* One check per free column: the column and the pivots of the rows it is in.
FreeCheck(rows, column) == {column} \cup {Lead(r) : r \in {q \in rows : column \in q}}

FreeChecks(rows, width) ==
    {FreeCheck(rows, c) : c \in {b \in Bits(width) : Pivots(rows, b) = {}}}

\* recover_segment_nullspace.
NullSpace(stream, n, width, max_windows) ==
    FreeChecks(Reduced(Echelon(Windows(stream, n, width, max_windows)), width), width)

----------------------------------------------------------------------------
(* The Walsh-Hadamard path                                                 *)

\* Mutant: the difference is taken the other way.
Mutant_Butterfly(spectrum, bit) ==
    [v \in DOMAIN spectrum |->
        IF bit \in v THEN spectrum[v] - spectrum[v \ {bit}]
        ELSE spectrum[v] + spectrum[v \cup {bit}]]

\* One stride of the transform in place.
Butterfly(spectrum, bit) ==
    [v \in DOMAIN spectrum |->
        IF bit \in v THEN spectrum[v \ {bit}] - spectrum[v]
        ELSE spectrum[v] + spectrum[v \cup {bit}]]

\* dv_dual_spectrum: the histogram of the windows, transformed.
Spectrum(windows, width) ==
    LET histogram == [v \in Vectors(width) |->
                         Quantify(DOMAIN windows, LAMBDA w : windows[w] = v)]
    IN  FoldLeft(Butterfly, histogram, [b \in 1 .. width |-> b - 1])

\* The nonzero vectors by their packed value.
Ascending(width) ==
    [value \in 1 .. (2^width - 1) |->
        {b \in Bits(width) : (value \div 2^b) % 2 = 1}]

\* A check that at least 85 % of the windows satisfy, (count + spectrum) /
\* (2 count).
Satisfied(spectrum, count, check) ==
    100 * (count + spectrum[check]) >= 85 * 2 * count

\* dv_dual_basis: a basis of the satisfied checks.
DualBasis(spectrum, count, width) ==
    FoldLeft(LAMBDA rows, v : IF Satisfied(spectrum, count, v) THEN Insert(rows, v) ELSE rows,
             {}, Ascending(width))

\* recover_segment, when its allocation succeeds.
RecoverSegment(stream, n, width, max_windows) ==
    LET windows == Windows(stream, n, width, max_windows)
    IN  IF width > MaxWindowBits THEN NullSpace(stream, n, width, max_windows)
        ELSE IF Len(windows) < MinRecoveryWindows(n, width) THEN {}
        ELSE DualBasis(Spectrum(windows, width), Len(windows), width)
=============================================================================
