------------------------------- MODULE Detect -------------------------------
(* The graded blind detection of compare.c: how far the checks of a stream *)
(* stand out of the noise floor (dv_detect), and the sequential test for a *)
(* code on line (dv_detect_sequential).  Alignments, floors and evidence   *)
(* are in thousandths, rounded down.                                       *)
EXTENDS CrossSatisfaction

CONSTANTS
    WarmupWindows    \* DV_DETECT_SEQ_WARMUP_WINDOWS

ASSUME WarmupAssumption == WarmupWindows \in Nat

\* The largest integer of 15 bits whose square is at most x, bit by bit.
Root(x) ==
    FoldLeft(LAMBDA r, bit : IF (r + bit) * (r + bit) <= x THEN r + bit ELSE r,
             0, [i \in 1 .. 15 |-> 2^(15 - i)])

\* dv_peak_floor: (sqrt(2 width ln 2) + 1) / sqrt(count).
PeakFloor(width, count) ==
    LET sigmas == Root(2 * width * 693147) + 1000
    IN  Root((sigmas * sigmas) \div count)

Magnitude(x) == IF x < 0 THEN -x ELSE x
Alignment(excess, count) == (1000 * Magnitude(excess)) \div count

\* dv_max_dual: the checks of a genuine code in one window.
MaxDual(n, width) == (n - 1) * (width \div n)

Nothing == [excess |-> 0, basis |-> {}]

\* dv_spectral_excess picks the strongest check that the span of the picked
\* ones lacks, the first of equals, while one stands above the floor.
Pick(strength, floor, width, picked) ==
    LET check == Ascending(width)
        open == {value \in DOMAIN check :
                    /\ strength[check[value]] > floor
                    /\ Reduce(picked.rows, check[value]) # {}}
        peak == Max({strength[check[value]] : value \in open})
        best == check[Min({value \in open : strength[check[value]] = peak})]
    IN  IF open = {} THEN picked
        ELSE [rows |-> Insert(picked.rows, best),
              found |-> [excess |-> picked.found.excess + peak - floor,
                         basis |-> picked.found.basis \cup {best}]]

\* dv_spectral_excess: at most `width` picks.
SpectralExcess(spectrum, count, width) ==
    LET strength == [v \in DOMAIN spectrum |-> Alignment(spectrum[v], count)]
        picked[r \in 0 .. width] ==
            IF r = 0 THEN [rows |-> {}, found |-> Nothing]
            ELSE Pick(strength, PeakFloor(width, count), width, picked[r - 1])
    IN  picked[width].found

\* Mutant: a dual of any width is a code.
Mutant_Genuine(found, n, width) == found

\* The degeneracy guard.
Genuine(found, n, width) ==
    IF Cardinality(found.basis) > MaxDual(n, width) THEN Nothing ELSE found

From(stream, phase) == SubSeq(stream, phase + 1, Len(stream))

\* dv_phase_excess_wht, when its allocation succeeds.
PhaseExcess(stream, n, width, phase) ==
    LET windows == Windows(From(stream, phase), n, width, MaxCrossWindows)
    IN  IF phase + width > Len(stream) THEN Nothing
        ELSE Genuine(SpectralExcess(Spectrum(windows, width), Len(windows), width),
                     n, width)

\* The excess of a basis over the windows at the given positions.
Score(stream, width, basis, positions) ==
    LET count == Len(positions)
        satisfied(c) == Quantify(DOMAIN positions, LAMBDA w :
                            Satisfies(Window(stream, positions[w], width), c))
        excess(c) == Alignment(2 * satisfied(c) - count, count) - PeakFloor(width, count)
    IN  IF count = 0 \/ basis = {} THEN 0
        ELSE SumFunction([c \in basis |-> Max({0, excess(c)})])

\* dv_basis_excess_fixed.
FixedExcess(stream, n, width, phase, basis) ==
    LET count == Min({WindowCount(From(stream, phase), n, width), MaxCrossWindows})
    IN  Score(stream, width, basis, [w \in 1 .. count |-> phase + (w - 1) * n])

\* The slips a drift-corrected walk may take.
Slips(stream, n, width, position, drift) ==
    {s \in {-1, 0, 1} : /\ Magnitude(drift + s) <= MaxCumulativeDrift
                        /\ Fits(stream, position + n + s, width)}

\* The slip whose window satisfies most checks; of equals 0, then +1.
BestSlip(stream, n, width, basis, position, slips) ==
    LET good(s) == Good(stream, position + n + s, width, basis)
        best == {s \in slips : \A t \in slips : good(t) <= good(s)}
    IN  IF 0 \in best THEN 0 ELSE Max(best)

\* The positions dv_basis_excess_drift visits, and the drift they end with.
Stride(stream, n, width, basis, walk) ==
    LET position == Last(walk.positions)
        slips == Slips(stream, n, width, position, walk.drift)
        slip == BestSlip(stream, n, width, basis, position, slips)
    IN  IF slips = {} THEN walk
        ELSE [positions |-> Append(walk.positions, position + n + slip),
              drift |-> walk.drift + slip]

Walk(stream, n, width, basis, phase) ==
    LET walk[w \in 1 .. MaxCrossWindows] ==
            IF w = 1 THEN [positions |-> <<phase>>, drift |-> 0]
            ELSE Stride(stream, n, width, basis, walk[w - 1])
    IN  walk[MaxCrossWindows].positions

DriftExcess(stream, n, width, phase, basis) ==
    IF ~Fits(stream, phase, width) THEN 0
    ELSE Score(stream, width, basis, Walk(stream, n, width, basis, phase))

\* A basis is kept with its score.
Better(found, best) == IF found.excess > best.excess THEN found ELSE best

\* dv_phase_excess_wide's scan: of the segments' null spaces, neither empty
\* nor degenerate, the one that explains the whole stream best.
ScanWide(stream, n, width, phase) ==
    LET rest == From(stream, phase)
        length == SegmentFactor * width
        last == Segments(rest, n, width, length)
        shown(segment) ==
            LET basis == NullSpace(From(rest, segment * length * n), n, width, length)
            IN  Genuine([excess |-> FixedExcess(stream, n, width, phase, basis),
                         basis |-> basis], n, width)
        best[s \in 0 .. last] ==
            IF s = 0 THEN Nothing ELSE Better(shown(s - 1), best[s - 1])
    IN  best[last]

\* What a phase shows without drift, and the best with or without.
PhaseFound(stream, n, width, phase) ==
    IF width <= MaxWindowBits THEN PhaseExcess(stream, n, width, phase)
    ELSE IF phase + width > Len(stream) THEN Nothing
    ELSE ScanWide(stream, n, width, phase)

Drifted(found, stream, n, width, phase) ==
    IF found.basis = {} THEN 0
    ELSE Max({found.excess, DriftExcess(stream, n, width, phase, found.basis)})

PhaseScore(stream, n, width, phase) ==
    Drifted(PhaseFound(stream, n, width, phase), stream, n, width, phase)

\* dv_detect for a stream long enough: the best phase, at most 1000.
Confidence(stream, n, width) ==
    Min({1000, Max({PhaseScore(stream, n, width, p) : p \in 0 .. (n - 1)})})

----------------------------------------------------------------------------
(* dv_detect_sequential                                                    *)

LogSatisfied == 405     \* log(DV_DETECT_SEQ_Q1 / 0.5)
LogViolated == -693     \* log((1 - DV_DETECT_SEQ_Q1) / 0.5)
Threshold == 6906       \* log((1 - beta) / alpha)

\* What a warmup prefix shows in one phase.
WarmupExcess(prefix, n, width, phase) ==
    LET basis == NullSpace(From(prefix, phase), n, width, SegmentFactor * width)
        wide == Genuine([excess |-> 0, basis |-> basis], n, width).basis
    IN  IF width <= MaxWindowBits THEN PhaseExcess(prefix, n, width, phase)
        ELSE IF phase + width > Len(prefix) THEN Nothing
        ELSE [excess |-> FixedExcess(prefix, n, width, phase, wide), basis |-> wide]

\* The phase whose prefix exposes the strongest dual, the first of equals.
SteeringOf(shows) ==
    LET best == Max({shows[p].excess : p \in DOMAIN shows})
        phase == Min({p \in DOMAIN shows : shows[p].excess = best})
    IN  [phase |-> phase, basis |-> IF best > 0 THEN shows[phase].basis ELSE {}]

Steering(stream, n, width) ==
    LET warmup == SubSeq(stream, 1, Min({WarmupWindows * n + width, Len(stream)}))
    IN  SteeringOf([p \in 0 .. (n - 1) |-> WarmupExcess(warmup, n, width, p)])

\* The evidence of the window at a position for the steering basis.
Evidence(stream, width, basis, position) ==
    LET good == Good(stream, position, width, basis)
    IN  good * LogSatisfied + (Cardinality(basis) - good) * LogViolated

\* Mutant: evidence against a code is never forgotten.
Mutant_Accumulate(sum, evidence) == sum + evidence

\* One step of the one-sided CUSUM.
Accumulate(sum, evidence) == Max({0, sum + evidence})

\* The sum before each window of a phase of the stream, and after the last.
Cusum(stream, n, width, steering) ==
    LET sum[w \in 0 .. WindowCount(From(stream, steering.phase), n, width)] ==
            IF w = 0 THEN 0
            ELSE Accumulate(sum[w - 1], Evidence(stream, width, steering.basis,
                                                 steering.phase + (w - 1) * n))
    IN  sum

\* The bit index of the window at which the sum first reaches the threshold
\* and a code is declared, or -1, for a stream long enough.
Declared(stream, n, width, steering) ==
    LET sum == Cusum(stream, n, width, steering)
        reached == {w \in DOMAIN sum : sum[w] >= Threshold}
    IN  IF steering.basis = {} \/ reached = {} THEN -1
        ELSE steering.phase + (Min(reached) - 1) * n

FirstDeclared(stream, n, width) ==
    Declared(stream, n, width, Steering(stream, n, width))
=============================================================================
