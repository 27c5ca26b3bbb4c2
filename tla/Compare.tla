------------------------------- MODULE Compare -------------------------------
(* The public calls of compare.h as a machine that serves one call at a    *)
(* time: dv_compare, dv_detect and dv_detect_sequential, over the          *)
(* recovery and the scores of the modules below it.  A probability is a    *)
(* fraction of satisfied checks (dv_compare) or thousandths (dv_detect).   *)
EXTENDS Detect

CONSTANTS
    Codes,     \* the pairs <<n, k>> a caller may ask about
    Samples    \* the streams a caller may hold

ASSUME CallerAssumption == Codes \subseteq Int \X Int /\ Samples \subseteq Seq({0, 1})

VARIABLES
    pc,       \* "idle", "called", "answered", or "gave_up" for lack of memory
    call,     \* the call being served
    result    \* what it returned: a fraction

vars == <<pc, call, result>>

Undetermined == Fraction(-1, 1)

----------------------------------------------------------------------------
\* The longest run of windows one candidate is recovered from.
SegmentWindows(width) == Max({SegmentFactor * width, width + RecoveryMargin})

\* Mutant: the basis of the last segment is kept, with the best score.
Mutant_Keep(best, candidate, fit) ==
    IF candidate = {} THEN best
    ELSE [basis |-> candidate, fit |-> IF Above(fit, best.fit) THEN fit ELSE best.fit]

\* The better of two candidates by how they explain their own stream.
Keep(best, candidate, fit) ==
    IF candidate # {} /\ Above(fit, best.fit)
    THEN [basis |-> candidate, fit |-> fit] ELSE best

\* recover_basis tries a segment, unless a candidate before clearly fits.
Try(stream, n, width, segment, best) ==
    LET length == SegmentWindows(width)
        candidate == RecoverSegment(From(stream, segment * length * n), n, width, length)
    IN  IF AtLeast(best.fit, 97) THEN best
        ELSE Keep(best, candidate, Satisfaction(stream, n, width, candidate))

\* The scan of recover_basis over the segments of a stream.
Scan(stream, n, width) ==
    LET last == Segments(stream, n, width, SegmentWindows(width))
        best[s \in 0 .. last] ==
            IF s = 0 THEN [basis |-> {}, fit |-> Fraction(0, 1)]
            ELSE Try(stream, n, width, s - 1, best[s - 1])
    IN  best[last]

\* recover_basis: the checks of a stream, none when it exposed no structure.
RecoverBasis(stream, n, width) ==
    LET found == Scan(stream, n, width)
    IN  IF AtLeast(found.fit, 90) THEN found.basis ELSE {}

\* Mutant: one window more than the recovery needs.
Mutant_MinLength(n, k) ==
    LET width == WindowBits(n, k)
    IN  IF width = 0 THEN -1 ELSE width + MinRecoveryWindows(n, width) * n

\* dv_compare_min_len and dv_detect_min_len.
MinLength(n, k) ==
    LET width == WindowBits(n, k)
    IN  IF width = 0 THEN -1 ELSE width + (MinRecoveryWindows(n, width) - 1) * n

\* dv_compare_max_len and dv_detect_max_len.
MaxLength(n, k) ==
    LET width == WindowBits(n, k)
    IN  IF width = 0 THEN -1 ELSE width + (MaxCrossWindows - 1) * n

\* The length tests at the head of the three calls.
LongEnough(stream, n, width) ==
    /\ Len(stream) >= width
    /\ WindowCount(stream, n, width) >= MinRecoveryWindows(n, width)

\* A satisfied fraction f as a probability: 2 (f - 1/2), at least 0.
Rescaled(f) == Fraction(Max({0, 2 * f.good - f.total}), f.total)

\* The weaker direction.
Weaker(lhs_on_rhs, rhs_on_lhs) ==
    IF Above(rhs_on_lhs, lhs_on_rhs) THEN lhs_on_rhs ELSE rhs_on_lhs

\* dv_compare, from what was recovered of each stream.
CrossScore(n, width, lhs, rhs, of_lhs, of_rhs) ==
    IF of_lhs = {} /\ of_rhs = {} THEN Undetermined
    ELSE IF of_lhs = {} \/ of_rhs = {} THEN Fraction(0, 1)
    ELSE Weaker(Rescaled(Satisfaction(rhs, n, width, of_lhs)),
                Rescaled(Satisfaction(lhs, n, width, of_rhs)))

CompareResult(n, width, lhs, rhs) ==
    CrossScore(n, width, lhs, rhs, RecoverBasis(lhs, n, width), RecoverBasis(rhs, n, width))

\* The range and length tests at the head of each call.
Refused(c) ==
    \/ WindowBits(c.n, c.k) = 0
    \/ \E s \in {c.lhs, c.rhs} : ~LongEnough(s, c.n, WindowBits(c.n, c.k))

\* What each call computes when it is not refused and finds its memory.
Answer(c) ==
    LET width == WindowBits(c.n, c.k)
    IN  CASE c.op = "compare" -> CompareResult(c.n, width, c.lhs, c.rhs)
          [] c.op = "detect" -> Fraction(Confidence(c.lhs, c.n, width), 1000)
          [] c.op = "sequential" -> Fraction(FirstDeclared(c.lhs, c.n, width), 1)

----------------------------------------------------------------------------
Ops == {"compare", "detect", "sequential"}

\* The calls a caller may make; those of one stream have lhs = rhs.
Calls ==
    {c \in [op : Ops, n : {p[1] : p \in Codes}, k : {p[2] : p \in Codes},
            lhs : Samples, rhs : Samples] :
        <<c.n, c.k>> \in Codes /\ (c.op # "compare" => c.lhs = c.rhs)}

Init ==
    /\ pc = "idle"
    /\ call = [op |-> "none"]
    /\ result = Undetermined

Enter ==
    /\ pc = "idle"
    /\ pc' = "called"
    /\ call' \in Calls
    /\ UNCHANGED result

\* The call runs to its end.
Serve ==
    /\ pc = "called"
    /\ pc' = "answered"
    /\ result' = IF Refused(call) THEN Undetermined ELSE Answer(call)
    /\ UNCHANGED call

\* The table of a transform cannot be allocated: the call gives up.
OutOfMemory ==
    /\ pc = "called"
    /\ ~Refused(call)
    /\ WindowBits(call.n, call.k) <= MaxWindowBits
    /\ pc' = "gave_up"
    /\ result' = Undetermined
    /\ UNCHANGED call

Return ==
    /\ pc \in {"answered", "gave_up"}
    /\ pc' = "idle"
    /\ call' = [op |-> "none"]
    /\ result' = Undetermined

Next == Enter \/ Serve \/ OutOfMemory \/ Return
Spec == Init /\ [][Next]_vars

----------------------------------------------------------------------------
(* Reference definitions                                                   *)

\* All sums of the vectors of a basis, as many as its subsets when it is
\* independent.
Span(basis) == {FoldSet(SymDiff, {}, S) : S \in SUBSET basis}
Independent(basis) == Cardinality(Span(basis)) = 2^Cardinality(basis)

\* The vectors that every window of a sequence satisfies.
Complement(windows, width) ==
    {v \in Vectors(width) : \A w \in DOMAIN windows : Satisfies(windows[w], v)}

\* Every offset path over the windows of a stream.
Paths(stream, n, width, windows) ==
    {p \in [1 .. windows -> -MaxCumulativeDrift .. MaxCumulativeDrift] :
        /\ p[1] \in 0 .. MaxDrift
        /\ \A w \in 2 .. windows : p[w] - p[w - 1] \in {-1, 0, 1}
        /\ \A w \in 1 .. windows : Fits(stream, (w - 1) * n + p[w], width)}

\* What a path satisfies and costs, window by window.
GoodOf(path, stream, n, width, basis) ==
    SumFunction([w \in DOMAIN path |-> Good(stream, (w - 1) * n + path[w], width, basis)])

CostOf(path, stream, n, width, basis) ==
    SumFunction([w \in DOMAIN path |->
            LET good == Good(stream, (w - 1) * n + path[w], width, basis)
            IN  good * CostMatch + (Cardinality(basis) - good) * CostMiss
                + (IF w > 1 /\ path[w] # path[w - 1] THEN CostIndel ELSE 0)])

\* A stream that repeats after `period` bits.
Repeats(stream, period) ==
    \A i \in 1 .. (Len(stream) - period) : stream[i] = stream[i + period]

----------------------------------------------------------------------------
(* Properties                                                              *)

Answered(op) == pc = "answered" /\ call.op = op
Width == WindowBits(call.n, call.k)

\* The null space read off the reduced rows is the whole orthogonal
\* complement of a segment's windows, and a basis of it: no check that the
\* windows obey is missed, none that they violate is let in, whatever the
\* order of the windows and the pivots (compare.c:254-313).
NullSpaceIsComplement ==
    Answered("detect") /\ ~Refused(call) =>
        LET windows == Windows(call.lhs, call.n, Width, SegmentWindows(Width))
            basis == NullSpace(call.lhs, call.n, Width, SegmentWindows(Width))
        IN  Independent(basis) /\ Span(basis) = Complement(windows, Width)

\* The transform in place counts, for every vector, the windows that satisfy
\* it less those that violate it.  The basis made of it is independent, spans the
\* vectors that 85 % of the windows satisfy, and no more: whatever satisfies
\* all of them satisfies the basis (compare.c:162-236).
SpectrumCounts ==
    Answered("detect") /\ ~Refused(call) =>
        LET windows == Windows(call.lhs, call.n, Width, SegmentWindows(Width))
            spectrum == Spectrum(windows, Width)
            satisfied(v) == Quantify(DOMAIN windows, LAMBDA w : Satisfies(windows[w], v))
            frequent == {v \in Vectors(Width) :
                            100 * satisfied(v) >= 85 * Len(windows)}
            basis == DualBasis(spectrum, Len(windows), Width)
        IN  Width <= MaxWindowBits =>
                /\ \A v \in Vectors(Width) :
                       spectrum[v] = 2 * satisfied(v) - Len(windows)
                /\ Independent(basis)
                /\ frequent \subseteq Span(basis)
                /\ \A w \in Vectors(Width) :
                       (\A v \in frequent : Satisfies(w, v)) =>
                           \A check \in basis : Satisfies(w, check)

\* The search of the framing offset returns the satisfied checks of a
\* cheapest path among all paths that start and stay within their bounds and
\* in the stream: neither the rolling rows, nor the ends of the stream, nor a
\* tie lose it (compare.c:384-478).
OffsetPathIsCheapest ==
    Answered("detect") /\ ~Refused(call) /\ CrossWindows(call.lhs, call.n, Width) <= 5 =>
        LET paths == Paths(call.lhs, call.n, Width, CrossWindows(call.lhs, call.n, Width))
        IN  \A basis \in {RecoverBasis(call.lhs, call.n, Width)} \cup {{{b, Width - 1}} : b \in Bits(Width)} :
                LET cost == [p \in paths |-> CostOf(p, call.lhs, call.n, Width, basis)]
                    least == Min({cost[p] : p \in paths})
                IN  basis = {} \/ \E p \in paths :
                        /\ cost[p] = least
                        /\ GoodOf(p, call.lhs, call.n, Width, basis)
                               = Satisfaction(call.lhs, call.n, Width, basis).good

\* A sample compared with itself is undetermined or fits to 80 % at least:
\* the basis that is kept is the one whose fit was accepted, not another
\* segment's (compare.c:516-560).
OwnChecksHold ==
    Answered("compare") /\ call.lhs = call.rhs =>
        result = Undetermined \/ AtLeast(result, 80)

\* dv_compare_min_len is the exact length at which a call stops being refused
\* (compare.c:577-588).
MinLengthIsSharp ==
    pc = "answered" =>
        (Refused(call) <=> \/ MinLength(call.n, call.k) < 0
                           \/ \E s \in {call.lhs, call.rhs} : Len(s) < MinLength(call.n, call.k))

\* A stream that repeats after fewer symbols than a window spans, k at most,
\* has too few windows to span a code, and is never taken for one
\* (compare.c:751-753).
DegenerateIsNoCode ==
    /\ Answered("detect") /\ ~Refused(call)
    /\ \E q \in 1 .. (Width \div call.n - 1) : Repeats(call.lhs, q * call.n)
    => result.good <= 0

\* The first window that ends a run of windows over the threshold.
FirstEvidence(stream, n, width, steering) ==
    LET windows == 0 .. (WindowCount(From(stream, steering.phase), n, width) - 1)
        evidence == [w \in windows |->
            Evidence(stream, width, steering.basis, steering.phase + w * n)]
        reached == {j \in windows :
            \E i \in 0 .. j : SumFunctionOnSet(evidence, i .. j) >= Threshold}
    IN  IF steering.basis = {} \/ reached = {} THEN -1
        ELSE steering.phase + Min(reached) * n

\* The sequential test declares a code at the first window that some run of
\* windows ending there carries over the threshold, and only there: evidence
\* against a code before the run does not delay it (compare.c:1105-1121).
DeclaresAtFirstEvidence ==
    Answered("sequential") /\ ~Refused(call) =>
        result.good = FirstEvidence(call.lhs, call.n, Width,
                                    Steering(call.lhs, call.n, Width))

SameScore(f, g) == ~Above(f, g) /\ ~Above(g, f)

\* compare.h:114: dv_compare_max_len is "the most bits dv_compare consults;
\* beyond this, extra bits cannot change the result".
LongerChangesNothing ==
    Answered("compare") /\ ~Refused(call) /\ result # Undetermined =>
        LET cut(s) == SubSeq(s, 1, Min({Len(s), MaxLength(call.n, call.k)}))
        IN  SameScore(result, CompareResult(call.n, Width, cut(call.lhs), cut(call.rhs)))
=============================================================================
