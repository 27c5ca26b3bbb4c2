---------------------------- MODULE BranchMetric ----------------------------
(* The path costs that StreamDecoder leaves open: the alignment of an      *)
(* edge's output with the received bits, the forward pass with its fast    *)
(* form, re-anchoring and normalisation (decode.c), for one trellis and a  *)
(* stream that has been fed whole.  A cost is a small natural number where *)
(* the code has a -log probability, and Infinite where it has INFINITY.    *)
EXTENDS Integers, Sequences, FiniteSets, FiniteSetsExt, Functions, SequencesExt

CONSTANTS
    N,            \* dv_code n
    NumStates,    \* dv_code n_states
    next_state,   \* dv_code next_state, by <<state, input bit>>
    output,       \* dv_code output, by <<state, input bit>>
    Depth,        \* dv_stream_params.decision_depth
    Channels,     \* the settings of a decoder
    Streams,      \* the received bits, each 0, 1 or Erasure
    Scale,        \* units of the smoothed cost in a cost
    MaxSteps      \* steps taken, at most Depth (model bound)

Erasure == 255
Infinite == 1000000
Cost == Nat

\* dv_decode_ctx_init: p_sub lies strictly between 0 and 1, p_erase,
\* p_ins and p_del may be 0, and a drift window needs both indels.
Settings == [max_drift : Nat, cost_match : Cost, cost_miss : Cost, cost_erase : Cost,
             cost_keep : Cost, cost_ins : Cost, cost_del : Cost, expected_unlock : Cost]
Edges == (0 .. (NumStates - 1)) \X {0, 1}

\* Finite costs stay finite when those of a path add up, as doubles do: an
\* edge costs at most one for each bit it sends and each bit it receives.
Summable(c, cost) ==
    cost = Infinite \/ MaxSteps * (2 * (N + c.max_drift)) * cost < Infinite

ASSUME MetricAssumption ==
    /\ N \in Nat \ {0} /\ NumStates \in Nat \ {0}
    /\ Depth \in Nat /\ Scale \in Nat /\ MaxSteps \in 1 .. Depth
    /\ next_state \in [Edges -> 0 .. (NumStates - 1)]
    /\ output \in [Edges -> [1 .. N -> {0, 1}]]
    /\ Streams \subseteq Seq({0, 1, Erasure})
    /\ \A c \in Channels :
          /\ c \in Settings
          /\ c.cost_match < Infinite /\ c.cost_miss < Infinite /\ c.cost_keep < Infinite
          /\ c.max_drift > 0 => c.cost_ins < Infinite /\ c.cost_del < Infinite
          /\ \A cost \in {c.cost_match, c.cost_miss, c.cost_erase, c.cost_keep,
                           c.cost_ins, c.cost_del} : Summable(c, cost)

VARIABLES
    channel,    \* the settings of this decoder
    received,   \* the received bits
    read_base,  \* index of the zero-drift bit of the next step
    steps,
    metric,     \* the cost of every node
    layers,     \* the backpointers of each step: <<state, drift, bit>> by node
    shift,      \* the re-anchor shift of each step
    smoothed,   \* smoothed_cost, in 1 / Scale
    total       \* history: what normalisation has subtracted

vars == <<channel, received, read_base, steps, metric, layers, shift, smoothed, total>>

\* Sums and the least of costs, where INFINITY absorbs.
Plus(a, b) == IF a >= Infinite \/ b >= Infinite THEN Infinite ELSE a + b
Least(costs) == Min(costs \cup {Infinite})

\* The flat index of a node, in the code's order (node_at).
DriftWidth == 2 * channel.max_drift + 1
Nodes == 0 .. (NumStates * DriftWidth - 1)
NodeAt(s, d) == s * DriftWidth + d
State(v) == v \div DriftWidth
Drift(v) == v % DriftWidth

NoPointer == <<0, 0, 0>>

----------------------------------------------------------------------------
(* The alignment                                                           *)

\* Mutant: the last bit of the buffer is out of range.
Mutant_InRange(place) == place >= 0 /\ place < Len(received) - 1

\* fill_match_costs: is a place of the buffer filled, and what does matching
\* an expected bit with it cost?
InRange(place) == place >= 0 /\ place < Len(received)
MatchCost(expected, place) ==
    LET bit == received[place + 1]
    IN  Plus(channel.cost_keep, CASE bit = Erasure -> channel.cost_erase
                                  [] bit = expected -> channel.cost_match
                                  [] OTHER -> channel.cost_miss)

\* Mutant: an insertion is charged to the row above.
Mutant_Cell(left, above, consumed, expected, place) ==
    Least({Plus(above[consumed + 1], channel.cost_del)} \cup
          (IF InRange(place)
           THEN {Plus(above[consumed], MatchCost(expected, place)),
                 Plus(above[consumed], channel.cost_ins)}
           ELSE {}))

\* One cell of align_fill_into: an expected bit deleted, or, while there are
\* bits, matched or, after what the cell to the left received, one inserted.
\* Rows start at 1.
Cell(left, above, consumed, expected, place) ==
    Least({Plus(above[consumed + 1], channel.cost_del)} \cup
          (IF InRange(place)
           THEN {Plus(above[consumed], MatchCost(expected, place)),
                 Plus(left, channel.cost_ins)}
           ELSE {}))

Consumed == [c \in 1 .. (N + 2 * channel.max_drift) |-> c]

\* The row above the first expected bit: insertions only.
TopRow(base) ==
    FoldLeft(LAMBDA row, c : Append(row, IF InRange(base + c - 1)
                                         THEN Plus(Last(row), channel.cost_ins) ELSE Infinite),
             <<0>>, Consumed)

\* align_fill_into: the last row, the cost of each number of consumed bits.
AlignFill(expected, base) ==
    FoldLeft(LAMBDA above, bit :
                 FoldLeft(LAMBDA row, c : Append(row, Cell(Last(row), above, c, bit, base + c - 1)),
                          <<Plus(above[1], channel.cost_del)>>, Consumed),
             TopRow(base), expected)

----------------------------------------------------------------------------
(* The forward pass.  Every edge out of a live node is taken in the order  *)
(* of state, drift and bit; the first of equal costs stays.                *)

OutEdges(v) == {<<State(v), Drift(v), bit>> : bit \in {0, 1}}

\* What reaches a node: the cheapest of its edges, by what each edge costs.
Arrival(edges, cost) ==
    LET least == Least({cost[e] : e \in edges})
        order(e) == (e[1] * DriftWidth + e[2]) * 2 + e[3]
        first == CHOOSE e \in edges : /\ cost[e] = least
                                      /\ \A f \in edges : cost[f] = least => order(e) <= order(f)
    IN  IF least = Infinite THEN [cost |-> Infinite, from |-> NoPointer]
        ELSE [cost |-> least, from |-> first]

LiveEdges(m) == UNION {OutEdges(u) : u \in {w \in Nodes : m[w] < Infinite}}

\* align_precompute and the loops of forward_pass.
ForwardPass(m, base) ==
    LET patterns == {output[e] : e \in DOMAIN output}
        drifts == {Drift(u) : u \in {w \in Nodes : m[w] < Infinite}}
        rows == [p \in patterns |->
                    [d \in drifts |-> AlignFill(p, base + d - channel.max_drift)]]
        reaching(v) == {e \in LiveEdges(m) : /\ next_state[<<e[1], e[3]>>] = State(v)
                                             /\ N + Drift(v) - e[2] >= 0}
        cost(v, e) == Plus(m[NodeAt(e[1], e[2])],
                           rows[output[<<e[1], e[3]>>]][e[2]][N + Drift(v) - e[2] + 1])
    IN  [v \in Nodes |-> Arrival(reaching(v), [e \in reaching(v) |-> cost(v, e)])]

\* Mutant: an erased bit is a wrong one.
Mutant_GroupCost(expected, base) ==
    IF base >= 0 /\ base + N <= Len(received)
    THEN FoldLeft(LAMBDA sum, j : Plus(sum, IF received[base + j] = expected[j]
                                            THEN channel.cost_match ELSE channel.cost_miss),
                  N * channel.cost_keep, [j \in 1 .. N |-> j])
    ELSE Infinite

\* The branch cost of forward_pass_nodrift: the group bit by bit.
GroupCost(expected, base) ==
    IF base >= 0 /\ base + N <= Len(received)
    THEN FoldLeft(LAMBDA sum, j :
                      Plus(sum, CASE received[base + j] = Erasure -> channel.cost_erase
                                  [] received[base + j] = expected[j] -> channel.cost_match
                                  [] OTHER -> channel.cost_miss),
                  N * channel.cost_keep, [j \in 1 .. N |-> j])
    ELSE Infinite

\* The loops of forward_pass_nodrift.
ForwardPassNoDrift(m, base) ==
    LET reaching(v) == {e \in LiveEdges(m) : next_state[<<e[1], e[3]>>] = v}
        cost(e) == Plus(m[e[1]], GroupCost(output[<<e[1], e[3]>>], base))
    IN  [v \in Nodes |-> Arrival(reaching(v), [e \in reaching(v) |-> cost(e)])]

\* dv_decode_step takes the fast form without a drift window and indels.
NoDrift ==
    channel.max_drift = 0 /\ channel.cost_ins = Infinite /\ channel.cost_del = Infinite

----------------------------------------------------------------------------
(* One step                                                                *)

\* dv_trellis_frontier: the first of the cheapest nodes, 0 when none lives.
Frontier ==
    LET least == Least({metric[v] : v \in Nodes})
    IN  IF least = Infinite THEN 0 ELSE Min({v \in Nodes : metric[v] = least})

\* pick_shift.
PickShift ==
    LET drift == Drift(Frontier) - channel.max_drift
        deadband == (channel.max_drift + 1) \div 2
    IN  CASE channel.max_drift > 0 /\ drift >= deadband -> 1
          [] channel.max_drift > 0 /\ drift <= -deadband -> -1
          [] OTHER -> 0

\* reanchor_metric.
Reanchor(sigma) ==
    [v \in Nodes |-> IF Drift(v) + sigma \in 0 .. (DriftWidth - 1)
                     THEN metric[NodeAt(State(v), Drift(v) + sigma)] ELSE Infinite]

\* normalize subtracts the least cost, and returns 0 when every node is dead.
Increment(arrivals) ==
    LET least == Least({arrivals[v].cost : v \in Nodes})
    IN  IF least = Infinite THEN 0 ELSE least

Init ==
    /\ channel \in Channels
    /\ received \in Streams
    /\ read_base = 0
    /\ steps = 0
    /\ metric = [v \in Nodes |-> IF Drift(v) = channel.max_drift THEN 0 ELSE Infinite]
    /\ layers = << >>
    /\ shift = << >>
    /\ smoothed = Scale * channel.expected_unlock
    /\ total = 0

\* dv_decode_step, while the run loop finds a group.
Step ==
    LET sigma == PickShift
        base == read_base + sigma
        arrivals == IF NoDrift THEN ForwardPassNoDrift(Reanchor(sigma), base)
                    ELSE ForwardPass(Reanchor(sigma), base)
        increment == Increment(arrivals)
    IN  /\ Len(received) - read_base >= N
        /\ steps < MaxSteps
        /\ metric' = [v \in Nodes |-> IF arrivals[v].cost = Infinite THEN Infinite
                                      ELSE arrivals[v].cost - increment]
        /\ layers' = Append(layers, [v \in Nodes |-> arrivals[v].from])
        /\ shift' = Append(shift, sigma)
        /\ smoothed' = smoothed + (2 * (Scale * increment - smoothed)) \div (Depth + 1)
        /\ total' = total + increment
        /\ read_base' = base + N
        /\ steps' = steps + 1
        /\ UNCHANGED <<channel, received>>

Next == Step
Spec == Init /\ [][Next]_vars

----------------------------------------------------------------------------
(* Reference: what a path through the stream costs, from the channel alone *)

\* The ways to receive the bits from + 1 .. to when n bits were sent: some of
\* the sent bits became, in order, some of the received ones.
Alignments(n, from, to) ==
    {became \in UNION {[sent -> (from + 1) .. to] : sent \in SUBSET (1 .. n)} :
        \A a, b \in DOMAIN became : a < b => became[a] < became[b]}

\* What one of them costs: the other sent bits were deleted, and the other
\* received ones inserted.
AlignmentCost(expected, became, from, to) ==
    LET price(sent, got) == CASE got = Erasure -> channel.cost_erase
                              [] got = sent -> channel.cost_match
                              [] OTHER -> channel.cost_miss
        toll == [a \in DOMAIN became |->
                    channel.cost_keep + price(expected[a], received[became[a]])]
        matched == Cardinality(DOMAIN became)
    IN  SumFunction(toll) + (N - matched) * channel.cost_del
                          + (to - from - matched) * channel.cost_ins

\* The cheapest way to receive the bits from + 1 .. to from one edge.
Crossed(s, bit, from, to) ==
    IF 0 <= from /\ from <= to /\ to <= Len(received)
    THEN Least({AlignmentCost(output[<<s, bit>>], became, from, to) :
                    became \in Alignments(N, from, to)})
    ELSE Infinite

\* Where step i read from, by the recorded shifts, and the stream positions
\* inside the window around a place.
BaseAt(i) == N * (i - 1) + SumFunctionOnSet(shift, 1 .. i)
Around(place) == {q \in (place - channel.max_drift) .. (place + channel.max_drift) :
                     q \in 0 .. Len(received)}

\* The cheapest paths to every state and stream position, from those of the
\* step before, of a step that reads from `base`: inside its window at both
\* ends.
Extended(paths, base) ==
    LET moves == {[state |-> next_state[<<u.state, bit>>], at |-> q,
                   cost |-> Plus(u.cost, Crossed(u.state, bit, u.at, q))] :
                  u \in {w \in paths : w.at \in Around(base)},
                  bit \in {0, 1}, q \in Around(base + N)}
    IN  {m \in moves : \A o \in moves : o.state = m.state /\ o.at = m.at => m.cost <= o.cost}

Origins == {[state |-> s, at |-> 0, cost |-> 0] : s \in 0 .. (NumStates - 1)}

CheapestPaths ==
    LET paths[i \in 0 .. steps] ==
            IF i = 0 THEN Origins ELSE Extended(paths[i - 1], BaseAt(i))
    IN  paths[steps]

\* Where the backpointer of node v at step i leads, and along which branch.
Source(i, v) == NodeAt(layers[i][v][1], layers[i][v][2] + shift[i])
BranchTaken(i, v) ==
    Crossed(layers[i][v][1], layers[i][v][3],
            BaseAt(i) + layers[i][v][2] - channel.max_drift,
            BaseAt(i) + N + Drift(v) - channel.max_drift)

\* What the traced paths cost after step i, from what they cost before it.
Continued(traced, i) ==
    [v \in Nodes |-> IF Source(i, v) \in Nodes
                     THEN Plus(traced[Source(i, v)], BranchTaken(i, v)) ELSE Infinite]

\* Every path starts at the first bit, in any state.
Starts == [v \in Nodes |-> IF Drift(v) = channel.max_drift THEN 0 ELSE Infinite]

\* What the path traced back from node w costs (dv_trellis_trace).
TracedCost(w) ==
    LET traced[i \in 0 .. steps] ==
            IF i = 0 THEN Starts ELSE Continued(traced[i - 1], i)
    IN  traced[steps][w]

----------------------------------------------------------------------------
(* Properties                                                              *)

\* The decoder is a maximum-likelihood decoder within its drift window: the
\* cost of every node, with what normalisation took off it, is that of the
\* cheapest of all paths there, over all input bits, insertions, deletions
\* and flips, and the path its backpointers lead back along is one of these,
\* across every re-anchor (decode.c:160-391, 502-526).
SurvivorsAreCheapest ==
    LET paths == CheapestPaths
        position(v) == read_base + Drift(v) - channel.max_drift
        least(v) == Least({p.cost : p \in {q \in paths :
                               q.state = State(v) /\ q.at = position(v)}})
    IN  \A v \in Nodes :
            IF least(v) = Infinite THEN metric[v] = Infinite
            ELSE metric[v] + total = least(v) /\ TracedCost(v) = least(v)

\* Without a drift window and indels the fast form gives every node the cost
\* and the backpointer of the general one: "output is identical"
\* (decode.c:393-398).
FastPathAgrees ==
    NoDrift =>
        ForwardPassNoDrift(metric, read_base) = ForwardPass(metric, read_base)

\* Nothing but an erased bit, where the channel rules erasures out and no
\* deletion with an insertion can pass it by, leaves the trellis without a
\* path: no flip, no slip and no end of the stream does (decode.c:641-646).
DiesOnlyOfErasure ==
    (\A v \in Nodes : metric[v] = Infinite) =>
        /\ channel.max_drift = 0
        /\ channel.cost_erase = Infinite
        /\ Infinite \in {channel.cost_ins, channel.cost_del}
        /\ Erasure \in {received[i] : i \in 1 .. read_base}
=============================================================================
