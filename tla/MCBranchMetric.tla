--------------------------- MODULE MCBranchMetric ---------------------------
(* A small instance of BranchMetric: a code of rate 1/2 with two states,   *)
(* with five channels from hard decisions to a drift window of five, and   *)
(* streams with flips, slips and erasures anywhere.                        *)
EXTENDS BranchMetric

K2_next_state == [e \in {0, 1} \X {0, 1} |-> e[2]]
K2_output == [e \in {0, 1} \X {0, 1} |-> <<(e[1] + e[2]) % 2, e[2]>>]

Channel(max_drift, keep, ins, del, erase) ==
    [max_drift |-> max_drift, cost_match |-> 1, cost_miss |-> 5, cost_erase |-> erase,
     cost_keep |-> keep, cost_ins |-> ins, cost_del |-> del, expected_unlock |-> 6]

SomeChannels ==
    {Channel(0, 0, Infinite, Infinite, Infinite), Channel(0, 0, Infinite, Infinite, 3),
     Channel(0, 1, 7, Infinite, Infinite), Channel(1, 1, 7, 6, Infinite),
     Channel(2, 1, 4, 3, 3)}

\* Every stream of six bits of which at most one is erased, from a few bits.
SomeStreams ==
    {s \in [1 .. 6 -> {0, 1, Erasure}] :
        /\ Cardinality({i \in 1 .. 6 : s[i] = Erasure}) <= 1
        /\ s[1] # 1 /\ s[2] = s[4]}
=============================================================================
