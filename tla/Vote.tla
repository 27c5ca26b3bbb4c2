-------------------------------- MODULE Vote --------------------------------
(* One decision of multi_run (multi_decode.c): how the codes' traced bits  *)
(* become one output bit.  A smoothed cost is an integer here, and dv_exp  *)
(* a table of integer weights that falls with the cost: whole units of     *)
(* weight stand for real ones, and every comparison of the code is the     *)
(* same comparison multiplied out.                                         *)
EXTENDS Integers, FiniteSets, FiniteSetsExt, Functions

CONSTANTS
    NumCodes,      \* codes_len
    MaxCost,       \* bound on a smoothed cost (model bound)
    Weight,        \* dv_exp: cost above the least -> weight
    ExpectedLock,  \* cost per step of a lock (dv_decode_ctx)
    ExpectedUnlock,\* cost per step when unlocked
    Scale,         \* units of 1.0 in a floor or a margin
    Floors,        \* dv_multi_params.lock_floor, in units
    Margins        \* dv_multi_params.lock_margin, in units

Codes == 0 .. (NumCodes - 1)
Bits == {0, 1}
Costs == 0 .. MaxCost
Erasure == 2
NoCode == -1

\* `out` before the first decision.
Pending == -1

\* Thresholds are counted in whole units; the defaults 0.6 and 0.2 are some.
ASSUME VoteAssumption ==
    /\ NumCodes \in Nat \ {0}
    /\ MaxCost \in Nat
    /\ Scale \in Nat \ {0} /\ Scale % 10 = 0
    /\ ExpectedLock \in Nat /\ ExpectedUnlock \in Nat
    /\ Floors \subseteq Int /\ Margins \subseteq Int
    /\ Weight \in [0 .. MaxCost -> Nat \ {0}]
    /\ \A c \in 0 .. (MaxCost - 1) : Weight[c] > Weight[c + 1]
    /\ \A c, d \in 0 .. (MaxCost - 1) :
          Weight[c] * Weight[d + 1] = Weight[c + 1] * Weight[d]

VARIABLES
    lock_floor,   \* of the decoder, in units
    lock_margin,  \* of the decoder, in units
    cost,         \* smoothed_cost of each code at the last decision
    bit,          \* the bit each code traced for it
    out,          \* what was emitted
    winner        \* what locked_decoder reports

vars == <<lock_floor, lock_margin, cost, bit, out, winner>>

\* dv_multi_create: a threshold that is not positive takes its default, 0.6
\* for the floor and 0.2 for the margin.
Threshold(given, tenths) ==
    IF given > 0 THEN given ELSE (tenths * Scale) \div 10

LeastCost(c) == Min(Range(c))

\* The likeliest code; the first of equals.
BestOf(c) == Min({j \in Codes : c[j] = LeastCost(c)})

\* dv_trellis_lock of a code with cost c reaches the floor: the probability
\* falls linearly from 1 at expected_lock to 0 at expected_unlock.
Locked(c, floor) ==
    LET gap == ExpectedUnlock - ExpectedLock
        above == Max({0, Min({gap, ExpectedUnlock - c})})
    IN  gap > 0 /\ above * Scale >= floor * gap

\* Mutant: exp(cost - min).
Mutant_WeightOf(c, codes) ==
    MapThenSumSet(LAMBDA j : Weight[MaxCost - (c[j] - LeastCost(c))], codes)

\* The total weight of a set of codes, relative to the best fitting one.
WeightOf(c, codes) ==
    MapThenSumSet(LAMBDA j : Weight[c[j] - LeastCost(c)], codes)

\* An advantage, times the total weight, reaches the margin.
Leads(c, advantage, margin) ==
    advantage * Scale >= margin * WeightOf(c, Codes)

\* Mutant: the lead without its "- 1.0".
Mutant_Lead(c, b) == 2 * WeightOf(c, {j \in Codes : b[j] = 1})

\* `lead` times the total weight: the ones' weight minus the zeros'.
Lead(c, b) ==
    2 * WeightOf(c, {j \in Codes : b[j] = 1}) - WeightOf(c, Codes)

\* Mutant: what does not lead is a zero.
Mutant_Decide(c, b, floor, margin) ==
    CASE ~Locked(LeastCost(c), floor) -> Erasure
      [] Locked(LeastCost(c), floor) /\ Leads(c, Lead(c, b), margin) -> 1
      [] OTHER -> 0

\* The decided bit.
Decide(c, b, floor, margin) ==
    LET locked == Locked(LeastCost(c), floor)
        ones == Leads(c, Lead(c, b), margin)
        zeros == Leads(c, -Lead(c, b), margin)
    IN  CASE locked /\ ones -> 1
          [] locked /\ ~ones /\ zeros -> 0
          [] OTHER -> Erasure

----------------------------------------------------------------------------
Init ==
    /\ lock_floor \in {Threshold(given, 6) : given \in Floors}
    /\ lock_margin \in {Threshold(given, 2) : given \in Margins}
    /\ cost = [j \in Codes |-> MaxCost]
    /\ bit = [j \in Codes |-> 0]
    /\ out = Pending
    /\ winner = NoCode

\* One decision, for any costs and traced bits.
DecideBit ==
    /\ cost' \in [Codes -> Costs]
    /\ bit' \in [Codes -> Bits]
    /\ out' = Decide(cost', bit', lock_floor, lock_margin)
    /\ winner' = IF out' = Erasure THEN NoCode ELSE BestOf(cost')
    /\ UNCHANGED <<lock_floor, lock_margin>>

Spec == Init /\ [][DecideBit]_vars

----------------------------------------------------------------------------
(* Properties                                                              *)

\* The other codes together overrule the likeliest one only where the margin
\* lets them: never above a margin of 1 - 2/codes_len, so never with two
\* codes.
LeaderPrevails ==
    /\ out \in Bits
    /\ lock_margin * NumCodes > (NumCodes - 2) * Scale
    => out = bit[BestOf(cost)]

\* The vote favours neither bit value: with every traced bit inverted it
\* commits the inverted bit, or erases where it erased.
FavoursNeither ==
    LET inverted == [j \in Codes |-> 1 - bit[j]]
    IN  out # Pending =>
            Decide(cost, inverted, lock_floor, lock_margin) =
                IF out = Erasure THEN Erasure ELSE 1 - out

\* Evidence counts the right way: had a code that voted against the committed
\* bit fitted worse, the bit would not have been inverted, nor erased unless
\* the best fit itself fell below the floor.
EvidenceCounts ==
    out \in Bits =>
        \A j \in Codes : bit[j] # out =>
            \A c \in {d \in Costs : d > cost[j]} :
                LET worse == [cost EXCEPT ![j] = c]
                IN  Decide(worse, bit, lock_floor, lock_margin) =
                        IF Locked(LeastCost(worse), lock_floor)
                        THEN out ELSE Erasure

\* Codes that agree are never erased while one of them is locked, at any
\* margin below 1: the share of the total weight that "1 never commits"
\* (multi_decode.h:66) keeps apart.
UnanimityCommits ==
    /\ out # Pending
    /\ \A j, k \in Codes : bit[j] = bit[k]
    /\ Locked(LeastCost(cost), lock_floor)
    /\ lock_margin < Scale
    => out = bit[0]

\* What the header says of the margin: "0 commits on any majority and 1 never
\* commits" (multi_decode.h:65-66).  The code compares with >=
\* (multi_decode.c:205), and a unanimous vote leads by the whole weight.
FullMarginNeverCommits ==
    out # Pending /\ lock_margin = Scale => out = Erasure

----------------------------------------------------------------------------
(* The inductive invariant behind the theorems of VoteProofs: the output   *)
(* is what the vote over the last costs and bits decided, at thresholds    *)
(* that are positive.                                                      *)
VoteInv ==
    /\ lock_floor \in Nat \ {0} /\ lock_margin \in Nat \ {0}
    /\ out # Pending =>
          /\ cost \in [Codes -> Costs]
          /\ bit \in [Codes -> Bits]
          /\ out = Decide(cost, bit, lock_floor, lock_margin)
=============================================================================
