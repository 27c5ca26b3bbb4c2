------------------------------ MODULE Trellis ------------------------------
(* One code's trellis (dv_trellis) as the operators decode.c applies to    *)
(* it.  Path costs are real numbers in the code; here they are left open.  *)
(* What is kept of the metric is which nodes have a finite cost (`live`)   *)
(* and, in the decoder's own variable, which node is the cheapest.  What   *)
(* is kept of a backpointer is the set of nodes it may name: every source  *)
(* that a branch of finite cost reaches the node from.  The code stores    *)
(* one of them, the cheapest; whatever holds for every member holds for    *)
(* the one that is stored.                                                 *)
EXTENDS DecodeCtx

CONSTANTS
    NumStates,    \* dv_code n_states
    next_state,   \* dv_code next_state: the state after <<state, input bit>>
    FatalErasures \* stream positions holding a DV_ERASURE of infinite cost

States == 0 .. (NumStates - 1)
Bits == {0, 1}

ASSUME CodeAssumption ==
    /\ NumStates \in Nat \ {0}
    /\ next_state \in [States \X Bits -> States]

(* With p_erase == 0 a received DV_ERASURE costs +infinity to match        *)
(* (decode.c:222, 643).  A path may still delete the coded bit and insert  *)
(* the received one, if the channel has both; it must for a drift window   *)
(* (decode.c:627), so only a decoder without one can meet an erasure that  *)
(* no path survives.                                                       *)
ASSUME ErasureAssumption ==
    /\ FatalErasures \subseteq Nat
    /\ MaxDrift > 0 => FatalErasures = {}

\* A node of the frontier: an encoder state and a drift index (node_at).
Nodes == [state : States, drift : DriftIndexes]
Node(s, d) == [state |-> s, drift |-> d]

\* Backpointer entries.  `step` is the step that wrote the entry; it is not
\* in the code, which cannot tell a fresh entry from a stale one.
NeverWritten == -1
Entries == [step : Nat \cup {NeverWritten}, from : SUBSET Nodes]
Rings == [Slots -> [Nodes -> Entries]]

\* malloc leaves the ring with any content: an entry may name any node.
RawRing == [slot \in Slots |->
               [v \in Nodes |-> [step |-> NeverWritten, from |-> Nodes]]]

\* init_metric: every state may be the sender's, all at zero drift.
InitialLive == {v \in Nodes : v.drift = MaxDrift}

\* Mutant: the window moves the wrong way.
Mutant_Reanchor(live, sigma) ==
    {v \in Nodes : Node(v.state, v.drift - sigma) \in live}

\* reanchor_metric: drift d becomes d - sigma, nodes shifted out are dropped.
Reanchor(live, sigma) ==
    {v \in Nodes : Node(v.state, v.drift + sigma) \in live}

\* Received bits the branch from u to v consumes.
Consumed(u, v) == N + v.drift - u.drift

\* The branch from u to v has finite cost: an edge of the code joins them,
\* every received bit it consumes is in the buffer, and none is an erasure
\* of infinite cost (align_fill_into, forward_pass_nodrift).
Branch(window, u, v) ==
    /\ \E bit \in Bits : v.state = next_state[<<u.state, bit>>]
    /\ Consumed(u, v) >= 0
    /\ \A k \in 0 .. (Consumed(u, v) - 1) :
          window[u.drift + k] \notin {NoBit} \cup FatalErasures

Sources(live, window, v) == {u \in live : Branch(window, u, v)}

\* The nodes of finite cost after the forward pass.
Survivors(live, window) == {v \in Nodes : Sources(live, window, v) # {}}

\* The step's layer of the ring: a node nothing reaches keeps its old entry.
WriteLayer(layer, live, window, step) ==
    [v \in Nodes |->
        IF Sources(live, window, v) = {} THEN layer[v]
        ELSE [step |-> step, from |-> Sources(live, window, v)]]

\* Mutant: the shift is taken back instead of applied.
Mutant_StepBack(ring, shift, i, v) ==
    {Node(u.state, u.drift - shift[Slot(i)]) : u \in ring[Slot(i)][v].from}

\* dv_trellis_trace steps back over step i from node v: the predecessor, with
\* its drift index shifted by the sigma recorded for that step.
StepBack(ring, shift, i, v) ==
    {Node(u.state, u.drift + shift[Slot(i)]) : u \in ring[Slot(i)][v].from}
=============================================================================
