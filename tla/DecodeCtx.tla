----------------------------- MODULE DecodeCtx -----------------------------
(* The shared decode context of decode_internal.h (dv_decode_ctx) as the   *)
(* operators that decode.c applies to it: the received-bit buffer with its *)
(* compaction and growth, the re-anchor decision and the window of         *)
(* received bits one trellis step looks at.  A decoder (StreamDecoder)     *)
(* keeps a buffer and a cadence in its variables and applies these         *)
(* operators to them.                                                      *)
(*                                                                         *)
(* A received bit is represented by its serial number in the stream: the   *)
(* k-th bit ever fed is the number k.  So the model tells every bit of the *)
(* stream from every other one, and a buffer that lost, repeated or moved  *)
(* a bit is told from one that did not.  Its value (0, 1 or DV_ERASURE)    *)
(* enters path costs only, which the decoder modules leave open.           *)
EXTENDS Integers, Sequences

CONSTANTS
    N,            \* dv_code n: coded bits per input bit
    MaxDrift,     \* dv_stream_params.max_drift
    Depth,        \* dv_stream_params.decision_depth
    Indels,       \* is p_ins or p_del positive?
    DriftSlack,   \* the 8 of the initial capacity (decode.c:669)
    FixedSlack    \* the 64 of the initial capacity (decode.c:669)

(* dv_code_create refuses num_generators < 1 (encode.c:54) and             *)
(* dv_decode_ctx_init refuses decision_depth < 1, max_drift < 0, and a     *)
(* drift window without indel probabilities.                               *)
ASSUME GeometryAssumption ==
    /\ N \in Nat \ {0}
    /\ MaxDrift \in Nat
    /\ Depth \in Nat \ {0}
    /\ Indels \in BOOLEAN
    /\ MaxDrift > 0 => Indels
    /\ DriftSlack \in Nat
    /\ FixedSlack \in Nat

DriftWidth == 2 * MaxDrift + 1
DriftIndexes == 0 .. (DriftWidth - 1)
Shifts == {-1, 0, 1}

\* The ring slot of a step: backpointers, shift[] use steps % decision_depth.
Slots == 0 .. (Depth - 1)
Slot(step) == step % Depth

\* A match-table entry outside the buffer (in_range == 0).
NoBit == -1

WindowWidth == N + 4 * MaxDrift
WindowPlaces == 0 .. (WindowWidth - 1)
Windows == [WindowPlaces -> Nat \cup {NoBit}]

InitialCapacity == (Depth + 2) * N + DriftSlack * MaxDrift + FixedSlack

----------------------------------------------------------------------------
(* The received buffer: the bits received[0 .. received_length) with the   *)
(* capacity of their allocation and the cursor into them.  Index i of the  *)
(* code is index i + 1 of the sequence; received_length is its length.     *)

Buffers == [received : Seq(Nat), received_capacity : Nat, read_base : Nat]

Buffer(bits, capacity, base) ==
    [received |-> bits, received_capacity |-> capacity, read_base |-> base]

EmptyBuffer == Buffer(<< >>, InitialCapacity, 0)

\* The received bits but the first k.
DropBits(bits, k) == SubSeq(bits, k + 1, Len(bits))

\* Mutants: one side of the drift window's history kept; nothing dropped.
Mutant_KeepHalf(b) ==
    LET keep_from == b.read_base - MaxDrift
    IN  IF keep_from <= 0 THEN b
        ELSE Buffer(DropBits(b.received, keep_from), b.received_capacity,
                    b.read_base - keep_from)
Mutant_KeepAll(b) == b

\* Drop the dead prefix but 2 * max_drift bits of it (compact_received).
CompactReceived(b) ==
    LET keep_from == b.read_base - 2 * MaxDrift
    IN  IF keep_from <= 0 THEN b
        ELSE Buffer(DropBits(b.received, keep_from), b.received_capacity,
                    b.read_base - keep_from)

\* Mutant: the room for the new bits is not asked for.
Mutant_MustGrow(b, extra) == Len(b.received) > b.received_capacity

\* reserve_received has to call realloc for `extra` more bits.
MustGrow(b, extra) ==
    LET c == CompactReceived(b)
    IN  Len(c.received) + extra > c.received_capacity

\* reserve_received when the allocation, if it needs one, succeeds.
ReserveReceived(b, extra) ==
    LET c == CompactReceived(b)
        needed == Len(c.received) + extra
        doubled == c.received_capacity * 2
    IN  IF MustGrow(b, extra)
        THEN Buffer(c.received, IF doubled < needed THEN needed ELSE doubled,
                    c.read_base)
        ELSE c

\* dv_decode_feed of the n_in bits that follow the `fed` bits fed so far.
FeedReceived(b, fed, n_in) ==
    LET r == ReserveReceived(b, n_in)
    IN  Buffer(r.received \o [i \in 1 .. n_in |-> fed + i - 1],
               r.received_capacity, r.read_base)

----------------------------------------------------------------------------
(* One step's view of the buffer                                           *)

\* pick_shift: nudge the window toward the best node's drift.
PickShift(best_drift_index) ==
    LET drift == best_drift_index - MaxDrift
        deadband == (MaxDrift + 1) \div 2
    IN  CASE MaxDrift = 0 -> 0
          [] MaxDrift > 0 /\ drift >= deadband -> 1
          [] MaxDrift > 0 /\ drift <= -deadband -> -1
          [] OTHER -> 0

\* Mutant: the cursor moves against the window.
Mutant_ShiftBase(b, sigma) ==
    Buffer(b.received, b.received_capacity, b.read_base - sigma)

\* dv_decode_step moves the read cursor with the window.
ShiftBase(b, sigma) ==
    Buffer(b.received, b.received_capacity, b.read_base + sigma)

\* fill_match_costs: the received bit at every place of the match table.
MatchWindow(b) ==
    [p \in WindowPlaces |->
        LET absolute == b.read_base - MaxDrift + p
        IN  IF absolute \in 0 .. (Len(b.received) - 1)
            THEN b.received[absolute + 1] ELSE NoBit]

\* forward_pass_nodrift takes the group at the cursor whole or not at all.
GroupWindow(b) ==
    [p \in WindowPlaces |->
        IF b.read_base >= 0 /\ b.read_base + N <= Len(b.received)
        THEN b.received[b.read_base + p + 1] ELSE NoBit]

\* What a step sees of the buffer: dv_decode_step skips the match table when
\* there is neither a drift window nor an indel.
StepWindow(b) ==
    IF MaxDrift = 0 /\ ~Indels THEN GroupWindow(b) ELSE MatchWindow(b)

\* The tail of dv_decode_step: advance the cursor, compact past half.
AdvanceBase(b) ==
    LET a == Buffer(b.received, b.received_capacity, b.read_base + N)
    IN  IF a.read_base - MaxDrift >= a.received_capacity \div 2
        THEN CompactReceived(a) ELSE a

----------------------------------------------------------------------------
(* The guards of the run loop                                              *)

\* Mutant: no slack for a re-anchor.
Mutant_NoSlack(b) == Len(b.received) >= b.read_base + N + MaxDrift

\* !draining: enough look-ahead for a step, with one bit for a shift of +1.
HasLookAhead(b) == Len(b.received) >= b.read_base + N + MaxDrift + 1

\* draining: a whole group is left.
HasGroup(b) == Len(b.received) - b.read_base >= N

----------------------------------------------------------------------------
(* The invariant of the received buffer, after `fed` bits have been fed:   *)
(* it is the last piece of the stream, the cursor has not run away from    *)
(* it, and once a prefix has been dropped two drift windows of history are *)
(* left below the cursor.                                                  *)
HoldsLog(b, fed) ==
    /\ Len(b.received) <= fed
    /\ \A i \in 1 .. Len(b.received) :
          b.received[i] = fed - Len(b.received) + i - 1

CursorNear(b) ==
    /\ b.read_base <= Len(b.received) + 1
    /\ MaxDrift = 0 => b.read_base <= Len(b.received)

KeepsHistory(b, fed) ==
    Len(b.received) < fed => b.read_base >= 2 * MaxDrift

FitsCapacity(b) == Len(b.received) <= b.received_capacity

GoodBuffer(b, fed) ==
    /\ b \in Buffers
    /\ HoldsLog(b, fed)
    /\ CursorNear(b)
    /\ KeepsHistory(b, fed)
    /\ FitsCapacity(b)

\* Stream position of the cursor of b.
PositionOf(b, fed) == fed - Len(b.received) + b.read_base
=============================================================================
