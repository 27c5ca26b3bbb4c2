------------------------------ MODULE Cadence ------------------------------
(* The cadence of one decoder (decode_internal.h: read_base, steps and     *)
(* decided) in bounded counters, for the question whether its loops end.   *)
(* The stream, the trellis and the buffer are gone; what is left of them   *)
(* is how many bits lie ahead of the cursor, how many steps await their    *)
(* decision, and how full the ring is.  StreamDecoder implements this      *)
(* module, for every geometry; here every counter stays finite even when   *)
(* the number of steps does not.                                           *)
EXTENDS DecodeCtx

CONSTANTS
    OutSizes,      \* max_out of a call
    ChunkSizes,    \* n_in of a dv_stream_decode call
    MaxBacklog,    \* bound on the bits ahead of the cursor (model bound)
    ResumeAfterFlush  \* may the caller feed again after a flush?

VARIABLES
    pc,         \* where the caller is
    room,       \* max_out - output_count of the call being served
    wrote,      \* has this call written a bit?
    returned,   \* what the last flush returned: "some" bits, "zero" bits
                \* though it had room, or "none" to tell
    backlog,    \* received_length - read_base
    undecided,  \* steps - decided
    filled,     \* layers of the ring in use: steps, up to decision_depth
    flushed     \* a flush has been called

vars == <<pc, room, wrote, returned, backlog, undecided, filled, flushed>>

Init ==
    /\ pc = "idle"
    /\ room = 0
    /\ wrote = FALSE
    /\ returned = "none"
    /\ backlog = 0
    /\ undecided = 0
    /\ filled = 0
    /\ flushed = FALSE

Enter(call, limit) ==
    /\ pc = "idle"
    /\ pc' = call
    /\ room' = limit
    /\ wrote' = FALSE
    /\ returned' = "none"

DecodeCall(n_in, limit) ==
    /\ backlog + n_in <= MaxBacklog
    /\ flushed => ResumeAfterFlush
    /\ Enter("decode", limit)
    /\ backlog' = backlog + n_in
    /\ UNCHANGED <<undecided, filled, flushed>>

\* dv_stream_decode when its allocation fails.
DecodeCallRefused ==
    /\ pc = "idle"
    /\ flushed => ResumeAfterFlush
    /\ returned' = "none"
    /\ UNCHANGED <<pc, room, wrote, backlog, undecided, filled, flushed>>

FlushCall(limit) ==
    /\ Enter("flush", limit)
    /\ flushed' = TRUE
    /\ UNCHANGED <<backlog, undecided, filled>>

HasInput ==
    \/ pc = "decode" /\ backlog >= N + MaxDrift + 1
    \/ pc = "flush" /\ backlog >= N

MustEmit == filled = Depth

\* One iteration of run(): decide the oldest step if the ring is full, then
\* step.  The step takes N + sigma bits of the backlog.
RunIteration(sigma) ==
    /\ HasInput
    /\ MustEmit => room > 0
    /\ MaxDrift = 0 => sigma = 0
    /\ backlog' = backlog - N - sigma
    /\ IF MustEmit
       THEN /\ room' = room - 1
            /\ wrote' = TRUE
            /\ UNCHANGED <<undecided, filled>>
       ELSE /\ undecided' = undecided + 1
            /\ filled' = filled + 1
            /\ UNCHANGED <<room, wrote>>
    /\ UNCHANGED <<pc, returned, flushed>>

RunEnds == ~HasInput \/ (MustEmit /\ room = 0)

DecodeReturn ==
    /\ pc = "decode"
    /\ RunEnds
    /\ pc' = "idle"
    /\ room' = 0
    /\ wrote' = FALSE
    /\ UNCHANGED <<returned, backlog, undecided, filled, flushed>>

FlushRunEnds ==
    /\ pc = "flush"
    /\ RunEnds
    /\ pc' = "drain"
    /\ UNCHANGED <<room, wrote, returned, backlog, undecided, filled, flushed>>

DrainDecision ==
    /\ pc = "drain"
    /\ undecided > 0
    /\ room > 0
    /\ room' = room - 1
    /\ wrote' = TRUE
    /\ undecided' = undecided - 1
    /\ UNCHANGED <<pc, returned, backlog, filled, flushed>>

FlushReturn ==
    /\ pc = "drain"
    /\ undecided = 0 \/ room = 0
    /\ pc' = "idle"
    /\ returned' = CASE wrote -> "some"
                     [] ~wrote /\ room > 0 -> "zero"
                     [] OTHER -> "none"
    /\ room' = 0
    /\ wrote' = FALSE
    /\ UNCHANGED <<backlog, undecided, filled, flushed>>

Next ==
    \/ \E n_in \in ChunkSizes, limit \in OutSizes : DecodeCall(n_in, limit)
    \/ DecodeCallRefused
    \/ \E limit \in OutSizes : FlushCall(limit)
    \/ \E sigma \in Shifts : RunIteration(sigma)
    \/ DecodeReturn
    \/ FlushRunEnds
    \/ DrainDecision
    \/ FlushReturn

Spec == Init /\ [][Next]_vars

\* A call that has begun runs to its return, and the caller of flush calls
\* it again while it returns bits (decode.h: call it repeatedly).
Fairness ==
    /\ WF_vars(\E sigma \in Shifts : RunIteration(sigma))
    /\ WF_vars(DecodeReturn)
    /\ WF_vars(FlushRunEnds)
    /\ WF_vars(DrainDecision)
    /\ WF_vars(FlushReturn)
    /\ WF_vars(flushed /\ \E limit \in OutSizes : FlushCall(limit))

FairSpec == Spec /\ Fairness

----------------------------------------------------------------------------
\* "call it repeatedly until it returns 0" (decode.h:143): a caller that
\* does so gets there.
FlushReturnsZero == flushed ~> returned = "zero"
=============================================================================
