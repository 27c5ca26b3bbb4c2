--------------------------- MODULE StreamDecoder ---------------------------
(* The single-stream decoder of decode.c: one dv_decode_ctx and one        *)
(* dv_trellis behind dv_stream_decode and dv_stream_decode_flush.  A call  *)
(* is the action that enters it, one action per iteration of its loop and  *)
(* the action that returns; calls of one decoder do not overlap.           *)
(*                                                                         *)
(* Path costs are left open: after each step any node of finite cost may   *)
(* be the cheapest, so every re-anchor history that some input could force *)
(* is a behaviour of this module.                                          *)
EXTENDS Trellis

CONSTANTS
    ChunkSizes,        \* n_in of a dv_stream_decode call
    OutSizes,          \* max_out of a call
    StreamLength,      \* bound on the bits fed (model bound)
    ResumeAfterFlush,  \* may the caller feed again after a flush?
    DrainBeforeFeed    \* does the caller take all output before it feeds?

ASSUME CallerAssumption ==
    /\ ChunkSizes \subseteq Nat
    /\ OutSizes \subseteq Nat
    /\ StreamLength \in Nat
    /\ ResumeAfterFlush \in BOOLEAN
    /\ DrainBeforeFeed \in BOOLEAN

VARIABLES
    buf,           \* the received buffer of the context
    steps,         \* trellis steps processed
    decided,       \* decisions emitted
    shift,         \* ring of the re-anchor shifts
    window,        \* what the last step saw of the buffer
    live,          \* nodes of finite cost in tr->metric
    best,          \* the cheapest of them (dv_trellis_frontier)
    backpointers,  \* ring of layers
    pc,            \* where the caller is
    max_out,       \* of the call being served
    output_count,  \* of the call being served
    result,        \* what the last call returned
    fed,           \* history: bits fed by the caller
    flushed,       \* history: a flush has been called
    anchor         \* history, ring: stream position of the step's read base

ctxVars == <<buf, steps, decided, shift, window>>
trellisVars == <<live, best, backpointers>>
callVars == <<pc, max_out, output_count, result>>
historyVars == <<fed, flushed, anchor>>
vars == <<ctxVars, trellisVars, callVars, historyVars>>

Calls == {"decode", "flush"}
Results == [call : Calls \cup {"none", "refused"}, max_out : OutSizes \cup {0},
            count : Nat]

\* Bits of the stream that are no longer in the buffer, and the stream
\* position of the cursor.
Dropped == fed - Len(buf.received)
Cursor == Dropped + buf.read_base

----------------------------------------------------------------------------
Init ==
    /\ buf = EmptyBuffer
    /\ steps = 0
    /\ decided = 0
    /\ shift \in [Slots -> {0}]
    /\ window = [p \in WindowPlaces |-> NoBit]
    /\ live = InitialLive
    /\ best = Node(0, MaxDrift)
    /\ backpointers = RawRing
    /\ pc = "idle"
    /\ max_out = 0
    /\ output_count = 0
    /\ result = [call |-> "none", max_out |-> 0, count |-> 0]
    /\ fed = 0
    /\ flushed = FALSE
    /\ anchor = [slot \in Slots |-> 0]

\* decode.h: "If out fills up (return value == max_out), call again to
\* collect more before feeding more input."  Of flush: "call it repeatedly
\* until it returns 0".
OutputTaken == result.call \in Calls => result.count < result.max_out

MayFeed(n_in) ==
    /\ fed + n_in <= StreamLength
    /\ flushed => ResumeAfterFlush
    /\ DrainBeforeFeed /\ n_in > 0 => OutputTaken

Enter(call, limit) ==
    /\ pc = "idle"
    /\ pc' = call
    /\ max_out' = limit
    /\ output_count' = 0
    /\ UNCHANGED result

\* dv_stream_decode up to its run loop: the bits are appended.
DecodeCall(n_in, limit) ==
    /\ MayFeed(n_in)
    /\ Enter("decode", limit)
    /\ buf' = FeedReceived(buf, fed, n_in)
    /\ fed' = fed + n_in
    /\ UNCHANGED <<steps, decided, shift, window, flushed, anchor, trellisVars>>

\* dv_stream_decode when realloc fails: the buffer has been compacted, no bit
\* was appended, and the call returns DV_ERR_ALLOC.
DecodeCallRefused(n_in) ==
    /\ pc = "idle"
    /\ MayFeed(n_in)
    /\ MustGrow(buf, n_in)
    /\ buf' = CompactReceived(buf)
    /\ result' = [call |-> "refused", max_out |-> 0, count |-> 0]
    /\ UNCHANGED <<steps, decided, shift, window, pc, max_out, output_count,
                   trellisVars, historyVars>>

FlushCall(limit) ==
    /\ Enter("flush", limit)
    /\ flushed' = TRUE
    /\ UNCHANGED <<fed, anchor, ctxVars, trellisVars>>

----------------------------------------------------------------------------
(* run(): one iteration per action                                         *)

HasInput ==
    \/ pc = "decode" /\ HasLookAhead(buf)
    \/ pc = "flush" /\ HasGroup(buf)

OutputFull == output_count >= max_out

\* Mutant: one step late, when the layer is gone.
Mutant_MustEmit == steps > Depth

\* The step about to run overwrites the layer of the oldest undecided step.
MustEmit == steps >= Depth

\* out[output_count++] = dv_trellis_trace(..., ctx->decided); ctx->decided++
EmitDecision ==
    /\ output_count' = output_count + 1
    /\ decided' = decided + 1

\* dv_decode_step with one trellis.
DecodeStep ==
    LET sigma == PickShift(best.drift)
        based == ShiftBase(buf, sigma)
        seen == StepWindow(based)
        sources == Reanchor(live, sigma)
        slot == Slot(steps)
    IN  /\ shift' = [shift EXCEPT ![slot] = sigma]
        /\ window' = seen
        /\ backpointers' = [backpointers EXCEPT ![slot] =
                               WriteLayer(@, sources, seen, steps)]
        /\ live' = Survivors(sources, seen)
        /\ best' \in IF live' = {} THEN {Node(0, 0)} ELSE live'
        /\ anchor' = [anchor EXCEPT ![slot] = Dropped + based.read_base]
        /\ steps' = steps + 1
        /\ buf' = AdvanceBase(based)

RunIteration ==
    /\ HasInput
    /\ IF MustEmit THEN ~OutputFull /\ EmitDecision
                   ELSE UNCHANGED <<output_count, decided>>
    /\ DecodeStep
    /\ UNCHANGED <<pc, max_out, result, fed, flushed>>

RunEnds == ~HasInput \/ (MustEmit /\ OutputFull)

Return(call) ==
    /\ pc' = "idle"
    /\ result' = [call |-> call, max_out |-> max_out, count |-> output_count]
    /\ max_out' = 0
    /\ output_count' = 0

DecodeReturn ==
    /\ pc = "decode"
    /\ RunEnds
    /\ Return("decode")
    /\ UNCHANGED <<ctxVars, trellisVars, historyVars>>

----------------------------------------------------------------------------
(* The rest of dv_stream_decode_flush: decide what is left of the pipeline *)
(* from the final frontier.                                                *)

FlushRunEnds ==
    /\ pc = "flush"
    /\ RunEnds
    /\ pc' = "drain"
    /\ UNCHANGED <<max_out, output_count, result, ctxVars, trellisVars,
                   historyVars>>

\* Mutant: one decision too many.
Mutant_DrainDecision ==
    /\ pc = "drain"
    /\ decided <= steps
    /\ ~OutputFull
    /\ EmitDecision
    /\ UNCHANGED <<buf, steps, shift, window, pc, max_out, result, trellisVars,
                   historyVars>>

DrainDecision ==
    /\ pc = "drain"
    /\ decided < steps
    /\ ~OutputFull
    /\ EmitDecision
    /\ UNCHANGED <<buf, steps, shift, window, pc, max_out, result, trellisVars,
                   historyVars>>

\* Mutant: the last decision is left in the ring.
Mutant_FlushReturn ==
    /\ pc = "drain"
    /\ decided >= steps - 1 \/ OutputFull
    /\ Return("flush")
    /\ UNCHANGED <<ctxVars, trellisVars, historyVars>>

FlushReturn ==
    /\ pc = "drain"
    /\ decided >= steps \/ OutputFull
    /\ Return("flush")
    /\ UNCHANGED <<ctxVars, trellisVars, historyVars>>

----------------------------------------------------------------------------
Next ==
    \/ \E n_in \in ChunkSizes, limit \in OutSizes : DecodeCall(n_in, limit)
    \/ \E n_in \in ChunkSizes : DecodeCallRefused(n_in)
    \/ \E limit \in OutSizes : FlushCall(limit)
    \/ RunIteration
    \/ DecodeReturn
    \/ FlushRunEnds
    \/ DrainDecision
    \/ FlushReturn

Spec == Init /\ [][Next]_vars

\* A call that has begun runs to its return, one step of it at a time; the
\* caller of flush "calls it repeatedly" (decode.h), whatever other calls it
\* makes in between.
Fairness ==
    /\ WF_vars(RunIteration \/ DecodeReturn \/ FlushRunEnds \/ DrainDecision
                 \/ FlushReturn)
    /\ SF_vars(flushed /\ \E limit \in OutSizes : FlushCall(limit))

FairSpec == Spec /\ Fairness

----------------------------------------------------------------------------
(* The specifications this module implements                               *)

Log == INSTANCE DecodeLog WITH ended <- flushed, cursor <- Cursor

LoopCadence == INSTANCE Cadence WITH
    room <- max_out - output_count,
    wrote <- output_count > 0,
    returned <- CASE pc # "idle" \/ result.call # "flush" -> "none"
                  [] pc = "idle" /\ result.call = "flush" /\ result.count > 0
                        -> "some"
                  [] pc = "idle" /\ result.call = "flush" /\ result.count = 0
                     /\ result.max_out > 0 -> "zero"
                  [] OTHER -> "none",
    backlog <- Len(buf.received) - buf.read_base,
    undecided <- steps - decided,
    filled <- IF steps < Depth THEN steps ELSE Depth,
    MaxBacklog <- StreamLength

\* The decoder reads the stream as an uncut log: neither the cutting of the
\* stream into calls, nor compaction, growth or a failed growth shows in what
\* a step sees.
ImplementsLog == Log!Spec

\* The loops of the decoder are those of Cadence, in its bounded counters.
ImplementsCadence == LoopCadence!Spec

----------------------------------------------------------------------------
(* Properties                                                              *)

\* Every variable has its type.
TypeOK ==
    /\ buf \in Buffers
    /\ steps \in Nat
    /\ decided \in Nat
    /\ shift \in [Slots -> Shifts]
    /\ window \in Windows
    /\ live \in SUBSET Nodes
    /\ best \in Nodes
    /\ backpointers \in Rings
    /\ pc \in {"idle", "decode", "flush", "drain"}
    /\ max_out \in OutSizes \cup {0}
    /\ output_count \in Nat
    /\ result \in Results
    /\ fed \in Nat
    /\ flushed \in BOOLEAN
    /\ anchor \in [Slots -> Int]

\* Trail[k]: where a traceback from `best` may stand once it has stepped back
\* over k steps, i.e. before it reads the layer of step steps - 1 - k.
Trail ==
    LET trail[k \in 0 .. (steps - decided)] ==
            IF k = 0 THEN {best}
            ELSE UNION {StepBack(backpointers, shift, steps - k, v) :
                            v \in trail[k - 1] \cap Nodes}
    IN  trail

Undecided == 0 .. (steps - decided - 1)

\* Some step has read an erasure that no path survives.
Doomed == \E i \in FatalErasures : i < Cursor

\* The traceback to the next decision is never deeper than the ring, never
\* leaves the drift window and never reads a layer entry that its own step
\* did not write: the two DV_ASSERTs of dv_trellis_trace (decode.c:507, 522)
\* and the claim that every surviving node has a backpointer, as long as one
\* survives.
TraceIntact ==
    /\ steps - decided <= Depth
    /\ ~Doomed => \A k \in Undecided : \A v \in Trail[k] :
          /\ v \in Nodes
          /\ backpointers[Slot(steps - 1 - k)][v].step = steps - 1 - k

\* Stream position a branch of step i starts from, at source u in the frame
\* of that step, and the one it ends at, at node v.
StartsAt(i, u) == anchor[Slot(i)] + u.drift - MaxDrift
EndsAt(i, v) == anchor[Slot(i)] + N + v.drift - MaxDrift

\* The branches of a surviving path read the stream front to back without a
\* gap or an overlap: each starts at the stream position its predecessor
\* ended at, across every re-anchor and every compaction in between, and
\* inside what has been fed.
PathsAreContiguous ==
    ~Doomed => \A k \in Undecided : \A v \in Trail[k] :
        LET i == steps - 1 - k
        IN  \A u \in backpointers[Slot(i)][v].from :
               /\ 0 <= StartsAt(i, u)
               /\ StartsAt(i, u) <= EndsAt(i, v)
               /\ EndsAt(i, v) <= fed
               /\ k + 1 \in Undecided =>
                     StartsAt(i, u) =
                         EndsAt(i - 1, Node(u.state, u.drift + shift[Slot(i)]))

\* Steps whose layer the ring still holds.
Retained == {i \in 0 .. (steps - 1) : steps - i <= Depth}

Fresh(i, v) == backpointers[Slot(i)][v].step = i

\* The same facts for every entry of the ring that its step wrote, not only
\* for those below `best`: each names a predecessor in the window, whose own
\* entry is fresh and ends where this branch starts; and every node of finite
\* cost has a fresh entry, so any of them may become the frontier node.
RingLinked ==
    /\ steps > 0 => \A v \in live : Fresh(steps - 1, v)
    /\ \A i \in Retained : \A v \in Nodes : Fresh(i, v) =>
          \A u \in backpointers[Slot(i)][v].from :
             LET w == Node(u.state, u.drift + shift[Slot(i)])
             IN  /\ 0 <= StartsAt(i, u)
                 /\ StartsAt(i, u) <= EndsAt(i, v)
                 /\ EndsAt(i, v) <= fed
                 /\ i - 1 \in Retained => /\ w \in Nodes
                                          /\ Fresh(i - 1, w)
                                          /\ EndsAt(i - 1, w) = StartsAt(i, u)

\* One thing only leaves the trellis without a path, and for good: a step
\* that reads an erasure of infinite cost.  Neither the end of the stream, nor
\* its cutting into calls, nor a re-anchor does: until then some node keeps a
\* finite cost and the frontier node is one of them, so the fallback of
\* dv_trellis_frontier to node 0 is not taken.
StaysAlive == IF Doomed THEN live = {} ELSE live # {} /\ best \in live

\* The read cursor stays inside the buffer or at most one past its end, so
\* the byte count compact_received hands to memmove is never negative.
CursorInBuffer ==
    /\ buf.read_base >= 0
    /\ buf.read_base - 2 * MaxDrift <= Len(buf.received)
    /\ Len(buf.received) <= buf.received_capacity

\* Before the end of the stream, a step sees every bit that a branch could
\* consume, however the stream was cut into calls: the look-ahead of the run
\* loop and the history compaction keeps are enough, for every re-anchor.
SeesWholeReach ==
    ~flushed /\ steps > 0 =>
        \A p \in 0 .. (N + 2 * MaxDrift - 1) :
            LET position == anchor[Slot(steps - 1)] - MaxDrift + p
            IN  position >= 0 => window[p] = position

\* Until the stream is flushed every decision is taken with exactly
\* decision_depth steps of look-back ("with a fixed delay", decode.h).
FixedDelay ==
    ~flushed => decided = IF steps > Depth THEN steps - Depth ELSE 0

\* A flush that had room left has decided every step and left less than one
\* group of bits unread ("after which every bit has been decoded", decode.h).
FlushComplete ==
    pc = "idle" /\ result.call = "flush" /\ result.count < result.max_out =>
        decided = steps /\ Len(buf.received) - buf.read_base < N

\* Every bit written to `out` is a bit some step has put in the ring.
DecisionsTraced == [][decided' > decided => decided < steps]_vars

\* A caller that takes its output before it feeds more keeps the buffer
\* bounded, whatever the length of the stream ("bounded memory", decode.c:46):
\* two drift windows of history, the look-ahead and one chunk.
BoundedMemory ==
    LET longest == 3 * MaxDrift + N + (CHOOSE c \in ChunkSizes :
                                          \A d \in ChunkSizes : d <= c)
    IN  DrainBeforeFeed =>
           /\ Len(buf.received) <= longest
           /\ \/ buf.received_capacity = InitialCapacity
              \/ buf.received_capacity < 2 * longest

\* Once the stream has been flushed, a caller that keeps calling flush is told
\* that no bit is left ("call it repeatedly until it returns 0", decode.h:143)
\* when every step is decided and every whole group read.
FlushFinishes ==
    flushed ~> /\ pc = "idle"
               /\ decided = steps
               /\ ~HasGroup(buf)
               /\ result.call = "flush"
               /\ result.count = 0
               /\ result.max_out > 0

----------------------------------------------------------------------------
(* The inductive invariant behind the theorems of StreamDecoderProofs.     *)

\* A surviving path has read up to a place inside the stream.
PathsInLog == \A v \in live : Cursor + v.drift - MaxDrift \in 0 .. fed

\* The decisions still to be taken are in the ring.
PipelineFits == decided <= steps /\ steps - decided <= Depth

\* The next step's branches start where the last step's branches ended.
AnchorAtCursor == steps > 0 => anchor[Slot(steps - 1)] + N = Cursor

\* No entry claims to be of a step that has not been taken.
EntriesPast ==
    \A slot \in Slots : \A v \in Nodes : backpointers[slot][v].step < steps

\* Flush is marked while it runs, and it reaches its tail with room left
\* only when the input is used up.
FlushPhases ==
    /\ pc \in {"flush", "drain"} => flushed
    /\ pc = "drain" /\ ~OutputFull => ~HasGroup(buf)

\* The inductive invariant: the buffer is a piece of the log around the
\* cursor, the ring holds linked fresh layers for every undecided step, and
\* the paths still alive end inside the stream.
IInv ==
    /\ TypeOK
    /\ GoodBuffer(buf, fed)
    /\ PathsInLog
    /\ StaysAlive
    /\ PipelineFits
    /\ AnchorAtCursor
    /\ EntriesPast
    /\ RingLinked
    /\ FixedDelay
    /\ FlushPhases
    /\ FlushComplete
=============================================================================
