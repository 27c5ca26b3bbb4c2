---------------------------- MODULE MultiDecoder ----------------------------
(* The multi-decoder of multi_decode.c: one shared dv_decode_ctx and one   *)
(* dv_trellis per candidate code, stepped in lockstep.  Each step takes    *)
(* its re-anchor from the code that fits best (`lead`), and each decision  *)
(* before the tail is either committed, naming the lead, or erased.        *)
(*                                                                         *)
(* How well a code fits is a smoothed cost in the code.  It is left open   *)
(* here: after each step any code may be the lead, and any vote may commit *)
(* or erase (module Vote has the arithmetic of one vote).                  *)
EXTENDS Trellis

CONSTANTS
    NumCodes,          \* dv_multi_params.codes_len
    ChunkSizes,        \* n_in of a dv_multi_decode call
    OutSizes,          \* max_out of a call
    StreamLength,      \* bound on the bits fed (model bound)
    ResumeAfterFlush,  \* may the caller feed again after a flush?
    DrainBeforeFeed    \* does the caller take all output before it feeds?

\* With no code at all every call returns 0 (multi_decode.c:238, 252).
ASSUME CallerAssumption ==
    /\ NumCodes \in Nat \ {0}
    /\ ChunkSizes \subseteq Nat
    /\ OutSizes \subseteq Nat
    /\ StreamLength \in Nat
    /\ ResumeAfterFlush \in BOOLEAN
    /\ DrainBeforeFeed \in BOOLEAN

Codes == 0 .. (NumCodes - 1)
NoCode == -1

VARIABLES
    buf,           \* the shared received buffer
    steps,         \* trellis steps processed
    decided,       \* decisions emitted
    shift,         \* ring of the shared re-anchor shifts
    window,        \* what the last step saw of the buffer
    live,          \* per code: nodes of finite cost
    backpointers,  \* per code: ring of layers
    lead,          \* the code of the lowest smoothed cost
    best,          \* the cheapest of the nodes alive in the lead's trellis
    locked,        \* d->locked
    last,          \* multi_run's `last`
    pc,            \* where the caller is
    max_out,       \* of the call being served
    output_count,  \* of the call being served
    result,        \* what the last call returned
    fed,           \* history: bits fed by the caller
    flushed,       \* history: a flush has been called
    anchor,        \* history, ring: stream position of the step's read base
    committed,     \* history: code named by the last committed decision
    decode_lock,   \* history: the same, of dv_multi_decode calls alone
    tail           \* history: codes the tail has been decided by

ctxVars == <<buf, steps, decided, shift, window>>
trellisVars == <<live, backpointers, lead, best>>
lockVars == <<locked, last, committed, decode_lock, tail>>
callVars == <<pc, max_out, output_count, result>>
historyVars == <<fed, flushed, anchor>>
vars == <<ctxVars, trellisVars, lockVars, callVars, historyVars>>

Dropped == fed - Len(buf.received)

----------------------------------------------------------------------------
Init ==
    /\ buf = EmptyBuffer
    /\ steps = 0
    /\ decided = 0
    /\ shift \in [Slots -> {0}]
    /\ window = [p \in WindowPlaces |-> NoBit]
    /\ live = [j \in Codes |-> InitialLive]
    /\ backpointers = [j \in Codes |-> RawRing]
    /\ lead = 0
    /\ best = Node(0, MaxDrift)
    /\ locked = NoCode
    /\ last = NoCode
    /\ pc = "idle"
    /\ max_out = 0
    /\ output_count = 0
    /\ result = [call |-> "none", max_out |-> 0, count |-> 0]
    /\ fed = 0
    /\ flushed = FALSE
    /\ anchor = [slot \in Slots |-> 0]
    /\ committed = NoCode
    /\ decode_lock = NoCode
    /\ tail = {}

\* decode.h, which multi_decode.h follows: call again to collect more before
\* feeding more input, and flush until it returns 0.
OutputTaken ==
    result.call \in {"decode", "flush"} => result.count < result.max_out

MayFeed(n_in) ==
    /\ fed + n_in <= StreamLength
    /\ flushed => ResumeAfterFlush
    /\ DrainBeforeFeed /\ n_in > 0 => OutputTaken

\* Mutant: every call starts with no lock.
Mutant_Enter(call, limit) ==
    /\ pc = "idle"
    /\ pc' = call
    /\ max_out' = limit
    /\ output_count' = 0
    /\ last' = NoCode
    /\ UNCHANGED <<result, locked, committed, decode_lock, tail>>

\* The call enters multi_run, with the lock the last one left.
Enter(call, limit) ==
    /\ pc = "idle"
    /\ pc' = call
    /\ max_out' = limit
    /\ output_count' = 0
    /\ last' = locked
    /\ UNCHANGED <<result, locked, committed, decode_lock, tail>>

DecodeCall(n_in, limit) ==
    /\ MayFeed(n_in)
    /\ Enter("decode", limit)
    /\ buf' = FeedReceived(buf, fed, n_in)
    /\ fed' = fed + n_in
    /\ UNCHANGED <<steps, decided, shift, window, flushed, anchor, trellisVars>>

\* dv_multi_decode when realloc fails in dv_decode_feed.
DecodeCallRefused(n_in) ==
    /\ pc = "idle"
    /\ MayFeed(n_in)
    /\ MustGrow(buf, n_in)
    /\ buf' = CompactReceived(buf)
    /\ result' = [call |-> "refused", max_out |-> 0, count |-> 0]
    /\ UNCHANGED <<steps, decided, shift, window, pc, max_out, output_count,
                   trellisVars, lockVars, historyVars>>

\* dv_multi_decode_flush; with max_out == 0 it returns 0 and changes nothing.
FlushCall(limit) ==
    /\ limit > 0
    /\ Enter("flush", limit)
    /\ flushed' = TRUE
    /\ UNCHANGED <<fed, anchor, ctxVars, trellisVars>>

----------------------------------------------------------------------------
(* multi_run: one iteration per action                                     *)

HasInput ==
    \/ pc = "decode" /\ HasLookAhead(buf)
    \/ pc = "flush" /\ HasGroup(buf)

OutputFull == output_count >= max_out

MustEmit == steps >= Depth

EmitDecision ==
    /\ output_count' = output_count + 1
    /\ decided' = decided + 1

\* The vote of one decision: committed in the name of the lead, or erased.
Commit ==
    /\ EmitDecision
    /\ last' = lead
    /\ committed' = lead
    /\ decode_lock' = IF pc = "decode" THEN lead ELSE decode_lock

Erase ==
    /\ EmitDecision
    /\ UNCHANGED <<last, committed, decode_lock>>

\* Mutant: only the code that leads is re-anchored.
Mutant_SourcesOf(j) ==
    IF j = lead THEN Reanchor(live[j], PickShift(best.drift)) ELSE live[j]

\* The frontier of code j in the frame the lead has chosen.
SourcesOf(j) == Reanchor(live[j], PickShift(best.drift))

\* dv_decode_step with one trellis per code.
DecodeStep ==
    LET sigma == PickShift(best.drift)
        based == ShiftBase(buf, sigma)
        seen == StepWindow(based)
        slot == Slot(steps)
    IN  /\ shift' = [shift EXCEPT ![slot] = sigma]
        /\ window' = seen
        /\ backpointers' = [j \in Codes |->
              [backpointers[j] EXCEPT ![slot] =
                  WriteLayer(@, SourcesOf(j), seen, steps)]]
        /\ live' = [j \in Codes |-> Survivors(SourcesOf(j), seen)]
        /\ lead' \in Codes
        /\ best' \in IF live'[lead'] = {} THEN {Node(0, 0)} ELSE live'[lead']
        /\ anchor' = [anchor EXCEPT ![slot] = Dropped + based.read_base]
        /\ steps' = steps + 1
        /\ buf' = AdvanceBase(based)

RunIteration ==
    /\ HasInput
    /\ \/ MustEmit /\ ~OutputFull /\ (Commit \/ Erase)
       \/ ~MustEmit /\ UNCHANGED <<output_count, decided, last, committed,
                                   decode_lock>>
    /\ DecodeStep
    /\ UNCHANGED <<pc, max_out, result, fed, flushed, locked, tail>>

RunEnds == ~HasInput \/ (MustEmit /\ OutputFull)

Return(call) ==
    /\ pc' = "idle"
    /\ result' = [call |-> call, max_out |-> max_out, count |-> output_count]
    /\ max_out' = 0
    /\ output_count' = 0
    /\ last' = NoCode

DecodeReturn ==
    /\ pc = "decode"
    /\ RunEnds
    /\ locked' = last
    /\ Return("decode")
    /\ UNCHANGED <<committed, decode_lock, tail, ctxVars, trellisVars,
                   historyVars>>

----------------------------------------------------------------------------
(* The tail of dv_multi_decode_flush                                       *)

\* Mutant: the tail's code is the one locked when the flush was called.
Mutant_FlushRunEnds ==
    /\ pc = "flush"
    /\ RunEnds
    /\ pc' = "drain"
    /\ UNCHANGED <<max_out, output_count, result, ctxVars, trellisVars,
                   lockVars, historyVars>>

FlushRunEnds ==
    /\ pc = "flush"
    /\ RunEnds
    /\ pc' = "drain"
    /\ locked' = last
    /\ UNCHANGED <<max_out, output_count, result, last, committed,
                   decode_lock, tail, ctxVars, trellisVars, historyVars>>

\* Mutant: one decision too many.
Mutant_DrainDecision ==
    /\ pc = "drain"
    /\ decided <= steps
    /\ ~OutputFull
    /\ EmitDecision
    /\ tail' = tail \cup {locked}
    /\ UNCHANGED <<buf, steps, shift, window, pc, max_out, result, locked, last,
                   committed, decode_lock, trellisVars, historyVars>>

\* One bit of the tail: traced in the locked code's trellis, or erased.
DrainDecision ==
    /\ pc = "drain"
    /\ decided < steps
    /\ ~OutputFull
    /\ EmitDecision
    /\ tail' = tail \cup {locked}
    /\ UNCHANGED <<buf, steps, shift, window, pc, max_out, result, locked, last,
                   committed, decode_lock, trellisVars, historyVars>>

FlushReturn ==
    /\ pc = "drain"
    /\ decided >= steps \/ OutputFull
    /\ Return("flush")
    /\ UNCHANGED <<locked, committed, decode_lock, tail, ctxVars, trellisVars,
                   historyVars>>

----------------------------------------------------------------------------
Next ==
    \/ \E n_in \in ChunkSizes, limit \in OutSizes : DecodeCall(n_in, limit)
    \/ \E n_in \in ChunkSizes : DecodeCallRefused(n_in)
    \/ \E limit \in OutSizes : FlushCall(limit)
    \/ RunIteration
    \/ DecodeReturn
    \/ FlushRunEnds
    \/ DrainDecision
    \/ FlushReturn

Spec == Init /\ [][Next]_vars

----------------------------------------------------------------------------
(* What this module implements                                             *)

\* The single-stream decoder of whatever code leads at the moment.
Stream == INSTANCE StreamDecoder WITH
    live <- live[lead], backpointers <- backpointers[lead]

\* The multi-decoder is a single-stream decoder of the code that leads, even
\* where the lead changes between two steps: the context, the ring and the
\* frontier it continues from are those the other code kept in lockstep.
ImplementsStream == Stream!Spec

----------------------------------------------------------------------------
(* Properties                                                              *)

\* All codes keep the same nodes alive and may name the same predecessors
\* (they share K, so they share next_state), whichever code steered.
Lockstep ==
    \A j \in Codes : live[j] = live[0] /\ backpointers[j] = backpointers[0]

\* Whatever the calls in between decided, or failed to, the decoder carries
\* the code of the last committed bit from call to call ("carried across
\* calls", multi_decode.c:62).
LockIsCarried == pc = "idle" => locked = committed

\* However many calls the tail is split into, all of it is decided by one
\* code, or all of it is erased: by the code of the last vote that committed
\* a bit, in a decode call or in a flush ("decode them with the most recently
\* locked code", multi_decode.c:259).
TailByLock == ~ResumeAfterFlush => tail \subseteq {committed}

\* The header says more: the tail is "decoded by the decoder that was most
\* recently locked during dv_multi_decode - or emitted as DV_ERASURE if no
\* decoder ever locked" (multi_decode.h:110-112).  A vote taken while a flush
\* uses up the input moves the lock too (multi_decode.c:256).
TailByDecodeLock == ~ResumeAfterFlush => tail \subseteq {decode_lock}

\* Every decision is of a step that has been taken, in the tail and before it,
\* for a caller that does not feed again after a flush.
DecisionsTraced == [][decided' > decided => decided < steps]_vars
=============================================================================
