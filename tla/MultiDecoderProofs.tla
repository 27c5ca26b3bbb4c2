------------------------- MODULE MultiDecoderProofs -------------------------
(* MultiDecoder implements StreamDecoder for the code that leads, and      *)
(* carries its lock from call to call and into the tail.                   *)
EXTENDS MultiDecoder, TLAPS

\* The instance's copies of the definitions of DecodeCtx and Trellis.
LEMMA StreamContext ==
    /\ Stream!EmptyBuffer = EmptyBuffer
    /\ Stream!InitialLive = InitialLive
    /\ Stream!RawRing = RawRing
    /\ Stream!Slots = Slots
    /\ Stream!WindowPlaces = WindowPlaces
    /\ Stream!NoBit = NoBit
  BY DEF Stream!EmptyBuffer, EmptyBuffer, Stream!Buffer, Buffer,
         Stream!InitialCapacity, InitialCapacity, Stream!InitialLive,
         InitialLive, Stream!Nodes, Nodes, Stream!States, States,
         Stream!DriftIndexes, DriftIndexes, Stream!DriftWidth, DriftWidth,
         Stream!RawRing, RawRing, Stream!Slots, Slots, Stream!NeverWritten,
         NeverWritten, Stream!WindowPlaces, WindowPlaces, Stream!WindowWidth,
         WindowWidth, Stream!NoBit, NoBit

LEMMA StreamBuffer ==
    /\ Stream!HasLookAhead(buf) <=> HasLookAhead(buf)
    /\ Stream!HasGroup(buf) <=> HasGroup(buf)
    /\ Stream!CompactReceived(buf) = CompactReceived(buf)
    /\ \A n_in : Stream!MustGrow(buf, n_in) <=> MustGrow(buf, n_in)
    /\ \A n_in : Stream!FeedReceived(buf, fed, n_in) = FeedReceived(buf, fed, n_in)
  BY DEF Stream!HasLookAhead, HasLookAhead, Stream!HasGroup, HasGroup,
         Stream!CompactReceived, CompactReceived, Stream!Buffer, Buffer,
         Stream!DropBits, DropBits, Stream!MustGrow, MustGrow,
         Stream!FeedReceived, FeedReceived, Stream!ReserveReceived,
         ReserveReceived

\* What one step reads and writes, for the code that leads.
Sigma == PickShift(best.drift)
Based == ShiftBase(buf, Sigma)
Seen == StepWindow(Based)

LEMMA StreamStep ==
    /\ Stream!PickShift(best.drift) = Sigma
    /\ Stream!ShiftBase(buf, Sigma) = Based
    /\ Stream!StepWindow(Based) = Seen
    /\ Stream!AdvanceBase(Based) = AdvanceBase(Based)
    /\ Stream!Slot(steps) = Slot(steps)
    /\ Stream!Node(0, 0) = Node(0, 0)
    /\ Stream!Dropped = Dropped
  BY DEF Sigma, Based, Seen, Stream!PickShift, PickShift, Stream!ShiftBase,
         ShiftBase, Stream!Buffer, Buffer, Stream!StepWindow, StepWindow,
         Stream!GroupWindow, GroupWindow, Stream!MatchWindow, MatchWindow,
         Stream!WindowPlaces, WindowPlaces, Stream!WindowWidth, WindowWidth,
         Stream!NoBit, NoBit, Stream!AdvanceBase, AdvanceBase,
         Stream!CompactReceived, CompactReceived, Stream!DropBits, DropBits,
         Stream!Slot, Slot, Stream!Node, Node, Stream!Dropped, Dropped

LEMMA StreamTrellis ==
    /\ \A nodes, sigma : Stream!Reanchor(nodes, sigma) = Reanchor(nodes, sigma)
    /\ \A nodes, seen : Stream!Survivors(nodes, seen) = Survivors(nodes, seen)
    /\ \A layer, nodes, seen, step :
          Stream!WriteLayer(layer, nodes, seen, step) =
              WriteLayer(layer, nodes, seen, step)
  BY DEF Stream!Reanchor, Reanchor, Stream!Nodes, Nodes, Stream!States, States,
         Stream!DriftIndexes, DriftIndexes, Stream!DriftWidth, DriftWidth,
         Stream!Node, Node, Stream!Survivors, Survivors, Stream!Sources,
         Sources, Stream!Branch, Branch, Stream!Bits, Bits, Stream!Consumed,
         Consumed, Stream!NoBit, NoBit, Stream!WriteLayer, WriteLayer

----------------------------------------------------------------------------
(* Lockstep                                                                *)

\* The lead is a code, and every code's trellis has the same nodes alive.
LockstepInv == lead \in Codes /\ Lockstep

LEMMA FirstCode == 0 \in Codes
  BY CallerAssumption DEF Codes

LEMMA InitLockstep == Init => LockstepInv
  BY FirstCode DEF Init, LockstepInv, Lockstep

LEMMA StepLockstep == LockstepInv /\ DecodeStep => LockstepInv'
<1> SUFFICES ASSUME LockstepInv, DecodeStep PROVE LockstepInv'
  OBVIOUS
<1>1. lead' \in Codes
  BY DEF DecodeStep
<1>2. \A j \in Codes : SourcesOf(j) = SourcesOf(0)
  BY DEF LockstepInv, Lockstep, SourcesOf
<1>3. \A j \in Codes : live'[j] = live'[0]
  BY <1>2, FirstCode DEF DecodeStep
<1>4. \A j \in Codes : backpointers'[j] = backpointers'[0]
  BY <1>2, FirstCode DEF DecodeStep, LockstepInv, Lockstep
<1> QED
  BY <1>1, <1>3, <1>4 DEF LockstepInv, Lockstep

LEMMA NextLockstep == LockstepInv /\ [Next]_vars => LockstepInv'
<1> SUFFICES ASSUME LockstepInv, [Next]_vars PROVE LockstepInv'
  OBVIOUS
<1>1. CASE UNCHANGED trellisVars
  BY <1>1 DEF trellisVars, LockstepInv, Lockstep
<1>2. CASE RunIteration
  BY <1>2, StepLockstep DEF RunIteration
<1>3. UNCHANGED trellisVars \/ RunIteration
  BY DEF Next, vars, DecodeCall, DecodeCallRefused, FlushCall, DecodeReturn,
         FlushRunEnds, DrainDecision, FlushReturn
<1> QED
  BY <1>1, <1>2, <1>3

\* All codes keep the same frontier and the same ring, for ever.
THEOREM CodesStayInLockstep == Spec => []Lockstep
<1>1. LockstepInv => Lockstep
  BY DEF LockstepInv
<1> QED
  BY InitLockstep, NextLockstep, <1>1, PTL DEF Spec

----------------------------------------------------------------------------
(* The refinement                                                          *)

LEMMA InitStream == Init => Stream!Init
<1> SUFFICES ASSUME Init PROVE Stream!Init
  OBVIOUS
<1>1. /\ live[lead] = InitialLive
      /\ best = Node(0, MaxDrift)
      /\ backpointers[lead] = RawRing
  BY FirstCode DEF Init
<1>2. Stream!Node(0, MaxDrift) = Node(0, MaxDrift)
  BY DEF Stream!Node, Node
<1> QED
  BY <1>1, <1>2, StreamContext DEF Init, Stream!Init

LEMMA StepStream == LockstepInv /\ DecodeStep => Stream!DecodeStep
<1> SUFFICES ASSUME LockstepInv, DecodeStep PROVE Stream!DecodeStep
  OBVIOUS
<1>1. lead \in Codes /\ lead' \in Codes
  BY DEF LockstepInv, DecodeStep
<1>2. SourcesOf(lead') = Reanchor(live[lead], Sigma)
  BY <1>1 DEF SourcesOf, Sigma, LockstepInv, Lockstep
<1>3. live'[lead'] = Survivors(Reanchor(live[lead], Sigma), Seen)
  BY <1>1, <1>2 DEF DecodeStep, Sigma, Based, Seen
<1>4. backpointers'[lead'] =
         [backpointers[lead] EXCEPT ![Slot(steps)] =
             WriteLayer(@, Reanchor(live[lead], Sigma), Seen, steps)]
  <2>1. backpointers'[lead'] =
           [backpointers[lead'] EXCEPT ![Slot(steps)] =
               WriteLayer(@, SourcesOf(lead'), Seen, steps)]
    BY <1>1 DEF DecodeStep, Sigma, Based, Seen
  <2>2. backpointers[lead'] = backpointers[lead]
    BY <1>1 DEF LockstepInv, Lockstep
  <2> QED
    BY <2>1, <2>2, <1>2
<1>5. best' \in IF live'[lead'] = {} THEN {Node(0, 0)} ELSE live'[lead']
  BY DEF DecodeStep
<1>6. /\ shift' = [shift EXCEPT ![Slot(steps)] = Sigma]
      /\ window' = Seen
      /\ anchor' = [anchor EXCEPT ![Slot(steps)] = Dropped + Based.read_base]
      /\ steps' = steps + 1
      /\ buf' = AdvanceBase(Based)
  BY DEF DecodeStep, Sigma, Based, Seen
<1> QED
  BY <1>3, <1>4, <1>5, <1>6, StreamStep, StreamTrellis DEF Stream!DecodeStep

LEMMA RunIterationStream == LockstepInv /\ RunIteration => Stream!RunIteration
<1> SUFFICES ASSUME LockstepInv, RunIteration PROVE Stream!RunIteration
  OBVIOUS
<1>1. Stream!HasInput
  BY StreamBuffer DEF RunIteration, HasInput, Stream!HasInput
<1>2. Stream!DecodeStep
  BY StepStream DEF RunIteration
<1>3. IF Stream!MustEmit THEN ~Stream!OutputFull /\ Stream!EmitDecision
                         ELSE UNCHANGED <<output_count, decided>>
  BY DEF RunIteration, Commit, Erase, EmitDecision, Stream!EmitDecision,
         MustEmit, Stream!MustEmit, OutputFull, Stream!OutputFull
<1> QED
  BY <1>1, <1>2, <1>3 DEF RunIteration, Stream!RunIteration

LEMMA EndsStream == RunEnds <=> Stream!RunEnds
  BY StreamBuffer DEF RunEnds, Stream!RunEnds, HasInput, Stream!HasInput,
     MustEmit, Stream!MustEmit, OutputFull, Stream!OutputFull

\* Every other action leaves the trellises, so the leading one, alone.
LEMMA TrellisStutters == UNCHANGED trellisVars => UNCHANGED Stream!trellisVars
  BY DEF trellisVars, Stream!trellisVars

LEMMA CtxStutters == UNCHANGED ctxVars => UNCHANGED Stream!ctxVars
  BY DEF ctxVars, Stream!ctxVars

LEMMA HistoryStutters == UNCHANGED historyVars => UNCHANGED Stream!historyVars
  BY DEF historyVars, Stream!historyVars

LEMMA FeedStream ==
    \A n_in : MayFeed(n_in) => Stream!MayFeed(n_in)
  BY DEF MayFeed, Stream!MayFeed, OutputTaken, Stream!OutputTaken,
         Stream!Calls

LEMMA NextStream ==
    LockstepInv /\ [Next]_vars => [Stream!Next]_(Stream!vars)
<1> SUFFICES ASSUME LockstepInv, [Next]_vars PROVE [Stream!Next]_(Stream!vars)
  OBVIOUS
<1>1. ASSUME NEW n_in \in ChunkSizes, NEW limit \in OutSizes,
             DecodeCall(n_in, limit)
      PROVE  Stream!DecodeCall(n_in, limit)
  BY <1>1, FeedStream, StreamBuffer, TrellisStutters
     DEF DecodeCall, Stream!DecodeCall, Enter, Stream!Enter
<1>2. ASSUME NEW n_in \in ChunkSizes, DecodeCallRefused(n_in)
      PROVE  Stream!DecodeCallRefused(n_in)
  BY <1>2, FeedStream, StreamBuffer, TrellisStutters, HistoryStutters
     DEF DecodeCallRefused, Stream!DecodeCallRefused
<1>3. ASSUME NEW limit \in OutSizes, FlushCall(limit)
      PROVE  Stream!FlushCall(limit)
  BY <1>3, TrellisStutters, CtxStutters
     DEF FlushCall, Stream!FlushCall, Enter, Stream!Enter
<1>4. ASSUME RunIteration PROVE Stream!RunIteration
  BY <1>4, RunIterationStream
<1>5. ASSUME DecodeReturn PROVE Stream!DecodeReturn
  BY <1>5, EndsStream, TrellisStutters, CtxStutters, HistoryStutters
     DEF DecodeReturn, Stream!DecodeReturn, Return, Stream!Return
<1>6. ASSUME FlushRunEnds PROVE Stream!FlushRunEnds
  BY <1>6, EndsStream, TrellisStutters, CtxStutters, HistoryStutters
     DEF FlushRunEnds, Stream!FlushRunEnds
<1>7. ASSUME DrainDecision PROVE Stream!DrainDecision
  BY <1>7, TrellisStutters, HistoryStutters
     DEF DrainDecision, Stream!DrainDecision, EmitDecision,
         Stream!EmitDecision, OutputFull, Stream!OutputFull
<1>8. ASSUME FlushReturn PROVE Stream!FlushReturn
  BY <1>8, TrellisStutters, CtxStutters, HistoryStutters
     DEF FlushReturn, Stream!FlushReturn, Return, Stream!Return, OutputFull,
         Stream!OutputFull
<1>9. ASSUME UNCHANGED vars PROVE UNCHANGED Stream!vars
  BY <1>9 DEF vars, ctxVars, trellisVars, callVars, historyVars, Stream!vars,
     Stream!ctxVars, Stream!trellisVars, Stream!callVars, Stream!historyVars
<1> QED
  BY <1>1, <1>2, <1>3, <1>4, <1>5, <1>6, <1>7, <1>8, <1>9 DEF Next, Stream!Next

\* The multi-decoder implements the single-stream decoder of the code that
\* leads, however often the lead changes.
THEOREM MultiIsStream == Spec => ImplementsStream
  BY InitLockstep, NextLockstep, InitStream, NextStream, PTL
     DEF Spec, ImplementsStream, Stream!Spec

----------------------------------------------------------------------------
(* The lock                                                                *)

\* The tail has begun: nothing is left that a step could be taken on.
NoMoreSteps == flushed /\ pc # "decode" /\ ~HasGroup(buf)

\* The lock travels through `last` while multi_run runs; for a caller that
\* does not feed after a flush, once a bit of the tail is out no step, and so
\* no vote, can follow.
LockInv ==
    /\ pc \in {"idle", "decode", "flush", "drain"}
    /\ pc \in {"decode", "flush"} => last = committed
    /\ pc \in {"idle", "drain"} => locked = committed
    /\ pc \in {"flush", "drain"} => flushed
    /\ pc = "drain" /\ ~OutputFull => ~HasGroup(buf)
    /\ ~ResumeAfterFlush =>
          /\ flushed => pc # "decode"
          /\ tail # {} => NoMoreSteps
          /\ tail \subseteq {committed}

LEMMA InitLock == Init => LockInv
  BY DEF Init, LockInv

LEMMA FeedLock ==
    ASSUME LockInv, NEW n_in \in ChunkSizes, NEW limit \in OutSizes,
           DecodeCall(n_in, limit)
    PROVE  LockInv'
<1>1. /\ pc = "idle" /\ pc' = "decode" /\ last' = locked
      /\ UNCHANGED <<committed, tail, flushed>>
  BY DEF DecodeCall, Enter
<1>2. ~ResumeAfterFlush => ~flushed
  BY DEF DecodeCall, MayFeed
<1>3. ~ResumeAfterFlush => tail = {}
  BY <1>1, <1>2 DEF LockInv, NoMoreSteps
<1> QED
  BY <1>1, <1>2, <1>3 DEF LockInv, NoMoreSteps

LEMMA RefusedLock ==
    ASSUME LockInv, NEW n_in \in ChunkSizes, DecodeCallRefused(n_in)
    PROVE  LockInv'
<1>1. pc = "idle" /\ UNCHANGED <<pc, lockVars, flushed>>
  BY DEF DecodeCallRefused, historyVars
<1>2. ~ResumeAfterFlush => tail = {}
  BY <1>1 DEF DecodeCallRefused, MayFeed, LockInv, NoMoreSteps
<1> QED
  BY <1>1, <1>2 DEF LockInv, lockVars

LEMMA FlushLock ==
    ASSUME LockInv, NEW limit \in OutSizes, FlushCall(limit)
    PROVE  LockInv'
<1>1. /\ pc = "idle" /\ pc' = "flush" /\ last' = locked /\ flushed'
      /\ UNCHANGED <<committed, tail, buf>>
  BY DEF FlushCall, Enter, ctxVars
<1>2. HasGroup(buf)' <=> HasGroup(buf)
  BY <1>1 DEF HasGroup
<1> QED
  BY <1>1, <1>2 DEF LockInv, NoMoreSteps

LEMMA RunLock == ASSUME LockInv, RunIteration PROVE LockInv'
<1>1. /\ pc \in {"decode", "flush"} /\ HasInput
      /\ UNCHANGED <<pc, tail, flushed, locked>>
  BY DEF RunIteration, HasInput
<1>2. last' = committed'
  BY <1>1 DEF RunIteration, Commit, Erase, LockInv
<1>3. ~ResumeAfterFlush => tail = {}
  BY <1>1 DEF LockInv, NoMoreSteps, HasInput
<1> QED
  BY <1>1, <1>2, <1>3 DEF LockInv

LEMMA TailLock == ASSUME LockInv, DrainDecision PROVE LockInv'
<1>1. /\ pc = "drain" /\ ~OutputFull /\ tail' = tail \cup {locked}
      /\ UNCHANGED <<pc, buf, locked, committed, flushed>>
  BY DEF DrainDecision, historyVars
<1>2. ~HasGroup(buf) /\ (HasGroup(buf)' <=> HasGroup(buf))
  BY <1>1 DEF LockInv, HasGroup
<1> QED
  BY <1>1, <1>2 DEF LockInv, NoMoreSteps

LEMMA ReturnLock ==
    ASSUME LockInv, DecodeReturn \/ FlushRunEnds \/ FlushReturn
    PROVE  LockInv'
<1>1. UNCHANGED <<buf, committed, tail, flushed>>
  BY DEF DecodeReturn, FlushRunEnds, FlushReturn, ctxVars, historyVars
<1>2. HasGroup(buf)' <=> HasGroup(buf)
  BY <1>1 DEF HasGroup
<1>3. CASE DecodeReturn
  <2>1. pc = "decode" /\ pc' = "idle" /\ locked' = last
    BY <1>3 DEF DecodeReturn, Return
  <2> QED
    BY <2>1, <1>1, <1>2 DEF LockInv, NoMoreSteps
<1>4. CASE FlushRunEnds
  <2>1. /\ pc = "flush" /\ pc' = "drain" /\ locked' = last
        /\ UNCHANGED <<output_count, max_out>> /\ RunEnds
    BY <1>4 DEF FlushRunEnds
  <2>2. OutputFull' <=> OutputFull
    BY <2>1 DEF OutputFull
  <2>3. ~OutputFull => ~HasGroup(buf)
    BY <2>1 DEF RunEnds, HasInput
  <2> QED
    BY <2>1, <2>2, <2>3, <1>1, <1>2 DEF LockInv, NoMoreSteps
<1>5. CASE FlushReturn
  <2>1. pc = "drain" /\ pc' = "idle" /\ locked' = locked
    BY <1>5 DEF FlushReturn, Return
  <2> QED
    BY <2>1, <1>1, <1>2 DEF LockInv, NoMoreSteps
<1> QED
  BY <1>3, <1>4, <1>5

LEMMA NextLock == LockInv /\ [Next]_vars => LockInv'
<1> SUFFICES ASSUME LockInv, [Next]_vars PROVE LockInv'
  OBVIOUS
<1>1. CASE UNCHANGED vars
  <2>1. UNCHANGED <<buf, pc, last, committed, locked, flushed, tail,
                    output_count, max_out>>
    BY <1>1 DEF vars, ctxVars, callVars, lockVars, historyVars
  <2>2. (HasGroup(buf)' <=> HasGroup(buf)) /\ (OutputFull' <=> OutputFull)
    BY <2>1 DEF HasGroup, OutputFull
  <2> QED
    BY <2>1, <2>2 DEF LockInv, NoMoreSteps
<1> QED
  BY <1>1, FeedLock, RefusedLock, FlushLock, RunLock, TailLock, ReturnLock
     DEF Next

\* Between two calls the decoder carries the code of the last committed bit,
\* whatever the calls were.
THEOREM LockCarried == Spec => []LockIsCarried
<1>1. LockInv => LockIsCarried
  BY DEF LockInv, LockIsCarried
<1> QED
  BY InitLock, NextLock, <1>1, PTL DEF Spec

\* However a flush is cut into calls, its tail is decided by the one code
\* that committed the last bit before it.
THEOREM TailHasOneCode == Spec => []TailByLock
<1>1. LockInv => TailByLock
  BY DEF LockInv, TailByLock
<1> QED
  BY InitLock, NextLock, <1>1, PTL DEF Spec
----------------------------------------------------------------------------
(* Decisions                                                               *)

\* What the ring holds undecided, until a tail is decided: the last Depth
\* steps, or all of them.
DelayKept == decided = IF steps > Depth THEN steps - Depth ELSE 0

\* For a caller that does not feed after a flush, every step is taken while
\* the delay is kept: before a flush, or while a group of bits is left.
DelayInv ==
    /\ steps \in Nat /\ decided \in Nat
    /\ pc \in {"idle", "decode", "flush", "drain"}
    /\ pc \in {"flush", "drain"} => flushed
    /\ pc = "drain" /\ ~OutputFull => ~HasGroup(buf)
    /\ flushed => pc # "decode"
    /\ ~flushed => DelayKept
    /\ HasGroup(buf) => DelayKept

LEMMA InitDelay == Init => DelayInv
  BY GeometryAssumption DEF Init, DelayInv, DelayKept

LEMMA RunDelay ==
    ASSUME DelayInv, RunIteration
    PROVE  DelayInv' /\ (decided' > decided => decided < steps)
<1>1. /\ pc \in {"decode", "flush"} /\ HasInput
      /\ UNCHANGED <<pc, flushed>>
      /\ steps' = steps + 1
      /\ decided' = IF steps >= Depth THEN decided + 1 ELSE decided
  BY DEF RunIteration, HasInput, DecodeStep, MustEmit, Commit, Erase,
         EmitDecision, DelayInv
<1>2. DelayKept
  BY <1>1 DEF HasInput, DelayInv
<1>3. DelayKept' /\ (decided' > decided => decided < steps)
  BY <1>1, <1>2, GeometryAssumption DEF DelayKept, DelayInv
<1>4. steps' \in Nat /\ decided' \in Nat
  BY <1>1 DEF DelayInv
<1> QED
  BY <1>1, <1>3, <1>4 DEF DelayInv

LEMMA CallDelay ==
    ASSUME DelayInv, ~ResumeAfterFlush,
           \/ \E n_in \in ChunkSizes, limit \in OutSizes :
                  DecodeCall(n_in, limit)
           \/ \E n_in \in ChunkSizes : DecodeCallRefused(n_in)
           \/ \E limit \in OutSizes : FlushCall(limit)
    PROVE  DelayInv' /\ UNCHANGED decided
<1>1. pc = "idle" /\ UNCHANGED <<steps, decided>>
  BY DEF DecodeCall, DecodeCallRefused, FlushCall, Enter, ctxVars
<1>2. DelayKept' <=> DelayKept
  BY <1>1 DEF DelayKept
<1>3. CASE \E limit \in OutSizes : FlushCall(limit)
  <2>1. pc' = "flush" /\ flushed' /\ UNCHANGED buf
    BY <1>3 DEF FlushCall, Enter, ctxVars
  <2>2. HasGroup(buf)' <=> HasGroup(buf)
    BY <2>1 DEF HasGroup
  <2> QED
    BY <1>1, <1>2, <2>1, <2>2 DEF DelayInv
<1>4. CASE \/ \E n_in \in ChunkSizes, limit \in OutSizes :
                  DecodeCall(n_in, limit)
           \/ \E n_in \in ChunkSizes : DecodeCallRefused(n_in)
  <2>1. ~flushed /\ UNCHANGED flushed /\ pc' \in {"idle", "decode"}
    BY <1>1, <1>4 DEF DecodeCall, DecodeCallRefused, MayFeed, Enter, historyVars
  <2>2. DelayKept
    BY <2>1 DEF DelayInv
  <2> QED
    BY <1>1, <1>2, <2>1, <2>2 DEF DelayInv
<1> QED
  BY <1>3, <1>4

LEMMA TailDelay ==
    ASSUME DelayInv, DrainDecision
    PROVE  DelayInv' /\ decided < steps
<1>1. /\ pc = "drain" /\ ~OutputFull /\ decided < steps
      /\ decided' = decided + 1
      /\ UNCHANGED <<pc, buf, steps, flushed>>
  BY DEF DrainDecision, EmitDecision, historyVars
<1>2. ~HasGroup(buf) /\ (HasGroup(buf)' <=> HasGroup(buf))
  BY <1>1 DEF DelayInv, HasGroup
<1> QED
  BY <1>1, <1>2 DEF DelayInv

LEMMA ReturnDelay ==
    ASSUME DelayInv, DecodeReturn \/ FlushRunEnds \/ FlushReturn \/ UNCHANGED vars
    PROVE  DelayInv' /\ UNCHANGED decided
<1>1. UNCHANGED <<buf, steps, decided, flushed>>
  BY DEF DecodeReturn, FlushRunEnds, FlushReturn, ctxVars, historyVars, vars
<1>2. /\ HasGroup(buf)' <=> HasGroup(buf)
      /\ DelayKept' <=> DelayKept
  BY <1>1 DEF HasGroup, DelayKept
<1>3. CASE DecodeReturn \/ FlushReturn
  <2>1. pc' = "idle"
    BY <1>3 DEF DecodeReturn, FlushReturn, Return
  <2> QED
    BY <2>1, <1>1, <1>2 DEF DelayInv
<1>4. CASE FlushRunEnds
  <2>1. /\ pc = "flush" /\ pc' = "drain" /\ RunEnds
        /\ UNCHANGED <<output_count, max_out>>
    BY <1>4 DEF FlushRunEnds
  <2>2. OutputFull' <=> OutputFull
    BY <2>1 DEF OutputFull
  <2>3. ~OutputFull => ~HasGroup(buf)
    BY <2>1 DEF RunEnds, HasInput
  <2> QED
    BY <2>1, <2>2, <2>3, <1>1, <1>2 DEF DelayInv
<1>5. CASE UNCHANGED vars
  <2>1. UNCHANGED <<pc, output_count, max_out>>
    BY <1>5 DEF vars, callVars
  <2>2. OutputFull' <=> OutputFull
    BY <2>1 DEF OutputFull
  <2> QED
    BY <2>1, <2>2, <1>1, <1>2 DEF DelayInv
<1> QED
  BY <1>3, <1>4, <1>5

LEMMA NextDelay ==
    ASSUME ~ResumeAfterFlush
    PROVE  DelayInv /\ [Next]_vars =>
              DelayInv' /\ (decided' > decided => decided < steps)
<1> SUFFICES ASSUME DelayInv, [Next]_vars
             PROVE  DelayInv' /\ (decided' > decided => decided < steps)
  OBVIOUS
<1>1. ASSUME UNCHANGED decided PROVE ~(decided' > decided)
  BY <1>1 DEF DelayInv
<1> QED
  BY <1>1, RunDelay, CallDelay, TailDelay, ReturnDelay DEF Next

\* A caller that does not feed after a flush is given decisions of steps that
\* have been taken and of no other, in the tail and before it.
THEOREM VotesAreOfSteps == ASSUME ~ResumeAfterFlush PROVE Spec => DecisionsTraced
<1>1. Spec => []DelayInv
  BY InitDelay, NextDelay, PTL DEF Spec
<1>2. DelayInv /\ [Next]_vars => [decided' > decided => decided < steps]_vars
  BY NextDelay
<1> QED
  BY <1>1, <1>2, PTL DEF Spec, DecisionsTraced
=============================================================================
