----------------------------- MODULE DecodeLog -----------------------------
(* What the received buffer and the run loop promise the trellis: the      *)
(* decoder reads the stream as if it were a log that is never cut, moved   *)
(* or reallocated.  There is no buffer and no call here, only the log of   *)
(* the bits fed (a bit is its position, so the log is its length), the     *)
(* absolute position of the read cursor, and the window of the log each    *)
(* step sees.  StreamDecoder implements this module.                       *)
EXTENDS DecodeCtx

VARIABLES
    fed,       \* length of the log
    ended,     \* the end of the stream has been announced
    cursor,    \* position of the next step's zero-drift read base
    steps,     \* steps taken
    decided,   \* decisions emitted
    window     \* what the last step saw of the log

vars == <<fed, ended, cursor, steps, decided, window>>

\* The window of the log around position `at`.
LogWindow(at) ==
    [p \in WindowPlaces |->
        LET position == at - MaxDrift + p
        IN  IF position \in 0 .. (fed - 1) THEN position ELSE NoBit]

Init ==
    /\ fed = 0
    /\ ended = FALSE
    /\ cursor = 0
    /\ steps = 0
    /\ decided = 0
    /\ window = [p \in WindowPlaces |-> NoBit]

Receive ==
    /\ fed' \in Nat
    /\ fed' >= fed
    /\ UNCHANGED <<ended, cursor, steps, decided, window>>

End ==
    /\ ended' = TRUE
    /\ UNCHANGED <<fed, cursor, steps, decided, window>>

\* A step moves the cursor one group on, plus a shift that only a decoder
\* with a drift window may take.  While the stream goes on the step waits
\* until the log reaches one bit past everything a branch could read.
Step(sigma) ==
    /\ MaxDrift = 0 => sigma = 0
    /\ fed - cursor >= IF ended THEN N ELSE N + MaxDrift + 1
    /\ cursor' = cursor + sigma + N
    /\ window' = LogWindow(cursor + sigma)
    /\ steps' = steps + 1
    /\ decided' = IF steps >= Depth THEN decided + 1 ELSE decided
    /\ UNCHANGED <<fed, ended>>

\* At the end of the stream the steps still in flight are decided too.
DecideTail ==
    /\ ended
    /\ decided < steps
    /\ decided' = decided + 1
    /\ UNCHANGED <<fed, ended, cursor, steps, window>>

Next == Receive \/ End \/ (\E sigma \in Shifts : Step(sigma)) \/ DecideTail

Spec == Init /\ [][Next]_vars
=============================================================================
