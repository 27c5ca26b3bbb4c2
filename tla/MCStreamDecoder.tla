-------------------------- MODULE MCStreamDecoder --------------------------
(* Small instances of StreamDecoder.  The codes are given by their shift   *)
(* register alone (encode.c:88): constraint length 2 has two states.       *)
EXTENDS StreamDecoder

K2_next_state == [e \in {0, 1} \X {0, 1} |-> e[2]]
=============================================================================
