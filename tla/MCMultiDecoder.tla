--------------------------- MODULE MCMultiDecoder ---------------------------
(* Small instances of MultiDecoder, with the codes given by their shift    *)
(* register as in MCStreamDecoder.                                         *)
EXTENDS MultiDecoder

K2_next_state == [e \in {0, 1} \X {0, 1} |-> e[2]]
=============================================================================
