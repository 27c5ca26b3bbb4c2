--------------------------- MODULE MCMultiEncoder ---------------------------
(* A small instance of MultiEncoder: two of the K = 3, rate 1/2 codes of   *)
(* dv_code_create_standard, generators 5, 7 and 1, 7 in octal.             *)
EXTENDS MultiEncoder

K3_codes == << <<{0, 2}, {0, 1, 2}>>, <<{0}, {0, 1, 2}>> >>

\* Every bit string of up to two bits, and one of four.
SmallInputs == {<< >>} \cup [1 .. 1 -> Bits] \cup [1 .. 2 -> Bits]
                      \cup {<<1, 0, 1, 1>>}
=============================================================================
