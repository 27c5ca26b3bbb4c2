---------------------------- MODULE MultiEncoder ----------------------------
(* The multi-encoder of multi_encode.c over the encoder loops of encode.c: *)
(* a family of codes that share K and n, and one shift register for all of *)
(* them.  A call is the action that enters it, one action per bit shifted  *)
(* in (emit_group) and the action that returns.                            *)
(*                                                                         *)
(* The register is the function from bit position to bit that the integer  *)
(* *state stands for; a generator is the set of its tap positions.         *)
EXTENDS Integers, Sequences, FiniteSets

CONSTANTS
    K,           \* constraint length
    Codes,       \* dv_multi_encode_params.codes: code -> its n generators
    n,           \* generators of each code
    IntMax,      \* INT_MAX
    Inputs,      \* bit strings a call may be given
    OutSizes,    \* max_out of a call
    MaxLength    \* bound on the bits encoded (model bound)

\* dv_code_create takes 2 <= K <= 9 and at least one generator (encode.c:54);
\* dv_multi_encode_create takes codes of one K and one n.
ASSUME FamilyAssumption ==
    /\ K \in Nat /\ K >= 2
    /\ n \in Nat \ {0}
    /\ IntMax \in Nat
    /\ n <= IntMax
    /\ OutSizes \subseteq 0 .. IntMax
    /\ \A bits \in Inputs : bits \in Seq({0, 1}) /\ Len(bits) <= IntMax
    /\ MaxLength \in Nat
    /\ \A c \in DOMAIN Codes : Codes[c] \in [1 .. n -> SUBSET Nat]

Bits == {0, 1}
Positions == 0 .. (K - 2)
Registers == [Positions -> Bits]
Zero == [i \in Positions |-> 0]

VARIABLES
    state,     \* the shared shift register
    pc,        \* "idle", "encode" or "flush"
    idx,       \* code of the call being served
    input,     \* bits of the call not yet shifted in
    max_out,   \* of the call being served
    written,   \* of the call being served
    result,    \* what the last call returned
    message,   \* history: every bit shifted in, with the code that sent it
    sent       \* history: every group written to `out`

vars == <<state, pc, idx, input, max_out, written, result, message, sent>>

----------------------------------------------------------------------------
(* The code tables (dv_code_create)                                        *)

\* Mutant: the new bit goes in at the old end.
Mutant_NextState(register, bit) ==
    [i \in Positions |-> IF i = 0 THEN bit ELSE register[i - 1]]

\* next_state: shift down, the new bit on top.
NextState(register, bit) ==
    [i \in Positions |-> IF i = K - 2 THEN bit ELSE register[i + 1]]

\* The full shift register: the input bit at input_tap above the state.
Window(register, bit) ==
    [i \in 0 .. (K - 1) |-> IF i = K - 1 THEN bit ELSE register[i]]

\* parity(shift_register & generator).
Parity(window, taps) ==
    Cardinality({i \in taps \cap DOMAIN window : window[i] = 1}) % 2

\* output: the n coded bits of one step.
Output(code, register, bit) ==
    [j \in 1 .. n |-> Parity(Window(register, bit), Codes[code][j])]

----------------------------------------------------------------------------
Init ==
    /\ state = Zero
    /\ pc = "idle"
    /\ idx \in DOMAIN Codes
    /\ input = << >>
    /\ max_out = 0
    /\ written = 0
    /\ result = [call |-> "none", count |-> 0, max_out |-> 0]
    /\ message = << >>
    /\ sent = << >>

\* A signed int product: what does not fit wraps around.
Wrap(product) ==
    ((product + IntMax + 1) % (2 * IntMax + 2)) - IntMax - 1

\* Mutant: the bound as the product it stands for, which overflows.
Mutant_Fits(n_bits, limit) == Wrap(n_bits * n) <= limit

\* dv_multi_encode's bound on the output.
Fits(n_bits, limit) == n_bits <= limit \div n

Refuse ==
    /\ result' = [call |-> "refused", count |-> 0, max_out |-> 0]
    /\ UNCHANGED <<state, pc, idx, input, max_out, written, message, sent>>

Enter(call, code, bits, limit) ==
    /\ pc' = call
    /\ idx' = code
    /\ input' = bits
    /\ max_out' = limit
    /\ written' = 0
    /\ UNCHANGED <<state, result, message, sent>>

\* dv_multi_encode, up to the loop of dv_code_encode.
EncodeCall(code, bits, limit) ==
    /\ pc = "idle"
    /\ Len(message) + Len(bits) <= MaxLength
    /\ IF Fits(Len(bits), limit) THEN Enter("encode", code, bits, limit)
                                 ELSE Refuse

\* Mutant: one zero bit too few.
Mutant_FlushCall(code, limit) ==
    /\ pc = "idle"
    /\ Len(message) + K - 1 <= MaxLength
    /\ IF Wrap((K - 1) * n) <= limit
       THEN Enter("flush", code, [i \in 1 .. (K - 2) |-> 0], limit)
       ELSE Refuse

\* dv_multi_encode_flush: K - 1 zero bits.  Its bound is the plain product.
FlushCall(code, limit) ==
    /\ pc = "idle"
    /\ Len(message) + K - 1 <= MaxLength
    /\ IF Wrap((K - 1) * n) <= limit
       THEN Enter("flush", code, [i \in 1 .. (K - 1) |-> 0], limit)
       ELSE Refuse

\* emit_group for the next bit of the call.
EmitGroup ==
    /\ pc # "idle"
    /\ input # << >>
    /\ sent' = Append(sent, Output(idx, state, Head(input)))
    /\ message' = Append(message, [bit |-> Head(input), code |-> idx])
    /\ state' = NextState(state, Head(input))
    /\ written' = written + n
    /\ input' = Tail(input)
    /\ UNCHANGED <<pc, idx, max_out, result>>

\* Mutant: the state is not carried to the next call.
Mutant_EncodeReturn ==
    /\ pc # "idle"
    /\ input = << >>
    /\ pc' = "idle"
    /\ result' = [call |-> pc, count |-> written, max_out |-> max_out]
    /\ state' = Zero
    /\ max_out' = 0
    /\ written' = 0
    /\ UNCHANGED <<idx, input, message, sent>>

\* *state has the last state, and the caller the number of bits written.
EncodeReturn ==
    /\ pc # "idle"
    /\ input = << >>
    /\ pc' = "idle"
    /\ result' = [call |-> pc, count |-> written, max_out |-> max_out]
    /\ max_out' = 0
    /\ written' = 0
    /\ UNCHANGED <<state, idx, input, message, sent>>

Next ==
    \/ \E code \in DOMAIN Codes, bits \in Inputs, limit \in OutSizes :
          EncodeCall(code, bits, limit)
    \/ \E code \in DOMAIN Codes, limit \in OutSizes : FlushCall(code, limit)
    \/ EmitGroup
    \/ EncodeReturn

Spec == Init /\ [][Next]_vars

----------------------------------------------------------------------------
(* Properties                                                              *)

\* Every variable has its type.
TypeOK ==
    /\ state \in Registers
    /\ pc \in {"idle", "encode", "flush"}
    /\ idx \in DOMAIN Codes
    /\ input \in Seq(Bits)
    /\ max_out \in Nat
    /\ written \in Nat
    /\ result \in [call : {"none", "refused", "encode", "flush"},
                   count : Nat, max_out : Nat]
    /\ message \in Seq([bit : Bits, code : DOMAIN Codes])
    /\ sent \in Seq([1 .. n -> Bits])

\* The message bit at position t, and silence before the first.
MessageBit(t) == IF t >= 1 THEN message[t].bit ELSE 0

\* The register holds the last K - 1 bits of the message, whatever calls and
\* codes sent them: one state serves every code of the family.
RegisterIsHistory ==
    \A i \in Positions : state[i] = MessageBit(Len(message) - (K - 2 - i))

\* The sequence sent is the convolution of the whole message: group t is the
\* parity of the taps of the code chosen for bit t over the K message bits up
\* to it, sent by whatever codes and calls ("switching the chosen index
\* between calls changes the code mid-stream without breaking continuity",
\* multi_encode.c:34).
SentIsConvolution ==
    /\ Len(sent) = Len(message)
    /\ \A t \in 1 .. Len(message) : \A j \in 1 .. n :
          sent[t][j] = Parity([i \in 0 .. (K - 1) |-> MessageBit(t - (K - 1 - i))],
                              Codes[message[t].code][j])

\* (K - 1) * n, the output of a flush, is an int.
FlushFitsInt == (K - 1) * n <= IntMax

\* No dv_multi_encode call writes past the end of `out`, at any size of the
\* input: its bound divides, so that the product cannot wrap around and pass
\* (multi_encode.c:115-119).  dv_multi_encode_flush does compare the product
\* (multi_encode.c:132), and stays in bounds with every code whose flush fits
\* an int; with a larger n nothing refuses the call and it may write past.
WritesInBounds ==
    /\ pc = "encode" \/ (pc = "flush" /\ FlushFitsInt) =>
          written + Len(input) * n <= max_out
    /\ result.call = "encode" \/ (result.call = "flush" /\ FlushFitsInt) =>
          result.count <= result.max_out

\* A flush leaves the register at zero, so what comes next starts afresh.
FlushClears == pc = "idle" /\ result.call = "flush" => state = Zero
=============================================================================
