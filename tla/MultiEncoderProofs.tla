------------------------- MODULE MultiEncoderProofs -------------------------
(* What the multi-encoder sends is the convolution of the whole message,   *)
(* and not more than the caller has room for: for every constraint length, *)
(* every family of codes and every sequence of calls.  Only a flush whose  *)
(* output is no int escapes its bound.                                     *)
EXTENDS MultiEncoder, FiniteSetTheorems, TLAPS

LEMMA EncoderNumbers ==
    /\ K \in Nat /\ K >= 2 /\ n \in Nat \ {0} /\ K \in Int /\ n \in Int
    /\ OutSizes \subseteq Nat
    /\ \A bits \in Inputs : bits \in Seq(Bits)
  BY FamilyAssumption DEF Bits

----------------------------------------------------------------------------
(* Types                                                                   *)

LEMMA NextStateType ==
    ASSUME NEW register \in Registers, NEW bit \in Bits
    PROVE  NextState(register, bit) \in Registers
<1>1. \A i \in Positions : i # K - 2 => i + 1 \in Positions
  BY EncoderNumbers DEF Positions
<1> QED
  BY <1>1 DEF NextState, Registers

LEMMA OutputType ==
    ASSUME NEW code \in DOMAIN Codes, NEW register \in Registers, NEW bit \in Bits
    PROVE  Output(code, register, bit) \in [1 .. n -> Bits]
<1>1. ASSUME NEW window, NEW w \in Nat, DOMAIN window = 0 .. w, NEW taps
      PROVE  Parity(window, taps) \in Bits
  <2> DEFINE ones == {i \in taps \cap DOMAIN window : window[i] = 1}
  <2>1. IsFiniteSet(0 .. w)
    BY FS_Interval
  <2>2. IsFiniteSet(ones) 
    BY <1>1, <2>1, FS_Subset
  <2>3. Cardinality(ones) \in Nat
    BY <2>2, FS_CardinalityType
  <2> HIDE DEF ones
  <2>4. Cardinality(ones) % 2 \in {0, 1}
    BY <2>3
  <2> QED
    BY <2>4 DEF ones, Parity, Bits
<1>2. K - 1 \in Nat
  BY EncoderNumbers
<1>3. DOMAIN Window(register, bit) = 0 .. (K - 1)
  BY DEF Window
<1>4. \A j \in 1 .. n : Parity(Window(register, bit), Codes[code][j]) \in Bits
  BY <1>1, <1>2, <1>3
<1> QED
  BY <1>4 DEF Output

----------------------------------------------------------------------------
(* The inductive invariant                                                 *)

\* While a flush runs, the zeros it has shifted in fill the register's top.
FlushFills ==
    pc = "flush" =>
        /\ \A k \in 1 .. Len(input) : input[k] = 0
        /\ \A i \in Positions : i >= Len(input) => state[i] = 0

EncoderInv ==
    /\ TypeOK
    /\ RegisterIsHistory
    /\ SentIsConvolution
    /\ WritesInBounds
    /\ FlushFills
    /\ FlushClears

LEMMA InitEncoder == Init => EncoderInv
<1> SUFFICES ASSUME Init PROVE EncoderInv
  OBVIOUS
<1>1. TypeOK
  BY DEF Init, TypeOK, Zero, Registers, Bits
<1>2. Len(message) = 0 /\ Len(sent) = 0
  BY DEF Init
<1>3. \A t \in Int : t <= 0 => MessageBit(t) = 0
  BY DEF MessageBit
<1>4. \A i \in Positions : Len(message) - (K - 2 - i) \in Int
                           /\ Len(message) - (K - 2 - i) <= 0
  BY <1>2, EncoderNumbers DEF Positions
<1>5. RegisterIsHistory
  BY <1>3, <1>4 DEF RegisterIsHistory, Init, Zero
<1>6. SentIsConvolution
  BY <1>2 DEF SentIsConvolution
<1> QED
  BY <1>1, <1>5, <1>6
     DEF EncoderInv, Init, WritesInBounds, FlushFills, FlushClears

\* Calls that are refused, or only begin or end, leave the history alone.
LEMMA HistoryStays ==
    ASSUME RegisterIsHistory, SentIsConvolution,
           UNCHANGED <<state, message, sent>>
    PROVE  RegisterIsHistory' /\ SentIsConvolution'
<1>1. \A t : MessageBit(t)' = MessageBit(t)
  BY DEF MessageBit
<1> QED
  BY <1>1 DEF RegisterIsHistory, SentIsConvolution, MessageBit

LEMMA RefuseKeeps == ASSUME EncoderInv, pc = "idle", Refuse PROVE EncoderInv'
<1>1. TypeOK'
  BY DEF EncoderInv, TypeOK, Refuse
<1>2. RegisterIsHistory' /\ SentIsConvolution'
  BY HistoryStays DEF EncoderInv, Refuse
<1>3. WritesInBounds' /\ FlushFills' /\ FlushClears'
  BY DEF EncoderInv, Refuse, WritesInBounds, FlushFills, FlushClears
<1> QED
  BY <1>1, <1>2, <1>3 DEF EncoderInv

\* A call that begins: its input fits the output it was given, unless it is
\* a flush that fits no int.
LEMMA EnterKeeps ==
    ASSUME EncoderInv, NEW call \in {"encode", "flush"},
           NEW code \in DOMAIN Codes, NEW bits \in Seq(Bits),
           NEW limit \in Nat,
           call = "encode" \/ FlushFitsInt => Len(bits) * n <= limit,
           call = "flush" => /\ \A k \in 1 .. Len(bits) : bits[k] = 0
                             /\ Len(bits) = K - 1,
           Enter(call, code, bits, limit)
    PROVE  EncoderInv'
<1>1. TypeOK'
  BY DEF EncoderInv, TypeOK, Enter
<1>2. RegisterIsHistory' /\ SentIsConvolution'
  BY HistoryStays DEF EncoderInv, Enter
<1>3. WritesInBounds'
  <2>1. Len(bits) * n \in Nat
    BY EncoderNumbers
  <2>2. pc' = call /\ result' = result
    BY DEF Enter
  <2>3. call = "encode" \/ FlushFitsInt =>
            written' + Len(input') * n <= max_out'
    BY <2>1 DEF Enter
  <2>4. /\ pc' = "encode" \/ (pc' = "flush" /\ FlushFitsInt) =>
              written' + Len(input') * n <= max_out'
        /\ result'.call = "encode" \/ (result'.call = "flush" /\ FlushFitsInt) =>
              result'.count <= result'.max_out
    BY <2>2, <2>3 DEF EncoderInv, WritesInBounds
  <2> QED
    BY <2>4 DEF WritesInBounds, FlushFitsInt
<1>4. FlushFills'
  <2>1. pc' = call /\ input' = bits
    BY DEF Enter
  <2>2. call = "flush" => \A i \in Positions : ~(i >= Len(bits))
    BY EncoderNumbers DEF Positions
  <2> QED
    BY <2>1, <2>2 DEF FlushFills
<1>5. FlushClears'
  BY DEF Enter, FlushClears
<1> QED
  BY <1>1, <1>2, <1>3, <1>4, <1>5 DEF EncoderInv

\* The division the code tests instead of the product (multi_encode.c:121).
LEMMA FitsProduct ==
    ASSUME NEW n_bits \in Nat, NEW limit \in Nat
    PROVE  Fits(n_bits, limit) <=> n_bits * n <= limit
<1> DEFINE quotient == limit \div n
<1>1. n \in Nat /\ n >= 1
  BY EncoderNumbers
<1>2. /\ quotient \in Nat
      /\ n * quotient <= limit
      /\ limit < n * quotient + n
  BY <1>1, Z3
<1> HIDE DEF quotient
<1>3. ASSUME n_bits <= quotient PROVE n_bits * n <= limit
  BY <1>1, <1>2, <1>3, Z3
<1>4. ASSUME n_bits >= quotient + 1 PROVE n_bits * n > limit
  BY <1>1, <1>2, <1>4, Z3
<1>5. n_bits <= quotient \/ n_bits >= quotient + 1
  BY <1>2
<1>6. n_bits * n \in Nat
  BY <1>1
<1>7. n_bits * n <= limit <=> n_bits <= quotient
  BY <1>2, <1>3, <1>4, <1>5, <1>6
<1> QED
  BY <1>7 DEF Fits, quotient

\* The product that the code tests (multi_encode.c:132) is exact as long as it
\* is an int.
LEMMA FlushBound ==
    ASSUME FlushFitsInt
    PROVE  Wrap((K - 1) * n) = (K - 1) * n
<1> DEFINE product == (K - 1) * n
           range == 2 * IntMax + 2
<1>1. K - 1 \in Nat /\ n \in Nat /\ IntMax \in Nat
  BY EncoderNumbers, FamilyAssumption
<1>2. product \in Nat /\ product <= IntMax
  BY <1>1, Z3 DEF FlushFitsInt
<1> HIDE DEF product
<1>3. range \in Nat /\ product + IntMax + 1 \in 0 .. (range - 1)
  BY <1>1, <1>2
<1>4. (product + IntMax + 1) % range = product + IntMax + 1
  <2> DEFINE sum == product + IntMax + 1
  <2> HIDE DEF sum, range
  <2> QED
    BY <1>3 DEF sum
<1>5. Wrap(product) = product
  BY <1>1, <1>2, <1>4 DEF Wrap
<1> QED
  BY <1>5 DEF product

LEMMA EncodeCallKeeps ==
    ASSUME EncoderInv, NEW code \in DOMAIN Codes, NEW bits \in Inputs,
           NEW limit \in OutSizes, EncodeCall(code, bits, limit)
    PROVE  EncoderInv'
<1>1. bits \in Seq(Bits) /\ Len(bits) \in Nat /\ limit \in Nat
  BY EncoderNumbers
<1>2. CASE Fits(Len(bits), limit)
  <2>1. Enter("encode", code, bits, limit)
    BY <1>2 DEF EncodeCall
  <2>2. Len(bits) * n <= limit
    BY <1>1, <1>2, FitsProduct
  <2> QED
    BY <1>1, <2>1, <2>2, EnterKeeps
<1>3. CASE ~Fits(Len(bits), limit)
  BY <1>3, RefuseKeeps DEF EncodeCall
<1> QED
  BY <1>2, <1>3

LEMMA FlushCallKeeps ==
    ASSUME EncoderInv, NEW code \in DOMAIN Codes, NEW limit \in OutSizes,
           FlushCall(code, limit)
    PROVE  EncoderInv'
<1> DEFINE zeros == [i \in 1 .. (K - 1) |-> 0]
<1>1. limit \in Nat /\ K - 1 \in Nat
  BY EncoderNumbers
<1>2. zeros \in Seq(Bits) /\ Len(zeros) = K - 1
  BY <1>1 DEF Bits
<1>3. \A k \in 1 .. Len(zeros) : zeros[k] = 0
  BY <1>2
<1>4. CASE Wrap((K - 1) * n) <= limit
  <2>1. Enter("flush", code, zeros, limit)
    BY <1>4 DEF FlushCall
  <2> HIDE DEF zeros
  <2>2. FlushFitsInt => Len(zeros) * n <= limit
    BY <1>2, <1>4, FlushBound
  <2> QED
    BY <1>1, <1>2, <1>3, <2>1, <2>2, EnterKeeps
<1>5. CASE ~(Wrap((K - 1) * n) <= limit)
  BY <1>5, RefuseKeeps DEF FlushCall
<1> QED
  BY <1>4, <1>5

LEMMA EncodeReturnKeeps == ASSUME EncoderInv, EncodeReturn PROVE EncoderInv'
<1>1. /\ pc # "idle" /\ input = << >> /\ Len(input) = 0
      /\ pc' = "idle" /\ UNCHANGED <<state, message, sent, input>>
      /\ result' = [call |-> pc, count |-> written, max_out |-> max_out]
  BY DEF EncodeReturn
<1>2. TypeOK'
  BY DEF EncoderInv, TypeOK, EncodeReturn
<1>3. RegisterIsHistory' /\ SentIsConvolution'
  BY <1>1, HistoryStays DEF EncoderInv
<1>4. result'.count = written /\ result'.max_out = max_out /\ result'.call = pc
  BY <1>1
<1>5. pc = "encode" \/ (pc = "flush" /\ FlushFitsInt) => written <= max_out
  <2>1. pc = "encode" \/ (pc = "flush" /\ FlushFitsInt) =>
            written + Len(input) * n <= max_out
    BY <1>1 DEF EncoderInv, WritesInBounds
  <2>2. written \in Nat /\ max_out \in Nat /\ 0 * n = 0
    BY EncoderNumbers DEF EncoderInv, TypeOK
  <2> QED
    BY <1>1, <2>1, <2>2
<1>6. WritesInBounds' /\ FlushFills'
  <2>1. result'.call = "encode" \/ (result'.call = "flush" /\ FlushFitsInt) =>
            result'.count <= result'.max_out
    BY <1>4, <1>5
  <2> QED
    BY <1>1, <2>1 DEF WritesInBounds, FlushFills, FlushFitsInt
<1>7. FlushClears'
  <2>1. pc = "flush" => \A i \in Positions : state[i] = 0
    BY <1>1, EncoderNumbers DEF EncoderInv, FlushFills, Positions
  <2>2. state = [i \in Positions |-> state[i]]
    BY DEF EncoderInv, TypeOK, Registers
  <2>3. pc = "flush" => state = Zero
    BY <2>1, <2>2 DEF Zero
  <2> QED
    BY <1>1, <1>4, <2>3 DEF FlushClears
<1> QED
  BY <1>2, <1>3, <1>6, <1>7 DEF EncoderInv

----------------------------------------------------------------------------
(* One bit shifted in                                                      *)

Shifted == EncoderInv /\ EmitGroup

\* MessageBit of a given message.
BitOf(bits, t) == IF t >= 1 THEN bits[t].bit ELSE 0

\* The history after the step: one more bit, the others where they were.
LEMMA MessageGrows ==
    ASSUME Shifted
    PROVE  /\ Len(message) \in Nat
           /\ Len(message') = Len(message) + 1
           /\ message'[Len(message) + 1] = [bit |-> Head(input), code |-> idx]
           /\ BitOf(message', Len(message) + 1) = Head(input)
           /\ \A t \in 1 .. Len(message) : message'[t] = message[t]
           /\ \A t \in Int : t <= Len(message) =>
                 BitOf(message', t) = MessageBit(t)
<1>1. message \in Seq([bit : Bits, code : DOMAIN Codes])
  BY DEF Shifted, EncoderInv, TypeOK
<1>2. message' = Append(message, [bit |-> Head(input), code |-> idx])
  BY DEF Shifted, EmitGroup
<1>3. /\ Len(message) \in Nat
      /\ Len(message') = Len(message) + 1
      /\ message'[Len(message) + 1] = [bit |-> Head(input), code |-> idx]
      /\ \A t \in 1 .. Len(message) : message'[t] = message[t]
  BY <1>1, <1>2
<1>4. BitOf(message', Len(message) + 1) = Head(input)
  <2>1. Len(message) + 1 >= 1
    BY <1>3
  <2>2. message'[Len(message) + 1].bit = Head(input)
    BY <1>3
  <2> QED
    BY <2>1, <2>2 DEF BitOf
<1>5. ASSUME NEW t \in Int, t <= Len(message)
      PROVE  BitOf(message', t) = MessageBit(t)
  <2>1. CASE t >= 1
    BY <2>1, <1>3, <1>5 DEF MessageBit, BitOf
  <2>2. CASE ~(t >= 1)
    BY <2>2 DEF MessageBit, BitOf
  <2> QED
    BY <2>1, <2>2
<1> QED
  BY <1>3, <1>4, <1>5

\* The invariants over the history, in the next state.
LEMMA HistoryPrimed ==
    /\ (\A i \in Positions : state'[i] = BitOf(message', Len(message') - (K - 2 - i)))
       => RegisterIsHistory'
    /\ /\ Len(sent') = Len(message')
       /\ \A t \in 1 .. Len(message') : \A j \in 1 .. n :
             sent'[t][j] =
                 Parity([i \in 0 .. (K - 1) |-> BitOf(message', t - (K - 1 - i))],
                        Codes[message'[t].code][j])
       => SentIsConvolution'
  BY DEF RegisterIsHistory, SentIsConvolution, MessageBit, BitOf

LEMMA InputTypes ==
    ASSUME Shifted
    PROVE  /\ input \in Seq(Bits) /\ Head(input) \in Bits
           /\ Tail(input) \in Seq(Bits) /\ Len(Tail(input)) = Len(input) - 1
           /\ Len(input) \in Nat /\ Len(input) >= 1
           /\ \A k \in 1 .. Len(Tail(input)) : Tail(input)[k] = input[k + 1]
           /\ Head(input) = input[1]
  BY DEF Shifted, EncoderInv, TypeOK, EmitGroup

LEMMA EmitTypes == Shifted => TypeOK'
<1> SUFFICES ASSUME Shifted PROVE TypeOK'
  OBVIOUS
<1>1. state' \in Registers
  BY InputTypes, NextStateType DEF Shifted, EncoderInv, TypeOK, EmitGroup
<1>2. Output(idx, state, Head(input)) \in [1 .. n -> Bits]
  BY InputTypes, OutputType DEF Shifted, EncoderInv, TypeOK
<1>3. sent' \in Seq([1 .. n -> Bits])
  BY <1>2 DEF Shifted, EncoderInv, TypeOK, EmitGroup
<1>4. message' \in Seq([bit : Bits, code : DOMAIN Codes])
  BY InputTypes DEF Shifted, EncoderInv, TypeOK, EmitGroup
<1>5. written' \in Nat
  BY EncoderNumbers DEF Shifted, EncoderInv, TypeOK, EmitGroup
<1>6. input' \in Seq(Bits)
  BY InputTypes DEF Shifted, EmitGroup
<1>7. UNCHANGED <<pc, idx, max_out, result>>
  BY DEF Shifted, EmitGroup
<1> QED
  BY <1>1, <1>3, <1>4, <1>5, <1>6, <1>7 DEF Shifted, EncoderInv, TypeOK

LEMMA EmitRegisterBit ==
    ASSUME Shifted, NEW i \in Positions, NEW was \in Nat, was = Len(message)
    PROVE  state'[i] = BitOf(message', (was + 1) - (K - 2 - i))
<1>1. was \in Nat
  OBVIOUS
<1>2. i \in Int /\ K \in Int /\ 0 <= i /\ i <= K - 2
  BY EncoderNumbers DEF Positions
<1>3. state' = NextState(state, Head(input))
  BY DEF Shifted, EmitGroup
<1>4. BitOf(message', was + 1) = Head(input)
  BY MessageGrows
<1>5. \A t \in Int : t <= was => BitOf(message', t) = MessageBit(t)
  BY MessageGrows
<1>6. \A k \in Positions : state[k] = MessageBit(was - (K - 2 - k))
  BY DEF Shifted, EncoderInv, RegisterIsHistory
<1>7. CASE i = K - 2
  <2>1. state'[i] = Head(input)
    BY <1>3, <1>7 DEF NextState
  <2>2. (was + 1) - (K - 2 - i) = was + 1
    BY <1>1, <1>2, <1>7
  <2> QED
    BY <2>1, <2>2, <1>4
<1>8. CASE i # K - 2
  <2>1. i + 1 \in Positions /\ state'[i] = state[i + 1]
    BY <1>2, <1>3, <1>8 DEF NextState, Positions
  <2>2. /\ was - (K - 2 - (i + 1)) = (was + 1) - (K - 2 - i)
        /\ (was + 1) - (K - 2 - i) \in Int
        /\ (was + 1) - (K - 2 - i) <= was
    BY <1>1, <1>2, <1>8
  <2> QED
    BY <2>1, <2>2, <1>5, <1>6
<1> QED
  BY <1>7, <1>8

LEMMA EmitRegister == Shifted => RegisterIsHistory'
<1> SUFFICES ASSUME Shifted PROVE RegisterIsHistory'
  OBVIOUS
<1>1. Len(message') = Len(message) + 1
  BY MessageGrows
<1>2. ASSUME NEW i \in Positions
      PROVE  state'[i] = BitOf(message', Len(message') - (K - 2 - i))
  <2>1. Len(message) \in Nat
    BY MessageGrows
  <2>2. state'[i] = BitOf(message', (Len(message) + 1) - (K - 2 - i))
    BY <2>1, EmitRegisterBit
  <2> QED
    BY <2>2, <1>1
<1> QED
  BY <1>2, HistoryPrimed

LEMMA EmitConvolution == Shifted => SentIsConvolution'
<1> DEFINE was == Len(message)
           Reach(t) == [i \in 0 .. (K - 1) |-> BitOf(message', t - (K - 1 - i))]
<1> SUFFICES ASSUME Shifted
             PROVE  /\ Len(sent') = was + 1
                    /\ \A t \in 1 .. (was + 1) : \A j \in 1 .. n :
                          sent'[t][j] =
                              Parity(Reach(t), Codes[message'[t].code][j])
  BY MessageGrows, HistoryPrimed
<1>1. was \in Nat
  BY MessageGrows
<1>2. /\ Len(sent) = was
      /\ \A t \in 1 .. was : \A j \in 1 .. n :
            sent[t][j] = Parity([i \in 0 .. (K - 1) |-> MessageBit(t - (K - 1 - i))],
                                Codes[message[t].code][j])
  BY DEF Shifted, EncoderInv, SentIsConvolution
<1>3. sent \in Seq([1 .. n -> Bits])
  BY DEF Shifted, EncoderInv, TypeOK
<1>4. sent' = Append(sent, Output(idx, state, Head(input)))
  BY DEF Shifted, EmitGroup
<1>5. /\ Len(sent') = was + 1
      /\ sent'[was + 1] = Output(idx, state, Head(input))
      /\ \A t \in 1 .. was : sent'[t] = sent[t]
  BY <1>1, <1>2, <1>3, <1>4
<1>6. /\ \A t \in Int : t <= was => BitOf(message', t) = MessageBit(t)
      /\ \A t \in 1 .. was : message'[t] = message[t]
      /\ message'[was + 1].code = idx
      /\ BitOf(message', was + 1) = Head(input)
  BY MessageGrows
<1>7. \A k \in Positions : state[k] = MessageBit(was - (K - 2 - k))
  BY DEF Shifted, EncoderInv, RegisterIsHistory
<1> HIDE DEF was
<1>8. ASSUME NEW t \in 1 .. was, NEW j \in 1 .. n
      PROVE  sent'[t][j] = Parity(Reach(t), Codes[message'[t].code][j])
  <2>1. \A i \in 0 .. (K - 1) : t - (K - 1 - i) \in Int /\ t - (K - 1 - i) <= was
    BY <1>1, EncoderNumbers
  <2>2. Reach(t) = [i \in 0 .. (K - 1) |-> MessageBit(t - (K - 1 - i))]
    BY <2>1, <1>6
  <2> QED
    BY <2>2, <1>2, <1>5, <1>6, SMTT(30)
<1>9. ASSUME NEW j \in 1 .. n
      PROVE  sent'[was + 1][j] = Parity(Reach(was + 1), Codes[message'[was + 1].code][j])
  <2>1. ASSUME NEW i \in 0 .. (K - 1)
        PROVE  BitOf(message', (was + 1) - (K - 1 - i)) =
                   IF i = K - 1 THEN Head(input) ELSE state[i]
    <3>1. CASE i = K - 1
      <4>1. (was + 1) - (K - 1 - i) = was + 1
        BY <3>1, <1>1, EncoderNumbers
      <4> QED
        BY <4>1, <3>1, <1>6
    <3>2. CASE i # K - 1
      <4>1. i \in Positions
        BY <3>2, EncoderNumbers DEF Positions
      <4>2. /\ (was + 1) - (K - 1 - i) = was - (K - 2 - i)
            /\ (was + 1) - (K - 1 - i) \in Int
            /\ (was + 1) - (K - 1 - i) <= was
        BY <3>2, <1>1, EncoderNumbers
      <4> QED
        BY <4>1, <4>2, <3>2, <1>6, <1>7
    <3> QED
      BY <3>1, <3>2
  <2> DEFINE place(i) == (was + 1) - (K - 1 - i)
  <2>2. Reach(was + 1) = Window(state, Head(input))
    <3>1. \A i \in 0 .. (K - 1) :
             BitOf(message', place(i)) = IF i = K - 1 THEN Head(input) ELSE state[i]
      BY <2>1
    <3>2. Reach(was + 1) = [i \in 0 .. (K - 1) |-> BitOf(message', place(i))]
      OBVIOUS
    <3> HIDE DEF place, Reach
    <3> QED
      BY <3>1, <3>2 DEF Window
  <2>3. sent'[was + 1][j] = Parity(Window(state, Head(input)), Codes[idx][j])
    BY <1>5 DEF Output
  <2> HIDE DEF Reach
  <2> QED
    BY <2>2, <2>3, <1>6
<1>10. \A t \in 1 .. (was + 1) : t \in 1 .. was \/ t = was + 1
  BY <1>1
<1> QED
  BY <1>5, <1>8, <1>9, <1>10

LEMMA EmitBounds == Shifted => WritesInBounds'
<1> SUFFICES ASSUME Shifted PROVE WritesInBounds'
  OBVIOUS
<1> DEFINE left == Len(input)
<1>1. /\ pc # "idle" /\ written' = written + n /\ input' = Tail(input)
      /\ UNCHANGED <<pc, max_out, result>>
  BY DEF Shifted, EmitGroup
<1>2. left \in Nat /\ left >= 1 /\ Len(input') = left - 1
  BY <1>1, InputTypes
<1>3. written \in Nat /\ n \in Nat /\ max_out \in Nat
  BY EncoderNumbers DEF Shifted, EncoderInv, TypeOK
<1> DEFINE bounded == pc = "encode" \/ (pc = "flush" /\ FlushFitsInt)
<1>4. bounded => written + left * n <= max_out
  BY <1>1 DEF Shifted, EncoderInv, WritesInBounds
<1> HIDE DEF left, bounded
<1>5. (left - 1) * n = left * n - n
  BY <1>2, <1>3, Z3
<1>6. left * n \in Nat
  BY <1>2, <1>3
<1>7. ASSUME bounded PROVE written' + Len(input') * n <= max_out'
  <2>1. Len(input') * n = left * n - n
    BY <1>2, <1>5
  <2>2. ASSUME NEW product \in Nat, written + product <= max_out
        PROVE  (written + n) + (product - n) <= max_out
    BY <1>3, <2>2
  <2>3. (written + n) + (left * n - n) <= max_out
    BY <1>4, <1>6, <1>7, <2>2
  <2>4. written' = written + n /\ max_out' = max_out
    BY <1>1
  <2> QED
    BY <2>1, <2>3, <2>4, Zenon
<1>8. result'.call = "encode" \/ (result'.call = "flush" /\ FlushFitsInt) =>
          result'.count <= result'.max_out
  BY <1>1 DEF Shifted, EncoderInv, WritesInBounds
<1>9. pc' = "encode" \/ (pc' = "flush" /\ FlushFitsInt) =>
          written' + Len(input') * n <= max_out'
  BY <1>1, <1>7 DEF bounded
<1> QED
  BY <1>8, <1>9 DEF WritesInBounds, FlushFitsInt

LEMMA EmitFills == Shifted => FlushFills'
<1> SUFFICES ASSUME Shifted, pc' = "flush" PROVE FlushFills'
  BY DEF FlushFills
<1>1. /\ pc = "flush" /\ input' = Tail(input)
      /\ state' = NextState(state, Head(input))
  BY DEF Shifted, EmitGroup
<1>2. /\ \A k \in 1 .. Len(input) : input[k] = 0
      /\ \A i \in Positions : i >= Len(input) => state[i] = 0
  BY <1>1 DEF Shifted, EncoderInv, FlushFills
<1>3. /\ Len(input) \in Nat /\ Len(input) >= 1
      /\ Len(input') = Len(input) - 1
      /\ \A k \in 1 .. Len(input') : input'[k] = input[k + 1]
      /\ Head(input) = input[1]
  BY <1>1, InputTypes
<1>4. \A k \in 1 .. Len(input') : input'[k] = 0
  BY <1>2, <1>3
<1>5. Head(input) = 0
  BY <1>2, <1>3
<1>6. ASSUME NEW i \in Positions, i >= Len(input') PROVE state'[i] = 0
  <2>1. i \in Int /\ K \in Int /\ 0 <= i /\ i <= K - 2
    BY EncoderNumbers DEF Positions
  <2>2. CASE i = K - 2
    BY <2>2, <1>1, <1>5 DEF NextState
  <2>3. CASE i # K - 2
    <3>1. i + 1 \in Positions /\ i + 1 >= Len(input)
      BY <2>1, <2>3, <1>3, <1>6 DEF Positions
    <3>2. state'[i] = state[i + 1]
      BY <2>3, <1>1 DEF NextState
    <3> QED
      BY <3>1, <3>2, <1>2
  <2> QED
    BY <2>2, <2>3
<1> QED
  BY <1>4, <1>6 DEF FlushFills

LEMMA EmitGroupKeeps == ASSUME EncoderInv, EmitGroup PROVE EncoderInv'
<1>1. Shifted
  BY DEF Shifted
<1>2. FlushClears'
  BY DEF EmitGroup, FlushClears
<1> QED
  BY <1>1, <1>2, EmitTypes, EmitRegister, EmitConvolution, EmitBounds, EmitFills
     DEF EncoderInv

LEMMA NextEncoder == EncoderInv /\ [Next]_vars => EncoderInv'
<1> SUFFICES ASSUME EncoderInv, [Next]_vars PROVE EncoderInv'
  OBVIOUS
<1>1. CASE UNCHANGED vars
  <2>1. RegisterIsHistory' /\ SentIsConvolution'
    BY <1>1, HistoryStays DEF EncoderInv, vars
  <2>2. UNCHANGED <<state, pc, idx, input, max_out, written, result, message, sent>>
    BY <1>1 DEF vars
  <2>3. TypeOK'
    BY <2>2 DEF EncoderInv, TypeOK
  <2> QED
    BY <2>1, <2>2, <2>3
       DEF EncoderInv, WritesInBounds, FlushFitsInt, FlushFills, FlushClears
<1> QED
  BY <1>1, EncodeCallKeeps, FlushCallKeeps, EmitGroupKeeps, EncodeReturnKeeps
     DEF Next

----------------------------------------------------------------------------
LEMMA EncoderInvariance == Spec => []EncoderInv
  BY InitEncoder, NextEncoder, PTL DEF Spec

\* Every variable of the encoder keeps its type.
THEOREM EncoderTypes == Spec => []TypeOK
<1>1. EncoderInv => TypeOK
  BY DEF EncoderInv
<1> QED
  BY <1>1, EncoderInvariance, PTL

\* One register serves all codes of the family: it is the end of the message,
\* whatever codes and calls the message was sent by.
THEOREM RegisterRemembers == Spec => []RegisterIsHistory
<1>1. EncoderInv => RegisterIsHistory
  BY DEF EncoderInv
<1> QED
  BY <1>1, EncoderInvariance, PTL

\* A change of the code between two calls leaves no seam: what is sent is the
\* convolution of the whole message with the code chosen for each bit.
THEOREM EncoderConvolves == Spec => []SentIsConvolution
<1>1. EncoderInv => SentIsConvolution
  BY DEF EncoderInv
<1> QED
  BY <1>1, EncoderInvariance, PTL

\* No accepted dv_multi_encode call, of any size up to INT_MAX, writes past its
\* output, nor does a flush whose output is an int; of n nothing is assumed but
\* that it is an int itself.
THEOREM EncoderStaysInBounds == Spec => []WritesInBounds
<1>1. EncoderInv => WritesInBounds
  BY DEF EncoderInv
<1> QED
  BY <1>1, EncoderInvariance, PTL

\* What the hypothesis of WritesInBounds leaves out is real: with K = 3 and a
\* flush that is no int, the product wraps below zero and the bound refuses no
\* output at all, however small (multi_encode.c:132).
THEOREM WrappedFlushIsAccepted ==
    ASSUME K = 3, ~FlushFitsInt, NEW code \in DOMAIN Codes,
           NEW limit \in OutSizes, FlushCall(code, limit)
    PROVE  Enter("flush", code, [i \in 1 .. (K - 1) |-> 0], limit)
<1>1. n \in Nat /\ IntMax \in Nat /\ n <= IntMax /\ limit \in Nat
  BY FamilyAssumption
<1>2. (K - 1) * n = 2 * n /\ 2 * n > IntMax
  BY <1>1 DEF FlushFitsInt
<1> DEFINE range == 2 * IntMax + 2
           over == 2 * n - IntMax - 1
<1>3. range \in Nat \ {0} /\ over \in Nat /\ over <= IntMax
  BY <1>1, <1>2
<1>4. (over + range) % range = over
  <2> HIDE DEF over, range
  <2>1. over < range
    BY <1>1, <1>3 DEF range
  <2> QED
    BY <1>3, <2>1
<1>5. 2 * n + IntMax + 1 = over + range
  BY <1>1
<1>6. Wrap(2 * n) = over - IntMax - 1
  BY <1>4, <1>5 DEF Wrap
<1>7. Wrap((K - 1) * n) <= limit
  BY <1>1, <1>2, <1>3, <1>6
<1> QED
  BY <1>7 DEF FlushCall

\* After a flush the register is zero.
THEOREM FlushResets == Spec => []FlushClears
<1>1. EncoderInv => FlushClears
  BY DEF EncoderInv
<1> QED
  BY <1>1, EncoderInvariance, PTL
=============================================================================
