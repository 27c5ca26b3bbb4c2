------------------------------ MODULE MCCompare ------------------------------
(* A small instance of Compare.  The samples are streams of two codes of   *)
(* rate 1/2 and constraint length 2, clean or with one or two bits lost,   *)
(* inserted or flipped, and streams that no code made.                     *)
EXTENDS Compare

\* The coded stream of a message, for two generators given as sets of delays.
Coded(generators, message) ==
    [i \in 1 .. (2 * (Len(message) - 1)) |->
        LET taps == generators[((i - 1) % 2) + 1]
            now == (i + 1) \div 2 + 1
        IN  Cardinality({d \in taps : message[now - d] = 1}) % 2] \o << >>

CodeA == <<{0}, {0, 1}>>
CodeB == <<{1}, {0}>>

\* Two messages without a short period.
Message == <<1,0,1,1,0,0,1,0,0,0,1,1,1,0,1,0,1,1,0,1,1,1,0,0,1,0,1,0,0,1,1>>
Other == <<0,1,1,0,0,0,1,1,1,0,1,0,0,1,0,1,1,1,1,0,1,0,0,0,1,1,0,1,1,0,1>>

Drop(s, p) == SubSeq(s, 1, p - 1) \o SubSeq(s, p + 1, Len(s))
Insert1(s, p) == SubSeq(s, 1, p) \o SubSeq(s, p, Len(s))
Flip(s, p) == [s EXCEPT ![p] = 1 - @]
Period(bits, length) == [i \in 1 .. length |-> bits[((i - 1) % Len(bits)) + 1]] \o << >>
Cut(s, length) == SubSeq(s, 1, length)

LongSamples ==
    LET a == Coded(CodeA, Message)
    IN  {a, Coded(CodeA, Other), Coded(CodeB, Message), Drop(a, 31), Insert1(a, 24),
         Flip(a, 3), Flip(a, 47), Drop(Drop(a, 20), 21),
         Period(<<1>>, 60), Period(<<0>>, 60), Period(<<0, 1>>, 60), Period(<<0, 1, 1, 1>>, 60)}

ShortSamples ==
    LET a == Coded(CodeA, Message)
        b == Coded(CodeB, Other)
    IN  UNION {{Cut(a, l), Cut(b, l), Cut(Drop(a, 4), l), Cut(Insert1(a, 7), l),
                Cut(Flip(b, 6), l)} : l \in {11, 12, 14}}

AllSamples == LongSamples \cup ShortSamples
\* Of the last one the window wraps around to two bits.
SomeCodes == {<<2, 2>>, <<2, 3>>, <<3, 2>>, <<1, 2>>, <<86, 2>>}
=============================================================================
