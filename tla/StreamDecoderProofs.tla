------------------------ MODULE StreamDecoderProofs ------------------------
(* The inductive invariant of StreamDecoder and the theorems that follow   *)
(* from it, for every code, every geometry (n, max_drift, decision_depth), *)
(* every slack of the initial capacity, every chunking of the stream and   *)
(* every sequence of calls.  In order: what the operators of DecodeCtx and *)
(* Trellis preserve; the invariant and its theorems; traceback, paths and  *)
(* memory; the refinements of DecodeLog and Cadence.                       *)
EXTENDS StreamDecoder, Induction, SequenceTheorems

----------------------------------------------------------------------------
\* Two differences are equal if they are after the same shift.
LEMMA SameOffset ==
    ASSUME NEW total \in Int, NEW a \in Int, NEW b \in Int, NEW c \in Int,
           NEW d \in Int, total - a + b = total - c + d
    PROVE  a - b = c - d
  OBVIOUS

\* Two steps less than a ring apart have different slots.
LEMMA SlotsDiffer ==
    ASSUME NEW i \in Nat, NEW j \in Nat, i < j, j - i < Depth
    PROVE  Slot(i) # Slot(j)
<1>1. SUFFICES ASSUME i % Depth = j % Depth PROVE FALSE
  BY DEF Slot
<1> DEFINE p == i \div Depth
           q == j \div Depth
<1>2. Depth \in Nat \ {0}
  BY GeometryAssumption
<1>3. /\ p \in Int /\ q \in Int
      /\ i = Depth * p + (i % Depth)
      /\ j = Depth * q + (j % Depth)
      /\ i % Depth \in Int
  BY <1>2, DivisionFacts
<1> HIDE DEF p, q
<1>4. j - i = Depth * (q - p)
  BY <1>1, <1>2, <1>3
<1>5. q - p > 0
  BY <1>2, <1>3, <1>4, SMT
<1>6. Depth * (q - p) >= Depth
  BY <1>2, <1>3, <1>5, MultipleAtLeast
<1> QED
  BY <1>2, <1>3, <1>4, <1>6

LEMMA SlotInRing == ASSUME NEW i \in Nat PROVE Slot(i) \in Slots
  BY GeometryAssumption, DivisionFacts DEF Slot, Slots

----------------------------------------------------------------------------
LEMMA BufferFacts ==
    ASSUME NEW bits \in Seq(Nat), NEW capacity \in Nat, NEW base \in Nat
    PROVE  /\ Buffer(bits, capacity, base) \in Buffers
           /\ Buffer(bits, capacity, base).received = bits
           /\ Buffer(bits, capacity, base).received_capacity = capacity
           /\ Buffer(bits, capacity, base).read_base = base
  BY DEF Buffer, Buffers

LEMMA BuffersFields ==
    ASSUME NEW b \in Buffers
    PROVE  /\ MaxDrift \in Nat /\ N \in Nat \ {0}
           /\ b.received \in Seq(Nat)
           /\ Len(b.received) \in Nat
           /\ b.received_capacity \in Nat
           /\ b.read_base \in Nat
  BY GeometryAssumption DEF Buffers

LEMMA EmptyIsGood == GoodBuffer(EmptyBuffer, 0)
<1>1. InitialCapacity \in Nat /\ MaxDrift \in Nat
  BY GeometryAssumption DEF InitialCapacity
<1>2. << >> \in Seq(Nat) /\ Len(<< >>) = 0 /\ 0 \in Nat
  OBVIOUS
<1>3. /\ EmptyBuffer \in Buffers
      /\ EmptyBuffer.received = << >>
      /\ EmptyBuffer.received_capacity = InitialCapacity
      /\ EmptyBuffer.read_base = 0
  BY <1>1, <1>2 DEF EmptyBuffer, Buffer, Buffers
<1>4. HoldsLog(EmptyBuffer, 0)
  BY <1>2, <1>3 DEF HoldsLog
<1>5. CursorNear(EmptyBuffer) /\ KeepsHistory(EmptyBuffer, 0)
  BY <1>2, <1>3 DEF CursorNear, KeepsHistory
<1>6. FitsCapacity(EmptyBuffer)
  BY <1>1, <1>2, <1>3 DEF FitsCapacity
<1> QED
  BY <1>3, <1>4, <1>5, <1>6 DEF GoodBuffer

LEMMA DropBitsFacts ==
    ASSUME NEW s \in Seq(Nat), NEW k \in Nat, k <= Len(s)
    PROVE  /\ DropBits(s, k) \in Seq(Nat)
           /\ Len(DropBits(s, k)) = Len(s) - k
           /\ \A i \in 1 .. (Len(s) - k) : DropBits(s, k)[i] = s[i + k]
<1> DEFINE m == k + 1
           n == Len(s)
<1>1. n \in Nat /\ m \in Int /\ n \in Int /\ n - m + 1 = n - k
  OBVIOUS
<1>3. m <= n \/ n - k = 0
  OBVIOUS
<1>2. \A i \in m .. n : s[i] \in Nat
  BY <1>1
<1> HIDE DEF m, n
<1>4. /\ SubSeq(s, m, n) \in Seq(Nat)
      /\ Len(SubSeq(s, m, n)) = IF m <= n THEN n - m + 1 ELSE 0
      /\ \A i \in 1 .. n - m + 1 : SubSeq(s, m, n)[i] = s[m + i - 1]
  BY <1>1, <1>2, SubSeqProperties
<1>5. Len(SubSeq(s, m, n)) = n - k
  <2>1. CASE m <= n
    BY <1>1, <1>4, <2>1
  <2>2. CASE ~(m <= n)
    BY <1>3, <1>4, <2>2
  <2> QED
    BY <2>1, <2>2
<1>6. ASSUME NEW i \in 1 .. (n - k) PROVE SubSeq(s, m, n)[i] = s[i + k]
  <2>1. m + i - 1 = i + k /\ i \in 1 .. n - m + 1
    BY <1>1 DEF m
  <2>2. SubSeq(s, m, n)[i] = s[m + i - 1]
    BY <1>4, <2>1
  <2> QED
    BY <2>1, <2>2
<1> QED
  BY <1>4, <1>5, <1>6 DEF DropBits, m, n

\* What compaction does: nothing, or it drops the bits below the history.
LEMMA CompactCases ==
    ASSUME NEW b \in Buffers, b.read_base - 2 * MaxDrift <= Len(b.received),
           NEW c, c = CompactReceived(b),
           NEW k, k = b.read_base - 2 * MaxDrift
    PROVE  /\ c \in Buffers
           /\ c.received_capacity = b.received_capacity
           /\ k <= 0 => c = b
           /\ k > 0 => /\ c.read_base = 2 * MaxDrift
                       /\ Len(c.received) = Len(b.received) - k
                       /\ \A i \in 1 .. Len(c.received) :
                             c.received[i] = b.received[i + k]
<1>1. k \in Int
  BY BuffersFields
<1>2. CASE k <= 0
  BY <1>1, <1>2 DEF CompactReceived
<1>3. CASE k > 0
  <2> DEFINE s == DropBits(b.received, k)
  <2>1. k \in Nat /\ k <= Len(b.received) /\ b.read_base - k = 2 * MaxDrift
    BY <1>1, <1>3, BuffersFields
  <2>2. c = Buffer(s, b.received_capacity, 2 * MaxDrift)
    BY <1>1, <1>3, <2>1 DEF CompactReceived
  <2>3. /\ s \in Seq(Nat)
        /\ Len(s) = Len(b.received) - k
        /\ \A i \in 1 .. (Len(b.received) - k) : s[i] = b.received[i + k]
    BY <2>1, BuffersFields, DropBitsFacts
  <2> HIDE DEF s
  <2>4. 2 * MaxDrift \in Nat
    BY BuffersFields
  <2>5. b.received_capacity \in Nat
    BY BuffersFields
  <2>6. /\ c \in Buffers
        /\ c.received = s
        /\ c.received_capacity = b.received_capacity
        /\ c.read_base = 2 * MaxDrift
    BY <2>2, <2>3, <2>4, <2>5, BufferFacts
  <2> QED
    BY <1>1, <1>3, <2>3, <2>6
<1> QED
  BY <1>1, <1>2, <1>3

\* Compaction keeps a good buffer good and the cursor where it is in the
\* stream: the bits kept are the same bits, and the distance from the cursor
\* to the end is the same.
LEMMA CompactKeepsGood ==
    ASSUME NEW n_fed \in Nat, NEW b, GoodBuffer(b, n_fed),
           NEW c, c = CompactReceived(b)
    PROVE  /\ GoodBuffer(c, n_fed)
           /\ PositionOf(c, n_fed) = PositionOf(b, n_fed)
           /\ Len(c.received) <= Len(b.received)
           /\ c.received_capacity = b.received_capacity
<1> DEFINE k == b.read_base - 2 * MaxDrift
<1>1. b \in Buffers
  BY DEF GoodBuffer
<1>2. /\ MaxDrift \in Nat /\ Len(b.received) \in Nat
      /\ b.read_base \in Nat /\ b.received_capacity \in Nat
  BY <1>1, BuffersFields
<1>3. k \in Int /\ k <= Len(b.received)
  BY <1>1, <1>2 DEF GoodBuffer, CursorNear
<1>4. /\ c \in Buffers
      /\ c.received_capacity = b.received_capacity
      /\ k <= 0 => c = b
      /\ k > 0 => /\ c.read_base = 2 * MaxDrift
                  /\ Len(c.received) = Len(b.received) - k
                  /\ \A i \in 1 .. Len(c.received) :
                        c.received[i] = b.received[i + k]
  <2>1. k = b.read_base - 2 * MaxDrift /\ c = CompactReceived(b)
    OBVIOUS
  <2> HIDE DEF k
  <2>2. b.read_base - 2 * MaxDrift <= Len(b.received)
    BY <1>3, <2>1
  <2> QED
    BY <1>1, <2>1, <2>2, CompactCases
<1>. b.read_base = k + 2 * MaxDrift
  BY <1>2
<1> HIDE DEF k
<1>5. CASE k <= 0
  BY <1>4, <1>5, <1>2 DEF PositionOf
<1>6. CASE k > 0
  <2>1. /\ c.read_base = 2 * MaxDrift
        /\ Len(c.received) = Len(b.received) - k
        /\ c.received_capacity = b.received_capacity
        /\ Len(c.received) \in Int /\ c.read_base \in Int
    BY <1>2, <1>3, <1>4, <1>6
  <2>2. HoldsLog(c, n_fed)
    <3>1. \A i \in 1 .. Len(b.received) :
             b.received[i] = n_fed - Len(b.received) + i - 1
      BY DEF GoodBuffer, HoldsLog
    <3>2. Len(b.received) <= n_fed
      BY DEF GoodBuffer, HoldsLog
    <3>3. ASSUME NEW i \in 1 .. Len(c.received)
          PROVE  c.received[i] = n_fed - Len(c.received) + i - 1
      <4>1. i \in Int /\ i + k \in 1 .. Len(b.received)
        BY <1>2, <1>3, <1>6, <2>1
      <4>2. c.received[i] = b.received[i + k]
        BY <1>4, <1>6
      <4>3. b.received[i + k] = n_fed - Len(b.received) + (i + k) - 1
        BY <3>1, <4>1
      <4>4. n_fed - Len(b.received) + (i + k) - 1 = n_fed - Len(c.received) + i - 1
        BY <1>2, <1>3, <2>1, <4>1
      <4> QED
        BY <4>2, <4>3, <4>4
    <3>4. Len(c.received) <= n_fed
      BY <1>2, <1>3, <1>6, <2>1, <3>2
    <3> QED
      BY <3>3, <3>4 DEF HoldsLog
  <2>3. CursorNear(c) /\ KeepsHistory(c, n_fed) /\ FitsCapacity(c)
    BY <1>2, <1>3, <1>6, <2>1
       DEF GoodBuffer, CursorNear, KeepsHistory, FitsCapacity
  <2>4. PositionOf(c, n_fed) = PositionOf(b, n_fed)
    BY <1>2, <1>3, <1>6, <2>1 DEF PositionOf
  <2>5. c \in Buffers /\ Len(c.received) <= Len(b.received)
    BY <1>2, <1>3, <1>4, <1>6, <2>1
  <2> QED
    BY <2>1, <2>2, <2>3, <2>4, <2>5 DEF GoodBuffer
<1> QED
  BY <1>3, <1>5, <1>6

----------------------------------------------------------------------------
\* Reserving room does not move anything either, and makes the room.
LEMMA ReserveKeepsGood ==
    ASSUME NEW n_fed \in Nat, NEW b, GoodBuffer(b, n_fed), NEW extra \in Nat,
           NEW r, r = ReserveReceived(b, extra)
    PROVE  /\ GoodBuffer(r, n_fed)
           /\ PositionOf(r, n_fed) = PositionOf(b, n_fed)
           /\ Len(r.received) + extra <= r.received_capacity
<1> DEFINE c == CompactReceived(b)
           L == Len(c.received)
           needed == L + extra
           doubled == c.received_capacity * 2
           capacity == IF doubled < needed THEN needed ELSE doubled
<1>1. GoodBuffer(c, n_fed) /\ PositionOf(c, n_fed) = PositionOf(b, n_fed)
  BY CompactKeepsGood
<1>2. c \in Buffers /\ HoldsLog(c, n_fed) /\ FitsCapacity(c)
  BY <1>1 DEF GoodBuffer
<1>3. /\ c.received \in Seq(Nat) /\ L \in Nat
      /\ c.received_capacity \in Nat /\ c.read_base \in Nat
  BY <1>2, BuffersFields
<1>4. MustGrow(b, extra) <=> needed > c.received_capacity
  BY DEF MustGrow
<1>5. r = IF MustGrow(b, extra) THEN Buffer(c.received, capacity, c.read_base)
                               ELSE c
  BY DEF ReserveReceived
<1> HIDE DEF c
<1>6. CASE ~MustGrow(b, extra)
  BY <1>1, <1>3, <1>4, <1>5, <1>6
<1>7. CASE MustGrow(b, extra)
  <2>1. capacity \in Nat /\ capacity >= needed
    BY <1>3
  <2> HIDE DEF capacity
  <2>2. /\ r \in Buffers
        /\ r.received = c.received
        /\ r.received_capacity = capacity
        /\ r.read_base = c.read_base
    BY <1>3, <1>5, <1>7, <2>1, BufferFacts
  <2>3. HoldsLog(r, n_fed) /\ CursorNear(r) /\ KeepsHistory(r, n_fed)
    BY <1>1, <2>2 DEF GoodBuffer, HoldsLog, CursorNear, KeepsHistory
  <2>4. FitsCapacity(r) /\ Len(r.received) + extra <= r.received_capacity
    BY <1>3, <2>1, <2>2 DEF FitsCapacity
  <2> QED
    BY <1>1, <2>2, <2>3, <2>4 DEF GoodBuffer, PositionOf
<1> QED
  BY <1>6, <1>7

\* Feeding appends the next bits of the stream and moves nothing: the cursor
\* stays where it is in the stream.
LEMMA FeedKeepsGood ==
    ASSUME NEW n_fed \in Nat, NEW b, GoodBuffer(b, n_fed), NEW n_in \in Nat,
           NEW f, f = FeedReceived(b, n_fed, n_in)
    PROVE  /\ GoodBuffer(f, n_fed + n_in)
           /\ PositionOf(f, n_fed + n_in) = PositionOf(b, n_fed)
<1> DEFINE r == ReserveReceived(b, n_in)
           tail == [i \in 1 .. n_in |-> n_fed + i - 1]
           s == r.received \o tail
<1>1. /\ GoodBuffer(r, n_fed)
      /\ PositionOf(r, n_fed) = PositionOf(b, n_fed)
      /\ Len(r.received) + n_in <= r.received_capacity
  BY ReserveKeepsGood
<1>2. r \in Buffers
  BY <1>1 DEF GoodBuffer
<1>3. /\ r.received \in Seq(Nat) /\ Len(r.received) \in Nat
      /\ r.received_capacity \in Nat /\ r.read_base \in Nat
  BY <1>2, BuffersFields
<1>4. f = Buffer(s, r.received_capacity, r.read_base)
  BY DEF FeedReceived
<1> HIDE DEF r
<1>5. tail \in Seq(Nat) /\ Len(tail) = n_in
  OBVIOUS
<1>6. \A i \in 1 .. n_in : tail[i] = n_fed + i - 1
  OBVIOUS
<1> HIDE DEF tail
<1>7. /\ s \in Seq(Nat)
      /\ Len(s) = Len(r.received) + n_in
      /\ \A i \in 1 .. Len(s) : s[i] = IF i <= Len(r.received)
                                     THEN r.received[i]
                                     ELSE tail[i - Len(r.received)]
  BY <1>3, <1>5, ConcatProperties, ZenonT(30)
<1> HIDE DEF s
<1>8. /\ f \in Buffers
      /\ f.received = s
      /\ f.received_capacity = r.received_capacity
      /\ f.read_base = r.read_base
  BY <1>3, <1>4, <1>7, BufferFacts
<1>9. HoldsLog(f, n_fed + n_in)
  <2>1. /\ Len(r.received) <= n_fed
        /\ \A i \in 1 .. Len(r.received) :
              r.received[i] = n_fed - Len(r.received) + i - 1
    BY <1>1 DEF GoodBuffer, HoldsLog
  <2>2. Len(s) <= n_fed + n_in /\ Len(s) \in Nat
    BY <1>3, <1>7, <2>1
  <2>3. ASSUME NEW i \in 1 .. Len(s)
        PROVE  s[i] = n_fed + n_in - Len(s) + i - 1
    <3>1. i \in Int /\ 1 <= i /\ i <= Len(r.received) + n_in
      BY <1>3, <1>7, <2>2
    <3>2. CASE i <= Len(r.received)
      <4>1. i \in 1 .. Len(r.received)
        BY <1>3, <3>1, <3>2
      <4>2. s[i] = r.received[i]
        BY <1>7, <3>2
      <4>3. r.received[i] = n_fed - Len(r.received) + i - 1
        BY <2>1, <4>1
      <4>4. /\ Len(s) = Len(r.received) + n_in
            /\ n_fed - Len(r.received) + i - 1 = n_fed + n_in - Len(s) + i - 1
        BY <1>3, <1>7, <3>1
      <4> QED
        BY <4>2, <4>3, <4>4
    <3>3. CASE i > Len(r.received)
      <4>1. i - Len(r.received) \in 1 .. n_in
        BY <1>3, <3>1, <3>3
      <4>2. s[i] = tail[i - Len(r.received)]
        BY <1>3, <1>7, <3>1, <3>3, SMTT(30)
      <4>3. tail[i - Len(r.received)] = n_fed + (i - Len(r.received)) - 1
        BY <1>6, <4>1
      <4>4. /\ Len(s) = Len(r.received) + n_in
            /\ n_fed + (i - Len(r.received)) - 1 = n_fed + n_in - Len(s) + i - 1
        BY <1>3, <1>7, <3>1
      <4> QED
        BY <4>2, <4>3, <4>4
    <3> QED
      BY <1>3, <3>1, <3>2, <3>3
  <2> QED
    BY <1>8, <2>2, <2>3 DEF HoldsLog
<1>10. CursorNear(f) /\ FitsCapacity(f)
  BY <1>1, <1>3, <1>7, <1>8 DEF GoodBuffer, CursorNear, FitsCapacity
<1>11. KeepsHistory(f, n_fed + n_in)
  BY <1>1, <1>3, <1>7, <1>8 DEF GoodBuffer, KeepsHistory
<1>12. PositionOf(f, n_fed + n_in) = PositionOf(r, n_fed)
  BY <1>3, <1>7, <1>8 DEF PositionOf
<1> QED
  BY <1>1, <1>8, <1>9, <1>10, <1>11, <1>12 DEF GoodBuffer

\* What is left of the buffer by compaction: two drift windows, and what has
\* not been read.
LEMMA CompactLength ==
    ASSUME NEW b, b \in Buffers, b.read_base - 2 * MaxDrift <= Len(b.received)
    PROVE  /\ Len(CompactReceived(b).received) <=
                  2 * MaxDrift + (Len(b.received) - b.read_base)
           /\ Len(CompactReceived(b).received) \in Nat
           /\ CompactReceived(b).received_capacity = b.received_capacity
<1> DEFINE c == CompactReceived(b)
           k == b.read_base - 2 * MaxDrift
<1>1. /\ MaxDrift \in Nat /\ Len(b.received) \in Nat /\ b.read_base \in Nat
  BY BuffersFields
<1>2. /\ c \in Buffers /\ c.received_capacity = b.received_capacity
      /\ k <= 0 => c = b
      /\ k > 0 => Len(c.received) = Len(b.received) - k
  BY CompactCases
<1>3. Len(c.received) \in Nat
  BY <1>2, BuffersFields
<1> HIDE DEF c
<1>4. Len(c.received) <= 2 * MaxDrift + (Len(b.received) - b.read_base)
  BY <1>1, <1>2, <1>3
<1> QED
  BY <1>2, <1>3, <1>4 DEF c

\* A feed keeps its capacity unless it has to grow; then it doubles it or
\* takes what it needs.
LEMMA FeedCapacity ==
    ASSUME NEW b \in Buffers, NEW position \in Nat, NEW n_in \in Nat
    PROVE  FeedReceived(b, position, n_in).received_capacity =
              LET c == CompactReceived(b)
                  needed == Len(c.received) + n_in
                  doubled == c.received_capacity * 2
              IN  IF needed > c.received_capacity
                  THEN IF doubled < needed THEN needed ELSE doubled
                  ELSE c.received_capacity
  BY DEF FeedReceived, ReserveReceived, MustGrow, Buffer

----------------------------------------------------------------------------
(* One step: the window it sees and where it leaves the cursor.            *)

LEMMA PickShiftFacts ==
    ASSUME NEW d \in DriftIndexes
    PROVE  /\ PickShift(d) \in Shifts
           /\ MaxDrift = 0 => PickShift(d) = 0
           /\ d - PickShift(d) \in DriftIndexes
<1>1. MaxDrift \in Nat /\ d \in 0 .. (2 * MaxDrift)
  BY GeometryAssumption DEF DriftIndexes, DriftWidth
<1> DEFINE deadband == (MaxDrift + 1) \div 2
<1>2. deadband \in Int /\ (MaxDrift > 0 => deadband >= 1)
  BY <1>1, SMT
<1> HIDE DEF deadband
<1>3. PickShift(d) = CASE MaxDrift = 0 -> 0
                       [] MaxDrift > 0 /\ d - MaxDrift >= deadband -> 1
                       [] MaxDrift > 0 /\ d - MaxDrift <= -deadband -> -1
                       [] OTHER -> 0
  BY DEF PickShift, deadband
<1>4. CASE MaxDrift = 0
  BY <1>1, <1>3, <1>4 DEF Shifts, DriftIndexes, DriftWidth
<1>5. CASE MaxDrift > 0 /\ d - MaxDrift >= deadband
  <2>1. PickShift(d) = 1
    BY <1>1, <1>2, <1>3, <1>5
  <2> QED
    BY <1>1, <1>2, <1>5, <2>1 DEF Shifts, DriftIndexes, DriftWidth
<1>6. CASE MaxDrift > 0 /\ d - MaxDrift <= -deadband
  <2>1. PickShift(d) = -1
    BY <1>1, <1>2, <1>3, <1>6
  <2> QED
    BY <1>1, <1>2, <1>6, <2>1 DEF Shifts, DriftIndexes, DriftWidth
<1>7. CASE /\ MaxDrift > 0
           /\ ~(d - MaxDrift >= deadband) /\ ~(d - MaxDrift <= -deadband)
  <2>1. PickShift(d) = 0
    BY <1>1, <1>2, <1>3, <1>7
  <2> QED
    BY <1>1, <2>1, <1>7 DEF Shifts, DriftIndexes, DriftWidth
<1> QED
  BY <1>1, <1>4, <1>5, <1>6, <1>7

\* The match table of a step shows the stream around the cursor and nothing
\* else: every place whose stream position has been fed shows that bit, and
\* every other place is out of range.  Compaction has never dropped a bit the
\* table would show, not even after a shift of -1.
LEMMA WindowShowsLog ==
    ASSUME NEW n_fed \in Nat, NEW b, GoodBuffer(b, n_fed),
           NEW sigma \in Shifts, MaxDrift = 0 => sigma = 0,
           NEW w, w = MatchWindow(ShiftBase(b, sigma)),
           NEW at, at = PositionOf(b, n_fed) + sigma,
           NEW p \in WindowPlaces
    PROVE  w[p] = IF at - MaxDrift + p \in 0 .. (n_fed - 1)
                  THEN at - MaxDrift + p ELSE NoBit
<1> DEFINE L == Len(b.received)
           absolute == b.read_base + sigma - MaxDrift + p
<1>1. b \in Buffers
  BY DEF GoodBuffer
<1>2. /\ MaxDrift \in Nat /\ L \in Nat /\ b.read_base \in Nat
      /\ sigma \in {-1, 0, 1} /\ p \in Nat
  BY <1>1, BuffersFields DEF Shifts, WindowPlaces
<1>3. w[p] = IF absolute \in 0 .. (L - 1) THEN b.received[absolute + 1]
                                          ELSE NoBit
  <2> DEFINE s == ShiftBase(b, sigma)
  <2>1. s.received = b.received /\ s.read_base = b.read_base + sigma
    BY DEF ShiftBase, Buffer
  <2> HIDE DEF s
  <2>2. w = MatchWindow(s)
    BY DEF s
  <2>3. w[p] = IF s.read_base - MaxDrift + p \in 0 .. (Len(s.received) - 1)
               THEN s.received[s.read_base - MaxDrift + p + 1] ELSE NoBit
    BY <2>2 DEF MatchWindow
  <2>4. /\ s.read_base - MaxDrift + p = absolute
        /\ s.read_base - MaxDrift + p + 1 = absolute + 1
        /\ Len(s.received) = L
    BY <1>2, <2>1
  <2> HIDE DEF absolute, L
  <2> QED
    BY <2>1, <2>3, <2>4
<1>4. at - MaxDrift + p = n_fed - L + absolute /\ absolute \in Int
  <2>1. at = n_fed - L + b.read_base + sigma
    BY DEF PositionOf
  <2>2. L \in Nat /\ absolute = b.read_base + sigma - MaxDrift + p
    BY <1>2
  <2> HIDE DEF L, absolute
  <2>3. sigma \in Int /\ p \in Int /\ b.read_base \in Int
    BY <1>2
  <2> QED
    BY <1>2, <2>1, <2>2, <2>3
<1>5. /\ L <= n_fed
      /\ L < n_fed => b.read_base >= 2 * MaxDrift
      /\ \A i \in 1 .. L : b.received[i] = n_fed - L + i - 1
  BY DEF GoodBuffer, HoldsLog, KeepsHistory
<1>6. L < n_fed => absolute >= 0
  BY <1>2, <1>5, SMTT(30)
<1> HIDE DEF L, absolute
<1>7. CASE absolute \in 0 .. (L - 1)
  <2>1. absolute + 1 \in 1 .. L
    BY <1>2, <1>7
  <2>2. b.received[absolute + 1] = n_fed - L + (absolute + 1) - 1
    BY <1>5, <2>1
  <2>3. /\ n_fed - L + (absolute + 1) - 1 = n_fed - L + absolute
        /\ n_fed - L + absolute \in 0 .. (n_fed - 1)
    BY <1>2, <1>4, <1>5, <1>7
  <2> QED
    BY <1>3, <1>4, <1>7, <2>2, <2>3
<1>8. CASE absolute \notin 0 .. (L - 1)
  <2>1. n_fed - L + absolute \notin 0 .. (n_fed - 1)
    BY <1>2, <1>4, <1>5, <1>6, <1>8
  <2> QED
    BY <1>3, <1>4, <1>8, <2>1
<1> QED
  BY <1>7, <1>8

\* The fast path sees what the match table would show ("identical result",
\* decode.c:475): with a whole group ahead no place of it is out of range.
LEMMA StepWindowAgrees ==
    ASSUME NEW b \in Buffers, HasGroup(b), NEW sigma,
           MaxDrift = 0 => sigma = 0
    PROVE  StepWindow(ShiftBase(b, sigma)) = MatchWindow(ShiftBase(b, sigma))
<1>1. CASE ~(MaxDrift = 0 /\ ~Indels)
  BY <1>1 DEF StepWindow
<1>2. CASE MaxDrift = 0 /\ ~Indels
  <2> DEFINE s == ShiftBase(b, sigma)
             L == Len(b.received)
  <2>1. /\ N \in Nat \ {0} /\ L \in Nat /\ b.read_base \in Nat
    BY BuffersFields
  <2>2. s.received = b.received /\ s.read_base = b.read_base
    BY <1>2, <2>1 DEF ShiftBase, Buffer
  <2>3. L - b.read_base >= N
    BY DEF HasGroup
  <2> HIDE DEF s, L
  <2>4. WindowPlaces = 0 .. (N - 1)
    BY <1>2, <2>1 DEF WindowPlaces, WindowWidth
  <2>5. b.read_base + N <= L
    BY <2>1, <2>3
  <2>6. \A p \in WindowPlaces :
           /\ b.read_base - MaxDrift + p = b.read_base + p
           /\ b.read_base + p \in 0 .. (L - 1)
    BY <1>2, <2>1, <2>4, <2>5
  <2>7. GroupWindow(s) = [p \in WindowPlaces |-> b.received[b.read_base + p + 1]]
    BY <2>1, <2>2, <2>5 DEF GroupWindow, L
  <2>8. MatchWindow(s) = [p \in WindowPlaces |-> b.received[b.read_base + p + 1]]
    BY <2>2, <2>6 DEF MatchWindow, L
  <2>9. StepWindow(s) = GroupWindow(s)
    BY <1>2 DEF StepWindow
  <2> QED
    BY <2>7, <2>8, <2>9 DEF s
<1> QED
  BY <1>1, <1>2

\* A step taken with at least one group ahead leaves the buffer good and the
\* cursor N bits on from the shifted position.
LEMMA AdvanceKeepsGood ==
    ASSUME NEW n_fed \in Nat, NEW b, GoodBuffer(b, n_fed), HasGroup(b),
           NEW sigma \in Shifts, MaxDrift = 0 => sigma = 0,
           NEW a, a = AdvanceBase(ShiftBase(b, sigma))
    PROVE  /\ GoodBuffer(a, n_fed)
           /\ PositionOf(a, n_fed) = PositionOf(b, n_fed) + sigma + N
<1> DEFINE m == Buffer(b.received, b.received_capacity, b.read_base + sigma + N)
<1>1. b \in Buffers
  BY DEF GoodBuffer
<1>2. /\ MaxDrift \in Nat /\ N \in Nat \ {0} /\ Len(b.received) \in Nat
      /\ b.received \in Seq(Nat)
      /\ b.read_base \in Nat /\ b.received_capacity \in Nat
      /\ sigma \in {-1, 0, 1}
  BY <1>1, BuffersFields DEF Shifts
<1>3. b.read_base + sigma + N \in Nat
  BY <1>2
<1>4. /\ m \in Buffers
      /\ m.received = b.received
      /\ m.received_capacity = b.received_capacity
      /\ m.read_base = b.read_base + sigma + N
  BY <1>2, <1>3, BufferFacts, SMTT(30)
<1>5. ShiftBase(b, sigma) =
          Buffer(b.received, b.received_capacity, b.read_base + sigma)
  BY DEF ShiftBase
<1>6. a = IF m.read_base - MaxDrift >= m.received_capacity \div 2
          THEN CompactReceived(m) ELSE m
  BY <1>5 DEF AdvanceBase, Buffer
<1> HIDE DEF m
<1>7. GoodBuffer(m, n_fed)
  <2>1. HoldsLog(m, n_fed) /\ FitsCapacity(m)
    BY <1>4 DEF GoodBuffer, HoldsLog, FitsCapacity
  <2>2. CursorNear(m)
    <3>1. Len(b.received) - b.read_base >= N
      BY DEF HasGroup
    <3>2. /\ b.read_base + sigma + N <= Len(b.received) + 1
          /\ MaxDrift = 0 => b.read_base + sigma + N <= Len(b.received)
      BY <1>2, <3>1, SMTT(30)
    <3> QED
      BY <1>4, <3>2 DEF CursorNear
  <2>3. KeepsHistory(m, n_fed)
    BY <1>2, <1>4 DEF GoodBuffer, KeepsHistory
  <2> QED
    BY <1>4, <2>1, <2>2, <2>3 DEF GoodBuffer
<1>8. PositionOf(m, n_fed) = PositionOf(b, n_fed) + sigma + N
  BY <1>2, <1>4 DEF PositionOf
<1>9. /\ GoodBuffer(CompactReceived(m), n_fed)
      /\ PositionOf(CompactReceived(m), n_fed) = PositionOf(m, n_fed)
  BY <1>7, CompactKeepsGood
<1> QED
  BY <1>6, <1>7, <1>8, <1>9

----------------------------------------------------------------------------
(* One forward pass: what it keeps and what it reaches.                    *)

LEMMA NodeFacts ==
    ASSUME NEW s \in States, NEW d \in DriftIndexes
    PROVE  /\ Node(s, d) \in Nodes
           /\ Node(s, d).state = s
           /\ Node(s, d).drift = d
  BY DEF Node, Nodes

LEMMA NodesFields ==
    ASSUME NEW v \in Nodes
    PROVE  /\ v.state \in States
           /\ v.drift \in DriftIndexes
           /\ v.drift \in Nat
           /\ v.drift <= 2 * MaxDrift
           /\ Node(v.state, v.drift) = v
<1>1. MaxDrift \in Nat
  BY GeometryAssumption
<1> QED
  BY <1>1 DEF Nodes, Node, DriftIndexes, DriftWidth

\* A branch ends where it started or further on in the stream, and inside it.
LEMMA BranchStaysInLog ==
    ASSUME NEW n_fed \in Nat, NEW b, GoodBuffer(b, n_fed),
           NEW sigma \in Shifts, MaxDrift = 0 => sigma = 0,
           NEW w, w = MatchWindow(ShiftBase(b, sigma)),
           NEW at \in Int, at = PositionOf(b, n_fed) + sigma,
           NEW u \in Nodes, NEW v \in Nodes, Branch(w, u, v),
           at + u.drift - MaxDrift <= n_fed
    PROVE  /\ at + u.drift - MaxDrift <= at + N + v.drift - MaxDrift
           /\ at + N + v.drift - MaxDrift <= n_fed
<1>1. /\ MaxDrift \in Nat /\ N \in Nat
      /\ u.drift \in Nat /\ u.drift <= 2 * MaxDrift
      /\ v.drift \in Nat /\ v.drift <= 2 * MaxDrift
  BY GeometryAssumption, NodesFields
<1> DEFINE c == N + v.drift - u.drift
           p == u.drift + (c - 1)
<1>2. c >= 0 /\ c \in Int /\ \A k \in 0 .. (c - 1) : w[u.drift + k] # NoBit
  <2>1. /\ Consumed(u, v) >= 0
        /\ \A k \in 0 .. (Consumed(u, v) - 1) : w[u.drift + k] # NoBit
    BY DEF Branch
  <2> QED
    BY <1>1, <2>1 DEF Consumed
<1>3. CASE c = 0
  BY <1>1, <1>3
<1>4. CASE c > 0
  <2>1. c - 1 \in 0 .. (c - 1) /\ p \in WindowPlaces
    BY <1>1, <1>2, <1>4 DEF WindowPlaces, WindowWidth
  <2>2. w[p] # NoBit
    BY <1>2, <2>1
  <2>3. at - MaxDrift + p \in 0 .. (n_fed - 1)
    BY <2>1, <2>2, WindowShowsLog
  <2> QED
    BY <1>1, <1>4, <2>3
<1> QED
  BY <1>2, <1>3, <1>4

\* With a group ahead of the cursor and no erasure of infinite cost in it,
\* every node whose path ends at a stream position (not before the stream)
\* has a branch of finite cost: one that deletes what the buffer cannot serve
\* and ends at the lowest drift.
LEMMA BranchExists ==
    ASSUME NEW n_fed \in Nat, NEW b, GoodBuffer(b, n_fed), HasGroup(b),
           NEW sigma \in Shifts, MaxDrift = 0 => sigma = 0,
           NEW w, w = MatchWindow(ShiftBase(b, sigma)),
           NEW at \in Int, at = PositionOf(b, n_fed) + sigma,
           NEW u \in Nodes, at + u.drift - MaxDrift >= 0,
           \A i \in FatalErasures : i >= at + N
    PROVE  \E v \in Nodes : Branch(w, u, v)
<1> DEFINE d == IF u.drift >= N THEN u.drift - N ELSE 0
           s == next_state[<<u.state, 0>>]
           v == Node(s, d)
<1>1. /\ MaxDrift \in Nat /\ N \in Nat \ {0}
      /\ u.drift \in Nat /\ u.drift <= 2 * MaxDrift /\ u.state \in States
  BY GeometryAssumption, NodesFields
<1>2. d \in DriftIndexes /\ d \in Nat
  BY <1>1 DEF DriftIndexes, DriftWidth
<1>3. s \in States
  BY <1>1, CodeAssumption DEF Bits
<1>4. v \in Nodes /\ v.state = s /\ v.drift = d
  BY <1>2, <1>3, NodeFacts
<1>5. N + d - u.drift >= 0
  BY <1>1
<1>6. b.read_base \in Nat /\ Len(b.received) \in Nat
  BY BuffersFields DEF GoodBuffer
<1>7. at <= n_fed + sigma - N
  <2>1. Len(b.received) - b.read_base >= N
    BY DEF HasGroup
  <2>2. at = n_fed - Len(b.received) + b.read_base + sigma
    BY DEF PositionOf
  <2> QED
    BY <1>1, <1>6, <2>1, <2>2, SMTT(30) DEF Shifts
<1>8. sigma - MaxDrift <= 0
  BY <1>1 DEF Shifts
<1>9. ASSUME NEW k \in 0 .. (N + d - u.drift - 1)
      PROVE  w[u.drift + k] \notin {NoBit} \cup FatalErasures
  <2>1. /\ k \in Nat /\ k <= N + d - u.drift - 1
        /\ u.drift < N /\ d = 0
    BY <1>1, <1>2
  <2>2. u.drift + k \in WindowPlaces
    BY <1>1, <2>1 DEF WindowPlaces, WindowWidth
  <2>3. at - MaxDrift + (u.drift + k) \in 0 .. (n_fed - 1)
    BY <1>1, <1>7, <1>8, <2>1 DEF Shifts
  <2>4. w[u.drift + k] = at - MaxDrift + (u.drift + k)
    BY <2>2, <2>3, WindowShowsLog
  <2>5. at - MaxDrift + (u.drift + k) < at + N
    BY <1>1, <2>1
  <2>6. at - MaxDrift + (u.drift + k) \notin FatalErasures
    BY <1>1, <2>1, <2>5
  <2> QED
    BY <2>3, <2>4, <2>6 DEF NoBit
<1> HIDE DEF d, s, v
<1>10. \E bit \in Bits : v.state = next_state[<<u.state, bit>>]
  BY <1>4 DEF s, Bits
<1>11. Consumed(u, v) = N + d - u.drift
  BY <1>4 DEF Consumed
<1>12. \A k \in 0 .. (Consumed(u, v) - 1) :
          w[u.drift + k] \notin {NoBit} \cup FatalErasures
  <2>1. 0 .. (Consumed(u, v) - 1) = 0 .. (N + d - u.drift - 1)
    BY <1>1, <1>2, <1>11
  <2> QED
    BY <1>9, <2>1
<1>13. Consumed(u, v) >= 0
  BY <1>5, <1>11
<1>14. Branch(w, u, v)
  BY <1>10, <1>12, <1>13 DEF Branch
<1> QED
  BY <1>4, <1>14
----------------------------------------------------------------------------
(* The invariant.                                                          *)


\* The part of the invariant that is about the buffer, the ring and the
\* living paths, and not about the call being served.
PathInv ==
    /\ GoodBuffer(buf, fed)
    /\ PathsInLog
    /\ StaysAlive
    /\ AnchorAtCursor
    /\ EntriesPast
    /\ RingLinked

LEMMA CursorIsPosition == Cursor = PositionOf(buf, fed)
  BY DEF Cursor, Dropped, PositionOf

\* The constants as sets of numbers.
LEMMA ConstantFacts ==
    /\ N \in Nat \ {0} /\ MaxDrift \in Nat /\ Depth \in Nat \ {0}
    /\ N \in Int /\ MaxDrift \in Int /\ Depth \in Int
  BY GeometryAssumption

----------------------------------------------------------------------------
LEMMA InitInv == Init => IInv
<1> SUFFICES ASSUME Init PROVE IInv
  OBVIOUS
<1>1. N \in Nat \ {0} /\ MaxDrift \in Nat /\ Depth \in Nat \ {0}
  BY ConstantFacts
<1>2. GoodBuffer(buf, fed)
  BY EmptyIsGood DEF Init
<1>3. buf \in Buffers
  BY <1>2 DEF GoodBuffer
<1>4. 0 \in States /\ MaxDrift \in DriftIndexes
  BY <1>1, CodeAssumption DEF States, DriftIndexes, DriftWidth
<1>5. best \in Nodes /\ best.drift = MaxDrift
  BY <1>4, NodeFacts DEF Init
<1>6. backpointers \in Rings
  BY DEF Init, RawRing, Rings, Entries, NeverWritten
<1>7. window \in Windows
  BY DEF Init, Windows, NoBit
<1>8. TypeOK
  <2>1. shift \in [Slots -> Shifts]
    BY DEF Init, Shifts
  <2>2. result \in Results
    BY DEF Init, Results
  <2>3. live \in SUBSET Nodes
    BY DEF Init, InitialLive
  <2>4. anchor \in [Slots -> Int]
    BY DEF Init
  <2>6. flushed \in BOOLEAN
    BY Zenon DEF Init
  <2>5. /\ steps \in Nat /\ decided \in Nat /\ fed \in Nat
        /\ output_count \in Nat
        /\ pc \in {"idle", "decode", "flush", "drain"}
        /\ max_out \in OutSizes \cup {0}
    BY DEF Init
  <2> QED
    BY <1>3, <1>5, <1>6, <1>7, <2>1, <2>2, <2>3, <2>4, <2>5, <2>6 DEF TypeOK
<1>10. Cursor = 0
  BY DEF Init, Cursor, Dropped, EmptyBuffer, Buffer
<1>9. StaysAlive
  <2>1. ~Doomed
    BY <1>10, ErasureAssumption DEF Doomed
  <2> QED
    BY <1>5, <2>1 DEF Init, StaysAlive, InitialLive
<1>11. PathsInLog
  BY <1>1, <1>10 DEF Init, PathsInLog, InitialLive
<1>12. PipelineFits /\ AnchorAtCursor /\ FixedDelay
  BY <1>1 DEF Init, PipelineFits, AnchorAtCursor, FixedDelay
<1>13. EntriesPast
  BY DEF Init, EntriesPast, RawRing, NeverWritten
<1>14. RingLinked
  BY DEF Init, RingLinked, Retained
<1>15. FlushPhases /\ FlushComplete
  BY DEF Init, FlushPhases, FlushComplete
<1> QED
  BY <1>2, <1>8, <1>9, <1>11, <1>12, <1>13, <1>14, <1>15 DEF IInv

----------------------------------------------------------------------------
(* Actions that leave the trellis alone: the buffer may move (a feed, a    *)
(* compaction), the cursor stays where it is in the stream.                *)

LEMMA BufferMoves ==
    ASSUME IInv, fed' \in Nat, fed <= fed', GoodBuffer(buf', fed'),
           PositionOf(buf', fed') = PositionOf(buf, fed),
           UNCHANGED <<steps, shift, trellisVars, anchor>>
    PROVE  PathInv'
<1>1. /\ N \in Nat \ {0} /\ MaxDrift \in Nat /\ Depth \in Nat \ {0}
      /\ TypeOK /\ PathsInLog /\ StaysAlive /\ AnchorAtCursor /\ EntriesPast
      /\ RingLinked
  BY ConstantFacts DEF IInv
<1>2. UNCHANGED <<steps, shift, live, best, backpointers, anchor>>
  BY DEF trellisVars
<1>3. Cursor' = Cursor
  BY CursorIsPosition DEF Cursor, Dropped, PositionOf
<1>4. fed \in Nat
  BY <1>1 DEF TypeOK
<1>5. PathsInLog'
  BY <1>1, <1>2, <1>3, <1>4 DEF PathsInLog
<1>6. StaysAlive' /\ AnchorAtCursor' /\ EntriesPast'
  BY <1>1, <1>2, <1>3 DEF StaysAlive, Doomed, AnchorAtCursor, EntriesPast
<1>7. RingLinked'
  <2>1. Retained' = Retained
    BY <1>2 DEF Retained
  <2>2. \A i \in Retained, v \in Nodes : Fresh(i, v)' = Fresh(i, v)
    BY <1>2 DEF Fresh
  <2>3. (steps > 0 => \A v \in live : Fresh(steps - 1, v))'
    BY <1>1, <1>2 DEF RingLinked, Fresh
  <2>4. ASSUME NEW i \in Retained, NEW v \in Nodes, Fresh(i, v),
               NEW u \in backpointers[Slot(i)][v].from
        PROVE  LET w == Node(u.state, u.drift + shift[Slot(i)])
               IN  /\ 0 <= StartsAt(i, u)
                   /\ StartsAt(i, u) <= EndsAt(i, v)
                   /\ EndsAt(i, v) <= fed'
                   /\ i - 1 \in Retained => /\ w \in Nodes
                                            /\ Fresh(i - 1, w)
                                            /\ EndsAt(i - 1, w) = StartsAt(i, u)
    <3>1. EndsAt(i, v) <= fed /\ StartsAt(i, u) <= EndsAt(i, v)
      BY <1>1, <2>4 DEF RingLinked
    <3>2. EndsAt(i, v) \in Int
      <4>1. Slot(i) \in Slots
        BY SlotInRing DEF Retained
      <4>2. anchor[Slot(i)] \in Int
        BY <1>1, <4>1 DEF TypeOK
      <4>3. v.drift \in Int
        BY NodesFields
      <4> QED
        BY <1>1, <4>2, <4>3 DEF EndsAt
    <3>3. EndsAt(i, v) <= fed'
      BY <1>4, <3>1, <3>2
    <3> QED
      BY <1>1, <2>4, <3>3 DEF RingLinked
  <2>5. ASSUME NEW i \in Retained', NEW v \in Nodes, Fresh(i, v)',
               NEW u \in backpointers'[Slot(i)][v].from
        PROVE  (LET w == Node(u.state, u.drift + shift[Slot(i)])
                IN  /\ 0 <= StartsAt(i, u)
                    /\ StartsAt(i, u) <= EndsAt(i, v)
                    /\ EndsAt(i, v) <= fed
                    /\ i - 1 \in Retained => /\ w \in Nodes
                                             /\ Fresh(i - 1, w)
                                             /\ EndsAt(i - 1, w) = StartsAt(i, u))'
    BY <1>2, <2>1, <2>2, <2>4, <2>5 DEF StartsAt, EndsAt, Fresh
  <2> QED
    BY <2>3, <2>5 DEF RingLinked
<1> QED
  BY <1>5, <1>6, <1>7 DEF PathInv

----------------------------------------------------------------------------
(* One trellis step.  Sigma is its shift, At the stream position of its    *)
(* read base, Moved the re-anchored frontier and Seen its match table.     *)

Sigma == PickShift(best.drift)
At == Cursor + Sigma
Moved == Reanchor(live, Sigma)
Seen == MatchWindow(ShiftBase(buf, Sigma))

StepTaken == IInv /\ HasInput /\ DecodeStep /\ fed' = fed

LEMMA StepNumbers ==
    ASSUME StepTaken
    PROVE  /\ N \in Nat \ {0} /\ MaxDrift \in Nat /\ Depth \in Nat \ {0}
           /\ fed \in Nat /\ steps \in Nat /\ steps' = steps + 1
           /\ Sigma \in Shifts /\ (MaxDrift = 0 => Sigma = 0)
           /\ best.drift - Sigma \in DriftIndexes
           /\ Cursor \in Int /\ Sigma \in Int /\ At \in Int
           /\ best \in Nodes /\ live \subseteq Nodes
<1>1. TypeOK /\ buf \in Buffers
  BY DEF StepTaken, IInv, GoodBuffer
<1>2. best \in Nodes /\ best.drift \in DriftIndexes
  BY <1>1, NodesFields DEF TypeOK
<1>3. Len(buf.received) \in Nat /\ buf.read_base \in Nat
  BY <1>1, BuffersFields
<1>4. Sigma \in Shifts /\ (MaxDrift = 0 => Sigma = 0)
      /\ best.drift - Sigma \in DriftIndexes
  BY <1>2, PickShiftFacts DEF Sigma
<1>5. fed \in Nat /\ steps \in Nat /\ live \subseteq Nodes
  BY <1>1 DEF TypeOK
<1>6. Cursor \in Int
  BY <1>3, <1>5 DEF Cursor, Dropped
<1>7. Sigma \in Int
  BY <1>4 DEF Shifts
<1>8. steps' = steps + 1
  BY DEF StepTaken, DecodeStep
<1> QED
  BY <1>2, <1>4, <1>5, <1>6, <1>7, <1>8, ConstantFacts DEF At

LEMMA StepHasGroup == StepTaken => HasGroup(buf)
<1> SUFFICES ASSUME StepTaken PROVE HasGroup(buf)
  OBVIOUS
<1>1. /\ Len(buf.received) \in Nat /\ buf.read_base \in Nat
      /\ N \in Nat /\ MaxDrift \in Nat
  BY BuffersFields DEF StepTaken, IInv, GoodBuffer
<1>2. HasLookAhead(buf) \/ HasGroup(buf)
  BY DEF StepTaken, HasInput
<1> QED
  BY <1>1, <1>2 DEF HasLookAhead, HasGroup

LEMMA StepAssigns ==
    ASSUME StepTaken
    PROVE  /\ shift' = [shift EXCEPT ![Slot(steps)] = Sigma]
           /\ window' = Seen
           /\ backpointers' =
                 [backpointers EXCEPT ![Slot(steps)] =
                     WriteLayer(backpointers[Slot(steps)], Moved, Seen, steps)]
           /\ live' = Survivors(Moved, Seen)
           /\ best' \in IF live' = {} THEN {Node(0, 0)} ELSE live'
           /\ anchor' = [anchor EXCEPT ![Slot(steps)] = At]
           /\ buf' = AdvanceBase(ShiftBase(buf, Sigma))
<1>0. StepWindow(ShiftBase(buf, Sigma)) = Seen
  <2>1. buf \in Buffers /\ HasGroup(buf)
    BY StepHasGroup DEF StepTaken, IInv, GoodBuffer
  <2> QED
    BY <2>1, StepNumbers, StepWindowAgrees DEF Seen
<1>1. /\ shift' = [shift EXCEPT ![Slot(steps)] = Sigma]
      /\ window' = Seen
      /\ live' = Survivors(Moved, Seen)
      /\ best' \in IF live' = {} THEN {Node(0, 0)} ELSE live'
      /\ buf' = AdvanceBase(ShiftBase(buf, Sigma))
  BY <1>0 DEF StepTaken, DecodeStep, Sigma, Moved
<1>2. backpointers' =
         [backpointers EXCEPT ![Slot(steps)] =
             WriteLayer(backpointers[Slot(steps)], Moved, Seen, steps)]
  BY <1>0 DEF StepTaken, DecodeStep, Sigma, Moved
<1>3. anchor' = [anchor EXCEPT ![Slot(steps)] =
                     Dropped + ShiftBase(buf, Sigma).read_base]
  BY DEF StepTaken, DecodeStep, Sigma
<1>4. ShiftBase(buf, Sigma).read_base = buf.read_base + Sigma
  BY DEF ShiftBase, Buffer
<1>5. Dropped + (buf.read_base + Sigma) = At
  <2>1. Len(buf.received) \in Nat /\ buf.read_base \in Nat
    BY BuffersFields DEF StepTaken, IInv, GoodBuffer
  <2>2. fed \in Int /\ Sigma \in Int
    BY StepNumbers
  <2>3. At = ((fed - Len(buf.received)) + buf.read_base) + Sigma
    BY DEF At, Cursor, Dropped
  <2>4. Dropped = fed - Len(buf.received)
    BY DEF Dropped
  <2> QED
    BY <2>1, <2>2, <2>3, <2>4
<1> QED
  BY <1>1, <1>2, <1>3, <1>4, <1>5

\* The buffer after the step, and where its cursor stands.
LEMMA StepMovesCursor ==
    ASSUME StepTaken
    PROVE  /\ GoodBuffer(buf, fed) /\ HasGroup(buf)
           /\ GoodBuffer(buf', fed')
           /\ Cursor' = At + N
<1>1. GoodBuffer(buf, fed) /\ buf \in Buffers
  BY DEF StepTaken, IInv, GoodBuffer
<1>2. HasGroup(buf)
  BY StepHasGroup
<1>3. /\ GoodBuffer(buf', fed)
      /\ PositionOf(buf', fed) = PositionOf(buf, fed) + Sigma + N
  BY <1>1, <1>2, StepNumbers, StepAssigns, AdvanceKeepsGood
<1>4. fed' = fed
  BY DEF StepTaken
<1>5. Cursor' = PositionOf(buf', fed)
  BY <1>4 DEF Cursor, Dropped, PositionOf
<1> QED
  BY <1>1, <1>2, <1>3, <1>4, <1>5, CursorIsPosition, StepNumbers DEF At

\* A re-anchored node is the translate of a living one, at the same place of
\* the stream.
LEMMA MovedFacts ==
    ASSUME StepTaken, NEW u \in Moved
    PROVE  /\ u \in Nodes
           /\ Node(u.state, u.drift + Sigma) \in live
           /\ At + u.drift - MaxDrift \in 0 .. fed
<1>1. u \in Nodes /\ Node(u.state, u.drift + Sigma) \in live
  BY DEF Moved, Reanchor
<1>2. Node(u.state, u.drift + Sigma).drift = u.drift + Sigma
  BY DEF Node
<1>3. Cursor + (u.drift + Sigma) - MaxDrift \in 0 .. fed
  BY <1>1, <1>2 DEF StepTaken, IInv, PathsInLog
<1>4. u.drift \in Nat
  BY <1>1, NodesFields
<1> QED
  BY <1>1, <1>3, <1>4, StepNumbers DEF At

\* Every branch of the step reads forward and stays inside the stream.
LEMMA StepBranches ==
    ASSUME StepTaken, NEW v \in Nodes, NEW u \in Sources(Moved, Seen, v)
    PROVE  /\ u \in Moved
           /\ 0 <= At + u.drift - MaxDrift
           /\ At + u.drift - MaxDrift <= At + N + v.drift - MaxDrift
           /\ At + N + v.drift - MaxDrift <= fed
<1>1. u \in Moved /\ Branch(Seen, u, v)
  BY DEF Sources
<1>2. u \in Nodes /\ At + u.drift - MaxDrift \in 0 .. fed
  BY <1>1, MovedFacts
<1>3. 0 <= At + u.drift - MaxDrift /\ At + u.drift - MaxDrift <= fed
  BY <1>2
<1>4. At = PositionOf(buf, fed) + Sigma
  BY CursorIsPosition DEF At
<1>5. GoodBuffer(buf, fed)
  BY StepMovesCursor
<1>6. fed \in Nat /\ Sigma \in Shifts /\ (MaxDrift = 0 => Sigma = 0) /\ At \in Int
  BY StepNumbers
<1> QED
  BY <1>1, <1>2, <1>3, <1>4, <1>5, <1>6, BranchStaysInLog DEF Seen

\* A step that has read no erasure of infinite cost follows only such steps:
\* either there are none in the stream, or the cursor never moves back.
LEMMA NotYetDoomed ==
    ASSUME StepTaken, ~Doomed'
    PROVE  ~Doomed /\ \A i \in FatalErasures : i >= At + N
<1>1. /\ N \in Nat /\ Cursor \in Int /\ At \in Int /\ MaxDrift \in Nat
      /\ MaxDrift = 0 => At = Cursor
  BY StepNumbers DEF At
<1>2. Cursor' = At + N
  BY StepMovesCursor
<1>3. \A i \in FatalErasures : i \in Nat /\ ~(i < At + N)
  BY <1>2, ErasureAssumption DEF Doomed
<1>4. CASE MaxDrift > 0
  BY <1>4, ErasureAssumption DEF Doomed
<1>5. CASE MaxDrift = 0
  <2>1. \A i \in FatalErasures : ~(i < Cursor)
    BY <1>1, <1>3, <1>5
  <2> QED
    BY <1>1, <1>3, <2>1 DEF Doomed
<1> QED
  BY <1>1, <1>4, <1>5

\* Some node survives a step that has read no erasure of infinite cost.
LEMMA StepSurvives ==
    ASSUME StepTaken, ~Doomed' PROVE live' # {} /\ best' \in live'
<1> DEFINE d == best.drift - Sigma
           u == Node(best.state, d)
<1>1. /\ best \in Nodes /\ best.state \in States /\ best.drift \in Nat
      /\ Node(best.state, best.drift) = best
      /\ best \in live
  <2>1. best \in live
    BY NotYetDoomed DEF StepTaken, IInv, StaysAlive
  <2> QED
    BY <2>1, StepNumbers, NodesFields
<1>2. d \in DriftIndexes /\ d + Sigma = best.drift
  BY <1>1, StepNumbers
<1>3. u \in Nodes /\ u.state = best.state /\ u.drift = d
  BY <1>1, <1>2, NodeFacts
<1> HIDE DEF d, u
<1>4. Node(u.state, u.drift + Sigma) = best
  BY <1>1, <1>2, <1>3
<1>5. u \in Moved
  BY <1>1, <1>3, <1>4 DEF Moved, Reanchor
<1>6. At + u.drift - MaxDrift \in 0 .. fed
  BY <1>5, MovedFacts
<1>7. At + u.drift - MaxDrift >= 0
  BY <1>6
<1>8. At = PositionOf(buf, fed) + Sigma
  BY CursorIsPosition DEF At
<1>9. GoodBuffer(buf, fed) /\ HasGroup(buf)
  BY StepMovesCursor
<1>10. fed \in Nat /\ Sigma \in Shifts /\ (MaxDrift = 0 => Sigma = 0) /\ At \in Int
  BY StepNumbers
<1>11. \E v \in Nodes : Branch(Seen, u, v)
  BY <1>3, <1>7, <1>8, <1>9, <1>10, NotYetDoomed, BranchExists DEF Seen
<1>12. live' # {}
  BY <1>5, <1>11, StepAssigns DEF Survivors, Sources
<1> QED
  BY <1>12, StepAssigns

\* A step that reads an erasure of infinite cost, or follows one that did,
\* leaves no node of finite cost.
LEMMA StepDies == ASSUME StepTaken, Doomed' PROVE live' = {}
<1>1. /\ N \in Nat \ {0} /\ Cursor \in Int /\ Sigma \in Shifts /\ fed \in Nat
      /\ Cursor' = At + N /\ (MaxDrift = 0 => Sigma = 0)
  BY StepNumbers, StepMovesCursor
<1>2. PICK i \in FatalErasures : i < At + N
  BY <1>1 DEF Doomed
<1>3. MaxDrift = 0 /\ i \in Nat
  BY ConstantFacts, ErasureAssumption
<1>4. At = Cursor
  BY <1>1, <1>3 DEF At
<1>5. SUFFICES ASSUME NEW v \in Nodes, NEW u \in Moved, Branch(Seen, u, v)
               PROVE  FALSE
  BY StepAssigns DEF Survivors, Sources
<1>6. u.drift = 0 /\ v.drift = 0
  BY <1>3, <1>5, MovedFacts, NodesFields
<1>7. CASE i < Cursor
  BY <1>5, <1>7, MovedFacts DEF StepTaken, IInv, StaysAlive, Doomed
<1>8. CASE ~(i < Cursor)
  <2>1. i - At \in 0 .. (N - 1) /\ i - At \in WindowPlaces
    BY <1>1, <1>2, <1>3, <1>4, <1>8 DEF WindowPlaces, WindowWidth
  <2>2. At = PositionOf(buf, fed) + Sigma /\ GoodBuffer(buf, fed) /\ At \in Int
    BY CursorIsPosition, StepMovesCursor, StepNumbers DEF At
  <2>3. Seen[i - At] = IF At - MaxDrift + (i - At) \in 0 .. (fed - 1)
                       THEN At - MaxDrift + (i - At) ELSE NoBit
    BY <1>1, <2>1, <2>2, WindowShowsLog DEF Seen
  <2>4. At - MaxDrift + (i - At) = i
    BY <1>3, <2>2
  <2>5. Seen[i - At] \in {NoBit} \cup FatalErasures
    BY <1>2, <2>3, <2>4
  <2>6. Consumed(u, v) = N /\ u.drift + (i - At) = i - At
    BY <1>1, <1>3, <1>6, <2>2 DEF Consumed
  <2> QED
    BY <1>5, <2>1, <2>5, <2>6 DEF Branch
<1> QED
  BY <1>7, <1>8

\* What the step leaves in the three rings.
LEMMA RingsAfterStep ==
    ASSUME StepTaken
    PROVE  /\ Slot(steps) \in Slots
           /\ shift'[Slot(steps)] = Sigma
           /\ anchor'[Slot(steps)] = At
           /\ \A v \in Nodes :
                 backpointers'[Slot(steps)][v] =
                     IF Sources(Moved, Seen, v) = {}
                     THEN backpointers[Slot(steps)][v]
                     ELSE [step |-> steps, from |-> Sources(Moved, Seen, v)]
           /\ \A slot \in Slots : slot # Slot(steps) =>
                 /\ backpointers'[slot] = backpointers[slot]
                 /\ shift'[slot] = shift[slot]
                 /\ anchor'[slot] = anchor[slot]
<1>1. /\ shift \in [Slots -> Shifts] /\ anchor \in [Slots -> Int]
      /\ backpointers \in [Slots -> [Nodes -> Entries]]
  BY DEF StepTaken, IInv, TypeOK, Rings
<1>2. Slot(steps) \in Slots
  BY StepNumbers, SlotInRing
<1>3. shift'[Slot(steps)] = Sigma /\ anchor'[Slot(steps)] = At
  BY <1>1, <1>2, StepAssigns
<1>4. backpointers'[Slot(steps)] =
         WriteLayer(backpointers[Slot(steps)], Moved, Seen, steps)
  BY <1>1, <1>2, StepAssigns
<1>5. \A v \in Nodes :
         backpointers'[Slot(steps)][v] =
             IF Sources(Moved, Seen, v) = {}
             THEN backpointers[Slot(steps)][v]
             ELSE [step |-> steps, from |-> Sources(Moved, Seen, v)]
  BY <1>4 DEF WriteLayer
<1>6. \A slot \in Slots : slot # Slot(steps) =>
         /\ backpointers'[slot] = backpointers[slot]
         /\ shift'[slot] = shift[slot]
         /\ anchor'[slot] = anchor[slot]
  BY <1>1, StepAssigns
<1> QED
  BY <1>2, <1>3, <1>5, <1>6

\* The layers still retained after the step, but its own, are untouched.
LEMMA OldLayersStay ==
    ASSUME StepTaken, NEW i \in Nat, i < steps, steps - i < Depth
    PROVE  /\ backpointers'[Slot(i)] = backpointers[Slot(i)]
           /\ shift'[Slot(i)] = shift[Slot(i)]
           /\ anchor'[Slot(i)] = anchor[Slot(i)]
<1>1. steps \in Nat
  BY StepNumbers
<1>2. Slot(i) \in Slots /\ Slot(i) # Slot(steps)
  BY <1>1, SlotInRing, SlotsDiffer
<1> QED
  BY <1>2, RingsAfterStep

LEMMA StepKeepsPaths == StepTaken => PathsInLog' /\ AnchorAtCursor' /\ EntriesPast'
<1> SUFFICES ASSUME StepTaken PROVE PathsInLog' /\ AnchorAtCursor' /\ EntriesPast'
  OBVIOUS
<1>1. /\ N \in Nat /\ MaxDrift \in Nat /\ steps \in Nat /\ steps' = steps + 1
      /\ fed \in Nat /\ At \in Int /\ fed' = fed
  BY StepNumbers DEF StepTaken
<1>2. Cursor' = At + N
  BY StepMovesCursor
<1>3. ASSUME NEW v \in live'
      PROVE  Cursor' + v.drift - MaxDrift \in 0 .. fed'
  <2>1. v \in Nodes /\ Sources(Moved, Seen, v) # {}
    BY <1>3, StepAssigns DEF Survivors
  <2>2. PICK u \in Sources(Moved, Seen, v) : TRUE
    BY <2>1
  <2>3. /\ u \in Moved
        /\ 0 <= At + u.drift - MaxDrift
        /\ At + u.drift - MaxDrift <= At + N + v.drift - MaxDrift
        /\ At + N + v.drift - MaxDrift <= fed
    BY <2>1, <2>2, StepBranches
  <2>4. v.drift \in Nat /\ u.drift \in Nat
    BY <2>1, <2>3, NodesFields, MovedFacts
  <2> QED
    BY <1>1, <1>2, <2>3, <2>4
<1>4. PathsInLog'
  BY <1>3 DEF PathsInLog
<1>5. AnchorAtCursor'
  <2>1. steps' - 1 = steps
    BY <1>1
  <2>2. anchor'[Slot(steps' - 1)] = At
    BY <2>1, RingsAfterStep
  <2> QED
    BY <1>2, <2>2 DEF AnchorAtCursor
<1>6. ASSUME NEW slot \in Slots, NEW v \in Nodes
      PROVE  backpointers'[slot][v].step < steps'
  <2>1. backpointers[slot][v].step < steps /\ backpointers[slot][v].step \in Int
    <3>1. backpointers \in [Slots -> [Nodes -> Entries]] /\ EntriesPast
      BY DEF StepTaken, IInv, TypeOK, Rings
    <3>2. backpointers[slot][v] \in Entries
      BY <3>1
    <3>3. backpointers[slot][v].step \in Nat \cup {-1}
      BY <3>2 DEF Entries, NeverWritten
    <3> QED
      BY <3>1, <3>3 DEF EntriesPast
  <2>2. CASE slot # Slot(steps)
    <3>1. backpointers'[slot] = backpointers[slot]
      BY <2>2, RingsAfterStep
    <3> QED
      BY <1>1, <2>1, <3>1
  <2>3. CASE slot = Slot(steps) /\ Sources(Moved, Seen, v) = {}
    <3>1. backpointers'[slot][v] = backpointers[slot][v]
      BY <2>3, RingsAfterStep
    <3> QED
      BY <1>1, <2>1, <3>1
  <2>4. CASE slot = Slot(steps) /\ Sources(Moved, Seen, v) # {}
    <3>1. backpointers'[slot][v] =
             [step |-> steps, from |-> Sources(Moved, Seen, v)]
      BY <2>4, RingsAfterStep
    <3>2. backpointers'[slot][v].step = steps
      BY <3>1
    <3> QED
      BY <1>1, <3>2
  <2> QED
    BY <2>2, <2>3, <2>4
<1>7. EntriesPast'
  BY <1>6 DEF EntriesPast
<1> QED
  BY <1>4, <1>5, <1>7

\* The entry a step writes is fresh and is written for a node it reaches.
LEMMA NewEntries ==
    ASSUME StepTaken, NEW v \in Nodes
    PROVE  /\ Sources(Moved, Seen, v) # {} =>
                 backpointers'[Slot(steps)][v].step = steps
           /\ backpointers'[Slot(steps)][v].step = steps =>
                 backpointers'[Slot(steps)][v].from = Sources(Moved, Seen, v)
<1> DEFINE written == [step |-> steps, from |-> Sources(Moved, Seen, v)]
           e == backpointers'[Slot(steps)][v]
<1>1. Sources(Moved, Seen, v) # {} => e = written
  BY RingsAfterStep
<1>2. Sources(Moved, Seen, v) = {} => e = backpointers[Slot(steps)][v]
  BY RingsAfterStep
<1>3. written.step = steps /\ written.from = Sources(Moved, Seen, v)
  OBVIOUS
<1>4. backpointers[Slot(steps)][v].step < steps
  BY RingsAfterStep DEF StepTaken, IInv, EntriesPast
<1>5. steps \in Nat
  BY StepNumbers
<1> HIDE DEF written, e
<1>6. Sources(Moved, Seen, v) = {} => e.step # steps
  <2>1. ASSUME backpointers[Slot(steps)][v].step = steps PROVE FALSE
    BY <1>4, <1>5, <2>1
  <2> QED
    BY <1>2, <2>1
<1>7. Sources(Moved, Seen, v) # {} => e.step = steps
  BY <1>1, <1>3
<1>8. e.step = steps => e.from = Sources(Moved, Seen, v)
  BY <1>1, <1>3, <1>6
<1> QED
  BY <1>7, <1>8 DEF e

\* The last layer before the step, read through the step's own shift.
LEMMA LayerBefore ==
    ASSUME StepTaken, NEW u \in Moved, steps > 0, Depth > 1
    PROVE  LET w == Node(u.state, u.drift + Sigma)
           IN  /\ w \in Nodes
               /\ backpointers'[Slot(steps - 1)][w].step = steps - 1
               /\ anchor'[Slot(steps - 1)] + N + w.drift - MaxDrift =
                      At + u.drift - MaxDrift
<1> DEFINE w == Node(u.state, u.drift + Sigma)
<1>1. w \in live /\ w.drift = u.drift + Sigma
  BY MovedFacts DEF Node
<1>2. w \in Nodes
  BY <1>1, StepNumbers
<1>3. steps \in Nat /\ steps - 1 \in Nat /\ steps - 1 < steps /\ steps - (steps - 1) < Depth
  BY StepNumbers
<1>4. /\ backpointers'[Slot(steps - 1)] = backpointers[Slot(steps - 1)]
      /\ anchor'[Slot(steps - 1)] = anchor[Slot(steps - 1)]
  BY <1>3, OldLayersStay
<1>5. Fresh(steps - 1, w)
  BY <1>1 DEF StepTaken, IInv, RingLinked
<1>6. anchor[Slot(steps - 1)] + N = Cursor
  BY DEF StepTaken, IInv, AnchorAtCursor
<1>7. /\ Cursor \in Int /\ Sigma \in Int /\ MaxDrift \in Int /\ u.drift \in Int
      /\ At = Cursor + Sigma
  BY StepNumbers, MovedFacts, NodesFields DEF At
<1>8. anchor'[Slot(steps - 1)] + N + w.drift - MaxDrift = At + u.drift - MaxDrift
  <2>1. anchor'[Slot(steps - 1)] + N = Cursor
    BY <1>4, <1>6
  <2> HIDE DEF w
  <2> QED
    BY <1>1, <1>7, <2>1
<1>9. backpointers'[Slot(steps - 1)][w].step = steps - 1
  BY <1>4, <1>5 DEF Fresh
<1> QED
  BY <1>2, <1>8, <1>9

\* An entry of the step's own layer is linked to the layer before it.
LEMMA NewLayerLinked ==
    ASSUME StepTaken, NEW v \in Nodes,
           backpointers'[Slot(steps)][v].step = steps,
           NEW u \in backpointers'[Slot(steps)][v].from
    PROVE  (LET w == Node(u.state, u.drift + shift[Slot(steps - 1)])
            IN  /\ 0 <= StartsAt(steps - 1, u)
                /\ StartsAt(steps - 1, u) <= EndsAt(steps - 1, v)
                /\ EndsAt(steps - 1, v) <= fed
                /\ (steps - 1) - 1 \in Retained =>
                       /\ w \in Nodes
                       /\ Fresh((steps - 1) - 1, w)
                       /\ EndsAt((steps - 1) - 1, w) = StartsAt(steps - 1, u))'
<1>1. /\ steps \in Nat /\ steps' = steps + 1 /\ steps' - 1 = steps
      /\ (steps' - 1) - 1 = steps - 1
      /\ fed' = fed /\ Depth \in Nat
  BY StepNumbers DEF StepTaken
<1>2. u \in Sources(Moved, Seen, v)
  BY NewEntries
<1>3. /\ u \in Moved
      /\ 0 <= At + u.drift - MaxDrift
      /\ At + u.drift - MaxDrift <= At + N + v.drift - MaxDrift
      /\ At + N + v.drift - MaxDrift <= fed
  BY <1>2, StepBranches
<1>4. anchor'[Slot(steps)] = At /\ shift'[Slot(steps)] = Sigma
  BY RingsAfterStep
<1>5. /\ 0 <= StartsAt(steps - 1, u)'
      /\ StartsAt(steps - 1, u)' <= EndsAt(steps - 1, v)'
      /\ EndsAt(steps - 1, v)' <= fed'
  BY <1>1, <1>3, <1>4 DEF StartsAt, EndsAt
<1>6. ASSUME ((steps - 1) - 1 \in Retained)'
      PROVE  (LET w == Node(u.state, u.drift + shift[Slot(steps - 1)])
              IN  /\ w \in Nodes
                  /\ Fresh((steps - 1) - 1, w)
                  /\ EndsAt((steps - 1) - 1, w) = StartsAt(steps - 1, u))'
  <2>1. steps - 1 \in 0 .. (steps' - 1) /\ steps' - (steps - 1) <= Depth
    BY <1>1, <1>6 DEF Retained
  <2>2. steps > 0 /\ Depth > 1
    BY <1>1, <2>1
  <2>3. LET w == Node(u.state, u.drift + Sigma)
        IN  /\ w \in Nodes
            /\ backpointers'[Slot(steps - 1)][w].step = steps - 1
            /\ anchor'[Slot(steps - 1)] + N + w.drift - MaxDrift =
                   At + u.drift - MaxDrift
    BY <1>3, <2>2, LayerBefore
  <2> QED
    BY <1>1, <1>4, <2>3 DEF StartsAt, EndsAt, Fresh
<1> QED
  BY <1>5, <1>6

\* An entry of an older layer keeps its link.
LEMMA OldLayersLinked ==
    ASSUME StepTaken, NEW i \in Nat, i < steps, steps - i < Depth,
           NEW v \in Nodes, backpointers'[Slot(i)][v].step = i,
           NEW u \in backpointers'[Slot(i)][v].from
    PROVE  (LET w == Node(u.state, u.drift + shift[Slot(i)])
            IN  /\ 0 <= StartsAt(i, u)
                /\ StartsAt(i, u) <= EndsAt(i, v)
                /\ EndsAt(i, v) <= fed
                /\ i - 1 \in Retained =>
                       /\ w \in Nodes
                       /\ Fresh(i - 1, w)
                       /\ EndsAt(i - 1, w) = StartsAt(i, u))'
<1>1. /\ steps \in Nat /\ steps' = steps + 1 /\ fed' = fed /\ Depth \in Nat
  BY StepNumbers DEF StepTaken
<1>2. /\ backpointers'[Slot(i)] = backpointers[Slot(i)]
      /\ shift'[Slot(i)] = shift[Slot(i)]
      /\ anchor'[Slot(i)] = anchor[Slot(i)]
  BY OldLayersStay
<1>3. i \in Retained
  BY <1>1 DEF Retained
<1>4. LET w == Node(u.state, u.drift + shift[Slot(i)])
      IN  /\ 0 <= StartsAt(i, u)
          /\ StartsAt(i, u) <= EndsAt(i, v)
          /\ EndsAt(i, v) <= fed
          /\ i - 1 \in Retained => /\ w \in Nodes
                                   /\ Fresh(i - 1, w)
                                   /\ EndsAt(i - 1, w) = StartsAt(i, u)
  BY <1>2, <1>3 DEF StepTaken, IInv, RingLinked, Fresh
<1>5. (/\ 0 <= StartsAt(i, u)
       /\ StartsAt(i, u) <= EndsAt(i, v)
       /\ EndsAt(i, v) <= fed)'
  BY <1>1, <1>2, <1>4 DEF StartsAt, EndsAt
<1>6. ASSUME (i - 1 \in Retained)'
      PROVE  (LET w == Node(u.state, u.drift + shift[Slot(i)])
              IN  /\ w \in Nodes
                  /\ Fresh(i - 1, w)
                  /\ EndsAt(i - 1, w) = StartsAt(i, u))'
  <2>1. i - 1 \in 0 .. (steps' - 1) /\ steps' - (i - 1) <= Depth
    BY <1>6 DEF Retained
  <2>2. i - 1 \in Nat /\ i - 1 < steps /\ steps - (i - 1) < Depth
    BY <1>1, <2>1
  <2>3. i - 1 \in Retained
    BY <1>1, <2>2 DEF Retained
  <2>4. /\ backpointers'[Slot(i - 1)] = backpointers[Slot(i - 1)]
        /\ anchor'[Slot(i - 1)] = anchor[Slot(i - 1)]
    BY <2>2, OldLayersStay
  <2> QED
    BY <1>2, <1>4, <2>3, <2>4 DEF StartsAt, EndsAt, Fresh
<1> QED
  BY <1>5, <1>6

LEMMA StepKeepsRing == StepTaken => RingLinked'
<1> SUFFICES ASSUME StepTaken PROVE RingLinked'
  OBVIOUS
<1>1. /\ steps \in Nat /\ steps' = steps + 1 /\ steps' - 1 = steps
      /\ Depth \in Nat
  BY StepNumbers
<1>2. ASSUME NEW v \in live' PROVE Fresh(steps - 1, v)'
  <2>1. v \in Nodes /\ Sources(Moved, Seen, v) # {}
    BY <1>2, StepAssigns DEF Survivors
  <2>2. backpointers'[Slot(steps)][v].step = steps
    BY <2>1, NewEntries
  <2> QED
    BY <1>1, <2>2 DEF Fresh
<1>3. ASSUME NEW i \in Retained', NEW v \in Nodes, Fresh(i, v)',
             NEW u \in backpointers'[Slot(i)][v].from
      PROVE  (LET w == Node(u.state, u.drift + shift[Slot(i)])
              IN  /\ 0 <= StartsAt(i, u)
                  /\ StartsAt(i, u) <= EndsAt(i, v)
                  /\ EndsAt(i, v) <= fed
                  /\ i - 1 \in Retained => /\ w \in Nodes
                                           /\ Fresh(i - 1, w)
                                           /\ EndsAt(i - 1, w) = StartsAt(i, u))'
  <2>1. i \in 0 .. (steps' - 1) /\ steps' - i <= Depth
    BY DEF Retained
  <2>2. backpointers'[Slot(i)][v].step = i
    BY <1>3 DEF Fresh
  <2>3. CASE i = steps' - 1
    <3>1. i = steps
      BY <1>1, <2>3
    <3>2. /\ backpointers'[Slot(steps)][v].step = steps
          /\ u \in backpointers'[Slot(steps)][v].from
      BY <1>3, <2>2, <3>1
    <3>3. (LET w == Node(u.state, u.drift + shift[Slot(steps - 1)])
           IN  /\ 0 <= StartsAt(steps - 1, u)
               /\ StartsAt(steps - 1, u) <= EndsAt(steps - 1, v)
               /\ EndsAt(steps - 1, v) <= fed
               /\ (steps - 1) - 1 \in Retained =>
                      /\ w \in Nodes
                      /\ Fresh((steps - 1) - 1, w)
                      /\ EndsAt((steps - 1) - 1, w) = StartsAt(steps - 1, u))'
      BY <3>2, NewLayerLinked
    <3> QED
      BY <2>3, <3>3 DEF StartsAt, EndsAt, Fresh
  <2>4. CASE i < steps' - 1
    <3>1. i \in Nat /\ i < steps /\ steps - i < Depth
      BY <1>1, <2>1, <2>4
    <3> QED
      BY <2>2, <3>1, OldLayersLinked
  <2> QED
    BY <1>1, <2>1, <2>3, <2>4
<1>4. (steps > 0 => \A v \in live : Fresh(steps - 1, v))'
  BY <1>2
<1> QED
  BY <1>3, <1>4 DEF RingLinked

LEMMA StepKeepsPathInv == StepTaken => PathInv'
<1> SUFFICES ASSUME StepTaken PROVE PathInv'
  OBVIOUS
<1>1. GoodBuffer(buf', fed')
  BY StepMovesCursor
<1>2. StaysAlive'
  BY StepSurvives, StepDies DEF StaysAlive
<1> QED
  BY <1>1, <1>2, StepKeepsPaths, StepKeepsRing DEF PathInv

LEMMA WindowType ==
    ASSUME NEW b \in Buffers, NEW sigma \in Int
    PROVE  MatchWindow(ShiftBase(b, sigma)) \in Windows
<1> DEFINE c == ShiftBase(b, sigma)
           absolute(p) == c.read_base - MaxDrift + p
<1>1. c.received = b.received /\ b.received \in Seq(Nat)
  BY BuffersFields DEF ShiftBase, Buffer
<1>2. \A p \in WindowPlaces :
         absolute(p) \in 0 .. (Len(c.received) - 1) =>
             absolute(p) + 1 \in 1 .. Len(b.received)
  BY <1>1
<1> HIDE DEF c, absolute
<1>3. \A p \in WindowPlaces :
         absolute(p) \in 0 .. (Len(c.received) - 1) =>
             c.received[absolute(p) + 1] \in Nat
  BY <1>1, <1>2
<1>4. MatchWindow(c) \in Windows
  BY <1>3 DEF MatchWindow, Windows, absolute
<1> QED
  BY <1>4 DEF c

LEMMA StepKeepsTypes ==
    StepTaken =>
        /\ buf' \in Buffers
        /\ steps' \in Nat
        /\ shift' \in [Slots -> Shifts]
        /\ window' \in Windows
        /\ live' \in SUBSET Nodes
        /\ best' \in Nodes
        /\ backpointers' \in Rings
        /\ anchor' \in [Slots -> Int]
<1> SUFFICES ASSUME StepTaken
             PROVE  /\ buf' \in Buffers
                    /\ steps' \in Nat
                    /\ shift' \in [Slots -> Shifts]
                    /\ window' \in Windows
                    /\ live' \in SUBSET Nodes
                    /\ best' \in Nodes
                    /\ backpointers' \in Rings
                    /\ anchor' \in [Slots -> Int]
  OBVIOUS
<1>1. /\ shift \in [Slots -> Shifts] /\ anchor \in [Slots -> Int]
      /\ backpointers \in [Slots -> [Nodes -> Entries]]
  BY DEF StepTaken, IInv, TypeOK, Rings
<1>2. /\ steps \in Nat /\ steps' = steps + 1 /\ Sigma \in Shifts
      /\ At \in Int /\ Sigma \in Int
  BY StepNumbers
<1>3. buf' \in Buffers /\ buf \in Buffers
  BY StepMovesCursor DEF GoodBuffer
<1>4. shift' \in [Slots -> Shifts] /\ anchor' \in [Slots -> Int]
  BY <1>1, <1>2, StepAssigns
<1>5. window' \in Windows
  BY <1>2, <1>3, StepAssigns, WindowType DEF Seen
<1>6. live' \in SUBSET Nodes
  BY StepAssigns DEF Survivors
<1>7. best' \in Nodes
  <2>1. 0 \in States /\ 0 \in DriftIndexes
    BY ConstantFacts, CodeAssumption DEF States, DriftIndexes, DriftWidth
  <2>2. Node(0, 0) \in Nodes
    BY <2>1, NodeFacts
  <2> QED
    BY <1>6, <2>2, StepAssigns
<1>8. ASSUME NEW v \in Nodes
      PROVE  [step |-> steps, from |-> Sources(Moved, Seen, v)] \in Entries
  BY <1>2, MovedFacts DEF Entries, Sources
<1>9. Slot(steps) \in Slots
  BY <1>2, SlotInRing
<1>10. WriteLayer(backpointers[Slot(steps)], Moved, Seen, steps)
          \in [Nodes -> Entries]
  BY <1>1, <1>8, <1>9 DEF WriteLayer
<1>11. backpointers' \in Rings
  BY <1>1, <1>10, StepAssigns DEF Rings
<1> QED
  BY <1>2, <1>3, <1>4, <1>5, <1>6, <1>7, <1>11

----------------------------------------------------------------------------
(* One lemma per action of Next.                                           *)

\* The parts of IInv that PathInv leaves out.
CallInv ==
    /\ TypeOK
    /\ PipelineFits
    /\ FixedDelay
    /\ FlushPhases
    /\ FlushComplete

LEMMA InvSplit == IInv <=> PathInv /\ CallInv
  BY DEF IInv, PathInv, CallInv

\* What IInv says of the types of the numbers.
LEMMA InvNumbers ==
    ASSUME IInv
    PROVE  /\ Depth \in Nat \ {0} /\ N \in Nat \ {0}
           /\ steps \in Nat /\ decided \in Nat /\ fed \in Nat
           /\ output_count \in Nat
           /\ decided <= steps /\ steps - decided <= Depth
           /\ buf \in Buffers /\ GoodBuffer(buf, fed)
           /\ TypeOK
  BY ConstantFacts DEF IInv, TypeOK, PipelineFits

LEMMA DecodeCallKeeps ==
    ASSUME IInv, NEW n_in \in ChunkSizes, NEW limit \in OutSizes,
           DecodeCall(n_in, limit)
    PROVE  IInv'
<1>1. /\ buf' = FeedReceived(buf, fed, n_in) /\ fed' = fed + n_in
      /\ pc' = "decode" /\ max_out' = limit /\ output_count' = 0
      /\ UNCHANGED <<result, steps, decided, shift, window, flushed, anchor>>
      /\ UNCHANGED trellisVars
      /\ pc = "idle"
  BY DEF DecodeCall, Enter
<1>2. n_in \in Nat /\ fed \in Nat
  BY CallerAssumption, InvNumbers
<1>3. GoodBuffer(buf', fed') /\ PositionOf(buf', fed') = PositionOf(buf, fed)
  BY <1>1, <1>2, InvNumbers, FeedKeepsGood
<1>4. fed' \in Nat /\ fed <= fed'
  BY <1>1, <1>2
<1>5. PathInv'
  BY <1>1, <1>3, <1>4, BufferMoves
<1>6. buf' \in Buffers
  BY <1>3 DEF GoodBuffer
<1>7. flushed' \in BOOLEAN
  BY <1>1, InvNumbers, Zenon DEF TypeOK
<1>8. TypeOK'
  BY <1>1, <1>4, <1>6, <1>7, InvNumbers DEF TypeOK, trellisVars
<1>9. PipelineFits' /\ FixedDelay'
  BY <1>1 DEF IInv, PipelineFits, FixedDelay
<1>10. FlushPhases' /\ FlushComplete'
  BY <1>1 DEF FlushPhases, FlushComplete
<1> QED
  BY <1>5, <1>8, <1>9, <1>10, InvSplit DEF PathInv, CallInv, IInv

LEMMA DecodeCallRefusedKeeps ==
    ASSUME IInv, NEW n_in \in ChunkSizes, DecodeCallRefused(n_in)
    PROVE  IInv'
<1>1. /\ buf' = CompactReceived(buf)
      /\ result' = [call |-> "refused", max_out |-> 0, count |-> 0]
      /\ UNCHANGED <<steps, decided, shift, window, pc, max_out, output_count,
                     fed, flushed, anchor>>
      /\ UNCHANGED trellisVars
      /\ pc = "idle"
  BY DEF DecodeCallRefused, historyVars
<1>2. fed \in Nat
  BY InvNumbers
<1>3. GoodBuffer(buf', fed') /\ PositionOf(buf', fed') = PositionOf(buf, fed)
  BY <1>1, <1>2, InvNumbers, CompactKeepsGood
<1>4. fed' \in Nat /\ fed <= fed'
  BY <1>1, <1>2
<1>5. PathInv'
  BY <1>1, <1>3, <1>4, BufferMoves
<1>6. buf' \in Buffers
  BY <1>3 DEF GoodBuffer
<1>7. flushed' \in BOOLEAN
  BY <1>1, InvNumbers, Zenon DEF TypeOK
<1>8. result' \in Results
  BY <1>1 DEF Results
<1>9. TypeOK'
  BY <1>1, <1>4, <1>6, <1>7, <1>8, InvNumbers DEF TypeOK, trellisVars
<1>10. PipelineFits' /\ FixedDelay'
  BY <1>1 DEF IInv, PipelineFits, FixedDelay
<1>11. FlushPhases' /\ FlushComplete'
  BY <1>1 DEF FlushPhases, FlushComplete
<1> QED
  BY <1>5, <1>9, <1>10, <1>11 DEF PathInv, IInv

\* Actions that move neither the buffer nor the trellis.
LEMMA PathInvStutters ==
    ASSUME IInv, UNCHANGED <<buf, fed, steps, shift, trellisVars, anchor>>
    PROVE  PathInv'
<1>1. buf' = buf /\ fed' = fed /\ fed \in Nat /\ GoodBuffer(buf, fed)
  BY InvNumbers
<1>2. fed' \in Nat /\ fed <= fed'
  BY <1>1
<1>3. GoodBuffer(buf', fed') /\ PositionOf(buf', fed') = PositionOf(buf, fed)
  BY <1>1
<1> QED
  BY <1>2, <1>3, BufferMoves

LEMMA FlushCallKeeps ==
    ASSUME IInv, NEW limit \in OutSizes, FlushCall(limit)
    PROVE  IInv'
<1>1. /\ pc' = "flush" /\ max_out' = limit /\ output_count' = 0
      /\ flushed' = TRUE
      /\ UNCHANGED <<result, fed, anchor, buf, steps, decided, shift, window>>
      /\ UNCHANGED trellisVars
  BY DEF FlushCall, Enter, ctxVars
<1>2. PathInv'
  BY <1>1, PathInvStutters
<1>3. TypeOK'
  BY <1>1, InvNumbers DEF TypeOK, trellisVars
<1>4. PipelineFits' /\ FixedDelay' /\ FlushPhases' /\ FlushComplete'
  BY <1>1 DEF IInv, PipelineFits, FixedDelay, FlushPhases, FlushComplete
<1> QED
  BY <1>2, <1>3, <1>4, InvSplit DEF PathInv, IInv

LEMMA RunIterationKeeps == ASSUME IInv, RunIteration PROVE IInv'
<1>1. StepTaken
  BY DEF RunIteration, StepTaken
<1>2. PathInv'
  BY <1>1, StepKeepsPathInv
<1>3. /\ UNCHANGED <<pc, max_out, result, fed, flushed>>
      /\ steps' = steps + 1
      /\ IF steps >= Depth
         THEN decided' = decided + 1 /\ output_count' = output_count + 1
         ELSE decided' = decided /\ output_count' = output_count
  BY <1>1, StepNumbers DEF RunIteration, MustEmit, EmitDecision
<1>4. decided' \in Nat /\ output_count' \in Nat
  BY <1>3, InvNumbers
<1>5. flushed' \in BOOLEAN
  BY <1>3, InvNumbers, Zenon DEF TypeOK
<1>6. TypeOK'
  BY <1>1, <1>3, <1>4, <1>5, InvNumbers, StepKeepsTypes DEF TypeOK
<1>7. PipelineFits'
  <2>1. CASE steps >= Depth
    BY <1>3, <2>1, InvNumbers DEF PipelineFits
  <2>2. CASE steps < Depth
    BY <1>3, <2>2, InvNumbers DEF PipelineFits
  <2> QED
    BY <2>1, <2>2, InvNumbers
<1>8. FixedDelay'
  <2>1. SUFFICES ASSUME ~flushed'
                 PROVE  decided' = IF steps' > Depth THEN steps' - Depth ELSE 0
    BY DEF FixedDelay
  <2>2. decided = IF steps > Depth THEN steps - Depth ELSE 0
    BY <1>3, <2>1 DEF IInv, FixedDelay
  <2>3. CASE steps >= Depth
    <3>1. decided = steps - Depth /\ decided' = decided + 1
      BY <1>3, <2>2, <2>3, InvNumbers
    <3> QED
      BY <1>3, <2>3, <3>1, InvNumbers
  <2>4. CASE steps < Depth
    <3>1. decided = 0 /\ decided' = decided
      BY <1>3, <2>2, <2>4, InvNumbers
    <3> QED
      BY <1>3, <2>4, <3>1, InvNumbers
  <2> QED
    BY <2>3, <2>4, InvNumbers
<1>9. pc \in {"decode", "flush"}
  BY DEF RunIteration, HasInput
<1>10. FlushPhases' /\ FlushComplete'
  BY <1>3, <1>9 DEF IInv, FlushPhases, FlushComplete
<1> QED
  BY <1>2, <1>6, <1>7, <1>8, <1>10 DEF PathInv, IInv

LEMMA DecodeReturnKeeps == ASSUME IInv, DecodeReturn PROVE IInv'
<1>1. /\ pc = "decode" /\ pc' = "idle" /\ max_out' = 0 /\ output_count' = 0
      /\ result' = [call |-> "decode", max_out |-> max_out,
                    count |-> output_count]
      /\ UNCHANGED <<buf, steps, decided, shift, window, fed, flushed, anchor>>
      /\ UNCHANGED trellisVars
  BY DEF DecodeReturn, Return, ctxVars, historyVars
<1>2. PathInv'
  BY <1>1, PathInvStutters
<1>3. max_out \in OutSizes \cup {0} /\ output_count \in Nat
  BY InvNumbers DEF TypeOK
<1>4. result' \in Results
  BY <1>1, <1>3 DEF Results, Calls
<1>5. flushed' \in BOOLEAN
  BY <1>1, InvNumbers, Zenon DEF TypeOK
<1>6. TypeOK'
  BY <1>1, <1>4, <1>5, InvNumbers DEF TypeOK, trellisVars
<1>7. PipelineFits' /\ FixedDelay' /\ FlushPhases' /\ FlushComplete'
  BY <1>1 DEF IInv, PipelineFits, FixedDelay, FlushPhases, FlushComplete
<1> QED
  BY <1>2, <1>6, <1>7 DEF PathInv, IInv

LEMMA FlushRunEndsKeeps == ASSUME IInv, FlushRunEnds PROVE IInv'
<1>1. /\ pc = "flush" /\ pc' = "drain" /\ RunEnds
      /\ UNCHANGED <<max_out, output_count, result, buf, steps, decided, shift,
                     window, fed, flushed, anchor>>
      /\ UNCHANGED trellisVars
  BY DEF FlushRunEnds, ctxVars, historyVars
<1>2. PathInv'
  BY <1>1, PathInvStutters
<1>3. flushed' \in BOOLEAN
  BY <1>1, InvNumbers, Zenon DEF TypeOK
<1>4. TypeOK'
  BY <1>1, <1>3, InvNumbers DEF TypeOK, trellisVars
<1>5. flushed
  BY <1>1 DEF IInv, FlushPhases
<1>6. ~OutputFull => ~HasGroup(buf)
  BY <1>1 DEF RunEnds, HasInput
<1>7. ~OutputFull' => ~HasGroup(buf)'
  BY <1>1, <1>6 DEF OutputFull, HasGroup
<1>8. FlushPhases' /\ FlushComplete'
  BY <1>1, <1>5, <1>7 DEF FlushPhases, FlushComplete
<1>9. PipelineFits' /\ FixedDelay'
  BY <1>1 DEF IInv, PipelineFits, FixedDelay
<1> QED
  BY <1>2, <1>4, <1>8, <1>9 DEF PathInv, IInv

LEMMA DrainDecisionKeeps == ASSUME IInv, DrainDecision PROVE IInv'
<1>1. /\ pc = "drain" /\ decided < steps /\ ~OutputFull
      /\ output_count' = output_count + 1 /\ decided' = decided + 1
      /\ UNCHANGED <<pc, max_out, result, buf, steps, shift, window, fed,
                     flushed, anchor>>
      /\ UNCHANGED trellisVars
  BY DEF DrainDecision, EmitDecision, historyVars
<1>2. PathInv'
  BY <1>1, PathInvStutters
<1>3. flushed' \in BOOLEAN
  BY <1>1, InvNumbers, Zenon DEF TypeOK
<1>4. output_count' \in Nat /\ decided' \in Nat
  BY <1>1, InvNumbers
<1>5. TypeOK'
  BY <1>1, <1>3, <1>4, InvNumbers DEF TypeOK, trellisVars
<1>6. flushed /\ ~HasGroup(buf)
  BY <1>1 DEF IInv, FlushPhases
<1>7. FlushPhases' /\ FlushComplete' /\ FixedDelay'
  BY <1>1, <1>6 DEF FlushPhases, FlushComplete, FixedDelay, HasGroup
<1>8. PipelineFits'
  BY <1>1, InvNumbers DEF PipelineFits
<1> QED
  BY <1>2, <1>5, <1>7, <1>8 DEF PathInv, IInv

LEMMA FlushReturnKeeps == ASSUME IInv, FlushReturn PROVE IInv'
<1>1. /\ pc = "drain" /\ pc' = "idle" /\ max_out' = 0 /\ output_count' = 0
      /\ decided >= steps \/ OutputFull
      /\ result' = [call |-> "flush", max_out |-> max_out,
                    count |-> output_count]
      /\ UNCHANGED <<buf, steps, decided, shift, window, fed, flushed, anchor>>
      /\ UNCHANGED trellisVars
  BY DEF FlushReturn, Return, ctxVars, historyVars
<1>2. PathInv'
  BY <1>1, PathInvStutters
<1>3. max_out \in OutSizes \cup {0} /\ output_count \in Nat
  BY InvNumbers DEF TypeOK
<1>4. result' \in Results
  BY <1>1, <1>3 DEF Results, Calls
<1>5. flushed' \in BOOLEAN
  BY <1>1, InvNumbers, Zenon DEF TypeOK
<1>6. TypeOK'
  BY <1>1, <1>4, <1>5, InvNumbers DEF TypeOK, trellisVars
<1>7. PipelineFits' /\ FixedDelay' /\ FlushPhases'
  BY <1>1 DEF IInv, PipelineFits, FixedDelay, FlushPhases
<1>8. ASSUME output_count < max_out
      PROVE  decided = steps /\ Len(buf.received) - buf.read_base < N
  <2>1. max_out \in Nat
    BY <1>3, CallerAssumption
  <2>2. ~OutputFull
    BY <1>3, <1>8, <2>1 DEF OutputFull
  <2>3. decided = steps
    BY <1>1, <2>2, InvNumbers
  <2>4. ~HasGroup(buf)
    BY <1>1, <2>2 DEF IInv, FlushPhases
  <2>5. Len(buf.received) \in Nat /\ buf.read_base \in Nat /\ N \in Nat
    BY InvNumbers, BuffersFields
  <2> QED
    BY <2>3, <2>4, <2>5 DEF HasGroup
<1>9. FlushComplete'
  BY <1>1, <1>8 DEF FlushComplete
<1> QED
  BY <1>2, <1>6, <1>7, <1>9 DEF PathInv, IInv

LEMMA NextInv == IInv /\ [Next]_vars => IInv'
<1> SUFFICES ASSUME IInv, [Next]_vars PROVE IInv'
  OBVIOUS
<1>1. ASSUME NEW n_in \in ChunkSizes, NEW limit \in OutSizes,
             DecodeCall(n_in, limit)
      PROVE  IInv'
  BY <1>1, DecodeCallKeeps
<1>2. ASSUME NEW n_in \in ChunkSizes, DecodeCallRefused(n_in)
      PROVE  IInv'
  BY <1>2, DecodeCallRefusedKeeps
<1>3. ASSUME NEW limit \in OutSizes, FlushCall(limit)
      PROVE  IInv'
  BY <1>3, FlushCallKeeps
<1>4. CASE RunIteration
  BY <1>4, RunIterationKeeps
<1>5. CASE DecodeReturn
  BY <1>5, DecodeReturnKeeps
<1>6. CASE FlushRunEnds
  BY <1>6, FlushRunEndsKeeps
<1>7. CASE DrainDecision
  BY <1>7, DrainDecisionKeeps
<1>8. CASE FlushReturn
  BY <1>8, FlushReturnKeeps
<1>9. CASE UNCHANGED vars
  <2>1. /\ UNCHANGED <<buf, fed, steps, shift, trellisVars, anchor>>
        /\ UNCHANGED <<decided, window, pc, max_out, output_count, result,
                       flushed, live, best, backpointers>>
    BY <1>9 DEF vars, ctxVars, callVars, historyVars, trellisVars
  <2>2. PathInv'
    BY <2>1, PathInvStutters
  <2>3. flushed' \in BOOLEAN
    BY <2>1, InvNumbers, Zenon DEF TypeOK
  <2>4. TypeOK'
    BY <2>1, <2>3, InvNumbers DEF TypeOK
  <2>5. PipelineFits' /\ FixedDelay' /\ FlushPhases' /\ FlushComplete'
    BY <2>1 DEF IInv, PipelineFits, FixedDelay, FlushPhases, FlushComplete,
                OutputFull, HasGroup
  <2> QED
    BY <2>2, <2>4, <2>5 DEF PathInv, IInv
<1> QED
  BY <1>1, <1>2, <1>3, <1>4, <1>5, <1>6, <1>7, <1>8, <1>9 DEF Next

----------------------------------------------------------------------------
(* The theorems                                                            *)

\* Whatever the caller does with decode and flush, the decoder's state stays
\* within its invariant: buffer, ring, frontier and cadence fit together.
THEOREM Invariance == Spec => []IInv
<1> QED
  BY InitInv, NextInv, PTL DEF Spec

\* Every variable keeps its type; in particular the re-anchored frontier node
\* and every node the ring names stay inside the drift window.
THEOREM TypeCorrectness == Spec => []TypeOK
<1>1. IInv => TypeOK
  BY DEF IInv
<1> QED
  BY <1>1, Invariance, PTL

\* Every entry of the ring that its step wrote names predecessors in the
\* drift window whose own entries are fresh and end where the branch starts:
\* dv_trellis_trace walks linked layers however often the decoder re-anchored,
\* compacted its buffer or was cut up into calls.
THEOREM RingStaysLinked == Spec => []RingLinked
<1>1. IInv => RingLinked
  BY DEF IInv
<1> QED
  BY <1>1, Invariance, PTL

\* Until a step reads an erasure that costs +infinity (p_erase == 0, without
\* a drift window, decode.c:431, 643), some path has a finite cost and the
\* best node is on one: no other input, no cutting of it into calls, no end
\* of the stream and no re-anchor history kills the trellis.  After such a
\* step no path is alive, whatever follows.
THEOREM TrellisStaysAlive == Spec => []StaysAlive
<1>1. IInv => StaysAlive
  BY DEF IInv
<1> QED
  BY <1>1, Invariance, PTL

\* The read cursor never leaves the buffer by more than the one bit a shift
\* may take it past the end, and the buffer never outgrows its allocation.
THEOREM CursorStaysInBuffer == Spec => []CursorInBuffer
<1>1. IInv => CursorInBuffer
  <2> SUFFICES ASSUME IInv PROVE CursorInBuffer
    OBVIOUS
  <2>1. buf \in Buffers /\ CursorNear(buf) /\ FitsCapacity(buf)
    BY DEF IInv, GoodBuffer
  <2>2. /\ MaxDrift \in Nat /\ Len(buf.received) \in Nat
        /\ buf.read_base \in Nat
    BY <2>1, BuffersFields
  <2>3. buf.read_base <= Len(buf.received) + 1
    BY <2>1 DEF CursorNear
  <2>4. MaxDrift = 0 => buf.read_base <= Len(buf.received)
    BY <2>1 DEF CursorNear
  <2>5. buf.read_base - 2 * MaxDrift <= Len(buf.received)
    BY <2>2, <2>3, <2>4
  <2> QED
    BY <2>1, <2>2, <2>5 DEF CursorInBuffer, FitsCapacity
<1> QED
  BY <1>1, Invariance, PTL

\* Until a flush, the decoder has decided exactly the steps that are
\* decision_depth old.
THEOREM DelayIsFixed == Spec => []FixedDelay
<1>1. IInv => FixedDelay
  BY DEF IInv
<1> QED
  BY <1>1, Invariance, PTL

\* A flush that returns with room left has decided every step and left less
\* than a group of bits unread.
THEOREM FlushDecidesAll == Spec => []FlushComplete
<1>1. IInv => FlushComplete
  BY DEF IInv
<1> QED
  BY <1>1, Invariance, PTL

----------------------------------------------------------------------------
(* What a step sees, and what a decision is taken from                     *)

\* A step has the bits ahead of the cursor that the log asks for.
LEMMA StepHasBits ==
    StepTaken => fed - Cursor >= IF flushed THEN N ELSE N + MaxDrift + 1
<1> SUFFICES ASSUME StepTaken
             PROVE  fed - Cursor >= IF flushed THEN N ELSE N + MaxDrift + 1
  OBVIOUS
<1>1. /\ Len(buf.received) \in Nat /\ buf.read_base \in Nat
      /\ N \in Nat /\ MaxDrift \in Nat /\ fed \in Nat
  BY StepNumbers, BuffersFields DEF StepTaken, IInv, GoodBuffer
<1>2. fed - Cursor = Len(buf.received) - buf.read_base
  BY <1>1 DEF Cursor, Dropped
<1>3. CASE pc = "decode" /\ HasLookAhead(buf)
  BY <1>1, <1>2, <1>3 DEF HasLookAhead
<1>4. CASE pc = "flush" /\ HasGroup(buf)
  <2>1. flushed
    BY <1>4 DEF StepTaken, IInv, FlushPhases
  <2> QED
    BY <1>1, <1>2, <1>4, <2>1 DEF HasGroup
<1> QED
  BY <1>3, <1>4 DEF StepTaken, HasInput

\* A step taken by decode, with its look-ahead, sees the whole reach.
LEMMA StepSeesReach ==
    ASSUME StepTaken, ~flushed, NEW p \in 0 .. (N + 2 * MaxDrift - 1),
           At - MaxDrift + p >= 0
    PROVE  window'[p] = At - MaxDrift + p
<1>1. /\ N \in Nat \ {0} /\ MaxDrift \in Nat /\ fed \in Nat /\ At \in Int
      /\ Cursor \in Int /\ Sigma \in {-1, 0, 1} /\ At = Cursor + Sigma
      /\ p \in Nat /\ p <= N + 2 * MaxDrift - 1
  BY StepNumbers DEF At, Shifts
<1>2. p \in WindowPlaces
  BY <1>1 DEF WindowPlaces, WindowWidth
<1>5. fed - Cursor >= N + MaxDrift + 1
  BY StepHasBits
<1>6. At - MaxDrift + p \in 0 .. (fed - 1)
  BY <1>1, <1>5
<1>7. At = PositionOf(buf, fed) + Sigma
  BY CursorIsPosition DEF At
<1>8. /\ GoodBuffer(buf, fed) /\ Sigma \in Shifts
      /\ (MaxDrift = 0 => Sigma = 0)
  BY StepMovesCursor, StepNumbers
<1>9. Seen[p] = At - MaxDrift + p
  BY <1>1, <1>2, <1>6, <1>7, <1>8, WindowShowsLog DEF Seen
<1> QED
  BY <1>9, StepAssigns

LEMMA SeesWholeReachNext ==
    IInv /\ SeesWholeReach /\ [Next]_vars => SeesWholeReach'
<1> SUFFICES ASSUME IInv, SeesWholeReach, [Next]_vars PROVE SeesWholeReach'
  OBVIOUS
<1>1. CASE RunIteration
  <2>1. StepTaken /\ flushed' = flushed
    BY <1>1 DEF RunIteration, StepTaken
  <2>2. steps' - 1 = steps /\ anchor'[Slot(steps)] = At
    BY <2>1, StepNumbers, RingsAfterStep
  <2>3. ASSUME ~flushed', NEW p \in 0 .. (N + 2 * MaxDrift - 1),
               At - MaxDrift + p >= 0
        PROVE  window'[p] = At - MaxDrift + p
    BY <2>1, <2>3, StepSeesReach
  <2> QED
    BY <2>2, <2>3 DEF SeesWholeReach
<1>2. CASE (\E n_in \in ChunkSizes, limit \in OutSizes : DecodeCall(n_in, limit))
           \/ (\E n_in \in ChunkSizes : DecodeCallRefused(n_in))
           \/ DecodeReturn \/ FlushRunEnds \/ DrainDecision \/ FlushReturn
           \/ UNCHANGED vars
  <2>1. UNCHANGED <<flushed, steps, anchor, window>>
    BY <1>2 DEF DecodeCall, DecodeCallRefused, DecodeReturn, FlushRunEnds,
                DrainDecision, FlushReturn, vars, ctxVars, historyVars
  <2> QED
    BY <2>1 DEF SeesWholeReach
<1>3. CASE \E limit \in OutSizes : FlushCall(limit)
  BY <1>3 DEF FlushCall, SeesWholeReach
<1> QED
  BY <1>1, <1>2, <1>3 DEF Next

\* Before the end of the stream no bit that a branch could consume is missing
\* from what a step sees, for every geometry and every way of cutting the
\* stream into calls: the look-ahead and the history kept are enough.
THEOREM WholeReachIsSeen == Spec => []SeesWholeReach
<1>1. Init => SeesWholeReach
  BY DEF Init, SeesWholeReach
<1> QED
  BY <1>1, SeesWholeReachNext, Invariance, PTL DEF Spec

\* The delay of an undrained pipeline.
DelayKept == decided = IF steps > Depth THEN steps - Depth ELSE 0

\* With no feed after a flush, decisions run ahead of the fixed delay only
\* when there is nothing left to step over.
DelayTillDrained ==
    /\ ~(pc = "decode" /\ flushed)
    /\ HasGroup(buf) => DelayKept

LEMMA DelayTillDrainedNext ==
    ASSUME ResumeAfterFlush = FALSE, IInv, IInv', DelayTillDrained, [Next]_vars
    PROVE  /\ DelayTillDrained'
           /\ decided' > decided => decided < steps
<1>1. steps \in Nat /\ decided \in Nat /\ Depth \in Nat \ {0}
  BY InvNumbers
<1>2. CASE RunIteration
  <2>1. HasGroup(buf)
    BY <1>2, StepMovesCursor DEF RunIteration, StepTaken
  <2>2. decided = IF steps > Depth THEN steps - Depth ELSE 0
    BY <2>1 DEF DelayTillDrained, DelayKept
  <2>3. /\ UNCHANGED <<pc, flushed>>
        /\ steps' = steps + 1
        /\ IF steps >= Depth THEN decided' = decided + 1
                             ELSE decided' = decided
    BY <1>2 DEF RunIteration, DecodeStep, MustEmit, EmitDecision
  <2>4. CASE steps >= Depth
    <3>1. decided = steps - Depth /\ decided' = decided + 1
      BY <1>1, <2>2, <2>3, <2>4
    <3>2. DelayKept' /\ decided < steps
      BY <1>1, <2>3, <2>4, <3>1 DEF DelayKept
    <3> QED
      BY <2>3, <3>2 DEF DelayTillDrained
  <2>5. CASE steps < Depth
    <3>1. decided = 0 /\ decided' = decided
      BY <1>1, <2>2, <2>3, <2>5
    <3>2. DelayKept' /\ ~(decided' > decided)
      BY <1>1, <2>3, <2>5, <3>1 DEF DelayKept
    <3> QED
      BY <2>3, <3>2 DEF DelayTillDrained
  <2> QED
    BY <1>1, <2>4, <2>5
<1>3. CASE (\E n_in \in ChunkSizes, limit \in OutSizes : DecodeCall(n_in, limit))
           \/ (\E n_in \in ChunkSizes : DecodeCallRefused(n_in))
  <2>1. ~flushed /\ flushed' = flushed /\ decided' = decided
    BY <1>3 DEF DecodeCall, DecodeCallRefused, MayFeed, historyVars
  <2>2. DelayKept'
    BY <2>1 DEF IInv, FixedDelay, DelayKept
  <2> QED
    BY <1>1, <2>1, <2>2 DEF DelayTillDrained
<1>4. CASE \E limit \in OutSizes : FlushCall(limit)
  <2>1. pc' = "flush" /\ UNCHANGED <<buf, steps, decided>>
    BY <1>4 DEF FlushCall, Enter, ctxVars
  <2> QED
    BY <1>1, <2>1 DEF DelayTillDrained, DelayKept, HasGroup
<1>5. CASE DecodeReturn \/ FlushRunEnds \/ FlushReturn
  <2>1. pc' \in {"idle", "drain"} /\ UNCHANGED <<buf, steps, decided>>
    BY <1>5 DEF DecodeReturn, FlushRunEnds, FlushReturn, Return, ctxVars
  <2> QED
    BY <1>1, <2>1 DEF DelayTillDrained, DelayKept, HasGroup
<1>6. CASE DrainDecision
  <2>1. /\ pc = "drain" /\ pc' = pc /\ decided < steps /\ ~OutputFull
        /\ buf' = buf
    BY <1>6 DEF DrainDecision
  <2>2. ~HasGroup(buf)
    BY <2>1 DEF IInv, FlushPhases
  <2> QED
    BY <2>1, <2>2 DEF DelayTillDrained, HasGroup
<1>7. CASE UNCHANGED vars
  <2>1. UNCHANGED <<buf, steps, decided, pc, flushed>>
    BY <1>7 DEF vars, ctxVars, callVars, historyVars
  <2> QED
    BY <1>1, <2>1 DEF DelayTillDrained, DelayKept, HasGroup
<1> QED
  BY <1>2, <1>3, <1>4, <1>5, <1>6, <1>7 DEF Next

\* If the caller does not feed after it has flushed, every bit that decode or
\* flush writes is the bit of a step that has been taken.
THEOREM DecisionsAreTraced ==
    ASSUME ResumeAfterFlush = FALSE
    PROVE  Spec => DecisionsTraced
<1>1. Init => DelayTillDrained
  BY ConstantFacts DEF Init, DelayTillDrained, DelayKept
<1>2. IInv /\ IInv' /\ DelayTillDrained /\ [Next]_vars =>
         DelayTillDrained' /\ (decided' > decided => decided < steps)
  BY DelayTillDrainedNext
<1>3. IInv /\ IInv' /\ DelayTillDrained /\ [Next]_vars =>
         [decided' > decided => decided < steps]_vars
  BY <1>2
<1> QED
  BY <1>1, <1>2, <1>3, Invariance, PTL DEF Spec, DecisionsTraced

----------------------------------------------------------------------------
(* The traceback.                                                          *)

\* What the traceback reaches from the places vs by going back over the k-th
\* step from the front.
BackOver(k, vs) ==
    UNION {StepBack(backpointers, shift, steps - k, v) : v \in vs \cap Nodes}

\* Where a traceback can stand: a ring entry names nodes, but the recorded
\* shift may carry it out of the window.
Places == [state : States, drift : Int]

LEMMA BackOverPlaces ==
    ASSUME TypeOK, NEW k \in 1 .. steps, NEW vs
    PROVE  BackOver(k, vs) \in SUBSET Places
<1>1. Slot(steps - k) \in Slots
  <2>1. steps - k \in Nat
    BY DEF TypeOK
  <2> QED
    BY <2>1, SlotInRing
<1>2. shift[Slot(steps - k)] \in Int
  BY <1>1 DEF TypeOK, Shifts
<1>3. ASSUME NEW v \in Nodes,
             NEW u \in backpointers[Slot(steps - k)][v].from
      PROVE  Node(u.state, u.drift + shift[Slot(steps - k)]) \in Places
  <2>1. u \in Nodes
    BY <1>1, <1>3 DEF TypeOK, Rings, Entries
  <2>2. u.state \in States /\ u.drift \in Int
    BY <2>1, NodesFields
  <2> QED
    BY <1>2, <2>2 DEF Node, Places
<1> QED
  BY <1>3 DEF BackOver, StepBack

\* The recursion of Trail has a solution, so Trail unfolds.
LEMMA TrailUnfolds ==
    ASSUME IInv
    PROVE  /\ Trail[0] = {best}
           /\ \A k \in 1 .. (steps - decided) : Trail[k] = BackOver(k, Trail[k - 1])
<1> DEFINE n == steps - decided
           Unfolds(f) ==
               f = [k \in 0 .. n |-> IF k = 0 THEN {best}
                                     ELSE UNION {StepBack(backpointers, shift, steps - k, v) :
                                                    v \in f[k - 1] \cap Nodes}]
           V == SUBSET Places
           step == [kv \in (1 .. n) \X V |-> BackOver(kv[1], kv[2])]
<1>1. TypeOK /\ steps \in Nat /\ decided \in Nat /\ decided <= steps
  BY DEF IInv, TypeOK, PipelineFits
<1>2. n \in Nat /\ n <= steps
  BY <1>1
<1>3. {best} \in V
  BY <1>1, NodesFields DEF TypeOK, Nodes, Places
<1>4. \A k \in 1 .. n : \A v \in V : step[<<k, v>>] = BackOver(k, v)
  OBVIOUS
<1>5. PICK f \in [0 .. n -> V] : Solves(f, {best}, step, n)
  <2>1. step \in [(1 .. n) \X V -> V]
    BY <1>1, <1>2, BackOverPlaces
  <2> HIDE DEF V, n, step
  <2> QED
    BY <1>2, <1>3, <2>1, RecursionExists
<1>6. Unfolds(f)
  <2>1. ASSUME NEW k \in 0 .. n, k # 0
        PROVE  f[k] = UNION {StepBack(backpointers, shift, steps - k, v) :
                                v \in f[k - 1] \cap Nodes}
    <3>1. k \in 1 .. n /\ k - 1 \in 0 .. n
      BY <1>2, <2>1
    <3>2. f[k - 1] \in V
      BY <3>1
    <3>3. f[k] = BackOver(k, f[k - 1])
      <4> HIDE DEF step, V, n
      <4> QED
        BY <1>4, <1>5, <2>1, <3>1, <3>2 DEF Solves
    <3> QED
      BY <3>3 DEF BackOver
  <2>2. f = [k \in 0 .. n |-> f[k]]
    OBVIOUS
  <2>3. f[0] = {best}
    <3>1. 0 \in 0 .. n
      BY <1>2
    <3> HIDE DEF step, V, n
    <3> QED
      BY <1>5, <3>1 DEF Solves
  <2> DEFINE body(k) == IF k = 0 THEN {best}
                        ELSE UNION {StepBack(backpointers, shift, steps - k, v) :
                                       v \in f[k - 1] \cap Nodes}
  <2>4. \A k \in 0 .. n : f[k] = body(k)
    BY <2>1, <2>3
  <2>5. f = [k \in 0 .. n |-> body(k)]
    <3> HIDE DEF body, n, V
    <3>1. f = [k \in 0 .. n |-> f[k]]
      BY <2>2, Zenon
    <3>2. [k \in 0 .. n |-> f[k]] = [k \in 0 .. n |-> body(k)]
      BY <2>4, Zenon
    <3> QED
      BY <3>1, <3>2
  <2> QED
    BY <2>5
<1>7. Trail = CHOOSE g : Unfolds(g)
  BY DEF Trail
<1>8. Unfolds(Trail)
  <2> HIDE DEF Unfolds
  <2> QED
    BY <1>6, <1>7
<1>9. \A k \in 0 .. n : Trail[k] = IF k = 0 THEN {best}
                                   ELSE BackOver(k, Trail[k - 1])
  BY <1>8 DEF BackOver
<1> QED
  BY <1>2, <1>9

\* As long as a path survives, the traceback stands on a fresh entry of the
\* ring until it has gone back over every undecided step.
LEMMA TrailInRing ==
    ASSUME IInv, ~Doomed, NEW k \in Undecided, NEW v \in Trail[k]
    PROVE  /\ v \in Nodes
           /\ steps - 1 - k \in Retained
           /\ Fresh(steps - 1 - k, v)
<1> DEFINE n == steps - decided
           T == {j \in Nat : j < n => \A w \in Trail[j] :
                                 w \in Nodes /\ Fresh(steps - 1 - j, w)}
<1>1. /\ TypeOK /\ steps \in Nat /\ decided \in Nat /\ Depth \in Nat
      /\ decided <= steps /\ n <= Depth /\ n \in Nat /\ best \in live /\ RingLinked
  BY ConstantFacts DEF IInv, TypeOK, PipelineFits, StaysAlive
<1>2. \A j \in Nat : j < n => steps - 1 - j \in Retained /\ steps > 0
  BY <1>1 DEF Retained
<1>3. 0 \in T
  <2> SUFFICES ASSUME 0 < n, NEW w \in Trail[0]
               PROVE  w \in Nodes /\ Fresh(steps - 1 - 0, w)
    BY Zenon
  <2>1. w = best
    BY TrailUnfolds
  <2>2. Fresh(steps - 1, best) /\ best \in Nodes
    BY <1>1, <1>2 DEF RingLinked, TypeOK
  <2> QED
    BY <1>1, <2>1, <2>2
<1>4. ASSUME NEW j \in Nat, j \in T PROVE j + 1 \in T
  <2>1. SUFFICES ASSUME j + 1 < n, NEW w \in Trail[j + 1]
                 PROVE  w \in Nodes /\ Fresh(steps - 1 - (j + 1), w)
    OBVIOUS
  <2>2. j + 1 \in 1 .. n /\ (j + 1) - 1 = j /\ j < n
    BY <1>1, <2>1
  <2>3. w \in BackOver(j + 1, Trail[j])
    BY <2>1, <2>2, TrailUnfolds
  <2> DEFINE i == steps - 1 - j
  <2>4. steps - (j + 1) = i /\ steps - 1 - (j + 1) = i - 1
    BY <1>1
  <2>5. PICK x \in Trail[j] \cap Nodes : w \in StepBack(backpointers, shift, i, x)
    BY <2>3, <2>4 DEF BackOver
  <2>6. PICK u \in backpointers[Slot(i)][x].from :
           w = Node(u.state, u.drift + shift[Slot(i)])
    BY <2>5 DEF StepBack
  <2>7. Fresh(i, x) /\ x \in Nodes
    BY <1>4, <2>2, <2>5
  <2>8. i \in Retained /\ i - 1 \in Retained
    BY <1>2, <2>1, <2>2, <2>4
  <2> HIDE DEF i
  <2>9. w \in Nodes /\ Fresh(i - 1, w)
    BY <1>1, <2>6, <2>7, <2>8 DEF RingLinked
  <2> QED
    BY <2>4, <2>9
<1>5. Nat \subseteq T
  <2> HIDE DEF T
  <2> QED
    BY <1>3, <1>4, NumberInduction
<1>6. k \in Nat /\ k < n
  BY <1>1 DEF Undecided
<1>7. k \in T
  BY <1>5, <1>6
<1> QED
  BY <1>2, <1>6, <1>7

LEMMA TraceIntactHolds == IInv => TraceIntact
  BY TrailInRing DEF TraceIntact, Fresh, IInv, PipelineFits

LEMMA PathsContiguousHolds == IInv => PathsAreContiguous
<1> SUFFICES ASSUME IInv, ~Doomed, NEW k \in Undecided, NEW v \in Trail[k],
                    NEW i, i = steps - 1 - k,
                    NEW u \in backpointers[Slot(i)][v].from
             PROVE  /\ 0 <= StartsAt(i, u)
                    /\ StartsAt(i, u) <= EndsAt(i, v)
                    /\ EndsAt(i, v) <= fed
                    /\ k + 1 \in Undecided =>
                          StartsAt(i, u) =
                            EndsAt(i - 1, Node(u.state, u.drift + shift[Slot(i)]))
  BY DEF PathsAreContiguous
<1>1. v \in Nodes /\ i \in Retained /\ Fresh(i, v)
  BY TrailInRing
<1>2. k + 1 \in Undecided => i - 1 \in Retained
  <2>1. steps \in Nat /\ decided \in Nat /\ Depth \in Nat
        /\ decided <= steps /\ steps - decided <= Depth
    BY ConstantFacts DEF IInv, TypeOK, PipelineFits
  <2> QED
    BY <2>1 DEF Undecided, Retained
<1>3. RingLinked
  BY DEF IInv
<1> QED
  BY <1>1, <1>2, <1>3 DEF RingLinked

\* The traceback of every decision stays inside the ring, the drift window
\* and the layers its own steps wrote: the DV_ASSERTs of dv_trellis_trace
\* (decode.c:507, 522) hold whatever the stream, the calls and the geometry,
\* until a step reads an erasure of infinite cost (no drift window, p_erase 0).
THEOREM TracebackIsIntact == Spec => []TraceIntact
  BY Invariance, TraceIntactHolds, PTL

\* The paths that decisions are read from cover the stream without a gap or
\* an overlap, across every re-anchor, compaction and growth (decode.c:336).
THEOREM SurvivorsAreContiguous == Spec => []PathsAreContiguous
  BY Invariance, PathsContiguousHolds, PTL

----------------------------------------------------------------------------
(* Memory.  A caller that takes its output leaves less than a look-ahead   *)
(* of bits unread, so the buffer is only ever asked to hold two drift      *)
(* windows of history, the look-ahead and one chunk.                       *)

Backlog == Len(buf.received) - buf.read_base

Longest == 3 * MaxDrift + N + (CHOOSE c \in ChunkSizes :
                                  \A d \in ChunkSizes : d <= c)

\* A call with room left has read all it may read.
ReadWhatItMay ==
    DrainBeforeFeed /\ pc = "idle" /\ OutputTaken => Backlog <= N + MaxDrift

\* A feed adds its bits to what compaction has left.
LEMMA FeedLength ==
    ASSUME NEW n_fed \in Nat, NEW b, GoodBuffer(b, n_fed), NEW n_in \in Nat
    PROVE  Len(FeedReceived(b, n_fed, n_in).received) =
              Len(CompactReceived(b).received) + n_in
<1> DEFINE r == CompactReceived(b).received
           tail == [i \in 1 .. n_in |-> n_fed + i - 1]
<1>1. GoodBuffer(CompactReceived(b), n_fed)
  BY CompactKeepsGood
<1>2. r \in Seq(Nat)
  BY <1>1, BuffersFields DEF GoodBuffer
<1>3. FeedReceived(b, n_fed, n_in).received = r \o tail
  BY DEF FeedReceived, ReserveReceived, Buffer
<1> HIDE DEF r
<1>4. tail \in Seq(Nat) /\ Len(tail) = n_in
  OBVIOUS
<1> HIDE DEF tail
<1>5. Len(r \o tail) = Len(r) + n_in
  BY <1>2, <1>4, ConcatProperties
<1> QED
  BY <1>3, <1>5 DEF r

\* With a group ahead the cursor's step stays in the buffer, but for the
\* drift.
LEMMA StepFits ==
    ASSUME NEW base \in Nat, NEW n \in Nat \ {0}, NEW reach \in Nat,
           NEW s \in {-1, 0, 1}, reach = 0 => s = 0,
           NEW length \in Nat, base + n <= length
    PROVE  base + s + n \in Nat /\ base + s + n - 2 * reach <= length
<1>1. CASE reach = 0
  BY <1>1
<1>2. CASE reach > 0
  BY <1>2
<1> QED
  BY <1>1, <1>2

\* A step adds nothing to the buffer.
LEMMA AdvanceShrinks ==
    ASSUME NEW n_fed \in Nat, NEW b, GoodBuffer(b, n_fed), HasGroup(b),
           NEW sigma \in Shifts, MaxDrift = 0 => sigma = 0
    PROVE  Len(AdvanceBase(ShiftBase(b, sigma)).received) <= Len(b.received)
<1> DEFINE m == Buffer(b.received, b.received_capacity, b.read_base + sigma + N)
           a == AdvanceBase(ShiftBase(b, sigma))
<1>1. b \in Buffers
  BY DEF GoodBuffer
<1>2. /\ MaxDrift \in Nat /\ N \in Nat \ {0} /\ Len(b.received) \in Nat
      /\ b.received \in Seq(Nat)
      /\ b.read_base \in Nat /\ b.received_capacity \in Nat
      /\ sigma \in {-1, 0, 1}
  BY <1>1, BuffersFields DEF Shifts
<1>3. b.read_base + N <= Len(b.received)
  BY <1>2 DEF HasGroup
<1>4. /\ b.read_base + sigma + N \in Nat
      /\ b.read_base + sigma + N - 2 * MaxDrift <= Len(b.received)
  BY <1>2, <1>3, StepFits
<1>5. /\ m \in Buffers /\ m.received = b.received
      /\ m.read_base = b.read_base + sigma + N
  <2> DEFINE base == b.read_base + sigma + N
  <2>1. base \in Nat
    BY <1>4
  <2> HIDE DEF base
  <2>2. /\ Buffer(b.received, b.received_capacity, base) \in Buffers
        /\ Buffer(b.received, b.received_capacity, base).received = b.received
        /\ Buffer(b.received, b.received_capacity, base).read_base = base
    BY <1>2, <2>1, BufferFacts
  <2> QED
    BY <2>2 DEF base
<1>6. a = m \/ a = CompactReceived(m)
  BY DEF AdvanceBase, ShiftBase, Buffer
<1> HIDE DEF m, a
<1>7. m.read_base - 2 * MaxDrift <= Len(m.received)
  <2> DEFINE base == b.read_base + sigma + N
             length == Len(b.received)
  <2>1. base - 2 * MaxDrift <= length
    BY <1>2, <1>4
  <2>2. m.read_base = base /\ Len(m.received) = length
    BY <1>5
  <2> HIDE DEF base, length
  <2> QED
    BY <2>1, <2>2
<1>8. /\ m.read_base - 2 * MaxDrift <= 0 => CompactReceived(m) = m
      /\ m.read_base - 2 * MaxDrift > 0 =>
            Len(CompactReceived(m).received) =
               Len(m.received) - (m.read_base - 2 * MaxDrift)
  BY <1>5, <1>7, CompactCases
<1>9. m.read_base - 2 * MaxDrift \in Int /\ Len(m.received) \in Nat
  BY <1>2, <1>5
<1>10. Len(CompactReceived(m).received) <= Len(m.received)
  BY <1>8, <1>9
<1>11. Len(a.received) <= Len(b.received)
  BY <1>5, <1>9, <1>10, <1>6
<1> QED
  BY <1>11 DEF a

LEMMA FeedBounded ==
    ASSUME \E c \in ChunkSizes : \A d \in ChunkSizes : d <= c,
           IInv, DrainBeforeFeed, ReadWhatItMay, BoundedMemory,
           NEW n_in \in ChunkSizes, NEW limit \in OutSizes,
           DecodeCall(n_in, limit)
    PROVE  BoundedMemory'
<1> DEFINE c == CompactReceived(buf)
           needed == Len(c.received) + n_in
           cap == buf.received_capacity
<1>1. /\ N \in Nat \ {0} /\ MaxDrift \in Nat /\ n_in \in Nat /\ fed \in Nat
      /\ buf \in Buffers
  BY ConstantFacts, CallerAssumption DEF IInv, TypeOK
<1>2. /\ Len(buf.received) \in Nat /\ cap \in Nat /\ buf.read_base \in Nat
  BY <1>1, BuffersFields
<1>3. /\ buf.read_base - 2 * MaxDrift <= Len(buf.received)
      /\ Len(buf.received) <= cap
      /\ GoodBuffer(buf, fed)
  BY <1>1, <1>2 DEF IInv, GoodBuffer, CursorNear, FitsCapacity
<1>4. /\ Len(c.received) <= 2 * MaxDrift + Backlog
      /\ Len(c.received) \in Nat /\ c.received_capacity = cap
  BY <1>1, <1>3, CompactLength DEF Backlog
<1>5. Len(c.received) <= Len(buf.received)
  BY <1>1, <1>3, CompactKeepsGood
<1>6. buf'.received_capacity =
         IF needed > cap THEN IF 2 * cap < needed THEN needed ELSE 2 * cap
         ELSE cap
  <2>1. buf' = FeedReceived(buf, fed, n_in)
    BY DEF DecodeCall
  <2>2. c.received_capacity * 2 = 2 * cap
    BY <1>2, <1>4
  <2> QED
    BY <1>1, <1>4, <2>1, <2>2, FeedCapacity
<1>7. PICK most \in ChunkSizes : /\ \A d \in ChunkSizes : d <= most
                                 /\ Longest = 3 * MaxDrift + N + most
  BY DEF Longest
<1>8. n_in <= most /\ most \in Nat
  BY <1>7, CallerAssumption
<1> HIDE DEF c, cap
<1>9. needed <= Longest
  <2>1. CASE n_in = 0
    <3>1. Len(buf.received) <= Longest
      BY DEF BoundedMemory, Longest
    <3>2. Longest \in Int
      BY <1>1, <1>7, <1>8
    <3> QED
      BY <1>2, <1>4, <1>5, <2>1, <3>1, <3>2
  <2>2. CASE n_in > 0
    <3>1. pc = "idle" /\ OutputTaken
      BY <2>2 DEF DecodeCall, Enter, MayFeed
    <3>2. Backlog <= N + MaxDrift /\ Backlog \in Int
      BY <1>2, <3>1 DEF ReadWhatItMay, Backlog
    <3> QED
      BY <1>1, <1>4, <1>7, <1>8, <3>2
  <2> QED
    BY <1>1, <2>1, <2>2
<1>10. needed \in Nat /\ Longest \in Nat /\ Longest > 0
  BY <1>1, <1>4, <1>7, <1>8
<1>11. cap = InitialCapacity \/ cap < 2 * Longest
  BY DEF BoundedMemory, Longest, cap
<1>12. buf'.received_capacity = cap \/ buf'.received_capacity < 2 * Longest
  <2> HIDE DEF needed
  <2> QED
    BY <1>2, <1>6, <1>9, <1>10
<1>13. buf'.received_capacity = InitialCapacity
       \/ buf'.received_capacity < 2 * Longest
  BY <1>11, <1>12
<1>14. Len(buf'.received) = needed
  <2>1. buf' = FeedReceived(buf, fed, n_in)
    BY DEF DecodeCall
  <2> QED
    BY <1>1, <1>3, <2>1, FeedLength DEF c
<1> QED
  BY <1>9, <1>13, <1>14 DEF BoundedMemory, Longest

LEMMA BoundedNext ==
    ASSUME \E c \in ChunkSizes : \A d \in ChunkSizes : d <= c
    PROVE  IInv /\ IInv' /\ ReadWhatItMay /\ BoundedMemory /\ [Next]_vars =>
              ReadWhatItMay' /\ BoundedMemory'
<1> SUFFICES ASSUME IInv, IInv', ReadWhatItMay, BoundedMemory, [Next]_vars
             PROVE  ReadWhatItMay' /\ BoundedMemory'
  OBVIOUS
<1>1. /\ N \in Nat \ {0} /\ MaxDrift \in Nat /\ GoodBuffer(buf, fed)
      /\ buf \in Buffers /\ buf' \in Buffers /\ fed \in Nat
      /\ Len(buf.received) \in Nat /\ buf.read_base \in Nat
  BY ConstantFacts, BuffersFields DEF IInv, TypeOK
<1>2. ASSUME buf'.received_capacity = buf.received_capacity,
             Len(buf'.received) <= Len(buf.received)
      PROVE  BoundedMemory'
  <2>1. Len(buf'.received) \in Nat /\ ChunkSizes \subseteq Nat
    BY <1>1, BuffersFields, CallerAssumption
  <2>2. PICK most \in ChunkSizes : /\ \A d \in ChunkSizes : d <= most
                                   /\ Longest = 3 * MaxDrift + N + most
    BY DEF Longest
  <2>3. Longest \in Nat
    BY <1>1, <2>1, <2>2
  <2>4. DrainBeforeFeed => Len(buf'.received) <= Longest
    <3>1. DrainBeforeFeed => Len(buf.received) <= Longest
      BY DEF BoundedMemory, Longest
    <3> QED
      BY <1>1, <1>2, <2>1, <2>3, <3>1
  <2> QED
    BY <1>2, <2>4 DEF BoundedMemory, Longest
<1>3. ASSUME NEW n_in \in ChunkSizes, NEW limit \in OutSizes,
             DecodeCall(n_in, limit)
      PROVE  ReadWhatItMay' /\ BoundedMemory'
  <2>1. pc' # "idle"
    BY <1>3 DEF DecodeCall, Enter
  <2>2. DrainBeforeFeed => BoundedMemory'
    BY <1>3, FeedBounded
  <2>3. ~DrainBeforeFeed => BoundedMemory'
    BY DEF BoundedMemory
  <2> QED
    BY <2>1, <2>2, <2>3 DEF ReadWhatItMay
<1>4. ASSUME NEW n_in \in ChunkSizes, DecodeCallRefused(n_in)
      PROVE  ReadWhatItMay' /\ BoundedMemory'
  <2>1. /\ buf' = CompactReceived(buf) /\ pc = "idle" /\ pc' = pc
        /\ MustGrow(buf, n_in) /\ MayFeed(n_in) /\ fed' = fed
    BY <1>4 DEF DecodeCallRefused, historyVars
  <2>2. /\ PositionOf(buf', fed) = PositionOf(buf, fed)
        /\ buf'.received_capacity = buf.received_capacity
        /\ Len(buf'.received) <= Len(buf.received)
    BY <1>1, <2>1, CompactKeepsGood
  <2>3. Len(buf'.received) \in Nat /\ buf'.read_base \in Nat
    BY <1>1, BuffersFields
  <2>4. Backlog' = Backlog
    <3>1. fed - Len(buf'.received) + buf'.read_base =
              fed - Len(buf.received) + buf.read_base
      BY <2>2 DEF PositionOf
    <3>2. Len(buf'.received) - buf'.read_base = Len(buf.received) - buf.read_base
      <4>1. /\ fed \in Int /\ Len(buf'.received) \in Int /\ buf'.read_base \in Int
            /\ Len(buf.received) \in Int /\ buf.read_base \in Int
        BY <1>1, <2>3
      <4> QED
        BY <3>1, <4>1, SameOffset
    <3> QED
      BY <3>2 DEF Backlog
  <2>5. DrainBeforeFeed => OutputTaken
    <3>1. n_in \in Nat
      BY CallerAssumption
    <3>2. Len(buf'.received) + n_in > buf.received_capacity
      BY <2>1, <2>2 DEF MustGrow
    <3>3. Len(buf.received) <= buf.received_capacity
      BY <1>1 DEF GoodBuffer, FitsCapacity
    <3>4. buf.received_capacity \in Nat
      BY <1>1, BuffersFields
    <3>5. n_in > 0
      BY <1>1, <2>2, <2>3, <3>1, <3>2, <3>3, <3>4
    <3> QED
      BY <2>1, <3>5 DEF MayFeed
  <2> QED
    BY <1>2, <2>1, <2>2, <2>4, <2>5 DEF ReadWhatItMay
<1>5. ASSUME NEW limit \in OutSizes, FlushCall(limit)
      PROVE  ReadWhatItMay' /\ BoundedMemory'
  <2>1. pc' # "idle" /\ buf' = buf
    BY <1>5 DEF FlushCall, Enter, ctxVars
  <2> QED
    BY <1>2, <2>1 DEF ReadWhatItMay
<1>6. CASE RunIteration
  <2>1. pc' = pc /\ pc # "idle" /\ StepTaken
    BY <1>6 DEF RunIteration, HasInput, StepTaken
  <2>2. buf' = AdvanceBase(ShiftBase(buf, Sigma))
    BY <2>1, StepAssigns
  <2>3. buf'.received_capacity = buf.received_capacity
    BY <2>2 DEF AdvanceBase, ShiftBase, CompactReceived, Buffer
  <2>4. Len(buf'.received) <= Len(buf.received)
    BY <2>1, <2>2, StepNumbers, StepMovesCursor, AdvanceShrinks
  <2> QED
    BY <1>2, <2>1, <2>3, <2>4 DEF ReadWhatItMay
<1>7. CASE DecodeReturn
  <2>1. /\ pc = "decode" /\ RunEnds /\ UNCHANGED buf
        /\ result' = [call |-> "decode", max_out |-> max_out, count |-> output_count]
    BY <1>7 DEF DecodeReturn, Return, ctxVars
  <2>2. OutputTaken' => ~OutputFull
    <3>1. result'.call \in Calls /\ result'.count = output_count
          /\ result'.max_out = max_out
      BY <2>1 DEF Calls
    <3>2. output_count \in Int /\ max_out \in Int
      BY CallerAssumption DEF IInv, TypeOK
    <3> QED
      BY <3>1, <3>2 DEF OutputTaken, OutputFull
  <2>3. OutputTaken' => ~HasLookAhead(buf)
    BY <2>1, <2>2 DEF RunEnds, HasInput
  <2>4. OutputTaken' => Backlog <= N + MaxDrift
    BY <1>1, <2>3 DEF HasLookAhead, Backlog
  <2>5. Backlog' = Backlog
    BY <2>1 DEF Backlog
  <2> QED
    BY <1>2, <2>1, <2>4, <2>5 DEF ReadWhatItMay
<1>8. CASE FlushRunEnds
  <2>1. pc' # "idle" /\ buf' = buf
    BY <1>8 DEF FlushRunEnds, ctxVars
  <2> QED
    BY <1>2, <2>1 DEF ReadWhatItMay
<1>9. CASE DrainDecision
  <2>1. pc' # "idle" /\ buf' = buf
    BY <1>9 DEF DrainDecision
  <2> QED
    BY <1>2, <2>1 DEF ReadWhatItMay
<1>10. CASE FlushReturn
  <2>1. /\ buf' = buf /\ pc' = "idle" /\ result'.call = "flush"
    BY <1>10 DEF FlushReturn, Return, ctxVars
  <2>2. OutputTaken' => Backlog' < N
    BY <2>1 DEF IInv, FlushComplete, OutputTaken, Calls, Backlog
  <2>3. Backlog' = Backlog /\ Backlog \in Int
    BY <1>1, <2>1 DEF Backlog
  <2> QED
    BY <1>1, <1>2, <2>1, <2>2, <2>3 DEF ReadWhatItMay
<1>11. CASE UNCHANGED vars
  <2>1. UNCHANGED <<buf, pc, result>>
    BY <1>11 DEF vars, ctxVars, callVars
  <2>2. Backlog' = Backlog /\ OutputTaken' = OutputTaken
    BY <2>1 DEF Backlog, OutputTaken
  <2> QED
    BY <1>2, <2>1, <2>2 DEF ReadWhatItMay
<1> QED
  BY <1>3, <1>4, <1>5, <1>6, <1>7, <1>8, <1>9, <1>10, <1>11 DEF Next

\* "Bounded memory" (decode.c:46): however long the stream, a caller that
\* takes its output before it feeds more never makes the buffer hold more than
\* two drift windows, a look-ahead and one chunk, nor outgrow its initial
\* capacity or twice that.  The hypothesis is that there is a longest chunk.
THEOREM MemoryStaysBounded ==
    ASSUME \E c \in ChunkSizes : \A d \in ChunkSizes : d <= c
    PROVE  Spec => []BoundedMemory
<1>1. Init => ReadWhatItMay /\ BoundedMemory
  <2>1. Init => /\ Backlog = 0 /\ Len(buf.received) = 0
                /\ buf.received_capacity = InitialCapacity
    BY DEF Init, Backlog, EmptyBuffer, Buffer
  <2>2. PICK most \in ChunkSizes : Longest = 3 * MaxDrift + N + most
    BY DEF Longest
  <2>3. 0 <= Longest
    BY <2>2, ConstantFacts, CallerAssumption
  <2> QED
    BY <2>1, <2>3, ConstantFacts DEF ReadWhatItMay, BoundedMemory, Longest
<1>2. IInv /\ IInv' /\ ReadWhatItMay /\ BoundedMemory /\ [Next]_vars =>
         ReadWhatItMay' /\ BoundedMemory'
  BY BoundedNext
<1> QED
  BY <1>1, <1>2, Invariance, PTL DEF Spec

----------------------------------------------------------------------------
(* The log.                                                                *)

\* The log's copies of the definitions of DecodeCtx.
LEMMA LogNames ==
    /\ Log!WindowPlaces = WindowPlaces
    /\ Log!NoBit = NoBit
    /\ Log!Shifts = Shifts
  BY DEF Log!WindowPlaces, WindowPlaces, Log!WindowWidth, WindowWidth,
         Log!NoBit, NoBit, Log!Shifts, Shifts

LEMMA InitLog == Init => Log!Init
<1> SUFFICES ASSUME Init PROVE Log!Init
  OBVIOUS
<1>1. Cursor = 0
  BY DEF Init, Cursor, Dropped, EmptyBuffer, Buffer
<1>2. window = [p \in Log!WindowPlaces |-> Log!NoBit]
  BY LogNames DEF Init
<1>3. flushed = FALSE
  BY Zenon DEF Init
<1> QED
  BY <1>1, <1>2, <1>3 DEF Init, Log!Init

\* A step of the decoder sees the log around the position it starts from.
LEMMA StepSeesLog == StepTaken => window' = Log!LogWindow(Cursor + Sigma)
<1> SUFFICES ASSUME StepTaken PROVE window' = Log!LogWindow(Cursor + Sigma)
  OBVIOUS
<1>1. GoodBuffer(buf, fed) /\ fed \in Nat
  BY StepMovesCursor, StepNumbers
<1>2. Sigma \in Shifts /\ (MaxDrift = 0 => Sigma = 0)
  BY StepNumbers
<1>3. Cursor + Sigma = PositionOf(buf, fed) + Sigma
  BY CursorIsPosition
<1>4. \A p \in WindowPlaces :
         Seen[p] = IF (Cursor + Sigma) - MaxDrift + p \in 0 .. (fed - 1)
                   THEN (Cursor + Sigma) - MaxDrift + p ELSE NoBit
  BY <1>1, <1>2, <1>3, WindowShowsLog DEF Seen
<1>5. Seen = [p \in WindowPlaces |-> Seen[p]]
  BY DEF Seen, MatchWindow
<1>6. window' = Seen
  BY StepAssigns
<1> QED
  BY <1>4, <1>5, <1>6, LogNames DEF Log!LogWindow

LEMMA RunIterationSteps == IInv /\ RunIteration => Log!Step(Sigma)
<1> SUFFICES ASSUME IInv, RunIteration PROVE Log!Step(Sigma)
  OBVIOUS
<1>1. StepTaken
  BY DEF RunIteration, StepTaken
<1>2. MaxDrift = 0 => Sigma = 0
  BY <1>1, StepNumbers
<1>3. Cursor' = Cursor + Sigma + N
  BY <1>1, StepMovesCursor DEF At
<1>4. window' = Log!LogWindow(Cursor + Sigma)
  BY <1>1, StepSeesLog
<1>5. fed - Cursor >= IF flushed THEN N ELSE N + MaxDrift + 1
  BY <1>1, StepHasBits
<1>6. steps' = steps + 1
  BY <1>1, StepNumbers
<1>7. decided' = IF steps >= Depth THEN decided + 1 ELSE decided
  BY DEF RunIteration, MustEmit, EmitDecision
<1>8. UNCHANGED <<fed, flushed>>
  BY DEF RunIteration
<1> QED
  BY <1>2, <1>3, <1>4, <1>5, <1>6, <1>7, <1>8 DEF Log!Step

LEMMA NextLog == IInv /\ [Next]_vars => [Log!Next]_(Log!vars)
<1> SUFFICES ASSUME IInv, [Next]_vars PROVE [Log!Next]_(Log!vars)
  OBVIOUS
<1>1. /\ buf \in Buffers /\ GoodBuffer(buf, fed) /\ fed \in Nat
  BY InvNumbers
<1>2. ASSUME NEW n_in \in ChunkSizes, NEW limit \in OutSizes,
             DecodeCall(n_in, limit)
      PROVE  Log!Receive
  <2>1. /\ buf' = FeedReceived(buf, fed, n_in) /\ fed' = fed + n_in
        /\ UNCHANGED <<flushed, steps, decided, window>>
    BY <1>2 DEF DecodeCall
  <2>2. n_in \in Nat
    BY CallerAssumption
  <2>3. PositionOf(buf', fed') = PositionOf(buf, fed)
    BY <1>1, <2>1, <2>2, FeedKeepsGood
  <2>4. Cursor' = Cursor
    BY <2>3 DEF Cursor, Dropped, PositionOf
  <2>5. fed' \in Nat /\ fed' >= fed
    BY <1>1, <2>1, <2>2
  <2> QED
    BY <2>1, <2>4, <2>5 DEF Log!Receive
<1>3. ASSUME NEW n_in \in ChunkSizes, DecodeCallRefused(n_in)
      PROVE  UNCHANGED Log!vars
  <2>1. /\ buf' = CompactReceived(buf)
        /\ UNCHANGED <<fed, flushed, steps, decided, window>>
    BY <1>3 DEF DecodeCallRefused, historyVars
  <2>2. PositionOf(buf', fed) = PositionOf(buf, fed)
    BY <1>1, <2>1, CompactKeepsGood
  <2>3. Cursor' = Cursor
    BY <2>1, <2>2 DEF Cursor, Dropped, PositionOf
  <2> QED
    BY <2>1, <2>3 DEF Log!vars
<1>4. ASSUME NEW limit \in OutSizes, FlushCall(limit)
      PROVE  Log!End
  <2>1. flushed' = TRUE /\ UNCHANGED <<fed, buf, steps, decided, window>>
    BY <1>4 DEF FlushCall, ctxVars
  <2> QED
    BY <2>1 DEF Log!End, Cursor, Dropped
<1>5. CASE RunIteration
  <2>1. Log!Step(Sigma)
    BY <1>5, RunIterationSteps
  <2>2. Sigma \in Shifts
    BY <1>5, StepNumbers DEF RunIteration, StepTaken
  <2>3. Log!Next
    BY <2>1, <2>2, LogNames DEF Log!Next
  <2> QED
    BY <2>3
<1>6. CASE DecodeReturn \/ FlushRunEnds \/ FlushReturn \/ UNCHANGED vars
  <2>1. UNCHANGED <<fed, flushed, buf, steps, decided, window>>
    BY <1>6 DEF DecodeReturn, FlushRunEnds, FlushReturn, vars, ctxVars,
                historyVars
  <2>2. UNCHANGED Log!vars
    BY <2>1 DEF Log!vars, Cursor, Dropped
  <2> QED
    BY <2>2
<1>7. CASE DrainDecision
  <2>1. /\ pc = "drain" /\ decided < steps /\ decided' = decided + 1
        /\ UNCHANGED <<buf, fed, flushed, steps, window>>
    BY <1>7 DEF DrainDecision, EmitDecision, historyVars
  <2>2. flushed
    BY <2>1 DEF IInv, FlushPhases
  <2>3. Log!DecideTail
    BY <2>1, <2>2 DEF Log!DecideTail, Cursor, Dropped
  <2> QED
    BY <2>3 DEF Log!Next
<1> QED
  BY <1>2, <1>3, <1>4, <1>5, <1>6, <1>7 DEF Next, Log!Next

\* However the stream is cut into calls, and whatever is compacted, grown or
\* refused in between, the decoder takes the steps of a reader of the uncut
\* stream: each sees exactly the log around its cursor, waits for exactly its
\* look-ahead, and the decisions come in the cadence of the log.
THEOREM DecoderReadsLog == Spec => ImplementsLog
<1>1. Init => Log!Init
  BY InitLog
<1>2. IInv /\ [Next]_vars => [Log!Next]_(Log!vars)
  BY NextLog
<1> QED
  BY <1>1, <1>2, Invariance, PTL DEF Spec, ImplementsLog, Log!Spec

----------------------------------------------------------------------------
(* The cadence.                                                            *)

\* A call never holds more decisions than its caller has room for, and
\* between calls there is none.
OutputFits ==
    /\ output_count \in Nat
    /\ max_out \in Nat
    /\ output_count <= max_out
    /\ pc = "idle" => max_out = 0

LEMMA OutputFitsNext == IInv /\ OutputFits /\ [Next]_vars => OutputFits'
<1> SUFFICES ASSUME IInv, OutputFits, [Next]_vars PROVE OutputFits'
  OBVIOUS
<1>1. CASE \/ \E n_in \in ChunkSizes, limit \in OutSizes : DecodeCall(n_in, limit)
           \/ \E limit \in OutSizes : FlushCall(limit)
  <2>1. output_count' = 0 /\ max_out' \in Nat /\ pc' # "idle"
    BY <1>1, CallerAssumption DEF DecodeCall, FlushCall, Enter
  <2> QED
    BY <2>1 DEF OutputFits
<1>2. CASE \/ \E n_in \in ChunkSizes : DecodeCallRefused(n_in)
           \/ FlushRunEnds \/ UNCHANGED vars
  <2>1. UNCHANGED <<output_count, max_out>> /\ (pc' = "idle" => pc = "idle")
    BY <1>2 DEF DecodeCallRefused, FlushRunEnds, vars, callVars
  <2> QED
    BY <2>1 DEF OutputFits
<1>3. CASE RunIteration \/ DrainDecision
  <2>1. /\ max_out' = max_out /\ pc' = pc
        /\ \/ output_count' = output_count
           \/ output_count' = output_count + 1 /\ ~OutputFull
    BY <1>3 DEF RunIteration, DrainDecision, EmitDecision
  <2> QED
    BY <2>1 DEF OutputFits, OutputFull
<1>4. CASE DecodeReturn \/ FlushReturn
  <2>1. output_count' = 0 /\ max_out' = 0
    BY <1>4 DEF DecodeReturn, FlushReturn, Return
  <2> QED
    BY <2>1 DEF OutputFits
<1> QED
  BY <1>1, <1>2, <1>3, <1>4 DEF Next

\* `out` is never written past max_out.
THEOREM OutIsNeverOverrun == Spec => []OutputFits
<1>1. Init => OutputFits
  BY DEF Init, OutputFits
<1> QED
  BY <1>1, OutputFitsNext, Invariance, PTL DEF Spec

\* The counters of Cadence.
Room == max_out - output_count
Wrote == output_count > 0
Returned ==
    CASE pc # "idle" \/ result.call # "flush" -> "none"
      [] pc = "idle" /\ result.call = "flush" /\ result.count > 0 -> "some"
      [] pc = "idle" /\ result.call = "flush" /\ result.count = 0
         /\ result.max_out > 0 -> "zero"
      [] OTHER -> "none"
Awaiting == steps - decided
Filled == IF steps < Depth THEN steps ELSE Depth

LEMMA CadenceNumbers ==
    ASSUME IInv, OutputFits
    PROVE  /\ N \in Nat \ {0} /\ MaxDrift \in Nat /\ Depth \in Nat \ {0}
           /\ steps \in Nat /\ decided \in Nat /\ decided <= steps
           /\ fed \in Nat /\ buf \in Buffers /\ GoodBuffer(buf, fed)
           /\ Len(buf.received) \in Nat /\ buf.read_base \in Nat
           /\ Backlog \in Int /\ Backlog <= fed /\ Backlog = fed - Cursor
           /\ Cursor \in Int
           /\ output_count \in Nat /\ max_out \in Nat /\ output_count <= max_out
<1>1. /\ buf \in Buffers /\ GoodBuffer(buf, fed) /\ fed \in Nat
      /\ steps \in Nat /\ decided \in Nat /\ decided <= steps
  BY InvNumbers DEF IInv, TypeOK, PipelineFits
<1>2. Len(buf.received) \in Nat /\ buf.read_base \in Nat
  BY <1>1, BuffersFields
<1>3. Backlog \in Int /\ Backlog <= fed /\ Backlog = fed - Cursor /\ Cursor \in Int
  <2>1. Len(buf.received) <= fed
    BY <1>1 DEF GoodBuffer, HoldsLog
  <2> QED
    BY <1>1, <1>2, <2>1 DEF Backlog, Cursor, Dropped
<1> QED
  BY <1>1, <1>2, <1>3, ConstantFacts DEF OutputFits

\* An action of Cadence, in the names above.
LEMMA CadenceStep ==
    ASSUME pc' = pc, flushed' = flushed, Room' = Room, Wrote' <=> Wrote,
           Returned' = Returned, Backlog' = Backlog, Awaiting' = Awaiting,
           Filled' = Filled
    PROVE  UNCHANGED LoopCadence!vars
  BY DEF LoopCadence!vars, Room, Wrote, Returned, Backlog, Awaiting, Filled
LEMMA InitCadence == Init => LoopCadence!Init
<1> SUFFICES ASSUME Init PROVE LoopCadence!Init
  OBVIOUS
<1>1. /\ Room = 0 /\ ~Wrote /\ Returned = "none" /\ Backlog = 0
      /\ Awaiting = 0 /\ Filled = 0 /\ pc = "idle"
  BY ConstantFacts DEF Init, Room, Wrote, Returned, Backlog, Awaiting, Filled,
                       EmptyBuffer, Buffer
<1>2. flushed = FALSE
  BY Zenon DEF Init
<1> QED
  BY <1>1, <1>2 DEF LoopCadence!Init, Room, Wrote, Returned, Backlog, Awaiting,
                    Filled

\* The log keeps its cursor, so the backlog grows by what was fed.
LEMMA BacklogFollows ==
    ASSUME IInv, OutputFits, fed' \in Nat, GoodBuffer(buf', fed')
    PROVE  Backlog' = fed' - Cursor'
<1>1. Len(buf'.received) \in Nat /\ buf'.read_base \in Nat
  BY BuffersFields DEF GoodBuffer
<1> QED
  BY <1>1 DEF Backlog, Cursor, Dropped

LEMMA DecodeCallCadence ==
    ASSUME IInv, OutputFits, NEW n_in \in ChunkSizes, NEW limit \in OutSizes,
           DecodeCall(n_in, limit)
    PROVE  LoopCadence!DecodeCall(n_in, limit)
<1>1. n_in \in Nat /\ limit \in Nat /\ StreamLength \in Nat
  BY CallerAssumption
<1>2. /\ pc = "idle" /\ pc' = "decode" /\ max_out' = limit /\ output_count' = 0
      /\ result' = result /\ buf' = FeedReceived(buf, fed, n_in)
      /\ fed' = fed + n_in /\ UNCHANGED <<steps, decided, flushed>>
      /\ fed + n_in <= StreamLength /\ (flushed => ResumeAfterFlush)
  BY DEF DecodeCall, Enter, MayFeed
<1>3. /\ GoodBuffer(buf', fed') /\ PositionOf(buf', fed') = PositionOf(buf, fed)
      /\ fed' \in Nat
  <2>1. GoodBuffer(buf, fed) /\ fed \in Nat
    BY CadenceNumbers
  <2>2. /\ GoodBuffer(buf', fed + n_in)
        /\ PositionOf(buf', fed + n_in) = PositionOf(buf, fed)
    BY <1>1, <1>2, <2>1, FeedKeepsGood
  <2> QED
    BY <1>1, <1>2, <2>1, <2>2
<1>4. Cursor' = Cursor
  BY <1>3 DEF Cursor, Dropped, PositionOf
<1>5. Backlog' = Backlog + n_in
  BY <1>1, <1>2, <1>3, <1>4, BacklogFollows, CadenceNumbers
<1>6. Backlog + n_in <= StreamLength
  BY <1>1, <1>2, CadenceNumbers, SMTT(30)
<1>7. Room' = limit /\ ~Wrote' /\ Returned' = "none"
  BY <1>1, <1>2 DEF Room, Wrote, Returned
<1>8. Awaiting' = Awaiting /\ Filled' = Filled
  BY <1>2 DEF Awaiting, Filled
<1> QED
  BY <1>2, <1>5, <1>6, <1>7, <1>8
  DEF LoopCadence!DecodeCall, LoopCadence!Enter, Room, Wrote, Returned, Backlog,
      Awaiting, Filled

LEMMA RefusedCadence ==
    ASSUME IInv, OutputFits, NEW n_in \in ChunkSizes, DecodeCallRefused(n_in)
    PROVE  LoopCadence!DecodeCallRefused
<1>1. /\ pc = "idle" /\ pc' = pc /\ UNCHANGED <<max_out, output_count>>
      /\ result'.call = "refused" /\ buf' = CompactReceived(buf)
      /\ UNCHANGED <<fed, steps, decided, flushed>>
      /\ (flushed => ResumeAfterFlush)
  BY DEF DecodeCallRefused, MayFeed, historyVars
<1>2. /\ GoodBuffer(buf', fed') /\ PositionOf(buf', fed') = PositionOf(buf, fed)
      /\ fed' \in Nat
  BY <1>1, CadenceNumbers, CompactKeepsGood
<1>3. Cursor' = Cursor
  BY <1>2 DEF Cursor, Dropped, PositionOf
<1>4. Backlog' = Backlog
  BY <1>1, <1>2, <1>3, BacklogFollows, CadenceNumbers
<1>5. Room' = Room /\ (Wrote' <=> Wrote) /\ Returned' = "none"
  BY <1>1 DEF Room, Wrote, Returned
<1>6. Awaiting' = Awaiting /\ Filled' = Filled
  BY <1>1 DEF Awaiting, Filled
<1> QED
  BY <1>1, <1>4, <1>5, <1>6
  DEF LoopCadence!DecodeCallRefused, Room, Wrote, Returned, Backlog, Awaiting,
      Filled

LEMMA FlushCallCadence ==
    ASSUME IInv, OutputFits, NEW limit \in OutSizes, FlushCall(limit)
    PROVE  LoopCadence!FlushCall(limit)
<1>1. /\ pc = "idle" /\ pc' = "flush" /\ max_out' = limit /\ output_count' = 0
      /\ UNCHANGED <<fed, buf, steps, decided>>
  BY DEF FlushCall, Enter, ctxVars
<1>2. flushed' = TRUE
  BY DEF FlushCall
<1>3. Room' = limit /\ ~Wrote' /\ Returned' = "none"
  BY <1>1, CallerAssumption DEF Room, Wrote, Returned
<1>4. Awaiting' = Awaiting /\ Filled' = Filled /\ Backlog' = Backlog
  BY <1>1 DEF Awaiting, Filled, Backlog
<1> QED
  BY <1>1, <1>2, <1>3, <1>4
  DEF LoopCadence!FlushCall, LoopCadence!Enter, Room, Wrote, Returned, Backlog,
      Awaiting, Filled

\* The guards of the loops mean the same in both.
LEMMA GuardsAgree ==
    ASSUME IInv, OutputFits
    PROVE  /\ HasInput <=> LoopCadence!HasInput
           /\ MustEmit <=> LoopCadence!MustEmit
           /\ OutputFull <=> Room = 0
           /\ Room \in Nat
           /\ RunEnds <=> LoopCadence!RunEnds
<1>1. HasInput <=> LoopCadence!HasInput
  <2>1. /\ HasLookAhead(buf) <=> Backlog >= N + MaxDrift + 1
        /\ HasGroup(buf) <=> Backlog >= N
    <3>1. /\ Len(buf.received) \in Int /\ buf.read_base \in Int
          /\ N \in Int /\ MaxDrift \in Int
      BY CadenceNumbers
    <3> QED
      BY <3>1 DEF HasLookAhead, HasGroup, Backlog
  <2> QED
    BY <2>1 DEF HasInput, LoopCadence!HasInput, Backlog
<1>2. MustEmit <=> LoopCadence!MustEmit
  BY CadenceNumbers DEF MustEmit, LoopCadence!MustEmit
<1>3. (OutputFull <=> Room = 0) /\ Room \in Nat
  BY CadenceNumbers DEF OutputFull, Room
<1> QED
  BY <1>1, <1>2, <1>3 DEF RunEnds, LoopCadence!RunEnds, Room

LEMMA RunIterationCadence ==
    ASSUME IInv, OutputFits, RunIteration
    PROVE  LoopCadence!RunIteration(Sigma) /\ Sigma \in LoopCadence!Shifts
<1>1. StepTaken
  BY DEF RunIteration, StepTaken
<1>2. /\ Sigma \in Shifts /\ (MaxDrift = 0 => Sigma = 0) /\ Sigma \in Int
      /\ Cursor' = Cursor + Sigma + N /\ GoodBuffer(buf', fed') /\ fed' = fed
  BY <1>1, StepNumbers, StepMovesCursor DEF At, StepTaken
<1>3. Backlog' = Backlog - N - Sigma
  BY <1>2, BacklogFollows, CadenceNumbers, SMTT(30)
<1>4. /\ HasInput /\ UNCHANGED <<pc, max_out, result, flushed>>
      /\ steps' = steps + 1 /\ pc # "idle"
  BY <1>1, StepNumbers DEF RunIteration, HasInput
<1>5. Returned' = Returned
  BY <1>4 DEF Returned
<1>6. CASE MustEmit
  <2>1. /\ ~OutputFull /\ output_count' = output_count + 1
        /\ decided' = decided + 1 /\ steps >= Depth
    BY <1>6 DEF RunIteration, EmitDecision, MustEmit
  <2>2. Room > 0 /\ Room' = Room - 1 /\ Wrote'
    <3>1. output_count \in Nat /\ max_out \in Nat /\ output_count <= max_out
      BY CadenceNumbers
    <3> QED
      BY <1>4, <2>1, <3>1 DEF OutputFull, Room, Wrote
  <2>3. Awaiting' = Awaiting /\ Filled' = Filled
    <3>1. steps \in Nat /\ decided \in Nat /\ Depth \in Nat
      BY CadenceNumbers
    <3> QED
      BY <1>4, <2>1, <3>1 DEF Awaiting, Filled
  <2> QED
    BY <1>2, <1>3, <1>4, <1>5, <1>6, <2>2, <2>3, GuardsAgree
    DEF LoopCadence!RunIteration, LoopCadence!Shifts, Shifts, Room, Wrote,
        Returned, Backlog, Awaiting, Filled
<1>7. CASE ~MustEmit
  <2>1. UNCHANGED <<output_count, decided>> /\ ~(steps >= Depth)
    BY <1>7 DEF RunIteration, MustEmit
  <2>2. /\ Room' = Room /\ (Wrote' <=> Wrote)
        /\ Awaiting' = Awaiting + 1 /\ Filled' = Filled + 1
    BY <1>4, <2>1, CadenceNumbers, SMTT(30) DEF Room, Wrote, Awaiting, Filled
  <2> QED
    BY <1>2, <1>3, <1>4, <1>5, <1>7, <2>2, GuardsAgree
    DEF LoopCadence!RunIteration, LoopCadence!Shifts, Shifts, Room, Wrote,
        Returned, Backlog, Awaiting, Filled
<1> QED
  BY <1>6, <1>7

LEMMA ReturnsCadence ==
    ASSUME IInv, OutputFits
    PROVE  /\ DecodeReturn => LoopCadence!DecodeReturn
           /\ FlushRunEnds => LoopCadence!FlushRunEnds
           /\ FlushReturn => LoopCadence!FlushReturn
           /\ DrainDecision => LoopCadence!DrainDecision
<1>1. ASSUME DecodeReturn PROVE LoopCadence!DecodeReturn
  <2>1. /\ pc = "decode" /\ pc' = "idle" /\ RunEnds /\ result'.call = "decode"
        /\ max_out' = 0 /\ output_count' = 0
        /\ UNCHANGED <<buf, steps, decided, flushed>>
    BY <1>1 DEF DecodeReturn, Return, ctxVars, historyVars
  <2>2. /\ Room' = 0 /\ ~Wrote' /\ Returned' = Returned
        /\ Awaiting' = Awaiting /\ Filled' = Filled /\ Backlog' = Backlog
    BY <2>1 DEF Room, Wrote, Returned, Awaiting, Filled, Backlog
  <2> QED
    BY <2>1, <2>2, GuardsAgree
    DEF LoopCadence!DecodeReturn, Room, Wrote, Returned, Backlog, Awaiting, Filled
<1>2. ASSUME FlushRunEnds PROVE LoopCadence!FlushRunEnds
  <2>1. /\ pc = "flush" /\ pc' = "drain" /\ RunEnds
        /\ UNCHANGED <<max_out, output_count, result, buf, steps, decided, flushed>>
    BY <1>2 DEF FlushRunEnds, ctxVars, historyVars
  <2>2. /\ Room' = Room /\ (Wrote' <=> Wrote) /\ Returned' = Returned
        /\ Awaiting' = Awaiting /\ Filled' = Filled /\ Backlog' = Backlog
    BY <2>1 DEF Room, Wrote, Returned, Awaiting, Filled, Backlog
  <2> QED
    BY <2>1, <2>2, GuardsAgree
    DEF LoopCadence!FlushRunEnds, Room, Wrote, Returned, Backlog, Awaiting, Filled
<1>3. ASSUME FlushReturn PROVE LoopCadence!FlushReturn
  <2>1. /\ pc = "drain" /\ pc' = "idle" /\ (decided >= steps \/ OutputFull)
        /\ result' = [call |-> "flush", max_out |-> max_out, count |-> output_count]
        /\ max_out' = 0 /\ output_count' = 0
        /\ UNCHANGED <<buf, steps, decided, flushed>>
    BY <1>3 DEF FlushReturn, Return, ctxVars, historyVars
  <2>2. /\ Room' = 0 /\ ~Wrote'
        /\ Awaiting' = Awaiting /\ Filled' = Filled /\ Backlog' = Backlog
    BY <2>1 DEF Room, Wrote, Awaiting, Filled, Backlog
  <2>3. Returned' = IF Wrote THEN "some" ELSE IF Room > 0 THEN "zero" ELSE "none"
    <3>1. result'.call = "flush" /\ result'.count = output_count
          /\ result'.max_out = max_out
      BY <2>1
    <3> QED
      BY <2>1, <3>1, CadenceNumbers DEF Returned, Wrote, Room
  <2>4. Awaiting = 0 \/ Room = 0
    BY <2>1, CadenceNumbers, GuardsAgree DEF Awaiting
  <2>5. Returned' = CASE Wrote -> "some"
                      [] ~Wrote /\ Room > 0 -> "zero"
                      [] OTHER -> "none"
    BY <2>3
  <2> QED
    BY <2>1, <2>2, <2>4, <2>5
    DEF LoopCadence!FlushReturn, Room, Wrote, Returned, Backlog, Awaiting, Filled
<1>4. ASSUME DrainDecision PROVE LoopCadence!DrainDecision
  <2>1. /\ pc = "drain" /\ decided < steps /\ ~OutputFull
        /\ output_count' = output_count + 1 /\ decided' = decided + 1
        /\ UNCHANGED <<pc, max_out, result, buf, steps, flushed>>
    BY <1>4 DEF DrainDecision, EmitDecision, historyVars
  <2>2. Room > 0 /\ Room' = Room - 1 /\ Wrote'
    BY <2>1, CadenceNumbers, SMTT(30) DEF OutputFull, Room, Wrote
  <2>3. Awaiting > 0 /\ Awaiting' = Awaiting - 1
    <3>1. steps \in Nat /\ decided \in Nat
      BY CadenceNumbers
    <3> QED
      BY <2>1, <3>1 DEF Awaiting
  <2>4. Filled' = Filled /\ Backlog' = Backlog /\ Returned' = Returned
    BY <2>1 DEF Filled, Backlog, Returned
  <2> QED
    BY <2>1, <2>2, <2>3, <2>4
    DEF LoopCadence!DrainDecision, Room, Wrote, Returned, Backlog, Awaiting, Filled
<1> QED
  BY <1>1, <1>2, <1>3, <1>4

LEMMA NextCadence ==
    IInv /\ OutputFits /\ [Next]_vars => [LoopCadence!Next]_(LoopCadence!vars)
<1> SUFFICES ASSUME IInv, OutputFits, [Next]_vars
             PROVE  [LoopCadence!Next]_(LoopCadence!vars)
  OBVIOUS
<1>1. ASSUME NEW n_in \in ChunkSizes, NEW limit \in OutSizes,
             DecodeCall(n_in, limit)
      PROVE  LoopCadence!Next
  BY <1>1, DecodeCallCadence DEF LoopCadence!Next
<1>2. ASSUME NEW n_in \in ChunkSizes, DecodeCallRefused(n_in)
      PROVE  LoopCadence!Next
  BY <1>2, RefusedCadence DEF LoopCadence!Next
<1>3. ASSUME NEW limit \in OutSizes, FlushCall(limit)
      PROVE  LoopCadence!Next
  BY <1>3, FlushCallCadence DEF LoopCadence!Next
<1>4. CASE RunIteration
  BY <1>4, RunIterationCadence DEF LoopCadence!Next
<1>5. CASE DecodeReturn \/ FlushRunEnds \/ DrainDecision \/ FlushReturn
  BY <1>5, ReturnsCadence DEF LoopCadence!Next
<1>6. CASE UNCHANGED vars
  <2>1. UNCHANGED <<pc, flushed, max_out, output_count, result, buf, steps, decided>>
    BY <1>6 DEF vars, ctxVars, callVars, historyVars
  <2>2. /\ Room' = Room /\ (Wrote' <=> Wrote) /\ Returned' = Returned
        /\ Awaiting' = Awaiting /\ Filled' = Filled /\ Backlog' = Backlog
    BY <2>1 DEF Room, Wrote, Returned, Awaiting, Filled, Backlog
  <2> QED
    BY <2>1, <2>2, CadenceStep
<1> QED
  BY <1>1, <1>2, <1>3, <1>4, <1>5, <1>6 DEF Next

\* The loops of the decoder are the loops of Cadence, for every geometry,
\* stream and sequence of calls: each step of the decoder's unbounded counters
\* is a step of the bounded ones on which the liveness of the loops is checked.
THEOREM DecoderKeepsCadence == Spec => ImplementsCadence
<1>1. Init => OutputFits
  BY DEF Init, OutputFits
<1>2. Init => LoopCadence!Init
  BY InitCadence
<1>3. IInv /\ OutputFits /\ [Next]_vars => [LoopCadence!Next]_(LoopCadence!vars)
  BY NextCadence
<1> QED
  BY <1>1, <1>2, <1>3, OutIsNeverOverrun, Invariance, PTL
  DEF Spec, ImplementsCadence, LoopCadence!Spec

----------------------------------------------------------------------------
(* The loops of one call are bounded                                       *)

\* What a call can still do: the decisions its output has room for, and the
\* steps before the pipeline is full, which need no room.
LeftOfCall == Room + (Depth - Filled)

LEMMA LeftNumbers ==
    ASSUME NEW limit \in Nat, NEW count \in Nat, count <= limit,
           NEW depth \in Nat, NEW full \in Nat, full <= depth
    PROVE  (limit - count) + (depth - full) \in Nat
  OBVIOUS

LEMMA IterationSpendsLeft ==
    ASSUME IInv, OutputFits, RunIteration
    PROVE  LeftOfCall' < LeftOfCall
<1>1. /\ steps \in Nat /\ Depth \in Nat
      /\ output_count \in Nat /\ max_out \in Nat
  BY CadenceNumbers
<1>2. steps' = steps + 1 /\ max_out' = max_out
  <2>1. StepTaken
    BY DEF RunIteration, StepTaken
  <2> QED
    BY <2>1, StepNumbers DEF RunIteration
<1>3. CASE MustEmit
  <2>1. output_count' = output_count + 1 /\ steps >= Depth
    BY <1>3 DEF RunIteration, EmitDecision, MustEmit
  <2> QED
    BY <1>1, <1>2, <2>1 DEF LeftOfCall, Room, Filled
<1>4. CASE ~MustEmit
  <2>1. output_count' = output_count /\ ~(steps >= Depth)
    BY <1>4 DEF RunIteration, MustEmit
  <2> QED
    BY <1>1, <1>2, <2>1 DEF LeftOfCall, Room, Filled
<1> QED
  BY <1>3, <1>4

LEMMA DrainSpendsLeft ==
    ASSUME IInv, OutputFits, DrainDecision
    PROVE  LeftOfCall' < LeftOfCall
<1>1. /\ steps \in Nat /\ Depth \in Nat
      /\ output_count \in Nat /\ max_out \in Nat
  BY CadenceNumbers
<1>2. output_count' = output_count + 1 /\ UNCHANGED <<steps, max_out>>
  BY DEF DrainDecision, EmitDecision
<1> QED
  BY <1>1, <1>2 DEF LeftOfCall, Room, Filled

\* No call loops for ever, for every geometry, stream and output size: each
\* turn of the loop of run(), and of the loop at the end of
\* dv_stream_decode_flush, takes at least one from what is left of the call,
\* which is never negative, and going from the first loop to the second adds
\* nothing.  A call therefore makes at most max_out + decision_depth turns,
\* even while re-anchoring backwards keeps the backlog from shrinking.
THEOREM CallsAreBounded ==
    Spec => [][pc # "idle" /\ pc' # "idle" =>
                   /\ LeftOfCall' \in Nat
                   /\ pc' = pc => LeftOfCall' < LeftOfCall
                   /\ pc' # pc => LeftOfCall' = LeftOfCall]_vars
<1>1. Init => OutputFits
  BY DEF Init, OutputFits
<1>2. IInv /\ OutputFits /\ IInv' /\ OutputFits' /\ [Next]_vars =>
          [pc # "idle" /\ pc' # "idle" =>
               /\ LeftOfCall' \in Nat
               /\ pc' = pc => LeftOfCall' < LeftOfCall
               /\ pc' # pc => LeftOfCall' = LeftOfCall]_vars
  <2> SUFFICES ASSUME IInv, OutputFits, IInv', OutputFits', Next,
                      pc # "idle", pc' # "idle"
               PROVE  /\ LeftOfCall' \in Nat
                      /\ pc' = pc => LeftOfCall' < LeftOfCall
                      /\ pc' # pc => LeftOfCall' = LeftOfCall
    OBVIOUS
  <2>1. LeftOfCall' \in Nat
    <3>1. /\ steps' \in Nat /\ output_count' \in Nat /\ max_out' \in Nat
          /\ output_count' <= max_out' /\ Depth \in Nat
      <4>1. steps' \in Nat
        BY DEF IInv, TypeOK
      <4>2. /\ output_count' \in Nat /\ max_out' \in Nat
            /\ output_count' <= max_out'
        BY DEF OutputFits
      <4> QED
        BY <4>1, <4>2, ConstantFacts
    <3> DEFINE full == IF steps' < Depth THEN steps' ELSE Depth
    <3>2. full \in Nat /\ full <= Depth
      BY <3>1
    <3>3. LeftOfCall' = (max_out' - output_count') + (Depth - full)
      BY DEF LeftOfCall, Room, Filled
    <3> HIDE DEF full
    <3> QED
      BY <3>1, <3>2, <3>3, LeftNumbers
  <2>2. \/ (RunIteration \/ DrainDecision) /\ pc' = pc
        \/ FlushRunEnds
    BY DEF Next, DecodeCall, DecodeCallRefused, FlushCall, Enter,
           RunIteration, DrainDecision, DecodeReturn, FlushReturn, Return
  <2>3. FlushRunEnds => pc' # pc /\ LeftOfCall' = LeftOfCall
    BY DEF FlushRunEnds, ctxVars, LeftOfCall, Room, Filled
  <2> QED
    BY <2>1, <2>2, <2>3, IterationSpendsLeft, DrainSpendsLeft
<1> QED
  BY <1>1, <1>2, OutIsNeverOverrun, Invariance, PTL DEF Spec

----------------------------------------------------------------------------
(* Repeated flushes are bounded at every rate below 1/1                    *)

\* What flushes can still do, if nothing is fed: every bit ahead of the cursor
\* (which may be one past the end) may let one more step be taken, and that
\* step be decided, and the steps in flight are still to be decided.
LeftToFlush == 2 * (Backlog + 1) + Awaiting

LEMMA LeftToFlushNatural == ASSUME IInv, OutputFits PROVE LeftToFlush \in Nat
<1>1. Backlog \in Int /\ Backlog >= -1
  <2>1. /\ buf.read_base <= Len(buf.received) + 1
        /\ Len(buf.received) \in Nat /\ buf.read_base \in Nat
    BY CadenceNumbers DEF GoodBuffer, CursorNear
  <2> QED
    BY <2>1 DEF Backlog
<1>2. Awaiting \in Nat
  BY CadenceNumbers DEF Awaiting
<1> HIDE DEF Backlog, Awaiting
<1> QED
  BY <1>1, <1>2 DEF LeftToFlush

LEMMA BacklogSpends ==
    ASSUME NEW b \in Int, NEW b2 \in Int, NEW a \in Int, NEW a2 \in Int,
           b2 <= b - 1, a2 <= a + 1
    PROVE  2 * (b2 + 1) + a2 < 2 * (b + 1) + a
  OBVIOUS

LEMMA DecisionSpends ==
    ASSUME NEW b \in Int, NEW a \in Int
    PROVE  2 * (b + 1) + (a - 1) < 2 * (b + 1) + a
  OBVIOUS

LEMMA BacklogAfterStep ==
    ASSUME NEW f \in Int, NEW c \in Int, NEW n \in Nat, NEW s \in {-1, 0, 1},
           n > 1
    PROVE  f - (c + s + n) <= (f - c) - 1
  OBVIOUS

LEMMA StepSpendsFlush ==
    ASSUME IInv, OutputFits, RunIteration, N > 1
    PROVE  LeftToFlush' < LeftToFlush
<1>1. StepTaken
  BY DEF RunIteration, StepTaken
<1>2. /\ Sigma \in Shifts /\ steps' = steps + 1 /\ fed' = fed
      /\ Cursor' = Cursor + Sigma + N /\ GoodBuffer(buf', fed')
  BY <1>1, StepNumbers, StepMovesCursor DEF At, StepTaken
<1>3. Backlog \in Int /\ Backlog' \in Int /\ Backlog' <= Backlog - 1
  <2>1. /\ fed \in Int /\ Cursor \in Int /\ Backlog = fed - Cursor
        /\ N \in Nat /\ Sigma \in {-1, 0, 1} /\ Backlog \in Int
    BY <1>2, CadenceNumbers DEF Shifts
  <2>2. fed' \in Nat
    BY <1>2, CadenceNumbers
  <2>3. Backlog' = fed - (Cursor + Sigma + N)
    BY <1>2, <2>2, BacklogFollows
  <2>4. fed - (Cursor + Sigma + N) <= (fed - Cursor) - 1
    BY <2>1, BacklogAfterStep
  <2>5. Backlog' \in Int
    BY <2>1, <2>3
  <2> HIDE DEF Backlog
  <2> QED
    BY <2>1, <2>3, <2>4, <2>5
<1>4. decided' = decided \/ decided' = decided + 1
  BY DEF RunIteration, EmitDecision
<1>5. Awaiting \in Int /\ Awaiting' \in Int /\ Awaiting' <= Awaiting + 1
  <2>1. steps \in Nat /\ decided \in Nat
    BY CadenceNumbers
  <2> QED
    BY <1>2, <1>4, <2>1 DEF Awaiting
<1> QED
  BY <1>3, <1>5, BacklogSpends DEF LeftToFlush

LEMMA DrainSpendsFlush ==
    ASSUME IInv, OutputFits, DrainDecision
    PROVE  LeftToFlush' < LeftToFlush
<1>1. decided' = decided + 1 /\ UNCHANGED <<buf, steps>>
  BY DEF DrainDecision, EmitDecision
<1>2. Backlog' = Backlog /\ Backlog \in Int
  BY <1>1, CadenceNumbers DEF Backlog
<1>3. Awaiting' = Awaiting - 1 /\ Awaiting \in Int
  <2>1. steps \in Nat /\ decided \in Nat
    BY CadenceNumbers
  <2> QED
    BY <1>1, <2>1 DEF Awaiting
<1> HIDE DEF Backlog, Awaiting
<1> QED
  BY <1>2, <1>3, DecisionSpends DEF LeftToFlush

LEMMA OthersKeepFlush ==
    ASSUME IInv, OutputFits,
           \/ \E limit \in OutSizes : FlushCall(limit)
           \/ \E n_in \in ChunkSizes : DecodeCallRefused(n_in)
           \/ FlushRunEnds
           \/ FlushReturn
    PROVE  UNCHANGED <<steps, decided, LeftToFlush>>
<1>1. UNCHANGED <<steps, decided, fed>>
  BY DEF FlushCall, DecodeCallRefused, FlushRunEnds, FlushReturn, ctxVars,
         historyVars
<1>2. Backlog' = Backlog
  <2>1. CASE UNCHANGED buf
    BY <2>1 DEF Backlog
  <2>2. CASE \E n_in \in ChunkSizes : DecodeCallRefused(n_in)
    BY <2>2, RefusedCadence DEF LoopCadence!DecodeCallRefused, Backlog
  <2> QED
    BY <2>1, <2>2 DEF FlushCall, FlushRunEnds, FlushReturn, ctxVars
<1> QED
  BY <1>1, <1>2 DEF LeftToFlush, Awaiting

\* "Call it repeatedly until it returns 0" (decode.h:143) ends at every rate
\* below 1/1, for every geometry, stream and output size: with no decode call
\* in between, flushes never add to what is left for them, which is a natural
\* number, and every step taken and every bit written takes from it, even
\* where each re-anchor gives a bit back.  At rate 1/1 this is false (run
\* rate1).
THEOREM FlushesAreSpent ==
    ASSUME N > 1
    PROVE  Spec => [][pc # "decode" /\ pc' # "decode" =>
                         /\ LeftToFlush' \in Nat
                         /\ LeftToFlush' <= LeftToFlush
                         /\ steps' # steps \/ decided' # decided =>
                               LeftToFlush' < LeftToFlush]_vars
<1>1. Init => OutputFits
  BY DEF Init, OutputFits
<1>2. IInv /\ OutputFits /\ IInv' /\ OutputFits' /\ [Next]_vars =>
          [pc # "decode" /\ pc' # "decode" =>
               /\ LeftToFlush' \in Nat
               /\ LeftToFlush' <= LeftToFlush
               /\ steps' # steps \/ decided' # decided =>
                     LeftToFlush' < LeftToFlush]_vars
  <2> SUFFICES ASSUME IInv, OutputFits, IInv', OutputFits', Next,
                      pc # "decode", pc' # "decode"
               PROVE  /\ LeftToFlush' \in Nat
                      /\ LeftToFlush' <= LeftToFlush
                      /\ steps' # steps \/ decided' # decided =>
                            LeftToFlush' < LeftToFlush
    OBVIOUS
  <2>1. LeftToFlush' \in Nat
    <3>1. (IInv /\ OutputFits => LeftToFlush \in Nat)'
      BY LeftToFlushNatural, PTL
    <3> QED
      BY <3>1
  <2>2. LeftToFlush \in Nat
    BY LeftToFlushNatural
  <2>3. CASE RunIteration \/ DrainDecision
    <3>1. LeftToFlush' < LeftToFlush
      BY <2>3, StepSpendsFlush, DrainSpendsFlush
    <3> HIDE DEF LeftToFlush
    <3> QED
      BY <2>1, <2>2, <3>1
  <2>4. CASE \/ \E limit \in OutSizes : FlushCall(limit)
             \/ \E n_in \in ChunkSizes : DecodeCallRefused(n_in)
             \/ FlushRunEnds
             \/ FlushReturn
    <3>1. UNCHANGED <<steps, decided, LeftToFlush>>
      BY <2>4, OthersKeepFlush
    <3> HIDE DEF LeftToFlush
    <3> QED
      BY <2>1, <2>2, <3>1
  <2>5. ~DecodeReturn /\ ~\E n_in \in ChunkSizes, limit \in OutSizes :
                              DecodeCall(n_in, limit)
    BY DEF DecodeReturn, DecodeCall, Enter
  <2> QED
    BY <2>3, <2>4, <2>5 DEF Next
<1> QED
  BY <1>1, <1>2, OutIsNeverOverrun, Invariance, PTL DEF Spec
=============================================================================
