# Verification of drift_viterbi

drift_viterbi is a C library that decodes convolutional codes from a stream in
which bits were flipped, inserted, deleted or erased. This directory holds
TLA+ modules that model it, TLC configurations that check them on small
instances, and theorems that TLAPS proves for every value of the constants.
`PROJECT.json` lists the runs, the mutants that show each property can fail,
the source lines behind every definition, the hazards and the theorems. Source
paths below are relative to the root of the repository.

## The system

One process, no threads, no persistence: the library is called, works and
returns. What makes it hard is state that spans calls. Input arrives in
arbitrary pieces and output leaves in arbitrary pieces, a ring of backpointers
is overwritten while decisions still need it, a window over the input moves by
a data-dependent amount in every step, and the buffer below it is compacted and
reallocated.

| component | code | state | operations |
|---|---|---|---|
| received buffer and cadence | `src/decode.c`, `dv_decode_ctx` in `src/decode_internal.h` | `received[]`, its length, capacity and read cursor; `steps`, `decided`; the ring `shift[]`; the match table | feed, reserve (grow), compact, re-anchor, fill the match table, advance |
| trellis | `src/decode.c`, `dv_trellis` | metric per node, ring of backpointer layers, smoothed cost | re-anchor the metric, forward pass (with or without drift), frontier, trace, lock |
| alignment and branch metric | `src/decode.c`, `align_fill_into` | scratch rows | the insertion/deletion recurrence of one branch |
| stream decoder | `src/decode.c` | one context, one trellis | create, decode, flush, destroy |
| multi-decoder | `src/multi_decode.c` | one context, one trellis per code, `locked` | create, decode, flush, destroy |
| vote | `src/multi_decode.c` | floor and margin | the decision of one bit from all codes |
| codes and encoder | `src/encode.c` | immutable tables; the caller's `*state` | create, encode, flush |
| multi-encoder | `src/multi_encode.c` | one register for a family of codes | create, encode, flush |
| comparison and detection | `src/compare.c` | none between calls | recover a code's parity checks blindly over GF(2), cross-satisfaction, `dv_compare`, `dv_detect`, `dv_detect_sequential`, the length helpers |
| lifecycle | `src/decode.c`, `src/multi_decode.c`, `src/multi_encode.c`, `src/encode.c` | pointer fields and their blocks; the union of output patterns | create (in several allocating steps), grow, destroy |
| stdlib shim | `stdlib/` | the heap | malloc, realloc, free |
| bench, metrics, tests | `bench/`, `metrics/`, `tests/` | | not part of the model |

How they interact. Caller and decoder meet in two calls. `dv_stream_decode`
feeds the context and runs `run()`; `run()` emits the decision of the oldest
step when the ring is full and then takes a step; a step reads a window of the
context, moves its cursor and writes one layer of the trellis's ring.
`dv_stream_decode_flush` runs the same loop without look-ahead and then decides
what is still in the ring. The multi-decoder runs the same context with several
trellises: one of them picks the shift for all, and every emitted bit is a vote
of all. Encoder and multi-encoder share the code tables with the decoders and
nothing else. Comparison and detection share nothing: they are given raw streams
and must find out by themselves which parity checks hold in them. Creation and
release cross all objects: a decoder is built by three functions, each of which
cleans up what it made itself before its caller cleans up the rest, and all
trellises of a multi-decoder register their output patterns in one growing list.

What makes each part correct:

* Buffer: it is always the last piece of the stream, no bit lost, repeated or
  moved; the window of a step is the same whatever the cutting of the stream
  into calls; memory is bounded if the caller takes its output.
* Trellis: some path survives every input; a traceback stays inside the drift
  window and the ring and never reads an entry its own step did not write; a
  surviving path reads the stream front to back.
* Stream decoder: each step is decided once, with exactly `decision_depth` of
  look-back until the stream is flushed; a full output loses nothing; flush
  decides everything and ends.
* Multi-decoder: the codes stay in lockstep though one steers; it is a
  single-stream decoder of whatever code leads; the lock survives the calls and
  one code decides the tail.
* Vote: symmetric in the bit values, monotone in the evidence.
* Encoder: what is sent is the convolution of the whole message, whatever the
  calls and code switches; writes stay inside the output.
* Branch metric: inside its window the decoder is a maximum-likelihood decoder;
  the fast path changes nothing; a path dies of nothing but an erasure that the
  channel rules out.
* Comparison and detection: the recovered checks are those the windows obey, all
  and no other; the offset path is a cheapest one; the basis kept is the one that
  was accepted; a degenerate stream is no code; the sequential test declares as
  soon as some run of windows is evidence enough.
* Lifecycle: wherever an allocation fails, everything is freed, once; an object
  that is handed out is complete.

## Modules

| module | models | kind |
|---|---|---|
| `DecodeCtx` | `dv_decode_ctx`: feed, reserve, compact, grow, shift, match window, advance, loop guards | operators |
| `Trellis` | `dv_trellis`: which nodes live, re-anchor, forward pass, ring, one step of the traceback | operators |
| `StreamDecoder` | `dv_stream_decode`, `dv_stream_decode_flush`, `run`, `dv_decode_step` | state machine |
| `DecodeLog` | what the buffer promises: a reader of the uncut stream | abstract specification |
| `Cadence` | the decoder's loops in bounded counters | abstract specification |
| `MultiDecoder` | `multi_run`, `dv_multi_decode`, `dv_multi_decode_flush` | state machine |
| `Vote` | the decision inside `multi_run`, `dv_trellis_lock` | one-step state machine |
| `MultiEncoder` | the tables of `dv_code_create`, the encode and flush loops, `multi_encode.c` | state machine |
| `BranchMetric` | the costs of a step: alignment, both forward passes, re-anchor, normalisation | state machine over operators |
| `DualSpace` | windows, elimination, null space and Walsh-Hadamard transform of `compare.c` | operators |
| `CrossSatisfaction` | `dv_cross_satisfaction`: the search of the framing offset | operators |
| `Detect` | the scores of `dv_detect`, the sequential test | operators |
| `Compare` | the public calls of `compare.h` | state machine |
| `Lifecycle` | creation and release of all objects | state machine |
| `MC*` | instances for TLC | |
| `Induction` | nothing of the code: induction over sets | lemmas |
| `StreamDecoderProofs` | theorems about `StreamDecoder`, on lemmas about `DecodeCtx` and `Trellis`; `StreamDecoder` implements `DecodeLog` and `Cadence` | theorems |
| `CompareProofs` | theorems about `Compare` and the modules under it | theorems |
| other `*Proofs` | theorems about the module they are named after | theorems |

`Trellis` extends `DecodeCtx`; `StreamDecoder` and `MultiDecoder` extend
`Trellis`. `StreamDecoder` instantiates `DecodeLog` and `Cadence` under
refinement mappings, `MultiDecoder` instantiates `StreamDecoder`.
`CrossSatisfaction` extends `DualSpace`, `Detect` extends it, and `Compare`
composes the three. `BranchMetric` and `Lifecycle` stand alone: the first is the
step of `StreamDecoder` seen from its costs, the second the time before `Init`
and after the last call.

### How state and actions correspond to the code

A call is the action that enters it (`DecodeCall`, `FlushCall`,
`DecodeCallRefused` for a `realloc` that fails), one action per iteration of its
loop (`RunIteration`, `DrainDecision`, `EmitGroup`) and the action that returns.
`pc` says which loop the caller is in. Calls of one object do not overlap: the
library has no locking and says nothing of concurrent use.

* A received bit is its serial number in the stream. The model therefore tells
  every bit from every other: a buffer that lost or repeated one differs from
  one that did not. Bit values influence path costs only.
* Path costs are left open. Of the metric the model keeps which nodes have a
  finite cost (`live`) and which is cheapest (`best`, any live node). So every
  re-anchor history that some input could force, and many that none could, are
  behaviours of the model; what holds in it holds for every channel and input. Costs
  of a branch are finite with one exception, which is kept: without a drift window an
  erasure costs infinity if the channel has none (`p_erase == 0`). `FatalErasures` are
  the received bits that are such an erasure. With a drift window there are none: it
  takes a channel with both indels, where a path can insert the erasure and delete the
  bit that was sent.
* A backpointer entry is the set of predecessors the code may store, plus a
  history mark of the step that wrote it. The ring starts with arbitrary
  entries marked as never written, as `malloc` leaves it. An entry of a node no
  branch reaches is kept, as in the code: stale entries are in the model.
* `anchor`, `fed`, `flushed`, `committed`, `decode_lock`, `tail`, `message` and
  `sent` are history variables; no guard of a modelled operation reads them
  (`fed` and `flushed` bound what the caller does).
* In `MultiDecoder` any code may be the lead after a step, any live node of its trellis
  the cheapest (`best`; the other codes' cheapest nodes are never read), and any vote
  may commit or erase; `Vote` has the arithmetic. There a cost is an integer and `exp` a
  table of integer weights that falls geometrically, so that each comparison of
  the code is the same comparison multiplied out. Thresholds are counted in units of
  `1 / Scale`, a multiple of 10 so that the defaults 0.6 and 0.2 are whole. `Pending`
  is the output before the first vote.
* In `BranchMetric` a cost is a natural number and `Infinite` absorbs, as INFINITY
  does; the received stream has been fed whole. Loops that keep the first of
  equal costs become a choice of the first in the loops' order. The alignment rows
  of one step are computed once per pattern and drift, as `align_precompute` does.
* In `DualSpace` a packed window or parity vector is the set of its bit positions,
  xor the symmetric difference, the array of pivots the set of its rows. The
  transform is the code's, one stride at a time. The width of a window is an `int`
  product and wraps at `IntMax`, so that a code can be in range that is far too wide.
* In `CrossSatisfaction` and `Detect` logarithms and square roots are integers in
  thousandths; a fraction is compared by multiplying out. What the code sums in
  doubles is therefore summed with a fixed rounding; ties that exist only below a
  thousandth are not told apart.
* In `Compare` a call is entered, and is served in one step or gives up for lack
  of memory: `compare.c` keeps nothing between calls and no step of it is seen
  from outside. The actions are trivial on purpose; what is checked is what the
  answers are.
* In `Lifecycle` a place is a pointer field, and its blocks are numbered so that a
  field can be NULL, valid or dangling. `mem.fault` records that a block was freed
  twice or a field read in a freed block. One action is one allocating step of the
  code; any subset of its allocations may fail.
* In `MultiEncoder` a register is a function from position to bit, a generator
  the set of its taps, and an `int` product wraps at `IntMax`: the bound of an encode
  call divides, that of a flush is the plain product.

## Hazards

The hazards are in `PROJECT.json`, each at its line. In short: the decision must
be read out just before its layer is overwritten (`decode.c:572`); entries stay
in the frame of their own step, so a traceback must apply the recorded shifts
with the right sign (`decode.c:518`); a shift of -1 needs history that
compaction may have dropped and a shift of +1 needs one more bit of look-ahead
(`decode.c:470`, `decode.c:563`); nodes nothing reaches keep stale entries
(`decode.c:340`); `realloc` fails after compaction (`decode.c:98`); the output
fills in the middle of the loop (`decode.c:575`); a flush ends or does not
(`decode.c:567`); one code steers the window for all (`decode.c:464`); the lock
lives in a local of `multi_run` (`multi_decode.c:229`); comparisons at a margin;
an `int` product in a bound (`multi_encode.c:121`, and 132, where it is compared
without a guard) or in a range check (`compare.c:568`); rows, spectra and reductions
computed in place (`decode.c:188`, `compare.c:188`, `compare.c:284`); a fast path
that duplicates the general one (`decode.c:399`); a shared list that is
reallocated while indexes into it are held (`decode.c:757`); double cleanup held
together by NULLs (`decode.c:691`); a best candidate and its score that must stay
together (`compare.c:549`).

Two hazards have no property. The buffer's `int` arithmetic (`decode.c:94`) can
only overflow for a caller that never takes its output (`BoundedMemory`), and the
width of `int` is not in that model. The table of a transform that cannot be
allocated (`compare.c:834`) is freed, where it was allocated, in straight-line code.

## Runs

Slack constants of the initial capacity are 0 in the small instances
(`DriftSlack`, `FixedSlack`; 8 and 64 in the code), so that a few bits suffice
to fill, grow and compact the buffer. The other bounds are the length of the
stream, the sizes of input chunks and outputs, and the geometry.

| run | question | bounds |
|---|---|---|
| `drift1` | everything about one decoder, for a caller that takes its output before it feeds more, flushes in parts and feeds again | rate 1/2, window of three, depth 2, 11 bits in chunks of 3 and 4 or none, outputs of 2: the buffer doubles and, were it never compacted, would pass the bound; 161,783 states |
| `multi` | two codes over one buffer, the lead changing at will | rate 1/3, depth 2, 13 bits in chunks of 4 and 9 or none, outputs of 1, not fed after a flush: the lead changes between any two steps, votes commit and erase, in decode calls and in flushes, the tail has two bits and is flushed one bit a call, the buffer grows or fails to |
| `vote` | every vote of three codes | costs 0..3, two floors, three margins from 0 to 1 |
| `encoder` | every cutting of messages of up to six bits into calls, two K = 3 codes | INT_MAX = 7, so that `n_bits * n` overflows from four bits on |
| `metric` | are the costs, ties and backpointers those of the cheapest paths | two states, rate 1/2; five channels: hard decisions, erasures, insertions only, windows of three and five; streams of six bits, three steps, one erasure anywhere |
| `blind` | are the recovered checks, the offset path and the verdicts right | two codes of rate 1/2 with K = 2, also asked about with a wrong K, as n = 1, as n = 3, which is out of range, and as n = 86, whose window of 258 bits wraps around to 2; twelve long and fifteen short streams: clean, slipped, flipped, periodic, around the least length; windows of up to 6 bits by transform, of 8 by elimination |
| `lifecycle` | every allocation failing, in every create | families of up to three codes, equal and unequal, with NULLs; parameters accepted and refused by each function |
| `rate1`, `zeros`, `tail`, `margin`, `truncated` | disagreements of code and documentation, see below | `tail` has the bounds of `multi`; `rate1` is of `Cadence`, with a backlog of up to 7 bits and the number of steps unbounded |

Why the bounds are enough: the rings have two layers and re-anchors of -1 stretch the
stream over six steps and more, so that each slot is overwritten at least twice; every shift is taken in every
order; compaction, growth and refused growth all occur (in `drift1` and
`multi`, where the stream is longer than the buffer's first capacity), and so
does a call that ends because its output is full, at every place of the loop. In
`metric` three steps and six bits reach both window edges, both ends of the buffer
and a re-anchor each way, and the reference enumerates every way to align what was
sent with what was received. In
`blind` both recovery paths, both sides of every threshold and a basis that is
found only in a later segment occur; the constants of the code (22, 32, 4, 8, 16,
128, 200000, 256) are scaled down together, so that segments, caps and windows
stand in the same order. In `lifecycle` the union of patterns outgrows one code's
edges, so that the list is doubled while an earlier code's indexes are held.
For the properties that are proved the bounds do not matter.

Deadlock is checked everywhere but in `metric`, whose stream ends: elsewhere a
caller may always make another call.

### Fairness

`FairSpec` of `StreamDecoder` has two parts. A call that has begun runs to its
return: weak fairness of the steps inside a call, taken together, since exactly one
of them is enabled while a call runs. And the caller is the one `decode.h:143-144`
describes ("call it repeatedly until it returns 0"): strong fairness of the flush
call once a flush has been made. Strong, because the caller may make other calls in
between, so that the flush is enabled again and again but not all the time; a caller
that only ever made other calls would not be calling flush repeatedly. `FairSpec` of
`Cadence` is the same in its counters; there nothing is fed after a flush, and weak
fairness says as much. Nothing is assumed of how shifts, chunks or
output sizes are chosen.

## What the project shows

Properties of `StreamDecoder`: `TraceIntact` (no traceback leaves ring or window
or reads a stale entry), `PathsAreContiguous` (a path reads the stream without
gap or overlap across re-anchors and compactions), `RingLinked` (the same for
every entry of the ring), `StaysAlive`, `CursorInBuffer` (the length given to
`memmove` is never negative), `SeesWholeReach` (look-ahead and kept history
suffice), `FixedDelay`, `FlushComplete`, `DecisionsTraced`, `BoundedMemory`,
`FlushFinishes`, and the refinements `ImplementsLog` and `ImplementsCadence`.
`DecisionsTraced` is proved for a caller that does not feed after a flush; run `zeros`
shows that it fails for one that does.
Of `MultiDecoder`: `Lockstep`, `LockIsCarried`, `TailByLock` (one code decides the
whole tail, that of the last vote that committed), `DecisionsTraced`,
`ImplementsStream`. Of `Vote`: `LeaderPrevails`, `FavoursNeither`,
`EvidenceCounts`, `UnanimityCommits` (at margins below 1). Of `MultiEncoder`:
`RegisterIsHistory`, `SentIsConvolution`, `WritesInBounds`, `FlushClears`. Of `BranchMetric`:
`SurvivorsAreCheapest` (each node's cost, and the path traced back from it, are
those of the cheapest of all paths inside the window, over all messages and, of each
edge, all `Alignments` of the bits it sends with bits received: sets of pairs in
order, the other bits deleted or inserted),
`FastPathAgrees`, `DiesOnlyOfErasure`. Of `Compare`: `NullSpaceIsComplement`,
`SpectrumCounts`, `OffsetPathIsCheapest` (against all paths), `OwnChecksHold`,
`MinLengthIsSharp`, `DegenerateIsNoCode`, `DeclaresAtFirstEvidence`. Of
`Lifecycle`: `NothingLeaks`, `FreedOnce`, `ReadyIsComplete`.

`StaysAlive` (until a fatal erasure is read some path is alive and `best` is on one;
from then on none is) and the type invariant of `StreamDecoder` are conjuncts of
`IInv`, which `drift1` checks; fatal erasures exist only without a drift window, where
the theorem covers them and `DiesOnlyOfErasure` checks them with their costs. The
properties of `StreamDecoder` that speak of traced paths do so until then.

Disagreements found:

1. `rate1`. With one generator and a drift window, a flush can re-anchor by -1
   in every step and never use up its input; `decode.h:143-144` promises that
   repeated flushes reach 0. (A rate-1/1 code is accepted by `dv_code_create`.)
   With two or more generators each step uses at least one bit and it holds.
2. `zeros`. After a complete flush, `dv_stream_decode` of more input emits
   decisions of steps that have not been taken; `dv_trellis_trace` then returns
   the constant 0. The header does not exclude feeding after a flush.
3. `truncated`. `compare.h:114-115` says that bits beyond `dv_compare_max_len` cannot
   change the result of `dv_compare`. The number of windows is capped there, but a
   framing that has slipped forward reads the last windows at a positive offset, as
   long as the sample has the bits (`compare.c:427-434`): in the counterexample the
   recovered bases agree and the cut sample scores lower. The recovery of the basis
   scans the segments of the whole sample too (`compare.c:526-533`).

4. `tail`. `multi_decode.h:110-112` says that the tail is decoded "by the decoder that was
   most recently locked during dv_multi_decode - or emitted as DV_ERASURE if no decoder
   ever locked". A flush first runs `multi_run` on what is left of the input
   (`multi_decode.c:256`), and a vote that commits there moves the lock: in the
   counterexample no decode call locked a decoder and the tail is decided by one all
   the same. What does hold is `TailByLock`.
5. `margin`. `multi_decode.h:64-66` says that a `lock_margin` of 1 never commits. A
   unanimous vote has a lead of exactly 1 and the test is `lead >= lock_margin`
   (`multi_decode.c:205`), so it commits.

Also seen while reading, without a run:

* `dv_multi_encode_flush` compares the plain product `(K - 1) * n` with `max_out`
  (`multi_encode.c:132`), the form that the comment at `multi_encode.c:115-119` avoids
  for the encode call. Nothing refuses a code whose product does not fit an `int`.
  `WritesInBounds` holds a flush to its bound only while the product fits, and
  `WrappedFlushIsAccepted` proves that beyond that (for K = 3) every output size is
  accepted.
* `dv_window_bits` multiplies before it compares with 32 (`compare.c:572`), so a huge `n`
  can wrap into range. The calls then go on with a window of the wrapped width while
  their steps stay `n` bits; only a stream of many times `n` bits gets past the length
  tests.
* `decode.c:643` comments that an infinite `cost_erase` is never read. It is read, and
  then kills every path, if the caller marks an erasure in spite of `p_erase == 0`,
  which `decode.h:99-100` excludes, and there is no drift window: the trellis then stays
  dead (`StaysAlive`). Of a dead trellis the increment is 0 (`decode.c:244`), so its
  smoothed cost falls and its lock probability rises to 1.
* At rate 1/1 `dv_max_dual` is 0, so that no stream is ever detected as such a code,
  though `dv_window_bits` accepts it. `dv_compare` has no degeneracy guard: two
  equal constant streams compare as the same code.
* `dv_detect_min_len` is the least length at which detection is attempted, but for a
  code of rate 1/2 and K = 2 the peak floor stays above 1 until there are about 16
  windows: a clean stream near the least length reads 0.

## What is proved

The theorems hold for every geometry (`N`, `MaxDrift`, `Depth`, slacks), every
code (`NumStates`, `next_state`), every set of chunk and output sizes, every
length of the stream, every number of codes, every table of weights that falls
geometrically, every channel, every received stream and every cap and length
constant of `compare.c`. They assume `GeometryAssumption`, `CodeAssumption`,
`CallerAssumption`, `FamilyAssumption`, `LifecycleAssumption`, `VoteAssumption`,
`ErasureAssumption`, `MetricAssumption`, `WindowAssumption`, `DriftAssumption` and
`WarmupAssumption`,
which restate what `dv_decode_ctx_init`, `dv_code_create`, `dv_multi_encode_create`
and `dv_multi_decode_create` refuse, or what kind of number a constant is, and which
TLC evaluates in the runs. One conjunct of `MetricAssumption` stands for the range of
a double: the finite costs of a path of `MaxSteps` steps, at most one for each bit sent
and each bit received, add up to a finite cost (`Summable`). Of the
number of outputs of a family `FamilyAssumption` says only that it is an `int`. Some
theorems have a hypothesis beyond that: `DecisionsAreTraced`, `VotesAreOfSteps` and
`TailHasOneCode` speak of a caller that does not feed after a flush, `MemoryStaysBounded`
of chunks of which one is the longest, `FlushesAreSpent` of codes with two generators or
more, and `WrappedFlushIsAccepted` of K = 3.

**Induction** (`Induction`). The provers cannot instantiate an induction theorem
that takes an operator. The ones here take a set instead: a property of numbers is
the set of the numbers that have it (`NumberInduction`), a property of finite sets a
set of sets (`FiniteSetInduction`, `SubsetInduction`), the step of a recursive
function another function (`RecursionExists`). Each is proved from the
well-foundedness of `<` on `Nat`.

**Stream decoder** (`StreamDecoderProofs`). The
inductive invariant is `IInv`. None of the properties is
inductive alone: that the next layer links to the last one (`RingLinked`) needs
that the step starts where the last one ended (`AnchorAtCursor`) and that no old
entry carries a step number of the future (`EntriesPast`); that a path survives
until a fatal erasure is read (`StaysAlive`) needs a live node whose path ends inside the stream
(`PathsInLog`), for then a branch of deletions is feasible even where the window
runs past the buffer; that the window shows the stream needs `GoodBuffer`: the
buffer is the last piece of the log, the cursor is near its end at most, and once
a prefix was dropped two drift windows of history are left. One lemma per buffer operation says that `GoodBuffer` survives it,
and another that a feasible branch exists. From `IInv` follow type correctness,
`RingLinked`, `StaysAlive`, `CursorInBuffer`, `FixedDelay`, `FlushComplete`;
`SeesWholeReach` is an invariant on top of it, and `DecisionsTraced` holds for a
caller that does not feed after a flush.

`TraceIntact` and `PathsAreContiguous` speak of a trail of nodes, defined by a
recursive function over the steps walked back. They follow from `IInv` by
`NumberInduction` along the trail: as long as the walk is inside the ring its node
is in the window and its entry fresh, so `RingLinked` gives both for the node
before it.

`BoundedMemory` needs to know how much is left unread between calls
(`ReadWhatItMay`): a decode that returned with room in its output has read all but
the look-ahead. A feed then compacts the buffer to a few drift windows and the
backlog (`CompactLength`), and doubles the capacity at most until those and the
chunk fit (`FeedCapacity`), so the capacity stays below twice what the longest
chunk needs.

**Refinements** (the last part of `StreamDecoderProofs`). `Spec => ImplementsLog`: under the mapping that
sends the cursor to its stream position, every step of the decoder is a step of the
reader of the uncut stream or a stutter. `Spec => ImplementsCadence`: likewise for
the bounded counters of `Cadence`; this needs that a call never reports more bits
than it has room for (`OutIsNeverOverrun`). What `Cadence` shows of the end of calls,
for streams of every length, is therefore about the decoder.

**Multi-decoder** (`MultiDecoderProofs`). `Lockstep` is inductive with the
observation that every code's layer depends on the shared window and on its own
live set, which agree. From it, `Spec => ImplementsStream`: a multi-decoder step
maps to a stream decoder step even where the lead changes, since the new lead's
frontier and ring are those of the old one. So the theorems above hold of the
leading code, and by `Lockstep` of all of them. `LockCarried` and `TailHasOneCode`
rest on `LockInv`, which relates `last`, `locked`, `committed` and `tail` in each
phase of a call, and `VotesAreOfSteps` on `DelayInv`: before a flush, and after it as long
as a group of bits is left, exactly the last `Depth` steps are undecided.

**Vote** (`VoteProofs`). The invariant `VoteInv` says that the output is what
`Decide` makes of the last costs and bits; the theorems are then about `Decide`.
The total weight of a set of codes is a sum over a finite set: the first part of the
module proves that the sum exists, is unique, splits over disjoint sets, and is
monotone and homogeneous. `VoteIsSymmetric` swaps the ones and the zeros of that
sum. `LeaderIsHeard` bounds every other weight by the leader's. `EvidenceIsHeeded`
has two cases: the cost that rises is not the least, and only one weight falls; or
it is the least, and every other weight changes, by one common factor
(`WeightIsGeometric`), which no comparison of shares can see.

**Multi-encoder** (`MultiEncoderProofs`). `EncoderInv` adds to the properties what
a flush has yet to shift in. The arithmetic heart is `FitsProduct`: the bound of an encode
call by division implies the bound by product, for every `n` and every size of the
input, and `FlushBound`: the bound of a flush is the true one where its product is an
`int`. Where it is not, `WrappedFlushIsAccepted` shows what the hypothesis in
`WritesInBounds` is for.

**Lifecycle** (`LifecycleProofs`). `NoLeak` and `NoDoubleFree` hold for all codes,
families, parameters and failing allocations. Neither is inductive: between two
steps of a create the set of live blocks depends on how far it has come. `IInv`
names, for each value of `pc`, the places built so far (`Made`) and says
`Holds(mem, Made, {})`: the live blocks are exactly the blocks those places point to,
every other place is NULL, and nothing has faulted. During a cleanup some freed
places still dangle; `Holds(m, S, T)` allows that of the places `T`. One lemma per
helper (`FreeHolds`, `NullHolds`, `AllocateHolds`, `ReallocateHolds`) says how it
moves `S` and `T`, and the cleanup lemmas follow from them, first the callee's, then
the caller's over what the callee left NULL.

`ObjectIsComplete` has an invariant of its own, `Complete`: the codes registered so
far are alike, and of each of them every edge up to the one registered last indexes
an entry of the list, which is that edge's output pattern (`GroupedTo`). Adding a
pattern never moves one, and a doubling of the list is always enough since one edge
adds at most one pattern.

**Branch metric** (`BranchMetricProofs`). `DiesOnlyOfErasure` is not inductive: a
trellis whose live nodes had all left the stream, or whose costs had grown without
end, would die of something else. `MetricInv` adds that a live node stands at a place
of the stream (`InWindow`) and that the cheapest node of a live trellis costs 0
(`Normal`). The proof then follows the cheapest node. Re-anchoring keeps it, since the
shift is chosen from it. From it some edge has a finite branch: where both indels are
possible, all expected bits deleted and the bits up to a next place inserted
(`IndelPath`); otherwise the diagonal of matches (`MatchPath`), unless one of the bits is
an erasure that costs infinity. That the last cell of such a path costs at most the sum
of its steps is shown cell by cell; here `Summable` enters.

`FastPathIsTheGeneralOne` shows that where the channel has no indels only the diagonal
of the alignment is finite, and that the fast form adds up that diagonal, bit by bit,
with the keeping of all bits paid at once (`DiagonalIsGroup`). Both passes then take the
first of equal arrivals in the same order, so that costs and backpointers agree from
any costs, at any place of any stream.

`SurvivorsAreTheCheapest` is proved at two levels.

* *An edge.* The reference of an edge is `Crossed`: the least over all increasing partial
  functions from the bits sent to the bits received, which knows no rows, cells or order
  of filling. Such a function ends in a deletion, an insertion or a match
  (`WaysComeFrom`), and each of these adds its cost to that of a smaller one
  (`DeletesGrow`, `InsertsGrow`, `MatchesGrow`; the toll of a set of matches is a sum over
  it). So a cell of the alignment *reckons* the ways to it: what it holds, if finite, is
  the cost of one of them, and none is cheaper (`Reckons`; `CellsReckon` by induction over
  the rows and, inside, over the cells). `AlignFillIsCheapest` is its last row.
* *A path.* `SurvivorsAreCheapest` is not inductive: it says nothing of how the sets of
  cheapest paths of two steps are related, nor that a cost may be added to without
  reaching `Infinite`. `SurvivorInv` names the recursions behind `CheapestPaths` and
  `TracedCost` as witnesses (`Walked`), says that the metric *carries* the first, that
  is, a live node stands for a path of the reference at its place in the stream and no
  path there is cheaper, and equals the second; that the cursor is where the recorded
  shifts put it (`Recorded`); and that a cost is at most what the steps so far can have
  cost (`Bounded`). In a step, the edge a node keeps comes from a live node of the
  re-anchored metric, whose path the reference has and extends by the same edge
  (`ArrivesOnto`); conversely every extension of the reference starts inside the window
  of the step, hence at a node that re-anchoring has kept, and the forward pass offers
  it (`NoMoveIsCheaper`). Normalisation moves a number from the metric to `total`
  (`NormalisedCarries`).

**Comparison and detection** (`CompareProofs`). The state machine has only the calls in
it; `CompareInv` says that an answer is the answer to its call, and every theorem is
then one about the operators under it.

* `NullSpaceIsTheComplement`. A check that two vectors obey is obeyed by their sum
  (`OddOfSymDiff`). Inserting a window keeps what the rows obey, and their leading bits
  apart (`EchelonFacts`); clearing the columns pivot by pivot does too and never brings
  a cleared column back (`ReducedFacts`); of such rows the checks read off, one for
  each column without pivot, are obeyed by all rows, independent, and any check that
  all rows obey is the sum of those whose free column it has (`FreeChecksFacts`).
* `SpectrumCountsWindows`. After stride `k` of the transform a bin holds a sum over the
  windows that agree with it on the bits not transformed yet, each with the sign of its
  parity on those that are (`Counts`); the proof is an induction over the strides. The
  basis made of it is independent because it is in echelon form, spans whatever was
  inserted, and adds nothing: what obeys all frequent vectors obeys each row that an
  insertion leaves.
* `SearchFindsACheapestPath`. `RowTracks` is the invariant of the rolling rows: a cell
  with a cost has the cost and the count of some path that ends there, and no path that
  ends there is cheaper. A path of one window more is a path and a step (`PathsGrow`),
  and the cells that a row leaves without a cost are those no path can reach.
* `SelfComparisonFits`. The scan carries a basis together with its own score
  (`ScanKeepsFit`), through every segment it skips, refuses or prefers.
* `DeclaresAtTheFirstRun`. The sum clamped at zero is the most evidence of any run of
  windows that ends here, the empty run included (`CusumRuns`); it reaches the threshold
  where the first such run does. What the steering phase hands over is a basis within
  the window (`SteeringType`), which takes the type of all that the alignment and the
  wide scan compute.
* `RepeatingIsNeverACode`. A stream that repeats after `q` groups has at most `q`
  different windows. Each halves at most the vectors that obey all windows
  (`FewWindowsKeepMany`), a basis of `b` checks spans at most `2^b` vectors
  (`SpanIsSmall`), so a basis that spans all that is obeyed has at least `width - q`
  checks (`BasisIsLarge`): with `q` at most `k`, more than a code of rate 1/n leaves
  (`RepeatingIsDegenerate`). This holds whichever way the basis is recovered, where the
  transform needs its spectrum at those vectors too, in every segment and at every phase
  (`TransformShowsNothing`, `SegmentShowsNothing`, `ScanShowsNothing`,
  `PhaseShowsNothing`).
* `RefusedBelowMinLength` turns the divisions of the length tests into products.

Every invariant and every action property that a passing run checks is the subject of a
theorem. Only model-checked is liveness (`FlushFinishes`): no prover here handles
fairness. Its safety halves are proved. By `CallsAreBounded` each turn of a call's loops
takes at least one from `LeftOfCall`, the room in the output plus the steps before the
pipeline is full, which is never negative: a call makes at most
`max_out + decision_depth` turns. By `FlushesAreSpent` all flushes together, with no
decode call in between, take every step and write every bit out of a natural number that
no flush adds to, at every rate below 1/1 and whatever the re-anchors: only finitely many
of them can return more than 0. That turns and calls are made at all is what fairness
adds. By `ImplementsCadence` the counterexample of run `rate1`, found in `Cadence`'s
counters, is one of loops that are the decoder's.

## Not modelled

* The confidence that `dv_detect_sequential` returns beside its bit index.
* Null pointers and indexes out of range in the argument checks: they return an
  error before anything is read.
* The table of standard generators (`encode.c:96-168`) is data.
* The width of `int` in the decoder's counters; `steps` and the buffer length
  stay far below it for a caller that takes its output.
* Of `stdlib/`, what is not the allocator: it forwards to the platform.
* `bench/dv_codesearch.c` is an offline search over generators, `metrics/` simulates
  channels with a pseudo-random generator and prints statistics; neither is linked
  into the library or keeps state a property could relate to it.

## Plan

Done, in order of importance: `DecodeCtx`, `Trellis`, `StreamDecoder`, `DecodeLog`,
`Cadence`, their proofs; `MultiDecoder`, `Vote`, `MultiEncoder`, their proofs;
`BranchMetric`; `DualSpace`, `CrossSatisfaction`, `Detect`, `Compare`; `Lifecycle` and
its proofs; then the proofs that walk the trail, bound the memory, count the votes
and complete the objects; the proofs about costs, elimination, transform, offset
search and sequential test; the counting behind `DegenerateIsNoCode` and the two
inductions behind `SurvivorsAreCheapest`; last, the end of repeated flushes, the
multi-decoder's decisions and the `int` products where they wrap.

Next: `Codec`, encoder and decoder end to end over a channel with one indel. By
`SurvivorsAreTheCheapest` what is left is that the sent message is the cheapest path.
