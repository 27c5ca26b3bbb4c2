----------------------------- MODULE Lifecycle -----------------------------
(* How the library's objects come into being and go: the code (encode.c),  *)
(* the single-stream decoder (decode.c), the multi-decoder                 *)
(* (multi_decode.c) and the multi-encoder (multi_encode.c).  Every         *)
(* allocation may fail, and a failed create must take back what was built. *)
(*                                                                         *)
(* A place is a pointer field.  Its blocks are numbered, so that a field   *)
(* may be NULL, point to a live block, or dangle; realloc moves a place to *)
(* its other block.  A field can be read only while the block that         *)
(* contains it is live.                                                    *)
EXTENDS Integers, Sequences, FiniteSets

CONSTANTS
    Null,          \* NULL in place of a code
    Codes,         \* code -> [K, generators], a generator the set of its taps
    CodeCalls,     \* arguments of dv_code_create, as [K, generators]
    Families,      \* codes of a create call: sequences over codes and Null
    MaxCodes,      \* bound on the codes of a call (model bound)
    Params,        \* dv_stream_params, probabilities in hundredths
    WidestDrift    \* DV_BP_MAX_DRIFT

ASSUME LifecycleAssumption ==
    /\ Null \notin DOMAIN Codes
    /\ MaxCodes \in Nat \ {0}
    /\ \A family \in Families :
           family \in Seq(DOMAIN Codes \cup {Null}) /\ Len(family) <= MaxCodes
    /\ WidestDrift \in Nat
    /\ \A c \in DOMAIN Codes :
           /\ Codes[c].K \in 2 .. 9
           /\ Codes[c].generators \in Seq(SUBSET Nat)
           /\ Codes[c].generators # << >>

VARIABLES
    pc,        \* "idle", "ready", or what the create call does next
    object,    \* [kind, family, params] of the object being built or in use
    built,     \* trellises, or entries of the encoder's array, made so far
    edge,      \* next edge of the newest trellis to be registered
    tables,    \* [patterns, cap, group_of, rows] of a decoder
    mem        \* [ptr, live, fault]: pointers, live blocks, a bad access seen

vars == <<pc, object, built, edge, tables, mem>>

----------------------------------------------------------------------------
(* Pointers and blocks                                                     *)

Handle == <<"handle", 0>>
Trellises == <<"trellises", 0>>
CodeArray == <<"codes", 0>>
PatternBits == <<"pattern_bits", 0>>
Received == <<"received", 0>>
AlignShared == <<"align_shared", 0>>
ScratchPlaces ==
    {"shift", "received", "pattern_bits", "alignment", "match_cost0",
     "match_cost1", "in_range"} \X {0}
ContextPlaces == ScratchPlaces \cup {AlignShared}
TablePlaces == {"generators", "next_state", "output"} \X {0}
TrellisPlaces(js) ==
    {"metric", "next_metric", "backpointers", "group_of"} \X js
Places ==
    {Handle, Trellises, CodeArray} \cup ContextPlaces \cup TablePlaces
        \cup TrellisPlaces(1 .. MaxCodes)

NoBlock == 0
Held(m, p) == m.ptr[p] # NoBlock
Block(m, p) == <<p, m.ptr[p]>>

\* The block a field lies in: those of a multi-decoder's trellises lie in
\* their array, all others in the object itself.
Owner(p) == IF p[2] # 0 /\ object.kind = "multi" THEN Trellises ELSE Handle
Readable(m, p) == p # Handle => Block(m, Owner(p)) \in m.live

\* dv_malloc for every place of ps, of which `granted` do not fail.
Fresh(m, p) == IF <<p, 1>> \in m.live THEN 2 ELSE 1
Allocate(m, ps, granted) ==
    [ptr   |-> [p \in Places |-> IF p \in granted THEN Fresh(m, p)
                                 ELSE IF p \in ps THEN NoBlock ELSE m.ptr[p]],
     live  |-> m.live \cup {<<p, Fresh(m, p)>> : p \in granted},
     fault |-> m.fault \/ \E p \in ps : ~Readable(m, p)]

\* dv_free of every place of ps; NULL is let pass.
Free(m, ps) ==
    [m EXCEPT
        !.live = @ \ {Block(m, p) : p \in ps},
        !.fault = @ \/ \E p \in ps :
                          \/ ~Readable(m, p)
                          \/ Held(m, p) /\ Block(m, p) \notin m.live]

SetNull(m, ps) ==
    [m EXCEPT !.ptr = [p \in Places |-> IF p \in ps THEN NoBlock ELSE @[p]]]

\* dv_realloc of one place that succeeds: the content moves, the old is freed.
Reallocate(m, p) ==
    LET moved == Allocate(m, {p}, {p})
    IN  [moved EXCEPT !.live = @ \ {Block(m, p)},
                      !.fault = @ \/ Block(m, p) \notin m.live]

----------------------------------------------------------------------------
(* Release                                                                 *)

\* Mutant: the freed pointers are left behind.
Mutant_ContextFree(m) == Free(m, ContextPlaces)

\* dv_decode_ctx_free and dv_trellis_free leave NULL behind what they free:
\* a multi-decoder whose context or trellis failed to build frees it twice.
ContextFree(m) == SetNull(Free(m, ContextPlaces), ContextPlaces)
TrellisFree(m, js) == SetNull(Free(m, TrellisPlaces(js)), TrellisPlaces(js))

StreamDestroy(m) == Free(ContextFree(TrellisFree(m, {1})), {Handle})

\* dv_multi_destroy
MultiDestroy(m) ==
    LET all == DOMAIN object.family
        trellisless == IF Held(m, Trellises)
                       THEN Free(TrellisFree(m, all), {Trellises})
                       ELSE m
    IN  Free(ContextFree(trellisless), {Handle})

Destroyed(m) ==
    CASE object.kind = "stream"  -> StreamDestroy(m)
      [] object.kind = "multi"   -> MultiDestroy(m)
      [] object.kind = "encoder" -> Free(Free(m, {CodeArray}), {Handle})
      [] object.kind = "code"    -> Free(Free(m, TablePlaces), {Handle})

\* Mutant: a trellis that fails to build takes its context for granted.
Mutant_StreamUndo(m) ==
    IF pc = "finalize" THEN StreamDestroy(m) ELSE Free(m, {Handle})

\* What dv_stream_decoder_create frees itself when the step `pc` fails: the
\* step that failed has already freed its own.
StreamUndo(m) ==
    CASE pc = "context" -> Free(m, {Handle})
      [] pc = "finalize" -> StreamDestroy(m)
      [] OTHER -> Free(ContextFree(m), {Handle})

NoObject == [kind |-> "none", family |-> << >>, params |-> Null]
NoTables == [patterns |-> << >>, cap |-> 0, group_of |-> << >>, rows |-> 0]

\* A create call fails: everything goes, and the caller gets NULL.
Gone(m) ==
    /\ pc' = "idle"
    /\ object' = NoObject /\ tables' = NoTables
    /\ built' = 0 /\ edge' = 0
    /\ mem' = m

Abandon(m) ==
    Gone(IF object.kind = "stream" THEN StreamUndo(m) ELSE Destroyed(m))

----------------------------------------------------------------------------
(* Codes                                                                   *)

\* dv_code_n and dv_code_k, -1 for NULL.
CodeN(c) == IF c = Null THEN -1 ELSE Len(Codes[c].generators)
CodeK(c) == IF c = Null THEN -1 ELSE Codes[c].K
EdgeCount(c) == 2 * 2 ^ (CodeK(c) - 1)

\* The set bits of the register on edge 2 * state + bit, and the row of
\* output bits of that edge.
Register(c, e) ==
    {i \in 0 .. (CodeK(c) - 2) : ((e \div 2) \div 2 ^ i) % 2 = 1}
        \cup {i \in {CodeK(c) - 1} : e % 2 = 1}
Row(c, e) ==
    [j \in 1 .. CodeN(c) |->
        Cardinality(Codes[c].generators[j] \cap Register(c, e)) % 2]

First == object.family[1]
Newest == object.family[built]
Mismatch(c) == CodeN(c) # CodeN(First) \/ CodeK(c) # CodeK(First)

\* dv_decode_ctx_init: what it refuses.
Refused(params) ==
    \/ params.decision_depth < 1 \/ params.max_drift < 0
    \/ params.p_sub \notin 1 .. 99 \/ params.p_erase \notin 0 .. 99
    \/ params.p_ins + params.p_del >= 100
    \/ params.p_ins < 0 \/ params.p_del < 0
    \/ params.max_drift > 0 /\ (params.p_ins = 0 \/ params.p_del = 0)

----------------------------------------------------------------------------
Init ==
    /\ pc = "idle"
    /\ object = NoObject /\ tables = NoTables
    /\ built = 0 /\ edge = 0
    /\ mem = [ptr |-> [p \in Places |-> NoBlock], live |-> {},
              fault |-> FALSE]

\* A create call whose arguments pass: the object is callocated, or is not.
Begin(kind, family, params, next) ==
    /\ pc = "idle"
    /\ \/ /\ mem' = SetNull(Allocate(mem, {Handle}, {Handle}),
                          Places \ {Handle})
          /\ object' = [kind |-> kind, family |-> family, params |-> params]
          /\ pc' = next
       \/ UNCHANGED <<mem, object, pc>>
    /\ UNCHANGED <<built, edge, tables>>

StreamCreate ==
    \E c \in DOMAIN Codes, params \in Params :
        Begin("stream", <<c>>, params, "context")

MultiCreate ==
    \E family \in Families, params \in Params :
        Begin("multi", family, params,
              IF family = << >> THEN "ready" ELSE "context")

EncoderCreate ==
    \E family \in Families :
        Begin("encoder", family, Null,
              IF family = << >> THEN "ready" ELSE "array")

CodeCreate ==
    \E call \in CodeCalls :
        /\ call.K \in 2 .. 9 /\ call.generators # << >>
        /\ Begin("code", << >>, call, "tables")

\* The three tables of dv_code_create.
CodeTables ==
    /\ pc = "tables"
    /\ \E granted \in SUBSET TablePlaces :
           LET m == Allocate(mem, TablePlaces, granted)
           IN  \/ /\ granted = TablePlaces
                  /\ pc' = "ready" /\ mem' = m
                  /\ UNCHANGED <<object, built, edge, tables>>
               \/ granted # TablePlaces /\ Abandon(m)

\* dv_decode_ctx_init refuses NULL and bad parameters, then makes its buffers.
ContextRefused ==
    /\ pc = "context"
    /\ First = Null \/ Refused(object.params)
    /\ Abandon(mem)

ContextInit ==
    /\ pc = "context"
    /\ First # Null /\ ~Refused(object.params)
    /\ \E granted \in SUBSET ScratchPlaces :
           LET m == SetNull(Allocate(mem, ScratchPlaces, granted),
                            {AlignShared})
           IN  \/ /\ granted = ScratchPlaces
                  /\ mem' = m
                  /\ pc' = IF object.kind = "stream" THEN "trellis"
                           ELSE "array"
                  /\ tables' = [tables EXCEPT !.cap = EdgeCount(First)]
                  /\ UNCHANGED <<object, built, edge>>
               \/ granted # ScratchPlaces /\ Abandon(ContextFree(m))

\* The array of trellises of a multi-decoder, or of codes of an encoder.
ArrayInit ==
    LET array == IF object.kind = "multi" THEN Trellises ELSE CodeArray
        m == SetNull(Allocate(mem, {array}, {array}),
                     TrellisPlaces(1 .. MaxCodes))
    IN  /\ pc = "array"
        /\ \/ /\ mem' = m
              /\ pc' = IF object.kind = "multi" THEN "trellis" ELSE "entry"
              /\ UNCHANGED <<object, built, edge, tables>>
           \/ Abandon(Allocate(mem, {array}, {}))

Upcoming == object.family[built + 1]

\* A code that does not share rate and length with the first (a NULL has
\* neither), or a drift window the packed backpointer cannot hold.
TrellisRefused ==
    /\ pc = "trellis"
    /\ Mismatch(Upcoming) \/ 2 * object.params.max_drift > WidestDrift
    /\ Abandon(mem)

\* dv_trellis_init: the four arrays of the next trellis.
TrellisInit ==
    /\ pc = "trellis"
    /\ ~Mismatch(Upcoming) /\ 2 * object.params.max_drift <= WidestDrift
    /\ \E granted \in SUBSET TrellisPlaces({built + 1}) :
           LET places == TrellisPlaces({built + 1})
               m == Allocate(mem, places, granted)
           IN  \/ /\ granted = places
                  /\ mem' = m
                  /\ pc' = "register" /\ built' = built + 1 /\ edge' = 0
                  /\ tables' = [tables EXCEPT !.group_of = Append(@, << >>)]
                  /\ UNCHANGED object
               \/ granted # places /\ Abandon(TrellisFree(m, {built + 1}))

\* register_patterns has given the edge a group: on to the next edge, the
\* next trellis, or the table of alignments.
Grouped(index, cap) ==
    /\ tables' = [tables EXCEPT
           !.group_of[built] = Append(@, index),
           !.patterns = IF index > Len(@) THEN Append(@, Row(Newest, edge))
                        ELSE @,
           !.cap = cap]
    /\ IF edge + 1 < EdgeCount(First)
       THEN edge' = edge + 1 /\ UNCHANGED pc
       ELSE /\ edge' = 0
            /\ pc' = IF built < Len(object.family) THEN "trellis"
                     ELSE "finalize"
    /\ UNCHANGED <<object, built>>

Known ==
    {i \in DOMAIN tables.patterns : tables.patterns[i] = Row(Newest, edge)}
NewPattern == Len(tables.patterns) + 1

\* Mutant: the list grows one pattern too late.
Mutant_Full == NewPattern > tables.cap + 1

Full == NewPattern > tables.cap

\* register_patterns, one edge: a pattern seen before, in this code or in
\* another, a new one, and a new one that needs the list doubled.
PatternKnown ==
    /\ pc = "register"
    /\ \E i \in Known : (\A k \in Known : i <= k) /\ Grouped(i, tables.cap)
    /\ UNCHANGED mem

PatternAdded ==
    /\ pc = "register" /\ Known = {} /\ ~Full
    /\ Grouped(NewPattern, tables.cap)
    /\ UNCHANGED mem

PatternGrows ==
    /\ pc = "register" /\ Known = {} /\ Full
    /\ \/ /\ Grouped(NewPattern, 2 * tables.cap)
          /\ mem' = Reallocate(mem, PatternBits)
       \/ Abandon(TrellisFree(mem, {built}))

\* dv_decode_ctx_finalize: one row of alignments for each pattern.
Finalize ==
    LET freed == Free(mem, {AlignShared})
        rows == IF tables.patterns = << >> THEN 1 ELSE Len(tables.patterns)
    IN  /\ pc = "finalize"
        /\ \/ /\ mem' = Allocate(freed, {AlignShared}, {AlignShared})
              /\ tables' = [tables EXCEPT !.rows = rows]
              /\ pc' = "ready"
              /\ UNCHANGED <<object, built, edge>>
           \/ Abandon(Allocate(freed, {AlignShared}, {}))

\* dv_multi_encode_create, one slot of the array.
EncoderEntry ==
    /\ pc = "entry"
    /\ IF Upcoming = Null \/ Mismatch(Upcoming)
       THEN Abandon(mem)
       ELSE /\ built' = built + 1
            /\ pc' = IF built + 1 < Len(object.family) THEN "entry"
                     ELSE "ready"
            /\ UNCHANGED <<object, edge, tables, mem>>

\* A decoder in use: reserve_received enlarges the buffer, or cannot.
BufferGrows ==
    /\ pc = "ready" /\ object.kind \in {"stream", "multi"}
    /\ object.family # << >>
    /\ mem' = Reallocate(mem, Received)
    /\ UNCHANGED <<pc, object, built, edge, tables>>

Destroy == pc = "ready" /\ Gone(Destroyed(mem))

Next ==
    \/ StreamCreate \/ MultiCreate \/ EncoderCreate \/ CodeCreate
    \/ CodeTables \/ ContextRefused \/ ContextInit \/ ArrayInit
    \/ TrellisRefused \/ TrellisInit
    \/ PatternKnown \/ PatternAdded \/ PatternGrows \/ Finalize
    \/ EncoderEntry \/ BufferGrows \/ Destroy

Spec == Init /\ [][Next]_vars

----------------------------------------------------------------------------
(* Properties                                                              *)

\* Nothing leaks: between objects no block is live, and a finished object
\* holds a pointer to every live block.  A create that fails in the middle
\* (decode.c:845, multi_decode.c:65) has freed exactly what it had built.
NothingLeaks ==
    /\ pc = "idle" => mem.live = {}
    /\ pc = "ready" =>
           mem.live = {Block(mem, p) : p \in {q \in Places : Held(mem, q)}}

\* No block is freed twice, and no pointer is read in a block that has been
\* freed, whichever of the two functions that see a failure frees first
\* (dv_decode_ctx_init and dv_trellis_init, and then their caller).
FreedOnce == ~mem.fault

\* The fields of a finished object.
RequiredPlaces ==
    {Handle}
        \cup (IF object.kind = "code" THEN TablePlaces ELSE {})
        \cup (IF object.kind = "encoder" /\ object.family # << >>
              THEN {CodeArray} ELSE {})
        \cup (IF object.kind = "multi" /\ object.family # << >>
              THEN {Trellises} ELSE {})
        \cup (IF object.kind \in {"stream", "multi"} /\ object.family # << >>
              THEN ContextPlaces \cup TrellisPlaces(DOMAIN object.family)
              ELSE {})

\* An object a caller gets is complete: all its fields are there, its codes
\* share one geometry, and in a decoder every edge of every code finds its
\* own output row in the union of patterns, which lists no row twice and has
\* room, and a row of alignments, for each (register_patterns,
\* dv_decode_ctx_finalize).
ReadyIsComplete ==
    pc = "ready" =>
        /\ RequiredPlaces = {p \in Places : Held(mem, p)}
        /\ \A j \in DOMAIN object.family :
               object.family[j] # Null /\ ~Mismatch(object.family[j])
        /\ object.kind \in {"stream", "multi"} =>
               /\ tables.rows = Len(tables.patterns) \/ object.family = << >>
               /\ Len(tables.patterns) <= tables.cap
               /\ \A j, k \in DOMAIN tables.patterns :
                      tables.patterns[j] = tables.patterns[k] => j = k
               /\ \A j \in DOMAIN object.family :
                      \A e \in 0 .. (EdgeCount(First) - 1) :
                          tables.patterns[tables.group_of[j][e + 1]]
                              = Row(object.family[j], e)

=============================================================================
