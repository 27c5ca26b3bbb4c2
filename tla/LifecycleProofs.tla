-------------------------- MODULE LifecycleProofs --------------------------
(* For every family of codes, every parameter and every pattern of failing *)
(* allocations: nothing leaks, and nothing is freed twice or read after it *)
(* was freed, and what a caller gets is complete.                          *)
(*                                                                         *)
(* The argument for the memory is a discipline of pointers. Holds(m, S, T) *)
(* says that the live blocks are those of the places S, that all pointers  *)
(* outside T are NULL unless they are in S, and that those in T may        *)
(* dangle. malloc and free move places between the three; NULL takes a     *)
(* place out of T; what is freed must not be in T. The invariant names S   *)
(* for every step of a create call, with T empty.                          *)
EXTENDS Lifecycle, FiniteSetTheorems, TLAPS

Memory ==
    [ptr : [Places -> 0 .. 2], live : SUBSET (Places \X (1 .. 2)),
     fault : BOOLEAN]

Holds(m, S, T) ==
    /\ m \in Memory
    /\ ~m.fault
    /\ S \subseteq Places /\ T \subseteq Places /\ S \cap T = {}
    /\ m.live = {Block(m, p) : p \in S}
    /\ \A p \in Places \ T : Held(m, p) <=> p \in S

Owned(ps, S) == \A p \in ps : p # Handle => Owner(p) \in S

\* What is read lies in a live block.
LEMMA OwnedIsReadable ==
    ASSUME NEW m, NEW S, NEW T, Holds(m, S, T), NEW ps, Owned(ps, S)
    PROVE  \A p \in ps : Readable(m, p)
BY DEF Holds, Owned, Readable

\* dv_free of places that do not dangle leaves them dangling.
LEMMA FreeHolds ==
    ASSUME NEW m, NEW S, NEW T, Holds(m, S, T),
           NEW ps \in SUBSET Places, ps \cap T = {}, Owned(ps, S)
    PROVE  Holds(Free(m, ps), S \ ps, T \cup ps)
<1>1. \A p \in ps : Readable(m, p)
  BY OwnedIsReadable
<1>2. \A p \in ps : Held(m, p) => Block(m, p) \in m.live
  BY DEF Holds
<1>3. Free(m, ps) \in Memory /\ ~Free(m, ps).fault
  BY <1>1, <1>2 DEF Holds, Free, Memory
<1>4. /\ Free(m, ps).ptr = m.ptr
      /\ Free(m, ps).live = m.live \ {Block(m, p) : p \in ps}
  BY DEF Holds, Free, Memory
<1>5. Free(m, ps).live = {Block(Free(m, ps), p) : p \in S \ ps}
  BY <1>4 DEF Holds, Block
<1>6. QED
  BY <1>3, <1>4, <1>5 DEF Holds, Held

\* A dangling pointer that is set to NULL no longer dangles.
LEMMA NullHolds ==
    ASSUME NEW m, NEW S, NEW T, Holds(m, S, T),
           NEW ps \in SUBSET Places, ps \cap S = {}
    PROVE  Holds(SetNull(m, ps), S, T \ ps)
<1> DEFINE r == SetNull(m, ps)
<1>1. r \in Memory /\ r.live = m.live /\ r.fault = m.fault
  BY DEF Holds, SetNull, Memory, NoBlock
<1>2. \A p \in Places : r.ptr[p] = IF p \in ps THEN NoBlock ELSE m.ptr[p]
  BY DEF Holds, SetNull, Memory
<1>3. r.live = {Block(r, p) : p \in S}
  BY <1>1, <1>2 DEF Holds, Block
<1>4. \A p \in Places \ (T \ ps) : Held(r, p) <=> p \in S
  BY <1>2 DEF Holds, Held
<1>5. QED
  BY <1>1, <1>3, <1>4 DEF Holds

\* dv_malloc makes live what it grants and NULL what it does not.
LEMMA AllocateHolds ==
    ASSUME NEW m, NEW S, NEW T, Holds(m, S, T),
           NEW ps \in SUBSET Places, ps \cap S = {}, Owned(ps, S),
           NEW granted \in SUBSET ps
    PROVE  Holds(Allocate(m, ps, granted), S \cup granted, T \ ps)
<1> DEFINE r == Allocate(m, ps, granted)
<1>1. \A p \in ps : Readable(m, p)
  BY OwnedIsReadable
<1>2. \A p : Fresh(m, p) \in 1 .. 2
  BY DEF Fresh
<1>3. r \in Memory /\ ~r.fault
  BY <1>1, <1>2 DEF Holds, Allocate, Memory, NoBlock
<1>4. /\ r.live = m.live \cup {<<p, Fresh(m, p)>> : p \in granted}
      /\ \A p \in Places :
             r.ptr[p] = IF p \in granted THEN Fresh(m, p)
                        ELSE IF p \in ps THEN NoBlock ELSE m.ptr[p]
  BY DEF Allocate
<1>5. r.live = {Block(r, p) : p \in S \cup granted}
  BY <1>4 DEF Holds, Block
<1>6. \A p \in Places \ (T \ ps) : Held(r, p) <=> p \in S \cup granted
  BY <1>2, <1>4 DEF Holds, Held, NoBlock
<1>7. QED
  BY <1>3, <1>5, <1>6 DEF Holds

\* dv_realloc moves a live place to a new block and frees the old one.
LEMMA ReallocateHolds ==
    ASSUME NEW m, NEW S, NEW T, Holds(m, S, T), NEW p \in S, Owned({p}, S)
    PROVE  Holds(Reallocate(m, p), S, T)
<1> DEFINE r == Reallocate(m, p)
<1>1. Readable(m, p) /\ Block(m, p) \in m.live
  BY OwnedIsReadable DEF Holds
<1>2. Fresh(m, p) \in 1 .. 2 /\ Fresh(m, p) # m.ptr[p]
  BY <1>1 DEF Fresh, Holds, Memory, Block
<1> DEFINE moved == Allocate(m, {p}, {p})
<1>3. /\ moved \in Memory /\ ~moved.fault
      /\ moved.live = m.live \cup {<<p, Fresh(m, p)>>}
      /\ \A q \in Places :
             moved.ptr[q] = IF q = p THEN Fresh(m, p) ELSE m.ptr[q]
  BY <1>1, <1>2 DEF Holds, Allocate, Memory
<1>4. r = [moved EXCEPT !.live = moved.live \ {Block(m, p)},
                       !.fault = moved.fault \/ Block(m, p) \notin m.live]
  BY DEF Reallocate
<1> HIDE DEF moved, r
<1>5. /\ r \in Memory /\ ~r.fault
      /\ r.live = (m.live \cup {<<p, Fresh(m, p)>>}) \ {Block(m, p)}
      /\ \A q \in Places : r.ptr[q] = IF q = p THEN Fresh(m, p) ELSE m.ptr[q]
  BY <1>1, <1>3, <1>4 DEF Memory
<1>6. r.live = {Block(r, q) : q \in S}
  BY <1>2, <1>5 DEF Holds, Block
<1>7. \A q \in Places \ T : Held(r, q) <=> q \in S
  BY <1>2, <1>5 DEF Holds, Held, NoBlock
<1>8. QED
  BY <1>5, <1>6, <1>7 DEF Holds, r

----------------------------------------------------------------------------
(* Release                                                                 *)

\* dv_decode_ctx_free may be called again: it leaves nothing dangling.
LEMMA ContextFreeHolds ==
    ASSUME NEW m, NEW S, NEW T, Holds(m, S, T),
           ContextPlaces \cap T = {}, Handle \in S
    PROVE  Holds(ContextFree(m), S \ ContextPlaces, T)
<1>1. ContextPlaces \subseteq Places /\ Owned(ContextPlaces, S)
  BY DEF Places, Owned, Owner, ContextPlaces, ScratchPlaces, AlignShared
<1>2. Holds(Free(m, ContextPlaces), S \ ContextPlaces, T \cup ContextPlaces)
  BY <1>1, FreeHolds
<1>3. Holds(ContextFree(m), S \ ContextPlaces,
            (T \cup ContextPlaces) \ ContextPlaces)
  BY <1>1, <1>2, NullHolds DEF ContextFree
<1>4. (T \cup ContextPlaces) \ ContextPlaces = T
  OBVIOUS
<1>5. QED
  BY <1>3, <1>4

\* dv_trellis_free may be called again, on a trellis that was never made too.
LEMMA TrellisFreeHolds ==
    ASSUME NEW m, NEW S, NEW T, Holds(m, S, T),
           NEW js \in SUBSET (1 .. MaxCodes), TrellisPlaces(js) \cap T = {},
           Owned(TrellisPlaces(js), S)
    PROVE  Holds(TrellisFree(m, js), S \ TrellisPlaces(js), T)
<1>1. TrellisPlaces(js) \subseteq Places
  BY DEF Places, TrellisPlaces
<1>2. Holds(Free(m, TrellisPlaces(js)), S \ TrellisPlaces(js),
            T \cup TrellisPlaces(js))
  BY <1>1, FreeHolds
<1>3. Holds(TrellisFree(m, js), S \ TrellisPlaces(js),
            (T \cup TrellisPlaces(js)) \ TrellisPlaces(js))
  BY <1>1, <1>2, NullHolds DEF TrellisFree
<1>4. (T \cup TrellisPlaces(js)) \ TrellisPlaces(js) = T
  OBVIOUS
<1>5. QED
  BY <1>3, <1>4

\* The object itself goes last: nothing is live any more.
LEMMA HandleFreeHolds ==
    ASSUME NEW m, NEW S, NEW T, Holds(m, S, T), S = {Handle}
    PROVE  Holds(Free(m, {Handle}), {}, Places)
<1>1. {Handle} \in SUBSET Places /\ {Handle} \cap T = {}
  BY DEF Holds
<1>2. Owned({Handle}, S)
  BY DEF Owned
<1>3. Holds(Free(m, {Handle}), S \ {Handle}, T \cup {Handle})
  BY <1>1, <1>2, FreeHolds
<1>4. QED
  BY <1>3 DEF Holds

LEMMA StreamDestroyHolds ==
    ASSUME NEW m, NEW S, Holds(m, S, {}), Handle \in S,
           object.kind = "stream", MaxCodes \in Nat \ {0},
           S \subseteq {Handle} \cup ContextPlaces \cup TrellisPlaces({1})
    PROVE  Holds(StreamDestroy(m), {}, Places)
<1>1. Owned(TrellisPlaces({1}), S) /\ {1} \in SUBSET (1 .. MaxCodes)
  BY DEF Owned, Owner
<1>2. Handle \notin ContextPlaces \cup TrellisPlaces({1})
  BY DEF Handle, ContextPlaces, ScratchPlaces, AlignShared, TrellisPlaces
<1>3. Holds(TrellisFree(m, {1}), S \ TrellisPlaces({1}), {})
  BY <1>1, TrellisFreeHolds
<1>4. Holds(ContextFree(TrellisFree(m, {1})),
            (S \ TrellisPlaces({1})) \ ContextPlaces, {})
  BY <1>2, <1>3, ContextFreeHolds
<1>5. (S \ TrellisPlaces({1})) \ ContextPlaces = {Handle}
  BY <1>2
<1>6. QED
  BY <1>4, <1>5, HandleFreeHolds DEF StreamDestroy

LEMMA MultiDestroyHolds ==
    ASSUME NEW m, NEW S, Holds(m, S, {}), Handle \in S,
           object.kind = "multi", MaxCodes \in Nat \ {0},
           NEW all, all = DOMAIN object.family, all \in SUBSET (1 .. MaxCodes),
           S \subseteq {Handle, Trellises} \cup ContextPlaces
                           \cup TrellisPlaces(all),
           Trellises \notin S => S \cap TrellisPlaces(all) = {}
    PROVE  Holds(MultiDestroy(m), {}, Places)
<1> DEFINE trellisless == IF Held(m, Trellises)
                          THEN Free(TrellisFree(m, all), {Trellises}) ELSE m
<1>1. /\ Handle \notin {Trellises} \cup ContextPlaces \cup TrellisPlaces(all)
      /\ Trellises \notin ContextPlaces \cup TrellisPlaces(all)
      /\ ContextPlaces \cap TrellisPlaces(all) = {}
      /\ Trellises \in Places
      /\ Owner(Trellises) = Handle
  BY DEF Handle, Trellises, ContextPlaces, ScratchPlaces, AlignShared,
         TrellisPlaces, Places, Owner
<1>2. PICK T \in SUBSET {Trellises} :
          Holds(trellisless, S \ ({Trellises} \cup TrellisPlaces(all)), T)
  <2>1. CASE Trellises \in S
    <3>1. Owned(TrellisPlaces(all), S)
      BY <2>1, <1>1 DEF Owned, Owner, TrellisPlaces
    <3>2. Holds(TrellisFree(m, all), S \ TrellisPlaces(all), {})
      BY <3>1, TrellisFreeHolds
    <3>3. Owned({Trellises}, S \ TrellisPlaces(all))
      BY <1>1 DEF Owned
    <3>4. Holds(Free(TrellisFree(m, all), {Trellises}),
                (S \ TrellisPlaces(all)) \ {Trellises}, {} \cup {Trellises})
      BY <1>1, <3>2, <3>3, FreeHolds
    <3>5. Held(m, Trellises)
      BY <2>1, <1>1 DEF Holds
    <3>6. (S \ TrellisPlaces(all)) \ {Trellises}
              = S \ ({Trellises} \cup TrellisPlaces(all))
      OBVIOUS
    <3>7. QED
      BY <3>4, <3>5, <3>6
  <2>2. CASE Trellises \notin S
    <3>1. ~Held(m, Trellises)
      BY <2>2, <1>1 DEF Holds
    <3>2. S \ ({Trellises} \cup TrellisPlaces(all)) = S
      BY <2>2
    <3>3. QED
      BY <3>1, <3>2
  <2>3. QED
    BY <2>1, <2>2
<1> DEFINE R == S \ ({Trellises} \cup TrellisPlaces(all))
<1> HIDE DEF trellisless
<1>3. Holds(ContextFree(trellisless), R \ ContextPlaces, T)
  BY <1>1, <1>2, ContextFreeHolds
<1>4. R \ ContextPlaces = {Handle}
  BY <1>1
<1>5. Holds(Free(ContextFree(trellisless), {Handle}), {}, Places)
  BY <1>3, <1>4, HandleFreeHolds
<1>6. QED
  BY <1>5 DEF MultiDestroy, trellisless

\* Of an encoder or a code, whose fields are freed once and left behind.
LEMMA FlatDestroyHolds ==
    ASSUME NEW m, NEW S, Holds(m, S, {}), Handle \in S,
           NEW ps \in SUBSET Places, S \subseteq {Handle} \cup ps,
           Handle \notin ps, Owned(ps, S)
    PROVE  Holds(Free(Free(m, ps), {Handle}), {}, Places)
<1>1. Holds(Free(m, ps), S \ ps, {} \cup ps)
  BY FreeHolds
<1>2. S \ ps = {Handle}
  OBVIOUS
<1>3. QED
  BY <1>1, <1>2, HandleFreeHolds

----------------------------------------------------------------------------
(* The invariant                                                           *)

Contained == IF object.kind = "multi" THEN {Trellises} ELSE {}

\* The places that have been made when the create call stands at `pc`.
Made ==
    IF pc = "idle" THEN {}
    ELSE IF pc \in {"tables", "context"} THEN {Handle}
    ELSE IF pc = "array"
         THEN {Handle} \cup IF object.kind = "multi" THEN ScratchPlaces ELSE {}
    ELSE IF pc = "entry" THEN {Handle, CodeArray}
    ELSE IF pc = "ready" THEN RequiredPlaces
    ELSE {Handle} \cup ScratchPlaces \cup Contained
             \cup TrellisPlaces(1 .. built)

\* Where a create call may stand for each kind of object.
Shape ==
    /\ pc \in {"idle", "tables", "context", "array", "entry", "trellis",
               "register", "finalize", "ready"}
    /\ pc # "idle" =>
           /\ object.kind \in {"stream", "multi", "encoder", "code"}
           /\ object.family \in Seq(DOMAIN Codes \cup {Null})
           /\ Len(object.family) <= MaxCodes
           /\ object.kind = "stream" => Len(object.family) = 1
    /\ pc = "tables" => object.kind = "code"
    /\ pc = "array" => object.kind \in {"multi", "encoder"}
    /\ pc = "entry" => object.kind = "encoder"
    /\ pc \in {"context", "trellis", "register", "finalize"} =>
           object.kind \in {"stream", "multi"}
    /\ pc \notin {"idle", "tables", "ready"} => object.family # << >>
    /\ pc \in {"idle", "context", "array"} => built = 0
    /\ built \in Nat
    /\ pc \in {"entry", "trellis"} => built < Len(object.family)
    /\ pc = "register" => built \in 1 .. Len(object.family)
    /\ pc = "finalize" => built = Len(object.family)

IInv ==
    /\ Shape
    /\ Holds(mem, Made, IF pc = "idle" THEN Places ELSE {})

LEMMA InitIInv == Init => IInv
<1> SUFFICES ASSUME Init PROVE IInv
  OBVIOUS
<1>1. Shape
  BY DEF Init, Shape
<1>2. mem \in Memory
  BY DEF Init, Memory, NoBlock
<1>3. QED
  BY <1>1, <1>2 DEF Init, IInv, Holds, Made, Block

\* Once an object is gone nothing of it is left.
LEMMA GoneIInv ==
    ASSUME NEW m, Holds(m, {}, Places), Gone(m)
    PROVE  IInv'
<1>1. Shape'
  BY DEF Gone, Shape, NoObject
<1>2. Holds(mem', {}, Places)
  BY DEF Gone
<1>3. pc' = "idle"
  BY DEF Gone
<1>4. QED
  BY <1>1, <1>2, <1>3 DEF IInv, Made, Holds, Held, Block, Memory

\* The places an object of its kind can have, given what its trellises are in.
Manageable(S) ==
    /\ Handle \in S
    /\ object.kind = "multi" =>
           /\ S \subseteq {Handle, Trellises} \cup ContextPlaces
                              \cup TrellisPlaces(DOMAIN object.family)
           /\ Trellises \notin S =>
                  S \cap TrellisPlaces(DOMAIN object.family) = {}
    /\ object.kind = "encoder" => S \subseteq {Handle, CodeArray}
    /\ object.kind = "code" => S \subseteq {Handle} \cup TablePlaces
    /\ object.kind = "stream" =>
           S \subseteq {Handle} \cup ContextPlaces \cup TrellisPlaces({1})

LEMMA FamilyDomain ==
    ASSUME Shape, pc # "idle"
    PROVE  /\ DOMAIN object.family \in SUBSET (1 .. MaxCodes)
           /\ object.kind = "stream" => DOMAIN object.family = {1}
<1>1. /\ DOMAIN object.family = 1 .. Len(object.family)
      /\ Len(object.family) \in Nat /\ Len(object.family) <= MaxCodes
  BY DEF Shape
<1>2. MaxCodes \in Nat
  BY LifecycleAssumption
<1>3. \A i \in 1 .. Len(object.family) : i \in 1 .. MaxCodes
  BY <1>1, <1>2
<1>4. object.kind = "stream" => Len(object.family) = 1
  BY DEF Shape
<1>5. 1 .. 1 = {1}
  OBVIOUS
<1>6. QED
  BY <1>1, <1>3, <1>4, <1>5

\* The public destroy functions, whatever is missing.
LEMMA DestroyedHolds ==
    ASSUME Shape, pc # "idle", NEW m, NEW S, Holds(m, S, {}), Manageable(S)
    PROVE  Holds(Destroyed(m), {}, Places)
<1>1. CASE object.kind = "stream"
  BY <1>1, StreamDestroyHolds, LifecycleAssumption DEF Destroyed, Manageable
<1>2. CASE object.kind = "multi"
  BY <1>2, FamilyDomain, MultiDestroyHolds, LifecycleAssumption
     DEF Destroyed, Manageable
<1>3. CASE object.kind = "encoder"
  <2>1. {CodeArray} \in SUBSET Places /\ Handle \notin {CodeArray}
    BY DEF Places, Handle, CodeArray
  <2>2. Owned({CodeArray}, S)
    BY DEF Owned, Owner, CodeArray, Manageable
  <2>3. Holds(Free(Free(m, {CodeArray}), {Handle}), {}, Places)
    BY <1>3, <2>1, <2>2, FlatDestroyHolds DEF Manageable
  <2>4. QED
    BY <1>3, <2>3 DEF Destroyed
<1>4. CASE object.kind = "code"
  <2>1. TablePlaces \in SUBSET Places /\ Handle \notin TablePlaces
    BY DEF Places, Handle, TablePlaces
  <2>2. Owned(TablePlaces, S)
    BY DEF Owned, Owner, TablePlaces, Manageable
  <2>3. Holds(Free(Free(m, TablePlaces), {Handle}), {}, Places)
    BY <1>4, <2>1, <2>2, FlatDestroyHolds DEF Manageable
  <2>4. QED
    BY <1>4, <2>3 DEF Destroyed
<1>5. QED
  BY <1>1, <1>2, <1>3, <1>4 DEF Shape

\* A create call that fails leaves nothing: what dv_stream_decoder_create
\* frees itself fits what the step that failed has left.
LEMMA AbandonIInv ==
    ASSUME Shape, pc # "idle", NEW m, NEW S, Holds(m, S, {}), Manageable(S),
           object.kind = "stream" =>
               /\ pc \in {"context", "trellis", "register", "finalize"}
               /\ pc = "context" => S = {Handle}
               /\ pc \in {"trellis", "register"} =>
                      S \subseteq {Handle} \cup ContextPlaces,
           Abandon(m)
    PROVE  IInv'
<1>1. CASE object.kind # "stream"
  BY <1>1, DestroyedHolds, GoneIInv DEF Abandon
<1>2. CASE object.kind = "stream"
  <2>1. Gone(StreamUndo(m))
    BY <1>2 DEF Abandon
  <2>2. CASE pc = "context"
    <3>1. StreamUndo(m) = Free(m, {Handle})
      BY <2>2 DEF StreamUndo
    <3>2. S = {Handle}
      BY <1>2, <2>2
    <3>3. Holds(Free(m, {Handle}), {}, Places)
      BY <3>2, HandleFreeHolds
    <3>4. QED
      BY <2>1, <3>1, <3>3, GoneIInv
  <2>3. CASE pc = "finalize"
    <3>1. StreamUndo(m) = StreamDestroy(m)
      BY <2>3 DEF StreamUndo
    <3>2. Holds(StreamDestroy(m), {}, Places)
      BY <1>2, StreamDestroyHolds, LifecycleAssumption DEF Manageable
    <3>3. QED
      BY <2>1, <3>1, <3>2, GoneIInv
  <2>4. CASE pc \in {"trellis", "register"}
    <3>1. StreamUndo(m) = Free(ContextFree(m), {Handle})
      BY <2>4 DEF StreamUndo
    <3>2. Holds(ContextFree(m), S \ ContextPlaces, {})
      BY ContextFreeHolds DEF Manageable
    <3>3. Handle \notin ContextPlaces
      BY DEF Handle, ContextPlaces, ScratchPlaces, AlignShared
    <3>4. S \ ContextPlaces = {Handle}
      BY <1>2, <2>4, <3>3 DEF Manageable
    <3>5. QED
      BY <2>1, <3>1, <3>2, <3>4, HandleFreeHolds, GoneIInv
  <2>5. QED
    BY <1>2, <2>2, <2>3, <2>4
<1>3. QED
  BY <1>1, <1>2

----------------------------------------------------------------------------
(* The steps                                                               *)

LEMMA BeginIInv ==
    ASSUME IInv, NEW kind \in {"stream", "multi", "encoder", "code"},
           NEW family \in Seq(DOMAIN Codes \cup {Null}),
           Len(family) <= MaxCodes, kind = "stream" => Len(family) = 1,
           NEW params, NEW next,
           \/ kind = "code" /\ family = << >> /\ next = "tables"
           \/ kind \in {"stream", "multi"} /\ family # << >> /\ next = "context"
           \/ kind = "encoder" /\ family # << >> /\ next = "array"
           \/ kind \in {"multi", "encoder"} /\ family = << >> /\ next = "ready",
           Begin(kind, family, params, next)
    PROVE  IInv'
<1> DEFINE a == Allocate(mem, {Handle}, {Handle})
           others == Places \ {Handle}
<1>1. pc = "idle" /\ Holds(mem, {}, Places)
  BY DEF Begin, IInv, Made
<1>2. CASE UNCHANGED <<mem, object, pc>>
  BY <1>2 DEF Begin, IInv, Shape, Made, RequiredPlaces, Contained, Holds,
              Held, Block
<1>3. CASE /\ mem' = SetNull(a, others)
           /\ object' = [kind |-> kind, family |-> family, params |-> params]
           /\ pc' = next
  <2>1. Handle \in Places /\ others \in SUBSET Places
    BY DEF Places
  <2>2. Holds(a, {} \cup {Handle}, Places \ {Handle})
    BY <1>1, <2>1, AllocateHolds DEF Owned
  <2>3. Holds(SetNull(a, others), {Handle}, others \ others)
    BY <2>1, <2>2, NullHolds
  <2>4. Holds(mem', {Handle}, {})
    BY <1>3, <2>3
  <2>5. Shape'
    BY <1>1, <1>3 DEF Begin, IInv, Shape
  <2>6. Made' = {Handle} /\ pc' # "idle"
    BY <1>3 DEF Made, RequiredPlaces
  <2>7. QED
    BY <2>4, <2>5, <2>6 DEF IInv, Holds, Held, Block
<1>4. QED
  BY <1>2, <1>3 DEF Begin

LEMMA CreateIInv ==
    ASSUME IInv, StreamCreate \/ MultiCreate \/ EncoderCreate \/ CodeCreate
    PROVE  IInv'
<1>1. ASSUME StreamCreate PROVE IInv'
  <2>1. PICK c \in DOMAIN Codes, params \in Params :
            Begin("stream", <<c>>, params, "context")
    BY <1>1 DEF StreamCreate
  <2>2. /\ <<c>> \in Seq(DOMAIN Codes \cup {Null})
        /\ Len(<<c>>) = 1 /\ <<c>> # << >> /\ 1 <= MaxCodes
    BY LifecycleAssumption
  <2>3. QED
    BY <2>1, <2>2, BeginIInv
<1>2. ASSUME MultiCreate PROVE IInv'
  <2>1. PICK family \in Families, params \in Params :
            Begin("multi", family, params,
                  IF family = << >> THEN "ready" ELSE "context")
    BY <1>2 DEF MultiCreate
  <2>2. QED
    BY <2>1, BeginIInv, LifecycleAssumption
<1>3. ASSUME EncoderCreate PROVE IInv'
  <2>1. PICK family \in Families :
            Begin("encoder", family, Null,
                  IF family = << >> THEN "ready" ELSE "array")
    BY <1>3 DEF EncoderCreate
  <2>2. QED
    BY <2>1, BeginIInv, LifecycleAssumption
<1>4. ASSUME CodeCreate PROVE IInv'
  <2>1. PICK call \in CodeCalls : Begin("code", << >>, call, "tables")
    BY <1>4 DEF CodeCreate
  <2>2. << >> \in Seq(DOMAIN Codes \cup {Null}) /\ Len(<< >>) <= MaxCodes
    BY LifecycleAssumption
  <2>3. QED
    BY <2>1, <2>2, BeginIInv
<1>5. QED
  BY <1>1, <1>2, <1>3, <1>4

\* A step to another place of the call keeps the invariant if what is held
\* is what that place asks for.
LEMMA StepIInv ==
    ASSUME Shape', pc' # "idle", Holds(mem', Made', {})
    PROVE  IInv'
BY DEF IInv, Holds, Held, Block

\* The places are all different.
LEMMA PlacesDiffer ==
    /\ Handle \notin {Trellises, CodeArray} \cup ContextPlaces \cup TablePlaces
    /\ Trellises \notin {CodeArray} \cup ContextPlaces \cup TablePlaces
    /\ CodeArray \notin ContextPlaces \cup TablePlaces
    /\ AlignShared \notin ScratchPlaces
    /\ PatternBits \in ScratchPlaces /\ Received \in ScratchPlaces
    /\ \A js : {Handle, Trellises, CodeArray} \cap TrellisPlaces(js) = {}
    /\ \A js : (ContextPlaces \cup TablePlaces) \cap TrellisPlaces(js) = {}
BY DEF Handle, Trellises, CodeArray, ContextPlaces, ScratchPlaces, TablePlaces,
       AlignShared, PatternBits, Received, TrellisPlaces

\* Everything but the fields of a trellis lies in the object itself.
LEMMA InObject ==
    \A p \in {Handle, Trellises, CodeArray} \cup ContextPlaces
                 \cup TablePlaces :
        Owner(p) = Handle
BY DEF Owner, Handle, Trellises, CodeArray, ContextPlaces, ScratchPlaces,
       TablePlaces, AlignShared

LEMMA CodeTablesIInv ==
    ASSUME IInv, CodeTables
    PROVE  IInv'
<1>1. /\ Shape /\ pc = "tables" /\ object.kind = "code"
      /\ Holds(mem, {Handle}, {})
  BY DEF IInv, Made, Shape, CodeTables
<1>2. PICK granted \in SUBSET TablePlaces :
          LET m == Allocate(mem, TablePlaces, granted)
          IN  \/ /\ granted = TablePlaces
                 /\ pc' = "ready" /\ mem' = m
                 /\ UNCHANGED <<object, built, edge, tables>>
              \/ granted # TablePlaces /\ Abandon(m)
  BY DEF CodeTables
<1> DEFINE m == Allocate(mem, TablePlaces, granted)
<1>3. TablePlaces \in SUBSET Places /\ Owned(TablePlaces, {Handle})
  BY InObject DEF Places, Owned
<1>4. Holds(m, {Handle} \cup granted, {} \ TablePlaces)
  BY <1>1, <1>3, PlacesDiffer, AllocateHolds
<1>5. Holds(m, {Handle} \cup granted, {})
  BY <1>4
<1> HIDE DEF m
<1>6. CASE /\ granted = TablePlaces
           /\ pc' = "ready" /\ mem' = m
           /\ UNCHANGED <<object, built, edge, tables>>
  <2>1. Shape'
    BY <1>1, <1>6 DEF Shape
  <2>2. Made' = {Handle} \cup granted
    BY <1>1, <1>6 DEF Made, RequiredPlaces
  <2>3. QED
    BY <1>5, <1>6, <2>1, <2>2, StepIInv
<1>7. CASE Abandon(m)
  BY <1>1, <1>5, <1>7, AbandonIInv DEF Manageable
<1>8. QED
  BY <1>2, <1>6, <1>7 DEF m

LEMMA ContextRefusedIInv ==
    ASSUME IInv, ContextRefused
    PROVE  IInv'
<1>1. /\ Shape /\ pc = "context" /\ Holds(mem, {Handle}, {}) /\ Abandon(mem)
      /\ object.kind \in {"stream", "multi"}
  BY DEF IInv, Made, Shape, ContextRefused
<1>2. Manageable({Handle})
  BY <1>1, PlacesDiffer DEF Manageable
<1>3. QED
  BY <1>1, <1>2, AbandonIInv

LEMMA ContextInitIInv ==
    ASSUME IInv, ContextInit
    PROVE  IInv'
<1>1. /\ Shape /\ pc = "context" /\ Holds(mem, {Handle}, {})
      /\ object.kind \in {"stream", "multi"}
  BY DEF IInv, Made, Shape, ContextInit
<1>2. PICK granted \in SUBSET ScratchPlaces :
          LET m == SetNull(Allocate(mem, ScratchPlaces, granted), {AlignShared})
          IN  \/ /\ granted = ScratchPlaces
                 /\ mem' = m
                 /\ pc' = IF object.kind = "stream" THEN "trellis" ELSE "array"
                 /\ UNCHANGED <<object, built, edge>>
              \/ granted # ScratchPlaces /\ Abandon(ContextFree(m))
  BY DEF ContextInit
<1> DEFINE a == Allocate(mem, ScratchPlaces, granted)
           m == SetNull(a, {AlignShared})
<1>3. /\ ScratchPlaces \in SUBSET Places /\ Owned(ScratchPlaces, {Handle})
      /\ {AlignShared} \in SUBSET Places
      /\ ScratchPlaces \subseteq ContextPlaces
  BY InObject DEF Places, Owned, ContextPlaces
<1>4. Holds(a, {Handle} \cup granted, {} \ ScratchPlaces)
  BY <1>1, <1>3, PlacesDiffer, AllocateHolds
<1>5. {AlignShared} \cap ({Handle} \cup granted) = {}
  BY PlacesDiffer DEF ContextPlaces
<1>6. Holds(m, {Handle} \cup granted, ({} \ ScratchPlaces) \ {AlignShared})
  BY <1>3, <1>4, <1>5, NullHolds
<1>7. Holds(m, {Handle} \cup granted, {})
  BY <1>6
<1> HIDE DEF m
<1>8. CASE /\ granted = ScratchPlaces /\ mem' = m
           /\ pc' = IF object.kind = "stream" THEN "trellis" ELSE "array"
           /\ UNCHANGED <<object, built, edge>>
  <2>1. Len(object.family) \in Nat /\ Len(object.family) > 0
    BY <1>1 DEF Shape
  <2>2. Shape'
    BY <1>1, <1>8, <2>1 DEF Shape
  <2>3. built = 0 /\ TrellisPlaces(1 .. 0) = {}
    BY <1>1 DEF Shape, TrellisPlaces
  <2>4. Made' = {Handle} \cup granted
    BY <1>1, <1>8, <2>3 DEF Made, Contained
  <2>5. QED
    BY <1>1, <1>7, <1>8, <2>2, <2>4, StepIInv
<1>9. CASE Abandon(ContextFree(m))
  <2>1. Holds(ContextFree(m), ({Handle} \cup granted) \ ContextPlaces, {})
    BY <1>7, ContextFreeHolds
  <2>2. ({Handle} \cup granted) \ ContextPlaces = {Handle}
    BY <1>3, PlacesDiffer
  <2>3. Manageable({Handle})
    BY <1>1, PlacesDiffer DEF Manageable
  <2>4. Holds(ContextFree(m), {Handle}, {})
    BY <2>1, <2>2
  <2>5. QED
    BY <1>1, <1>9, <2>3, <2>4, AbandonIInv
<1>10. QED
  BY <1>2, <1>8, <1>9 DEF m

LEMMA ArrayInitIInv ==
    ASSUME IInv, ArrayInit
    PROVE  IInv'
<1> DEFINE multi == object.kind = "multi"
           array == IF multi THEN Trellises ELSE CodeArray
           S == {Handle} \cup IF multi THEN ScratchPlaces ELSE {}
           interior == TrellisPlaces(1 .. MaxCodes)
           m == SetNull(Allocate(mem, {array}, {array}), interior)
<1>1. /\ Shape /\ pc = "array" /\ Holds(mem, S, {})
      /\ object.kind \in {"multi", "encoder"}
  BY DEF IInv, Made, Shape, ArrayInit
<1>2. /\ {array} \in SUBSET Places /\ Owned({array}, S)
      /\ interior \in SUBSET Places /\ {array} \cap S = {}
  BY InObject, PlacesDiffer DEF Places, Owned, ContextPlaces
<1>3. interior \cap (S \cup {array}) = {}
  BY PlacesDiffer DEF ContextPlaces
<1>4. CASE /\ mem' = m
           /\ pc' = IF object.kind = "multi" THEN "trellis" ELSE "entry"
           /\ UNCHANGED <<object, built, edge, tables>>
  <2>1. Holds(Allocate(mem, {array}, {array}), S \cup {array}, {} \ {array})
    BY <1>1, <1>2, AllocateHolds
  <2>2. Holds(m, S \cup {array}, ({} \ {array}) \ interior)
    BY <1>2, <1>3, <2>1, NullHolds
  <2>3. Holds(m, S \cup {array}, {})
    BY <2>2
  <2>4. Len(object.family) \in Nat /\ Len(object.family) > 0
    BY <1>1 DEF Shape
  <2>5. Shape'
    BY <1>1, <1>4, <2>4 DEF Shape
  <2>6. built = 0 /\ TrellisPlaces(1 .. 0) = {}
    BY <1>1 DEF Shape, TrellisPlaces
  <2>7. Made' = S \cup {array}
    BY <1>1, <1>4, <2>6 DEF Made, Contained
  <2>8. QED
    BY <1>1, <1>4, <2>3, <2>5, <2>7, StepIInv
<1>5. CASE Abandon(Allocate(mem, {array}, {}))
  <2>1. Holds(Allocate(mem, {array}, {}), S \cup {}, {} \ {array})
    BY <1>1, <1>2, AllocateHolds
  <2>2. Holds(Allocate(mem, {array}, {}), S, {})
    BY <2>1
  <2>3. Manageable(S)
    BY <1>1, PlacesDiffer DEF Manageable, ContextPlaces
  <2>4. QED
    BY <1>1, <1>5, <2>2, <2>3, AbandonIInv
<1>6. QED
  BY <1>4, <1>5 DEF ArrayInit

\* What is held while trellises are made.
Building == {Handle} \cup ScratchPlaces \cup Contained

LEMMA BuildingManageable ==
    ASSUME Shape, object.kind \in {"stream", "multi"}, pc # "idle",
           NEW k \in Nat, k <= Len(object.family)
    PROVE  Manageable(Building \cup TrellisPlaces(1 .. k))
<1>1. /\ Len(object.family) \in Nat
      /\ DOMAIN object.family = 1 .. Len(object.family)
  BY DEF Shape
<1>2. TrellisPlaces(1 .. k) \subseteq TrellisPlaces(DOMAIN object.family)
  BY <1>1 DEF TrellisPlaces
<1>3. object.kind = "stream" => DOMAIN object.family = {1}
  BY FamilyDomain
<1>4. QED
  BY <1>2, <1>3 DEF Manageable, Building, Contained, ContextPlaces

\* A stream decoder has one trellis, and none while it is about to be made.
LEMMA StreamUnbuilt ==
    ASSUME Shape, pc = "trellis", object.kind = "stream"
    PROVE  Building \cup TrellisPlaces(1 .. built)
               \subseteq {Handle} \cup ContextPlaces
<1>1. Len(object.family) = 1
  BY DEF Shape
<1>2. built \in Nat /\ built < Len(object.family)
  BY DEF Shape
<1>3. built = 0
  BY <1>1, <1>2
<1>4. TrellisPlaces(1 .. 0) = {}
  BY DEF TrellisPlaces
<1>5. QED
  BY <1>3, <1>4 DEF Building, Contained, ContextPlaces

LEMMA TrellisRefusedIInv ==
    ASSUME IInv, TrellisRefused
    PROVE  IInv'
<1>1. /\ Shape /\ pc = "trellis"
      /\ Holds(mem, Building \cup TrellisPlaces(1 .. built), {})
      /\ object.kind \in {"stream", "multi"}
      /\ built \in Nat /\ built < Len(object.family) /\ Abandon(mem)
  BY DEF IInv, Made, Shape, TrellisRefused, Building
<1>2. Len(object.family) \in Nat
  BY <1>1 DEF Shape
<1>3. Manageable(Building \cup TrellisPlaces(1 .. built))
  BY <1>1, <1>2, BuildingManageable
<1>4. QED
  BY <1>1, <1>3, StreamUnbuilt, AbandonIInv

LEMMA TrellisInitIInv ==
    ASSUME IInv, TrellisInit
    PROVE  IInv'
<1> DEFINE S == Building \cup TrellisPlaces(1 .. built)
           places == TrellisPlaces({built + 1})
<1>1. /\ Shape /\ pc = "trellis" /\ Holds(mem, S, {})
      /\ object.kind \in {"stream", "multi"}
      /\ built \in Nat /\ built < Len(object.family)
      /\ Len(object.family) \in Nat /\ Len(object.family) <= MaxCodes
  BY DEF IInv, Made, Shape, TrellisInit, Building
<1>2. PICK granted \in SUBSET places :
          LET m == Allocate(mem, places, granted)
          IN  \/ /\ granted = places
                 /\ mem' = m
                 /\ pc' = "register" /\ built' = built + 1
                 /\ UNCHANGED object
              \/ granted # places /\ Abandon(TrellisFree(m, {built + 1}))
  BY DEF TrellisInit
<1> DEFINE m == Allocate(mem, places, granted)
<1>3. built + 1 \in 1 .. MaxCodes
  BY <1>1, LifecycleAssumption
<1>4. /\ places \in SUBSET Places /\ places \cap S = {}
      /\ {built + 1} \in SUBSET (1 .. MaxCodes)
  <2>1. places \cap TrellisPlaces(1 .. built) = {}
    BY <1>1 DEF TrellisPlaces
  <2>2. places \cap Building = {}
    BY PlacesDiffer DEF Building, Contained, ContextPlaces
  <2>3. places \in SUBSET Places
    BY <1>3 DEF Places, TrellisPlaces
  <2>4. QED
    BY <1>3, <2>1, <2>2, <2>3
<1>5. Owned(places, S)
  BY DEF Owned, Owner, Building, Contained
<1>6. Holds(m, S \cup granted, {} \ places)
  BY <1>1, <1>4, <1>5, AllocateHolds
<1>7. Holds(m, S \cup granted, {})
  BY <1>6
<1> HIDE DEF m
<1>8. CASE /\ granted = places /\ mem' = m
           /\ pc' = "register" /\ built' = built + 1
           /\ UNCHANGED object
  <2>1. Shape'
    BY <1>1, <1>8 DEF Shape
  <2>2. S \cup places = Building \cup TrellisPlaces(1 .. (built + 1))
    BY <1>1 DEF TrellisPlaces
  <2>3. Made' = Building \cup TrellisPlaces(1 .. (built + 1))
    BY <1>8 DEF Made, Building, Contained
  <2>4. QED
    BY <1>7, <1>8, <2>1, <2>2, <2>3, StepIInv
<1>9. CASE Abandon(TrellisFree(m, {built + 1}))
  <2>1. Owned(places, S \cup granted)
    BY <1>5 DEF Owned
  <2>2. Holds(TrellisFree(m, {built + 1}), (S \cup granted) \ places, {})
    BY <1>4, <1>7, <2>1, TrellisFreeHolds
  <2>3. (S \cup granted) \ places = S
    BY <1>4
  <2>4. Manageable(S)
    BY <1>1, BuildingManageable
  <2>5. object.kind = "stream" => S \subseteq {Handle} \cup ContextPlaces
    BY <1>1, StreamUnbuilt
  <2>6. Holds(TrellisFree(m, {built + 1}), S, {})
    BY <2>2, <2>3
  <2>7. QED
    BY <1>1, <1>9, <2>4, <2>5, <2>6, AbandonIInv
<1>10. QED
  BY <1>2, <1>8, <1>9 DEF m

\* Once an edge has its group the call stands at a place that asks for what
\* is held.
LEMMA GroupedIInv ==
    ASSUME Shape, pc = "register", NEW index, NEW cap, Grouped(index, cap),
           Holds(mem', Building \cup TrellisPlaces(1 .. built), {})
    PROVE  IInv'
<1>1. /\ built \in Nat /\ built <= Len(object.family)
      /\ Len(object.family) \in Nat
  BY DEF Shape
<1>2. /\ UNCHANGED <<object, built>>
      /\ \/ pc' = "register"
         \/ pc' = "trellis" /\ built < Len(object.family)
         \/ pc' = "finalize" /\ ~(built < Len(object.family))
  BY DEF Grouped
<1>3. Shape'
  BY <1>1, <1>2 DEF Shape
<1>4. Made' = Building \cup TrellisPlaces(1 .. built)
  BY <1>2 DEF Made, Building, Contained
<1>5. QED
  BY <1>2, <1>3, <1>4, StepIInv

LEMMA RegisterIInv ==
    ASSUME IInv, PatternKnown \/ PatternAdded \/ PatternGrows
    PROVE  IInv'
<1> DEFINE S == Building \cup TrellisPlaces(1 .. built)
<1>1. /\ Shape /\ pc = "register" /\ Holds(mem, S, {})
      /\ object.kind \in {"stream", "multi"}
      /\ built \in Nat /\ 1 <= built /\ built <= Len(object.family)
      /\ Len(object.family) \in Nat /\ Len(object.family) <= MaxCodes
  BY DEF IInv, Made, Shape, PatternKnown, PatternAdded, PatternGrows, Building
<1>2. ASSUME PatternKnown PROVE IInv'
  BY <1>1, <1>2, GroupedIInv DEF PatternKnown
<1>3. ASSUME PatternAdded PROVE IInv'
  BY <1>1, <1>3, GroupedIInv DEF PatternAdded
<1>4. ASSUME PatternGrows PROVE IInv'
  <2>1. CASE /\ Grouped(NewPattern, 2 * tables.cap)
             /\ mem' = Reallocate(mem, PatternBits)
    <3>1. PatternBits \in S /\ Owned({PatternBits}, S)
      BY PlacesDiffer, InObject DEF Building, Owned, ContextPlaces
    <3>2. Holds(Reallocate(mem, PatternBits), S, {})
      BY <1>1, <3>1, ReallocateHolds
    <3>3. Holds(mem', S, {})
      BY <2>1, <3>2
    <3>4. QED
      BY <1>1, <2>1, <3>3, GroupedIInv
  <2>2. CASE Abandon(TrellisFree(mem, {built}))
    <3>1. built \in 1 .. MaxCodes
      BY <1>1, LifecycleAssumption
    <3>2. /\ TrellisPlaces({built}) \cap {} = {}
          /\ {built} \in SUBSET (1 .. MaxCodes)
      BY <3>1
    <3>3. Owned(TrellisPlaces({built}), S)
      BY DEF Owned, Owner, Building, Contained
    <3>4. Holds(TrellisFree(mem, {built}), S \ TrellisPlaces({built}), {})
      BY <1>1, <3>2, <3>3, TrellisFreeHolds
    <3>5. S \ TrellisPlaces({built})
              = Building \cup TrellisPlaces(1 .. (built - 1))
      <4>1. Building \cap TrellisPlaces({built}) = {}
        BY PlacesDiffer DEF Building, Contained, ContextPlaces
      <4>2. TrellisPlaces(1 .. built) \ TrellisPlaces({built})
                = TrellisPlaces(1 .. (built - 1))
        BY <1>1 DEF TrellisPlaces
      <4>3. QED
        BY <4>1, <4>2
    <3>6. built - 1 \in Nat /\ built - 1 <= Len(object.family)
      BY <1>1
    <3>7. Manageable(Building \cup TrellisPlaces(1 .. (built - 1)))
      BY <1>1, <3>6, BuildingManageable
    <3>8. ASSUME object.kind = "stream"
          PROVE  Building \cup TrellisPlaces(1 .. (built - 1))
                     \subseteq {Handle} \cup ContextPlaces
      <4>1. Len(object.family) = 1
        BY <1>1, <3>8 DEF Shape
      <4>2. built - 1 = 0
        BY <1>1, <4>1
      <4>3. TrellisPlaces(1 .. 0) = {}
        BY DEF TrellisPlaces
      <4>4. QED
        BY <3>8, <4>2, <4>3 DEF Building, Contained, ContextPlaces
    <3>9. Holds(TrellisFree(mem, {built}),
                Building \cup TrellisPlaces(1 .. (built - 1)), {})
      BY <3>4, <3>5
    <3>10. QED
      BY <1>1, <2>2, <3>7, <3>8, <3>9, AbandonIInv
  <2>3. QED
    BY <1>4, <2>1, <2>2 DEF PatternGrows
<1>5. QED
  BY <1>2, <1>3, <1>4

LEMMA FinalizeIInv ==
    ASSUME IInv, Finalize
    PROVE  IInv'
<1> DEFINE S == Building \cup TrellisPlaces(1 .. built)
           freed == Free(mem, {AlignShared})
<1>1. /\ Shape /\ pc = "finalize" /\ Holds(mem, S, {})
      /\ object.kind \in {"stream", "multi"}
      /\ built \in Nat /\ built = Len(object.family)
      /\ object.family # << >>
  BY DEF IInv, Made, Shape, Finalize, Building
<1>2. /\ {AlignShared} \in SUBSET Places /\ Owned({AlignShared}, S)
      /\ {AlignShared} \cap S = {}
  BY PlacesDiffer, InObject
     DEF Places, Owned, Building, Contained, ContextPlaces
<1>3. Holds(freed, S \ {AlignShared}, {} \cup {AlignShared})
  BY <1>1, <1>2, FreeHolds
<1>4. S \ {AlignShared} = S
  BY <1>2
<1>5. Holds(freed, S, {AlignShared})
  BY <1>3, <1>4
<1> HIDE DEF freed
<1>6. CASE /\ mem' = Allocate(freed, {AlignShared}, {AlignShared})
           /\ pc' = "ready"
           /\ UNCHANGED <<object, built, edge>>
  <2>1. Holds(mem', S \cup {AlignShared}, {AlignShared} \ {AlignShared})
    BY <1>2, <1>5, <1>6, AllocateHolds
  <2>2. Holds(mem', S \cup {AlignShared}, {})
    BY <2>1
  <2>3. Shape'
    BY <1>1, <1>6 DEF Shape
  <2>4. DOMAIN object.family = 1 .. built
    BY <1>1 DEF Shape
  <2>5. Made' = S \cup {AlignShared}
    BY <1>1, <1>6, <2>4
       DEF Made, RequiredPlaces, Building, Contained, ContextPlaces
  <2>6. QED
    BY <1>6, <2>2, <2>3, <2>5, StepIInv
<1>7. CASE Abandon(Allocate(freed, {AlignShared}, {}))
  <2>1. Holds(Allocate(freed, {AlignShared}, {}), S \cup {},
              {AlignShared} \ {AlignShared})
    BY <1>2, <1>5, AllocateHolds
  <2>2. Holds(Allocate(freed, {AlignShared}, {}), S, {})
    BY <2>1
  <2>3. Manageable(S)
    BY <1>1, BuildingManageable
  <2>4. QED
    BY <1>1, <1>7, <2>2, <2>3, AbandonIInv
<1>8. QED
  BY <1>6, <1>7 DEF Finalize, freed

LEMMA EncoderEntryIInv ==
    ASSUME IInv, EncoderEntry
    PROVE  IInv'
<1>1. /\ Shape /\ pc = "entry" /\ object.kind = "encoder"
      /\ Holds(mem, {Handle, CodeArray}, {})
      /\ object.family # << >>
      /\ built \in Nat /\ Len(object.family) \in Nat
  BY DEF IInv, Made, Shape, EncoderEntry
<1>2. CASE Abandon(mem)
  BY <1>1, <1>2, AbandonIInv DEF Manageable
<1>3. CASE /\ built' = built + 1
           /\ pc' = IF built + 1 < Len(object.family) THEN "entry" ELSE "ready"
           /\ UNCHANGED <<object, edge, tables, mem>>
  <2>1. Shape'
    BY <1>1, <1>3 DEF Shape
  <2>2. Made' = {Handle, CodeArray} /\ pc' # "idle"
    BY <1>1, <1>3 DEF Made, RequiredPlaces
  <2>3. QED
    BY <1>1, <1>3, <2>1, <2>2, StepIInv
<1>4. QED
  BY <1>2, <1>3 DEF EncoderEntry

LEMMA ReadyManageable ==
    ASSUME Shape, pc = "ready"
    PROVE  Manageable(RequiredPlaces)
<1>1. CASE object.kind = "stream"
  <2>1. DOMAIN object.family = {1}
    BY <1>1, FamilyDomain
  <2>2. QED
    BY <1>1, <2>1 DEF Manageable, RequiredPlaces
<1>2. CASE object.kind = "multi"
  BY <1>2, PlacesDiffer DEF Manageable, RequiredPlaces
<1>3. CASE object.kind = "encoder"
  BY <1>3 DEF Manageable, RequiredPlaces
<1>4. CASE object.kind = "code"
  BY <1>4 DEF Manageable, RequiredPlaces
<1>5. QED
  BY <1>1, <1>2, <1>3, <1>4 DEF Shape

LEMMA ReadyIInv ==
    ASSUME IInv, BufferGrows \/ Destroy
    PROVE  IInv'
<1>1. Shape /\ pc = "ready" /\ Holds(mem, RequiredPlaces, {})
  BY DEF IInv, Made, BufferGrows, Destroy
<1>2. ASSUME BufferGrows PROVE IInv'
  <2>1. Received \in RequiredPlaces /\ Owned({Received}, RequiredPlaces)
    BY <1>2, PlacesDiffer, InObject
       DEF BufferGrows, RequiredPlaces, Owned, ContextPlaces
  <2>2. Holds(mem', RequiredPlaces, {})
    BY <1>1, <1>2, <2>1, ReallocateHolds DEF BufferGrows
  <2>3. Shape' /\ Made' = RequiredPlaces /\ pc' # "idle"
    BY <1>1, <1>2 DEF BufferGrows, Shape, Made, RequiredPlaces
  <2>4. QED
    BY <2>2, <2>3, StepIInv
<1>3. ASSUME Destroy PROVE IInv'
  BY <1>1, <1>3, ReadyManageable, DestroyedHolds, GoneIInv DEF Destroy
<1>4. QED
  BY <1>2, <1>3

LEMMA NextIInv == IInv /\ [Next]_vars => IInv'
<1> SUFFICES ASSUME IInv, [Next]_vars PROVE IInv'
  OBVIOUS
<1>1. CASE StreamCreate \/ MultiCreate \/ EncoderCreate \/ CodeCreate
  BY <1>1, CreateIInv
<1>2. CASE CodeTables
  BY <1>2, CodeTablesIInv
<1>3. CASE ContextRefused \/ ContextInit
  BY <1>3, ContextRefusedIInv, ContextInitIInv
<1>4. CASE ArrayInit
  BY <1>4, ArrayInitIInv
<1>5. CASE TrellisRefused \/ TrellisInit
  BY <1>5, TrellisRefusedIInv, TrellisInitIInv
<1>6. CASE PatternKnown \/ PatternAdded \/ PatternGrows
  BY <1>6, RegisterIInv
<1>7. CASE Finalize
  BY <1>7, FinalizeIInv
<1>8. CASE EncoderEntry
  BY <1>8, EncoderEntryIInv
<1>9. CASE BufferGrows \/ Destroy
  BY <1>9, ReadyIInv
<1>10. CASE UNCHANGED vars
  BY <1>10 DEF vars, IInv, Shape, Made, RequiredPlaces, Contained, Holds,
               Held, Block
<1>11. QED
  BY <1>1, <1>2, <1>3, <1>4, <1>5, <1>6, <1>7, <1>8, <1>9, <1>10 DEF Next

LEMMA Invariance == Spec => []IInv
<1>1. QED
  BY InitIInv, NextIInv, PTL DEF Spec

\* For every family of codes, all parameters and every pattern of failing
\* allocations, a create call that fails has freed all it had made, and a
\* finished object reaches every block it owns (decode.c:845,
\* multi_decode.c:65, multi_encode.c:50, encode.c:50).
THEOREM NoLeak == Spec => []NothingLeaks
<1>1. IInv => NothingLeaks
  <2> SUFFICES ASSUME IInv PROVE NothingLeaks
    OBVIOUS
  <2>1. ASSUME pc = "idle" PROVE mem.live = {}
    BY <2>1 DEF IInv, Made, Holds
  <2>2. ASSUME pc = "ready"
        PROVE  mem.live = {Block(mem, p) : p \in {q \in Places : Held(mem, q)}}
    <3>1. /\ mem.live = {Block(mem, p) : p \in Made}
          /\ Made \subseteq Places
          /\ \A p \in Places : Held(mem, p) <=> p \in Made
      BY <2>2 DEF IInv, Holds
    <3>2. {q \in Places : Held(mem, q)} = Made
      BY <3>1
    <3>3. QED
      BY <3>1, <3>2
  <2>3. QED
    BY <2>1, <2>2 DEF NothingLeaks
<1>2. QED
  BY <1>1, Invariance, PTL

\* No pointer is freed twice and none is read in a freed block, though the
\* callee and its caller both clean up after a failure.
THEOREM NoDoubleFree == Spec => []FreedOnce
<1>1. IInv => FreedOnce
  BY DEF IInv, Holds, FreedOnce
<1>2. QED
  BY <1>1, Invariance, PTL

----------------------------------------------------------------------------
(* What a finished object holds.  The tables grow code by code and edge by *)
(* edge: GroupedTo(j, n) says that the first n edges of code j find their  *)
(* own row.                                                                *)

Rows == UNION {{Row(c, e) : e \in 0 .. (EdgeCount(c) - 1)} : c \in DOMAIN Codes}
Tables ==
    [patterns : Seq(Rows), cap : Nat, group_of : Seq(Seq(Nat)), rows : Nat]

Finds(t, family, j, e) ==
    /\ t.group_of[j][e + 1] \in DOMAIN t.patterns
    /\ t.patterns[t.group_of[j][e + 1]] = Row(family[j], e)

GroupedTo(t, family, j, n) ==
    /\ Len(t.group_of[j]) = n
    /\ \A e \in 0 .. (n - 1) : Finds(t, family, j, e)

\* No row is listed twice, and there is room for every one.
Listed(t) ==
    /\ t \in Tables
    /\ t.cap > 0 /\ Len(t.patterns) <= t.cap
    /\ \A i, k \in DOMAIN t.patterns : t.patterns[i] = t.patterns[k] => i = k

\* The codes that are behind the call.
Finished == 1 .. (IF pc = "register" THEN built - 1 ELSE built)

Registered ==
    /\ First # Null
    /\ Listed(tables)
    /\ Len(tables.group_of) = built
    /\ \A j \in Finished : GroupedTo(tables, object.family, j, EdgeCount(First))
    /\ pc = "register" =>
           /\ edge \in Nat /\ edge < EdgeCount(First)
           /\ GroupedTo(tables, object.family, built, edge)
    /\ pc = "ready" => tables.rows = Len(tables.patterns)

Alike(j) == object.family[j] # Null /\ ~Mismatch(object.family[j])

Decoding == object.kind \in {"stream", "multi"} /\ object.family # << >>

Complete ==
    /\ pc \in {"idle", "tables", "context"} => tables = NoTables
    /\ pc # "idle" =>
           /\ object.kind = "code" => object.family = << >>
           /\ \A j \in 1 .. built : Alike(j)
           /\ pc # "context" /\ Decoding => Registered
           /\ object.kind = "multi" /\ object.family = << >> =>
                  tables = NoTables
    /\ pc = "tables" => built = 0
    /\ pc = "ready" => built = Len(object.family)

LEMMA EdgeCountPositive ==
    ASSUME NEW c \in DOMAIN Codes
    PROVE  /\ EdgeCount(c) \in Nat /\ EdgeCount(c) > 0
           /\ c # Null /\ CodeN(c) \in Nat /\ CodeK(c) \in Nat
<1>1. c # Null /\ Codes[c].K \in 2 .. 9 /\ Codes[c].generators \in Seq(SUBSET Nat)
  BY LifecycleAssumption
<1>2. CodeK(c) = Codes[c].K /\ CodeN(c) = Len(Codes[c].generators)
  BY <1>1 DEF CodeK, CodeN
<1>3. CodeN(c) \in Nat /\ CodeK(c) \in 2 .. 9
  BY <1>1, <1>2
<1> DEFINE k == CodeK(c) - 1
           states == SUBSET (1 .. k)
<1>4. k \in Nat
  BY <1>3
<1> HIDE DEF k
<1>5. IsFiniteSet(1 .. k) /\ Cardinality(1 .. k) = k
  <2>1. Cardinality(1 .. k) = IF 1 > k THEN 0 ELSE k - 1 + 1
    BY <1>4, FS_Interval
  <2> QED
    BY <1>4, <2>1, FS_Interval
<1>6. IsFiniteSet(states) /\ Cardinality(states) = 2 ^ k
  BY <1>5, FS_SUBSET
<1>7. states # {}
  OBVIOUS
<1> HIDE DEF states
<1>8. 2 ^ k \in Nat /\ 2 ^ k # 0
  BY <1>6, <1>7, FS_CardinalityType, FS_EmptySet
<1> DEFINE n == 2 ^ k
<1>9. EdgeCount(c) = 2 * n
  BY DEF EdgeCount, k
<1> HIDE DEF n
<1>10. n \in Nat /\ n # 0
  BY <1>8 DEF n
<1>11. EdgeCount(c) \in Nat /\ EdgeCount(c) > 0
  BY <1>9, <1>10
<1> QED
  BY <1>1, <1>3, <1>11

\* The family of a decoder or an encoder, before and after the first step.
LEMMA FamilyTyped ==
    ASSUME Shape, pc # "idle", NEW j \in 1 .. Len(object.family)
    PROVE  object.family[j] \in DOMAIN Codes \cup {Null}
  BY DEF Shape

\* A code that is like the first has its geometry.
LEMMA AlikeTyped ==
    ASSUME Shape, pc # "idle", NEW j \in 1 .. Len(object.family), Alike(j)
    PROVE  /\ object.family[j] \in DOMAIN Codes
           /\ EdgeCount(object.family[j]) = EdgeCount(First)
<1>1. object.family[j] \in DOMAIN Codes
  BY FamilyTyped DEF Alike
<1>2. CodeK(object.family[j]) = CodeK(First)
  BY DEF Alike, Mismatch
<1> QED
  BY <1>1, <1>2 DEF EdgeCount

\* A code that does not mismatch a code that is there is there too.
LEMMA NoMismatchIsAlike ==
    ASSUME Shape, pc # "idle", object.family # << >>, First # Null,
           NEW j \in 1 .. Len(object.family), ~Mismatch(object.family[j])
    PROVE  Alike(j)
<1>1. First \in DOMAIN Codes
  <2>1. 1 \in 1 .. Len(object.family)
    BY DEF Shape
  <2> QED
    BY <2>1, FamilyTyped DEF First
<1>2. CodeN(First) \in Nat
  BY <1>1, EdgeCountPositive
<1>3. CodeN(object.family[j]) = CodeN(First)
  BY DEF Mismatch
<1>4. CodeN(Null) = -1
  BY DEF CodeN
<1>5. object.family[j] # Null
  BY <1>2, <1>3, <1>4
<1> QED
  BY <1>5 DEF Alike

LEMMA InitComplete == Init => Complete
  BY DEF Init, Complete

LEMMA GoneComplete ==
    ASSUME NEW m, Gone(m)
    PROVE  Complete'
  BY DEF Gone, Complete

LEMMA AbandonComplete ==
    ASSUME NEW m, Abandon(m)
    PROVE  Complete'
  BY GoneComplete DEF Abandon

LEMMA BeginComplete ==
    ASSUME IInv, Complete,
           NEW kind \in {"stream", "multi", "encoder", "code"},
           NEW family \in Seq(DOMAIN Codes \cup {Null}),
           NEW params, NEW next,
           \/ kind = "code" /\ family = << >> /\ next = "tables"
           \/ kind \in {"stream", "multi"} /\ family # << >> /\ next = "context"
           \/ kind = "encoder" /\ family # << >> /\ next = "array"
           \/ kind \in {"multi", "encoder"} /\ family = << >> /\ next = "ready",
           Begin(kind, family, params, next)
    PROVE  Complete'
<1>1. /\ pc = "idle" /\ tables = NoTables /\ built = 0
      /\ UNCHANGED <<built, edge, tables>>
  BY DEF Begin, IInv, Shape, Complete
<1>2. CASE UNCHANGED <<mem, object, pc>>
  BY <1>1, <1>2 DEF Complete
<1>3. CASE /\ object' = [kind |-> kind, family |-> family, params |-> params]
           /\ pc' = next
  <2>1. object'.kind = kind /\ object'.family = family
    BY <1>3
  <2>2. 1 .. built' = {}
    BY <1>1
  <2>3. next = "ready" => Len(family) = 0
    OBVIOUS
  <2> QED
    BY <1>1, <1>3, <2>1, <2>2, <2>3 DEF Complete, Decoding
<1> QED
  BY <1>2, <1>3 DEF Begin

\* The family stays and the object keeps its kind while it is built.
LEMMA CodeTablesComplete ==
    ASSUME IInv, Complete, CodeTables
    PROVE  Complete'
<1>1. CASE \E m : Abandon(m)
  BY <1>1, AbandonComplete
<1>2. CASE pc' = "ready" /\ UNCHANGED <<object, built, edge, tables>>
  <2>1. /\ pc = "tables" /\ object.kind = "code" /\ object.family = << >>
        /\ built = 0
    BY DEF CodeTables, IInv, Shape, Complete
  <2>2. Len(object.family) = 0
    BY <2>1
  <2> QED
    BY <1>2, <2>1, <2>2 DEF Complete, Decoding
<1> QED
  BY <1>1, <1>2 DEF CodeTables

LEMMA FirstTyped ==
    ASSUME Shape, pc # "idle", object.family # << >>, First # Null
    PROVE  First \in DOMAIN Codes /\ Alike(1)
<1>1. 1 \in 1 .. Len(object.family)
  BY DEF Shape
<1> QED
  BY <1>1, FamilyTyped DEF First, Alike, Mismatch

\* A list that is still empty.
LEMMA ListedAtFirst ==
    ASSUME NEW n \in Nat, n > 0
    PROVE  Listed([NoTables EXCEPT !.cap = n])
<1> DEFINE t == [NoTables EXCEPT !.cap = n]
<1>1. t = [patterns |-> << >>, cap |-> n, group_of |-> << >>, rows |-> 0]
  BY DEF NoTables
<1>2. \A X : << >> \in Seq(X)
  OBVIOUS
<1> HIDE DEF t
<1>3. t \in Tables
  <2>1. << >> \in Seq(Rows)
    BY <1>2
  <2>2. << >> \in Seq(Seq(Nat))
    BY <1>2
  <2> QED
    BY <1>1, <2>1, <2>2 DEF Tables
<1>4. Len(<< >>) = 0 /\ DOMAIN << >> = {}
  OBVIOUS
<1>5. t.patterns = << >> /\ t.cap = n
  BY <1>1
<1>6. Len(t.patterns) <= t.cap /\ DOMAIN t.patterns = {}
  BY <1>4, <1>5
<1>7. Listed(t)
  BY <1>3, <1>5, <1>6 DEF Listed
<1> QED
  BY <1>7 DEF t

LEMMA ContextInitComplete ==
    ASSUME IInv, Complete, ContextInit
    PROVE  Complete'
<1>1. CASE \E m : Abandon(m)
  BY <1>1, AbandonComplete
<1>2. CASE /\ pc' = IF object.kind = "stream" THEN "trellis" ELSE "array"
           /\ tables' = [tables EXCEPT !.cap = EdgeCount(First)]
           /\ UNCHANGED <<object, built, edge>>
  <2>1. /\ Shape /\ pc = "context" /\ built = 0 /\ First # Null
        /\ object.family # << >> /\ object.kind \in {"stream", "multi"}
        /\ tables = NoTables
    BY DEF ContextInit, IInv, Shape, Complete
  <2>2. EdgeCount(First) \in Nat /\ EdgeCount(First) > 0
    BY <2>1, FirstTyped, EdgeCountPositive
  <2>3. Listed(tables') /\ Len(tables'.group_of) = 0
    BY <1>2, <2>1, <2>2, ListedAtFirst DEF NoTables
  <2>4. 1 .. 0 = {}
    OBVIOUS
  <2>5. First' = First /\ Finished' = {}
    BY <1>2, <2>1, <2>4 DEF First, Finished
  <2>6. Registered'
    BY <1>2, <2>1, <2>3, <2>5 DEF Registered
  <2> QED
    BY <1>2, <2>1, <2>4, <2>6 DEF Complete
<1> QED
  BY <1>1, <1>2 DEF ContextInit

LEMMA ArrayInitComplete ==
    ASSUME IInv, Complete, ArrayInit
    PROVE  Complete'
<1>1. CASE \E m : Abandon(m)
  BY <1>1, AbandonComplete
<1>2. CASE /\ pc' = IF object.kind = "multi" THEN "trellis" ELSE "entry"
           /\ UNCHANGED <<object, built, edge, tables>>
  <2>1. /\ Shape /\ pc = "array" /\ built = 0 /\ object.family # << >>
        /\ object.kind \in {"multi", "encoder"}
    BY DEF ArrayInit, IInv, Shape
  <2>2. 1 .. 0 = {}
    OBVIOUS
  <2>3. First' = First /\ Finished' = Finished
    BY <1>2, <2>1 DEF First, Finished
  <2>4. Registered => Registered'
    BY <1>2, <2>1, <2>3 DEF Registered
  <2> QED
    BY <1>2, <2>1, <2>2, <2>4 DEF Complete, Decoding
<1> QED
  BY <1>1, <1>2 DEF ArrayInit

\* The patterns of t are a beginning of those of u.
Extends(t, u) ==
    \A i \in DOMAIN t.patterns :
        i \in DOMAIN u.patterns /\ u.patterns[i] = t.patterns[i]

\* A code that is behind the call stays served while the list grows.
LEMMA GroupedKept ==
    ASSUME NEW t, NEW u, Extends(t, u), NEW family, NEW j, NEW n,
           GroupedTo(t, family, j, n), u.group_of[j] = t.group_of[j]
    PROVE  GroupedTo(u, family, j, n)
BY DEF GroupedTo, Finds, Extends

LEMMA TrellisInitComplete ==
    ASSUME IInv, Complete, TrellisInit
    PROVE  Complete'
<1>1. CASE \E m : Abandon(m)
  BY <1>1, AbandonComplete
<1>2. CASE /\ pc' = "register" /\ built' = built + 1 /\ edge' = 0
           /\ tables' = [tables EXCEPT !.group_of = Append(@, << >>)]
           /\ UNCHANGED object
  <2> DEFINE t == tables
             u == tables'
             n == built + 1
  <2>1. /\ Shape /\ pc = "trellis" /\ object.family # << >>
        /\ object.kind \in {"stream", "multi"} /\ ~Mismatch(Upcoming)
        /\ built \in Nat /\ built < Len(object.family)
        /\ Len(object.family) \in Nat
        /\ Registered /\ \A j \in 1 .. built : Alike(j)
    BY DEF TrellisInit, IInv, Shape, Complete, Decoding
  <2>2. /\ First # Null /\ Listed(t) /\ Len(t.group_of) = built
        /\ \A j \in 1 .. built :
               GroupedTo(t, object.family, j, EdgeCount(First))
    BY <2>1 DEF Registered, Finished
  <2>3. Alike(n)
    BY <2>1, <2>2, NoMismatchIsAlike DEF Upcoming
  <2>4. EdgeCount(First) \in Nat /\ EdgeCount(First) > 0
    BY <2>1, <2>2, FirstTyped, EdgeCountPositive
  <2>5. t \in Tables
    BY <2>2 DEF Listed
  <2>6. /\ u \in Tables /\ u.patterns = t.patterns /\ u.cap = t.cap
        /\ Len(u.group_of) = n /\ u.group_of[n] = << >>
        /\ \A j \in 1 .. built : u.group_of[j] = t.group_of[j]
    <3>1. t.group_of \in Seq(Seq(Nat)) /\ << >> \in Seq(Nat)
      BY <2>5 DEF Tables
    <3>2. /\ Append(t.group_of, << >>) \in Seq(Seq(Nat))
          /\ Len(Append(t.group_of, << >>)) = n
          /\ Append(t.group_of, << >>)[n] = << >>
          /\ \A j \in 1 .. built : Append(t.group_of, << >>)[j] = t.group_of[j]
      BY <2>2, <3>1
    <3>3. /\ u.group_of = Append(t.group_of, << >>)
          /\ u.patterns = t.patterns /\ u.cap = t.cap /\ u \in Tables
      BY <1>2, <2>5, <3>2 DEF Tables
    <3> QED
      BY <3>2, <3>3
  <2> HIDE DEF t, u
  <2>7. Listed(u) /\ Extends(t, u)
    BY <2>2, <2>6 DEF Listed, Extends
  <2>8. \A j \in 1 .. built :
           GroupedTo(u, object.family, j, EdgeCount(First))
    BY <2>2, <2>6, <2>7, GroupedKept
  <2>9. GroupedTo(u, object.family, n, 0)
    BY <2>6 DEF GroupedTo
  <2>10. First' = First /\ Finished' = 1 .. built /\ n = built'
    BY <1>2, <2>1 DEF First, Finished
  <2>11. Registered'
    BY <1>2, <2>2, <2>4, <2>6, <2>7, <2>8, <2>9, <2>10
       DEF Registered, u
  <2>12. \A j \in 1 .. n : Alike(j)
    BY <2>1, <2>3
  <2>13. \A j : Alike(j)' <=> Alike(j)
    BY <1>2 DEF Alike, Mismatch, First
  <2>14. \A j \in 1 .. built' : Alike(j)'
    BY <1>2, <2>12, <2>13
  <2> QED
    BY <1>2, <2>1, <2>11, <2>14 DEF Complete
<1> QED
  BY <1>1, <1>2 DEF TrellisInit

\* One pattern more, in a list that has it not and has room.
LEMMA PatternJoins ==
    ASSUME NEW P \in Seq(Rows), NEW row \in Rows,
           \A i \in DOMAIN P : P[i] # row,
           \A i, k \in DOMAIN P : P[i] = P[k] => i = k
    PROVE  /\ Append(P, row) \in Seq(Rows)
           /\ Len(Append(P, row)) = Len(P) + 1 /\ Append(P, row)[Len(P) + 1] = row
           /\ \A i \in DOMAIN P : /\ i \in DOMAIN Append(P, row)
                                  /\ Append(P, row)[i] = P[i]
           /\ \A i, k \in DOMAIN Append(P, row) :
                  Append(P, row)[i] = Append(P, row)[k] => i = k
<1> DEFINE Q == Append(P, row)
<1>1. /\ Q \in Seq(Rows) /\ Len(Q) = Len(P) + 1 /\ Q[Len(P) + 1] = row
      /\ \A i \in 1 .. Len(P) : Q[i] = P[i]
  OBVIOUS
<1>2. /\ DOMAIN P = 1 .. Len(P) /\ DOMAIN Q = 1 .. Len(Q) /\ Len(P) \in Nat
  BY <1>1
<1> HIDE DEF Q
<1>3. \A i \in DOMAIN P : i \in DOMAIN Q /\ Q[i] = P[i]
  BY <1>1, <1>2
<1>4. \A i \in DOMAIN Q : i \in DOMAIN P \/ i = Len(P) + 1
  BY <1>1, <1>2
<1>5. ASSUME NEW i \in DOMAIN Q, NEW k \in DOMAIN Q, Q[i] = Q[k] PROVE i = k
  <2>1. CASE i \in DOMAIN P /\ k \in DOMAIN P
    BY <1>3, <1>5, <2>1
  <2>2. CASE i \in DOMAIN P /\ k = Len(P) + 1
    BY <1>1, <1>3, <1>5, <2>2
  <2>3. CASE k \in DOMAIN P /\ i = Len(P) + 1
    BY <1>1, <1>3, <1>5, <2>3
  <2> QED
    BY <1>4, <2>1, <2>2, <2>3
<1> QED
  BY <1>1, <1>3, <1>5 DEF Q

\* register_patterns, one edge: the edge finds its row, and nothing that was
\* found before is lost.
LEMMA GroupedComplete ==
    ASSUME Shape, Complete, pc = "register",
           object.kind \in {"stream", "multi"},
           NEW index, NEW cap \in Nat, cap > 0, Grouped(index, cap),
           \/ index \in Known /\ cap = tables.cap
           \/ index = NewPattern /\ Known = {} /\ NewPattern <= cap
    PROVE  Complete'
<1> DEFINE t == tables
           u == tables'
           n == EdgeCount(First)
           row == Row(Newest, edge)
           P == tables.patterns
           G == tables.group_of
<1>1. /\ object.family # << >>
      /\ built \in Nat /\ built >= 1 /\ built <= Len(object.family)
      /\ Len(object.family) \in Nat
  BY DEF Shape
<1>2. Registered /\ \A j \in 1 .. built : Alike(j)
  BY <1>1 DEF Complete, Decoding
<1>3. /\ First # Null /\ Listed(t) /\ Len(G) = built
      /\ \A j \in 1 .. (built - 1) : GroupedTo(t, object.family, j, n)
      /\ edge \in Nat /\ edge < n
      /\ GroupedTo(t, object.family, built, edge)
  BY <1>2 DEF Registered, Finished
<1>4. n \in Nat
  BY <1>1, <1>3, FirstTyped, EdgeCountPositive
<1>5. /\ t \in Tables /\ P \in Seq(Rows) /\ Len(P) <= t.cap
      /\ G \in Seq(Seq(Nat)) /\ t.cap \in Nat
      /\ \A i, k \in DOMAIN P : P[i] = P[k] => i = k
  BY <1>3 DEF Listed, Tables
<1>6. row \in Rows
  <2>1. built \in 1 .. Len(object.family) /\ Alike(built)
    BY <1>1, <1>2
  <2>2. Newest \in DOMAIN Codes /\ EdgeCount(Newest) = n
    BY <2>1, AlikeTyped DEF Newest
  <2>3. edge \in 0 .. (n - 1)
    BY <1>3, <1>4
  <2> HIDE DEF n
  <2> QED
    BY <2>2, <2>3 DEF Rows
<1> DEFINE Q == IF index > Len(P) THEN Append(P, row) ELSE P
           g == Append(G[built], index)
           H == [G EXCEPT ![built] = g]
<1>7. /\ u = [t EXCEPT !.group_of[built] = g, !.patterns = Q, !.cap = cap]
      /\ UNCHANGED <<object, built>>
  BY DEF Grouped
<1> HIDE DEF row, n
<1>8. /\ Q \in Seq(Rows) /\ Len(Q) <= cap
      /\ index \in DOMAIN Q /\ Q[index] = row
      /\ \A i \in DOMAIN P : i \in DOMAIN Q /\ Q[i] = P[i]
      /\ \A i, k \in DOMAIN Q : Q[i] = Q[k] => i = k
  <2>1. CASE index \in Known /\ cap = tables.cap
    <3>1. index \in DOMAIN P /\ P[index] = row
      BY <2>1 DEF Known, row
    <3>2. ~(index > Len(P))
      BY <1>5, <3>1
    <3>3. Q = P
      BY <3>2
    <3> QED
      BY <1>5, <2>1, <3>1, <3>3
  <2>2. CASE index = NewPattern /\ Known = {} /\ NewPattern <= cap
    <3>1. index = Len(P) + 1 /\ Len(P) \in Nat
      BY <1>5, <2>2 DEF NewPattern
    <3>2. Q = Append(P, row)
      BY <3>1
    <3>3. \A i \in DOMAIN P : P[i] # row
      BY <2>2 DEF Known, row
    <3> HIDE DEF Q, P
    <3>4. /\ Q \in Seq(Rows) /\ Len(Q) = Len(P) + 1 /\ Q[Len(P) + 1] = row
          /\ \A i \in DOMAIN P : i \in DOMAIN Q /\ Q[i] = P[i]
          /\ \A i, k \in DOMAIN Q : Q[i] = Q[k] => i = k
      BY <1>5, <1>6, <3>2, <3>3, PatternJoins
    <3>5. index \in DOMAIN Q
      BY <3>1, <3>4
    <3>6. Len(Q) <= cap
      BY <2>2, <3>1, <3>4
    <3> QED
      BY <3>1, <3>4, <3>5, <3>6
  <2> QED
    BY <2>1, <2>2
<1>9. index \in Nat
  BY <1>8
<1>10. G[built] \in Seq(Nat) /\ built \in DOMAIN G
  BY <1>1, <1>3, <1>5
<1>11. Len(G[built]) = edge
  BY <1>3 DEF GroupedTo
<1>12. /\ g \in Seq(Nat) /\ Len(g) = edge + 1 /\ g[edge + 1] = index
       /\ \A e \in 0 .. (edge - 1) : g[e + 1] = G[built][e + 1]
  <2> DEFINE f == G[built]
  <2>1. f \in Seq(Nat) /\ Len(f) = edge
    BY <1>10, <1>11
  <2> HIDE DEF f
  <2>2. /\ Append(f, index) \in Seq(Nat) /\ Len(Append(f, index)) = edge + 1
        /\ Append(f, index)[edge + 1] = index
        /\ \A i \in 1 .. edge : Append(f, index)[i] = f[i]
    BY <1>9, <2>1
  <2>3. \A e \in 0 .. (edge - 1) : e + 1 \in 1 .. edge
    BY <1>3
  <2> QED
    BY <2>2, <2>3 DEF f
<1> HIDE DEF g, Q
<1>13. /\ H \in Seq(Seq(Nat)) /\ Len(H) = built /\ H[built] = g
       /\ \A j \in 1 .. (built - 1) : H[j] = G[j]
  BY <1>1, <1>3, <1>5, <1>10, <1>12
<1>14. /\ u.patterns = Q /\ u.group_of = H /\ u.cap = cap /\ u \in Tables
  <2> HIDE DEF H
  <2>1. t \in [patterns : Seq(Rows), cap : Nat, group_of : Seq(Seq(Nat)), rows : Nat]
    BY <1>5 DEF Tables
  <2>2. u = [t EXCEPT !.group_of = H, !.patterns = Q, !.cap = cap]
    BY <1>7 DEF H
  <2> HIDE DEF t, u
  <2> QED
    BY <1>8, <1>13, <2>1, <2>2 DEF Tables
<1> HIDE DEF H
<1>15. Listed(u) /\ Extends(t, u)
  BY <1>8, <1>14 DEF Listed, Extends
<1>16. \A j \in 1 .. (built - 1) : GroupedTo(u, object.family, j, n)
  <2> HIDE DEF t, u
  <2>1. \A j \in 1 .. (built - 1) : u.group_of[j] = t.group_of[j]
    BY <1>13, <1>14 DEF t
  <2> QED
    BY <1>3, <1>15, <2>1, GroupedKept
<1>17. GroupedTo(u, object.family, built, edge + 1)
  <2>1. u.group_of[built] = g
    BY <1>13, <1>14
  <2>2. ASSUME NEW e \in 0 .. ((edge + 1) - 1)
        PROVE  Finds(u, object.family, built, e)
    <3>1. CASE e = edge
      <4>1. g[e + 1] = index
        BY <1>12, <3>1
      <4>2. row = Row(object.family[built], e)
        BY <3>1 DEF row, Newest
      <4> QED
        BY <1>8, <1>14, <2>1, <4>1, <4>2 DEF Finds
    <3>2. CASE e # edge
      <4>1. e \in 0 .. (edge - 1)
        BY <1>3, <2>2, <3>2
      <4>2. Finds(t, object.family, built, e)
        BY <1>3, <4>1 DEF GroupedTo
      <4>3. u.group_of[built][e + 1] = t.group_of[built][e + 1]
        BY <1>12, <2>1, <4>1
      <4> HIDE DEF t, u
      <4> QED
        BY <1>15, <4>2, <4>3 DEF Finds, Extends
    <3> QED
      BY <3>1, <3>2
  <2>3. Len(u.group_of[built]) = edge + 1
    BY <1>12, <2>1
  <2> HIDE DEF u
  <2> QED
    BY <2>2, <2>3 DEF GroupedTo
<1>18. First' = First /\ n' = n
  BY <1>7 DEF First, n, EdgeCount, CodeK
<1>19. Len(u.group_of) = built
  BY <1>13, <1>14
<1>20. Registered' /\ pc' \notin {"idle", "tables", "context", "ready"}
  <2>1. CASE edge + 1 < n
    <3>1. edge' = edge + 1 /\ pc' = "register"
      BY <2>1 DEF Grouped, n
    <3>2. Finished' = 1 .. (built - 1)
      BY <1>7, <3>1 DEF Finished
    <3>3. GroupedTo(u, object'.family, built', edge')
      BY <1>7, <1>17, <3>1
    <3>4. edge' \in Nat /\ edge' < n
      BY <1>3, <2>1, <3>1
    <3> HIDE DEF u
    <3> QED
      BY <1>3, <1>7, <1>15, <1>16, <1>18, <1>19, <3>1, <3>2, <3>3, <3>4
         DEF Registered, u, n
  <2>2. CASE ~(edge + 1 < n)
    <3>1. pc' \in {"trellis", "finalize"}
      BY <2>2 DEF Grouped, n
    <3>2. edge + 1 = n
      BY <1>3, <1>4, <2>2
    <3>3. Finished' = 1 .. built
      BY <1>7, <3>1 DEF Finished
    <3>4. \A j \in 1 .. built : j \in 1 .. (built - 1) \/ j = built
      BY <1>1
    <3>5. \A j \in 1 .. built : GroupedTo(u, object.family, j, n)
      <4> HIDE DEF u
      <4> QED
        BY <1>16, <1>17, <3>2, <3>4
    <3> HIDE DEF u
    <3> QED
      BY <1>3, <1>7, <1>15, <1>18, <1>19, <3>1, <3>3, <3>5
         DEF Registered, u, n
  <2> QED
    BY <2>1, <2>2
<1>21. \A j : Alike(j)' <=> Alike(j)
  BY <1>7 DEF Alike, Mismatch, First
<1>22. \A j \in 1 .. built' : Alike(j)'
  BY <1>2, <1>7, <1>21
<1> QED
  BY <1>1, <1>7, <1>20, <1>22 DEF Complete

LEMMA RegisterComplete ==
    ASSUME IInv, Complete, PatternKnown \/ PatternAdded \/ PatternGrows
    PROVE  Complete'
<1>1. /\ Shape /\ pc = "register" /\ object.kind \in {"stream", "multi"}
  BY DEF IInv, Shape, PatternKnown, PatternAdded, PatternGrows
<1>2. object.family # << >>
  BY <1>1 DEF Shape
<1>3. /\ tables.cap \in Nat /\ tables.cap > 0
      /\ Len(tables.patterns) \in Nat /\ Len(tables.patterns) <= tables.cap
  BY <1>1, <1>2 DEF Complete, Decoding, Registered, Listed, Tables
<1>4. NewPattern = Len(tables.patterns) + 1
  BY DEF NewPattern
<1>5. CASE PatternKnown
  <2>1. PICK i \in Known : Grouped(i, tables.cap)
    BY <1>5 DEF PatternKnown
  <2> QED
    BY <1>1, <1>3, <2>1, GroupedComplete
<1>6. CASE PatternAdded
  <2>1. Known = {} /\ Grouped(NewPattern, tables.cap)
    BY <1>6 DEF PatternAdded
  <2>2. NewPattern <= tables.cap
    BY <1>3, <1>4, <1>6 DEF PatternAdded, Full
  <2> QED
    BY <1>1, <1>3, <2>1, <2>2, GroupedComplete
<1>7. CASE PatternGrows
  <2>1. CASE Abandon(TrellisFree(mem, {built}))
    BY <2>1, AbandonComplete
  <2>2. CASE Grouped(NewPattern, 2 * tables.cap)
    <3>1. Known = {}
      BY <1>7 DEF PatternGrows
    <3>2. /\ 2 * tables.cap \in Nat /\ 2 * tables.cap > 0
          /\ NewPattern <= 2 * tables.cap
      BY <1>3, <1>4
    <3> QED
      BY <1>1, <2>2, <3>1, <3>2, GroupedComplete
  <2> QED
    BY <1>7, <2>1, <2>2 DEF PatternGrows
<1> QED
  BY <1>5, <1>6, <1>7

\* The list is not empty: the first code has an edge, and it found its row.
LEMMA FinalizeComplete ==
    ASSUME IInv, Complete, Finalize
    PROVE  Complete'
<1>1. CASE \E m : Abandon(m)
  BY <1>1, AbandonComplete
<1> DEFINE rows == IF tables.patterns = << >> THEN 1 ELSE Len(tables.patterns)
<1>2. CASE /\ tables' = [tables EXCEPT !.rows = rows]
           /\ pc' = "ready"
           /\ UNCHANGED <<object, built, edge>>
  <2>1. /\ Shape /\ pc = "finalize" /\ object.family # << >>
        /\ object.kind \in {"stream", "multi"}
        /\ built = Len(object.family) /\ built \in Nat
    BY DEF Finalize, IInv, Shape
  <2>2. Registered /\ \A j \in 1 .. built : Alike(j)
    BY <2>1 DEF Complete, Decoding
  <2>3. /\ First # Null /\ Listed(tables) /\ Len(tables.group_of) = built
        /\ \A j \in 1 .. built :
               GroupedTo(tables, object.family, j, EdgeCount(First))
    BY <2>1, <2>2 DEF Registered, Finished
  <2>4. EdgeCount(First) \in Nat /\ EdgeCount(First) > 0
    BY <2>1, <2>3, FirstTyped, EdgeCountPositive
  <2>5. tables.patterns # << >>
    <3>1. 1 \in 1 .. built
      BY <2>1 DEF Shape
    <3>2. 0 \in 0 .. (EdgeCount(First) - 1)
      BY <2>4
    <3>3. Finds(tables, object.family, 1, 0)
      BY <2>3, <3>1, <3>2 DEF GroupedTo
    <3>4. DOMAIN tables.patterns # {}
      BY <3>3 DEF Finds
    <3>5. DOMAIN << >> = {}
      OBVIOUS
    <3> QED
      BY <3>4, <3>5
  <2>6. rows = Len(tables.patterns)
    BY <2>5
  <2> HIDE DEF rows
  <2>7. /\ tables'.patterns = tables.patterns /\ tables'.rows = rows
        /\ tables'.group_of = tables.group_of /\ tables'.cap = tables.cap
        /\ tables' \in Tables
    <3>1. tables \in Tables /\ rows \in Nat
      BY <2>3, <2>6 DEF Listed, Tables
    <3> QED
      BY <1>2, <3>1 DEF Tables
  <2>8. Listed(tables') /\ Extends(tables, tables')
    BY <2>3, <2>7 DEF Listed, Extends
  <2>9. \A j \in 1 .. built :
           GroupedTo(tables', object.family, j, EdgeCount(First))
    BY <2>3, <2>7, <2>8, GroupedKept
  <2>10. First' = First /\ Finished' = 1 .. built
    BY <1>2 DEF First, Finished
  <2>11. Registered'
    BY <1>2, <2>3, <2>6, <2>7, <2>8, <2>9, <2>10 DEF Registered
  <2>12. \A j : Alike(j)' <=> Alike(j)
    BY <1>2 DEF Alike, Mismatch, First
  <2>13. \A j \in 1 .. built' : Alike(j)'
    BY <1>2, <2>2, <2>12
  <2> QED
    BY <1>2, <2>1, <2>11, <2>13 DEF Complete
<1> QED
  BY <1>1, <1>2 DEF Finalize

LEMMA EncoderEntryComplete ==
    ASSUME IInv, Complete, EncoderEntry
    PROVE  Complete'
<1>1. CASE Abandon(mem)
  BY <1>1, AbandonComplete
<1>2. CASE /\ ~(Upcoming = Null \/ Mismatch(Upcoming))
           /\ built' = built + 1
           /\ pc' = IF built + 1 < Len(object.family) THEN "entry" ELSE "ready"
           /\ UNCHANGED <<object, edge, tables, mem>>
  <2>1. /\ Shape /\ pc = "entry" /\ object.kind = "encoder"
        /\ built \in Nat /\ built < Len(object.family)
        /\ Len(object.family) \in Nat
        /\ \A j \in 1 .. built : Alike(j)
    BY DEF EncoderEntry, IInv, Shape, Complete
  <2>2. Alike(built + 1)
    BY <1>2 DEF Upcoming, Alike
  <2>3. \A j \in 1 .. (built + 1) : Alike(j)
    BY <2>1, <2>2
  <2>4. \A j : Alike(j)' <=> Alike(j)
    BY <1>2 DEF Alike, Mismatch, First
  <2>5. \A j \in 1 .. built' : Alike(j)'
    BY <1>2, <2>3, <2>4
  <2>6. pc' = "ready" => built' = Len(object'.family)
    BY <1>2, <2>1
  <2>7. pc' \in {"entry", "ready"} /\ object' = object
    BY <1>2
  <2> QED
    BY <2>1, <2>5, <2>6, <2>7 DEF Complete, Decoding
<1> QED
  BY <1>1, <1>2 DEF EncoderEntry

\* Enlarging the buffer leaves the tables alone.
LEMMA SameComplete ==
    ASSUME Complete, UNCHANGED <<pc, object, built, edge, tables>>
    PROVE  Complete'
<1>1. \A j : Alike(j)' <=> Alike(j)
  BY DEF Alike, Mismatch, First
<1>2. Registered => Registered'
  BY DEF Registered, First, Finished
<1>3. Decoding' <=> Decoding
  BY DEF Decoding
<1> QED
  BY <1>1, <1>2, <1>3 DEF Complete

LEMMA CreateComplete ==
    ASSUME IInv, Complete, StreamCreate \/ MultiCreate \/ EncoderCreate \/ CodeCreate
    PROVE  Complete'
<1>1. CASE StreamCreate
  <2>1. PICK c \in DOMAIN Codes, params \in Params :
            Begin("stream", <<c>>, params, "context")
    BY <1>1 DEF StreamCreate
  <2>2. <<c>> \in Seq(DOMAIN Codes \cup {Null}) /\ <<c>> # << >>
    OBVIOUS
  <2> QED
    BY <2>1, <2>2, BeginComplete
<1>2. CASE MultiCreate
  <2>1. PICK family \in Families, params \in Params :
            Begin("multi", family, params,
                  IF family = << >> THEN "ready" ELSE "context")
    BY <1>2 DEF MultiCreate
  <2>2. family \in Seq(DOMAIN Codes \cup {Null})
    BY LifecycleAssumption
  <2>3. CASE family = << >>
    BY <2>1, <2>2, <2>3, BeginComplete
  <2>4. CASE family # << >>
    BY <2>1, <2>2, <2>4, BeginComplete
  <2> QED
    BY <2>3, <2>4
<1>3. CASE EncoderCreate
  <2>1. PICK family \in Families :
            Begin("encoder", family, Null,
                  IF family = << >> THEN "ready" ELSE "array")
    BY <1>3 DEF EncoderCreate
  <2>2. family \in Seq(DOMAIN Codes \cup {Null})
    BY LifecycleAssumption
  <2>3. CASE family = << >>
    BY <2>1, <2>2, <2>3, BeginComplete
  <2>4. CASE family # << >>
    BY <2>1, <2>2, <2>4, BeginComplete
  <2> QED
    BY <2>3, <2>4
<1>4. CASE CodeCreate
  <2>1. PICK call \in CodeCalls : Begin("code", << >>, call, "tables")
    BY <1>4 DEF CodeCreate
  <2>2. << >> \in Seq(DOMAIN Codes \cup {Null})
    OBVIOUS
  <2> QED
    BY <2>1, <2>2, BeginComplete
<1> QED
  BY <1>1, <1>2, <1>3, <1>4

LEMMA NextComplete == IInv /\ Complete /\ [Next]_vars => Complete'
<1> SUFFICES ASSUME IInv, Complete, [Next]_vars PROVE Complete'
  OBVIOUS
<1>1. CASE StreamCreate \/ MultiCreate \/ EncoderCreate \/ CodeCreate
  BY <1>1, CreateComplete
<1>2. CASE CodeTables
  BY <1>2, CodeTablesComplete
<1>3. CASE ContextRefused \/ TrellisRefused
  BY <1>3, AbandonComplete DEF ContextRefused, TrellisRefused
<1>4. CASE ContextInit
  BY <1>4, ContextInitComplete
<1>5. CASE ArrayInit
  BY <1>5, ArrayInitComplete
<1>6. CASE TrellisInit
  BY <1>6, TrellisInitComplete
<1>7. CASE PatternKnown \/ PatternAdded \/ PatternGrows
  BY <1>7, RegisterComplete
<1>8. CASE Finalize
  BY <1>8, FinalizeComplete
<1>9. CASE EncoderEntry
  BY <1>9, EncoderEntryComplete
<1>10. CASE BufferGrows
  BY <1>10, SameComplete DEF BufferGrows
<1>11. CASE Destroy
  BY <1>11, GoneComplete DEF Destroy
<1>12. CASE UNCHANGED vars
  BY <1>12, SameComplete DEF vars
<1> QED
  BY <1>1, <1>2, <1>3, <1>4, <1>5, <1>6, <1>7, <1>8, <1>9, <1>10, <1>11,
     <1>12 DEF Next

LEMMA CompleteHolds == Spec => []Complete
<1> QED
  BY InitComplete, NextComplete, Invariance, PTL DEF Spec

\* Whatever failed on the way, an object a caller gets has all its fields,
\* codes of one geometry, and in a decoder a table in which every edge of
\* every code finds its own row (register_patterns, dv_decode_ctx_finalize).
THEOREM ObjectIsComplete == Spec => []ReadyIsComplete
<1>1. ASSUME IInv, Complete PROVE ReadyIsComplete
  <2> SUFFICES ASSUME pc = "ready" PROVE ReadyIsComplete
    BY DEF ReadyIsComplete
  <2>1. RequiredPlaces = {p \in Places : Held(mem, p)}
    <3>1. Holds(mem, RequiredPlaces, {})
      BY <1>1 DEF IInv, Made
    <3>2. /\ RequiredPlaces \subseteq Places
          /\ \A p \in Places : Held(mem, p) <=> p \in RequiredPlaces
      BY <3>1 DEF Holds
    <3> QED
      BY <3>2
  <2>2. /\ Shape /\ built = Len(object.family)
        /\ \A j \in 1 .. built : Alike(j)
        /\ object.kind \in {"stream", "multi", "encoder", "code"}
    BY <1>1 DEF IInv, Shape, Complete
  <2>3. DOMAIN object.family = 1 .. built
    BY <2>2 DEF Shape
  <2>4. \A j \in DOMAIN object.family :
           object.family[j] # Null /\ ~Mismatch(object.family[j])
    BY <2>2, <2>3 DEF Alike
  <2> DEFINE Served ==
        /\ tables.rows = Len(tables.patterns) \/ object.family = << >>
        /\ Len(tables.patterns) <= tables.cap
        /\ \A j, k \in DOMAIN tables.patterns :
               tables.patterns[j] = tables.patterns[k] => j = k
        /\ \A j \in DOMAIN object.family :
               \A e \in 0 .. (EdgeCount(First) - 1) :
                   tables.patterns[tables.group_of[j][e + 1]]
                       = Row(object.family[j], e)
  <2>5. CASE Decoding
    <3>1. Registered
      BY <1>1, <2>5 DEF Complete
    <3>2. /\ Listed(tables) /\ tables.rows = Len(tables.patterns)
          /\ \A j \in 1 .. built :
                 GroupedTo(tables, object.family, j, EdgeCount(First))
      BY <3>1 DEF Registered, Finished
    <3>3. \A j \in DOMAIN object.family :
             \A e \in 0 .. (EdgeCount(First) - 1) :
                 tables.patterns[tables.group_of[j][e + 1]]
                     = Row(object.family[j], e)
      BY <2>3, <3>2 DEF GroupedTo, Finds
    <3>4. Served
      BY <3>2, <3>3 DEF Listed
    <3> HIDE DEF Served
    <3>5. object.kind \in {"stream", "multi"} => Served
      BY <3>4
    <3> QED
      BY <2>1, <2>4, <3>5 DEF ReadyIsComplete, Served
  <2>6. CASE ~Decoding
    <3>1. ASSUME object.kind \in {"stream", "multi"} PROVE Served
      <4>1. object.family = << >>
        BY <2>6, <3>1 DEF Decoding
      <4>2. object.kind = "multi"
        BY <2>2, <3>1, <4>1 DEF Shape
      <4>3. tables = NoTables
        BY <1>1, <4>1, <4>2 DEF Complete
      <4>4. tables.patterns = << >> /\ tables.cap = 0
        BY <4>3 DEF NoTables
      <4>5. Len(<< >>) = 0 /\ DOMAIN << >> = {}
        OBVIOUS
      <4>6. DOMAIN object.family = {}
        BY <4>1, <4>5
      <4> QED
        BY <4>1, <4>4, <4>5, <4>6
    <3> HIDE DEF Served
    <3>2. object.kind \in {"stream", "multi"} => Served
      BY <3>1
    <3> QED
      BY <2>1, <2>4, <3>2 DEF ReadyIsComplete, Served
  <2> QED
    BY <2>5, <2>6
<1> QED
  BY <1>1, Invariance, CompleteHolds, PTL
=============================================================================
