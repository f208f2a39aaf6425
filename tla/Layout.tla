-------------------------------- MODULE Layout ---------------------------------
(* The layout of structs, unions and tagged enums: src/codegen/cg_layout.c.  Every  *)
(* type is completed after the types it holds by value, depth first, with one of    *)
(* four states per type; sizes are checked against the target's address space       *)
(* before LLVM is asked for them.  What LLVM answers (size, alignment and offsets   *)
(* of a literal body) is computed here by its rule.                                 *)
EXTENDS Integers, Sequences, FiniteSets

CONSTANTS TypeCount,       \* the types are 1 .. TypeCount, in the order of registration
          AtomShapes,      \* the builtin types with their [size, align]
          Tag,             \* the builtin type of an enum's tag, i32
          PointerShape,
          SizeLimit,       \* stands for 2^(bits-1) - 1, cg_layout_max_size
          Fields,          \* the fields and payloads a declaration may hold
          Attributes,      \* kind, packed and requested alignment of a declaration
          PlainStruct,     \* the attributes that all declarations but one have
          MaxFields        \* bound: fields of all the types together

LayTypes == 1 .. TypeCount
Shape == [size : Nat, align : Nat \ {0}]
Alignments == {AtomShapes[a].align : a \in DOMAIN AtomShapes} \cup {PointerShape.align}

\* Alignments are powers of two; of those it is used that the less divides the greater.
ASSUME LayoutAssumption ==
  /\ TypeCount \in Nat /\ SizeLimit \in Nat \ {0} /\ MaxFields \in Nat
  /\ PointerShape \in Shape /\ AtomShapes \in [DOMAIN AtomShapes -> Shape]
  /\ DOMAIN AtomShapes \cap LayTypes = {} /\ Tag \in DOMAIN AtomShapes
  /\ Fields \subseteq [how : {"value", "pointer", "atomic", "bitfield", "sizeof"},
                       of : DOMAIN AtomShapes \cup LayTypes, dims : Seq(Nat)]
  /\ Attributes \subseteq [kind : {"struct", "union", "enum"}, packed : BOOLEAN, requested : Nat]
  /\ PlainStruct \in Attributes
  /\ \A a, b \in Alignments : a <= b => b % a = 0
  /\ \A a \in DOMAIN AtomShapes :
       AtomShapes[a].size <= SizeLimit /\ AtomShapes[a].size % AtomShapes[a].align = 0
  /\ PointerShape.size <= SizeLimit

VARIABLES
  layPhase,       \* "register", "layout", "done"
  layDecl,        \* the declarations: attributes and fields
  layState,       \* layout_state
  layFrames,      \* the calls of cg_layout_struct and cg_layout_enum in progress
  layShape,       \* size_bytes and abi_alignment of a complete type
  layOffsets,     \* the offsets of its members
  layReported     \* the types whose layout has printed a diagnostic

layVars == <<layPhase, layDecl, layState, layFrames, layShape, layOffsets, layReported>>

Declared == 1 .. Len(layDecl)
FieldsOf(t) == layDecl[t].fields
Packed(t) == layDecl[t].attr.packed
Kind(t) == layDecl[t].attr.kind
TopFrame == layFrames[Len(layFrames)]

LayoutTypeOK ==
  /\ layPhase \in {"register", "layout", "done"}
  /\ layDecl \in Seq([attr : Attributes, fields : Seq(Fields)]) /\ Len(layDecl) <= TypeCount
  /\ layState \in [LayTypes -> {"pending", "visiting", "complete", "invalid"}]
  /\ layFrames \in Seq([type : LayTypes, next : Nat, ok : BOOLEAN, got : Seq(Shape)])
  /\ layShape \in [LayTypes -> [size : Nat, align : Nat]]
  /\ layOffsets \in [LayTypes -> Seq(Nat)]
  /\ layReported \subseteq LayTypes

LayoutInit ==
  /\ layPhase = "register" /\ layDecl = <<>> /\ layFrames = <<>> /\ layReported = {}
  /\ layState = [t \in LayTypes |-> "pending"]
  /\ layShape = [t \in LayTypes |-> [size |-> 0, align |-> 0]]
  /\ layOffsets = [t \in LayTypes |-> <<>>]

--------------------------------------------------------------------------------
(* What LLVM's DataLayout answers, and the checks made before it is asked. *)

Pad(n, a) == (a - (n % a)) % a
RoundUp(n, a) == n + Pad(n, a)
Greatest(S) == CHOOSE x \in S : \A y \in S : y <= x
ShapesIn(shapes) == {shapes[k] : k \in DOMAIN shapes}
AlignIn(s, packed) == IF packed THEN 1 ELSE s.align

\* Where the first n members of a body end.
Ends(shapes, packed) ==
  LET end[n \in 0 .. Len(shapes)] ==
        IF n = 0 THEN 0 ELSE RoundUp(end[n - 1], AlignIn(shapes[n], packed)) + shapes[n].size
  IN end

BodyOffsets(shapes, packed) ==
  [k \in DOMAIN shapes |-> RoundUp(Ends(shapes, packed)[k - 1], AlignIn(shapes[k], packed))]

BodyAlign(shapes, packed) == Greatest({1} \cup {AlignIn(s, packed) : s \in ShapesIn(shapes)})

BodyShape(shapes, packed) ==
  [size |-> RoundUp(Ends(shapes, packed)[Len(shapes)], BodyAlign(shapes, packed)),
   align |-> BodyAlign(shapes, packed)]

\* cg_layout_fits: the padding before each member, the member, and the tail.
\* (Fault: the tail is not looked at.)
BodyFits_NoTail(shapes, packed) ==
  \A k \in DOMAIN shapes : Ends(shapes, packed)[k] <= SizeLimit
BodyFits(shapes, packed) ==
  LET end == Ends(shapes, packed)
  IN /\ \A k \in DOMAIN shapes :
          /\ Pad(end[k - 1], AlignIn(shapes[k], packed)) <= SizeLimit - end[k - 1]
          /\ shapes[k].size <= SizeLimit - end[k - 1] - Pad(end[k - 1], AlignIn(shapes[k], packed))
     /\ Pad(end[Len(shapes)], BodyAlign(shapes, packed)) <= SizeLimit - end[Len(shapes)]

\* cg_layout_storage: room for the largest member, at the largest alignment.
StorageRoom(shapes) == Greatest({1} \cup {s.size : s \in ShapesIn(shapes)})
StorageFits(shapes, packed) ==
  /\ StorageRoom(shapes) <= SizeLimit
  /\ Pad(StorageRoom(shapes), BodyAlign(shapes, packed)) <= SizeLimit - StorageRoom(shapes)

\* The member that lends the storage its alignment is the first with the largest;
\* bytes behind it make up the size.  (Fault: the largest member lends it.)
Anchor_Largest(shapes) ==
  IF shapes = <<>> THEN [size |-> 1, align |-> 1]
  ELSE CHOOSE s \in ShapesIn(shapes) : \A r \in ShapesIn(shapes) : r.size <= s.size
Anchor(shapes) ==
  IF BodyAlign(shapes, FALSE) = 1 THEN [size |-> 1, align |-> 1]
  ELSE shapes[CHOOSE k \in DOMAIN shapes : shapes[k].align = BodyAlign(shapes, FALSE)
                                        /\ \A j \in 1 .. k - 1 : shapes[j].align # shapes[k].align]
StorageShape(shapes, packed) ==
  IF packed THEN [size |-> StorageRoom(shapes), align |-> 1]
  ELSE BodyShape(<<Anchor(shapes), [size |-> StorageRoom(shapes) - Anchor(shapes).size, align |-> 1]>>, FALSE)

EnumBody(shapes) == <<AtomShapes[Tag], StorageShape(shapes, FALSE)>>

--------------------------------------------------------------------------------
(* Registration: every type is known before the first is laid out. *)

RegisterType(a) ==
  /\ layPhase = "register" /\ Len(layDecl) < TypeCount
  /\ a = PlainStruct \/ \A t \in Declared : layDecl[t].attr = PlainStruct
  /\ layDecl' = Append(layDecl, [attr |-> a, fields |-> <<>>])
  /\ UNCHANGED <<layPhase, layState, layFrames, layShape, layOffsets, layReported>>

FieldCount == Cardinality(UNION {{<<t, k>> : k \in DOMAIN FieldsOf(t)} : t \in Declared})

\* A variant's payload is a plain type; only a struct's or a union's field can be more.
AddField(f) ==
  /\ layPhase = "register" /\ layDecl # <<>> /\ FieldCount < MaxFields
  /\ Kind(Len(layDecl)) = "enum" => f.how \in {"value", "pointer"} /\ f.dims = <<>>
  /\ layDecl' = [layDecl EXCEPT ![Len(layDecl)].fields = Append(@, f)]
  /\ UNCHANGED <<layPhase, layState, layFrames, layShape, layOffsets, layReported>>

\* An enum without a payload is its tag, and complete from the start.
Untagged(t) == Kind(t) = "enum" /\ FieldsOf(t) = <<>>

AllRegistered ==
  /\ layPhase = "register" /\ Len(layDecl) = TypeCount /\ layPhase' = "layout"
  /\ layState' = [t \in LayTypes |-> IF Untagged(t) THEN "complete" ELSE layState[t]]
  /\ layShape' = [t \in LayTypes |-> IF Untagged(t) THEN AtomShapes[Tag] ELSE layShape[t]]
  /\ UNCHANGED <<layDecl, layFrames, layOffsets, layReported>>

--------------------------------------------------------------------------------
(* Layout *)

Visit(t) == [type |-> t, next |-> 1, ok |-> TRUE, got |-> <<>>]

\* The structs and unions are asked for in turn, the enums after them.
AskedFirst(t) ==
  /\ layState[t] = "pending"
  /\ \A u \in LayTypes : layState[u] = "pending" =>
       \/ Kind(t) # "enum" /\ Kind(u) = "enum"
       \/ (Kind(t) = "enum") = (Kind(u) = "enum") /\ t <= u

Request(t) ==
  /\ layPhase = "layout" /\ layFrames = <<>> /\ AskedFirst(t)
  /\ layFrames' = <<Visit(t)>> /\ layState' = [layState EXCEPT ![t] = "visiting"]
  /\ UNCHANGED <<layPhase, layDecl, layShape, layOffsets, layReported>>

AllLaidOut ==
  /\ layPhase = "layout" /\ layFrames = <<>> /\ \A t \in LayTypes : layState[t] # "pending"
  /\ layPhase' = "done"
  /\ UNCHANGED <<layDecl, layState, layFrames, layShape, layOffsets, layReported>>

CurrentField == FieldsOf(TopFrame.type)[TopFrame.next]
AtField == layPhase = "layout" /\ layFrames # <<>> /\ TopFrame.next <= Len(FieldsOf(TopFrame.type))

\* cg_layout_require_type asks for the layout of a type the field has by value, or whose
\* size a compile-time field needs; a pointer is finite whatever it points to.
\* (Fault: also of the type a pointer points to.)
Needs_Pointee(f) == f.of \in LayTypes
Needs(f) == f.how # "pointer" /\ f.of \in LayTypes

\* The field is refused for itself, before its type is looked at.
FieldRefused(f) == f.how = "bitfield" \/ (f.how = "atomic" /\ Packed(TopFrame.type))

\* The rest of a declaration is still looked at after a field has failed.
FieldFails(reported) ==
  /\ layFrames' = [layFrames EXCEPT ![Len(layFrames)].ok = FALSE, ![Len(layFrames)].next = @ + 1]
  /\ layReported' = IF reported THEN layReported \cup {TopFrame.type} ELSE layReported
  /\ UNCHANGED <<layPhase, layDecl, layState, layShape, layOffsets>>

RefuseField == AtField /\ FieldRefused(CurrentField) /\ FieldFails(TRUE)

NeedsNow(state) == AtField /\ ~FieldRefused(CurrentField) /\ Needs(CurrentField) /\ layState[CurrentField.of] = state

EnterType ==
  /\ NeedsNow("pending")
  /\ layFrames' = Append(layFrames, Visit(CurrentField.of))
  /\ layState' = [layState EXCEPT ![CurrentField.of] = "visiting"]
  /\ UNCHANGED <<layPhase, layDecl, layShape, layOffsets, layReported>>

\* A type met again while it is visited holds itself by value.
MeetVisiting == NeedsNow("visiting") /\ FieldFails(TRUE)

\* A type that has failed before says nothing again.
MeetInvalid == NeedsNow("invalid") /\ FieldFails(FALSE)

ElementShape(f) ==
  IF f.how = "pointer" THEN PointerShape
  ELSE IF f.of \in LayTypes THEN layShape[f.of] ELSE AtomShapes[f.of]

\* cg_layout_field_type: the extents from the last to the first, each checked to be
\* positive and to leave the array within the address space.  LLVM counts in words that
\* hold twice the address space, and does not say when it has passed their end.
\* (Fault: each extent is checked against the element alone.)
ArraySizes(f) ==
  LET size[d \in 0 .. Len(f.dims)] ==
        IF d = 0 THEN ElementShape(f).size
        ELSE (f.dims[Len(f.dims) + 1 - d] * size[d - 1]) % (2 * (SizeLimit + 1))
  IN size
ArrayFits_Element(f) ==
  \A d \in DOMAIN f.dims : f.dims[d] > 0 /\ f.dims[d] * ElementShape(f).size <= SizeLimit
ArrayFits(f) ==
  \A d \in DOMAIN f.dims :
    LET n == f.dims[Len(f.dims) + 1 - d]
        elem == ArraySizes(f)[d - 1]
    IN n > 0 /\ (elem > 0 => n <= SizeLimit \div elem)

\* The type of the field is complete, or needs no completion.
FieldComplete == AtField /\ ~FieldRefused(CurrentField) /\ (Needs(CurrentField) => layState[CurrentField.of] = "complete")

ArrayTooLarge == FieldComplete /\ ~ArrayFits(CurrentField) /\ FieldFails(TRUE)

TakeField ==
  /\ FieldComplete /\ ArrayFits(CurrentField)
  /\ layFrames' = [layFrames EXCEPT
       ![Len(layFrames)].next = @ + 1,
       ![Len(layFrames)].got =
          IF CurrentField.how = "sizeof" THEN @    \* a compile-time field has no storage
          ELSE Append(@, [size |-> ArraySizes(CurrentField)[Len(CurrentField.dims)], align |-> ElementShape(CurrentField).align])]
  /\ UNCHANGED <<layPhase, layDecl, layState, layShape, layOffsets, layReported>>

FieldsDone == layPhase = "layout" /\ layFrames # <<>> /\ TopFrame.next > Len(FieldsOf(TopFrame.type))

BodyAccepted(t, got) ==
  CASE Kind(t) = "struct" -> BodyFits(got, Packed(t))
    [] Kind(t) = "union"  -> StorageFits(got, Packed(t))
    [] Kind(t) = "enum"   -> StorageFits(got, FALSE) /\ BodyFits(EnumBody(got), FALSE)

LaidShape(t, got) ==
  CASE Kind(t) = "struct" -> BodyShape(got, Packed(t))
    [] Kind(t) = "union"  -> StorageShape(got, Packed(t))
    [] Kind(t) = "enum"   -> BodyShape(EnumBody(got), FALSE)

LaidOffsets(t, got) ==
  CASE Kind(t) = "struct" -> BodyOffsets(got, Packed(t))
    [] Kind(t) = "union"  -> [k \in DOMAIN got |-> 0]
    [] Kind(t) = "enum"   -> [k \in DOMAIN got |-> BodyOffsets(EnumBody(got), FALSE)[2]]

\* A requested alignment is an assertion: a power of two that the layout already has.
PowerOfTwo(n) == n \in {1, 2, 4, 8, 16}
RequestMet(t, shape) ==
  LET r == layDecl[t].attr.requested
  IN r = 0 \/ Kind(t) = "enum" \/ (PowerOfTwo(r) /\ r <= shape.align)

Leave(t, state) ==
  /\ layFrames' = SubSeq(layFrames, 1, Len(layFrames) - 1)
  /\ layState' = [layState EXCEPT ![t] = state]
  /\ UNCHANGED <<layPhase, layDecl>>

CompleteType ==
  LET t == TopFrame.type
  IN /\ FieldsDone /\ TopFrame.ok /\ BodyAccepted(t, TopFrame.got)
     /\ RequestMet(t, LaidShape(t, TopFrame.got))
     /\ layShape' = [layShape EXCEPT ![t] = LaidShape(t, TopFrame.got)]
     /\ layOffsets' = [layOffsets EXCEPT ![t] = LaidOffsets(t, TopFrame.got)]
     /\ UNCHANGED layReported /\ Leave(t, "complete")

\* (Fault: the failure is lost.)
FailedState_Complete == "complete"
FailedState == "invalid"

\* The body or the request is refused here, with a diagnostic.
RefuseType ==
  LET t == TopFrame.type
  IN /\ FieldsDone /\ TopFrame.ok
     /\ BodyAccepted(t, TopFrame.got) => ~RequestMet(t, LaidShape(t, TopFrame.got))
     /\ layReported' = layReported \cup {t}
     /\ UNCHANGED <<layShape, layOffsets>> /\ Leave(t, FailedState)

\* A field has failed, and has said so.
FailType ==
  /\ FieldsDone /\ ~TopFrame.ok
  /\ UNCHANGED <<layShape, layOffsets, layReported>> /\ Leave(TopFrame.type, FailedState)

LayoutNext ==
  \/ AllRegistered \/ AllLaidOut
  \/ \E a \in Attributes : RegisterType(a)
  \/ \E f \in Fields : AddField(f)
  \/ \E t \in LayTypes : Request(t)
  \/ RefuseField \/ EnterType \/ MeetVisiting \/ MeetInvalid \/ ArrayTooLarge \/ TakeField
  \/ CompleteType \/ RefuseType \/ FailType

LayoutSpec == LayoutInit /\ [][LayoutNext]_layVars

--------------------------------------------------------------------------------
(* Properties. *)

CompleteTypes == {t \in LayTypes : layState[t] = "complete"}
MemberIndices(t) == {k \in DOMAIN FieldsOf(t) : FieldsOf(t)[k].how # "sizeof"}
MemberNumber(t, k) == Cardinality({j \in MemberIndices(t) : j <= k})

\* The bytes a member needs, by the definition of the language and without a limit.
BytesOf(f) ==
  LET product[d \in 0 .. Len(f.dims)] == IF d = 0 THEN 1 ELSE product[d - 1] * f.dims[d]
  IN product[Len(f.dims)] * ElementShape(f).size
NaturalAlign(t, f) == IF Packed(t) THEN 1 ELSE ElementShape(f).align

\* In a complete type each member lies at a multiple of its alignment, within the type;
\* the members of a struct do not overlap, those of a union start at zero, a payload
\* lies behind the tag.  The stride of the type keeps all this true for the elements
\* of an array.
MembersPlaced ==
  \A t \in CompleteTypes :
    /\ layShape[t].align > 0
    /\ layShape[t].size <= SizeLimit /\ layShape[t].size % layShape[t].align = 0
    /\ Len(layOffsets[t]) = Cardinality(MemberIndices(t))
    /\ \A k \in MemberIndices(t) :
         LET f == FieldsOf(t)[k]
             at == layOffsets[t][MemberNumber(t, k)]
         IN /\ at + BytesOf(f) <= layShape[t].size
            /\ at % NaturalAlign(t, f) = 0 /\ layShape[t].align % NaturalAlign(t, f) = 0
            /\ Kind(t) = "union" => at = 0
            /\ Kind(t) = "enum" => at >= AtomShapes[Tag].size
            /\ \A j \in MemberIndices(t) : Kind(t) = "struct" /\ j < k =>
                 layOffsets[t][MemberNumber(t, j)] + BytesOf(FieldsOf(t)[j]) <= at

\* What a type needs complete: the reference for the verdict, with no order in it.
DependsOn(t, u) == \E k \in DOMAIN FieldsOf(t) : FieldsOf(t)[k].how # "pointer" /\ FieldsOf(t)[k].of = u
OwnDefect(t) ==
  \/ \E k \in DOMAIN FieldsOf(t) :
       LET f == FieldsOf(t)[k]
       IN \/ f.how = "bitfield"
          \/ f.how = "atomic" /\ Packed(t)
          \/ \E d \in DOMAIN f.dims : f.dims[d] = 0
          \/ (\A u \in LayTypes : DependsOn(t, u) => u \in CompleteTypes) /\ BytesOf(f) > SizeLimit
  \/ layDecl[t].attr.requested > 0 /\ Kind(t) # "enum"
     /\ \/ layDecl[t].attr.requested \notin {1, 2, 4, 8, 16}
        \/ /\ layDecl[t].attr.requested > 1
           /\ \A k \in MemberIndices(t) : NaturalAlign(t, FieldsOf(t)[k]) < layDecl[t].attr.requested
  \/ /\ ~Untagged(t) /\ \A u \in LayTypes : DependsOn(t, u) => u \in CompleteTypes
     /\ LET f == FieldsOf(t)
            got == [n \in 1 .. Cardinality(MemberIndices(t)) |->
                     LET k == CHOOSE k \in MemberIndices(t) : MemberNumber(t, k) = n
                     IN [size |-> BytesOf(f[k]), align |-> ElementShape(f[k]).align]]
        IN LaidShape(t, got).size > SizeLimit

\* Whether a type has a layout does not depend on the order in which types are asked
\* for, nor on the failures met on the way: it has one unless it is defective itself or
\* holds by value, however deep, a defective type or itself ("Pointer cycles remain
\* legal; a by-value cycle gets a source diagnostic", codegen.c:1175).
VerdictExact ==
  /\ \A S \in SUBSET CompleteTypes : S # {} => \E t \in S : \A u \in S : ~DependsOn(t, u)
  /\ \A t \in CompleteTypes : ~OwnDefect(t) /\ \A u \in LayTypes : DependsOn(t, u) => u \in CompleteTypes
  /\ layPhase = "done" => \A t \in LayTypes :
       t \in CompleteTypes \/ OwnDefect(t) \/ \E u \in LayTypes : DependsOn(t, u) /\ u \notin CompleteTypes

\* A failure is never silent: the error count keeps the compiler from emitting an object
\* with a type that has none ("The error count still prevents emitting any object").
FailuresReported ==
  \A t \in LayTypes : layState[t] = "invalid" => layReported # {}

\* The layout of every declaration: the members placed, the verdict right, no failure silent.
LayoutSound == LayoutTypeOK /\ MembersPlaced /\ VerdictExact /\ FailuresReported

================================================================================
