-------------------------------- MODULE CImport --------------------------------
(* What a module gets from a C header (main.c): the layouts that can be had, the    *)
(* type of the language for each type of C, and the declarations that are made.     *)
EXTENDS CHeader
LOCAL INSTANCE SequencesExt

StashaType(base) == [base |-> base, user |-> "", pointer |-> FALSE, write |-> FALSE, fn |-> <<>>]
NoStasha == StashaType("none")
UserType(name) == [StashaType("user") EXCEPT !.user = name]
PointerType(t, const) == [t EXCEPT !.pointer = TRUE, !.write = ~const]
ScalarType ==
  [void |-> "void", bool |-> "bool", char |-> "i8", schar |-> "i8", uchar |-> "u8", short |-> "i16", ushort |-> "u16",
   int |-> "i32", uint |-> "u32", long |-> "i64", ulong |-> "u64", longlong |-> "i64", ulonglong |-> "u64",
   float |-> "f32", double |-> "f64"]
TypedefType == [size_t |-> "u64", int8_t |-> "i8", uint64_t |-> "u64"]

StructNamed(r, name) == {st \in ToSet(r.structs) : st.name = name /\ name # ""}

\* A type behind its typedefs; those that the mapping knows are not looked up.
RECURSIVE LayoutType(_, _)
LayoutType(r, t) ==
  LET found == {i \in DOMAIN r.tdefs : r.tdefs[i].name = t.name}
  IN  IF t.kind # "typedef" \/ t.name \in BuiltinTypedefs \/ found = {} THEN t
      ELSE LayoutType(r, r.tdefs[Min(found)].type)

\* What a member may not be, given the structs that are known to be refused.
RECURSIVE UnsupportedLayout(_, _, _)
UnsupportedLayout(r, refused, type) ==
  LET t == LayoutType(r, type)
  IN  CASE t.kind = "pointer" -> FALSE
        [] t.kind = "fnptr" -> t.fnbad
        [] t.kind = "array" -> t.len <= 0 \/ UnsupportedLayout(r, refused, t.elem[1])
        [] t.kind \in {"struct", "union"} ->
             \A st \in StructNamed(r, t.name) : st.fields = <<>> \/ st.name \in refused
        [] t.kind = "typedef" -> t.name \notin BuiltinTypedefs
        [] OTHER -> t.kind \in {"unsupported", "void", "longdouble"}

RefusedLayouts_Once(r) ==
  LET own == {st.name : st \in {s \in ToSet(r.structs) : s.union \/ \E i \in DOMAIN s.fields : s.fields[i].bit}}
  IN  own \cup {st.name : st \in {s \in ToSet(r.structs) :
                 \E i \in DOMAIN s.fields : UnsupportedLayout(r, own, s.fields[i].type)}}
\* Unions and structs with bit-fields are refused, and what contains a refused one by
\* value: pass after pass, until nothing changes.
RECURSIVE RefusedFrom(_, _)
RefusedFrom(r, refused) ==
  LET more == {st.name : st \in {s \in ToSet(r.structs) :
                 \E i \in DOMAIN s.fields : UnsupportedLayout(r, refused, s.fields[i].type)}}
  IN  IF more \subseteq refused THEN refused ELSE RefusedFrom(r, refused \cup more)
RefusedLayouts(r) ==
  RefusedFrom(r, {st.name : st \in {s \in ToSet(r.structs) : s.union \/ \E i \in DOMAIN s.fields : s.fields[i].bit}})

ConstBehind(r, t) == Resolved(r.tdefs, t, FALSE).const
Usable(r, refused, name) == \E st \in StructNamed(r, name) : st.fields # <<>> /\ name \notin refused

\* The language's type for a type of C, and how many elements an array has where the
\* caller can take an array; not ok when there is none.
Mapped(type, len) == [ok |-> TRUE, type |-> type, len |-> len]
NotMapped == [ok |-> FALSE, type |-> NoStasha, len |-> 0]
RECURSIVE MapType(_, _, _)
MappedFn(ret, params, variadic) ==
  [ok |-> ret.ok /\ \A i \in DOMAIN params : params[i].ok,
   gives |-> <<[ret |-> ret.type, params |-> [i \in DOMAIN params |-> params[i].type], variadic |-> variadic]>>]
MapFn(r, refused, ret, params, variadic) ==
  MappedFn(MapType(r, refused, ret), [i \in DOMAIN params |-> MapType(r, refused, params[i])], variadic)
FnPtrTo(f) == IF f.ok THEN Mapped([StashaType("fnptr") EXCEPT !.fn = f.gives], 0) ELSE NotMapped
Many(elem, len) == [elem EXCEPT !.len = IF elem.ok THEN len ELSE 0]
MapPointer(r, refused, t) ==
  LET pointee == LayoutType(r, t.elem[1])
      const == ConstBehind(r, t.elem[1])
      inner == MapType(r, refused, t.elem[1])
  IN  IF pointee.kind \in {"struct", "union"} /\ pointee.name # "" /\ ~Usable(r, refused, pointee.name)
        THEN Mapped(PointerType(StashaType("void"), const), 0)
      ELSE IF ~inner.ok \/ inner.type.pointer \/ inner.type.base = "fnptr" THEN NotMapped
      ELSE Mapped(PointerType(inner.type, const), 0)
MapType(r, refused, t) ==
  LET found == {i \in DOMAIN r.tdefs : r.tdefs[i].name = t.name}
  IN  CASE t.bad -> NotMapped
        [] ~t.bad /\ t.kind = "fnptr" ->
             IF t.fnbad THEN NotMapped ELSE FnPtrTo(MapFn(r, refused, t.elem[1], t.params, t.variadic))
        [] ~t.bad /\ t.kind = "array" ->
             Many(MapType(r, refused, t.elem[1]), t.len)
        [] ~t.bad /\ t.kind = "pointer" -> MapPointer(r, refused, t)
        [] ~t.bad /\ t.kind = "typedef" /\ t.name \in BuiltinTypedefs -> Mapped(StashaType(TypedefType[t.name]), 0)
        [] ~t.bad /\ t.kind = "typedef" /\ t.name \notin BuiltinTypedefs ->
             IF found = {} THEN Mapped(UserType(t.name), 0) ELSE MapType(r, refused, r.tdefs[Min(found)].type)
        [] ~t.bad /\ t.kind \in {"struct", "union"} ->
             IF Usable(r, refused, t.name) THEN Mapped(UserType(t.name), 0) ELSE NotMapped
        [] ~t.bad /\ t.kind = "enum" -> IF t.name # "" THEN Mapped(UserType(t.name), 0) ELSE NotMapped
        [] OTHER -> IF t.kind \in DOMAIN ScalarType THEN Mapped(StashaType(ScalarType[t.kind]), 0) ELSE NotMapped

-----------------------------------------------------------------------------
(* The declarations. Each entry of the tables is made, or refused. Whether it is    *)
(* the user's own goes with it: an error is given for those only, but not for every *)
(* one (quiet_skip, globals), and which is left out.                                *)

Outcome(entry, is, ok, gives) == [is |-> is, name |-> entry.name, user |-> entry.user, ok |-> ok, gives |-> gives]
StructOutcome(refused, st, fields) ==
  Outcome(st, "struct", st.name \notin refused /\ \A i \in DOMAIN fields : fields[i].ok,
    [i \in DOMAIN fields |-> [name |-> st.fields[i].name, type |-> fields[i].type, len |-> fields[i].len]])
StructMade(r, refused, st) ==
  StructOutcome(refused, st, [i \in DOMAIN st.fields |-> MapType(r, refused, st.fields[i].type)])
EnumMade(en) == Outcome(en, "enum", ~en.bad, en.variants)
OneType(entry, is, t, len) == Outcome(entry, is, t.ok, <<[type |-> t.type, len |-> len]>>)
AliasMade(r, refused, td) == OneType(td, "alias", MapType(r, refused, td.type), 0)
FnOutcome(fn, f) == Outcome(fn, "fn", f.ok, f.gives)
FnMade(r, refused, fn) == FnOutcome(fn, MapFn(r, refused, fn.ret, fn.params, fn.variadic))
GlobalOf(g, t) == OneType(g, "global", t, t.len)
GlobalMade(r, refused, g) == GlobalOf(g, MapType(r, refused, g.type))
ConstMade(c) ==
  Outcome(c, "const", ~c.invalid, IF c.invalid THEN <<>> ELSE
    <<[type |-> ScalarType[c.kind], value |-> IF c.negative THEN - c.magnitude ELSE c.magnitude]>>)
\* A variant is a constant of its own, unless a macro has its name.
VariantsMade(r, en) ==
  {[is |-> "const", name |-> v.name, user |-> en.user, ok |-> TRUE, gives |-> <<[type |-> "i32", value |-> v.value]>>] :
     v \in {x \in ToSet(en.variants) : ~en.bad /\ x.name \notin {c.name : c \in ToSet(r.consts)}}}

MadeOf(r, refused) ==
  {StructMade(r, refused, st) : st \in ToSet(r.structs)}
  \cup {EnumMade(en) : en \in ToSet(r.enums)}
  \cup UNION {VariantsMade(r, en) : en \in ToSet(r.enums)}
  \cup {AliasMade(r, refused, td) : td \in ToSet(r.tdefs)}
  \cup {FnMade(r, refused, fn) : fn \in ToSet(r.fns)}
  \cup {GlobalMade(r, refused, g) : g \in ToSet(r.globals)}
  \cup {ConstMade(c) : c \in ToSet(r.consts)}
ImportedFrom(r) == MadeOf(r, RefusedLayouts(r))
ImportOf(text, path, top) == ImportedFrom(ProcessFile(NoReader(text, top), path).out)
================================================================================
