------------------------------ MODULE MCGenerated ------------------------------
(* What the compiler lays out and generates, one part at a time: coroutines, the      *)
(* cleanup of scopes, the order of lifecycle blocks and the layout of types.          *)
EXTENDS MCCoroutines, Cleanup, LifecycleOrder, Layout, CDeclarations

--------------------------------------------------------------------------------
(* The declarations that headers are written from (CDeclarations): some that others *)
(* use, T, struct S and enum E, and some that use them or stand alone.              *)

Numbers == [n \in {"0", "1", "2", "3", "4"} |-> CHOOSE v \in 0 .. 4 : ToString(v) = n]

X == Name("x")
Unnamed == Name("")
Uint64 == TypedefName("uint64_t")
Legal(d) == ~(d.k = "fn" /\ d.of.k \in {"fn", "arr"}) /\ ~(d.k = "arr" /\ d.of.k = "fn")
RECURSIVE IsFn(_)
IsFn(d) == d.k # "name" /\ (IsFn(d.of) \/ (d.k = "fn" /\ d.of.k = "name"))
Steps(d) == {e \in {Ptr(d), ConstPtr(d), Arr(d), Fn(d, <<>>)} : Legal(e)}
Deeper1(ds) == ds \cup UNION {Steps(d) : d \in ds}

\* One declarator at every place that takes one.
AsMember(spec, d) == Declaration(<<>>, Braced("struct", "R", <<Plainly(spec, d), Plainly(PlainChar, Name("last"))>>), <<>>, <<";">>)
AsParam(spec, d) == Declare(PlainInt, Fn(X, <<Param(Const(PlainChar), Ptr(Unnamed)), Param(spec, d)>>))
Everywhere(spec, d) ==
  {Declare(spec, d), Typedef(spec, d)} \cup {AsParam(spec, d)} \cup (IF IsFn(d) THEN {} ELSE {AsMember(spec, d)})

Provider(item, makes) == [item |-> item, makes |-> makes]
User(item, needs) == [item |-> item, needs |-> needs]
OneInt == <<Plainly(PlainInt, Name("i"))>>
StructS == Tagged("struct", "S")
TName == Name("T")
TypedefSet ==
  {Typedef(PlainInt, d) : d \in {TName, Ptr(TName), Arr(TName), Fn(TName, <<Param(PlainInt, Unnamed)>>),
                                 Fn(Ptr(TName), <<Param(PlainInt, Unnamed)>>), Arr(Ptr(TName))}}
  \cup {Typedef(Const(PlainInt), TName), Typedef(Const(PlainChar), Ptr(TName)), Typedef(Const(PlainInt), Arr(TName)),
        Typedef(Uint64, TName), Typedef(StructS, TName), Typedef(Const(StructS), TName), Typedef(StructS, Ptr(TName)),
        Typedef(Braced("struct", "", OneInt), TName), Typedef(Braced("struct", "", OneInt), Ptr(TName)),
        Typedef(Braced("union", "", OneInt), TName), Typedef(Specifier(<<"long", "double">>, Type("base", "longdouble"), <<>>), TName),
        Typedef(Enum("", <<Variant("A", <<>>), Variant("B", <<"3">>), Variant("C", <<>>)>>), TName)}
StructSet ==
  {Declaration(<<>>, s, <<>>, <<";">>) : s \in {
     Braced("struct", "S", OneInt), Braced("union", "S", OneInt), Braced("struct", "S", <<Bits(PlainInt, Name("i"))>>),
     Braced("struct", "S", <<Plainly(StructS, Ptr(Name("next"))), Plainly(Const(PlainChar), Ptr(Name("s")))>>),
     Braced("struct", "S", <<Plainly(Specifier(<<"long", "double">>, Type("base", "longdouble"), <<>>), Name("d"))>>)}}
EnumSet ==
  {Declaration(<<>>, Enum("E", vs), <<>>, <<";">>) : vs \in {
     <<Variant("A", <<>>), Variant("B", <<"2">>), Variant("C", <<>>)>>, <<Variant("A", <<"3">>), Variant("B", <<>>)>>,
     <<Variant("A", <<"1">>), Variant("B", <<"A", ":", "2">>), Variant("C", <<"1">>)>>, <<Variant("A", <<"4">>)>>}}
\* A type of objects, of what functions return, or neither.
ArrayNames == {Typedef(PlainInt, Arr(TName)), Typedef(Const(PlainInt), Arr(TName))}
ProviderSet ==
  {Provider(i, IF i.ds[1].k = "fn" /\ i.ds[1].of.k = "name" THEN {"T"} ELSE IF i \in ArrayNames THEN {"T", "T object"}
               ELSE {"T", "T object", "T value"}) : i \in TypedefSet}
  \cup {Provider(i, {"S", "S object", "S value"}) : i \in StructSet}
  \cup {Provider(i, {"E", "E object", "E value"}) : i \in EnumSet}

AnyUses(spec) == {Declare(spec, Ptr(X)), Typedef(spec, X), Typedef(spec, Ptr(X)), AsMember(spec, Ptr(X)), Declare(Const(spec), Ptr(X))}
                 \cup {AsParam(s, d) : s \in {spec, Const(spec)}, d \in {X, Ptr(X)}}
ObjectUses(spec) ==
  {Declare(spec, X), Declare(spec, Arr(X)), AsMember(spec, X), AsMember(spec, Arr(X)), AsParam(spec, Arr(X)),
   Declaration(<<"extern">>, spec, <<X, Ptr(Name("y"))>>, <<";">>),
   Typedef(Braced("struct", "", <<Plainly(spec, X)>>), Name("V")),
   Declaration(<<"typedef">>, Braced("struct", "", <<Plainly(spec, X)>>), <<Name("V"), Ptr(Name("W"))>>, <<";">>),
   Declaration(<<>>, Braced("struct", "R", <<Plainly(Braced("struct", "Q", <<Plainly(spec, X)>>), Name("q"))>>), <<>>, <<";">>)}
ValueUses(spec) ==
  {Declare(spec, Fn(X, <<Param(spec, Ptr(Unnamed))>>)), Declare(spec, Variadic(Ptr(X), <<Param(spec, X)>>))}
  \cup Everywhere(spec, Fn(Ptr(X), <<Param(spec, Name("a"))>>))
UsersOf(n, spec) ==
  {User(i, {n}) : i \in AnyUses(spec)} \cup {User(i, {n \o " object"}) : i \in ObjectUses(spec)}
  \cup {User(i, {n \o " value"}) : i \in ValueUses(spec)}

Alone ==
  {Declare(s, X) : s \in {a \in ArithmeticSpecs \cup ConstSpecs : a.type.name # "void"}}
  \cup UNION {Everywhere(PlainInt, d) : d \in Deeper1(Deeper1(Deeper1({X})))}
  \cup {Declaration(<<"static", "inline">>, PlainInt, <<Fn(X, <<Param(PlainInt, Name("a"))>>)>>, <<"{", "a", "=", "1", ";", "{", "a", ";", "}", "}">>),
        Declaration(<<>>, PlainInt, <<X>>, <<"=", "1", ";">>), Declaration(<<>>, PlainInt, <<Arr(X)>>, <<"=", "{", "1", ",", "2", "}", ";">>),
        Declaration(<<"extern", StringToken, "{", "extern">>, PlainInt, <<Fn(X, <<>>)>>, <<"__attribute__", "(", "(", "a", ")", ")", ";", "}">>),
        Declaration(<<"__extension__", "extern">>, PlainInt, <<X, Name("y"), Arr(Name("z"))>>, <<";">>)}
  \cup {Define(l) : l \in [magnitude : {0, 1, 3, 4, 7, 8, 15, 16}, decimal : BOOLEAN, unsigned : BOOLEAN, longs : 0 .. 2, negative : BOOLEAN]}
UserSet == {User(i, {}) : i \in Alone} \cup UsersOf("T", TypedefName("T")) \cup UsersOf("S", StructS) \cup UsersOf("E", Tagged("enum", "E"))

--------------------------------------------------------------------------------
(* One of the five takes steps. *)
VARIABLE part
generatedVars == <<vars, clVars, lcVars, layVars, chVars, part>>

GeneratedInit ==
  /\ part \in {"coroutines", "cleanup", "lifecycle", "layout", "headers"}
  /\ Init /\ CleanupInit /\ LifecycleInit /\ LayoutInit /\ CInit

GeneratedNext ==
  /\ UNCHANGED part
  /\ \/ /\ part = "coroutines" /\ Next
        /\ UNCHANGED <<clVars, lcVars, layVars, chVars>>
     \/ /\ part = "cleanup" /\ CleanupNext
        /\ UNCHANGED <<vars, lcVars, layVars, chVars>>
     \/ /\ part = "lifecycle" /\ LifecycleNext
        /\ UNCHANGED <<vars, clVars, layVars, chVars>>
     \/ /\ part = "layout" /\ LayoutNext
        /\ UNCHANGED <<vars, clVars, lcVars, chVars>>
     \/ /\ part = "headers" /\ CNext
        /\ UNCHANGED <<vars, clVars, lcVars, layVars>>

GeneratedSpec == GeneratedInit /\ [][GeneratedNext]_generatedVars

Statements ==
  {"block", "if", "else", "while", "foreach", "do", "inf", "for", "with", "zone", "switch", "match"}

\* A type of one byte and the tag of an enum; twice a pointer is less than the tag.
CONSTANT Byte
Atoms == (Tag :> [size |-> 4, align |-> 4]) @@ (Byte :> [size |-> 1, align |-> 1])
Pointers == [size |-> 2, align |-> 2]
Field(how, of, dims) == [how |-> how, of |-> of, dims |-> dims]
FieldSet ==
  {Field("value", Byte, <<>>), Field("value", Tag, <<>>), Field("value", Tag, <<3>>),
   Field("value", Tag, <<3, 3>>), Field("value", Byte, <<5>>), Field("value", Byte, <<0>>), Field("value", 1, <<>>),
   Field("value", 2, <<>>), Field("pointer", 1, <<>>), Field("atomic", Byte, <<>>),
   Field("sizeof", 1, <<>>)}
Attribute(kind, packed, requested) == [kind |-> kind, packed |-> packed, requested |-> requested]
Plain == Attribute("struct", FALSE, 0)
AttributeSet ==
  {Plain, Attribute("struct", TRUE, 0), Attribute("struct", FALSE, 4), Attribute("struct", FALSE, 3),
   Attribute("union", FALSE, 0), Attribute("union", TRUE, 0), Attribute("enum", FALSE, 0)}
================================================================================
