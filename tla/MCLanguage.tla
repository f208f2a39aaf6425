------------------------------ MODULE MCLanguage ------------------------------
(* What the compiler makes of three features of the language, one at a time: the   *)
(* initial state chooses interfaces, generics or signals, and only that one takes   *)
(* steps.                                                                           *)
EXTENDS Interfaces, Generics, Signals, TLC

--------------------------------------------------------------------------------
(* The modules that are compiled: every small graph of three interfaces, every    *)
(* choice of qualified and plain methods for a few graphs, and every pair of      *)
(* types in an interface's method and a struct's.                                 *)

Named == {"I1", "I2", "I3", "I4", "S", "T", "m", "n", "k", "X",
          "Number", "Pointer", "Maybe", "Loop", "Deep1", "Deep2", "Deep3", "Deep4",
          "Colour", "Payload", "Generic", "Twice", "Off"}
Sizes == [n \in Named |-> IF n = "k" THEN 9 ELSE 1]

T(base, perms, nullable, storage) ==
  [base |-> base, perms |-> perms, nullable |-> nullable, storage |-> storage, shape |-> "plain", parts |-> {}]
Value(base) == T(base, <<>>, FALSE, Default)
PointerTo(base, perm) == T(base, <<perm>>, FALSE, Default)
Shaped(shape, t, result) == [Value("i32") EXCEPT !.shape = shape, !.parts = {[type |-> t, result |-> result]}]

Declared(kind, name, parents, methods) ==
  [kind |-> kind, name |-> name, parents |-> parents, methods |-> methods, active |-> TRUE,
   generic |-> FALSE, constrained |-> FALSE, library |-> FALSE, payload |-> FALSE, prefix |-> 0,
   of |-> Value("i32")]
Method(name, qualifier, result, params) ==
  [name |-> name, qualifier |-> qualifier, results |-> <<result>>, params |-> params,
   active |-> TRUE, internal |-> FALSE, effects |-> {}]
Parameter(t, storage) == [type |-> t, storage |-> storage, effects |-> {}]
PlainMethod(name) == Method(name, Unqualified, Value("void"), <<>>)
Plains(names) == [k \in DOMAIN names |-> PlainMethod(names[k])]
Interface(name, parents, names) == Declared("interface", name, parents, Plains(names))
Struct(parents, methods) == Declared("struct", "S", parents, methods)

\* Every graph of three interfaces with at most three parents in all.
ParentLists == UNION {[1..n -> {"I1", "I2", "I3", "X"}] : n \in 0..2}
Graphs3 == {g \in ParentLists \X ParentLists \X ParentLists : Len(g[1]) + Len(g[2]) + Len(g[3]) <= 3}
OwnMethods ==
  {<< <<"m">>, <<"n">>, <<>> >>, << <<"m">>, <<"m">>, <<"n">> >>, << <<>>, <<"m", "n">>, <<"n", "m">> >>,
   << <<"m">>, <<"n">>, <<"k">> >>, << <<"m">>, <<"m", "m">>, <<>> >>}
Inheritances ==
  {<<Interface("I1", g[1], o[1]), Interface("I2", g[2], o[2]), Interface("I3", g[3], o[3]),
     Struct(<<"I3">>, Plains(<<"m", "n">>))>> : g \in Graphs3, o \in OwnMethods}

\* Every set of at most three methods, plain or qualified, for every list of
\* interfaces.
SelectionGraphs ==
  {<<Interface("I1", <<>>, <<"m">>), Interface("I2", <<>>, <<"m">>), Interface("I3", <<>>, <<"n">>)>>,
   <<Interface("I1", <<>>, <<"m">>), Interface("I2", <<"I1">>, <<"n">>), Interface("I3", <<"I2">>, <<>>)>>,
   <<Interface("I1", <<>>, <<"m">>), Interface("I2", <<"I1">>, <<"m">>), Interface("I3", <<"I1">>, <<"n">>)>>,
   <<Interface("I3", <<"I2", "I1">>, <<"n">>), Interface("I2", <<"I1">>, <<>>), Interface("I1", <<>>, <<"m">>)>>}
Implemented == {<<>>} \union {<<a>> : a \in {"I1", "I2", "I3"}} \union {<<"I1", "I2">>, <<"I2", "I3">>, <<"I3", "I1">>}
Offers ==
  LET some == {"m", "n"} \X {Unqualified, "I1", "I2", "I3"}
      method(x) == Method(x[1], x[2], Value("void"), <<>>)
  IN {<<>>} \union {<<method(x)>> : x \in some} \union {<<method(x), method(y)>> : x, y \in some}
     \union {<<method(x), method(y), method(z)>> : x, y, z \in {"m"} \X {Unqualified, "I1", "I2", "I3"}}
Selections == {Append(g, Struct(i, o)) : g \in SelectionGraphs, i \in Implemented, o \in Offers}

\* Every pair of types, as the parameter of the interface's method and of the
\* struct's.
Alias(name, of) == [Declared("alias", name, <<>>, <<>>) EXCEPT !.of = of]
SomeTypes ==
  <<Alias("Number", Value("i32")), Alias("Pointer", PointerTo("i32", "r")),
    Alias("Maybe", T("i32", <<"r">>, TRUE, Default)), Alias("Loop", PointerTo("Loop", "r")),
    Alias("Deep1", Value("Deep2")), Alias("Deep2", Value("Deep3")), Alias("Deep3", Value("Deep4")),
    Alias("Deep4", Value("i32")), Declared("enum", "Colour", <<>>, <<>>),
    [Declared("enum", "Payload", <<>>, <<>>) EXCEPT !.payload = TRUE],
    [Declared("struct", "Generic", <<>>, <<>>) EXCEPT !.generic = TRUE],
    Alias("Twice", Value("i32")), Declared("enum", "Twice", <<>>, <<>>),
    [Alias("Off", PointerTo("i32", "w")) EXCEPT !.active = FALSE]>>
Values == {Value(b) : b \in {"void", "i32", "Number", "Pointer", "Maybe", "S", "I1", "Colour", "Payload",
                             "Generic", "Twice", "Off", "X", "Loop", "Deep1", "Deep2"}}
Pointings ==
  {PointerTo("i32", "r"), PointerTo("i32", "rw"), PointerTo("void", "r"), PointerTo("S", "r"), PointerTo("Number", "rw"),
   PointerTo("Pointer", "r"), PointerTo("Maybe", "r"), T("i32", <<"r", "r">>, FALSE, Default),
   T("i32", <<"r">>, TRUE, Default), T("i32", <<"r", "r", "r">>, FALSE, Default), T("Pointer", <<"r", "r">>, FALSE, Default)}
Others ==
  {T("i32", <<>>, TRUE, Default), T("i32", <<"r">>, FALSE, "heap"), T("i32", <<>>, FALSE, "heap"),
   T("i32", <<>>, FALSE, "stack"), T("I1", <<>>, FALSE, "stack"), T("Pointer", <<>>, FALSE, "stack"),
   Shaped("slice", Value("i32"), FALSE), Shaped("callback", T("i32", <<"r">>, FALSE, "heap"), TRUE)}
Contract(p, r) ==
  <<Declared("interface", "I1", <<>>, <<Method("m", Unqualified, Value("void"), <<p>>)>>),
    Struct(<<"I1">>, <<Method("m", Unqualified, Value("void"), <<r>>)>>)>> \o SomeTypes
ParameterTypes == Values \union Pointings \union Others
Contracts ==
  {Contract(Parameter(t, Default), Parameter(u, Default)) : t \in ParameterTypes, u \in ParameterTypes}
  \union {Contract(Parameter(t, s), Parameter(t, Default)) : t \in ParameterTypes, s \in {"heap", "stack"}}
\* Types as results, in two interfaces that a third one joins.
Joined(t, u) ==
  <<Interface("I3", <<"I1", "I2">>, <<>>),
    Declared("interface", "I1", <<>>, <<Method("m", Unqualified, t, <<>>)>>),
    Declared("interface", "I2", <<>>, <<Method("m", Unqualified, u, <<>>)>>),
    Struct(<<"I3">>, <<Method("m", "I1", t, <<>>), Method("m", "S", u, <<>>)>>)>> \o SomeTypes
Results == {Value("void"), Value("i32"), Value("Number"), Value("Loop"), Value("Deep1")} \union Pointings
           \union {T("i32", <<"r">>, FALSE, "heap")}
Joins ==
  {Joined(t, u) : t \in Results, u \in Results}
  \union {SubSeq(Joined(t, u), 1, 3) \o SomeTypes : t \in Results, u \in Results}

\* One deviation each from a module that is accepted.
One == Interface("I1", <<>>, <<"m">>)
Offering == Struct(<<"I1">>, <<PlainMethod("m")>>)
Effect == [PlainMethod("m") EXCEPT !.effects = {"async"}]
Private == [PlainMethod("m") EXCEPT !.internal = TRUE]
Inactive == [PlainMethod("m") EXCEPT !.active = FALSE]
Deviations ==
  {<<One, Offering>>, <<[One EXCEPT !.generic = TRUE], Offering>>, <<[One EXCEPT !.constrained = TRUE], Offering>>,
   <<One, [Offering EXCEPT !.kind = "union"]>>, <<One, [Offering EXCEPT !.generic = TRUE]>>,
   <<One, [Offering EXCEPT !.library = TRUE, !.methods = <<Private>>]>>, <<One, [Offering EXCEPT !.library = TRUE]>>,
   <<One, [Offering EXCEPT !.methods = <<Private>>]>>, <<One, [Offering EXCEPT !.methods = <<Inactive>>]>>,
   <<[One EXCEPT !.methods = <<Inactive>>], Offering>>, <<[One EXCEPT !.methods = <<Inactive, PlainMethod("m"), Inactive>>], Offering>>,
   <<[One EXCEPT !.methods = <<Effect>>], Offering>>, <<One, [Offering EXCEPT !.methods = <<Effect>>]>>,
   <<[One EXCEPT !.methods = <<[PlainMethod("m") EXCEPT !.results = <<Value("i32"), Value("i32")>>]>>], Offering>>,
   <<One, Offering, Offering>>, <<One, One, Offering>>, <<One, [Offering EXCEPT !.name = "I1"]>>,
   <<One, [One EXCEPT !.active = FALSE], Offering>>, <<One, Offering, [Offering EXCEPT !.active = FALSE]>>,
   <<One, [Offering EXCEPT !.prefix = 12]>>, <<[One EXCEPT !.prefix = 30], Offering>>, <<One, [Offering EXCEPT !.prefix = 20]>>,
   <<Interface("I1", <<>>, <<"k">>), [Struct(<<"I1">>, <<PlainMethod("k")>>) EXCEPT !.prefix = 9]>>,
   <<One, Interface("I2", <<>>, <<>>), Interface("I3", <<"I1", "I2", "I4">>, <<>>), Interface("I4", <<>>, <<>>), Offering>>,
   <<Interface("I1", <<>>, <<"m">>), Interface("I2", <<"I1">>, <<>>), Interface("I3", <<"I2">>, <<>>), Interface("I4", <<"I3">>, <<>>)>>,
   <<Interface("I4", <<"I3">>, <<>>), Interface("I3", <<"I2">>, <<>>), Interface("I2", <<"I1">>, <<>>), One>>,
   <<One, [Declared("function", "X", <<>>, <<>>) EXCEPT !.constrained = TRUE]>>,
   <<One, Declared("function", "X", <<>>, <<>>), Struct(<<"X">>, <<>>)>>,
   <<One, [Offering EXCEPT !.methods[1].params = <<[Parameter(Value("i32"), Default) EXCEPT !.effects = {"restrict"}]>>]>>,
   <<One, Struct(<<>>, <<Method("m", "X", Value("void"), <<>>)>>)>>}

ProgramSet == Inheritances \union Selections \union Contracts \union Joins \union Deviations

--------------------------------------------------------------------------------
(* Programs with a generic struct box.[T] that is made of a generic pair, two  *)
(* generic functions, a plain struct and the functions that ask for them.      *)

TypeNamed(name) == [name |-> name, ptr |-> FALSE]
Pointer(name) == [name |-> name, ptr |-> TRUE]
I32 == <<"i32">>
F64 == <<"f64">>
Point == <<"point">>
BuiltInSet == {I32, F64, <<"void">>}

S(kind) == [s |-> kind]
End(kind) == [s |-> "end", of |-> kind]
LocalOf(type) == [s |-> "local", type |-> type, local |-> "v"]
CallOf(name) == [s |-> "call", name |-> name]
Own(method) == [s |-> "own", method |-> method]
In(kind, body) == <<S(kind)>> \o body \o <<End(kind)>>

Unit(name, module, types, body) ==
  [name |-> name, module |-> module, types |-> types, body |-> body,
   gives |-> "i32", inline |-> FALSE, coroutine |-> FALSE]
Inline(name, types, body) == [Unit(name, "m", types, body) EXCEPT !.inline = TRUE, !.gives = "void"]

\* pair.[K, V]: a method that looks at its receiver's second part.
PairTemplate(body) ==
  [kind |-> "struct", name |-> "pair", params |-> <<"K", "V">>,
   fields |-> <<TypeNamed(<<"K">>), TypeNamed(<<"V">>)>>, methods |-> <<Inline("second", << >>, body)>>]

BoxTemplate(field, methods) ==
  [kind |-> "struct", name |-> "box", params |-> <<"T">>, fields |-> <<field>>, methods |-> methods]

GenericFunction(name, params, coroutine, types, body) ==
  [Unit(name, IF coroutine THEN "g" ELSE "", types, body) EXCEPT !.coroutine = coroutine]
    @@ [kind |-> "function", params |-> params]

BoxFields ==
  {TypeNamed(<<"T">>), TypeNamed(<<"pair", "T", "i32">>), Pointer(<<"box", "T">>), TypeNamed(<<"box", "T">>),
   TypeNamed(Point)}
PairBodies ==
  {<<S("ret")>>, <<LocalOf(TypeNamed(<<"box", "K">>)), S("ret")>>,
   In("loop", <<CallOf(<<"helper">>), S("break")>>)}
\* What box's method does after its destructor is declared.
BoxBodies ==
  {<<LocalOf(TypeNamed(<<"T">>)), Own("rem"), S("ret")>>,
   <<Own("last"), S("ret")>>,
   In("loop", <<LocalOf(TypeNamed(<<"pair", "T", "T">>)), S("break")>>) \o <<S("ret")>>}
BoxMethods(body, destructor) ==
  (IF destructor THEN <<Inline("rem", << >>, <<S("ret")>>)>>
                 ELSE <<[Unit("rem", "m", << >>, <<S("ret")>>) EXCEPT !.gives = "void"]>>)
  \o <<Inline("work", <<TypeNamed(<<"T">>)>>, body), Inline("last", << >>, <<S("ret")>>)>>

\* each.[U] is a task or an ordinary function, and calls itself.
EachBodies ==
  {<<LocalOf(TypeNamed(<<"U">>))>> \o In("init", <<CallOf(<<"helper">>)>>) \o <<S("ret")>>,
   In("loop", <<LocalOf(TypeNamed(<<"box", "U">>)), S("yield"), S("break")>>),
   In("unsafe", <<LocalOf(TypeNamed(<<"pair", "U", "U">>))>>) \o <<CallOf(<<"each", "f64">>)>>}

MainBodies ==
  {In("init", <<CallOf(<<"each", "i32">>), CallOf(<<"each", "i32">>)>>) \o <<S("ret")>>,
   <<LocalOf(TypeNamed(<<"box", "i32">>))>> \o In("loop", <<CallOf(<<"each", "i32">>), S("break")>>) \o <<S("ret")>>,
   In("loop", In("unsafe", <<LocalOf(TypeNamed(<<"box", "f64">>)), S("break")>>))
     \o <<LocalOf(TypeNamed(Point)), CallOf(<<"each", "f64">>)>> \o In("defer", <<CallOf(<<"each", "i32">>), S("ret")>>)}
\* Names with too few, too many or unknown parts.
WrongBodies ==
  {<<LocalOf(TypeNamed(<<"box", "i32", "i32">>))>>, <<LocalOf(TypeNamed(<<"pair", "i32">>))>>,
   <<LocalOf(TypeNamed(<<"bag", "i32">>))>>, <<CallOf(<<"each", "i32", "i32">>)>>,
   <<CallOf(<<"missing">>)>>}

Program(boxField, boxBody, destructor, pairBody, eachBody, task, pointField, mainBody, mainTask) ==
  [templates |-> {BoxTemplate(boxField, BoxMethods(boxBody, destructor)), PairTemplate(pairBody),
                  GenericFunction("each", <<"U">>, task, <<TypeNamed(<<"U">>)>>, eachBody)},
   structs |-> <<[name |-> Point, fields |-> <<pointField>>]>>,
   functions |-> <<Unit(<<"helper">>, "n", << >>, <<S("ret")>>),
                   [Unit(IF mainTask THEN <<"task">> ELSE <<"main">>, "", << >>, mainBody)
                      EXCEPT !.coroutine = mainTask],
                   Unit(<<"later">>, "", << >>, <<LocalOf(TypeNamed(<<"box", "i32">>)), S("ret")>>)>>]

SourceSet ==
  {Program(f, b, d, p, e, t, q, m, t2) :
     f \in BoxFields, b \in BoxBodies, d \in BOOLEAN, p \in PairBodies, e \in EachBodies, t \in {TRUE},
     q \in {TypeNamed(I32), TypeNamed(<<"box", "i32">>)}, m \in MainBodies, t2 \in {FALSE}}
  \cup
  {Program(TypeNamed(<<"T">>), <<S("ret")>>, TRUE, <<S("ret")>>, <<S("ret")>>, FALSE, TypeNamed(I32), m, t) :
     m \in MainBodies \cup WrongBodies, t \in BOOLEAN}

--------------------------------------------------------------------------------
(* One of the three takes steps. *)
VARIABLE feature
languageVars == <<ifVars, gnVars, vars, feature>>

AnySource == CHOOSE s \in Sources : TRUE

LanguageInit ==
  /\ feature \in {"interfaces", "generics", "signals"}
  /\ feature # "generics" => source = AnySource
  /\ InterfacesInit /\ GenericsInit /\ Init

LanguageNext ==
  /\ UNCHANGED feature
  /\ \/ feature = "interfaces" /\ InterfacesNext /\ UNCHANGED <<gnVars, vars>>
     \/ feature = "generics" /\ GenericsNext /\ UNCHANGED <<ifVars, vars>>
     \/ feature = "signals" /\ Next /\ UNCHANGED <<ifVars, gnVars>>

\* Signals' threads are scheduled, as in its own specification.
LanguageSpec ==
  /\ LanguageInit /\ [][LanguageNext]_languageVars
  /\ \A t \in Threads : WF_languageVars(feature = "signals" /\ Step(t) /\ UNCHANGED <<feature, ifVars, gnVars>>)
================================================================================
