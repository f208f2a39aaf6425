----------------------------- MODULE CDeclarations -----------------------------
(* C's declarations as C means them: specifiers, a declarator whose type is read    *)
(* from the outside in, and what they declare. Headers are written out of them for  *)
(* the reader (CHeader), and what is imported (CImport) must be what they mean.     *)
(*                                                                                  *)
(* Headers that C itself would refuse are not written: a name is declared once, and *)
(* before it is used. An include stands before the declarations.                    *)
EXTENDS CImport, TLC
LOCAL INSTANCE SequencesExt
LOCAL INSTANCE FiniteSetsExt

CONSTANTS
  CProviders,  \* declarations that others use: [item, makes]
  CUsers,      \* declarations, and what they use: [item, needs]
  MaxProviders

VARIABLES
  chTop,    \* the items of the header that is asked for
  chSub,    \* the items of the header that it includes, if any
  chSystem, \* whether the header that is asked for is one of the system's
  chMade,   \* what the items so far provide
  chUsed    \* whether the last item is in
chVars == <<chTop, chSub, chSystem, chMade, chUsed>>

-----------------------------------------------------------------------------
(* The types of C. A declarator is a name with pointers, arrays and functions        *)
(* around it, the outermost first.                                                   *)

Type(k, name) == [k |-> k, name |-> name, const |-> FALSE, of |-> <<>>, len |-> 0, params |-> <<>>, variadic |-> FALSE]
Around(k, t) == [Type(k, "") EXCEPT !.of = <<t>>]
Name(n) == [k |-> "name", name |-> n]
Ptr(d) == [k |-> "ptr", const |-> FALSE, of |-> d]
ConstPtr(d) == [Ptr(d) EXCEPT !.const = TRUE]
Arr(d) == [k |-> "arr", len |-> "2", of |-> d]
Variadic(d, params) == [k |-> "fn", params |-> params, variadic |-> TRUE, of |-> d]
Fn(d, params) == [Variadic(d, params) EXCEPT !.variadic = FALSE]

Param(spec, d) == [spec |-> spec, d |-> d]
Specifier(words, type, defs) == [words |-> words, type |-> type, defs |-> defs]
Const(spec) == [spec EXCEPT !.words = <<"const">> \o @, !.type.const = TRUE]

RECURSIVE Means(_, _)
Means(d, t) ==
  CASE d.k = "name" -> t
    [] d.k = "ptr" -> Means(d.of, [Around("ptr", t) EXCEPT !.const = d.const])
    [] d.k = "arr" -> Means(d.of, [Around("arr", t) EXCEPT !.len = CNumbers[d.len]])
    [] d.k = "fn" -> Means(d.of, [Around("fn", t) EXCEPT !.variadic = d.variadic, !.params = d.params])
RECURSIVE NameIn(_)
NameIn(d) == IF d.k = "name" THEN d.name ELSE NameIn(d.of)
\* What is read as a type that cannot be had: parentheses around more than *name.
RECURSIVE Odd(_)
Odd(d) ==
  /\ d.k # "name"
  /\ \/ d.k \in {"arr", "fn"} /\ d.of.k = "ptr" /\ d.of.of.k # "name"
     \/ Odd(d.of)

RECURSIVE Written(_), WrittenParams(_)
Written(d) ==
  CASE d.k = "name" -> IF d.name = "" THEN <<>> ELSE <<d.name>>
    [] d.k = "ptr" -> (IF d.const THEN <<"*", "const">> ELSE <<"*">>) \o Written(d.of)
    [] OTHER ->
         (IF d.of.k = "ptr" THEN <<"(">> \o Written(d.of) \o <<")">> ELSE Written(d.of))
         \o (IF d.k = "arr" THEN <<"[", d.len, "]">>
             ELSE IF d.params = <<>> THEN <<"(", "void", ")">>
             ELSE <<"(">> \o WrittenParams(d.params) \o (IF d.variadic THEN <<",", "...", ")">> ELSE <<")">>))
WrittenParams(ps) ==
  Head(ps).spec.words \o Written(Head(ps).d)
  \o (IF Len(ps) = 1 THEN <<>> ELSE <<",">> \o WrittenParams(Tail(ps)))

-----------------------------------------------------------------------------
(* Specifiers. The arithmetic types: the lists of words of each, in any order, const *)
(* anywhere between them.                                                            *)

OrInt(lists) == lists \cup {l \o <<"int">> : l \in lists}
OrSigned(list) == {list, <<"signed">> \o list}
SpecifierLists ==
  [void |-> {<<"void">>}, bool |-> {<<"_Bool">>}, float |-> {<<"float">>}, double |-> {<<"double">>},
   longdouble |-> {<<"long", "double">>}, char |-> {<<"char">>}, schar |-> {<<"signed", "char">>},
   uchar |-> {<<"unsigned", "char">>}, int |-> {<<"int">>} \cup OrInt({<<"signed">>}), uint |-> OrInt({<<"unsigned">>}),
   short |-> OrInt(OrSigned(<<"short">>)), ushort |-> OrInt({<<"unsigned", "short">>}),
   long |-> OrInt(OrSigned(<<"long">>)), ulong |-> OrInt({<<"unsigned", "long">>}),
   longlong |-> OrInt(OrSigned(<<"long", "long">>)), ulonglong |-> OrInt({<<"unsigned", "long", "long">>})]
Orders(list) == {[i \in DOMAIN list |-> list[p[i]]] : p \in Permutations(DOMAIN list)}
ArithmeticSpecs ==
  UNION {{Specifier(words, Type("base", kind), <<>>) : words \in UNION {Orders(l) : l \in SpecifierLists[kind]}} :
            kind \in DOMAIN SpecifierLists}
ConstSpecs ==
  UNION {{[Specifier(InsertAt(s.words, i, "const"), s.type, <<>>) EXCEPT !.type.const = TRUE] : i \in 1 .. Len(s.words) + 1} :
            s \in ArithmeticSpecs}
PlainInt == Specifier(<<"int">>, Type("base", "int"), <<>>)
PlainChar == Specifier(<<"char">>, Type("base", "char"), <<>>)
TypedefName(n) == Specifier(<<n>>, Type("typedef", n), <<>>)
Tagged(kind, tag) == Specifier(<<kind, tag>>, Type(kind, tag), <<>>)

\* A member is a parameter with perhaps a width.
Bits(spec, d) == [spec |-> spec, d |-> d, bit |-> TRUE]
Plainly(spec, d) == [Bits(spec, d) EXCEPT !.bit = FALSE]
Braced(kind, tag, members) ==
  Specifier((IF tag = "" THEN <<kind, "{">> ELSE <<kind, tag, "{">>)
       \o FlattenSeq([i \in DOMAIN members |->
            members[i].spec.words \o Written(members[i].d) \o (IF members[i].bit THEN <<":", "2", ";">> ELSE <<";">>)])
       \o <<"}">>,
       Type(kind, tag),
       FlattenSeq([i \in DOMAIN members |-> members[i].spec.defs]) \o <<[kind |-> kind, name |-> tag, members |-> members]>>)
\* A variant has a value of its own or the next one; a value that is no plain number
\* is read as none that can be had.
Variant(name, value) == [name |-> name, value |-> value]
Enum(tag, variants) ==
  Specifier((IF tag = "" THEN <<"enum", "{">> ELSE <<"enum", tag, "{">>)
       \o FlattenSeq([i \in DOMAIN variants |->
            <<variants[i].name>> \o (IF variants[i].value = <<>> THEN <<>> ELSE <<"=">> \o variants[i].value) \o <<",">>])
       \o <<"}">>,
       Type("enum", tag), <<[kind |-> "enum", name |-> tag, members |-> variants]>>)

-----------------------------------------------------------------------------
(* Items of a header.                                                                *)

Declaration(before, spec, ds, behind) ==
  [is |-> "code", before |-> before, spec |-> spec, ds |-> ds, behind |-> behind]
Declare(spec, d) == Declaration(<<>>, spec, <<d>>, <<";">>)
Typedef(spec, d) == Declaration(<<"typedef">>, spec, <<d>>, <<";">>)
Define(literal) == [is |-> "define", name |-> "M", literal |-> literal]
WordsOf(item) ==
  item.before \o item.spec.words
  \o FlattenSeq([i \in DOMAIN item.ds |-> (IF i = 1 THEN <<>> ELSE <<",">>) \o Written(item.ds[i])]) \o item.behind
LinesOf(items) ==
  [i \in DOMAIN items |-> IF items[i].is = "code" THEN [is |-> "code", words |-> WordsOf(items[i])] ELSE items[i]]
IsTypedef(item) == "typedef" \in ToSet(item.before)

\* A structure without a tag is called what the typedef calls it.
SpecOf(item) ==
  LET n == NameIn(item.ds[1])
      defs == item.spec.defs
  IN  IF IsTypedef(item) /\ item.spec.type.name = "" /\ defs # <<>> /\ item.ds[1].k = "name"
        THEN [item.spec EXCEPT !.type.name = n, !.defs = [defs EXCEPT ![Len(defs)].name = n]]
      ELSE item.spec

CInit == chTop = <<>> /\ chSub = <<>> /\ chSystem = FALSE /\ chMade = {} /\ chUsed = FALSE
AskSystem ==
  /\ chTop = <<>> /\ chSub = <<>> /\ chSystem' = TRUE
  /\ UNCHANGED <<chTop, chSub, chMade, chUsed>>
WriteIncluded ==
  /\ chSub = <<>> /\ chTop = <<>> /\ ~chSystem
  /\ \E p \in CProviders : chSub' = <<p.item>> /\ chMade' = p.makes
  /\ UNCHANGED <<chTop, chSystem, chUsed>>
\* A typedef may be written again, the same.
Again(item) == chTop = <<>> /\ chSub = <<item>> /\ IsTypedef(item) /\ item.spec.defs = <<>>
WriteProvider ==
  /\ Len(chTop \o chSub) < MaxProviders /\ ~chUsed
  /\ \E p \in CProviders :
       /\ p.makes \cap chMade = {} \/ Again(p.item)
       /\ chTop' = Append(chTop, p.item) /\ chMade' = chMade \cup p.makes
  /\ UNCHANGED <<chSub, chSystem, chUsed>>
WriteUser ==
  /\ ~chUsed
  /\ \E u \in CUsers :
       /\ u.needs \subseteq chMade /\ (u.needs = {} => chMade = {})
       /\ chTop' = Append(chTop, u.item)
  /\ chUsed' = TRUE
  /\ UNCHANGED <<chSub, chSystem, chMade>>
CNext == AskSystem \/ WriteIncluded \/ WriteProvider \/ WriteUser
CSpec == CInit /\ [][CNext]_chVars

-----------------------------------------------------------------------------
(* What each declaration is worth in the language (wiki/C-Interoperability.md:74).   *)

Codes(items) == {i \in ToSet(items) : i.is = "code"}
NoneOdd(d, t) == IF Odd(d) THEN Type("odd", "") ELSE Means(d, t)
TypedefsIn(items) ==
  UNION {{[name |-> NameIn(i.ds[k]), t |-> NoneOdd(i.ds[k], SpecOf(i).type)] : k \in DOMAIN i.ds} :
            i \in {j \in Codes(items) : IsTypedef(j)}}
\* What a header means: its typedefs, and its structures, unions and enums.
Environment ==
  [types |-> TypedefsIn(chSub \o chTop), defs |-> UNION {ToSet(SpecOf(i).defs) : i \in Codes(chSub \o chTop)}]

RECURSIVE Behind(_, _, _), Fits(_, _), Wanted(_, _)
Behind(env, t, const) ==
  LET found == {x \in env.types : x.name = t.name}
  IN  IF t.k # "typedef" \/ found = {} THEN [t |-> t, const |-> const \/ t.const]
      ELSE Behind(env, (CHOOSE x \in found : TRUE).t, const \/ t.const)
\* What can stand in a structure: no bit-field, no union, nothing of unknown size.
Fits(env, type) ==
  LET t == Behind(env, type, FALSE).t
  IN  CASE t.k = "base" -> t.name \notin {"void", "longdouble"}
        [] t.k = "arr" -> t.len > 0 /\ Fits(env, t.of[1])
        [] t.k = "struct" ->
             \E def \in env.defs :
               /\ def.kind = "struct" /\ def.name = t.name
               /\ \A i \in DOMAIN def.members :
                    LET m == def.members[i] IN ~m.bit /\ Fits(env, NoneOdd(m.d, m.spec.type))
        [] t.k = "ptr" -> t.of[1].k # "arr"
        [] OTHER -> t.k \in {"typedef", "enum"}

WantedParam(env, p) ==
  LET array == Behind(env, NoneOdd(p.d, p.spec.type), FALSE)
      elem == array.t.of[1]
      t == IF array.t.k = "arr" THEN Around("ptr", [elem EXCEPT !.const = @ \/ array.const]) ELSE array.t
  IN  IF array.t.k = "arr" /\ Behind(env, elem, FALSE).t.k = "arr" THEN NotMapped ELSE Wanted(env, t)
WantedFn(env, f) ==
  MappedFn(Wanted(env, f.of[1]), [i \in DOMAIN f.params |-> WantedParam(env, f.params[i])], f.variadic)
\* A pointer to what cannot be had is a pointer to void, but for what is no structure;
\* there is one level of pointers. Its permission is that of what it points at.
PointerAt(w, const) == IF w.ok THEN Mapped(PointerType(w.type, const), 0) ELSE NotMapped
WantedPointer(env, p) ==
  LET target == Behind(env, p.of[1], FALSE)
  IN  CASE target.t.k \in {"struct", "union"} ->
             IF target.t.name = "" THEN NotMapped
             ELSE Mapped(PointerType(IF Fits(env, target.t) THEN UserType(target.t.name) ELSE StashaType("void"),
                                     target.const), 0)
        [] p.of[1].k = "fn" -> FnPtrTo(WantedFn(env, p.of[1]))
        [] target.t.k \in {"base", "typedef", "enum"} -> PointerAt(Wanted(env, target.t), target.const)
        [] OTHER -> NotMapped
WantedBehind(env, t) ==
  CASE t.k = "base" /\ t.name \in DOMAIN ScalarType -> Mapped(StashaType(ScalarType[t.name]), 0)
    [] t.k = "typedef" -> Mapped(StashaType(TypedefType[t.name]), 0)
    [] (t.k = "struct" /\ Fits(env, t)) \/ (t.k = "enum" /\ t.name # "") -> Mapped(UserType(t.name), 0)
    [] t.k = "arr" -> Many(Wanted(env, t.of[1]), t.len)
    [] t.k = "ptr" -> WantedPointer(env, t)
    [] OTHER -> NotMapped
Wanted(env, type) == WantedBehind(env, Behind(env, type, FALSE).t)

\* Everything declared is had as what it means, or refused by its name.
Told(is, name, user, ok, gives) ==
  IF ok THEN [is |-> is, name |-> name, user |-> user, ok |-> TRUE, gives |-> gives]
  ELSE [is |-> "", name |-> name, user |-> user, ok |-> FALSE, gives |-> <<>>]
ToldMembers(env, def, user, w) ==
  {Told("struct", def.name, user, def.kind = "struct" /\ Fits(env, Type("struct", def.name)) /\ \A i \in DOMAIN w : w[i].ok,
     [i \in DOMAIN w |-> [name |-> NameIn(def.members[i].d), type |-> w[i].type, len |-> w[i].len]])}
ToldStruct(env, def, user) ==
  ToldMembers(env, def, user,
    [i \in DOMAIN def.members |-> Wanted(env, NoneOdd(def.members[i].d, def.members[i].spec.type))])
ToldEnum(def, user) ==
  LET vs == def.members
      plain == \A i \in DOMAIN vs : vs[i].value = <<>> \/ (Len(vs[i].value) = 1 /\ vs[i].value[1] \in DOMAIN CNumbers)
      value[i \in DOMAIN vs] ==
        IF vs[i].value # <<>> THEN CNumbers[vs[i].value[1]] ELSE IF i = 1 THEN 0 ELSE value[i - 1] + 1
      ok == plain /\ \A i \in DOMAIN vs : value[i] <= CIntLimit
  IN  {Told("enum", def.name, user, ok, [i \in DOMAIN vs |-> [name |-> vs[i].name, value |-> value[i]]])}
      \cup {Told("const", vs[i].name, user, TRUE, <<[type |-> "i32", value |-> value[i]]>>) : i \in {j \in DOMAIN vs : ok}}
ToldType(is, name, user, w, len) == Told(is, name, user, w.ok, <<[type |-> w.type, len |-> len]>>)
ToldFn(name, user, f) == Told("fn", name, user, f.ok, f.gives)
ToldGlobal(name, user, w) == ToldType("global", name, user, w, w.len)
ToldAs(env, item, t, name, user) ==
  CASE IsTypedef(item) -> ToldType("alias", name, user, Wanted(env, t), 0)
    [] ~IsTypedef(item) /\ t.k = "fn" -> ToldFn(name, user, WantedFn(env, t))
    [] OTHER -> ToldGlobal(name, user, Wanted(env, t))
ToldName(env, item, d, user) == ToldAs(env, item, NoneOdd(d, SpecOf(item).type), NameIn(d), user)
\* The first of int, long and long long, signed and then unsigned, that may have the
\* literal's suffix and base, and can hold it; a minus in front is another operator.
ToldMacro(name, l, user) ==
  LET signs == IF l.unsigned THEN {"u"} ELSE IF l.decimal THEN {""} ELSE {"", "u"}
      Held(rank, sign) == rank >= l.longs /\ sign \in signs
                          /\ l.magnitude <= (IF sign = "u" THEN 2 ELSE 1) * (IF rank = 0 THEN CIntLimit ELSE CLongLimit)
                                            + (IF sign = "u" THEN 1 ELSE 0)
      found == {<<rank, sign>> \in (0 .. 2) \X {"", "u"} : Held(rank, sign)}
      rank == Min({p[1] : p \in found})
      sign == IF <<rank, "">> \in found THEN "" ELSE "u"
      modulus == 2 * (IF rank = 0 THEN CIntLimit ELSE CLongLimit) + 2
      value == IF ~l.negative THEN l.magnitude ELSE IF sign = "u" THEN (- l.magnitude) % modulus ELSE - l.magnitude
  IN  IF found = {} THEN Told("const", name, user, FALSE, <<>>)
      ELSE Told("const", name, user, TRUE,
             <<[type |-> ScalarType[sign \o <<"int", "long", "longlong">>[rank + 1]], value |-> value]>>)
ToldItem(env, item, user) ==
  IF item.is = "define" THEN {ToldMacro(item.name, item.literal, user)}
  ELSE UNION {IF def.name = "" THEN {} ELSE IF def.kind = "enum" THEN ToldEnum(def, user) ELSE ToldStruct(env, def, user) :
                 def \in ToSet(SpecOf(item).defs)}
       \cup {ToldName(env, item, item.ds[k], user) : k \in DOMAIN item.ds}

\* What the reader takes otherwise: an array of arrays and a pointer to an array type's
\* name lose a dimension, the alias of an array keeps the element only, and of
\* (**name) the name is lost.
RECURSIVE Flattened(_, _)
Flattened(env, type) ==
  LET t == Behind(env, type, FALSE).t
  IN  /\ t.k \in {"arr", "ptr"}
      /\ \/ Behind(env, t.of[1], FALSE).t.k = "arr" /\ (t.k = "arr" \/ t.of[1].k = "typedef")
         \/ Flattened(env, t.of[1])
RECURSIVE NameLost(_)
NameLost(d) ==
  /\ d.k # "name"
  /\ NameLost(d.of) \/ (d.k \in {"arr", "fn"} /\ d.of.k = "ptr" /\ d.of.of.k = "ptr")
TakenOtherwise(env, item) ==
  IF item.is = "define" THEN {}
  ELSE {NameIn(item.ds[k]) : k \in {j \in DOMAIN item.ds :
          LET t == NoneOdd(item.ds[j], SpecOf(item).type)
          IN  \/ NameLost(item.ds[j]) \/ Flattened(env, t)
              \/ IsTypedef(item) /\ Behind(env, t, FALSE).t.k = "arr"
              \/ t.k = "fn" /\ (Flattened(env, t.of[1])
                                \/ \E i \in DOMAIN t.params : Flattened(env, NoneOdd(t.params[i].d, t.params[i].spec.type)))}}
       \cup {def.name : def \in {x \in ToSet(SpecOf(item).defs) : x.kind # "enum" /\
               \E i \in DOMAIN x.members :
                  NameLost(x.members[i].d) \/ Flattened(env, NoneOdd(x.members[i].d, x.members[i].spec.type))}}
\* A structure whose layout is known but that has a member which cannot be had, as a
\* pointer to a pointer, is refused, and an enum with values that cannot be had; what
\* uses them is not.
HalfRefused(env) ==
  \E def \in env.defs :
    \/ /\ def.kind = "struct" /\ Fits(env, Type("struct", def.name))
       /\ \E i \in DOMAIN def.members : ~Wanted(env, NoneOdd(def.members[i].d, def.members[i].spec.type)).ok
    \/ /\ def.kind = "enum" /\ \E o \in ToldEnum(def, TRUE) : ~o.ok
       /\ chUsed

Text ==
  [path \in {"top", "sub"} |->
     IF path = "sub" THEN LinesOf(chSub)
     ELSE (IF chSub = <<>> THEN <<>> ELSE <<[is |-> "include", path |-> "sub"]>>) \o LinesOf(chTop)]
Imported == {Told(o.is, o.name, o.user, o.ok, o.gives) : o \in ImportOf(Text, "top", ~chSystem)}
Meant(env) ==
  UNION {ToldItem(env, i, ~chSystem) : i \in ToSet(chTop) \ ToSet(chSub)} \cup UNION {ToldItem(env, i, FALSE) : i \in ToSet(chSub)}
ImportedAsMeant(env) ==
  LET but == UNION {TakenOtherwise(env, i) : i \in ToSet(chTop) \cup ToSet(chSub)}
  IN  HalfRefused(env) \/ {o \in Imported : o.name \notin but} = {o \in Meant(env) : o.name \notin but}
\* A module gets from a header what the header means in C, with the permission, length
\* and value it has there; what it cannot have is refused by its name, and known
\* for the user's own or another's. Nothing is had with a layout that is not C's.
HeaderImported == ImportedAsMeant(Environment)
================================================================================
