-------------------------------- MODULE CHeader --------------------------------
(* The reader of C headers (cinterop/cheader.c): what it makes of the tokens of a   *)
(* header. It is no C parser: it knows the declarations that headers are made of,   *)
(* and skips to the next semicolon where it knows nothing.                          *)
(*                                                                                  *)
(* A token is a string. A header's path stands for its text, which is a sequence of *)
(* lines: includes, macros and declarations.                                        *)
EXTENDS Integers, Sequences, FiniteSets
LOCAL INSTANCE SequencesExt
LOCAL INSTANCE FiniteSetsExt

CONSTANTS
  CNumbers,    \* the number tokens, and the value of each
  CIntLimit,   \* the largest int; of unsigned int it is 2 * CIntLimit + 1
  CLongLimit   \* the largest long, and long long

Eof == ""
Marks == {"(", ")", "{", "}", "[", "]", ";", ",", "*", "=", ":", "..."}
StringToken == "'C'"
Named(w) == w \notin Marks \cup DOMAIN CNumbers \cup {Eof, StringToken}

\* What hangs on a declaration and says nothing of its type: dropped with the
\* arguments it has.
Decorations == {"__attribute__", "__nonnull"}
BareDecorations == {"__THROW", "__extension__"}
RECURSIVE Undecorated(_)
Undecorated(words) ==
  IF words = <<>> THEN <<Eof>>
  ELSE CASE Head(words) \in BareDecorations -> Undecorated(Tail(words))
         [] Head(words) \in Decorations ->
              LET Open(n) == Cardinality({i \in 2 .. n : words[i] = "("})
                             - Cardinality({i \in 2 .. n : words[i] = ")"})
                  ends == {n \in 2 .. Len(words) : Open(n) = 0}
                  last == IF words[2] # "(" THEN 1 ELSE IF ends = {} THEN Len(words) ELSE Min(ends)
              IN  Undecorated(SubSeq(words, last + 1, Len(words)))
         [] OTHER -> <<Head(words)>> \o Undecorated(Tail(words))

-----------------------------------------------------------------------------
(* A reader has tokens, a place in them, the names that are types, and the tables.   *)

NoCType ==
  [kind |-> "unsupported", const |-> FALSE, name |-> "", elem |-> <<>>, len |-> 0,
   params |-> <<>>, variadic |-> FALSE, fnbad |-> FALSE, bad |-> FALSE]
CType(kind) == [NoCType EXCEPT !.kind = kind]
PointerTo(t, const) == [CType("pointer") EXCEPT !.elem = <<t>>, !.const = const]

BuiltinTypedefs == {"size_t", "int8_t", "uint64_t"}
NoTables ==
  [structs |-> <<>>, enums |-> <<>>, tdefs |-> <<>>, fns |-> <<>>, globals |-> <<>>, consts |-> <<>>]
NoReader(text, top) ==
  [text |-> text, ts |-> <<Eof>>, at |-> 1, names |-> BuiltinTypedefs, out |-> NoTables, seen |-> {}, top |-> top]

Word(s) == s.ts[Min({s.at, Len(s.ts)})]
On(s) == [s EXCEPT !.at = @ + 1]
Met(s, w) == Word(s) = w
Match(s, w) == IF Met(s, w) THEN On(s) ELSE s
SkipTo(s, stops) ==
  [s EXCEPT !.at = Min({i \in s.at .. Len(s.ts) : s.ts[i] \in stops \cup {Eof}})]

RECURSIVE Balanced(_, _, _, _)
Balanced(s, open, close, depth) ==
  IF depth = 0 \/ Met(s, Eof) THEN s
  ELSE Balanced(On(s), open, close, depth + (IF Met(s, open) THEN 1 ELSE IF Met(s, close) THEN -1 ELSE 0))
SkipBalanced(s, open, close) == IF Met(s, open) THEN Balanced(On(s), open, close, 1) ELSE s

Push_Last(s, table, entry) ==
  IF entry.name = "" THEN s
  ELSE [s EXCEPT !.out[table] = Append(SelectSeq(@, LAMBDA e : e.name # entry.name), [entry EXCEPT !.user = s.top])]
\* The first with its name stays, and whose header it stands in.
Push(s, table, entry) ==
  IF entry.name = "" \/ \E i \in DOMAIN s.out[table] : s.out[table][i].name = entry.name THEN s
  ELSE [s EXCEPT !.out[table] = Append(@, [entry EXCEPT !.user = s.top])]
NoStruct == [name |-> "", fields |-> <<>>, union |-> FALSE, user |-> FALSE]
NoEnum == [name |-> "", variants |-> <<>>, bad |-> FALSE, user |-> FALSE]
DeclaredAs(name, t) == [name |-> name, type |-> t, user |-> FALSE]

-----------------------------------------------------------------------------
(* Specifiers.                                                                       *)

IgnoredSpecifiers == {"extern", "static", "inline", "volatile", "register", "restrict"}
NoSpec == [kind |-> "unsupported", unsigned |-> FALSE, signed |-> FALSE, long |-> 0, const |-> FALSE,
           typedef |-> FALSE, name |-> "", st |-> NoStruct, en |-> NoEnum]
ArithmeticWords ==
  [_Bool |-> "bool", short |-> "short", char |-> "char", int |-> "int", float |-> "float", double |-> "double",
   void |-> "void"]

KindOf_Words(d) ==
  CASE d.kind \in {"short", "int"} -> (IF d.unsigned THEN "u" ELSE "") \o (IF d.long > 0 THEN "long" ELSE d.kind)
    [] d.kind = "char" -> IF d.unsigned THEN "uchar" ELSE IF d.signed THEN "schar" ELSE "char"
    [] d.kind = "double" /\ d.long > 0 -> "longdouble"
    [] OTHER -> d.kind
\* The whole sequence decides: the width by the longs, the sign by signed and unsigned.
KindOf(d) ==
  LET kind == IF d.kind = "unsupported" /\ (d.long > 0 \/ d.signed \/ d.unsigned) THEN "int" ELSE d.kind
      signless == IF kind = "int" THEN <<"int", "long", "longlong">>[Min({d.long, 2}) + 1] ELSE kind
  IN  CASE signless \in {"short", "int", "long", "longlong"} -> IF d.unsigned THEN "u" \o signless ELSE signless
        [] signless = "char" -> IF d.unsigned THEN "uchar" ELSE IF d.signed THEN "schar" ELSE "char"
        [] signless = "double" /\ d.long > 0 -> "longdouble"
        [] OTHER -> signless

RECURSIVE SpecFrom(_, _), MembersFrom(_, _), VariantsFrom(_, _, _, _), Stars(_, _), DeclSuffixes(_, _), ParamsFrom(_, _)

\* What stands behind struct, union or enum: a tag, a body, or both. Nothing behind
\* it belongs to the specifiers any more.
SpecTag(s, d) ==
  LET word == Word(s)
      tagged == Named(Word(On(s)))
      tag == IF tagged THEN Word(On(s)) ELSE ""
      body == IF tagged THEN On(On(s)) ELSE On(s)
      members == MembersFrom(On(body), <<>>)
      variants == VariantsFrom(On(body), 0, TRUE, [NoEnum EXCEPT !.name = tag])
      found == [d EXCEPT !.kind = word, !.name = tag]
  IN  CASE ~Met(body, "{") -> [s |-> body, d |-> found]
        [] word = "enum" -> [s |-> variants.s, d |-> [found EXCEPT !.en = variants.en]]
        [] OTHER ->
             [s |-> members.s,
              d |-> [found EXCEPT !.st = [NoStruct EXCEPT !.name = tag, !.fields = members.fields, !.union = word = "union"]]]

SpecFrom(s, d) ==
  LET w == Word(s)
  IN  CASE w = "typedef" -> SpecFrom(On(s), [d EXCEPT !.typedef = TRUE])
        [] w \in IgnoredSpecifiers -> SpecFrom(On(s), d)
        [] w = "const" -> SpecFrom(On(s), [d EXCEPT !.const = TRUE])
        [] w = "unsigned" -> SpecFrom(On(s), [d EXCEPT !.unsigned = TRUE])
        [] w = "signed" -> SpecFrom(On(s), [d EXCEPT !.signed = TRUE])
        [] w = "long" -> SpecFrom(On(s), [d EXCEPT !.long = @ + 1])
        [] w = "int" /\ d.kind = "short" -> SpecFrom(On(s), d)
        [] w \in DOMAIN ArithmeticWords /\ ~(w = "int" /\ d.kind = "short") ->
             SpecFrom(On(s), [d EXCEPT !.kind = ArithmeticWords[w]])
        [] w \in {"struct", "union", "enum"} -> SpecTag(s, d)
        [] w \in s.names -> [s |-> On(s), d |-> [d EXCEPT !.kind = "typedef", !.name = w]]
        [] OTHER -> [s |-> s, d |-> d]

Specified(spec) ==
  [s |-> spec.s, typedef |-> spec.d.typedef, st |-> spec.d.st, en |-> spec.d.en,
   t |-> [CType(KindOf(spec.d)) EXCEPT !.name = spec.d.name, !.const = spec.d.const]]
Declspec(s) == Specified(SpecFrom(s, NoSpec))

\* A value that is no plain number, or no int, spoils the whole enum.
VariantsFrom(s, value, valid, en) ==
  IF Word(s) \in {"}", Eof} THEN [s |-> Match(s, "}"), en |-> en]
  ELSE IF ~Named(Word(s)) THEN VariantsFrom(On(s), value, valid, en)
  ELSE LET given == Met(On(s), "=")
           number == given /\ Word(On(On(s))) \in DOMAIN CNumbers
           mine == IF number THEN CNumbers[Word(On(On(s)))] ELSE value
           behind == IF number THEN On(On(On(s))) ELSE IF given THEN On(On(s)) ELSE On(s)
           ok == /\ (given => number) /\ (~given => valid)
                 /\ Word(behind) \in {",", "}", Eof}
           next == SkipTo(behind, {",", "}"})
       IN  VariantsFrom(Match(next, ","), mine + 1, ok,
             [en EXCEPT !.variants = Append(@, [name |-> Word(s), value |-> mine]),
                        !.bad = @ \/ ~ok \/ mine < - CIntLimit - 1 \/ mine > CIntLimit])

-----------------------------------------------------------------------------
(* Declarators.                                                                      *)

PointerQualifiers == {"const", "volatile", "restrict"}
RECURSIVE Qualifiers(_, _)
Qualifiers(s, const) ==
  IF Word(s) \in PointerQualifiers THEN Qualifiers(On(s), const \/ Met(s, "const")) ELSE [s |-> s, const |-> const]

Stars(s, t) ==
  IF ~Met(s, "*") THEN [s |-> s, t |-> t]
  ELSE LET q == Qualifiers(On(s), FALSE) IN Stars(q.s, PointerTo(t, q.const))

NoDeclarator == [name |-> "", t |-> NoCType, params |-> <<>>, fn |-> FALSE, variadic |-> FALSE,
                 pointer |-> FALSE, odd |-> FALSE]

\* (*name): the only parentheses that are known. With anything else in them the type
\* is kept as one that cannot be had.
PointerHead(s, d) ==
  LET q == Qualifiers(On(On(s)), FALSE).s
      named == IF Named(Word(q)) THEN On(q) ELSE q
      plain == Met(named, ")")
  IN  [s |-> IF plain THEN On(named) ELSE Balanced(named, "(", ")", 1),
       d |-> [d EXCEPT !.name = IF Named(Word(q)) THEN Word(q) ELSE "", !.pointer = TRUE, !.odd = ~plain]]

ArraySuffix(s, d) ==
  LET number == Word(On(s)) \in DOMAIN CNumbers
      bound == IF number THEN On(On(s)) ELSE On(s)
      simple == Met(bound, "]")
  IN  [s |-> Match(SkipTo(bound, {"]"}), "]"),
       d |-> [d EXCEPT !.t = [CType("array") EXCEPT !.elem = <<d.t>>, !.bad = ~simple,
                                                   !.len = IF number THEN CNumbers[Word(On(s))] ELSE 0]]]

DeclSuffixes(s, d) ==
  CASE Met(s, "[") -> LET a == ArraySuffix(s, d) IN DeclSuffixes(a.s, a.d)
    [] Met(s, "(") /\ Met(On(s), "void") /\ Met(On(On(s)), ")") ->
         [s |-> On(On(On(s))), d |-> [d EXCEPT !.fn = TRUE]]
    [] Met(s, "(") /\ ~(Met(On(s), "void") /\ Met(On(On(s)), ")")) ->
         LET p == ParamsFrom(On(s), [d EXCEPT !.fn = TRUE, !.odd = @ \/ (d.pointer /\ Met(On(s), ")"))])
         IN  DeclSuffixes(Match(p.s, ")"), p.d)
    [] OTHER -> [s |-> s, d |-> d]

\* A pointer head makes what stands around it a pointer to a function.
DeclaratorOf(all) ==
  IF ~all.d.pointer THEN all
  ELSE [s |-> all.s,
        d |-> [NoDeclarator EXCEPT !.name = all.d.name, !.pointer = TRUE,
                 !.t = [CType("fnptr") EXCEPT !.elem = <<all.d.t>>, !.params = all.d.params,
                          !.variadic = all.d.variadic,
                          !.fnbad = all.d.odd \/ ~all.d.fn \/ all.d.t.kind = "array"]]]
DeclaratorHead(s, d) ==
  IF Met(s, "(") /\ Met(On(s), "*") THEN PointerHead(s, d)
  ELSE IF Named(Word(s)) THEN [s |-> On(s), d |-> [d EXCEPT !.name = Word(s)]]
  ELSE [s |-> s, d |-> d]
DeclaratorFrom(stars) == DeclaratorHead(stars.s, [NoDeclarator EXCEPT !.t = stars.t])
SuffixesOf(head) == DeclSuffixes(head.s, head.d)
Declarator(s, base) == DeclaratorOf(SuffixesOf(DeclaratorFrom(Stars(s, base))))

\* A type behind its typedefs, and whether one of them made it const.
RECURSIVE Resolved(_, _, _)
Resolved(tdefs, t, const) ==
  LET found == {i \in DOMAIN tdefs : tdefs[i].name = t.name}
  IN  IF t.kind = "typedef" /\ found # {} THEN Resolved(tdefs, tdefs[Min(found)].type, const \/ t.const)
      ELSE [t |-> t, const |-> const \/ t.const]

AdjustParameter_Written(tdefs, d) ==
  IF d.fn THEN [d.t EXCEPT !.bad = TRUE]
  ELSE IF d.t.kind # "array" THEN d.t
  ELSE PointerTo(d.t.elem[1], d.t.elem[1].const)
\* An array parameter is a pointer, behind typedefs too; a function parameter is not
\* represented.
AdjustParameter(tdefs, d) ==
  LET array == Resolved(tdefs, d.t, FALSE)
      elem == Resolved(tdefs, array.t.elem[1], FALSE)
      const == array.const \/ elem.const
  IN  IF d.fn THEN [d.t EXCEPT !.bad = TRUE]
      ELSE IF array.t.kind # "array" THEN d.t
      ELSE IF elem.t.kind = "array" \/ array.t.bad THEN [d.t EXCEPT !.bad = TRUE]
      ELSE PointerTo([array.t.elem[1] EXCEPT !.const = const], const)

\* The tags a specifier sequence defines are declared, wherever it stands.
PushTags(s, spec) == Push(Push(s, "structs", spec.st), "enums", spec.en)
TakenParam(d, p, t) == IF p.d.name # "" \/ t.kind # "unsupported" THEN [d EXCEPT !.params = Append(@, t)] ELSE d
ParamTaken(d, p, t) ==
  IF Met(p.s, ",") THEN ParamsFrom(On(p.s), TakenParam(d, p, t)) ELSE [s |-> p.s, d |-> TakenParam(d, p, t)]
ParamFrom(d, p) == ParamTaken(d, p, AdjustParameter(p.s.out.tdefs, p.d))
ParamWith(d, spec) == ParamFrom(d, Declarator(PushTags(spec.s, spec), spec.t))
ParamsFrom(s, d) ==
  CASE Word(s) \in {")", Eof} -> [s |-> s, d |-> d]
    [] Met(s, "...") -> [s |-> On(s), d |-> [d EXCEPT !.variadic = TRUE]]
    [] OTHER -> ParamWith(d, Declspec(s))

\* A member: one specifier sequence, one declarator, perhaps a width.
Width(s) ==
  IF ~Met(s, ":") THEN s ELSE IF Word(On(s)) \in DOMAIN CNumbers THEN On(On(s)) ELSE On(s)
MemberOf(spec, d) ==
  [s |-> PushTags(Match(Width(d.s), ";"), spec), f |-> [name |-> d.d.name, type |-> d.d.t, bit |-> Met(d.s, ":")]]
MemberWith(spec) == MemberOf(spec, Declarator(spec.s, spec.t))
Member(s) == MemberWith(Declspec(s))

MembersWith(m, fields) ==
  IF m.f.name # "" THEN MembersFrom(m.s, Append(fields, m.f))
  ELSE MembersFrom(Match(SkipTo(m.s, {";", "}"}), ";"), fields)
MembersFrom(s, fields) ==
  IF Word(s) \in {"}", Eof} THEN [s |-> Match(s, "}"), fields |-> fields]
  ELSE MembersWith(Member(s), fields)

-----------------------------------------------------------------------------
(* Declarations.                                                                     *)

FnDeclared(s, d) ==
  LET ended == IF Met(s, "{") THEN SkipBalanced(s, "{", "}") ELSE Match(s, ";")
  IN  Push(ended, "fns", [name |-> d.name, ret |-> d.t, params |-> d.params, variadic |-> d.variadic, user |-> FALSE])

PushTypedef(s, d) ==
  LET t == IF d.fn THEN [d.t EXCEPT !.bad = TRUE] ELSE d.t
  IN  [Push(s, "tdefs", DeclaredAs(d.name, t)) EXCEPT !.names = @ \cup {d.name}]
RECURSIVE MoreTypedefs(_, _), MoreGlobals(_, _)
MoreTypedefs(s, base) ==
  IF ~Met(s, ",") THEN Match(s, ";")
  ELSE LET d == Declarator(On(s), base)
       IN  MoreTypedefs(IF d.d.name = "" THEN d.s ELSE PushTypedef(d.s, d.d), base)

TypedefDeclared_Always(s, spec, d) ==
  LET Adopts(def) == def.name = "" /\ spec.t.name = ""
      st == IF Adopts(spec.st) THEN [spec.st EXCEPT !.name = d.name] ELSE spec.st
      en == IF Adopts(spec.en) THEN [spec.en EXCEPT !.name = d.name] ELSE spec.en
      base == IF spec.t.name = "" /\ spec.t.kind \in {"struct", "union", "enum"} THEN [spec.t EXCEPT !.name = d.name] ELSE spec.t
  IN  MoreTypedefs(PushTypedef(Push(Push(s, "structs", st), "enums", en), [d EXCEPT !.t = IF @.kind = base.kind THEN base ELSE @]), base)
\* A struct or enum without a tag takes the typedef's name, when that is the name of
\* the thing itself.
TypedefDeclared(s, spec, d) ==
  LET plain == spec.t.name = "" /\ d.t.kind \notin {"pointer", "array"}
      stAdopts == spec.st.name = "" /\ plain /\ spec.t.kind \in {"struct", "union"}
      enAdopts == ~stAdopts /\ spec.en.name = "" /\ plain /\ spec.t.kind = "enum"
      adopted == [spec.t EXCEPT !.name = d.name]
      st == IF stAdopts THEN [spec.st EXCEPT !.name = d.name] ELSE spec.st
      en == IF enAdopts THEN [spec.en EXCEPT !.name = d.name] ELSE spec.en
      base == IF stAdopts \/ enAdopts THEN adopted ELSE spec.t
  IN  MoreTypedefs(
        PushTypedef(Push(Push(s, "structs", st), "enums", en),
                    IF stAdopts \/ enAdopts THEN [d EXCEPT !.t = adopted, !.fn = FALSE] ELSE d), base)

PushGlobal(s, d) == IF d.t.kind = "unsupported" THEN s ELSE Push(s, "globals", DeclaredAs(d.name, d.t))
MoreGlobals(s, base) ==
  IF ~Met(s, ",") THEN s
  ELSE LET d == Declarator(On(s), base) IN MoreGlobals(PushGlobal(d.s, d.d), base)
RECURSIVE PastInitializer(_)
PastInitializer(s) ==
  CASE Word(s) \in {";", Eof} -> Match(s, ";")
    [] Met(s, "{") -> PastInitializer(SkipBalanced(s, "{", "}"))
    [] OTHER -> PastInitializer(On(s))
GlobalDeclared(s, spec, d) ==
  LET named == d.name # "" /\ d.t.kind # "unsupported"
      pushed == IF named THEN MoreGlobals(PushGlobal(s, d), spec.t) ELSE s
  IN  PushTags(PastInitializer(pushed), spec)

DeclaredBy(spec, d) ==
  IF d.d.fn /\ ~spec.typedef THEN FnDeclared(d.s, d.d)
  ELSE IF spec.typedef /\ d.d.name # "" THEN TypedefDeclared(d.s, spec, d.d)
  ELSE GlobalDeclared(d.s, spec, d.d)
TopDeclWith(spec) ==
  IF Met(spec.s, ";") THEN PushTags(On(spec.s), spec) ELSE DeclaredBy(spec, Declarator(spec.s, spec.t))
TopDecl(s) ==
  IF Met(s, "extern") /\ Met(On(s), StringToken) /\ Met(On(On(s)), "{") THEN On(On(On(s)))
  ELSE TopDeclWith(Declspec(s))

RECURSIVE CodeFrom(_)
CodeFrom(s) ==
  CASE Met(s, Eof) -> s [] Met(s, "}") -> CodeFrom(On(s)) [] OTHER -> CodeFrom(TopDecl(s))

-----------------------------------------------------------------------------
(* Macros and files.                                                                 *)

\* The type of an integer literal: the first of those its suffix and base allow that
\* can hold it. A sign is an operator of its own, and wraps in an unsigned type.
IntegerLimit ==
  [int |-> CIntLimit, uint |-> 2 * CIntLimit + 1, long |-> CLongLimit, ulong |-> 2 * CLongLimit + 1,
   longlong |-> CLongLimit, ulonglong |-> 2 * CLongLimit + 1]
Candidates(l) ==
  SelectSeq(<<"int", "uint", "long", "ulong", "longlong", "ulonglong">>,
    LAMBDA k : /\ (k \in {"int", "uint"} => l.longs = 0)
               /\ (k \in {"long", "ulong"} => l.longs < 2)
               /\ (IF k \in {"uint", "ulong", "ulonglong"} THEN l.unsigned \/ ~l.decimal ELSE ~l.unsigned))
MacroInteger_Signed(name, l) ==
  LET fits == SelectSeq(Candidates(l), LAMBDA k : l.magnitude <= IntegerLimit[k])
  IN  [name |-> name, kind |-> IF fits = <<>> THEN "unsupported" ELSE fits[1], invalid |-> fits = <<>>, user |-> FALSE,
       negative |-> l.negative, magnitude |-> l.magnitude]
MacroInteger(name, l) ==
  LET fits == SelectSeq(Candidates(l), LAMBDA k : l.magnitude <= IntegerLimit[k])
      kind == IF fits = <<>> THEN "unsupported" ELSE fits[1]
      wraps == l.negative /\ kind \in {"uint", "ulong", "ulonglong"}
  IN  [name |-> name, kind |-> kind, invalid |-> fits = <<>>, user |-> FALSE,
       negative |-> l.negative /\ l.magnitude # 0 /\ ~wraps,
       magnitude |-> IF wraps THEN (IntegerLimit[kind] + 1 - l.magnitude) % (IntegerLimit[kind] + 1) ELSE l.magnitude]

\* A file is read once. Its directives are met line by line, an include as a file
\* inside this one; its declarations only when all the lines have been.
RECURSIVE ProcessFile(_, _), Directives(_, _)
Directives(s, lines) ==
  IF lines = <<>> THEN s
  ELSE LET line == Head(lines)
       IN  CASE line.is = "include" ->
                  Directives([ProcessFile([s EXCEPT !.top = FALSE], line.path) EXCEPT !.top = s.top], Tail(lines))
             [] line.is = "define" -> Directives(Push(s, "consts", MacroInteger(line.name, line.literal)), Tail(lines))
             [] OTHER -> Directives(s, Tail(lines))
CodeOf(lines) == FlattenSeq([i \in DOMAIN lines |-> IF lines[i].is = "code" THEN lines[i].words ELSE <<>>])
ProcessFile(s, path) ==
  IF path \in s.seen THEN s
  ELSE LET met == Directives([s EXCEPT !.seen = @ \cup {path}], s.text[path])
       IN  CodeFrom([met EXCEPT !.ts = Undecorated(CodeOf(s.text[path])), !.at = 1])
================================================================================
