-------------------------------- MODULE Grammar --------------------------------
(* The parser's functions as terms: what a function consumes, tests and makes is    *)
(* data, and module Parser says what running a term does to the parser's state. A   *)
(* function of src/parser becomes one definition here, in the order of its steps.   *)
EXTENDS Integers, Sequences

CONSTANTS
  PlainNames,   \* words without a meaning
  MaxParts      \* for 8 dimensions, 8 pointer levels, 8 type parameters, 32 parameters, 64 captures, 16 tests

Quoted == "$q"
\* Identifiers that mean something where an operation or a form is named.
Words ==
  {"closure", "wait", "ready", "drop", "get", "done", "cancel", "next", "all", "start", "end", "read", "comptime",
   "assert", "os", "doc", "init", "exit", "crash", "freestanding", "packed", "c_layout", "align", "weak", "hidden",
   "frees", "search", "typed", "_"}
Identifiers == PlainNames \cup Words
Builtins == {"i32", "f64", "bool", "void", "error", "future", "stream", "any", "zone"}
Storages == {"stack", "heap"}
Linkages == {"int", "ext"}
Qualifiers == {"atomic", "const", "final", "volatile", "tls"}
Ints == {"1", "2"}
Texts == {"'s'", "'t'"}
Literals == Ints \cup Texts \cup {"1.5", "true", "false", "#c"}
SoftNames == {"from", "new", "rem", "len", "cap", "make", "append", "copy"}
Names == Identifiers \cup SoftNames \cup {Quoted, "hash", "equ"}

-----------------------------------------------------------------------------
(* Conditions on the tokens ahead, on what was just made, and on the parser's modes. *)

Ahead(window) == [is |-> "ahead", window |-> window]
At(tokens) == [is |-> "at", tokens |-> tokens]
Made(kinds) == [is |-> "made", kinds |-> kinds]
Led(kinds) == [is |-> "led", kinds |-> kinds]
Not(c) == [is |-> "not", of |-> c]
All(cs) == [is |-> "all", of |-> cs]
Either(cs) == [is |-> "either", of |-> cs]
\* A word among what was just kept, and the key of an entry of the header just made.
Holding(texts) == [is |-> "holding", texts |-> texts]
Keyed(keys) == [is |-> "keyed", keys |-> keys]
Free == [is |-> "free"]
Panicking == [is |-> "panicking"]
GenericVariable == [is |-> "variable"]

-----------------------------------------------------------------------------
(* Terms. *)

Eat(t) == [op |-> "token", set |-> {t}, keep |-> FALSE]
Keep(tokens) == [op |-> "token", set |-> tokens, keep |-> TRUE]
Do(terms) == IF Len(terms) = 1 THEN terms[1] ELSE [op |-> "do", of |-> terms]
Make(kind, terms) == [op |-> "make", kind |-> kind, of |-> terms]
Around(kind, terms) == [op |-> "around", kind |-> kind, of |-> terms]
Rule(name) == [op |-> "rule", name |-> name]
Case(c, terms) == [when |-> c, run |-> Do(terms)]
Cases(cases, otherwise) == [op |-> "cases", cases |-> cases, otherwise |-> Do(otherwise)]
If(c, terms) == Cases(<<Case(c, terms)>>, <<>>)
IfElse(c, terms, others) == Cases(<<Case(c, terms)>>, others)
Repeat(cases) == [op |-> "repeat", cases |-> cases]
While(c, terms) == Repeat(<<Case(c, terms)>>)
\* At most n rounds; one more that was asked for runs `beyond`.
Upto(n, c, terms, beyond) == [op |-> "upto", n |-> n, when |-> c, run |-> Do(terms), beyond |-> Do(beyond)]
Held(terms) == [op |-> "held", run |-> Do(terms)]
Nested(terms) == [op |-> "nested", run |-> Do(terms)]
Progress(terms) == [op |-> "progress", run |-> Do(terms)]
Attempt(terms, c, clean, then, otherwise) ==
  [op |-> "attempt", run |-> Do(terms), when |-> c, clean |-> clean, then |-> Do(then), otherwise |-> Do(otherwise)]
Put(text) == [op |-> "put", text |-> text]
Rename(kind) == [op |-> "rename", kind |-> kind]
Break == [op |-> "break"]
Forget == [op |-> "forget"]
Feed == [op |-> "feed"]
Take == [op |-> "take"]
Skip == [op |-> "skip"]
Err(panic) == [op |-> "fail", panic |-> panic]
Complain == [op |-> "complain"]
Recover == [op |-> "recover"]

-----------------------------------------------------------------------------
(* Shapes that many functions share. *)

Eof == "eof"
Optional(tokens) == If(At(tokens), <<Keep(tokens)>>)
Match(t) == If(At({t}), <<Eat(t)>>)
Commas(terms) == Do(terms \o <<While(At({","}), <<Eat(",")>> \o terms)>>)
\* while (!check(close) && !check(eof)) { item; if (!match(comma)) break; }
ListUntil(close, terms) ==
  If(Not(At({close, Eof})), terms \o <<While(At({","}), <<Eat(","), If(Not(At({close, Eof})), terms)>>)>>)
Open == Do(<<Eat("."), Eat("(")>>)
Close == Eat(")")
Expr == Rule("expr")
Type == Rule("type")
Text == Keep(Texts)

\* is_builtin_type_token(), can_start_type(), can_start_param_type().
SliceAhead == Ahead(<<{"["}, {"]"}>>)
CanStartType == Either(<<At({"?", "fn", "any", "va"} \cup Builtins \cup Identifiers), SliceAhead>>)
CanStartParamType ==
  Either(<<At({"?", "fn"} \cup Builtins), SliceAhead, Ahead(<<Identifiers, Identifiers \cup {"*"}>>),
        Ahead(<<Identifiers, {"."}, {"["}>>)>>)
\* can_start_var_decl(); GenericVariable looks past the type arguments.
CanStartVarDecl ==
  Either(<<At({"?", "let"} \cup Storages \cup Qualifiers \cup Builtins),
        Ahead(<<Identifiers, Identifiers \cup {"*"}>>), GenericVariable>>)

\* parse_generic_use(): the arguments between brackets.
GenericUse == Make("types", <<Eat("["), ListUntil("]", <<Type>>), Eat("]")>>)

-----------------------------------------------------------------------------
(* parse_type() and parse_type_impl(): storage, nullable, then the forms in the      *)
(* order they are tried; slices, function pointers and closures end there, the       *)
(* others take pointer levels.                                                       *)

FnParam == Do(<<Optional(Storages), Type>>)
\* Mutant: parameters past the array are read and let go.
FnParams_Cut(close) ==
  IfElse(Not(At({close, "void"})), <<FnParam, While(At({","}), <<Eat(","), FnParam>>)>>, <<Match("void")>>)
FnParams(close) ==
  IfElse(Not(At({close, "void"})),
         <<FnParam, Upto(MaxParts - 1, At({","}), <<Eat(","), FnParam>>, <<Eat(","), Err(FALSE)>>)>>,
         <<Match("void")>>)
FnPointer ==
  IfElse(Ahead(<<{"fn"}, {"*"}>>),
         <<Make("fnptr", <<Eat("fn"), Eat("*"), Eat("("), FnParams(")"), Close, Eat(":"), Type>>)>>,
         <<Eat("fn"), Err(FALSE), Put("?")>>)
ClosureType ==
  Make("closuretype", <<Eat("closure"), Eat("."), Eat("["), FnParams("]"), Eat("]"), Eat(":"), Type>>)
AnyType ==
  IfElse(Ahead(<<{"any"}, {"."}, {"["}>>), <<Make("anyof", <<Eat("any"), Eat("."), GenericUse>>)>>,
         <<Make("anytype", <<Eat("any"), Match(".")>>)>>)
BuiltinType ==
  IfElse(Ahead(<<{"future", "stream"}, {"."}, {"["}>>),
         <<Make("handle", <<Keep({"future", "stream"}), Eat("."), Eat("["), Type, Eat("]")>>)>>,
         <<Make("builtin", <<Keep(Builtins)>>)>>)
UserType ==
  IfElse(Ahead(<<Identifiers, {"."}, {"["}>>), <<Make("generic", <<Keep(Identifiers), Eat("."), GenericUse>>)>>,
         <<Make("user", <<Keep(Identifiers)>>)>>)
PointerLevel == Around("pointer", <<Eat("*"), Optional({"r", "w", "rw"}), Optional({"+"})>>)
PointerLevels == Upto(MaxParts, At({"*"}), <<PointerLevel>>, <<Err(FALSE), While(At({"*"}), <<PointerLevel>>)>>)

TypeForm ==
  Cases(<<Case(SliceAhead, <<Make("slice", <<Eat("["), Eat("]"), Type>>)>>),
          Case(At({"fn"}), <<FnPointer>>),
          Case(At({"any"}), <<AnyType, PointerLevels>>),
          Case(At({"va"}), <<Make("va", <<Eat("va")>>), PointerLevels>>),
          Case(At(Builtins), <<BuiltinType, PointerLevels>>),
          Case(At({"closure"}), <<ClosureType>>),
          Case(At(Identifiers), <<UserType, PointerLevels>>)>>,
        <<Err(FALSE), Put("?")>>)
\* `stored`: the type began with a storage word, and one is allowed.
TypeImpl(stored) ==
  LET Storage == If(At(Storages), (IF stored THEN <<Err(FALSE)>> ELSE <<>>) \o <<Keep(Storages)>>)
  IN IfElse(At({"?"}),
            <<Eat("?"), Storage, TypeForm,
              If(Not(Made({"pointer", "slice", "fnptr", "closuretype"})), <<Err(FALSE)>>), Around("nullable", <<>>)>>,
            <<Storage, TypeForm>>)
ParseType == Nested(<<IfElse(At(Storages), <<Keep(Storages), TypeImpl(TRUE)>>, <<TypeImpl(FALSE)>>)>>)

-----------------------------------------------------------------------------
\* consume_name() and its lists.
ConsumeName == Keep(Names)
Parameter(extra) == Make("param", extra \o <<Optional(Storages), If(CanStartParamType, <<Type>>), ConsumeName>>)
Dimension == Make("dim", <<Eat("["), Optional(Ints \cup Names), Eat("]")>>)
Dimensions == Upto(MaxParts, At({"["}), <<Dimension>>, <<>>)
\* parse_dotted_name(): a dot that no word follows is left alone.
DottedName == Make("path", <<Keep(Identifiers), While(Ahead(<<{"."}, Identifiers>>), <<Eat("."), Keep(Identifiers)>>)>>)
\* try_parse_capture_list().
Capture == Make("capture", <<Optional({"&"}), ConsumeName>>)
CaptureList ==
  If(Ahead(<<{"."}, {"|"}>>),
     <<Make("captures",
            <<Eat("."), Eat("|"),
              If(Not(At({"|"})),
                 <<Capture,
                   Upto(MaxParts - 1, At({","}), <<Eat(","), If(Not(At({"|", Eof})), <<Capture>>)>>,
                        <<Eat(","), If(Not(At({"|", Eof})), <<Err(FALSE)>>)>>)>>),
              Eat("|")>>)>>)
================================================================================
