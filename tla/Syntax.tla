--------------------------------- MODULE Syntax --------------------------------
(* What the parser must make of a text: the language as forms that are written, not  *)
(* parsed. A text is written from a tree of forms, with parentheses where a form     *)
(* binds looser than its place, and possibly damaged by one edit.                    *)
EXTENDS Parser, FiniteSets
LOCAL INSTANCE TLC
LOCAL INSTANCE SequencesExt

CONSTANTS
  MaxForms,  \* forms inside one another
  Thrice     \* forms of which one more goes inside one another

-----------------------------------------------------------------------------
(* Items of a form: text alone, text that is kept, a place for another form, a node   *)
(* within the node, and an item written `parts` times.                                *)

P(t) == [item |-> "text", text |-> t]
K(t) == [item |-> "kept", text |-> t]
Place(i, sort, level, held) == [item |-> "place", i |-> i, sort |-> sort, level |-> level, held |-> held]
In(kind, items) == [item |-> "node", kind |-> kind, of |-> items]
AtMost(limit, items, comma) == [item |-> "many", of |-> items, comma |-> comma, limit |-> limit]
Many(items, comma) == AtMost(MaxParts + 1, items, comma)
\* Not written: something to know about what stands before or after it.
Mark(m) == [item |-> "mark", text |-> m]

\* Levels: 0 assignment, 1 pipeline, 2 ternary, 3 ||, 4 &&, 5 |, 6 ^, 7 &, 8 chain,
\* 9 equality, 10 order, 11 shift, 12 sum, 13 product, 14 unary, 15 postfix, 16 primary.
E(i, level) == Place(i, "expr", level, FALSE)
Ex(i) == E(i, 0)
Cond(i) == Place(i, "expr", 0, TRUE)
Target(i) == Place(i, "target", 0, FALSE)
Id(i) == Place(i, "ident", 0, FALSE)
TypeIn(i) == Place(i, "type", 1, FALSE)
St(i) == Place(i, "stmt", 0, FALSE)
Bl(i) == Place(i, "block", 0, FALSE)
Bo(i) == Place(i, "body", 0, FALSE)
De(i) == Place(i, "decl", 0, FALSE)

\* A form: what it is, how tightly it binds, the node it makes and its items. `gives`
\* differs from `items` where the node has its parts in another order than the text.
F(sort, level, kind, items) == [sort |-> sort, level |-> level, kind |-> kind, items |-> items, gives |-> items]
X(kind, items) == F("expr", 16, kind, items)
Op(kind, level, left, op, right) == F("expr", level, kind, <<E(1, left), K(op), E(2, right)>>)
Call1(kind, words) == X(kind, words \o <<P("."), P("("), Ex(1), P(")")>>)
Call2(kind, words) == X(kind, words \o <<P("."), P("("), Ex(1), P(","), Ex(2), P(")")>>)
Args == In("args", <<P("("), Many(<<Ex(2)>>, TRUE), P(")")>>)
Calling == <<Args, Mark("call")>>
Name(n) == In("name", <<K(n)>>)
NamedForm(n) == F("ident", 16, "name", <<K(n)>>)
Closure ==
  In("lambda", <<P("{"), P("|"), In("param", <<K("b")>>), P("|"),
                 In("block", <<In("ret", <<Mark("last"), Ex(3)>>)>>), P("}")>>)

ExprForms ==
  [a |-> NamedForm("a"), b |-> NamedForm("b"), f |-> NamedForm("f"),
   this |-> F("ident", 16, "this", <<P("this")>>),
   instance |-> F("ident", 15, "instance", <<Name("a"), P("."), In("types", <<P("["), Many(<<TypeIn(1)>>, TRUE), P("]")>>)>>),
   literal |-> X("literal", <<K("1")>>), text |-> X("literal", <<K("'s'")>>), nil |-> X("nil", <<P("nil")>>),
   lambda |-> X("lambda", <<P("lam"), P("."), P("("), In("param", <<Mark("va"), TypeIn(1), K("b")>>), P(")"), P(":"), TypeIn(2), P("{"),
                            In("block", <<St(3)>>), P("}")>>),
   captures |-> X("lambda", <<P("lam"), P("."), P("("), P("void"), P(")"), P("{"),
                              In("captures", <<P("."), P("|"), AtMost(MaxParts, <<In("capture", <<K("&"), K("a")>>)>>, TRUE), P("|")>>),
                              In("block", <<>>), P("}")>>),
   format |-> X("format", <<P("@"), K("'s'")>>),
   values |-> X("compound", <<P("."), P("{"), Mark("."), Ex(1), P(","), Mark("."), Ex(2), P("}")>>),
   fields |-> X("compound", <<P("."), P("{"), In("field", <<P("."), K("b"), P("="), Ex(1)>>), P(","),
                              In("spread", <<P(".."), Ex(2)>>), P("}")>>),
   elements |-> X("compound", <<P("."), P("{"), In("element", <<P("["), Ex(1), P("]"), P("="), Ex(2)>>), P("}")>>),
   desig |-> X("desig", <<Name("a"), P("{"), In("field", <<P("."), K("b"), P("="), Ex(1)>>), P(","), P("}")>>),
   instanced |-> X("desig", <<In("instance", <<Name("a"), P("."), In("types", <<P("["), TypeIn(1), P("]")>>)>>), P("{"),
                              In("field", <<P("."), K("b"), P("="), Ex(2)>>), P("}")>>),
   new |-> Call1("new", <<P("new")>>),
   newin |-> F("expr", 14, "new", <<P("new"), P("."), P("("), Ex(1), P(")"), P("in"), E(2, 15)>>),
   hash |-> Call1("hash", <<P("hash")>>), equ |-> Call2("equ", <<P("equ")>>),
   sizeof |-> X("sizeof", <<P("sizeof"), P("."), P("("), TypeIn(1), P(")")>>),
   rem |-> Call1("rem", <<P("rem")>>),
   error |-> X("error", <<P("error"), P("."), P("("), K("'s'"), P(","), Many(<<Ex(1)>>, TRUE), P(")")>>),
   expect |-> Call1("expect", <<P("expect")>>), expecteq |-> Call2("expecteq", <<P("expect_eq")>>),
   expectneq |-> Call2("expectneq", <<P("expect_neq")>>), testfail |-> Call1("testfail", <<P("test_fail")>>),
   assertion |-> X("comptimeassert", <<P("comptime_assert"), P("."), P("("), Ex(1), P(","), K("'s'"), P(")")>>),
   mov |-> Call2("mov", <<P("mov")>>),
   movsize |-> X("mov", <<P("mov"), P("."), P("("), Name("a"), P(","), Ex(1), P(","), Ex(2), P(")")>>),
   thread |-> X("threadcall", <<P("thread"), P("."), P("("), K("f"), P(")"), Args>>),
   async |-> X("asynccall", <<P("async"), P("."), P("("), K("f"), P(")"), Args>>),
   done |-> Call1("futureop", <<K("stream"), P("."), K("done")>>),
   wait |-> Call1("futureop", <<K("future"), P("."), K("wait")>>),
   get |-> X("futureop", <<K("future"), P("."), K("get"), P("."), P("("), TypeIn(1), P(")"), P("("), Ex(2), P(")")>>),
   await |-> Call1("await", <<P("await")>>),
   awaitasync |-> X("await", <<P("await"), P("."), In("asynccall", <<P("("), K("f"), P(")"), Args>>)>>),
   awaitnext |-> Call1("await", <<P("await"), P("."), K("next")>>),
   awaitall |-> X("await", <<P("await"), P("."), K("all"), P("."), In("args", <<P("("), Ex(1), P(","), Ex(2), P(")")>>)>>),
   vastart |-> Call1("vaop", <<P("va"), P("."), K("start")>>),
   vanext |-> X("vaop", <<P("va"), P("."), K("next"), P("."), P("["), TypeIn(1), P("]"), P("("), Ex(2), P(")")>>),
   vaeach |-> X("vaop", <<P("va"), P("."), K("foreach"), P("."), P("["), TypeIn(1), P("]"), P("("), Ex(2), P(","),
                          Ex(3), P(")"), Mark("call")>>),
   varead |-> X("vaop", <<P("va"), P("."), K("read"), P("."), P("["), Many(<<TypeIn(1)>>, TRUE), P("]"), P("("), Ex(2), P(")")>>),
   anyof |-> Call1("anytypeof", <<P("any")>>),
   make |-> X("make", <<P("make"), P("."), P("("), P("["), P("]"), TypeIn(1), P(","), Ex(2), P(","), Ex(3), P(")")>>),
   makevalues |-> X("make", <<P("make"), P("."), In("compound", <<P("{"), Mark("."), Ex(1), P("}")>>)>>),
   append |-> Call2("append", <<P("append")>>), copy |-> Call2("copy", <<P("copy")>>),
   len |-> Call1("len", <<P("len")>>), cap |-> Call1("cap", <<P("cap")>>),

   call |-> F("expr", 15, "call", <<Id(1)>> \o Calling),
   trailing |-> F("expr", 15, "call", <<Id(1), In("args", <<P("("), Ex(2), P(")"), Mark("closure"), Closure>>)>>),
   index |-> F("target", 15, "index", <<E(1, 15), P("["), Ex(2), P("]")>>),
   sliceto |-> F("expr", 15, "sliceto", <<E(1, 15), P("["), P(":"), Ex(2), P("]")>>),
   slice |-> F("expr", 15, "slice", <<E(1, 15), P("["), Ex(2), Mark(":"), P(":"), Ex(3), P("]")>>),
   unchecked |-> F("target", 15, "unchecked", <<E(1, 15), P("["), P("unchecked"), P(":"), Ex(2), P("]")>>),
   selfmember |-> F("target", 15, "selfmember", <<In("this", <<P("this")>>), P("."), K("b")>>),
   selfcall |-> F("expr", 15, "selfcall", <<In("this", <<P("this")>>), P("."), K("b"), Args>>),
   checked |-> F("expr", 15, "checkedcall", <<Id(1), P("."), P("?"), Args>>),
   ctor |-> F("expr", 15, "ctor", <<Id(1), P(".")>> \o Calling),
   member |-> F("target", 15, "member", <<E(1, 15), P("."), K("b")>>),
   method |-> F("expr", 15, "method", <<E(1, 15), P("."), K("b")>> \o Calling),
   accessor |-> F("expr", 15, "coloncall", <<Id(1), P(":"), K("b"), P(":"), K("f")>> \o Calling),
   postfix |-> F("expr", 15, "postfix", <<E(1, 15), K("++")>>),
   propagate |-> F("expr", 15, "propagate", <<E(1, 15), P("?"), Mark("?")>>),

   cast |-> F("expr", 14, "cast", <<P("("), In("builtin", <<K("i32")>>), P(")"), E(1, 14)>>),
   castto |-> F("expr", 14, "cast", <<P("("), In("pointer", <<In("user", <<K("b")>>), P("*")>>), P(")"), E(1, 14)>>),
   addrof |-> F("expr", 14, "addrof", <<P("&"), E(1, 14)>>),
   deref |-> F("target", 14, "deref", <<P("*"), Mark("."), E(1, 14)>>),
   derefcall |-> F("target", 14, "deref", <<P("*"), P("."), P("("), Ex(1), P(")")>>),
   minus |-> F("expr", 14, "prefix", <<K("-"), E(1, 14)>>), not |-> F("expr", 14, "prefix", <<K("!"), E(1, 14)>>),
   product |-> Op("binary", 13, 13, "*", 14), sum |-> Op("binary", 12, 12, "-", 13),
   shift |-> Op("binary", 11, 11, "<<", 12),
   range |-> F("expr", 11, "range", <<E(1, 12), K(".."), E(2, 12), Mark("..")>>),
   stepped |-> F("expr", 11, "range", <<E(1, 12), K("..="), E(2, 12), Mark(":"), P(":"), E(3, 12)>>),
   order |-> Op("compare", 10, 10, "<", 11), equality |-> Op("compare", 9, 9, "==", 10),
   equal |-> F("expr", 9, "equ", <<E(1, 9), P(".=="), E(2, 10)>>),
   chain |-> F("expr", 8, "chain", <<In("compare", <<E(1, 9), K("=="), E(2, 10)>>),
                                     AtMost(MaxParts - 2, <<K("and"), K("<"), E(3, 11)>>, FALSE), K("or"), In("literal", <<K("1")>>)>>),
   bitand |-> Op("binary", 7, 7, "&", 9), bitxor |-> Op("binary", 6, 6, "^", 7), bitor |-> Op("binary", 5, 5, "|", 6),
   both |-> Op("binary", 4, 4, "&&", 5), one |-> Op("binary", 3, 3, "||", 4),
   ternary |-> F("expr", 2, "ternary", <<E(1, 3), P("?"), Mark("t"), Ex(2), Mark(":"), P(":"), E(3, 2)>>),
   pipecall |-> [F("expr", 1, "call", <<E(1, 1), P("|>"), K("f"), P("("), Ex(2), P(")"), Mark("call")>>)
                 EXCEPT !.gives = <<Name("f"), In("args", <<E(1, 1), Ex(2)>>)>>],
   pipename |-> [F("expr", 1, "call", <<E(1, 1), P("|>"), K("f")>>) EXCEPT !.gives = <<Name("f"), In("args", <<E(1, 1)>>)>>],
   pipemethod |-> [F("expr", 1, "method", <<E(1, 1), P("|>"), K("a"), P("."), K("b")>>)
                   EXCEPT !.gives = <<Name("a"), K("b"), In("args", <<E(1, 1)>>)>>],
   assign |-> F("expr", 0, "assign", <<Target(1), P("="), Ex(2)>>),
   update |-> F("expr", 0, "compound_assign", <<Target(1), K("+="), Ex(2)>>)]

-----------------------------------------------------------------------------
(* Types, statements and declarations.                                              *)

Ty(level, kind, items) == F("type", level, kind, items)
Pointers == {"pointer", "slice", "fnptr", "closuretype"}
TypeForms ==
  [builtin |-> Ty(2, "builtin", <<K("i32")>>), user |-> Ty(2, "user", <<K("b")>>),
   generic |-> Ty(2, "generic", <<K("b"), P("."), In("types", <<P("["), Many(<<TypeIn(1)>>, TRUE), P("]")>>)>>),
   handle |-> Ty(2, "handle", <<K("stream"), P("."), P("["), TypeIn(1), P("]")>>),
   anyone |-> Ty(2, "anyof", <<P("any"), P("."), In("types", <<P("["), Many(<<TypeIn(1)>>, TRUE), P("]")>>)>>),
   variadics |-> Ty(2, "va", <<P("va")>>),
   pointer |-> Ty(2, "pointer", <<Place(1, "type", 2, FALSE), P("*"), K("rw"), K("+")>>),
   slicetype |-> Ty(1, "slice", <<P("["), P("]"), TypeIn(1)>>),
   fnptr |-> Ty(1, "fnptr", <<P("fn"), P("*"), P("("), AtMost(MaxParts, <<TypeIn(1)>>, TRUE), P(")"), P(":"), TypeIn(2)>>),
   closuretype |-> Ty(1, "closuretype", <<P("closure"), P("."), P("["), AtMost(MaxParts, <<TypeIn(1)>>, TRUE), P("]"), P(":"), TypeIn(2)>>),
   nullable |-> Ty(1, "nullable", <<P("?"), Place(1, "pointers", 1, FALSE)>>)]

Sf(kind, items) == F("stmt", 0, kind, items)
Vf(items) == F("var", 0, "var", items)
Bind == <<K("let"), K("b"), P("="), Ex(1)>>
Dims == AtMost(MaxParts, <<In("dim", <<P("["), K("1"), P("]")>>)>>, FALSE)
Pair == In("targets", <<P("["), K("a"), P(","), K("b"), P("]")>>)
StatementForms ==
  [block |-> F("block", 0, "block", <<P("{"), Many(<<St(1)>>, FALSE), P("}")>>),
   arrow |-> F("body", 0, "block", <<P("=>"), St(1)>>),
   for |-> Sf("for", <<P("for"), Place(1, "var", 0, FALSE), Cond(2), P(";"), Cond(3), Bo(4)>>),
   forexpr |-> Sf("for", <<P("for"), P("("), Mark("start"), Ex(1), P(";"), Cond(2), P(";"), Cond(3), P(")"), Bo(4)>>),
   while |-> Sf("while", <<P("while"), Cond(1), Bo(2)>>),
   foreach |-> Sf("foreach", <<P("foreach"), K("b"), P("in"), Cond(1), Bo(2)>>),
   do |-> Sf("dowhile", <<P("do"), Bo(1), P("while"), Mark("("), Cond(2), P(";")>>),
   inf |-> Sf("inf", <<P("inf"), Bo(1)>>),
   if |-> Sf("if", <<P("if"), Cond(1), Bo(2)>>),
   ifelse |-> Sf("if", <<P("if"), Cond(1), Bo(2), P("else"), Bo(3)>>),
   ifelseif |-> Sf("if", <<P("if"), Cond(1), Bl(2), P("else"), In("if", <<P("if"), Cond(3), Bl(4)>>)>>),
   ret |-> Sf("ret", <<P("ret"), Many(<<Ex(1)>>, TRUE), P(";")>>),
   print |-> Sf("print", <<P("print"), P("."), P("("), K("'s'"), P(","), Many(<<Ex(1)>>, TRUE), P(")"), P(";")>>),
   printerror |-> Sf("print", <<P("print"), P("."), K("error"), P("."), P("("), K("@"), K("'s'"), P(")"), P(";")>>),
   exprstmt |-> Sf("exprstmt", <<Mark("start"), Ex(1), P(";")>>),
   watch |-> Sf("watch", <<P("watch"), P("."), P("("), TypeIn(1), K("b"), P(")"), Bl(2)>>),
   send |-> Sf("send", <<P("send"), P("."), P("("), Ex(1), P(")"), P(";")>>),
   quit |-> Sf("quit", <<P("quit"), P("."), P("("), Ex(1), P(")"), P(";")>>),
   unsafe |-> Sf("unsafe", <<P("unsafe"), Bl(1)>>),
   zone |-> Sf("zone", <<P("zone"), K("a"), Bl(1)>>), zoned |-> Sf("zone", <<P("zone"), K("a"), P(";")>>),
   comptimeif |-> Sf("comptimeif", <<P("comptime_if"), K("os"), P("=="), K("'s'"), Bl(1), P("else"),
                                     In("comptimeif", <<P("@"), P("comptime"), P("if"), K("os"), P("=="), K("'t'"), Bl(2)>>)>>),
   asserts |-> Sf("comptimeassert", <<P("@"), P("comptime"), P("assert"), P("."), P("("), Ex(1), P(","), K("'s'"), P(")"), P(";")>>),
   with |-> Sf("with", <<P("with"), In("var", Bind), P(";"), Ex(2), Bl(3), P("else"), Bl(4)>>),
   withtyped |-> Sf("with", <<P("with"), In("var", <<K("stack"), Mark("["), TypeIn(1), K("b"), P("="), Ex(2)>>), P(";"), Bl(3)>>),
   withpair |-> Sf("with", <<P("with"), In("var", <<Pair, P("="), Ex(1)>>), P(";"), Ex(2), Bl(3)>>),
   break |-> Sf("break", <<P("break"), P(";")>>), continue |-> Sf("continue", <<P("continue"), P(";")>>),
   yield |-> Sf("yield", <<P("yield"), P(";")>>), yields |-> Sf("yield", <<P("yield"), Ex(1), P(";")>>),
   defer |-> Sf("defer", <<P("defer"), St(1)>>),
   switch |-> Sf("switch", <<P("switch"), Cond(1), P("{"), In("case", <<P("case"), Many(<<Ex(2)>>, TRUE), P(":"), Bl(3)>>),
                             In("case", <<K("default"), P(":"), Bl(4)>>), P("}")>>),
   match |-> Sf("match", <<P("match"), Cond(1), P("{"),
                           In("arm", <<K("a"), P("."), K("b"), P("("), K("f"), P(")"), P("=>"), Bl(2), P(",")>>),
                           In("arm", <<In("prefix", <<K("-"), In("literal", <<K("1")>>)>>), P("if"), Ex(3), P("=>"), Bl(4)>>),
                           In("arm", <<In("builtin", <<K("i32")>>), K("b"), P("=>"), Bl(2)>>),
                           In("arm", <<K("_"), P("=>"), Bl(4)>>), P("}")>>),
   matchany |-> Sf("match", <<P("match"), In("anytypeof", <<P("any"), P("."), P("("), Cond(1), P(")")>>), P("{"),
                              In("arm", <<K("i32"), P("("), TypeIn(2), K("b"), P(")"), P("=>"), Bl(3)>>), P("}")>>),
   asm |-> Sf("asm", <<P("asm"), P("{"), K("'s'"), P("}")>>),
   asmwith |-> Sf("asm", <<P("asm"), P("("), K("'s'"), P(","), K("'t'"), P(","), Many(<<Ex(1)>>, TRUE), P(")"), P(";")>>),
   let |-> Vf(Bind \o <<P(";")>>), letpair |-> Vf(<<K("let"), Pair, P("="), Ex(1), P(";")>>),
   var |-> Vf(<<K("heap"), TypeIn(1), K("b"), P("="), Ex(2), P(";")>>),
   bare |-> Vf(<<In("generic", <<K("b"), P("."), In("types", <<P("["), TypeIn(1), P("]")>>)>>), K("f"), P("="), Ex(2), P(";")>>),
   array |-> Vf(<<K("stack"), K("const"), K("volatile"), TypeIn(1), K("b"), Dims, P("="), Ex(2), P(";")>>),
   pair |-> Vf(<<K("atomic"), K("final"), K("tls"), TypeIn(1), Pair, P("="), Ex(2), P(","), Ex(3), P(";")>>)]

Df(items) == F("decl", 0, "decl", items)
OneParam == In("param", <<Mark("va"), TypeIn(1), K("a")>>)
Fn(items) == In("fn", <<P("fn")>> \o items)
Header == In("header", <<P("@"), P("["), P("["), In("entry", <<K("a"), P(":"), K("'s'")>>), P(","),
                         In("entry", <<K("b"), P(":"), K("os"), P("."), K("a"), K("=="), K("'t'")>>), P("]"), P("]")>>)
TypeOf(items) == In("type", <<P("type"), K("a"), P(":")>> \o items)
DeclForms ==
  [lib |-> Df(<<In("lib", <<P("lib"), K("'s'"), P("from"), K("'t'"), P("="), K("a"), P(";")>>)>>),
   libimp |-> Df(<<In("libimp", <<P("libimp"), K("'s'"), P("from"), K("std"), P(";")>>)>>),
   cheader |-> Df(<<In("cheader", <<P("cheader"), K("'s'"), P("search"), K("'t'"), P(";")>>)>>),
   imp |-> Df(<<In("imp", <<P("imp"), In("path", <<K("a"), P("."), K("b")>>), P(";")>>)>>),
   test |-> Df(<<In("test", <<P("test"), K("'s'"), Bl(1)>>)>>),
   chosen |-> Df(<<In("comptimeif", <<P("@"), P("comptime"), P("if"), K("os"), P("=="), K("'s'"), Bl(1)>>)>>),
   asserted |-> Df(<<In("comptimeassert", <<P("comptime_assert"), P("."), P("("), Ex(1), P(")")>>), P(";")>>),
   zonedecl |-> Df(<<In("zone", <<P("zone"), K("a"), P(";")>>)>>),
   global |-> Df(<<Header, K("int"), Place(1, "var", 0, FALSE)>>),
   fn |-> Df(<<Header, P("@"), K("weak"), K("ext"), Fn(<<K("f"), P("("), Many(<<OneParam>>, TRUE), P(","),
                In("variadic", <<P("..."), K("typed")>>), P(")"), P(":"), Mark("["), TypeIn(2), P(";")>>)>>),
   genericfn |-> Df(<<Fn(<<P("@"), P("comptime"), In("typeparams", <<P("["), AtMost(MaxParts, <<K("a")>>, TRUE), P("]")>>),
                         K("f"), P("("), In("param", <<P("@"), K("frees"), K("heap"), Mark("va"), TypeIn(1), K("b"), Dims>>), P(")"), Bl(2)>>)>>),
   methodfn |-> Df(<<Fn(<<K("a"), P("."), K("b"), P("("), P("void"), P(")"), P(":"), P("["), Many(<<TypeIn(1)>>, TRUE), P("]"),
                          In("block", <<P("=>"), In("ret", <<Ex(2), P(";")>>)>>)>>)>>),
   asyncfn |-> Df(<<K("async"), Fn(<<K("f"), P("("), P(")"), P(":"), Mark("["), TypeIn(1), Bl(2)>>)>>),
   submod |-> Df(<<In("submod", <<P("mod"), K("a"), P("{"), Many(<<De(1)>>, FALSE), P("}")>>)>>),
   alias |-> Df(<<TypeOf(<<TypeIn(1), P(";")>>)>>),
   struct |-> Df(<<TypeOf(<<P("@"), K("packed"), P("@"), K("align"), P("("), K("1"), P(")"), K("struct"),
                In("interfaces", <<P("."), P("["), AtMost(MaxParts, <<K("b")>>, TRUE), P("]")>>),
                In("members", <<P("{"),
                   In("member", <<K("ext"), K("heap"), Mark("fn"), TypeIn(1), In("field", <<K("a"), P(":"), K("1")>>), P(","),
                                  In("field", <<K("b"), Dims>>), P(";")>>),
                   In("member", <<K("int"), P("fn"), K("f"), P("("), OneParam, P(")"), P(":"), Mark("["), TypeIn(2), Bl(3)>>),
                   In("section", <<P("@"), P("comptime"), P(":"),
                      In("member", <<Mark("fn"), TypeIn(2), In("field", <<K("b"), P("="), Ex(4)>>), P(";")>>)>>), P("}")>>)>>)>>),
   chosenfields |-> Df(<<TypeOf(<<K("struct"), In("members", <<P("{"), In("section", <<P("@"), P("comptime"), P(":"),
                In("comptimefields", <<P("@"), P("comptime"), P("if"), K("os"), P("=="), K("'s'"), P("{"),
                   In("member", <<K("int"), TypeIn(1), K("a"), P("="), Ex(2), P(";")>>), P("}"), P("else"),
                   P("{"), P("i32"), P("b"), P(";"), P("}")>>)>>), P("}")>>)>>)>>),
   union |-> Df(<<TypeOf(<<K("union"), In("members", <<P("{"), Many(<<In("member", <<Mark("fn"), TypeIn(1), In("field", <<K("a")>>), P(";")>>)>>, FALSE),
                                                       P("}")>>)>>)>>),
   enum |-> Df(<<TypeOf(<<K("enum"), In("variants", <<P("{"), Many(<<In("variant", <<K("a"), P("("), TypeIn(1), P(")")>>)>>, TRUE),
                                                      P(","), P("}")>>)>>)>>),
   interface |-> Df(<<TypeOf(<<K("interface"),
                In("signatures", <<P("{"), In("signature", <<K("f"), P("("), In("param", <<Mark("va"), TypeIn(1), K("a"), P(","), K("b")>>), P(","),
                   In("param", <<Mark("va"), TypeIn(2), K("f")>>), P(")"), P(":"), TypeIn(3), P(";")>>), P("}")>>)>>)>>),
   lifecycle |-> Df(<<In("header", <<P("@"), P("["), P("["), In("entry", <<K("init")>>), P("]"), P("]")>>),
                      In("lifecycle", <<K("'s'"), Bl(1)>>)>>),
   file |-> F("module", 0, "module", <<Header, P(";"), P("mod"), In("path", <<K("a")>>), P(";"), Many(<<De(1)>>, FALSE)>>)]

-----------------------------------------------------------------------------
(* Trees: a form and what fills its places. Writing a tree, and what it means.      *)

Forms == ExprForms @@ TypeForms @@ StatementForms @@ DeclForms
\* Every place of a form: places are numbered from 1.
RECURSIVE PlacesOf(_)
PlacesOf(items) ==
  UNION {LET x == items[n] IN
         IF x.item = "place" THEN {x} ELSE IF x.item \in {"node", "many"} THEN PlacesOf(x.of) ELSE {} : n \in DOMAIN items}
PlacesIn(forms) == [f \in DOMAIN forms |-> PlacesOf(forms[f].items)]
Places == PlacesIn(Forms)

Sorts ==
  [expr |-> {"expr", "ident", "target"}, target |-> {"ident", "target"}, ident |-> {"ident"}, type |-> {"type"},
   stmt |-> {"stmt", "var", "block"}, block |-> {"block"}, body |-> {"block", "body"}, var |-> {"var"},
   decl |-> {"decl"}, pointers |-> {"type"}]
\* Types have no parentheses; this has members of its own, any.() a match of its own.
Fits(form, place, outer) ==
  /\ form.sort \in Sorts[place.sort]
  /\ place.sort = "type" => form.level >= place.level
  /\ place.sort = "pointers" => form.kind \in Pointers
  /\ form.kind = "this" => outer \notin {"member", "method", "checked"}
  /\ form.kind = "anytypeof" => outer # "match"

\* What stands in a place when nothing else does: different names in different places.
Alone(form) == [form |-> form, kids |-> <<>>]
Filler ==
  LET break == Alone("break")
      block == [form |-> "block", kids |-> <<break>>]
  IN [expr |-> <<Alone("a"), Alone("b"), Alone("f"), Alone("literal")>>, type |-> Alone("builtin"), stmt |-> break,
      block |-> block, decl |-> Alone("zonedecl"), var |-> [form |-> "let", kids |-> <<Alone("a")>>],
      pointers |-> [form |-> "pointer", kids |-> <<Alone("builtin")>>]]
Fill(place) ==
  IF place.sort \in {"expr", "target", "ident"} THEN Filler.expr[place.i]
  ELSE IF place.sort = "body" THEN Filler.block ELSE Filler[place.sort]
Filled(places) == [i \in {p.i : p \in places} |-> Fill(CHOOSE p \in places : p.i = i)]
Bare(form) == [form |-> form, kids |-> Filled(Places[form])]
RECURSIVE FormsOf(_)
FormsOf(t) == {t.form} \cup UNION {FormsOf(t.kids[i]) : i \in DOMAIN t.kids}
Wrapped(form, i, t) == [Bare(form) EXCEPT !.kids[i] = t]

Times(words, n, comma) ==
  FlattenSeq([i \in 1 .. n |-> IF comma /\ i > 1 THEN <<[text |-> ",", sign |-> FALSE, held |-> FALSE]>> \o words ELSE words])
RECURSIVE Spelt(_, _, _, _), Bracketed(_, _, _, _)
Spelt(items, kids, parts, held) ==
  LET Plain(t) == <<[text |-> t, sign |-> FALSE, held |-> held]>>
      One(x) ==
        CASE x.item \in {"text", "kept"} -> Plain(x.text)
          [] x.item = "mark" -> <<[text |-> x.text, sign |-> TRUE, held |-> held]>>
          [] x.item = "node" -> Spelt(x.of, kids, parts, held)
          [] x.item = "many" -> Times(Spelt(x.of, kids, parts, held), parts, x.comma)
          [] x.item = "place" -> Bracketed(Forms[kids[x.i].form], kids[x.i].kids, x, held)
  IN FlattenSeq([n \in DOMAIN items |-> One(items[n])])
Bracketed(form, kids, place, held) ==
  LET Plain(t) == <<[text |-> t, sign |-> FALSE, held |-> held]>>
      inner == Spelt(form.items, kids, 1, held \/ place.held)
  IN IF form.level < place.level THEN Plain("(") \o inner \o Plain(")") ELSE inner

RECURSIVE Meant(_, _, _), NodeMeant(_, _)
Meant(items, kids, parts) ==
  LET One(x) ==
        CASE x.item \in {"text", "mark"} -> <<>>
          [] x.item = "kept" -> <<LeafOf(x.text)>>
          [] x.item = "node" -> <<NodeOf(x.kind, Meant(x.of, kids, parts))>>
          [] x.item = "many" -> FlattenSeq([i \in 1 .. parts |-> Meant(x.of, kids, parts)])
          [] x.item = "place" -> <<NodeMeant(Forms[kids[x.i].form], kids[x.i].kids)>>
  IN FlattenSeq([n \in DOMAIN items |-> One(items[n])])
NodeMeant(form, kids) == NodeOf(form.kind, Meant(form.gives, kids, 1))

-----------------------------------------------------------------------------
(* Texts grow by one form around what there is, or are damaged by one edit.         *)

VARIABLES tree, words, wraps, parts, nest, edit
syVars == <<tree, words, wraps, parts, nest, edit>>
NoEdit == [place |-> 0, by |-> <<>>]
Blank == Alone("")
Whole == tree # Blank /\ nest = 0 /\ edit = NoEdit
\* How many parts a form may have; more than MaxParts means any number.
RECURSIVE Limits(_)
Limits(items) ==
  {MaxParts + 1} \cup
  UNION {LET x == items[n] IN
         IF x.item = "many" THEN {x.limit} ELSE IF x.item = "node" THEN Limits(x.of) ELSE {} : n \in DOMAIN items}

SyntaxInit ==
  /\ tree = Blank /\ words = <<>>
  /\ wraps = 0 /\ parts = 1 /\ nest = 0 /\ edit = NoEdit
Choose ==
  /\ tree = Blank
  /\ tree' \in {Bare(form) : form \in DOMAIN Forms}
  /\ words' = Spelt(Forms[tree'.form].items, tree'.kids, 1, FALSE)
  /\ UNCHANGED <<wraps, parts, nest, edit>>
\* The forms that one more form is put into.
Outer ==
  IF wraps < MaxForms - 1 THEN DOMAIN Forms
  ELSE IF wraps = MaxForms - 1 /\ FormsOf(tree) \subseteq Thrice THEN Thrice ELSE {}
Enclose ==
  /\ Whole /\ parts = 1
  /\ \E form \in Outer : \E place \in Places[form] :
       /\ Fits(Forms[tree.form], place, form)
       /\ tree' = Wrapped(form, place.i, tree)
       /\ words' = Spelt(Forms[form].items, tree'.kids, 1, FALSE)
  /\ wraps' = wraps + 1
  /\ UNCHANGED <<parts, nest, edit>>
Widen ==
  /\ Whole /\ wraps = 0 /\ parts <= MaxParts
  /\ parts' = parts + 1
  /\ words' = Spelt(Forms[tree.form].items, tree.kids, parts', FALSE)
  /\ UNCHANGED <<tree, wraps, nest, edit>>
Deepen ==
  /\ edit = NoEdit /\ wraps = 0 /\ parts = 1 /\ nest <= MaxNesting /\ tree.form \in {"a", "builtin", "block"}
  /\ nest' = nest + 1
  /\ UNCHANGED <<tree, words, wraps, parts, edit>>
\* What is typed instead of a token or after it.
Slips == {"a", "1", ";", ")", "}", ",", "@"}
Damage ==
  /\ Whole /\ wraps = 0 /\ parts = 1 /\ tree.form # "arrow"
  /\ \E i \in {n \in DOMAIN words : ~words[n].sign} :
       \E by \in {<<>>, <<words[i].text, words[i].text>>} \cup {<<t>> : t \in Slips}
                   \cup {<<words[i].text, t>> : t \in Slips} :
         edit' = [place |-> i, by |-> by]
  /\ UNCHANGED <<tree, words, wraps, parts, nest>>
SyntaxNext == Choose \/ Enclose \/ Widen \/ Deepen \/ Damage
Syntax == SyntaxInit /\ [][SyntaxNext]_syVars

-----------------------------------------------------------------------------
(* Texts that the parser is known to read otherwise; the README names each.         *)

\* The n-th word from place i on, marks apart.
RECURSIVE WordFrom(_, _)
WordFrom(i, n) ==
  IF i > Len(words) THEN Eof
  ELSE IF words[i].sign THEN WordFrom(i + 1, n)
  ELSE IF n = 1 THEN words[i].text ELSE WordFrom(i + 1, n - 1)
ReadOtherwise(i) ==
  LET mark == words[i].text
      next == WordFrom(i, 1)
  IN /\ words[i].sign
     /\ \/ mark = "?" /\ next \in TernaryStarts
        \/ mark = "t" /\ next \notin TernaryStarts
        \/ mark = ".." /\ next = ":"
        \/ mark \in {".", "(", "[", "fn", "va"} /\ next = mark
        \/ mark = "last" /\ next \in StatementWords
        \/ mark = "closure" /\ words[i].held
        \/ mark = "call" /\ ~words[i].held /\ next = "{"
        \/ /\ mark = ":" /\ words[i - 1].text \in Identifiers \cup {"this", "]"}
           /\ WordFrom(i, 2) \in Identifiers /\ WordFrom(i, 3) \in {"(", ":"}
        \/ /\ mark = "start"
           /\ next \in Storages \cup Builtins \/ (next \in Identifiers /\ WordFrom(i, 2) \in Identifiers \cup {"*"})

-----------------------------------------------------------------------------
\* The tokens the parser is given, and the function that is asked.
Nests(tokens) == FlattenSeq([i \in 1 .. nest |-> tokens])
Given ==
  LET written ==
        FlattenSeq([i \in DOMAIN words |->
          IF words[i].sign THEN <<>> ELSE IF i = edit.place THEN edit.by ELSE <<words[i].text>>])
      brackets == CASE tree.form = "builtin" -> <<<<"[", "]">>, <<>>>> [] tree.form = "block" -> <<<<"{">>, <<"}">>>>
                    [] OTHER -> <<<<"(">>, <<")">>>>
  IN Nests(brackets[1]) \o written \o Nests(brackets[2])
AskedRule ==
  [expr |-> "expr", ident |-> "expr", target |-> "expr", type |-> "type", stmt |-> "statement", block |-> "block",
   var |-> "var_decl", decl |-> "top_decl", module |-> "file"]
Reading == Parse(AskedRule[Forms[tree.form].sort], Given)

\* The tree the text was written from; what has more parts than an array is refused.
AsWritten(form, p) ==
  IF \E limit \in Limits(form.items) : parts > limit THEN ~Accepted(p)
  ELSE Accepted(p) /\ p.kids = <<NodeOf(form.kind, Meant(form.gives, tree.kids, parts))>>
\* What was written is read: for every form in every place of every other, the
\* parser's nodes are the tree the text was written from, whatever binds tighter and
\* whatever is tried and taken back on the way; what has more parts than the parser's
\* arrays is refused, not cut.
WrittenIsRead ==
  Whole /\ tree.form # "arrow" /\ ~(\E i \in DOMAIN words : ReadOtherwise(i)) => AsWritten(Forms[tree.form], Reading)

LeafTexts == {"a", "b", "f", "1", "'s'", "'t'"}
RECURSIVE Kept(_, _)
Kept(node, t) ==
  (IF node.text = t THEN 1 ELSE 0) + FoldLeft(LAMBDA n, kid : n + Kept(kid, t), 0, node.kids)
\* What is known to be dropped: the name of a payload, the fields of the branch that is
\* not chosen, and what stands before .( and .?( when it is not a name.
Dropped(node) == tree.form \in {"enum", "chosenfields"} \/ Kept(node, "?") > 0
Occurs(tokens, t) == Cardinality({i \in DOMAIN tokens : tokens[i] = t})

Complete(p) ==
  /\ p.stuck => tree.form = "chosenfields"
  /\ Accepted(p) /\ ~Dropped(p.kids[1]) => \A t \in LeafTexts : Kept(p.kids[1], t) = Occurs(Given, t)
ComesBack(p) ==
  /\ ~p.stuck
  /\ nest > MaxNesting => ~Accepted(p)
  /\ 4 * (nest + 1) <= MaxNesting => Accepted(p)
\* A text with a slip in it is read to its end, but for slips among compile-time
\* fields; and when no diagnostic is given, every name and number of it is in the
\* tree: nothing the programmer wrote is skipped over. However deep a text goes, the
\* parser comes back: past its limit with a diagnostic, well before it with the tree.
NothingLost == (edit # NoEdit => Complete(Reading)) /\ (nest > 0 => ComesBack(Reading))
================================================================================
