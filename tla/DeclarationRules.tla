--------------------------- MODULE DeclarationRules ----------------------------
(* src/parser/parse_decls.c as terms: file headers, types, functions, imports, the  *)
(* statements that live in that file, and the file itself.                          *)
EXTENDS StatementRules

-----------------------------------------------------------------------------
(* File headers, @[[key: value, ...]].                                              *)

HeaderKeys == Identifiers \cup (Names \ {Quoted}) \cup {"if", "default"}
Prose == While(Not(Either(<<At({"]", Eof}), Ahead(<<HeaderKeys, {":"}>>)>>)),
               <<IfElse(At({"("}), <<Rule("parenthesis")>>, <<Take>>)>>)
Parenthesis ==
  Do(<<Take, While(Not(At({")", Eof})), <<IfElse(At({"("}), <<Rule("parenthesis")>>, <<Take>>)>>),
       If(At({")"}), <<Take>>)>>)
HeaderValue ==
  LET compared(values) == <<IfElse(At(values), <<Keep(values)>>, <<Err(FALSE)>>)>>
  IN Cases(<<Case(At(Texts \cup Ints), <<Keep(Texts \cup Ints)>>),
             Case(Ahead(<<Names, {"("}>>), <<Keep(Names), Eat("("), Optional(Texts \cup Names), Close>>),
             Case(Ahead(<<Names, {"."}>>),
                  <<Keep(Names), Eat("."), Optional(Names), Keep({"==", "!="})>> \o compared(Texts)),
             Case(Ahead(<<Names, {"==", "!="}>>), <<Keep(Names), Keep({"==", "!="})>> \o compared(Texts \cup Ints)),
             Case(At(Names), <<Keep(Names)>>)>>,
           <<Err(FALSE), Skip>>)
\* Mutant: what is no entry is passed over in silence.
HeaderEntry_Passed ==
  IfElse(At(HeaderKeys),
    <<Make("entry",
        <<Keep(HeaderKeys),
          If(At({":"}), <<Eat(":"), IfElse(Holding({"doc"}), <<Prose>>, <<HeaderValue>>)>>)>>)>>, <<Skip>>)
HeaderEntry ==
  IfElse(At(HeaderKeys),
    <<Make("entry",
        <<Keep(HeaderKeys),
          If(At({":"}), <<Eat(":"), IfElse(Holding({"doc"}), <<Prose>>, <<HeaderValue>>)>>)>>)>>,
    <<Err(FALSE), Skip>>)
HeaderEntries ==
  While(Not(At({"]", Eof})),
        <<HeaderEntry, Cases(<<Case(At({","}), <<Eat(",")>>), Case(At({"]"}), <<Break>>),
                               Case(At(HeaderKeys), <<>>)>>, <<Break>>)>>)
HeaderGroup == Make("header", <<Eat("@"), Eat("["), Eat("["), HeaderEntries, Eat("]"), Eat("]")>>)
HeaderAhead == Ahead(<<{"@"}, {"["}, {"["}>>)
LifecycleBlock == Make("lifecycle", <<Optional(Texts), Rule("block")>>)

-----------------------------------------------------------------------------
(* Functions.                                                                       *)

TypeParameter ==
  Do(<<Keep(Identifiers), If(Ahead(<<{"."}, {"["}>>), <<Eat("."), Eat("["), ListUntil("]", <<Type>>), Eat("]")>>)>>)
TypeParameters ==
  Make("typeparams",
    <<Eat("["),
      If(Not(At({"]", Eof})),
         <<TypeParameter,
           Upto(MaxParts - 1, At({","}), <<Eat(","), If(Not(At({"]", Eof})), <<TypeParameter>>)>>,
                <<Eat(","), If(Not(At({"]", Eof})), <<Err(FALSE)>>)>>)>>),
      Eat("]")>>)
FnParameter ==
  Make("param",
    <<While(Ahead(<<{"@"}, Identifiers \cup {"restrict"}>>),
            <<Eat("@"), IfElse(At({"frees", "restrict"}), <<Keep({"frees", "restrict"})>>, <<Err(FALSE), Skip>>)>>),
      Optional(Storages), If(All(<<At({"restrict"}), Not(Holding({"restrict"}))>>), <<Keep({"restrict"})>>),
      If(CanStartParamType, <<Type>>), ConsumeName, Dimensions>>)
Variadic == Make("variadic", <<Eat("..."), Optional({"typed"})>>)
FnParameters ==
  Cases(<<Case(At({")"}), <<>>), Case(At({"void"}), <<Eat("void")>>), Case(At({"..."}), <<Variadic>>)>>,
        <<FnParameter,
          While(At({","}), <<Eat(","), IfElse(At({"..."}), <<Variadic, Break>>, <<FnParameter>>)>>)>>)
Returns == If(At({":"}), <<Eat(":"), IfElse(At({"["}), <<Eat("["), Commas(<<Type>>), Eat("]")>>, <<Type>>)>>)
FnBody(external) ==
  Cases(<<Case(At({"=>"}), <<Make("block", <<Eat("=>"), Make("ret", <<Expr, Eat(";")>>)>>)>>)>>
          \o (IF external THEN <<Case(At({";"}), <<Eat(";")>>)>> ELSE <<>>),
        <<Rule("block")>>)
MethodWords == Identifiers \cup {Quoted, "new", "rem", "print", "from", "hash", "equ", "send"}
FnDecl(external) ==
  Make("fn",
    <<Eat("fn"), If(Ahead(<<{"@"}, {"comptime"}, {"["}>>), <<Eat("@"), Eat("comptime"), TypeParameters>>),
      ConsumeName,
      If(At({"."}), <<Eat("."), IfElse(At(MethodWords), <<Keep(MethodWords)>>, <<Err(FALSE), Put("?")>>)>>),
      Eat("("), FnParameters, Close, Returns, FnBody(external)>>)

-----------------------------------------------------------------------------
(* parse_struct_body(): @comptime: opens the section of compile-time fields, which  *)
(* lasts to the end; in it @comptime if chooses fields.                             *)

MemberPrefix ==
  Cases(<<Case(At(Linkages), <<Keep(Linkages), Optional(Storages)>>),
          Case(At(Storages), <<Keep(Storages), Optional(Linkages)>>)>>, <<>>)
MethodName == Keep(Names \cup {"print", "send"})
Method ==
  Do(<<Eat("fn"), MethodName,
       If(At({"."}), <<Eat("."), MethodName, If(At({"."}), <<Eat("."), MethodName>>)>>), Eat("("),
       IfElse(Not(At({")", "void"})), <<Commas(<<Parameter(<<>>)>>)>>, <<Match("void")>>), Close, Returns,
       FnBody(FALSE)>>)
Field(section) ==
  <<Type,
    Commas(<<Make("field",
        IF section THEN <<ConsumeName, If(At({"="}), Initial)>>
        ELSE <<ConsumeName, Dimensions,
               If(At({":"}), <<Eat(":"), IfElse(At(Ints), <<Keep(Ints)>>, <<Err(FALSE)>>)>>)>>)>>), Eat(";")>>
\* eval_comptime_condition(): the host's name is 's'.
HostIs == All(<<Holding({"os"}), Holding({"'s'"})>>)
ComptimeFields ==
  LET taken == While(Not(At({"}", Eof})),
                     <<Make("member", <<MemberPrefix, Type, ConsumeName, If(At({"="}), Initial), Eat(";")>>)>>)
      passed == While(Not(At({"}", Eof})), <<While(Not(At({";", "}", Eof})), <<Skip>>), Match(";")>>)
  IN Make("comptimefields",
       <<Eat("@"), Eat("comptime"), Eat("if"), Keep(Identifiers), Eat("=="),
         IfElse(At(Texts), <<Text>>, <<Err(FALSE)>>),
         Eat("{"), IfElse(HostIs, <<taken>>, <<passed>>), Eat("}"),
         If(At({"else"}), <<Eat("else"), Eat("{"), IfElse(HostIs, <<passed>>, <<taken>>), Eat("}")>>)>>)
StructMember(section) ==
  Make("member",
    <<MemberPrefix, Optional({"async"}),
      Cases(<<Case(At({"fn"}), <<Method>>), Case(Not(CanStartType), <<Err(TRUE), Recover>>)>>, Field(section))>>)
SectionAhead == Ahead(<<{"@"}, {"comptime"}, {":"}>>)
SectionMark == <<Eat("@"), Eat("comptime"), Eat(":")>>
ComptimeSection ==
  Make("section",
    SectionMark \o
    <<Repeat(<<Case(SectionAhead, SectionMark),
               Case(Ahead(<<{"@"}, {"comptime"}, {"if"}>>), <<ComptimeFields>>),
               Case(Not(At({"}", Eof})), <<StructMember(TRUE)>>)>>)>>)
StructBody ==
  Make("members",
    <<Eat("{"), Repeat(<<Case(SectionAhead, <<ComptimeSection>>), Case(Not(At({"}", Eof})), <<StructMember(FALSE)>>)>>),
      Eat("}")>>)

\* parse_enum_body(): a payload's name is not kept.
EnumBody ==
  Make("variants",
    <<Eat("{"),
      ListUntil("}", <<Make("variant",
        <<Keep(Identifiers),
          If(At({"("}), <<Eat("("), Optional(Storages), Type, If(At(Identifiers), <<Skip>>), Close>>)>>)>>),
      Eat("}")>>)
\* parse_interface_body(): parameters may have no name, and grouped ones share a type.
InterfaceParameter ==
  Make("param",
    <<Optional(Storages), If(CanStartParamType, <<Type>>),
      IfElse(At(Identifiers),
        <<Keep(Identifiers),
          While(At({","}), <<Attempt(<<Eat(",")>>, All(<<At(Names), Not(CanStartParamType)>>), FALSE,
                                     <<ConsumeName>>, <<Break>>)>>)>>,
        <<Put("_")>>)>>)
InterfaceBody ==
  Make("signatures",
    <<Eat("{"),
      While(Not(At({"}", Eof})),
        <<Make("signature",
            <<ConsumeName, Eat("("),
              IfElse(Not(At({")", "void"})), <<Commas(<<InterfaceParameter>>)>>, <<Match("void")>>), Close,
              IfElse(Panicking, <<Recover>>, <<If(At({":"}), <<Eat(":"), Type>>), Eat(";")>>)>>)>>),
      Eat("}")>>)

\* parse_type_decl().
TypeAttributes ==
  While(At({"@"}),
    <<Eat("@"),
      Cases(<<Case(At({"packed", "c_layout"}), <<Keep({"packed", "c_layout"})>>),
              Case(At({"align"}), <<Keep({"align"}), Eat("("), Keep(Ints), Close>>),
              Case(At({"comptime"}), <<Eat("comptime"), If(At({"["}), <<TypeParameters>>)>>),
              Case(At(Identifiers), <<Err(FALSE), Skip>>)>>, <<>>)>>)
Interfaces ==
  If(Ahead(<<{"."}, {"["}>>),
     <<Make("interfaces",
         <<Eat("."), Eat("["),
           If(Not(At({"]", Eof})),
              <<Keep(Identifiers),
                Upto(MaxParts - 1, At({","}), <<Eat(","), If(Not(At({"]", Eof})), <<Keep(Identifiers)>>)>>,
                     <<While(At({","}), <<Eat(","), If(Not(At({"]", Eof})), <<Keep(Identifiers), Err(FALSE)>>)>>)>>)>>),
           Eat("]")>>)>>)
TypeDecl ==
  Make("type",
    <<Eat("type"), Keep(Identifiers), Eat(":"), TypeAttributes,
      Cases(<<Case(At({"interface"}), <<Keep({"interface"}), Interfaces, InterfaceBody, Match(";")>>),
              Case(At({"struct"}), <<Keep({"struct"}), Interfaces, StructBody, Match(";")>>),
              Case(At({"union"}), <<Keep({"union"}), StructBody, Match(";")>>),
              Case(At({"enum"}), <<Keep({"enum"}), EnumBody, Match(";")>>)>>,
            <<Type, Eat(";")>>)>>)

-----------------------------------------------------------------------------
(* Imports. A form that breaks off early consumes no more.                          *)

Lib ==
  Make("lib",
    <<Eat("lib"),
      Cases(<<Case(Not(At(Texts)), <<Err(FALSE)>>),
              Case(All(<<Ahead(<<Texts, {"from"}>>), Not(Ahead(<<Texts, {"from"}, Texts>>))>>),
                   <<Text, Eat("from"), Err(FALSE)>>)>>,
            <<Text, If(At({"from"}), <<Eat("from"), Text>>), If(At({"="}), <<Eat("="), Keep(Identifiers)>>),
              Eat(";")>>)>>)
LibImp ==
  Make("libimp",
    <<Eat("libimp"),
      Cases(<<Case(Not(At(Texts)), <<Err(FALSE)>>),
              Case(Not(Ahead(<<Texts, {"from"}>>)), <<Text, Err(FALSE)>>),
              Case(Not(Ahead(<<Texts, {"from"}, Texts \cup {"std"}>>)), <<Text, Eat("from"), Err(FALSE)>>)>>,
            <<Text, Eat("from"), Keep(Texts \cup {"std"}), Eat(";")>>)>>)
CHeader ==
  Make("cheader",
    <<Eat("cheader"),
      Cases(<<Case(Not(At(Texts)), <<Err(FALSE)>>),
              Case(All(<<Ahead(<<Texts, {"search"}>>), Not(Ahead(<<Texts, {"search"}, Texts>>))>>),
                   <<Text, Eat("search"), Err(FALSE)>>)>>,
            <<Text, If(At({"search"}), <<Eat("search"), Text>>), Eat(";")>>)>>)
\* The alias, whatever it is, is not kept.
Imp == Make("imp", <<Eat("imp"), DottedName, If(At({"="}), <<Eat("="), Skip>>), Eat(";")>>)

-----------------------------------------------------------------------------
(* Statements that parse_decls.c holds.                                             *)

MatchArm(any) ==
  LET pattern ==
        IF any
        THEN <<Case(At(Builtins \cup Identifiers),
                    <<Keep(Builtins \cup Identifiers),
                      If(At({"("}), <<Eat("("), Optional(Storages), Type, ConsumeName, Close>>)>>)>>
        ELSE <<Case(At(Builtins), <<Attempt(<<Type>>, At(Names), FALSE, <<ConsumeName>>, <<Err(TRUE), Recover>>)>>)>>
  IN Make("arm",
       <<Cases(<<Case(At({"_"}), <<Keep({"_"})>>),
                 Case(Either(<<At(Ints), Ahead(<<{"-"}, Ints>>)>>), <<Rule("unary")>>)>> \o pattern \o
               <<Case(At(Identifiers \cup {Quoted}),
                      <<Keep(Identifiers \cup {Quoted}),
                        If(At({"."}), <<Eat("."), Keep(Identifiers), If(At({"("}), <<Eat("("), ConsumeName, Close>>)>>)>>)>>,
               <<Err(TRUE), Recover>>),
         If(At({"if"}), <<Eat("if"), Expr>>), Eat("=>"), Rule("block"), Match(",")>>)
MatchStatement ==
  LET Arms(any) == While(Not(At({"}", Eof})), <<MatchArm(any)>>)
  IN Make("match", <<Eat("match"), HeldCondition,
                     IfElse(Made({"anytypeof"}), <<Eat("{"), Arms(TRUE)>>, <<Eat("{"), Arms(FALSE)>>), Eat("}")>>)
SwitchStatement ==
  Make("switch",
    <<Eat("switch"), HeldCondition, Eat("{"),
      While(Not(At({"}", Eof})),
        <<Make("case",
            <<Cases(<<Case(At({"case"}), <<Eat("case"), Commas(<<Expr>>), Eat(":"), Rule("block")>>),
                      Case(At({"default"}), <<Keep({"default"}), Eat(":"), Rule("block")>>)>>,
                    <<Err(TRUE), Recover>>)>>)>>),
      Eat("}")>>)
AsmStatement ==
  Make("asm",
    <<Eat("asm"),
      IfElse(At({"{"}), <<Eat("{"), IfElse(At(Texts), <<Text>>, <<Err(FALSE)>>), Eat("}")>>,
        <<Eat("("), Optional(Texts),
          If(At({","}), <<Eat(","), Optional(Texts), While(At({","}), <<Eat(","), Expr>>)>>), Close, Eat(";")>>)>>)
ComptimeIf ==
  Nested(<<Make("comptimeif",
    <<Keep(Identifiers), Eat("=="), IfElse(At(Texts), <<Text>>, <<Err(FALSE)>>), Rule("block"),
      If(At({"else"}),
         <<Eat("else"),
           Cases(<<Case(Ahead(<<{"@"}, {"comptime"}, {"if"}>>),
                        <<Eat("@"), Eat("comptime"), Eat("if"), Rule("comptime_if")>>),
                   Case(At({"comptime_if"}), <<Eat("comptime_if"), Rule("comptime_if")>>)>>,
                 <<Rule("block")>>)>>)>>)>>)
ComptimeAssert ==
  IfElse(At({"assert"}),
    <<Dotted("comptimeassert", "assert", <<Expr, If(At({","}), <<Eat(","), Optional(Texts)>>)>>)>>,
    <<Err(FALSE), Put("?")>>)

-----------------------------------------------------------------------------
(* parse_top_decl_impl() and run_parse().                                           *)

TestBlock == Make("test", <<Eat("test"), IfElse(At(Texts), <<Text, Rule("block")>>, <<Err(FALSE)>>)>>)
SubModule ==
  Make("submod", <<Eat("mod"), Keep(Identifiers), Eat("{"), While(Not(At({"}", Eof})), <<Rule("top_decl")>>), Eat("}")>>)
\* Mutant: an attribute that is not known is passed over in silence.
DeclAttributes_Passed ==
  While(At({"@"}),
    <<Eat("@"), Cases(<<Case(At({"weak", "hidden"}), <<Keep({"weak", "hidden"})>>),
                        Case(At(Identifiers), <<Skip>>)>>, <<>>)>>)
DeclAttributes ==
  While(At({"@"}),
    <<Eat("@"), Cases(<<Case(At({"weak", "hidden"}), <<Keep({"weak", "hidden"})>>),
                        Case(At(Identifiers), <<Err(FALSE), Skip>>)>>, <<>>)>>)
LinkedDecl ==
  <<DeclAttributes, Optional(Linkages),
    IfElse(At({"mod"}), <<SubModule>>,
      <<If(At({"async"}), <<Keep({"async"}), If(Not(At({"fn"})), <<Err(FALSE)>>)>>),
        Cases(<<Case(At({"type"}), <<TypeDecl>>),
                Case(All(<<At({"fn"}), Holding({"ext"})>>), <<FnDecl(TRUE)>>),
                Case(At({"fn"}), <<FnDecl(FALSE)>>)>>,
              <<Rule("var_decl")>>)>>)>>
DeclForm ==
  Cases(<<Case(At({"lib"}), <<Lib>>), Case(At({"cheader"}), <<CHeader>>), Case(At({"imp"}), <<Imp>>),
          Case(At({"libimp"}), <<LibImp>>), Case(At({"test"}), <<TestBlock>>),
          Case(At({"comptime_if"}), <<Eat("comptime_if"), Rule("comptime_if")>>),
          Case(At({"comptime_assert"}), <<ComptimeAssertExpr, Eat(";")>>),
          Case(At({"zone"}), <<Make("zone", <<Eat("zone"), ConsumeName, Eat(";")>>)>>),
          Case(Ahead(<<{"@"}, {"comptime"}, {"if"}>>), <<Eat("@"), Eat("comptime"), Eat("if"), Rule("comptime_if")>>),
          Case(Ahead(<<{"@"}, {"comptime"}, {"assert"}>>),
               <<Eat("@"), Eat("comptime"), Rule("comptime_assert"), Eat(";")>>)>>,
        LinkedDecl)
\* Groups before a declaration are its own, a group with `;` the file's; a group
\* that says init, exit or crash may have its block.
TopDecl ==
  Nested(<<Progress(<<Make("decl",
    <<While(HeaderAhead,
        <<HeaderGroup,
          Cases(<<Case(At({";"}), <<Eat(";")>>),
                  Case(All(<<Keyed({"init", "exit", "crash"}), At({"{"} \cup Texts)>>), <<LifecycleBlock, Break>>)>>,
                <<>>)>>),
      If(Not(Made({"lifecycle"})), <<DeclForm>>)>>)>>)>>)
File ==
  Make("module",
    <<While(HeaderAhead,
        <<Attempt(<<HeaderGroup>>, At({";"}), FALSE,
                  <<Eat(";"), If(Keyed({"freestanding"}), <<Put("freestanding")>>)>>, <<Break>>)>>),
      Cases(<<Case(At({"mod"}), <<Eat("mod"), DottedName, Eat(";")>>), Case(Holding({"freestanding"}), <<>>)>>,
            <<Eat("mod")>>),
      While(Not(At({Eof})), <<Rule("top_decl")>>)>>)
================================================================================
