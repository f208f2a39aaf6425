---------------------------- MODULE ExpressionRules ----------------------------
(* src/parser/parse_expr.c as terms: primaries, what may follow them, and the       *)
(* levels of the operators.                                                         *)
EXTENDS Grammar

ArgList == If(Not(At({")"})), <<Commas(<<Expr>>)>>)
CallArgs(closure) ==
  Make("args", <<Eat("("), ArgList, Close>> \o (IF closure THEN <<Rule("closure")>> ELSE <<>>))
Dotted(kind, word, terms) == Make(kind, <<Eat(word), Open>> \o terms \o <<Close>>)
Two == <<Expr, Eat(","), Expr>>
Word(w) == Ahead(<<{w}, {"."}, {"("}>>)
NameNode == Make("name", <<Keep(Names)>>)
IdentKinds == {"name", "instance", "this"}
TargetKinds == IdentKinds \cup {"index", "unchecked", "member", "selfmember", "deref"}

FieldInit == Make("field", <<Eat("."), ConsumeName, Eat("="), Expr>>)
\* parse_compound_init(): a spread, a named field, an indexed element or a value.
CompoundInit ==
  Make("compound",
    <<Eat("{"),
      ListUntil("}",
        <<Cases(<<Case(At({".."}), <<Make("spread", <<Eat(".."), Expr>>)>>),
                  Case(At({"."}), <<FieldInit>>),
                  Case(At({"["}), <<Make("element", <<Eat("["), Expr, Eat("]"), Eat("="), Expr>>)>>)>>,
                <<Expr>>)>>),
      Eat("}")>>)
\* The fields after a type's name.
DesignatedFields ==
  <<Eat("{"), FieldInit, While(Ahead(<<{","}, {"."}>>), <<Eat(","), FieldInit>>), Match(","), Eat("}")>>
DesignatedAhead == Ahead(<<{"{"}, {"."}>>)

\* parse_comptime_fmt_at_string(), for a format without placeholders.
FormatString == Make("format", <<Optional({"heap"}), Eat("@"), Text>>)

\* parse_lambda_expr().
Statements(close) == While(Not(At({close, Eof})), <<Rule("statement")>>)
Lambda ==
  Make("lambda",
    <<Eat("lam"), Open,
      IfElse(Not(At({")", "void"})), <<Commas(<<Parameter(<<>>)>>)>>, <<Match("void")>>),
      Close, If(At({":"}), <<Eat(":"), Type>>), Eat("{"), CaptureList,
      Make("block", <<Statements("}")>>), Eat("}")>>)

-----------------------------------------------------------------------------
(* parse_primary(), branch by branch.                                               *)

NewExpr ==
  Make("new", <<Eat("new"), Open, Expr, Close, If(At({"in"}), <<Eat("in"), Rule("postfix")>>)>>)
ErrorExpr ==
  Make("error", <<Eat("error"), Open,
                  IfElse(At(Texts), <<Text, While(At({","}), <<Eat(","), Expr>>), Close>>, <<Err(FALSE)>>)>>)
ComptimeAssertExpr ==
  Dotted("comptimeassert", "comptime_assert", <<Expr, If(At({","}), <<Eat(","), Optional(Texts)>>)>>)
MovExpr ==
  Dotted("mov", "mov", Two \o <<If(At({","}), <<Eat(","), Expr, If(Not(Led(IdentKinds)), <<Err(FALSE)>>)>>)>>)
Dispatch(kind, word) == Make(kind, <<Eat(word), Open, ConsumeName, Close, CallArgs(FALSE)>>)
\* A name that is no operation gives a diagnostic, and the parse goes on.
StreamOp ==
  Make("futureop",
    <<Keep({"stream"}), Eat("."), If(Not(At({"final", "done", "drop", "cancel"})), <<Complain>>),
      Keep({"final"} \cup Identifiers), Open, Expr, Close>>)
\* A dot after get always begins a type argument.
FutureOp ==
  Make("futureop",
    <<Keep({"future"}), Eat("."), If(Not(At({"wait", "ready", "drop", "get"})), <<Complain>>),
      IfElse(Ahead(<<{"get"}, {"."}>>), <<Keep({"get"}), Open, Type, Close>>, <<Keep(Identifiers), Eat(".")>>),
      Eat("("), Expr, Close>>)
Await ==
  Make("await",
    <<Eat("await"), Eat("."),
      Cases(<<Case(Ahead(<<{"("}, Identifiers, {")"}, {"("}>>),
                   <<Make("asynccall", <<Eat("("), ConsumeName, Close, CallArgs(FALSE)>>)>>),
              Case(At({"("}), <<Eat("("), Expr, Close>>),
              Case(At({"next"}), <<Keep({"next"}), Open, Expr, Close>>),
              Case(At({"all", "any"}), <<Keep({"all", "any"}), Eat("."), CallArgs(FALSE)>>)>>,
            <<Err(FALSE)>>)>>)
VaOp ==
  LET Typed(operands) == <<Eat("["), Type, Eat("]"), Eat("(")>> \o operands \o <<Close>>
  IN Make("vaop",
       <<Eat("va"), Eat("."),
         Cases(<<Case(At({"start", "end"}), <<Keep({"start", "end"}), Open, Expr, Close>>),
                 Case(At({"next"}), <<Keep({"next"}), Eat(".")>> \o Typed(<<Expr>>)),
                 Case(At({"foreach"}),
                      <<Keep({"foreach"}), Eat("."),
                        IfElse(At({"["}), Typed(Two), <<Eat("("), Expr, Close>>), Rule("closure")>>),
                 Case(At({"read"}),
                      <<Keep({"read"}), Eat("."), Eat("["), If(Not(At({"]"})), <<Commas(<<Type>>)>>), Eat("]"),
                        Eat("("), Expr, Close>>),
                 Case(At(Identifiers), <<Keep(Identifiers), Complain>>)>>,
               <<Err(FALSE)>>)>>)
MakeExpr ==
  Make("make", <<Eat("make"), Open, Eat("["), Eat("]"), Type, Eat(","), Expr,
                 If(At({","}), <<Eat(","), Expr>>), Close>>)
MakeInit == Make("make", <<Eat("make"), Eat("."), CompoundInit>>)
SliceWord(word, terms) == Case(Word(word), <<Dotted(word, word, terms)>>)
NameOrDesignated ==
  IfElse(Ahead(<<Identifiers, {"{"}, {"."}>>), <<Make("desig", <<NameNode>> \o DesignatedFields)>>, <<NameNode>>)

\* Mutant: a name in parentheses is a type, whatever it is.
Parens_AnyType ==
  IfElse(Ahead(<<{"("}, Builtins \cup Identifiers, {")"}>>),
         <<Eat("("), Type, Around("cast", <<Close, Rule("unary")>>)>>, <<Eat("("), Expr, Close>>)
\* After `(`: a cast when a type and `)` follow, and the type is built in or a pointer.
Parens ==
  LET plain == <<Eat("("), Expr, Close>>
      Cast(kinds) == Attempt(<<Eat("("), Type>>, All(<<At({")"}), kinds>>), TRUE,
                             <<Around("cast", <<Close, Rule("unary")>>)>>, plain)
  IN Cases(<<Case(Ahead(<<{"("}, Builtins>>), <<Cast(All(<<>>))>>),
             Case(Ahead(<<{"("}, Identifiers>>), <<Cast(Made({"pointer"}))>>)>>, plain)

PrimaryExpr ==
  Cases(<<Case(At({"lam"}), <<Lambda>>),
          Case(Either(<<Ahead(<<{"heap"}, {"@"}, Texts>>), Ahead(<<{"@"}, Texts>>)>>), <<FormatString>>),
          Case(Ahead(<<{"."}, {"{"}>>), <<Eat("."), CompoundInit>>),
          Case(At({"."}), <<Eat("."), Err(FALSE), Put("?")>>),
          Case(At(Literals), <<Make("literal", <<Keep(Literals)>>)>>),
          Case(At({"new"}), <<NewExpr>>),
          Case(At({"zone"}), <<Err(FALSE), Skip, Put("?")>>),
          Case(At({"hash"}), <<Dotted("hash", "hash", <<Expr>>)>>),
          Case(At({"equ"}), <<Dotted("equ", "equ", Two)>>),
          Case(At({"sizeof"}), <<Dotted("sizeof", "sizeof", <<Type>>)>>),
          Case(At({"rem"}), <<Dotted("rem", "rem", <<Expr>>)>>),
          Case(At({"nil"}), <<Make("nil", <<Eat("nil")>>)>>),
          Case(At({"error"}), <<ErrorExpr>>),
          Case(At({"expect"}), <<Dotted("expect", "expect", <<Expr>>)>>),
          Case(At({"expect_eq"}), <<Dotted("expecteq", "expect_eq", Two)>>),
          Case(At({"expect_neq"}), <<Dotted("expectneq", "expect_neq", Two)>>),
          Case(At({"test_fail"}), <<Dotted("testfail", "test_fail", <<Expr>>)>>),
          Case(At({"comptime_assert"}), <<ComptimeAssertExpr>>),
          Case(At({"mov"}), <<MovExpr>>),
          Case(At({"thread"}), <<Dispatch("threadcall", "thread")>>),
          Case(At({"stream"}), <<StreamOp>>),
          Case(At({"future"}), <<FutureOp>>),
          Case(At({"async"}), <<Dispatch("asynccall", "async")>>),
          Case(At({"await"}), <<Await>>),
          Case(At({"va"}), <<VaOp>>),
          Case(At({"any"}), <<Dotted("anytypeof", "any", <<Expr>>)>>),
          Case(Word("make"), <<MakeExpr>>),
          Case(Ahead(<<{"make"}, {"."}, {"{"}>>), <<MakeInit>>),
          SliceWord("append", Two), SliceWord("copy", Two), SliceWord("len", <<Expr>>), SliceWord("cap", <<Expr>>),
          Case(At({"this"}), <<Make("this", <<Eat("this")>>)>>),
          Case(At(SoftNames), <<NameNode>>),
          Case(At(Identifiers \cup {Quoted}), <<NameOrDesignated>>),
          Case(At({"("}), <<Parens>>)>>,
        <<Err(TRUE), Skip, Put("?")>>)

-----------------------------------------------------------------------------
(* parse_trailing_closure(): `{` after a call, unless a body is expected there or    *)
(* a field initialiser begins. A last expression without `;` is what it returns.     *)

StatementWords ==
  {"ret", "if", "for", "foreach", "while", "do", "inf", "match", "switch", "defer", "break", "continue", "print",
   "{", "unsafe", "zone", "with", "watch", "send", "quit", "let"} \cup Storages \cup Qualifiers \cup Builtins
ClosureBody ==
  Make("block",
    <<While(Not(At({"}", Eof})),
        <<IfElse(At(StatementWords), <<Rule("statement")>>,
                 <<Expr, IfElse(At({"}"}), <<Around("ret", <<>>), Break>>, <<Eat(";"), Around("exprstmt", <<>>)>>)>>)>>)>>)
ClosureAhead == All(<<At({"{"}), Free, Either(<<Not(DesignatedAhead), Ahead(<<{"{"}, {"."}, {"|"}>>)>>)>>)
TrailingClosure ==
  If(ClosureAhead,
     <<Make("lambda",
        <<Eat("{"), CaptureList,
          If(At({"|"}), <<Eat("|"), If(Not(At({"|"})), <<Commas(<<Make("param", <<ConsumeName>>)>>)>>), Eat("|")>>),
          ClosureBody, Eat("}")>>)>>)

-----------------------------------------------------------------------------
(* parse_postfix_impl(), branch by branch.                                          *)

Indexed ==
  LET upper == <<Eat(":"), If(Not(At({"]"})), <<Expr>>), Eat("]")>>
  IN Cases(<<Case(Ahead(<<{"["}, {":"}>>), <<Around("sliceto", <<Eat("[")>> \o upper)>>),
             Case(Ahead(<<{"["}, {"unchecked"}>>),
                  <<Around("unchecked", <<Eat("["), Eat("unchecked"), Eat(":"), Expr, Eat("]")>>)>>)>>,
           <<Around("index", <<Eat("["), Expr, IfElse(At({":"}), upper \o <<Rename("slice")>>, <<Eat("]")>>)>>)>>)
Instance ==
  <<Around("instance", <<Eat("."), GenericUse>>), If(DesignatedAhead, <<Around("desig", DesignatedFields)>>)>>
MemberName(words) == IfElse(At(Names \cup words), <<Keep(Names \cup words)>>, <<Err(FALSE), Put("?")>>)
SelfMember ==
  Around("selfmember",
    <<Eat("."), MemberName({}), If(At({"("}), <<CallArgs(FALSE), Rename("selfcall")>>)>>)
Checked == <<If(Not(Made(IdentKinds)), <<Forget>>), Around("checkedcall", <<Eat("."), Eat("?"), CallArgs(FALSE)>>)>>
Constructor == <<If(Not(Made(IdentKinds)), <<Forget>>), Around("ctor", <<Eat("."), CallArgs(TRUE)>>)>>
Member ==
  Around("member", <<Eat("."), MemberName({"print"}), If(At({"("}), <<CallArgs(TRUE), Rename("method")>>)>>)
\* name:name( and name:name:name( outside an index.
Accessor ==
  Around("coloncall",
    <<Eat(":"), ConsumeName, If(At({":"}), <<Eat(":"), ConsumeName>>), CallArgs(TRUE)>>)
AccessorAhead == All(<<Made(IdentKinds), Ahead(<<{":"}, Identifiers, {"(", ":"}>>)>>)
\* What makes `?` a ternary's.
TernaryStarts ==
  Identifiers \cup Literals \cup {"(", "!", "-", "~", "&", "new", "sizeof", "nil", "mov", "this", "any", "[", "."}
Postfix ==
  Nested(<<Rule("primary"),
    Repeat(<<Case(All(<<At({"("}), Made(IdentKinds)>>), <<Around("call", <<CallArgs(TRUE)>>)>>),
             Case(At({"["}), <<Indexed>>),
             Case(All(<<Ahead(<<{"."}, {"["}>>), Made(IdentKinds)>>), Instance),
             Case(All(<<At({"."}), Made({"this"}), Not(Ahead(<<{"."}, {"("}>>))>>), <<SelfMember>>),
             Case(Ahead(<<{"."}, {"?"}>>), Checked),
             Case(Ahead(<<{"."}, {"("}>>), Constructor),
             Case(At({"."}), <<Member>>),
             Case(AccessorAhead, <<Accessor>>),
             Case(At({"++", "--"}), <<Around("postfix", <<Keep({"++", "--"})>>)>>),
             Case(All(<<At({"?"}), Not(Ahead(<<{"?"}, TernaryStarts>>))>>), <<Around("propagate", <<Eat("?")>>)>>)>>)>>)

\* parse_unary_impl().
Unary ==
  Nested(<<Cases(<<Case(At({"&"}), <<Make("addrof", <<Eat("&"), Rule("unary")>>)>>),
                   Case(Ahead(<<{"*"}, {"."}>>), <<Make("deref", <<Eat("*"), Open, Expr, Close>>)>>),
                   Case(At({"*"}), <<Make("deref", <<Eat("*"), Rule("unary")>>)>>),
                   Case(At({"++", "--", "!", "-", "~"}),
                        <<Make("prefix", <<Keep({"++", "--", "!", "-", "~"}), Rule("unary")>>)>>)>>,
                 <<Rule("postfix")>>)>>)

-----------------------------------------------------------------------------
(* The levels of the binary operators, tightest first.                              *)

CompareOps == {"<", ">", "<=", ">=", "==", "!="}
Then(left, terms) == Do((IF left.op = "do" THEN left.of ELSE <<left>>) \o terms)
Level(kind, ops, left, right) ==
  Then(left, <<While(At(ops), <<Around(kind, <<Keep(ops), Rule(right)>>)>>)>>)
Multiplication == Level("binary", {"*", "/", "%"}, Rule("unary"), "unary")
\* Mutant: what follows a sum's operator is a sum again.
Addition_RightFirst == Level("binary", {"+", "-"}, Multiplication, "addition")
Addition == Level("binary", {"+", "-"}, Multiplication, "multiplication")
Shift ==
  Then(Addition, <<
       If(At({"..", "..="}),
          <<Around("range", <<Keep({"..", "..="}), Rule("addition"), If(At({":"}), <<Eat(":"), Rule("addition")>>)>>)>>),
       While(At({"<<", ">>"}), <<Around("binary", <<Keep({"<<", ">>"}), Rule("addition")>>)>>)>>)
Relational == Level("compare", {"<", ">", "<=", ">="}, Shift, "shift")
Equality ==
  Then(Relational, <<
       Repeat(<<Case(At({".=="}), <<Around("equ", <<Eat(".=="), Rule("relational")>>)>>),
                Case(At({"==", "!="}), <<Around("compare", <<Keep({"==", "!="}), Rule("relational")>>)>>)>>)>>)
\* parse_cmp_chain(): tests of one base joined by `and` and `or`.
Chain ==
  Then(Equality, <<
       If(At({"and", "or"}),
          <<IfElse(Not(Made({"compare"})), <<Err(FALSE)>>,
              <<Around("chain",
                 <<Upto(MaxParts - 1, At({"and", "or"}),
                     <<Keep({"and", "or"}),
                       Cases(<<Case(At(CompareOps), <<Keep(CompareOps), Rule("shift")>>),
                               Case(At(Literals), <<Rule("primary")>>)>>,
                             <<Err(FALSE), Break>>)>>,
                     <<Err(FALSE)>>)>>)>>)>>)>>)
BitwiseAnd == Level("binary", {"&"}, Chain, "equality")
BitwiseXor == Level("binary", {"^"}, BitwiseAnd, "bitwise_and")
BitwiseOr == Level("binary", {"|"}, BitwiseXor, "bitwise_xor")
LogicalAnd == Level("binary", {"&&"}, BitwiseOr, "bitwise_or")
LogicalOr == Level("binary", {"||"}, LogicalAnd, "logical_and")
Ternary ==
  Nested(<<Then(LogicalOr, <<
           If(At({"?"}), <<Around("ternary", <<Eat("?"), Expr, Eat(":"), Rule("ternary")>>)>>)>>)>>)
Pipeline == Do(<<Rule("ternary"), While(At({"|>"}), <<Eat("|>"), Rule("ternary"), Feed>>)>>)
CompoundAssigns == {"+=", "-=", "*=", "/=", "%=", "&=", "|=", "^=", "<<=", ">>="}
Assignment ==
  Nested(<<Rule("pipeline"),
           If(Made(TargetKinds),
              <<Cases(<<Case(At({"="}), <<Around("assign", <<Eat("="), Rule("assignment")>>)>>),
                        Case(At(CompoundAssigns),
                             <<Around("compound_assign", <<Keep(CompoundAssigns), Rule("assignment")>>)>>)>>, <<>>)>>)>>)
================================================================================
