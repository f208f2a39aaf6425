---------------------------- MODULE StatementRules -----------------------------
(* src/parser/parse_stmt.c as terms. Conditions of loops and branches are parsed    *)
(* with trailing closures held back: the `{` after them begins a body.              *)
EXTENDS ExpressionRules

\* parse_block() and parse_body().
Block == Make("block", <<Eat("{"), Statements("}"), Eat("}")>>)
Body == IfElse(At({"=>"}), <<Make("block", <<Eat("=>"), Rule("statement")>>)>>, <<Rule("block")>>)
\* Mutant: closures are not held back.
HeldCondition_Not == Expr
HeldCondition == Held(<<Expr>>)

ForStatement ==
  LET head == <<Cases(<<Case(At({";"}), <<Eat(";")>>), Case(CanStartVarDecl, <<Rule("var_decl")>>)>>,
                      <<Expr, Eat(";")>>),
                Held(<<Expr, Eat(";"), Expr>>)>>
  IN Make("for", <<Eat("for"), IfElse(At({"("}), <<Eat("(")>> \o head \o <<Close>>, head), Body>>)
WhileStatement == Make("while", <<Eat("while"), HeldCondition, Body>>)
ForeachStatement == Make("foreach", <<Eat("foreach"), ConsumeName, Eat("in"), HeldCondition, Body>>)
DoWhileStatement ==
  Make("dowhile", <<Eat("do"), Body, Eat("while"),
                    IfElse(At({"("}), <<Eat("("), HeldCondition, Close>>, <<HeldCondition>>), Eat(";")>>)
InfLoop == Make("inf", <<Eat("inf"), Body>>)
IfStatement ==
  Make("if", <<Eat("if"), HeldCondition, Body,
               If(At({"else"}), <<Eat("else"), IfElse(At({"if"}), <<Rule("statement")>>, <<Body>>)>>)>>)
RetStatement == Make("ret", <<Eat("ret"), If(Not(At({";"})), <<Commas(<<Expr>>)>>), Eat(";")>>)
\* An inline format takes no arguments; without a format nothing more is consumed.
PrintStatement ==
  LET Rest(terms) == <<Text, While(At({","}), <<Eat(","), Expr>> \o terms), Close, Eat(";")>>
  IN Make("print",
       <<Eat("print"), Eat("."), If(At({"error"}), <<Keep({"error"}), Eat(".")>>), Eat("("),
         Cases(<<Case(Ahead(<<{"@"}, Texts>>), <<Keep({"@"})>> \o Rest(<<Err(FALSE)>>)),
                 Case(At(Texts), Rest(<<>>))>>,
               <<Match("@"), Err(FALSE)>>)>>)
ExprStatement == Make("exprstmt", <<Expr, Eat(";")>>)
CapturedBlock == <<Eat("{"), CaptureList, Make("block", <<Statements("}")>>), Eat("}")>>
WatchStatement ==
  Make("watch", <<Eat("watch"), Open, Type, ConsumeName, Close, IfElse(At({"{"}), CapturedBlock, <<Rule("block")>>)>>)
SendStatement == Make("send", <<Eat("send"), Open, Expr, Close, Eat(";")>>)
QuitStatement == Make("quit", <<Eat("quit"), Open, Expr, Close, Eat(";")>>)

-----------------------------------------------------------------------------
\* parse_var_decl().
Targets == Make("targets", <<Eat("["), Commas(<<ConsumeName>>), Eat("]")>>)
Initial == <<Eat("="), Expr>>
VarDecl ==
  Make("var",
    <<Optional(Storages), Optional({"atomic"}), Optional({"const"}), Optional({"final"}), Optional({"volatile"}),
      Optional({"tls"}),
      Cases(<<Case(Ahead(<<{"let"}, Names>>), <<Keep({"let"}), ConsumeName>> \o Initial \o <<Eat(";")>>),
              Case(At({"let"}), <<Keep({"let"}), Targets>> \o Initial \o <<Eat(";")>>),
              Case(Not(CanStartType), <<Err(TRUE), Recover>>)>>,
            <<Type,
              IfElse(At({"["}), <<Targets, Eat("="), Commas(<<Expr>>)>>,
                     <<ConsumeName, Dimensions, If(At({"="}), Initial)>>), Eat(";")>>)>>)

\* parse_with_stmt(): the binding's type and storage are optional, and so is the condition.
WithBinding ==
  LET NameAhead == Ahead(<<Names, {"="}>>)
      Untyped == <<Case(At({"["}), <<Targets>> \o Initial), Case(NameAhead, <<ConsumeName>> \o Initial)>>
      stored == <<Optional(Storages),
                  Cases(<<Case(Ahead(<<{"let"}, {"["}>>), <<Keep({"let"}), Targets>> \o Initial),
                          Case(At({"let"}), <<Keep({"let"}), ConsumeName>> \o Initial)>> \o Untyped,
                        <<Type, IfElse(At({"["}), <<Targets>> \o Initial, <<ConsumeName>> \o Initial)>>)>>
  IN Make("var", <<Cases(Untyped \o <<Case(CanStartVarDecl, stored)>>, <<Err(FALSE)>>)>>)
WithStatement ==
  Make("with", <<Eat("with"), WithBinding, Eat(";"), If(Not(At({"{"})), <<Expr>>), Rule("block"),
                 If(At({"else"}), <<Eat("else"), Rule("block")>>)>>)
DeferStatement == Make("defer", <<Eat("defer"), IfElse(At({"{"}), <<Rule("block")>>, <<Rule("statement")>>)>>)

-----------------------------------------------------------------------------
(* parse_statement_impl(): the forms in the order they are tried.                   *)

ZoneStatement ==
  IfElse(Ahead(<<{"zone"}, {"."}>>), <<Eat("zone"), Err(FALSE), Recover, Put("?")>>,
         <<Make("zone", <<Eat("zone"), ConsumeName, IfElse(At({"{"}), <<Rule("block")>>, <<Eat(";")>>)>>)>>)
YieldStatement == Make("yield", <<Eat("yield"), If(Not(At({";"})), <<Expr>>), Eat(";")>>)
HandleOperation ==
  All(<<Ahead(<<{"future", "stream"}, {"."}>>), Not(Ahead(<<{"future", "stream"}, {"."}, {"["}>>))>>)
StatementForm ==
  Cases(<<Case(At({"{"}), <<Rule("block")>>),
          Case(At({"for"}), <<ForStatement>>),
          Case(At({"foreach"}), <<ForeachStatement>>),
          Case(At({"while"}), <<WhileStatement>>),
          Case(At({"do"}), <<DoWhileStatement>>),
          Case(At({"inf"}), <<InfLoop>>),
          Case(At({"if"}), <<IfStatement>>),
          Case(At({"ret"}), <<RetStatement>>),
          Case(At({"print"}), <<PrintStatement>>),
          Case(At({"match"}), <<Rule("match")>>),
          Case(At({"defer"}), <<DeferStatement>>),
          Case(At({"switch"}), <<Rule("switch")>>),
          Case(At({"asm"}), <<Rule("asm")>>),
          Case(At({"comptime_if"}), <<Eat("comptime_if"), Rule("comptime_if")>>),
          Case(At({"watch"}), <<WatchStatement>>),
          Case(At({"send"}), <<SendStatement>>),
          Case(At({"quit"}), <<QuitStatement>>),
          Case(At({"unsafe"}), <<Make("unsafe", <<Eat("unsafe"), Rule("block")>>)>>),
          Case(At({"zone"}), <<ZoneStatement>>),
          Case(Ahead(<<{"@"}, {"comptime"}, {"if"}>>), <<Eat("@"), Eat("comptime"), Eat("if"), Rule("comptime_if")>>),
          Case(Ahead(<<{"@"}, {"comptime"}, {"assert"}>>),
               <<Eat("@"), Eat("comptime"), Rule("comptime_assert"), Eat(";")>>),
          Case(At({"with"}), <<WithStatement>>),
          Case(At({"break"}), <<Make("break", <<Eat("break"), Eat(";")>>)>>),
          Case(At({"continue"}), <<Make("continue", <<Eat("continue"), Eat(";")>>)>>),
          Case(At({"yield"}), <<YieldStatement>>),
          Case(Either(<<HandleOperation, At({"await"}), Ahead(<<{"async"}, {"."}>>)>>), <<ExprStatement>>),
          Case(CanStartVarDecl, <<Rule("var_decl")>>)>>,
        <<ExprStatement>>)
Statement == Nested(<<Progress(<<StatementForm>>)>>)
================================================================================
