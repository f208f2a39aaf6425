--------------------------------- MODULE Parser --------------------------------
(* What running a term of the grammar does: the parser's tokens, its modes and the   *)
(* nodes it has made. One operator per primitive of src/parser/parser.c.             *)
EXTENDS DeclarationRules
LOCAL INSTANCE TLC

CONSTANT MaxNesting  \* ParserMaxNesting

Rules ==
  [expr |-> Assignment, assignment |-> Assignment, pipeline |-> Pipeline, ternary |-> Ternary,
   logical_or |-> LogicalOr, logical_and |-> LogicalAnd, bitwise_or |-> BitwiseOr, bitwise_xor |-> BitwiseXor,
   bitwise_and |-> BitwiseAnd, chain |-> Chain, equality |-> Equality, relational |-> Relational, shift |-> Shift,
   addition |-> Addition, multiplication |-> Multiplication, unary |-> Unary, postfix |-> Postfix,
   primary |-> PrimaryExpr, closure |-> TrailingClosure, type |-> ParseType, block |-> Block,
   statement |-> Statement, var_decl |-> VarDecl, match |-> MatchStatement, switch |-> SwitchStatement,
   asm |-> AsmStatement, comptime_if |-> ComptimeIf, comptime_assert |-> ComptimeAssert,
   parenthesis |-> Parenthesis, top_decl |-> TopDecl, file |-> File]

\* err: had_error; said: a diagnostic was given; held: no_trailing_closure; hit: the
\* nesting limit was met; broke: a loop is being left; stuck: a loop consumes nothing.
Fresh(tokens) ==
  [toks |-> tokens, at |-> 1, kids |-> <<>>, kind |-> "", err |-> FALSE, said |-> FALSE, panic |-> FALSE,
   held |-> 0, depth |-> 0, hit |-> FALSE, broke |-> FALSE, stuck |-> FALSE]

\* The token i places on; past a nesting limit there is only the end.
Token(p, i) == IF p.hit \/ p.at + i > Len(p.toks) THEN Eof ELSE p.toks[p.at + i]
Advanced(p) == IF Token(p, 0) = Eof THEN p ELSE [p EXCEPT !.at = @ + 1]
LeafOf(text) == [kind |-> "leaf", text |-> text, kids |-> <<>>]
NodeOf(kind, kids) == [kind |-> kind, text |-> "", kids |-> kids]
Leafed(p, text) == [p EXCEPT !.kids = Append(@, LeafOf(text))]
Failed(p, panic) == [p EXCEPT !.err = TRUE, !.said = TRUE, !.panic = @ \/ panic]
LastKid(p) == p.kids[Len(p.kids)]
OtherKids(p) == SubSeq(p.kids, 1, Len(p.kids) - 1)

\* skip_to_recovery_point(): past the next `;`, or to the `}` the caller owns.
RECURSIVE Recovered(_, _)
Recovered(p, deep) ==
  LET t == Token(p, 0) IN
  IF t = Eof \/ (t = "}" /\ deep = 0) THEN [p EXCEPT !.panic = FALSE]
  ELSE IF t = ";" /\ deep = 0 THEN [Advanced(p) EXCEPT !.panic = FALSE]
  ELSE Recovered(Advanced(p), deep + (IF t = "{" THEN 1 ELSE IF t = "}" THEN -1 ELSE 0))

\* The place after the bracket that closes `deep` open ones.
RECURSIVE AfterBracket(_, _, _)
AfterBracket(p, i, deep) ==
  LET t == Token(p, i) IN
  IF t = Eof THEN i
  ELSE IF t = "]" /\ deep = 1 THEN i + 1
  ELSE AfterBracket(p, i + 1, deep + (IF t = "[" THEN 1 ELSE IF t = "]" THEN -1 ELSE 0))
\* can_start_var_decl() at Type.[...]: a name follows the arguments, and for a
\* closure's type what it returns.
VariableAfterArguments(p) ==
  /\ Token(p, 0) \in Identifiers /\ Token(p, 1) = "." /\ Token(p, 2) = "["
  /\ LET i == AfterBracket(p, 3, 1)
         j == IF Token(p, 0) # "closure" \/ Token(p, i) # ":" THEN i
              ELSE IF Token(p, i + 2) = "." /\ Token(p, i + 3) = "[" THEN AfterBracket(p, i + 4, 1)
              ELSE IF Token(p, i + 2) = "." THEN i + 3 ELSE i + 2
     IN Token(p, j) \in Identifiers

RECURSIVE Met(_, _)
Met(c, p) ==
  CASE c.is = "at" -> Token(p, 0) \in c.tokens
    [] c.is = "ahead" -> \A i \in 1 .. Len(c.window) : Token(p, i - 1) \in c.window[i]
    [] c.is = "all" -> \A i \in 1 .. Len(c.of) : Met(c.of[i], p)
    [] c.is = "either" -> \E i \in 1 .. Len(c.of) : Met(c.of[i], p)
    [] c.is = "not" -> ~Met(c.of, p)
    [] c.is = "made" -> p.kids # <<>> /\ LastKid(p).kind \in c.kinds
    [] c.is = "led" -> p.kids # <<>> /\ p.kids[1].kind \in c.kinds
    [] c.is = "holding" -> \E i \in 1 .. Len(p.kids) : p.kids[i].text \in c.texts
    [] c.is = "keyed" ->
         \E i \in 1 .. Len(LastKid(p).kids) : LET e == LastKid(p).kids[i] IN e.kids # <<>> /\ e.kids[1].text \in c.keys
    [] c.is = "free" -> p.held = 0
    [] c.is = "panicking" -> p.panic
    [] c.is = "variable" -> VariableAfterArguments(p)
FirstCase(cases, p) ==
  CHOOSE i \in 1 .. Len(cases) + 1 :
    /\ i > Len(cases) \/ Met(cases[i].when, p)
    /\ \A j \in 1 .. i - 1 : ~Met(cases[j].when, p)

\* parse_pipeline(): the value becomes the first argument of what follows.
Fed(p) ==
  LET r == LastKid(p)
      l == p.kids[Len(p.kids) - 1]
      n == Len(r.kids)
      Result(node) == [p EXCEPT !.kids = Append(SubSeq(@, 1, Len(@) - 2), node)]
      alone == NodeOf("args", <<l>>)
  IN CASE r.kind \in {"call", "method", "coloncall", "ctor", "selfcall"} ->
            Result([r EXCEPT !.kids[n].kids = <<l>> \o @])
       [] r.kind \in IdentKinds -> Result(NodeOf("call", <<r, alone>>))
       [] r.kind = "member" -> Result(NodeOf("method", Append(r.kids, alone)))
       [] r.kind = "lambda" -> Result(NodeOf("lambdacall", <<r, alone>>))
       [] OTHER -> Failed(Result(r), FALSE)


-----------------------------------------------------------------------------
(* The helpers take the meaning of terms, Run, as a parameter.                      *)

RECURSIVE RunAll(_, _, _, _)
RunAll(run, terms, i, p) ==
  IF i > Len(terms) \/ p.stuck THEN p ELSE RunAll(run, terms, i + 1, run[<<terms[i], p>>])
\* A loop that comes round as it was never ends.
RECURSIVE Repeated(_, _, _)
Repeated(run, cases, p) ==
  LET i == FirstCase(cases, p) IN
  IF i > Len(cases) \/ p.stuck THEN p
  ELSE LET q == run[<<cases[i].run, p>>] IN
       IF q.broke THEN [q EXCEPT !.broke = FALSE]
       ELSE IF <<q.at, q.err, q.panic, q.hit>> = <<p.at, p.err, p.panic, p.hit>> THEN [q EXCEPT !.stuck = TRUE]
       ELSE Repeated(run, cases, q)
RECURSIVE Counted(_, _, _, _)
Counted(run, g, n, p) ==
  IF ~Met(g.when, p) \/ p.stuck THEN p
  ELSE IF n = 0 THEN run[<<g.beyond, p>>]
  ELSE LET q == run[<<g.run, p>>] IN IF q.broke THEN [q EXCEPT !.broke = FALSE] ELSE Counted(run, g, n - 1, q)
\* The node of the terms' kids, after `outer`, the last of which it takes in.
Built(run, g, outer, taken, p) ==
  LET q == RunAll(run, g.of, 1, [p EXCEPT !.kids = taken, !.kind = g.kind])
  IN [q EXCEPT !.kids = Append(outer, NodeOf(q.kind, q.kids)), !.kind = p.kind]

\* Mutants: no limit; the depth is not given back.
Deeper_Unbounded(run, g, p) == [run[<<g.run, [p EXCEPT !.depth = @ + 1]>>] EXCEPT !.depth = p.depth]
Deeper_Counts(run, g, p) ==
  IF p.hit THEN Leafed(p, "?")
  ELSE IF p.depth >= MaxNesting THEN Leafed([Failed(p, TRUE) EXCEPT !.hit = TRUE], "?")
  ELSE run[<<g.run, [p EXCEPT !.depth = @ + 1]>>]
\* enter_parser_nesting(), and the node that stands for what is not parsed.
Deeper(run, g, p) ==
  IF p.hit THEN Leafed(p, "?")
  ELSE IF p.depth >= MaxNesting THEN Leafed([Failed(p, TRUE) EXCEPT !.hit = TRUE], "?")
  ELSE [run[<<g.run, [p EXCEPT !.depth = @ + 1]>>] EXCEPT !.depth = p.depth]
\* Mutant: a declaration or statement that consumes nothing is left at that.
Progressed_Not(p, q) == q
\* ensure_parser_progress().
Progressed(p, q) ==
  IF q.stuck \/ Token(q, 0) = Eof \/ q.at # p.at THEN q ELSE Advanced([q EXCEPT !.err = TRUE, !.said = TRUE])
\* Mutant: the nodes of a failed attempt stay.
Attempted_Stays(run, g, p) ==
  LET q == run[<<g.run, p>>] IN
  IF Met(g.when, q) /\ (g.clean => q.err = p.err) THEN run[<<g.then, q>>]
  ELSE run[<<g.otherwise, [q EXCEPT !.at = p.at, !.kind = p.kind, !.err = IF g.clean THEN p.err ELSE @]>>]
\* save_state() and restore_state(): tokens and nodes come back, the modes do not.
Attempted(run, g, p) ==
  LET q == run[<<g.run, p>>] IN
  IF Met(g.when, q) /\ (g.clean => q.err = p.err) THEN run[<<g.then, q>>]
  ELSE run[<<g.otherwise,
             [q EXCEPT !.at = p.at, !.kids = p.kids, !.kind = p.kind, !.err = IF g.clean THEN p.err ELSE @]>>]

\* A function of <<term, parser>>; its domain is every value.
Run[x \in Any] ==
  LET g == x[1]
      p == x[2]
  IN CASE g.op = "do" -> RunAll(Run, g.of, 1, p)
       [] g.op = "repeat" -> Repeated(Run, g.cases, p)
       [] g.op = "cases" ->
            LET i == FirstCase(g.cases, p)
            IN Run[<<IF i > Len(g.cases) THEN g.otherwise ELSE g.cases[i].run, p>>]
       [] g.op = "rule" -> Run[<<Rules[g.name], p>>]
       [] g.op = "token" ->
            IF Token(p, 0) \notin g.set THEN Failed(p, TRUE)
            ELSE IF g.keep THEN Leafed(Advanced(p), Token(p, 0)) ELSE Advanced(p)
       [] g.op = "make" -> Built(Run, g, p.kids, <<>>, p)
       [] g.op = "around" -> Built(Run, g, OtherKids(p), <<LastKid(p)>>, p)
       [] g.op = "nested" -> Deeper(Run, g, p)
       [] g.op = "upto" -> Counted(Run, g, g.n, p)
       [] g.op = "held" -> [Run[<<g.run, [p EXCEPT !.held = @ + 1]>>] EXCEPT !.held = p.held]
       [] g.op = "progress" -> Progressed(p, Run[<<g.run, p>>])
       [] g.op = "attempt" -> Attempted(Run, g, p)
       [] g.op = "put" -> Leafed(p, g.text)
       [] g.op = "rename" -> [p EXCEPT !.kind = g.kind]
       [] g.op = "break" -> [p EXCEPT !.broke = TRUE]
       [] g.op = "forget" -> [p EXCEPT !.kids = Append(OtherKids(p), LeafOf("?"))]
       [] g.op = "feed" -> Fed(p)
       [] g.op = "take" -> Leafed(Advanced(p), Token(p, 0))
       [] g.op = "skip" -> Advanced(p)
       [] g.op = "fail" -> Failed(p, g.panic)
       [] g.op = "complain" -> [p EXCEPT !.said = TRUE]
       [] g.op = "recover" -> Recovered(p, 0)

\* The callers count the diagnostics.
Parse(rule, tokens) == Run[<<Rule(rule), Fresh(tokens)>>]
Accepted(p) == ~p.said /\ Token(p, 0) = Eof
================================================================================
