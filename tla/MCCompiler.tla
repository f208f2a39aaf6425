------------------------------ MODULE MCCompiler -------------------------------
(* Parts of the compiler that have no state in common, one at a time: the initial   *)
(* state chooses one, and only that one takes steps.                                *)
EXTENDS BuildOutput, LogRotation, HeapRegistry, Imports, Scalars, Macros, Syntax, TLC

VARIABLE part
compilerVars == <<buildVars, logVars, heapVars, impVars, scVars, mcVars, syVars, part>>

CompilerInit ==
  /\ part \in {"build", "log", "heap", "imports", "scalars", "macros", "syntax"}
  /\ BuildInit /\ LogInit /\ HeapInit /\ ImportsInit /\ ScalarInit
  /\ MacrosInit /\ SyntaxInit

CompilerNext ==
  /\ UNCHANGED part
  /\ \/ /\ part = "build" /\ BuildNext
        /\ UNCHANGED <<logVars, heapVars, impVars, scVars, mcVars, syVars>>
     \/ /\ part = "log" /\ LogNext
        /\ UNCHANGED <<buildVars, heapVars, impVars, scVars, mcVars, syVars>>
     \/ /\ part = "heap" /\ HeapNext
        /\ UNCHANGED <<buildVars, logVars, impVars, scVars, mcVars, syVars>>
     \/ /\ part = "imports" /\ ImportsNext
        /\ UNCHANGED <<buildVars, logVars, heapVars, scVars, mcVars, syVars>>
     \/ /\ part = "scalars" /\ ScalarNext
        /\ UNCHANGED <<buildVars, logVars, heapVars, impVars, mcVars, syVars>>
     \/ /\ part = "macros" /\ MacrosNext
        /\ UNCHANGED <<buildVars, logVars, heapVars, impVars, scVars, syVars>>
     \/ /\ part = "syntax" /\ SyntaxNext
        /\ UNCHANGED <<buildVars, logVars, heapVars, impVars, scVars, mcVars>>

CompilerSpec == CompilerInit /\ [][CompilerNext]_compilerVars

\* Integers of 2, 3 and 4 bits stand for those of 8, 32 and 64.
Literal(m) == [op |-> "literal", m |-> m]
Leaf(op, type, bits) == [op |-> op, type |-> type, bits |-> bits]
LeavesOf(op, types, patterns) == {Leaf(op, t, b) : t \in types, b \in patterns}
Replaced == [op |-> "global", type |-> "i32", bits |-> 1, linked |-> 6]
LeafSet ==
  {Literal(m) : m \in {0, 1, 3, 4, 8, 15}}
  \cup LeavesOf("variable", {"i8", "u8"}, 0 .. 3) \cup LeavesOf("constant", {"i8", "u8"}, {2, 3})
  \cup LeavesOf("variable", {"i32", "u32"}, {0, 3, 4, 7}) \cup LeavesOf("constant", {"i32", "u32"}, {4, 7})
  \cup LeavesOf("variable", {"i64", "u64"}, {0, 7, 8, 15}) \cup LeavesOf("constant", {"i64", "u64"}, {8, 15})
  \cup LeavesOf("variable", {"bool"}, {0, 1}) \cup {Replaced}
DeepLeaves == {Literal(8), Leaf("variable", "i8", 2), Leaf("constant", "u32", 7), Replaced}
OperatorSet ==
  {"+%", "+!", "-%", "-!", "*%", "*!", "/", "%", "<<", ">>", "&", "^", "|", "==", "<", ">=", "&&", "||"}
DivideByZero == [op |-> "/", x |-> Leaf("variable", "i32", 3), y |-> Leaf("variable", "i32", 0)]
ChainTestSet ==
  {[connector |-> c, op |-> t[1], y |-> t[2]] : c \in {"and", "or"},
     t \in {<<"==", Literal(1)>>, <<"<", Leaf("variable", "i8", 0)>>, <<">=", Replaced>>, <<"==", DivideByZero>>}}

\* A file's definitions, and the rest of it.
T(t) == [kind |-> "token", token |-> t]
Group(inner) == [kind |-> "group", inner |-> inner]
Param(n) == [kind |-> "param", name |-> n]
Var(quoted) == [kind |-> "var", at |-> quoted]
Each(inner) == [kind |-> "each", inner |-> inner]
Alias(from, name) == [kind |-> "alias", from |-> from, name |-> name]
Call(from, name, inner) == [kind |-> "call", from |-> from, name |-> name, inner |-> inner]
Definition(vis, form, name, params, pack, body) ==
  [vis |-> vis, form |-> form, name |-> name, params |-> params, pack |-> pack, body |-> body]
DefinitionSet ==
  {Definition("int", "fn", "f", <<"p", "q">>, FALSE, <<Param("p"), T("{"), T("x"), T("}"), Param("q")>>),
   Definition("ext", "fn", "f", <<"p">>, FALSE, <<Call("", "g", <<Param("p"), T(","), T("y")>>), T(";")>>),
   Definition("ext", "fn", "f", <<"p">>, FALSE, <<Call("", "f", <<Param("p")>>), T(";"), Alias("", "a")>>),
   Definition("int", "bare", "g", <<>>, TRUE,
              <<Each(<<Var(TRUE), Call("", "f", <<Var(FALSE)>>)>>), T(":"), Param("v")>>),
   Definition("ext", "let", "a", <<>>, FALSE, <<T("x"), Call("", "f", <<>>)>>),
   Definition("int", "let", "g", <<>>, FALSE, <<T("y")>>)}
PieceSet ==
  {T(";"), Call("", "f", <<T("x"), T(","), Group(<<T("y"), T(","), T("x")>>)>>), Call("n", "f", <<>>),
   Call("", "g", <<T("x"), T(","), Call("", "f", <<T("y")>>)>>), Alias("n", "a"), Alias("", "g")}

\* Forms that decide between one another by what follows them.
ThriceSet ==
  {"a", "b", "f", "literal", "ternary", "propagate", "range", "chain", "bitand", "minus", "call", "slice", "assign",
   "pipename"}
================================================================================
