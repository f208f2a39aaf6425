--------------------------------- MODULE Macros --------------------------------
(* The preprocessor: src/preprocessor/preprocessor.c.  A file's tokens are scanned   *)
(* for macro definitions, then walked again: definitions are skipped, invocations    *)
(* replaced.  It works on a flat sequence of tokens and finds arguments and bodies   *)
(* by counting brackets; what it should produce is stated on the tree the tokens     *)
(* are written from.  Text, positions and malformed definitions are left out.        *)
EXTENDS Integers, Sequences, FiniteSets
LOCAL INSTANCE SequencesExt

CONSTANTS Definitions,       \* the definitions a file may hold
          Pieces,            \* what the rest of the file is written from
          MaxDefinitions,    \* bound: definitions in the file and the one it imports
          MaxPieces,         \* bound: pieces of the file
          MaxExpandDepth     \* PP_MAX_EXPAND_DEPTH

MacroNames == {d.name : d \in Definitions}

\* The guard is complete only while no more macros than this are in each other.
ASSUME MacrosAssumption ==
  /\ MaxDefinitions \in Nat /\ MaxPieces \in Nat
  /\ MaxExpandDepth \in Nat /\ Cardinality(MacroNames) <= MaxExpandDepth

VARIABLES
  mcPhase,      \* "write", "scan", "expand", "done"
  mcDefs,       \* the definitions written so far
  mcImported,   \* those of the imported file
  mcPieces,     \* the rest
  mcRaw,        \* the tokens of the file
  mcLocal,      \* local_ms
  mcFrames,     \* the calls of expand_stream in progress
  mcGuard,      \* g_expanding
  mcOut         \* the stream: tokens with the expansions they come from
mcVars == <<mcPhase, mcDefs, mcImported, mcPieces, mcRaw, mcLocal, mcFrames, mcGuard, mcOut>>

MacrosInit ==
  /\ mcPhase = "write" /\ mcDefs = <<>> /\ mcImported = <<>> /\ mcPieces = <<>> /\ mcRaw = <<>>
  /\ mcLocal = <<>> /\ mcFrames = <<>> /\ mcGuard = <<>> /\ mcOut = <<>>

--------------------------------------------------------------------------------
(* The tree a file is written from, and its tokens *)

Tok(t) == [kind |-> "token", token |-> t]
RECURSIVE Flat(_)
FlatPiece(p) ==
  CASE p.kind = "token" -> <<p.token>>
    [] p.kind = "group" -> <<"(">> \o Flat(p.inner) \o <<")">>
    [] p.kind = "param" -> <<"@", p.name>>
    [] p.kind = "var"   -> IF p.at THEN <<"@", "e">> ELSE <<"e">>
    [] p.kind = "each"  -> <<"@", "foreach", "e", ":", "v", "{">> \o Flat(p.inner) \o <<"}">>
    [] p.kind = "alias" -> (IF p.from = "" THEN <<>> ELSE <<p.from, ".">>) \o <<p.name, ".", "!">>
    [] p.kind = "call"  -> (IF p.from = "" THEN <<>> ELSE <<p.from, ".">>)
                           \o <<p.name, ".", "!", "(">> \o Flat(p.inner) \o <<")">>
Flat(pieces) == FlattenSeq([i \in DOMAIN pieces |-> FlatPiece(pieces[i])])

ParamTokens(d) ==
  LET named == FlattenSeq([i \in DOMAIN d.params |-> (IF i > 1 THEN <<",">> ELSE <<>>) \o <<"@", d.params[i]>>])
  IN <<"(">> \o named
     \o (IF d.pack THEN (IF d.params # <<>> THEN <<",">> ELSE <<>>) \o <<"...", "@", "v">> ELSE <<>>) \o <<")">>

DefinitionTokens(d) ==
  <<d.vis, "macro">> \o
  (CASE d.form = "let"  -> <<"let", d.name, "!", "=">> \o Flat(d.body) \o <<";">>
     [] d.form \in {"fn", "bare"} ->
          (IF d.form = "fn" THEN <<"fn">> ELSE <<>>) \o <<d.name, "!", "{">> \o ParamTokens(d)
          \o <<"=>", "{">> \o Flat(d.body) \o <<"}">> \o (IF d.form = "fn" THEN <<";">> ELSE <<>>) \o <<"}">>)

AllDefinitions(defs) == FlattenSeq([i \in DOMAIN defs |-> DefinitionTokens(defs[i])])

Define(d) ==
  /\ mcPhase = "write" /\ Len(mcDefs) + Len(mcImported) < MaxDefinitions /\ mcPieces = <<>>
  /\ mcDefs' = Append(mcDefs, d)
  /\ UNCHANGED <<mcPhase, mcImported, mcPieces, mcRaw, mcLocal, mcFrames, mcGuard, mcOut>>
DefineThere(d) ==
  /\ mcPhase = "write" /\ Len(mcImported) < MaxDefinitions /\ mcDefs = <<>> /\ mcPieces = <<>>
  /\ mcImported' = Append(mcImported, d)
  /\ UNCHANGED <<mcPhase, mcDefs, mcPieces, mcRaw, mcLocal, mcFrames, mcGuard, mcOut>>
Write(p) ==
  /\ mcPhase = "write" /\ Len(mcPieces) < MaxPieces
  /\ mcPieces' = Append(mcPieces, p)
  /\ UNCHANGED <<mcPhase, mcDefs, mcImported, mcRaw, mcLocal, mcFrames, mcGuard, mcOut>>

\* pp_process: the definitions may stand before or behind what uses them.
LexFile ==
  /\ mcPhase = "write" /\ mcPieces # <<>> /\ mcPhase' = "scan"
  /\ \/ mcRaw' = AllDefinitions(mcDefs) \o Flat(mcPieces)
     \/ mcRaw' = Flat(mcPieces) \o AllDefinitions(mcDefs)
  /\ UNCHANGED <<mcDefs, mcImported, mcPieces, mcLocal, mcFrames, mcGuard, mcOut>>

--------------------------------------------------------------------------------
(* Pass 1 *)

Punctuation == {".", "!", "(", ")", "{", "}", ",", ";", "@", ":", "=", "=>", "...",
                "foreach", "int", "ext", "macro", "fn", "let"}
IsName(t) == t \notin Punctuation

\* The bracket that closes what has been opened before position i.
Closing(s, i, open, close) ==
  LET depth[j \in i - 1 .. Len(s)] ==
        IF j = i - 1 THEN 1
        ELSE depth[j - 1] + (IF s[j] \in open THEN 1 ELSE IF s[j] \in close THEN -1 ELSE 0)
  IN CHOOSE j \in i .. Len(s) : depth[j] = 0 /\ \A k \in i .. j - 1 : depth[k] # 0
ClosingBrace(s, i) == Closing(s, i, {"{"}, {"}"})

NextAt(s, i, t) == CHOOSE j \in i .. Len(s) : s[j] = t /\ \A k \in i .. j - 1 : s[k] # t

\* scan_fn_macro_body, from the parenthesis of the parameters at p.
ScannedFn(s, vis, name, p) ==
  LET close == NextAt(s, p, ")")
      body == close + 3                      \* behind "=> {"
      end == ClosingBrace(s, body)
      named == SelectSeq([k \in 1 .. close - p |-> k + p - 1],
                         LAMBDA j : s[j] = "@" /\ s[j - 1] # "...")
      pack == \E j \in p .. close : s[j] = "..."
  IN [kind |-> "fn", vis |-> vis, name |-> name, params |-> [k \in DOMAIN named |-> s[named[k] + 1]],
      pack |-> IF pack THEN s[NextAt(s, p, "...") + 2] ELSE "", body |-> SubSeq(s, body, end - 1), end |-> end]

ScannedLet(s, vis, i) ==
  LET end == NextAt(s, i, ";")
  IN [kind |-> "let", vis |-> vis, name |-> s[i + 1], params |-> <<>>, pack |-> "",
      body |-> SubSeq(s, i + 4, end - 1), end |-> end]

\* The definition at i, where "int macro" or "ext macro" is.
Scanned(s, i) ==
  CASE s[i + 2] = "fn"  -> ScannedFn(s, s[i], s[i + 3], i + 6)
    [] s[i + 2] = "let" -> ScannedLet(s, s[i], i + 2)
    [] OTHER            -> ScannedFn(s, s[i], s[i + 2], i + 5)

\* Where the scan goes on: behind the body, the semicolons after it and the last brace.
BehindScanned(s, m) ==
  IF m.kind = "let" THEN m.end + 1
  ELSE IF m.end < Len(s) /\ s[m.end + 1] = ";" THEN m.end + 3 ELSE m.end + 2

AtDefinition(s, i) == i < Len(s) /\ s[i] \in {"int", "ext"} /\ s[i + 1] = "macro"

\* The macros a walk of the tokens finds.
ScannedMacros(s) ==
  LET from[i \in 1 .. Len(s) + 1] ==
        IF i > Len(s) THEN <<>>
        ELSE IF AtDefinition(s, i)
        THEN LET m == Scanned(s, i) IN <<m>> \o from[BehindScanned(s, m)]
        ELSE from[i + 1]
  IN from[1]

ScanFile ==
  /\ mcPhase = "scan" /\ mcPhase' = "expand"
  /\ mcLocal' = ScannedMacros(mcRaw)
  /\ mcFrames' = <<[src |-> mcRaw, at |-> 1, via |-> <<>>]>>
  /\ UNCHANGED <<mcDefs, mcImported, mcPieces, mcRaw, mcGuard, mcOut>>

--------------------------------------------------------------------------------
(* Pass 2 *)

\* The file's own macros, then the exported ones of the import, the first of a name.
\* (Fault: the imported ones first.)
InOrder_ImportsFirst(own, imported) == imported \o own
InOrder(own, imported) == own \o imported
ImportedMacros == SelectSeq(ScannedMacros(AllDefinitions(mcImported)), LAMBDA m : m.vis = "ext")
Found(kind, name) ==
  SelectSeq(InOrder(mcLocal, ImportedMacros), LAMBDA m : m.kind = kind /\ m.name = name)
Usable(kind, name) == Found(kind, name) # <<>> /\ name \notin ToSet(mcGuard)

\* collect_args: the positions of the arguments of a call whose "(" is before i, of
\* which there are no more than the code's arrays hold (PP_MAX_PARAMS).
Opening == {"(", "{", "["}
Closers == {")", "}", "]"}
\* (Fault: also the commas of inner brackets divide.)
Divides_Any(s, i, j) == s[j] = ","
Divides(s, i, j) ==
  s[j] = "," /\ Cardinality({k \in i .. j : s[k] \in Opening}) = Cardinality({k \in i .. j : s[k] \in Closers})
Arguments(s, i) ==
  LET close == Closing(s, i, Opening, Closers)
      cuts == SelectSeq([k \in 1 .. close - i |-> k + i - 1], LAMBDA j : Divides(s, i, j))
      bounds == <<i - 1>> \o cuts \o <<close>>
  IN [k \in 1 .. Len(bounds) - 1 |-> SubSeq(s, bounds[k] + 1, bounds[k + 1] - 1)]

\* The loop's body, once for each argument of the pack; only its variable is replaced.
Unrolled(body, var, args) ==
  LET once(a) ==
        LET from[i \in 1 .. Len(body) + 1] ==
              IF i > Len(body) THEN <<>>
              ELSE IF body[i] = "@" /\ i < Len(body) /\ body[i + 1] = var THEN a \o from[i + 2]
              ELSE IF body[i] = var THEN a \o from[i + 1]
              ELSE <<body[i]>> \o from[i + 1]
        IN from[1]
  IN FlattenSeq([k \in DOMAIN args |-> once(args[k])])

Joined(args) == FlattenSeq([k \in DOMAIN args |-> (IF k > 1 THEN <<",">> ELSE <<>>) \o args[k]])

\* expand_fn_macro, stage 1.
Substituted(m, args) ==
  LET body == m.body
      packed == SubSeq(args, Len(m.params) + 1, Len(args))
      loop(i) == /\ i + 5 < Len(body) + 1 /\ body[i] = "@" /\ body[i + 1] = "foreach"
                 /\ m.pack # "" /\ body[i + 4] = m.pack
      named(i) == {k \in DOMAIN m.params : m.params[k] = body[i + 1] /\ k <= Len(args)}
      from[i \in 1 .. Len(body) + 1] ==
        IF i > Len(body) THEN <<>>
        ELSE IF loop(i)
        THEN LET end == ClosingBrace(body, i + 6)
             IN Unrolled(SubSeq(body, i + 6, end - 1), body[i + 2], packed) \o from[end + 1]
        ELSE IF body[i] = "@" /\ i < Len(body) /\ IsName(body[i + 1]) /\ named(i) # {}
        THEN args[CHOOSE k \in named(i) : TRUE] \o from[i + 2]
        ELSE IF body[i] = "@" /\ i < Len(body) /\ m.pack # "" /\ body[i + 1] = m.pack
        THEN Joined(packed) \o from[i + 2]
        ELSE <<body[i]>> \o from[i + 1]
  IN from[1]

Top == mcFrames[Len(mcFrames)]
TokenAt(k) == IF Top.at + k <= Len(Top.src) THEN Top.src[Top.at + k] ELSE ""

\* An invocation at this place: how many tokens are before its name.
Called(q) ==
  /\ IsName(TokenAt(q)) /\ TokenAt(q + 1) = "." /\ TokenAt(q + 2) = "!"
  /\ q = 2 => IsName(TokenAt(0)) /\ TokenAt(1) = "."
FnAt(q) == Called(q) /\ TokenAt(q + 3) = "(" /\ Usable("fn", TokenAt(q))
LetAt(q) == Called(q) /\ (q = 2 => TokenAt(q + 3) # "(") /\ Usable("let", TokenAt(q))

\* The order in which the forms are tried.
Form ==
  CASE mcFrames = <<>> -> "none"
    [] Top.at > Len(Top.src) -> "end"
    [] AtDefinition(Top.src, Top.at) -> "definition"
    [] FnAt(2) -> "fn2" [] LetAt(2) -> "let2" [] FnAt(0) -> "fn0" [] LetAt(0) -> "let0"
    [] OTHER -> "token"

Expanding == mcPhase = "expand"
GoTo(i) == mcFrames' = [mcFrames EXCEPT ![Len(mcFrames)].at = i]
Stamped(tokens, via) == [k \in DOMAIN tokens |-> [token |-> tokens[k], via |-> via]]

\* skip_macro_def finds the end by the braces alone.  (Fault: at the first that closes.)
SkipTo_First(s, i) == IF s[i] = "let" THEN NextAt(s, i, ";") + 1 ELSE NextAt(s, i, "}") + 1
SkipTo(s, i) ==
  CASE s[i] = "let" -> NextAt(s, i, ";") + 1
    [] s[i] = "fn"  -> ClosingBrace(s, i + 4) + 1
    [] OTHER        -> ClosingBrace(s, i + 3) + 1
SkipDefinition ==
  /\ Expanding /\ Form = "definition"
  /\ GoTo(SkipTo(Top.src, Top.at + 2))
  /\ UNCHANGED <<mcPhase, mcDefs, mcImported, mcPieces, mcRaw, mcLocal, mcGuard, mcOut>>

\* A semicolon behind the call belongs to it.  (Fault: it is left.)
BehindCall_Kept(s, close) == close + 1
BehindCall(s, close) == IF close < Len(s) /\ s[close + 1] = ";" THEN close + 2 ELSE close + 1

\* (Fault: the name is not noted.)
Guarded_Not(name) == mcGuard
Guarded(name) == IF Len(mcGuard) < MaxExpandDepth THEN Append(mcGuard, name) ELSE mcGuard

EnterFn(q) ==
  /\ Expanding /\ Form = (IF q = 2 THEN "fn2" ELSE "fn0")
  /\ LET name == TokenAt(q)
         open == Top.at + q + 4
         m == Head(Found("fn", name))
     IN /\ mcFrames' = Append(
             [mcFrames EXCEPT ![Len(mcFrames)].at = BehindCall(Top.src, Closing(Top.src, open, Opening, Closers))],
             [src |-> Substituted(m, Arguments(Top.src, open)), at |-> 1, via |-> Append(Top.via, name)])
        /\ mcGuard' = Guarded(name)
  /\ UNCHANGED <<mcPhase, mcDefs, mcImported, mcPieces, mcRaw, mcLocal, mcOut>>

\* What an alias stands for is emitted as it is, not expanded.
UseLet(q) ==
  /\ Expanding /\ Form = (IF q = 2 THEN "let2" ELSE "let0")
  /\ mcOut' = mcOut \o Stamped(Head(Found("let", TokenAt(q))).body, Append(Top.via, TokenAt(q)))
  /\ GoTo(Top.at + q + 3)
  /\ UNCHANGED <<mcPhase, mcDefs, mcImported, mcPieces, mcRaw, mcLocal, mcGuard>>

EmitToken ==
  /\ Expanding /\ Form = "token"
  /\ mcOut' = mcOut \o Stamped(<<TokenAt(0)>>, Top.via) /\ GoTo(Top.at + 1)
  /\ UNCHANGED <<mcPhase, mcDefs, mcImported, mcPieces, mcRaw, mcLocal, mcGuard>>

LeaveStream ==
  /\ Expanding /\ Form = "end"
  /\ mcFrames' = Front(mcFrames)
  /\ mcGuard' = IF mcGuard = <<>> THEN mcGuard ELSE Front(mcGuard)
  /\ mcPhase' = IF Len(mcFrames) = 1 THEN "done" ELSE mcPhase
  /\ UNCHANGED <<mcDefs, mcImported, mcPieces, mcRaw, mcLocal, mcOut>>

MacrosNext ==
  \/ \E d \in Definitions : Define(d) \/ DefineThere(d)
  \/ \E p \in Pieces : Write(p)
  \/ LexFile \/ ScanFile
  \/ SkipDefinition \/ EmitToken \/ LeaveStream
  \/ \E q \in {0, 2} : EnterFn(q) \/ UseLet(q)

MacrosSpec == MacrosInit /\ [][MacrosNext]_mcVars

--------------------------------------------------------------------------------
(* What a file stands for, on the tree *)

Exported == SelectSeq(mcImported, LAMBDA d : d.vis = "ext")
DefinitionsOf(name, alias) ==
  SelectSeq(mcDefs \o Exported, LAMBDA d : d.name = name /\ (d.form = "let") = alias)

\* The arguments are what the commas of the call itself divide; a call has at least one.
IsComma(p) == p = Tok(",")
ArgumentTrees(inner) ==
  LET cuts == SelectSeq([k \in DOMAIN inner |-> k], LAMBDA k : IsComma(inner[k]))
      bounds == <<0>> \o cuts \o <<Len(inner) + 1>>
  IN [k \in 1 .. Len(bounds) - 1 |-> SubSeq(inner, bounds[k] + 1, bounds[k + 1] - 1)]

RECURSIVE InLoop(_, _)
InLoop(pieces, arg) ==
  FlattenSeq([i \in DOMAIN pieces |->
    LET p == pieces[i]
    IN CASE p.kind = "var" -> arg
         [] p.kind \in {"group", "call"} -> <<[p EXCEPT !.inner = InLoop(@, arg)]>>
         [] OTHER -> <<p>>])

\* A body with the arguments in the places of its parameters.
RECURSIVE Applied(_, _, _)
Applied(pieces, d, args) ==
  LET packed == SubSeq(args, Len(d.params) + 1, Len(args))
  IN FlattenSeq([i \in DOMAIN pieces |->
       LET p == pieces[i]
           index == {k \in DOMAIN d.params : p.kind = "param" /\ d.params[k] = p.name /\ k <= Len(args)}
       IN CASE p.kind = "param" /\ index # {} -> args[CHOOSE k \in index : TRUE]
            [] p.kind = "param" /\ d.pack /\ p.name = "v" ->
                 FlattenSeq([k \in DOMAIN packed |-> (IF k > 1 THEN <<Tok(",")>> ELSE <<>>) \o packed[k]])
            [] p.kind = "each" /\ d.pack -> FlattenSeq([k \in DOMAIN packed |-> InLoop(p.inner, packed[k])])
            [] p.kind \in {"group", "call"} -> <<[p EXCEPT !.inner = Applied(@, d, args)]>>
            [] OTHER -> <<p>>])

\* Each call is replaced by the body of its macro and that by what it stands for in
\* turn, but no macro within itself; an alias by its tokens.
RECURSIVE Meaning(_, _, _)
Meaning(pieces, hidden, via) ==
  IF pieces = <<>> THEN <<>>
  ELSE
    LET p == Head(pieces)
        rest == Tail(pieces)
        visible(alias) == p.name \notin hidden /\ DefinitionsOf(p.name, alias) # <<>>
        asWritten == Stamped(Flat(<<[p EXCEPT !.kind = "alias"]>>), via)
        inner == Stamped(<<"(">>, via) \o Meaning(p.inner, hidden, via) \o Stamped(<<")">>, via)
        body(alias) == Head(DefinitionsOf(p.name, alias)).body
        aliased == Stamped(Flat(body(TRUE)), Append(via, p.name))
    IN CASE p.kind = "group" -> inner \o Meaning(rest, hidden, via)
         [] p.kind = "alias" -> (IF visible(TRUE) THEN aliased ELSE asWritten) \o Meaning(rest, hidden, via)
         [] p.kind = "call" /\ visible(FALSE) ->
              Meaning(Applied(body(FALSE), Head(DefinitionsOf(p.name, FALSE)), ArgumentTrees(p.inner)),
                      hidden \cup {p.name}, Append(via, p.name))
              \o Meaning(IF rest # <<>> /\ Head(rest) = Tok(";") THEN Tail(rest) ELSE rest, hidden, via)
         [] p.kind = "call" /\ ~visible(FALSE) ->
              (IF visible(TRUE)
               THEN (IF p.from = "" THEN <<>> ELSE Stamped(<<p.from, ".">>, via)) \o aliased
               ELSE asWritten)
              \o inner \o Meaning(rest, hidden, via)
         [] OTHER -> Stamped(FlatPiece(p), via) \o Meaning(rest, hidden, via)

--------------------------------------------------------------------------------
(* Properties *)

\* The stream is what the file stands for, whether the definitions are before or behind
\* their uses: no definition is left in it nor anything else lost with one, arguments
\* and bodies end where their brackets do, and each token knows the calls it comes from
\* ("Source location is NEVER destroyed", preprocessor.c:13).
StreamMeansFile == mcPhase = "done" => mcOut = Meaning(mcPieces, {}, <<>>)

\* A macro is never expanded within itself: the guard holds exactly the macros whose
\* bodies are being walked, each once.
GuardIsFrames ==
  Expanding => /\ mcGuard = Top.via \/ mcFrames = <<>>
               /\ \A i, j \in DOMAIN mcGuard : i # j => mcGuard[i] # mcGuard[j]

MacrosSound == StreamMeansFile /\ GuardIsFrames

================================================================================
