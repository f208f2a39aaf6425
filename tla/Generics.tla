------------------------------- MODULE Generics -------------------------------
(***************************************************************************)
(* Generic structs and functions (src/src/codegen/cg_generics.c): made     *)
(* when they are first named, in the middle of whatever is being generated *)
(* then.  The generator's context - where it builds, the loop it is in,    *)
(* its locals, its scopes, the meaning of type parameters - is one set of  *)
(* variables, which an instance takes over and has to give back.  That is  *)
(* `cx`.  The type that a value is wanted for, hint_ret_type, nobody saves *)
(* for an instance, and it is a variable of its own, `hint`.               *)
(*                                                                         *)
(* An instance also takes what an initializer sets and puts back itself    *)
(* around a slice (hint_slice_elem, hint_storage, hint_var_flags), and in  *)
(* a lambda the captures and the depth of lambdas: slices and lambdas are  *)
(* not among the statements below.                                         *)
(*                                                                         *)
(* A name is the sequence of its parts: box.[i32] is <<"box", "i32">>, the *)
(* "box_G_i32" of the code.  What is still to be done, the call stack of   *)
(* the generator, is the sequence `todo`; its head is what happens next.   *)
(***************************************************************************)
EXTENDS Integers, Sequences

CONSTANTS Sources,         \* the programs that are compiled
          BuiltIn,         \* names of the built-in types
          MaxArguments,    \* type arguments a name is split into, 8
          MaxChain         \* longest chain of names a property looks along

\* What the parser hands over.
Names == Seq(STRING)
Types == [name : Names, ptr : BOOLEAN]
\* A block "init" is the initializer of a local, or the value of a ret.
Blocks == {"loop", "unsafe", "defer", "init"}
Statements ==
  [s : Blocks \cup {"break", "yield", "ret"}] \cup [s : {"end"}, of : Blocks]
  \cup [s : {"local"}, type : Types, local : STRING]
  \cup [s : {"call"}, name : Names] \cup [s : {"own"}, method : STRING]
Units(names) ==
  [name : names, module : STRING, types : Seq(Types), body : Seq(Statements), gives : STRING,
   inline : BOOLEAN, coroutine : BOOLEAN]
StructTemplates ==
  [kind : {"struct"}, name : STRING, params : Seq(STRING), fields : Seq(Types),
   methods : Seq(Units(STRING))]
FunctionTemplates ==
  [kind : {"function"}, name : STRING, params : Seq(STRING), module : STRING, types : Seq(Types),
   body : Seq(Statements), gives : STRING, inline : BOOLEAN, coroutine : BOOLEAN]
SourceForms ==
  [templates : SUBSET (StructTemplates \cup FunctionTemplates),
   structs : Seq([name : Names, fields : Seq(Types)]), functions : Seq(Units(Names))]

ASSUME GenericAssumption ==
  /\ MaxArguments \in Nat \ {0} /\ MaxChain \in Nat
  /\ Sources \subseteq SourceForms
  /\ \A n \in BuiltIn : n \in Names /\ Len(n) = 1

VARIABLES
  source, todo, cx, structs, symbols, code, refusals,
  hint,     \* whether hint_ret_type is set
  hinted    \* the items of `code` that were generated while it was (history)

hints  == <<hint, hinted>>
gnVars == <<source, todo, cx, structs, symbols, code, refusals, hints>>

Symbol(name, method) == [of |-> name, method |-> method]
Function(name) == Symbol(name, "")
NoSymbol == Function(<< >>)

\* The part of cg_t that belongs to the function being generated.
Resting ==
  [fn |-> NoSymbol, block |-> NoSymbol, gives |-> "", struct |-> << >>, inline |-> FALSE,
   main |-> FALSE, coro |-> NoSymbol, loop |-> 0, deferring |-> FALSE, unsafe |-> 0,
   locals |-> << >>, cleanups |-> << >>, module |-> "", meaning |-> << >>]

-------------------------------------------------------------------------------
(* Names and templates *)

\* cg_subst_name: the name of a parameter becomes its type, and so does every
\* argument that names one.  (Fault: arguments stay as they are written.)
Resolved_Whole(meaning, name) ==
  IF Len(name) = 1 /\ name[1] \in DOMAIN meaning THEN <<meaning[name[1]]>> ELSE name
Resolved(meaning, name) ==
  IF Len(name) = 1 THEN IF name[1] \in DOMAIN meaning THEN <<meaning[name[1]]>> ELSE name
  ELSE [i \in DOMAIN name |->
          IF i > 1 /\ name[i] \in DOMAIN meaning THEN meaning[name[i]] ELSE name[i]]

Arguments(name) ==
  SubSeq(name, 2, IF Len(name) > MaxArguments + 1 THEN MaxArguments + 1 ELSE Len(name))

\* A name that is split into a template of that kind and as many arguments.
TemplatesOf(p, kind, name) ==
  {t \in p.templates : /\ Len(name) > 1 /\ t.kind = kind /\ t.name = name[1]
                            /\ Len(t.params) = Len(Arguments(name))}
Template(p, kind, name) == CHOOSE t \in TemplatesOf(p, kind, name) : TRUE
Instantiable(p, kind, name) == TemplatesOf(p, kind, name) # {}

Meaning(t, name) ==
  [p \in {t.params[i] : i \in DOMAIN t.params} |->
     name[1 + (CHOOSE i \in DOMAIN t.params : t.params[i] = p)]]

Known(name) == name \in DOMAIN structs
Sized(name) == Known(name) /\ structs[name].layout = "done"
Open(name) == structs[name].layout \in {"pending", "visiting"}

-------------------------------------------------------------------------------
(* What is declared under a name *)

StructNamed(p, n) == {i \in DOMAIN p.structs : p.structs[i].name = n}
FieldsOf(p, n) ==
  IF StructNamed(p, n) # {} THEN p.structs[CHOOSE i \in StructNamed(p, n) : TRUE].fields
  ELSE Template(p, "struct", n).fields
Plain(p, name) == {f \in {p.functions[i] : i \in DOMAIN p.functions} : f.name = name}
Declaration(p, sym) ==
  IF sym.method # ""
  THEN LET ms == Template(p, "struct", sym.of).methods
       IN ms[CHOOSE i \in DOMAIN ms : ms[i].name = sym.method]
  ELSE IF Len(sym.of) > 1 THEN Template(p, "function", sym.of)
  ELSE CHOOSE f \in Plain(p, sym.of) : TRUE
BodyOf(p, sym) == Declaration(p, sym).body

-------------------------------------------------------------------------------
(* What is to be done *)

Task == Head(todo)
Later == Tail(todo)
Doing(task) == todo # << >> /\ Task.do = task
Again == [Task EXCEPT !.at = @ + 1]

Refuse(why) == refusals' = refusals \cup why
Extended(f, x, v) == [y \in DOMAIN f \cup {x} |-> IF y = x THEN v ELSE f[y]]

\* A layout goes through the fields, from 0 before it has begun; the making of
\* a struct through the methods of its template.
Layout(name) == [do |-> "layout", name |-> name, at |-> 0]
Fields == structs[Task.name].fields
Field == Fields[Task.at]
FieldType == Resolved(cx.meaning, Field.name)
Methods(p, name) == Template(p, "struct", name).methods
NextMethod == Methods(source, Task.name)[Task.at]
MethodSymbol == Symbol(Task.name, NextMethod.name)
MethodDue == Sized(Task.name) /\ Task.at \in DOMAIN Methods(source, Task.name)

\* A body that is being generated, from its next statement.
InBody == todo # << >> /\ Task.do \in {"method", "function", "plain"}
AtEnd(kind) == Doing(kind) /\ Task.at > Len(BodyOf(source, Task.of))
Stmt == BodyOf(source, Task.of)[Task.at]
Standing(kinds) == InBody /\ Task.at \in DOMAIN BodyOf(source, Task.of) /\ Stmt.s \in kinds

\* get_llvm_type: the types that the next step asks for, in their order; an
\* instance that is not there is made, which a pointer does not need.
Asked ==
  CASE Doing("layout") /\ Task.at \in DOMAIN Fields            -> <<Field>>
    [] Doing("methods") /\ MethodDue /\ MethodSymbol \notin symbols -> NextMethod.types
    [] Doing("instance")                                       -> Template(source, "function", Task.name).types
    [] Standing({"local"})                                     -> <<Stmt.type>>
    [] OTHER                                                   -> << >>
Unmade(type) ==
  LET n == Resolved(cx.meaning, type.name)
  IN ~type.ptr /\ ~Known(n) /\ Instantiable(source, "struct", n)
Missing == {i \in DOMAIN Asked : Unmade(Asked[i])}

-------------------------------------------------------------------------------
(* Layout of structs, plain ones and instances *)

HeldByValue(type, n) == ~type.ptr /\ n \notin BuiltIn
Recurs(n) == IF Known(n) /\ structs[n].layout = "visiting" THEN {"recursive"} ELSE {}

LayoutKnown ==
  /\ Doing("layout") /\ Task.at = 0 /\ structs[Task.name].layout # "pending"
  /\ Refuse(Recurs(Task.name))
  /\ todo' = Later
  /\ UNCHANGED <<source, cx, structs, symbols, code, hints>>

LayoutStruct ==
  /\ Doing("layout") /\ Task.at = 0 /\ structs[Task.name].layout = "pending"
  /\ structs' = [structs EXCEPT ![Task.name].layout = "visiting"]
  /\ todo' = <<Again>> \o Later
  /\ UNCHANGED <<source, cx, symbols, code, refusals, hints>>

\* cg_layout_require_type: a field's type is laid out, or made, first.
LayoutField ==
  /\ Doing("layout") /\ Task.at \in DOMAIN Fields
  /\ HeldByValue(Field, FieldType) /\ Known(FieldType) /\ structs[FieldType].layout = "pending"
  /\ todo' = <<Layout(FieldType)>> \o todo
  /\ UNCHANGED <<source, cx, structs, symbols, code, refusals, hints>>

CheckField ==
  /\ Doing("layout") /\ Task.at \in DOMAIN Fields /\ Missing = {}
  /\ LET value == HeldByValue(Field, FieldType)
     IN /\ value /\ Known(FieldType) => structs[FieldType].layout # "pending"
        /\ Refuse((IF value /\ ~Known(FieldType) THEN {"unknown"} ELSE {})
                  \cup (IF value THEN Recurs(FieldType) ELSE {}))
        /\ structs' = IF value => Sized(FieldType) THEN structs
                      ELSE [structs EXCEPT ![Task.name].bad = TRUE]
  /\ todo' = <<Again>> \o Later
  /\ UNCHANGED <<source, cx, symbols, code, hints>>

FinishLayout ==
  /\ Doing("layout") /\ Task.at > Len(Fields)
  /\ LET layout == IF structs[Task.name].bad THEN "invalid" ELSE "done"
     IN structs' = [structs EXCEPT ![Task.name].layout = layout]
  /\ todo' = Later
  /\ UNCHANGED <<source, cx, symbols, code, refusals, hints>>

-------------------------------------------------------------------------------
(* Instances of generic structs *)

\* An instance starts outside of every loop, coroutine and scope.  (Faults: the
\* loop, or the coroutine, of the function that asked is left.)
Fresh_Loop(c) ==
  [c EXCEPT !.deferring = FALSE, !.coro = NoSymbol, !.main = FALSE,
            !.locals = << >>, !.cleanups = << >>]
Fresh_Coroutine(c) ==
  [c EXCEPT !.loop = 0, !.deferring = FALSE, !.main = FALSE, !.locals = << >>, !.cleanups = << >>]
Fresh(c) ==
  [c EXCEPT !.loop = 0, !.deferring = FALSE, !.coro = NoSymbol, !.main = FALSE,
            !.locals = << >>, !.cleanups = << >>]

\* What is put back: everything but what its bodies put back themselves.
\* (Faults: the parameters' meaning, or the locals, stay the instance's.)
Restored_Meaning(saved, c) ==
  [saved EXCEPT !.module = c.module, !.unsafe = c.unsafe, !.meaning = c.meaning]
Restored_Locals(saved, c) ==
  [saved EXCEPT !.module = c.module, !.unsafe = c.unsafe, !.locals = c.locals]
Restored(saved, c) == [saved EXCEPT !.module = c.module, !.unsafe = c.unsafe]

\* The struct is registered before it is laid out: a type may point to itself.
InstantiateStruct ==
  /\ \E i \in Missing :
       LET n == Resolved(cx.meaning, Asked[i].name)
           t == Template(source, "struct", n)
       IN /\ \A j \in Missing : i <= j
          /\ structs' = Extended(structs, n, [layout |-> "pending", fields |-> t.fields,
                                              bad |-> FALSE, destructor |-> FALSE])
          /\ cx' = [Fresh(cx) EXCEPT !.meaning = Meaning(t, n)]
          /\ todo' = <<Layout(n), [do |-> "methods", name |-> n, at |-> 1, saved |-> cx]>> \o todo
  /\ UNCHANGED <<source, symbols, code, refusals, hints>>

\* A statement is generated where the builder stands, with the context it has.
Seen(c) == [c EXCEPT !.block = NoSymbol, !.unsafe = 0]
Item(what, to, c) == [is |-> what, to |-> to, checked |-> c.unsafe = 0, seen |-> Seen(c)]
Entry(c) == Item("entry", NoSymbol, c)
\* The last item of sym's code was generated as the hint was.
Mark(sym) == hinted' = IF hint THEN hinted \cup {<<sym, Len(code'[sym])>>} ELSE hinted

Start(sym, c) ==
  /\ cx' = c
  /\ code' = Extended(code, sym, IF sym \in DOMAIN code THEN Append(code[sym], Entry(c))
                                 ELSE <<Entry(c)>>)
  /\ Mark(sym)

\* The context of a method's body; its scopes are its own.  (Fault: the module
\* stays that of the function that asked.)
MethodContext_Asker(name, m, c) ==
  LET sym == Symbol(name, m.name)
  IN [c EXCEPT !.fn = sym, !.block = sym, !.gives = m.gives, !.struct = name,
               !.inline = m.inline, !.cleanups = << << >> >>,
               !.locals = IF m.inline THEN <<"this">> ELSE << >>]
MethodContext(name, m, c) ==
  LET sym == Symbol(name, m.name)
  IN [c EXCEPT !.fn = sym, !.block = sym, !.gives = m.gives, !.struct = name,
               !.inline = m.inline, !.module = m.module, !.cleanups = << << >> >>,
               !.locals = IF m.inline THEN <<"this">> ELSE << >>]

\* A method written in the struct has a receiver, one written outside has none.
InstantiateMethod ==
  /\ Doing("methods") /\ MethodDue /\ Missing = {}
  /\ IF MethodSymbol \in symbols
     THEN /\ todo' = <<Again>> \o Later
          /\ UNCHANGED <<cx, structs, symbols, code, hinted>>
     ELSE /\ symbols' = symbols \cup {MethodSymbol}
          /\ structs' = [structs EXCEPT ![Task.name].destructor =
                                          @ \/ (NextMethod.inline /\ NextMethod.name = "rem")]
          /\ Start(MethodSymbol, MethodContext(Task.name, NextMethod, cx))
          /\ todo' = <<[do |-> "method", of |-> MethodSymbol, at |-> 1, before |-> cx], Again>>
                     \o Later
  /\ UNCHANGED <<source, refusals, hint>>

EndMethod ==
  /\ AtEnd("method")
  /\ cx' = [cx EXCEPT !.gives = Task.before.gives, !.module = Task.before.module,
                      !.fn = NoSymbol, !.struct = << >>, !.cleanups = << >>]
  /\ todo' = Later
  /\ UNCHANGED <<source, structs, symbols, code, refusals, hints>>

FinishStruct ==
  /\ Doing("methods") /\ ~MethodDue
  /\ cx' = Restored(Task.saved, cx)
  /\ todo' = Later
  /\ UNCHANGED <<source, structs, symbols, code, refusals, hints>>

-------------------------------------------------------------------------------
(* Statements of a body *)

\* What a statement leaves behind for those that follow it.
After(s, c) ==
  CASE s.s = "loop"   -> [c EXCEPT !.loop = @ + 1]
    [] s.s = "unsafe" -> [c EXCEPT !.unsafe = @ + 1]
    [] s.s = "defer"  -> [c EXCEPT !.deferring = TRUE]
    [] s.s = "end"    -> (CASE s.of = "loop"   -> [c EXCEPT !.loop = @ - 1]
                            [] s.of = "unsafe" -> [c EXCEPT !.unsafe = @ - 1]
                            [] s.of = "defer"  -> [c EXCEPT !.deferring = FALSE]
                            [] OTHER           -> c)
    [] OTHER          -> c

\* The value behind an initializer has no hint any more, whatever was set
\* before.  (Fault: the hint stays.)
HintAfter_Kept(s) == hint \/ s.s = "init"
HintAfter(s) == IF s.s = "end" /\ s.of = "init" THEN FALSE ELSE hint \/ s.s = "init"

WithLocal(c, local, destroyed) ==
  [c EXCEPT !.locals = Append(@, local),
            !.cleanups = IF destroyed THEN <<Append(@[1], local)>> ELSE @]

Generate(what, to) ==
  /\ code' = [code EXCEPT ![cx.block] = Append(@, Item(what, to, cx))]
  /\ Mark(cx.block)
  /\ todo' = <<Again>> \o Later

\* Loops, unsafe and deferred blocks, values, and what only looks at the context:
\* break, yield and ret.
Simple ==
  /\ Standing(Blocks \cup {"end", "break", "yield", "ret"})
  /\ Generate(Stmt.s, NoSymbol)
  /\ cx' = After(Stmt, cx)
  /\ hint' = HintAfter(Stmt)
  /\ UNCHANGED <<source, structs, symbols, refusals>>

\* gen_local_var: a struct that has a destructor is destroyed with its scope.
Local ==
  /\ Standing({"local"}) /\ Missing = {}
  /\ LET n == Resolved(cx.meaning, Stmt.type.name)
         value == HeldByValue(Stmt.type, n)
         destroyed == value /\ Known(n) /\ structs[n].destructor
     IN /\ Generate("local", Function(n))
        /\ cx' = WithLocal(cx, Stmt.local, destroyed)
        /\ Refuse((IF value /\ ~Known(n) THEN {"unknown"} ELSE {})
                  \cup (IF value /\ Known(n) /\ Open(n) THEN {"opaque"} ELSE {}))
  /\ UNCHANGED <<source, structs, symbols, hint>>

\* this.method(): found if it is declared already.
OwnMethod ==
  /\ Standing({"own"})
  /\ LET sym == Symbol(cx.struct, Stmt.method)
     IN /\ Generate("own", sym)
        /\ Refuse(IF sym \in symbols THEN {} ELSE {"forward"})
  /\ UNCHANGED <<source, cx, structs, symbols, hint>>

\* gen_call takes the name as it is written.
Callee(s) == s.name

CallFunction ==
  /\ Standing({"call"})
  /\ LET sym == Function(Callee(Stmt))
     IN /\ sym \in symbols \/ ~Instantiable(source, "function", sym.of)
        /\ Generate("call", sym)
        /\ Refuse(IF sym \in symbols THEN {} ELSE {"undefined"})
  /\ UNCHANGED <<source, cx, structs, symbols, hint>>

InstantiateFunction ==
  /\ Standing({"call"})
  /\ LET n == Callee(Stmt)
         t == Template(source, "function", n)
     IN /\ Function(n) \notin symbols /\ Instantiable(source, "function", n)
        /\ cx' = [Fresh(cx) EXCEPT !.meaning = Meaning(t, n)]
        /\ todo' = <<[do |-> "instance", name |-> n, saved |-> cx]>> \o todo
  /\ UNCHANGED <<source, structs, symbols, code, refusals, hints>>

FunctionContext(sym, f, c) ==
  [c EXCEPT !.fn = sym, !.block = sym, !.gives = f.gives, !.struct = << >>, !.inline = FALSE,
            !.module = IF f.module = "" THEN c.module ELSE f.module,
            !.coro = IF f.coroutine THEN sym ELSE NoSymbol, !.cleanups = << << >> >>]

\* Declared when the types of its signature are there and before its body is
\* generated: it may call itself.
DeclareFunction ==
  /\ Doing("instance") /\ Missing = {}
  /\ LET sym == Function(Task.name)
     IN /\ symbols' = symbols \cup {sym}
        /\ Start(sym, FunctionContext(sym, Declaration(source, sym), cx))
        /\ todo' = <<[do |-> "function", of |-> sym, at |-> 1, before |-> cx,
                      saved |-> Task.saved]>> \o Later
  /\ UNCHANGED <<source, structs, refusals, hint>>

EndFunction ==
  /\ AtEnd("function")
  /\ LET c == [cx EXCEPT !.module = Task.before.module, !.coro = Task.before.coro]
     IN cx' = Restored(Task.saved, c)
  /\ todo' = Later
  /\ UNCHANGED <<source, structs, symbols, code, refusals, hints>>

-------------------------------------------------------------------------------
(* The passes of the generator *)

\* Pass 1, which is not reached with an error in a type's layout.
DeclareAll ==
  /\ Doing("declare")
  /\ symbols' = {Function(source.functions[i].name) : i \in DOMAIN source.functions} \cup symbols
  /\ todo' = IF refusals # {} THEN << >> ELSE Later
  /\ UNCHANGED <<source, cx, structs, code, refusals, hints>>

\* Pass 2: what the program's own functions start with.
PlainContext(sym, f, c) ==
  [FunctionContext(sym, f, c) EXCEPT !.main = f.name = <<"main">>, !.module = f.module,
                                     !.locals = << >>]

GenerateFunction ==
  /\ Doing("generate")
  /\ LET sym == Function(Task.name)
     IN /\ Start(sym, PlainContext(sym, Declaration(source, sym), cx))
        /\ todo' = <<[do |-> "plain", of |-> sym, at |-> 1, before |-> cx]>> \o Later
  /\ UNCHANGED <<source, structs, symbols, refusals, hint>>

EndPlain ==
  /\ AtEnd("plain")
  /\ cx' = [cx EXCEPT !.coro = Task.before.coro, !.cleanups = << >>]
  /\ todo' = Later
  /\ UNCHANGED <<source, structs, symbols, code, refusals, hints>>

Passes(p) ==
  [i \in DOMAIN p.structs |-> Layout(p.structs[i].name)]
  \o <<[do |-> "declare"]>>
  \o [i \in DOMAIN p.functions |-> [do |-> "generate", name |-> p.functions[i].name]]

GenericsInit ==
  /\ source \in Sources
  /\ todo = Passes(source)
  /\ cx = Resting
  /\ structs = [n \in {source.structs[i].name : i \in DOMAIN source.structs} |->
                  [layout |-> "pending", fields |-> FieldsOf(source, n), bad |-> FALSE, destructor |-> FALSE]]
  /\ symbols = {} /\ code = << >> /\ refusals = {}
  /\ hint = FALSE /\ hinted = {}

GenericsNext ==
  \/ LayoutKnown \/ LayoutStruct \/ LayoutField \/ CheckField \/ FinishLayout
  \/ InstantiateStruct \/ InstantiateMethod \/ EndMethod \/ FinishStruct
  \/ Simple \/ Local \/ OwnMethod \/ CallFunction
  \/ InstantiateFunction \/ DeclareFunction \/ EndFunction
  \/ DeclareAll \/ GenerateFunction \/ EndPlain

GenericsSpec == GenericsInit /\ [][GenericsNext]_gnVars

-------------------------------------------------------------------------------
(* What an instance means by itself *)

\* The types put for the parameters, all at once.
Closed(meaning, name) ==
  [i \in DOMAIN name |-> IF name[i] \in DOMAIN meaning THEN meaning[name[i]] ELSE name[i]]

MeaningOf(p, sym) ==
  IF Len(sym.of) = 1 THEN << >>
  ELSE Meaning(Template(p, IF sym.method = "" THEN "function" ELSE "struct", sym.of), sym.of)

\* A type that declares rem is destroyed, wherever it is used.
Destroyed(p, type, n) ==
  /\ HeldByValue(type, n) /\ Instantiable(p, "struct", n)
  /\ \E i \in DOMAIN Methods(p, n) : Methods(p, n)[i].name = "rem" /\ Methods(p, n)[i].inline

OwnContext(p, sym) ==
  LET d == Declaration(p, sym)
  IN [Resting EXCEPT !.fn = sym, !.gives = d.gives, !.inline = d.inline, !.module = d.module,
                     !.struct = IF sym.method = "" THEN << >> ELSE sym.of,
                     !.main = sym.of = <<"main">>, !.cleanups = << << >> >>,
                     !.coro = IF d.coroutine THEN sym ELSE NoSymbol,
                     !.locals = IF d.inline THEN <<"this">> ELSE << >>,
                     !.meaning = MeaningOf(p, sym)]

\* The context a body has after its first i statements, with nothing around it.
Following(p, s, c) ==
  IF s.s = "local"
  THEN WithLocal(c, s.local, Destroyed(p, s.type, Closed(c.meaning, s.type.name)))
  ELSE After(s, c)
Contexts(p, sym) ==
  LET context[i \in 0..Len(BodyOf(p, sym))] ==
        IF i = 0 THEN OwnContext(p, sym) ELSE Following(p, BodyOf(p, sym)[i], context[i - 1])
  IN context
ContextOf(p, sym, n) == Contexts(p, sym)[n]

Goal(s, c) ==
  CASE s.s = "local" -> Function(Closed(c.meaning, s.type.name))
    [] s.s = "call"  -> Function(Closed(c.meaning, s.name))
    [] s.s = "own"   -> Symbol(c.struct, s.method)
    [] OTHER         -> NoSymbol

\* The code of a function that is generated with nothing around it but as many
\* unsafe blocks.
ItemAlone(p, sym, i, outer) ==
  LET Around(c) == [c EXCEPT !.unsafe = @ + outer]
  IN IF i = 1 THEN Entry(Around(ContextOf(p, sym, 0)))
     ELSE LET s == BodyOf(p, sym)[i - 1]
              c == ContextOf(p, sym, i - 2)
          IN Item(s.s, Goal(s, c), Around(c))
CodeAlone(p, sym, checked) ==
  [i \in 1..Len(BodyOf(p, sym)) + 1 |-> ItemAlone(p, sym, i, IF checked THEN 0 ELSE 1)]

\* What a program needs: types, as the symbol "type" of their name, and functions.
TypeNode(n) == Symbol(n, "type")
TypeNodes(types, meaning) ==
  {TypeNode(Closed(meaning, types[i].name)) : i \in {j \in DOMAIN types : ~types[j].ptr}}
    \ {TypeNode(n) : n \in BuiltIn}
FieldNodes(p, n) ==
  IF StructNamed(p, n) # {} \/ Instantiable(p, "struct", n)
  THEN TypeNodes(FieldsOf(p, n), MeaningOf(p, TypeNode(n))) ELSE {}
MethodNodes(p, n) ==
  IF Instantiable(p, "struct", n) THEN {Symbol(n, Methods(p, n)[i].name) : i \in DOMAIN Methods(p, n)} ELSE {}
SignatureNodes(p, sym) == TypeNodes(Declaration(p, sym).types, MeaningOf(p, sym))
LocalNodes(p, sym) ==
  LET b == BodyOf(p, sym)
  IN UNION {TypeNodes(<<b[i].type>>, MeaningOf(p, sym)) : i \in {j \in DOMAIN b : b[j].s = "local"}}
Callees(p, sym) ==
  LET b == BodyOf(p, sym)
  IN {Function(Closed(MeaningOf(p, sym), b[i].name)) : i \in {j \in DOMAIN b : b[j].s = "call"}}
Defined(p, sym) == Plain(p, sym.of) # {} \/ Instantiable(p, "function", sym.of)

Needs(p, x) ==
  IF x.method = "type" THEN FieldNodes(p, x.of) \cup MethodNodes(p, x.of)
  ELSE SignatureNodes(p, x) \cup LocalNodes(p, x) \cup {f \in Callees(p, x) : Defined(p, f)}
Reaches(p, nodes) ==
  LET reaches[k \in 0..MaxChain + 1] ==
        IF k = 0 THEN nodes
        ELSE LET before == reaches[k - 1] IN before \cup UNION {Needs(p, x) : x \in before}
  IN reaches
Reached(p, nodes) == Reaches(p, nodes)[CHOOSE k \in 0..MaxChain : Reaches(p, nodes)[k + 1] = Reaches(p, nodes)[k]]

Contains(p, nodes) ==
  LET contains[k \in 0..MaxChain + 1] ==
        IF k = 0 THEN nodes
        ELSE LET before == contains[k - 1] IN before \cup UNION {FieldNodes(p, x.of) : x \in before}
  IN contains
Inside(p, nodes) == Contains(p, nodes)[CHOOSE k \in 0..MaxChain : Contains(p, nodes)[k + 1] = Contains(p, nodes)[k]]

Structs(p) == {TypeNode(p.structs[i].name) : i \in DOMAIN p.structs}
Functions(p) == {Function(p.functions[i].name) : i \in DOMAIN p.functions}
Needed(p) == Reached(p, Structs(p) \cup Functions(p))
TypesOf(nodes) == {x \in nodes : x.method = "type"}
FunctionsOf(nodes) == nodes \ TypesOf(nodes)

\* What a program can be refused for: types that contain themselves, names that
\* mean nothing; and, because instances are generated where they are first
\* named, bodies asked for by a struct's layout, which find no function declared
\* and no type they are a part of complete; methods that call later ones.
Deserved(p) ==
  LET early == FunctionsOf(Reached(p, Structs(p)))
      Within(x) == FunctionsOf(Reached(p, FieldNodes(p, x.of)))
      Before(sym) ==
        LET ms == Template(p, "struct", sym.of).methods
            k == CHOOSE i \in DOMAIN ms : ms[i].name = sym.method
        IN {ms[i].name : i \in 1..k}
      Forward(sym) == \E i \in DOMAIN Declaration(p, sym).body :
                        LET s == Declaration(p, sym).body[i]
                        IN s.s = "own" /\ s.method \notin Before(sym)
  IN {why \in {"recursive", "unknown", "undefined", "opaque", "forward"} :
        CASE why = "recursive" -> \E x \in TypesOf(Needed(p)) : x \in Inside(p, FieldNodes(p, x.of))
          [] why = "unknown"   -> \E x \in TypesOf(Needed(p)) :
                                    StructNamed(p, x.of) = {} /\ ~Instantiable(p, "struct", x.of)
          [] why = "undefined" -> \/ \E f \in FunctionsOf(Needed(p)) : \E g \in Callees(p, f) : ~Defined(p, g)
                                  \/ \E f \in early : Callees(p, f) \cap Functions(p) # {}
          [] why = "opaque"    -> \/ \E x \in TypesOf(Needed(p)) : \E f \in Within(x) : x \in LocalNodes(p, f)
                                  \/ \E f \in early : LocalNodes(p, f) \cap Structs(p) # {}
          [] why = "forward"   -> \E f \in FunctionsOf(Needed(p)) : f.method # "" /\ Forward(f)}

-------------------------------------------------------------------------------
(* The programs for which nothing is left to the order of the requests *)

Ends(p, nodes) == \E k \in 0..MaxChain : Reaches(p, nodes)[k + 1] = Reaches(p, nodes)[k]

\* Declared as the names of symbols and of types expect it.
WellDeclared(p) ==
  /\ \A i, j \in DOMAIN p.functions :
       /\ Len(p.functions[i].name) = 1 /\ p.functions[i].types = << >> /\ ~p.functions[i].inline
       /\ p.functions[i].name = p.functions[j].name => i = j
  /\ \A i \in DOMAIN p.structs : Len(p.structs[i].name) = 1
  /\ \A t \in p.templates :
       IF t.kind = "function" THEN ~t.inline /\ t.module # ""
       ELSE \A i, j \in DOMAIN t.methods :
              /\ t.methods[i].name \notin {"", "type"} /\ ~t.methods[i].coroutine
              /\ t.methods[i].name = t.methods[j].name => i = j

\* A destructor comes first: the methods after it destroy their locals.
DestroysFirst(t) ==
  t.kind = "struct" =>
    \A i \in DOMAIN t.methods :
      t.methods[i].inline /\ t.methods[i].name = "rem" => i = 1 /\ t.methods[i].types = << >>

\* A parameter stands for a whole type or for an argument, in its own template.
Parameters(t) == {t.params[i] : i \in DOMAIN t.params}
UnitsOf(t) == IF t.kind = "function" THEN {t} ELSE {t.methods[i] : i \in DOMAIN t.methods}
WrittenTypes(u) ==
  {u.types[i] : i \in DOMAIN u.types}
    \cup {u.body[i].type : i \in {j \in DOMAIN u.body : u.body[j].s = "local"}}
WrittenCalls(u) == {u.body[i].name : i \in {j \in DOMAIN u.body : u.body[j].s = "call"}}
Substitutes(t) ==
  /\ \A u \in UnitsOf(t) :
       /\ \A type \in WrittenTypes(u) : Len(type.name) > 1 => type.name[1] \notin Parameters(t)
       /\ \A name \in WrittenCalls(u) : \A i \in DOMAIN name : name[i] \notin Parameters(t)
  /\ t.kind = "struct" =>
       \A i \in DOMAIN t.fields : Len(t.fields[i].name) > 1 => t.fields[i].name[1] \notin Parameters(t)
NoParameter(p) ==
  \A i \in DOMAIN p.structs : \A j \in DOMAIN p.structs[i].fields : \A t \in p.templates :
    \A k \in DOMAIN p.structs[i].fields[j].name : p.structs[i].fields[j].name[k] \notin Parameters(t)

\* Blocks end where they began.
Balanced(p, sym) ==
  LET n == Len(BodyOf(p, sym))
  IN /\ ContextOf(p, sym, n).loop = 0 /\ ContextOf(p, sym, n).unsafe = 0 /\ ~ContextOf(p, sym, n).deferring
     /\ \A i \in 0..n : ContextOf(p, sym, i).unsafe \in Nat

\* The types of a signature exist and need no instance of the function itself.
SignatureFirst(p, sym) ==
  /\ \A x \in SignatureNodes(p, sym) : StructNamed(p, x.of) # {} \/ Instantiable(p, "struct", x.of)
  /\ Ends(p, SignatureNodes(p, sym)) /\ sym \notin Reached(p, SignatureNodes(p, sym))

WellWritten(p) ==
  /\ WellDeclared(p) /\ NoParameter(p)
  /\ \A t \in p.templates : DestroysFirst(t) /\ Substitutes(t)
  /\ Ends(p, Structs(p) \cup Functions(p))
  /\ \A sym \in FunctionsOf(Needed(p)) : Balanced(p, sym) /\ SignatureFirst(p, sym)

-------------------------------------------------------------------------------
(* Properties *)

\* Whoever asks for an instance first, and in the middle of what: at the end
\* there is one copy of every function the program needs and none else, and of
\* the context the generator saves each has its own - its loops, scopes, locals,
\* module, coroutine and meaning of the type parameters - and so has again the
\* function that asked.  Of that context the checks of unsafe code are what an
\* instance takes from who asked first.  A refusal has a reason.
\* (try_instantiate_generic and try_instantiate_generic_fn, cg_generics.c:237)
InstancesAlone ==
  todo = << >> =>
    IF refusals # {} THEN refusals \subseteq Deserved(source)
    ELSE /\ DOMAIN code = FunctionsOf(Needed(source))
         /\ {TypeNode(n) : n \in DOMAIN structs} = TypesOf(Needed(source))
         /\ \A n \in DOMAIN structs : Sized(n)
         /\ \A f \in DOMAIN code :
              /\ code[f] = CodeAlone(source, f, code[f][1].checked)
              /\ code[f][1].checked \/ \E g \in DOMAIN code \ {f} :
                                         \E i \in DOMAIN code[g] : ~code[g][i].checked

\* The statement of item i, and those before it in the same value.
Closes(s) == s.s = "end" /\ s.of = "init"
InValue(p, f, i) ==
  LET b == BodyOf(p, f)
  IN {k \in 1 .. i - 1 : \E first \in 1 .. i - 2 :
        /\ b[first].s = "init" /\ first < k
        /\ \A j \in first .. i - 2 : ~Closes(b[j])}
\* The instances that are made, at the latest, for statement k of f.
MadeFor(p, f, k) ==
  LET s == BodyOf(p, f)[k]
      nodes == CASE s.s = "local" -> TypeNodes(<<s.type>>, MeaningOf(p, f))
                 [] s.s = "call"  -> {Function(Closed(MeaningOf(p, f), s.name))}
                 [] OTHER         -> {}
  IN {g \in FunctionsOf(Reached(p, nodes)) : Len(g.of) > 1}

\* The hint of a value's type is lost and passed on in one way each: a value goes
\* on without it once an instance with a value of its own was made for it, and an
\* instance made for a value has it until the end of its own first value.
HintsSound ==
  todo = << >> /\ refusals = {} =>
    \A f \in DOMAIN code : \A i \in DOMAIN code[f] :
      IF <<f, i>> \in hinted
      THEN InValue(source, f, i) = {} =>
             /\ \A k \in 1 .. i - 2 : ~Closes(BodyOf(source, f)[k])
             /\ \E g \in DOMAIN code \ {f} : \E j \in DOMAIN code[g] :
                  \E k \in InValue(source, g, j) : f \in MadeFor(source, g, k)
      ELSE InValue(source, f, i) # {} =>
             \E k \in InValue(source, f, i) : \E g \in MadeFor(source, f, k) :
               \E j \in DOMAIN BodyOf(source, g) : Closes(BodyOf(source, g)[j])

InstancesSound == InstancesAlone /\ HintsSound
===============================================================================
