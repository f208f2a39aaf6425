------------------------------ MODULE Interfaces ------------------------------
(* Interfaces: the declarations are entered and their inheritance is flattened   *)
(* into groups of methods that share a name, the signatures of a group are       *)
(* compared, a struct is bound to every interface it declares, and a call goes   *)
(* through the slot of a table.                                                  *)
EXTENDS Integers, FiniteSets, Sequences
LOCAL INSTANCE SequencesExt
LOCAL INSTANCE FiniteSetsExt
LOCAL INSTANCE Graphs

CONSTANTS
  Programs,         \* the modules to compile: sequences of declarations
  MaxParents, MaxMethods, MaxInheritance,  \* IfaceMaxParents, ...Methods, ...Depth
  MaxPointers,      \* levels of a pointer
  MaxNesting,       \* IfaceMaxMetadataDepth
  NameSize, MaxName, \* the length of each name, and of a formatted one
  CalledNames       \* the methods that calls name

VARIABLES
  program,     \* the declarations, in their order
  stage,       \* what the compiler has done with them
  ifaceRegistry, \* the interfaces: their parents, state, depth and groups
  bindings,    \* of a struct and an interface: the method of each group
  tables,      \* the tables made: of a binding, a function for each slot
  faults,      \* what has been reported
  descriptor,  \* an interface value: an object and a table, or neither
  called       \* what the last call did

ifVars == <<program, stage, ifaceRegistry, bindings, tables, faults, descriptor, called>>

Nobody == 0   \* no index
Unqualified == "unqualified"
Default == "default"  \* StorageDefault

InterfacesInit ==
  /\ program = <<>> /\ stage = "start" /\ ifaceRegistry = <<>>
  /\ bindings = [b \in {} |-> {}] /\ tables = [b \in {} |-> <<>>]
  /\ faults = {} /\ descriptor = <<>> /\ called = <<>>

-----------------------------------------------------------------------------
(* Looking declarations up.  A method is named by its declaration and its place. *)

Least(S) == IF S = {} THEN Nobody ELSE Min(S)
ActiveTypes == {d \in DOMAIN program : program[d].active /\ program[d].kind # "function"}
TypesNamed(n) == {d \in ActiveTypes : program[d].name = n}
MethodOf(o) == program[o[1]].methods[o[2]]
\* The methods of a declaration that its conditions leave in, in their order.
ActiveMethods(d) ==
  SelectSeq([k \in DOMAIN program[d].methods |-> <<d, k>>], LAMBDA o : MethodOf(o).active)
InterfaceNamed(reg, n) == Least({i \in DOMAIN reg : program[reg[i].decl].name = n})
GroupNamed(groups, n) == Least({g \in DOMAIN groups : groups[g].name = n})

-----------------------------------------------------------------------------
(* Types of a signature.  An alias is expanded layer by layer. *)

IsUser(t) == t.base \in DOMAIN NameSize
Refused(why) == [ok |-> FALSE, why |-> why]
OutermostRefused(t, result, layer) ==
  /\ ~layer /\ t.perms = <<>>
  /\ \/ t.nullable
     \/ ~result /\ t.base = "void"
     \/ /\ t.nominal # Nobody
        /\ program[t.nominal].kind \notin {"enum", "interface"} \/ program[t.nominal].payload

RECURSIVE ResolveType(_, _, _, _)
ResolveType(t, result, layer, seen) ==
  LET named == TypesNamed(t.base)
      d == CHOOSE x \in named : TRUE
      whole == [ok |-> TRUE, base |-> IF IsUser(t) THEN "user" ELSE t.base, nominal |-> Nobody,
                perms |-> t.perms, nullable |-> t.nullable, domain |-> t.storage]
      Checked(x) == IF OutermostRefused(x, result, layer) THEN Refused("by value") ELSE x
      Around(inner) ==
        IF ~inner.ok THEN inner
        ELSE IF t.perms # <<>> /\ inner.nullable THEN Refused("inner nullable")
        ELSE IF Len(t.perms \o inner.perms) > MaxPointers THEN Refused("depth")
        ELSE Checked([inner EXCEPT !.perms = t.perms \o @, !.nullable = t.nullable \/ @,
                                   !.domain = t.storage])
  IN CASE (result \/ layer) /\ t.storage # Default -> Refused("storage")
       [] t.shape # "plain" \/ Len(t.perms) > MaxPointers -> Refused("shape")
       [] ~IsUser(t) -> Checked(whole)
       [] IsUser(t) /\ Cardinality(named) # 1 -> Refused("nominal")
       [] OTHER ->
            IF program[d].generic THEN Refused("generic")
            ELSE IF program[d].kind # "alias" THEN Checked([whole EXCEPT !.nominal = d])
            ELSE IF d \in seen \/ Cardinality(seen) = MaxNesting THEN Refused("cycle")
            ELSE Around(ResolveType(program[d].of, result, TRUE, seen \union {d}))

ParameterType_Raw(p) ==
  LET t == ResolveType(p.type, FALSE, FALSE, {}) IN
    IF ~t.ok THEN t ELSE IF p.effects # {} THEN Refused("effects")
    ELSE [t EXCEPT !.domain = IF p.type.storage # Default THEN p.type.storage ELSE p.storage]
\* A parameter: its domain is written in the type or with the name; on the
\* stack is where a number is anyway.
ParameterType(p) ==
  LET t == ResolveType(p.type, FALSE, FALSE, {})
      domain == IF p.type.storage # Default THEN p.type.storage ELSE p.storage
      number == t.perms = <<>> /\ (t.nominal = Nobody \/ program[t.nominal].kind = "enum")
  IN IF ~t.ok THEN t
     ELSE IF p.effects # {} THEN Refused("effects")
     ELSE IF Default \notin {p.type.storage, p.storage} /\ p.type.storage # p.storage THEN Refused("storage")
     ELSE IF t.perms = <<>> /\ domain = "heap" THEN Refused("heap value")
     ELSE [t EXCEPT !.domain = IF number /\ domain = "stack" THEN Default ELSE domain]

\* What a method promises; not ok if a part of it is not supported.
Signature(o) ==
  LET m == MethodOf(o)
      result == ResolveType(m.results[1], TRUE, FALSE, {})
      params == [k \in DOMAIN m.params |-> ParameterType(m.params[k])]
  IN IF m.effects # {} \/ Len(m.results) # 1 THEN Refused("effects")
     ELSE [ok |-> result.ok /\ \A k \in DOMAIN params : params[k].ok,
           result |-> result, params |-> params]

TypesEqual_Shape(a, b) ==
  a.base = b.base /\ a.nominal = b.nominal /\ a.domain = b.domain /\ Len(a.perms) = Len(b.perms)
TypesEqual(a, b) ==
  /\ a.base = b.base /\ a.nominal = b.nominal /\ a.domain = b.domain
  /\ a.nullable = b.nullable /\ a.perms = b.perms
SignaturesEqual(a, b) ==
  /\ a.ok /\ b.ok
  /\ Len(a.params) = Len(b.params) /\ TypesEqual(a.result, b.result)
  /\ \A k \in DOMAIN a.params : TypesEqual(a.params[k], b.params[k])

-----------------------------------------------------------------------------
(* Entering the declarations: forward parents are allowed. *)

\* The inspection of a method before its types are known: through aliases,
\* elements, results and arguments.
RECURSIVE MetadataFaulty(_, _, _)
MetadataFaulty(t, result, aliases) ==
  LET named == {d \in TypesNamed(t.base) : program[d].kind = "alias"} IN
  \/ result /\ t.storage # Default
  \/ t.nullable /\ t.perms = <<>> /\ t.shape \in {"callback", "slice"}
  \/ \E part \in t.parts : MetadataFaulty(part.type, part.result, aliases)
  \/ t.shape = "plain" /\ Cardinality(named) > 1
  \/ /\ t.shape = "plain" /\ Cardinality(named) = 1
     /\ \E d \in named :
          \/ d \in aliases \/ Cardinality(aliases) = MaxNesting
          \/ MetadataFaulty(program[d].of, result, aliases \union {d})

MethodMetadataFaulty(m) ==
  \/ \E k \in DOMAIN m.results : MetadataFaulty(m.results[k], TRUE, {})
  \/ \E k \in DOMAIN m.params : MetadataFaulty(m.params[k].type, FALSE, {})

\* A set with the name of what is wrong, if it is.
When(wrong, name) == IF wrong THEN {name} ELSE {}

OwnFaults(d) ==
  LET methods == ActiveMethods(d) IN
    When(program[d].generic, "generic interface")
    \union When(Len(program[d].methods) > MaxMethods, "own methods")
    \union When(\E k \in DOMAIN methods : MethodMetadataFaulty(MethodOf(methods[k])), "metadata")
    \union When(\E j, k \in DOMAIN methods : j < k /\ MethodOf(methods[j]).name = MethodOf(methods[k]).name,
                "own duplicate")

Entered(d) ==
  [decl |-> d, parents |-> <<>>, state |-> "unvisited", groups |-> <<>>, depth |-> 0]

RegisterDecl(st, d) ==
  LET decl == program[d]
      report(fs) == [st EXCEPT !.faults = @ \union fs]
      constraint == When(decl.constrained, "constraint")
  IN IF ~decl.active THEN st
     ELSE IF Len(decl.parents) > MaxParents THEN report({"parents"})
     ELSE IF decl.kind # "interface" THEN report(constraint)
     ELSE IF InterfaceNamed(st.reg, decl.name) # Nobody THEN report(constraint \union {"duplicate interface"})
     ELSE [reg |-> Append(st.reg, Entered(d)), faults |-> st.faults \union constraint \union OwnFaults(d)]

\* The second pass: names that an interface shares, and the parents' indices.
ParentFaults(reg, d) ==
  LET decl == program[d]
      own == InterfaceNamed(reg, decl.name)
  IN When(own # Nobody /\ decl.kind # "interface", "ambiguous name")
     \union When(\E j, k \in DOMAIN decl.parents : j < k /\ decl.parents[j] = decl.parents[k], "duplicate parent")
     \union When(\E k \in DOMAIN decl.parents : InterfaceNamed(reg, decl.parents[k]) = Nobody, "unknown parent")

ResolveParents(st) ==
  LET checked == {d \in ActiveTypes : Len(program[d].parents) <= MaxParents} IN
    [reg |-> [i \in DOMAIN st.reg |->
                [st.reg[i] EXCEPT !.parents = [k \in DOMAIN program[st.reg[i].decl].parents |->
                                                 InterfaceNamed(st.reg, program[st.reg[i].decl].parents[k])]]],
     faults |-> st.faults \union UNION {ParentFaults(st.reg, d) : d \in checked}]

-----------------------------------------------------------------------------
(* Flattening: a depth-first walk; an interface that is being visited is met   *)
(* again only on a cycle, one that was flattened is not entered again.         *)

Spoilt(st, i, why) ==
  [reg |-> [st.reg EXCEPT ![i].state = "invalid"], faults |-> st.faults \union {why}]
AddOrigin_First(i, st, o) ==
  IF st.reg[i].state = "invalid" \/ GroupNamed(st.reg[i].groups, MethodOf(o).name) # Nobody THEN st
  ELSE IF Len(st.reg[i].groups) = MaxMethods THEN Spoilt(st, i, "methods")
  ELSE [st EXCEPT !.reg[i].groups = Append(@, [name |-> MethodOf(o).name, origins |-> <<o>>])]
AddOrigin(i, st, o) ==
  LET groups == st.reg[i].groups
      g == GroupNamed(groups, MethodOf(o).name)
  IN IF st.reg[i].state = "invalid" THEN st
     ELSE IF g = Nobody /\ Len(groups) = MaxMethods THEN Spoilt(st, i, "methods")
     ELSE IF g = Nobody
          THEN [st EXCEPT !.reg[i].groups = Append(@, [name |-> MethodOf(o).name, origins |-> <<o>>])]
     ELSE IF Contains(groups[g].origins, o) THEN st
     ELSE [st EXCEPT !.reg[i].groups[g].origins = Append(@, o)]
AddOrigins(st, i, os) == FoldLeft(LAMBDA s, o : AddOrigin(i, s, o), st, os)
OriginsOf_Last(groups) == FlattenSeq([g \in DOMAIN groups |-> groups[Len(groups) + 1 - g].origins])
OriginsOf(groups) == FlattenSeq([g \in DOMAIN groups |-> groups[g].origins])

InheritFrom_Unbounded(st, i, p) ==
  IF st.reg[p].state # "ready" THEN [st EXCEPT !.reg[i].state = "invalid"]
  ELSE AddOrigins(st, i, OriginsOf(st.reg[p].groups))
\* One parent that has been flattened.
InheritFrom(st, i, p) ==
  LET height == st.reg[p].depth + 1 IN
    IF st.reg[p].state # "ready" THEN [st EXCEPT !.reg[i].state = "invalid"]
    ELSE IF height > MaxInheritance THEN Spoilt(st, i, "depth")
    ELSE AddOrigins([st EXCEPT !.reg[i].depth = IF height > @ THEN height ELSE @],
                    i, OriginsOf(st.reg[p].groups))
Finished(st, i) ==
  LET own == AddOrigins(st, i, ActiveMethods(st.reg[i].decl)) IN
    IF own.reg[i].state = "invalid" THEN own ELSE [own EXCEPT !.reg[i].state = "ready"]

RECURSIVE FlattenInterface(_, _, _)
FlattenInterface(st, i, depth) ==
  LET Visit(s, p) ==
        IF s.reg[i].state = "invalid" THEN s
        ELSE IF s.reg[p].state = "visiting" THEN Spoilt(s, i, "cycle")
        ELSE InheritFrom(FlattenInterface(s, p, depth + 1), i, p)
  IN IF st.reg[i].state # "unvisited" THEN st
     ELSE IF depth > MaxInheritance THEN Spoilt(st, i, "depth")
     ELSE Finished(FoldLeft(Visit, [st EXCEPT !.reg[i].state = "visiting", !.reg[i].depth = 1],
                            st.reg[i].parents), i)

\* Formatted names: of an interface in its module, of a table and of a
\* qualified method in a struct.
NamesTooLong(reg) ==
  LET InModule(d, extra) == IF program[d].prefix = 0 THEN 0 ELSE program[d].prefix + extra
      Pair(d, i) == NameSize[program[d].name] + NameSize[program[reg[i].decl].name]
      Methods(i) == {NameSize[reg[i].groups[g].name] : g \in DOMAIN reg[i].groups}
  IN \/ \E i \in DOMAIN reg : NameSize[program[reg[i].decl].name] + InModule(reg[i].decl, 2) > MaxName
     \/ \E d \in ActiveTypes :
          /\ program[d].kind = "struct"
          /\ \E k \in DOMAIN program[d].parents :
               LET i == InterfaceNamed(reg, program[d].parents[k]) IN
                 \/ Pair(d, i) + 14 > MaxName
                 \/ \E n \in Methods(i) : Pair(d, i) + n + 2 + InModule(d, 4) > MaxName

-----------------------------------------------------------------------------
(* Comparing and binding. *)

\* The signatures of a group: each of them supported, all of them equal.
GroupFaults(group) ==
  LET first == Signature(group.origins[1])
      others == {Signature(o) : o \in ToSet(group.origins)}
  IN When(\E s \in others : ~s.ok, "signature")
     \union When(first.ok /\ \E s \in others : s.ok /\ ~SignaturesEqual(s, first), "conflict")

RECURSIVE Climb(_, _)
Climb(open, seen) ==
  LET next == UNION {ToSet(ifaceRegistry[i].parents) : i \in open} \ seen IN
    IF next = {} THEN seen ELSE Climb(next, seen \union next)
Descends(child, parent) == parent \in Climb({child}, {child})
Declares(d, i) ==
  \E k \in DOMAIN program[d].parents :
    LET direct == InterfaceNamed(ifaceRegistry, program[d].parents[k]) IN
      direct # Nobody /\ Descends(direct, i)
Qualifier(o) ==
  IF MethodOf(o).qualifier = program[o[1]].name THEN Unqualified ELSE MethodOf(o).qualifier
Group(i, n) == ifaceRegistry[i].groups[GroupNamed(ifaceRegistry[i].groups, n)]
OriginsIntersect(i, j, n) ==
  /\ GroupNamed(ifaceRegistry[i].groups, n) # Nobody /\ GroupNamed(ifaceRegistry[j].groups, n) # Nobody
  /\ ToSet(Group(i, n).origins) \cap ToSet(Group(j, n).origins) # {}

\* The methods of a struct that may stand for a method of an interface: those
\* that name the interface, then those that name none, then those that name a
\* relative which has the method from the same declaration.
NamesRelative(o, i) ==
  LET q == InterfaceNamed(ifaceRegistry, Qualifier(o)) IN
    /\ Qualifier(o) # Unqualified /\ q # Nobody
    /\ Declares(o[1], q) /\ (Descends(q, i) \/ Descends(i, q))
    /\ OriginsIntersect(i, q, MethodOf(o).name)
Priority_Ancestors(o, i) ==
  IF Qualifier(o) = program[ifaceRegistry[i].decl].name THEN 1
  ELSE IF Qualifier(o) = Unqualified THEN 2
  ELSE IF NamesRelative(o, i) /\ Descends(i, InterfaceNamed(ifaceRegistry, Qualifier(o))) THEN 3 ELSE 4
Priority_PlainFirst(o, i) ==
  IF Qualifier(o) = Unqualified THEN 1
  ELSE IF Qualifier(o) = program[ifaceRegistry[i].decl].name THEN 2
  ELSE IF NamesRelative(o, i) THEN 3 ELSE 4
Priority(o, i) ==
  IF Qualifier(o) = program[ifaceRegistry[i].decl].name THEN 1
  ELSE IF Qualifier(o) = Unqualified THEN 2
  ELSE IF NamesRelative(o, i) THEN 3 ELSE 4
Matching(d, i, n, priority) ==
  {o \in ToSet(ActiveMethods(d)) : MethodOf(o).name = n /\ Priority(o, i) = priority}
Selected(d, i, n) ==
  LET tried == {p \in 1..3 : Matching(d, i, n, p) # {}} IN
    IF tried = {} THEN {} ELSE Matching(d, i, n, Min(tried))

QualifierFaults(o) ==
  LET q == InterfaceNamed(ifaceRegistry, Qualifier(o)) IN
    IF Qualifier(o) = Unqualified THEN {}
    ELSE When(q = Nobody \/ ~Declares(o[1], q), "qualifier")
         \union When(q # Nobody /\ GroupNamed(ifaceRegistry[q].groups, MethodOf(o).name) = Nobody, "qualifier")
         \union When(~Signature(o).ok, "signature")
DeclaredTwice(d) ==
  LET methods == ActiveMethods(d) IN
    \E j, k \in DOMAIN methods :
      /\ j < k /\ MethodOf(methods[j]).name = MethodOf(methods[k]).name
      /\ Qualifier(methods[j]) = Qualifier(methods[k])
      /\ Qualifier(methods[k]) # Unqualified \/ program[d].parents # <<>>

BindingFaults(d, i, group) ==
  LET chosen == Selected(d, i, group.name)
      o == CHOOSE x \in chosen : TRUE
  IN IF chosen = {} THEN {"missing"}
     ELSE IF Cardinality(chosen) > 1 THEN {"ambiguous"}
     ELSE IF ~Signature(o).ok THEN {"unsupported"}
     ELSE When(~SignaturesEqual(Signature(o), Signature(group.origins[1])), "mismatch")

Owners ==
  {d \in ActiveTypes : /\ program[d].kind \in {"struct", "union"} /\ ~program[d].generic
                       /\ program[d].parents # <<>> => Cardinality(TypesNamed(program[d].name)) = 1}
OwnerFaults(d) ==
  UNION {QualifierFaults(o) : o \in ToSet(ActiveMethods(d))}
  \union When(DeclaredTwice(d), "duplicate method")
  \union UNION {UNION {BindingFaults(d, i, g) : g \in ToSet(ifaceRegistry[i].groups)} :
                  i \in {j \in DOMAIN ifaceRegistry : Declares(d, j)}}
NamesakeFaults ==
  When(\E d \in ActiveTypes : /\ program[d].kind \in {"struct", "union"} /\ ~program[d].generic
                              /\ program[d].parents # <<>> /\ d \notin Owners, "ambiguous owner")

Bound(d, i) ==
  [g \in DOMAIN ifaceRegistry[i].groups |->
     CHOOSE o \in Selected(d, i, ifaceRegistry[i].groups[g].name) : TRUE]

\* A private method of a struct from a library has its function there.
HasNative(o) == ~(program[o[1]].library /\ MethodOf(o).internal)
LocallyUnavailable(b) == \E g \in DOMAIN bindings[b] : ~HasNative(bindings[b][g])

-----------------------------------------------------------------------------
(* The passes of the compiler, each over all declarations. *)

Proceed(next, found) ==
  /\ faults' = faults \union found
  /\ stage' = IF found = {} THEN next ELSE "refused"

WriteProgram ==
  /\ stage = "start"
  /\ program' \in Programs /\ stage' = "written"
  /\ UNCHANGED <<ifaceRegistry, bindings, tables, faults, descriptor, called>>

RegisterInterfaces ==
  LET st == ResolveParents(FoldLeft(RegisterDecl, [reg |-> <<>>, faults |-> {}],
                                    [d \in DOMAIN program |-> d]))
  IN /\ stage = "written"
     /\ ifaceRegistry' = st.reg /\ Proceed("registered", st.faults)
     /\ UNCHANGED <<program, bindings, tables, descriptor, called>>

FlattenInterfaces ==
  LET st == FoldLeft(LAMBDA s, i : FlattenInterface(s, i, 1), [reg |-> ifaceRegistry, faults |-> {}],
                     [i \in DOMAIN ifaceRegistry |-> i])
  IN /\ stage = "registered"
     /\ ifaceRegistry' = st.reg
     /\ Proceed("flattened",
                IF st.faults # {} THEN st.faults ELSE When(NamesTooLong(st.reg), "name"))
     /\ UNCHANGED <<program, bindings, tables, descriptor, called>>

CompareSignatures ==
  /\ stage = "flattened"
  /\ Proceed("compared", UNION {UNION {GroupFaults(g) : g \in ToSet(ifaceRegistry[i].groups)} :
                                  i \in DOMAIN ifaceRegistry})
  /\ UNCHANGED <<program, ifaceRegistry, bindings, tables, descriptor, called>>

BindOwners ==
  LET found == NamesakeFaults \union UNION {OwnerFaults(d) : d \in Owners}
      related == {b \in Owners \X DOMAIN ifaceRegistry : Declares(b[1], b[2])}
  IN /\ stage = "compared"
     /\ Proceed("bound", found)
     /\ bindings' = IF found = {} THEN [b \in related |-> Bound(b[1], b[2])] ELSE bindings
     /\ UNCHANGED <<program, ifaceRegistry, tables, descriptor, called>>

\* The functions are declared with the types of their contracts, so a binding
\* lacks one only if it is in the library; a table is made of each other one
\* that has slots.
FinishBindings ==
  /\ stage = "bound"
  /\ stage' = "ready"
  /\ tables' = [b \in {c \in DOMAIN bindings : bindings[c] # <<>> /\ ~LocallyUnavailable(c)} |->
                  bindings[b]]
  /\ UNCHANGED <<program, ifaceRegistry, bindings, faults, descriptor, called>>

-----------------------------------------------------------------------------
(* Values and calls.  A use that is refused ends the compilation. *)

RefuseUse(why) ==
  /\ stage' = "use refused" /\ faults' = {why}
  /\ UNCHANGED <<program, ifaceRegistry, bindings, tables, descriptor, called>>
NoTable(b) == b \notin DOMAIN tables
WhyNoTable(b) ==
  IF b \notin DOMAIN bindings THEN "relation"
  ELSE IF LocallyUnavailable(b) THEN "elsewhere" ELSE "empty interface"

Descriptor(i, d, table) == [iface |-> i, object |-> d, table |-> table]

\* A struct's value is copied and becomes a value of an interface.
Box(d, i) ==
  /\ stage = "ready" /\ descriptor = <<>>
  /\ IF program[d].kind # "struct" THEN RefuseUse("not a struct")
     ELSE IF NoTable(<<d, i>>) THEN RefuseUse(WhyNoTable(<<d, i>>))
     ELSE /\ descriptor' = Descriptor(i, d, tables[<<d, i>>])
          /\ UNCHANGED <<program, stage, ifaceRegistry, bindings, tables, faults, called>>

\* The default value of an interface has neither an object nor a table.
DefaultDescriptor(i) ==
  /\ stage = "ready" /\ descriptor = <<>>
  /\ descriptor' = Descriptor(i, Nobody, <<>>)
  /\ UNCHANGED <<program, stage, ifaceRegistry, bindings, tables, faults, called>>

\* Without an object or a table the call traps; else it takes the slot's function.
FunctionIn(value, g) == IF value.object = Nobody THEN <<>> ELSE value.table[g]
ArgumentsAgree(group, arguments) == arguments = Len(Signature(group.origins[1]).params)

\* A call of the method n with so many arguments.
CallThrough(n, arguments) ==
  LET g == GroupNamed(ifaceRegistry[descriptor.iface].groups, n) IN
    /\ stage = "ready" /\ descriptor # <<>> /\ called = <<>>
    /\ IF g = Nobody THEN RefuseUse("unknown method")
       ELSE IF ~ArgumentsAgree(ifaceRegistry[descriptor.iface].groups[g], arguments) THEN RefuseUse("arguments")
       ELSE /\ called' = [iface |-> descriptor.iface, object |-> descriptor.object, method |-> n,
                          function |-> FunctionIn(descriptor, g)]
            /\ UNCHANGED <<program, stage, ifaceRegistry, bindings, tables, faults, descriptor>>

\* d.I.n(): the table is needed, its function is called directly.
CallQualified(d, i, n) ==
  LET g == GroupNamed(ifaceRegistry[i].groups, n) IN
    /\ stage = "ready" /\ called = <<>> /\ descriptor = <<>>
    /\ IF g = Nobody THEN RefuseUse("unknown method")
       ELSE IF NoTable(<<d, i>>) THEN RefuseUse(WhyNoTable(<<d, i>>))
       ELSE /\ called' = [iface |-> i, object |-> d, method |-> n, function |-> bindings[<<d, i>>][g]]
            /\ UNCHANGED <<program, stage, ifaceRegistry, bindings, tables, faults, descriptor>>

InterfacesNext ==
  \/ WriteProgram \/ RegisterInterfaces \/ FlattenInterfaces \/ CompareSignatures \/ BindOwners \/ FinishBindings
  \/ \E d \in Owners, i \in DOMAIN ifaceRegistry : Box(d, i)
  \/ \E i \in DOMAIN ifaceRegistry : DefaultDescriptor(i)
  \/ \E n \in CalledNames, arguments \in 0..1 : CallThrough(n, arguments)
  \/ \E d \in Owners, i \in DOMAIN ifaceRegistry, n \in CalledNames : CallQualified(d, i, n)

-----------------------------------------------------------------------------
(* What an interface promises, said of the declarations as a whole. *)

InterfaceDecls == {d \in ActiveTypes : program[d].kind = "interface"}
ExtendsDirectly(c, d) == d \in InterfaceDecls /\ program[d].name \in ToSet(program[c].parents)
Inheritance == [node |-> InterfaceDecls, edge |-> {e \in InterfaceDecls \X InterfaceDecls : ExtendsDirectly(e[1], e[2])}]
\* The interfaces above each interface, itself included.
Above == LET connected == ConnectionsIn(Inheritance) IN
           [c \in InterfaceDecls |-> {d \in InterfaceDecls : connected[c, d]}]
\* The interfaces at which so many steps upwards begin.
RECURSIVE StepsUp(_)
StepsUp(k) ==
  IF k = 0 THEN InterfaceDecls ELSE {c \in InterfaceDecls : \E d \in StepsUp(k - 1) : ExtendsDirectly(c, d)}
Required(above, c) == UNION {ToSet(ActiveMethods(d)) : d \in above[c]}
NamesOf(os) == {MethodOf(o).name : o \in os}

\* A type as it is written, then what each alias on the way stands for.
IsAlias(t) ==
  /\ t.shape = "plain" /\ Cardinality(TypesNamed(t.base)) = 1
  /\ \A d \in TypesNamed(t.base) : program[d].kind = "alias" /\ ~program[d].generic
RECURSIVE Layers(_, _)
Layers(t, most) ==
  IF most = 0 \/ ~IsAlias(t) THEN <<t>>
  ELSE <<t>> \o Layers(program[CHOOSE d \in TypesNamed(t.base) : TRUE].of, most - 1)
AllLayers(t) == Layers(t, MaxNesting + 1)
PointersOf(layers) == FlattenSeq([k \in DOMAIN layers |-> layers[k].perms])
ByValue(d) == program[d].kind \in {"enum", "interface"} /\ ~program[d].payload
IsSupported(layers, result) ==
  LET last == layers[Len(layers)] IN
    /\ Len(layers) <= MaxNesting + 1 /\ ~IsAlias(last)
    /\ \A k \in DOMAIN layers : layers[k].shape = "plain" /\ (k > 1 \/ result => layers[k].storage = Default)
    /\ IsUser(last) => /\ Cardinality(TypesNamed(last.base)) = 1
                       /\ \A d \in TypesNamed(last.base) : ~program[d].generic
    /\ \A j, k \in DOMAIN layers : j < k /\ layers[k].nullable => layers[j].perms = <<>>
    /\ Len(PointersOf(layers)) <= MaxPointers
    /\ PointersOf(layers) = <<>> =>
         /\ \A k \in DOMAIN layers : ~layers[k].nullable
         /\ result \/ last.base # "void"
         /\ \A d \in TypesNamed(last.base) : ByValue(d)
Denoted(layers, domain) ==
  LET last == layers[Len(layers)] IN
    [base |-> last.base, perms |-> PointersOf(layers), domain |-> domain,
     nullable |-> \E k \in DOMAIN layers : layers[k].nullable]

DomainOf(p) == IF p.type.storage # Default THEN p.type.storage ELSE p.storage
\* What lies on the stack by nature: a number or an enum.
IsNumber(layers) ==
  LET last == layers[Len(layers)] IN
    PointersOf(layers) = <<>> /\ \A d \in TypesNamed(last.base) : program[d].kind = "enum"
MethodSupported(m) ==
  /\ m.effects = {} /\ Len(m.results) = 1 /\ IsSupported(AllLayers(m.results[1]), TRUE)
  /\ \A k \in DOMAIN m.params :
       LET p == m.params[k] IN
         /\ IsSupported(AllLayers(p.type), FALSE) /\ p.effects = {}
         /\ p.type.storage = Default \/ p.storage \in {Default, p.type.storage}
         /\ PointersOf(AllLayers(p.type)) = <<>> => DomainOf(p) # "heap"
PromiseOf(m) ==
  [result |-> Denoted(AllLayers(m.results[1]), Default),
   params |-> [k \in DOMAIN m.params |->
                 LET p == m.params[k] IN
                   Denoted(AllLayers(p.type),
                           IF IsNumber(AllLayers(p.type)) /\ DomainOf(p) = "stack" THEN Default ELSE DomainOf(p))]]

\* A struct's methods for the method n of an interface: one named for the
\* interface, else one named for none, else those named for a relative that has
\* the method from a common declaration.
DeclaredBy(above, d) ==
  UNION {above[c] : c \in {i \in InterfaceDecls : program[i].name \in ToSet(program[d].parents)}}
For(o) == {c \in InterfaceDecls : program[c].name = Qualifier(o)}
Relatives(above, d, i, n) ==
  {q \in DeclaredBy(above, d) :
     /\ q \in above[i] \/ i \in above[q]
     /\ \E o \in Required(above, i) \cap Required(above, q) : MethodOf(o).name = n}
Right(above, d, i, n) ==
  LET named == {o \in ToSet(ActiveMethods(d)) : MethodOf(o).name = n}
      exact == {o \in named : i \in For(o)}
      plain == {o \in named : Qualifier(o) = Unqualified}
  IN IF exact # {} THEN exact ELSE IF plain # {} THEN plain
     ELSE {o \in named : For(o) \cap Relatives(above, d, i, n) # {}}

Repeats(q) == \E j, k \in DOMAIN q : j < k /\ q[j] = q[k]
NamesIn(os) == [k \in DOMAIN os |-> MethodOf(os[k]).name]
KnownNames == {program[d].name : d \in InterfaceDecls}

\* What is wrong with the declarations by themselves,
DeclarationFaults ==
  LET kept == {d \in ActiveTypes : Len(program[d].parents) <= MaxParents}
      own(d) == NamesIn(ActiveMethods(d))
  IN When(kept # ActiveTypes, "parents")
     \union When(\E d \in DOMAIN program : program[d].active /\ program[d].constrained, "constraint")
     \union When(\E c, d \in InterfaceDecls : c # d /\ program[c].name = program[d].name, "duplicate interface")
     \union When(\E c \in InterfaceDecls, d \in ActiveTypes \ InterfaceDecls :
                   program[c].name = program[d].name, "ambiguous name")
     \union When(\E c \in InterfaceDecls : program[c].generic, "generic interface")
     \union When(\E c \in InterfaceDecls : Len(program[c].methods) > MaxMethods, "own methods")
     \union When(\E c \in InterfaceDecls : Repeats(own(c)), "own duplicate")
     \union When(\E c \in InterfaceDecls : \E o \in ToSet(ActiveMethods(c)) :
                   ~MethodSupported(MethodOf(o)), "metadata")
     \union When(\E d \in kept : Repeats(program[d].parents), "duplicate parent")
     \union When(\E d \in kept : ~ToSet(program[d].parents) \subseteq KnownNames, "unknown parent")
\* with the graph,
GraphFaults(above) ==
  When(\E c, d \in InterfaceDecls : ExtendsDirectly(c, d) /\ c \in above[d], "cycle")
  \union When(StepsUp(MaxInheritance) # {}, "depth")
  \union When(\E c \in InterfaceDecls : Cardinality(NamesOf(Required(above, c))) > MaxMethods, "methods")
  \union When(\E c \in InterfaceDecls : \E o \in Required(above, c) : ~MethodSupported(MethodOf(o)), "signature")
  \union When(\E c \in InterfaceDecls : \E o, r \in Required(above, c) :
                /\ MethodOf(o).name = MethodOf(r).name
                /\ MethodSupported(MethodOf(o)) /\ MethodSupported(MethodOf(r))
                /\ PromiseOf(MethodOf(o)) # PromiseOf(MethodOf(r)), "conflict")
\* and with what a struct offers for what it declares.
OffersFaults(above, d) ==
  LET methods == ToSet(ActiveMethods(d))
      qualified == {o \in methods : Qualifier(o) # Unqualified}
      pairs == UNION {{c} \X Required(above, c) : c \in DeclaredBy(above, d)}
      offered(c, o) == Right(above, d, c, MethodOf(o).name)
  IN When(\E o \in qualified : \A c \in For(o) \cap DeclaredBy(above, d) :
            MethodOf(o).name \notin NamesOf(Required(above, c)), "qualifier")
     \union When(\E o \in qualified : ~MethodSupported(MethodOf(o)), "signature")
     \union When(\E o, r \in methods : /\ o # r /\ MethodOf(o).name = MethodOf(r).name
                                       /\ Qualifier(o) = Qualifier(r)
                                       /\ o \in qualified \/ program[d].parents # <<>>, "duplicate method")
     \union When(\E x \in pairs : offered(x[1], x[2]) = {}, "missing")
     \union When(\E x \in pairs : Cardinality(offered(x[1], x[2])) > 1, "ambiguous")
     \union When(\E x \in pairs : \E o \in offered(x[1], x[2]) : ~MethodSupported(MethodOf(o)), "unsupported")
     \union When(\E x \in pairs : \E o \in offered(x[1], x[2]) :
                   MethodSupported(MethodOf(o)) /\ PromiseOf(MethodOf(o)) # PromiseOf(MethodOf(x[2])), "mismatch")

TrueFaults ==
  LET above == Above IN
    DeclarationFaults \union GraphFaults(above) \union NamesakeFaults
    \union UNION {OffersFaults(above, d) : d \in Owners}

\* Inherited slots follow the parents in their order, then the own methods.
RECURSIVE SlotNames(_)
SlotNames(c) ==
  LET inherited == [k \in DOMAIN program[c].parents |->
                      SlotNames(CHOOSE d \in InterfaceDecls : program[d].name = program[c].parents[k])]
      all == FlattenSeq(inherited) \o NamesIn(ActiveMethods(c))
  IN FoldLeft(LAMBDA q, n : IF Contains(q, n) THEN q ELSE Append(q, n), <<>>, all)

NamesOfGroups(groups) == [g \in DOMAIN groups |-> groups[g].name]
TooLongNames ==
  LET prefix(d, extra) == IF program[d].prefix = 0 THEN 0 ELSE program[d].prefix + extra
      size(d) == NameSize[program[d].name]
      above == Above
  IN \/ \E c \in InterfaceDecls : size(c) + prefix(c, 2) > MaxName
     \/ \E d \in ActiveTypes, c \in InterfaceDecls :
          /\ program[d].kind = "struct" /\ program[c].name \in ToSet(program[d].parents)
          /\ \/ size(d) + size(c) + 14 > MaxName
             \/ \E n \in NamesOf(Required(above, c)) : size(d) + size(c) + NameSize[n] + 2 + prefix(d, 4) > MaxName

\* Whether a module is accepted does not depend on the order of its
\* declarations or of the walk: it is refused only for a fault that it has, and
\* accepted only without any.  In an accepted one the slots of an interface
\* follow its parents and its own methods, every binding holds for each of them
\* the one method that is right for it, and a call through a descriptor or
\* with a qualified name runs that method, or traps on a default value.
DispatchSound ==
  /\ stage = "refused" => faults # {} /\ faults \subseteq TrueFaults \union When(TooLongNames, "name")
  /\ stage = "bound" =>
       LET above == Above IN
         /\ TrueFaults = {} /\ ~TooLongNames
         /\ \A i \in DOMAIN ifaceRegistry : NamesOfGroups(ifaceRegistry[i].groups) = SlotNames(ifaceRegistry[i].decl)
         /\ DOMAIN bindings = {b \in Owners \X DOMAIN ifaceRegistry : ifaceRegistry[b[2]].decl \in DeclaredBy(above, b[1])}
         /\ \A b \in DOMAIN bindings : \A g \in DOMAIN bindings[b] :
              Right(above, b[1], ifaceRegistry[b[2]].decl, ifaceRegistry[b[2]].groups[g].name) = {bindings[b][g]}
  /\ called # <<>> =>
       IF called.object = Nobody THEN called.function = <<>>
       ELSE {called.function} = Right(Above, called.object, ifaceRegistry[called.iface].decl, called.method)
================================================================================
