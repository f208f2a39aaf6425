-------------------------------- MODULE Cleanup --------------------------------
(* Where deferred statements, destructors and zones are cleaned up: the scopes of  *)
(* src/codegen/cg_dtors.c under the statements of src/codegen/cg_stmt.c.           *)
(*                                                                                 *)
(* The generator walks one function, statement by statement.  The function is not  *)
(* fixed beforehand: every statement the grammar allows may come next, up to a     *)
(* bound.  The result is a graph of basic blocks, in which a cleanup may stand on  *)
(* many edges; then the graph is run, every branch going either way, with what is  *)
(* live at run time as a history.  Statements that neither register nor leave      *)
(* anything are left out.                                                          *)
EXTENDS Integers, Sequences, FiniteSets, Functions

CONSTANTS MaxSimple, MaxCompound,   \* bounds: simple and compound statements of the function
          Constructs                \* the compound statements it may use

VARIABLES
  clPhase,             \* "function" (being generated), "refused", "run", "returned"
  clBlocks, clAt,      \* the basic blocks; the one the builder stands at
  clScopes,            \* dtor_stack
  clOpen,              \* the compound statements that are open, the innermost last
  clBreak, clContinue, \* targets, with the depth their cleanup retains; block 0 is null
  clSimple, clCompound, \* statements so far
  clPc, clLive         \* of the run: next instruction; what is registered and not cleaned

clGenerator == <<clBlocks, clAt, clScopes, clOpen, clBreak, clContinue, clSimple, clCompound>>
clVars == <<clPhase, clGenerator, clPc, clLive>>

EmptyScope == [deferred |-> <<>>, vars |-> <<>>]
NoTarget == [block |-> 0, depth |-> 0]

\* A block: instructions, then (once it is terminated) where it may go; nowhere is a
\* return, which hands over what is moved.
OpenBlock == [ins |-> <<>>, ended |-> FALSE, to |-> {}, moved |-> {}]
BranchBlock(to) == [OpenBlock EXCEPT !.ended = TRUE, !.to = to]

CleanupInit ==
  /\ clPhase = "function"
  /\ clBlocks = <<OpenBlock>> /\ clAt = 1
  /\ clScopes = <<EmptyScope>>
  /\ clOpen = <<>>
  /\ clBreak = NoTarget /\ clContinue = NoTarget
  /\ clSimple = 0 /\ clCompound = 0
  /\ clPc = [block |-> 1, ins |-> 1] /\ clLive = {}

--------------------------------------------------------------------------------
(* Emission of cleanup. *)

Depth == Len(clScopes)
Ended(blocks, n) == blocks[n].ended
Instr(op, r) == [op |-> op, reg |-> r]

\* emit_deferred_stmt: in a scope of its own, where a block may register a variable;
\* a ret, break or continue that would leave it is an error.
RunDeferred(d) ==
  CASE d.kind = "defer" -> <<Instr("clean", d)>>
    [] d.kind = "defer_block" ->
         LET own == [site |-> d.site, kind |-> "var", depth |-> Depth + 1]
         IN <<Instr("clean", d), Instr("make", own), Instr("clean", own)>>
    [] d.kind = "defer_leaves" -> <<Instr("error", d)>>

\* The parts of a sequence of sequences, the last part first.
LastFirst(parts) ==
  LET down[k \in 0 .. Len(parts)] == IF k = 0 THEN <<>> ELSE parts[k] \o down[k - 1]
  IN down[Len(parts)]

CleanVar(v, moved) == IF v \in moved THEN <<>> ELSE <<Instr("clean", v)>>

\* emit_dtor_calls_except: deferred statements last in first out, then variables and
\* zones likewise, without those that are moved.  (Fault: in the order of registration.)
ScopeCleanup_InOrder(scope, moved) ==
  LET deferred == scope.deferred
      vars == scope.vars
  IN LastFirst([k \in DOMAIN deferred |-> RunDeferred(deferred[Len(deferred) + 1 - k])])
     \o LastFirst([k \in DOMAIN vars |-> CleanVar(vars[Len(vars) + 1 - k], moved)])

ScopeCleanup(scope, moved) ==
  LastFirst([k \in DOMAIN scope.deferred |-> RunDeferred(scope.deferred[k])])
  \o LastFirst([k \in DOMAIN scope.vars |-> CleanVar(scope.vars[k], moved)])

\* A terminated block takes no further instruction.
Emit(blocks, n, ins) ==
  IF Ended(blocks, n) THEN blocks ELSE [blocks EXCEPT ![n].ins = @ \o ins]
BranchTo(blocks, n, to) ==
  IF Ended(blocks, n) THEN blocks ELSE [blocks EXCEPT ![n].ended = TRUE, ![n].to = to]

\* emit_cleanup_to_depth: the scopes an exit leaves, the innermost first; their
\* registrations stay.  (Fault: only the innermost scope.)
CleanupToDepth_Innermost(depth, moved) == ScopeCleanup(clScopes[Depth], moved)
CleanupToDepth(depth, moved) ==
  LastFirst([k \in 1 .. Depth - depth |-> ScopeCleanup(clScopes[depth + k], moved)])

\* An error does not stop the generator at once, but no code comes of it.
Refused(blocks) ==
  \E b \in DOMAIN blocks : \E i \in DOMAIN blocks[b].ins : blocks[b].ins[i].op = "error"
Generate(blocks) ==
  /\ clBlocks' = blocks
  /\ clPhase' = IF Refused(blocks) THEN "refused" ELSE "function"
  /\ UNCHANGED <<clPc, clLive>>

--------------------------------------------------------------------------------
(* gen_stmt: simple statements.  Nothing is generated behind a terminator. *)

Reachable == clPhase = "function" /\ ~Ended(clBlocks, clAt)
Simple == Reachable /\ clSimple < MaxSimple /\ clSimple' = clSimple + 1 /\ UNCHANGED clCompound
Compound(construct) ==
  /\ construct \in Constructs /\ Reachable
  /\ clCompound < MaxCompound /\ clCompound' = clCompound + 1 /\ UNCHANGED clSimple

\* A registration in the scope of depth d.
Registered(kind, d) == [site |-> clSimple + clCompound, kind |-> kind, depth |-> d]

\* A local variable whose type has a destructor: add_dtor_var.
DeclareVar ==
  /\ Simple
  /\ LET v == Registered("var", Depth) IN
       /\ Generate(Emit(clBlocks, clAt, <<Instr("make", v)>>))
       /\ clScopes' = [clScopes EXCEPT ![Depth].vars = Append(@, v)]
  /\ UNCHANGED <<clAt, clOpen, clBreak, clContinue>>

\* defer: nothing is emitted yet (the instruction is a history of the run).
DeferStmt ==
  /\ Simple
  /\ \E kind \in {"defer", "defer_block", "defer_leaves"} :
       LET d == Registered(kind, Depth) IN
         /\ Generate(Emit(clBlocks, clAt, <<Instr("make", d)>>))
         /\ clScopes' = [clScopes EXCEPT ![Depth].deferred = Append(@, d)]
  /\ UNCHANGED <<clAt, clOpen, clBreak, clContinue>>

\* break and continue clean up to the depth of their target; without one they are errors.
LeaveTo(target) ==
  /\ Simple
  /\ Generate(IF target.block = 0
              THEN Emit(clBlocks, clAt, <<Instr("error", Registered("exit", Depth))>>)
              ELSE BranchTo(Emit(clBlocks, clAt, CleanupToDepth(target.depth, {})),
                            clAt, {target.block}))
  /\ UNCHANGED <<clAt, clScopes, clOpen, clBreak, clContinue>>
BreakStmt == LeaveTo(clBreak)
ContinueStmt == LeaveTo(clContinue)

\* gen_ret: the values are evaluated, every scope is cleaned up, and the locals that are
\* returned by their names keep out of the cleanup of this edge.
Returnable == UNION {Range(clScopes[d].vars) : d \in DOMAIN clScopes}
RetStmt ==
  /\ Simple
  /\ \E moved \in SUBSET {v \in Returnable : v.kind = "var"} :
       Generate([BranchTo(Emit(clBlocks, clAt, CleanupToDepth(0, moved)), clAt, {})
                   EXCEPT ![clAt].moved = moved])
  /\ UNCHANGED <<clAt, clScopes, clOpen, clBreak, clContinue>>

--------------------------------------------------------------------------------
(* Compound statements.  A construct has bodies, each a block with a scope of its    *)
(* own; where the end of a body goes; where generation goes on behind the construct  *)
(* (0: where its only body ends); and possibly an outer scope.                       *)

\* Opening: the new blocks come behind the old ones, the current block branches.
Open(new, to, bodies, back, end, outer) ==
  LET blocks == (IF to = {} THEN clBlocks ELSE BranchTo(clBlocks, clAt, to)) \o new IN
    /\ Generate(blocks)
    /\ clOpen' = Append(clOpen, [bodies |-> Tail(bodies), back |-> back, end |-> end,
                                 outer |-> outer # <<>>, brk |-> clBreak, cont |-> clContinue])
    /\ clScopes' = clScopes \o outer \o <<EmptyScope>>
    /\ clAt' = IF Head(bodies) = 0 THEN clAt ELSE Head(bodies)

B(k) == Len(clBlocks) + k
Breaks(block, depth) == clBreak' = [block |-> block, depth |-> depth]
Continues(block, depth) == clContinue' = [block |-> block, depth |-> depth]
NoLoop == UNCHANGED <<clBreak, clContinue>>

\* A scope that begins with a variable or zone, made in the current block before it ends.
OuterVar == [EmptyScope EXCEPT !.vars = <<Registered("var", Depth + 1)>>]
OuterZone == [EmptyScope EXCEPT !.vars = <<Registered("zone", Depth + 1)>>]

OpenBlockStmt ==
  /\ Compound("block")
  /\ Open(<<>>, {}, <<0>>, 0, 0, <<>>) /\ NoLoop

\* if without and with an else.
OpenIf ==
  /\ Compound("if")
  /\ Open(<<OpenBlock, OpenBlock>>, {B(1), B(2)}, <<B(1)>>, B(2), B(2), <<>>) /\ NoLoop

OpenIfElse ==
  /\ Compound("else")
  /\ Open(<<OpenBlock, OpenBlock, OpenBlock>>, {B(1), B(2)}, <<B(1), B(2)>>, B(3), B(3), <<>>)
  /\ NoLoop

\* while: cond, body, end.
OpenWhile ==
  /\ Compound("while")
  /\ Open(<<BranchBlock({B(2), B(3)}), OpenBlock, OpenBlock>>, {B(1)}, <<B(2)>>, B(1), B(3), <<>>)
  /\ Breaks(B(3), Depth) /\ Continues(B(1), Depth)

\* foreach: cond, body, inc, end.
OpenForeach ==
  /\ Compound("foreach")
  /\ Open(<<BranchBlock({B(2), B(4)}), OpenBlock, BranchBlock({B(1)}), OpenBlock>>,
          {B(1)}, <<B(2)>>, B(3), B(4), <<>>)
  /\ Breaks(B(4), Depth) /\ Continues(B(3), Depth)

\* do: body, cond, end.
OpenDoWhile ==
  /\ Compound("do")
  /\ Open(<<OpenBlock, BranchBlock({B(1), B(3)}), OpenBlock>>, {B(1)}, <<B(1)>>, B(2), B(3), <<>>)
  /\ Breaks(B(3), Depth) /\ Continues(B(2), Depth)

\* inf: body, end.
OpenInf ==
  /\ Compound("inf")
  /\ Open(<<OpenBlock, OpenBlock>>, {B(1)}, <<B(1)>>, B(1), B(2), <<>>)
  /\ Breaks(B(2), Depth) /\ Continues(B(1), Depth)

\* A construct whose outer scope begins with a registration, made in the current block.
OpenWith(outer, new, to, bodies, back, end) ==
  LET made == Emit(clBlocks, clAt, <<Instr("make", Head(outer.vars))>>)
      blocks == (IF to = {} THEN made ELSE BranchTo(made, clAt, to)) \o new IN
    /\ Generate(blocks)
    /\ clOpen' = Append(clOpen, [bodies |-> Tail(bodies), back |-> back, end |-> end,
                                 outer |-> TRUE, brk |-> clBreak, cont |-> clContinue])
    /\ clScopes' = clScopes \o <<outer, EmptyScope>>
    /\ clAt' = IF Head(bodies) = 0 THEN clAt ELSE Head(bodies)

\* (Fault: the loop retains no scope of its own on break and continue.)
OpenFor_WrongDepth ==
  /\ Compound("for")
  /\ OpenWith(OuterVar, <<BranchBlock({B(2), B(4)}), OpenBlock, BranchBlock({B(1)}), OpenBlock>>,
              {B(1)}, <<B(2)>>, B(3), B(4))
  /\ Breaks(B(4), Depth) /\ Continues(B(3), Depth)

\* for: cond, body, inc, end; break and continue retain the scope of the initializer.
OpenFor ==
  /\ Compound("for")
  /\ OpenWith(OuterVar, <<BranchBlock({B(2), B(4)}), OpenBlock, BranchBlock({B(1)}), OpenBlock>>,
              {B(1)}, <<B(2)>>, B(3), B(4))
  /\ Breaks(B(4), Depth + 1) /\ Continues(B(3), Depth + 1)

\* with: body, else, end.
OpenWithStmt ==
  /\ Compound("with")
  /\ OpenWith(OuterVar, <<OpenBlock, OpenBlock, OpenBlock>>, {B(1), B(2)}, <<B(1), B(2)>>, B(3), B(3))
  /\ NoLoop

\* zone name { }: registered before the body is entered.
OpenZone ==
  /\ Compound("zone")
  /\ OpenWith(OuterZone, <<>>, {}, <<0>>, 0, 0)
  /\ NoLoop

\* switch with a case and a default; break is its own, continue that of the loop around
\* it.  Every arm has two scopes, of which the outer one stays empty.
OpenSwitch ==
  /\ Compound("switch")
  /\ Open(<<OpenBlock, OpenBlock, OpenBlock>>, {B(1), B(2)}, <<B(1), B(2)>>, B(3), B(3), <<>>)
  /\ Breaks(B(3), Depth) /\ UNCHANGED clContinue

\* match with an arm that has a guard and a wildcard; a guard that fails goes to the
\* wildcard.  break and continue are those of the loop around it.
OpenMatch ==
  /\ Compound("match")
  /\ Open(<<BranchBlock({B(2), B(3)}), OpenBlock, OpenBlock, OpenBlock>>,
          {B(1), B(3)}, <<B(2), B(3)>>, B(4), B(4), <<>>)
  /\ NoLoop

\* The end of a body: gen_block pops its scope, and the body goes where its end goes.
Construct == clOpen[Len(clOpen)]
BodyEnded ==
  LET cleaned == Emit(clBlocks, clAt, ScopeCleanup(clScopes[Depth], {}))
  IN IF Construct.back = 0 THEN cleaned ELSE BranchTo(cleaned, clAt, {Construct.back})

\* Another body follows.
NextBody ==
  /\ clPhase = "function" /\ clOpen # <<>> /\ Construct.bodies # <<>>
  /\ Generate(BodyEnded)
  /\ clAt' = Head(Construct.bodies)
  /\ clOpen' = [clOpen EXCEPT ![Len(clOpen)].bodies = Tail(@)]
  /\ clScopes' = [clScopes EXCEPT ![Depth] = EmptyScope]
  /\ UNCHANGED <<clBreak, clContinue, clSimple, clCompound>>

\* The construct ends: targets are restored and an outer scope is popped behind it.
CloseConstruct ==
  /\ clPhase = "function" /\ clOpen # <<>> /\ Construct.bodies = <<>>
  /\ LET end == IF Construct.end = 0 THEN clAt ELSE Construct.end IN
       /\ clAt' = end
       /\ Generate(IF Construct.outer
                   THEN Emit(BodyEnded, end, ScopeCleanup(clScopes[Depth - 1], {}))
                   ELSE BodyEnded)
  /\ clScopes' = SubSeq(clScopes, 1, Depth - IF Construct.outer THEN 2 ELSE 1)
  /\ clOpen' = SubSeq(clOpen, 1, Len(clOpen) - 1)
  /\ clBreak' = Construct.brk /\ clContinue' = Construct.cont
  /\ UNCHANGED <<clSimple, clCompound>>

\* The function's block ends; where control may reach its end it returns.
EndFunction ==
  /\ clPhase = "function" /\ clOpen = <<>>
  /\ LET blocks == BranchTo(Emit(clBlocks, clAt, ScopeCleanup(clScopes[1], {})), clAt, {}) IN
       /\ clBlocks' = blocks
       /\ clPhase' = IF Refused(blocks) THEN "refused" ELSE "run"
  /\ clScopes' = <<>> /\ clAt' = 1 /\ clSimple' = 0 /\ clCompound' = 0
  /\ clBreak' = NoTarget /\ clContinue' = NoTarget
  /\ UNCHANGED <<clOpen, clPc, clLive>>

--------------------------------------------------------------------------------
(* The run of the generated code. *)

CodeRuns == clPhase = "run"
Here == clBlocks[clPc.block]
AtEnd == clPc.ins > Len(Here.ins)
Instruction == Here.ins[clPc.ins]

RunInstruction ==
  /\ CodeRuns /\ ~AtEnd
  /\ clLive' = IF Instruction.op = "make" THEN clLive \cup {Instruction.reg}
                                          ELSE clLive \ {Instruction.reg}
  /\ clPc' = [clPc EXCEPT !.ins = @ + 1]
  /\ UNCHANGED <<clPhase, clGenerator>>

RunBranch ==
  /\ CodeRuns /\ AtEnd
  /\ \E b \in Here.to : clPc' = [block |-> b, ins |-> 1]
  /\ UNCHANGED <<clPhase, clGenerator, clLive>>

RunReturn ==
  /\ CodeRuns /\ AtEnd /\ Here.to = {}
  /\ clPhase' = "returned"
  /\ UNCHANGED <<clGenerator, clPc, clLive>>

CleanupNext ==
  \/ DeclareVar \/ DeferStmt \/ BreakStmt \/ ContinueStmt \/ RetStmt
  \/ OpenBlockStmt \/ OpenIf \/ OpenIfElse \/ OpenWhile \/ OpenForeach \/ OpenDoWhile \/ OpenInf
  \/ OpenFor \/ OpenWithStmt \/ OpenZone \/ OpenSwitch \/ OpenMatch
  \/ NextBody \/ CloseConstruct \/ EndFunction
  \/ RunInstruction \/ RunBranch \/ RunReturn

CleanupSpec == CleanupInit /\ [][CleanupNext]_clVars

--------------------------------------------------------------------------------
(* Properties.  tests/cleanup/README.md:30-50, "Required semantics". *)

AboutTo(op) == clPhase = "run" /\ ~AtEnd /\ Instruction.op = op

\* Whatever way the control takes through loops, branches and early exits, nothing is
\* cleaned up that is not registered at that moment or has been cleaned up before, and
\* nothing is registered again while an earlier round's registration is still there.
CleanedOnce ==
  /\ AboutTo("clean") => Instruction.reg \in clLive
  /\ AboutTo("make") => Instruction.reg \notin clLive

\* A function that returns has cleaned up everything it has registered on its way,
\* except the locals it hands to its caller on this very edge.
NothingLeftBehind == clPhase = "returned" => clLive = Here.moved

\* Scopes are left from the innermost to the outermost; in a scope all deferred
\* statements go first, then the variables, both last in first out.
InnermostFirst ==
  AboutTo("clean") =>
    LET c == Instruction.reg IN
      \A r \in clLive \ ({c} \cup Here.moved) :
        \/ r.depth < c.depth
        \/ /\ r.depth = c.depth
           /\ \/ r.site < c.site /\ (c.kind \in {"var", "zone"} => r.kind \in {"var", "zone"})
              \/ c.kind \notin {"var", "zone"} /\ r.kind \in {"var", "zone"}

\* Every registration is cleaned up once, in the right order.
CleanupSound == CleanedOnce /\ NothingLeftBehind /\ InnermostFirst

================================================================================
