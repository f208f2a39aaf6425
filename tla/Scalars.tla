-------------------------------- MODULE Scalars --------------------------------
(* Integer expressions: what the compiler's evaluator of constants makes of one,   *)
(* and what the code does that is generated for it.  The first works on masked      *)
(* bit patterns (src/codegen/scalar_integer_semantics.h, cg_scalar_const.c), the    *)
(* second on LLVM's integers with traps (cg_scalar.c, and the operators of          *)
(* cg_expr.c).  Floating point, pointers and calls are left out.                    *)
EXTENDS Integers, FiniteSets, Sequences
LOCAL INSTANCE TLC
LOCAL INSTANCE Bitwise

CONSTANTS NarrowBits, IntBits, LongBits,   \* stand for the 8, 32 and 64 bits of the code
          NoType,
          Operators,                       \* the binary operators that are written
          Leaves,                          \* the literals, constants and variables that are written
          InnerLeaves,                     \* those that occur below an operator below an operator
          ChainTests,                      \* the further conditions of a comparison chain
          MaxTests,                        \* bound: conditions of one chain
          MaxDepth                         \* bound: operators above one another

ScalarTypes == {"bool", "i8", "u8", "i32", "u32", "i64", "u64"}

ASSUME ScalarAssumption ==
  /\ NarrowBits \in Nat /\ IntBits \in Nat /\ LongBits \in Nat /\ MaxDepth \in Nat
  /\ 1 < NarrowBits /\ NarrowBits < IntBits /\ IntBits < LongBits
  /\ NoType \notin ScalarTypes /\ InnerLeaves \subseteq Leaves

Bits(t) == CASE t = "bool" -> 1
             [] t \in {"i8", "u8"} -> NarrowBits
             [] t \in {"i32", "u32"} -> IntBits
             [] t \in {"i64", "u64"} -> LongBits
Unsigned(t) == t \in {"bool", "u8", "u32", "u64"}
Mask(w) == 2^w - 1

\* What a bit pattern stands for, and the pattern of a number.
ValueOf(bits, t) == IF ~Unsigned(t) /\ bits >= 2^(Bits(t) - 1) THEN bits - 2^Bits(t) ELSE bits
PatternOf(n, t) == n % 2^Bits(t)
InRange(n, t) == n = ValueOf(PatternOf(n, t), t)

Comparisons == {"==", "!=", "<", "<=", ">", ">="}
Shifts == {"<<", ">>"}
Logical == {"&&", "||"}

--------------------------------------------------------------------------------
(* sts_scalar_fold_integer: patterns x and y of width w.  The reasons for which it   *)
(* refuses are the ones the generated code gives to __stasha_panic.                  *)

Folded(bits, boolean) == [ok |-> TRUE, bits |-> bits, boolean |-> boolean, reason |-> 0]
FoldFails(reason) == [ok |-> FALSE, bits |-> 0, boolean |-> FALSE, reason |-> reason]
Negated(x, w) == (2^w - x) % 2^w

FoldAdditive(op, x, y, w, u) ==
  LET sign == 2^(w - 1)
      plus == op \in {"+", "+%", "+!"}
      result == IF plus THEN (x + y) % 2^w ELSE (x + Negated(y, w)) % 2^w
      differ == (x >= sign) # (y >= sign)
      overflow == IF u THEN (IF plus THEN y > Mask(w) - x ELSE x < y)
                  ELSE differ = ~plus /\ (x >= sign) # (result >= sign)
  IN IF op \in {"+!", "-!"} /\ overflow THEN FoldFails(1) ELSE Folded(result, FALSE)

Magnitude(x, w, u) == IF ~u /\ x >= 2^(w - 1) THEN Negated(x, w) ELSE x

FoldTimes(op, x, y, w, u) ==
  LET sign == 2^(w - 1)
      limit == IF u THEN Mask(w) ELSE IF (x >= sign) # (y >= sign) THEN sign ELSE sign - 1
      overflow == Magnitude(y, w, u) # 0 /\ Magnitude(x, w, u) > limit \div Magnitude(y, w, u)
  IN IF op = "*!" /\ overflow THEN FoldFails(1) ELSE Folded((x * y) % 2^w, FALSE)

\* (Fault: the one quotient that does not fit is not refused.)
FoldDivide_Min(op, x, y, w, u) ==
  LET ax == Magnitude(x, w, u)  ay == Magnitude(y, w, u)
      result == IF op = "/" THEN ax \div ay ELSE ax % ay
      negative == ~u /\ (IF op = "/" THEN (x >= 2^(w - 1)) # (y >= 2^(w - 1)) ELSE x >= 2^(w - 1))
  IN IF y = 0 THEN FoldFails(2) ELSE Folded(IF negative THEN Negated(result, w) ELSE result, FALSE)
FoldDivide(op, x, y, w, u) ==
  LET ax == Magnitude(x, w, u)  ay == Magnitude(y, w, u)
      result == IF op = "/" THEN ax \div ay ELSE ax % ay
      negative == ~u /\ (IF op = "/" THEN (x >= 2^(w - 1)) # (y >= 2^(w - 1)) ELSE x >= 2^(w - 1))
  IN IF y = 0 THEN FoldFails(2)
     ELSE IF ~u /\ x = 2^(w - 1) /\ y = Mask(w) THEN FoldFails(3)
     ELSE Folded(IF negative THEN Negated(result, w) ELSE result, FALSE)

\* The count keeps the width and the signedness of its own type.
\* (Fault: it is masked to the width of the left operand first.)
FoldShift_Masked(op, x, count, w, u, rw, ru) ==
  LET y == count % 2^w
      result == IF op = "<<" THEN (x * 2^y) % 2^w ELSE x \div 2^y
      fill == op = ">>" /\ ~u /\ x >= 2^(w - 1) /\ y > 0
  IN IF y >= w THEN FoldFails(4) ELSE Folded(IF fill THEN result + Mask(w) - Mask(w) \div 2^y ELSE result, FALSE)
FoldShift(op, x, y, w, u, rw, ru) ==
  LET result == IF op = "<<" THEN (x * 2^y) % 2^w ELSE x \div 2^y
      fill == op = ">>" /\ ~u /\ x >= 2^(w - 1) /\ y > 0
  IN IF (~ru /\ y >= 2^(rw - 1)) \/ y >= w THEN FoldFails(4)
     ELSE Folded(IF fill THEN result + Mask(w) - Mask(w) \div 2^y ELSE result, FALSE)

FoldCompare(op, x, y, w, u) ==
  LET fx == IF u THEN x ELSE (x + 2^(w - 1)) % 2^w    \* the sign bit turned over
      fy == IF u THEN y ELSE (y + 2^(w - 1)) % 2^w
      result == CASE op = "==" -> x = y [] op = "!=" -> x # y
                  [] op = "<" -> fx < fy [] op = ">" -> fx > fy
                  [] op = "<=" -> fx <= fy [] op = ">=" -> fx >= fy
  IN Folded(IF result THEN 1 ELSE 0, TRUE)

FoldInteger(op, x, y, w, u, rw, ru) ==
  CASE op \in {"+", "+%", "+!", "-", "-%", "-!"} -> FoldAdditive(op, x, y, w, u)
    [] op \in {"*", "*%", "*!"} -> FoldTimes(op, x, y, w, u)
    [] op \in {"/", "%"} -> FoldDivide(op, x, y, w, u)
    [] op \in Shifts -> FoldShift(op, x, y, w, u, rw, ru)
    [] op \in Comparisons -> FoldCompare(op, x, y, w, u)
    [] op = "&" -> Folded(x & y, FALSE)
    [] op = "|" -> Folded(x | y, FALSE)
    [] op = "^" -> Folded(x ^^ y, FALSE)

--------------------------------------------------------------------------------
(* The type of an expression in its context.  An expression whose parts have been      *)
(* worked out carries, for every context, its type, what is known of it, and what its *)
(* code does.                                                                          *)

IsLiteral(e) == e.op = "literal" \/ (e.op = "-x" /\ e.x.op = "literal")
LiteralMagnitude(e) == IF e.op = "literal" THEN e.m ELSE e.x.m
LiteralNegative(e) == e.op = "-x"

LiteralType(e, expected) ==
  LET m == LiteralMagnitude(e)
  IN IF expected # NoType /\ expected # "bool" THEN expected
     ELSE IF LiteralNegative(e) THEN (IF m <= 2^(IntBits - 1) THEN "i32" ELSE "i64")
     ELSE IF m <= 2^(IntBits - 1) - 1 THEN "i32"
     ELSE IF m <= 2^(LongBits - 1) - 1 THEN "i64" ELSE "u64"

LiteralFits(e, t) ==
  LET m == LiteralMagnitude(e)
  IN IF Unsigned(t) THEN (~LiteralNegative(e) \/ m = 0) /\ m <= Mask(Bits(t))
     ELSE m <= (IF LiteralNegative(e) THEN 2^(Bits(t) - 1) ELSE 2^(Bits(t) - 1) - 1)

RECURSIVE LiteralTree(_)
LiteralTree(e) ==
  CASE e.op = "literal" -> TRUE
    [] e.op \in {"-x", "~x"} -> LiteralTree(e.x)
    [] e.op \in Operators -> e.op \notin Comparisons \cup Logical /\ LiteralTree(e.x) /\ LiteralTree(e.y)
    [] OTHER -> FALSE

\* scalar_common: the type in which two operands meet.
Common(a, b, expected) ==
  LET ctx == IF expected = "bool" THEN NoType ELSE expected
      both == LiteralTree(a) /\ LiteralTree(b)
      at == a.types[IF both THEN ctx ELSE NoType]
      bt == b.types[IF both THEN ctx ELSE NoType]
  IN IF LiteralTree(a) /\ ~LiteralTree(b) /\ bt # NoType THEN bt
     ELSE IF LiteralTree(b) /\ ~LiteralTree(a) /\ at # NoType THEN at
     ELSE IF at = NoType \/ bt = NoType THEN at
     ELSE IF Unsigned(at) = Unsigned(bt) THEN (IF Bits(at) >= Bits(bt) THEN at ELSE bt)
     ELSE IF both /\ IsLiteral(a) /\ IsLiteral(b) /\ ~LiteralNegative(a) /\ ~LiteralNegative(b) THEN "u64"
     ELSE NoType

ExprType(e, expected) ==
  CASE IsLiteral(e) -> LiteralType(e, expected)
    [] e.op \in {"constant", "global", "variable", "cast"} -> e.type
    [] e.op = "!x" -> "bool"
    [] e.op \in {"-x", "~x"} \cup Shifts -> e.x.types[expected]
    [] e.op \in Comparisons \cup Logical \cup {"chain"} -> "bool"
    [] OTHER -> Common(e.x, e.y, expected)

--------------------------------------------------------------------------------
(* scalar_const_eval_inner, with the exact bindings on which a narrowing relies: what  *)
(* is known of an expression when it is compiled.                                      *)

Known(bits, t) == [known |-> TRUE, bits |-> bits, type |-> t]
Unknown == [known |-> FALSE, bits |-> 0, type |-> NoType]

\* scalar_const_value_fits.  (Fault: the magnitude may reach one past the lower end.)
ValueFits_Below(v, to) ==
  \/ to = "bool"
  \/ IF ~Unsigned(v.type) /\ v.bits >= 2^(Bits(v.type) - 1)
     THEN ~Unsigned(to) /\ Negated(v.bits, Bits(v.type)) <= 2^(Bits(to) - 1) + 1
     ELSE v.bits <= (IF Unsigned(to) THEN Mask(Bits(to)) ELSE 2^(Bits(to) - 1) - 1)
ValueFits(v, to) ==
  \/ to = "bool"
  \/ IF ~Unsigned(v.type) /\ v.bits >= 2^(Bits(v.type) - 1)
     THEN ~Unsigned(to) /\ Negated(v.bits, Bits(v.type)) <= 2^(Bits(to) - 1)
     ELSE v.bits <= (IF Unsigned(to) THEN Mask(Bits(to)) ELSE 2^(Bits(to) - 1) - 1)

\* scalar_const_convert: the pattern is extended by its sign, then cut.
ConstConvert(v, to, explicit) ==
  IF ~v.known \/ to = NoType THEN Unknown
  ELSE IF ~explicit /\ ~ValueFits(v, to) THEN Unknown
  ELSE IF to = "bool" THEN Known(IF v.bits # 0 THEN 1 ELSE 0, to)
  ELSE LET negative == ~Unsigned(v.type) /\ v.bits >= 2^(Bits(v.type) - 1)
           extended == IF negative THEN v.bits + 2^(2 * LongBits) - 2^Bits(v.type) ELSE v.bits
       IN Known(extended % 2^Bits(to), to)

\* A definition that another object may replace is known only where its own value
\* is what is emitted.  (Fault: always.)
Readable_Always(e) == e.op \in {"constant", "global"}
Readable(e) == e.op = "constant"

ConstEval(e, expected) ==
  LET t == e.types[expected]
  IN
  CASE IsLiteral(e) ->
         IF LiteralFits(e, t)
         THEN Known(PatternOf(IF LiteralNegative(e) THEN 0 - LiteralMagnitude(e) ELSE LiteralMagnitude(e), t), t)
         ELSE Unknown
    [] e.op \in {"constant", "global", "variable"} -> IF Readable(e) THEN Known(e.bits, e.type) ELSE Unknown
    [] e.op = "cast" -> ConstConvert(e.x.known[NoType], t, TRUE)
    [] e.op = "?:" ->
         LET c == e.c.known[NoType]
         IN IF ~c.known \/ t = NoType THEN Unknown
            ELSE ConstConvert((IF c.bits # 0 THEN e.x ELSE e.y).known[t], t, FALSE)
    [] e.op = "!x" ->
         LET a == e.x.known[NoType]
         IN IF a.known THEN Known(IF a.bits = 0 THEN 1 ELSE 0, "bool") ELSE Unknown
    [] e.op \in {"-x", "~x"} /\ ~IsLiteral(e) ->
         LET a == ConstConvert(e.x.known[t], t, FALSE)
         IN IF ~a.known THEN Unknown
            ELSE Known(IF e.op = "-x" THEN Negated(a.bits, Bits(t)) ELSE Mask(Bits(t)) - a.bits, t)
    [] e.op \in Logical ->
         LET a == e.x.known[NoType]
             b == e.y.known[NoType]
         IN IF ~a.known THEN Unknown
            ELSE IF (e.op = "&&") = (a.bits = 0) THEN Known(IF a.bits # 0 THEN 1 ELSE 0, "bool")
            ELSE IF b.known THEN Known(IF b.bits # 0 THEN 1 ELSE 0, "bool") ELSE Unknown
    [] e.op = "chain" -> Unknown
    [] OTHER ->
         LET shift == e.op \in Shifts
             common == IF shift THEN e.x.types[expected] ELSE Common(e.x, e.y, expected)
             a == ConstConvert(e.x.known[common], common, FALSE)
             right == e.y.known[IF shift THEN NoType ELSE common]
             b == IF shift THEN right ELSE ConstConvert(right, common, FALSE)
             r == FoldInteger(e.op, a.bits, b.bits, Bits(common), Unsigned(common), Bits(b.type), Unsigned(b.type))
         IN IF common = NoType \/ ~a.known \/ ~b.known THEN Unknown
            ELSE IF r.ok THEN Known(r.bits, IF r.boolean THEN "bool" ELSE t) ELSE Unknown

--------------------------------------------------------------------------------
(* The generated code: the errors found while it is generated, the trap it runs into *)
(* or the value it leaves, and whether an implicit conversion has changed a value.   *)

Result(bits, t) == [error |-> FALSE, trap |-> 0, bits |-> bits, type |-> t, changed |-> FALSE]
CompileError == [error |-> TRUE, trap |-> 0, bits |-> 0, type |-> "i32", changed |-> FALSE]

\* The result of a part, after another has run: the first trap ends the program.
After(first, r) ==
  [r EXCEPT !.error = first.error \/ @, !.trap = IF first.trap # 0 THEN first.trap ELSE @,
            !.changed = first.changed \/ (first.trap = 0 /\ @)]

ConversionFits(e, from, to) ==
  LET v == e.known[from]
  IN v.known /\ Bits(v.type) = Bits(from) /\ Unsigned(v.type) = Unsigned(from) /\ ValueFits(v, to)

\* scalar_coerce refuses an implicit conversion that could change the value, unless the
\* value is known and fits.  (Fault: only a narrower target is suspected.)
MayChange_Narrow(from, to) == to # "bool" /\ Bits(to) < Bits(from)
MayChange(from, to) ==
  /\ to # "bool"
  /\ \/ Bits(to) < Bits(from)
     \/ Unsigned(from) # Unsigned(to) /\ ~(Unsigned(from) /\ Bits(to) > Bits(from))

Converted(v, from, to) ==
  IF to = "bool" THEN (IF v.bits # 0 THEN 1 ELSE 0) ELSE PatternOf(ValueOf(v.bits, from), to)

Coerce(v, from, to, e, explicit) ==
  IF from = NoType \/ to = NoType \/ v.error THEN v
  ELSE LET bits == Converted(v, from, to)
       IN [v EXCEPT !.error = ~explicit /\ MayChange(from, to) /\ ~ConversionFits(e, from, to),
                    !.bits = bits, !.type = to,
                    !.changed = @ \/ (~explicit /\ v.trap = 0 /\ to # "bool"
                                      /\ ValueOf(bits, to) # ValueOf(v.bits, from))]

EmitAs(e, to) == Coerce(e.run[to], e.types[to], to, e, FALSE)

Truth(v) == [v EXCEPT !.bits = IF @ # 0 THEN 1 ELSE 0, !.type = "bool"]
Quotient(a, b) == LET q == (IF a < 0 THEN -a ELSE a) \div (IF b < 0 THEN -b ELSE b)
                  IN IF (a < 0) # (b < 0) THEN -q ELSE q

\* The exact result of an operator on numbers, and whether the language calls it a trap.
Exact(op, a, b) ==
  CASE op \in {"+", "+%", "+!"} -> a + b
    [] op \in {"-", "-%", "-!"} -> a - b
    [] op \in {"*", "*%", "*!"} -> a * b
    [] op = "/" -> Quotient(a, b)
    [] op = "%" -> a - b * Quotient(a, b)
Compared(op, a, b) ==
  CASE op = "==" -> a = b [] op = "!=" -> a # b [] op = "<" -> a < b
    [] op = ">" -> a > b [] op = "<=" -> a <= b [] op = ">=" -> a >= b

\* scalar_integer_op on two patterns of the type t: LLVM's instruction, behind its guards.
IntegerOp(op, x, y, t) ==
  LET a == ValueOf(x, t)  b == ValueOf(y, t)
  IN CASE op \in {"/", "%"} /\ b = 0 -> [Result(0, t) EXCEPT !.trap = 2]
       [] op \in {"/", "%"} /\ ~Unsigned(t) /\ x = 2^(Bits(t) - 1) /\ b = -1 -> [Result(0, t) EXCEPT !.trap = 3]
       [] op \in {"+!", "-!", "*!"} /\ ~InRange(Exact(op, a, b), t) -> [Result(0, t) EXCEPT !.trap = 1]
       [] op \in Comparisons -> Result(IF Compared(op, a, b) THEN 1 ELSE 0, "bool")
       [] op = "<<" -> Result((x * 2^y) % 2^Bits(t), t)
       [] op = ">>" -> Result(PatternOf(a \div 2^y, t), t)
       [] op = "&" -> Result(x & y, t)
       [] op = "|" -> Result(x | y, t)
       [] op = "^" -> Result(x ^^ y, t)
       [] OTHER -> Result(PatternOf(Exact(op, a, b), t), t)

\* scalar_shift_count: the count is tested in 64 bits, extended by its own sign.
\* (Fault: it is tested after it has been cut to the width of the left operand.)
ShiftCount_Cut(e, left) ==
  LET v == e.run[NoType]
      count == Converted(v, e.types[NoType], left)
  IN [v EXCEPT !.bits = count, !.type = left, !.trap = IF @ = 0 /\ count >= Bits(left) THEN 4 ELSE @]
ShiftCount(e, left) ==
  LET v == e.run[NoType]
      t == e.types[NoType]
  IN IF t = NoType THEN CompileError
     ELSE [v EXCEPT !.bits = Converted(v, t, left), !.type = left,
                    !.trap = IF @ = 0 /\ Converted(v, t, "u64") >= Bits(left) THEN 4 ELSE @]

EmitBinary(e, expected) ==
  LET shift == e.op \in Shifts
      common == IF shift THEN e.x.types[expected] ELSE Common(e.x, e.y, expected)
      a == EmitAs(e.x, common)
      b == After(a, IF shift THEN ShiftCount(e.y, common) ELSE EmitAs(e.y, common))
  IN IF common = NoType THEN CompileError
     ELSE IF b.error \/ b.trap # 0 THEN b
     ELSE After(b, IntegerOp(e.op, a.bits, b.bits, common))

\* The right operand is compiled, and run only when the left one does not decide.
EmitLogical(e) ==
  LET a == Truth(e.x.run[NoType])
      b == Truth(e.y.run[NoType])
      decided == (e.op = "&&") = (a.bits = 0)
  IN IF a.error \/ b.error THEN CompileError
     ELSE IF a.trap # 0 \/ decided THEN a ELSE After(a, b)

EmitTernary(e, expected) ==
  LET t == Common(e.x, e.y, expected)
      c == e.c.run[NoType]
      x == EmitAs(e.x, t)  y == EmitAs(e.y, t)
  IN IF t = NoType THEN CompileError
     ELSE IF c.error \/ x.error \/ y.error THEN CompileError
     ELSE IF c.trap # 0 THEN c ELSE After(c, IF c.bits # 0 THEN x ELSE y)

\* gen_cmp_chain: the base is evaluated once, and a condition only when those before it
\* leave the result open.  (Fault: after a condition that fails the next group is the
\* next condition.)
NextGroup_Next(tests, i) == i + 1
NextGroup(tests, i) ==
  CHOOSE j \in i + 1 .. Len(tests) + 1 :
    /\ j = Len(tests) + 1 \/ tests[j].connector = "or"
    /\ \A k \in i + 1 .. j - 1 : tests[k].connector = "and"

RECURSIVE RunTests(_, _, _, _)
RunTests(tests, base, t, i) ==
  LET rhs == EmitAs(tests[i].y, t)
      test == After(rhs, IntegerOp(tests[i].op, base.bits, rhs.bits, t))
      next == IF test.bits = 0 THEN NextGroup(tests, i)
              ELSE IF i < Len(tests) /\ tests[i + 1].connector = "and" THEN i + 1 ELSE Len(tests) + 1
  IN IF test.trap # 0 \/ next > Len(tests) THEN test ELSE After(test, RunTests(tests, base, t, next))

EmitChain(e) ==
  LET t == e.x.types[NoType]
      base == e.x.run[NoType]
  IN IF base.error \/ \E i \in DOMAIN e.tests : EmitAs(e.tests[i].y, t).error THEN CompileError
     ELSE IF base.trap # 0 THEN base ELSE After(base, RunTests(e.tests, base, t, 1))

Generated(e, expected) ==
  LET t == e.types[expected]
  IN
  CASE IsLiteral(e) ->
         IF LiteralFits(e, t)
         THEN Result(PatternOf(IF LiteralNegative(e) THEN 0 - LiteralMagnitude(e) ELSE LiteralMagnitude(e), t), t)
         ELSE CompileError
    [] e.op \in {"constant", "variable"} -> Result(e.bits, e.type)
    [] e.op = "global" -> Result(e.linked, e.type)
    [] e.op = "cast" -> Coerce(e.x.run[NoType], e.x.types[NoType], e.type, e, TRUE)
    [] e.op = "!x" -> LET a == Truth(e.x.run[NoType]) IN [a EXCEPT !.bits = 1 - @]
    [] e.op \in {"-x", "~x"} /\ ~IsLiteral(e) ->
         LET a == EmitAs(e.x, t)
         IN IF a.error \/ t = NoType THEN CompileError
            ELSE [a EXCEPT !.bits = IF e.op = "-x" THEN Negated(@, Bits(t)) ELSE Mask(Bits(t)) - @]
    [] e.op \in Logical -> EmitLogical(e)
    [] e.op = "?:" -> EmitTernary(e, expected)
    [] e.op = "chain" -> EmitChain(e)
    [] OTHER -> EmitBinary(e, expected)

--------------------------------------------------------------------------------
(* Every part is worked out before what it is a part of. *)

Contexts == ScalarTypes \cup {NoType}

Typed(e) == [types |-> [c \in Contexts |-> ExprType(e, c)]] @@ e
Evaluated(e) == [known |-> [c \in Contexts |-> ConstEval(e, c)]] @@ e
Compiled(e) == [run |-> [c \in Contexts |-> Generated(e, c)]] @@ e

RECURSIVE Annotated(_)
Annotated(e) ==
  Compiled(Evaluated(Typed(
    [part \in DOMAIN e |->
       CASE part \in {"c", "x", "y"} -> Annotated(e[part])
         [] part = "tests" -> [i \in DOMAIN e.tests |-> [e.tests[i] EXCEPT !.y = Annotated(@)]]
         [] OTHER -> e[part]])))

--------------------------------------------------------------------------------
(* Expressions, from the leaves up *)

VARIABLES scExpr,
          scDepth,
          scInner     \* all leaves so far are among the ones that may occur deeper
scVars == <<scExpr, scDepth, scInner>>

Nothing == [op |-> "nothing"]

ScalarInit == scExpr = Nothing /\ scDepth = 0 /\ scInner = TRUE

WriteLeaf(leaf) ==
  /\ scExpr = Nothing
  /\ scExpr' = leaf /\ scInner' = (leaf \in InnerLeaves) /\ UNCHANGED scDepth

\* An expression becomes an operand of the next one up.
Wrap(leaves) ==
  /\ scExpr # Nothing /\ scDepth < MaxDepth
  /\ scDepth > 0 => scInner /\ leaves \subseteq InnerLeaves
  /\ scDepth' = scDepth + 1 /\ scInner' = (scInner /\ leaves \subseteq InnerLeaves)

WriteUnary(op) == Wrap({}) /\ scExpr' = [op |-> op, x |-> scExpr]
WriteCast(t) == Wrap({}) /\ scExpr' = [op |-> "cast", type |-> t, x |-> scExpr]
WriteBinary(op, leaf) ==
  /\ Wrap({leaf})
  /\ scExpr' \in {[op |-> op, x |-> scExpr, y |-> leaf], [op |-> op, x |-> leaf, y |-> scExpr]}
WriteTernary(l, m) ==
  /\ Wrap({l, m})
  /\ scExpr' \in {[op |-> "?:", c |-> scExpr, x |-> l, y |-> m], [op |-> "?:", c |-> l, x |-> scExpr, y |-> m]}

\* parse_cmp_chain: "and" or "or" after a comparison goes on with its left side.
Test(connector, op, y) == [connector |-> connector, op |-> op, y |-> y]
ExtendChain(test) ==
  /\ scExpr.op \in Comparisons \cup {"chain"} /\ scInner
  /\ scExpr.op # "chain" => scDepth = 1    \* a bound: the operands are leaves
  /\ scExpr.op = "chain" => Len(scExpr.tests) < MaxTests
  /\ scExpr' = [op |-> "chain", x |-> scExpr.x,
                tests |-> Append(IF scExpr.op = "chain" THEN scExpr.tests
                                 ELSE <<Test("and", scExpr.op, scExpr.y)>>, test)]
  /\ scDepth' = MaxDepth /\ UNCHANGED scInner

ScalarNext ==
  \/ \E test \in ChainTests : ExtendChain(test)
  \/ \E leaf \in Leaves : WriteLeaf(leaf)
  \/ \E op \in {"-x", "~x", "!x"} : WriteUnary(op)
  \/ \E t \in ScalarTypes : WriteCast(t)
  \/ \E op \in Operators, leaf \in Leaves : WriteBinary(op, leaf)
  \/ \E l, m \in InnerLeaves : WriteTernary(l, m)

ScalarSpec == ScalarInit /\ [][ScalarNext]_scVars

--------------------------------------------------------------------------------
(* Properties. *)

\* What the compiler knows of an expression is what its code computes: no trap, the same
\* bits, the same type ("The emitted and folded paths must agree", and a proof of a
\* narrowing "must match the eventual load", cg_scalar_const.c:92).
FoldIsRun(e) ==
  \A t \in Contexts :
    LET known == e.known[t]
        run == e.run[t]
    IN known.known /\ ~run.error =>
         run.trap = 0 /\ run.bits = known.bits /\ run.type = known.type

\* Code without an error is well typed: the value it leaves has the type the rest of the
\* compiler believes it has, and no part of it has lost its type.
TypesBelieved(e) ==
  \A t \in Contexts :
    LET run == e.run[t]
    IN ~run.error /\ run.trap = 0 => run.type = e.types[t] /\ run.type \in ScalarTypes

\* An implicit conversion that is accepted never changes a value, whatever the variables
\* hold and whatever a replaceable constant is replaced by.
ConversionsKeepValues(e) ==
  \A t \in Contexts : LET run == EmitAs(e, t) IN ~run.error => ~run.changed

\* The operators mean what they mean for numbers: a comparison compares the numbers that
\* its operands are, arithmetic gives the exact result modulo the width, the trapping
\* forms trap exactly where it does not fit, and a count outside the width traps.  What
\* meets a bool counts as one if it is not zero.
LeafValue(leaf) ==
  IF leaf.op = "literal" THEN leaf.m
  ELSE ValueOf(IF leaf.op = "global" THEN leaf.linked ELSE leaf.bits, leaf.type)
OperandValue(leaf, common) ==
  IF common = "bool" THEN (IF LeafValue(leaf) # 0 THEN 1 ELSE 0) ELSE LeafValue(leaf)
OperatorsExact(e) ==
  scDepth = 1 /\ e.op \in Operators \ (Logical \cup {"&", "|", "^"}) =>
    LET common == IF e.op \in Shifts THEN e.x.types[NoType]
                  ELSE Common(e.x, e.y, NoType)
        a == OperandValue(e.x, common)
        b == IF e.op \in Shifts THEN LeafValue(e.y) ELSE OperandValue(e.y, common)
        run == e.run[NoType]
        result == ValueOf(run.bits, run.type)
    IN ~run.error =>
       CASE e.op \in Comparisons -> run.trap = 0 /\ (run.bits = 1) = Compared(e.op, a, b)
         [] e.op \in {"/", "%"} /\ b = 0 -> run.trap = 2
         [] e.op \in Shifts /\ (b < 0 \/ b >= Bits(common)) -> run.trap = 4
         [] e.op = "<<" /\ b >= 0 /\ b < Bits(common) -> run.trap = 0 /\ run.bits = PatternOf(a * 2^b, common)
         [] e.op = ">>" /\ b >= 0 /\ b < Bits(common) -> run.trap = 0 /\ result = a \div 2^b
         [] e.op \in {"+!", "-!", "*!", "/"} /\ (e.op = "/" => b # 0) ->
              IF InRange(Exact(e.op, a, b), common) THEN run.trap = 0 /\ result = Exact(e.op, a, b)
              ELSE run.trap = IF e.op = "/" THEN 3 ELSE 1
         [] e.op = "%" /\ b # 0 ->
              \/ run.trap = 0 /\ result = Exact("%", a, b)
              \/ run.trap = 3 /\ ~InRange(Exact("/", a, b), common)
         [] OTHER -> run.trap = 0 /\ run.bits = PatternOf(Exact(e.op, a, b), common)

\* A comparison chain is the disjunction of the conjunctions of its conditions ("AND binds
\* tighter than OR"), with the same value, and a trap only where those would have one.
Condition(e, i) == [op |-> e.tests[i].op, x |-> e.x, y |-> e.tests[i].y]
ChainIsItsConditions(e) ==
  e.op = "chain" /\ (\A i \in DOMAIN e.tests :
                           (e.x.types[NoType] = "bool") = (e.tests[i].y.types[NoType] = "bool")) =>
    LET n == Len(e.tests)
        groups[i \in 1 .. n] ==    \* the conditions up to i: the groups before, and the last
          IF i = 1 THEN [done |-> <<>>, last |-> Condition(e, 1)]
          ELSE IF e.tests[i].connector = "and"
          THEN [groups[i - 1] EXCEPT !.last = [op |-> "&&", x |-> @, y |-> Condition(e, i)]]
          ELSE [done |-> Append(groups[i - 1].done, groups[i - 1].last), last |-> Condition(e, i)]
        all == Append(groups[n].done, groups[n].last)
        either[i \in 1 .. Len(all)] ==
          IF i = 1 THEN all[1] ELSE [op |-> "||", x |-> either[i - 1], y |-> all[i]]
        meant == Annotated(either[Len(all)]).run[NoType]
        run == e.run[NoType]
    IN ~meant.error /\ ~run.error => run.trap = meant.trap /\ (run.trap = 0 => run.bits = meant.bits)

ExpressionSound(e) ==
  /\ ChainIsItsConditions(e) /\ FoldIsRun(e) /\ TypesBelieved(e)
  /\ ConversionsKeepValues(e) /\ OperatorsExact(e)

\* The compiler and its code agree on every expression, in the five ways above.
ScalarsSound ==
  scExpr # Nothing => ExpressionSound(Annotated(scExpr))

================================================================================
