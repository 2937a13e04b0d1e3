------------------------------ MODULE IrInterp ------------------------------
(***************************************************************************)
(* IrInterp: the value of a constant expression, computed over its nodes.  *)
(* An operand of a node is the node itself, the address of a load is its   *)
(* handle.  A result is <<v>>, or <<>> where the evaluation ends the       *)
(* compiler: in ASSERT_NOT_REACHED, or in a division the machine traps.    *)
(* A division by 0.0 is outside of the model.                              *)
(*                                                                         *)
(* The evaluations call each other on the operands and change nothing, so  *)
(* what they return for a node depends on the node and on what they return *)
(* for its operands: res[i].int is eval_int of the i-th operand, and so    *)
(* on.  A result that is not looked at is one that is not asked for.       *)
(***************************************************************************)
EXTENDS Ir, Number, Sequences

IntBinOp(opcode, a, b) ==
  CASE opcode = "BitAnd" -> <<BitAnd(a, b)>>
    [] opcode = "BitOr" -> <<BitOr(a, b)>>
    [] opcode = "BitXor" -> <<BitXor(a, b)>>
    [] opcode = "Add" -> <<Wrap(a + b)>>
    [] opcode = "Sub" -> <<Wrap(a - b)>>
    [] opcode = "Mul" -> <<Wrap(a * b)>>
    [] opcode = "Div" -> IF Traps(a, b) THEN <<>> ELSE <<Quotient(a, b)>>
    [] opcode = "Mod" -> IF Traps(a, b) THEN <<>> ELSE <<a - b * Quotient(a, b)>>
    [] opcode = "Lshift" -> <<Wrap(a * 2 ^ (b % IntWidth))>>   \* the machine masks b
    [] opcode = "Rshift" -> <<a \div 2 ^ (b % IntWidth)>>
    [] OTHER -> <<>>

FloatBinOp(opcode, a, b) ==
  CASE opcode = "Add" -> << <<a[1] * b[2] + b[1] * a[2], a[2] * b[2]>> >>
    [] opcode = "Sub" -> << <<a[1] * b[2] - b[1] * a[2], a[2] * b[2]>> >>
    [] opcode = "Mul" -> << <<a[1] * b[1], a[2] * b[2]>> >>
    [] opcode = "Div" /\ b[1] > 0 -> << <<a[1] * b[2], a[2] * b[1]>> >>
    [] opcode = "Div" /\ b[1] < 0 -> << <<- a[1] * b[2], - a[2] * b[1]>> >>
    [] OTHER -> <<>>

-----------------------------------------------------------------------------
Ended(r) == r = <<>>

Map1(r, F(_)) == IF Ended(r) THEN <<>> ELSE <<F(r[1])>>
Map2(r1, r2, F(_, _)) ==
  IF Ended(r1) \/ Ended(r2) THEN <<>> ELSE <<F(r1[1], r2[1])>>

(* The dispatch all three share: the branch of an if-then-else that the    *)
(* condition selects, and a load of a constant of the type asked for.      *)
Ite(cond, then, else) == IF Ended(cond) THEN <<>> ELSE IF cond[1] THEN then ELSE else
LoadConst(node, type) ==
  IF node.address.handle_type = type THEN <<node.address.val>> ELSE <<>>

(* A comparison goes by the type of its first operand. *)
Compare(node, res, IntRel(_, _), FloatRel(_, _)) ==
  CASE node.operand[1].value_type = "int" -> Map2(res[1].int, res[2].int, IntRel)
    [] node.operand[1].value_type = "float" -> Map2(res[1].float, res[2].float, FloatRel)
    [] OTHER -> <<>>

(* == of two booleans. *)
BooleanEq(res) == Map2(res[1].boolean, res[2].boolean, LAMBDA p, q : p = q)

BooleanBinOp(node, res) ==
  LET left == res[1].boolean
      right == res[2].boolean
      equal == IF node.operand[1].value_type = "boolean" THEN BooleanEq(res)
               ELSE Compare(node, res, LAMBDA a, b : a = b, FloatEq)
  IN  CASE node.opcode = "LogAnd" -> Ite(left, right, <<FALSE>>)
        [] node.opcode = "LogOr" -> Ite(left, <<TRUE>>, right)
        [] node.opcode = "Equal" -> equal
        [] node.opcode = "NotEq" -> Map1(equal, LAMBDA p : ~ p)
        [] node.opcode = "Lt" -> Compare(node, res, LAMBDA a, b : a < b, FloatLt)
        [] node.opcode = "Le" ->
             Compare(node, res, LAMBDA a, b : a <= b, LAMBDA a, b : ~ FloatLt(b, a))
        [] OTHER -> <<>>

CastToBoolean(type, r) ==
  CASE type = "boolean" -> r.boolean
    [] type = "int" -> Map1(r.int, LAMBDA n : n # 0)
    [] type = "float" -> Map1(r.float, LAMBDA f : f[1] # 0)
    [] OTHER -> <<>>

eval_boolean(node, res) ==
  CASE node.node_type = "UniOp" /\ node.opcode = "CastBoolean" ->
         CastToBoolean(node.operand[1].value_type, res[1])
    [] node.node_type = "UniOp" /\ node.opcode = "LogNot" ->
         Map1(res[1].boolean, LAMBDA p : ~ p)
    [] node.node_type = "BinOp" -> BooleanBinOp(node, res)
    [] node.node_type = "TriOp" -> Ite(res[1].boolean, res[2].boolean, res[3].boolean)
    [] node.node_type = "Load" -> LoadConst(node, "BooleanConst")
    [] OTHER -> <<>>

CastToInt(type, r) ==
  CASE type = "boolean" -> Map1(r.boolean, LAMBDA p : IF p THEN 1 ELSE 0)
    [] type = "int" -> r.int
    [] OTHER -> <<>>

eval_int(node, res) ==
  CASE node.node_type = "UniOp" /\ node.opcode = "CastInt" ->
         CastToInt(node.operand[1].value_type, res[1])
    [] node.node_type = "UniOp" /\ node.opcode = "BitNeg" ->
         Map1(res[1].int, LAMBDA n : Wrap(- n - 1))
    [] node.node_type = "UniOp" /\ node.opcode = "UniMinus" ->
         Map1(res[1].int, LAMBDA n : Wrap(- n))
    [] node.node_type = "BinOp" ->
         IF Ended(res[1].int) \/ Ended(res[2].int) THEN <<>>
         ELSE IntBinOp(node.opcode, res[1].int[1], res[2].int[1])
    [] node.node_type = "TriOp" -> Ite(res[1].boolean, res[2].int, res[3].int)
    [] node.node_type = "Load" -> LoadConst(node, "IntConst")
    [] OTHER -> <<>>

CastToFloat(type, r) ==
  CASE type = "boolean" -> Map1(r.boolean, LAMBDA p : FloatOf(IF p THEN 1 ELSE 0))
    [] type = "int" -> Map1(r.int, FloatOf)
    [] type = "float" -> r.float
    [] OTHER -> <<>>

eval_float(node, res) ==
  CASE node.node_type = "UniOp" /\ node.opcode = "CastFloat" ->
         CastToFloat(node.operand[1].value_type, res[1])
    [] node.node_type = "UniOp" /\ node.opcode = "UniMinus" ->
         Map1(res[1].float, LAMBDA f : <<- f[1], f[2]>>)
    [] node.node_type = "BinOp" ->
         IF Ended(res[1].float) \/ Ended(res[2].float) THEN <<>>
         ELSE FloatBinOp(node.opcode, res[1].float[1], res[2].float[1])
    [] node.node_type = "TriOp" -> Ite(res[1].boolean, res[2].float, res[3].float)
    [] node.node_type = "Load" -> LoadConst(node, "FloatConst")
    [] OTHER -> <<>>

(* What each of the evaluations returns for a node. *)
Results(node, res) == [boolean |-> eval_boolean(node, res), int |-> eval_int(node, res),
                       float |-> eval_float(node, res)]
=============================================================================
