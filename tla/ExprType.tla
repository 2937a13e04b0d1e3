------------------------------ MODULE ExprType -------------------------------
(***************************************************************************)
(* The types of expressions: elab_expr on operators (IrMgr_expr.cc) with   *)
(* the rules of CalcType.                                                  *)
(*                                                                         *)
(* An expression is elaborated operands first; stack holds the types of    *)
(* the operands that wait for their operator.  The node of a function call *)
(* has no type yet: its value_type() is NULL.                              *)
(***************************************************************************)
EXTENDS CalcType

CONSTANTS MaxStack      \* bound: operands waiting at once

ASSUME ExprTypeAssumption == MaxStack \in Nat

VARIABLES stack,   \* types of the elaborated operands
          last,    \* the last operator: its operands, what it required, its type
          pc       \* "run", "null" (elab_expr returned NULL) or "crash"

vars == <<stack, last, pc>>

-----------------------------------------------------------------------------
Init ==
  /\ stack = <<>>
  /\ last = NULL
  /\ pc = "run"

(* A constant, a variable, or (t = NULL) a call. *)
Leaf(t) ==
  /\ pc = "run"
  /\ Len(stack) < MaxStack
  /\ stack' = Append(stack, t)
  /\ UNCHANGED <<last, pc>>

(* The operator op takes the last n types; elab_expr returns NULL when it  *)
(* gets no type.                                                           *)
Apply(op, n, r) ==
  LET keep == Len(stack) - n
  IN  /\ stack' = Append(SubSeq(stack, 1, keep), r.type)
      /\ last' = [op |-> op, args |-> SubSeq(stack, keep + 1, Len(stack)),
                  req |-> r.req, type |-> r.type]
      /\ pc' = IF r.crash THEN "crash" ELSE IF r.type = NULL THEN "null" ELSE "run"

UniOp(op) ==
  /\ pc = "run" /\ Len(stack) >= 1
  /\ Apply(op, 1, calc_type1(op, stack[Len(stack)]))

BinOp(op) ==
  /\ pc = "run" /\ Len(stack) >= 2
  /\ Apply(op, 2, calc_type2(op, stack[Len(stack) - 1], stack[Len(stack)]))

TriOp ==
  /\ pc = "run" /\ Len(stack) >= 3
  /\ Apply("Ite", 3, calc_type3(stack[Len(stack) - 2], stack[Len(stack) - 1],
                                stack[Len(stack)]))

Next ==
  \/ \E t \in Types \cup {NULL} : Leaf(t)
  \/ \E op \in UniOps : UniOp(op)
  \/ \E op \in BinOps : BinOp(op)
  \/ TriOp

Spec == Init /\ [][Next]_vars

-----------------------------------------------------------------------------
Accepted == last # NULL /\ pc = "run"

(* Where an operator is accepted, each operand already has the type the    *)
(* rule requires or castable_to allows the cast the elaborator is to       *)
(* insert.  (Not so for the arithmetic operators: Arith accepts any type   *)
(* beside a float.)                                                        *)
CastsPossible ==
  (Accepted /\ last.op \notin ArithOps) =>
    \A i \in DOMAIN last.args :
      last.req[i] = last.args[i] \/ CastableTo(last.args[i], last.req[i])

(* The parser turns a > b into b < a and a >= b into b <= a: comparisons   *)
(* must give the same verdict, and ask for the same casts, both ways.      *)
SwapSafe ==
  (last # NULL /\ last.op \in OrderOps) =>
    LET back == calc_type2(last.op, last.args[2], last.args[1])
    IN  back.type = last.type /\ back.req = <<last.req[2], last.req[1]>>
==============================================================================
