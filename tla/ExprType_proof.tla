--------------------------- MODULE ExprType_proof ----------------------------
(***************************************************************************)
(* Proofs about ExprType: the casts the elaborator is to insert exist, and *)
(* comparisons may be swapped, for every set of enum and composite types   *)
(* and any number of waiting operands.                                     *)
(***************************************************************************)
EXTENDS ExprType, SequenceTheorems, TLAPS

(* The type of an elaborated operand, NULL for a call. *)
Opnd == Types \cup {NULL}

(* The operand has the type required or can be cast to it. *)
CastOK(a, req) == req = a \/ CastableTo(a, req)

-----------------------------------------------------------------------------
(* The rules. *)
LEMMA UniCasts ==
  ASSUME NEW op \in UniOps, NEW a \in Opnd
  PROVE  /\ calc_type1(op, a).type \in Opnd
         /\ CastOK(a, calc_type1(op, a).req[1])
  BY TypesAssumption
  DEF calc_type1, Typed, Mismatch, Crash, CastOK, Opnd, Types, Prim

LEMMA BinCasts ==
  ASSUME NEW op \in BinOps, NEW a \in Opnd, NEW b \in Opnd
  PROVE  /\ calc_type2(op, a, b).type \in Opnd
         /\ op \notin ArithOps => /\ CastOK(a, calc_type2(op, a, b).req[1])
                                  /\ CastOK(b, calc_type2(op, a, b).req[2])
  BY TypesAssumption
  DEF calc_type2, Typed, Mismatch, Crash, CastOK, CastableTo, Opnd, Types, Prim,
      BinOps, ArithOps, IntOps, LogOps, EqOps, OrderOps, Logical, Equality, Comparable, Arith

LEMMA TriCasts ==
  ASSUME NEW a \in Opnd, NEW b \in Opnd, NEW c \in Opnd
  PROVE  /\ calc_type3(a, b, c).type \in Opnd
         /\ CastOK(a, calc_type3(a, b, c).req[1])
         /\ CastOK(b, calc_type3(a, b, c).req[2])
         /\ CastOK(c, calc_type3(a, b, c).req[3])
  BY TypesAssumption
  DEF calc_type3, Typed, Mismatch, Crash, CastOK, Opnd, Types, Prim

(* A comparison asks the same of its operands in either order. *)
LEMMA OrderSwaps ==
  ASSUME NEW op \in OrderOps, NEW a \in Opnd, NEW b \in Opnd
  PROVE  LET there == calc_type2(op, a, b)
             back == calc_type2(op, b, a)
         IN  back.type = there.type /\ back.req = <<there.req[2], there.req[1]>>
  BY DEF calc_type2, Typed, Mismatch, OrderOps, IntOps, LogOps, ArithOps, EqOps, Comparable

-----------------------------------------------------------------------------
(* The operands an operator takes are the last ones of the stack. *)
LEMMA Taken ==
  ASSUME stack \in Seq(Opnd), NEW n \in 1 .. 3, Len(stack) >= n, NEW op, NEW r,
         r.type \in Opnd, Apply(op, n, r)
  PROVE  /\ stack' \in Seq(Opnd)
         /\ last'.op = op /\ last'.req = r.req /\ last'.type = r.type
         /\ DOMAIN last'.args = 1 .. n
         /\ \A i \in 1 .. n : last'.args[i] = stack[Len(stack) - n + i]
<1> DEFINE keep == Len(stack) - n
           args == SubSeq(stack, keep + 1, Len(stack))
<1>1. Len(stack) \in Nat /\ keep \in Nat /\ \A i \in 1 .. Len(stack) : stack[i] \in Opnd
  BY ElementOfSeq, LenProperties
<1>2. SubSeq(stack, 1, keep) \in Seq(Opnd)
  BY <1>1, SubSeqProperties
<1>3. /\ args \in Seq(Opnd) /\ Len(args) = n
      /\ \A i \in 1 .. n : args[i] = stack[keep + i]
  <2>1. \A i \in keep + 1 .. Len(stack) : stack[i] \in Opnd
    BY <1>1
  <2>2. /\ args \in Seq(Opnd)
        /\ Len(args) = IF keep + 1 <= Len(stack) THEN Len(stack) - (keep + 1) + 1 ELSE 0
        /\ \A i \in 1 .. Len(stack) - (keep + 1) + 1 : args[i] = stack[keep + 1 + i - 1]
    BY <1>1, <2>1, SubSeqProperties
  <2> QED
    BY <1>1, <2>2
<1>4. stack' = Append(SubSeq(stack, 1, keep), r.type)
  BY DEF Apply
<1>5. last' = [op |-> op, args |-> args, req |-> r.req, type |-> r.type]
  BY DEF Apply
<1>6. DOMAIN args = 1 .. n
  BY <1>3, LenProperties
<1> QED
  BY <1>2, <1>3, <1>4, <1>5, <1>6, AppendProperties

(* The elements of the stack are types of operands; what the properties    *)
(* say of the last operator then follows from the rules.                   *)
IInv == stack \in Seq(Opnd) /\ CastsPossible /\ SwapSafe

LEMMA InitIInv == Init => IInv
  BY EmptySeq DEF Init, IInv, CastsPossible, SwapSafe, Accepted

LEMMA NextIInv == IInv /\ [Next]_vars => IInv'
<1> SUFFICES ASSUME IInv, [Next]_vars PROVE IInv'
  OBVIOUS
<1>0. stack \in Seq(Opnd) /\ Len(stack) \in Nat
      /\ \A i \in 1 .. Len(stack) : stack[i] \in Opnd
  BY ElementOfSeq, LenProperties DEF IInv
<1>1. ASSUME NEW t \in Types \cup {NULL}, Leaf(t) PROVE IInv'
  <2>1. stack' \in Seq(Opnd)
    BY <1>0, <1>1, AppendProperties DEF Leaf, Opnd
  <2>2. last' = last /\ pc' = pc
    BY <1>1 DEF Leaf
  <2> QED
    BY <2>1, <2>2 DEF IInv, CastsPossible, SwapSafe, Accepted
<1>2. ASSUME NEW op \in UniOps, UniOp(op) PROVE IInv'
  <2> DEFINE a == stack[Len(stack)]
             r == calc_type1(op, a)
  <2>1. Len(stack) >= 1 /\ Apply(op, 1, r) /\ a \in Opnd
    BY <1>0, <1>2 DEF UniOp
  <2>2. r.type \in Opnd /\ CastOK(a, r.req[1])
    BY <2>1, UniCasts
  <2> HIDE DEF r
  <2>3. /\ stack' \in Seq(Opnd) /\ last'.op = op /\ last'.req = r.req
        /\ DOMAIN last'.args = 1 .. 1 /\ last'.args[1] = a
    BY <1>0, <2>1, <2>2, Taken
  <2>4. CastsPossible'
    BY <2>2, <2>3 DEF CastsPossible, CastOK
  <2>5. SwapSafe'
    BY <2>3 DEF SwapSafe, UniOps, OrderOps
  <2> QED
    BY <2>3, <2>4, <2>5 DEF IInv
<1>3. ASSUME NEW op \in BinOps, BinOp(op) PROVE IInv'
  <2> DEFINE a == stack[Len(stack) - 1]
             b == stack[Len(stack)]
             r == calc_type2(op, a, b)
  <2>1. Len(stack) >= 2 /\ Apply(op, 2, r) /\ a \in Opnd /\ b \in Opnd
    BY <1>0, <1>3 DEF BinOp
  <2>2. /\ r.type \in Opnd
        /\ op \notin ArithOps => CastOK(a, r.req[1]) /\ CastOK(b, r.req[2])
    BY <2>1, BinCasts
  <2>3. op \in OrderOps => /\ calc_type2(op, b, a).type = r.type
                           /\ calc_type2(op, b, a).req = <<r.req[2], r.req[1]>>
    BY <2>1, OrderSwaps
  <2> HIDE DEF r
  <2>4. /\ stack' \in Seq(Opnd) /\ last'.op = op /\ last'.req = r.req
        /\ last'.type = r.type /\ DOMAIN last'.args = 1 .. 2
        /\ \A i \in 1 .. 2 : last'.args[i] = stack[Len(stack) - 2 + i]
    BY <1>0, <2>1, <2>2, Taken
  <2>5. last'.args[1] = a /\ last'.args[2] = b
    BY <1>0, <2>4
  <2>6. CastsPossible'
    BY <2>2, <2>4, <2>5 DEF CastsPossible, CastOK
  <2>7. SwapSafe'
    BY <2>3, <2>4, <2>5 DEF SwapSafe
  <2> QED
    BY <2>4, <2>6, <2>7 DEF IInv
<1>4. ASSUME TriOp PROVE IInv'
  <2> DEFINE a == stack[Len(stack) - 2]
             b == stack[Len(stack) - 1]
             c == stack[Len(stack)]
             r == calc_type3(a, b, c)
  <2>1. Len(stack) >= 3 /\ Apply("Ite", 3, r) /\ a \in Opnd /\ b \in Opnd /\ c \in Opnd
    BY <1>0, <1>4 DEF TriOp
  <2>2. r.type \in Opnd /\ CastOK(a, r.req[1]) /\ CastOK(b, r.req[2]) /\ CastOK(c, r.req[3])
    BY <2>1, TriCasts
  <2> HIDE DEF r
  <2>3. /\ stack' \in Seq(Opnd) /\ last'.op = "Ite" /\ last'.req = r.req
        /\ DOMAIN last'.args = 1 .. 3
        /\ \A i \in 1 .. 3 : last'.args[i] = stack[Len(stack) - 3 + i]
    BY <1>0, <2>1, <2>2, Taken
  <2>4. last'.args[1] = a /\ last'.args[2] = b /\ last'.args[3] = c
    BY <1>0, <2>3
  <2>5. CastsPossible'
    BY <2>2, <2>3, <2>4 DEF CastsPossible, CastOK
  <2>6. SwapSafe'
    BY <2>3 DEF SwapSafe, OrderOps
  <2> QED
    BY <2>3, <2>5, <2>6 DEF IInv
<1>5. ASSUME UNCHANGED vars PROVE IInv'
  BY <1>5 DEF vars, IInv, CastsPossible, SwapSafe, Accepted
<1> QED
  BY <1>1, <1>2, <1>3, <1>4, <1>5 DEF Next

(* Every operator elab_expr accepts, the arithmetic ones apart, has        *)
(* operands that castable_to lets the elaborator cast to what the rules    *)
(* of TypeMgr.cc require.                                                  *)
THEOREM ExprTypeCastsPossible == Spec => []CastsPossible
<1>1. IInv => CastsPossible
  BY DEF IInv
<1> QED
  BY <1>1, InitIInv, NextIInv, PTL DEF Spec

(* The parser may turn > and >= into < and <= with swapped operands: the   *)
(* verdict and the casts are the same both ways.                           *)
THEOREM ExprTypeSwapSafe == Spec => []SwapSafe
<1>1. IInv => SwapSafe
  BY DEF IInv
<1> QED
  BY <1>1, InitIInv, NextIInv, PTL DEF Spec
==============================================================================
