--------------------------- MODULE ConstFold_proof ---------------------------
(***************************************************************************)
(* Proofs about constants and enums: for every width of int and every      *)
(* program, a constant is folded to what its expression means, and the     *)
(* elements of an enum have different values.                              *)
(*                                                                         *)
(* An expression is folded when all of it stands, so the invariant is      *)
(* about every operand that waits on the stack (EntryOK): an evaluation of *)
(* it returns only if it asks for the type of the node, and then returns   *)
(* what is meant wherever that is known.  The constants and the elements   *)
(* that loads refer to carry the same promise in the scope.                *)
(***************************************************************************)
EXTENDS ConstFold, SeqLemmas, FiniteSetTheorems

(* 2 ^ n counts the subsets of n elements. *)
LEMMA ModulusPositive == Modulus \in Nat \ {0}
<1> DEFINE S == 1 .. IntWidth
<1>1. IsFiniteSet(S) /\ Cardinality(S) = IntWidth
  BY IntWidthAssumption, FS_Interval
<1>2. IsFiniteSet(SUBSET S) /\ Cardinality(SUBSET S) = 2 ^ IntWidth
  BY <1>1, FS_SUBSET
<1>3. SUBSET S # {}
  OBVIOUS
<1> HIDE DEF S
<1>4. Cardinality(SUBSET S) \in Nat /\ Cardinality(SUBSET S) # 0
  BY <1>2, <1>3, FS_CardinalityType, FS_EmptySet
<1> QED
  BY <1>2, <1>4 DEF Modulus

(* A register holds an int. *)
LEMMA WrapInt ==
  ASSUME NEW n \in Int
  PROVE  Wrap(n) \in Int
BY ModulusPositive DEF Wrap, MinInt

(* What a register holds of an int of its range is that int. *)
LEMMA WrapFits ==
  ASSUME NEW n \in Int, MinInt <= n, n < - MinInt
  PROVE  Wrap(n) = n
<1>1. Modulus \in Nat \ {0}
  BY ModulusPositive
<1>2. MinInt \in Int /\ - MinInt - MinInt <= Modulus
  BY <1>1 DEF MinInt
<1>3. n - MinInt \in 0 .. Modulus - 1
  BY <1>1, <1>2
<1>4. (n - MinInt) % Modulus = n - MinInt
  BY <1>1, <1>2, <1>3
<1> QED
  BY <1>2, <1>4 DEF Wrap

(* Division of non-negative ints, with its remainder. *)
LEMMA Division ==
  ASSUME NEW a \in Int, a >= 0, NEW b \in Int, b > 0
  PROVE  \E k \in 0 .. a, m \in 0 .. b - 1 : k = a \div b /\ a = b * k + m
<1> DEFINE k == a \div b
           m == a % b
<1>1. k \in Int /\ m \in 0 .. b - 1
  OBVIOUS
<1>2. m = a - b * k
  OBVIOUS
<1> HIDE DEF k, m
<1>3. b * k > - b /\ b * k <= a /\ a = b * k + m
  BY <1>1, <1>2
<1>4. k >= 0
  BY <1>1, <1>3
<1>5. k <= b * k
  BY <1>1, <1>4
<1>6. k \in 0 .. a
  BY <1>1, <1>3, <1>4, <1>5
<1> QED
  BY <1>1, <1>3, <1>6 DEF k

(* Between - b and b there is one multiple of b. *)
LEMMA NoMultiple ==
  ASSUME NEW d \in Int, NEW b \in Int, b > 0, - b < d * b, d * b < b
  PROVE  d = 0
OBVIOUS

(* A product that is not negative has factors of one sign. *)
LEMMA SignOfFactor ==
  ASSUME NEW r \in Int, NEW a \in Int, r * a >= 0
  PROVE  /\ a > 0 => r >= 0
         /\ a < 0 => r <= 0
OBVIOUS
(* Abs by the sign of its argument. *)
LEMMA AbsFacts ==
  ASSUME NEW n \in Int
  PROVE  /\ Abs(n) \in Nat
         /\ n # 0 => Abs(n) # 0
         /\ n >= 0 => Abs(n) = n
         /\ n < 0 => Abs(n) = - n
BY DEF Abs

(* The quotient of the machine is the one that is rounded towards zero. *)
LEMMA QuotientExact ==
  ASSUME NEW a \in Int, NEW b \in Int, b # 0
  PROVE  Quotient(a, b) \in Int /\ ExactDiv(a, b) = Quotient(a, b)
<1> DEFINE A == Abs(a)
           B == Abs(b)
           s == IF (a < 0) # (b < 0) THEN -1 ELSE 1
           q == Quotient(a, b)
<1>1. /\ A \in Nat /\ B \in Nat \ {0}
      /\ a >= 0 => A = a
      /\ a < 0 => A = - a
      /\ b >= 0 => B = b
      /\ b < 0 => B = - b
  BY AbsFacts
<1>2. PICK k \in 0 .. A, m \in 0 .. B - 1 : k = A \div B /\ A = B * k + m
  <2>1. A \in Int /\ A >= 0 /\ B \in Int /\ B > 0
    BY <1>1
  <2> QED
    BY <2>1, Division
<1>3. q = s * k /\ s \in {-1, 1}
  BY <1>2 DEF Quotient
<1> HIDE DEF A, B, q
<1>4. k \in 0 .. A /\ m \in 0 .. B - 1 /\ A = B * k + m
  BY <1>2
<1>5. q \in - A .. A
  BY <1>1, <1>4, <1>3
<1>6. a - q * b = IF a < 0 THEN - m ELSE m
  <2>1. CASE a < 0 /\ b < 0
    <3>1. q = k /\ a = - A /\ b = - B
      BY <1>1, <1>4, <1>3, <2>1
    <3>2. q * b = - (B * k)
      BY <1>1, <1>4, <3>1
    <3> QED
      BY <1>1, <1>4, <2>1, <3>1, <3>2
  <2>2. CASE a < 0 /\ b >= 0
    <3>1. q = - k /\ a = - A /\ b = B
      BY <1>1, <1>4, <1>3, <2>2
    <3>2. q * b = - (B * k)
      BY <1>1, <1>4, <3>1
    <3> QED
      BY <1>1, <1>4, <2>2, <3>1, <3>2
  <2>3. CASE a >= 0 /\ b < 0
    <3>1. q = - k /\ a = A /\ b = - B
      BY <1>1, <1>4, <1>3, <2>3
    <3>2. q * b = B * k
      BY <1>1, <1>4, <3>1
    <3> QED
      BY <1>1, <1>4, <2>3, <3>1, <3>2
  <2>4. CASE a >= 0 /\ b >= 0
    <3>1. q = k /\ a = A /\ b = B
      BY <1>1, <1>4, <1>3, <2>4
    <3>2. q * b = B * k
      BY <1>1, <1>4, <3>1
    <3> QED
      BY <1>1, <1>4, <2>4, <3>1, <3>2
  <2> QED
    BY <2>1, <2>2, <2>3, <2>4
<1> DEFINE OK(p) == Abs(a - p * b) < B /\ (a - p * b) * a >= 0
<1>7. OK(q)
  <2> DEFINE r == a - q * b
  <2>1. r \in Int /\ r = IF a < 0 THEN - m ELSE m
    BY <1>4, <1>6
  <2> HIDE DEF r
  <2>2. Abs(r) < B
    BY <1>1, <1>4, <2>1 DEF Abs
  <2>3. r * a >= 0
    <3>1. CASE a < 0
      BY <1>4, <2>1, <3>1
    <3>2. CASE a >= 0
      BY <1>4, <2>1, <3>2
    <3> QED
      BY <3>1, <3>2
  <2> QED
    BY <2>2, <2>3 DEF r
<1>8. ASSUME NEW p \in - A .. A, OK(p)
      PROVE  p = q
  <2>1. CASE a = 0
    BY <1>1, <1>5, <2>1
  <2>2. CASE a # 0
    <3> DEFINE r == a - q * b
               t == a - p * b
               d == p - q
    <3>1. p \in Int /\ q \in Int
      BY <1>1, <1>5
    <3>2. r \in Int /\ t \in Int /\ d \in Int /\ r - t = d * b
      BY <3>1
    <3>3. /\ Abs(r) < B /\ r * a >= 0
          /\ Abs(t) < B /\ t * a >= 0
      BY <1>7, <1>8
    <3> HIDE DEF r, t, d
    <3>4. - B < r - t /\ r - t < B
      <4>1. a > 0 => r >= 0 /\ t >= 0
        BY <3>2, <3>3, SignOfFactor
      <4>2. a < 0 => r <= 0 /\ t <= 0
        BY <3>2, <3>3, SignOfFactor
      <4> QED
        BY <1>1, <2>2, <3>2, <3>3, <4>1, <4>2 DEF Abs
    <3>5. - B < d * B /\ d * B < B
      <4>1. CASE b >= 0
        BY <1>1, <3>2, <3>4, <4>1
      <4>2. CASE b < 0
        <5>1. b = - B
          BY <1>1, <4>2
        <5>2. d * B = - (d * b)
          BY <1>1, <3>2, <5>1
        <5> QED
          BY <1>1, <3>2, <3>4, <5>2
      <4> QED
        BY <4>1, <4>2
    <3>6. d = 0
      BY <1>1, <3>2, <3>5, NoMultiple
    <3> QED
      BY <3>1, <3>6 DEF d
  <2> QED
    BY <2>1, <2>2
<1> HIDE DEF OK
<1>9. (CHOOSE p \in - A .. A : OK(p)) = q
  BY <1>5, <1>7, <1>8
<1>10. ExactDiv(a, b) = CHOOSE p \in - A .. A : OK(p)
  BY DEF ExactDiv, OK, A, B
<1> QED
  BY <1>1, <1>5, <1>9, <1>10 DEF q

-----------------------------------------------------------------------------
(* The value a meaning has, if it is known. *)
ValueOK(type, val) ==
  /\ type = "boolean" => val \in BOOLEAN
  /\ type = "int" => val \in Int
  /\ type = "float" => val \in Int \X Int

MeansOK(m) == m.val # NULL => ValueOK(m.type, m.val)

(* An evaluation that is asked for another type than that of the node ends *)
(* the compiler; one that returns, returns what is meant.                  *)
ResultOK(e, type, r) ==
  r # <<>> => e.node.value_type = type /\ (e.means.val # NULL => r = <<e.means.val>>)

EntryOK(e) ==
  /\ e.means.type = e.node.value_type
  /\ MeansOK(e.means)
  /\ ResultOK(e, "boolean", e.res.boolean)
  /\ ResultOK(e, "int", e.res.int)
  /\ ResultOK(e, "float", e.res.float)

Entry(node, res, means) == [node |-> node, res |-> Results(node, res), means |-> means]

(* EntryOK, in terms of the three evaluations. *)
LEMMA EntryFacts ==
  ASSUME NEW node, NEW res, NEW means,
         means.type = node.value_type, MeansOK(means),
         NEW b, b = eval_boolean(node, res), NEW i, i = eval_int(node, res),
         NEW f, f = eval_float(node, res),
         b # <<>> => node.value_type = "boolean" /\ (means.val # NULL => b = <<means.val>>),
         i # <<>> => node.value_type = "int" /\ (means.val # NULL => i = <<means.val>>),
         f # <<>> => node.value_type = "float" /\ (means.val # NULL => f = <<means.val>>)
  PROVE  EntryOK(Entry(node, res, means))
BY DEF EntryOK, Entry, ResultOK, Results

(* A load evaluates to the value of its constant, asked for by its type. *)
LEMMA LoadEntry ==
  ASSUME NEW h, NEW static, NEW m, MeansOK(m),
         h.handle_type = "BooleanConst" =>
           m.type = "boolean" /\ (m.val # NULL => h.val = m.val),
         h.handle_type = "IntConst" => m.type = "int" /\ (m.val # NULL => h.val = m.val),
         h.handle_type = "FloatConst" => m.type = "float" /\ (m.val # NULL => h.val = m.val)
  PROVE  EntryOK(Entry(IrLoad(m.type, h, static), <<>>, m))
<1> DEFINE node == IrLoad(m.type, h, static)
<1>1. /\ eval_boolean(node, <<>>) =
           IF h.handle_type = "BooleanConst" THEN <<h.val>> ELSE <<>>
      /\ eval_int(node, <<>>) = IF h.handle_type = "IntConst" THEN <<h.val>> ELSE <<>>
      /\ eval_float(node, <<>>) = IF h.handle_type = "FloatConst" THEN <<h.val>> ELSE <<>>
      /\ node.value_type = m.type
  BY DEF eval_boolean, eval_int, eval_float, IrLoad, LoadConst
<1> HIDE DEF node
<1> QED
  BY <1>1, EntryFacts DEF node

(* The unary operators. *)
LEMMA UniEntry ==
  ASSUME NEW a, EntryOK(a), NEW op, NEW static,
         NEW type, type = calc_type1(op, a.node.value_type).type, type # NULL
  PROVE  EntryOK(Entry(IrUniOp(op, type, a.node, static), <<a.res>>,
                       MeansUni(op, type, a.means)))
<1> DEFINE node == IrUniOp(op, type, a.node, static)
           means == MeansUni(op, type, a.means)
           res == <<a.res>>
           t == a.node.value_type
           v == a.means.val
           b == eval_boolean(node, res)
           i == eval_int(node, res)
           f == eval_float(node, res)
<1>1. /\ a.means.type = t /\ (v # NULL => ValueOK(t, v))
      /\ a.res.boolean # <<>> => t = "boolean" /\ (v # NULL => a.res.boolean = <<v>>)
      /\ a.res.int # <<>> => t = "int" /\ (v # NULL => a.res.int = <<v>>)
      /\ a.res.float # <<>> => t = "float" /\ (v # NULL => a.res.float = <<v>>)
  BY DEF EntryOK, MeansOK, ResultOK
<1>2. \/ op = "BitNeg" /\ t = "int" /\ type = "int"
      \/ op = "LogNot" /\ t \in {"boolean", "int", "float"} /\ type = "boolean"
      \/ op = "UniMinus" /\ t \in {"int", "float"} /\ type = t
  BY DEF calc_type1, Typed, Mismatch, Crash, CastableTo, Prim
<1>3. node.node_type = "UniOp" /\ node.opcode = op /\ node.value_type = type
  BY DEF IrUniOp, IrOp
<1>4. CASE op = "BitNeg"
  <2>1. b = <<>> /\ f = <<>> /\ type = "int"
    BY <1>2, <1>3, <1>4 DEF eval_boolean, eval_float
  <2>2. means.type = "int" /\ means.val = NULL
    BY <1>2, <1>4 DEF MeansUni, Unknown, Means
  <2> HIDE DEF b, i, f, node, means
  <2> QED
    BY <1>3, <2>1, <2>2, EntryFacts DEF MeansOK, b, i, f, node, means
<1>5. CASE op = "LogNot"
  <2>1. i = <<>> /\ f = <<>> /\ type = "boolean"
        /\ b = IF a.res.boolean = <<>> THEN <<>> ELSE <<~ a.res.boolean[1]>>
    BY <1>2, <1>3, <1>5 DEF eval_boolean, eval_int, eval_float, Map1, Ended
  <2>2. means.type = "boolean" /\ MeansOK(means)
        /\ (means.val # NULL => v # NULL /\ (t = "boolean" => means.val = ~ v))
    BY <1>1, <1>2, <1>5 DEF MeansUni, Unknown, Means, Truth, MeansOK, ValueOK
  <2> HIDE DEF i, f, node, means
  <2>3. b # <<>> => (means.val # NULL => b = <<means.val>>)
    BY <1>1, <2>1, <2>2 DEF ValueOK
  <2> HIDE DEF b
  <2> QED
    BY <1>3, <2>1, <2>2, <2>3, EntryFacts DEF b, i, f, node, means
<1>6. CASE op = "UniMinus" /\ t = "int"
  <2>1. b = <<>> /\ f = <<>> /\ type = "int"
        /\ i = IF a.res.int = <<>> THEN <<>> ELSE <<Wrap(- a.res.int[1])>>
    BY <1>1, <1>2, <1>3, <1>6 DEF eval_boolean, eval_int, eval_float, Map1, Ended
  <2>2. means.type = "int" /\ MeansOK(means)
        /\ (means.val # NULL => v # NULL /\ means.val = - v /\ InRange(- v))
    BY <1>1, <1>2, <1>6 DEF MeansUni, Unknown, Means, IntMeans, MeansOK, ValueOK
  <2> HIDE DEF b, f, node, means
  <2>3. i # <<>> => (means.val # NULL => i = <<means.val>>)
    BY <1>1, <1>6, <2>1, <2>2, WrapFits DEF ValueOK, InRange
  <2> HIDE DEF i
  <2> QED
    BY <1>3, <2>1, <2>2, <2>3, EntryFacts DEF b, i, f, node, means
<1>7. CASE op = "UniMinus" /\ t = "float"
  <2>1. b = <<>> /\ i = <<>> /\ type = "float"
        /\ f = IF a.res.float = <<>> THEN <<>>
               ELSE << <<- a.res.float[1][1], a.res.float[1][2]>> >>
    BY <1>1, <1>2, <1>3, <1>7 DEF eval_boolean, eval_int, eval_float, Map1, Ended
  <2>2. means.type = "float" /\ MeansOK(means)
        /\ (means.val # NULL => v # NULL /\ means.val = <<- v[1], v[2]>>)
    BY <1>1, <1>2, <1>7 DEF MeansUni, Unknown, Means, MeansOK, ValueOK
  <2> HIDE DEF b, i, node, means
  <2>3. f # <<>> => (means.val # NULL => f = <<means.val>>)
    BY <1>1, <2>1, <2>2
  <2> HIDE DEF f
  <2> QED
    BY <1>3, <2>1, <2>2, <2>3, EntryFacts DEF b, i, f, node, means
<1> QED
  BY <1>2, <1>4, <1>5, <1>6, <1>7

(* What an entry of the stack says of the operand. *)
LEMMA OperandFacts ==
  ASSUME NEW a, EntryOK(a), NEW t, t = a.node.value_type, NEW v, v = a.means.val
  PROVE  /\ a.means.type = t /\ (v # NULL => ValueOK(t, v))
         /\ a.res.boolean # <<>> => t = "boolean" /\ (v # NULL => a.res.boolean = <<v>>)
         /\ a.res.int # <<>> => t = "int" /\ (v # NULL => a.res.int = <<v>>)
         /\ a.res.float # <<>> => t = "float" /\ (v # NULL => a.res.float = <<v>>)
BY DEF EntryOK, MeansOK, ResultOK

(* What the evaluations of a binary operator look at. *)
LEMMA BinFacts ==
  ASSUME NEW op, NEW type, NEW n1, NEW n2, NEW static, NEW r1, NEW r2,
         NEW node, node = IrBinOp(op, type, n1, n2, static)
  PROVE  /\ node.value_type = type
         /\ eval_boolean(node, <<r1, r2>>) = BooleanBinOp(node, <<r1, r2>>)
         /\ eval_int(node, <<r1, r2>>) =
              IF r1.int = <<>> \/ r2.int = <<>> THEN <<>>
              ELSE IntBinOp(op, r1.int[1], r2.int[1])
         /\ eval_float(node, <<r1, r2>>) =
              IF r1.float = <<>> \/ r2.float = <<>> THEN <<>>
              ELSE FloatBinOp(op, r1.float[1], r2.float[1])
         /\ node.opcode = op /\ node.operand[1] = n1
BY DEF IrBinOp, IrOp, eval_boolean, eval_int, eval_float, Ended

(* The classes of operators are disjoint. *)
LEMMA OpsApart ==
  /\ ArithOps \cap (IntOps \cup LogOps \cup EqOps \cup OrderOps) = {}
  /\ IntOps \cap (LogOps \cup EqOps \cup OrderOps) = {}
  /\ LogOps \cap (EqOps \cup OrderOps) = {} /\ EqOps \cap OrderOps = {}
BY DEF ArithOps, IntOps, LogOps, EqOps, OrderOps

(* An arithmetic operator has no boolean value, ... *)
LEMMA NoBoolean ==
  ASSUME NEW op \in ArithOps \cup IntOps, NEW node, node.opcode = op, NEW res
  PROVE  BooleanBinOp(node, res) = <<>>
BY DEF BooleanBinOp, ArithOps, IntOps

(* ... and any other operator has no number. *)
LEMMA NoNumber ==
  ASSUME NEW op, op \notin ArithOps \cup IntOps, NEW a, NEW b
  PROVE  IntBinOp(op, a, b) = <<>> /\ FloatBinOp(op, a, b) = <<>>
BY DEF IntBinOp, FloatBinOp, ArithOps, IntOps

(* Arithmetic on ints: what is known of the result is in range. *)
LEMMA IntExact ==
  ASSUME NEW op, NEW x \in Int, NEW y \in Int
  PROVE  LET m == MeansInt(op, x, y)
             i == IntBinOp(op, x, y)
         IN  /\ m.type = "int" /\ MeansOK(m)
             /\ i # <<>> /\ m.val # NULL => i = <<m.val>>
<1> DEFINE m == MeansInt(op, x, y)
           i == IntBinOp(op, x, y)
<1>1. ASSUME NEW n \in Int, m = IntMeans(n)
      PROVE  m.type = "int" /\ MeansOK(m) /\ (m.val # NULL => InRange(n) /\ m.val = n)
  BY <1>1 DEF IntMeans, Means, MeansOK, ValueOK
<1>2. ASSUME NEW n \in Int, m = IntMeans(n), i = <<Wrap(n)>>
      PROVE  m.type = "int" /\ MeansOK(m) /\ (m.val # NULL => i = <<m.val>>)
  <2>1. m.type = "int" /\ MeansOK(m) /\ (m.val # NULL => InRange(n) /\ m.val = n)
    BY <1>1, <1>2
  <2> QED
    BY <1>2, <2>1, WrapFits DEF InRange
<1>3. CASE op = "Add"
  <2>1. m = IntMeans(x + y) /\ i = <<Wrap(x + y)>>
    BY <1>3 DEF MeansInt, IntBinOp
  <2> QED
    BY <1>2, <2>1
<1>4. CASE op = "Sub"
  <2>1. m = IntMeans(x - y) /\ i = <<Wrap(x - y)>>
    BY <1>4 DEF MeansInt, IntBinOp
  <2> QED
    BY <1>2, <2>1
<1>5. CASE op = "Mul"
  <2>1. m = IntMeans(x * y) /\ i = <<Wrap(x * y)>>
    BY <1>5 DEF MeansInt, IntBinOp
  <2>2. x * y \in Int
    OBVIOUS
  <2> QED
    BY <1>2, <2>1, <2>2
<1>6. CASE op = "Div" /\ y # 0
  <2>1. m = IntMeans(Quotient(x, y)) /\ Quotient(x, y) \in Int
    BY <1>6, QuotientExact DEF MeansInt
  <2>2. i = <<>> \/ i = <<Quotient(x, y)>>
    BY <1>6 DEF IntBinOp
  <2> HIDE DEF m, i
  <2>3. m.type = "int" /\ MeansOK(m) /\ (m.val # NULL => m.val = Quotient(x, y))
    BY <1>1, <2>1
  <2> QED
    BY <2>2, <2>3 DEF m, i
<1>7. CASE op = "Mod" /\ y # 0
  <2> DEFINE n == x - y * Quotient(x, y)
  <2>1. m = IntMeans(n) /\ n \in Int
    BY <1>7, QuotientExact DEF MeansInt
  <2>2. i = <<>> \/ i = <<n>>
    BY <1>7 DEF IntBinOp
  <2> HIDE DEF m, i, n
  <2>3. m.type = "int" /\ MeansOK(m) /\ (m.val # NULL => m.val = n)
    BY <1>1, <2>1
  <2> QED
    BY <2>2, <2>3 DEF m, i
<1>8. CASE /\ op \notin {"Add", "Sub", "Mul"}
           /\ ~ (op \in {"Div", "Mod"} /\ y # 0)
  BY <1>8 DEF MeansInt, Unknown, Means, MeansOK
<1> QED
  BY <1>3, <1>4, <1>5, <1>6, <1>7, <1>8

(* Arithmetic on fractions; the quotient is not known. *)
LEMMA FloatExact ==
  ASSUME NEW op, NEW x \in Int \X Int, NEW y \in Int \X Int
  PROVE  LET m == MeansFloat(op, x, y)
             f == FloatBinOp(op, x, y)
         IN  /\ m.type = "float" /\ MeansOK(m)
             /\ f # <<>> /\ m.val # NULL => f = <<m.val>>
<1>1. x[1] \in Int /\ x[2] \in Int /\ y[1] \in Int /\ y[2] \in Int
  OBVIOUS
<1>2. /\ x[1] * y[2] \in Int
      /\ y[1] * x[2] \in Int
      /\ x[2] * y[2] \in Int
      /\ x[1] * y[1] \in Int
  BY <1>1
<1> DEFINE m == MeansFloat(op, x, y)
           f == FloatBinOp(op, x, y)
<1>3. ASSUME NEW p \in Int, NEW q \in Int, m = Means("float", <<p, q>>), f = << <<p, q>> >>
      PROVE  m.type = "float" /\ MeansOK(m) /\ (m.val # NULL => f = <<m.val>>)
  <2> HIDE DEF m, f
  <2>1. m.type = "float" /\ m.val = <<p, q>>
    BY <1>3 DEF Means
  <2>2. <<p, q>> \in Int \X Int
    OBVIOUS
  <2> QED
    BY <1>3, <2>1, <2>2 DEF MeansOK, ValueOK
<1>4. CASE op \in {"Add", "Sub", "Mul"}
  <2>1. \/ /\ m = Means("float", <<x[1] * y[2] + y[1] * x[2], x[2] * y[2]>>)
           /\ f = << <<x[1] * y[2] + y[1] * x[2], x[2] * y[2]>> >>
        \/ /\ m = Means("float", <<x[1] * y[2] - y[1] * x[2], x[2] * y[2]>>)
           /\ f = << <<x[1] * y[2] - y[1] * x[2], x[2] * y[2]>> >>
        \/ /\ m = Means("float", <<x[1] * y[1], x[2] * y[2]>>)
           /\ f = << <<x[1] * y[1], x[2] * y[2]>> >>
    BY <1>4 DEF MeansFloat, FloatBinOp
  <2>2. x[1] * y[2] + y[1] * x[2] \in Int /\ x[1] * y[2] - y[1] * x[2] \in Int
    BY <1>2
  <2> HIDE DEF m, f
  <2>3. m.type = "float" /\ MeansOK(m) /\ (m.val # NULL => f = <<m.val>>)
    BY <1>3, <1>2, <2>1, <2>2
  <2> QED
    BY <2>3 DEF m, f
<1>5. CASE op \notin {"Add", "Sub", "Mul"}
  BY <1>5 DEF MeansFloat, Unknown, Means, MeansOK
<1> QED
  BY <1>4, <1>5

(* The rules of the binary operators, as far as the values need them. *)
LEMMA BinRules ==
  ASSUME NEW op, NEW t, NEW u, NEW type, type = calc_type2(op, t, u).type, type # NULL
  PROVE  /\ op \in IntOps => t = "int" /\ u = "int" /\ type = "int"
         /\ op \in LogOps =>
              /\ t \in {"boolean", "int", "float"} /\ u \in {"boolean", "int", "float"}
              /\ type = "boolean"
         /\ op \in ArithOps =>
              \/ t = "int" /\ u = "int" /\ type = "int"
              \/ u = "float" /\ type = "float"
         /\ op \notin IntOps \cup LogOps \cup ArithOps =>
              type = "boolean" /\ t # "boolean" /\ u # "boolean"
<1>1. CASE op \in IntOps
  BY <1>1, OpsApart DEF calc_type2, Typed, Mismatch
<1>2. CASE op \in LogOps
  BY <1>2, OpsApart DEF calc_type2, Logical, CastableTo, Prim, Typed, Mismatch, Crash
<1>3. CASE op \in ArithOps
  <2>1. op \notin IntOps \cup LogOps
    BY <1>3, OpsApart
  <2>2. calc_type2(op, t, u) = Arith(t, u)
    BY <1>3, <2>1 DEF calc_type2
  <2>3. \/ t = "int" /\ u = "int" /\ type = "int"
        \/ u = "float" /\ type = "float"
    BY <2>2 DEF Arith, Typed, Mismatch
  <2>4. op \notin IntOps /\ op \notin LogOps
    BY <2>1
  <2> QED
    BY <1>3, <2>3, <2>4, Zenon
<1>4. CASE op \notin IntOps \cup LogOps \cup ArithOps
  <2>1. "boolean" \notin EnumTypes
    BY TypesAssumption DEF Prim
  <2> QED
    BY <1>4, <2>1 DEF calc_type2, Equality, Comparable, Typed, Mismatch, Crash
<1> QED
  BY <1>1, <1>2, <1>3, <1>4

(* And and or: the second operand counts only where the first does not     *)
(* decide.                                                                 *)
LEMMA LogicExact ==
  ASSUME NEW op \in LogOps, NEW m1, NEW m2, NEW res, NEW node, node.opcode = op,
         m1.type \in {"boolean", "int", "float"}, m2.type \in {"boolean", "int", "float"},
         MeansOK(m1), MeansOK(m2),
         res[1].boolean # <<>> =>
           m1.type = "boolean" /\ (m1.val # NULL => res[1].boolean = <<m1.val>>),
         res[2].boolean # <<>> =>
           m2.type = "boolean" /\ (m2.val # NULL => res[2].boolean = <<m2.val>>),
         NEW m, m = MeansBin(op, "boolean", m1, m2), NEW b, b = BooleanBinOp(node, res)
  PROVE  /\ m.type = "boolean" /\ MeansOK(m)
         /\ b # <<>> /\ m.val # NULL => b = <<m.val>>
<1> DEFINE r1 == res[1].boolean
           r2 == res[2].boolean
<1>1. b = IF r1 = <<>> THEN <<>>
          ELSE IF op = "LogAnd" THEN IF r1[1] THEN r2 ELSE <<FALSE>>
          ELSE IF r1[1] THEN <<TRUE>> ELSE r2
  BY DEF BooleanBinOp, Ite, Ended, LogOps
<1>2. CASE m1.val = NULL \/ m2.val = NULL
  BY <1>2 DEF MeansBin, Unknown, Means, MeansOK
<1>3. CASE m1.val # NULL /\ m2.val # NULL
  <2>1. /\ m1.type = "boolean" => Truth(m1) = m1.val
        /\ m2.type = "boolean" => Truth(m2) = m2.val
        /\ Truth(m1) \in BOOLEAN /\ Truth(m2) \in BOOLEAN
    BY <1>3 DEF Truth, MeansOK, ValueOK
  <2>2. /\ m.type = "boolean"
        /\ op = "LogAnd" => m.val = (Truth(m1) /\ Truth(m2))
        /\ op = "LogOr" => m.val = (Truth(m1) \/ Truth(m2))
    BY <1>3, OpsApart DEF MeansBin, Means, LogOps
  <2>3. MeansOK(m)
    BY <2>1, <2>2 DEF MeansOK, ValueOK, LogOps
  <2>4. ASSUME b # <<>> PROVE b = <<m.val>>
    <3>1. m1.type = "boolean" /\ r1 = <<m1.val>> /\ r1[1] = Truth(m1)
      BY <1>1, <1>3, <2>1, <2>4
    <3>2. r2 # <<>> => r2 = <<Truth(m2)>>
      BY <1>3, <2>1
    <3>3. CASE op = "LogAnd"
      <4>1. CASE Truth(m1)
        BY <1>1, <2>1, <2>2, <2>4, <3>1, <3>2, <3>3, <4>1
      <4>2. CASE ~ Truth(m1)
        BY <1>1, <2>1, <2>2, <2>4, <3>1, <3>2, <3>3, <4>2
      <4> QED
        BY <4>1, <4>2
    <3>4. CASE op = "LogOr"
      <4>1. CASE Truth(m1)
        BY <1>1, <2>1, <2>2, <2>4, <3>1, <3>2, <3>4, <4>1
      <4>2. CASE ~ Truth(m1)
        BY <1>1, <2>1, <2>2, <2>4, <3>1, <3>2, <3>4, <4>2
      <4> QED
        BY <4>1, <4>2
    <3> QED
      BY <3>3, <3>4 DEF LogOps
  <2> QED
    BY <2>2, <2>3, <2>4
<1> QED
  BY <1>2, <1>3

(* Comparisons: cross multiplication is exact. *)
LEMMA CompareExact ==
  ASSUME NEW op, op \notin IntOps \cup LogOps \cup ArithOps, NEW m1, NEW m2,
         MeansOK(m1), MeansOK(m2), m1.type # "boolean", NEW res,
         NEW node, node.opcode = op, node.operand[1].value_type = m1.type,
         res[1].int # <<>> => m1.type = "int" /\ (m1.val # NULL => res[1].int = <<m1.val>>),
         res[2].int # <<>> => m2.type = "int" /\ (m2.val # NULL => res[2].int = <<m2.val>>),
         res[1].float # <<>> =>
           m1.type = "float" /\ (m1.val # NULL => res[1].float = <<m1.val>>),
         res[2].float # <<>> =>
           m2.type = "float" /\ (m2.val # NULL => res[2].float = <<m2.val>>),
         NEW m, m = MeansBin(op, "boolean", m1, m2), NEW b, b = BooleanBinOp(node, res)
  PROVE  /\ m.type = "boolean" /\ MeansOK(m)
         /\ b # <<>> /\ m.val # NULL => b = <<m.val>>
<1> DEFINE numeric == {m1.type, m2.type} \subseteq {"int", "float"}
           f == AsFloat(m1)
           g == AsFloat(m2)
           d == f[1] * g[2] - g[1] * f[2]
<1>1. CASE m1.val = NULL \/ m2.val = NULL
  BY <1>1 DEF MeansBin, Unknown, Means, MeansOK
<1>2. CASE /\ m1.val # NULL /\ m2.val # NULL
           /\ ~ (numeric /\ op \in EqOps \cup OrderOps)
  <2>1. op \notin {"LogAnd", "LogOr"} /\ op \notin ArithOps \cup IntOps
    BY DEF LogOps
  <2>2. m = Unknown("boolean")
    BY <1>2, <2>1 DEF MeansBin
  <2> QED
    BY <2>2 DEF Unknown, Means, MeansOK
<1>3. CASE /\ m1.val # NULL /\ m2.val # NULL
           /\ numeric /\ op \in EqOps \cup OrderOps
  <2>1. f \in Int \X Int /\ g \in Int \X Int
    BY <1>3 DEF MeansOK, ValueOK, AsFloat
  <2>2. f[1] * g[2] \in Int /\ g[1] * f[2] \in Int /\ d \in Int
    BY <2>1
  <2>3. m = MeansOrder(op, d)
    BY <1>3, OpsApart DEF MeansBin, LogOps
  <2>4. /\ m.type = "boolean" /\ m.val \in BOOLEAN
        /\ op = "Equal" => m.val = (f[1] * g[2] = g[1] * f[2])
        /\ op = "NotEq" => m.val = ~ (f[1] * g[2] = g[1] * f[2])
        /\ op = "Lt" => m.val = (f[1] * g[2] < g[1] * f[2])
        /\ op = "Le" => m.val = ~ (g[1] * f[2] < f[1] * g[2])
    <3> DEFINE p == f[1] * g[2]
               q == g[1] * f[2]
    <3>1. p \in Int /\ q \in Int /\ d = p - q
      BY <2>2
    <3>2. m = MeansOrder(op, d)
      BY <2>3
    <3> HIDE DEF p, q, d
    <3>3. /\ (d = 0) = (p = q)
          /\ (d # 0) = ~ (p = q)
          /\ (d < 0) = (p < q)
          /\ (d <= 0) = ~ (q < p)
      BY <3>1
    <3>4. /\ m.type = "boolean"
          /\ op = "Equal" => m.val = (d = 0)
          /\ op = "NotEq" => m.val = (d # 0)
          /\ op = "Lt" => m.val = (d < 0)
          /\ op = "Le" => m.val = (d <= 0)
      BY <3>2 DEF MeansOrder, Means
    <3>5. op \in {"Equal", "NotEq", "Lt", "Le"}
      BY <1>3 DEF EqOps, OrderOps
    <3>6. op = "Equal" => m.val = (p = q)
      BY <3>3, <3>4, Zenon
    <3>7. op = "NotEq" => m.val = ~ (p = q)
      BY <3>3, <3>4, Zenon
    <3>8. op = "Lt" => m.val = (p < q)
      BY <3>3, <3>4, Zenon
    <3>9. op = "Le" => m.val = ~ (q < p)
      BY <3>3, <3>4, Zenon
    <3>10. m.val \in BOOLEAN
      <4>1. /\ (p = q) \in BOOLEAN /\ (~ (p = q)) \in BOOLEAN
            /\ (p < q) \in BOOLEAN /\ (~ (q < p)) \in BOOLEAN
        OBVIOUS
      <4> QED
        BY <3>5, <3>6, <3>7, <3>8, <3>9, <4>1, Zenon
    <3> QED
      BY <3>4, <3>6, <3>7, <3>8, <3>9, <3>10, Zenon DEF p, q
  <2>5. MeansOK(m)
    BY <2>4 DEF MeansOK, ValueOK
  <2>6. ASSUME b # <<>>
        PROVE  \/ op = "Equal" /\ b = << f[1] * g[2] = g[1] * f[2] >>
               \/ op = "NotEq" /\ b = << ~ (f[1] * g[2] = g[1] * f[2]) >>
               \/ op = "Lt" /\ b = << f[1] * g[2] < g[1] * f[2] >>
               \/ op = "Le" /\ b = << ~ (g[1] * f[2] < f[1] * g[2]) >>
    <3>1. CASE m1.type = "int"
      <4>1. res[1].int # <<>> /\ res[2].int # <<>>
        BY <1>3, <2>6, <3>1 DEF BooleanBinOp, Compare, Map1, Map2, Ended, EqOps, OrderOps
      <4>2. /\ res[1].int[1] = m1.val /\ res[2].int[1] = m2.val
            /\ m1.val \in Int /\ m2.val \in Int
        BY <1>3, <3>1, <4>1 DEF MeansOK, ValueOK
      <4>3. /\ f[1] * g[2] = m1.val /\ g[1] * f[2] = m2.val
        BY <1>3, <3>1, <4>1, <4>2 DEF AsFloat
      <4>4. \/ op = "Equal" /\ b = << m1.val = m2.val >>
            \/ op = "NotEq" /\ b = << ~ (m1.val = m2.val) >>
            \/ op = "Lt" /\ b = << m1.val < m2.val >>
            \/ op = "Le" /\ b = << m1.val <= m2.val >>
        BY <1>3, <3>1, <4>1, <4>2
           DEF BooleanBinOp, Compare, Map1, Map2, Ended, EqOps, OrderOps
      <4>5. (m1.val <= m2.val) = ~ (m2.val < m1.val)
        BY <4>2
      <4> QED
        BY <4>3, <4>4, <4>5
    <3>2. CASE m1.type = "float"
      <4>1. res[1].float # <<>> /\ res[2].float # <<>>
        BY <1>3, <2>6, <3>2 DEF BooleanBinOp, Compare, Map1, Map2, Ended, EqOps, OrderOps
      <4>2. res[1].float[1] = f /\ res[2].float[1] = g
        BY <1>3, <3>2, <4>1 DEF AsFloat
      <4> QED
        BY <1>3, <3>2, <4>1, <4>2
           DEF BooleanBinOp, Compare, Map1, Map2, Ended, EqOps, OrderOps, FloatEq, FloatLt
    <3> QED
      BY <1>3, <3>1, <3>2
  <2> QED
    BY <2>4, <2>5, <2>6
<1> QED
  BY <1>1, <1>2, <1>3

(* The binary operators, by the class of the operator. *)
LEMMA BinEntry ==
  ASSUME NEW a, EntryOK(a), NEW b, EntryOK(b), NEW op, NEW static,
         NEW type, type = calc_type2(op, a.node.value_type, b.node.value_type).type,
         type # NULL
  PROVE  EntryOK(Entry(IrBinOp(op, type, a.node, b.node, static), <<a.res, b.res>>,
                       MeansBin(op, type, a.means, b.means)))
<1> DEFINE node == IrBinOp(op, type, a.node, b.node, static)
           res == <<a.res, b.res>>
           means == MeansBin(op, type, a.means, b.means)
           t == a.node.value_type
           u == b.node.value_type
           v == a.means.val
           w == b.means.val
           p == eval_boolean(node, res)
           i == eval_int(node, res)
           f == eval_float(node, res)
<1>1. /\ a.means.type = t /\ (v # NULL => ValueOK(t, v)) /\ MeansOK(a.means)
      /\ a.res.boolean # <<>> => t = "boolean" /\ (v # NULL => a.res.boolean = <<v>>)
      /\ a.res.int # <<>> => t = "int" /\ (v # NULL => a.res.int = <<v>>)
      /\ a.res.float # <<>> => t = "float" /\ (v # NULL => a.res.float = <<v>>)
  BY OperandFacts DEF EntryOK
<1>2. /\ b.means.type = u /\ (w # NULL => ValueOK(u, w)) /\ MeansOK(b.means)
      /\ b.res.boolean # <<>> => u = "boolean" /\ (w # NULL => b.res.boolean = <<w>>)
      /\ b.res.int # <<>> => u = "int" /\ (w # NULL => b.res.int = <<w>>)
      /\ b.res.float # <<>> => u = "float" /\ (w # NULL => b.res.float = <<w>>)
  BY OperandFacts DEF EntryOK
<1>3. /\ node.value_type = type /\ node.opcode = op /\ node.operand[1] = a.node
      /\ p = BooleanBinOp(node, res)
      /\ i = IF a.res.int = <<>> \/ b.res.int = <<>> THEN <<>>
             ELSE IntBinOp(op, a.res.int[1], b.res.int[1])
      /\ f = IF a.res.float = <<>> \/ b.res.float = <<>> THEN <<>>
             ELSE FloatBinOp(op, a.res.float[1], b.res.float[1])
  BY BinFacts
<1>4. /\ op \in IntOps => t = "int" /\ u = "int" /\ type = "int"
      /\ op \in LogOps =>
           /\ t \in {"boolean", "int", "float"} /\ u \in {"boolean", "int", "float"}
           /\ type = "boolean"
      /\ op \in ArithOps =>
           \/ t = "int" /\ u = "int" /\ type = "int"
           \/ u = "float" /\ type = "float"
      /\ op \notin IntOps \cup LogOps \cup ArithOps =>
           type = "boolean" /\ t # "boolean" /\ u # "boolean"
  BY BinRules
<1>5. res[1] = a.res /\ res[2] = b.res
  OBVIOUS
<1> DEFINE Goal == EntryOK(Entry(node, res, means))
<1>6. ASSUME means.type = type, MeansOK(means),
             p # <<>> => type = "boolean" /\ (means.val # NULL => p = <<means.val>>),
             i # <<>> => type = "int" /\ (means.val # NULL => i = <<means.val>>),
             f # <<>> => type = "float" /\ (means.val # NULL => f = <<means.val>>)
      PROVE  Goal
  <2> HIDE DEF node, res, means
  <2> QED
    BY <1>3, <1>6, EntryFacts
<1> SUFFICES Goal
  OBVIOUS
<1> HIDE DEF node, res, means, p, i, f, Goal
<1>7. CASE op \in IntOps \cup ArithOps /\ t = "int" /\ u = "int" /\ type = "int"
  <2>1. p = <<>> /\ f = <<>>
    BY <1>1, <1>3, <1>7, NoBoolean
  <2>2. CASE v = NULL \/ w = NULL
    <3>1. means.type = "int" /\ means.val = NULL
      BY <1>7, <2>2 DEF MeansBin, Unknown, Means, means
    <3> QED
      BY <1>6, <1>7, <2>1, <3>1 DEF MeansOK
  <2>3. CASE v # NULL /\ w # NULL
    <3>1. means = MeansInt(op, v, w)
      BY <1>1, <1>2, <1>7, <2>3, OpsApart DEF MeansBin, LogOps, means
    <3>2. v \in Int /\ w \in Int
      BY <1>1, <1>2, <1>7, <2>3 DEF ValueOK
    <3>3. i = <<>> \/ i = IntBinOp(op, v, w)
      BY <1>1, <1>2, <1>3, <2>3
    <3>4. /\ means.type = "int"
          /\ MeansOK(means)
          /\ i # <<>> /\ means.val # NULL => i = <<means.val>>
      BY <3>1, <3>2, <3>3, IntExact
    <3> QED
      BY <1>6, <1>7, <2>1, <3>4
  <2> QED
    BY <2>2, <2>3
<1>8. CASE op \in ArithOps /\ u = "float" /\ type = "float"
  <2>1. p = <<>> /\ i = <<>>
    BY <1>2, <1>3, <1>8, NoBoolean
  <2>2. CASE v = NULL \/ w = NULL \/ t \notin {"int", "float"}
    <3>1. means.type = "float" /\ means.val = NULL
      <4>1. op \notin {"LogAnd", "LogOr"} /\ op \notin EqOps \cup OrderOps
        BY <1>8, OpsApart DEF LogOps
      <4> QED
        BY <1>1, <1>2, <1>8, <2>2, <4>1 DEF MeansBin, Unknown, Means, means
    <3> QED
      BY <1>6, <1>8, <2>1, <3>1 DEF MeansOK
  <2>3. CASE v # NULL /\ w # NULL /\ t \in {"int", "float"}
    <3> DEFINE x == AsFloat(a.means)
               y == AsFloat(b.means)
    <3>1. means = MeansFloat(op, x, y)
      BY <1>1, <1>2, <1>8, <2>3, OpsApart DEF MeansBin, LogOps, means
    <3>2. x \in Int \X Int /\ y \in Int \X Int /\ (t = "float" => x = v) /\ y = w
      BY <1>1, <1>2, <1>8, <2>3 DEF ValueOK, AsFloat
    <3> HIDE DEF x, y
    <3>3. f = <<>> \/ f = FloatBinOp(op, x, y)
      BY <1>1, <1>2, <1>3, <2>3, <3>2
    <3>4. /\ means.type = "float"
          /\ MeansOK(means)
          /\ f # <<>> /\ means.val # NULL => f = <<means.val>>
      BY <3>1, <3>2, <3>3, FloatExact
    <3> QED
      BY <1>6, <1>8, <2>1, <3>4
  <2> QED
    BY <2>2, <2>3
<1>9. CASE op \in LogOps
  <2>1. op \notin ArithOps \cup IntOps /\ type = "boolean"
    BY <1>4, <1>9, OpsApart
  <2>2. i = <<>> /\ f = <<>>
    BY <1>3, <2>1, NoNumber
  <2>3. means = MeansBin(op, "boolean", a.means, b.means)
    BY <2>1 DEF means
  <2>4. /\ means.type = "boolean"
        /\ MeansOK(means)
        /\ p # <<>> /\ means.val # NULL => p = <<means.val>>
    BY <1>1, <1>2, <1>3, <1>4, <1>5, <1>9, <2>3, LogicExact
  <2> QED
    BY <1>6, <2>1, <2>2, <2>4
<1>10. CASE op \notin IntOps \cup LogOps \cup ArithOps
  <2>1. op \notin ArithOps \cup IntOps /\ type = "boolean" /\ t # "boolean"
    BY <1>4, <1>10
  <2>2. i = <<>> /\ f = <<>>
    BY <1>3, <2>1, NoNumber
  <2>3. means = MeansBin(op, "boolean", a.means, b.means)
    BY <2>1 DEF means
  <2>4. /\ means.type = "boolean"
        /\ MeansOK(means)
        /\ p # <<>> /\ means.val # NULL => p = <<means.val>>
    BY <1>1, <1>2, <1>3, <1>5, <1>10, <2>1, <2>3, CompareExact
  <2> QED
    BY <1>6, <2>1, <2>2, <2>4
<1> QED
  BY <1>4, <1>7, <1>8, <1>9, <1>10

(* Of the branches, the one the condition selects is the value; the        *)
(* condition decides only where it is a boolean.                           *)
LEMMA TriEntry ==
  ASSUME NEW a, EntryOK(a), NEW b, EntryOK(b), NEW c, EntryOK(c), NEW static,
         NEW type, type # NULL,
         type = calc_type3(a.node.value_type, b.node.value_type, c.node.value_type).type
  PROVE  EntryOK(Entry(IrTriOp("Ite", type, a.node, b.node, c.node, static),
                       <<a.res, b.res, c.res>>, MeansIte(a.means, b.means, c.means)))
<1> DEFINE node == IrTriOp("Ite", type, a.node, b.node, c.node, static)
           res == <<a.res, b.res, c.res>>
           means == MeansIte(a.means, b.means, c.means)
           t == a.node.value_type
           v == a.means.val
           p == eval_boolean(node, res)
           i == eval_int(node, res)
           f == eval_float(node, res)
           cond == a.res.boolean
<1>1. /\ a.means.type = t /\ (v # NULL => ValueOK(t, v))
      /\ cond # <<>> => t = "boolean" /\ (v # NULL => cond = <<v>>)
  BY OperandFacts
<1>2. /\ t \in {"boolean", "int", "float"}
      /\ type = b.node.value_type
      /\ type = c.node.value_type
  BY DEF calc_type3, CastableTo, Prim, Typed, Mismatch, Crash
<1>3. /\ node.value_type = type
      /\ p = IF cond = <<>> THEN <<>> ELSE IF cond[1] THEN b.res.boolean ELSE c.res.boolean
      /\ i = IF cond = <<>> THEN <<>> ELSE IF cond[1] THEN b.res.int ELSE c.res.int
      /\ f = IF cond = <<>> THEN <<>> ELSE IF cond[1] THEN b.res.float ELSE c.res.float
  BY DEF IrTriOp, IrOp, eval_boolean, eval_int, eval_float, Ite, Ended
<1>4. /\ b.means.type = type /\ MeansOK(b.means)
      /\ b.res.boolean # <<>> =>
           type = "boolean" /\ (b.means.val # NULL => b.res.boolean = <<b.means.val>>)
      /\ b.res.int # <<>> =>
           type = "int" /\ (b.means.val # NULL => b.res.int = <<b.means.val>>)
      /\ b.res.float # <<>> =>
           type = "float" /\ (b.means.val # NULL => b.res.float = <<b.means.val>>)
  BY <1>2 DEF EntryOK, ResultOK
<1>5. /\ c.means.type = type /\ MeansOK(c.means)
      /\ c.res.boolean # <<>> =>
           type = "boolean" /\ (c.means.val # NULL => c.res.boolean = <<c.means.val>>)
      /\ c.res.int # <<>> =>
           type = "int" /\ (c.means.val # NULL => c.res.int = <<c.means.val>>)
      /\ c.res.float # <<>> =>
           type = "float" /\ (c.means.val # NULL => c.res.float = <<c.means.val>>)
  BY <1>2 DEF EntryOK, ResultOK
<1>6. \/ means.val = NULL /\ means.type = type
      \/ v # NULL /\ Truth(a.means) /\ means = b.means
      \/ v # NULL /\ ~ Truth(a.means) /\ means = c.means
  BY <1>4 DEF MeansIte, Unknown, Means
<1>7. v # NULL /\ cond # <<>> => cond[1] = Truth(a.means)
  BY <1>1 DEF Truth
<1> HIDE DEF node, res, means, p, i, f, cond
<1>8. /\ means.type = type /\ MeansOK(means)
      /\ p # <<>> => type = "boolean" /\ (means.val # NULL => p = <<means.val>>)
      /\ i # <<>> => type = "int" /\ (means.val # NULL => i = <<means.val>>)
      /\ f # <<>> => type = "float" /\ (means.val # NULL => f = <<means.val>>)
  <2>1. CASE means.val = NULL /\ means.type = type
    BY <1>3, <1>4, <1>5, <2>1 DEF MeansOK
  <2>2. CASE v # NULL /\ Truth(a.means) /\ means = b.means
    BY <1>3, <1>4, <1>7, <2>2
  <2>3. CASE v # NULL /\ ~ Truth(a.means) /\ means = c.means
    BY <1>3, <1>5, <1>7, <2>3
  <2> QED
    BY <1>6, <2>1, <2>2, <2>3
<1>9. EntryOK(Entry(node, res, means))
  BY <1>3, <1>8, EntryFacts DEF p, i, f
<1> QED
  BY <1>9 DEF node, res, means

-----------------------------------------------------------------------------
(* The invariant. *)
StackOK(s) == IsSeq(s) /\ \A i \in DOMAIN s : EntryOK(s[i])

(* An element of an enum is what its declaration says. *)
ElemOK(e) == e.means.type = "int" /\ MeansOK(e.means) /\ e.means.val \in {NULL, e.val}
ElemsOK(s) == IsSeq(s) /\ (\A i \in DOMAIN s : ElemOK(s[i])) /\ Distinct(s)

(* So is a constant; the elements of a type stay what they were. *)
ConstOK(h, m) ==
  /\ h.handle_type \in DOMAIN TypeOfConst /\ m.type = TypeOfConst[h.handle_type]
  /\ MeansOK(m) /\ (m.val # NULL => h.val = m.val)
TypeHandleOK(h) ==
  /\ h.handle_type = "NamedType" /\ h.is_static = FALSE
  /\ ElemsOK(h.named_type)
HandleOK(h, m) == h = NULL \/ ConstOK(h, m) \/ TypeHandleOK(h)

ScopeOK == /\ DOMAIN scope = Names /\ DOMAIN meaning = Names
           /\ \A n \in Names : HandleOK(scope[n], meaning[n])
EnumOK == ElemsOK(enum.elems) /\ enum.next_val \in Int
Languages == [literals : SUBSET Literals, uniops : SUBSET UniOps,
              binops : SUBSET BinOps, ops : Nat, depth : Nat, elems : Nat]

IInv == StackOK(stack) /\ EnumOK /\ ScopeOK /\ left \in Languages

(* The stack after Push. *)
LEMMA PushedOK ==
  ASSUME NEW s, StackOK(s), NEW keep \in 0 .. Len(s), NEW e, EntryOK(e)
  PROVE  StackOK(Append(SubSeq(s, 1, keep), e))
<1> DEFINE t == SubSeq(s, 1, keep)
<1>1. /\ IsSeq(s)
      /\ Len(s) \in Nat
      /\ DOMAIN s = 1 .. Len(s)
      /\ \A i \in DOMAIN s : EntryOK(s[i])
  BY IsSeqFacts DEF StackOK
<1>2. \A i \in 1 .. keep : s[i] \in Range(s)
  BY <1>1 DEF Range
<1>3. /\ t \in Seq(Range(s)) /\ Len(t) = keep
      /\ \A i \in 1 .. keep : t[i] = s[i]
  BY <1>1, <1>2, SubSeqProperties
<1>4. IsSeq(t)
  BY <1>3, SeqIsSeq
<1> HIDE DEF t
<1>5. /\ IsSeq(Append(t, e)) /\ DOMAIN Append(t, e) = 1 .. keep + 1
      /\ \A i \in 1 .. keep : Append(t, e)[i] = t[i]
      /\ Append(t, e)[keep + 1] = e
  BY <1>3, <1>4, AppendIsSeq
<1>6. ASSUME NEW i \in 1 .. keep + 1
      PROVE  EntryOK(Append(t, e)[i])
  <2>1. CASE i = keep + 1
    BY <1>5, <2>1
  <2>2. CASE i \in 1 .. keep
    <3>1. Append(t, e)[i] = s[i] /\ i \in DOMAIN s
      BY <1>1, <1>3, <1>5, <2>2
    <3> QED
      BY <1>1, <3>1
  <2>3. i = keep + 1 \/ i \in 1 .. keep
    BY <1>1
  <2> QED
    BY <2>1, <2>2, <2>3
<1>7. StackOK(Append(t, e))
  BY <1>5, <1>6 DEF StackOK
<1> QED
  BY <1>7 DEF t

(* The empty stack and the empty enum. *)
LEMMA EmptyOK == StackOK(<<>>) /\ ElemsOK(<<>>)
BY EmptyIsSeq DEF StackOK, ElemsOK, Distinct

(* The locals of reg_enum before its first element. *)
LEMMA NoEnumOK == ElemsOK(NoEnum.elems) /\ NoEnum.next_val \in Int
BY EmptyOK DEF NoEnum

(* Max of a set of places is one of them. *)
LEMMA GreatestIn ==
  ASSUME NEW n \in Nat, NEW K, K \subseteq 1 .. n, K # {}
  PROVE  Max(K) \in K
<1>1. K \subseteq 0 .. n
  OBVIOUS
<1>2. \E x \in K : \A y \in K : x >= y
  BY <1>1, GreatestExists
<1> QED
  BY <1>2 DEF Max

(* The element a name is found to be is one of that name. *)
LEMMA ElemFound ==
  ASSUME NEW s, IsSeq(s), NEW n, NEW K, K = {j \in 1 .. Len(s) : s[j].name = n},
         NEW i, i = IF K # {} THEN Max(K) ELSE 0
  PROVE  i > 0 => i \in DOMAIN s
<1>1. Len(s) \in Nat /\ DOMAIN s = 1 .. Len(s)
  BY IsSeqFacts
<1>2. K # {} => Max(K) \in K
  BY <1>1, GreatestIn
<1> QED
  BY <1>1, <1>2

(* Steps that leave everything the invariant is about. *)
LEMMA InvKept ==
  ASSUME IInv, UNCHANGED <<scope, enum, stack, meaning, left>>
  PROVE  IInv'
BY DEF IInv, EnumOK, ScopeOK

(* Steps that push an entry. *)
LEMMA InvPushed ==
  ASSUME IInv, NEW keep \in 0 .. Len(stack), NEW node, NEW res, NEW means,
         Push(keep, node, res, means), EntryOK(Entry(node, res, means)),
         UNCHANGED <<scope, enum, meaning>>, left' \in Languages
  PROVE  IInv'
<1>1. StackOK(stack')
  BY PushedOK DEF IInv, Push, Entry
<1> QED
  BY <1>1 DEF IInv, EnumOK, ScopeOK

(* Steps that give the declaration up. *)
LEMMA InvGivenUp ==
  ASSUME IInv, GiveUp, left' \in Languages
  PROVE  IInv'
BY EmptyOK, NoEnumOK DEF IInv, GiveUp, EnumOK, ScopeOK

(* Steps that end the compiler. *)
LEMMA InvEnded ==
  ASSUME IInv, NEW how, End(how), UNCHANGED left
  PROVE  IInv'
BY InvKept DEF End

(* The operands an operator takes. *)
LEMMA StackFacts ==
  ASSUME IInv
  PROVE  /\ Len(stack) \in Nat /\ DOMAIN stack = 1 .. Len(stack)
         /\ \A i \in 1 .. Len(stack) : EntryOK(Arg(i))
<1>1. /\ Len(stack) \in Nat /\ DOMAIN stack = 1 .. Len(stack)
      /\ \A i \in DOMAIN stack : EntryOK(stack[i])
  BY IsSeqFacts DEF IInv, StackOK
<1>2. \A i \in 1 .. Len(stack) : Len(stack) - i + 1 \in 1 .. Len(stack)
  BY <1>1
<1> QED
  BY <1>1, <1>2 DEF Arg

(* The invariant holds at first. *)
LEMMA InitOK ==
  ASSUME Init
  PROVE  IInv
<1>1. StackOK(stack) /\ EnumOK
  BY EmptyOK, NoEnumOK DEF Init, EnumOK
<1>2. left \in Languages
  <2>1. 0 .. MaxElems \subseteq Nat
    BY DEF MaxElems
  <2> QED
    BY <2>1, ConstFoldAssumption DEF Init, Languages
<1>3. ScopeOK
  BY DEF Init, ScopeOK, HandleOK
<1> QED
  BY <1>1, <1>2, <1>3 DEF IInv

(* ElabLiteral keeps the invariant. *)
LEMMA LiteralStep ==
  ASSUME IInv, NEW l \in left.literals, ElabLiteral(l)
  PROVE  IInv'
<1> DEFINE h == CASE l.type = "boolean" -> IrBooleanConst(NULL, l.val)
                  [] l.type = "int" -> IrIntConst(NULL, l.val)
                  [] l.type = "float" -> IrFloatConst(NULL, l.val)
                  [] l.type = "string" -> IrStringConst(NULL, l.val)
           m == Means(l.type, l.val)
<1>1. l \in Literals
  BY DEF IInv, Languages
<1>2. /\ m.type = l.type /\ m.val = l.val /\ ValueOK(l.type, l.val)
      /\ l.type \in {"boolean", "int", "float", "string"}
  BY <1>1 DEF Literals, Means, ValueOK
<1>3. /\ h.val = l.val
      /\ h.handle_type = "BooleanConst" => l.type = "boolean"
      /\ h.handle_type = "IntConst" => l.type = "int"
      /\ h.handle_type = "FloatConst" => l.type = "float"
  BY <1>2 DEF IrBooleanConst, IrIntConst, IrFloatConst, IrStringConst, IrConst
<1>4. /\ Push(Len(stack), IrLoad(l.type, h, TRUE), <<>>, m)
      /\ UNCHANGED <<scope, enum, meaning, left>>
  BY DEF ElabLiteral
<1> HIDE DEF h, m
<1>5. EntryOK(Entry(IrLoad(m.type, h, TRUE), <<>>, m))
  BY <1>2, <1>3, LoadEntry DEF MeansOK
<1>6. Len(stack) \in 0 .. Len(stack) /\ left' \in Languages
  BY <1>4, StackFacts DEF IInv
<1> QED
  BY <1>2, <1>4, <1>5, <1>6, InvPushed

(* A variable has no value that is known. *)
LEMMA VarStep ==
  ASSUME IInv, ElabVar
  PROVE  IInv'
<1> DEFINE h == IrGlobalVarHandle(Var, "int", 0, 0)
           m == Unknown("int")
<1>1. m.type = "int" /\ m.val = NULL /\ h.handle_type = "GlobalVar"
  BY DEF Unknown, Means, IrGlobalVarHandle, IrIndexHandle
<1>2. /\ Push(Len(stack), IrLoad("int", h, FALSE), <<>>, m)
      /\ UNCHANGED <<scope, enum, meaning, left>>
  BY DEF ElabVar
<1> HIDE DEF h, m
<1>3. EntryOK(Entry(IrLoad(m.type, h, FALSE), <<>>, m))
  BY <1>1, LoadEntry DEF MeansOK
<1>4. Len(stack) \in 0 .. Len(stack) /\ left' \in Languages
  BY <1>2, StackFacts DEF IInv
<1> QED
  BY <1>1, <1>2, <1>3, <1>4, InvPushed

(* What a name is found to be: a constant and its meaning, or a type. *)
LEMMA Found ==
  ASSUME IInv, NEW n \in Names, NEW h, h = Find(n), h # NULL, NEW m, m = MeaningOf(n)
  PROVE  ConstOK(h, m) \/ TypeHandleOK(h)
<1>1. CASE Elem(n) > 0
  <2>1. Elem(n) \in DOMAIN enum.elems
    BY <1>1, ElemFound DEF IInv, EnumOK, ElemsOK, Elem, SelectLastInSeq
  <2> DEFINE e == enum.elems[Elem(n)]
  <2>2. e.means.type = "int" /\ MeansOK(e.means) /\ e.means.val \in {NULL, e.val}
    BY <2>1 DEF IInv, EnumOK, ElemsOK, ElemOK
  <2>3. h = IrIntConst(n, e.val) /\ m = e.means
    BY <1>1 DEF Find, MeaningOf
  <2> HIDE DEF e
  <2> QED
    BY <2>2, <2>3 DEF ConstOK, IrIntConst, IrConst, TypeOfConst
<1>2. CASE ~ (Elem(n) > 0)
  BY <1>2 DEF Find, MeaningOf, IInv, ScopeOK, HandleOK
<1> QED
  BY <1>1, <1>2

(* The load of a constant that was registered. *)
LEMMA ConstLoad ==
  ASSUME NEW h, NEW m, ConstOK(h, m), NEW static
  PROVE  EntryOK(Entry(IrLoad(TypeOfConst[h.handle_type], h, static), <<>>, m))
<1>1. /\ m.type = TypeOfConst[h.handle_type]
      /\ MeansOK(m)
      /\ m.val # NULL => h.val = m.val
      /\ h.handle_type = "BooleanConst" => m.type = "boolean"
      /\ h.handle_type = "IntConst" => m.type = "int"
      /\ h.handle_type = "FloatConst" => m.type = "float"
  BY DEF ConstOK, TypeOfConst
<1> QED
  BY <1>1, LoadEntry

(* ElabSymbol keeps the invariant. *)
LEMMA SymbolStep ==
  ASSUME IInv, NEW n \in Names, ElabSymbol(n)
  PROVE  IInv'
<1> DEFINE h == Find(n)
           m == MeaningOf(n)
<1>1. /\ UNCHANGED left
      /\ \/ GiveUp
         \/ End("assert")
         \/ /\ h # NULL /\ h.handle_type # "NamedType"
            /\ Push(Len(stack), IrLoad(TypeOfConst[h.handle_type], h, h.is_static), <<>>, m)
            /\ UNCHANGED <<scope, enum, meaning>>
  BY DEF ElabSymbol
<1>2. left' \in Languages /\ Len(stack) \in 0 .. Len(stack)
  BY <1>1, StackFacts DEF IInv
<1>3. ASSUME h # NULL, h.handle_type # "NamedType"
      PROVE  ConstOK(h, m)
  BY <1>3, Found DEF TypeHandleOK
<1> HIDE DEF h, m
<1>4. CASE GiveUp
  BY <1>2, <1>4, InvGivenUp
<1>5. CASE End("assert")
  BY <1>1, <1>5, InvEnded
<1>6. CASE /\ h # NULL /\ h.handle_type # "NamedType"
           /\ Push(Len(stack), IrLoad(TypeOfConst[h.handle_type], h, h.is_static), <<>>, m)
           /\ UNCHANGED <<scope, enum, meaning>>
  <2>1. EntryOK(Entry(IrLoad(TypeOfConst[h.handle_type], h, h.is_static), <<>>, m))
    BY <1>3, <1>6, ConstLoad
  <2> QED
    BY <1>2, <1>6, <2>1, InvPushed
<1> QED
  BY <1>1, <1>4, <1>5, <1>6

(* ElabMember: the element of the type, or what the global scope has. *)
LEMMA MemberStep ==
  ASSUME IInv, NEW e \in Names, NEW n \in Names, ElabMember(e, n)
  PROVE  IInv'
<1> DEFINE body == Find(e)
           i == ElemOf(body, n)
           h == IF i > 0 THEN IrIntConst(n, body.named_type[i].val) ELSE scope[n]
           type == TypeOfConst[h.handle_type]
           m == IF i > 0 THEN body.named_type[i].means ELSE Unknown(type)
<1>1. /\ UNCHANGED left
      /\ \/ GiveUp
         \/ End("null")
         \/ End("assert")
         \/ /\ body # NULL /\ body.handle_type = "NamedType"
            /\ h # NULL /\ h.handle_type # "NamedType"
            /\ Push(Len(stack), IrLoad(type, h, h.is_static), <<>>, m)
            /\ UNCHANGED <<scope, enum, meaning>>
  BY DEF ElabMember
<1>2. left' \in Languages /\ Len(stack) \in 0 .. Len(stack)
  BY <1>1, StackFacts DEF IInv
<1>3. ASSUME body # NULL, body.handle_type = "NamedType",
             h # NULL, h.handle_type # "NamedType"
      PROVE  ConstOK(h, m)
  <2>1. TypeHandleOK(body)
    BY <1>3, Found DEF ConstOK, TypeOfConst
  <2>2. CASE i > 0
    <3>1. i \in DOMAIN body.named_type
      BY <2>1, <2>2, ElemFound DEF TypeHandleOK, ElemsOK, ElemOf, SelectLastInSeq
    <3> DEFINE d == body.named_type[i]
    <3>2. d.means.type = "int" /\ MeansOK(d.means) /\ d.means.val \in {NULL, d.val}
      BY <2>1, <3>1 DEF TypeHandleOK, ElemsOK, ElemOK
    <3>3. h = IrIntConst(n, d.val) /\ m = d.means
      BY <2>2
    <3> HIDE DEF d, h, m
    <3> QED
      BY <3>2, <3>3 DEF ConstOK, IrIntConst, IrConst, TypeOfConst
  <2>3. CASE ~ (i > 0)
    <3>1. h = scope[n] /\ m = Unknown(TypeOfConst[h.handle_type])
      BY <2>3
    <3>2. h.handle_type \in DOMAIN TypeOfConst
      <4>1. HandleOK(scope[n], meaning[n])
        BY DEF IInv, ScopeOK
      <4> QED
        BY <1>3, <2>3, <4>1 DEF HandleOK, ConstOK, TypeHandleOK
    <3> HIDE DEF h, m
    <3> QED
      BY <3>1, <3>2 DEF ConstOK, Unknown, Means, MeansOK
  <2> QED
    BY <2>2, <2>3
<1> HIDE DEF body, h, m
<1>4. CASE GiveUp
  BY <1>2, <1>4, InvGivenUp
<1>5. CASE End("null") \/ End("assert")
  BY <1>1, <1>5, InvEnded
<1>6. CASE /\ body # NULL /\ body.handle_type = "NamedType"
           /\ h # NULL /\ h.handle_type # "NamedType"
           /\ Push(Len(stack), IrLoad(type, h, h.is_static), <<>>, m)
           /\ UNCHANGED <<scope, enum, meaning>>
  <2>1. EntryOK(Entry(IrLoad(TypeOfConst[h.handle_type], h, h.is_static), <<>>, m))
    BY <1>3, <1>6, ConstLoad
  <2> QED
    BY <1>2, <1>6, <2>1, InvPushed
<1> QED
  BY <1>1, <1>4, <1>5, <1>6

(* An operator, from what its entry is. *)
LEMMA OperateStep ==
  ASSUME IInv, NEW n \in 1 .. Len(stack), NEW r, NEW node, NEW res, NEW means,
         Operate(n, r, node, res, means),
         r.type # NULL => EntryOK(Entry(node, res, means))
  PROVE  IInv'
<1>1. /\ left.ops > 0 /\ left' = [left EXCEPT !.ops = @ - 1]
      /\ \/ GiveUp
         \/ /\ r.type # NULL
            /\ Push(Len(stack) - n, node, res, means)
            /\ UNCHANGED <<scope, enum, meaning>>
  BY DEF Operate
<1>2. left' \in Languages
  BY <1>1 DEF IInv, Languages
<1>3. Len(stack) - n \in 0 .. Len(stack)
  BY StackFacts
<1>4. CASE GiveUp
  BY <1>2, <1>4, InvGivenUp
<1>5. CASE /\ r.type # NULL
           /\ Push(Len(stack) - n, node, res, means)
           /\ UNCHANGED <<scope, enum, meaning>>
  BY <1>2, <1>3, <1>5, InvPushed
<1> QED
  BY <1>1, <1>4, <1>5

(* ElabUniOp keeps the invariant. *)
LEMMA UniStep ==
  ASSUME IInv, NEW op, ElabUniOp(op)
  PROVE  IInv'
<1> DEFINE a == Arg(1)
           r == calc_type1(op, a.node.value_type)
           node == IrUniOp(op, r.type, a.node, a.node.is_static)
           means == MeansUni(op, r.type, a.means)
<1>1. Len(stack) >= 1 /\ Operate(1, r, node, <<a.res>>, means)
  BY DEF ElabUniOp
<1>2. 1 \in 1 .. Len(stack) /\ EntryOK(a)
  BY <1>1, StackFacts
<1>3. r.type # NULL => EntryOK(Entry(node, <<a.res>>, means))
  BY <1>2, UniEntry
<1> HIDE DEF a, r, node, means
<1> QED
  BY <1>1, <1>2, <1>3, OperateStep

(* ElabBinOp keeps the invariant. *)
LEMMA BinStep ==
  ASSUME IInv, NEW op, ElabBinOp(op)
  PROVE  IInv'
<1> DEFINE a == Arg(2)
           b == Arg(1)
           r == calc_type2(op, a.node.value_type, b.node.value_type)
           node == IrBinOp(op, r.type, a.node, b.node, a.node.is_static /\ b.node.is_static)
           means == MeansBin(op, r.type, a.means, b.means)
<1>1. Len(stack) >= 2 /\ Operate(2, r, node, <<a.res, b.res>>, means)
  BY DEF ElabBinOp
<1>2. 1 \in 1 .. Len(stack) /\ 2 \in 1 .. Len(stack)
  BY <1>1, StackFacts
<1>3. EntryOK(a) /\ EntryOK(b)
  BY <1>2, StackFacts
<1> HIDE DEF a, b
<1>4. r.type # NULL => EntryOK(Entry(node, <<a.res, b.res>>, means))
  BY <1>3, BinEntry
<1> HIDE DEF r, node, means
<1> QED
  BY <1>1, <1>2, <1>4, OperateStep

(* ElabTriOp keeps the invariant. *)
LEMMA TriStep ==
  ASSUME IInv, ElabTriOp
  PROVE  IInv'
<1> DEFINE a == Arg(3)
           b == Arg(2)
           c == Arg(1)
           r == calc_type3(a.node.value_type, b.node.value_type, c.node.value_type)
           node == IrTriOp("Ite", r.type, a.node, b.node, c.node,
                           a.node.is_static /\ b.node.is_static /\ c.node.is_static)
           means == MeansIte(a.means, b.means, c.means)
<1>1. Len(stack) >= 3 /\ Operate(3, r, node, <<a.res, b.res, c.res>>, means)
  BY DEF ElabTriOp
<1>2. 1 \in 1 .. Len(stack) /\ 2 \in 1 .. Len(stack) /\ 3 \in 1 .. Len(stack)
  BY <1>1, StackFacts
<1>3. EntryOK(a) /\ EntryOK(b) /\ EntryOK(c)
  BY <1>2, StackFacts
<1> HIDE DEF a, b, c
<1>4. r.type # NULL => EntryOK(Entry(node, <<a.res, b.res, c.res>>, means))
  BY <1>3, TriEntry
<1> HIDE DEF r, node, means
<1> QED
  BY <1>1, <1>2, <1>4, OperateStep

(* A constant is bound to the value its expression was evaluated to. *)
LEMMA EndConstStep ==
  ASSUME IInv, EndConst
  PROVE  IInv'
<1> DEFINE e == Arg(1)
           h == ConstHandle(stmt.name, e.node, Fold(e)[1])
<1>1. /\ UNCHANGED left /\ Len(stack) = 1
      /\ \/ GiveUp
         \/ End("abort")
         \/ /\ Fold(e) # <<>>
            /\ scope' = [scope EXCEPT ![stmt.name] = h]
            /\ meaning' = [meaning EXCEPT ![stmt.name] = e.means]
            /\ stack' = <<>> /\ UNCHANGED enum
  BY DEF EndConst
<1>2. left' \in Languages /\ EntryOK(e)
  BY <1>1, StackFacts DEF IInv
<1> HIDE DEF e
<1>3. ASSUME Fold(e) # <<>> PROVE ConstOK(h, e.means)
  <2>1. /\ e.means.type = e.node.value_type /\ MeansOK(e.means)
        /\ e.node.value_type \in {"boolean", "int", "float"}
        /\ e.means.val # NULL => Fold(e)[1] = e.means.val
    BY <1>2, <1>3 DEF Fold, EntryOK, ResultOK
  <2> QED
    BY <2>1
       DEF ConstHandle, IrBooleanConst, IrIntConst, IrFloatConst, IrConst, ConstOK,
           TypeOfConst
<1> HIDE DEF h
<1>4. CASE GiveUp
  BY <1>2, <1>4, InvGivenUp
<1>5. CASE End("abort")
  BY <1>1, <1>5, InvEnded
<1>6. CASE /\ Fold(e) # <<>>
           /\ scope' = [scope EXCEPT ![stmt.name] = h]
           /\ meaning' = [meaning EXCEPT ![stmt.name] = e.means]
           /\ stack' = <<>> /\ UNCHANGED enum
  <2>1. StackOK(stack') /\ EnumOK'
    BY <1>6, EmptyOK DEF IInv, EnumOK
  <2>2. ConstOK(h, e.means)
    BY <1>3, <1>6
  <2>3. ScopeOK'
    BY <1>6, <2>2 DEF IInv, ScopeOK, HandleOK
  <2> QED
    BY <1>2, <2>1, <2>3 DEF IInv
<1> QED
  BY <1>1, <1>4, <1>5, <1>6

(* An element whose value is not yet used leaves the values distinct. *)
LEMMA AddElemStep ==
  ASSUME IInv, NEW n, NEW val, NEW means, NEW next \in Int, AddElem(n, val, means, next),
         ~ Used(val), means.type = "int", MeansOK(means), means.val \in {NULL, val},
         UNCHANGED left
  PROVE  IInv'
<1> DEFINE s == enum.elems
           x == [name |-> n, val |-> val, means |-> means]
           t == Append(s, x)
<1>1. IsSeq(s) /\ (\A i \in DOMAIN s : ElemOK(s[i])) /\ Distinct(s)
  BY DEF IInv, EnumOK, ElemsOK
<1>2. /\ enum'.elems = t
      /\ enum'.next_val = next
      /\ stack' = <<>>
      /\ UNCHANGED <<scope, meaning, left>>
  BY DEF AddElem
<1>3. ElemOK(x) /\ x.val = val
  BY DEF ElemOK
<1>4. \A i \in DOMAIN s : s[i].val # val
  BY DEF Used
<1> HIDE DEF s, x
<1>5. Len(s) \in Nat /\ DOMAIN s = 1 .. Len(s)
  BY <1>1, IsSeqFacts
<1>6. /\ IsSeq(t) /\ DOMAIN t = 1 .. Len(s) + 1
      /\ \A i \in 1 .. Len(s) : t[i] = s[i]
      /\ t[Len(s) + 1] = x
  BY <1>1, AppendIsSeq
<1> HIDE DEF t
<1>7. ASSUME NEW i \in DOMAIN t
      PROVE  \/ i \in DOMAIN s /\ t[i] = s[i]
             \/ i = Len(s) + 1 /\ t[i] = x
  <2>1. i \in 1 .. Len(s) \/ i = Len(s) + 1
    BY <1>5, <1>6
  <2> QED
    BY <1>5, <1>6, <2>1
<1>8. \A i \in DOMAIN t : ElemOK(t[i])
  BY <1>1, <1>3, <1>7
<1>9. Distinct(t)
  BY <1>1, <1>3, <1>4, <1>7 DEF Distinct
<1>10. EnumOK'
  BY <1>2, <1>6, <1>8, <1>9 DEF EnumOK, ElemsOK
<1>11. StackOK(stack')
  BY <1>2, EmptyOK
<1> QED
  BY <1>2, <1>10, <1>11 DEF IInv, ScopeOK

(* An implicit value: the loop ends at one that is not used. *)
LEMMA EnumConstStep ==
  ASSUME IInv, NEW n, EnumConst(n)
  PROVE  IInv'
<1>1. PICK k \in 0 .. Len(enum.elems) :
        LET v == Wrap(enum.next_val + k)
        IN  FirstUnused(enum.next_val, k) /\ AddElem(n, v, IntMeans(v), Wrap(v + 1))
  BY DEF EnumConst
<1> DEFINE v == Wrap(enum.next_val + k)
<1>2. Len(enum.elems) \in Nat /\ enum.next_val \in Int
  BY IsSeqFacts DEF IInv, EnumOK, ElemsOK
<1>3. v \in Int
  BY <1>2, WrapInt
<1>4. ~ Used(v) /\ AddElem(n, v, IntMeans(v), Wrap(v + 1)) /\ UNCHANGED left
  BY <1>1 DEF FirstUnused, EnumConst
<1> HIDE DEF v
<1>5. Wrap(v + 1) \in Int
  BY <1>3, WrapInt
<1>6. LET m == IntMeans(v) IN m.type = "int" /\ MeansOK(m) /\ m.val \in {NULL, v}
  BY <1>3 DEF IntMeans, Means, MeansOK, ValueOK
<1> QED
  BY <1>4, <1>5, <1>6, AddElemStep

(* An explicit value: one that is used is refused. *)
LEMMA EnumConstExprStep ==
  ASSUME IInv, NEW n, EnumConstExpr(n)
  PROVE  IInv'
<1> DEFINE e == Arg(1)
<1>1. /\ UNCHANGED left /\ Len(stack) = 1
      /\ \/ GiveUp
         \/ End("abort")
         \/ /\ ~ Refused(e) /\ e.res.int # <<>>
            /\ AddElem(n, e.res.int[1], e.means, enum.next_val)
  BY DEF EnumConstExpr
<1>2. left' \in Languages /\ EntryOK(e) /\ enum.next_val \in Int
  BY <1>1, StackFacts DEF IInv, EnumOK
<1> HIDE DEF e
<1>3. CASE GiveUp
  BY <1>2, <1>3, InvGivenUp
<1>4. CASE End("abort")
  BY <1>1, <1>4, InvEnded
<1>5. CASE /\ ~ Refused(e) /\ e.res.int # <<>>
           /\ AddElem(n, e.res.int[1], e.means, enum.next_val)
  <2> DEFINE v == e.res.int[1]
  <2>1. ~ Used(v)
    BY <1>5 DEF Refused
  <2>2. e.means.type = "int" /\ MeansOK(e.means) /\ e.means.val \in {NULL, v}
    BY <1>2, <1>5 DEF EntryOK, ResultOK
  <2>3. AddElem(n, v, e.means, enum.next_val)
    BY <1>5
  <2> HIDE DEF v
  <2> QED
    BY <1>1, <1>2, <2>1, <2>2, <2>3, AddElemStep
<1> QED
  BY <1>1, <1>3, <1>4, <1>5

(* The type keeps the elements as they are. *)
LEMMA EndEnumStep ==
  ASSUME IInv, EndEnum
  PROVE  IInv'
<1> DEFINE h == IrTypeHandle(enum.elems, NULL)
<1>1. /\ scope' = [scope EXCEPT ![stmt.name] = h]
      /\ enum' = NoEnum /\ UNCHANGED <<stack, meaning, left>>
  BY DEF EndEnum
<1>2. TypeHandleOK(h)
  BY DEF TypeHandleOK, IrTypeHandle, IInv, EnumOK
<1> HIDE DEF h
<1>3. EnumOK'
  BY <1>1, NoEnumOK DEF EnumOK
<1>4. ScopeOK'
  BY <1>1, <1>2 DEF IInv, ScopeOK, HandleOK
<1> QED
  BY <1>1, <1>3, <1>4 DEF IInv

(* Every step keeps the invariant. *)
LEMMA NextOK ==
  ASSUME IInv, [Next]_vars
  PROVE  IInv'
<1>1. CASE UNCHANGED vars
  BY <1>1, InvKept DEF vars
<1>2. ASSUME NEW n \in Names, BeginConst(n) \/ BeginEnum(n)
      PROVE  IInv'
  BY <1>2, InvKept DEF BeginConst, BeginEnum, Begin
<1>3. ASSUME NEW n \in Names, NEW e \in Names,
             ElabSymbol(n) \/ EnumConst(n) \/ EnumConstExpr(n) \/ ElabMember(e, n)
      PROVE  IInv'
  BY <1>3, SymbolStep, EnumConstStep, EnumConstExprStep, MemberStep
<1>4. CASE \E l \in left.literals : ElabLiteral(l)
  BY <1>4, LiteralStep
<1>5. CASE ElabVar
  BY <1>5, VarStep
<1>6. CASE \E op \in left.uniops : ElabUniOp(op)
  BY <1>6, UniStep
<1>7. CASE \E op \in left.binops : ElabBinOp(op)
  BY <1>7, BinStep
<1>8. CASE ElabTriOp
  BY <1>8, TriStep
<1>9. CASE EndConst \/ EndEnum
  BY <1>9, EndConstStep, EndEnumStep
<1> QED
  BY <1>1, <1>2, <1>3, <1>4, <1>5, <1>6, <1>7, <1>8, <1>9 DEF Next

(* The invariant gives FoldedExactly, ... *)
LEMMA InvFolds ==
  ASSUME IInv
  PROVE  FoldedExactly
<1>1. \A i \in DOMAIN enum.elems : enum.elems[i].means.val \in {NULL, enum.elems[i].val}
  BY DEF IInv, EnumOK, ElemsOK, ElemOK
<1>2. ASSUME NEW n \in Names, IsConst(scope[n]), meaning[n].val # NULL
      PROVE  /\ scope[n].handle_type \in DOMAIN TypeOfConst
             /\ TypeOfConst[scope[n].handle_type] = meaning[n].type
             /\ Equals(meaning[n].type, scope[n].val, meaning[n].val)
  <2>1. ConstOK(scope[n], meaning[n])
    BY <1>2 DEF IInv, ScopeOK, HandleOK, TypeHandleOK, IsConst
  <2> QED
    BY <1>2, <2>1 DEF ConstOK, Equals, FloatEq
<1> QED
  BY <1>1, <1>2 DEF FoldedExactly

(* ... and EnumValuesDistinct. *)
LEMMA InvDistinct ==
  ASSUME IInv
  PROVE  EnumValuesDistinct
<1>1. Distinct(enum.elems)
  BY DEF IInv, EnumOK, ElemsOK
<1>2. ASSUME NEW n \in Names, scope[n] # NULL, scope[n].handle_type = "NamedType"
      PROVE  Distinct(scope[n].named_type)
  <2>1. TypeHandleOK(scope[n])
    BY <1>2 DEF IInv, ScopeOK, HandleOK, ConstOK, TypeOfConst
  <2> QED
    BY <2>1 DEF TypeHandleOK, ElemsOK
<1> QED
  BY <1>1, <1>2 DEF EnumValuesDistinct

(* The inductive invariant holds in every state. *)
THEOREM Always == Spec => []IInv
<1>1. Init => IInv
  BY InitOK
<1>2. IInv /\ [Next]_vars => IInv'
  BY NextOK
<1> QED
  BY <1>1, <1>2, PTL DEF Spec

(* A constant that reg_const registers, and an element reg_enum adds, has  *)
(* the value its declaration says, for every width of int, every literal   *)
(* and expressions of every size: whatever IrInterp folds, it folds        *)
(* exactly, as long as no part of the expression leaves the range of int.  *)
THEOREM FoldedExactlyTheorem == Spec => []FoldedExactly
<1>1. IInv => FoldedExactly
  BY InvFolds
<1> QED
  BY <1>1, Always, PTL

(* The elements reg_enum gives an enum have different values, in an enum   *)
(* of any length, for every mix and order of explicit and implicit values, *)
(* and also where next_val wraps around.                                   *)
THEOREM EnumValuesDistinctTheorem == Spec => []EnumValuesDistinct
<1>1. IInv => EnumValuesDistinct
  BY InvDistinct
<1> QED
  BY <1>1, Always, PTL
==============================================================================
