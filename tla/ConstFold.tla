----------------------------- MODULE ConstFold ------------------------------
(***************************************************************************)
(* Constants: IrMgr::reg_const and IrMgr::reg_enum at the toplevel of a    *)
(* module, with elab_expr building the nodes of their expressions and      *)
(* IrInterp evaluating them.                                               *)
(*                                                                         *)
(* An expression is elaborated operands first: stack holds the nodes that  *)
(* wait for their operator, and beside each node what IrInterp would       *)
(* return for it and what the expression it was made from means.  The      *)
(* meaning is of the language, not of the code: exact numbers, int going   *)
(* to float where they meet.                                               *)
(***************************************************************************)
EXTENDS CalcType, IrInterp, SequencesExt

CONSTANTS Names,       \* names of constants, enums and their elements
          Var,         \* a global variable of type int
          Sublanguages \* bound: what the declarations of a program are made of:
                       \* literals (records of type and val), operators (uniops,
                       \* binops), how many of these in all (ops), how many operands
                       \* may wait (depth), and how many elements an enum has (elems)

VARIABLES scope,       \* the global scope: the handle a name is bound to
          stmt,        \* the declaration that is being registered
          enum,        \* the locals of reg_enum
          stack,       \* elaborated operands and their meanings
          meaning,     \* what each constant was declared to be
          left,        \* what the rest of the program may be made of
          pc           \* "run", or how the compiler ended: "abort" in the
                       \* interpreter, "assert", or "null" pointer

vars == <<scope, stmt, enum, stack, meaning, left, pc>>

None == [kind |-> "none"]
NoEnum == [elems |-> <<>>, next_val |-> 0]

-----------------------------------------------------------------------------
(* Meanings.  val is NULL where the model does not know it: out of the     *)
(* range of int, and for the operators on bits.                            *)
Means(type, val) == [type |-> type, val |-> val]
Unknown(type) == Means(type, NULL)
InRange(n) == MinInt <= n /\ n < - MinInt
IntMeans(n) == Means("int", IF InRange(n) THEN n ELSE NULL)

AsFloat(m) == IF m.type = "float" THEN m.val ELSE <<m.val, 1>>
Truth(m) == CASE m.type = "boolean" -> m.val
              [] m.type = "int" -> m.val # 0
              [] m.type = "float" -> m.val[1] # 0

(* The quotient is rounded towards zero. *)
ExactDiv(a, b) == CHOOSE q \in - Abs(a) .. Abs(a) :
                    /\ Abs(a - q * b) < Abs(b)
                    /\ (a - q * b) * a >= 0

MeansInt(op, a, b) ==
  CASE op = "Add" -> IntMeans(a + b)
    [] op = "Sub" -> IntMeans(a - b)
    [] op = "Mul" -> IntMeans(a * b)
    [] op = "Div" /\ b # 0 -> IntMeans(ExactDiv(a, b))
    [] op = "Mod" /\ b # 0 -> IntMeans(a - b * ExactDiv(a, b))
    [] OTHER -> Unknown("int")

(* Fractions, compared and combined by cross multiplication. *)
MeansFloat(op, a, b) ==
  LET d == a[2] * b[2]
  IN  CASE op = "Add" -> Means("float", <<a[1] * b[2] + b[1] * a[2], d>>)
        [] op = "Sub" -> Means("float", <<a[1] * b[2] - b[1] * a[2], d>>)
        [] op = "Mul" -> Means("float", <<a[1] * b[1], d>>)
        [] OTHER -> Unknown("float")

MeansOrder(op, d) ==     \* d: the sign of left - right
  Means("boolean", CASE op = "Equal" -> d = 0 [] op = "NotEq" -> d # 0
                     [] op = "Lt" -> d < 0 [] op = "Le" -> d <= 0)

MeansBin(op, type, m1, m2) ==
  LET numeric == {m1.type, m2.type} \subseteq {"int", "float"}
      ints == {m1.type, m2.type} = {"int"}
      f == AsFloat(m1)
      g == AsFloat(m2)
  IN  IF m1.val = NULL \/ m2.val = NULL THEN Unknown(type)
      ELSE
      CASE op = "LogAnd" -> Means("boolean", Truth(m1) /\ Truth(m2))
        [] op = "LogOr" -> Means("boolean", Truth(m1) \/ Truth(m2))
        [] op \in EqOps \cup OrderOps /\ numeric ->
             MeansOrder(op, f[1] * g[2] - g[1] * f[2])
        [] op \in ArithOps \cup IntOps /\ ints -> MeansInt(op, m1.val, m2.val)
        [] op \in ArithOps /\ numeric /\ ~ ints -> MeansFloat(op, f, g)
        [] OTHER -> Unknown(type)

MeansUni(op, type, m) ==
  IF m.val = NULL THEN Unknown(type)
  ELSE
  CASE op = "LogNot" -> Means("boolean", ~ Truth(m))
    [] op = "UniMinus" /\ type = "int" -> IntMeans(- m.val)
    [] op = "UniMinus" /\ type = "float" -> Means("float", <<- m.val[1], m.val[2]>>)
    [] OTHER -> Unknown(type)

MeansIte(m, then, else) ==
  IF m.val = NULL THEN Unknown(then.type) ELSE IF Truth(m) THEN then ELSE else

(* A literal has a value of its type. *)
Literals == [type : {"boolean"}, val : BOOLEAN]
            \cup [type : {"int"}, val : Int]
            \cup [type : {"float"}, val : Int \X (Nat \ {0})]
            \cup [type : {"string"}, val : STRING]

(* Bound: with more handles the table of the enum's scope (16 entries)     *)
(* doubles, which turns round the elements of one name.                    *)
MaxElems == 28

ASSUME ConstFoldAssumption ==
  Sublanguages \subseteq [literals : SUBSET Literals, uniops : SUBSET UniOps,
                         binops : SUBSET BinOps, ops : Nat, depth : Nat,
                         elems : 0 .. MaxElems]

-----------------------------------------------------------------------------
Init ==
  /\ scope = [n \in Names |-> NULL]
  /\ stmt = None
  /\ enum = NoEnum
  /\ stack = <<>>
  /\ meaning = [n \in Names |-> NULL]
  /\ left \in Sublanguages
  /\ pc = "run"

(* reg_const and reg_enum up to their expressions, from check_name on.     *)
(* The declared type of a constant is resolved and not looked at again.    *)
Begin(decl) ==
  /\ pc = "run" /\ stmt = None
  /\ scope[decl.name] = NULL
  /\ stmt' = decl
  /\ UNCHANGED <<scope, enum, stack, meaning, left, pc>>

BeginConst(n) == Begin([kind |-> "const", name |-> n])
BeginEnum(n) == left.elems > 0 /\ Begin([kind |-> "enum", name |-> n])

(* The declaration is given up and forgotten. *)
GiveUp ==
  /\ stmt' = None /\ enum' = NoEnum /\ stack' = <<>>
  /\ UNCHANGED <<scope, meaning, pc>>

End(how) == pc' = how /\ UNCHANGED <<scope, stmt, enum, stack, meaning>>

Elaborating == pc = "run" /\ stmt # None
(* Bound: no operand is pushed that no operator is left for. *)
Room == Len(stack) < left.depth /\ Len(stack) <= 2 * left.ops
Arg(i) == stack[Len(stack) - i + 1]     \* the i-th operand from the top

(* The operands' results are those of IrInterp for the nodes of node. *)
Push(keep, node, operands, means) ==
  stack' = Append(SubSeq(stack, 1, keep),
                  [node |-> node, res |-> Results(node, operands), means |-> means])

(* A literal: a constant without a name, and its load. *)
ElabLiteral(l) ==
  LET h == CASE l.type = "boolean" -> IrBooleanConst(NULL, l.val)
             [] l.type = "int" -> IrIntConst(NULL, l.val)
             [] l.type = "float" -> IrFloatConst(NULL, l.val)
             [] l.type = "string" -> IrStringConst(NULL, l.val)
  IN  /\ Elaborating /\ Room
      /\ Push(Len(stack), IrLoad(l.type, h, TRUE), <<>>, Means(l.type, l.val))
      /\ UNCHANGED <<scope, stmt, enum, meaning, left, pc>>

(* Scope::find from the scope of the enum, and from the global scope; of   *)
(* two elements of one name the later one is found.                        *)
Elem(n) == SelectLastInSeq(enum.elems, LAMBDA e : e.name = n)
Find(n) == IF Elem(n) > 0 THEN IrIntConst(n, enum.elems[Elem(n)].val) ELSE scope[n]
MeaningOf(n) == IF Elem(n) > 0 THEN enum.elems[Elem(n)].means ELSE meaning[n]

TypeOfConst == [BooleanConst |-> "boolean", IntConst |-> "int", FloatConst |-> "float"]

(* elab_expr and elab_primary on a name; new_Load has no case for a type.  *)
ElabSymbol(n) ==
  LET h == Find(n)
  IN  /\ Elaborating /\ Room
      /\ CASE h = NULL -> GiveUp
           [] h # NULL /\ h.handle_type = "NamedType" -> End("assert")
           [] OTHER ->
                /\ Push(Len(stack), IrLoad(TypeOfConst[h.handle_type], h, h.is_static),
                        <<>>, MeaningOf(n))
                /\ UNCHANGED <<scope, stmt, enum, meaning, pc>>
      /\ UNCHANGED left

(* elab_primary on e.n: n is searched from the scope of the type e, which  *)
(* goes on to the global scope.  Where e is unknown its NULL is            *)
(* dereferenced, and where it is a constant the end is not reached.        *)
ElemOf(type, n) == SelectLastInSeq(type.named_type, LAMBDA e : e.name = n)
ElabMember(e, n) ==
  LET body == Find(e)
      i == ElemOf(body, n)
      h == IF i > 0 THEN IrIntConst(n, body.named_type[i].val) ELSE scope[n]
      type == TypeOfConst[h.handle_type]
      means == IF i > 0 THEN body.named_type[i].means ELSE Unknown(type)
  IN  /\ Elaborating /\ Room
      /\ CASE body = NULL -> End("null")
           [] body # NULL /\ body.handle_type # "NamedType" -> End("assert")
           [] OTHER ->
                CASE h = NULL -> GiveUp
                  [] h # NULL /\ h.handle_type = "NamedType" -> End("assert")
                  [] OTHER ->
                       /\ Push(Len(stack), IrLoad(type, h, h.is_static), <<>>, means)
                       /\ UNCHANGED <<scope, stmt, enum, meaning, pc>>
      /\ UNCHANGED left

ElabVar ==
  /\ Elaborating /\ Room
  /\ Push(Len(stack), IrLoad("int", IrGlobalVarHandle(Var, "int", 0, 0), FALSE),
          <<>>, Unknown("int"))
  /\ UNCHANGED <<scope, stmt, enum, meaning, left, pc>>

(* An operator takes its operands, unless their types do not fit.  No node *)
(* casts an operand whose type is not the one required.                    *)
Operate(n, r, node, operands, means) ==
  /\ left.ops > 0
  /\ left' = [left EXCEPT !.ops = @ - 1]
  /\ IF r.type = NULL THEN GiveUp
     ELSE /\ Push(Len(stack) - n, node, operands, means)
          /\ UNCHANGED <<scope, stmt, enum, meaning, pc>>

ElabUniOp(op) ==
  /\ Elaborating /\ Len(stack) >= 1
  /\ LET a == Arg(1)
         r == calc_type1(op, a.node.value_type)
     IN  Operate(1, r, IrUniOp(op, r.type, a.node, a.node.is_static), <<a.res>>,
                 MeansUni(op, r.type, a.means))

(* Division by 0.0 is left out. *)
ElabBinOp(op) ==
  /\ Elaborating /\ Len(stack) >= 2
  /\ LET a == Arg(2)
         b == Arg(1)
         r == calc_type2(op, a.node.value_type, b.node.value_type)
     IN  /\ op = "Div" /\ b.node.value_type = "float" =>
              b.means.val # NULL /\ b.means.val[1] # 0
         /\ Operate(2, r, IrBinOp(op, r.type, a.node, b.node,
                                  a.node.is_static /\ b.node.is_static), <<a.res, b.res>>,
                    MeansBin(op, r.type, a.means, b.means))

ElabTriOp ==
  /\ Elaborating /\ Len(stack) >= 3
  /\ LET a == Arg(3)
         b == Arg(2)
         c == Arg(1)
         r == calc_type3(a.node.value_type, b.node.value_type, c.node.value_type)
     IN  Operate(3, r, IrTriOp("Ite", r.type, a.node, b.node, c.node,
                               a.node.is_static /\ b.node.is_static /\ c.node.is_static),
                 <<a.res, b.res, c.res>>, MeansIte(a.means, b.means, c.means))

-----------------------------------------------------------------------------
(* The evaluation by the type of the node; strings have no evaluation, and *)
(* reg_const asserts that there is a value.                                *)
Fold(e) ==
  CASE e.node.value_type = "boolean" -> e.res.boolean
    [] e.node.value_type = "int" -> e.res.int
    [] e.node.value_type = "float" -> e.res.float
    [] OTHER -> <<>>

ConstHandle(n, node, val) ==
  CASE node.value_type = "boolean" -> IrBooleanConst(n, val)
    [] node.value_type = "int" -> IrIntConst(n, val)
    [] node.value_type = "float" -> IrFloatConst(n, val)

(* The rest of reg_const. *)
EndConst ==
  /\ Elaborating /\ stmt.kind = "const" /\ Len(stack) = 1
  /\ LET e == Arg(1)
     IN  CASE ~ e.node.is_static -> GiveUp
           [] e.node.is_static /\ Fold(e) = <<>> -> End("abort")
           [] OTHER ->
                /\ scope' = [scope EXCEPT ![stmt.name] =
                               ConstHandle(stmt.name, e.node, Fold(e)[1])]
                /\ meaning' = [meaning EXCEPT ![stmt.name] = e.means]
                /\ stmt' = None /\ stack' = <<>>
                /\ UNCHANGED <<enum, pc>>
  /\ UNCHANGED left

Used(val) == \E i \in DOMAIN enum.elems : enum.elems[i].val = val

AddElem(n, val, means, next) ==
  /\ enum' = [elems |-> Append(enum.elems, [name |-> n, val |-> val, means |-> means]),
              next_val |-> next]
  /\ stack' = <<>>
  /\ UNCHANGED <<scope, stmt, meaning, pc>>

(* Mutant of FirstUnused: used values are not passed over. *)
FirstUnusedPlain(v, k) == k = 0

(* while ( check(used_val, next_val) ) ++ next_val, from v on: k turns.    *)
(* Where every value is used the loop does not end.                        *)
FirstUnused(v, k) ==
  /\ ~ Used(Wrap(v + k))
  /\ \A j \in 0 .. k - 1 : Used(Wrap(v + j))

InEnum == Elaborating /\ stmt.kind = "enum" /\ Len(enum.elems) < left.elems

EnumConst(n) ==
  /\ InEnum /\ stack = <<>>
  /\ \E k \in 0 .. Len(enum.elems) :
       LET v == Wrap(enum.next_val + k)
       IN  FirstUnused(enum.next_val, k) /\ AddElem(n, v, IntMeans(v), Wrap(v + 1))
  /\ UNCHANGED left

Refused(e) ==
  \/ ~ e.node.is_static
  \/ e.node.value_type # "int"
  \/ e.res.int # <<>> /\ Used(e.res.int[1])

EnumConstExpr(n) ==
  /\ InEnum /\ Len(stack) = 1
  /\ LET e == Arg(1)
     IN  CASE Refused(e) -> GiveUp
           [] ~ Refused(e) /\ e.res.int = <<>> -> End("abort")
           [] OTHER -> AddElem(n, e.res.int[1], e.means, enum.next_val)
  /\ UNCHANGED left

(* The type goes into the scope that holds the enum. *)
EndEnum ==
  /\ Elaborating /\ stmt.kind = "enum" /\ stack = <<>> /\ enum.elems # <<>>
  /\ scope' = [scope EXCEPT ![stmt.name] = IrTypeHandle(enum.elems, NULL)]
  /\ stmt' = None /\ enum' = NoEnum
  /\ UNCHANGED <<stack, meaning, left, pc>>

Next ==
  \/ \E n \in Names : \/ BeginConst(n) \/ BeginEnum(n) \/ ElabSymbol(n)
                      \/ EnumConst(n) \/ EnumConstExpr(n)
                      \/ \E e \in Names : ElabMember(e, n)
  \/ \E l \in left.literals : ElabLiteral(l)
  \/ ElabVar
  \/ \E op \in left.uniops : ElabUniOp(op)
  \/ \E op \in left.binops : ElabBinOp(op)
  \/ ElabTriOp
  \/ EndConst \/ EndEnum

Spec == Init /\ [][Next]_vars

-----------------------------------------------------------------------------
IsConst(h) == h # NULL /\ h.is_static
Equals(type, val, exact) == IF type = "float" THEN FloatEq(val, exact) ELSE val = exact

(* A constant that was registered is what its declaration says (reg_const, *)
(* IrInterp): through operators, other constants and elements of enums,    *)
(* whenever no part of the expression leaves the range of int.  So is an   *)
(* element of an enum, where a name means the latest element of that name  *)
(* before it, and the constant outside only if there is none.              *)
FoldedExactly ==
  /\ \A n \in Names : IsConst(scope[n]) /\ meaning[n].val # NULL =>
       /\ scope[n].handle_type \in DOMAIN TypeOfConst
       /\ TypeOfConst[scope[n].handle_type] = meaning[n].type
       /\ Equals(meaning[n].type, scope[n].val, meaning[n].val)
  /\ \A i \in DOMAIN enum.elems :
       enum.elems[i].means.val \in {NULL, enum.elems[i].val}

Distinct(elems) == \A i, j \in DOMAIN elems : elems[i].val = elems[j].val => i = j

(* The elements of an enum have different values (check of reg_enum), in   *)
(* whatever order explicit and implicit values come.                       *)
EnumValuesDistinct ==
  /\ Distinct(enum.elems)
  /\ \A n \in Names : scope[n] # NULL /\ scope[n].handle_type = "NamedType" =>
       Distinct(scope[n].named_type)

=============================================================================
