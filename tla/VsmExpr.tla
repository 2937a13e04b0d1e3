------------------------------ MODULE VsmExpr -------------------------------
(***************************************************************************)
(* Expressions as programs of the virtual machine: the code that leaves    *)
(* the value of an expression on the stack, and what that value must be.   *)
(* The repository has no code generator yet, so the shape of the code is   *)
(* this module's: operands are pushed in the reverse order of their        *)
(* popping, an argument is the cell below the base of the function called, *)
(* and a call is followed by a store that moves the result over the        *)
(* argument.  The properties of the machine are stated over such programs. *)
(***************************************************************************)
EXTENDS Vsm, FiniteSetsExt

CONSTANTS Bodies       \* the expressions of functions 1, 2, ... of the tables

Lit(type, val) == [kind |-> "lit", type |-> type, val |-> val]
(* The constants with an opcode of their own. *)
Std(name, type, val) == [kind |-> "std", name |-> name, type |-> type, val |-> val]
Arg(type) == [kind |-> "arg", type |-> type]
(* The type an operator leaves, by its name. *)
TypeOf(o) == CASE o[2] \in {"TO_INT", "TO_BOOL"} \cup Range(Relations) -> "INT"
               [] o[2] = "TO_FLOAT" -> "FLOAT"
               [] OTHER -> o[1]
Op(o, args) == [kind |-> "op", opcode |-> o, args |-> args, type |-> TypeOf(o)]
Via(e) == [kind |-> "via", e |-> e, type |-> e.type]
CallOf(how, f, e, type) == [kind |-> how, func |-> f, e |-> e, type |-> type]
Printing(e) == [kind |-> "print", e |-> e, type |-> e.type]
If(how, cond, then, else) ==
  [kind |-> how, cond |-> cond, then |-> then, else |-> else, type |-> then.type]
Skipping(how, e) == [kind |-> how, e |-> e, type |-> e.type]

PrintIndex == Len(Bodies) + 1          \* the index of YmslPrint in the tables
(* Words of a piece of code. *)
Size(code) == Len(VsmCodeList(code))
Immediate == [INT |-> <<"PUSH", "INT_IMM">>, FLOAT |-> <<"PUSH", "FLOAT_IMM">>]
Ctl(name, n) == << <<"", name>>, n >>

(* The code of e for d operands on the stack of its function and at        *)
(* address a.                                                              *)
RECURSIVE CodeOf(_, _, _)
CodeOf(e, d, a) ==
  CASE e.kind = "lit" -> << <<Immediate[e.type], e.val>> >>
    [] e.kind = "std" -> << << <<"PUSH", e.name>> >> >>
    [] e.kind = "arg" -> << << <<"LOAD_LOCAL", e.type>>, -1>> >>
    [] e.kind = "op" ->
         FoldLeftDomain(LAMBDA c, i :
                          c \o CodeOf(e.args[Len(e.args) + 1 - i], d + i - 1, a + Size(c)),
                        <<>>, e.args)
         \o << <<e.opcode>> >>
    [] e.kind = "via" ->
         CodeOf(e.e, d, a) \o << << <<"STORE_GLOBAL", e.type>>, 0>>,
                                 << <<"LOAD_GLOBAL", e.type>>, 0>> >>
    [] e.kind = "call" ->
         CodeOf(e.e, d, a) \o <<Ctl("CALL", e.func), << <<"STORE_LOCAL", e.type>>, d>> >>
    [] e.kind = "callr" ->
         CodeOf(e.e, d, a) \o << << <<"PUSH", "INT_IMM">>, e.func>>, << <<"", "CALL_R">> >>,
                                 << <<"STORE_LOCAL", e.type>>, d>> >>
    [] e.kind = "print" -> CodeOf(e.e, d, a) \o <<Ctl("CALL", PrintIndex), << <<"NOP", "">> >> >>
    [] e.kind = "jump" ->        \* over one instruction
         <<Ctl("JUMP", a + 3), << <<"", "HALT">> >> >> \o CodeOf(e.e, d, a + 3)
    [] e.kind = "jumpr" ->
         << << <<"PUSH", "INT_IMM">>, a + 4>>, << <<"", "JUMP_R">> >>,
            << <<"", "RETURN">> >> >> \o CodeOf(e.e, d, a + 4)
    [] e.kind \in {"BRANCH_TRUE", "BRANCH_FALSE"} ->
         LET cond == CodeOf(e.cond, d, a)
             near == IF e.kind = "BRANCH_TRUE" THEN e.else ELSE e.then
             far == IF e.kind = "BRANCH_TRUE" THEN e.then ELSE e.else
             nearAt == a + Size(cond) + 2
             farAt == nearAt + Size(CodeOf(near, d, nearAt)) + 2
             end == farAt + Size(CodeOf(far, d, farAt))
         IN  cond \o <<Ctl(e.kind, farAt)>> \o CodeOf(near, d, nearAt)
             \o <<Ctl("JUMP", end)>> \o CodeOf(far, d, farAt)

-----------------------------------------------------------------------------
(* What the operators mean, said of a result r and not computed: an int is *)
(* the exact result up to multiples of Modulus, floats are compared as     *)
(* fractions, and what the stubs for objects leave may be anything.        *)
Same(r, exact) == (r - exact) % Modulus = 0
ShiftOf(b) == CHOOSE n \in BitPlaces : (b - n) % IntWidth = 0
HasBit(n, i) == Bit(n, i) = 1
(* r is left of a when b has been taken off it, towards zero. *)
IsRemainder(r, a, b) == (a - r) % Abs(b) = 0 /\ Abs(r) < Abs(b) /\ r * a >= 0

IsIntOf(name, a, b, r) ==
  CASE name = "ADD" -> Same(r, a + b)
    [] name = "SUB" -> Same(r + b, a)
    [] name = "MUL" -> Same(r, a * b)
    [] name = "DIV" -> b # 0 /\ IsRemainder(a - r * b, a, b)
    [] name = "MOD" -> b # 0 /\ IsRemainder(r, a, b)
    [] name = "LSHIFT" -> Same(r, a * 2 ^ ShiftOf(b))
    [] name = "RSHIFT" -> r * 2 ^ ShiftOf(b) <= a /\ a < (r + 1) * 2 ^ ShiftOf(b)
    [] name = "AND" -> \A i \in BitPlaces : HasBit(r, i) <=> HasBit(a, i) /\ HasBit(b, i)
    [] name = "OR" -> \A i \in BitPlaces : HasBit(r, i) <=> HasBit(a, i) \/ HasBit(b, i)
    [] name = "XOR" -> \A i \in BitPlaces : HasBit(r, i) <=> (HasBit(a, i) # HasBit(b, i))
    [] name = "MINUS" -> Same(r + a, 0)
    [] name = "INC" -> Same(r, a + 1)
    [] name = "DEC" -> Same(r + 1, a)
    [] name = "NOT" -> \A i \in BitPlaces : HasBit(r, i) <=> ~ HasBit(a, i)

IsFloatOf(name, a, b, r) ==
  LET isSum(x, y, z) == x[1] * y[2] * z[2] = x[2] * (y[1] * z[2] + z[1] * y[2])
      isProduct(x, y, z) == x[1] * y[2] * z[2] = x[2] * y[1] * z[1]
  IN  CASE name = "ADD" -> isSum(r, a, b)
        [] name = "SUB" -> isSum(a, r, b)
        [] name = "MUL" -> isProduct(r, a, b)
        [] name = "DIV" -> b[1] # 0 => isProduct(a, r, b)
        [] name = "MINUS" -> isSum(FloatOf(0), a, r)

Holds(name, a, b) == CASE name = "EQ" -> a - b = 0 [] name = "NE" -> a - b # 0
                       [] name = "LT" -> a - b < 0 [] name = "LE" -> a - b <= 0

(* Fractions the results of small operands are among. *)
Fractions == {<<n, d>> : n \in -16 .. 16, d \in 1 .. 4} \cup Values("FLOAT")

(* The results of o on operands with values v. *)
Results(o, v) ==
  LET b == IF Len(v) = 2 THEN v[2] ELSE v[1]
      same(x, y) == IF o[1] = "INT" THEN <<x, y>> ELSE <<x[1] * y[2], y[1] * x[2]>>
      zero == IF o[1] = "INT" THEN 0 ELSE FloatOf(0)
      truth(name, x, y) == {IF Holds(name, same(x, y)[1], same(x, y)[2]) THEN 1 ELSE 0}
  IN  CASE o[1] = "OBJ" -> Values(TypeOf(o))
        [] o[1] # "OBJ" /\ o[2] \in Range(Relations) -> truth(o[2], v[1], v[2])
        [] o[1] # "OBJ" /\ o[2] = "TO_BOOL" -> truth("NE", v[1], zero)
        [] o = <<"INT", "TO_FLOAT">> -> {FloatOf(v[1])}
        [] o = <<"FLOAT", "TO_INT">> ->
             {r \in Values("INT") : IsRemainder(v[1][1] - r * v[1][2], v[1][1], v[1][2])}
        [] o[1] = "INT" /\ o[2] \notin {"TO_BOOL", "TO_FLOAT"} \cup Range(Relations) ->
             {r \in Values("INT") : IsIntOf(o[2], v[1], b, r)}
        [] o[1] = "FLOAT" /\ o[2] \notin {"TO_BOOL", "TO_INT"} \cup Range(Relations) ->
             {r \in Fractions : IsFloatOf(o[2], v[1], b, r)}

(* The instructions that push their int or boolean as a float. *)
Conversions == {<<"INT", "TO_BOOL">>, <<"FLOAT", "TO_BOOL">>, <<"FLOAT", "TO_INT">>}

(* The cells that may hold the value of e, for an argument in the cell     *)
(* arg; none where its evaluation ends the program.  asCoded tells what    *)
(* the machine makes of e from what e says: a conversion leaves its result *)
(* in the member of floats, where a reader of ints finds any int, and as   *)
(* BRANCH_TRUE always branches and BRANCH_FALSE never does, the            *)
(* alternative for true is taken.                                          *)
RECURSIVE Means(_, _, _)
Means(e, arg, asCoded) ==
  LET of(x) == Means(x, arg, asCoded)
      values(x, mem) == UNION {Read(c, mem) : c \in of(x)}
      typed(mem, vals) == {Cell(mem, v) : v \in vals}
      operands == IF Len(e.args) = 1 THEN {<<v>> : v \in values(e.args[1], e.opcode[1])}
                  ELSE values(e.args[1], e.opcode[1]) \X values(e.args[2], Second(e.opcode))
      results == UNION {Results(e.opcode, v) : v \in operands}
      taken(c) == IF asCoded \/ c # 0 THEN e.then ELSE e.else
      called == IF e.func \in DOMAIN Bodies
                THEN UNION {Means(Bodies[e.func], c, asCoded) : c \in of(e.e)} ELSE {}
  IN  CASE e.kind \in {"lit", "std"} -> {Cell(e.type, e.val)}
        [] e.kind = "arg" -> typed(e.type, Read(arg, e.type))
        [] e.kind = "op" /\ e.opcode \in Conversions ->
             IF asCoded THEN typed("FLOAT", {FloatOf(r) : r \in results}) ELSE typed("INT", results)
        [] e.kind = "op" /\ e.opcode \in (UniOps \cup BinOps) \ Conversions ->
             typed(e.type, results)
        [] e.kind = "op" /\ e.opcode \in IteOps ->
             IF e.type = "OBJ" THEN typed("OBJ", Values("OBJ"))
             ELSE UNION {typed(e.type, values(e.args[IF c # 0 THEN 2 ELSE 3], e.type))
                           : c \in values(e.args[1], "INT")}
        [] e.kind = "via" -> typed(e.type, values(e.e, e.type))
        [] e.kind \in {"print", "jump", "jumpr"} -> of(e.e)
        [] e.kind \in {"call", "callr"} ->
             typed(e.type, UNION {Read(c, e.type) : c \in called})
        [] e.kind \in {"BRANCH_TRUE", "BRANCH_FALSE"} ->
             UNION {of(taken(c)) : c \in values(e.cond, "INT")}

(* The expressions e is made of, itself left out. *)
RECURSIVE Within(_)
Within(e) ==
  LET parts == CASE e.kind = "op" -> Range(e.args)
                 [] e.kind \in {"BRANCH_TRUE", "BRANCH_FALSE"} -> {e.cond, e.then, e.else}
                 [] e.kind \in {"lit", "std", "arg"} -> {}
                 [] OTHER -> {e.e}
  IN  parts \cup UNION {Within(x) : x \in parts}

IsConversion(e) == e.kind = "op" /\ e.opcode \in Conversions
BranchesOnFalse(e) ==
  /\ e.kind \in {"BRANCH_TRUE", "BRANCH_FALSE"}
  /\ \E c \in Means(e.cond, Unset, FALSE) : c.val = 0

(* The cells the evaluation of e needs. *)
RECURSIVE Needs(_)
Needs(e) ==
  CASE e.kind \in {"lit", "std", "arg"} -> 1
    [] e.kind = "op" ->
         Max({Needs(e.args[i]) + Len(e.args) - i : i \in DOMAIN e.args})
    [] e.kind \in {"via", "jump"} -> Needs(e.e)
    [] e.kind = "jumpr" -> Needs(e.e)
    [] e.kind = "call" -> IF e.func \in DOMAIN Bodies
                          THEN Max({Needs(e.e), 1 + Needs(Bodies[e.func])}) ELSE Needs(e.e)
    [] e.kind = "callr" -> IF e.func \in DOMAIN Bodies
                           THEN Max({Needs(e.e), 2, 1 + Needs(Bodies[e.func])})
                           ELSE Max({Needs(e.e), 2})
    [] e.kind = "print" -> Max({Needs(e.e), 2})
    [] e.kind \in {"BRANCH_TRUE", "BRANCH_FALSE"} ->
         Max({Needs(e.cond), Needs(e.then), Needs(e.else)})

(* A function table: a program for e, the functions, and print. *)
TableOf(e) ==
  << [expr |-> e] @@ NativeFunc(CodeOf(e, 0, 0)) >>
  \o [i \in DOMAIN Bodies |-> NativeFunc(CodeOf(Bodies[i], 0, 0))] \o <<YmslPrint>>

Main == mFuncTable[1].expr
-----------------------------------------------------------------------------
(* The members an instruction pops, in their order. *)
PopMembers ==
  CASE opcode[1] \in {"STORE_GLOBAL", "STORE_LOCAL"} -> <<opcode[2]>>
    [] opcode \in UniOps -> <<opcode[1]>>
    [] opcode \in BinOps -> <<opcode[1], Second(opcode)>>
    [] opcode \in IteOps -> <<"INT", opcode[1], opcode[1]>>
    [] opcode[2] \in {"JUMP_R", "BRANCH_TRUE", "BRANCH_FALSE", "CALL_R"} -> <<"INT">>
    [] OTHER -> <<>>

(* The cells an instruction pops or loads, and the member it reads each by.*)
Loads == opcode[1] \in {"LOAD_LOCAL", "LOAD_GLOBAL"}
ReadMembers == IF Loads THEN <<opcode[2]>> ELSE PopMembers
ReadCells == CASE opcode[1] = "LOAD_LOCAL" -> <<mLocalStack[Frame.base + imm]>>
               [] opcode[1] = "LOAD_GLOBAL" -> <<mGlobalHeap[imm]>>
               [] OTHER -> [k \in DOMAIN PopMembers |-> mLocalStack[mSP - k]]

(* pop_INT pops an int, pop_FLOAT a float and pop_OBJPTR an object, and a  *)
(* load reads what was stored: an instruction that reads another member of *)
(* the union than the one last written reads an int where a float lies,    *)
(* and only in a program in which something uses the result of INT_TO_BOOL,*)
(* FLOAT_TO_BOOL or FLOAT_TO_INT, which push_FLOAT.                        *)
OperandsTyped ==
  InCode /\ InMemory =>
    \A k \in DOMAIN ReadMembers :
      LET cell == ReadCells[k]
      IN  cell.mem # ReadMembers[k] =>
            /\ <<cell.mem, ReadMembers[k]>> = <<"FLOAT", "INT">>
            /\ \E x \in Within(Main) : IsConversion(x)

(* Equal cells; a float may be any of the fractions of its value. *)
SameCell(c, d) == /\ c.mem = d.mem
                  /\ IF c.mem = "FLOAT" THEN FloatEq(c.val, d.val) ELSE c.val = d.val

(* The code of an expression leaves one cell on the stack: through calls,  *)
(* stores and jumps, the cells of an evaluation in progress are not        *)
(* disturbed.  It holds what the expression means, as long as no branch is *)
(* taken on a false condition and no conversion is used; with those, it    *)
(* still holds the value of the alternatives for true, conversions being   *)
(* read as any int.                                                        *)
ResultExact ==
  calls = <<>> /\ fault = "none" =>
    LET holds(asCoded) == \E c \in Means(Main, Unset, asCoded) : SameCell(mLocalStack[0], c)
    IN  /\ mSP = 1
        /\ holds(TRUE)
        /\ \/ holds(FALSE)
           \/ \E x \in Within(Main) \cup {Main} : IsConversion(x) \/ BranchesOnFalse(x)

(* The program is ended only for cause: memory runs out only where the     *)
(* expression needs more cells than there are, and a division traps or a   *)
(* call asserts only where the expression has no value.                    *)
FaultsExplained ==
  /\ fault = "memory" => Needs(Main) > LocalStackSize
  /\ fault \in {"trap", "assertion"} => Means(Main, Unset, TRUE) = {}

(* A function never changes a cell of its callers, which lie below its     *)
(* base: what execute is doing in one activation leaves the operands of    *)
(* the activations below it alone.                                         *)
CallersKept ==
  [][calls # <<>> =>
       \A i \in DOMAIN mLocalStack : i < Frame.base => mLocalStack'[i] = mLocalStack[i]]_vars

(* Code without backward jumps comes to an end. *)
ExecutionEnds == <>(~ Running)
=============================================================================
