-------------------------------- MODULE Vsm ---------------------------------
(***************************************************************************)
(* Vsm: the virtual stack machine, with VsmCodeList (the code it runs) and *)
(* VsmFunction (what it calls).                                            *)
(*                                                                         *)
(* A word of code is a number (an opcode or an int, as an unsigned word)   *)
(* or one half of a float.  A VsmValue is a union: the model keeps which   *)
(* member was written last, and a read of another member gives any value.  *)
(* An access outside of an array, a failed assertion and a trapping        *)
(* division end the program (fault).                                       *)
(*                                                                         *)
(* The constructor leaves the three tables empty and no code of the        *)
(* repository fills them, nor calls execute: the tables and their sizes    *)
(* are parameters, 0 being the constructor's size.                         *)
(***************************************************************************)
EXTENDS Number, Sequences, SequencesExt

CONSTANTS Tables,             \* function tables, entry 1 being run first
          LocalStackSize,     \* mLocalStackSize
          GlobalHeapSize      \* mGlobalHeapSize

ASSUME VsmAssumption == LocalStackSize \in Nat /\ GlobalHeapSize \in Nat

VARIABLES mFuncTable, mGlobalHeap, mLocalStack, mSP,
          calls,      \* the C++ stack: one activation of execute per entry
          fault,      \* how the program ended, if it did
          printed     \* what YmslPrint has been given
vars == <<mFuncTable, mGlobalHeap, mLocalStack, mSP, calls, fault, printed>>
-----------------------------------------------------------------------------
(* VsmOpcode, in the order of the enumeration. *)
Group(group, names) == [i \in DOMAIN names |-> <<group, names[i]>>]

Members == <<"INT", "FLOAT", "OBJ">>
IntUni == <<"MINUS", "INC", "DEC", "NOT", "TO_BOOL", "TO_FLOAT">>
FloatUni == <<"MINUS", "TO_BOOL", "TO_INT">>
ObjUni == <<"MINUS", "INC", "DEC", "NOT", "TO_INT", "TO_FLOAT">>
Relations == <<"EQ", "NE", "LT", "LE">>
FloatBin == <<"ADD", "SUB", "MUL", "DIV">> \o Relations
IntBin == <<"ADD", "SUB", "MUL", "DIV", "MOD", "LSHIFT", "RSHIFT">> \o Relations
          \o <<"AND", "OR", "XOR">>
Controls == <<"JUMP", "JUMP_R", "BRANCH_TRUE", "BRANCH_FALSE", "CALL", "CALL_R",
              "RETURN", "HALT">>

VsmOpcode ==
  << <<"NOP", "">> >>
  \o Group("PUSH", <<"INT_IMM", "FLOAT_IMM", "FLOAT_ZERO", "FLOAT_ONE", "OBJ_NULL">>)
  \o Group("LOAD_GLOBAL", Members) \o Group("LOAD_LOCAL", Members)
  \o Group("STORE_GLOBAL", Members) \o Group("STORE_LOCAL", Members)
  \o Group("INT", IntUni \o IntBin \o <<"ITE">>)
  \o Group("FLOAT", FloatUni \o FloatBin \o <<"ITE">>)
  \o Group("OBJ", ObjUni \o IntBin \o <<"ITE">>)
  \o Group("", Controls)

UniOps == Range(Group("INT", IntUni) \o Group("FLOAT", FloatUni) \o Group("OBJ", ObjUni))
BinOps == Range(Group("INT", IntBin) \o Group("FLOAT", FloatBin) \o Group("OBJ", IntBin))
IteOps == Range([i \in 1 .. 3 |-> <<Members[i], "ITE">>])

(* What follows an opcode in the code. *)
IntOperand == {<<"PUSH", "INT_IMM">>}
              \cup {<<g, m>> : g \in {"LOAD_GLOBAL", "LOAD_LOCAL", "STORE_GLOBAL",
                                      "STORE_LOCAL"}, m \in Range(Members)}
              \cup {<<"", c>> : c \in {"JUMP", "BRANCH_TRUE", "BRANCH_FALSE", "CALL"}}
FloatOperand == {<<"PUSH", "FLOAT_IMM">>}
-----------------------------------------------------------------------------
(* VsmCodeList::Builder. *)
FloatWords == 2        \* sizeof(Ymsl_FLOAT) / sizeof(Ymsl_CODE)

OpcodeNumber == [op \in Range(VsmOpcode) |->
                   (CHOOSE i \in DOMAIN VsmOpcode : VsmOpcode[i] = op) - 1]
write_opcode(body, op) == Append(body, OpcodeNumber[op])
write_int(body, val) == Append(body, val % Modulus)
write_float(body, val) == body \o [i \in 1 .. FloatWords |-> [half |-> i, of |-> val]]

(* Writing one instruction <<opcode>> or <<opcode, operand>>. *)
Write(body, instr) ==
  LET opened == write_opcode(body, instr[1])
  IN  CASE instr[1] \in IntOperand -> write_int(opened, instr[2])
        [] instr[1] \in FloatOperand -> write_float(opened, instr[2])
        [] OTHER -> opened

(* VsmCodeList: the words are copied from the builder. *)
VsmCodeList(code) ==
  LET body[i \in 0 .. Len(code)] == IF i = 0 THEN <<>> ELSE Write(body[i - 1], code[i])
  IN  body[Len(code)]

NativeFunc(code) == [builtin |-> FALSE, source |-> code, mCodeList |-> VsmCodeList(code)]
YmslPrint == [builtin |-> TRUE, arg_num |-> 1]

(* Reading the word at an address; the reader then advances. *)
read_opcode(list, addr) == VsmOpcode[list[addr + 1] + 1]
read_int(list, addr) == Wrap(list[addr + 1])
read_float(list, addr) == list[addr + 1].of

(* How far pc advances over an instruction. *)
SizeOf(op) == IF op \in IntOperand THEN 2
              ELSE IF op \in FloatOperand THEN 1 + FloatWords ELSE 1
-----------------------------------------------------------------------------
NULL == 0
Values(mem) ==
  CASE mem = "INT" -> MinInt .. - MinInt - 1
    [] mem = "FLOAT" -> {FloatOf(n) : n \in MinInt .. - MinInt - 1}
    [] mem = "OBJ" -> {NULL, 1}

Cell(mem, val) == [mem |-> mem, val |-> val]
Unset == Cell("none", NULL)
Read(cell, mem) == IF cell.mem = mem THEN {cell.val} ELSE Values(mem)

Init ==
  /\ mFuncTable \in Tables
  /\ mGlobalHeap = [i \in 0 .. GlobalHeapSize - 1 |-> Unset]
  /\ mLocalStack = [i \in 0 .. LocalStackSize - 1 |-> Unset]
  /\ mSP = 0
  /\ calls = << [func |-> 1, pc |-> 0, base |-> 0] >>
  /\ fault = "none"
  /\ printed = <<>>

Frame == calls[Len(calls)]
Code == mFuncTable[Frame.func].mCodeList
opcode == read_opcode(Code, Frame.pc)
imm == read_int(Code, Frame.pc + 1)

Running == calls # <<>> /\ fault = "none"
InCode == Running /\ Frame.pc < Len(Code)

(* Mutant of InTable: the last function is refused. *)
InTableButLast(index) == index \in 0 .. Len(mFuncTable) - 2
(* mFuncTable[index], asserted to be in the table. *)
InTable(index) == index \in 0 .. Len(mFuncTable) - 1

(* The cells of the local stack an instruction touches. *)
Touched ==
  LET local == Frame.base + imm
      pops(n) == {mSP - k : k \in 1 .. n}
      builtin == opcode = <<"", "CALL">> /\ InTable(imm) /\ mFuncTable[imm + 1].builtin
  IN  CASE opcode[1] \in {"PUSH", "LOAD_GLOBAL"} -> {mSP}
        [] opcode[1] = "LOAD_LOCAL" -> {local, mSP}
        [] opcode[1] = "STORE_GLOBAL" -> pops(1)
        [] opcode[1] = "STORE_LOCAL" -> pops(1) \cup {local}
        [] opcode \in UniOps -> pops(1)
        [] opcode \in BinOps -> pops(2)
        [] opcode \in IteOps -> pops(3)
        [] opcode[2] \in {"JUMP_R", "BRANCH_TRUE", "BRANCH_FALSE", "CALL_R"} -> pops(1)
        [] builtin -> {mSP}
        [] OTHER -> {}
TouchedGlobals == IF opcode[1] \in {"LOAD_GLOBAL", "STORE_GLOBAL"} THEN {imm} ELSE {}

InMemory == /\ Touched \subseteq DOMAIN mLocalStack
            /\ TouchedGlobals \subseteq DOMAIN mGlobalHeap

(* An instruction of ops is next and its cells exist. *)
Fetched(ops) == InCode /\ opcode \in ops /\ InMemory

Goto(addr) == calls' = [calls EXCEPT ![Len(calls)].pc = addr]
After == Frame.pc + SizeOf(opcode)

(* pop n values and push one. *)
Push(n, mem, val) ==
  /\ mLocalStack' = [mLocalStack EXCEPT ![mSP - n] = Cell(mem, val)]
  /\ mSP' = mSP - n + 1

(* The k-th value to be popped. *)
Popped(k, mem) == Read(mLocalStack[mSP - k], mem)
-----------------------------------------------------------------------------
PushImm ==
  /\ Fetched({VsmOpcode[i] : i \in 2 .. 6})
  /\ CASE opcode[2] = "INT_IMM" -> Push(0, "INT", imm)
       [] opcode[2] = "FLOAT_IMM" -> Push(0, "FLOAT", read_float(Code, Frame.pc + 1))
       [] opcode[2] = "FLOAT_ZERO" -> Push(0, "FLOAT", FloatOf(0))
       [] opcode[2] = "FLOAT_ONE" -> Push(0, "FLOAT", FloatOf(1))
       [] opcode[2] = "OBJ_NULL" -> Push(0, "OBJ", NULL)
  /\ Goto(After)
  /\ UNCHANGED <<mFuncTable, mGlobalHeap, fault, printed>>

LoadGlobal ==
  /\ Fetched({<<"LOAD_GLOBAL", mem>> : mem \in Range(Members)})
  /\ \E val \in Read(mGlobalHeap[imm], opcode[2]) : Push(0, opcode[2], val)
  /\ Goto(After)
  /\ UNCHANGED <<mFuncTable, mGlobalHeap, fault, printed>>

LoadLocal ==
  /\ Fetched({<<"LOAD_LOCAL", mem>> : mem \in Range(Members)})
  /\ \E val \in Read(mLocalStack[Frame.base + imm], opcode[2]) : Push(0, opcode[2], val)
  /\ Goto(After)
  /\ UNCHANGED <<mFuncTable, mGlobalHeap, fault, printed>>

StoreGlobal ==
  /\ Fetched({<<"STORE_GLOBAL", mem>> : mem \in Range(Members)})
  /\ \E val \in Popped(1, opcode[2]) :
       mGlobalHeap' = [mGlobalHeap EXCEPT ![imm] = Cell(opcode[2], val)]
  /\ mSP' = mSP - 1
  /\ Goto(After)
  /\ UNCHANGED <<mFuncTable, mLocalStack, fault, printed>>

(* Mutant of StoreLocal: the base register is not added. *)
StoreLocalNoBase ==
  /\ Fetched({<<"STORE_LOCAL", mem>> : mem \in Range(Members)})
  /\ \E val \in Popped(1, opcode[2]) :
       mLocalStack' = [mLocalStack EXCEPT ![imm] = Cell(opcode[2], val)]
  /\ mSP' = mSP - 1
  /\ Goto(After)
  /\ UNCHANGED <<mFuncTable, mGlobalHeap, fault, printed>>
StoreLocal ==
  /\ Fetched({<<"STORE_LOCAL", mem>> : mem \in Range(Members)})
  /\ \E val \in Popped(1, opcode[2]) :
       mLocalStack' = [mLocalStack EXCEPT ![Frame.base + imm] = Cell(opcode[2], val)]
  /\ mSP' = mSP - 1
  /\ Goto(After)
  /\ UNCHANGED <<mFuncTable, mGlobalHeap, fault, printed>>
-----------------------------------------------------------------------------
(* What an operator leaves, as a set of cells: the operators of objects    *)
(* are stubs that push a variable they never set.                          *)
Truth(b) == IF b THEN 1 ELSE 0
Undefined(mem) == {Cell(mem, val) : val \in Values(mem)}

Uni(o, v) ==
  CASE o = <<"INT", "MINUS">> -> {Cell("INT", Wrap(- v))}
    [] o = <<"INT", "INC">> -> {Cell("INT", Wrap(v + 1))}
    [] o = <<"INT", "DEC">> -> {Cell("INT", Wrap(v - 1))}
    [] o = <<"INT", "NOT">> -> {Cell("INT", Wrap(- v - 1))}
    [] o = <<"INT", "TO_BOOL">> -> {Cell("FLOAT", FloatOf(Truth(v # 0)))}
    [] o = <<"INT", "TO_FLOAT">> -> {Cell("FLOAT", FloatOf(v))}
    [] o = <<"FLOAT", "MINUS">> -> {Cell("FLOAT", <<- v[1], v[2]>>)}
    [] o = <<"FLOAT", "TO_BOOL">> -> {Cell("FLOAT", FloatOf(Truth(v[1] # 0)))}
    [] o = <<"FLOAT", "TO_INT">> -> {Cell("FLOAT", FloatOf(Wrap(Quotient(v[1], v[2]))))}
    [] o = <<"OBJ", "TO_INT">> -> Undefined("INT")
    [] o = <<"OBJ", "TO_FLOAT">> -> Undefined("FLOAT")
    [] OTHER -> Undefined("OBJ")

(* v1 is the value popped first; DIV and MOD where the machine does not trap. *)
IntAlu(name, v1, v2) ==
  CASE name = "ADD" -> Wrap(v1 + v2)
    [] name = "SUB" -> Wrap(v1 - v2)
    [] name = "MUL" -> Wrap(v1 * v2)
    [] name = "DIV" -> Quotient(v1, v2)
    [] name = "MOD" -> v1 - v2 * Quotient(v1, v2)
    [] name = "LSHIFT" -> Wrap(v1 * 2 ^ (v2 % IntWidth))     \* the machine masks v2
    [] name = "RSHIFT" -> v1 \div 2 ^ (v2 % IntWidth)
    [] name = "EQ" -> Truth(v1 = v2)
    [] name = "NE" -> Truth(v1 # v2)
    [] name = "LT" -> Truth(v1 < v2)
    [] name = "LE" -> Truth(v1 <= v2)
    [] name = "AND" -> BitAnd(v1, v2)
    [] name = "OR" -> BitOr(v1, v2)
    [] name = "XOR" -> BitXor(v1, v2)

(* Mutant of FloatRelation: push_FLOAT, as the conversions do. *)
FloatRelationFloat(name, v1, v2) == Cell("FLOAT", FloatOf(Truth(FloatEq(v1, v2))))
FloatRelation(name, v1, v2) ==
  Cell("INT", Truth(CASE name = "EQ" -> FloatEq(v1, v2)
                      [] name = "NE" -> ~ FloatEq(v1, v2)
                      [] name = "LT" -> FloatLt(v1, v2)
                      [] name = "LE" -> ~ FloatLt(v2, v1)))

FloatAlu(name, v1, v2) ==
  CASE name = "ADD" -> {Cell("FLOAT", <<v1[1] * v2[2] + v2[1] * v1[2], v1[2] * v2[2]>>)}
    [] name = "SUB" -> {Cell("FLOAT", <<v1[1] * v2[2] - v2[1] * v1[2], v1[2] * v2[2]>>)}
    [] name = "MUL" -> {Cell("FLOAT", <<v1[1] * v2[1], v1[2] * v2[2]>>)}
    [] name = "DIV" -> IF v2[1] = 0 THEN Undefined("FLOAT")     \* no infinities here
                       ELSE {Cell("FLOAT", IF v2[1] > 0 THEN <<v1[1] * v2[2], v1[2] * v2[1]>>
                                           ELSE <<- v1[1] * v2[2], - v1[2] * v2[1]>>)}
    [] OTHER -> {FloatRelation(name, v1, v2)}

ObjAlu(name) == IF name \in Range(Relations) THEN Undefined("INT") ELSE Undefined("OBJ")

Bin(o, v1, v2) == CASE o[1] = "INT" -> {Cell("INT", IntAlu(o[2], v1, v2))}
                    [] o[1] = "FLOAT" -> FloatAlu(o[2], v1, v2)
                    [] o[1] = "OBJ" -> ObjAlu(o[2])

(* The member of the second operand: objects are shifted by an int. *)
Second(o) == IF o[1] = "OBJ" /\ o[2] \in {"LSHIFT", "RSHIFT"} THEN "INT" ELSE o[1]

UniOp ==
  /\ Fetched(UniOps)
  /\ \E v \in Popped(1, opcode[1]) : \E c \in Uni(opcode, v) : Push(1, c.mem, c.val)
  /\ Goto(After)
  /\ UNCHANGED <<mFuncTable, mGlobalHeap, fault, printed>>

Divides == opcode \in {<<"INT", "DIV">>, <<"INT", "MOD">>}

BinOp ==
  /\ Fetched(BinOps)
  /\ \E v1 \in Popped(1, opcode[1]), v2 \in Popped(2, Second(opcode)) :
       /\ ~ (Divides /\ Traps(v1, v2))
       /\ \E c \in Bin(opcode, v1, v2) : Push(2, c.mem, c.val)
  /\ Goto(After)
  /\ UNCHANGED <<mFuncTable, mGlobalHeap, fault, printed>>

Trap ==
  /\ Fetched(BinOps) /\ Divides
  /\ \E v1 \in Popped(1, "INT"), v2 \in Popped(2, "INT") : Traps(v1, v2)
  /\ fault' = "trap"
  /\ UNCHANGED <<mFuncTable, mGlobalHeap, mLocalStack, mSP, calls, printed>>

(* Mutant of Chosen: the alternatives are swapped. *)
ChosenSwapped(v1, v2, v3) == IF v1 # 0 THEN v3 ELSE v2
Chosen(v1, v2, v3) == IF v1 # 0 THEN v2 ELSE v3

IteOp ==
  /\ Fetched(IteOps)
  /\ \E v1 \in Popped(1, "INT"), v2 \in Popped(2, opcode[1]), v3 \in Popped(3, opcode[1]) :
       IF opcode[1] = "OBJ" THEN \E c \in Undefined("OBJ") : Push(3, c.mem, c.val)
       ELSE Push(3, opcode[1], Chosen(v1, v2, v3))
  /\ Goto(After)
  /\ UNCHANGED <<mFuncTable, mGlobalHeap, fault, printed>>
-----------------------------------------------------------------------------
(* Mutant of Jump: the address is taken from the instruction's own place. *)
JumpStays ==
  /\ Fetched({<<"", "JUMP">>})
  /\ Goto(Frame.pc)
  /\ UNCHANGED <<mFuncTable, mGlobalHeap, mLocalStack, mSP, fault, printed>>
Jump ==
  /\ Fetched({<<"", "JUMP">>})
  /\ Goto(imm)
  /\ UNCHANGED <<mFuncTable, mGlobalHeap, mLocalStack, mSP, fault, printed>>

JumpR ==
  /\ Fetched({<<"", "JUMP_R">>})
  /\ \E addr \in Popped(1, "INT") : Goto(addr)
  /\ mSP' = mSP - 1
  /\ UNCHANGED <<mFuncTable, mGlobalHeap, mLocalStack, fault, printed>>

(* The code tests the opcode, which is not 0, and not the popped value. *)
Branch ==
  /\ Fetched({<<"", "BRANCH_TRUE">>, <<"", "BRANCH_FALSE">>})
  /\ Goto(IF opcode[2] = "BRANCH_TRUE" THEN imm ELSE After)
  /\ mSP' = mSP - 1
  /\ UNCHANGED <<mFuncTable, mGlobalHeap, mLocalStack, fault, printed>>

(* Ymsl_INT base = mSP. *)
Base(sp) == sp

(* func->execute at base, once popped values are off the stack: a          *)
(* native function runs its code, print is given the cell at base and      *)
(* leaves an unset value there.                                            *)
Enter(index, sp) ==
  LET func == mFuncTable[index + 1]
      base == Base(sp)
      resumed == [calls EXCEPT ![Len(calls)].pc = After]
  IN  IF func.builtin
      THEN /\ \E val \in Read(mLocalStack[base], "INT") : printed' = Append(printed, val)
           /\ mLocalStack' = [mLocalStack EXCEPT ![base] = Unset]
           /\ calls' = resumed
      ELSE /\ calls' = Append(resumed, [func |-> index + 1, pc |-> 0, base |-> base])
           /\ UNCHANGED <<mLocalStack, printed>>

Call ==
  /\ Fetched({<<"", "CALL">>}) /\ InTable(imm)
  /\ Enter(imm, mSP)
  /\ UNCHANGED <<mFuncTable, mGlobalHeap, mSP, fault>>

CallR ==
  /\ Fetched({<<"", "CALL_R">>})
  /\ \E index \in Popped(1, "INT") : InTable(index) /\ Enter(index, mSP - 1)
  /\ mSP' = mSP - 1
  /\ UNCHANGED <<mFuncTable, mGlobalHeap, fault>>

(* ASSERT_COND(index >= 0 && index < mFuncTableSize). *)
CallAsserts ==
  /\ Fetched({<<"", "CALL">>, <<"", "CALL_R">>})
  /\ \E index \in IF opcode[2] = "CALL" THEN {imm} ELSE Popped(1, "INT") : ~ InTable(index)
  /\ fault' = "assertion"
  /\ UNCHANGED <<mFuncTable, mGlobalHeap, mLocalStack, mSP, calls, printed>>

(* RETURN, HALT and NOP have no code. *)
NoEffect ==
  /\ Fetched({<<"", "RETURN">>, <<"", "HALT">>, <<"NOP", "">>})
  /\ Goto(After)
  /\ UNCHANGED <<mFuncTable, mGlobalHeap, mLocalStack, mSP, fault, printed>>

(* The loop ends with the code: execute returns. *)
Return ==
  /\ Running /\ Frame.pc >= Len(Code)
  /\ calls' = SubSeq(calls, 1, Len(calls) - 1)
  /\ UNCHANGED <<mFuncTable, mGlobalHeap, mLocalStack, mSP, fault, printed>>

OutOfMemory ==
  /\ InCode /\ ~ InMemory
  /\ fault' = "memory"
  /\ UNCHANGED <<mFuncTable, mGlobalHeap, mLocalStack, mSP, calls, printed>>

Terminated == ~ Running /\ UNCHANGED vars

Next == \/ PushImm \/ LoadGlobal \/ LoadLocal \/ StoreGlobal \/ StoreLocal
        \/ UniOp \/ BinOp \/ Trap \/ IteOp
        \/ Jump \/ JumpR \/ Branch \/ Call \/ CallR \/ CallAsserts \/ NoEffect
        \/ Return \/ OutOfMemory \/ Terminated

Spec == Init /\ [][Next]_vars /\ WF_vars(Next)
=============================================================================
