------------------------------ MODULE CalcType -------------------------------
(***************************************************************************)
(* The types of operators: castable_to of the type classes, and the rules  *)
(* calc_type1, calc_type2 and calc_type3 of TypeMgr.cc.                    *)
(***************************************************************************)
EXTENDS Integers, Sequences

CONSTANTS EnumTypes,    \* enum types
          OtherTypes,   \* array, set, map and function types
          NULL

Prim == {"void", "boolean", "int", "float", "string"}
Types == Prim \cup EnumTypes \cup OtherTypes

ASSUME TypesAssumption ==
  /\ NULL \notin Types
  /\ Prim \cap (EnumTypes \cup OtherTypes) = {}

UniOps == {"CastBoolean", "CastInt", "CastFloat", "BitNeg", "LogNot", "UniMinus"}
ArithOps == {"Add", "Sub", "Mul", "Div"}
IntOps == {"BitAnd", "BitOr", "BitXor", "Mod", "Lshift", "Rshift"}
LogOps == {"LogAnd", "LogOr"}
EqOps == {"Equal", "NotEq"}
OrderOps == {"Lt", "Le"}
BinOps == ArithOps \cup IntOps \cup LogOps \cup EqOps \cup OrderOps

-----------------------------------------------------------------------------
(* castable_to: the table of PrimType; any other type only to itself.      *)
CastableTo(t, u) ==
  IF t \in Prim
    THEN \/ u = "boolean" /\ t \in {"boolean", "int", "float"}
         \/ u = "int" /\ t \in {"boolean", "int"}
         \/ u = "float" /\ t \in {"int", "float"}
         \/ u = "string" /\ t = "string"
    ELSE t = u

Typed(type, req) == [type |-> type, req |-> req, crash |-> FALSE]
Mismatch(args) == [type |-> NULL, req |-> args, crash |-> FALSE]
Crash(args) == [type |-> NULL, req |-> args, crash |-> TRUE]   \* NULL->...

calc_type1(op, a) ==
  IF op = "BitNeg" /\ a = "int" THEN Typed("int", <<a>>)
  ELSE IF op = "LogNot" /\ a = NULL THEN Crash(<<a>>)
  ELSE IF op = "LogNot" /\ CastableTo(a, "boolean") THEN Typed("boolean", <<"boolean">>)
  ELSE IF op = "UniMinus" /\ a \in {"int", "float"} THEN Typed(a, <<a>>)
  ELSE Mismatch(<<a>>)

(* kOpAdd to kOpDiv. *)
Arith(a, b) ==
  IF a = "int" /\ b = "int" THEN Typed("int", <<a, b>>)
  ELSE IF (a = "int" \/ b = "float") /\ b \in {"int", "float"}
    THEN Typed("float", <<"float", "float">>)
  ELSE Mismatch(<<a, b>>)

(* kOpLogAnd and kOpLogOr: the second operand is looked at last. *)
Logical(a, b) ==
  IF a = NULL THEN Crash(<<a, b>>)
  ELSE IF ~ CastableTo(a, "boolean") THEN Mismatch(<<a, b>>)
  ELSE IF b = NULL THEN Crash(<<a, b>>)
  ELSE IF CastableTo(b, "boolean") THEN Typed("boolean", <<"boolean", "boolean">>)
  ELSE Mismatch(<<a, b>>)

(* Mutant of Comparable: (float, int) is not promoted. *)
ComparableOneWay(a, b) ==
  IF a = "int" /\ b = "float" THEN Typed("boolean", <<"float", b>>)
  ELSE IF a = b /\ a \in {"int", "float", "string"} THEN Typed("boolean", <<a, b>>)
  ELSE Mismatch(<<a, b>>)

(* Mutant of Comparable: strings are compared with numbers. *)
ComparableAny(a, b) ==
  IF {a, b} \subseteq {"int", "float", "string"} THEN Typed("boolean", <<"float", "float">>)
                                                 ELSE Mismatch(<<a, b>>)

(* The rules kOpEqual, kOpNotEq, kOpLt and kOpLe share. *)
Comparable(a, b) ==
  IF a = "int" /\ b = "float" THEN Typed("boolean", <<"float", b>>)
  ELSE IF a = "float" /\ b = "int" THEN Typed("boolean", <<a, "float">>)
  ELSE IF a = b /\ a \in {"int", "float", "string"} THEN Typed("boolean", <<a, b>>)
  ELSE Mismatch(<<a, b>>)

(* kOpEqual and kOpNotEq also compare enums; two calls are both NULL.      *)
Equality(a, b) ==
  IF a = b /\ a \in EnumTypes THEN Typed("boolean", <<a, b>>)
  ELSE IF a = b /\ a = NULL THEN Crash(<<a, b>>)
  ELSE Comparable(a, b)

calc_type2(op, a, b) ==
  IF op \in IntOps THEN IF a = "int" /\ b = "int" THEN Typed("int", <<a, b>>)
                                                 ELSE Mismatch(<<a, b>>)
  ELSE IF op \in LogOps THEN Logical(a, b)
  ELSE IF op \in ArithOps THEN Arith(a, b)
  ELSE IF op \in EqOps THEN Equality(a, b)
  ELSE Comparable(a, b)            \* OrderOps

(* kOpIte; the types of the branches must be the same type. *)
calc_type3(a, b, c) ==
  IF a = NULL THEN Crash(<<a, b, c>>)
  ELSE IF CastableTo(a, "boolean") /\ b = c THEN Typed(b, <<"boolean", b, c>>)
  ELSE Mismatch(<<a, b, c>>)
==============================================================================
