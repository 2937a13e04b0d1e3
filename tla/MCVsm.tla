------------------------------- MODULE MCVsm --------------------------------
(* Every operator on small operands, every construct around them, and       *)
(* branches on conditions of both values.                                   *)
EXTENDS VsmExpr

Two == Lit("INT", 2)
Branches == {"BRANCH_TRUE", "BRANCH_FALSE"}
IntLits == {Two, Lit("INT", -3), Lit("INT", 0)}
FloatLits == {Lit("FLOAT", <<3, 2>>), Std("FLOAT_ZERO", "FLOAT", FloatOf(0)),
              Std("FLOAT_ONE", "FLOAT", FloatOf(1))}
ObjLits == {Std("OBJ_NULL", "OBJ", 0)}
Lits(mem) == CASE mem = "INT" -> IntLits [] mem = "FLOAT" -> FloatLits
               [] mem = "OBJ" -> ObjLits

Simple ==
  UNION {{Op(o, <<x>>) : x \in Lits(o[1])} : o \in UniOps}
  \cup UNION {{Op(o, <<x, y>>) : x \in Lits(o[1]), y \in Lits(Second(o))} : o \in BinOps}
  \cup UNION {{Op(o, <<c, x, y>>) : c \in IntLits, x \in Lits(o[1]), y \in Lits(o[1])}
                : o \in IteOps}

MCBodies == << Op(<<"INT", "SUB">>, <<Arg("INT"), Two>>),
               Op(<<"INT", "SUB">>, <<Two, CallOf("call", 1, Arg("INT"), "INT")>>) >>

(* One construct around an int expression. *)
Zero == Lit("INT", 0)
IsTwo == Op(<<"INT", "TO_BOOL">>, <<Two>>)
Around(e) ==
  {Via(e), Skipping("jump", e), Skipping("jumpr", e),
   CallOf("call", 2, e, "INT"), CallOf("callr", 1, e, "INT"), CallOf("call", 60, e, "INT"),
   CallOf("callr", 60, e, "INT"),
   Op(<<"INT", "SUB">>, <<e, Two>>), Op(<<"INT", "SUB">>, <<Two, e>>)}
  \cup {If(branch, Two, e, Two) : branch \in Branches}
(* Conditions of both values, computed ones, and one that a conversion     *)
(* has left as a float.                                                    *)
Branching(e) ==
  {If(branch, cond, e, Lit("INT", 1)) : branch \in Branches, cond \in {Two, Zero, e, IsTwo}}
Computed == {Op(<<"INT", n>>, <<x, y>>) : n \in {"SUB", "MOD", "LSHIFT"},
                                            x \in {Two, Lit("INT", -3)}, y \in IntLits}
Nested == UNION {Around(e) : e \in Computed}
Twice == UNION {Around(e) : e \in Nested}
Branched == UNION {Branching(e) : e \in Computed}
AroundBranched == UNION {Around(If("BRANCH_FALSE", Zero, e, Two)) : e \in Computed}
Converted == UNION {{Op(o, <<x>>) : x \in Lits(o[1])} : o \in Conversions}
(* Uses of the result of a conversion. *)
OfConverted == UNION {{Via(e), Skipping("jump", e), CallOf("call", 1, e, "INT"),
                       Op(<<"INT", "SUB">>, <<Two, e>>), Op(<<"INT", "ITE">>, <<e, Two, Zero>>)}
                        : e \in Converted}
OfFloats == {Via(e) : e \in {s \in Simple : s.kind = "op" /\ s.opcode[1] # "INT"}}

MCTables == {TableOf(e) : e \in Simple \cup Nested \cup Twice \cup Branched
                                  \cup AroundBranched \cup OfConverted \cup OfFloats
                                  \cup {Printing(Two)}}
=============================================================================
