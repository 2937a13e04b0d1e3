------------------------------- MODULE MCIrMgr -------------------------------
(***************************************************************************)
(* The programs for the runs of IrMgr: sublanguages, each with the         *)
(* statements that concern one another.                                    *)
(***************************************************************************)
EXTENDS IrMgr

MCName == {"a", "b"}

MCConst == [k |-> "const", name |-> NULL]
MCBad == [k |-> "bad", name |-> "b"]
MCString == [k |-> "string", name |-> NULL]
MCSym(n) == [k |-> "sym", name |-> n]
MCCall(n) == [k |-> "call", name |-> n]

(* Every outcome of elab_expr. *)
MCExprAll == {MCConst, MCBad, MCString, MCSym("a"), MCCall("b")}

(* Control flow: a condition is fine, unknown, or the name of a label. *)
MCJumps ==
  [names |-> {"a"}, exprs |-> {MCConst, MCSym("a")}, types |-> {NULL},
   kinds |-> {"While", "DoWhile", "For", "If", "Switch", "Break", "Continue", "Goto",
              "Label", "FuncDecl", "Block"},
   stmts |-> 3, params |-> 0]

(* Name resolution: every expression reads a. *)
MCNames ==
  [names |-> MCName, exprs |-> {MCSym("a")}, types |-> {NULL},
   kinds |-> {"Block", "VarDecl", "FuncDecl", "Assignment"}, stmts |-> 4, params |-> 1]

(* Declarations that fail half-way, and what follows them. *)
MCErrors ==
  [names |-> MCName, exprs |-> MCExprAll, types |-> {NULL, "a"},
   kinds |-> {"Block", "ConstDecl", "IncrDecr", "EnumDecl", "Assignment", "Expr",
              "FuncDecl", "Goto", "Label", "Return", "VarDecl"},
   stmts |-> 3, params |-> 1]

(* Several parameters, of one name too, with variables beside them. *)
MCParams ==
  [names |-> MCName, exprs |-> {MCConst, MCBad}, types |-> {NULL},
   kinds |-> {"FuncDecl", "VarDecl", "Block"}, stmts |-> 3, params |-> 2]

(* A few errors. *)
MCFew ==
  [names |-> MCName, exprs |-> MCExprAll, types |-> {NULL, "a"},
   kinds |-> {"Assignment", "Expr", "VarDecl", "FuncDecl"}, stmts |-> 2, params |-> 1]

MCPrograms == {MCJumps, MCNames, MCErrors, MCParams}
MCFewPrograms == {MCFew}
==============================================================================
