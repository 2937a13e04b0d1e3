-------------------------------- MODULE Ast ---------------------------------
(***************************************************************************)
(* The syntax tree (src/ast): one constructor for every class.  A node is  *)
(* the record of the accessors its class defines, with stmt_type,          *)
(* expr_type or type_id telling the class; an accessor of AstStatement,    *)
(* AstExpr or AstType that the class does not define ends in               *)
(* ASSERT_NOT_REACHED or in NULL, and is no field of the record.  Arrays   *)
(* with their xxx_num() and xxx_elem(pos) are sequences, and the positions *)
(* of nodes in the source are left out.                                    *)
(***************************************************************************)
CONSTANTS NULL       \* the null pointer

(* The accessor is one the class of the node defines: the other ones reach *)
(* the default bodies of AstStatement.                                     *)
HasStmtAccessor(stmt, accessor) == accessor \in DOMAIN stmt

-----------------------------------------------------------------------------
(* Expressions.  AstOp keeps the opcode of the three operator classes.     *)
AstOp(type, opcode, operand) ==
  [expr_type |-> type, opcode |-> opcode, operand |-> operand]

AstTrue == [expr_type |-> "True"]
AstFalse == [expr_type |-> "False"]
AstIntConst(val) == [expr_type |-> "IntConst", int_val |-> val]
AstFloatConst(val) == [expr_type |-> "FloatConst", float_val |-> val]
AstStringConst(val) == [expr_type |-> "StringConst", string_val |-> val]
AstSymbolExpr(symbol) == [expr_type |-> "SymbolExpr", symbol |-> symbol]
AstMemberRef(body, member) ==
  [expr_type |-> "MemberRef", body |-> body, member |-> member]
AstArrayRef(body, index) ==
  [expr_type |-> "ArrayRef", body |-> body, index |-> index]
AstFuncCall(func, arglist) ==
  [expr_type |-> "FuncCall", func |-> func, arglist |-> arglist]
AstUniOp(opcode, opr1) == AstOp("UniOp", opcode, <<opr1>>)
AstBinOp(opcode, opr1, opr2) == AstOp("BinOp", opcode, <<opr1, opr2>>)
AstIteOp(opr1, opr2, opr3) == AstOp("TriOp", "Ite", <<opr1, opr2, opr3>>)

-----------------------------------------------------------------------------
(* Types. *)
AstPrimType(type) == [type_id |-> type]
AstNamedType(name) == [type_id |-> "named", name |-> name]
AstArrayType(elem) == [type_id |-> "array", elem_type |-> elem]
AstSetType(elem) == [type_id |-> "set", elem_type |-> elem]
AstMapType(key, elem) ==
  [type_id |-> "map", key_type |-> key, elem_type |-> elem]

-----------------------------------------------------------------------------
(* Statements.  AstEnumConst, AstParam and AstCaseItem are the elements of *)
(* the arrays of AstEnumDecl, AstFuncDecl and AstSwitch.                   *)
AstToplevel(headlist, stmtlist) ==
  [stmt_type |-> "Toplevel", headlist |-> headlist, stmtlist |-> stmtlist]
AstImport(module, alias) ==
  [stmt_type |-> "Import", import_module |-> module, import_alias |-> alias]
AstEnumConst(name, expr) == [name |-> name, expr |-> expr]
AstEnumDecl(name, enum) ==
  [stmt_type |-> "EnumDecl", name |-> name, enum |-> enum]
AstVarDecl(name, type, expr) ==
  [stmt_type |-> "VarDecl", name |-> name, type |-> type, expr |-> expr]
AstConstDecl(name, type, expr) ==
  [stmt_type |-> "ConstDecl", name |-> name, type |-> type, expr |-> expr]
AstParam(name, type, init) == [name |-> name, type |-> type, init_expr |-> init]
AstFuncDecl(name, type, param, stmt) ==
  [stmt_type |-> "FuncDecl", name |-> name, type |-> type, param |-> param,
   stmt |-> stmt]
AstAssignment(left, right) ==
  [stmt_type |-> "Assignment", lhs_expr |-> left, expr |-> right]
AstInplaceOp(opcode, left, right) ==
  [stmt_type |-> "InplaceOp", opcode |-> opcode, lhs_expr |-> left,
   expr |-> right]
AstIncr(expr) == [stmt_type |-> "Incr", lhs_expr |-> expr]
AstDecr(expr) == [stmt_type |-> "Decr", lhs_expr |-> expr]
AstIf(expr, then, else) ==
  [stmt_type |-> "If", expr |-> expr, stmt |-> then, else_stmt |-> else]
AstFor(init, cond, next, stmt) ==
  [stmt_type |-> "For", init_stmt |-> init, expr |-> cond,
   next_stmt |-> next, stmt |-> stmt]
AstWhile(cond, stmt) == [stmt_type |-> "While", expr |-> cond, stmt |-> stmt]
AstDoWhile(stmt, cond) ==
  [stmt_type |-> "DoWhile", expr |-> cond, stmt |-> stmt]
AstCaseItem(label, stmt) == [label |-> label, stmt |-> stmt]
(* Keeps its expression without giving it out: there is no expr().         *)
AstSwitch(expr, case) == [stmt_type |-> "Switch", switch |-> case]
AstGoto(label) == [stmt_type |-> "Goto", label |-> label]
AstLabel(label) == [stmt_type |-> "Label", label |-> label]
AstBreak == [stmt_type |-> "Break"]
AstContinue == [stmt_type |-> "Continue"]
AstReturn(expr) == [stmt_type |-> "Return", expr |-> expr]
AstBlockStmt(stmtlist) == [stmt_type |-> "Block", stmtlist |-> stmtlist]
AstExprStmt(expr) == [stmt_type |-> "Expr", expr |-> expr]
AstNullStmt == [stmt_type |-> "NullStmt"]
=============================================================================
