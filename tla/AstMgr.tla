------------------------------ MODULE AstMgr --------------------------------
(***************************************************************************)
(* AstMgr's factory functions, which the actions of the grammar call, and  *)
(* the lists (AstList.h) they are given.  Memory and positions are left    *)
(* out; a list is the sequence of its elements from mTop to mTail, and the *)
(* factory copies it into an array of the node.                            *)
(***************************************************************************)
EXTENDS Ast, Sequences

EmptyList == [elems |-> <<>>]

(* Mutant of Add: the element is linked at mTop. *)
AddAtTop(list, item) == [elems |-> <<item>> \o list.elems]

(* AstList::add links the element behind mTail. *)
Add(list, item) == [elems |-> Append(list.elems, item)]

(* What AstListIterator meets from begin() to is_end(). *)
ToArray(list) == list.elems

-----------------------------------------------------------------------------
(* Mutant of set_root: the arrays are exchanged. *)
set_rootSwapped(head_list, stmt_list) ==
  AstToplevel(ToArray(stmt_list), ToArray(head_list))
set_root(head_list, stmt_list) ==
  AstToplevel(ToArray(head_list), ToArray(stmt_list))

new_Import(module, alias) == AstImport(module, alias)
new_EnumDecl(name, const_list) == AstEnumDecl(name, ToArray(const_list))
new_EnumConst(name, expr) == AstEnumConst(name, expr)
new_VarDecl(name, type, init) == AstVarDecl(name, type, init)
new_ConstDecl(name, type, expr) == AstConstDecl(name, type, expr)
new_Param(name, type, init) == AstParam(name, type, init)
new_FuncDecl(name, type, param_list, stmt) ==
  AstFuncDecl(name, type, ToArray(param_list), stmt)
new_Assignment(left, right) == AstAssignment(left, right)
new_InplaceOp(opcode, left, right) == AstInplaceOp(opcode, left, right)
new_Incr(expr) == AstIncr(expr)
new_Decr(expr) == AstDecr(expr)
new_If(expr, then, else) == AstIf(expr, then, else)
new_For(init, cond, next, stmt) == AstFor(init, cond, next, stmt)
new_While(cond, stmt) == AstWhile(cond, stmt)
new_DoWhile(stmt, cond) == AstDoWhile(stmt, cond)
new_Switch(expr, case_list) == AstSwitch(expr, ToArray(case_list))
new_CaseItem(label, stmt) == AstCaseItem(label, stmt)
new_Goto(label) == AstGoto(label)
new_Label(label) == AstLabel(label)
new_Break == AstBreak
new_Continue == AstContinue
new_Return(expr) == AstReturn(expr)
new_BlockStmt(stmt_list) == AstBlockStmt(ToArray(stmt_list))
new_ExprStmt(expr) == AstExprStmt(expr)
new_NullStmt == AstNullStmt

new_UniOp(opcode, opr1) == AstUniOp(opcode, opr1)
new_BinOp(opcode, opr1, opr2) == AstBinOp(opcode, opr1, opr2)
(* Mutant of new_IteOp: the branches are exchanged. *)
new_IteOpSwapped(opr1, opr2, opr3) == AstIteOp(opr1, opr3, opr2)
new_IteOp(opr1, opr2, opr3) == AstIteOp(opr1, opr2, opr3)
new_SymbolExpr(symbol) == AstSymbolExpr(symbol)
new_MemberRef(body, member) == AstMemberRef(body, member)
new_ArrayRef(id, index) == AstArrayRef(id, index)
new_FuncCall(id, expr_list) == AstFuncCall(id, ToArray(expr_list))
new_TrueConst == AstTrue
new_FalseConst == AstFalse
new_IntConst(val) == AstIntConst(val)
new_FloatConst(val) == AstFloatConst(val)
new_StringConst(val) == AstStringConst(val)

new_PrimType(type) == AstPrimType(type)
new_NamedType(type_name) == AstNamedType(type_name)
new_ArrayType(elem_type) == AstArrayType(elem_type)
new_SetType(elem_type) == AstSetType(elem_type)
new_MapType(key_type, elem_type) == AstMapType(key_type, elem_type)
=============================================================================
