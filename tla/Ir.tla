--------------------------------- MODULE Ir ---------------------------------
(***************************************************************************)
(* The intermediate representation (src/ir): one constructor for every     *)
(* class of nodes and of handles.  A node or a handle is the record of the *)
(* accessors its class defines, with node_type or handle_type telling the  *)
(* class; an accessor the class does not define ends in ASSERT_NOT_REACHED *)
(* or in NULL, and is no field of the record.  What a node refers to       *)
(* (operands, labels, handles) is a value of the kind its user chooses:    *)
(* the node itself, or its place in a heap.                                *)
(***************************************************************************)

(* The accessor is one the class defines: the other ones reach the bodies  *)
(* of IrNode and of IrHandle.                                              *)
HasNodeAccessor(node, accessor) == accessor \in DOMAIN node
HasHandleAccessor(handle, accessor) == accessor \in DOMAIN handle

-----------------------------------------------------------------------------
(* Handles.  Only constants are static. *)
IrConst(type, name, val) == [handle_type |-> type, is_static |-> TRUE,
                             name |-> name, val |-> val]
IrIndexHandle(htype, name, type, module, index) ==
  [handle_type |-> htype, is_static |-> FALSE, name |-> name, value_type |-> type,
   module_index |-> module, local_index |-> index]

IrBooleanConst(name, val) == IrConst("BooleanConst", name, val)
IrIntConst(name, val) == IrConst("IntConst", name, val)
IrFloatConst(name, val) == IrConst("FloatConst", name, val)
IrStringConst(name, val) == IrConst("StringConst", name, val)
IrLocalVarHandle(name, type, module, index) ==
  IrIndexHandle("LocalVar", name, type, module, index)
IrGlobalVarHandle(name, type, module, index) ==
  IrIndexHandle("GlobalVar", name, type, module, index)
IrFuncHandle(name, type, module, index) ==
  IrIndexHandle("Function", name, type, module, index)
IrTypeHandle(type, scope) ==
  [handle_type |-> "NamedType", is_static |-> FALSE, named_type |-> type,
   scope |-> scope]
IrScopeHandle(name, scope) ==
  [handle_type |-> "Scope", is_static |-> FALSE, name |-> name, scope |-> scope]
IrArrayRef(base, offset) ==
  [handle_type |-> "ArrayRef", is_static |-> FALSE, array_expr |-> base,
   array_index |-> offset]
IrMemberRef(base, var) ==
  [handle_type |-> "MemberRef", is_static |-> FALSE, obj_expr |-> base,
   member_var |-> var]

-----------------------------------------------------------------------------
(* Nodes.  is_static of an operator asks its operands, that of a load its  *)
(* handle; the caller passes what they answer.                             *)
IrOp(ntype, type, opcode, operand, static) ==
  [node_type |-> ntype, value_type |-> type, opcode |-> opcode,
   operand |-> operand, is_static |-> static]
IrUniOp(opcode, type, src1, static) == IrOp("UniOp", type, opcode, <<src1>>, static)
IrBinOp(opcode, type, src1, src2, static) ==
  IrOp("BinOp", type, opcode, <<src1, src2>>, static)
IrTriOp(opcode, type, src1, src2, src3, static) ==
  IrOp("TriOp", type, opcode, <<src1, src2, src3>>, static)
IrLoad(type, addr, static) ==
  [node_type |-> "Load", value_type |-> type, address |-> addr, is_static |-> static]
IrStore(addr, val) ==
  [node_type |-> "Store", address |-> addr, store_val |-> val, is_static |-> FALSE]
IrInplaceOp(ntype, opcode, addr, operand) ==
  [node_type |-> ntype, opcode |-> opcode, address |-> addr, operand |-> operand,
   is_static |-> FALSE]
IrInplaceUniOp(opcode, addr) == IrInplaceOp("InplaceUniOp", opcode, addr, <<>>)
IrInplaceBinOp(opcode, addr, opr1) ==
  IrInplaceOp("InplaceBinOp", opcode, addr, <<opr1>>)
(* function_address is a null pointer until set_function_address. *)
IrNoHandle == [handle_type |-> "NULL"]
IrFuncCall(arglist) ==
  [node_type |-> "FuncCall", arglist |-> arglist, function_address |-> IrNoHandle,
   is_static |-> FALSE]
IrReturn(ret_val, static) ==
  [node_type |-> "Return", return_val |-> ret_val, is_static |-> static]
IrJump(ntype, label, cond) ==
  [node_type |-> ntype, jump_addr |-> label, branch_cond |-> cond, is_static |-> TRUE]
IrLabel == [node_type |-> "Label", is_static |-> TRUE]
=============================================================================
