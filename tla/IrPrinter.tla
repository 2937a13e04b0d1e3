----------------------------- MODULE IrPrinter ------------------------------
(***************************************************************************)
(* The nodes IrMgr makes (IrMgr_node.cc), the end of elaborate that gives  *)
(* calls their functions, and the listing IrPrinter prints: print_code,    *)
(* print_node_list, dfs_node, print_node.                                  *)
(*                                                                         *)
(* heap holds the nodes in the order they are made, and a node refers to   *)
(* another by its place in heap.  elab_expr makes the operands of a node   *)
(* from left to right before the node itself: the values of the statement  *)
(* in progress that no node has taken yet are a stack.  A statement takes  *)
(* all of them and its node goes to the node list of its block; so do      *)
(* labels, once each, with the jumps of the same block that refer to them. *)
(* What was made for an expression that then failed is in no list and is   *)
(* left out; a failed expression statement adds a null pointer.            *)
(***************************************************************************)
EXTENDS Ir, Integers, Sequences, SequencesExt, FiniteSetsExt, FiniteSets

CONSTANTS MaxNodes,    \* bound: nodes made
          MaxStmts,    \* bound: entries of the node lists
          NULL,        \* a null pointer, and a node's id before set_id
          Blocks       \* the code blocks: 1 is the toplevel, then its functions

ASSUME IrPrinterAssumption ==
  Blocks \subseteq Nat /\ MaxNodes \in Nat /\ MaxStmts \in Nat /\ NULL \notin Nat

VARIABLES heap,        \* the nodes
          stack,       \* values that wait for the node that takes them
          blocks,      \* node_list of each code block
          id,          \* IrNode::mId
          listing,     \* the lines printed for each code block
          pc           \* "build", "print", "done", or "crash" at a null pointer

vars == <<heap, stack, blocks, id, listing, pc>>

X == IrLocalVarHandle("x", "int", 0, 0)
F == IrFuncHandle("f", "function", 0, 0)
Wild == "wild"          \* the member of a variable: a pointer nobody assigned

Init ==
  /\ heap = <<>>
  /\ stack = <<>>
  /\ blocks = [b \in Blocks |-> <<>>]
  /\ id = <<>>
  /\ listing = [b \in Blocks |-> <<>>]
  /\ pc = "build"

(* The node goes to fresh memory; its id is not set. *)
New(node) ==
  /\ pc = "build" /\ Len(heap) < MaxNodes
  /\ heap' = Append(heap, node)
  /\ id' = Append(id, NULL)
  /\ UNCHANGED <<listing, pc>>

(* The last n values, and the node that takes them. *)
Taken(n) == SubSeq(stack, Len(stack) - n + 1, Len(stack))
Value(n, node) ==
  /\ New(node)
  /\ stack' = Append(SubSeq(stack, 1, Len(stack) - n), Len(heap) + 1)
  /\ UNCHANGED blocks

(* IrCodeBlock::add_node: it is called where the node of a statement is    *)
(* made, on the block of that statement.                                   *)
Entries == MapThenSumSet(LAMBDA b : Len(blocks[b]), Blocks)
add_node(b, n) ==
  /\ Entries < MaxStmts
  /\ blocks' = [blocks EXCEPT ![b] = Append(@, n)]
Statement(node) ==
  /\ New(node)
  /\ \E b \in Blocks : add_node(b, Len(heap) + 1)
  /\ stack' = <<>>

(* calc_type1, calc_type2 and calc_type3: the type of a call is a null     *)
(* pointer, which only passes beside a float on the right.                 *)
Typed(n) == heap[n].node_type # "FuncCall"

(* The addresses the last n values make: a variable, a member of a         *)
(* variable, or an element of an array (what is indexed has been loaded).  *)
Address(n) ==
  LET v == Taken(n)
      loaded == n > 0 /\ heap[v[1]].node_type = "Load"
  IN  CASE n = 0 -> {X}
        [] n = 1 /\ loaded /\ heap[v[1]].address = X -> {IrMemberRef(v[1], Wild)}
        [] n = 2 /\ loaded /\ Typed(v[2]) -> {IrArrayRef(v[1], v[2])}
        [] OTHER -> {}
Counts == 0 .. Len(stack)

new_UniOp == /\ Len(stack) >= 1 /\ Typed(Taken(1)[1])
             /\ Value(1, IrUniOp("UniMinus", "int", Taken(1)[1], FALSE))
new_BinOp == /\ Len(stack) >= 2 /\ Typed(Taken(2)[2])
             /\ Value(2, IrBinOp("Sub", "int", Taken(2)[1], Taken(2)[2], FALSE))
new_TriOp ==
  /\ Len(stack) >= 3 /\ \A n \in Range(Taken(3)) : Typed(n)
  /\ Value(3, IrTriOp("Ite", "int", Taken(3)[1], Taken(3)[2], Taken(3)[3], FALSE))
(* A member has no value_type, which new_Load asserts. *)
new_Load == \E n \in Counts \ {1} : \E h \in Address(n) : Value(n, IrLoad("int", h, FALSE))
new_FuncCall == \E n \in Counts : Value(n, IrFuncCall(Taken(n)))

(* The right hand side is made before the nodes of the address. *)
new_Store == \E n \in Counts : \E h \in Address(n) :
               Len(stack) = n + 1 /\ Statement(IrStore(h, stack[1]))
new_InplaceBinOp == \E n \in Counts : \E h \in Address(n) :
                      Len(stack) = n + 1 /\ Statement(IrInplaceBinOp("Add", h, stack[1]))
new_InplaceUniOp == \E n \in Counts : \E h \in Address(n) :
                      Len(stack) = n /\ Statement(IrInplaceUniOp("Inc", h))
new_Return == /\ Len(stack) <= 1
              /\ Statement(IrReturn(IF stack = <<>> THEN NULL ELSE stack[1], FALSE))

(* kExpr: any value, or the null pointer of an expression that failed. *)
ExprStmt ==
  /\ pc = "build"
  /\ \/ Len(stack) = 1 /\ \E b \in Blocks : add_node(b, stack[1])
     \/ stack = <<>> /\ \E b \in Blocks : add_node(b, NULL)
  /\ stack' = <<>>
  /\ UNCHANGED <<heap, id, listing, pc>>

Labels == {n \in DOMAIN heap : heap[n].node_type = "Label"}
new_Label == New(IrLabel) /\ UNCHANGED <<stack, blocks>>
AddLabel ==
  /\ pc = "build" /\ stack = <<>>
  /\ \E b \in Blocks, l \in Labels :
       (\A c \in Blocks : l \notin Range(blocks[c])) /\ add_node(b, l)
  /\ UNCHANGED <<heap, stack, id, listing, pc>>
new_Jump == \E l \in Labels : stack = <<>> /\ Statement(IrJump("Jump", l, NULL))
new_BranchTrue == \E l \in Labels : Len(stack) = 1 /\ Statement(IrJump("BranchTrue", l, stack[1]))
new_BranchFalse == \E l \in Labels : Len(stack) = 1 /\ Statement(IrJump("BranchFalse", l, stack[1]))

(* The walk of elaborate is over: every label is in a node list, that of   *)
(* the jumps that refer to it.                                             *)
Target(n) == IF heap[n].node_type \in {"Jump", "BranchTrue", "BranchFalse"}
             THEN heap[n].jump_addr ELSE NULL
Complete ==
  /\ stack = <<>>
  /\ \A l \in Labels : \E b \in Blocks :
       /\ l \in Range(blocks[b])
       /\ \A c \in Blocks : \A i \in DOMAIN blocks[c] :
            blocks[c][i] # NULL /\ Target(blocks[c][i]) = l => b = c

(* elaborate resolves the calls and returns the block all the same when    *)
(* resolve_func fails for some.                                            *)
Calls == {n \in DOMAIN heap : heap[n].node_type = "FuncCall"}
ResolveCalls ==
  /\ pc = "build" /\ Complete
  /\ \E found \in SUBSET Calls :
       heap' = [n \in DOMAIN heap |-> IF n \in found
                                      THEN [heap[n] EXCEPT !.function_address = F]
                                      ELSE heap[n]]
  /\ pc' = "print"
  /\ UNCHANGED <<stack, blocks, id, listing>>
-----------------------------------------------------------------------------
(* What dfs_handle and dfs_node visit below a handle and a node, in their  *)
(* order.                                                                  *)
dfs_handle(h) == IF HasHandleAccessor(h, "array_expr") THEN <<h.array_expr, h.array_index>>
                 ELSE IF HasHandleAccessor(h, "obj_expr") THEN <<h.obj_expr>>
                 ELSE <<>>
SubNodes(n) ==
  LET node == heap[n]
      sub == IF HasNodeAccessor(node, "address") THEN dfs_handle(node.address) ELSE <<>>
  IN  CASE node.node_type \in {"UniOp", "BinOp", "TriOp", "InplaceUniOp", "InplaceBinOp"} ->
             sub \o node.operand
        [] node.node_type = "Load" -> sub
        [] node.node_type = "Store" -> sub \o <<node.store_val>>
        [] node.node_type = "FuncCall" -> node.arglist
        [] node.node_type = "Return" /\ node.return_val # NULL -> <<node.return_val>>
        [] node.node_type \in {"BranchTrue", "BranchFalse"} -> <<node.branch_cond>>
        [] OTHER -> <<>>

RECURSIVE dfs_nodes(_, _)

dfs_node(n, list) == Append(dfs_nodes(SubNodes(n), list), n)

dfs_nodes(ns, list) ==
  IF ns = <<>> THEN list ELSE dfs_nodes(Tail(ns), dfs_node(Head(ns), list))

(* The operands as they are printed: the ids of nodes. *)
Refs(n) == IF Target(n) = NULL THEN SubNodes(n) ELSE <<Target(n)>> \o SubNodes(n)

(* Mutant of IdAt: the id is taken after push_back. *)
IdAtNext(i) == i
(* set_id(node_list.size()) before the i-th push_back. *)
IdAt(i) == i - 1

print_node(n, ids) == [id |-> ids[n], refs |-> [i \in DOMAIN Refs(n) |-> ids[Refs(n)[i]]],
                       node |-> n]
(* print_handle(function_address()) looks into the handle. *)
Unresolved(n) == n \in Calls /\ heap[n].function_address = IrNoHandle

(* print_node_list numbers all the nodes of a list, then prints them.      *)
(* dfs_node looks into every node of the list: a null pointer ends the     *)
(* program before a line of the list is printed, and a call without a      *)
(* function ends it at its line.                                           *)
print_node_list(b) ==
  LET count(list, Stops(_)) ==        \* of what comes before the program ends
        Min({i \in DOMAIN list : Stops(list[i])} \cup {Len(list) + 1}) - 1
      isNull(n) == n = NULL
      visited == count(blocks[b], isNull)
      all_list == dfs_nodes(SubSeq(blocks[b], 1, visited), <<>>)
      ids == [n \in DOMAIN heap |->
                IF n \in Range(all_list)
                THEN IdAt(CHOOSE i \in DOMAIN all_list :
                            /\ all_list[i] = n
                            /\ \A j \in DOMAIN all_list : all_list[j] = n => j <= i)
                ELSE id[n]]
      lines == IF visited < Len(blocks[b]) THEN 0 ELSE count(all_list, Unresolved)
  IN  /\ id' = ids
      /\ listing' = [listing EXCEPT ![b] =
                       [i \in 1 .. lines |-> print_node(all_list[i], ids)]]
      /\ pc' = IF lines < Len(all_list) \/ visited < Len(blocks[b]) THEN "crash" ELSE "print"

(* print_code: the blocks one after the other. *)
Printed(b) == blocks[b] = <<>> \/ listing[b] # <<>>
print_code ==
  /\ pc = "print"
  /\ \/ \E b \in Blocks :
          /\ ~ Printed(b) /\ \A c \in Blocks : c < b => Printed(c)
          /\ print_node_list(b)
     \/ /\ \A b \in Blocks : Printed(b)
        /\ pc' = "done"
        /\ UNCHANGED <<id, listing>>
  /\ UNCHANGED <<heap, stack, blocks>>

Next ==
  \/ new_UniOp \/ new_BinOp \/ new_TriOp \/ new_Load \/ new_FuncCall
  \/ new_Store \/ new_InplaceUniOp \/ new_InplaceBinOp \/ new_Return \/ ExprStmt
  \/ new_Jump \/ new_BranchTrue \/ new_BranchFalse \/ new_Label \/ AddLabel
  \/ ResolveCalls \/ print_code

Spec == Init /\ [][Next]_vars

-----------------------------------------------------------------------------
Line(b, i) == listing[b][i]

(* A %number in the listing of a code block is the number of a line of     *)
(* that listing, and the line shows the node that is meant: operands,      *)
(* conditions, and labels before or behind the jump.  Only where the       *)
(* program has crashed may that line be missing.                           *)
RefsDenote ==
  \A b \in Blocks : \A i \in DOMAIN listing[b] :
    \A k \in DOMAIN Line(b, i).refs :
      LET j == Line(b, i).refs[k] + 1
      IN  IF j \in DOMAIN listing[b]
          THEN Line(b, j).id = j - 1 /\ Line(b, j).node = Refs(Line(b, i).node)[k]
          ELSE pc = "crash"

(* No node is printed twice, a value is printed before its use, and once   *)
(* the program is done every node has been printed.                        *)
PrintedInOrder ==
  /\ \A b \in Blocks : \A i, j \in DOMAIN listing[b] :
       /\ Line(b, i).node = Line(b, j).node => i = j
       /\ Line(b, j).node \in Range(SubNodes(Line(b, i).node)) => j < i
  /\ pc = "done" =>
       \A n \in DOMAIN heap : \E b \in Blocks : \E i \in DOMAIN listing[b] :
         Line(b, i).node = n

(* The printing ends early only at a failed expression statement or at a   *)
(* call that resolve_func has not found a function for, and it never gets  *)
(* past one.                                                               *)
CrashesAtNull ==
  LET broken == \/ \E b \in Blocks : NULL \in Range(blocks[b])
                \/ \E n \in Calls : Unresolved(n)
  IN  (pc = "crash" => broken) /\ (pc = "done" => ~ broken)

(* The listing is a faithful picture of the code, as far as it goes        *)
(* (print_code).                                                           *)
ListingExact == RefsDenote /\ PrintedInOrder /\ CrashesAtNull
=============================================================================
