-------------------------------- MODULE IrMgr --------------------------------
(***************************************************************************)
(* IrMgr::elaborate after its imports: the walk of elab_stmt over a        *)
(* program, the scopes, handles, labels and code blocks it makes, then the *)
(* resolution of the calls and the check of the labels.                    *)
(*                                                                         *)
(* The program is chosen while it is walked, one statement at a time, so   *)
(* the behaviours are the elaborations of all programs of the grammar up   *)
(* to the bounds.  The recursion of elab_stmt is the stack work of what is *)
(* still to do.  Expressions are reduced to the cases elab_expr tells      *)
(* apart: constants (integers, or a string), symbols, calls, and operators *)
(* with a type error, whose operand may be a call.                         *)
(***************************************************************************)
EXTENDS Integers, Sequences, FiniteSets, SequencesExt

CONSTANTS Name,          \* the symbols of programs
          Sublanguages,  \* bound: what a program is made of, see Sublanguage
          NULL,
          WILD           \* a pointer that was never initialised

ExprShape == [k : {"const", "string", "sym", "call", "bad"}, name : Name \cup {NULL}]

StmtKinds == {"Block", "Break", "ConstDecl", "Continue", "IncrDecr", "DoWhile",
              "EnumDecl", "Assignment", "Expr", "For", "FuncDecl", "Goto", "If",
              "Label", "Return", "Switch", "VarDecl", "While"}

(* What the grammar calls single_stmt: the init and next parts of a for. *)
SingleKinds == {"Break", "Continue", "IncrDecr", "Assignment", "Expr", "Goto", "Return"}

(* Bound: the table of a scope (16 entries) first doubles when one handle  *)
(* more than this is added.  The scope of a function has its parameters    *)
(* only, so among these no doubling changes which one a name finds.        *)
MaxParams == 28

(* The names and expressions of a program, the types it names (NULL is a   *)
(* builtin type), the kinds of its statements, how many of them it has     *)
(* (enum constants after a first count), and the parameters of a function. *)
Sublanguage == [names : SUBSET Name, exprs : SUBSET ExprShape,
                types : SUBSET (Name \cup {NULL}), kinds : SUBSET StmtKinds,
                stmts : Nat, params : 0 .. MaxParams]

ASSUME IrMgrAssumption ==
  /\ Sublanguages \subseteq Sublanguage
  /\ NULL \notin Name /\ NULL \notin Nat /\ NULL # "toplevel" /\ WILD \notin Nat

VARIABLES
  mScopeList,      \* scope -> its global scope, and where find looks; 1 is the toplevel
  handles,         \* the handles in the scopes, in the order they were added
  labels,          \* label nodes: mDefined, and what the label is for
  code,            \* block -> mNodeList; 1 is the IrToplevel
  mVarList,        \* block -> its local variables
  mGlobalVarList, mFuncList, mFuncCallList, mUndefList,
  work,            \* the recursion of elab_stmt: what is left to do
  pc,              \* "stmts", "resolve", "check", "return" or "abort"
  result,          \* what elaborate returned
  left,            \* what the rest of the program may still be made of
  error,           \* history: an error path was taken
  ub               \* history: an uninitialised pointer was read

vars == <<mScopeList, handles, labels, code, mVarList, mGlobalVarList, mFuncList,
          mFuncCallList, mUndefList, work, pc, result, left, error, ub>>
tables == <<mVarList, mGlobalVarList, mFuncList>>

-----------------------------------------------------------------------------
(* Scope::find_local on the handles hs.  A name may have several handles:  *)
(* those of enum constants are alike here, and of the parameters the       *)
(* newest is found, since _put enters it at the front of its chain and no  *)
(* doubling turns the chain round (MaxParams).                             *)
LocalHits(hs, s, n) == {h \in DOMAIN hs : hs[h].scope = s /\ hs[h].name = n}
Newest(H) == CHOOSE h \in H : \A g \in H : g <= h
FindLocal(hs, s, n) == IF LocalHits(hs, s, n) = {} THEN NULL
                                                   ELSE Newest(LocalHits(hs, s, n))

(* Scope::find: from the scope to its parent, from there on, and last to   *)
(* the global scope.  These scopes are the chain of the scope, and each is *)
(* older than the one before it, so the first that has the name is the     *)
(* newest one.                                                             *)
Find(hs, s, n) ==
  LET known == {t \in mScopeList[s].chain : LocalHits(hs, t, n) # {}}
  IN  IF known = {} THEN NULL ELSE FindLocal(hs, Newest(known), n)

(* new_scope: the child of a toplevel scope has no parent, only a global   *)
(* scope; deeper scopes inherit the global scope of their parent.          *)
NewScope(s, n) ==
  [global |-> IF mScopeList[s].global = NULL THEN s ELSE mScopeList[s].global,
   chain |-> {Len(mScopeList) + 1} \cup mScopeList[s].chain, name |-> n]

Handle(type, n, s, blk, i, lab) ==
  [type |-> type, name |-> n, scope |-> s, block |-> blk, index |-> i, label |-> lab]

Node(op, ref, use) == [op |-> op, ref |-> ref, use |-> use]
NewLabel(role) == [defined |-> FALSE, role |-> role]

(* elab_expr: what comes of the expression, the handle it loads and the    *)
(* call it leaves to be resolved.  new_Load fails an assertion for labels  *)
(* and types.  NULL is an expression the statement does not have.          *)
ElabExpr(hs, e, s) ==
  LET h == IF e.k = "sym" THEN Find(hs, s, e.name) ELSE NULL
  IN  IF e = NULL THEN [use |-> NULL, status |-> "none", static |-> TRUE, stubs |-> <<>>] ELSE
      [use    |-> h,
       status |-> IF e.k = "bad" \/ (e.k = "sym" /\ h = NULL) THEN "null"
                  ELSE IF h # NULL /\ hs[h].type \in {"label", "type"} THEN "abort"
                  ELSE "ok",
       static |-> e.k = "const" \/ (h # NULL /\ hs[h].type = "const"),
       stubs  |-> IF e.k \in {"call", "bad"} /\ e.name # NULL
                    THEN <<[name |-> e.name, scope |-> s, addr |-> NULL]>> ELSE <<>>]

(* resolve_type: builtin types, or a name that must denote a type. *)
ResolvesType(ty, s) ==
  ty = NULL \/ LET h == Find(handles, s, ty)
               IN  h # NULL /\ handles[h].type = "type"

-----------------------------------------------------------------------------
(* The arguments of the elab_stmt call in progress, and what it leaves.    *)
Task(kind, c, arg) == [kind |-> kind, c |-> c, arg |-> arg]
Top == Head(work)
C == Top.c
Rest == IF Top.kind = "list" THEN work ELSE Tail(work)

(* The walk goes on; what the compiler does after it used an uninitialised *)
(* pointer is not followed.                                                *)
Running == pc = "stmts" /\ ~ ub

OneLess == [left EXCEPT !.stmts = @ - 1]

(* The next statement of the program is of this kind. *)
Here(kind) ==
  /\ Running /\ kind \in left.kinds
  /\ \/ Top.kind = "list" /\ left.stmts > 0 /\ left' = OneLess
     \/ Top.kind = "single" /\ kind \in SingleKinds /\ left' = left

Going(kind) ==
  /\ Running /\ Top.kind = kind
  /\ UNCHANGED left

AddNodes(nodes) == code' = [code EXCEPT ![C.block] = @ \o nodes]

(* An early return of elab_stmt: whatever it did not do stays as it was.   *)
Fail ==
  /\ error' = TRUE /\ work' = Rest
  /\ UNCHANGED <<handles, labels, code, tables, mUndefList, pc, result, ub>>

(* A failed assertion or a null pointer ends the compiler. *)
Abort ==
  /\ pc' = "abort"
  /\ UNCHANGED <<mScopeList, handles, labels, code, tables, mFuncCallList, mUndefList,
                 work, result, error, ub>>

(* The elaboration of an expression e of the statement, by its outcome. *)
Evaluates(e, status) ==
  /\ ElabExpr(handles, e, C.scope).status = status
  /\ mFuncCallList' = mFuncCallList \o ElabExpr(handles, e, C.scope).stubs
UseOf(e) == ElabExpr(handles, e, C.scope).use

(* The condition of a branch: new_BranchTrue and new_BranchFalse assert it. *)
BadCond(e) == ElabExpr(handles, e, C.scope).status # "ok" /\ Abort

(* Statements that only append code to their block. *)
Appends(nodes) ==
  /\ AddNodes(nodes)
  /\ work' = Rest
  /\ UNCHANGED <<mScopeList, handles, labels, tables, mUndefList, pc, result, error, ub>>

-----------------------------------------------------------------------------
Init ==
  /\ mScopeList = <<[global |-> NULL, chain |-> {1}, name |-> NULL]>>
  /\ handles = <<>>
  /\ labels = <<>>
  /\ code = <<<<>>>>
  /\ mVarList = <<<<>>>>
  /\ mGlobalVarList = <<>> /\ mFuncList = <<>>
  /\ mFuncCallList = <<>> /\ mUndefList = <<>>
  /\ work = <<Task("list", [scope |-> 1, start |-> NULL, end |-> NULL, block |-> 1], NULL)>>
  /\ pc = "stmts"
  /\ result = NULL
  /\ left \in Sublanguages
  /\ error = FALSE /\ ub = FALSE

(* kBlock, whose statements are then elaborated in a scope of their own. *)
EnterBlock(c, rest) ==
  /\ mScopeList' = Append(mScopeList, NewScope(c.scope, NULL))
  /\ work' = <<Task("list", [c EXCEPT !.scope = Len(mScopeList) + 1], NULL)>> \o rest
  /\ UNCHANGED <<handles, labels, code, tables, mFuncCallList, mUndefList, pc, result,
                 error, ub>>

Block == Here("Block") /\ EnterBlock(C, Rest)

(* The block_stmt that is the body of the statement above it. *)
Body == Going("block") /\ EnterBlock(C, Tail(work))

(* The closing brace of a block, the end of the file at the bottom. *)
EndList ==
  /\ Going("list")
  /\ work' = Tail(work)
  /\ pc' = IF Len(work) = 1 THEN "resolve" ELSE pc
  /\ UNCHANGED <<mScopeList, handles, labels, code, tables, mFuncCallList, mUndefList,
                 result, error, ub>>

(* The nodes a statement adds after its last nested statement. *)
Emit ==
  /\ Going("emit")
  /\ Appends(Top.arg)
  /\ UNCHANGED mFuncCallList

Break ==
  /\ Here("Break")
  /\ \/ C.end = NULL /\ Fail
     \/ C.end # NULL /\ Appends(<<Node("break", C.end, NULL)>>)
  /\ UNCHANGED <<mScopeList, mFuncCallList>>

Continue ==
  /\ Here("Continue")
  /\ \/ C.start = NULL /\ Fail
     \/ C.start # NULL /\ Appends(<<Node("continue", C.start, NULL)>>)
  /\ UNCHANGED <<mScopeList, mFuncCallList>>

(* kIncr and kDecr. *)
IncrDecr(n) ==
  /\ Here("IncrDecr")
  /\ LET h == Find(handles, C.scope, n)
     IN  \/ h = NULL /\ Fail
         \/ h # NULL /\ Appends(<<Node("inplace", h, NULL)>>)
  /\ UNCHANGED <<mScopeList, mFuncCallList>>

(* kAssignment and kInplaceOp: the right side first. *)
Assignment(n, e) ==
  /\ Here("Assignment")
  /\ LET h == Find(handles, C.scope, n)
     IN  \/ Evaluates(e, "null") /\ Fail
         \/ Evaluates(e, "ok") /\ h = NULL /\ Fail
         \/ Evaluates(e, "ok") /\ h # NULL /\ Appends(<<Node("store", h, UseOf(e))>>)
         \/ Evaluates(e, "abort") /\ Abort
  /\ UNCHANGED mScopeList

(* kExpr adds what elab_expr returned, a null pointer too. *)
ExprStmt(e) ==
  /\ Here("Expr")
  /\ \/ Evaluates(e, "ok") /\ Appends(<<Node("expr", NULL, UseOf(e))>>)
     \/ /\ Evaluates(e, "null")
        /\ AddNodes(<<Node("null", NULL, NULL)>>)
        /\ work' = Rest /\ error' = TRUE
        /\ UNCHANGED <<mScopeList, handles, labels, tables, mUndefList, pc, result, ub>>
     \/ Evaluates(e, "abort") /\ Abort
  /\ UNCHANGED mScopeList

(* kReturn: a return value that failed is dropped without a word. *)
Return(e) ==
  /\ Here("Return")
  /\ \/ /\ Evaluates(e, "none") \/ Evaluates(e, "ok")
        /\ Appends(<<Node("return", NULL, UseOf(e))>>)
     \/ /\ Evaluates(e, "null")
        /\ AddNodes(<<Node("return", NULL, NULL)>>)
        /\ work' = Rest /\ error' = TRUE
        /\ UNCHANGED <<mScopeList, handles, labels, tables, mUndefList, pc, result, ub>>
     \/ Evaluates(e, "abort") /\ Abort
  /\ UNCHANGED mScopeList

(* kSwitch: AstSwitch has no expr(), so the condition that elab_stmt asks  *)
(* for is the assertion of AstStatement::expr.                             *)
Switch == Here("Switch") /\ Abort

-----------------------------------------------------------------------------
(* Loops.  Their labels are allocated in pairs, start then end.            *)
start1 == Len(labels) + 1
end1 == Len(labels) + 2
LoopLabels == labels \o <<NewLabel("start"), NewLabel("end")>>
Inner(c) == [c EXCEPT !.start = start1, !.end = end1]

While(e) ==
  /\ Here("While")
  /\ \/ /\ Evaluates(e, "ok")
        /\ labels' = LoopLabels
        /\ AddNodes(<<Node("label", start1, NULL), Node("branch", end1, UseOf(e))>>)
        /\ work' = <<Task("block", Inner(C), NULL),
                     Task("emit", C, <<Node("jump", start1, NULL),
                                       Node("label", end1, NULL)>>)>> \o Rest
        /\ UNCHANGED <<mScopeList, handles, tables, mUndefList, pc, result, error, ub>>
     \/ BadCond(e)

DoWhile ==
  /\ Here("DoWhile")
  /\ labels' = LoopLabels
  /\ AddNodes(<<Node("label", start1, NULL)>>)
  /\ work' = <<Task("block", Inner(C), NULL), Task("until", Inner(C), NULL)>> \o Rest
  /\ UNCHANGED <<mScopeList, handles, tables, mFuncCallList, mUndefList, pc, result,
                 error, ub>>

(* The end of kDoWhile: its condition, in the scope outside the body. *)
Until(e) ==
  /\ Going("until")
  /\ \/ Evaluates(e, "ok") /\ Appends(<<Node("branch", C.start, UseOf(e)),
                                        Node("label", C.end, NULL)>>)
     \/ BadCond(e)

For ==
  /\ Here("For")
  /\ mScopeList' = Append(mScopeList, NewScope(C.scope, NULL))
  /\ LET c == [C EXCEPT !.scope = Len(mScopeList) + 1]
     IN  work' = <<Task("single", [c EXCEPT !.start = NULL, !.end = NULL], NULL),
                   Task("forhead", c, NULL)>> \o Rest
  /\ UNCHANGED <<handles, labels, code, tables, mFuncCallList, mUndefList, pc, result,
                 error, ub>>

(* Mutant of ForHead: body and next part get the labels of the outer loop. *)
ForHeadOuterLabels(e) ==
  /\ Going("forhead")
  /\ \/ /\ Evaluates(e, "ok")
        /\ labels' = LoopLabels
        /\ AddNodes(<<Node("label", start1, NULL), Node("branch", end1, UseOf(e))>>)
        /\ work' = <<Task("block", C, NULL), Task("single", C, NULL),
                     Task("emit", C, <<Node("jump", start1, NULL),
                                       Node("label", end1, NULL)>>)>> \o Tail(work)
        /\ UNCHANGED <<mScopeList, handles, tables, mUndefList, pc, result, error, ub>>
     \/ BadCond(e)

(* kFor after its init part. *)
ForHead(e) ==
  /\ Going("forhead")
  /\ \/ /\ Evaluates(e, "ok")
        /\ labels' = LoopLabels
        /\ AddNodes(<<Node("label", start1, NULL), Node("branch", end1, UseOf(e))>>)
        /\ work' = <<Task("block", Inner(C), NULL), Task("single", Inner(C), NULL),
                     Task("emit", C, <<Node("jump", start1, NULL),
                                       Node("label", end1, NULL)>>)>> \o Tail(work)
        /\ UNCHANGED <<mScopeList, handles, tables, mUndefList, pc, result, error, ub>>
     \/ BadCond(e)

(* kIf up to its then block; an elif is an If in else position. *)
IfHead(e, rest) ==
  \/ /\ Evaluates(e, "ok")
     /\ labels' = labels \o <<NewLabel("else"), NewLabel("fi")>>
     /\ AddNodes(<<Node("branch", start1, UseOf(e))>>)
     /\ work' = <<Task("block", C, NULL), Task("else", C, start1)>> \o rest
     /\ UNCHANGED <<mScopeList, handles, tables, mUndefList, pc, result, error, ub>>
  \/ BadCond(e)

If(e) == Here("If") /\ IfHead(e, Rest)

(* The rest of kIf: an else block, an elif, or else_stmt() = NULL, which   *)
(* elab_stmt dereferences.                                                 *)
Else ==
  /\ Going("else")
  /\ \/ /\ AddNodes(<<Node("jump", Top.arg + 1, NULL), Node("label", Top.arg, NULL)>>)
        /\ \E k \in {"block"} \cup (IF left.stmts > 0 THEN {"elif"} ELSE {}) :
             work' = <<Task(k, C, NULL),
                       Task("emit", C, <<Node("label", Top.arg + 1, NULL)>>)>> \o Tail(work)
        /\ UNCHANGED <<mScopeList, handles, labels, tables, mFuncCallList, mUndefList, pc,
                       result, error, ub>>
     \/ Abort

Elif(e) ==
  /\ Running /\ Top.kind = "elif"
  /\ left' = OneLess
  /\ IfHead(e, Tail(work))

-----------------------------------------------------------------------------
(* Declarations.                                                           *)

(* Mutant of CheckName: labels do not count as declarations of their name. *)
CheckNameNotLabels(n) ==
  LET h == FindLocal(handles, C.scope, n)
  IN  IF h = NULL THEN TRUE ELSE handles[h].type = "label"

(* check_name: the name is not declared in this very scope. *)
CheckName(n) == FindLocal(handles, C.scope, n) = NULL

(* Mutant of NextLocalIndex: variables are numbered within their scope.    *)
ScopeLocalIndex(blk, s) ==
  Cardinality({h \in DOMAIN handles : handles[h].scope = s /\ handles[h].type = "local"})

(* IrCodeBlock::next_local_index. *)
NextLocalIndex(blk, s) == Len(mVarList[blk])

(* The handle of a variable declared here: global in the toplevel scope. *)
VarHandle(n) ==
  IF mScopeList[C.scope].global = NULL
    THEN Handle("global", n, C.scope, 1, Len(mGlobalVarList), NULL)
    ELSE Handle("local", n, C.scope, C.block, NextLocalIndex(C.block, C.scope), NULL)

(* kVarDecl: the variable is in scope in its own initialiser, and stays    *)
(* declared when the initialiser fails.                                    *)
VarDecl(n, ty, e) ==
  /\ Here("VarDecl")
  /\ LET h   == VarHandle(n)
         hs  == Append(handles, h)
         id  == Len(hs)
         r   == ElabExpr(hs, e, C.scope)
         bad == ~ CheckName(n) \/ ~ ResolvesType(ty, C.scope)
     IN  \/ bad /\ Fail /\ UNCHANGED mFuncCallList
         \/ /\ ~ bad
            /\ handles' = hs
            /\ \/ /\ h.type = "global"
                  /\ mGlobalVarList' = Append(mGlobalVarList, id)
                  /\ UNCHANGED mVarList
               \/ /\ h.type = "local"
                  /\ mVarList' = [mVarList EXCEPT ![C.block] = Append(@, id)]
                  /\ UNCHANGED mGlobalVarList
            /\ \/ /\ r.status \in {"none", "null"}
                  /\ error' = (error \/ r.status = "null")
                  /\ mFuncCallList' = mFuncCallList \o r.stubs
                  /\ UNCHANGED <<code, pc>>
               \/ /\ r.status = "ok"
                  /\ AddNodes(<<Node("store", id, r.use)>>)
                  /\ mFuncCallList' = mFuncCallList \o r.stubs
                  /\ UNCHANGED <<pc, error>>
               \/ /\ r.status = "abort"
                  /\ pc' = "abort"
                  /\ UNCHANGED <<code, mFuncCallList, error>>
            /\ work' = Rest
            /\ UNCHANGED <<labels, mFuncList, mUndefList, result, ub>>
  /\ UNCHANGED mScopeList

(* reg_const: a string constant fails the last assertion. *)
ConstDecl(n, ty, e) ==
  /\ Here("ConstDecl")
  /\ LET r   == ElabExpr(handles, e, C.scope)
         bad == ~ CheckName(n) \/ ~ ResolvesType(ty, C.scope)
     IN  \/ bad /\ Fail /\ UNCHANGED mFuncCallList
         \/ /\ ~ bad
            /\ e.k # "string"
            /\ r.status = "null" \/ (r.status = "ok" /\ ~ r.static)
            /\ mFuncCallList' = mFuncCallList \o r.stubs
            /\ Fail
         \/ /\ ~ bad
            /\ r.status = "ok" /\ r.static
            /\ handles' = Append(handles, Handle("const", n, C.scope, NULL, NULL, NULL))
            /\ work' = Rest
            /\ UNCHANGED <<labels, code, tables, mFuncCallList, mUndefList, pc, result,
                           error, ub>>
         \/ ~ bad /\ (r.status = "abort" \/ e.k = "string") /\ Abort
  /\ UNCHANGED mScopeList

(* reg_enum: a scope of its own for the constants, named after the type.   *)
EnumDecl(n) ==
  /\ Here("EnumDecl")
  /\ \/ ~ CheckName(n) /\ Fail /\ UNCHANGED mScopeList
     \/ /\ CheckName(n)
        /\ mScopeList' = Append(mScopeList, NewScope(C.scope, n))
        /\ work' = <<Task("enum", [C EXCEPT !.scope = Len(mScopeList) + 1], C.scope)>> \o Rest
        /\ UNCHANGED <<handles, labels, code, tables, mUndefList, pc, result, error, ub>>
  /\ UNCHANGED mFuncCallList

(* The next constant m of the enum.  Its value e, which sees the constants *)
(* before it, must be a static integer that none of them has: the values   *)
(* are those of ConstFold, here this is left open.  Names are not checked. *)
HasConst == \E h \in DOMAIN handles : handles[h].scope = C.scope
EnumConst(m, e) ==
  /\ Running /\ Top.kind = "enum"
  /\ HasConst => left.stmts > 0
  /\ left' = IF HasConst THEN OneLess ELSE left
  /\ LET r  == ElabExpr(handles, e, C.scope)
         ok == r.status \in {"none", "ok"} /\ r.static
     IN  \/ /\ r.status # "abort"
            /\ ~ ok \/ (r.status = "ok" /\ HasConst)
            /\ mFuncCallList' = mFuncCallList \o r.stubs
            /\ Fail
         \/ /\ ok
            /\ handles' = Append(handles, Handle("const", m, C.scope, NULL, NULL, NULL))
            /\ UNCHANGED <<labels, code, tables, mFuncCallList, mUndefList, work, pc,
                           result, error, ub>>
         \/ r.status = "abort" /\ Abort
  /\ UNCHANGED mScopeList

(* The end of reg_enum: the type is declared in the scope of the statement. *)
EnumEnd ==
  /\ Going("enum") /\ HasConst
  /\ handles' = Append(handles, Handle("type", mScopeList[C.scope].name, Top.arg,
                                       NULL, NULL, NULL))
  /\ work' = Tail(work)
  /\ UNCHANGED <<mScopeList, labels, code, tables, mFuncCallList, mUndefList, pc, result,
                 error, ub>>

(* Mutant of FuncScopeParent: a function sees the locals around it. *)
FuncScopeHere(s) == s

(* reg_func makes the function's scope a child of the global scope. *)
FuncScopeParent(s) == IF mScopeList[s].global = NULL THEN s ELSE mScopeList[s].global

(* Mutant of NextFuncIndex: functions are numbered within their scope. *)
ScopeFuncIndex(s) ==
  Cardinality({h \in DOMAIN handles : handles[h].scope = s /\ handles[h].type = "func"})

(* IrToplevel::next_func_index. *)
NextFuncIndex(s) == Len(mFuncList)

(* The parameters: numbered from 0, declared in the function's scope.  The *)
(* check for a repeated name runs before any of them is declared.          *)
Params(ps, s, blk) ==
  [i \in DOMAIN ps |-> Handle("param", ps[i], s, blk, i - 1, NULL)]

(* Mutant of FuncContext: break and continue reach the loop outside. *)
FuncContextKeepsLabels(c, s, blk) == [c EXCEPT !.scope = s, !.block = blk]

(* The arguments of elab_stmt for the body of a function. *)
FuncContext(c, s, blk) == [scope |-> s, start |-> NULL, end |-> NULL, block |-> blk]

(* reg_func: name and types, parameters with their default values ds (in   *)
(* the scope of the declaration) up to the first that fails, then the      *)
(* handle, the block and the body.                                         *)
FuncDecl(n, ty, ps, ds) ==
  /\ Here("FuncDecl")
  /\ LET taken == ~ CheckName(n)
         fs    == Len(mScopeList) + 1
         blk   == Len(code) + 1
         r     == [i \in DOMAIN ps |-> ElabExpr(handles, ds[i], C.scope)]
         bad   == {i \in DOMAIN ps : r[i].status \notin {"none", "ok"}}
         upto  == IF bad = {} THEN Len(ps) ELSE Min(bad)
         known == handles \o SubSeq(Params(ps, fs, blk), 1, upto)
         stubs == FlattenSeq([i \in 1 .. upto |-> r[i].stubs])
     IN  \/ taken /\ Fail /\ UNCHANGED <<mScopeList, mFuncCallList>>
         \/ /\ ~ taken
            /\ mScopeList' = Append(mScopeList, NewScope(FuncScopeParent(C.scope), NULL))
            /\ \/ ~ ResolvesType(ty, C.scope) /\ Fail /\ UNCHANGED mFuncCallList
               \/ /\ ResolvesType(ty, C.scope) /\ bad # {} /\ r[upto].status = "null"
                  /\ mFuncCallList' = mFuncCallList \o stubs
                  /\ handles' = known
                  /\ error' = TRUE /\ work' = Rest
                  /\ UNCHANGED <<labels, code, tables, mUndefList, pc, result, ub>>
               \/ /\ ResolvesType(ty, C.scope) /\ bad = {}
                  /\ mFuncCallList' = mFuncCallList \o stubs
                  /\ handles' = Append(known, Handle("func", n, C.scope, blk,
                                                     NextFuncIndex(C.scope), NULL))
                  /\ mFuncList' = Append(mFuncList,
                       [handle |-> Len(handles'), block |-> blk,
                        args |-> [i \in DOMAIN ps |-> Len(handles) + i]])
                  /\ code' = Append(code, <<>>)
                  /\ mVarList' = Append(mVarList, <<>>)
                  /\ work' = <<Task("block", FuncContext(C, fs, blk), NULL)>> \o Rest
                  /\ UNCHANGED <<labels, mGlobalVarList, mUndefList, pc, result, error, ub>>
         \/ /\ ~ taken /\ ResolvesType(ty, C.scope)
            /\ bad # {} /\ r[upto].status = "abort"
            /\ Abort

-----------------------------------------------------------------------------
(* Labels of the program.  When the name is already known label_node is    *)
(* used without having been assigned.                                      *)
AnyLabel == DOMAIN labels \cup {WILD}
IsDefined(l) == IF l = WILD THEN BOOLEAN ELSE {labels[l].defined}

Goto(n) ==
  /\ Here("Goto")
  /\ LET h == Find(handles, C.scope, n)
     IN  \/ /\ h = NULL
            /\ labels' = Append(labels, NewLabel("user"))
            /\ handles' = Append(handles, Handle("label", n, C.scope, NULL, NULL, start1))
            /\ mUndefList' = Append(mUndefList, start1)
            /\ AddNodes(<<Node("goto", start1, Len(handles) + 1)>>)
            /\ work' = Rest
            /\ UNCHANGED <<tables, pc, result, error, ub>>
         \/ h # NULL /\ handles[h].type # "label" /\ Fail
         \/ /\ h # NULL /\ handles[h].type = "label"
            /\ \E l \in AnyLabel : AddNodes(<<Node("goto", l, h)>>)
            /\ ub' = TRUE
            /\ work' = Rest
            /\ UNCHANGED <<handles, labels, tables, mUndefList, pc, result, error>>
         \/ h # NULL /\ handles[h].type = "label" /\ Abort
  /\ UNCHANGED <<mScopeList, mFuncCallList>>

Label(n) ==
  /\ Here("Label")
  /\ LET h == Find(handles, C.scope, n)
     IN  \/ /\ h = NULL
            /\ labels' = Append(labels, [defined |-> TRUE, role |-> "user"])
            /\ handles' = Append(handles, Handle("label", n, C.scope, NULL, NULL, start1))
            /\ AddNodes(<<Node("label", start1, NULL)>>)
            /\ work' = Rest
            /\ UNCHANGED <<tables, mUndefList, pc, result, error, ub>>
         \/ h # NULL /\ handles[h].type # "label" /\ Fail
         \/ /\ h # NULL /\ handles[h].type = "label"
            /\ ub' = TRUE
            /\ work' = Rest
            /\ \E l \in AnyLabel :
                 \/ /\ TRUE \in IsDefined(l)
                    /\ error' = TRUE
                    /\ UNCHANGED <<labels, code>>
                 \/ /\ FALSE \in IsDefined(l)
                    /\ labels' = IF l = WILD THEN labels
                                             ELSE [labels EXCEPT ![l].defined = TRUE]
                    /\ AddNodes(<<Node("label", l, NULL)>>)
                    /\ UNCHANGED error
            /\ UNCHANGED <<handles, tables, mUndefList, pc, result>>
         \/ h # NULL /\ handles[h].type = "label" /\ Abort
  /\ UNCHANGED <<mScopeList, mFuncCallList>>

-----------------------------------------------------------------------------
(* resolve_func for one call. *)
ResolveFunc(n, s) ==
  LET h == Find(handles, s, n)
  IN  IF h # NULL /\ handles[h].type = "func" THEN h ELSE NULL

(* After the walk: resolve the calls, ignoring the failures ... *)
Resolve ==
  /\ pc = "resolve"
  /\ mFuncCallList' = [i \in DOMAIN mFuncCallList |->
                         [mFuncCallList[i] EXCEPT
                            !.addr = ResolveFunc(mFuncCallList[i].name, mFuncCallList[i].scope)]]
  /\ error' = (error \/ \E i \in DOMAIN mFuncCallList : mFuncCallList'[i].addr = NULL)
  /\ pc' = "check"
  /\ UNCHANGED <<mScopeList, handles, labels, code, tables, mUndefList, work, result,
                 left, ub>>

(* ... and return the toplevel block unless a goto label is undefined. *)
Check ==
  /\ pc = "check"
  /\ LET undef == \E i \in DOMAIN mUndefList : ~ labels[mUndefList[i]].defined
     IN  /\ result' = IF undef THEN NULL ELSE "toplevel"
         /\ error' = (error \/ undef)
  /\ pc' = "return"
  /\ UNCHANGED <<mScopeList, handles, labels, code, tables, mFuncCallList, mUndefList,
                 work, left, ub>>

(* The compiler has returned or died, or is no longer followed. *)
Ended ==
  /\ pc \in {"return", "abort"} \/ ub
  /\ UNCHANGED vars

ParamLists == UNION {[1 .. k -> left.names] : k \in 0 .. left.params}

Next ==
  \/ Block \/ Body \/ EndList \/ Emit \/ Break \/ Continue \/ DoWhile \/ For \/ Else
  \/ Switch
  \/ \E e \in left.exprs : \/ ExprStmt(e) \/ While(e) \/ Until(e) \/ ForHead(e)
                           \/ If(e) \/ Elif(e)
  \/ \E e \in left.exprs \cup {NULL} : Return(e)
  \/ \E n \in left.names :
       \/ IncrDecr(n) \/ Goto(n) \/ Label(n)
       \/ \E e \in left.exprs : Assignment(n, e) \/ \E ty \in left.types : ConstDecl(n, ty, e)
       \/ \E e \in left.exprs \cup {NULL}, ty \in left.types : VarDecl(n, ty, e)
       \/ EnumDecl(n) \/ \E e \in left.exprs \cup {NULL} : EnumConst(n, e)
       \/ \E ty \in left.types, ps \in ParamLists :
            \E ds \in [DOMAIN ps -> left.exprs \cup {NULL}] : FuncDecl(n, ty, ps, ds)
  \/ EnumEnd \/ Resolve \/ Check \/ Ended

Spec == Init /\ [][Next]_vars

-----------------------------------------------------------------------------
(* A name means one thing in a scope: whatever the statements before did,  *)
(* failed half-way or declared a label of that name, no declaration adds a *)
(* second handle of the name.  (Exceptions: parameters, which reg_func     *)
(* looks for in a scope that is still empty, and the constants of an enum, *)
(* in the scopes that have a name.)                                        *)
NamesUnique ==
  \A g, h \in DOMAIN handles :
    (/\ handles[g].scope = handles[h].scope /\ handles[g].name = handles[h].name
     /\ mScopeList[handles[g].scope].name = NULL)
      => g = h \/ (handles[g].type = "param" /\ handles[h].type = "param")

(* The handles a node of the code reads or writes. *)
Touched(node) ==
  (IF node.op \in {"store", "inplace"} THEN {node.ref} ELSE {})
    \cup (IF node.use = NULL THEN {} ELSE {node.use})

(* A local slot means nothing outside its code block: code of one function *)
(* (or of the toplevel) never reads or writes a local variable or a        *)
(* parameter of another, however functions and blocks are nested.          *)
LocalsOwned ==
  \A b \in DOMAIN code : \A i \in DOMAIN code[b] :
    \A h \in Touched(code[b][i]) :
      handles[h].type \in {"local", "param"} => handles[h].block = b

(* The index in a variable's handle is its place in the list of its block  *)
(* (mVarList) or of the program (mGlobalVarList), that of a parameter its  *)
(* place among the arguments (mArgList), also in sibling scopes and when   *)
(* functions are declared inside functions.  So no two variables of a      *)
(* block, and no two arguments, share an index.  But both lists count from *)
(* 0: in a function with both, the first variable has the index of the     *)
(* first argument, and both are local variable handles.                    *)
VariableSlots ==
  \A h \in DOMAIN handles :
    /\ handles[h].type = "local" =>
         /\ handles[h].index + 1 \in DOMAIN mVarList[handles[h].block]
         /\ mVarList[handles[h].block][handles[h].index + 1] = h
    /\ handles[h].type = "global" =>
         /\ handles[h].index + 1 \in DOMAIN mGlobalVarList
         /\ mGlobalVarList[handles[h].index + 1] = h

ArgumentSlots ==
  \A f \in DOMAIN mFuncList : \A i \in DOMAIN mFuncList[f].args :
    LET h == mFuncList[f].args[i]
    IN  /\ h \in DOMAIN handles
        /\ handles[h].type = "param" /\ handles[h].block = mFuncList[f].block
        /\ handles[h].index + 1 = i

SlotsExact == VariableSlots /\ ArgumentSlots

(* A call is resolved to a handle and runs mFuncList[index]: that function *)
(* is the one the handle was made for, also when functions are declared    *)
(* inside the body of a function that is still being elaborated.           *)
FuncIndexExact ==
  \A h \in DOMAIN handles : handles[h].type = "func" =>
    /\ handles[h].index + 1 \in DOMAIN mFuncList
    /\ LET f == mFuncList[handles[h].index + 1]
       IN  f.handle = h /\ f.block = handles[h].block

(* Where the label l stands. *)
PlacesOf(l) ==
  {p \in UNION {{<<b, i>> : i \in DOMAIN code[b]} : b \in DOMAIN code} :
     code[p[1]][p[2]].op = "label" /\ code[p[1]][p[2]].ref = l}

Jumps == {"jump", "branch", "break", "continue", "goto"}

(* In a program elaborate accepts, every jump goes to a label that stands  *)
(* at exactly one place, in the jump's own block: no label is missing or   *)
(* doubled, and no break, continue or goto leaves its function.  (Up to    *)
(* the first use of an uninitialised label_node.)                          *)
JumpsLand ==
  (result = "toplevel" /\ ~ ub) =>
    \A b \in DOMAIN code : \A i \in DOMAIN code[b] :
      code[b][i].op \in Jumps =>
        \E j \in DOMAIN code[b] : PlacesOf(code[b][i].ref) = {<<b, j>>}

(* The loops around node i of block b, as the labels of their starts; the  *)
(* end label of a loop follows its start label.                            *)
LoopsAround(b, i) ==
  {l \in DOMAIN labels :
     /\ labels[l].role = "start"
     /\ \E j \in 1 .. i - 1, k \in i + 1 .. Len(code[b]) :
          <<b, j>> \in PlacesOf(l) /\ <<b, k>> \in PlacesOf(l + 1)}

(* In the flat code a break or a continue still belongs to the innermost   *)
(* loop written around it: loops are numbered inwards, so that is the one  *)
(* with the largest label.                                                 *)
JumpsInnermost ==
  (result = "toplevel" /\ ~ ub) =>
    \A b \in DOMAIN code : \A i \in DOMAIN code[b] :
      LET node == code[b][i]
      IN  /\ node.op = "break" => /\ node.ref - 1 \in LoopsAround(b, i)
                                  /\ \A l \in LoopsAround(b, i) : l <= node.ref - 1
          /\ node.op = "continue" => /\ node.ref \in LoopsAround(b, i)
                                     /\ \A l \in LoopsAround(b, i) : l <= node.ref

(* The comment on elaborate: it returns NULL when an error occurred.       *)
NullOnError == (pc = "return" /\ error) => result = NULL
==============================================================================
