----------------------------- MODULE IrMgr_proof -----------------------------
(***************************************************************************)
(* Proofs about IrMgr: in every program, whatever its size and however     *)
(* much of it fails, names stay unique in their scopes, the indices in     *)
(* handles are places in the lists of the block or program, and code never *)
(* touches a local variable of another block; then, from JInv on, that     *)
(* jumps go where they belong.                                             *)
(***************************************************************************)
EXTENDS IrMgr, SeqLemmas

Opt(S) == S \cup {NULL}

ScopeRec == [global : Opt(Nat), chain : SUBSET Nat, name : Opt(Name)]
HandleRec == [type : {"global", "local", "const", "type", "param", "func", "label"},
              name : Opt(Name), scope : Nat, block : Opt(Nat), index : Opt(Nat),
              label : Opt(Nat)]
Ops == {"store", "inplace", "expr", "null", "return", "label", "jump", "branch", "break",
        "continue", "goto"}
NodeRec == [op : Ops, ref : Nat \cup {NULL, WILD}, use : Opt(Nat)]
LabelRec == [defined : BOOLEAN, role : {"start", "end", "else", "fi", "user"}]
Ctx == [scope : Nat, start : Opt(Nat), end : Opt(Nat), block : Nat]
Arg == {NULL} \cup Nat \cup Seq(NodeRec)
TaskKinds == {"list", "block", "single", "emit", "until", "forhead", "else", "elif", "enum"}
TaskRec == [kind : TaskKinds, c : Ctx, arg : Arg]

Budget == [names : SUBSET Name, exprs : SUBSET ExprShape, types : SUBSET Opt(Name),
           kinds : SUBSET StmtKinds, stmts : Int, params : Nat]

FuncRec == [handle : Nat, block : Nat, args : Seq(Nat)]

MiscType == labels \in Seq(LabelRec) /\ left \in Budget

TypeInv ==
  /\ mScopeList \in Seq(ScopeRec)
  /\ handles \in Seq(HandleRec)
  /\ code \in Seq(Seq(NodeRec))
  /\ mVarList \in Seq(Seq(Nat)) /\ Len(mVarList) = Len(code)
  /\ mGlobalVarList \in Seq(Nat)
  /\ mFuncList \in Seq(FuncRec)
  /\ work \in Seq(TaskRec)
  /\ MiscType

Chain(s) == mScopeList[s].chain

(* A scope is searched first of all in its chain, the toplevel scope last, *)
(* and the toplevel scope is the global scope of all others.               *)
ScopeInv ==
  /\ 1 \in DOMAIN mScopeList
  /\ \A s \in DOMAIN mScopeList :
       /\ s \in Chain(s) /\ 1 \in Chain(s) /\ Chain(s) \subseteq 1 .. s
       /\ mScopeList[s].global = IF s = 1 THEN NULL ELSE 1
  /\ \A h \in DOMAIN handles : handles[h].scope \in DOMAIN mScopeList

(* The nodes a statement keeps for later name no handle. *)
LateNodes(nodes) ==
  /\ nodes \in Seq(NodeRec)
  /\ \A i \in DOMAIN nodes : nodes[i].op \in {"jump", "label"} /\ nodes[i].use = NULL

(* While the constants of an enum are elaborated, in a scope that has a    *)
(* name, the name stays free where the type will be declared.              *)
EnumWaits(w) ==
  /\ mScopeList[w.c.scope].name # NULL
  /\ w.arg \in DOMAIN mScopeList /\ w.arg # w.c.scope
  /\ \A h \in DOMAIN handles :
       ~(handles[h].scope = w.arg /\ handles[h].name = mScopeList[w.c.scope].name)

TaskOK(w) ==
  /\ w.c.scope \in DOMAIN mScopeList
  /\ w.c.block \in DOMAIN code
  /\ w.kind = "emit" => LateNodes(w.arg)
  /\ w.kind = "else" => w.arg \in Nat
  /\ w.kind = "enum" => EnumWaits(w)

(* The recursion ends with the list of the program; the constants of an    *)
(* enum hold no statement.                                                 *)
WorkInv ==
  /\ pc = "stmts" => work # <<>> /\ Last(work).kind = "list"
  /\ \A k \in DOMAIN work : k > 1 => work[k].kind # "enum"
  /\ \A w \in Range(work) : TaskOK(w)

IsLocal(h) == handles[h].type \in {"local", "param"}

(* No local variable is declared in the toplevel scope; one that a task in *)
(* progress can see is of the block that task adds to; and tasks that can  *)
(* declare variables for each other add to the same block.                 *)
LocalsInv ==
  /\ \A h \in DOMAIN handles : handles[h].scope = 1 => ~ IsLocal(h)
  /\ \A w \in Range(work), h \in DOMAIN handles :
       handles[h].scope \in Chain(w.c.scope) /\ IsLocal(h) => handles[h].block = w.c.block
  /\ \A v, w \in Range(work) :
       v.c.scope # 1 /\ v.c.scope \in Chain(w.c.scope) => v.c.block = w.c.block

(* What the code of a block touches exists, and is its own if local. *)
NodeOwned(node, b) ==
  \A h \in Touched(node) :
    h \in DOMAIN handles /\ (IsLocal(h) => handles[h].block = b)

CodeInv == \A b \in DOMAIN code : \A i \in DOMAIN code[b] : NodeOwned(code[b][i], b)

(* The blocks that handles name have a list of variables. *)
BlocksInv ==
  \A h \in DOMAIN handles :
    handles[h].type = "local" => handles[h].block \in DOMAIN mVarList

IInv == /\ TypeInv /\ ScopeInv /\ WorkInv /\ LocalsInv /\ CodeInv /\ BlocksInv
        /\ NamesUnique /\ VariableSlots /\ ArgumentSlots /\ FuncIndexExact

-----------------------------------------------------------------------------
(* The searches.                                                           *)

LEMMA NewestFacts ==
  ASSUME NEW n \in Nat, NEW H, H \subseteq 1 .. n, H # {}
  PROVE  Newest(H) \in H
<1>1. H \subseteq 0 .. n
  OBVIOUS
<1>2. \E h \in H : \A g \in H : g <= h
  BY <1>1, GreatestExists
<1> QED
  BY <1>2 DEF Newest

(* find_local finds a handle of the name in the scope, if there is one. *)
LEMMA FindLocalFacts ==
  ASSUME NEW hs, NEW S, hs \in Seq(S), NEW s, NEW n
  PROVE  /\ FindLocal(hs, s, n) = NULL <=> LocalHits(hs, s, n) = {}
         /\ FindLocal(hs, s, n) # NULL => FindLocal(hs, s, n) \in LocalHits(hs, s, n)
<1> DEFINE H == LocalHits(hs, s, n)
<1>1. Len(hs) \in Nat /\ DOMAIN hs = 1 .. Len(hs)
  BY LenProperties
<1>2. H \subseteq 1 .. Len(hs)
  BY <1>1 DEF LocalHits
<1>3. CASE H = {}
  BY <1>3 DEF FindLocal
<1>4. CASE H # {}
  <2> HIDE DEF H
  <2>1. Newest(H) \in H
    BY <1>1, <1>2, <1>4, NewestFacts
  <2>2. Newest(H) # NULL
    <3> DEFINE x == Newest(H)
    <3>1. x \in 1 .. Len(hs)
      BY <1>2, <2>1, Zenon
    <3> HIDE DEF x
    <3>2. x \in Nat
      BY <1>1, <3>1
    <3> QED
      BY <3>2, IrMgrAssumption DEF x
  <2> QED
    BY <1>4, <2>1, <2>2 DEF FindLocal, H
<1> QED
  BY <1>3, <1>4

(* find finds a handle of the name in the chain of the scope, if there is  *)
(* one there.                                                              *)
LEMMA FindFacts ==
  ASSUME ScopeInv, NEW hs, NEW S, hs \in Seq(S), NEW s \in DOMAIN mScopeList, s \in Nat, NEW n
  PROVE  LET h == Find(hs, s, n) IN
         /\ h = NULL <=> \A g \in DOMAIN hs : ~(hs[g].scope \in Chain(s) /\ hs[g].name = n)
         /\ h # NULL => h \in DOMAIN hs /\ hs[h].scope \in Chain(s) /\ hs[h].name = n
<1> DEFINE known == {t \in Chain(s) : LocalHits(hs, t, n) # {}}
           h == Find(hs, s, n)
<1>1. known \subseteq 1 .. s
  BY DEF ScopeInv
<1>2. h = IF known = {} THEN NULL ELSE FindLocal(hs, Newest(known), n)
  BY DEF Find, Chain
<1>3. CASE known = {}
  <2>1. \A t \in Chain(s) : LocalHits(hs, t, n) = {}
    BY <1>3
  <2>2. \A g \in DOMAIN hs : ~(hs[g].scope \in Chain(s) /\ hs[g].name = n)
    BY <2>1 DEF LocalHits
  <2> QED
    BY <1>2, <1>3, <2>2
<1>4. CASE known # {}
  <2> DEFINE t == Newest(known)
  <2>1. t \in known
    <3> HIDE DEF known
    <3> QED
      BY <1>1, <1>4, NewestFacts
  <2>2. t \in Chain(s) /\ LocalHits(hs, t, n) # {}
    BY <2>1
  <2> HIDE DEF known, t
  <2>3. h = FindLocal(hs, t, n)
    BY <1>2, <1>4 DEF t
  <2> HIDE DEF h
  <2>4. h # NULL /\ h \in LocalHits(hs, t, n)
    BY <2>2, <2>3, FindLocalFacts
  <2>5. h \in DOMAIN hs /\ hs[h].scope = t /\ hs[h].name = n
    BY <2>4 DEF LocalHits
  <2> QED
    BY <2>2, <2>4, <2>5 DEF h
<1> QED
  BY <1>3, <1>4

(* What an expression reads is in the chain of the scope it stands in. *)
LEMMA UseFacts ==
  ASSUME ScopeInv, NEW hs, NEW S, hs \in Seq(S), NEW s \in DOMAIN mScopeList, s \in Nat, NEW e
  PROVE  LET u == ElabExpr(hs, e, s).use IN
         u # NULL => u \in DOMAIN hs /\ hs[u].scope \in Chain(s)
<1>1. LET h == Find(hs, s, e.name) IN
      h # NULL => h \in DOMAIN hs /\ hs[h].scope \in Chain(s) /\ hs[h].name = e.name
  BY FindFacts
<1>2. ElabExpr(hs, e, s).use \in {NULL, Find(hs, s, e.name)}
  BY DEF ElabExpr
<1> QED
  BY <1>1, <1>2

-----------------------------------------------------------------------------
(* The recursion.                                                          *)

LEMMA TaskFacts ==
  ASSUME NEW kind \in TaskKinds, NEW c \in Ctx, NEW arg \in Arg
  PROVE  LET w == Task(kind, c, arg) IN
         w \in TaskRec /\ w.kind = kind /\ w.c = c /\ w.arg = arg
BY DEF Task, TaskRec

(* The call in progress, and what is left when it is done. *)
LEMMA RestFacts ==
  ASSUME IInv, pc = "stmts"
  PROVE  /\ Top \in TaskRec /\ Top \in Range(work) /\ TaskOK(Top)
         /\ C \in Ctx /\ C.scope \in DOMAIN mScopeList /\ C.block \in DOMAIN code
         /\ Rest \in Seq(TaskRec)
         /\ Rest # <<>> /\ Last(Rest).kind = "list"
         /\ Range(Rest) \subseteq Range(work)
         /\ \A k \in DOMAIN Rest : Rest[k].kind # "enum"
<1>1. work \in Seq(TaskRec) /\ work # <<>> /\ Last(work).kind = "list"
  BY DEF IInv, TypeInv, WorkInv
<1>2. Len(work) \in Nat \ {0} /\ DOMAIN work = 1 .. Len(work)
  BY <1>1, EmptySeq, LenProperties
<1>3. Top = work[1]
  BY <1>1 DEF Top
<1>4. Top \in TaskRec /\ Top \in Range(work)
  BY <1>1, <1>2, <1>3, ElementOfSeq DEF Range
<1>5. TaskOK(Top)
  BY <1>4 DEF IInv, WorkInv
<1>6. C \in Ctx /\ C.scope \in DOMAIN mScopeList /\ C.block \in DOMAIN code
  BY <1>4, <1>5 DEF C, TaskOK, TaskRec
<1>7. \A k \in DOMAIN work : k > 1 => work[k].kind # "enum"
  BY DEF IInv, WorkInv
<1>8. CASE Top.kind = "list"
  <2>1. Rest = work
    BY <1>8 DEF Rest
  <2>2. \A k \in DOMAIN work : work[k].kind # "enum"
    BY <1>2, <1>3, <1>7, <1>8
  <2> QED
    BY <1>1, <1>4, <1>5, <1>6, <2>1, <2>2
<1>9. CASE Top.kind # "list"
  <2>1. Rest = Tail(work)
    BY <1>9 DEF Rest
  <2>2. /\ Rest \in Seq(TaskRec)
        /\ Len(Rest) = Len(work) - 1
        /\ \A i \in 1 .. Len(Rest) : Rest[i] = work[i + 1]
    BY <1>1, <2>1, HeadTailProperties
  <2>3. DOMAIN Rest = 1 .. Len(Rest)
    BY <2>2, LenProperties
  <2>4. Len(work) > 1
    BY <1>1, <1>2, <1>3, <1>9 DEF Last
  <2>5. Rest # <<>>
    BY <1>2, <2>2, <2>4, EmptySeq
  <2>6. Last(Rest) = Last(work)
    BY <1>2, <2>2, <2>4 DEF Last
  <2>7. \A i \in DOMAIN Rest : i + 1 \in DOMAIN work /\ i + 1 > 1 /\ Rest[i] = work[i + 1]
    BY <1>2, <2>2, <2>3
  <2> HIDE DEF Rest, Top
  <2>8. Range(Rest) \subseteq Range(work)
    BY <2>7 DEF Range
  <2>9. \A k \in DOMAIN Rest : Rest[k].kind # "enum"
    BY <1>7, <2>7
  <2> QED
    BY <1>1, <1>4, <1>5, <1>6, <2>2, <2>5, <2>6, <2>8, <2>9
<1> QED
  BY <1>8, <1>9

(* New calls on top of what is left. *)
LEMMA PushFacts ==
  ASSUME IInv, pc = "stmts", NEW new \in Seq(TaskRec), work' = new \o Rest,
         \A k \in DOMAIN new : k > 1 => new[k].kind # "enum"
  PROVE  /\ work' \in Seq(TaskRec)
         /\ work' # <<>> /\ Last(work').kind = "list"
         /\ Range(work') \subseteq Range(new) \cup Range(work)
         /\ \A k \in DOMAIN work' : k > 1 => work'[k].kind # "enum"
         /\ \A w \in Range(work') : w \in Range(new) \/ (w \in Range(work) /\ w.kind # "enum")
<1> DEFINE R == Rest
<1>1. /\ R \in Seq(TaskRec) /\ R # <<>> /\ Last(R).kind = "list"
      /\ Range(R) \subseteq Range(work)
      /\ \A k \in DOMAIN R : R[k].kind # "enum"
  BY RestFacts
<1> HIDE DEF R
<1>2. IsSeq(new) /\ IsSeq(R)
  BY <1>1, SeqIsSeq
<1>3. /\ Len(work') = Len(new) + Len(R)
      /\ DOMAIN work' = 1 .. Len(new) + Len(R)
      /\ \A i \in 1 .. Len(new) : work'[i] = new[i]
      /\ \A i \in 1 .. Len(R) : work'[Len(new) + i] = R[i]
  BY <1>2, ConcatIsSeq DEF R
<1>4. work' \in Seq(TaskRec)
  BY <1>1, ConcatProperties DEF R
<1>5. /\ Len(new) \in Nat /\ DOMAIN new = 1 .. Len(new)
      /\ Len(R) \in Nat \ {0} /\ DOMAIN R = 1 .. Len(R)
  BY <1>1, LenProperties, EmptySeq
<1>6. work' # <<>>
  BY <1>3, <1>4, <1>5, EmptySeq
<1>7. Last(work') = Last(R)
  BY <1>3, <1>5 DEF Last
<1>8. ASSUME NEW k \in DOMAIN work'
      PROVE  \/ k \in DOMAIN new /\ work'[k] = new[k]
             \/ k - Len(new) \in DOMAIN R /\ work'[k] = R[k - Len(new)]
  <2>1. CASE k \in 1 .. Len(new)
    BY <1>3, <1>5, <2>1
  <2>2. CASE k \notin 1 .. Len(new)
    <3>1. k - Len(new) \in 1 .. Len(R) /\ Len(new) + (k - Len(new)) = k
      BY <1>3, <1>5, <2>2
    <3> QED
      BY <1>3, <1>5, <3>1
  <2> QED
    BY <2>1, <2>2
<1>9. \A k \in DOMAIN work' : work'[k] \in Range(new) \/ work'[k] \in Range(R)
  BY <1>8 DEF Range
<1>10. \A w \in Range(work') : w \in Range(new) \/ w \in Range(R)
  BY <1>9 DEF Range
<1>11. \A w \in Range(R) : w \in Range(work) /\ w.kind # "enum"
  BY <1>1 DEF Range
<1>12. \A k \in DOMAIN work' : k > 1 => work'[k].kind # "enum"
  BY <1>1, <1>8
<1> QED
  BY <1>1, <1>4, <1>6, <1>7, <1>10, <1>11, <1>12

-----------------------------------------------------------------------------
(* What a step does to the scopes and the handles: it adds to them.        *)
ScopeOK(s) ==
  /\ s \in Chain(s) /\ 1 \in Chain(s) /\ Chain(s) \subseteq 1 .. s
  /\ mScopeList[s].global = IF s = 1 THEN NULL ELSE 1

NewS == Len(mScopeList) + 1

ScopesGrow ==
  /\ mScopeList' \in Seq(ScopeRec)
  /\ \A s \in DOMAIN mScopeList : s \in DOMAIN mScopeList' /\ mScopeList'[s] = mScopeList[s]
  /\ \A s \in DOMAIN mScopeList' : s \in DOMAIN mScopeList \/ s = NewS
  /\ (\A s \in DOMAIN mScopeList : ScopeOK(s))'

HandlesGrow ==
  /\ handles' \in Seq(HandleRec)
  /\ \A h \in DOMAIN handles : h \in DOMAIN handles' /\ handles'[h] = handles[h]
  /\ \A h \in DOMAIN handles' : handles'[h].scope \in DOMAIN mScopeList'

LEMMA ScopeNumbers ==
  ASSUME TypeInv, ScopeInv
  PROVE  /\ Len(mScopeList) \in Nat \ {0} /\ DOMAIN mScopeList = 1 .. Len(mScopeList)
         /\ NewS \in Nat /\ NewS \notin DOMAIN mScopeList /\ NewS # 1
         /\ \A s \in DOMAIN mScopeList : s \in Nat /\ ScopeOK(s) /\ NewS \notin Chain(s)
<1>1. Len(mScopeList) \in Nat /\ DOMAIN mScopeList = 1 .. Len(mScopeList)
  BY LenProperties DEF TypeInv
<1>2. 1 \in DOMAIN mScopeList
  BY DEF ScopeInv
<1>3. NewS \in Nat /\ NewS \notin DOMAIN mScopeList /\ NewS # 1 /\ Len(mScopeList) # 0
  BY <1>1, <1>2 DEF NewS
<1>4. ASSUME NEW s \in DOMAIN mScopeList
      PROVE  s \in Nat /\ ScopeOK(s) /\ NewS \notin Chain(s)
  <2>1. s \in Nat /\ ScopeOK(s)
    BY <1>1 DEF ScopeInv, ScopeOK
  <2>2. NewS \notin 1 .. s
    BY <1>1 DEF NewS
  <2> QED
    BY <2>1, <2>2 DEF ScopeOK
<1> QED
  BY <1>1, <1>3, <1>4

LEMMA SameScopes ==
  ASSUME TypeInv, ScopeInv, mScopeList' = mScopeList
  PROVE  ScopesGrow
BY ScopeNumbers DEF TypeInv, ScopesGrow, ScopeOK, Chain

(* new_scope *)
LEMMA NewScopeGrows ==
  ASSUME TypeInv, ScopeInv, NEW s \in DOMAIN mScopeList, NEW n \in Opt(Name),
         mScopeList' = Append(mScopeList, NewScope(s, n))
  PROVE  /\ ScopesGrow
         /\ NewS \in DOMAIN mScopeList'
         /\ mScopeList'[NewS].chain = {NewS} \cup Chain(s)
         /\ mScopeList'[NewS].name = n
<1> DEFINE r == NewScope(s, n)
<1>1. /\ Len(mScopeList) \in Nat \ {0} /\ DOMAIN mScopeList = 1 .. Len(mScopeList)
      /\ s \in Nat /\ NewS \in Nat /\ ScopeOK(s) /\ s <= NewS
  BY ScopeNumbers DEF NewS
<1>2. mScopeList[s] \in ScopeRec
  BY <1>1, ElementOfSeq DEF TypeInv
<1>3. /\ r.chain = {NewS} \cup Chain(s)
      /\ r.name = n
      /\ r.global = 1
      /\ r \in ScopeRec
  <2>1. r.chain = {NewS} \cup Chain(s) /\ r.name = n
    BY DEF NewScope, NewS, Chain
  <2>2. r.global = 1
    BY <1>1, IrMgrAssumption DEF NewScope, ScopeOK
  <2>3. {NewS} \cup Chain(s) \in SUBSET Nat
    BY <1>1, <1>2 DEF ScopeRec, Chain
  <2> QED
    BY <2>1, <2>2, <2>3 DEF NewScope, ScopeRec, Opt
<1> HIDE DEF r
<1>4. /\ mScopeList' \in Seq(ScopeRec)
      /\ Len(mScopeList') = Len(mScopeList) + 1
      /\ \A i \in 1 .. Len(mScopeList) : mScopeList'[i] = mScopeList[i]
      /\ mScopeList'[Len(mScopeList) + 1] = r
  BY <1>3, AppendProperties DEF TypeInv, r
<1>5. DOMAIN mScopeList' = 1 .. NewS /\ mScopeList'[NewS] = r
  BY <1>4, LenProperties DEF NewS
<1>6. ASSUME NEW t \in DOMAIN mScopeList'
      PROVE  ScopeOK(t)' /\ (t \in DOMAIN mScopeList \/ t = NewS)
  <2>1. CASE t \in DOMAIN mScopeList
    <3>1. ScopeOK(t) /\ mScopeList'[t] = mScopeList[t]
      BY <1>1, <1>4, <2>1, ScopeNumbers
    <3> QED
      BY <2>1, <3>1 DEF ScopeOK, Chain
  <2>2. CASE t = NewS
    <3>1. Chain(s) \subseteq 1 .. NewS /\ 1 \in Chain(s) /\ NewS \in 1 .. NewS /\ NewS # 1
      BY <1>1, ScopeNumbers DEF ScopeOK
    <3> QED
      BY <1>3, <1>5, <2>2, <3>1 DEF ScopeOK, Chain
  <2> QED
    BY <1>1, <1>5, <2>1, <2>2 DEF NewS
<1>7. \A t \in DOMAIN mScopeList : t \in DOMAIN mScopeList' /\ mScopeList'[t] = mScopeList[t]
  BY <1>1, <1>4, <1>5 DEF NewS
<1>8. (\A t \in DOMAIN mScopeList : ScopeOK(t))'
  BY <1>6
<1>9. NewS \in DOMAIN mScopeList'
  BY <1>1, <1>5, ScopeNumbers
<1>10. ScopesGrow
  BY <1>4, <1>6, <1>7, <1>8 DEF ScopesGrow
<1> QED
  BY <1>3, <1>5, <1>9, <1>10

LEMMA SameHandles ==
  ASSUME TypeInv, ScopeInv, ScopesGrow, handles' = handles
  PROVE  HandlesGrow
BY DEF TypeInv, ScopeInv, ScopesGrow, HandlesGrow

LEMMA OneHandle ==
  ASSUME TypeInv, ScopeInv, ScopesGrow, NEW h \in HandleRec, h.scope \in DOMAIN mScopeList,
         handles' = Append(handles, h)
  PROVE  /\ HandlesGrow
         /\ Len(handles) + 1 \in Nat /\ Len(handles) + 1 \notin DOMAIN handles
         /\ DOMAIN handles' = DOMAIN handles \cup {Len(handles) + 1}
         /\ handles'[Len(handles) + 1] = h
<1>1. /\ handles' \in Seq(HandleRec)
      /\ Len(handles') = Len(handles) + 1
      /\ \A i \in 1 .. Len(handles) : handles'[i] = handles[i]
      /\ handles'[Len(handles) + 1] = h
  BY AppendProperties DEF TypeInv
<1>2. /\ Len(handles) \in Nat /\ DOMAIN handles = 1 .. Len(handles)
      /\ DOMAIN handles' = 1 .. Len(handles) + 1
  BY <1>1, LenProperties DEF TypeInv
<1>3. DOMAIN handles' = DOMAIN handles \cup {Len(handles) + 1}
  BY <1>2
<1>4. \A g \in DOMAIN handles' : handles'[g].scope \in DOMAIN mScopeList'
  BY <1>1, <1>2, <1>3 DEF ScopeInv, ScopesGrow
<1> QED
  BY <1>1, <1>2, <1>3, <1>4 DEF HandlesGrow

(* The arguments of a call made by the call in progress: its own scope and *)
(* block, a scope inside its own, or those of a function.                  *)
Fits(c) ==
  /\ c \in Ctx
  /\ \/ c.scope = C.scope /\ c.block = C.block
     \/ /\ c.scope = NewS /\ NewS \in DOMAIN mScopeList'
        /\ \/ c.block = C.block /\ mScopeList'[NewS].chain \subseteq {NewS} \cup Chain(C.scope)
           \/ mScopeList'[NewS].chain \subseteq {NewS, 1}

(* A local variable or parameter a step declares. *)
LocalFits(h, new) ==
  \/ h.scope = C.scope /\ C.scope # 1 /\ h.block = C.block
  \/ h.scope = NewS /\ \A w \in Range(new) : w.c.scope = NewS => w.c.block = h.block

(* The recursion and what its calls see, after a step that makes calls. *)
LEMMA WorkStep ==
  ASSUME IInv, pc = "stmts", ScopesGrow, HandlesGrow,
         \A b \in DOMAIN code : b \in DOMAIN code',
         NEW new \in Seq(TaskRec), work' = new \o Rest,
         \A k \in DOMAIN new : k > 1 => new[k].kind # "enum",
         \A w \in Range(new) : Fits(w.c) /\ TaskOK(w)',
         \A v, w \in Range(new) :
           v.c.scope = NewS /\ w.c.scope = NewS => v.c.block = w.c.block,
         \A h \in DOMAIN handles' \ DOMAIN handles :
           IsLocal(h)' => LocalFits(handles'[h], new)
  PROVE  ScopeInv' /\ WorkInv' /\ LocalsInv' /\ work' \in Seq(TaskRec)
<1>1. TypeInv /\ ScopeInv /\ WorkInv /\ LocalsInv
  BY DEF IInv
<1>2. /\ work' \in Seq(TaskRec)
      /\ work' # <<>> /\ Last(work').kind = "list"
      /\ \A k \in DOMAIN work' : k > 1 => work'[k].kind # "enum"
      /\ \A w \in Range(work') : w \in Range(new) \/ (w \in Range(work) /\ w.kind # "enum")
  BY PushFacts
<1>3. /\ C \in Ctx /\ C.scope \in DOMAIN mScopeList /\ C.block \in DOMAIN code
      /\ Top \in Range(work)
  BY RestFacts
<1>4. /\ NewS \notin DOMAIN mScopeList /\ NewS # 1
      /\ \A s \in DOMAIN mScopeList : ScopeOK(s) /\ NewS \notin Chain(s)
  BY <1>1, ScopeNumbers
<1>5. \A s \in DOMAIN mScopeList : s \in DOMAIN mScopeList' /\ mScopeList'[s].chain = Chain(s)
  BY DEF ScopesGrow, Chain
<1>6. ScopeInv'
  <2>1. 1 \in DOMAIN mScopeList'
    BY <1>1, <1>5 DEF ScopeInv
  <2>2. (\A s \in DOMAIN mScopeList : ScopeOK(s))'
    BY DEF ScopesGrow
  <2>3. (\A h \in DOMAIN handles : handles[h].scope \in DOMAIN mScopeList)'
    BY DEF HandlesGrow
  <2> QED
    BY <2>1, <2>2, <2>3 DEF ScopeInv, ScopeOK
<1>7. WorkInv'
  <2>1. ASSUME NEW w \in Range(work), w.kind # "enum" PROVE TaskOK(w)'
    <3>1. TaskOK(w)
      BY <1>1 DEF WorkInv
    <3> QED
      BY <1>5, <2>1, <3>1 DEF TaskOK, LateNodes
  <2>2. \A w \in Range(work') : TaskOK(w)'
    BY <1>2, <2>1
  <2> QED
    BY <1>2, <2>2 DEF WorkInv
<1>8. \A w \in Range(work) : w.c.scope \in DOMAIN mScopeList
  BY <1>1 DEF WorkInv, TaskOK
<1>9. \A h \in DOMAIN handles : IsLocal(h)' <=> IsLocal(h)
  BY DEF IsLocal, HandlesGrow
<1>10. ASSUME NEW h \in DOMAIN handles', handles'[h].scope = 1
       PROVE  ~ IsLocal(h)'
  <2>1. CASE h \in DOMAIN handles
    BY <1>1, <1>9, <1>10, <2>1 DEF LocalsInv, HandlesGrow
  <2>2. CASE h \notin DOMAIN handles
    BY <1>4, <1>10, <2>2 DEF LocalFits
  <2> QED
    BY <2>1, <2>2
<1>11. ASSUME NEW w \in Range(work'), NEW h \in DOMAIN handles',
              handles'[h].scope \in Chain(w.c.scope)', IsLocal(h)'
       PROVE  handles'[h].block = w.c.block
  <2> DEFINE s == handles'[h].scope
  <2>1. s # 1
    BY <1>10, <1>11
  <2>2. CASE h \in DOMAIN handles
    <3>1. IsLocal(h) /\ handles[h] = handles'[h] /\ s \in DOMAIN mScopeList
      BY <1>1, <1>9, <1>11, <2>2 DEF HandlesGrow, ScopeInv
    <3>2. CASE w \in Range(work)
      <4>1. s \in Chain(w.c.scope)
        BY <1>5, <1>8, <1>11, <3>2 DEF Chain
      <4> QED
        BY <1>1, <2>2, <3>1, <3>2, <4>1 DEF LocalsInv
    <3>3. CASE w \in Range(new)
      <4>1. Fits(w.c)
        BY <3>3
      <4>2. s # NewS
        BY <1>4, <3>1
      <4>3. w.c.block = C.block /\ s \in Chain(C.scope)
        BY <1>3, <1>5, <1>11, <2>1, <4>1, <4>2 DEF Fits, Chain
      <4>4. handles[h].block = Top.c.block
        BY <1>1, <1>3, <2>2, <3>1, <4>3 DEF LocalsInv, C
      <4> QED
        BY <3>1, <4>3, <4>4 DEF C
    <3> QED
      BY <1>2, <3>2, <3>3
  <2>3. CASE h \notin DOMAIN handles
    <3>1. LocalFits(handles'[h], new)
      BY <1>11, <2>3
    <3>2. CASE s = C.scope /\ C.scope # 1 /\ handles'[h].block = C.block
      <4>1. CASE w \in Range(work)
        <5>1. C.scope \in Chain(w.c.scope)
          BY <1>5, <1>8, <1>11, <3>2, <4>1 DEF Chain
        <5> QED
          BY <1>1, <1>3, <3>2, <4>1, <5>1 DEF LocalsInv, C
      <4>2. CASE w \in Range(new)
        BY <1>3, <1>4, <1>11, <3>2, <4>2 DEF Fits, Chain
      <4> QED
        BY <1>2, <4>1, <4>2
    <3>3. CASE s = NewS /\ \A v \in Range(new) : v.c.scope = NewS => v.c.block = handles'[h].block
      <4>1. CASE w \in Range(work)
        BY <1>4, <1>5, <1>8, <1>11, <3>3, <4>1 DEF Chain
      <4>2. CASE w \in Range(new)
        <5>1. w.c.scope = NewS
          BY <1>3, <1>4, <1>5, <1>11, <3>3, <4>2 DEF Fits, Chain
        <5> QED
          BY <3>3, <4>2, <5>1
      <4> QED
        BY <1>2, <4>1, <4>2
    <3> QED
      BY <3>1, <3>2, <3>3 DEF LocalFits
  <2> QED
    BY <2>2, <2>3
<1>12. ASSUME NEW v \in Range(work'), NEW w \in Range(work'),
              v.c.scope # 1, v.c.scope \in Chain(w.c.scope)'
       PROVE  v.c.block = w.c.block
  <2>1. CASE v \in Range(work) /\ w \in Range(work)
    <3>1. v.c.scope \in Chain(w.c.scope)
      BY <1>5, <1>8, <1>12, <2>1 DEF Chain
    <3> QED
      BY <1>1, <1>12, <2>1, <3>1 DEF LocalsInv
  <2>2. CASE v \in Range(work) /\ w \in Range(new)
    <3>1. v.c.scope \in DOMAIN mScopeList /\ v.c.scope # NewS
      BY <1>4, <1>8, <2>2
    <3>2. w.c.block = C.block /\ v.c.scope \in Chain(C.scope)
      BY <1>3, <1>5, <1>12, <2>2, <3>1 DEF Fits, Chain
    <3> QED
      BY <1>1, <1>3, <1>12, <2>2, <3>2 DEF LocalsInv, C
  <2>3. CASE v \in Range(new) /\ w \in Range(work)
    <3>1. v.c.scope \in Chain(w.c.scope) /\ NewS \notin Chain(w.c.scope)
      BY <1>4, <1>5, <1>8, <1>12, <2>3 DEF Chain
    <3>2. v.c.scope = C.scope /\ v.c.block = C.block
      BY <2>3, <3>1 DEF Fits
    <3> QED
      BY <1>1, <1>3, <1>12, <2>3, <3>1, <3>2 DEF LocalsInv, C
  <2>4. CASE v \in Range(new) /\ w \in Range(new)
    <3>1. Fits(v.c) /\ Fits(w.c)
      BY <2>4
    <3>2. CASE v.c.scope = NewS
      <4>1. w.c.scope = NewS
        BY <1>3, <1>4, <1>5, <1>12, <3>1, <3>2 DEF Fits, Chain
      <4> QED
        BY <2>4, <3>2, <4>1
    <3>3. CASE v.c.scope # NewS
      <4>1. v.c.scope = C.scope /\ v.c.block = C.block
        BY <3>1, <3>3 DEF Fits
      <4> QED
        BY <1>3, <1>4, <1>12, <3>1, <4>1 DEF Fits, Chain
    <3> QED
      BY <3>2, <3>3
  <2> QED
    BY <1>2, <2>1, <2>2, <2>3, <2>4
<1>13. LocalsInv'
  BY <1>10, <1>11, <1>12 DEF LocalsInv
<1> QED
  BY <1>2, <1>6, <1>7, <1>13

(* NodeOwned with the handles the step leaves. *)
OwnedNext(node, b) ==
  \A h \in Touched(node) :
    /\ h \in DOMAIN handles'
    /\ handles'[h].type \in {"local", "param"} => handles'[h].block = b

LEMMA OwnedGrows ==
  ASSUME HandlesGrow, NEW node, NEW b, NodeOwned(node, b)
  PROVE  OwnedNext(node, b)
BY DEF HandlesGrow, NodeOwned, IsLocal, OwnedNext

LEMMA CodeInvNext ==
  ASSUME \A b \in DOMAIN code' : \A i \in DOMAIN code'[b] : OwnedNext(code'[b][i], b)
  PROVE  CodeInv'
BY DEF CodeInv, NodeOwned, OwnedNext, IsLocal, Touched

LEMMA SameCode ==
  ASSUME TypeInv, CodeInv, HandlesGrow, code' = code
  PROVE  /\ code' \in Seq(Seq(NodeRec)) /\ Len(code') = Len(code)
         /\ DOMAIN code' = DOMAIN code /\ CodeInv'
<1>1. \A b \in DOMAIN code : \A i \in DOMAIN code[b] : OwnedNext(code[b][i], b)
  BY OwnedGrows DEF CodeInv
<1>2. CodeInv'
  BY <1>1, CodeInvNext
<1> QED
  BY <1>2 DEF TypeInv

(* IrCodeBlock::add_node *)
LEMMA AddNodesFacts ==
  ASSUME TypeInv, CodeInv, HandlesGrow, NEW b \in DOMAIN code, NEW nodes \in Seq(NodeRec),
         code' = [code EXCEPT ![b] = @ \o nodes],
         \A i \in DOMAIN nodes : OwnedNext(nodes[i], b)
  PROVE  /\ code' \in Seq(Seq(NodeRec)) /\ Len(code') = Len(code)
         /\ DOMAIN code' = DOMAIN code /\ CodeInv'
<1>1. code \in Seq(Seq(NodeRec)) /\ Len(code) \in Nat /\ DOMAIN code = 1 .. Len(code)
  BY LenProperties DEF TypeInv
<1>2. code[b] \in Seq(NodeRec)
  BY <1>1, ElementOfSeq
<1> DEFINE new == code[b] \o nodes
<1>3. /\ new \in Seq(NodeRec)
      /\ Len(new) = Len(code[b]) + Len(nodes)
      /\ \A i \in 1 .. Len(code[b]) + Len(nodes) :
           new[i] = IF i <= Len(code[b]) THEN code[b][i] ELSE nodes[i - Len(code[b])]
  BY <1>2, ConcatProperties
<1>4. /\ DOMAIN new = 1 .. Len(code[b]) + Len(nodes)
      /\ Len(code[b]) \in Nat /\ DOMAIN code[b] = 1 .. Len(code[b])
      /\ Len(nodes) \in Nat /\ DOMAIN nodes = 1 .. Len(nodes)
  BY <1>2, <1>3, LenProperties
<1> HIDE DEF new
<1>5. code' = [code EXCEPT ![b] = new]
  BY DEF new
<1>6. code' \in Seq(Seq(NodeRec)) /\ Len(code') = Len(code) /\ DOMAIN code' = DOMAIN code
  BY <1>1, <1>3, <1>5, ExceptSeq
<1>7. \A i \in DOMAIN new : OwnedNext(new[i], b)
  <2> TAKE i \in DOMAIN new
  <2>1. CASE i <= Len(code[b])
    <3>1. i \in DOMAIN code[b] /\ new[i] = code[b][i]
      BY <1>3, <1>4, <2>1
    <3>2. NodeOwned(code[b][i], b)
      BY <3>1 DEF CodeInv
    <3> QED
      BY <3>1, <3>2, OwnedGrows
  <2>2. CASE ~(i <= Len(code[b]))
    <3>1. i - Len(code[b]) \in DOMAIN nodes /\ new[i] = nodes[i - Len(code[b])]
      BY <1>3, <1>4, <2>2
    <3> QED
      BY <3>1
  <2> QED
    BY <2>1, <2>2
<1>8. ASSUME NEW a \in DOMAIN code', NEW i \in DOMAIN code'[a]
      PROVE  OwnedNext(code'[a][i], a)
  <2>1. CASE a = b
    <3>1. code'[a] = new
      BY <1>5, <1>6, <2>1
    <3> QED
      BY <1>7, <1>8, <2>1, <3>1
  <2>2. CASE a # b
    <3>1. code'[a] = code[a] /\ a \in DOMAIN code
      BY <1>5, <1>6, <2>2
    <3>2. NodeOwned(code[a][i], a)
      BY <1>8, <3>1 DEF CodeInv
    <3> QED
      BY <3>1, <3>2, OwnedGrows
  <2> QED
    BY <2>1, <2>2
<1> QED
  BY <1>6, <1>8, CodeInvNext

(* What no step disturbs that declares nothing. *)
LEMMA SameTables ==
  ASSUME TypeInv, ScopeInv, ScopesGrow, UNCHANGED <<handles, tables>>, BlocksInv, NamesUnique,
         VariableSlots, ArgumentSlots, FuncIndexExact
  PROVE  BlocksInv' /\ NamesUnique' /\ VariableSlots' /\ ArgumentSlots' /\ FuncIndexExact'
<1>1. BlocksInv' /\ VariableSlots' /\ ArgumentSlots' /\ FuncIndexExact'
  BY DEF tables, BlocksInv, VariableSlots, ArgumentSlots, FuncIndexExact
<1>2. \A h \in DOMAIN handles : mScopeList'[handles[h].scope] = mScopeList[handles[h].scope]
  BY DEF ScopeInv, ScopesGrow
<1>3. NamesUnique'
  BY <1>2 DEF NamesUnique
<1> QED
  BY <1>1, <1>3

(* A call of elab_stmt that a statement leaves to be made. *)
CallOK(w) ==
  /\ Fits(w.c) /\ w.kind # "enum" /\ (w.kind = "emit" => LateNodes(w.arg))
  /\ w.kind = "else" => w.arg \in Nat
  /\ w.c.scope = NewS => w.c.block = C.block

(* A step that adds code, scopes and calls of elab_stmt and declares       *)
(* nothing.                                                                *)
LEMMA RunPreserves ==
  ASSUME IInv, pc = "stmts", ScopesGrow, NEW new \in Seq(TaskRec), NEW nodes \in Seq(NodeRec),
         work' = new \o Rest,
         \A w \in Range(new) : CallOK(w),
         code' = code \/ code' = [code EXCEPT ![C.block] = @ \o nodes],
         \A i \in DOMAIN nodes : NodeOwned(nodes[i], C.block),
         UNCHANGED <<handles, tables>>, MiscType'
  PROVE  IInv'
<1>1. /\ TypeInv /\ ScopeInv /\ CodeInv /\ BlocksInv /\ NamesUnique /\ VariableSlots /\ ArgumentSlots
      /\ FuncIndexExact
  BY DEF IInv
<1>2. HandlesGrow
  BY <1>1, SameHandles
<1>3. C.block \in DOMAIN code /\ C.scope \in DOMAIN mScopeList
  BY RestFacts
<1>4. \A i \in DOMAIN nodes : OwnedNext(nodes[i], C.block)
  BY <1>2, OwnedGrows
<1>5. /\ code' \in Seq(Seq(NodeRec)) /\ Len(code') = Len(code)
      /\ DOMAIN code' = DOMAIN code /\ CodeInv'
  <2> DEFINE b == C.block
  <2>1. CASE code' = code
    BY <1>1, <1>2, <2>1, SameCode
  <2>2. CASE code' = [code EXCEPT ![b] = @ \o nodes]
    <3>1. b \in DOMAIN code /\ \A i \in DOMAIN nodes : OwnedNext(nodes[i], b)
      BY <1>3, <1>4
    <3> HIDE DEF b
    <3> QED
      BY <1>1, <1>2, <2>2, <3>1, AddNodesFacts
  <2> QED
    BY <2>1, <2>2
<1>6. BlocksInv' /\ NamesUnique' /\ VariableSlots' /\ ArgumentSlots' /\ FuncIndexExact'
  BY <1>1, SameTables
<1>7. \A w \in Range(new) : TaskOK(w)'
  <2> TAKE w \in Range(new)
  <2>1. CallOK(w) /\ Fits(w.c)
    BY DEF CallOK
  <2>2. w.c.scope \in DOMAIN mScopeList'
    BY <1>3, <2>1 DEF Fits, ScopesGrow
  <2>3. w.c.block \in DOMAIN code'
    BY <1>3, <1>5, <2>1 DEF Fits, CallOK
  <2>4. /\ w.kind # "enum" /\ (w.kind = "emit" => LateNodes(w.arg))
        /\ w.kind = "else" => w.arg \in Nat
    BY <2>1 DEF CallOK
  <2> QED
    BY <2>2, <2>3, <2>4 DEF TaskOK, LateNodes
<1>8. ScopeInv' /\ WorkInv' /\ LocalsInv' /\ work' \in Seq(TaskRec)
  <2>1. \A k \in DOMAIN new : k > 1 => new[k].kind # "enum"
    BY DEF Range, CallOK
  <2>2. \A h \in DOMAIN handles' \ DOMAIN handles : FALSE
    OBVIOUS
  <2>3. \A v, w \in Range(new) :
           v.c.scope = NewS /\ w.c.scope = NewS => v.c.block = w.c.block
    BY DEF CallOK
  <2>4. \A w \in Range(new) : Fits(w.c)
    BY DEF CallOK
  <2> QED
    BY <1>2, <1>5, <1>7, <2>1, <2>2, <2>3, <2>4, WorkStep
<1>9. TypeInv'
  BY <1>1, <1>5, <1>8 DEF TypeInv, ScopesGrow, tables
<1> QED
  BY <1>5, <1>6, <1>8, <1>9 DEF IInv

(* The same for a statement that is done. *)
LEMMA DonePreserves ==
  ASSUME IInv, pc = "stmts", ScopesGrow, NEW nodes \in Seq(NodeRec), work' = Rest,
         code' = code \/ code' = [code EXCEPT ![C.block] = @ \o nodes],
         \A i \in DOMAIN nodes : NodeOwned(nodes[i], C.block),
         UNCHANGED <<handles, tables>>, MiscType'
  PROVE  IInv'
<1> DEFINE new == <<>>
<1>1. new \in Seq(TaskRec) /\ Range(new) = {}
  BY EmptySeq DEF Range
<1>2. work' = new \o Rest
  BY RestFacts, ConcatEmptySeq
<1> HIDE DEF new
<1> QED
  BY <1>1, <1>2, RunPreserves

(* A step that leaves code and declarations alone, and the recursion or    *)
(* the walk as a whole.                                                    *)
LEMMA StillPreserves ==
  ASSUME IInv, UNCHANGED <<mScopeList, handles, code, tables, work>>, MiscType',
         pc' = "stmts" => pc = "stmts"
  PROVE  IInv'
<1>1. TypeInv'
  BY DEF IInv, TypeInv, tables
<1>2. ScopeInv' /\ LocalsInv' /\ CodeInv' /\ BlocksInv'
  BY DEF IInv, ScopeInv, LocalsInv, CodeInv, BlocksInv, Chain, IsLocal, NodeOwned, tables,
         Touched
<1>3. WorkInv'
  BY DEF IInv, WorkInv, TaskOK, EnumWaits, LateNodes
<1>4. NamesUnique' /\ VariableSlots' /\ ArgumentSlots' /\ FuncIndexExact'
  BY DEF IInv, NamesUnique, VariableSlots, ArgumentSlots, FuncIndexExact, tables
<1> QED
  BY <1>1, <1>2, <1>3, <1>4 DEF IInv

LEMMA InitIInv == Init => IInv
<1> SUFFICES ASSUME Init PROVE IInv
  OBVIOUS
<1> DEFINE c == [scope |-> 1, start |-> NULL, end |-> NULL, block |-> 1]
           w == Task("list", c, NULL)
           sc == [global |-> NULL, chain |-> {1}, name |-> NULL]
<1>1. /\ mScopeList \in Seq(ScopeRec) /\ DOMAIN mScopeList = {1} /\ mScopeList[1] = sc
  <2>1. sc \in ScopeRec
    BY DEF ScopeRec, Opt
  <2> HIDE DEF sc
  <2>2. mScopeList = <<sc>>
    BY DEF Init, sc
  <2> QED
    BY <2>1, <2>2
<1>2. /\ handles \in Seq(HandleRec) /\ DOMAIN handles = {}
      /\ labels \in Seq(LabelRec) /\ mGlobalVarList \in Seq(Nat)
      /\ mFuncList \in Seq(FuncRec) /\ DOMAIN mFuncList = {}
  BY EmptySeq, EmptyIsSeq DEF Init
<1>3. /\ code \in Seq(Seq(NodeRec)) /\ mVarList \in Seq(Seq(Nat)) /\ Len(mVarList) = Len(code)
      /\ DOMAIN code = {1} /\ code[1] = <<>>
  BY EmptySeq DEF Init
<1>4. left \in Budget
  <2>1. left \in Sublanguage
    BY IrMgrAssumption DEF Init
  <2>2. Nat \subseteq Int /\ 0 .. MaxParams \subseteq Nat
    BY DEF MaxParams
  <2> HIDE DEF MaxParams
  <2> QED
    BY <2>1, <2>2 DEF Sublanguage, Budget, Opt
<1>5. w \in TaskRec /\ w.c = c /\ w.kind = "list"
  <2>1. c \in Ctx
    BY DEF Ctx, Opt
  <2> HIDE DEF c
  <2> QED
    BY <2>1, TaskFacts DEF Arg, TaskKinds
<1>6. work = <<w>>
  BY DEF Init
<1> HIDE DEF w
<1>7. work \in Seq(TaskRec) /\ Range(work) = {w} /\ DOMAIN work = {1} /\ Last(work) = w
        /\ work # <<>>
  BY <1>5, <1>6 DEF Last, Range
<1>8. TypeInv
  BY <1>1, <1>2, <1>3, <1>4, <1>7 DEF TypeInv, MiscType
<1>9. ScopeInv
  BY <1>1, <1>2 DEF ScopeInv, Chain
<1>10. WorkInv
  BY <1>1, <1>3, <1>5, <1>7 DEF WorkInv, TaskOK
<1>11. LocalsInv
  BY <1>2, <1>5, <1>7 DEF LocalsInv
<1>12. CodeInv
  BY <1>3, EmptyIsSeq DEF CodeInv
<1>13. BlocksInv /\ NamesUnique /\ VariableSlots /\ ArgumentSlots /\ FuncIndexExact
  BY <1>2 DEF BlocksInv, NamesUnique, VariableSlots, ArgumentSlots, FuncIndexExact
<1> QED
  BY <1>8, <1>9, <1>10, <1>11, <1>12, <1>13 DEF IInv

-----------------------------------------------------------------------------
(* Statements that declare nothing.                                        *)

LEMMA OneLessType ==
  ASSUME left \in Budget
  PROVE  OneLess \in Budget
<1>1. left.stmts - 1 \in Int
  BY DEF Budget
<1> QED
  BY <1>1 DEF Budget, OneLess

LEMMA HereFacts ==
  ASSUME IInv, NEW kind, Here(kind)
  PROVE  pc = "stmts" /\ left' \in Budget
BY OneLessType DEF Here, Running, IInv, TypeInv, MiscType

LEMMA GoingFacts ==
  ASSUME IInv, NEW kind, Going(kind)
  PROVE  /\ pc = "stmts" /\ left' \in Budget /\ Top.kind = kind
         /\ kind # "list" => Rest = Tail(work)
BY DEF Going, Running, IInv, TypeInv, MiscType, Rest

(* A handle the statement can see may be used in its block. *)
LEMMA Seen ==
  ASSUME IInv, pc = "stmts", NEW h \in DOMAIN handles, handles[h].scope \in Chain(C.scope)
  PROVE  IsLocal(h) => handles[h].block = C.block
BY RestFacts DEF IInv, LocalsInv, C

Usable(h) == h \in DOMAIN handles /\ h \in Nat /\ (IsLocal(h) => handles[h].block = C.block)

LEMMA FoundUsable ==
  ASSUME IInv, pc = "stmts", NEW n, Find(handles, C.scope, n) # NULL
  PROVE  Usable(Find(handles, C.scope, n))
<1> DEFINE h == Find(handles, C.scope, n)
           s == C.scope
<1>1. ScopeInv /\ TypeInv
  BY DEF IInv
<1>2. handles \in Seq(HandleRec) /\ s \in DOMAIN mScopeList /\ s \in Nat
  BY <1>1, RestFacts, ScopeNumbers DEF TypeInv
<1> HIDE DEF s
<1>3. h \in DOMAIN handles /\ handles[h].scope \in Chain(s)
  BY <1>1, <1>2, FindFacts DEF s
<1> HIDE DEF h
<1>4. h \in Nat
  BY <1>2, <1>3, LenProperties
<1>5. IsLocal(h) => handles[h].block = C.block
  BY <1>3, Seen DEF s
<1> QED
  BY <1>3, <1>4, <1>5 DEF Usable, h

LEMMA UseUsable ==
  ASSUME IInv, pc = "stmts", NEW e
  PROVE  UseOf(e) \in Opt(Nat) /\ (UseOf(e) # NULL => Usable(UseOf(e)))
<1>1. UseOf(e) \in {NULL, Find(handles, C.scope, e.name)}
  BY DEF UseOf, ElabExpr
<1>2. Find(handles, C.scope, e.name) # NULL => Usable(Find(handles, C.scope, e.name))
  BY FoundUsable
<1> QED
  BY <1>1, <1>2 DEF Opt, Usable

LEMMA NodeFacts ==
  ASSUME NEW op \in Ops, NEW ref \in Nat \cup {NULL, WILD}, NEW use \in Opt(Nat),
         op \in {"store", "inplace"} => Usable(ref), use # NULL => Usable(use)
  PROVE  Node(op, ref, use) \in NodeRec /\ NodeOwned(Node(op, ref, use), C.block)
<1> DEFINE node == Node(op, ref, use)
<1>1. node \in NodeRec /\ node.op = op /\ node.ref = ref /\ node.use = use
  BY DEF Node, NodeRec
<1> HIDE DEF node
<1>2. \A h \in Touched(node) : Usable(h)
  BY <1>1 DEF Touched
<1> QED
  BY <1>1, <1>2 DEF node, NodeOwned, Usable

(* Nodes that code of the block in progress may have. *)
Good(nodes) ==
  nodes \in Seq(NodeRec) /\ \A i \in DOMAIN nodes : NodeOwned(nodes[i], C.block)

LEMMA GoodOne ==
  ASSUME NEW a \in NodeRec, NodeOwned(a, C.block)
  PROVE  Good(<<a>>)
BY DEF Good

LEMMA GoodTwo ==
  ASSUME NEW a \in NodeRec, NodeOwned(a, C.block), NEW b \in NodeRec, NodeOwned(b, C.block)
  PROVE  Good(<<a, b>>)
<1>1. <<a, b>> \in Seq(NodeRec) /\ DOMAIN <<a, b>> = {1, 2}
  OBVIOUS
<1> QED
  BY <1>1 DEF Good

(* Jumps, labels and branches touch no more than their condition. *)
LEMMA PlainNode ==
  ASSUME NEW op \in Ops \ {"store", "inplace"}, NEW ref \in Nat \cup {NULL, WILD}
  PROVE  Node(op, ref, NULL) \in NodeRec /\ NodeOwned(Node(op, ref, NULL), C.block)
BY NodeFacts DEF Opt

LEMMA CondNode ==
  ASSUME IInv, pc = "stmts", NEW op \in Ops \ {"store", "inplace"},
         NEW ref \in Nat \cup {NULL, WILD}, NEW e
  PROVE  Node(op, ref, UseOf(e)) \in NodeRec /\ NodeOwned(Node(op, ref, UseOf(e)), C.block)
BY NodeFacts, UseUsable

LEMMA AppendsPreserves ==
  ASSUME IInv, pc = "stmts", left' \in Budget, NEW nodes, Good(nodes), Appends(nodes)
  PROVE  IInv'
<1>1. TypeInv /\ ScopeInv
  BY DEF IInv
<1>2. /\ mScopeList' = mScopeList /\ work' = Rest /\ UNCHANGED <<handles, tables>>
      /\ labels' = labels /\ code' = [code EXCEPT ![C.block] = @ \o nodes]
  BY DEF Appends, AddNodes
<1>3. ScopesGrow /\ MiscType'
  BY <1>1, <1>2, SameScopes DEF TypeInv, MiscType
<1> QED
  BY <1>2, <1>3, DonePreserves DEF Good

LEMMA FailPreserves ==
  ASSUME IInv, pc = "stmts", left' \in Budget, ScopesGrow, Fail
  PROVE  IInv'
<1>1. MiscType'
  BY DEF IInv, TypeInv, MiscType, Fail
<1>2. <<>> \in Seq(NodeRec) /\ DOMAIN <<>> = {}
  BY EmptySeq, EmptyIsSeq
<1> DEFINE nodes == <<>>
<1>3. nodes \in Seq(NodeRec) /\ \A i \in DOMAIN nodes : NodeOwned(nodes[i], C.block)
  BY <1>2
<1> HIDE DEF nodes
<1> QED
  BY <1>1, <1>3, DonePreserves DEF Fail

LEMMA AbortPreserves ==
  ASSUME IInv, left' \in Budget, Abort
  PROVE  IInv'
BY StillPreserves DEF Abort, IInv, TypeInv, MiscType

LEMMA SameScopesIInv ==
  ASSUME IInv, mScopeList' = mScopeList
  PROVE  ScopesGrow
BY SameScopes DEF IInv

(* One, two or three calls on top of what is left. *)
LEMMA PushPreserves ==
  ASSUME IInv, pc = "stmts", left' \in Budget, labels' \in Seq(LabelRec), ScopesGrow,
         NEW new \in Seq(TaskRec), NEW nodes, Good(nodes), work' = new \o Rest,
         \A w \in Range(new) : CallOK(w),
         code' = code \/ code' = [code EXCEPT ![C.block] = @ \o nodes],
         UNCHANGED <<handles, tables>>
  PROVE  IInv'
BY RunPreserves DEF Good, MiscType

LEMMA GoodEmpty == Good(<<>>)
BY EmptySeq, EmptyIsSeq DEF Good

(* A call in the scope of the statement, or in one made for it. *)
LEMMA FitsHere ==
  ASSUME IInv, pc = "stmts", NEW c \in Ctx, c.scope = C.scope, c.block = C.block
  PROVE  Fits(c) /\ (c.scope = NewS => c.block = C.block)
BY DEF Fits

-----------------------------------------------------------------------------
LEMMA BreakPreserves ==
  ASSUME IInv, Break
  PROVE  IInv'
<1>1. pc = "stmts" /\ left' \in Budget /\ ScopesGrow
  BY HereFacts, SameScopesIInv DEF Break
<1>2. CASE C.end = NULL /\ Fail
  BY <1>1, <1>2, FailPreserves
<1>3. CASE C.end # NULL /\ Appends(<<Node("break", C.end, NULL)>>)
  <2>1. C.end \in Nat \cup {NULL, WILD}
    BY <1>1, RestFacts DEF Ctx, Opt
  <2>2. Good(<<Node("break", C.end, NULL)>>)
    BY <2>1, PlainNode, GoodOne DEF Ops
  <2> QED
    BY <1>1, <1>3, <2>2, AppendsPreserves
<1> QED
  BY <1>2, <1>3 DEF Break

LEMMA ContinuePreserves ==
  ASSUME IInv, Continue
  PROVE  IInv'
<1>1. pc = "stmts" /\ left' \in Budget /\ ScopesGrow
  BY HereFacts, SameScopesIInv DEF Continue
<1>2. CASE C.start = NULL /\ Fail
  BY <1>1, <1>2, FailPreserves
<1>3. CASE C.start # NULL /\ Appends(<<Node("continue", C.start, NULL)>>)
  <2>1. C.start \in Nat \cup {NULL, WILD}
    BY <1>1, RestFacts DEF Ctx, Opt
  <2>2. Good(<<Node("continue", C.start, NULL)>>)
    BY <2>1, PlainNode, GoodOne DEF Ops
  <2> QED
    BY <1>1, <1>3, <2>2, AppendsPreserves
<1> QED
  BY <1>2, <1>3 DEF Continue

LEMMA EmitPreserves ==
  ASSUME IInv, Emit
  PROVE  IInv'
<1>1. pc = "stmts" /\ left' \in Budget /\ Top.kind = "emit"
  BY GoingFacts DEF Emit
<1>2. LateNodes(Top.arg)
  BY <1>1, RestFacts DEF TaskOK
<1>3. \A i \in DOMAIN Top.arg : Touched(Top.arg[i]) = {}
  BY <1>2 DEF LateNodes, Touched
<1>4. Good(Top.arg)
  BY <1>2, <1>3 DEF Good, NodeOwned, LateNodes
<1> QED
  BY <1>1, <1>4, AppendsPreserves DEF Emit

LEMMA IncrDecrPreserves ==
  ASSUME IInv, NEW n, IncrDecr(n)
  PROVE  IInv'
<1> DEFINE h == Find(handles, C.scope, n)
<1>1. pc = "stmts" /\ left' \in Budget /\ ScopesGrow
  BY HereFacts, SameScopesIInv DEF IncrDecr
<1>2. CASE h = NULL /\ Fail
  BY <1>1, <1>2, FailPreserves
<1>3. CASE h # NULL /\ Appends(<<Node("inplace", h, NULL)>>)
  <2>1. Usable(h)
    BY <1>1, <1>3, FoundUsable
  <2> HIDE DEF h
  <2>2. Node("inplace", h, NULL) \in NodeRec /\ NodeOwned(Node("inplace", h, NULL), C.block)
    BY <2>1, NodeFacts DEF Ops, Opt, Usable
  <2> QED
    BY <1>1, <1>3, <2>2, GoodOne, AppendsPreserves
<1> QED
  BY <1>2, <1>3 DEF IncrDecr

LEMMA AssignmentPreserves ==
  ASSUME IInv, NEW n, NEW e, Assignment(n, e)
  PROVE  IInv'
<1> DEFINE h == Find(handles, C.scope, n)
<1>1. pc = "stmts" /\ left' \in Budget /\ ScopesGrow
  BY HereFacts, SameScopesIInv DEF Assignment
<1>2. CASE Fail
  BY <1>1, <1>2, FailPreserves
<1>3. CASE h # NULL /\ Appends(<<Node("store", h, UseOf(e))>>)
  <2>1. Usable(h)
    BY <1>1, <1>3, FoundUsable
  <2> HIDE DEF h
  <2>2. /\ Node("store", h, UseOf(e)) \in NodeRec
        /\ NodeOwned(Node("store", h, UseOf(e)), C.block)
    BY <1>1, <2>1, NodeFacts, UseUsable DEF Ops, Opt, Usable
  <2> QED
    BY <1>1, <1>3, <2>2, GoodOne, AppendsPreserves
<1>4. CASE Abort
  BY <1>1, <1>4, AbortPreserves
<1> QED
  BY <1>2, <1>3, <1>4 DEF Assignment

(* A null node or a return without a value, after a failed expression. *)
LEMMA PlainDone ==
  ASSUME IInv, pc = "stmts", left' \in Budget, NEW op \in {"null", "return"},
         AddNodes(<<Node(op, NULL, NULL)>>), work' = Rest,
         UNCHANGED <<mScopeList, handles, labels, tables>>
  PROVE  IInv'
<1>1. Good(<<Node(op, NULL, NULL)>>)
  BY PlainNode, GoodOne DEF Ops
<1>2. ScopesGrow /\ MiscType'
  BY SameScopesIInv DEF IInv, TypeInv, MiscType
<1> QED
  BY <1>1, <1>2, DonePreserves DEF Good, AddNodes

LEMMA ExprStmtPreserves ==
  ASSUME IInv, NEW e, ExprStmt(e)
  PROVE  IInv'
<1>1. pc = "stmts" /\ left' \in Budget
  BY HereFacts DEF ExprStmt
<1>2. CASE Appends(<<Node("expr", NULL, UseOf(e))>>)
  <2>1. Good(<<Node("expr", NULL, UseOf(e))>>)
    BY <1>1, CondNode, GoodOne DEF Ops
  <2> QED
    BY <1>1, <1>2, <2>1, AppendsPreserves
<1>3. CASE /\ AddNodes(<<Node("null", NULL, NULL)>>) /\ work' = Rest
           /\ UNCHANGED <<mScopeList, handles, labels, tables>>
  BY <1>1, <1>3, PlainDone
<1>4. CASE Abort
  BY <1>1, <1>4, AbortPreserves
<1> QED
  BY <1>2, <1>3, <1>4 DEF ExprStmt

LEMMA ReturnPreserves ==
  ASSUME IInv, NEW e, Return(e)
  PROVE  IInv'
<1>1. pc = "stmts" /\ left' \in Budget
  BY HereFacts DEF Return
<1>2. CASE Appends(<<Node("return", NULL, UseOf(e))>>)
  <2>1. Good(<<Node("return", NULL, UseOf(e))>>)
    BY <1>1, CondNode, GoodOne DEF Ops
  <2> QED
    BY <1>1, <1>2, <2>1, AppendsPreserves
<1>3. CASE /\ AddNodes(<<Node("return", NULL, NULL)>>) /\ work' = Rest
           /\ UNCHANGED <<mScopeList, handles, labels, tables>>
  BY <1>1, <1>3, PlainDone
<1>4. CASE Abort
  BY <1>1, <1>4, AbortPreserves
<1> QED
  BY <1>2, <1>3, <1>4 DEF Return

-----------------------------------------------------------------------------
(* Statements with statements inside.                                      *)

LEMMA TwoTasks ==
  ASSUME NEW v \in TaskRec, NEW w \in TaskRec
  PROVE  <<v, w>> \in Seq(TaskRec) /\ Range(<<v, w>>) = {v, w}
<1>1. <<v, w>> \in Seq(TaskRec) /\ DOMAIN <<v, w>> = {1, 2}
  OBVIOUS
<1> QED
  BY <1>1 DEF Range

LEMMA OneTask ==
  ASSUME NEW w \in TaskRec
  PROVE  <<w>> \in Seq(TaskRec) /\ Range(<<w>>) = {w}
<1>1. <<w>> \in Seq(TaskRec) /\ DOMAIN <<w>> = {1}
  OBVIOUS
<1> QED
  BY <1>1 DEF Range

(* A call with the scope and block of the statement. *)
LEMMA TaskHere ==
  ASSUME IInv, pc = "stmts", NEW kind \in TaskKinds \ {"enum"}, NEW c \in Ctx,
         c.scope = C.scope, c.block = C.block, NEW arg \in Arg,
         kind = "emit" => LateNodes(arg), kind = "else" => arg \in Nat
  PROVE  LET w == Task(kind, c, arg) IN
         w \in TaskRec /\ CallOK(w)
<1> DEFINE w == Task(kind, c, arg)
<1>1. w \in TaskRec /\ w.kind = kind /\ w.c = c /\ w.arg = arg
  BY TaskFacts
<1> HIDE DEF w
<1>2. Fits(c) /\ (c.scope = NewS => c.block = C.block)
  BY FitsHere
<1> QED
  BY <1>1, <1>2 DEF w, CallOK

(* A call in a scope inside that of the statement. *)
LEMMA TaskInside ==
  ASSUME IInv, pc = "stmts", NEW kind \in {"list", "single", "forhead"}, NEW c \in Ctx,
         c.scope = NewS, c.block = C.block,
         NewS \in DOMAIN mScopeList', mScopeList'[NewS].chain = {NewS} \cup Chain(C.scope)
  PROVE  LET w == Task(kind, c, NULL) IN
         w \in TaskRec /\ CallOK(w)
<1> DEFINE w == Task(kind, c, NULL)
<1>1. w \in TaskRec /\ w.kind = kind /\ w.c = c /\ w.arg = NULL
  BY TaskFacts DEF TaskKinds, Arg
<1> HIDE DEF w
<1>2. Fits(c)
  BY DEF Fits
<1> QED
  BY <1>1, <1>2 DEF w, CallOK

LEMMA InnerScope ==
  ASSUME IInv, pc = "stmts", mScopeList' = Append(mScopeList, NewScope(C.scope, NULL))
  PROVE  /\ ScopesGrow
         /\ NewS \in DOMAIN mScopeList' /\ NewS \in Nat
         /\ mScopeList'[NewS].chain = {NewS} \cup Chain(C.scope)
<1>1. TypeInv /\ ScopeInv /\ C.scope \in DOMAIN mScopeList
  BY RestFacts DEF IInv
<1> QED
  BY <1>1, NewScopeGrows, ScopeNumbers DEF Opt

LEMMA EnterBlockPreserves ==
  ASSUME IInv, pc = "stmts", left' \in Budget, EnterBlock(C, Rest)
  PROVE  IInv'
<1> DEFINE c == [C EXCEPT !.scope = Len(mScopeList) + 1]
           w == Task("list", c, NULL)
<1>1. /\ ScopesGrow /\ NewS \in DOMAIN mScopeList' /\ NewS \in Nat
      /\ mScopeList'[NewS].chain = {NewS} \cup Chain(C.scope)
  BY InnerScope DEF EnterBlock
<1>2. c \in Ctx /\ c.scope = NewS /\ c.block = C.block
  BY <1>1, RestFacts DEF Ctx, NewS
<1>3. work' = <<w>> \o Rest
  BY DEF EnterBlock
<1> HIDE DEF c
<1>4. w \in TaskRec /\ CallOK(w)
  BY <1>1, <1>2, TaskInside
<1> HIDE DEF w
<1>5. <<w>> \in Seq(TaskRec) /\ Range(<<w>>) = {w}
  BY <1>4, OneTask
<1>6. code' = code /\ UNCHANGED <<handles, tables>> /\ labels' \in Seq(LabelRec)
  BY DEF EnterBlock, IInv, TypeInv, MiscType
<1> QED
  BY <1>1, <1>3, <1>4, <1>5, <1>6, GoodEmpty, PushPreserves

LEMMA BlockPreserves ==
  ASSUME IInv, Block
  PROVE  IInv'
BY HereFacts, EnterBlockPreserves DEF Block

LEMMA BodyPreserves ==
  ASSUME IInv, Body
  PROVE  IInv'
<1>1. pc = "stmts" /\ left' \in Budget /\ Rest = Tail(work)
  BY GoingFacts DEF Body
<1> QED
  BY <1>1, EnterBlockPreserves DEF Body

LEMMA EndListPreserves ==
  ASSUME IInv, EndList
  PROVE  IInv'
<1>1. pc = "stmts" /\ left' \in Budget
  BY GoingFacts DEF EndList
<1>2. /\ UNCHANGED <<mScopeList, handles, labels, code, tables>> /\ work' = Tail(work)
      /\ pc' = IF Len(work) = 1 THEN "resolve" ELSE pc
  BY DEF EndList
<1>3. work \in Seq(TaskRec) /\ work # <<>> /\ Last(work).kind = "list"
  BY <1>1 DEF IInv, TypeInv, WorkInv
<1>4. /\ Len(work) \in Nat \ {0} /\ DOMAIN work = 1 .. Len(work)
      /\ work' \in Seq(TaskRec) /\ Len(work') = Len(work) - 1
      /\ \A i \in 1 .. Len(work') : work'[i] = work[i + 1]
  BY <1>2, <1>3, EmptySeq, LenProperties, HeadTailProperties
<1>5. DOMAIN work' = 1 .. Len(work')
  BY <1>4, LenProperties
<1>6. \A i \in DOMAIN work' : i + 1 \in DOMAIN work /\ work'[i] = work[i + 1] /\ i + 1 > 1
  BY <1>4, <1>5
<1>7. Range(work') \subseteq Range(work)
  BY <1>6 DEF Range
<1>8. \A k \in DOMAIN work' : work'[k].kind # "enum"
  BY <1>6 DEF IInv, WorkInv
<1>9. pc' = "stmts" => work' # <<>> /\ Last(work').kind = "list"
  <2>1. CASE Len(work) = 1
    BY <1>2, <2>1
  <2>2. CASE Len(work) # 1
    <3>1. Len(work') > 0 /\ Len(work') \in 1 .. Len(work') /\ Len(work') + 1 = Len(work)
      BY <1>4, <2>2
    <3>2. Last(work') = Last(work)
      BY <1>4, <3>1 DEF Last
    <3> QED
      BY <1>3, <1>4, <3>1, <3>2, EmptySeq
  <2> QED
    BY <2>1, <2>2
<1>10. WorkInv'
  <2>1. \A w \in Range(work') : TaskOK(w)
    BY <1>7 DEF IInv, WorkInv
  <2>2. \A w \in Range(work') : TaskOK(w)'
    BY <1>2, <2>1 DEF TaskOK, EnumWaits, LateNodes
  <2> QED
    BY <1>8, <1>9, <2>2 DEF WorkInv
<1>11. LocalsInv'
  BY <1>2, <1>7 DEF IInv, LocalsInv, Chain, IsLocal
<1>12. TypeInv'
  BY <1>1, <1>2, <1>4 DEF IInv, TypeInv, MiscType, tables
<1>13. ScopeInv' /\ CodeInv' /\ BlocksInv'
  BY <1>2 DEF IInv, ScopeInv, CodeInv, BlocksInv, Chain, IsLocal, NodeOwned, tables, Touched
<1>14. NamesUnique' /\ VariableSlots' /\ ArgumentSlots' /\ FuncIndexExact'
  BY <1>2 DEF IInv, NamesUnique, VariableSlots, ArgumentSlots, FuncIndexExact, tables
<1> QED
  BY <1>10, <1>11, <1>12, <1>13, <1>14 DEF IInv

LEMMA SwitchPreserves ==
  ASSUME IInv, Switch
  PROVE  IInv'
<1>1. pc = "stmts" /\ left' \in Budget
  BY HereFacts DEF Switch
<1> QED
  BY <1>1, AbortPreserves DEF Switch

-----------------------------------------------------------------------------
(* Loops and conditions.                                                   *)

LEMMA NewLabels ==
  ASSUME IInv, NEW r1 \in {"start", "end", "else", "fi", "user"},
         NEW r2 \in {"start", "end", "else", "fi", "user"}
  PROVE  /\ labels \o <<NewLabel(r1), NewLabel(r2)>> \in Seq(LabelRec)
         /\ Len(labels) \in Nat /\ start1 \in Nat /\ end1 \in Nat
<1>1. labels \in Seq(LabelRec)
  BY DEF IInv, TypeInv, MiscType
<1>2. NewLabel(r1) \in LabelRec /\ NewLabel(r2) \in LabelRec
  BY DEF NewLabel, LabelRec
<1> DEFINE a == NewLabel(r1)
           b == NewLabel(r2)
<1> HIDE DEF a, b
<1>3. <<a, b>> \in Seq(LabelRec)
  BY <1>2 DEF a, b
<1>4. labels \o <<a, b>> \in Seq(LabelRec)
  BY <1>1, <1>3, ConcatProperties
<1> QED
  BY <1>1, <1>4, LenProperties DEF a, b, start1, end1

LEMMA InnerFacts ==
  ASSUME IInv, pc = "stmts"
  PROVE  Inner(C) \in Ctx /\ Inner(C).scope = C.scope /\ Inner(C).block = C.block
           /\ C \in Ctx
<1>1. C \in Ctx
  BY RestFacts
<1>2. start1 \in Nat /\ end1 \in Nat
  BY NewLabels
<1> QED
  BY <1>1, <1>2 DEF Inner, Ctx, Opt

LEMMA LoopNodes ==
  ASSUME IInv, pc = "stmts", NEW e
  PROVE  /\ Good(<<Node("label", start1, NULL), Node("branch", end1, UseOf(e))>>)
         /\ Good(<<Node("label", start1, NULL)>>)
         /\ Good(<<Node("branch", start1, UseOf(e))>>)
<1>1. start1 \in Nat /\ end1 \in Nat
  BY NewLabels
<1>2. /\ Node("label", start1, NULL) \in NodeRec
      /\ NodeOwned(Node("label", start1, NULL), C.block)
  BY <1>1, PlainNode DEF Ops
<1>3. /\ Node("branch", end1, UseOf(e)) \in NodeRec
      /\ NodeOwned(Node("branch", end1, UseOf(e)), C.block)
      /\ Node("branch", start1, UseOf(e)) \in NodeRec
      /\ NodeOwned(Node("branch", start1, UseOf(e)), C.block)
  BY <1>1, CondNode DEF Ops
<1> QED
  BY <1>2, <1>3, GoodOne, GoodTwo

LEMMA LateFacts ==
  ASSUME NEW a \in Nat, NEW b \in Nat
  PROVE  /\ LateNodes(<<Node("jump", a, NULL), Node("label", b, NULL)>>)
         /\ LateNodes(<<Node("label", b, NULL)>>)
<1> DEFINE j == Node("jump", a, NULL)
           l == Node("label", b, NULL)
<1>1. /\ j \in NodeRec /\ j.op = "jump" /\ j.use = NULL
      /\ l \in NodeRec /\ l.op = "label" /\ l.use = NULL
  BY DEF Node, NodeRec, Ops, Opt
<1> HIDE DEF j, l
<1>2. <<j, l>> \in Seq(NodeRec) /\ DOMAIN <<j, l>> = {1, 2}
  BY <1>1
<1>3. <<l>> \in Seq(NodeRec) /\ DOMAIN <<l>> = {1}
  BY <1>1
<1>4. LateNodes(<<j, l>>) /\ LateNodes(<<l>>)
  BY <1>1, <1>2, <1>3 DEF LateNodes
<1> QED
  BY <1>4 DEF j, l

LEMMA LateArg ==
  ASSUME NEW nodes, LateNodes(nodes)
  PROVE  nodes \in Arg
BY DEF LateNodes, Arg

LEMMA BadCondPreserves ==
  ASSUME IInv, left' \in Budget, NEW e, BadCond(e)
  PROVE  IInv'
BY AbortPreserves DEF BadCond

LEMMA WhilePreserves ==
  ASSUME IInv, NEW e, While(e)
  PROVE  IInv'
<1>1. pc = "stmts" /\ left' \in Budget
  BY HereFacts DEF While
<1> DEFINE late == <<Node("jump", start1, NULL), Node("label", end1, NULL)>>
           v == Task("block", Inner(C), NULL)
           w == Task("emit", C, late)
           nodes == <<Node("label", start1, NULL), Node("branch", end1, UseOf(e))>>
<1>2. CASE /\ labels' = LoopLabels
           /\ AddNodes(nodes)
           /\ work' = <<v, w>> \o Rest
           /\ UNCHANGED <<mScopeList, handles, tables>>
  <2>1. labels' \in Seq(LabelRec) /\ start1 \in Nat /\ end1 \in Nat
    BY <1>2, NewLabels DEF LoopLabels
  <2>2. LateNodes(late) /\ late \in Arg
    BY <2>1, LateFacts, LateArg
  <2> HIDE DEF late
  <2>3. v \in TaskRec /\ CallOK(v)
    BY <1>1, InnerFacts, TaskHere DEF TaskKinds, Arg
  <2>4. w \in TaskRec /\ CallOK(w)
    BY <1>1, <2>2, InnerFacts, TaskHere DEF TaskKinds
  <2>5. Good(nodes)
    BY <1>1, LoopNodes
  <2> HIDE DEF v, w, nodes
  <2>6. code' = [code EXCEPT ![C.block] = @ \o nodes]
    BY <1>2 DEF AddNodes
  <2>7. ScopesGrow
    BY <1>2, SameScopesIInv
  <2>8. <<v, w>> \in Seq(TaskRec) /\ Range(<<v, w>>) = {v, w}
    BY <2>3, <2>4, TwoTasks
  <2> QED
    BY <1>1, <1>2, <2>1, <2>3, <2>4, <2>5, <2>6, <2>7, <2>8, PushPreserves
<1>3. CASE BadCond(e)
  BY <1>1, <1>3, BadCondPreserves
<1> QED
  BY <1>2, <1>3 DEF While

LEMMA DoWhilePreserves ==
  ASSUME IInv, DoWhile
  PROVE  IInv'
<1>1. pc = "stmts" /\ left' \in Budget
  BY HereFacts DEF DoWhile
<1> DEFINE v == Task("block", Inner(C), NULL)
           w == Task("until", Inner(C), NULL)
           nodes == <<Node("label", start1, NULL)>>
<1>2. labels' \in Seq(LabelRec)
  BY NewLabels DEF LoopLabels, DoWhile
<1>3. v \in TaskRec /\ CallOK(v)
  BY <1>1, InnerFacts, TaskHere DEF TaskKinds, Arg
<1>4. w \in TaskRec /\ CallOK(w)
  BY <1>1, InnerFacts, TaskHere DEF TaskKinds, Arg
<1>5. Good(nodes)
  BY <1>1, LoopNodes
<1>6. /\ code' = [code EXCEPT ![C.block] = @ \o nodes] /\ work' = <<v, w>> \o Rest
      /\ UNCHANGED <<mScopeList, handles, tables>>
  BY DEF AddNodes, DoWhile
<1> HIDE DEF v, w, nodes
<1>7. ScopesGrow
  BY <1>6, SameScopesIInv
<1>8. <<v, w>> \in Seq(TaskRec) /\ Range(<<v, w>>) = {v, w}
  BY <1>3, <1>4, TwoTasks
<1> QED
  BY <1>1, <1>2, <1>3, <1>4, <1>5, <1>6, <1>7, <1>8, PushPreserves

LEMMA UntilPreserves ==
  ASSUME IInv, NEW e, Until(e)
  PROVE  IInv'
<1>1. pc = "stmts" /\ left' \in Budget
  BY GoingFacts DEF Until
<1> DEFINE a == Node("branch", C.start, UseOf(e))
           b == Node("label", C.end, NULL)
<1>2. CASE Appends(<<a, b>>)
  <2>1. C.start \in Nat \cup {NULL, WILD} /\ C.end \in Nat \cup {NULL, WILD}
    BY <1>1, RestFacts DEF Ctx, Opt
  <2>2. a \in NodeRec /\ NodeOwned(a, C.block)
    BY <1>1, <2>1, CondNode DEF Ops
  <2>3. b \in NodeRec /\ NodeOwned(b, C.block)
    BY <1>1, <2>1, PlainNode DEF Ops
  <2> HIDE DEF a, b
  <2>4. Good(<<a, b>>)
    BY <2>2, <2>3, GoodTwo
  <2> QED
    BY <1>1, <1>2, <2>4, AppendsPreserves
<1>3. CASE BadCond(e)
  BY <1>1, <1>3, BadCondPreserves
<1> QED
  BY <1>2, <1>3 DEF Until

LEMMA ForPreserves ==
  ASSUME IInv, For
  PROVE  IInv'
<1>1. pc = "stmts" /\ left' \in Budget
  BY HereFacts DEF For
<1> DEFINE c == [C EXCEPT !.scope = Len(mScopeList) + 1]
           c0 == [c EXCEPT !.start = NULL, !.end = NULL]
           v == Task("single", c0, NULL)
           w == Task("forhead", c, NULL)
<1>2. /\ ScopesGrow /\ NewS \in DOMAIN mScopeList' /\ NewS \in Nat
      /\ mScopeList'[NewS].chain = {NewS} \cup Chain(C.scope)
  BY <1>1, InnerScope DEF For
<1>3. c \in Ctx /\ c.scope = NewS /\ c.block = C.block
  BY <1>1, <1>2, RestFacts DEF Ctx, NewS
<1>4. c0 \in Ctx /\ c0.scope = NewS /\ c0.block = C.block
  <2> HIDE DEF c
  <2> QED
    BY <1>3 DEF Ctx, Opt
<1>5. work' = <<v, w>> \o Rest
  BY DEF For
<1> HIDE DEF c, c0
<1>6. v \in TaskRec /\ CallOK(v)
  BY <1>1, <1>2, <1>4, TaskInside
<1>7. w \in TaskRec /\ CallOK(w)
  BY <1>1, <1>2, <1>3, TaskInside
<1> HIDE DEF v, w
<1>8. <<v, w>> \in Seq(TaskRec) /\ Range(<<v, w>>) = {v, w}
  BY <1>6, <1>7, TwoTasks
<1>9. code' = code /\ UNCHANGED <<handles, tables>> /\ labels' \in Seq(LabelRec)
  BY DEF For, IInv, TypeInv, MiscType
<1> QED
  BY <1>1, <1>2, <1>5, <1>6, <1>7, <1>8, <1>9, GoodEmpty, PushPreserves

LEMMA ForHeadPreserves ==
  ASSUME IInv, NEW e, ForHead(e)
  PROVE  IInv'
<1>1. pc = "stmts" /\ left' \in Budget /\ Rest = Tail(work)
  BY GoingFacts DEF ForHead
<1> DEFINE late == <<Node("jump", start1, NULL), Node("label", end1, NULL)>>
           u == Task("block", Inner(C), NULL)
           v == Task("single", Inner(C), NULL)
           w == Task("emit", C, late)
           new == <<u, v, w>>
           nodes == <<Node("label", start1, NULL), Node("branch", end1, UseOf(e))>>
<1>2. CASE /\ labels' = LoopLabels
           /\ AddNodes(nodes)
           /\ work' = new \o Rest
           /\ UNCHANGED <<mScopeList, handles, tables>>
  <2>1. labels' \in Seq(LabelRec) /\ start1 \in Nat /\ end1 \in Nat
    BY <1>2, NewLabels DEF LoopLabels
  <2>2. LateNodes(late) /\ late \in Arg
    BY <2>1, LateFacts, LateArg
  <2> HIDE DEF late
  <2>3. u \in TaskRec /\ CallOK(u)
    BY <1>1, InnerFacts, TaskHere DEF TaskKinds, Arg
  <2>4. v \in TaskRec /\ CallOK(v)
    BY <1>1, InnerFacts, TaskHere DEF TaskKinds, Arg
  <2>5. w \in TaskRec /\ CallOK(w)
    BY <1>1, <2>2, InnerFacts, TaskHere DEF TaskKinds
  <2>6. Good(nodes)
    BY <1>1, LoopNodes
  <2> HIDE DEF u, v, w, nodes
  <2>7. code' = [code EXCEPT ![C.block] = @ \o nodes]
    BY <1>2 DEF AddNodes
  <2>8. ScopesGrow
    BY <1>2, SameScopesIInv
  <2>9. new \in Seq(TaskRec) /\ DOMAIN new = {1, 2, 3}
    BY <2>3, <2>4, <2>5
  <2>10. Range(new) = {u, v, w}
    BY <2>9 DEF Range
  <2> HIDE DEF new
  <2> QED
    BY <1>1, <1>2, <2>1, <2>3, <2>4, <2>5, <2>6, <2>7, <2>8, <2>9, <2>10, PushPreserves
<1>3. CASE BadCond(e)
  BY <1>1, <1>3, BadCondPreserves
<1> QED
  BY <1>1, <1>2, <1>3 DEF ForHead

LEMMA IfHeadPreserves ==
  ASSUME IInv, pc = "stmts", left' \in Budget, NEW e, IfHead(e, Rest)
  PROVE  IInv'
<1> DEFINE v == Task("block", C, NULL)
           w == Task("else", C, start1)
           nodes == <<Node("branch", start1, UseOf(e))>>
<1>1. CASE /\ labels' = labels \o <<NewLabel("else"), NewLabel("fi")>>
           /\ AddNodes(nodes)
           /\ work' = <<v, w>> \o Rest
           /\ UNCHANGED <<mScopeList, handles, tables>>
  <2>1. labels' \in Seq(LabelRec) /\ start1 \in Nat
    BY <1>1, NewLabels
  <2>2. v \in TaskRec /\ CallOK(v)
    BY InnerFacts, TaskHere DEF TaskKinds, Arg
  <2>3. w \in TaskRec /\ CallOK(w)
    BY <2>1, InnerFacts, TaskHere DEF TaskKinds, Arg
  <2>4. Good(nodes)
    BY LoopNodes
  <2> HIDE DEF v, w, nodes
  <2>5. code' = [code EXCEPT ![C.block] = @ \o nodes]
    BY <1>1 DEF AddNodes
  <2>6. ScopesGrow
    BY <1>1, SameScopesIInv
  <2>7. <<v, w>> \in Seq(TaskRec) /\ Range(<<v, w>>) = {v, w}
    BY <2>2, <2>3, TwoTasks
  <2> QED
    BY <1>1, <2>1, <2>2, <2>3, <2>4, <2>5, <2>6, <2>7, PushPreserves
<1>2. CASE BadCond(e)
  BY <1>2, BadCondPreserves
<1> QED
  BY <1>1, <1>2 DEF IfHead

LEMMA IfPreserves ==
  ASSUME IInv, NEW e, If(e)
  PROVE  IInv'
BY HereFacts, IfHeadPreserves DEF If

LEMMA ElifPreserves ==
  ASSUME IInv, NEW e, Elif(e)
  PROVE  IInv'
<1>1. pc = "stmts" /\ left' \in Budget /\ Rest = Tail(work)
  BY OneLessType DEF Elif, Running, IInv, TypeInv, MiscType, Rest
<1> QED
  BY <1>1, IfHeadPreserves DEF Elif

LEMMA ElsePreserves ==
  ASSUME IInv, Else
  PROVE  IInv'
<1>1. pc = "stmts" /\ left' \in Budget /\ Rest = Tail(work) /\ Top.kind = "else"
  BY GoingFacts DEF Else
<1> DEFINE late == <<Node("label", Top.arg + 1, NULL)>>
           v(k) == Task(k, C, NULL)
           w == Task("emit", C, late)
           a == Node("jump", Top.arg + 1, NULL)
           b == Node("label", Top.arg, NULL)
<1>2. ASSUME AddNodes(<<a, b>>), NEW k \in {"block", "elif"}, work' = <<v(k), w>> \o Rest,
             UNCHANGED <<mScopeList, handles, labels, tables>>
      PROVE  IInv'
  <2>1. Top.arg \in Nat /\ Top.arg + 1 \in Nat
    BY <1>1, RestFacts DEF TaskOK
  <2>2. LateNodes(late) /\ late \in Arg
    BY <2>1, LateFacts, LateArg
  <2> HIDE DEF late
  <2>3. v(k) \in TaskRec /\ CallOK(v(k))
    BY <1>1, InnerFacts, TaskHere DEF TaskKinds, Arg
  <2>4. w \in TaskRec /\ CallOK(w)
    BY <1>1, <2>2, InnerFacts, TaskHere DEF TaskKinds
  <2>5. a \in NodeRec /\ NodeOwned(a, C.block) /\ b \in NodeRec /\ NodeOwned(b, C.block)
    BY <2>1, PlainNode DEF Ops
  <2> HIDE DEF v, w, a, b
  <2>6. Good(<<a, b>>)
    BY <2>5, GoodTwo
  <2>7. code' = [code EXCEPT ![C.block] = @ \o <<a, b>>]
    BY <1>2 DEF AddNodes
  <2>8. ScopesGrow /\ labels' \in Seq(LabelRec)
    BY <1>2, SameScopesIInv DEF IInv, TypeInv, MiscType
  <2>9. <<v(k), w>> \in Seq(TaskRec) /\ Range(<<v(k), w>>) = {v(k), w}
    BY <2>3, <2>4, TwoTasks
  <2> QED
    BY <1>1, <1>2, <2>3, <2>4, <2>6, <2>7, <2>8, <2>9, PushPreserves
<1>3. CASE Abort
  BY <1>1, <1>3, AbortPreserves
<1>4. CASE /\ AddNodes(<<a, b>>)
           /\ \E k \in {"block", "elif"} : work' = <<v(k), w>> \o Rest
           /\ UNCHANGED <<mScopeList, handles, labels, tables>>
  BY <1>2, <1>4
<1> QED
  BY <1>1, <1>3, <1>4 DEF Else

-----------------------------------------------------------------------------
(* Declarations.                                                           *)

(* Nothing else has the name in the scope, or the scope is that of an enum. *)
NameFree(s, n) ==
  \/ mScopeList[s].name # NULL
  \/ \A g \in DOMAIN handles : ~(handles[g].scope = s /\ handles[g].name = n)

LEMMA DeclNames ==
  ASSUME TypeInv, ScopeInv, NamesUnique, mScopeList' = mScopeList,
         NEW h \in HandleRec, h.scope \in DOMAIN mScopeList, NameFree(h.scope, h.name),
         handles' = Append(handles, h)
  PROVE  NamesUnique'
<1> DEFINE id == Len(handles) + 1
<1>1. /\ id \notin DOMAIN handles /\ DOMAIN handles' = DOMAIN handles \cup {id}
      /\ handles'[id] = h /\ \A g \in DOMAIN handles : handles'[g] = handles[g]
  BY OneHandle, SameScopes DEF HandlesGrow
<1> HIDE DEF id
<1>2. ASSUME NEW g \in DOMAIN handles', NEW k \in DOMAIN handles',
             handles'[g].scope = handles'[k].scope, handles'[g].name = handles'[k].name,
             mScopeList[handles'[g].scope].name = NULL, g # k
      PROVE  handles'[g].type = "param" /\ handles'[k].type = "param"
  <2>1. CASE g \in DOMAIN handles /\ k \in DOMAIN handles
    BY <1>1, <1>2, <2>1 DEF NamesUnique
  <2>2. CASE g = id
    <3>1. k \in DOMAIN handles /\ handles'[k] = handles[k] /\ handles'[g] = h
      BY <1>1, <1>2, <2>2
    <3> QED
      BY <1>2, <3>1 DEF NameFree
  <2>3. CASE k = id
    <3>1. g \in DOMAIN handles /\ handles'[g] = handles[g] /\ handles'[k] = h
      BY <1>1, <1>2, <2>3
    <3> QED
      BY <1>2, <3>1 DEF NameFree
  <2> QED
    BY <1>1, <2>1, <2>2, <2>3
<1> QED
  BY <1>2 DEF NamesUnique

(* A step that declares one handle that is no function. *)
LEMMA DeclPreserves ==
  ASSUME IInv, pc = "stmts", mScopeList' = mScopeList, MiscType',
         NEW h \in HandleRec, h.scope \in DOMAIN mScopeList, NameFree(h.scope, h.name),
         handles' = Append(handles, h), h.type # "func",
         h.type \in {"local", "param"} =>
           h.scope = C.scope /\ C.scope # 1 /\ h.block = C.block,
         NEW new \in {<<>>, <<Top>>}, work' = new \o Rest, \A w \in Range(new) : TaskOK(w)',
         NEW nodes \in Seq(NodeRec), \A i \in DOMAIN nodes : OwnedNext(nodes[i], C.block),
         code' = code \/ code' = [code EXCEPT ![C.block] = @ \o nodes],
         mVarList' \in Seq(Seq(Nat)), Len(mVarList') = Len(mVarList),
         mGlobalVarList' \in Seq(Nat), mFuncList' = mFuncList, BlocksInv', VariableSlots'
  PROVE  IInv'
<1> DEFINE id == Len(handles) + 1
<1>1. TypeInv /\ ScopeInv /\ CodeInv /\ NamesUnique /\ ArgumentSlots /\ FuncIndexExact
  BY DEF IInv
<1>2. ScopesGrow
  BY <1>1, SameScopes
<1>3. /\ HandlesGrow /\ id \notin DOMAIN handles /\ DOMAIN handles' = DOMAIN handles \cup {id}
      /\ handles'[id] = h
  BY <1>1, <1>2, OneHandle
<1> HIDE DEF id
<1>4. NamesUnique'
  BY <1>1, DeclNames
<1>5. ArgumentSlots' /\ FuncIndexExact'
  BY <1>1, <1>3 DEF ArgumentSlots, FuncIndexExact, HandlesGrow
<1>6. C.block \in DOMAIN code /\ Top \in TaskRec /\ Fits(Top.c)
  BY RestFacts DEF Fits, C
<1>7. /\ code' \in Seq(Seq(NodeRec)) /\ Len(code') = Len(code)
      /\ DOMAIN code' = DOMAIN code /\ CodeInv'
  <2> DEFINE b == C.block
  <2>1. CASE code' = code
    BY <1>1, <1>3, <2>1, SameCode
  <2>2. CASE code' = [code EXCEPT ![b] = @ \o nodes]
    <3>1. b \in DOMAIN code /\ \A i \in DOMAIN nodes : OwnedNext(nodes[i], b)
      BY <1>6
    <3> HIDE DEF b
    <3> QED
      BY <1>1, <1>3, <2>2, <3>1, AddNodesFacts
  <2> QED
    BY <2>1, <2>2
<1>8. new \in Seq(TaskRec) /\ DOMAIN new \subseteq {1} /\ \A w \in Range(new) : w = Top /\ new = <<Top>>
  <2>1. CASE new = <<>>
    BY <2>1, EmptySeq DEF Range
  <2>2. CASE new = <<Top>>
    <3> DEFINE t == Top
    <3> HIDE DEF t
    <3>1. new = <<t>> /\ t \in TaskRec
      BY <1>6, <2>2 DEF t
    <3>2. new \in Seq(TaskRec) /\ Range(new) = {t} /\ DOMAIN new = {1}
      BY <3>1, OneTask
    <3> QED
      BY <2>2, <3>2 DEF t
  <2> QED
    BY <2>1, <2>2
<1>9. ScopeInv' /\ WorkInv' /\ LocalsInv' /\ work' \in Seq(TaskRec)
  <2>1. \A k \in DOMAIN new : k > 1 => new[k].kind # "enum"
    BY <1>8
  <2>2. \A w \in Range(new) : Fits(w.c) /\ TaskOK(w)'
    BY <1>6, <1>8
  <2>3. \A v, w \in Range(new) :
           v.c.scope = NewS /\ w.c.scope = NewS => v.c.block = w.c.block
    BY <1>8
  <2>4. \A g \in DOMAIN handles' \ DOMAIN handles : IsLocal(g)' => LocalFits(handles'[g], new)
    BY <1>3 DEF IsLocal, LocalFits
  <2>5. \A b \in DOMAIN code : b \in DOMAIN code'
    BY <1>7
  <2> QED
    BY <1>2, <1>3, <1>8, <2>1, <2>2, <2>3, <2>4, <2>5, WorkStep
<1>10. TypeInv'
  BY <1>1, <1>2, <1>3, <1>7, <1>9 DEF TypeInv, ScopesGrow, HandlesGrow
<1> QED
  BY <1>4, <1>5, <1>7, <1>9, <1>10 DEF IInv

(* The lists of variables, when the handle is not one. *)
LEMMA NoVariable ==
  ASSUME IInv, mScopeList' = mScopeList, UNCHANGED tables,
         NEW h \in HandleRec, h.scope \in DOMAIN mScopeList, handles' = Append(handles, h),
         h.type \notin {"local", "global"}
  PROVE  /\ mVarList' \in Seq(Seq(Nat)) /\ Len(mVarList') = Len(mVarList)
         /\ mGlobalVarList' \in Seq(Nat) /\ mFuncList' = mFuncList
         /\ BlocksInv' /\ VariableSlots'
<1> DEFINE id == Len(handles) + 1
<1>1. TypeInv /\ ScopeInv /\ BlocksInv /\ VariableSlots
  BY DEF IInv
<1>2. /\ HandlesGrow /\ DOMAIN handles' = DOMAIN handles \cup {id}
      /\ handles'[id] = h
  BY <1>1, SameScopes, OneHandle
<1> HIDE DEF id
<1>3. BlocksInv' /\ VariableSlots'
  BY <1>1, <1>2 DEF BlocksInv, VariableSlots, HandlesGrow, tables
<1> QED
  BY <1>1, <1>3 DEF TypeInv, tables

(* One handle that is no variable and no function, with the nodes added. *)
LEMMA PlainDecl ==
  ASSUME IInv, pc = "stmts", mScopeList' = mScopeList, MiscType', UNCHANGED tables,
         NEW h \in HandleRec, h.scope \in DOMAIN mScopeList, NameFree(h.scope, h.name),
         handles' = Append(handles, h), h.type \in {"const", "type", "label"},
         work' = Rest, NEW nodes \in Seq(NodeRec),
         \A i \in DOMAIN nodes : OwnedNext(nodes[i], C.block),
         code' = code \/ code' = [code EXCEPT ![C.block] = @ \o nodes]
  PROVE  IInv'
<1> DEFINE new == <<>>
<1>1. work' = new \o Rest
  BY RestFacts, ConcatEmptySeq
<1>2. new \in {<<>>, <<Top>>} /\ Range(new) = {}
  BY DEF Range
<1> HIDE DEF new
<1>3. /\ mVarList' \in Seq(Seq(Nat)) /\ Len(mVarList') = Len(mVarList)
      /\ mGlobalVarList' \in Seq(Nat) /\ mFuncList' = mFuncList
      /\ BlocksInv' /\ VariableSlots'
  BY NoVariable
<1> QED
  BY <1>1, <1>2, <1>3, DeclPreserves

LEMMA OptNull ==
  ASSUME NEW S
  PROVE  NULL \in Opt(S) /\ \A x \in S : x \in Opt(S)
BY DEF Opt

LEMMA HandleFacts ==
  ASSUME NEW type \in {"global", "local", "const", "type", "param", "func", "label"},
         NEW n \in Opt(Name), NEW s \in Nat, NEW blk \in Opt(Nat), NEW i \in Opt(Nat),
         NEW lab \in Opt(Nat)
  PROVE  LET h == Handle(type, n, s, blk, i, lab) IN
         /\ h \in HandleRec /\ h.type = type /\ h.name = n /\ h.scope = s /\ h.block = blk
         /\ h.index = i /\ h.label = lab
BY DEF Handle, HandleRec

(* check_name *)
LEMMA CheckedName ==
  ASSUME IInv, pc = "stmts", NEW n, CheckName(n)
  PROVE  /\ \A g \in DOMAIN handles : ~(handles[g].scope = C.scope /\ handles[g].name = n)
         /\ NameFree(C.scope, n)
<1>1. handles \in Seq(HandleRec)
  BY DEF IInv, TypeInv
<1>2. LocalHits(handles, C.scope, n) = {}
  BY <1>1, FindLocalFacts DEF CheckName
<1> QED
  BY <1>2 DEF LocalHits, NameFree

(* A name that find does not find is free in the scope it started in. *)
LEMMA NotFound ==
  ASSUME IInv, pc = "stmts", NEW n, Find(handles, C.scope, n) = NULL
  PROVE  NameFree(C.scope, n)
<1> DEFINE s == C.scope
<1>1. /\ handles \in Seq(HandleRec) /\ TypeInv /\ ScopeInv
      /\ s \in DOMAIN mScopeList /\ s \in Nat /\ s \in Chain(s)
  BY RestFacts, ScopeNumbers DEF IInv, TypeInv, ScopeOK
<1> HIDE DEF s
<1>2. Find(handles, s, n) = NULL
  BY DEF s
<1>3. \A g \in DOMAIN handles : ~(handles[g].scope \in Chain(s) /\ handles[g].name = n)
  BY <1>1, <1>2, FindFacts
<1> QED
  BY <1>1, <1>3 DEF NameFree, s

(* The scope of the statement. *)
LEMMA HereScope ==
  ASSUME IInv, pc = "stmts"
  PROVE  C.scope \in DOMAIN mScopeList /\ C.scope \in Nat
BY RestFacts, ScopeNumbers DEF IInv

LEMMA ConstDeclPreserves ==
  ASSUME IInv, NEW n \in Name, NEW ty, NEW e, ConstDecl(n, ty, e)
  PROVE  IInv'
<1>1. pc = "stmts" /\ left' \in Budget /\ mScopeList' = mScopeList /\ ScopesGrow
  BY HereFacts, SameScopesIInv DEF ConstDecl
<1>2. CASE Fail
  BY <1>1, <1>2, FailPreserves
<1>3. CASE Abort
  BY <1>1, <1>3, AbortPreserves
<1>4. CASE /\ CheckName(n)
           /\ handles' = Append(handles, Handle("const", n, C.scope, NULL, NULL, NULL))
           /\ work' = Rest /\ UNCHANGED <<labels, code, tables>>
  <2> DEFINE h == Handle("const", n, C.scope, NULL, NULL, NULL)
  <2>1. h \in HandleRec /\ h.type = "const" /\ h.scope = C.scope /\ h.name = n
    BY <1>1, HereScope, OptNull, HandleFacts
  <2>2. handles' = Append(handles, h)
    BY <1>4
  <2> HIDE DEF h
  <2>3. NameFree(h.scope, h.name) /\ h.scope \in DOMAIN mScopeList
    BY <1>1, <1>4, <2>1, CheckedName, HereScope
  <2>4. MiscType'
    BY <1>1, <1>4 DEF IInv, TypeInv, MiscType
  <2> DEFINE nodes == <<>>
  <2>5. nodes \in Seq(NodeRec) /\ \A i \in DOMAIN nodes : OwnedNext(nodes[i], C.block)
    BY EmptySeq, EmptyIsSeq
  <2> HIDE DEF nodes
  <2> QED
    BY <1>1, <1>4, <2>1, <2>2, <2>3, <2>4, <2>5, PlainDecl
<1> QED
  BY <1>2, <1>3, <1>4 DEF ConstDecl

(* reg_enum, up to the constants. *)
LEMMA EnumDeclPreserves ==
  ASSUME IInv, NEW n \in Name, EnumDecl(n)
  PROVE  IInv'
<1>1. pc = "stmts" /\ left' \in Budget
  BY HereFacts DEF EnumDecl
<1>2. CASE Fail /\ UNCHANGED mScopeList
  BY <1>1, <1>2, SameScopesIInv, FailPreserves
<1>3. CASE /\ CheckName(n)
           /\ mScopeList' = Append(mScopeList, NewScope(C.scope, n))
           /\ work' = <<Task("enum", [C EXCEPT !.scope = Len(mScopeList) + 1], C.scope)>> \o Rest
           /\ UNCHANGED <<handles, labels, code, tables>>
  <2> DEFINE c == [C EXCEPT !.scope = Len(mScopeList) + 1]
             s == C.scope
  <2> PICK w : w = Task("enum", c, s)
    OBVIOUS
  <2> DEFINE new == <<w>>
  <2>1. /\ TypeInv /\ ScopeInv /\ CodeInv /\ BlocksInv /\ NamesUnique /\ VariableSlots /\ ArgumentSlots
        /\ FuncIndexExact
    BY DEF IInv
  <2>2. C \in Ctx /\ s \in DOMAIN mScopeList /\ s \in Nat /\ C.block \in DOMAIN code
    BY <1>1, RestFacts, HereScope
  <2> HIDE DEF s
  <2>3. mScopeList' = Append(mScopeList, NewScope(s, n)) /\ n \in Opt(Name)
    BY <1>3 DEF Opt, s
  <2>4. /\ ScopesGrow /\ NewS \in DOMAIN mScopeList'
        /\ mScopeList'[NewS].chain = {NewS} \cup Chain(s)
        /\ mScopeList'[NewS].name = n
    BY <2>1, <2>2, <2>3, NewScopeGrows
  <2>5. NewS \in Nat /\ NewS \notin DOMAIN mScopeList
    BY <2>1, ScopeNumbers
  <2>6. c \in Ctx /\ c.scope = NewS /\ c.block = C.block
    BY <2>2, <2>5 DEF Ctx, NewS
  <2>7. work' = new \o Rest
    BY <1>3 DEF s
  <2> HIDE DEF c
  <2>8. w \in TaskRec /\ w.kind = "enum" /\ w.c = c /\ w.arg = s
    BY <2>2, <2>6, TaskFacts DEF TaskKinds, Arg
  <2>9. new \in Seq(TaskRec) /\ Range(new) = {w} /\ DOMAIN new = {1}
    BY <2>8, OneTask
  <2> HIDE DEF new
  <2>10. Fits(w.c)
    BY <2>4, <2>6, <2>8 DEF Fits, s
  <2>11. HandlesGrow
    BY <1>3, <2>1, <2>4, SameHandles
  <2>12. TaskOK(w)'
    <3>1. \A g \in DOMAIN handles : ~(handles[g].scope = s /\ handles[g].name = n)
      BY <1>1, <1>3, CheckedName DEF s
    <3>2. n # NULL
      BY IrMgrAssumption
    <3>3. s \in DOMAIN mScopeList' /\ s # NewS
      BY <2>2, <2>4, <2>5 DEF ScopesGrow
    <3> HIDE DEF NewS
    <3>4. EnumWaits(w)'
      BY <1>3, <2>4, <2>6, <2>8, <3>1, <3>2, <3>3 DEF EnumWaits
    <3> QED
      BY <1>3, <2>2, <2>4, <2>6, <2>8, <3>4 DEF TaskOK
  <2>13. ScopeInv' /\ WorkInv' /\ LocalsInv' /\ work' \in Seq(TaskRec)
    <3>1. \A k \in DOMAIN new : k > 1 => new[k].kind # "enum"
      BY <2>9
    <3>2. \A v \in Range(new) : Fits(v.c) /\ TaskOK(v)'
      BY <2>9, <2>10, <2>12
    <3>3. \A u, v \in Range(new) :
             u.c.scope = NewS /\ v.c.scope = NewS => u.c.block = v.c.block
      BY <2>9
    <3>4. \A h \in DOMAIN handles' \ DOMAIN handles : FALSE
      BY <1>3
    <3>5. \A b \in DOMAIN code : b \in DOMAIN code'
      BY <1>3
    <3> QED
      BY <1>1, <2>4, <2>7, <2>9, <2>11, <3>1, <3>2, <3>3, <3>4, <3>5, WorkStep
  <2>14. BlocksInv' /\ NamesUnique' /\ VariableSlots' /\ ArgumentSlots' /\ FuncIndexExact'
    BY <1>3, <2>1, <2>4, SameTables
  <2>15. CodeInv'
    BY <1>3, <2>1, <2>11, SameCode
  <2>16. TypeInv'
    BY <1>1, <1>3, <2>1, <2>4, <2>13 DEF TypeInv, MiscType, tables, ScopesGrow
  <2> QED
    BY <2>13, <2>14, <2>15, <2>16 DEF IInv
<1> QED
  BY <1>2, <1>3 DEF EnumDecl

(* The constants of an enum, in a scope that has a name. *)
LEMMA EnumConstPreserves ==
  ASSUME IInv, NEW m \in Name, NEW e, EnumConst(m, e)
  PROVE  IInv'
<1>1. pc = "stmts" /\ left' \in Budget /\ mScopeList' = mScopeList /\ Top.kind = "enum"
  BY OneLessType DEF EnumConst, Running, IInv, TypeInv, MiscType
<1>2. CASE Fail
  BY <1>1, <1>2, SameScopesIInv, FailPreserves
<1>3. CASE Abort
  BY <1>1, <1>3, AbortPreserves
<1>4. CASE /\ handles' = Append(handles, Handle("const", m, C.scope, NULL, NULL, NULL))
           /\ UNCHANGED <<labels, code, tables, work>>
  <2> DEFINE h == Handle("const", m, C.scope, NULL, NULL, NULL)
             id == Len(handles) + 1
  <2>0. PICK t : t = Top
    OBVIOUS
  <2> DEFINE new == <<t>>
  <2>1. h \in HandleRec /\ h.type = "const" /\ h.scope = C.scope /\ h.name = m
    BY <1>1, HereScope, OptNull, HandleFacts
  <2>2. handles' = Append(handles, h)
    BY <1>4
  <2> HIDE DEF h
  <2>3. t \in TaskRec /\ TaskOK(t) /\ EnumWaits(t) /\ t.c = C /\ t.kind = "enum"
    BY <1>1, <2>0, RestFacts DEF TaskOK, C
  <2>4. NameFree(h.scope, h.name) /\ h.scope \in DOMAIN mScopeList
    BY <1>1, <2>1, <2>3, HereScope DEF NameFree, EnumWaits
  <2>5. work = new \o Rest
    <3>1. work \in Seq(TaskRec) /\ work # <<>> /\ Rest = Tail(work)
      BY <1>1 DEF IInv, TypeInv, WorkInv, Rest
    <3> QED
      BY <2>0, <3>1, HeadTailProperties DEF Top
  <2>6. MiscType'
    BY <1>1, <1>4 DEF IInv, TypeInv, MiscType
  <2> DEFINE nodes == <<>>
  <2>7. nodes \in Seq(NodeRec) /\ \A i \in DOMAIN nodes : OwnedNext(nodes[i], C.block)
    BY EmptySeq, EmptyIsSeq
  <2>8. /\ mVarList' \in Seq(Seq(Nat)) /\ Len(mVarList') = Len(mVarList)
        /\ mGlobalVarList' \in Seq(Nat) /\ mFuncList' = mFuncList
        /\ BlocksInv' /\ VariableSlots'
    BY <1>1, <1>4, <2>1, <2>2, <2>4, NoVariable
  <2>9. DOMAIN handles' = DOMAIN handles \cup {id} /\ handles'[id] = h /\ HandlesGrow
    BY <1>1, <2>1, <2>2, <2>4, OneHandle, SameScopesIInv DEF IInv
  <2> HIDE DEF nodes, id
  <2>10. TaskOK(t)'
    <3>1. EnumWaits(t)'
      BY <1>1, <2>1, <2>3, <2>9 DEF EnumWaits, HandlesGrow
    <3> QED
      BY <1>1, <1>4, <2>3, <3>1 DEF TaskOK
  <2>11. Range(new) = {t}
    BY <2>3, OneTask
  <2>12. new \in {<<>>, <<Top>>}
    BY <2>0
  <2> HIDE DEF new
  <2> QED
    BY <1>1, <1>4, <2>1, <2>2, <2>4, <2>5, <2>6, <2>7, <2>8, <2>10, <2>11, <2>12,
       DeclPreserves
<1> QED
  BY <1>2, <1>3, <1>4 DEF EnumConst

LEMMA EnumEndPreserves ==
  ASSUME IInv, EnumEnd
  PROVE  IInv'
<1>1. pc = "stmts" /\ left' \in Budget /\ Top.kind = "enum" /\ Rest = Tail(work)
  BY GoingFacts DEF EnumEnd
<1> DEFINE s == Top.arg
           n == mScopeList[C.scope].name
           h == Handle("type", n, s, NULL, NULL, NULL)
<1>2. EnumWaits(Top) /\ s \in DOMAIN mScopeList
  BY <1>1, RestFacts DEF TaskOK, EnumWaits
<1>3. n \in Opt(Name) /\ s \in Nat
  <2>1. mScopeList \in Seq(ScopeRec) /\ C.scope \in DOMAIN mScopeList
    BY <1>1, HereScope DEF IInv, TypeInv
  <2>2. mScopeList[C.scope] \in ScopeRec
    BY <2>1, ElementOfSeq, LenProperties
  <2> QED
    BY <1>2, <2>1, <2>2, ScopeNumbers DEF ScopeRec, IInv
<1>4. handles' = Append(handles, h) /\ work' = Rest /\ UNCHANGED <<mScopeList, labels, code, tables>>
  BY <1>1 DEF EnumEnd
<1>5. NameFree(s, n)
  BY <1>2 DEF EnumWaits, NameFree, C
<1> HIDE DEF s, n
<1>6. h \in HandleRec /\ h.type = "type" /\ h.scope = s /\ h.name = n
  BY <1>3, OptNull, HandleFacts
<1> HIDE DEF h
<1>7. MiscType'
  BY <1>1, <1>4 DEF IInv, TypeInv, MiscType
<1> DEFINE nodes == <<>>
<1>8. nodes \in Seq(NodeRec) /\ \A i \in DOMAIN nodes : OwnedNext(nodes[i], C.block)
  BY EmptySeq, EmptyIsSeq
<1> HIDE DEF nodes
<1> QED
  BY <1>1, <1>2, <1>4, <1>5, <1>6, <1>7, <1>8, PlainDecl

-----------------------------------------------------------------------------
(* Variables.                                                              *)

(* next_local_index and the list of local variables of the block. *)
LEMMA LocalSlot ==
  ASSUME IInv, mScopeList' = mScopeList, NEW h \in HandleRec, h.scope \in DOMAIN mScopeList,
         handles' = Append(handles, h), NEW b \in DOMAIN code, h.type = "local", h.block = b,
         h.index = Len(mVarList[b]),
         mVarList' = [mVarList EXCEPT ![b] = Append(@, Len(handles) + 1)],
         mGlobalVarList' = mGlobalVarList
  PROVE  /\ mVarList' \in Seq(Seq(Nat)) /\ Len(mVarList') = Len(mVarList)
         /\ mGlobalVarList' \in Seq(Nat) /\ BlocksInv' /\ VariableSlots'
<1> DEFINE id == Len(handles) + 1
<1>1. TypeInv /\ ScopeInv /\ BlocksInv /\ VariableSlots
  BY DEF IInv
<1>2. /\ HandlesGrow /\ DOMAIN handles' = DOMAIN handles \cup {id}
      /\ handles'[id] = h /\ id \in Nat
  BY <1>1, SameScopes, OneHandle
<1>3. mVarList \in Seq(Seq(Nat)) /\ b \in DOMAIN mVarList
  BY <1>1, LenProperties DEF TypeInv
<1>4. mVarList[b] \in Seq(Nat)
  BY <1>3, ElementOfSeq, LenProperties
<1> DEFINE old == mVarList[b]
           new == Append(old, id)
<1> HIDE DEF id
<1>5. /\ new \in Seq(Nat) /\ Len(new) = Len(old) + 1
      /\ \A i \in 1 .. Len(old) : new[i] = old[i]
      /\ new[Len(old) + 1] = id
  BY <1>2, <1>4, AppendProperties
<1>6. /\ Len(old) \in Nat /\ DOMAIN old = 1 .. Len(old) /\ DOMAIN new = 1 .. Len(old) + 1
  BY <1>4, <1>5, LenProperties
<1>7. mVarList' = [mVarList EXCEPT ![b] = new]
  BY DEF id
<1> HIDE DEF new, old
<1>8. /\ mVarList' \in Seq(Seq(Nat)) /\ Len(mVarList') = Len(mVarList)
      /\ DOMAIN mVarList' = DOMAIN mVarList /\ mVarList'[b] = new
      /\ \A a \in DOMAIN mVarList : a # b => mVarList'[a] = mVarList[a]
  BY <1>3, <1>5, <1>7, ExceptSeq
<1>9. BlocksInv'
  BY <1>1, <1>2, <1>3, <1>8 DEF BlocksInv, HandlesGrow
<1>10. ASSUME NEW g \in DOMAIN handles', handles'[g].type = "local"
       PROVE  /\ handles'[g].index + 1 \in DOMAIN mVarList'[handles'[g].block]
              /\ mVarList'[handles'[g].block][handles'[g].index + 1] = g
  <2>1. CASE g = id
    <3>1. handles'[g].index = Len(old) /\ handles'[g].block = b
      BY <1>2, <2>1 DEF old
    <3>2. Len(old) + 1 \in DOMAIN new
      BY <1>6
    <3> QED
      BY <1>5, <1>8, <2>1, <3>1, <3>2
  <2>2. CASE g \in DOMAIN handles
    <3> DEFINE a == handles[g].block
               i == handles[g].index + 1
    <3>1. handles'[g] = handles[g] /\ a \in DOMAIN mVarList
      BY <1>1, <1>2, <1>10, <2>2 DEF HandlesGrow, BlocksInv
    <3>2. i \in DOMAIN mVarList[a] /\ mVarList[a][i] = g
      BY <1>1, <1>10, <2>2, <3>1 DEF VariableSlots
    <3> HIDE DEF a, i
    <3>3. i \in DOMAIN mVarList'[a] /\ mVarList'[a][i] = g
      <4>1. CASE a = b
        <5>1. i \in 1 .. Len(old) /\ old[i] = g
          BY <1>6, <3>2, <4>1 DEF old
        <5>2. i \in DOMAIN new /\ new[i] = g
          BY <1>5, <1>6, <5>1
        <5> QED
          BY <1>8, <4>1, <5>2
      <4>2. CASE a # b
        BY <1>8, <3>1, <3>2, <4>2
      <4> QED
        BY <4>1, <4>2
    <3> QED
      BY <3>1, <3>3 DEF a, i
  <2> QED
    BY <1>2, <2>1, <2>2
<1>11. ASSUME NEW g \in DOMAIN handles', handles'[g].type = "global"
       PROVE  /\ handles'[g].index + 1 \in DOMAIN mGlobalVarList'
              /\ mGlobalVarList'[handles'[g].index + 1] = g
  <2>1. g \in DOMAIN handles /\ handles'[g] = handles[g]
    BY <1>2, <1>11 DEF HandlesGrow
  <2> QED
    BY <1>1, <1>11, <2>1 DEF VariableSlots
<1>12. VariableSlots'
  BY <1>10, <1>11 DEF VariableSlots
<1> QED
  BY <1>1, <1>8, <1>9, <1>12 DEF TypeInv

LEMMA GlobalSlot ==
  ASSUME IInv, mScopeList' = mScopeList, NEW h \in HandleRec, h.scope \in DOMAIN mScopeList,
         handles' = Append(handles, h), h.type = "global",
         h.index = Len(mGlobalVarList),
         mGlobalVarList' = Append(mGlobalVarList, Len(handles) + 1), mVarList' = mVarList
  PROVE  /\ mVarList' \in Seq(Seq(Nat)) /\ Len(mVarList') = Len(mVarList)
         /\ mGlobalVarList' \in Seq(Nat) /\ BlocksInv' /\ VariableSlots'
<1> DEFINE id == Len(handles) + 1
           old == mGlobalVarList
           new == mGlobalVarList'
<1>1. TypeInv /\ ScopeInv /\ BlocksInv /\ VariableSlots
  BY DEF IInv
<1>2. /\ HandlesGrow /\ DOMAIN handles' = DOMAIN handles \cup {id}
      /\ handles'[id] = h /\ id \in Nat
  BY <1>1, SameScopes, OneHandle
<1>3. old \in Seq(Nat) /\ new = Append(old, id)
  BY <1>1 DEF TypeInv
<1> HIDE DEF id, new, old
<1>4. /\ new \in Seq(Nat) /\ Len(new) = Len(old) + 1
      /\ \A i \in 1 .. Len(old) : new[i] = old[i]
      /\ new[Len(old) + 1] = id
  BY <1>2, <1>3, AppendProperties
<1>5. /\ Len(old) \in Nat /\ DOMAIN old = 1 .. Len(old) /\ DOMAIN new = 1 .. Len(old) + 1
  BY <1>3, <1>4, LenProperties
<1>6. BlocksInv'
  BY <1>1, <1>2 DEF BlocksInv, HandlesGrow
<1>7. ASSUME NEW g \in DOMAIN handles', handles'[g].type = "global"
      PROVE  handles'[g].index + 1 \in DOMAIN new /\ new[handles'[g].index + 1] = g
  <2>1. CASE g = id
    <3>1. handles'[g].index = Len(old)
      BY <1>2, <2>1 DEF old
    <3>2. Len(old) + 1 \in DOMAIN new
      BY <1>5
    <3> QED
      BY <1>4, <2>1, <3>1, <3>2
  <2>2. CASE g \in DOMAIN handles
    <3> DEFINE i == handles[g].index + 1
    <3>1. handles'[g] = handles[g]
      BY <1>2, <2>2 DEF HandlesGrow
    <3>2. i \in DOMAIN old /\ old[i] = g
      BY <1>1, <1>7, <2>2, <3>1 DEF VariableSlots, old
    <3> HIDE DEF i
    <3>3. i \in DOMAIN new /\ new[i] = g
      BY <1>4, <1>5, <3>2
    <3> QED
      BY <3>1, <3>3 DEF i
  <2> QED
    BY <1>2, <2>1, <2>2
<1>8. ASSUME NEW g \in DOMAIN handles', handles'[g].type = "local"
      PROVE  /\ handles'[g].index + 1 \in DOMAIN mVarList'[handles'[g].block]
             /\ mVarList'[handles'[g].block][handles'[g].index + 1] = g
  <2>1. g \in DOMAIN handles /\ handles'[g] = handles[g]
    BY <1>2, <1>8 DEF HandlesGrow
  <2> QED
    BY <1>1, <1>8, <2>1 DEF VariableSlots
<1>9. VariableSlots'
  BY <1>7, <1>8 DEF VariableSlots, new
<1> QED
  BY <1>1, <1>4, <1>6, <1>9 DEF TypeInv, new

(* What a statement can see after its declaration h is in scope. *)
LEMMA UseAfter ==
  ASSUME IInv, pc = "stmts", mScopeList' = mScopeList, NEW h \in HandleRec,
         h.scope \in DOMAIN mScopeList, handles' = Append(handles, h),
         h.type \in {"local", "param"} => h.block = C.block, NEW e
  PROVE  LET u == ElabExpr(Append(handles, h), e, C.scope).use IN
         /\ u \in Opt(Nat)
         /\ u # NULL => /\ u \in DOMAIN handles'
                        /\ handles'[u].type \in {"local", "param"} => handles'[u].block = C.block
<1> DEFINE s == C.scope
           u == ElabExpr(Append(handles, h), e, s).use
           id == Len(handles) + 1
<1>1. TypeInv /\ ScopeInv /\ s \in DOMAIN mScopeList /\ s \in Nat
  BY HereScope DEF IInv
<1>2. /\ HandlesGrow /\ DOMAIN handles' = DOMAIN handles \cup {id} /\ handles'[id] = h
      /\ handles' \in Seq(HandleRec)
  BY <1>1, SameScopes, OneHandle DEF HandlesGrow
<1>3. u = ElabExpr(handles', e, s).use
  OBVIOUS
<1> HIDE DEF s, id, u
<1>4. u # NULL => u \in DOMAIN handles' /\ handles'[u].scope \in Chain(s)
  BY <1>1, <1>2, <1>3, UseFacts
<1>5. u \in DOMAIN handles' => u \in Nat
  BY <1>2, LenProperties
<1>6. u \in Opt(Nat)
  BY <1>4, <1>5 DEF Opt
<1>7. ASSUME u # NULL, handles'[u].type \in {"local", "param"}
      PROVE  handles'[u].block = C.block
  <2>1. CASE u \in DOMAIN handles
    <3>1. handles[u] = handles'[u] /\ handles[u].scope \in Chain(C.scope) /\ IsLocal(u)
      BY <1>2, <1>4, <1>7, <2>1 DEF HandlesGrow, IsLocal, s
    <3> QED
      BY <2>1, <3>1, Seen
  <2>2. CASE u = id
    BY <1>2, <1>7, <2>2
  <2> QED
    BY <1>2, <1>4, <1>7, <2>1, <2>2
<1> QED
  BY <1>4, <1>6, <1>7 DEF u, s

LEMMA VarHandleFacts ==
  ASSUME IInv, pc = "stmts", NEW n \in Name
  PROVE  LET h == VarHandle(n) IN
         /\ h \in HandleRec /\ h.scope = C.scope /\ h.name = n
         /\ h.type = "global" => h.index = Len(mGlobalVarList)
         /\ h.type = "local" =>
              C.scope # 1 /\ h.block = C.block /\ h.index = Len(mVarList[C.block])
         /\ h.type \in {"global", "local"}
<1> DEFINE s == C.scope
           b == C.block
           h == VarHandle(n)
<1>1. TypeInv /\ ScopeInv /\ s \in DOMAIN mScopeList /\ s \in Nat /\ b \in DOMAIN code
  BY RestFacts, HereScope DEF IInv
<1>2. b \in DOMAIN mVarList /\ b \in Nat
  <2>1. /\ code \in Seq(Seq(NodeRec)) /\ mVarList \in Seq(Seq(Nat))
        /\ Len(mVarList) = Len(code)
    BY <1>1 DEF TypeInv
  <2>2. /\ DOMAIN code = 1 .. Len(code) /\ DOMAIN mVarList = 1 .. Len(code)
        /\ Len(code) \in Nat
    BY ONLY <2>1, LenProperties
  <2> QED
    BY <1>1, <2>2
<1>3. Len(mVarList[b]) \in Nat /\ Len(mGlobalVarList) \in Nat
  BY <1>1, <1>2, ElementOfSeq, LenProperties DEF TypeInv
<1>4. mScopeList[s].global = IF s = 1 THEN NULL ELSE 1
  BY <1>1, ScopeNumbers DEF ScopeOK
<1> HIDE DEF s, b
<1> DEFINE lo == Len(mVarList[b])
           gl == Len(mGlobalVarList)
<1>5. /\ n \in Opt(Name) /\ NULL \in Opt(Nat) /\ 1 \in Opt(Nat) /\ b \in Opt(Nat)
      /\ lo \in Opt(Nat) /\ gl \in Opt(Nat)
  BY <1>2, <1>3 DEF Opt
<1> HIDE DEF h, lo, gl
<1>6. CASE s = 1
  <2>1. h = Handle("global", n, s, 1, gl, NULL)
    BY <1>4, <1>6 DEF VarHandle, s, h, gl
  <2>2. h \in HandleRec /\ h.scope = s /\ h.name = n /\ h.type = "global"
           /\ h.index = gl
    BY <1>1, <1>5, <2>1 DEF Handle, HandleRec
  <2> QED
    BY <2>2 DEF h, s, gl
<1>7. CASE s # 1
  <2>0. mScopeList[s].global # NULL
    BY <1>4, <1>7, IrMgrAssumption
  <2>1. h = Handle("local", n, s, b, lo, NULL)
    BY <1>7, <2>0 DEF VarHandle, s, b, h, lo, NextLocalIndex
  <2>2. h \in HandleRec /\ h.scope = s /\ h.name = n /\ h.type = "local"
           /\ h.block = b /\ h.index = lo
    BY <1>1, <1>5, <2>1 DEF Handle, HandleRec
  <2> QED
    BY <1>7, <2>2 DEF h, s, b, lo
<1> QED
  BY <1>6, <1>7

(* kVarDecl, with its initialiser. *)
LEMMA VarDeclPreserves ==
  ASSUME IInv, NEW n \in Name, NEW ty, NEW e, VarDecl(n, ty, e)
  PROVE  IInv'
<1>1. pc = "stmts" /\ left' \in Budget /\ mScopeList' = mScopeList
  BY HereFacts DEF VarDecl
<1>2. CASE Fail
  BY <1>1, <1>2, SameScopesIInv, FailPreserves
<1> DEFINE h == VarHandle(n)
           id == Len(handles) + 1
           u == ElabExpr(Append(handles, h), e, C.scope).use
           nodes == <<Node("store", id, u)>>
<1>3. CASE /\ CheckName(n) /\ handles' = Append(handles, h)
           /\ \/ /\ h.type = "global"
                 /\ mGlobalVarList' = Append(mGlobalVarList, id)
                 /\ UNCHANGED mVarList
              \/ /\ h.type = "local"
                 /\ mVarList' = [mVarList EXCEPT ![C.block] = Append(@, id)]
                 /\ UNCHANGED mGlobalVarList
           /\ code' = code \/ AddNodes(nodes)
           /\ work' = Rest /\ UNCHANGED <<labels, mFuncList>>
  <2> HIDE DEF nodes
  <2>1. /\ h \in HandleRec /\ h.scope = C.scope /\ h.name = n
        /\ h.type = "global" => h.index = Len(mGlobalVarList)
        /\ h.type = "local" =>
             C.scope # 1 /\ h.block = C.block /\ h.index = Len(mVarList[C.block])
        /\ h.type \in {"global", "local"}
    BY <1>1, VarHandleFacts
  <2> HIDE DEF h
  <2>2. NameFree(h.scope, h.name) /\ h.scope \in DOMAIN mScopeList
    BY <1>1, <1>3, <2>1, CheckedName, HereScope
  <2>3. MiscType'
    BY <1>1, <1>3 DEF IInv, TypeInv, MiscType
  <2>4. /\ mVarList' \in Seq(Seq(Nat)) /\ Len(mVarList') = Len(mVarList)
        /\ mGlobalVarList' \in Seq(Nat) /\ BlocksInv' /\ VariableSlots'
    <3>1. CASE /\ h.type = "global"
               /\ mGlobalVarList' = Append(mGlobalVarList, id)
               /\ UNCHANGED mVarList
      BY <1>1, <1>3, <2>1, <2>2, <3>1, GlobalSlot
    <3>2. CASE /\ h.type = "local"
               /\ mVarList' = [mVarList EXCEPT ![C.block] = Append(@, id)]
               /\ UNCHANGED mGlobalVarList
      <4> DEFINE b == C.block
      <4>1. b \in DOMAIN code
        BY <1>1, RestFacts
      <4>2. /\ h.block = b /\ h.index = Len(mVarList[b])
            /\ mVarList' = [mVarList EXCEPT ![b] = Append(@, id)]
        BY <2>1, <3>2
      <4> HIDE DEF b
      <4> QED
        BY <1>1, <1>3, <2>1, <2>2, <3>2, <4>1, <4>2, LocalSlot
    <3> QED
      BY <1>3, <3>1, <3>2
  <2>5. /\ u \in Opt(Nat)
        /\ u # NULL =>
             /\ u \in DOMAIN handles'
             /\ handles'[u].type \in {"local", "param"} => handles'[u].block = C.block
    BY <1>1, <1>3, <2>1, <2>2, UseAfter
  <2>6. id \in DOMAIN handles' /\ handles'[id] = h /\ id \in Nat
    BY <1>1, <1>3, <2>1, <2>2, OneHandle, SameScopesIInv DEF IInv
  <2> HIDE DEF u, id
  <2>7. nodes \in Seq(NodeRec) /\ \A i \in DOMAIN nodes : OwnedNext(nodes[i], C.block)
    <3> DEFINE a == Node("store", id, u)
    <3>1. a \in NodeRec /\ a.op = "store" /\ a.ref = id /\ a.use = u
      BY <2>5, <2>6 DEF Node, NodeRec, Ops, Opt
    <3> HIDE DEF a
    <3>2. nodes = <<a>>
      BY DEF nodes, a
    <3>3. OwnedNext(a, C.block)
      BY <2>1, <2>5, <2>6, <3>1 DEF OwnedNext, Touched
    <3> QED
      BY <3>1, <3>2, <3>3
  <2>8. code' = code \/ code' = [code EXCEPT ![C.block] = @ \o nodes]
    BY <1>3 DEF AddNodes
  <2> DEFINE new == <<>>
  <2>9. work' = new \o Rest
    BY <1>1, <1>3, RestFacts, ConcatEmptySeq
  <2>10. new \in {<<>>, <<Top>>} /\ Range(new) = {}
    BY DEF Range
  <2> HIDE DEF new
  <2> QED
    BY <1>1, <1>3, <2>1, <2>2, <2>3, <2>4, <2>7, <2>8, <2>9, <2>10, DeclPreserves
<1>4. handles \in Seq(HandleRec) /\ h \in HandleRec
  BY <1>1, VarHandleFacts DEF IInv, TypeInv
<1>5. Len(Append(handles, h)) = id
  BY <1>4, AppendProperties
<1> HIDE DEF h
<1> QED
  BY <1>2, <1>3, <1>5 DEF VarDecl, h

-----------------------------------------------------------------------------
(* Labels of the program.                                                  *)

LEMMA LabelNumbers ==
  ASSUME IInv
  PROVE  /\ start1 \in Nat /\ AnyLabel \subseteq Nat \cup {NULL, WILD}
         /\ \A l \in LabelRec : Append(labels, l) \in Seq(LabelRec)
<1>1. labels \in Seq(LabelRec)
  BY DEF IInv, TypeInv, MiscType
<1> QED
  BY <1>1, LenProperties, AppendProperties DEF start1, AnyLabel

(* A goto or a label of a new name: its handle, and a node. *)
LEMMA NewUserLabel ==
  ASSUME IInv, pc = "stmts", left' \in Budget, mScopeList' = mScopeList, NEW n \in Name,
         Find(handles, C.scope, n) = NULL, labels' \in Seq(LabelRec),
         handles' = Append(handles, Handle("label", n, C.scope, NULL, NULL, start1)),
         NEW op \in {"goto", "label"}, NEW use \in {NULL, Len(handles) + 1},
         AddNodes(<<Node(op, start1, use)>>), work' = Rest, UNCHANGED tables
  PROVE  IInv'
<1> DEFINE h == Handle("label", n, C.scope, NULL, NULL, start1)
           id == Len(handles) + 1
           a == Node(op, start1, use)
<1>1. start1 \in Nat
  BY LabelNumbers
<1>2. h \in HandleRec /\ h.type = "label" /\ h.scope = C.scope /\ h.name = n
  <2>1. n \in Opt(Name) /\ C.scope \in Nat /\ NULL \in Opt(Nat) /\ start1 \in Opt(Nat)
    BY <1>1, HereScope DEF Opt
  <2> QED
    BY <2>1 DEF Handle, HandleRec
<1>3. handles' = Append(handles, h)
  OBVIOUS
<1> HIDE DEF h
<1>4. NameFree(h.scope, h.name) /\ h.scope \in DOMAIN mScopeList
  BY <1>2, NotFound, HereScope
<1>5. id \in DOMAIN handles' /\ handles'[id] = h /\ id \in Nat
  BY <1>2, <1>3, <1>4, OneHandle, SameScopesIInv DEF IInv
<1>6. use = NULL \/ use = id
  OBVIOUS
<1>7. code' = [code EXCEPT ![C.block] = @ \o <<a>>]
  BY DEF AddNodes
<1> HIDE DEF id
<1>8. a \in NodeRec /\ a.op = op /\ a.ref = start1 /\ a.use = use
  BY <1>1, <1>5, <1>6 DEF Node, NodeRec, Ops, Opt
<1> HIDE DEF a
<1>9. OwnedNext(a, C.block)
  BY <1>2, <1>5, <1>6, <1>8 DEF OwnedNext, Touched
<1> DEFINE nodes == <<a>>
<1>10. nodes \in Seq(NodeRec) /\ \A i \in DOMAIN nodes : OwnedNext(nodes[i], C.block)
  BY <1>8, <1>9
<1>11. MiscType'
  BY DEF MiscType
<1>12. code' = [code EXCEPT ![C.block] = @ \o nodes]
  BY <1>7
<1> HIDE DEF nodes
<1> QED
  BY <1>2, <1>3, <1>4, <1>10, <1>11, <1>12, PlainDecl

(* A goto or label node after label_node was used unassigned. *)
LEMMA WildNode ==
  ASSUME IInv, pc = "stmts", left' \in Budget, mScopeList' = mScopeList,
         labels' \in Seq(LabelRec), NEW op \in {"goto", "label"}, NEW l \in AnyLabel,
         NEW use, use = NULL \/ Usable(use),
         AddNodes(<<Node(op, l, use)>>), work' = Rest, UNCHANGED <<handles, tables>>
  PROVE  IInv'
<1> DEFINE a == Node(op, l, use)
<1>1. l \in Nat \cup {NULL, WILD}
  BY LabelNumbers
<1>2. a \in NodeRec /\ NodeOwned(a, C.block)
  BY <1>1, NodeFacts DEF Ops, Opt, Usable
<1>3. code' = [code EXCEPT ![C.block] = @ \o <<a>>]
  BY DEF AddNodes
<1> HIDE DEF a
<1>4. Good(<<a>>)
  BY <1>2, GoodOne
<1>5. MiscType' /\ ScopesGrow
  BY SameScopesIInv DEF MiscType
<1> QED
  BY <1>3, <1>4, <1>5, DonePreserves DEF Good

LEMMA GotoPreserves ==
  ASSUME IInv, NEW n \in Name, Goto(n)
  PROVE  IInv'
<1> DEFINE h == Find(handles, C.scope, n)
<1>1. pc = "stmts" /\ left' \in Budget /\ mScopeList' = mScopeList
  BY HereFacts DEF Goto
<1>2. CASE Fail
  BY <1>1, <1>2, SameScopesIInv, FailPreserves
<1>3. CASE Abort
  BY <1>1, <1>3, AbortPreserves
<1>4. CASE /\ h = NULL
           /\ labels' = Append(labels, NewLabel("user"))
           /\ handles' = Append(handles, Handle("label", n, C.scope, NULL, NULL, start1))
           /\ AddNodes(<<Node("goto", start1, Len(handles) + 1)>>)
           /\ work' = Rest /\ UNCHANGED tables
  <2>1. NewLabel("user") \in LabelRec
    BY DEF NewLabel, LabelRec
  <2>2. labels' \in Seq(LabelRec)
    BY <1>4, <2>1, LabelNumbers
  <2> QED
    BY <1>1, <1>4, <2>2, NewUserLabel
<1>5. CASE /\ h # NULL
           /\ \E l \in AnyLabel : AddNodes(<<Node("goto", l, h)>>)
           /\ work' = Rest /\ UNCHANGED <<handles, labels, tables>>
  <2>1. Usable(h)
    BY <1>1, <1>5, FoundUsable
  <2>2. labels' \in Seq(LabelRec)
    BY <1>5 DEF IInv, TypeInv, MiscType
  <2> HIDE DEF h
  <2> QED
    BY <1>1, <1>5, <2>1, <2>2, WildNode
<1> QED
  BY <1>2, <1>3, <1>4, <1>5 DEF Goto

LEMMA LabelPreserves ==
  ASSUME IInv, NEW n \in Name, Label(n)
  PROVE  IInv'
<1> DEFINE h == Find(handles, C.scope, n)
<1>1. pc = "stmts" /\ left' \in Budget /\ mScopeList' = mScopeList /\ ScopesGrow
  BY HereFacts, SameScopesIInv DEF Label
<1>2. CASE Fail
  BY <1>1, <1>2, FailPreserves
<1>3. CASE Abort
  BY <1>1, <1>3, AbortPreserves
<1>4. CASE /\ h = NULL
           /\ labels' = Append(labels, [defined |-> TRUE, role |-> "user"])
           /\ handles' = Append(handles, Handle("label", n, C.scope, NULL, NULL, start1))
           /\ AddNodes(<<Node("label", start1, NULL)>>)
           /\ work' = Rest /\ UNCHANGED tables
  <2>1. [defined |-> TRUE, role |-> "user"] \in LabelRec
    BY DEF LabelRec
  <2>2. labels' \in Seq(LabelRec)
    BY <1>4, <2>1, LabelNumbers
  <2> QED
    BY <1>1, <1>4, <2>2, NewUserLabel
<1>5. CASE /\ work' = Rest /\ UNCHANGED <<handles, tables, labels, code>>
  <2>1. MiscType'
    BY <1>1, <1>5 DEF IInv, TypeInv, MiscType
  <2> DEFINE nodes == <<>>
  <2>2. nodes \in Seq(NodeRec) /\ \A i \in DOMAIN nodes : NodeOwned(nodes[i], C.block)
    BY EmptySeq, EmptyIsSeq
  <2> HIDE DEF nodes
  <2> QED
    BY <1>1, <1>5, <2>1, <2>2, DonePreserves
<1>6. ASSUME NEW l \in AnyLabel,
             labels' = IF l = WILD THEN labels ELSE [labels EXCEPT ![l].defined = TRUE],
             AddNodes(<<Node("label", l, NULL)>>), work' = Rest,
             UNCHANGED <<handles, tables>>
      PROVE  IInv'
  <2>1. labels \in Seq(LabelRec)
    BY DEF IInv, TypeInv, MiscType
  <2>2. labels' \in Seq(LabelRec)
    <3>1. CASE l = WILD
      BY <1>6, <2>1, <3>1
    <3>2. CASE l # WILD
      <4> DEFINE r == [labels[l] EXCEPT !.defined = TRUE]
      <4>1. l \in DOMAIN labels
        BY <3>2 DEF AnyLabel
      <4>2. labels[l] \in LabelRec
        BY <2>1, <4>1, ElementOfSeq, LenProperties
      <4>3. r \in LabelRec
        BY <4>2 DEF LabelRec
      <4>4. labels' = [labels EXCEPT ![l] = r]
        BY <1>6, <3>2
      <4> HIDE DEF r
      <4> QED
        BY <2>1, <4>1, <4>3, <4>4, ExceptSeq
    <3> QED
      BY <3>1, <3>2
  <2> QED
    BY <1>1, <1>6, <2>2, WildNode
<1> QED
  BY <1>2, <1>3, <1>4, <1>5, <1>6 DEF Label

-----------------------------------------------------------------------------
(* Functions.                                                              *)

(* The scope of a function sees itself and the toplevel scope. *)
LEMMA FuncScope ==
  ASSUME IInv, pc = "stmts",
         mScopeList' = Append(mScopeList, NewScope(FuncScopeParent(C.scope), NULL))
  PROVE  /\ ScopesGrow /\ NewS \in DOMAIN mScopeList'
         /\ mScopeList'[NewS].chain = {NewS, 1} /\ mScopeList'[NewS].name = NULL
         /\ NewS \in Nat /\ NewS \notin DOMAIN mScopeList
<1> DEFINE s == C.scope
           p == FuncScopeParent(s)
<1>1. TypeInv /\ ScopeInv /\ s \in DOMAIN mScopeList
  BY HereScope DEF IInv
<1>2. 1 \in DOMAIN mScopeList /\ ScopeOK(1) /\ ScopeOK(s)
  BY <1>1, ScopeNumbers DEF ScopeInv
<1> HIDE DEF s
<1>3. p = 1
  BY <1>2, IrMgrAssumption DEF FuncScopeParent, ScopeOK
<1>4. mScopeList' = Append(mScopeList, NewScope(p, NULL))
  BY DEF s
<1> HIDE DEF p
<1>5. /\ ScopesGrow /\ NewS \in DOMAIN mScopeList'
      /\ mScopeList'[NewS].chain = {NewS} \cup Chain(1)
      /\ mScopeList'[NewS].name = NULL
  BY <1>1, <1>2, <1>3, <1>4, NewScopeGrows DEF Opt
<1>6. Chain(1) = {1}
  BY <1>2 DEF ScopeOK
<1> QED
  BY <1>1, <1>5, <1>6, ScopeNumbers

LEMMA ParamFacts ==
  ASSUME NEW ps \in Seq(Name), NEW s \in Nat, NEW b \in Nat, NEW m \in 0 .. Len(ps)
  PROVE  LET P == SubSeq(Params(ps, s, b), 1, m) IN
         /\ P \in Seq(HandleRec)
         /\ DOMAIN P = 1 .. m
         /\ \A i \in DOMAIN P : /\ P[i].type = "param" /\ P[i].scope = s /\ P[i].block = b
                                /\ P[i].index + 1 = i
<1> DEFINE A == Params(ps, s, b)
           P == SubSeq(A, 1, m)
           Ok(x, i) == /\ x \in HandleRec /\ x.type = "param" /\ x.scope = s /\ x.block = b
                       /\ x.index + 1 = i
<1>1. Len(ps) \in Nat /\ DOMAIN ps = 1 .. Len(ps) /\ m \in Nat /\ m <= Len(ps)
  BY LenProperties
<1>2. \A i \in DOMAIN ps : Ok(A[i], i)
  <2> TAKE i \in DOMAIN ps
  <2>1. /\ ps[i] \in Opt(Name) /\ i - 1 \in Opt(Nat) /\ b \in Opt(Nat) /\ NULL \in Opt(Nat)
        /\ i - 1 + 1 = i
    BY <1>1, ElementOfSeq DEF Opt
  <2>2. A[i] = Handle("param", ps[i], s, b, i - 1, NULL)
    BY DEF Params
  <2> HIDE DEF A
  <2> QED
    BY <2>1, <2>2 DEF Handle, HandleRec
<1>3. DOMAIN A = 1 .. Len(ps)
  BY <1>1 DEF Params
<1>4. P = [i \in 1 .. m |-> A[i]]
  <2> HIDE DEF A
  <2>1. P = [i \in 1 .. (m - 1 + 1) |-> A[1 + i - 1]]
    BY <1>1
  <2>2. m - 1 + 1 = m /\ \A i \in 1 .. m : 1 + i - 1 = i
    BY <1>1
  <2> QED
    BY <2>1, <2>2
<1> HIDE DEF A, P, Ok
<1>5. \A i \in 1 .. m : Ok(P[i], i)
  BY <1>1, <1>2, <1>4
<1>6. P \in [1 .. m -> HandleRec] /\ DOMAIN P = 1 .. m
  BY <1>4, <1>5 DEF Ok
<1>7. P \in Seq(HandleRec)
  BY <1>1, <1>6, SeqDef
<1> QED
  BY <1>5, <1>6, <1>7 DEF Ok, P, A

(* A parameter of the function whose scope the step makes, in block b. *)
IsParam(h, b) == h.type = "param" /\ h.scope = NewS /\ h.block = b

LEMMA KnownFacts ==
  ASSUME IInv, NEW P \in Seq(HandleRec), NEW b, \A i \in DOMAIN P : IsParam(P[i], b)
  PROVE  LET K == handles \o P IN
         /\ K \in Seq(HandleRec)
         /\ \A h \in DOMAIN handles : h \in DOMAIN K /\ K[h] = handles[h]
         /\ \A h \in DOMAIN K : h \in DOMAIN handles \/ IsParam(K[h], b)
         /\ \A i \in DOMAIN P : Len(handles) + i \in DOMAIN K /\ K[Len(handles) + i] = P[i]
<1> DEFINE K == handles \o P
           n == Len(handles)
<1>1. handles \in Seq(HandleRec) /\ n \in Nat /\ DOMAIN handles = 1 .. n
      /\ Len(P) \in Nat /\ DOMAIN P = 1 .. Len(P)
  BY LenProperties DEF IInv, TypeInv
<1>2. /\ K \in Seq(HandleRec) /\ Len(K) = n + Len(P)
      /\ \A i \in 1 .. n + Len(P) : K[i] = IF i <= n THEN handles[i] ELSE P[i - n]
  BY <1>1, ConcatProperties
<1> HIDE DEF K, n
<1>3. DOMAIN K = 1 .. n + Len(P)
  BY <1>2, LenProperties
<1>4. \A h \in DOMAIN handles : h \in DOMAIN K /\ K[h] = handles[h]
  BY <1>1, <1>2, <1>3
<1>5. ASSUME NEW h \in DOMAIN K, h \notin DOMAIN handles
      PROVE  IsParam(K[h], b)
  <2>1. h - n \in DOMAIN P /\ K[h] = P[h - n]
    BY <1>1, <1>2, <1>3, <1>5
  <2> QED
    BY <2>1
<1>6. ASSUME NEW i \in DOMAIN P
      PROVE  n + i \in DOMAIN K /\ K[n + i] = P[i]
  <2> DEFINE k == n + i
  <2>1. k \in 1 .. n + Len(P) /\ ~ (k <= n) /\ k - n = i
    BY <1>1
  <2> HIDE DEF k
  <2>2. k \in DOMAIN K /\ K[k] = P[k - n]
    BY <1>2, <1>3, <2>1
  <2>3. k \in DOMAIN K /\ K[k] = P[i]
    BY <2>1, <2>2
  <2> QED
    BY <2>3 DEF k
<1>7. \A i \in DOMAIN P : n + i \in DOMAIN K /\ K[n + i] = P[i]
  BY <1>6
<1>8. \A h \in DOMAIN K : h \in DOMAIN handles \/ IsParam(K[h], b)
  BY <1>5
<1> QED
  BY <1>2, <1>4, <1>7, <1>8 DEF K, n

(* The handles reg_func adds, all but f parameters. *)
Declares(b, f, s, n) ==
  \A h \in DOMAIN handles' :
    \/ h \in DOMAIN handles
    \/ IsParam(handles'[h], b)
    \/ h = f /\ handles'[h].type = "func" /\ handles'[h].scope = s /\ handles'[h].name = n

(* reg_func declares parameters in a scope of their own, and then perhaps  *)
(* the function: names stay unique, and no variable changes its slot.      *)
LEMMA FuncNames ==
  ASSUME IInv, ScopesGrow, HandlesGrow, NewS \notin DOMAIN mScopeList, NEW b,
         NEW s \in DOMAIN mScopeList, NEW n, NameFree(s, n), NEW f, Declares(b, f, s, n)
  PROVE  NamesUnique'
<1>1. \A h \in DOMAIN handles : handles[h].scope \in DOMAIN mScopeList /\ handles'[h] = handles[h]
  BY DEF IInv, ScopeInv, HandlesGrow
<1>2. \A t \in DOMAIN mScopeList : mScopeList'[t] = mScopeList[t]
  BY DEF ScopesGrow
<1>3. ASSUME NEW g \in DOMAIN handles', NEW k \in DOMAIN handles',
             handles'[g].scope = handles'[k].scope, handles'[g].name = handles'[k].name,
             mScopeList'[handles'[g].scope].name = NULL, g # k
      PROVE  handles'[g].type = "param" /\ handles'[k].type = "param"
  <2>1. CASE g \in DOMAIN handles /\ k \in DOMAIN handles
    BY <1>1, <1>2, <1>3, <2>1 DEF IInv, NamesUnique
  <2>2. CASE IsParam(handles'[g], b) \/ IsParam(handles'[k], b)
    BY <1>1, <1>3, <2>2 DEF IsParam, Declares
  <2>3. CASE g = f /\ handles'[g].scope = s /\ handles'[g].name = n /\ k \in DOMAIN handles
    BY <1>1, <1>2, <1>3, <2>3 DEF NameFree
  <2>4. CASE k = f /\ handles'[k].scope = s /\ handles'[k].name = n /\ g \in DOMAIN handles
    BY <1>1, <1>2, <1>3, <2>4 DEF NameFree
  <2> QED
    BY <1>3, <2>1, <2>2, <2>3, <2>4 DEF Declares
<1> QED
  BY <1>3 DEF NamesUnique

LEMMA FuncSlots ==
  ASSUME IInv, HandlesGrow,
         \A h \in DOMAIN handles' : h \in DOMAIN handles \/ handles'[h].type \in {"param", "func"},
         \A a \in DOMAIN mVarList : a \in DOMAIN mVarList' /\ mVarList'[a] = mVarList[a],
         mGlobalVarList' = mGlobalVarList
  PROVE  BlocksInv' /\ VariableSlots'
<1>1. BlocksInv /\ VariableSlots
  BY DEF IInv
<1>2. \A h \in DOMAIN handles' :
        handles'[h].type \in {"local", "global"} => h \in DOMAIN handles /\ handles'[h] = handles[h]
  BY DEF HandlesGrow
<1>3. BlocksInv'
  BY <1>1, <1>2 DEF BlocksInv
<1>4. ASSUME NEW h \in DOMAIN handles', handles'[h].type = "local"
      PROVE  /\ handles'[h].index + 1 \in DOMAIN mVarList'[handles'[h].block]
             /\ mVarList'[handles'[h].block][handles'[h].index + 1] = h
  BY <1>1, <1>2, <1>4 DEF BlocksInv, VariableSlots
<1>5. ASSUME NEW h \in DOMAIN handles', handles'[h].type = "global"
      PROVE  /\ handles'[h].index + 1 \in DOMAIN mGlobalVarList'
             /\ mGlobalVarList'[handles'[h].index + 1] = h
  BY <1>1, <1>2, <1>5 DEF VariableSlots
<1>6. VariableSlots'
  BY <1>4, <1>5 DEF VariableSlots
<1> QED
  BY <1>3, <1>6

(* reg_func gives up at a default value: some parameters are declared. *)
LEMMA FuncFails ==
  ASSUME IInv, pc = "stmts", left' \in Budget,
         mScopeList' = Append(mScopeList, NewScope(FuncScopeParent(C.scope), NULL)),
         NEW n, CheckName(n), NEW P \in Seq(HandleRec), NEW b,
         \A i \in DOMAIN P : IsParam(P[i], b), handles' = handles \o P,
         work' = Rest, UNCHANGED <<labels, code, tables>>
  PROVE  IInv'
<1>1. /\ ScopesGrow /\ NewS \in DOMAIN mScopeList' /\ NewS \notin DOMAIN mScopeList
  BY FuncScope
<1>2. /\ handles' \in Seq(HandleRec)
      /\ \A h \in DOMAIN handles : h \in DOMAIN handles' /\ handles'[h] = handles[h]
      /\ \A h \in DOMAIN handles' : h \in DOMAIN handles \/ IsParam(handles'[h], b)
  BY KnownFacts
<1>3. HandlesGrow
  <2>1. \A h \in DOMAIN handles : handles[h].scope \in DOMAIN mScopeList'
    BY <1>1 DEF IInv, ScopeInv, ScopesGrow
  <2> QED
    BY <1>1, <1>2, <2>1 DEF HandlesGrow, IsParam
<1>4. NameFree(C.scope, n) /\ C.scope \in DOMAIN mScopeList
  BY CheckedName, HereScope
<1>5. NamesUnique'
  <2>1. Declares(b, 0, C.scope, n)
    BY <1>2 DEF Declares
  <2> QED
    BY <1>1, <1>3, <1>4, <2>1, FuncNames
<1>6. BlocksInv' /\ VariableSlots'
  BY <1>2, <1>3, FuncSlots DEF tables, IsParam
<1>7. ArgumentSlots' /\ FuncIndexExact'
  <2>1. ArgumentSlots /\ FuncIndexExact /\ mFuncList' = mFuncList
    BY DEF IInv, tables
  <2>2. ArgumentSlots'
    BY <1>2, <2>1 DEF ArgumentSlots
  <2>3. \A h \in DOMAIN handles' :
          handles'[h].type = "func" => h \in DOMAIN handles /\ handles'[h] = handles[h]
    BY <1>2 DEF IsParam
  <2>4. FuncIndexExact'
    BY <2>1, <2>3 DEF FuncIndexExact
  <2> QED
    BY <2>2, <2>4
<1>8. code' = code /\ CodeInv'
  BY <1>3, SameCode DEF IInv
<1> DEFINE new == <<>>
<1>9. new \in Seq(TaskRec) /\ Range(new) = {} /\ DOMAIN new = {}
  BY EmptySeq, EmptyIsSeq DEF Range
<1>10. work' = new \o Rest
  BY RestFacts, ConcatEmptySeq
<1> HIDE DEF new
<1>11. ScopeInv' /\ WorkInv' /\ LocalsInv' /\ work' \in Seq(TaskRec)
  <2>1. \A h \in DOMAIN handles' \ DOMAIN handles : LocalFits(handles'[h], new)
    BY <1>2, <1>9 DEF LocalFits, IsParam
  <2> QED
    BY <1>1, <1>3, <1>8, <1>9, <1>10, <2>1, WorkStep
<1>12. TypeInv'
  BY <1>1, <1>2, <1>11 DEF IInv, TypeInv, ScopesGrow, MiscType, tables
<1> QED
  BY <1>5, <1>6, <1>7, <1>8, <1>11, <1>12 DEF IInv

(* reg_func succeeds: parameters, handle, block and the call for the body. *)
LEMMA FuncSucceeds ==
  ASSUME IInv, pc = "stmts", left' \in Budget,
         mScopeList' = Append(mScopeList, NewScope(FuncScopeParent(C.scope), NULL)),
         NEW n \in Name, CheckName(n), NEW P \in Seq(HandleRec), NEW b, b = Len(code) + 1,
         \A i \in DOMAIN P : IsParam(P[i], b) /\ P[i].index + 1 = i,
         NEW args \in Seq(Nat), DOMAIN args = DOMAIN P,
         \A i \in DOMAIN args : args[i] = Len(handles) + i,
         handles' = Append(handles \o P,
                           Handle("func", n, C.scope, b, NextFuncIndex(C.scope), NULL)),
         mFuncList' = Append(mFuncList, [handle |-> Len(handles'), block |-> b, args |-> args]),
         code' = Append(code, <<>>), mVarList' = Append(mVarList, <<>>),
         work' = <<Task("block", FuncContext(C, NewS, b), NULL)>> \o Rest,
         UNCHANGED <<labels, mGlobalVarList>>
  PROVE  IInv'
<1> DEFINE K == handles \o P
           ix == Len(mFuncList)
           s == C.scope
           F == Handle("func", n, s, b, ix, NULL)
           f == Len(K) + 1
           fr == [handle |-> f, block |-> b, args |-> args]
<1>1. /\ ScopesGrow /\ NewS \in DOMAIN mScopeList' /\ NewS \notin DOMAIN mScopeList
      /\ mScopeList'[NewS].chain = {NewS, 1} /\ NewS \in Nat
  BY FuncScope
<1>2. TypeInv /\ ScopeInv /\ CodeInv /\ ArgumentSlots /\ FuncIndexExact
  BY DEF IInv
<1>3. /\ K \in Seq(HandleRec)
      /\ \A h \in DOMAIN handles : h \in DOMAIN K /\ K[h] = handles[h]
      /\ \A h \in DOMAIN K : h \in DOMAIN handles \/ IsParam(K[h], b)
      /\ \A i \in DOMAIN args : args[i] \in DOMAIN K /\ K[args[i]] = P[i]
  <2>1. \A i \in DOMAIN P : IsParam(P[i], b)
    OBVIOUS
  <2> HIDE DEF K
  <2>2. /\ K \in Seq(HandleRec)
        /\ \A h \in DOMAIN handles : h \in DOMAIN K /\ K[h] = handles[h]
        /\ \A h \in DOMAIN K : h \in DOMAIN handles \/ IsParam(K[h], b)
        /\ \A i \in DOMAIN P : Len(handles) + i \in DOMAIN K /\ K[Len(handles) + i] = P[i]
    BY <2>1, KnownFacts DEF K
  <2> QED
    BY <2>2
<1>4. NameFree(s, n) /\ s \in DOMAIN mScopeList /\ s \in Nat
  BY CheckedName, HereScope
<1>5. Len(code) \in Nat /\ b \in Nat /\ ix \in Nat
  BY <1>2, LenProperties DEF TypeInv
<1>6. handles' = Append(K, F)
  BY DEF NextFuncIndex
<1> HIDE DEF ix, s, K
<1>7. F \in HandleRec /\ F.type = "func" /\ F.name = n /\ F.scope = s /\ F.block = b /\ F.index = ix
  <2>1. n \in Opt(Name) /\ b \in Opt(Nat) /\ ix \in Opt(Nat) /\ NULL \in Opt(Nat)
    BY <1>5 DEF Opt
  <2> QED
    BY <1>4, <2>1 DEF Handle, HandleRec
<1> HIDE DEF F
<1>8. /\ handles' \in Seq(HandleRec) /\ Len(handles') = f
      /\ \A i \in 1 .. Len(K) : handles'[i] = K[i]
      /\ handles'[f] = F
  <2>1. /\ Append(K, F) \in Seq(HandleRec) /\ Len(Append(K, F)) = Len(K) + 1
        /\ \A i \in 1 .. Len(K) : Append(K, F)[i] = K[i]
        /\ Append(K, F)[Len(K) + 1] = F
    BY ONLY <1>3, <1>7, AppendProperties
  <2> QED
    BY <1>6, <2>1
<1>9. Len(K) \in Nat /\ DOMAIN K = 1 .. Len(K) /\ DOMAIN handles' = 1 .. f
  BY <1>3, <1>8, LenProperties
<1>10. /\ DOMAIN handles' = DOMAIN K \cup {f} /\ f \notin DOMAIN K /\ f \in Nat
       /\ \A h \in DOMAIN K : handles'[h] = K[h]
  <2>1. 1 .. Len(K) + 1 = 1 .. Len(K) \cup {Len(K) + 1} /\ Len(K) + 1 \notin 1 .. Len(K)
    BY ONLY <1>9
  <2>2. DOMAIN handles' = DOMAIN K \cup {f} /\ f \notin DOMAIN K /\ f \in Nat
    BY <1>9, <2>1
  <2>3. \A h \in DOMAIN K : handles'[h] = K[h]
    BY <1>8, <1>9
  <2> QED
    BY <2>2, <2>3
<1>11. /\ mFuncList' = Append(mFuncList, fr) /\ fr \in FuncRec
       /\ fr.handle = f /\ fr.block = b /\ fr.args = args
  BY <1>5, <1>8, <1>10 DEF FuncRec
<1> HIDE DEF f, fr
<1>12. /\ \A h \in DOMAIN handles : h \in DOMAIN handles' /\ handles'[h] = handles[h]
       /\ \A h \in DOMAIN handles' :
            \/ h \in DOMAIN handles
            \/ IsParam(handles'[h], b)
            \/ h = f /\ handles'[h] = F
       /\ f \notin DOMAIN handles
  BY <1>3, <1>8, <1>10
<1>13. HandlesGrow
  <2>1. \A h \in DOMAIN handles : handles[h].scope \in DOMAIN mScopeList'
    BY <1>1, <1>2 DEF ScopeInv, ScopesGrow
  <2>2. s \in DOMAIN mScopeList'
    BY <1>1, <1>4 DEF ScopesGrow
  <2> QED
    BY <1>1, <1>7, <1>8, <1>12, <2>1, <2>2 DEF HandlesGrow, IsParam
<1>14. NamesUnique'
  <2>1. Declares(b, f, s, n)
    BY <1>7, <1>12 DEF Declares
  <2> QED
    BY <1>1, <1>4, <1>13, <2>1, FuncNames
<1>15. /\ mVarList' \in Seq(Seq(Nat)) /\ Len(mVarList') = Len(mVarList) + 1
       /\ \A a \in DOMAIN mVarList : a \in DOMAIN mVarList' /\ mVarList'[a] = mVarList[a]
  <2>1. mVarList \in Seq(Seq(Nat)) /\ <<>> \in Seq(Nat)
    BY <1>2, EmptySeq DEF TypeInv
  <2> DEFINE v == <<>>
  <2> HIDE DEF v
  <2>2. mVarList' = Append(mVarList, v) /\ v \in Seq(Nat)
    BY <2>1 DEF v
  <2>3. IsSeq(mVarList)
    BY <2>1, SeqIsSeq
  <2>4. /\ Len(mVarList') = Len(mVarList) + 1
        /\ DOMAIN mVarList' = 1 .. Len(mVarList) + 1
        /\ \A i \in 1 .. Len(mVarList) : mVarList'[i] = mVarList[i]
    BY <2>2, <2>3, AppendIsSeq
  <2>5. mVarList' \in Seq(Seq(Nat))
    BY <2>1, <2>2, AppendProperties
  <2>6. Len(mVarList) \in Nat /\ DOMAIN mVarList = 1 .. Len(mVarList)
    BY <2>1, LenProperties
  <2> QED
    BY <2>4, <2>5, <2>6
<1>16. BlocksInv' /\ VariableSlots'
  <2>1. \A h \in DOMAIN handles' : h \in DOMAIN handles \/ handles'[h].type \in {"param", "func"}
    BY <1>7, <1>12 DEF IsParam
  <2> QED
    BY <1>13, <1>15, <2>1, FuncSlots
<1>17. /\ mFuncList' \in Seq(FuncRec)
       /\ \A i \in DOMAIN mFuncList : i \in DOMAIN mFuncList' /\ mFuncList'[i] = mFuncList[i]
       /\ ix + 1 \in DOMAIN mFuncList' /\ mFuncList'[ix + 1] = fr
       /\ DOMAIN mFuncList' = DOMAIN mFuncList \cup {ix + 1}
  <2>1. mFuncList \in Seq(FuncRec)
    BY <1>2 DEF TypeInv
  <2>2. /\ mFuncList' \in Seq(FuncRec)
        /\ Len(mFuncList') = Len(mFuncList) + 1
        /\ \A i \in 1 .. Len(mFuncList) : mFuncList'[i] = mFuncList[i]
        /\ mFuncList'[Len(mFuncList) + 1] = fr
    BY <1>11, <2>1, AppendProperties
  <2>3. /\ Len(mFuncList) \in Nat /\ DOMAIN mFuncList = 1 .. Len(mFuncList)
        /\ DOMAIN mFuncList' = 1 .. Len(mFuncList) + 1
    BY <2>1, <2>2, LenProperties
  <2>4. DOMAIN mFuncList' = DOMAIN mFuncList \cup {Len(mFuncList) + 1}
    BY <2>3
  <2> QED
    BY <2>2, <2>3, <2>4 DEF ix
<1>18. FuncIndexExact'
  <2>1. ASSUME NEW h \in DOMAIN handles', handles'[h].type = "func"
        PROVE  /\ handles'[h].index + 1 \in DOMAIN mFuncList'
               /\ mFuncList'[handles'[h].index + 1].handle = h
               /\ mFuncList'[handles'[h].index + 1].block = handles'[h].block
    <3>1. CASE h \in DOMAIN handles
      <4>1. handles'[h] = handles[h]
        BY <1>12, <3>1
      <4>2. /\ handles[h].index + 1 \in DOMAIN mFuncList
            /\ mFuncList[handles[h].index + 1].handle = h
            /\ mFuncList[handles[h].index + 1].block = handles[h].block
        BY <1>2, <2>1, <3>1, <4>1 DEF FuncIndexExact
      <4> QED
        BY <1>17, <4>1, <4>2
    <3>2. CASE h = f /\ handles'[h] = F
      BY <1>7, <1>11, <1>17, <3>2
    <3> QED
      BY <1>12, <2>1, <3>1, <3>2 DEF IsParam
  <2> QED
    BY <2>1 DEF FuncIndexExact
<1>29. ArgumentSlots'
  <2>1. ASSUME NEW g \in DOMAIN mFuncList', NEW i \in DOMAIN mFuncList'[g].args
        PROVE  LET h == mFuncList'[g].args[i]
               IN  /\ h \in DOMAIN handles'
                   /\ handles'[h].type = "param" /\ handles'[h].block = mFuncList'[g].block
                   /\ handles'[h].index + 1 = i
    <3>1. CASE g \in DOMAIN mFuncList
      <4> DEFINE h == mFuncList[g].args[i]
      <4>1. mFuncList'[g] = mFuncList[g] /\ i \in DOMAIN mFuncList[g].args
        BY <1>17, <2>1, <3>1
      <4>2. /\ h \in DOMAIN handles
            /\ handles[h].type = "param" /\ handles[h].block = mFuncList[g].block
            /\ handles[h].index + 1 = i
        BY <1>2, <3>1, <4>1 DEF ArgumentSlots
      <4> HIDE DEF h
      <4>3. h \in DOMAIN handles' /\ handles'[h] = handles[h] /\ mFuncList'[g].args[i] = h
        BY <1>12, <4>1, <4>2 DEF h
      <4> QED
        BY <4>1, <4>2, <4>3
    <3>2. CASE g = ix + 1
      <4>1. mFuncList'[g].args = args /\ mFuncList'[g].block = b /\ i \in DOMAIN args
        BY <1>11, <1>17, <2>1, <3>2
      <4>2. args[i] \in DOMAIN handles' /\ handles'[args[i]] = P[i]
        BY <1>3, <1>10, <4>1
      <4>3. P[i].type = "param" /\ P[i].block = b /\ P[i].index + 1 = i
        BY <4>1 DEF IsParam
      <4> QED
        BY <4>1, <4>2, <4>3
    <3> QED
      BY <1>17, <3>1, <3>2
  <2> QED
    BY <2>1 DEF ArgumentSlots
<1>19. /\ code' \in Seq(Seq(NodeRec)) /\ Len(code') = Len(code) + 1 /\ CodeInv'
       /\ b \in DOMAIN code' /\ \A a \in DOMAIN code : a \in DOMAIN code'
  <2> DEFINE v == <<>>
  <2>1. v \in Seq(NodeRec) /\ DOMAIN v = {} /\ code \in Seq(Seq(NodeRec))
    BY <1>2, EmptySeq, EmptyIsSeq DEF TypeInv
  <2> HIDE DEF v
  <2>2. code' = Append(code, v)
    BY DEF v
  <2>3. /\ code' \in Seq(Seq(NodeRec)) /\ Len(code') = Len(code) + 1
        /\ \A i \in 1 .. Len(code) : code'[i] = code[i]
        /\ code'[Len(code) + 1] = v
    BY <2>1, <2>2, AppendProperties
  <2>4. DOMAIN code = 1 .. Len(code) /\ DOMAIN code' = 1 .. Len(code) + 1
    BY <2>1, <2>3, LenProperties
  <2>5. ASSUME NEW a \in DOMAIN code', NEW i \in DOMAIN code'[a]
        PROVE  OwnedNext(code'[a][i], a)
    <3>1. a \in DOMAIN code /\ code'[a] = code[a]
      BY <1>5, <2>1, <2>3, <2>4, <2>5
    <3>2. NodeOwned(code[a][i], a)
      BY <1>2, <2>5, <3>1 DEF CodeInv
    <3> QED
      BY <1>13, <3>1, <3>2, OwnedGrows
  <2>6. CodeInv'
    BY <2>5, CodeInvNext
  <2> QED
    BY <1>5, <2>3, <2>4, <2>6
<1> DEFINE c == FuncContext(C, NewS, b)
<1>20. PICK w : w = Task("block", c, NULL)
  OBVIOUS
<1>21. c \in Ctx /\ c.scope = NewS /\ c.block = b
  BY <1>1, <1>5 DEF FuncContext, Ctx, Opt
<1>22. work' = <<w>> \o Rest
  BY <1>20
<1> HIDE DEF c
<1>23. w \in TaskRec /\ w.kind = "block" /\ w.c = c /\ w.arg = NULL
  BY <1>20, <1>21, TaskFacts DEF TaskKinds, Arg
<1> DEFINE new == <<w>>
<1>24. new \in Seq(TaskRec) /\ Range(new) = {w} /\ DOMAIN new = {1}
  BY <1>23, OneTask
<1>25. TaskOK(w)'
  BY <1>1, <1>19, <1>21, <1>23 DEF TaskOK
<1>26. Fits(w.c)
  BY <1>1, <1>21, <1>23 DEF Fits
<1> HIDE DEF new
<1>27. ScopeInv' /\ WorkInv' /\ LocalsInv' /\ work' \in Seq(TaskRec)
  <2>1. \A h \in DOMAIN handles' \ DOMAIN handles : IsLocal(h)' => LocalFits(handles'[h], new)
    BY <1>7, <1>12, <1>21, <1>23, <1>24 DEF LocalFits, IsParam, IsLocal
  <2>2. \A k \in DOMAIN new : k > 1 => new[k].kind # "enum"
    BY <1>24
  <2>3. \A v \in Range(new) : Fits(v.c) /\ TaskOK(v)'
    BY <1>24, <1>25, <1>26
  <2>4. \A u, v \in Range(new) :
           u.c.scope = NewS /\ v.c.scope = NewS => u.c.block = v.c.block
    BY <1>24
  <2>5. work' = new \o Rest
    BY <1>22 DEF new
  <2> QED
    BY <1>1, <1>13, <1>19, <1>24, <2>1, <2>2, <2>3, <2>4, <2>5, WorkStep
<1>28. TypeInv'
  BY <1>1, <1>2, <1>8, <1>15, <1>17, <1>19, <1>27 DEF TypeInv, ScopesGrow, MiscType
<1> QED
  BY <1>14, <1>16, <1>18, <1>19, <1>27, <1>28, <1>29 DEF IInv

LEMMA FuncDeclPreserves ==
  ASSUME IInv, NEW n \in Name, NEW ty, NEW ps \in Seq(Name), NEW ds, FuncDecl(n, ty, ps, ds)
  PROVE  IInv'
<1> DEFINE fs    == Len(mScopeList) + 1
           blk   == Len(code) + 1
           r     == [i \in DOMAIN ps |-> ElabExpr(handles, ds[i], C.scope)]
           bad   == {i \in DOMAIN ps : r[i].status \notin {"none", "ok"}}
           upto  == IF bad = {} THEN Len(ps) ELSE Min(bad)
           P     == SubSeq(Params(ps, fs, blk), 1, upto)
<1>1. pc = "stmts" /\ left' \in Budget
  BY HereFacts, Zenon DEF FuncDecl
<1>2. CASE Fail /\ UNCHANGED mScopeList
  BY <1>1, <1>2, SameScopesIInv, FailPreserves
<1>3. CASE Abort
  BY <1>1, <1>3, AbortPreserves
<1>4. CASE /\ mScopeList' = Append(mScopeList, NewScope(FuncScopeParent(C.scope), NULL))
           /\ Fail
  BY <1>1, <1>4, FuncScope, FailPreserves
<1>5. upto \in 0 .. Len(ps)
  <2>1. Len(ps) \in Nat /\ DOMAIN ps = 1 .. Len(ps)
    BY LenProperties
  <2>2. bad \subseteq 1 .. Len(ps)
    BY <2>1
  <2> HIDE DEF bad
  <2>3. CASE bad = {}
    BY <2>1, <2>3
  <2>4. CASE bad # {}
    <3>1. bad \subseteq Nat
      BY <2>1, <2>2
    <3>2. \E x \in bad : \A y \in bad : x <= y
      BY <2>4, <3>1, LeastExists
    <3>3. Min(bad) \in bad
      BY <3>2 DEF Min
    <3> DEFINE m == Min(bad)
    <3>4. m \in 1 .. Len(ps)
      BY <2>2, <3>3, Zenon
    <3>5. upto = m
      BY <2>4
    <3> HIDE DEF m, upto
    <3> QED
      BY <2>1, <3>4, <3>5
  <2> QED
    BY <2>3, <2>4
<1> HIDE DEF upto, bad, r
<1>6. /\ P \in Seq(HandleRec) /\ DOMAIN P = 1 .. upto
      /\ \A i \in DOMAIN P : IsParam(P[i], blk) /\ P[i].index + 1 = i
  <2>1. fs \in Nat /\ blk \in Nat /\ fs = NewS
    BY LenProperties DEF IInv, TypeInv, NewS
  <2> HIDE DEF fs, blk
  <2>2. /\ P \in Seq(HandleRec) /\ DOMAIN P = 1 .. upto
        /\ \A i \in DOMAIN P : /\ P[i].type = "param" /\ P[i].scope = fs /\ P[i].block = blk
                               /\ P[i].index + 1 = i
    BY <1>5, <2>1, ParamFacts
  <2> HIDE DEF P
  <2> QED
    BY <2>1, <2>2 DEF IsParam
<1>7. CASE /\ CheckName(n)
           /\ mScopeList' = Append(mScopeList, NewScope(FuncScopeParent(C.scope), NULL))
           /\ handles' = handles \o P
           /\ work' = Rest /\ UNCHANGED <<labels, code, tables>>
  <2> HIDE DEF P, blk
  <2> QED
    BY <1>1, <1>6, <1>7, FuncFails
<1>8. CASE /\ CheckName(n)
           /\ mScopeList' = Append(mScopeList, NewScope(FuncScopeParent(C.scope), NULL))
           /\ handles' = Append(handles \o P,
                                Handle("func", n, C.scope, blk, NextFuncIndex(C.scope), NULL))
           /\ upto = Len(ps)
           /\ mFuncList' = Append(mFuncList, [handle |-> Len(handles'), block |-> blk,
                                              args |-> [i \in DOMAIN ps |-> Len(handles) + i]])
           /\ code' = Append(code, <<>>) /\ mVarList' = Append(mVarList, <<>>)
           /\ work' = <<Task("block", FuncContext(C, fs, blk), NULL)>> \o Rest
           /\ UNCHANGED <<labels, mGlobalVarList>>
  <2>1. fs = NewS /\ blk = Len(code) + 1
    BY DEF NewS
  <2> DEFINE args == [i \in DOMAIN ps |-> Len(handles) + i]
  <2>2. /\ args \in Seq(Nat) /\ DOMAIN args = DOMAIN P
        /\ \A i \in DOMAIN args : args[i] = Len(handles) + i
    <3>1. Len(ps) \in Nat /\ DOMAIN ps = 1 .. Len(ps) /\ Len(handles) \in Nat
      BY LenProperties DEF IInv, TypeInv
    <3>2. args \in [1 .. Len(ps) -> Nat]
      BY <3>1
    <3>3. DOMAIN P = 1 .. Len(ps)
      BY <1>6, <1>8
    <3> HIDE DEF P
    <3> QED
      BY <3>1, <3>2, <3>3, SeqDef
  <2> HIDE DEF P, blk, fs
  <2>3. mFuncList' = Append(mFuncList, [handle |-> Len(handles'), block |-> blk, args |-> args])
    BY <1>8
  <2> HIDE DEF args
  <2> QED
    BY <1>1, <1>6, <1>8, <2>1, <2>2, <2>3, FuncSucceeds
<1> QED
  BY <1>2, <1>3, <1>4, <1>7, <1>8, Zenon DEF FuncDecl, upto, bad, r, CheckName

LEMMA ResolvePreserves ==
  ASSUME IInv, Resolve
  PROVE  IInv'
BY StillPreserves DEF Resolve, IInv, TypeInv, MiscType

LEMMA CheckPreserves ==
  ASSUME IInv, Check
  PROVE  IInv'
BY StillPreserves DEF Check, IInv, TypeInv, MiscType

LEMMA StutterPreserves ==
  ASSUME IInv, UNCHANGED vars
  PROVE  IInv'
BY StillPreserves DEF vars, tables, IInv, TypeInv, MiscType

LEMMA ParamListNames ==
  ASSUME IInv, NEW ps \in ParamLists
  PROVE  ps \in Seq(Name)
<1>1. left.names \subseteq Name /\ left.params \in Nat
  BY DEF IInv, TypeInv, MiscType, Budget
<1>2. PICK k \in 0 .. left.params : ps \in [1 .. k -> left.names]
  BY DEF ParamLists
<1>3. k \in Nat
  BY <1>1, <1>2
<1>4. ps \in [1 .. k -> Name]
  BY <1>1, <1>2
<1> QED
  BY <1>3, <1>4, SeqDef

LEMMA NextIInv ==
  ASSUME IInv, [Next]_vars
  PROVE  IInv'
<1>1. left.names \subseteq Name
  BY DEF IInv, TypeInv, MiscType, Budget
<1>2. CASE \/ Block \/ Body \/ EndList \/ Emit \/ Break \/ Continue \/ DoWhile \/ For \/ Else
           \/ Switch
  BY <1>2, BlockPreserves, BodyPreserves, EndListPreserves, EmitPreserves, BreakPreserves,
     ContinuePreserves, DoWhilePreserves, ForPreserves, ElsePreserves, SwitchPreserves
<1>3. ASSUME NEW e,
             \/ ExprStmt(e) \/ While(e) \/ Until(e) \/ ForHead(e) \/ If(e) \/ Elif(e)
             \/ Return(e)
      PROVE  IInv'
  BY <1>3, ExprStmtPreserves, WhilePreserves, UntilPreserves, ForHeadPreserves,
     IfPreserves, ElifPreserves, ReturnPreserves
<1>4. ASSUME NEW n \in Name,
             \/ IncrDecr(n) \/ Goto(n) \/ Label(n) \/ EnumDecl(n)
             \/ \E e : Assignment(n, e) \/ EnumConst(n, e)
             \/ \E e, ty : ConstDecl(n, ty, e) \/ VarDecl(n, ty, e)
      PROVE  IInv'
  BY <1>4, IncrDecrPreserves, GotoPreserves, LabelPreserves, EnumDeclPreserves,
     AssignmentPreserves, EnumConstPreserves, ConstDeclPreserves, VarDeclPreserves
<1>5. ASSUME NEW n \in Name, NEW ty, NEW ps \in ParamLists, NEW ds, FuncDecl(n, ty, ps, ds)
      PROVE  IInv'
  BY <1>5, ParamListNames, FuncDeclPreserves
<1>6. CASE EnumEnd \/ Resolve \/ Check
  BY <1>6, EnumEndPreserves, ResolvePreserves, CheckPreserves
<1>7. CASE Ended \/ UNCHANGED vars
  BY <1>7, StutterPreserves DEF Ended
<1> QED
  BY <1>1, <1>2, <1>3, <1>4, <1>5, <1>6, <1>7 DEF Next

LEMMA SpecIInv == Spec => []IInv
BY InitIInv, NextIInv, PTL DEF Spec

-----------------------------------------------------------------------------
(* The type invariant of the elaborator: every scope, handle, node, label  *)
(* and pending call is well formed, in every program of any size.          *)
THEOREM IrMgrTypes == Spec => []TypeInv
<1>1. IInv => TypeInv
  BY DEF IInv
<1> QED
  BY <1>1, SpecIInv, PTL

(* A name means one thing in a scope (IrMgr::check_name and the places     *)
(* that do without it), in every program, also after statements that       *)
(* failed half-way.                                                        *)
THEOREM NamesUniqueTheorem == Spec => []NamesUnique
<1>1. IInv => NamesUnique
  BY DEF IInv
<1> QED
  BY <1>1, SpecIInv, PTL

(* Code of one block never reads or writes a local variable or parameter   *)
(* of another, however functions and blocks are nested: reg_func puts the  *)
(* scope of a function under the toplevel scope.                           *)
THEOREM LocalsOwnedTheorem == Spec => []LocalsOwned
<1>1. IInv => LocalsOwned
  BY DEF IInv, CodeInv, NodeOwned, IsLocal, LocalsOwned
<1> QED
  BY <1>1, SpecIInv, PTL

(* The index in the handle of a variable is its place in the list of its   *)
(* block or of the program, the index in that of an argument its place in  *)
(* mArgList: two variables of a block never share one, nor do two          *)
(* arguments, while a variable and an argument of a function do.           *)
THEOREM SlotsExactTheorem == Spec => []SlotsExact
<1>1. IInv => SlotsExact
  BY DEF IInv, SlotsExact
<1> QED
  BY <1>1, SpecIInv, PTL

(* The index in the handle of a function finds that function and its block *)
(* in mFuncList, also for functions declared inside functions.             *)
THEOREM FuncIndexExactTheorem == Spec => []FuncIndexExact
<1>1. IInv => FuncIndexExact
  BY DEF IInv
<1> QED
  BY <1>1, SpecIInv, PTL

-----------------------------------------------------------------------------
(***************************************************************************)
(* The jumps IrMgr makes: in every program that is accepted, of any size   *)
(* and nesting, a jump goes to a label that stands at one place of the     *)
(* same block, and break and continue belong to the innermost loop around  *)
(* them.                                                                   *)
(*                                                                         *)
(* The code is built while labels still wait for their place, so the       *)
(* invariant is about two kinds of places: those in the code, and the      *)
(* tasks of the recursion that are going to place a label.  The tasks are  *)
(* numbered from the bottom (their depth), which no push or pop changes.   *)
(***************************************************************************)

At(wk, d) == wk[Len(wk) + 1 - d]

(* The labels a task will place. *)
Pend(w) ==
  IF w.kind = "emit" THEN {w.arg[Len(w.arg)].ref}
  ELSE IF w.kind = "until" THEN {w.c.end}
  ELSE IF w.kind = "else" THEN {w.arg, w.arg + 1}
  ELSE {}

(* The label l stands at i in the block b of the code cd, or waits in the  *)
(* task of depth d, which adds to block b.                                 *)
Stands(cd, b, i, l) ==
  /\ b \in DOMAIN cd /\ i \in DOMAIN cd[b]
  /\ cd[b][i].op = "label" /\ cd[b][i].ref = l

Waits(wk, d, b, l) ==
  d \in 1 .. Len(wk) /\ At(wk, d).c.block = b /\ l \in Pend(At(wk, d))

(* The label l is or will be behind position i of block b. *)
After(cd, wk, b, i, l) ==
  \/ \E k : k > i /\ Stands(cd, b, k, l)
  \/ \E d : Waits(wk, d, b, l)

(* Every label has one place at most. *)
Once(cd, wk) ==
  /\ \A b, i, a, j, l : Stands(cd, b, i, l) /\ Stands(cd, a, j, l) => b = a /\ i = j
  /\ \A b, d, a, e, l : Waits(wk, d, b, l) /\ Waits(wk, e, a, l) => d = e
  /\ \A b, i, a, d, l : Stands(cd, b, i, l) => ~ Waits(wk, d, a, l)

(* Only labels that were made have places, and loops have pairs of them. *)
Known(cd, wk, lb) ==
  /\ \A b, i, l : Stands(cd, b, i, l) => l \in DOMAIN lb
  /\ \A b, d, l : Waits(wk, d, b, l) => l \in DOMAIN lb
  /\ \A l \in DOMAIN lb :
       lb[l].role = "start" => l + 1 \in DOMAIN lb /\ lb[l + 1].role = "end"

(* Every jump but goto has its target in its own block, now or later. *)
Landing(cd, wk) ==
  \A b \in DOMAIN cd : \A i \in DOMAIN cd[b] :
    cd[b][i].op \in Jumps \ {"goto"} => After(cd, wk, b, 0, cd[b][i].ref)

LoopEnd(lb, m) == /\ m - 1 \in DOMAIN lb /\ lb[m - 1].role = "start"
                  /\ m \in DOMAIN lb /\ lb[m].role = "end"

(* Position i of block b is in the loop whose end label is m. *)
Around(cd, wk, lb, b, i, m) ==
  /\ LoopEnd(lb, m)
  /\ \E j : j < i /\ Stands(cd, b, j, m - 1)
  /\ After(cd, wk, b, i, m)

EndOf(node) == IF node.op = "break" THEN node.ref ELSE node.ref + 1

Innermost(cd, wk, lb) ==
  \A b \in DOMAIN cd : \A i \in DOMAIN cd[b] :
    cd[b][i].op \in {"break", "continue"} =>
      /\ Around(cd, wk, lb, b, i, EndOf(cd[b][i]))
      /\ \A m : Around(cd, wk, lb, b, i, m) => m <= EndOf(cd[b][i])

(* What a statement adds last: jumps back to a label that stands, and one  *)
(* label.                                                                  *)
LateOK(cd, w) ==
  LET n == Len(w.arg) IN
  /\ n \in Nat \ {0} /\ DOMAIN w.arg = 1 .. n
  /\ w.arg[n].op = "label"
  /\ \A i \in 1 .. n - 1 :
       w.arg[i].op = "jump" /\ \E j : Stands(cd, w.c.block, j, w.arg[i].ref)

(* The labels that the task of depth d gives to break and continue are     *)
(* those of the innermost loop that is still open in its block.            *)
LoopOK(cd, wk, lb, d) ==
  LET c == At(wk, d).c IN
  IF c.end = NULL THEN c.start = NULL ELSE
    /\ c.start # NULL /\ c.end = c.start + 1 /\ LoopEnd(lb, c.end)
    /\ \E j : Stands(cd, c.block, j, c.start)
    /\ \E e : e <= d /\ Waits(wk, e, c.block, c.end)
    /\ \A e, m : e < d /\ Waits(wk, e, c.block, m) /\ lb[m].role = "end" => m <= c.end

KindOK(cd, lb, w) ==
  /\ w.kind = "emit" => LateOK(cd, w)
  /\ w.kind = "until" => w.c.end # NULL
  /\ w.kind = "else" => /\ w.arg \in DOMAIN lb /\ lb[w.arg].role # "end"
                        /\ w.arg + 1 \in DOMAIN lb /\ lb[w.arg + 1].role # "end"

TasksOK(cd, wk, lb) ==
  \A d \in 1 .. Len(wk) : LoopOK(cd, wk, lb, d) /\ KindOK(cd, lb, At(wk, d))

Placing(cd, wk, lb) ==
  /\ Once(cd, wk) /\ Known(cd, wk, lb) /\ Landing(cd, wk)
  /\ Innermost(cd, wk, lb) /\ TasksOK(cd, wk, lb)

(* The labels of gotos are never defined later: only an uninitialised      *)
(* label_node would do it.                                                 *)
GotosUndefined ==
  /\ mUndefList \in Seq(DOMAIN labels)
  /\ \A i \in DOMAIN mUndefList : ~ labels[mUndefList[i]].defined
  /\ \A b \in DOMAIN code : \A i \in DOMAIN code[b] :
       code[b][i].op = "goto" => mUndefList # <<>>

Ending ==
  /\ pc \in {"resolve", "check", "return"} => work = <<>>
  /\ result = "toplevel" => pc = "return" /\ mUndefList = <<>>

(* The invariant holds up to the first use of an uninitialised pointer. *)
JInv == ~ ub => Placing(code, work, labels) /\ GotosUndefined /\ Ending

-----------------------------------------------------------------------------
(* What a step does to the places.  It adds nodes to the block b, which    *)
(* had n of them, and puts the tasks new on the r tasks that it leaves;    *)
(* the task it takes off held the labels P.                                *)
Lab(nodes, k, l) == k \in DOMAIN nodes /\ nodes[k].op = "label" /\ nodes[k].ref = l

CodeMoves(b, n, nodes) ==
  /\ n \in Nat /\ b \in DOMAIN code /\ DOMAIN code[b] = 1 .. n
  /\ \A a, i, l : Stands(code', a, i, l) <=>
       Stands(code, a, i, l) \/ (a = b /\ i \in Nat /\ i > n /\ Lab(nodes, i - n, l))
  /\ \A a \in DOMAIN code' : \A i \in DOMAIN code'[a] :
       \/ a \in DOMAIN code /\ i \in DOMAIN code[a] /\ code'[a][i] = code[a][i]
       \/ a = b /\ i \in Nat /\ i > n /\ i - n \in DOMAIN nodes /\ code'[a][i] = nodes[i - n]

WorkMoves(b, r, P, new) ==
  /\ r \in Nat /\ Len(new) \in Nat /\ Len(work') = r + Len(new)
  /\ Len(work) = r + 1 \/ (Len(work) = r /\ P = {})
  /\ \A d \in 1 .. r : At(work', d) = At(work, d)
  /\ \A d \in r + 1 .. r + Len(new) : At(work', d) = At(new, d - r)
  /\ \A a, d, l : Waits(work', d, a, l) <=>
       (d <= r /\ Waits(work, d, a, l)) \/ (d \in Nat /\ Waits(new, d - r, a, l))
  /\ \A a, d, l :
       Waits(work, d, a, l) => (d <= r /\ d < Len(work)) \/ (a = b /\ l \in P)
  /\ \A l \in P : Waits(work, Len(work), b, l)

LabelsMove ==
  /\ Len(labels) \in Nat /\ DOMAIN labels = 1 .. Len(labels)
  /\ Len(labels') \in Nat /\ DOMAIN labels' = 1 .. Len(labels')
  /\ Len(labels) <= Len(labels')
  /\ \A l \in DOMAIN labels : labels'[l] = labels[l]

LEMMA NoPlaces ==
  /\ \A k, l : ~ Lab(<<>>, k, l)
  /\ \A d, b, l : ~ Waits(<<>>, d, b, l)
BY EmptyIsSeq DEF Lab, Waits

LEMMA CodeMovesFacts ==
  ASSUME code \in Seq(Seq(NodeRec)), NEW b \in DOMAIN code, NEW nodes \in Seq(NodeRec),
         code' = [code EXCEPT ![b] = @ \o nodes]
  PROVE  CodeMoves(b, Len(code[b]), nodes)
<1> DEFINE n == Len(code[b])
           new == code[b] \o nodes
<1>1. code[b] \in Seq(NodeRec)
  BY LenProperties, ElementOfSeq
<1>2. IsSeq(code[b]) /\ IsSeq(nodes)
  BY <1>1, SeqIsSeq
<1>3. /\ DOMAIN new = 1 .. n + Len(nodes)
      /\ \A i \in 1 .. n : new[i] = code[b][i]
      /\ \A i \in 1 .. Len(nodes) : new[n + i] = nodes[i]
  BY ONLY <1>2, ConcatIsSeq
<1>4. n \in Nat /\ DOMAIN code[b] = 1 .. n
  BY <1>1, LenProperties
<1>5. Len(nodes) \in Nat /\ DOMAIN nodes = 1 .. Len(nodes)
  BY LenProperties
<1>6. DOMAIN code' = DOMAIN code
  OBVIOUS
<1>7. code'[b] = new
  OBVIOUS
<1>8. \A a \in DOMAIN code : a # b => code'[a] = code[a]
  OBVIOUS
<1> HIDE DEF new, n
<1>9. \A i \in DOMAIN new : \/ i \in 1 .. n /\ new[i] = code[b][i]
                            \/ i \in Nat /\ i > n /\ i - n \in DOMAIN nodes /\ new[i] = nodes[i - n]
  <2> TAKE i \in DOMAIN new
  <2>1. CASE i <= n
    BY <1>3, <1>4, <2>1
  <2>2. CASE ~(i <= n)
    <3>1. i - n \in 1 .. Len(nodes) /\ n + (i - n) = i /\ i > n /\ i \in Nat
      BY <1>3, <1>4, <1>5, <2>2
    <3>2. new[n + (i - n)] = nodes[i - n]
      BY <1>3, <3>1
    <3> QED
      BY <1>5, <3>1, <3>2
  <2> QED
    BY <2>1, <2>2
<1>10. \A i \in Nat : i > n /\ i - n \in DOMAIN nodes => i \in DOMAIN new /\ new[i] = nodes[i - n]
  <2> TAKE i \in Nat
  <2> HAVE i > n /\ i - n \in DOMAIN nodes
  <2>1. n + (i - n) = i /\ i \in 1 .. n + Len(nodes)
    BY <1>4, <1>5
  <2>2. new[n + (i - n)] = nodes[i - n]
    BY <1>3, <1>5
  <2> QED
    BY <1>3, <2>1, <2>2
<1>11. \A i \in 1 .. n : i \in DOMAIN new
  BY <1>3, <1>4, <1>5
<1>12. \A a \in DOMAIN code' : \A i \in DOMAIN code'[a] :
       \/ a \in DOMAIN code /\ i \in DOMAIN code[a] /\ code'[a][i] = code[a][i]
       \/ a = b /\ i \in Nat /\ i > n /\ i - n \in DOMAIN nodes /\ code'[a][i] = nodes[i - n]
  BY <1>4, <1>6, <1>7, <1>8, <1>9
<1>13. ASSUME NEW a, NEW i, NEW l
       PROVE  Stands(code', a, i, l) <=>
         Stands(code, a, i, l) \/ (a = b /\ i \in Nat /\ i > n /\ Lab(nodes, i - n, l))
  <2>1. CASE a = b
    BY <1>3, <1>4, <1>6, <1>7, <1>9, <1>10, <1>11, <2>1 DEF Stands, Lab
  <2>2. CASE a # b
    BY <1>6, <1>8, <2>2 DEF Stands
  <2> QED
    BY <2>1, <2>2
<1>14. CodeMoves(b, n, nodes)
  BY <1>4, <1>12, <1>13 DEF CodeMoves
<1> QED
  BY <1>14 DEF n

(* The code of the other blocks stays, and reg_func adds an empty one. *)
LEMMA CodeStays ==
  ASSUME code \in Seq(Seq(NodeRec)), NEW b \in DOMAIN code,
         code' = code \/ code' = Append(code, <<>>)
  PROVE  CodeMoves(b, Len(code[b]), <<>>)
<1>1. code[b] \in Seq(NodeRec)
  BY LenProperties, ElementOfSeq
<1>2. Len(code[b]) \in Nat /\ DOMAIN code[b] = 1 .. Len(code[b])
  BY <1>1, LenProperties
<1>3. /\ \A a \in DOMAIN code : a \in DOMAIN code' /\ code'[a] = code[a]
      /\ \A a \in DOMAIN code' : a \in DOMAIN code \/ code'[a] = <<>>
  <2>1. CASE code' = code
    BY <2>1
  <2>2. CASE code' = Append(code, <<>>)
    <3>1. IsSeq(code) /\ DOMAIN code = 1 .. Len(code) /\ Len(code) \in Nat
      BY SeqIsSeq, LenProperties
    <3>2. /\ DOMAIN code' = 1 .. Len(code) + 1
          /\ \A i \in 1 .. Len(code) : code'[i] = code[i]
          /\ code'[Len(code) + 1] = <<>>
      BY <2>2, <3>1, AppendIsSeq
    <3>3. \A a \in 1 .. Len(code) + 1 : a \in 1 .. Len(code) \/ a = Len(code) + 1
      BY <3>1
    <3>4. \A a \in 1 .. Len(code) : a \in 1 .. Len(code) + 1
      BY <3>1
    <3> QED
      BY <3>1, <3>2, <3>3, <3>4
  <2> QED
    BY <2>1, <2>2
<1>4. \A a \in DOMAIN code' : \A i \in DOMAIN code'[a] :
        a \in DOMAIN code /\ i \in DOMAIN code[a] /\ code'[a][i] = code[a][i]
  BY <1>3, EmptyIsSeq
<1>5. \A a, i, l : Stands(code', a, i, l) <=> Stands(code, a, i, l)
  BY <1>3, <1>4 DEF Stands
<1> QED
  BY <1>2, <1>4, <1>5, NoPlaces DEF CodeMoves

(* The tasks R that are left: all of them, when the one on top holds no    *)
(* label, or all but that one.                                             *)
LEMMA LeftTasks ==
  ASSUME work \in Seq(TaskRec), work # <<>>, NEW R,
         R = Tail(work) \/ (R = work /\ Pend(Head(work)) = {})
  PROVE  /\ R \in Seq(TaskRec) /\ Len(R) \in Nat
         /\ Len(work) = Len(R) + 1 \/ (Len(work) = Len(R) /\ Pend(Head(work)) = {})
         /\ \A d \in 1 .. Len(R) : d \in 1 .. Len(work) /\ At(R, d) = At(work, d)
         /\ \A d \in 1 .. Len(work) : d > Len(R) => d = Len(work)
         /\ At(work, Len(work)) = Head(work) /\ Len(work) \in 1 .. Len(work)
<1>1. Len(work) \in Nat \ {0} /\ DOMAIN work = 1 .. Len(work)
  BY LenProperties, EmptySeq
<1>2. At(work, Len(work)) = Head(work) /\ Len(work) \in 1 .. Len(work)
  BY <1>1 DEF At
<1>3. CASE R = Tail(work)
  <2>1. /\ R \in Seq(TaskRec)
        /\ Len(R) = Len(work) - 1
        /\ \A i \in 1 .. Len(R) : R[i] = work[i + 1]
    BY <1>3, HeadTailProperties
  <2>2. ASSUME NEW d \in 1 .. Len(R) PROVE d \in 1 .. Len(work) /\ At(R, d) = At(work, d)
    <3>1. /\ Len(R) + 1 - d \in 1 .. Len(R) /\ d \in 1 .. Len(work)
          /\ Len(R) + 1 - d + 1 = Len(work) + 1 - d
      BY <1>1, <2>1
    <3> QED
      BY <2>1, <3>1 DEF At
  <2>3. Len(R) \in Nat /\ Len(work) = Len(R) + 1
    BY <1>1, <2>1
  <2>4. \A d \in 1 .. Len(work) : d > Len(R) => d = Len(work)
    BY <1>1, <2>3
  <2> QED
    BY <1>2, <2>1, <2>2, <2>3, <2>4
<1>4. CASE R = work /\ Pend(Head(work)) = {}
  <2>1. \A d \in 1 .. Len(work) : ~(d > Len(work))
    BY <1>1
  <2> QED
    BY <1>1, <1>2, <1>4, <2>1, Zenon
<1> QED
  BY <1>3, <1>4

LEMMA WorkMovesFacts ==
  ASSUME work \in Seq(TaskRec), work # <<>>, NEW R,
         R = Tail(work) \/ (R = work /\ Pend(Head(work)) = {}),
         NEW new \in Seq(TaskRec), work' = new \o R
  PROVE  WorkMoves(Head(work).c.block, Len(R), Pend(Head(work)), new)
<1> DEFINE r == Len(R)
           P == Pend(Head(work))
           b == Head(work).c.block
<1>1. /\ R \in Seq(TaskRec) /\ r \in Nat
      /\ Len(work) = r + 1 \/ (Len(work) = r /\ P = {})
      /\ \A d \in 1 .. r : d \in 1 .. Len(work) /\ At(R, d) = At(work, d)
      /\ \A d \in 1 .. Len(work) : d > r => d = Len(work)
      /\ At(work, Len(work)) = Head(work) /\ Len(work) \in 1 .. Len(work)
  BY LeftTasks
<1>2. IsSeq(new) /\ IsSeq(R)
  BY <1>1, SeqIsSeq
<1>3. /\ Len(work') = Len(new) + r
      /\ \A i \in 1 .. Len(new) : work'[i] = new[i]
      /\ \A i \in 1 .. r : work'[Len(new) + i] = R[i]
  BY <1>2, ConcatIsSeq
<1>4. Len(new) \in Nat
  BY LenProperties
<1> HIDE DEF r
<1>5. ASSUME NEW d \in 1 .. r PROVE At(work', d) = At(work, d)
  <2>1. r + 1 - d \in 1 .. r /\ Len(work') + 1 - d = Len(new) + (r + 1 - d)
    BY <1>1, <1>3, <1>4
  <2>2. At(work', d) = R[r + 1 - d]
    BY <1>3, <2>1 DEF At
  <2> QED
    BY <1>1, <2>2 DEF At, r
<1>6. ASSUME NEW d \in r + 1 .. r + Len(new)
      PROVE  At(work', d) = At(new, d - r) /\ d - r \in 1 .. Len(new)
  <2>1. /\ Len(work') + 1 - d = Len(new) + 1 - (d - r)
        /\ Len(new) + 1 - (d - r) \in 1 .. Len(new) /\ d - r \in 1 .. Len(new)
    BY <1>1, <1>3, <1>4
  <2> QED
    BY <1>3, <2>1 DEF At
<1>7. ASSUME NEW a, NEW d, NEW l
      PROVE  Waits(work', d, a, l) <=>
               (d <= r /\ Waits(work, d, a, l)) \/ (d \in Nat /\ Waits(new, d - r, a, l))
  <2>1. CASE d \in 1 .. r
    <3>1. d \in 1 .. Len(work') /\ d \in 1 .. Len(work) /\ d <= r /\ ~(d - r \in 1 .. Len(new))
      BY <1>1, <1>3, <1>4, <2>1
    <3> QED
      BY <1>5, <2>1, <3>1 DEF Waits
  <2>2. CASE d \in r + 1 .. r + Len(new)
    <3>1. d \in 1 .. Len(work') /\ ~(d <= r) /\ d \in Nat
      BY <1>1, <1>3, <1>4, <2>2
    <3> QED
      BY <1>6, <2>2, <3>1 DEF Waits
  <2>3. CASE d \notin 1 .. r /\ d \notin r + 1 .. r + Len(new)
    <3>1. d \notin 1 .. Len(work')
      BY <1>1, <1>3, <1>4, <2>3
    <3>2. d \in 1 .. Len(work) => ~(d <= r)
      BY <1>1, <2>3
    <3>3. d \in Nat => d - r \notin 1 .. Len(new)
      BY <1>1, <1>4, <2>3
    <3> QED
      BY <3>1, <3>2, <3>3 DEF Waits
  <2> QED
    BY <2>1, <2>2, <2>3
<1>8. \A a, d, l :
        Waits(work, d, a, l) => (d <= r /\ d < Len(work)) \/ (a = b /\ l \in P)
  <2> SUFFICES ASSUME NEW a, NEW d, NEW l, Waits(work, d, a, l), ~(d <= r /\ d < Len(work))
               PROVE  a = b /\ l \in P
    OBVIOUS
  <2>1. d \in 1 .. Len(work) /\ At(work, d).c.block = a /\ l \in Pend(At(work, d))
    BY DEF Waits
  <2>2. d = Len(work)
    BY <1>1, <2>1
  <2> QED
    BY <1>1, <2>1, <2>2
<1>9. \A l \in P : Waits(work, Len(work), b, l)
  BY <1>1 DEF Waits
<1>10. Len(work') = r + Len(new)
  BY <1>1, <1>3, <1>4
<1>11. WorkMoves(b, r, P, new)
  BY <1>1, <1>4, <1>5, <1>6, <1>7, <1>8, <1>9, <1>10 DEF WorkMoves
<1> QED
  BY <1>11 DEF r

(* The labels that a step may place or leave to its tasks: those the task  *)
(* it takes off held, and new ones.  It does so once for each, and leaves  *)
(* none of the former out.                                                 *)
Mine(P, l) == l \in P \/ (l \in DOMAIN labels' /\ l \notin DOMAIN labels)

Tidy(b, P, nodes, new) ==
  /\ \A k, l : Lab(nodes, k, l) => Mine(P, l) /\ k \in Nat \ {0}
  /\ \A a, d, l : Waits(new, d, a, l) => Mine(P, l) /\ a = b /\ d \in Nat \ {0}
  /\ \A l \in P : (\E k : Lab(nodes, k, l)) \/ (\E d : Waits(new, d, b, l))
  /\ \A k, j, l : Lab(nodes, k, l) /\ Lab(nodes, j, l) => k = j
  /\ \A a, d, c, e, l : Waits(new, d, a, l) /\ Waits(new, e, c, l) => d = e
  /\ \A k, a, d, l : Lab(nodes, k, l) => ~ Waits(new, d, a, l)

(* These labels had no other place. *)
LEMMA MineFree ==
  ASSUME NEW b, NEW r, NEW P, NEW new, Once(code, work), Known(code, work, labels),
         WorkMoves(b, r, P, new), NEW l, Mine(P, l)
  PROVE  /\ \A a, i : ~ Stands(code, a, i, l)
         /\ \A a, d : ~(d <= r /\ Waits(work, d, a, l))
<1>1. CASE l \in P
  <2>1. Waits(work, Len(work), b, l) /\ Len(work) = r + 1 /\ r \in Nat
    BY <1>1 DEF WorkMoves
  <2>2. \A a, d : Waits(work, d, a, l) => d = r + 1
    BY <2>1 DEF Once
  <2>3. ~(r + 1 <= r)
    BY <2>1
  <2> QED
    BY <2>1, <2>2, <2>3 DEF Once
<1>2. CASE l \notin DOMAIN labels
  BY <1>2 DEF Known
<1> QED
  BY <1>1, <1>2 DEF Mine

LEMMA NewPlaces ==
  ASSUME NEW b, NEW n, NEW r, NEW P, NEW nodes, NEW new, CodeMoves(b, n, nodes),
         WorkMoves(b, r, P, new), Tidy(b, P, nodes, new)
  PROVE  /\ \A k, l : Lab(nodes, k, l) => n + k > n /\ Stands(code', b, n + k, l)
         /\ \A d, l : Waits(new, d, b, l) => r + d > r /\ Waits(work', r + d, b, l)
<1>1. ASSUME NEW k, NEW l, Lab(nodes, k, l)
      PROVE  n + k > n /\ Stands(code', b, n + k, l)
  <2>1. k \in Nat \ {0} /\ n \in Nat
    BY <1>1 DEF Tidy, CodeMoves
  <2>2. PICK i : i = n + k
    OBVIOUS
  <2>3. i \in Nat /\ i > n /\ i - n = k
    BY <2>1, <2>2
  <2>4. Stands(code', b, i, l)
    BY <1>1, <2>3 DEF CodeMoves
  <2> QED
    BY <2>2, <2>3, <2>4
<1>2. ASSUME NEW d, NEW l, Waits(new, d, b, l)
      PROVE  r + d > r /\ Waits(work', r + d, b, l)
  <2>1. d \in Nat \ {0} /\ r \in Nat
    BY <1>2 DEF Tidy, WorkMoves
  <2>2. PICK e : e = r + d
    OBVIOUS
  <2>3. e \in Nat /\ e > r /\ e - r = d
    BY <2>1, <2>2
  <2>4. Waits(work', e, b, l)
    BY <1>2, <2>3 DEF WorkMoves
  <2> QED
    BY <2>2, <2>3, <2>4
<1> QED
  BY <1>1, <1>2

LEMMA OnceMoves ==
  ASSUME NEW b, NEW n, NEW r, NEW P, NEW nodes, NEW new, Once(code, work),
         Known(code, work, labels), CodeMoves(b, n, nodes), WorkMoves(b, r, P, new),
         Tidy(b, P, nodes, new)
  PROVE  Once(code', work')
<1>1. /\ \A k, l : Lab(nodes, k, l) => /\ \A a, i : ~ Stands(code, a, i, l)
                                       /\ \A a, d : ~(d <= r /\ Waits(work, d, a, l))
      /\ \A d, c, l : Waits(new, d, c, l) =>
           /\ \A a, i : ~ Stands(code, a, i, l)
           /\ \A a, e : ~(e <= r /\ Waits(work, e, a, l))
  BY MineFree DEF Tidy
<1>2. ASSUME NEW a, NEW i, NEW c, NEW j, NEW l, Stands(code', a, i, l), Stands(code', c, j, l)
      PROVE  a = c /\ i = j
  <2>1. CASE Stands(code, a, i, l) /\ Stands(code, c, j, l)
    BY <2>1 DEF Once
  <2>2. CASE ~(Stands(code, a, i, l) /\ Stands(code, c, j, l))
    <3>1. /\ a = b /\ i \in Nat /\ Lab(nodes, i - n, l)
          /\ c = b /\ j \in Nat /\ Lab(nodes, j - n, l)
      BY <1>1, <1>2, <2>2 DEF CodeMoves
    <3>2. i - n = j - n /\ n \in Nat
      BY <3>1 DEF Tidy, CodeMoves
    <3> QED
      BY <3>1, <3>2
  <2> QED
    BY <2>1, <2>2
<1>3. ASSUME NEW a, NEW d, NEW c, NEW e, NEW l, Waits(work', d, a, l), Waits(work', e, c, l)
      PROVE  d = e
  <2>1. CASE Waits(work, d, a, l) /\ d <= r /\ Waits(work, e, c, l) /\ e <= r
    BY <2>1 DEF Once
  <2>2. CASE ~(Waits(work, d, a, l) /\ d <= r /\ Waits(work, e, c, l) /\ e <= r)
    <3>1. d \in Nat /\ Waits(new, d - r, a, l) /\ e \in Nat /\ Waits(new, e - r, c, l)
      BY <1>1, <1>3, <2>2 DEF WorkMoves
    <3>2. d - r = e - r /\ r \in Nat
      BY <3>1 DEF Tidy, WorkMoves
    <3> QED
      BY <3>1, <3>2
  <2> QED
    BY <2>1, <2>2
<1>4. ASSUME NEW a, NEW i, NEW c, NEW d, NEW l, Stands(code', a, i, l), Waits(work', d, c, l)
      PROVE  FALSE
  <2>1. CASE Stands(code, a, i, l)
    BY <1>1, <1>4, <2>1 DEF WorkMoves, Once
  <2>2. CASE ~ Stands(code, a, i, l)
    <3>1. Lab(nodes, i - n, l)
      BY <1>4, <2>2 DEF CodeMoves
    <3> QED
      BY <1>1, <1>4, <3>1 DEF WorkMoves, Tidy
  <2> QED
    BY <2>1, <2>2
<1> QED
  BY <1>2, <1>3, <1>4 DEF Once

(* Loops have pairs of labels. *)
Paired(lb) ==
  \A l \in DOMAIN lb :
    lb[l].role = "start" => l + 1 \in DOMAIN lb /\ lb[l + 1].role = "end"

LEMMA KnownMoves ==
  ASSUME NEW b, NEW n, NEW r, NEW P, NEW nodes, NEW new,
         Known(code, work, labels), CodeMoves(b, n, nodes), WorkMoves(b, r, P, new),
         Tidy(b, P, nodes, new), LabelsMove, Paired(labels')
  PROVE  Known(code', work', labels')
<1>1. DOMAIN labels \subseteq DOMAIN labels'
  BY DEF LabelsMove
<1>2. P \subseteq DOMAIN labels
  BY DEF WorkMoves, Known
<1>3. \A l : Mine(P, l) => l \in DOMAIN labels'
  BY <1>1, <1>2 DEF Mine
<1>4. \A a, i, l : Stands(code', a, i, l) => l \in DOMAIN labels'
  BY <1>1, <1>3 DEF CodeMoves, Tidy, Known
<1>5. \A a, d, l : Waits(work', d, a, l) => l \in DOMAIN labels'
  BY <1>1, <1>3 DEF WorkMoves, Tidy, Known
<1> QED
  BY <1>4, <1>5 DEF Known, Paired

(* What comes after a place still does. *)
LEMMA AfterMoves ==
  ASSUME NEW b, NEW n, NEW r, NEW P, NEW nodes, NEW new,
         CodeMoves(b, n, nodes), WorkMoves(b, r, P, new), Tidy(b, P, nodes, new),
         NEW a, NEW i \in Nat, a = b => i <= n, NEW l, After(code, work, a, i, l)
  PROVE  After(code', work', a, i, l)
<1>1. CASE \E k : k > i /\ Stands(code, a, k, l)
  BY <1>1 DEF After, CodeMoves
<1>2. CASE \E d : Waits(work, d, a, l)
  <2>1. PICK d : Waits(work, d, a, l)
    BY <1>2
  <2>2. CASE d <= r
    BY <2>1, <2>2 DEF After, WorkMoves
  <2>3. CASE ~(d <= r)
    <3>1. a = b /\ l \in P
      BY <2>1, <2>3 DEF WorkMoves
    <3>2. CASE \E k : Lab(nodes, k, l)
      <4>1. PICK k : Lab(nodes, k, l)
        BY <3>2
      <4>2. k \in Nat /\ n + k > n /\ Stands(code', b, n + k, l) /\ n \in Nat
        BY <4>1, NewPlaces DEF CodeMoves, Tidy
      <4>3. n + k > i
        BY <3>1, <4>2
      <4> QED
        BY <3>1, <4>2, <4>3 DEF After
    <3>3. CASE \E e : Waits(new, e, b, l)
      BY <3>1, <3>3, NewPlaces DEF After
    <3> QED
      BY <3>1, <3>2, <3>3 DEF Tidy
  <2> QED
    BY <2>2, <2>3
<1> QED
  BY <1>1, <1>2 DEF After

LEMMA LandingMoves ==
  ASSUME NEW b, NEW n, NEW r, NEW P, NEW nodes, NEW new, Landing(code, work),
         CodeMoves(b, n, nodes), WorkMoves(b, r, P, new), Tidy(b, P, nodes, new),
         \A k \in DOMAIN nodes :
           nodes[k].op \in Jumps \ {"goto"} => After(code', work', b, 0, nodes[k].ref)
  PROVE  Landing(code', work')
<1> SUFFICES ASSUME NEW a \in DOMAIN code', NEW i \in DOMAIN code'[a],
                    code'[a][i].op \in Jumps \ {"goto"}
             PROVE  After(code', work', a, 0, code'[a][i].ref)
  BY DEF Landing
<1>1. CASE a \in DOMAIN code /\ i \in DOMAIN code[a] /\ code'[a][i] = code[a][i]
  <2>1. After(code, work, a, 0, code[a][i].ref)
    BY <1>1 DEF Landing
  <2>2. 0 \in Nat /\ 0 <= n
    BY DEF CodeMoves
  <2> QED
    BY <1>1, <2>1, <2>2, AfterMoves
<1>2. CASE a = b /\ i - n \in DOMAIN nodes /\ code'[a][i] = nodes[i - n]
  BY <1>2
<1> QED
  BY <1>1, <1>2 DEF CodeMoves

(* The label a step makes first, if any, is not that of a loop's end. *)
FirstLabel == Len(labels) + 1 \in DOMAIN labels' => labels'[Len(labels) + 1].role # "end"

(* A loop around an old node was around it before. *)
LEMMA AroundBack ==
  ASSUME NEW b, NEW n, NEW r, NEW P, NEW nodes, NEW new, Known(code, work, labels),
         CodeMoves(b, n, nodes), WorkMoves(b, r, P, new), Tidy(b, P, nodes, new),
         LabelsMove, FirstLabel, NEW a, NEW i \in Nat, a = b => i <= n, NEW m,
         Around(code', work', labels', a, i, m)
  PROVE  Around(code, work, labels, a, i, m)
<1>1. PICK j : j < i /\ Stands(code', a, j, m - 1)
  BY DEF Around
<1>2. Stands(code, a, j, m - 1)
  <2>1. CASE a = b /\ j \in Nat /\ j > n
    <3>1. n \in Nat
      BY DEF CodeMoves
    <3> QED
      BY <1>1, <2>1, <3>1
  <2> QED
    BY <1>1, <2>1 DEF CodeMoves
<1>3. m - 1 \in DOMAIN labels
  BY <1>2 DEF Known
<1>4. m \in DOMAIN labels' /\ labels'[m].role = "end" /\ labels'[m - 1].role = "start"
  BY DEF Around, LoopEnd
<1>5. m \in DOMAIN labels
  <2>1. m \in Nat /\ m - 1 \in 1 .. Len(labels) /\ Len(labels) \in Nat
    BY <1>3, <1>4 DEF LabelsMove
  <2>2. m # Len(labels) + 1
    BY <1>4 DEF FirstLabel
  <2>3. m \in 1 .. Len(labels)
    BY <2>1, <2>2
  <2> QED
    BY <2>3 DEF LabelsMove
<1>6. LoopEnd(labels, m)
  BY <1>3, <1>4, <1>5 DEF LoopEnd, LabelsMove
<1>7. Mine(P, m) => Waits(work, Len(work), b, m)
  BY <1>5 DEF Mine, WorkMoves
<1>8. After(code, work, a, i, m)
  <2>1. After(code', work', a, i, m)
    BY DEF Around
  <2>2. CASE \E k : k > i /\ Stands(code', a, k, m)
    BY <1>7, <2>2 DEF CodeMoves, Tidy, After
  <2>3. CASE \E d : Waits(work', d, a, m)
    BY <1>7, <2>3 DEF WorkMoves, Tidy, After
  <2> QED
    BY <2>1, <2>2, <2>3 DEF After
<1> QED
  BY <1>1, <1>2, <1>6, <1>8 DEF Around

(* A break or continue that a step adds is that of the context c.          *)
BreakOK(c, P, nodes, new) ==
  \A k \in DOMAIN nodes : nodes[k].op \in {"break", "continue"} =>
    /\ P = {} /\ c.end # NULL /\ EndOf(nodes[k]) = c.end
    /\ \A j, l : ~ Lab(nodes, j, l)
    /\ \A d, a, l : ~ Waits(new, d, a, l)

LEMMA NewBreak ==
  ASSUME NEW c, NEW n, NEW r, NEW P, NEW nodes, NEW new, Known(code, work, labels),
         CodeMoves(c.block, n, nodes), WorkMoves(c.block, r, P, new), LabelsMove,
         c = At(work, Len(work)).c, LoopOK(code, work, labels, Len(work)),
         P = {}, c.end # NULL, \A j, l : ~ Lab(nodes, j, l),
         \A d, a, l : ~ Waits(new, d, a, l), NEW i \in Nat, i > n
  PROVE  /\ Around(code', work', labels', c.block, i, c.end)
         /\ \A m : Around(code', work', labels', c.block, i, m) => m <= c.end
<1> DEFINE b == c.block
<1>1. /\ c.end = c.start + 1 /\ LoopEnd(labels, c.end)
      /\ \E j : Stands(code, b, j, c.start)
      /\ \E e : e <= Len(work) /\ Waits(work, e, b, c.end)
      /\ \A e, m : e < Len(work) /\ Waits(work, e, b, m) /\ labels[m].role = "end" => m <= c.end
  BY DEF LoopOK
<1>2. \A a, k, l : Stands(code', a, k, l) <=> Stands(code, a, k, l)
  BY DEF CodeMoves
<1>3. \A a, d, l : Waits(work, d, a, l) => d <= r /\ d < Len(work)
  BY DEF WorkMoves
<1>4. \A a, d, l : Waits(work', d, a, l) <=> Waits(work, d, a, l)
  BY <1>3 DEF WorkMoves
<1>5. \A k, l : Stands(code, b, k, l) => k < i /\ ~(k > i)
  <2>1. n \in Nat /\ DOMAIN code[b] = 1 .. n
    BY DEF CodeMoves
  <2> QED
    BY <2>1 DEF Stands
<1>6. /\ c.end \in DOMAIN labels /\ c.end - 1 \in DOMAIN labels /\ LoopEnd(labels', c.end)
  BY <1>1 DEF LoopEnd, LabelsMove
<1>7. c.end - 1 = c.start
  <2>1. c.end \in Nat /\ c.end - 1 \in Nat
    BY <1>6 DEF LabelsMove
  <2>2. \E j : Stands(code, b, j, c.start) /\ c.start \in DOMAIN labels
    BY <1>1 DEF Known
  <2>3. c.start \in Nat
    BY <2>2 DEF LabelsMove
  <2> QED
    BY <1>1, <2>1, <2>3
<1>8. Around(code', work', labels', b, i, c.end)
  <2>1. \E j : j < i /\ Stands(code', b, j, c.end - 1)
    BY <1>1, <1>2, <1>5, <1>7
  <2>2. \E d : Waits(work', d, b, c.end)
    BY <1>1, <1>4
  <2> QED
    BY <1>6, <2>1, <2>2 DEF Around, After
<1>9. ASSUME NEW m, Around(code', work', labels', b, i, m)
      PROVE  m <= c.end
  <2>1. ~ \E k : k > i /\ Stands(code', b, k, m)
    BY <1>2, <1>5
  <2>2. PICK d : Waits(work', d, b, m)
    BY <1>9, <2>1 DEF Around, After
  <2>3. Waits(work, d, b, m) /\ d < Len(work) /\ m \in DOMAIN labels
    BY <1>3, <1>4, <2>2 DEF Known
  <2>4. labels[m].role = "end"
    BY <1>9, <2>3 DEF Around, LoopEnd, LabelsMove
  <2> QED
    BY <1>1, <2>3, <2>4
<1> QED
  BY <1>8, <1>9

LEMMA InnermostMoves ==
  ASSUME NEW c, NEW n, NEW r, NEW P, NEW nodes, NEW new, Known(code, work, labels),
         Innermost(code, work, labels), code \in Seq(Seq(NodeRec)),
         CodeMoves(c.block, n, nodes), WorkMoves(c.block, r, P, new),
         Tidy(c.block, P, nodes, new), LabelsMove, FirstLabel,
         c = At(work, Len(work)).c, LoopOK(code, work, labels, Len(work)),
         BreakOK(c, P, nodes, new)
  PROVE  Innermost(code', work', labels')
<1> SUFFICES ASSUME NEW a \in DOMAIN code', NEW i \in DOMAIN code'[a],
                    code'[a][i].op \in {"break", "continue"}
             PROVE  LET e == EndOf(code'[a][i]) IN
                    /\ Around(code', work', labels', a, i, e)
                    /\ \A m : Around(code', work', labels', a, i, m) => m <= e
  BY DEF Innermost
<1> DEFINE e == EndOf(code'[a][i])
<1>1. CASE a \in DOMAIN code /\ i \in DOMAIN code[a] /\ code'[a][i] = code[a][i]
  <2>1. code[a] \in Seq(NodeRec)
    BY <1>1, LenProperties, ElementOfSeq
  <2>2. i \in Nat
    BY <1>1, <2>1, LenProperties
  <2>3. a = c.block => i <= n
    BY <1>1 DEF CodeMoves
  <2>4. /\ Around(code, work, labels, a, i, e)
        /\ \A m : Around(code, work, labels, a, i, m) => m <= e
    BY <1>1 DEF Innermost
  <2> HIDE DEF e
  <2>5. LoopEnd(labels', e)
    BY <2>4 DEF Around, LoopEnd, LabelsMove
  <2>6. \E j : j < i /\ Stands(code', a, j, e - 1)
    BY <2>4 DEF Around, CodeMoves
  <2>7. After(code', work', a, i, e)
    BY <2>2, <2>3, <2>4, AfterMoves DEF Around
  <2>8. \A m : Around(code', work', labels', a, i, m) => Around(code, work, labels, a, i, m)
    BY <2>2, <2>3, AroundBack
  <2> QED
    BY <2>4, <2>5, <2>6, <2>7, <2>8 DEF e, Around
<1>2. CASE /\ a = c.block /\ i \in Nat /\ i > n /\ i - n \in DOMAIN nodes
           /\ code'[a][i] = nodes[i - n]
  <2>1. /\ P = {} /\ c.end # NULL /\ e = c.end
        /\ \A j, l : ~ Lab(nodes, j, l)
        /\ \A d, x, l : ~ Waits(new, d, x, l)
    BY <1>2 DEF BreakOK
  <2> HIDE DEF e
  <2>2. /\ Around(code', work', labels', a, i, e)
        /\ \A m : Around(code', work', labels', a, i, m) => m <= e
    BY <1>2, <2>1, NewBreak
  <2> QED
    BY <2>2 DEF e
<1> QED
  BY <1>1, <1>2 DEF CodeMoves

(* The loop that the new task of depth d is in: none, that of the context  *)
(* c, whose end then waits further down, or the one the step has begun.    *)
LoopNew(c, P, nodes, new, d) ==
  LET x == At(new, d).c IN
  \/ x.start = NULL /\ x.end = NULL
  \/ /\ x.start = c.start /\ x.end = c.end /\ x.block = c.block /\ c.end \notin P
     /\ \A e, a, m : e < d /\ Waits(new, e, a, m) => labels'[m].role # "end"
  \/ /\ x.start # NULL /\ x.end # NULL /\ x.end = x.start + 1 /\ LoopEnd(labels', x.end)
     /\ x.end = Len(labels') /\ x.block = c.block
     /\ \E k : Lab(nodes, k, x.start)
     /\ \E e : e <= d /\ Waits(new, e, c.block, x.end)

LEMMA OldLoop ==
  ASSUME NEW b, NEW n, NEW r, NEW P, NEW nodes, NEW new, Known(code, work, labels),
         CodeMoves(b, n, nodes), WorkMoves(b, r, P, new),
         Tidy(b, P, nodes, new), LabelsMove,
         NEW d \in 1 .. r, LoopOK(code, work, labels, d)
  PROVE  LoopOK(code', work', labels', d)
<1> DEFINE c == At(work, d).c
<1>1. At(work', d).c = c /\ r \in Nat
  BY DEF WorkMoves
<1>2. \A e, a, m : e <= d => (Waits(work', e, a, m) <=> Waits(work, e, a, m))
  <2> SUFFICES ASSUME NEW e, NEW a, NEW m, e <= d
               PROVE  Waits(work', e, a, m) <=> Waits(work, e, a, m)
    OBVIOUS
  <2>1. e \in Nat => e <= r /\ ~(e - r \in Nat \ {0})
    BY <1>1
  <2>2. Waits(work, e, a, m) => e \in Nat
    BY DEF Waits, WorkMoves
  <2> QED
    BY <2>1, <2>2 DEF WorkMoves, Tidy
<1>3. CASE c.end = NULL
  BY <1>1, <1>3 DEF LoopOK
<1>4. CASE c.end # NULL
  <2>1. /\ c.start # NULL /\ c.end = c.start + 1 /\ LoopEnd(labels, c.end)
        /\ \E j : Stands(code, c.block, j, c.start)
        /\ \E e : e <= d /\ Waits(work, e, c.block, c.end)
        /\ \A e, m : e < d /\ Waits(work, e, c.block, m) /\ labels[m].role = "end" => m <= c.end
    BY <1>4 DEF LoopOK
  <2> HIDE DEF c
  <2>2. LoopEnd(labels', c.end)
    BY <2>1 DEF LoopEnd, LabelsMove
  <2>3. \E j : Stands(code', c.block, j, c.start)
    BY <2>1 DEF CodeMoves
  <2>4. \E e : e <= d /\ Waits(work', e, c.block, c.end)
    BY <1>2, <2>1
  <2>5. ASSUME NEW e, NEW m, e < d, Waits(work', e, c.block, m), labels'[m].role = "end"
        PROVE  m <= c.end
    <3>1. e \in Nat
      BY <2>5 DEF Waits, WorkMoves
    <3>2. e <= d
      BY <1>1, <2>5, <3>1
    <3>3. Waits(work, e, c.block, m)
      BY <1>2, <2>5, <3>2
    <3>4. labels[m].role = "end"
      BY <2>5, <3>3 DEF Known, LabelsMove
    <3> QED
      BY <2>1, <2>5, <3>3, <3>4
  <2> QED
    BY <1>1, <1>4, <2>1, <2>2, <2>3, <2>4, <2>5 DEF LoopOK
<1> QED
  BY <1>3, <1>4

LEMMA NewLoop ==
  ASSUME NEW c, NEW n, NEW r, NEW P, NEW nodes, NEW new, Known(code, work, labels),
         Known(code', work', labels'),
         CodeMoves(c.block, n, nodes), WorkMoves(c.block, r, P, new),
         Tidy(c.block, P, nodes, new), LabelsMove,
         c = At(work, Len(work)).c, LoopOK(code, work, labels, Len(work)),
         NEW d \in r + 1 .. r + Len(new), LoopNew(c, P, nodes, new, d - r)
  PROVE  LoopOK(code', work', labels', d)
<1> DEFINE x == At(new, d - r).c
<1>1. At(work', d).c = x /\ r \in Nat /\ d \in Nat /\ Len(new) \in Nat
  BY DEF WorkMoves
<1>2. CASE x.start = NULL /\ x.end = NULL
  BY <1>1, <1>2 DEF LoopOK
<1>3. CASE /\ x.start = c.start /\ x.end = c.end /\ x.block = c.block /\ c.end \notin P
           /\ \A e, a, m : e < d - r /\ Waits(new, e, a, m) => labels'[m].role # "end"
  <2>1. CASE c.end = NULL
    BY <1>1, <1>3, <2>1 DEF LoopOK
  <2>2. CASE c.end # NULL
    <3>1. /\ c.start # NULL /\ c.end = c.start + 1 /\ LoopEnd(labels, c.end)
          /\ \E j : Stands(code, c.block, j, c.start)
          /\ \E e : Waits(work, e, c.block, c.end)
          /\ \A e, m : e < Len(work) /\ Waits(work, e, c.block, m) /\ labels[m].role = "end"
                         => m <= c.end
      BY <2>2 DEF LoopOK
    <3>2. LoopEnd(labels', c.end)
      BY <3>1 DEF LoopEnd, LabelsMove
    <3>3. \E j : Stands(code', c.block, j, c.start)
      BY <3>1 DEF CodeMoves
    <3>4. PICK e : Waits(work, e, c.block, c.end)
      BY <3>1
    <3>5. e <= r /\ e \in Nat
      BY <1>3, <3>4 DEF WorkMoves, Waits
    <3>6. e <= d /\ Waits(work', e, c.block, c.end)
      BY <1>1, <3>4, <3>5 DEF WorkMoves
    <3>7. ASSUME NEW f, NEW m, f < d, Waits(work', f, c.block, m), labels'[m].role = "end"
          PROVE  m <= c.end
      <4>1. CASE f <= r /\ Waits(work, f, c.block, m)
        <5>1. m \in DOMAIN labels /\ labels[m].role = "end"
          BY <3>7, <4>1 DEF Known, LabelsMove
        <5>2. CASE f < Len(work)
          BY <3>1, <4>1, <5>1, <5>2
        <5>3. CASE ~(f < Len(work))
          <6>1. m \in P /\ P # {}
            BY <4>1, <5>3 DEF WorkMoves
          <6>2. Len(work) = r + 1
            BY <6>1 DEF WorkMoves
          <6>3. f \in Nat
            BY <4>1, <6>2, <1>1 DEF Waits
          <6> QED
            BY <1>1, <4>1, <5>3, <6>2, <6>3
        <5> QED
          BY <5>2, <5>3
      <4>2. CASE f \in Nat /\ Waits(new, f - r, c.block, m)
        <5>1. f - r < d - r
          BY <1>1, <3>7, <4>2
        <5> QED
          BY <1>3, <3>7, <4>2, <5>1
      <4> QED
        BY <3>7, <4>1, <4>2 DEF WorkMoves
    <3> HIDE DEF x
    <3> QED
      BY <1>1, <1>3, <2>2, <3>1, <3>2, <3>3, <3>6, <3>7 DEF LoopOK
  <2> QED
    BY <2>1, <2>2
<1>4. CASE /\ x.start # NULL /\ x.end # NULL /\ x.end = x.start + 1 /\ LoopEnd(labels', x.end)
           /\ x.end = Len(labels') /\ x.block = c.block
           /\ \E k : Lab(nodes, k, x.start)
           /\ \E e : e <= d - r /\ Waits(new, e, c.block, x.end)
  <2> HIDE DEF x
  <2>1. \E j : Stands(code', c.block, j, x.start)
    BY <1>4, NewPlaces
  <2>2. PICK e : e <= d - r /\ Waits(new, e, c.block, x.end)
    BY <1>4
  <2>3. e \in Nat /\ Waits(work', r + e, c.block, x.end)
    <3>1. e \in Nat
      BY <2>2 DEF Tidy
    <3>2. Waits(work', r + e, c.block, x.end)
      BY <2>2, NewPlaces
    <3> QED
      BY <3>1, <3>2
  <2>4. r + e <= d
    BY <1>1, <2>2, <2>3
  <2>5. \A f, m : Waits(work', f, c.block, m) => m <= x.end
    BY <1>4 DEF Known, LabelsMove
  <2> QED
    BY <1>1, <1>4, <2>1, <2>3, <2>4, <2>5 DEF LoopOK
<1> QED
  BY <1>2, <1>3, <1>4 DEF LoopNew

LEMMA KindMoves ==
  ASSUME NEW b, NEW n, NEW nodes, CodeMoves(b, n, nodes), LabelsMove,
         NEW w, KindOK(code, labels, w)
  PROVE  KindOK(code', labels', w)
<1>1. w.kind = "emit" => LateOK(code', w)
  BY DEF KindOK, LateOK, CodeMoves
<1>2. \A l \in DOMAIN labels : l \in DOMAIN labels' /\ labels'[l] = labels[l]
  BY DEF LabelsMove
<1> QED
  BY <1>1, <1>2 DEF KindOK

(* What a step must be like. *)
GoodMove(c, P, nodes, new) ==
  /\ Tidy(c.block, P, nodes, new)
  /\ Paired(labels') /\ FirstLabel
  /\ \A k \in DOMAIN nodes :
       nodes[k].op \in Jumps \ {"goto"} => After(code', work', c.block, 0, nodes[k].ref)
  /\ BreakOK(c, P, nodes, new)
  /\ \A d \in 1 .. Len(new) :
       LoopNew(c, P, nodes, new, d) /\ KindOK(code', labels', At(new, d))

LEMMA PlacingMoves ==
  ASSUME NEW c, NEW n, NEW r, NEW P, NEW nodes, NEW new, Placing(code, work, labels),
         code \in Seq(Seq(NodeRec)), CodeMoves(c.block, n, nodes),
         WorkMoves(c.block, r, P, new), LabelsMove,
         c = At(work, Len(work)).c, Len(work) \in Nat \ {0}, GoodMove(c, P, nodes, new)
  PROVE  Placing(code', work', labels')
<1>1. /\ Once(code, work) /\ Known(code, work, labels) /\ Landing(code, work)
      /\ Innermost(code, work, labels) /\ TasksOK(code, work, labels)
  BY DEF Placing
<1>2. /\ Tidy(c.block, P, nodes, new) /\ Paired(labels') /\ FirstLabel
      /\ BreakOK(c, P, nodes, new)
      /\ \A k \in DOMAIN nodes :
           nodes[k].op \in Jumps \ {"goto"} => After(code', work', c.block, 0, nodes[k].ref)
      /\ \A d \in 1 .. Len(new) :
           LoopNew(c, P, nodes, new, d) /\ KindOK(code', labels', At(new, d))
  BY DEF GoodMove
<1>3. LoopOK(code, work, labels, Len(work))
  BY <1>1 DEF TasksOK
<1>4. Once(code', work')
  BY <1>1, <1>2, OnceMoves
<1>5. Known(code', work', labels')
  BY <1>1, <1>2, KnownMoves
<1>6. Landing(code', work')
  BY <1>1, <1>2, LandingMoves
<1>7. Innermost(code', work', labels')
  BY <1>1, <1>2, <1>3, InnermostMoves
<1>8. ASSUME NEW d \in 1 .. Len(work')
      PROVE  LoopOK(code', work', labels', d) /\ KindOK(code', labels', At(work', d))
  <2>1. r \in Nat /\ Len(new) \in Nat /\ Len(work') = r + Len(new) /\ r <= Len(work)
    <3>1. /\ r \in Nat /\ Len(new) \in Nat /\ Len(work') = r + Len(new)
          /\ Len(work) = r + 1 \/ Len(work) = r
      BY DEF WorkMoves
    <3> QED
      BY <3>1
  <2>2. CASE d <= r
    <3>1. d \in 1 .. r /\ d \in 1 .. Len(work)
      BY <2>1, <2>2
    <3>2. At(work', d) = At(work, d)
      BY <3>1 DEF WorkMoves
    <3>3. LoopOK(code, work, labels, d) /\ KindOK(code, labels, At(work, d))
      BY <1>1, <3>1 DEF TasksOK
    <3> QED
      BY <1>1, <1>2, <3>1, <3>2, <3>3, OldLoop, KindMoves
  <2>3. CASE ~(d <= r)
    <3>1. d \in r + 1 .. r + Len(new) /\ d - r \in 1 .. Len(new)
      BY <2>1, <2>3
    <3>2. At(work', d) = At(new, d - r)
      BY <3>1 DEF WorkMoves
    <3>3. LoopNew(c, P, nodes, new, d - r) /\ KindOK(code', labels', At(new, d - r))
      BY <1>2, <3>1
    <3> QED
      BY <1>1, <1>2, <1>3, <1>5, <3>1, <3>2, <3>3, NewLoop
  <2> QED
    BY <2>2, <2>3
<1> QED
  BY <1>4, <1>5, <1>6, <1>7, <1>8 DEF Placing, TasksOK

-----------------------------------------------------------------------------
(* The steps of the walk.                                                  *)

LEMMA TopTask ==
  ASSUME IInv, pc = "stmts"
  PROVE  /\ work \in Seq(TaskRec) /\ work # <<>> /\ Len(work) \in Nat \ {0}
         /\ Top = At(work, Len(work)) /\ C = At(work, Len(work)).c
         /\ code \in Seq(Seq(NodeRec)) /\ C.block \in DOMAIN code
<1>1. work \in Seq(TaskRec) /\ work # <<>> /\ code \in Seq(Seq(NodeRec))
  BY DEF IInv, TypeInv, WorkInv
<1>2. Len(work) \in Nat \ {0}
  BY <1>1, LenProperties, EmptySeq
<1>3. Top = At(work, Len(work))
  BY <1>1, <1>2 DEF Top, At
<1> QED
  BY <1>1, <1>2, <1>3, RestFacts DEF C

(* Code added to the block of the statement. *)
Adds(nodes) ==
  \/ code' = [code EXCEPT ![C.block] = @ \o nodes]
  \/ nodes = <<>> /\ (code' = code \/ code' = Append(code, <<>>))

(* The tasks that are left. *)
Leaves(R) == R = Tail(work) \/ (R = work /\ Pend(Top) = {})

LEMMA Moving ==
  ASSUME IInv, pc = "stmts", NEW nodes \in Seq(NodeRec), Adds(nodes), NEW R, Leaves(R),
         NEW new \in Seq(TaskRec), work' = new \o R
  PROVE  /\ CodeMoves(C.block, Len(code[C.block]), nodes)
         /\ WorkMoves(C.block, Len(R), Pend(Top), new)
<1> DEFINE b == C.block
<1>1. /\ work \in Seq(TaskRec) /\ work # <<>> /\ code \in Seq(Seq(NodeRec))
      /\ b \in DOMAIN code
  BY TopTask
<1>2. CodeMoves(b, Len(code[b]), nodes)
  <2>1. \/ code' = [code EXCEPT ![b] = @ \o nodes]
        \/ nodes = <<>> /\ (code' = code \/ code' = Append(code, <<>>))
    BY DEF Adds
  <2> HIDE DEF b
  <2>2. CASE code' = [code EXCEPT ![b] = @ \o nodes]
    BY <1>1, <2>2, CodeMovesFacts
  <2>3. CASE nodes = <<>> /\ (code' = code \/ code' = Append(code, <<>>))
    BY <1>1, <2>3, CodeStays
  <2> QED
    BY <2>1, <2>2, <2>3
<1>3. WorkMoves(b, Len(R), Pend(Top), new)
  <2>1. R = Tail(work) \/ (R = work /\ Pend(Head(work)) = {})
    BY DEF Leaves, Top
  <2> QED
    BY <1>1, <2>1, WorkMovesFacts DEF Top, C
<1> QED
  BY <1>2, <1>3

LEMMA MovePlacing ==
  ASSUME IInv, pc = "stmts", NEW nodes \in Seq(NodeRec), Adds(nodes), NEW R, Leaves(R),
         NEW new \in Seq(TaskRec), work' = new \o R, LabelsMove,
         Placing(code, work, labels), GoodMove(C, Pend(Top), nodes, new)
  PROVE  Placing(code', work', labels')
BY TopTask, Moving, PlacingMoves

(* The rest of the invariant, for a step that makes no goto. *)
LEMMA StepJInv ==
  ASSUME IInv, JInv, Running, NEW nodes \in Seq(NodeRec), Adds(nodes), LabelsMove,
         \A k \in DOMAIN nodes : nodes[k].op # "goto",
         UNCHANGED <<mUndefList, result>>, pc' = "stmts" \/ pc' = "abort",
         Placing(code', work', labels')
  PROVE  JInv'
<1>1. pc = "stmts" /\ GotosUndefined /\ Ending
  BY DEF Running, JInv
<1>2. Ending'
  BY <1>1 DEF Ending
<1>3. mUndefList' \in Seq(DOMAIN labels')
  <2>1. DOMAIN labels \subseteq DOMAIN labels' /\ mUndefList \in Seq(DOMAIN labels)
    BY <1>1 DEF LabelsMove, GotosUndefined
  <2> QED
    BY <2>1, SeqMonotonic
<1>4. \A i \in DOMAIN mUndefList' : ~ labels'[mUndefList'[i]].defined
  <2>1. mUndefList \in Seq(DOMAIN labels)
    BY <1>1 DEF GotosUndefined
  <2>2. \A i \in DOMAIN mUndefList : mUndefList[i] \in DOMAIN labels
    BY <2>1, LenProperties, ElementOfSeq
  <2> QED
    BY <1>1, <2>2 DEF LabelsMove, GotosUndefined
<1>5. ASSUME NEW a \in DOMAIN code', NEW i \in DOMAIN code'[a], code'[a][i].op = "goto"
      PROVE  mUndefList' # <<>>
  <2>1. CodeMoves(C.block, Len(code[C.block]), nodes)
    <3> DEFINE b == C.block
    <3>1. b \in DOMAIN code /\ code \in Seq(Seq(NodeRec))
      BY <1>1, TopTask
    <3>2. \/ code' = [code EXCEPT ![b] = @ \o nodes]
          \/ nodes = <<>> /\ (code' = code \/ code' = Append(code, <<>>))
      BY DEF Adds
    <3> HIDE DEF b
    <3>3. CodeMoves(b, Len(code[b]), nodes)
      BY <3>1, <3>2, CodeMovesFacts, CodeStays
    <3> QED
      BY <3>3 DEF b
  <2>2. a \in DOMAIN code /\ i \in DOMAIN code[a] /\ code[a][i].op = "goto"
    BY <1>5, <2>1 DEF CodeMoves
  <2> QED
    BY <1>1, <2>2 DEF GotosUndefined
<1>6. GotosUndefined'
  BY <1>3, <1>4, <1>5 DEF GotosUndefined
<1> QED
  BY <1>2, <1>6 DEF JInv

-----------------------------------------------------------------------------
(* Most statements neither make labels nor place any.                      *)
PlainNodes(nodes) ==
  \A k \in DOMAIN nodes :
    \/ nodes[k].op \notin Jumps \cup {"label"}
    \/ nodes[k].op = "break" /\ nodes[k].ref = C.end /\ C.end # NULL
    \/ nodes[k].op = "continue" /\ nodes[k].ref = C.start /\ C.start # NULL

PlainTask(w) ==
  /\ w.kind \notin {"emit", "until", "else"}
  /\ \/ w.c.start = NULL /\ w.c.end = NULL
     \/ w.c.start = C.start /\ w.c.end = C.end /\ w.c.block = C.block

LEMMA HolderKinds ==
  ASSUME NEW w, w.kind \notin {"emit", "until", "else"}
  PROVE  Pend(w) = {}
BY DEF Pend

LEMMA PlainPlacing ==
  ASSUME IInv, pc = "stmts", Placing(code, work, labels), Pend(Top) = {},
         NEW nodes \in Seq(NodeRec), Adds(nodes), PlainNodes(nodes), NEW R,
         R = work \/ R = Tail(work), NEW new \in Seq(TaskRec), work' = new \o R,
         \A k \in DOMAIN new : PlainTask(new[k]), labels' = labels
  PROVE  LabelsMove /\ Placing(code', work', labels')
<1> DEFINE P == Pend(Top)
<1>1. Leaves(R)
  BY DEF Leaves
<1>2. /\ CodeMoves(C.block, Len(code[C.block]), nodes)
      /\ WorkMoves(C.block, Len(R), P, new)
  BY <1>1, Moving
<1>3. Known(code, work, labels) /\ LoopOK(code, work, labels, Len(work)) /\ C = At(work, Len(work)).c
  BY TopTask DEF Placing, TasksOK
<1>4. Len(labels) \in Nat /\ DOMAIN labels = 1 .. Len(labels)
  BY LenProperties DEF IInv, TypeInv, MiscType
<1>5. LabelsMove
  BY <1>4 DEF LabelsMove
<1>6. \A k, l : ~ Lab(nodes, k, l)
  BY DEF Lab, PlainNodes
<1>7. Len(new) \in Nat /\ DOMAIN new = 1 .. Len(new)
  BY LenProperties
<1>8. \A d \in 1 .. Len(new) : PlainTask(At(new, d))
  <2> TAKE d \in 1 .. Len(new)
  <2>1. Len(new) + 1 - d \in DOMAIN new
    BY <1>7
  <2> QED
    BY <2>1 DEF At
<1>9. \A d, a, l : ~ Waits(new, d, a, l)
  BY <1>8, HolderKinds DEF Waits, PlainTask
<1> HIDE DEF P
<1>10. Tidy(C.block, P, nodes, new)
  BY <1>6, <1>9 DEF Tidy, P
<1>11. Paired(labels') /\ FirstLabel
  BY <1>3, <1>4 DEF Paired, Known, FirstLabel
<1>12. /\ C.start # NULL => C.end # NULL
       /\ C.end # NULL => /\ C.start # NULL /\ C.end = C.start + 1
                          /\ After(code, work, C.block, 0, C.end)
                          /\ After(code, work, C.block, 0, C.start)
  <2>1. CASE C.end = NULL
    BY <1>3, <2>1 DEF LoopOK
  <2>2. CASE C.end # NULL
    <3>1. /\ C.start # NULL /\ C.end = C.start + 1
          /\ \E j : Stands(code, C.block, j, C.start)
          /\ \E e : Waits(work, e, C.block, C.end)
      BY <1>3, <2>2 DEF LoopOK
    <3>2. \A j : Stands(code, C.block, j, C.start) => j > 0
      BY <1>2 DEF Stands, CodeMoves
    <3>3. After(code, work, C.block, 0, C.end)
      BY <3>1 DEF After
    <3>4. After(code, work, C.block, 0, C.start)
      BY <3>1, <3>2, Zenon DEF After
    <3> QED
      BY <2>2, <3>1, <3>3, <3>4
  <2> QED
    BY <2>1, <2>2
<1>13. \A k \in DOMAIN nodes :
         nodes[k].op \in Jumps \ {"goto"} => After(code', work', C.block, 0, nodes[k].ref)
  <2> SUFFICES ASSUME NEW k \in DOMAIN nodes, nodes[k].op \in Jumps \ {"goto"}
               PROVE  After(code', work', C.block, 0, nodes[k].ref)
    OBVIOUS
  <2>1. After(code, work, C.block, 0, nodes[k].ref)
    BY <1>12 DEF PlainNodes, Jumps
  <2>2. 0 \in Nat /\ 0 <= Len(code[C.block])
    BY <1>2 DEF CodeMoves
  <2> QED
    BY <1>2, <1>10, <2>1, <2>2, AfterMoves
<1>14. BreakOK(C, P, nodes, new)
  BY <1>6, <1>9, <1>12 DEF BreakOK, PlainNodes, EndOf, Jumps, P
<1>15. \A d \in 1 .. Len(new) :
         LoopNew(C, P, nodes, new, d) /\ KindOK(code', labels', At(new, d))
  BY <1>8, <1>9 DEF LoopNew, KindOK, PlainTask, P
<1>16. GoodMove(C, P, nodes, new)
  BY <1>10, <1>11, <1>13, <1>14, <1>15 DEF GoodMove
<1> QED
  BY <1>1, <1>5, <1>16, MovePlacing DEF P

Holder(w) == w.kind \in {"emit", "until", "else"}

LEMMA PlainJInv ==
  ASSUME IInv, JInv, Running, ~ Holder(Top), NEW nodes \in Seq(NodeRec), Adds(nodes),
         PlainNodes(nodes), NEW R, R = work \/ R = Tail(work), NEW new \in Seq(TaskRec),
         work' = new \o R, \A k \in DOMAIN new : PlainTask(new[k]), labels' = labels,
         UNCHANGED <<mUndefList, result>>, pc' = "stmts" \/ pc' = "abort"
  PROVE  JInv'
<1>1. pc = "stmts" /\ Placing(code, work, labels)
  BY DEF Running, JInv
<1>2. Pend(Top) = {}
  BY HolderKinds DEF Holder
<1>3. LabelsMove /\ Placing(code', work', labels')
  BY <1>1, <1>2, PlainPlacing
<1>4. \A k \in DOMAIN nodes : nodes[k].op # "goto"
  BY DEF PlainNodes, Jumps
<1> QED
  BY <1>3, <1>4, StepJInv

LEMMA HereJ ==
  ASSUME NEW kind, Here(kind)
  PROVE  Running /\ ~ Holder(Top) /\ (Rest = work \/ Rest = Tail(work))
BY DEF Here, Holder, Rest

LEMMA DoneJInv ==
  ASSUME IInv, JInv, Running, ~ Holder(Top), NEW nodes \in Seq(NodeRec), Adds(nodes),
         PlainNodes(nodes), work' = Rest, labels' = labels,
         UNCHANGED <<mUndefList, result>>, pc' = "stmts" \/ pc' = "abort"
  PROVE  JInv'
<1> DEFINE new == <<>>
<1>1. new \in Seq(TaskRec) /\ \A k \in DOMAIN new : PlainTask(new[k])
  BY EmptySeq, EmptyIsSeq
<1>2. Rest \in Seq(TaskRec) /\ (Rest = work \/ Rest = Tail(work))
  BY RestFacts DEF Running, Rest
<1>3. work' = new \o Rest
  BY <1>2, ConcatEmptySeq
<1> HIDE DEF new
<1> QED
  BY <1>1, <1>2, <1>3, PlainJInv

LEMMA NoNodes ==
  ASSUME code' = code \/ code' = Append(code, <<>>)
  PROVE  <<>> \in Seq(NodeRec) /\ Adds(<<>>) /\ PlainNodes(<<>>)
BY EmptySeq, EmptyIsSeq DEF Adds, PlainNodes

LEMMA FailJInv ==
  ASSUME IInv, JInv, Running, ~ Holder(Top), Fail
  PROVE  JInv'
<1> DEFINE nodes == <<>>
<1>1. nodes \in Seq(NodeRec) /\ Adds(nodes) /\ PlainNodes(nodes)
  BY NoNodes DEF Fail
<1> HIDE DEF nodes
<1> QED
  BY <1>1, DoneJInv DEF Fail, Running

LEMMA AbortJInv ==
  ASSUME JInv, Running, Abort
  PROVE  JInv'
BY DEF Abort, JInv, Running, GotosUndefined, Ending

LEMMA AppendsJInv ==
  ASSUME IInv, JInv, Running, ~ Holder(Top), NEW nodes \in Seq(NodeRec), PlainNodes(nodes),
         Appends(nodes)
  PROVE  JInv'
<1>1. Adds(nodes)
  BY DEF Appends, AddNodes, Adds
<1> QED
  BY <1>1, DoneJInv DEF Appends, Running

LEMMA OnePlain ==
  ASSUME NEW node \in NodeRec,
         \/ node.op \notin Jumps \cup {"label"}
         \/ node.op = "break" /\ node.ref = C.end /\ C.end # NULL
         \/ node.op = "continue" /\ node.ref = C.start /\ C.start # NULL
  PROVE  <<node>> \in Seq(NodeRec) /\ PlainNodes(<<node>>)
<1>1. <<node>> \in Seq(NodeRec) /\ DOMAIN <<node>> = {1} /\ <<node>>[1] = node
  OBVIOUS
<1> QED
  BY <1>1 DEF PlainNodes

(* A node that is no jump and no label, whatever it touches. *)
LEMMA SimpleNode ==
  ASSUME NEW op \in {"store", "inplace", "expr", "null", "return"},
         NEW ref \in Nat \cup {NULL}, NEW use \in Opt(Nat)
  PROVE  <<Node(op, ref, use)>> \in Seq(NodeRec) /\ PlainNodes(<<Node(op, ref, use)>>)
<1> DEFINE node == Node(op, ref, use)
<1>1. node \in NodeRec /\ node.op = op
  BY DEF Node, NodeRec, Ops
<1>2. node.op \notin Jumps \cup {"label"}
  BY <1>1 DEF Jumps
<1> HIDE DEF node
<1>3. <<node>> \in Seq(NodeRec) /\ PlainNodes(<<node>>)
  BY <1>1, <1>2, OnePlain
<1> QED
  BY <1>3 DEF node

LEMMA BreakJ ==
  ASSUME IInv, JInv, Break
  PROVE  JInv'
<1>1. Running /\ ~ Holder(Top) /\ pc = "stmts"
  BY HereJ DEF Break, Running
<1>2. CASE C.end # NULL /\ Appends(<<Node("break", C.end, NULL)>>)
  <2> DEFINE node == Node("break", C.end, NULL)
  <2>1. C \in Ctx
    BY <1>1, RestFacts
  <2>2. node \in NodeRec /\ node.op = "break" /\ node.ref = C.end
    BY <2>1 DEF Node, NodeRec, Ops, Ctx, Opt
  <2> HIDE DEF node
  <2>3. <<node>> \in Seq(NodeRec) /\ PlainNodes(<<node>>)
    BY <1>2, <2>2, OnePlain
  <2>4. Appends(<<node>>)
    BY <1>2 DEF node
  <2> QED
    BY <1>1, <2>3, <2>4, AppendsJInv
<1>3. CASE Fail
  BY <1>1, <1>3, FailJInv
<1> QED
  BY <1>2, <1>3 DEF Break

LEMMA ContinueJ ==
  ASSUME IInv, JInv, Continue
  PROVE  JInv'
<1>1. Running /\ ~ Holder(Top) /\ pc = "stmts"
  BY HereJ DEF Continue, Running
<1>2. CASE C.start # NULL /\ Appends(<<Node("continue", C.start, NULL)>>)
  <2> DEFINE node == Node("continue", C.start, NULL)
  <2>1. C \in Ctx
    BY <1>1, RestFacts
  <2>2. node \in NodeRec /\ node.op = "continue" /\ node.ref = C.start
    BY <2>1 DEF Node, NodeRec, Ops, Ctx, Opt
  <2> HIDE DEF node
  <2>3. <<node>> \in Seq(NodeRec) /\ PlainNodes(<<node>>)
    BY <1>2, <2>2, OnePlain
  <2>4. Appends(<<node>>)
    BY <1>2 DEF node
  <2> QED
    BY <1>1, <2>3, <2>4, AppendsJInv
<1>3. CASE Fail
  BY <1>1, <1>3, FailJInv
<1> QED
  BY <1>2, <1>3 DEF Continue

LEMMA IncrDecrJ ==
  ASSUME IInv, JInv, NEW x, IncrDecr(x)
  PROVE  JInv'
<1> DEFINE h == Find(handles, C.scope, x)
<1>1. Running /\ ~ Holder(Top) /\ pc = "stmts"
  BY HereJ DEF IncrDecr, Running
<1>2. CASE h # NULL /\ Appends(<<Node("inplace", h, NULL)>>)
  <2>1. h \in Nat
    BY <1>1, <1>2, FoundUsable DEF Usable
  <2> HIDE DEF h
  <2>2. LET node == Node("inplace", h, NULL) IN <<node>> \in Seq(NodeRec) /\ PlainNodes(<<node>>)
    BY <2>1, SimpleNode DEF Opt
  <2> QED
    BY <1>1, <1>2, <2>2, AppendsJInv
<1>3. CASE Fail
  BY <1>1, <1>3, FailJInv
<1> QED
  BY <1>2, <1>3 DEF IncrDecr

LEMMA AssignmentJ ==
  ASSUME IInv, JInv, NEW x, NEW e, Assignment(x, e)
  PROVE  JInv'
<1> DEFINE h == Find(handles, C.scope, x)
<1>1. Running /\ ~ Holder(Top) /\ pc = "stmts"
  BY HereJ DEF Assignment, Running
<1>2. CASE h # NULL /\ Appends(<<Node("store", h, UseOf(e))>>)
  <2>1. h \in Nat /\ UseOf(e) \in Opt(Nat)
    BY <1>1, <1>2, FoundUsable, UseUsable DEF Usable
  <2> HIDE DEF h
  <2>2. LET node == Node("store", h, UseOf(e))
        IN  <<node>> \in Seq(NodeRec) /\ PlainNodes(<<node>>)
    BY <2>1, SimpleNode
  <2> QED
    BY <1>1, <1>2, <2>2, AppendsJInv
<1>3. CASE Fail
  BY <1>1, <1>3, FailJInv
<1>4. CASE Abort
  BY <1>1, <1>4, AbortJInv
<1> QED
  BY <1>2, <1>3, <1>4 DEF Assignment

(* A node is added, and the statement is done with an error. *)
LEMMA NodeJInv ==
  ASSUME IInv, JInv, Running, ~ Holder(Top),
         NEW op \in {"store", "inplace", "expr", "null", "return"},
         AddNodes(<<Node(op, NULL, NULL)>>), work' = Rest,
         UNCHANGED <<labels, mUndefList, pc, result>>
  PROVE  JInv'
<1> DEFINE nodes == <<Node(op, NULL, NULL)>>
<1>1. nodes \in Seq(NodeRec) /\ PlainNodes(nodes)
  BY SimpleNode DEF Opt
<1>2. Adds(nodes)
  BY DEF AddNodes, Adds
<1> HIDE DEF nodes
<1> QED
  BY <1>1, <1>2, DoneJInv DEF Running

LEMMA ExprStmtJ ==
  ASSUME IInv, JInv, NEW e, ExprStmt(e)
  PROVE  JInv'
<1>1. Running /\ ~ Holder(Top) /\ pc = "stmts"
  BY HereJ DEF ExprStmt, Running
<1>2. CASE Appends(<<Node("expr", NULL, UseOf(e))>>)
  <2>1. UseOf(e) \in Opt(Nat)
    BY <1>1, UseUsable
  <2>2. LET node == Node("expr", NULL, UseOf(e))
        IN  <<node>> \in Seq(NodeRec) /\ PlainNodes(<<node>>)
    BY <2>1, SimpleNode
  <2> QED
    BY <1>1, <1>2, <2>2, AppendsJInv
<1>3. CASE /\ AddNodes(<<Node("null", NULL, NULL)>>) /\ work' = Rest
           /\ UNCHANGED <<labels, mUndefList, pc, result>>
  BY <1>1, <1>3, NodeJInv
<1>4. CASE Abort
  BY <1>1, <1>4, AbortJInv
<1> QED
  BY <1>2, <1>3, <1>4 DEF ExprStmt

LEMMA ReturnJ ==
  ASSUME IInv, JInv, NEW e, Return(e)
  PROVE  JInv'
<1>1. Running /\ ~ Holder(Top) /\ pc = "stmts"
  BY HereJ DEF Return, Running
<1>2. CASE Appends(<<Node("return", NULL, UseOf(e))>>)
  <2>1. UseOf(e) \in Opt(Nat)
    BY <1>1, UseUsable
  <2>2. LET node == Node("return", NULL, UseOf(e))
        IN  <<node>> \in Seq(NodeRec) /\ PlainNodes(<<node>>)
    BY <2>1, SimpleNode
  <2> QED
    BY <1>1, <1>2, <2>2, AppendsJInv
<1>3. CASE /\ AddNodes(<<Node("return", NULL, NULL)>>) /\ work' = Rest
           /\ UNCHANGED <<labels, mUndefList, pc, result>>
  BY <1>1, <1>3, NodeJInv
<1>4. CASE Abort
  BY <1>1, <1>4, AbortJInv
<1> QED
  BY <1>2, <1>3, <1>4 DEF Return

(* Calls of elab_stmt on top of what is left, and no code. *)
LEMMA PushJInv ==
  ASSUME IInv, JInv, Running, ~ Holder(Top), NEW new \in Seq(TaskRec), work' = new \o Rest,
         \A k \in DOMAIN new : PlainTask(new[k]), code' = code \/ code' = Append(code, <<>>),
         labels' = labels, UNCHANGED <<mUndefList, pc, result>>
  PROVE  JInv'
<1> DEFINE nodes == <<>>
<1>1. nodes \in Seq(NodeRec) /\ Adds(nodes) /\ PlainNodes(nodes)
  BY NoNodes
<1>2. Rest = work \/ Rest = Tail(work)
  BY DEF Rest
<1> HIDE DEF nodes
<1> QED
  BY <1>1, <1>2, PlainJInv DEF Running

LEMMA PushOneJInv ==
  ASSUME IInv, JInv, Running, ~ Holder(Top), NEW w \in TaskRec, PlainTask(w),
         work' = <<w>> \o Rest, code' = code \/ code' = Append(code, <<>>), labels' = labels,
         UNCHANGED <<mUndefList, pc, result>>
  PROVE  JInv'
<1> DEFINE new == <<w>>
<1>1. new \in Seq(TaskRec) /\ \A k \in DOMAIN new : PlainTask(new[k])
  OBVIOUS
<1> HIDE DEF new
<1> QED
  BY <1>1, PushJInv DEF new

(* The scope that a statement makes has a number. *)
LEMMA ScopeNext ==
  ASSUME IInv, pc = "stmts"
  PROVE  LET c == [C EXCEPT !.scope = Len(mScopeList) + 1] IN
         /\ Len(mScopeList) + 1 \in Nat /\ C \in Ctx
         /\ c \in Ctx /\ c.start = C.start /\ c.end = C.end /\ c.block = C.block
<1>1. Len(mScopeList) + 1 \in Nat
  BY LenProperties DEF IInv, TypeInv
<1>2. C \in Ctx
  BY RestFacts
<1> QED
  BY <1>1, <1>2 DEF Ctx

LEMMA EnterBlockJ ==
  ASSUME IInv, JInv, Running, ~ Holder(Top), EnterBlock(C, Rest)
  PROVE  JInv'
<1> DEFINE c == [C EXCEPT !.scope = Len(mScopeList) + 1]
           w == Task("list", c, NULL)
<1>1. c \in Ctx /\ c.start = C.start /\ c.end = C.end /\ c.block = C.block
  BY ScopeNext DEF Running
<1>2. work' = <<w>> \o Rest
  BY DEF EnterBlock
<1> HIDE DEF c
<1>3. w \in TaskRec /\ w.kind = "list" /\ w.c = c
  BY <1>1, TaskFacts DEF TaskKinds, Arg
<1> HIDE DEF w
<1>4. PlainTask(w)
  BY <1>1, <1>3 DEF PlainTask
<1> QED
  BY <1>2, <1>3, <1>4, PushOneJInv DEF EnterBlock

LEMMA BlockJ ==
  ASSUME IInv, JInv, Block
  PROVE  JInv'
BY HereJ, EnterBlockJ DEF Block

LEMMA BodyJ ==
  ASSUME IInv, JInv, Body
  PROVE  JInv'
<1>1. Running /\ ~ Holder(Top) /\ Rest = Tail(work)
  BY DEF Body, Going, Holder, Rest
<1> QED
  BY <1>1, EnterBlockJ DEF Body

LEMMA SwitchJ ==
  ASSUME IInv, JInv, Switch
  PROVE  JInv'
<1>1. Running
  BY HereJ DEF Switch
<1> QED
  BY <1>1, AbortJInv DEF Switch

LEMMA ForJ ==
  ASSUME IInv, JInv, For
  PROVE  JInv'
<1> DEFINE c == [C EXCEPT !.scope = Len(mScopeList) + 1]
           c0 == [c EXCEPT !.start = NULL, !.end = NULL]
           v == Task("single", c0, NULL)
           w == Task("forhead", c, NULL)
           new == <<v, w>>
<1>1. Running /\ ~ Holder(Top) /\ pc = "stmts"
  BY HereJ DEF For, Running
<1>2. c \in Ctx /\ c.start = C.start /\ c.end = C.end /\ c.block = C.block
  BY <1>1, ScopeNext
<1>3. work' = new \o Rest
  BY DEF For
<1> HIDE DEF c
<1>4. c0 \in Ctx /\ c0.start = NULL /\ c0.end = NULL
  BY <1>2 DEF Ctx, Opt
<1> HIDE DEF c0
<1>5. /\ v \in TaskRec /\ v.kind = "single" /\ v.c = c0
      /\ w \in TaskRec /\ w.kind = "forhead" /\ w.c = c
  BY <1>2, <1>4, TaskFacts DEF TaskKinds, Arg
<1> HIDE DEF v, w
<1>6. PlainTask(v) /\ PlainTask(w)
  BY <1>2, <1>4, <1>5 DEF PlainTask
<1>7. new \in Seq(TaskRec) /\ DOMAIN new = {1, 2} /\ new[1] = v /\ new[2] = w
  BY <1>5
<1> HIDE DEF new
<1>8. \A k \in DOMAIN new : PlainTask(new[k])
  BY <1>6, <1>7
<1> QED
  BY <1>1, <1>3, <1>7, <1>8, PushJInv DEF For

(* A statement that is done without code, and declares what it likes. *)
LEMMA QuietJInv ==
  ASSUME IInv, JInv, Running, ~ Holder(Top), work' = Rest,
         UNCHANGED <<labels, code, mUndefList, result>>, pc' = pc \/ pc' = "abort"
  PROVE  JInv'
<1> DEFINE nodes == <<>>
<1>1. nodes \in Seq(NodeRec) /\ Adds(nodes) /\ PlainNodes(nodes)
  BY NoNodes
<1> HIDE DEF nodes
<1> QED
  BY <1>1, DoneJInv DEF Running

LEMMA ConstDeclJ ==
  ASSUME IInv, JInv, NEW x, NEW ty, NEW e, ConstDecl(x, ty, e)
  PROVE  JInv'
<1>1. Running /\ ~ Holder(Top)
  BY HereJ DEF ConstDecl
<1>2. CASE Fail
  BY <1>1, <1>2, FailJInv
<1>3. CASE Abort
  BY <1>1, <1>3, AbortJInv
<1>4. CASE work' = Rest /\ UNCHANGED <<labels, code, mUndefList, pc, result>>
  BY <1>1, <1>4, QuietJInv
<1> QED
  BY <1>2, <1>3, <1>4 DEF ConstDecl

LEMMA EnumDeclJ ==
  ASSUME IInv, JInv, NEW x, EnumDecl(x)
  PROVE  JInv'
<1> DEFINE c == [C EXCEPT !.scope = Len(mScopeList) + 1]
           w == Task("enum", c, C.scope)
<1>1. Running /\ ~ Holder(Top) /\ pc = "stmts"
  BY HereJ DEF EnumDecl, Running
<1>2. CASE Fail
  BY <1>1, <1>2, FailJInv
<1>3. CASE work' = <<w>> \o Rest /\ UNCHANGED <<labels, code, mUndefList, pc, result>>
  <2>1. /\ c \in Ctx /\ c.start = C.start /\ c.end = C.end /\ c.block = C.block
        /\ C.scope \in Nat
    BY <1>1, ScopeNext DEF Ctx
  <2> HIDE DEF c
  <2>2. w \in TaskRec /\ w.kind = "enum" /\ w.c = c
    BY <2>1, TaskFacts DEF TaskKinds, Arg
  <2> HIDE DEF w
  <2>3. PlainTask(w)
    BY <2>1, <2>2 DEF PlainTask
  <2> QED
    BY <1>1, <1>3, <2>2, <2>3, PushOneJInv
<1> QED
  BY <1>2, <1>3 DEF EnumDecl

LEMMA EnumConstJ ==
  ASSUME IInv, JInv, NEW x, NEW e, EnumConst(x, e)
  PROVE  JInv'
<1>1. Running /\ ~ Holder(Top)
  BY DEF EnumConst, Holder
<1>2. CASE Fail
  BY <1>1, <1>2, FailJInv
<1>3. CASE Abort
  BY <1>1, <1>3, AbortJInv
<1>4. CASE UNCHANGED <<labels, code, mUndefList, work, pc, result, ub>>
  BY <1>4 DEF JInv, GotosUndefined, Ending
<1> QED
  BY <1>2, <1>3, <1>4 DEF EnumConst

LEMMA EnumEndJ ==
  ASSUME IInv, JInv, EnumEnd
  PROVE  JInv'
<1>1. Running /\ ~ Holder(Top) /\ Rest = Tail(work)
  BY DEF EnumEnd, Going, Holder, Rest
<1> QED
  BY <1>1, QuietJInv DEF EnumEnd

LEMMA VarDeclJ ==
  ASSUME IInv, JInv, NEW x \in Name, NEW ty, NEW e, VarDecl(x, ty, e)
  PROVE  JInv'
<1> DEFINE h == VarHandle(x)
           hs == Append(handles, h)
           id == Len(hs)
           u == ElabExpr(hs, e, C.scope).use
           nodes == <<Node("store", id, u)>>
<1>1. Running /\ ~ Holder(Top) /\ pc = "stmts"
  BY HereJ DEF VarDecl, Running
<1>2. CASE Fail
  BY <1>1, <1>2, FailJInv
<1>3. CASE work' = Rest /\ UNCHANGED <<labels, code, mUndefList, result>> /\ (pc' = pc \/ pc' = "abort")
  BY <1>1, <1>3, QuietJInv
<1>4. CASE AddNodes(nodes) /\ work' = Rest /\ UNCHANGED <<labels, mUndefList, pc, result>>
  <2>1. h \in HandleRec /\ handles \in Seq(HandleRec) /\ ScopeInv
    BY <1>1, VarHandleFacts DEF IInv, TypeInv
  <2>2. hs \in Seq(HandleRec)
    BY <2>1, AppendProperties
  <2>3. C.scope \in DOMAIN mScopeList /\ C.scope \in Nat
    BY <1>1, HereScope
  <2> HIDE DEF hs
  <2>4. u # NULL => u \in DOMAIN hs
    BY <2>1, <2>2, <2>3, UseFacts
  <2>5. Len(hs) \in Nat /\ DOMAIN hs = 1 .. Len(hs)
    BY <2>2, LenProperties
  <2> HIDE DEF u
  <2>6. u \in Opt(Nat) /\ id \in Nat
    BY <2>4, <2>5 DEF Opt
  <2> HIDE DEF id
  <2>7. nodes \in Seq(NodeRec) /\ PlainNodes(nodes)
    BY <2>6, SimpleNode
  <2> HIDE DEF nodes
  <2>8. Adds(nodes)
    BY <1>4 DEF AddNodes, Adds
  <2> QED
    BY <1>1, <1>4, <2>7, <2>8, DoneJInv
<1> HIDE DEF h
<1> QED
  BY <1>1, <1>2, <1>3, <1>4 DEF VarDecl, h

LEMMA FuncDeclJ ==
  ASSUME IInv, JInv, NEW x, NEW ty, NEW ps, NEW ds, FuncDecl(x, ty, ps, ds)
  PROVE  JInv'
<1> DEFINE w == Task("block", FuncContext(C, Len(mScopeList) + 1, Len(code) + 1), NULL)
<1>1. Running /\ ~ Holder(Top) /\ pc = "stmts"
  BY HereJ, Zenon DEF FuncDecl, Running
<1>2. CASE Fail
  BY <1>1, <1>2, FailJInv
<1>3. CASE Abort
  BY <1>1, <1>3, AbortJInv
<1>4. CASE work' = Rest /\ UNCHANGED <<labels, code, mUndefList, pc, result>>
  BY <1>1, <1>4, QuietJInv
<1>5. CASE /\ work' = <<w>> \o Rest /\ code' = Append(code, <<>>)
           /\ UNCHANGED <<labels, mUndefList, pc, result>>
  <2> DEFINE c == FuncContext(C, Len(mScopeList) + 1, Len(code) + 1)
  <2>1. Len(mScopeList) + 1 \in Nat /\ Len(code) + 1 \in Nat
    BY LenProperties DEF IInv, TypeInv
  <2>2. c \in Ctx /\ c.start = NULL /\ c.end = NULL
    BY <2>1 DEF FuncContext, Ctx, Opt
  <2> HIDE DEF c
  <2>3. w \in TaskRec /\ w.kind = "block" /\ w.c = c
    BY <2>2, TaskFacts DEF TaskKinds, Arg, c
  <2> HIDE DEF w
  <2>4. PlainTask(w)
    BY <2>2, <2>3 DEF PlainTask
  <2> QED
    BY <1>1, <1>5, <2>3, <2>4, PushOneJInv
<1> QED
  BY <1>2, <1>3, <1>4, <1>5, Zenon DEF FuncDecl

-----------------------------------------------------------------------------
(* The statements with labels.                                             *)

LEMMA SameLabels ==
  ASSUME IInv, Known(code, work, labels), labels' = labels
  PROVE  LabelsMove /\ Paired(labels') /\ FirstLabel
<1>1. Len(labels) \in Nat /\ DOMAIN labels = 1 .. Len(labels)
  BY LenProperties DEF IInv, TypeInv, MiscType
<1> QED
  BY <1>1 DEF LabelsMove, Paired, FirstLabel, Known

LEMMA PairOfLabels ==
  ASSUME IInv, Known(code, work, labels), NEW r1, NEW r2,
         (r1 = "start" /\ r2 = "end") \/ (r1 = "else" /\ r2 = "fi"),
         labels' = labels \o <<NewLabel(r1), NewLabel(r2)>>
  PROVE  /\ start1 \in Nat /\ end1 \in Nat /\ end1 = start1 + 1
         /\ start1 \in DOMAIN labels' \ DOMAIN labels
         /\ end1 \in DOMAIN labels' \ DOMAIN labels
         /\ labels'[start1].role = r1 /\ labels'[end1].role = r2 /\ Len(labels') = end1
         /\ LabelsMove /\ Paired(labels') /\ FirstLabel
<1> DEFINE x == NewLabel(r1)
           y == NewLabel(r2)
           n == Len(labels)
<1>1. x.role = r1 /\ y.role = r2
  BY DEF NewLabel
<1>2. labels' = labels \o <<x, y>>
  OBVIOUS
<1>3. n \in Nat /\ DOMAIN labels = 1 .. n /\ IsSeq(labels)
  BY LenProperties, SeqIsSeq DEF IInv, TypeInv, MiscType
<1> HIDE DEF x, y
<1>4. IsSeq(<<x, y>>) /\ Len(<<x, y>>) = 2 /\ <<x, y>>[1] = x /\ <<x, y>>[2] = y
  <2>1. <<x, y>> \in Seq({x, y})
    OBVIOUS
  <2> QED
    BY <2>1, SeqIsSeq
<1>5. /\ DOMAIN labels' = 1 .. n + 2 /\ Len(labels') = n + 2
      /\ \A i \in 1 .. n : labels'[i] = labels[i]
      /\ \A i \in 1 .. 2 : labels'[n + i] = <<x, y>>[i]
  BY ONLY <1>2, <1>3, <1>4, ConcatIsSeq
<1>6. labels'[n + 1] = x /\ labels'[n + 2] = y
  BY <1>4, <1>5
<1>7. start1 = n + 1 /\ end1 = n + 2
  BY DEF start1, end1
<1> HIDE DEF n
<1>8. LabelsMove
  BY <1>3, <1>5 DEF LabelsMove, n
<1>9. FirstLabel
  BY <1>1, <1>6 DEF FirstLabel, n
<1>10. Paired(labels')
  <2> SUFFICES ASSUME NEW l \in DOMAIN labels', labels'[l].role = "start"
               PROVE  l + 1 \in DOMAIN labels' /\ labels'[l + 1].role = "end"
    BY DEF Paired
  <2>1. CASE l \in 1 .. n
    <3>1. l + 1 \in DOMAIN labels /\ labels[l + 1].role = "end"
      BY <1>3, <1>5, <2>1 DEF Known
    <3> QED
      BY <1>3, <1>5, <3>1
  <2>2. CASE l = n + 1
    <3>1. l + 1 = n + 2 /\ n + 2 \in 1 .. n + 2
      BY <1>3, <2>2
    <3> QED
      BY <1>1, <1>5, <1>6, <2>2, <3>1
  <2>3. CASE l = n + 2
    BY <1>1, <1>6, <2>3
  <2> QED
    BY <1>3, <1>5, <2>1, <2>2, <2>3
<1>11. /\ start1 \in Nat /\ end1 \in Nat /\ end1 = start1 + 1
       /\ start1 \in DOMAIN labels' \ DOMAIN labels /\ end1 \in DOMAIN labels' \ DOMAIN labels
  BY <1>3, <1>5, <1>7
<1> QED
  BY <1>1, <1>5, <1>6, <1>7, <1>8, <1>9, <1>10, <1>11

LEMMA OneLabel ==
  ASSUME IInv, Known(code, work, labels), NEW x, x.role = "user", labels' = Append(labels, x)
  PROVE  /\ start1 \in Nat /\ start1 \in DOMAIN labels' \ DOMAIN labels
         /\ labels'[start1] = x
         /\ LabelsMove /\ Paired(labels') /\ FirstLabel
<1> DEFINE n == Len(labels)
<1>1. n \in Nat /\ DOMAIN labels = 1 .. n /\ IsSeq(labels)
  BY LenProperties, SeqIsSeq DEF IInv, TypeInv, MiscType
<1>2. /\ DOMAIN labels' = 1 .. n + 1 /\ Len(labels') = n + 1
      /\ \A i \in 1 .. n : labels'[i] = labels[i]
      /\ labels'[n + 1] = x
  BY <1>1, AppendIsSeq
<1>3. start1 = n + 1
  BY DEF start1
<1> HIDE DEF n
<1>4. LabelsMove
  BY <1>1, <1>2 DEF LabelsMove, n
<1>5. FirstLabel
  BY <1>2 DEF FirstLabel, n
<1>6. Paired(labels')
  <2> SUFFICES ASSUME NEW l \in DOMAIN labels', labels'[l].role = "start"
               PROVE  l + 1 \in DOMAIN labels' /\ labels'[l + 1].role = "end"
    BY DEF Paired
  <2>1. l \in 1 .. n
    BY <1>1, <1>2
  <2>2. l + 1 \in DOMAIN labels /\ labels[l + 1].role = "end"
    BY <1>1, <1>2, <2>1 DEF Known
  <2> QED
    BY <1>1, <1>2, <2>2
<1> QED
  BY <1>1, <1>2, <1>3, <1>4, <1>5, <1>6

(* Where labels wait in the tasks of a statement, of which only the last   *)
(* holds any.                                                              *)
LEMMA TwoWaits ==
  ASSUME NEW v \in TaskRec, NEW w \in TaskRec, Pend(v) = {}
  PROVE  LET new == <<v, w>> IN
         /\ new \in Seq(TaskRec) /\ Len(new) = 2 /\ At(new, 1) = w /\ At(new, 2) = v
         /\ \A d, b, l : Waits(new, d, b, l) <=> d = 1 /\ b = w.c.block /\ l \in Pend(w)
<1> DEFINE new == <<v, w>>
<1>1. new \in Seq(TaskRec) /\ Len(new) = 2 /\ new[1] = v /\ new[2] = w
  OBVIOUS
<1> HIDE DEF new
<1>2. At(new, 1) = w /\ At(new, 2) = v
  BY <1>1 DEF At
<1>3. \A d, b, l : Waits(new, d, b, l) <=> d = 1 /\ b = w.c.block /\ l \in Pend(w)
  BY <1>1, <1>2 DEF Waits
<1> QED
  BY <1>1, <1>2, <1>3 DEF new

LEMMA ThreeWaits ==
  ASSUME NEW u \in TaskRec, NEW v \in TaskRec, NEW w \in TaskRec, Pend(u) = {}, Pend(v) = {}
  PROVE  LET new == <<u, v, w>> IN
         /\ new \in Seq(TaskRec) /\ Len(new) = 3
         /\ At(new, 1) = w /\ At(new, 2) = v /\ At(new, 3) = u
         /\ \A d, b, l : Waits(new, d, b, l) <=> d = 1 /\ b = w.c.block /\ l \in Pend(w)
<1> DEFINE new == <<u, v, w>>
<1>1. new \in Seq(TaskRec) /\ Len(new) = 3 /\ new[1] = u /\ new[2] = v /\ new[3] = w
  OBVIOUS
<1> HIDE DEF new
<1>2. At(new, 1) = w /\ At(new, 2) = v /\ At(new, 3) = u
  BY <1>1 DEF At
<1>3. \A d, b, l : Waits(new, d, b, l) <=> d = 1 /\ b = w.c.block /\ l \in Pend(w)
  BY <1>1, <1>2 DEF Waits
<1> QED
  BY <1>1, <1>2, <1>3 DEF new

LEMMA TwoNodes ==
  ASSUME NEW x \in NodeRec, NEW y \in NodeRec
  PROVE  /\ <<x, y>> \in Seq(NodeRec) /\ DOMAIN <<x, y>> = {1, 2}
         /\ <<x, y>>[1] = x /\ <<x, y>>[2] = y /\ Len(<<x, y>>) = 2
OBVIOUS

LEMMA OneNode ==
  ASSUME NEW x \in NodeRec
  PROVE  /\ <<x>> \in Seq(NodeRec) /\ DOMAIN <<x>> = {1} /\ <<x>>[1] = x /\ Len(<<x>>) = 1
OBVIOUS

LEMMA NodeParts ==
  ASSUME NEW op \in Ops, NEW ref \in Nat, NEW use \in Opt(Nat)
  PROVE  LET x == Node(op, ref, use) IN x \in NodeRec /\ x.op = op /\ x.ref = ref
BY DEF Node, NodeRec

JumpsBack(w) ==
  /\ Len(w.arg) = 2 /\ DOMAIN w.arg = 1 .. 2 /\ w.arg[2].op = "label"
  /\ w.arg[1].op = "jump" /\ w.arg[1].ref = start1

(* A loop begins: its start label is placed by nodes, and the last of its  *)
(* tasks new, w, keeps its end label.                                      *)
LoopHead(nodes) ==
  /\ nodes \in Seq(NodeRec) /\ Adds(nodes)
  /\ \A k, l : Lab(nodes, k, l) <=> k = 1 /\ l = start1
  /\ \A k \in DOMAIN nodes : \/ nodes[k].op = "label"
                             \/ nodes[k].op = "branch" /\ nodes[k].ref = end1

LoopTail(w) ==
  /\ w.c = C \/ w.c = Inner(C)
  /\ Pend(w) = {end1} /\ w.kind # "else"
  /\ w.kind = "until" => w.c = Inner(C)
  /\ w.kind = "emit" => JumpsBack(w)

LoopTasks(new, w) ==
  /\ new \in Seq(TaskRec) /\ Len(new) \in Nat \ {0} /\ At(new, 1) = w
  /\ \A d, b, l : Waits(new, d, b, l) <=> d = 1 /\ b = w.c.block /\ l \in Pend(w)
  /\ \A d \in 2 .. Len(new) : At(new, d).c = Inner(C) /\ ~ Holder(At(new, d))

LoopBegins(new) ==
  /\ Running /\ ~ Holder(Top) /\ labels' = LoopLabels
  /\ work' = new \o work \/ work' = new \o Tail(work)
  /\ UNCHANGED <<mUndefList, pc, result>>

LEMMA LoopJInv ==
  ASSUME IInv, JInv, NEW nodes, LoopHead(nodes), NEW w, LoopTail(w),
         NEW new, LoopTasks(new, w), LoopBegins(new)
  PROVE  JInv'
<1> PICK R : (R = work \/ R = Tail(work)) /\ work' = new \o R
  BY DEF LoopBegins
<1> /\ Running /\ ~ Holder(Top) /\ labels' = LoopLabels
    /\ UNCHANGED <<mUndefList, pc, result>>
  BY DEF LoopBegins
<1> USE DEF LoopHead, LoopTail, LoopTasks
<1> DEFINE P == Pend(Top)
           c == Inner(C)
           n == Len(code[C.block])
<1>1. pc = "stmts" /\ Placing(code, work, labels) /\ Known(code, work, labels)
  BY DEF Running, JInv, Placing
<1>2. P = {} /\ Leaves(R)
  BY HolderKinds DEF Holder, Leaves
<1>3. /\ start1 \in Nat /\ end1 \in Nat /\ end1 = start1 + 1
      /\ start1 \in DOMAIN labels' \ DOMAIN labels
      /\ end1 \in DOMAIN labels' \ DOMAIN labels
      /\ labels'[start1].role = "start" /\ labels'[end1].role = "end" /\ Len(labels') = end1
      /\ LabelsMove /\ Paired(labels') /\ FirstLabel
  <2> DEFINE r1 == "start"
             r2 == "end"
  <2>1. labels' = labels \o <<NewLabel(r1), NewLabel(r2)>>
    BY DEF LoopLabels
  <2>2. r1 = "start" /\ r2 = "end"
    OBVIOUS
  <2> HIDE DEF r1, r2
  <2> QED
    BY <1>1, <2>1, <2>2, PairOfLabels
<1>4. C \in Ctx /\ c.block = C.block /\ c.start = start1 /\ c.end = end1
  BY <1>1, <1>3, InnerFacts DEF Inner, Ctx
<1>5. w.c.block = C.block
  BY <1>4
<1>6. CodeMoves(C.block, n, nodes) /\ WorkMoves(C.block, Len(R), P, new)
  BY <1>1, <1>2, Moving
<1> HIDE DEF P, c, n
<1>7. Tidy(C.block, P, nodes, new)
  BY <1>2, <1>3, <1>5 DEF Tidy, Mine
<1>8. /\ Stands(code', C.block, n + 1, start1) /\ n + 1 > 0
      /\ \E d : Waits(work', d, C.block, end1)
  <2>1. Lab(nodes, 1, start1) /\ Waits(new, 1, C.block, end1) /\ n \in Nat
    BY <1>5, <1>6 DEF CodeMoves
  <2> QED
    BY <1>6, <1>7, <2>1, NewPlaces
<1>9. \A k \in DOMAIN nodes :
        nodes[k].op \in Jumps \ {"goto"} => After(code', work', C.block, 0, nodes[k].ref)
  BY <1>8 DEF After, Jumps
<1>10. BreakOK(C, P, nodes, new)
  BY DEF BreakOK
<1>11. ASSUME NEW d \in 1 .. Len(new)
       PROVE  LoopNew(C, P, nodes, new, d) /\ KindOK(code', labels', At(new, d))
  <2>1. c.end - 1 = c.start
    BY <1>3, <1>4
  <2>2. /\ c.start # NULL /\ c.end # NULL /\ c.end = c.start + 1 /\ LoopEnd(labels', c.end)
        /\ c.end = Len(labels') /\ c.block = C.block
    BY <1>3, <1>4, <2>1, IrMgrAssumption DEF LoopEnd
  <2>3. Lab(nodes, 1, c.start) /\ Waits(new, 1, C.block, c.end) /\ 1 <= d
    BY <1>4, <1>5
  <2>4. At(new, d).c = c => LoopNew(C, P, nodes, new, d)
    BY <2>2, <2>3 DEF LoopNew
  <2>5. CASE d = 1
    <3>1. w.c = C => LoopNew(C, P, nodes, new, d)
      BY <1>2, <2>5 DEF LoopNew
    <3>2. LoopNew(C, P, nodes, new, d)
      BY <2>4, <2>5, <3>1 DEF c
    <3>3. w.kind = "emit" => LateOK(code', w)
      <4> SUFFICES ASSUME w.kind = "emit" PROVE LateOK(code', w)
        OBVIOUS
      <4>1. \A i \in 1 .. 2 - 1 :
              w.arg[i].op = "jump" /\ \E j : Stands(code', w.c.block, j, w.arg[i].ref)
        BY <1>5, <1>8 DEF JumpsBack
      <4>2. /\ Len(w.arg) \in Nat \ {0} /\ DOMAIN w.arg = 1 .. Len(w.arg)
            /\ w.arg[Len(w.arg)].op = "label"
            /\ \A i \in 1 .. Len(w.arg) - 1 : i \in 1 .. 2 - 1
        <5>1. /\ Len(w.arg) = 2 /\ DOMAIN w.arg = 1 .. 2 /\ w.arg[2].op = "label"
          BY DEF JumpsBack
        <5> QED
          BY ONLY <5>1
      <4> QED
        BY <4>1, <4>2 DEF LateOK
    <3>4. KindOK(code', labels', w)
      BY <2>2, <3>3 DEF KindOK, c
    <3> QED
      BY <2>5, <3>2, <3>4
  <2>6. CASE d # 1
    <3>1. At(new, d).c = c /\ ~ Holder(At(new, d))
      BY <2>6 DEF c
    <3> QED
      BY <2>4, <3>1 DEF KindOK, Holder
  <2> QED
    BY <2>5, <2>6
<1>12. GoodMove(C, P, nodes, new)
  BY <1>3, <1>7, <1>9, <1>10, <1>11 DEF GoodMove
<1>13. Placing(code', work', labels')
  BY <1>1, <1>2, <1>3, <1>12, MovePlacing DEF P
<1>14. \A k \in DOMAIN nodes : nodes[k].op # "goto"
  OBVIOUS
<1> QED
  BY <1>1, <1>3, <1>13, <1>14, StepJInv

LEMMA HeadNodes ==
  ASSUME IInv, pc = "stmts", NEW e
  PROVE  LET nodes == <<Node("label", start1, NULL), Node("branch", end1, UseOf(e))>> IN
         /\ nodes \in Seq(NodeRec)
         /\ \A k, l : Lab(nodes, k, l) <=> k = 1 /\ l = start1
         /\ \A k \in DOMAIN nodes : \/ nodes[k].op = "label"
                                    \/ nodes[k].op = "branch" /\ nodes[k].ref = end1
<1> DEFINE x == Node("label", start1, NULL)
           y == Node("branch", end1, UseOf(e))
           nodes == <<x, y>>
<1>1. start1 \in Nat /\ end1 \in Nat
  BY NewLabels
<1>2. UseOf(e) \in Opt(Nat) /\ NULL \in Opt(Nat)
  BY UseUsable DEF Opt
<1>3. /\ x \in NodeRec /\ x.op = "label" /\ x.ref = start1
      /\ y \in NodeRec /\ y.op = "branch" /\ y.ref = end1
  BY <1>1, <1>2, NodeParts DEF Ops
<1> HIDE DEF x, y
<1>4. nodes \in Seq(NodeRec) /\ DOMAIN nodes = {1, 2} /\ nodes[1] = x /\ nodes[2] = y
  BY <1>3, TwoNodes
<1> HIDE DEF nodes
<1>5. \A k, l : Lab(nodes, k, l) <=> k = 1 /\ l = start1
  BY <1>3, <1>4 DEF Lab
<1>6. \A k \in DOMAIN nodes : \/ nodes[k].op = "label"
                              \/ nodes[k].op = "branch" /\ nodes[k].ref = end1
  BY <1>3, <1>4
<1> QED
  BY <1>4, <1>5, <1>6 DEF nodes, x, y

(* What is left of a while or a for when its body is done. *)
LEMMA TailTask ==
  ASSUME IInv, pc = "stmts"
  PROVE  LET late == <<Node("jump", start1, NULL), Node("label", end1, NULL)>>
             w == Task("emit", C, late) IN
         /\ w \in TaskRec /\ w.kind = "emit" /\ w.c = C /\ Pend(w) = {end1} /\ JumpsBack(w)
<1> DEFINE x == Node("jump", start1, NULL)
           y == Node("label", end1, NULL)
           late == <<x, y>>
           w == Task("emit", C, late)
<1>1. start1 \in Nat /\ end1 \in Nat /\ NULL \in Opt(Nat)
  BY NewLabels DEF Opt
<1>2. late \in Arg
  BY <1>1, LateFacts, LateArg
<1>3. /\ x \in NodeRec /\ x.op = "jump" /\ x.ref = start1
      /\ y \in NodeRec /\ y.op = "label" /\ y.ref = end1
  BY <1>1, NodeParts DEF Ops
<1> HIDE DEF x, y
<1>4. DOMAIN late = {1, 2} /\ Len(late) = 2 /\ late[1] = x /\ late[2] = y /\ {1, 2} = 1 .. 2
  BY <1>3, TwoNodes
<1> HIDE DEF late
<1>5. w \in TaskRec /\ w.kind = "emit" /\ w.c = C /\ w.arg = late
  BY <1>2, RestFacts, TaskFacts DEF TaskKinds
<1> HIDE DEF w
<1>6. Pend(w) = {end1} /\ JumpsBack(w)
  BY <1>3, <1>4, <1>5 DEF Pend, JumpsBack
<1> QED
  BY <1>3, <1>4, <1>5, <1>6 DEF w, late, x, y

LEMMA BodyTask ==
  ASSUME IInv, pc = "stmts", NEW kind \in {"block", "single"}, NEW c \in {C, Inner(C)}
  PROVE  LET w == Task(kind, c, NULL) IN
         w \in TaskRec /\ w.kind = kind /\ w.c = c /\ Pend(w) = {} /\ ~ Holder(w)
<1> DEFINE w == Task(kind, c, NULL)
<1>1. c \in Ctx /\ kind \in TaskKinds /\ NULL \in Arg
  BY InnerFacts DEF TaskKinds, Arg
<1>2. w \in TaskRec /\ w.kind = kind /\ w.c = c
  BY <1>1, TaskFacts
<1> HIDE DEF w
<1>3. Pend(w) = {} /\ ~ Holder(w)
  BY <1>2 DEF Pend, Holder
<1> QED
  BY <1>2, <1>3 DEF w

LEMMA BadCondJ ==
  ASSUME JInv, Running, NEW e, BadCond(e)
  PROVE  JInv'
BY AbortJInv DEF BadCond

LEMMA WhileJ ==
  ASSUME IInv, JInv, NEW e, While(e)
  PROVE  JInv'
<1> DEFINE late == <<Node("jump", start1, NULL), Node("label", end1, NULL)>>
           v == Task("block", Inner(C), NULL)
           w == Task("emit", C, late)
           nodes == <<Node("label", start1, NULL), Node("branch", end1, UseOf(e))>>
           new == <<v, w>>
<1>1. Running /\ ~ Holder(Top) /\ pc = "stmts" /\ (Rest = work \/ Rest = Tail(work))
  BY HereJ DEF While, Running
<1>2. CASE /\ labels' = LoopLabels /\ AddNodes(nodes) /\ work' = <<v, w>> \o Rest
           /\ UNCHANGED <<mUndefList, pc, result>>
  <2>1. /\ w \in TaskRec /\ w.kind = "emit" /\ w.c = C /\ Pend(w) = {end1}
        /\ JumpsBack(w)
    BY <1>1, TailTask
  <2>2. v \in TaskRec /\ v.c = Inner(C) /\ Pend(v) = {} /\ ~ Holder(v)
    BY <1>1, BodyTask
  <2>3. /\ nodes \in Seq(NodeRec)
        /\ \A k, l : Lab(nodes, k, l) <=> k = 1 /\ l = start1
        /\ \A k \in DOMAIN nodes : \/ nodes[k].op = "label"
                                   \/ nodes[k].op = "branch" /\ nodes[k].ref = end1
    BY <1>1, HeadNodes
  <2> HIDE DEF v, w, nodes
  <2>4. Adds(nodes)
    BY <1>2 DEF AddNodes, Adds
  <2>5. /\ new \in Seq(TaskRec) /\ Len(new) = 2 /\ At(new, 1) = w /\ At(new, 2) = v
        /\ \A d, b, l : Waits(new, d, b, l) <=> d = 1 /\ b = w.c.block /\ l \in Pend(w)
    BY <2>1, <2>2, TwoWaits
  <2>6. work' = new \o Rest
    BY <1>2
  <2> HIDE DEF new
  <2>7. \A d \in 2 .. Len(new) : At(new, d).c = Inner(C) /\ ~ Holder(At(new, d))
    BY <2>2, <2>5
  <2>8. Len(new) \in Nat \ {0}
    BY <2>5
  <2>9. /\ w.c = C \/ w.c = Inner(C)
        /\ w.kind # "else" /\ (w.kind = "until" => w.c = Inner(C))
        /\ JumpsBack(w)
    BY <2>1
  <2>10. Pend(w) = {end1}
    BY <2>1
  <2>11. labels' = LoopLabels /\ UNCHANGED <<mUndefList, pc, result>>
    BY <1>2
  <2> QED
    <3>1. LoopHead(nodes)
      BY <2>3, <2>4 DEF LoopHead
    <3>2. LoopTail(w)
      BY <2>9, <2>10 DEF LoopTail
    <3>3. LoopTasks(new, w)
      BY <2>5, <2>7, <2>8 DEF LoopTasks
    <3>4. LoopBegins(new)
      BY <1>1, <2>6, <2>11 DEF LoopBegins
    <3> QED
      BY <3>1, <3>2, <3>3, <3>4, LoopJInv
<1>3. CASE BadCond(e)
  BY <1>1, <1>3, BadCondJ
<1> QED
  BY <1>2, <1>3 DEF While

LEMMA ForHeadJ ==
  ASSUME IInv, JInv, NEW e, ForHead(e)
  PROVE  JInv'
<1> DEFINE late == <<Node("jump", start1, NULL), Node("label", end1, NULL)>>
           u == Task("block", Inner(C), NULL)
           v == Task("single", Inner(C), NULL)
           w == Task("emit", C, late)
           nodes == <<Node("label", start1, NULL), Node("branch", end1, UseOf(e))>>
           new == <<u, v, w>>
<1>1. Running /\ ~ Holder(Top) /\ pc = "stmts" /\ Rest = Tail(work)
  BY DEF ForHead, Going, Running, Holder, Rest
<1>2. CASE /\ labels' = LoopLabels /\ AddNodes(nodes) /\ work' = new \o Tail(work)
           /\ UNCHANGED <<mUndefList, pc, result>>
  <2>1. /\ w \in TaskRec /\ w.kind = "emit" /\ w.c = C /\ Pend(w) = {end1}
        /\ JumpsBack(w)
    BY <1>1, TailTask
  <2>2. /\ u \in TaskRec /\ u.c = Inner(C) /\ Pend(u) = {} /\ ~ Holder(u)
        /\ v \in TaskRec /\ v.c = Inner(C) /\ Pend(v) = {} /\ ~ Holder(v)
    BY <1>1, BodyTask
  <2>3. /\ nodes \in Seq(NodeRec)
        /\ \A k, l : Lab(nodes, k, l) <=> k = 1 /\ l = start1
        /\ \A k \in DOMAIN nodes : \/ nodes[k].op = "label"
                                   \/ nodes[k].op = "branch" /\ nodes[k].ref = end1
    BY <1>1, HeadNodes
  <2> HIDE DEF u, v, w, nodes
  <2>4. Adds(nodes)
    BY <1>2 DEF AddNodes, Adds
  <2>5. /\ new \in Seq(TaskRec) /\ Len(new) = 3
        /\ At(new, 1) = w /\ At(new, 2) = v /\ At(new, 3) = u
        /\ \A d, b, l : Waits(new, d, b, l) <=> d = 1 /\ b = w.c.block /\ l \in Pend(w)
    BY <2>1, <2>2, ThreeWaits
  <2>6. work' = new \o Rest
    BY <1>1, <1>2
  <2> HIDE DEF new
  <2>7. \A d \in 2 .. Len(new) : At(new, d).c = Inner(C) /\ ~ Holder(At(new, d))
    BY <2>2, <2>5
  <2>8. Len(new) \in Nat \ {0}
    BY <2>5
  <2>9. /\ w.c = C \/ w.c = Inner(C)
        /\ w.kind # "else" /\ (w.kind = "until" => w.c = Inner(C))
        /\ JumpsBack(w)
    BY <2>1
  <2>10. Pend(w) = {end1}
    BY <2>1
  <2>11. labels' = LoopLabels /\ UNCHANGED <<mUndefList, pc, result>>
    BY <1>2
  <2> QED
    <3>1. LoopHead(nodes)
      BY <2>3, <2>4 DEF LoopHead
    <3>2. LoopTail(w)
      BY <2>9, <2>10 DEF LoopTail
    <3>3. LoopTasks(new, w)
      BY <2>5, <2>7, <2>8 DEF LoopTasks
    <3>4. LoopBegins(new)
      BY <1>1, <2>6, <2>11 DEF LoopBegins
    <3> QED
      BY <3>1, <3>2, <3>3, <3>4, LoopJInv
<1>3. CASE BadCond(e)
  BY <1>1, <1>3, BadCondJ
<1> QED
  BY <1>2, <1>3 DEF ForHead

LEMMA DoWhileJ ==
  ASSUME IInv, JInv, DoWhile
  PROVE  JInv'
<1> DEFINE v == Task("block", Inner(C), NULL)
           w == Task("until", Inner(C), NULL)
           x == Node("label", start1, NULL)
           nodes == <<x>>
           new == <<v, w>>
<1>1. Running /\ ~ Holder(Top) /\ pc = "stmts" /\ (Rest = work \/ Rest = Tail(work))
  BY HereJ DEF DoWhile, Running
<1>2. /\ labels' = LoopLabels /\ AddNodes(nodes) /\ work' = new \o Rest
      /\ UNCHANGED <<mUndefList, pc, result>>
  BY DEF DoWhile
<1>3. start1 \in Nat /\ end1 \in Nat /\ NULL \in Opt(Nat)
  BY NewLabels DEF Opt
<1>4. w \in TaskRec /\ w.kind = "until" /\ w.c = Inner(C)
  BY <1>1, InnerFacts, TaskFacts DEF TaskKinds, Arg
<1>5. v \in TaskRec /\ v.c = Inner(C) /\ Pend(v) = {} /\ ~ Holder(v)
  BY <1>1, BodyTask
<1>6. x \in NodeRec /\ x.op = "label" /\ x.ref = start1
  BY <1>3, NodeParts DEF Ops
<1> HIDE DEF v, w, x
<1>7. nodes \in Seq(NodeRec) /\ DOMAIN nodes = {1} /\ nodes[1] = x
  BY <1>6, OneNode
<1>8. Pend(w) = {end1}
  <2>1. Inner(C).end = end1
    BY <1>1, InnerFacts DEF Inner, Ctx
  <2> QED
    BY <1>4, <2>1 DEF Pend
<1>9. /\ new \in Seq(TaskRec) /\ Len(new) = 2 /\ At(new, 1) = w /\ At(new, 2) = v
      /\ \A d, b, l : Waits(new, d, b, l) <=> d = 1 /\ b = w.c.block /\ l \in Pend(w)
  BY <1>4, <1>5, TwoWaits
<1> HIDE DEF nodes, new
<1>10. /\ \A k, l : Lab(nodes, k, l) <=> k = 1 /\ l = start1
       /\ \A k \in DOMAIN nodes : \/ nodes[k].op = "label"
                                  \/ nodes[k].op = "branch" /\ nodes[k].ref = end1
  BY <1>6, <1>7 DEF Lab
<1>11. Adds(nodes)
  BY <1>2 DEF AddNodes, Adds
<1>12. \A d \in 2 .. Len(new) : At(new, d).c = Inner(C) /\ ~ Holder(At(new, d))
  BY <1>5, <1>9
<1>13. Len(new) \in Nat \ {0}
  BY <1>9
<1> QED
  <2>1. LoopHead(nodes)
    BY <1>7, <1>10, <1>11 DEF LoopHead
  <2>2. LoopTail(w)
    BY <1>4, <1>8 DEF LoopTail
  <2>3. LoopTasks(new, w)
    BY <1>9, <1>12, <1>13 DEF LoopTasks
  <2>4. LoopBegins(new)
    BY <1>1, <1>2 DEF LoopBegins
  <2> QED
    BY <2>1, <2>2, <2>3, <2>4, LoopJInv

(* A statement ends with its last label, after jumps back to labels that   *)
(* stand.                                                                  *)
EndNodes(nodes, at, last) ==
  /\ nodes \in Seq(NodeRec) /\ at \in Nat \ {0} /\ Pend(Top) = {last}
  /\ \A k, l : Lab(nodes, k, l) <=> k = at /\ l = last
  /\ \A k \in DOMAIN nodes :
       \/ nodes[k].op = "label"
       \/ /\ nodes[k].op \in {"jump", "branch"}
          /\ \E j : Stands(code, C.block, j, nodes[k].ref)

LEMMA PlaceJInv ==
  ASSUME IInv, JInv, Running, Rest = Tail(work), NEW nodes, Appends(nodes),
         NEW at, NEW last, EndNodes(nodes, at, last)
  PROVE  JInv'
<1> USE DEF EndNodes
<1> DEFINE P == Pend(Top)
           n == Len(code[C.block])
           new == <<>>
<1>1. /\ pc = "stmts" /\ Placing(code, work, labels) /\ Known(code, work, labels)
      /\ labels' = labels /\ work' = Rest /\ UNCHANGED <<mUndefList, pc, result>>
  BY DEF Running, JInv, Placing, Appends
<1>2. Adds(nodes) /\ Leaves(Rest)
  BY DEF Leaves, Appends, AddNodes, Adds
<1>3. LabelsMove /\ Paired(labels') /\ FirstLabel
  BY <1>1, SameLabels
<1>4. new \in Seq(TaskRec) /\ Len(new) = 0
  BY EmptySeq
<1>5. work' = new \o Rest
  BY <1>1, RestFacts, ConcatEmptySeq
<1>6. \A d, b, l : ~ Waits(new, d, b, l)
  BY NoPlaces
<1> HIDE DEF P, n, new
<1>7. CodeMoves(C.block, n, nodes) /\ WorkMoves(C.block, Len(Rest), P, new)
  BY <1>1, <1>2, <1>4, <1>5, Moving DEF n, P
<1>8. Tidy(C.block, P, nodes, new)
  BY <1>6 DEF Tidy, Mine, P
<1>9. \A k \in DOMAIN nodes :
        nodes[k].op \in Jumps \ {"goto"} => After(code', work', C.block, 0, nodes[k].ref)
  <2> SUFFICES ASSUME NEW k \in DOMAIN nodes, nodes[k].op \in Jumps \ {"goto"}
               PROVE  After(code', work', C.block, 0, nodes[k].ref)
    OBVIOUS
  <2>1. PICK j : Stands(code, C.block, j, nodes[k].ref)
    BY DEF Jumps
  <2>2. Stands(code', C.block, j, nodes[k].ref)
    BY <1>7, <2>1 DEF CodeMoves
  <2>3. j \in 1 .. n /\ n \in Nat
    BY <1>7, <2>1 DEF CodeMoves, Stands
  <2>4. j > 0
    BY <2>3
  <2> QED
    BY <2>2, <2>4 DEF After
<1>10. BreakOK(C, P, nodes, new)
  BY DEF BreakOK
<1>11. \A d \in 1 .. Len(new) :
         LoopNew(C, P, nodes, new, d) /\ KindOK(code', labels', At(new, d))
  BY <1>4
<1>12. GoodMove(C, P, nodes, new)
  BY <1>3, <1>8, <1>9, <1>10, <1>11 DEF GoodMove
<1>13. Placing(code', work', labels')
  BY <1>1, <1>2, <1>3, <1>4, <1>5, <1>12, MovePlacing DEF P
<1>14. \A k \in DOMAIN nodes : nodes[k].op # "goto"
  OBVIOUS
<1> QED
  BY <1>1, <1>2, <1>3, <1>13, <1>14, StepJInv

(* What the invariant says of the task in progress. *)
LEMMA TopJ ==
  ASSUME IInv, JInv, Running
  PROVE  /\ LoopOK(code, work, labels, Len(work)) /\ KindOK(code, labels, Top)
         /\ C = At(work, Len(work)).c
<1>1. /\ Len(work) \in Nat \ {0} /\ Top = At(work, Len(work))
      /\ C = At(work, Len(work)).c
  BY TopTask DEF Running
<1>2. TasksOK(code, work, labels)
  BY DEF JInv, Running, Placing
<1>3. Len(work) \in 1 .. Len(work)
  BY <1>1
<1> QED
  BY <1>1, <1>2, <1>3 DEF TasksOK

LEMMA EmitJ ==
  ASSUME IInv, JInv, Emit
  PROVE  JInv'
<1> DEFINE nodes == Top.arg
           n == Len(nodes)
<1>1. Running /\ pc = "stmts" /\ Top.kind = "emit" /\ Rest = Tail(work) /\ Appends(nodes)
  BY DEF Emit, Going, Running, Rest
<1>2. LateOK(code, Top)
  BY <1>1, TopJ DEF KindOK
<1>3. nodes \in Seq(NodeRec)
  BY <1>1, RestFacts DEF TaskOK, LateNodes
<1>4. /\ n \in Nat \ {0} /\ DOMAIN nodes = 1 .. n /\ nodes[n].op = "label"
      /\ \A i \in 1 .. n - 1 :
           nodes[i].op = "jump" /\ \E j : Stands(code, C.block, j, nodes[i].ref)
  BY <1>2 DEF LateOK, C
<1>5. Pend(Top) = {nodes[n].ref}
  BY <1>1 DEF Pend
<1> HIDE DEF nodes, n
<1>6. \A i \in DOMAIN nodes : i = n \/ i \in 1 .. n - 1
  BY <1>4
<1>7. \A k, l : Lab(nodes, k, l) <=> k = n /\ l = nodes[n].ref
  BY <1>4, <1>6 DEF Lab
<1>8. \A k \in DOMAIN nodes :
        \/ nodes[k].op = "label"
        \/ /\ nodes[k].op \in {"jump", "branch"}
           /\ \E j : Stands(code, C.block, j, nodes[k].ref)
  BY <1>4, <1>6
<1> DEFINE last == nodes[n].ref
<1>9. Pend(Top) = {last} /\ \A k, l : Lab(nodes, k, l) <=> k = n /\ l = last
  BY <1>5, <1>7 DEF nodes
<1>10. n \in Nat \ {0}
  BY <1>4
<1> HIDE DEF last
<1>11. EndNodes(nodes, n, last)
  BY <1>3, <1>8, <1>9, <1>10 DEF EndNodes
<1>12. Appends(nodes)
  BY <1>1 DEF nodes
<1> QED
  BY <1>1, <1>11, <1>12, PlaceJInv

LEMMA UntilJ ==
  ASSUME IInv, JInv, NEW e, Until(e)
  PROVE  JInv'
<1> DEFINE x == Node("branch", C.start, UseOf(e))
           y == Node("label", C.end, NULL)
           nodes == <<x, y>>
<1>1. Running /\ pc = "stmts" /\ Top.kind = "until" /\ Rest = Tail(work)
  BY DEF Until, Going, Running, Rest
<1>2. CASE Appends(nodes)
  <2>1. C.end # NULL
    BY <1>1, TopJ DEF KindOK, C
  <2>2. /\ C.start # NULL
        /\ \E j : Stands(code, C.block, j, C.start)
    BY <1>1, <2>1, TopJ DEF LoopOK
  <2>3. C.start \in Nat /\ C.end \in Nat
    BY <1>1, <2>1, <2>2, RestFacts DEF Ctx, Opt
  <2>4. UseOf(e) \in Opt(Nat) /\ NULL \in Opt(Nat)
    BY <1>1, UseUsable DEF Opt
  <2>5. /\ x \in NodeRec /\ x.op = "branch" /\ x.ref = C.start
        /\ y \in NodeRec /\ y.op = "label" /\ y.ref = C.end
    BY <2>3, <2>4, NodeParts DEF Ops
  <2> HIDE DEF x, y
  <2>6. nodes \in Seq(NodeRec) /\ DOMAIN nodes = {1, 2} /\ nodes[1] = x /\ nodes[2] = y
    BY <2>5, TwoNodes
  <2> HIDE DEF nodes
  <2>7. \A k, l : Lab(nodes, k, l) <=> k = 2 /\ l = C.end
    BY <2>5, <2>6 DEF Lab
  <2>8. \A k \in DOMAIN nodes :
          \/ nodes[k].op = "label"
          \/ /\ nodes[k].op \in {"jump", "branch"}
             /\ \E j : Stands(code, C.block, j, nodes[k].ref)
    BY <2>2, <2>5, <2>6
  <2>9. Pend(Top) = {C.end}
    BY <1>1 DEF Pend, C
  <2> DEFINE last == C.end
             at == 2
  <2>10. /\ Pend(Top) = {last} /\ at \in Nat \ {0}
         /\ \A k, l : Lab(nodes, k, l) <=> k = at /\ l = last
    BY <2>7, <2>9
  <2> HIDE DEF last, at
  <2>11. EndNodes(nodes, at, last)
    BY <2>6, <2>8, <2>10 DEF EndNodes
  <2> QED
    BY <1>1, <1>2, <2>11, PlaceJInv
<1>3. CASE BadCond(e)
  BY <1>1, <1>3, BadCondJ
<1> QED
  BY <1>2, <1>3 DEF Until

LEMMA IfHeadJ ==
  ASSUME IInv, JInv, Running, ~ Holder(Top), NEW e, IfHead(e, Rest)
  PROVE  JInv'
<1> DEFINE v == Task("block", C, NULL)
           w == Task("else", C, start1)
           x == Node("branch", start1, UseOf(e))
           nodes == <<x>>
           new == <<v, w>>
           P == Pend(Top)
           n == Len(code[C.block])
<1>1. /\ pc = "stmts" /\ Placing(code, work, labels) /\ Known(code, work, labels)
      /\ Rest = work \/ Rest = Tail(work)
  BY DEF Running, JInv, Placing, Rest
<1>2. P = {} /\ Leaves(Rest)
  BY <1>1, HolderKinds DEF Holder, Leaves
<1>3. CASE /\ labels' = labels \o <<NewLabel("else"), NewLabel("fi")>>
           /\ AddNodes(nodes)
           /\ work' = new \o Rest
           /\ UNCHANGED <<mUndefList, pc, result>>
  <2>1. /\ start1 \in Nat /\ end1 \in Nat /\ end1 = start1 + 1
        /\ start1 \in DOMAIN labels' \ DOMAIN labels
        /\ end1 \in DOMAIN labels' \ DOMAIN labels
        /\ labels'[start1].role = "else" /\ labels'[end1].role = "fi"
        /\ LabelsMove /\ Paired(labels') /\ FirstLabel
    <3> DEFINE r1 == "else"
               r2 == "fi"
    <3>1. labels' = labels \o <<NewLabel(r1), NewLabel(r2)>>
      BY <1>3
    <3>2. r1 = "else" /\ r2 = "fi"
      OBVIOUS
    <3> HIDE DEF r1, r2
    <3> QED
      BY <1>1, <3>1, <3>2, PairOfLabels
  <2>2. v \in TaskRec /\ v.c = C /\ Pend(v) = {} /\ ~ Holder(v)
    BY <1>1, BodyTask
  <2>3. w \in TaskRec /\ w.kind = "else" /\ w.c = C /\ w.arg = start1
    BY <1>1, <2>1, RestFacts, TaskFacts DEF TaskKinds, Arg
  <2>4. UseOf(e) \in Opt(Nat)
    BY <1>1, UseUsable
  <2>5. x \in NodeRec /\ x.op = "branch" /\ x.ref = start1
    BY <2>1, <2>4, NodeParts DEF Ops
  <2> HIDE DEF v, w, x
  <2>6. nodes \in Seq(NodeRec) /\ DOMAIN nodes = {1} /\ nodes[1] = x
    BY <2>5, OneNode
  <2>7. Pend(w) = {start1, end1}
    BY <2>1, <2>3 DEF Pend
  <2>8. /\ new \in Seq(TaskRec) /\ Len(new) = 2 /\ At(new, 1) = w /\ At(new, 2) = v
        /\ \A d, b, l : Waits(new, d, b, l) <=> d = 1 /\ b = w.c.block /\ l \in Pend(w)
    BY <2>2, <2>3, TwoWaits
  <2> HIDE DEF nodes, new
  <2>9. \A k, l : ~ Lab(nodes, k, l)
    BY <2>5, <2>6 DEF Lab
  <2>10. Adds(nodes)
    BY <1>3 DEF AddNodes, Adds
  <2>11. CodeMoves(C.block, n, nodes) /\ WorkMoves(C.block, Len(Rest), P, new)
    BY <1>1, <1>2, <1>3, <2>6, <2>8, <2>10, Moving
  <2> HIDE DEF P, n
  <2>12. Tidy(C.block, P, nodes, new)
    BY <1>2, <2>1, <2>3, <2>7, <2>8, <2>9 DEF Tidy, Mine
  <2>13. \A k \in DOMAIN nodes :
          nodes[k].op \in Jumps \ {"goto"} => After(code', work', C.block, 0, nodes[k].ref)
    <3>1. Waits(new, 1, C.block, start1)
      BY <2>3, <2>7, <2>8
    <3>2. \E d : Waits(work', d, C.block, start1)
      BY <2>11, <2>12, <3>1, NewPlaces
    <3> QED
      BY <2>5, <2>6, <3>2 DEF After
  <2>14. BreakOK(C, P, nodes, new)
    BY <2>5, <2>6 DEF BreakOK
  <2>15. \A a, m, k : Waits(new, k, a, m) => k = 1 /\ labels'[m].role # "end"
    BY <2>1, <2>7, <2>8
  <2>16. ASSUME NEW d \in 1 .. Len(new)
         PROVE  LoopNew(C, P, nodes, new, d) /\ KindOK(code', labels', At(new, d))
    <3>1. d = 1 \/ d = 2
      BY <2>8
    <3>2. At(new, d).c = C
      BY <2>2, <2>3, <2>8, <3>1
    <3>3. LoopNew(C, P, nodes, new, d)
      BY <1>2, <2>15, <3>2 DEF LoopNew
    <3>4. KindOK(code', labels', w) /\ KindOK(code', labels', v)
      BY <2>1, <2>2, <2>3 DEF KindOK, Holder
    <3> QED
      BY <2>8, <3>1, <3>3, <3>4
  <2>17. GoodMove(C, P, nodes, new)
    BY <2>1, <2>12, <2>13, <2>14, <2>16 DEF GoodMove
  <2>18. Placing(code', work', labels')
    BY <1>1, <1>2, <1>3, <2>1, <2>6, <2>8, <2>10, <2>17, MovePlacing DEF P
  <2>19. \A k \in DOMAIN nodes : nodes[k].op # "goto"
    BY <2>5, <2>6
  <2> QED
    BY <1>1, <1>3, <2>1, <2>6, <2>10, <2>18, <2>19, StepJInv
<1>4. CASE BadCond(e)
  BY <1>4, BadCondJ
<1> QED
  BY <1>3, <1>4 DEF IfHead

LEMMA IfJ ==
  ASSUME IInv, JInv, NEW e, If(e)
  PROVE  JInv'
BY HereJ, IfHeadJ DEF If

LEMMA ElifJ ==
  ASSUME IInv, JInv, NEW e, Elif(e)
  PROVE  JInv'
<1>1. Running /\ ~ Holder(Top) /\ Rest = Tail(work)
  BY DEF Elif, Holder, Rest
<1> QED
  BY <1>1, IfHeadJ DEF Elif

LEMMA ElseJ ==
  ASSUME IInv, JInv, Else
  PROVE  JInv'
<1> DEFINE p == Top.arg
           q == Top.arg + 1
           y == Node("label", q, NULL)
           late == <<y>>
           v(k) == Task(k, C, NULL)
           w == Task("emit", C, late)
           x == Node("jump", q, NULL)
           z == Node("label", p, NULL)
           nodes == <<x, z>>
           P == Pend(Top)
           n == Len(code[C.block])
<1>1. /\ Running /\ pc = "stmts" /\ Top.kind = "else" /\ Rest = Tail(work)
      /\ Placing(code, work, labels) /\ Known(code, work, labels)
  BY DEF Else, Going, Running, Rest, JInv, Placing
<1>2. CASE Abort
  BY <1>1, <1>2, AbortJInv
<1>3. ASSUME AddNodes(nodes), NEW k \in {"block", "elif"}, work' = <<v(k), w>> \o Rest,
             UNCHANGED <<labels, mUndefList, pc, result>>
      PROVE  JInv'
  <2> DEFINE u == v(k)
             new == <<u, w>>
  <2>1. /\ p \in DOMAIN labels /\ labels[p].role # "end"
        /\ q \in DOMAIN labels /\ labels[q].role # "end"
    BY <1>1, TopJ DEF KindOK
  <2>2. p \in Nat /\ q \in Nat /\ p # q /\ NULL \in Opt(Nat)
    BY <1>1, RestFacts DEF TaskOK, Opt
  <2>3. P = {p, q} /\ Leaves(Rest)
    BY <1>1 DEF Pend, Leaves
  <2>4. work' = new \o Rest
    BY <1>3
  <2>5. /\ x \in NodeRec /\ x.op = "jump" /\ x.ref = q
        /\ y \in NodeRec /\ y.op = "label" /\ y.ref = q
        /\ z \in NodeRec /\ z.op = "label" /\ z.ref = p
    BY <2>2, NodeParts DEF Ops
  <2>6. late \in Arg
    BY <2>2, LateFacts, LateArg
  <2> HIDE DEF x, y, z
  <2>7. DOMAIN late = {1} /\ late[1] = y /\ Len(late) = 1
    BY <2>5, OneNode
  <2> HIDE DEF late
  <2>8. w \in TaskRec /\ w.kind = "emit" /\ w.c = C /\ w.arg = late
    BY <1>1, <2>6, RestFacts, TaskFacts DEF TaskKinds
  <2>9. u \in TaskRec /\ u.kind = k /\ u.c = C
    BY <1>1, RestFacts, TaskFacts DEF TaskKinds, Arg
  <2> HIDE DEF w, u
  <2>10. Pend(w) = {q} /\ Pend(u) = {} /\ ~ Holder(u)
    BY <2>5, <2>7, <2>8, <2>9 DEF Pend, Holder
  <2>11. nodes \in Seq(NodeRec) /\ DOMAIN nodes = {1, 2} /\ nodes[1] = x /\ nodes[2] = z
    BY <2>5, TwoNodes
  <2>12. /\ new \in Seq(TaskRec) /\ Len(new) = 2 /\ At(new, 1) = w /\ At(new, 2) = u
         /\ \A d, b, l : Waits(new, d, b, l) <=> d = 1 /\ b = w.c.block /\ l \in Pend(w)
    BY <2>8, <2>9, <2>10, TwoWaits
  <2> HIDE DEF nodes, new
  <2>13. \A i, l : Lab(nodes, i, l) <=> i = 2 /\ l = p
    BY <2>5, <2>11 DEF Lab
  <2>14. Adds(nodes)
    BY <1>3 DEF AddNodes, Adds
  <2>15. CodeMoves(C.block, n, nodes) /\ WorkMoves(C.block, Len(Rest), P, new)
    BY <1>1, <2>3, <2>4, <2>11, <2>12, <2>14, Moving
  <2> HIDE DEF P, n, p, q
  <2>16. Tidy(C.block, P, nodes, new)
    <3>1. \A d, b, l : Waits(new, d, b, l) <=> d = 1 /\ b = C.block /\ l = q
      BY <2>8, <2>10, <2>12
    <3>2. Lab(nodes, 2, p) /\ Waits(new, 1, C.block, q)
      BY <2>13, <3>1
    <3>3. \A l \in P : (\E i : Lab(nodes, i, l)) \/ (\E d : Waits(new, d, C.block, l))
      BY <2>3, <3>2
    <3>4. Mine(P, p) /\ Mine(P, q)
      BY <2>3 DEF Mine
    <3> QED
      BY <2>2, <2>13, <3>1, <3>3, <3>4 DEF Tidy
  <2>17. \A i \in DOMAIN nodes :
          nodes[i].op \in Jumps \ {"goto"} => After(code', work', C.block, 0, nodes[i].ref)
    <3>1. Waits(new, 1, C.block, q)
      BY <2>8, <2>10, <2>12
    <3>2. \E d : Waits(work', d, C.block, q)
      BY <2>15, <2>16, <3>1, NewPlaces
    <3>3. \A i \in DOMAIN nodes : nodes[i].op \in Jumps \ {"goto"} => nodes[i].ref = q
      BY <2>5, <2>11 DEF Jumps
    <3> QED
      BY <3>2, <3>3 DEF After
  <2>18. BreakOK(C, P, nodes, new)
    BY <2>5, <2>11 DEF BreakOK
  <2>19. \A a, m, d : Waits(new, d, a, m) => labels'[m].role # "end"
    BY <1>3, <2>1, <2>10, <2>12
  <2>20. (C.start = NULL /\ C.end = NULL) \/ C.end \notin P
    <3>1. CASE C.end = NULL
      BY <1>1, <3>1, TopJ DEF LoopOK
    <3>2. CASE C.end # NULL
      <4>1. LoopEnd(labels, C.end)
        BY <1>1, <3>2, TopJ DEF LoopOK
      <4> QED
        BY <2>1, <2>3, <4>1 DEF LoopEnd
    <3> QED
      BY <3>1, <3>2
  <2>21. ASSUME NEW d \in 1 .. Len(new)
         PROVE  LoopNew(C, P, nodes, new, d) /\ KindOK(code', labels', At(new, d))
    <3>1. d = 1 \/ d = 2
      BY <2>12
    <3>2. At(new, d).c = C
      BY <2>8, <2>9, <2>12, <3>1
    <3>3. LoopNew(C, P, nodes, new, d)
      BY <2>19, <2>20, <3>2 DEF LoopNew
    <3>4. LateOK(code', w)
      <4>1. /\ Len(w.arg) \in Nat \ {0} /\ DOMAIN w.arg = 1 .. Len(w.arg)
            /\ w.arg[Len(w.arg)].op = "label"
            /\ \A i \in 1 .. Len(w.arg) - 1 : FALSE
        <5>1. Len(w.arg) = 1 /\ DOMAIN w.arg = {1} /\ w.arg[1].op = "label"
          BY <2>5, <2>7, <2>8
        <5>2. 1 .. 1 = {1} /\ 1 \in Nat \ {0} /\ \A i \in 1 .. 1 - 1 : FALSE
          OBVIOUS
        <5> QED
          BY <5>1, <5>2
      <4> QED
        BY <4>1 DEF LateOK
    <3>5. KindOK(code', labels', w) /\ KindOK(code', labels', u)
      BY <2>8, <2>10, <3>4 DEF KindOK, Holder
    <3> QED
      BY <2>12, <3>1, <3>3, <3>5
  <2>22. LabelsMove /\ Paired(labels') /\ FirstLabel
    BY <1>1, <1>3, SameLabels
  <2>23. GoodMove(C, P, nodes, new)
    BY <2>16, <2>17, <2>18, <2>21, <2>22 DEF GoodMove
  <2>24. Placing(code', work', labels')
    BY <1>1, <2>3, <2>4, <2>11, <2>12, <2>14, <2>22, <2>23, MovePlacing DEF P
  <2>25. \A i \in DOMAIN nodes : nodes[i].op # "goto"
    BY <2>5, <2>11
  <2> QED
    BY <1>1, <1>3, <2>11, <2>14, <2>22, <2>24, <2>25, StepJInv
<1>4. CASE /\ AddNodes(nodes)
           /\ \E k \in {"block", "elif"} : work' = <<v(k), w>> \o Rest
           /\ UNCHANGED <<labels, mUndefList, pc, result>>
  BY <1>3, <1>4
<1> QED
  BY <1>1, <1>2, <1>4 DEF Else

(* A label or goto of the program, of a name that was not yet known. *)
LEMMA UserPlacing ==
  ASSUME IInv, JInv, Running, ~ Holder(Top), NEW lab, lab.role = "user",
         labels' = Append(labels, lab), NEW op \in {"goto", "label"}, NEW use \in Opt(Nat),
         AddNodes(<<Node(op, start1, use)>>), work' = Rest
  PROVE  LET nodes == <<Node(op, start1, use)>> IN
         /\ nodes \in Seq(NodeRec) /\ Adds(nodes) /\ DOMAIN nodes = {1} /\ nodes[1].op = op
         /\ LabelsMove /\ Placing(code', work', labels')
<1> DEFINE x == Node(op, start1, use)
           nodes == <<x>>
           new == <<>>
           P == Pend(Top)
<1>1. /\ pc = "stmts" /\ Placing(code, work, labels) /\ Known(code, work, labels)
      /\ Rest = work \/ Rest = Tail(work)
  BY DEF Running, JInv, Placing, Rest
<1>2. /\ start1 \in Nat /\ start1 \in DOMAIN labels' \ DOMAIN labels
      /\ LabelsMove /\ Paired(labels') /\ FirstLabel
  BY <1>1, OneLabel
<1>3. x \in NodeRec /\ x.op = op /\ x.ref = start1
  BY <1>2, NodeParts DEF Ops
<1>4. new \in Seq(TaskRec) /\ Len(new) = 0
  BY EmptySeq
<1>5. work' = new \o Rest
  BY <1>1, RestFacts, ConcatEmptySeq
<1>6. \A d, b, l : ~ Waits(new, d, b, l)
  BY NoPlaces
<1> HIDE DEF x
<1>7. nodes \in Seq(NodeRec) /\ DOMAIN nodes = {1} /\ nodes[1] = x
  BY <1>3, OneNode
<1>8. Adds(nodes)
  BY DEF AddNodes, Adds, x
<1> HIDE DEF nodes, new
<1>9. P = {} /\ Leaves(Rest)
  BY <1>1, HolderKinds DEF Holder, Leaves
<1> HIDE DEF P
<1>10. \A k, l : Lab(nodes, k, l) => k = 1 /\ l = start1
  BY <1>3, <1>7 DEF Lab
<1>11. Tidy(C.block, P, nodes, new)
  BY <1>2, <1>6, <1>9, <1>10 DEF Tidy, Mine
<1>12. \A k \in DOMAIN nodes : nodes[k].op \notin Jumps \ {"goto"}
  BY <1>3, <1>7 DEF Jumps
<1>13. BreakOK(C, P, nodes, new)
  BY <1>12 DEF BreakOK, Jumps
<1>14. \A d \in 1 .. Len(new) :
         LoopNew(C, P, nodes, new, d) /\ KindOK(code', labels', At(new, d))
  BY <1>4
<1>15. GoodMove(C, P, nodes, new)
  BY <1>2, <1>11, <1>12, <1>13, <1>14 DEF GoodMove
<1>16. Placing(code', work', labels')
  BY <1>1, <1>2, <1>4, <1>5, <1>7, <1>8, <1>9, <1>15, MovePlacing DEF P
<1> QED
  BY <1>2, <1>3, <1>7, <1>8, <1>16 DEF nodes, x

LEMMA GotoJ ==
  ASSUME IInv, JInv, NEW s, Goto(s)
  PROVE  JInv'
<1> DEFINE h == Find(handles, C.scope, s)
           lab == NewLabel("user")
<1>1. Running /\ ~ Holder(Top) /\ pc = "stmts" /\ GotosUndefined /\ Ending
  BY HereJ DEF Goto, Running, JInv
<1>2. CASE Fail
  BY <1>1, <1>2, FailJInv
<1>3. CASE Abort
  BY <1>1, <1>3, AbortJInv
<1>4. CASE ub' = TRUE
  BY <1>4 DEF JInv
<1>5. CASE /\ labels' = Append(labels, lab)
           /\ mUndefList' = Append(mUndefList, start1)
           /\ AddNodes(<<Node("goto", start1, Len(handles) + 1)>>)
           /\ work' = Rest /\ UNCHANGED <<pc, result>>
  <2>1. Len(handles) + 1 \in Opt(Nat)
    BY LenProperties DEF IInv, TypeInv, Opt
  <2>2. lab.role = "user" /\ lab.defined = FALSE
    BY DEF NewLabel
  <2> HIDE DEF lab
  <2>3. LabelsMove /\ Placing(code', work', labels')
    BY <1>1, <1>5, <2>1, <2>2, UserPlacing
  <2>4. start1 \in DOMAIN labels' /\ labels'[start1] = lab
    BY <1>1, <1>5, <2>2, OneLabel DEF JInv, Running, Placing
  <2>5. mUndefList \in Seq(DOMAIN labels) /\ DOMAIN labels \subseteq DOMAIN labels'
    BY <1>1, <2>3 DEF GotosUndefined, LabelsMove
  <2>6. mUndefList \in Seq(DOMAIN labels')
    BY <2>5, SeqMonotonic
  <2>7. IsSeq(mUndefList)
    BY <2>5, SeqIsSeq
  <2>8. /\ mUndefList' \in Seq(DOMAIN labels')
        /\ Len(mUndefList) \in Nat /\ DOMAIN mUndefList = 1 .. Len(mUndefList)
        /\ \A i \in 1 .. Len(mUndefList) : mUndefList[i] \in DOMAIN labels
    BY <1>5, <2>4, <2>5, <2>6, AppendProperties, LenProperties, ElementOfSeq
  <2>9. /\ DOMAIN mUndefList' = 1 .. Len(mUndefList) + 1
        /\ \A i \in 1 .. Len(mUndefList) : mUndefList'[i] = mUndefList[i]
        /\ mUndefList'[Len(mUndefList) + 1] = start1
    BY <1>5, <2>7, AppendIsSeq
  <2>10. \A i \in DOMAIN mUndefList' : ~ labels'[mUndefList'[i]].defined
    <3> TAKE i \in DOMAIN mUndefList'
    <3>1. CASE i \in 1 .. Len(mUndefList)
      BY <1>1, <2>3, <2>8, <2>9, <3>1 DEF LabelsMove, GotosUndefined
    <3>2. CASE i = Len(mUndefList) + 1
      BY <2>2, <2>4, <2>9, <3>2
    <3> QED
      BY <2>8, <2>9, <3>1, <3>2
  <2>11. mUndefList' # <<>>
    <3>1. Len(mUndefList) + 1 \in DOMAIN mUndefList'
      BY <2>8, <2>9
    <3> QED
      BY <3>1, EmptyIsSeq
  <2>12. GotosUndefined'
    BY <2>8, <2>10, <2>11 DEF GotosUndefined
  <2>13. Ending'
    BY <1>1, <1>5 DEF Ending
  <2> QED
    BY <2>3, <2>12, <2>13 DEF JInv
<1> QED
  BY <1>2, <1>3, <1>4, <1>5 DEF Goto

LEMMA LabelJ ==
  ASSUME IInv, JInv, NEW s, Label(s)
  PROVE  JInv'
<1> DEFINE h == Find(handles, C.scope, s)
           lab == [defined |-> TRUE, role |-> "user"]
           nodes == <<Node("label", start1, NULL)>>
<1>1. Running /\ ~ Holder(Top) /\ pc = "stmts"
  BY HereJ DEF Label, Running
<1>2. CASE Fail
  BY <1>1, <1>2, FailJInv
<1>3. CASE Abort
  BY <1>1, <1>3, AbortJInv
<1>4. CASE ub' = TRUE
  BY <1>4 DEF JInv
<1>5. CASE /\ labels' = Append(labels, lab) /\ AddNodes(nodes)
           /\ work' = Rest /\ UNCHANGED <<mUndefList, pc, result>>
  <2>1. lab.role = "user" /\ NULL \in Opt(Nat)
    BY DEF Opt
  <2> HIDE DEF lab
  <2>2. /\ nodes \in Seq(NodeRec) /\ Adds(nodes) /\ DOMAIN nodes = {1}
        /\ nodes[1].op = "label" /\ LabelsMove /\ Placing(code', work', labels')
    BY <1>1, <1>5, <2>1, UserPlacing
  <2> HIDE DEF nodes
  <2>3. \A k \in DOMAIN nodes : nodes[k].op # "goto"
    BY <2>2
  <2> QED
    BY <1>1, <1>5, <2>2, <2>3, StepJInv
<1> QED
  BY <1>2, <1>3, <1>4, <1>5 DEF Label

LEMMA EndListJ ==
  ASSUME IInv, JInv, EndList
  PROVE  JInv'
<1> DEFINE nodes == <<>>
           new == <<>>
           R == Tail(work)
<1>1. /\ Running /\ pc = "stmts" /\ ~ Holder(Top) /\ Placing(code, work, labels)
      /\ GotosUndefined /\ Ending /\ work' = R /\ UNCHANGED <<labels, code, mUndefList, result>>
      /\ pc' = IF Len(work) = 1 THEN "resolve" ELSE pc
  BY DEF EndList, Going, Running, Holder, JInv
<1>2. work \in Seq(TaskRec) /\ work # <<>>
  BY <1>1, TopTask
<1>3. R \in Seq(TaskRec) /\ Len(R) = Len(work) - 1 /\ Len(work) \in Nat
  BY <1>2, HeadTailProperties, LenProperties
<1>4. nodes \in Seq(NodeRec) /\ Adds(nodes) /\ PlainNodes(nodes)
  BY <1>1, NoNodes
<1>5. new \in Seq(TaskRec) /\ \A k \in DOMAIN new : PlainTask(new[k])
  BY EmptySeq, EmptyIsSeq
<1>6. work' = new \o R
  BY <1>1, <1>3, ConcatEmptySeq
<1>7. Pend(Top) = {} /\ (R = work \/ R = Tail(work))
  BY <1>1, HolderKinds DEF Holder
<1>8. Len(work) = 1 => work' = <<>>
  BY <1>1, <1>3, EmptySeq
<1> HIDE DEF nodes, new, R
<1>9. Placing(code', work', labels')
  BY <1>1, <1>4, <1>5, <1>6, <1>7, PlainPlacing
<1>10. Ending'
  BY <1>1, <1>8 DEF Ending
<1>11. GotosUndefined'
  BY <1>1 DEF GotosUndefined
<1> QED
  BY <1>9, <1>10, <1>11 DEF JInv

LEMMA ResolveJ ==
  ASSUME IInv, JInv, Resolve
  PROVE  JInv'
<1>1. ASSUME ~ ub PROVE Ending'
  BY <1>1 DEF Resolve, JInv, Ending
<1>2. ASSUME ~ ub PROVE GotosUndefined'
  BY <1>2 DEF Resolve, JInv, GotosUndefined
<1> QED
  BY <1>1, <1>2 DEF Resolve, JInv

(* The program is accepted only when no goto was left undefined. *)
LEMMA CheckJ ==
  ASSUME IInv, JInv, Check
  PROVE  JInv'
<1> SUFFICES ASSUME ~ ub PROVE JInv'
  BY DEF Check, JInv
<1>1. GotosUndefined /\ Ending /\ Placing(code, work, labels)
  BY DEF JInv
<1>2. UNCHANGED <<labels, code, mUndefList, work, ub>> /\ pc = "check" /\ pc' = "return"
  BY DEF Check
<1>3. result' = "toplevel" => mUndefList = <<>>
  <2> SUFFICES ASSUME result' = "toplevel" PROVE mUndefList = <<>>
    OBVIOUS
  <2>1. \A i \in DOMAIN mUndefList : labels[mUndefList[i]].defined
    BY IrMgrAssumption DEF Check
  <2>2. DOMAIN mUndefList = {}
    BY <1>1, <2>1 DEF GotosUndefined
  <2>3. mUndefList \in Seq(DOMAIN labels)
    BY <1>1 DEF GotosUndefined
  <2>4. Len(mUndefList) \in Nat /\ DOMAIN mUndefList = 1 .. Len(mUndefList)
    BY <2>3, LenProperties
  <2>5. Len(mUndefList) = 0
    BY <2>2, <2>4
  <2> QED
    BY <2>3, <2>5, EmptySeq
<1>4. Ending'
  BY <1>1, <1>2, <1>3 DEF Ending
<1>5. GotosUndefined'
  BY <1>1, <1>2 DEF GotosUndefined
<1> QED
  BY <1>1, <1>2, <1>4, <1>5 DEF JInv

LEMMA StutterJ ==
  ASSUME JInv, UNCHANGED vars
  PROVE  JInv'
BY DEF vars, JInv, GotosUndefined, Ending

LEMMA InitJ == Init => JInv
<1> SUFFICES ASSUME Init PROVE JInv
  OBVIOUS
<1> DEFINE c == [scope |-> 1, start |-> NULL, end |-> NULL, block |-> 1]
           w == Task("list", c, NULL)
<1>1. code = <<<<>>>> /\ labels = <<>> /\ work = <<w>> /\ mUndefList = <<>> /\ result = NULL
      /\ pc = "stmts"
  BY DEF Init
<1>2. w.kind = "list" /\ w.c = c /\ c.start = NULL /\ c.end = NULL
  BY DEF Task
<1> HIDE DEF w, c
<1>3. DOMAIN code = {1} /\ code[1] = <<>> /\ DOMAIN code[1] = {} /\ DOMAIN labels = {}
  BY <1>1, EmptyIsSeq
<1>4. Len(work) = 1 /\ At(work, 1) = w
  BY <1>1 DEF At
<1>5. Pend(w) = {}
  BY <1>2 DEF Pend
<1>6. \A b, i, l : ~ Stands(code, b, i, l)
  BY <1>3 DEF Stands
<1>7. \A d, b, l : ~ Waits(work, d, b, l)
  BY <1>4, <1>5 DEF Waits
<1>8. Once(code, work) /\ Known(code, work, labels)
  BY <1>3, <1>6, <1>7 DEF Once, Known
<1>9. Landing(code, work) /\ Innermost(code, work, labels)
  BY <1>3 DEF Landing, Innermost
<1>10. LoopOK(code, work, labels, 1) /\ KindOK(code, labels, At(work, 1))
  BY <1>2, <1>4 DEF LoopOK, KindOK
<1>11. TasksOK(code, work, labels)
  BY <1>4, <1>10 DEF TasksOK
<1>12. GotosUndefined
  BY <1>1, <1>3, EmptySeq, EmptyIsSeq DEF GotosUndefined
<1>13. Ending
  BY <1>1, IrMgrAssumption DEF Ending
<1> QED
  BY <1>8, <1>9, <1>11, <1>12, <1>13 DEF JInv, Placing

LEMMA NextJInv ==
  ASSUME IInv, JInv, [Next]_vars
  PROVE  JInv'
<1>1. left.names \subseteq Name
  BY DEF IInv, TypeInv, MiscType, Budget
<1>2. CASE \/ Block \/ Body \/ EndList \/ Emit \/ Break \/ Continue \/ DoWhile \/ For \/ Else
           \/ Switch
  BY <1>2, BlockJ, BodyJ, EndListJ, EmitJ, BreakJ, ContinueJ, DoWhileJ, ForJ, ElseJ, SwitchJ
<1>3. ASSUME NEW e,
             \/ ExprStmt(e) \/ While(e) \/ Until(e) \/ ForHead(e) \/ If(e) \/ Elif(e)
             \/ Return(e)
      PROVE  JInv'
  BY <1>3, ExprStmtJ, WhileJ, UntilJ, ForHeadJ, IfJ, ElifJ, ReturnJ
<1>4. ASSUME NEW n \in Name,
             \/ IncrDecr(n) \/ Goto(n) \/ Label(n) \/ EnumDecl(n)
             \/ \E e : Assignment(n, e) \/ EnumConst(n, e)
             \/ \E e, ty : ConstDecl(n, ty, e) \/ VarDecl(n, ty, e)
      PROVE  JInv'
  BY <1>4, IncrDecrJ, GotoJ, LabelJ, EnumDeclJ, AssignmentJ, EnumConstJ, ConstDeclJ, VarDeclJ
<1>5. ASSUME NEW n, NEW ty, NEW ps, NEW ds, FuncDecl(n, ty, ps, ds)
      PROVE  JInv'
  BY <1>5, FuncDeclJ
<1>6. CASE EnumEnd \/ Resolve \/ Check
  BY <1>6, EnumEndJ, ResolveJ, CheckJ
<1>7. CASE Ended \/ UNCHANGED vars
  BY <1>7, StutterJ DEF Ended
<1> QED
  BY <1>1, <1>2, <1>3, <1>4, <1>5, <1>6, <1>7 DEF Next

LEMMA SpecJInv == Spec => [](IInv /\ JInv)
<1>1. Init => IInv /\ JInv
  BY InitIInv, InitJ
<1>2. (IInv /\ JInv) /\ [Next]_vars => (IInv /\ JInv)'
  BY NextIInv, NextJInv
<1> QED
  BY <1>1, <1>2, PTL DEF Spec

-----------------------------------------------------------------------------
(* The places that the properties speak of. *)
LEMMA PlacesAre ==
  ASSUME NEW b, NEW i, NEW l
  PROVE  <<b, i>> \in PlacesOf(l) <=> Stands(code, b, i, l)
<1> DEFINE all == UNION {{<<a, j>> : j \in DOMAIN code[a]} : a \in DOMAIN code}
<1>1. <<b, i>> \in all <=> b \in DOMAIN code /\ i \in DOMAIN code[b]
  OBVIOUS
<1> HIDE DEF all
<1>2. PlacesOf(l) = {p \in all : code[p[1]][p[2]].op = "label" /\ code[p[1]][p[2]].ref = l}
  BY DEF PlacesOf, all
<1>3. <<b, i>>[1] = b /\ <<b, i>>[2] = i
  OBVIOUS
<1> QED
  BY <1>1, <1>2, <1>3 DEF Stands

LEMMA PlacesArePairs ==
  ASSUME NEW l, NEW p \in PlacesOf(l)
  PROVE  \E b, i : p = <<b, i>>
BY DEF PlacesOf

(* An accepted program has no task left, and no goto. *)
LEMMA Accepted ==
  ASSUME JInv, result = "toplevel", ~ ub
  PROVE  /\ Once(code, work) /\ Landing(code, work) /\ Innermost(code, work, labels)
         /\ Known(code, work, labels)
         /\ \A d, b, l : ~ Waits(work, d, b, l)
         /\ \A b \in DOMAIN code : \A i \in DOMAIN code[b] : code[b][i].op # "goto"
<1>1. work = <<>> /\ mUndefList = <<>>
  BY DEF JInv, Ending
<1>2. \A d, b, l : ~ Waits(work, d, b, l)
  BY <1>1, NoPlaces
<1> QED
  BY <1>1, <1>2 DEF JInv, Placing, GotosUndefined

LEMMA JInvLands ==
  ASSUME JInv
  PROVE  JumpsLand
<1> SUFFICES ASSUME result = "toplevel", ~ ub, NEW b \in DOMAIN code,
                    NEW i \in DOMAIN code[b], code[b][i].op \in Jumps
             PROVE  \E j \in DOMAIN code[b] : PlacesOf(code[b][i].ref) = {<<b, j>>}
  BY DEF JumpsLand
<1> DEFINE l == code[b][i].ref
<1>1. After(code, work, b, 0, l)
  BY Accepted DEF Landing
<1>2. PICK j : Stands(code, b, j, l)
  BY <1>1, Accepted DEF After
<1> HIDE DEF l
<1>3. <<b, j>> \in PlacesOf(l) /\ j \in DOMAIN code[b]
  BY <1>2, PlacesAre DEF Stands
<1>4. ASSUME NEW p \in PlacesOf(l) PROVE p = <<b, j>>
  <2>1. PICK a, k : p = <<a, k>>
    BY PlacesArePairs
  <2>2. Stands(code, a, k, l)
    BY <2>1, PlacesAre
  <2>3. a = b /\ k = j
    BY <1>2, <2>2, Accepted DEF Once
  <2> QED
    BY <2>1, <2>3
<1>5. PlacesOf(l) = {<<b, j>>}
  BY <1>3, <1>4
<1> QED
  BY <1>3, <1>5 DEF l

(* The loops around a place of an accepted program, by their end labels. *)
LEMMA LoopsAre ==
  ASSUME IInv, JInv, result = "toplevel", ~ ub, NEW b \in DOMAIN code,
         NEW i \in DOMAIN code[b]
  PROVE  /\ \A m : Around(code, work, labels, b, i, m) =>
                     m - 1 \in LoopsAround(b, i) /\ m \in Nat
         /\ \A l \in LoopsAround(b, i) :
              Around(code, work, labels, b, i, l + 1) /\ l \in Nat
<1>1. Len(labels) \in Nat /\ DOMAIN labels = 1 .. Len(labels)
  BY LenProperties DEF IInv, TypeInv, MiscType
<1>2. code[b] \in Seq(NodeRec)
  BY ElementOfSeq, LenProperties DEF IInv, TypeInv
<1> DEFINE n == Len(code[b])
<1>3. n \in Nat /\ DOMAIN code[b] = 1 .. n
  BY <1>2, LenProperties
<1> HIDE DEF n
<1>4. ASSUME NEW m, Around(code, work, labels, b, i, m)
      PROVE  m - 1 \in LoopsAround(b, i) /\ m \in Nat
  <2>1. LoopEnd(labels, m)
    BY <1>4 DEF Around
  <2>2. PICK j : j < i /\ Stands(code, b, j, m - 1)
    BY <1>4 DEF Around
  <2>3. PICK k : k > i /\ Stands(code, b, k, m)
    BY <1>4, Accepted DEF Around, After
  <2>4. m \in Nat /\ (m - 1) + 1 = m /\ m - 1 \in DOMAIN labels
    BY <1>1, <2>1 DEF LoopEnd
  <2>5. j \in 1 .. n /\ k \in 1 .. n
    BY <1>3, <2>2, <2>3 DEF Stands
  <2>6. j \in 1 .. i - 1 /\ k \in i + 1 .. n
    BY <1>3, <2>2, <2>3, <2>5
  <2>7. <<b, j>> \in PlacesOf(m - 1) /\ <<b, k>> \in PlacesOf((m - 1) + 1)
    BY <2>2, <2>3, <2>4, PlacesAre
  <2>8. labels[m - 1].role = "start"
    BY <2>1 DEF LoopEnd
  <2> QED
    BY <2>4, <2>6, <2>7, <2>8 DEF LoopsAround, n
<1>5. ASSUME NEW l \in LoopsAround(b, i)
      PROVE  Around(code, work, labels, b, i, l + 1) /\ l \in Nat
  <2>1. l \in DOMAIN labels /\ labels[l].role = "start"
    BY DEF LoopsAround
  <2>2. PICK j \in 1 .. i - 1, k \in i + 1 .. n :
          <<b, j>> \in PlacesOf(l) /\ <<b, k>> \in PlacesOf(l + 1)
    BY DEF LoopsAround, n
  <2>3. Stands(code, b, j, l) /\ Stands(code, b, k, l + 1) /\ j < i /\ k > i
    BY <1>3, <2>2, PlacesAre
  <2>4. l \in Nat /\ (l + 1) - 1 = l
    BY <1>1, <2>1
  <2>5. l + 1 \in DOMAIN labels /\ labels[l + 1].role = "end"
    BY <2>1, Accepted DEF Known
  <2>6. LoopEnd(labels, l + 1)
    BY <2>1, <2>4, <2>5 DEF LoopEnd
  <2>7. After(code, work, b, i, l + 1)
    BY <2>3 DEF After
  <2> QED
    BY <2>3, <2>4, <2>6, <2>7 DEF Around
<1> QED
  BY <1>4, <1>5

LEMMA JInvInnermost ==
  ASSUME IInv, JInv
  PROVE  JumpsInnermost
<1> SUFFICES ASSUME result = "toplevel", ~ ub, NEW b \in DOMAIN code,
                    NEW i \in DOMAIN code[b]
             PROVE  LET node == code[b][i] IN
                    /\ node.op = "break" => /\ node.ref - 1 \in LoopsAround(b, i)
                                            /\ \A l \in LoopsAround(b, i) : l <= node.ref - 1
                    /\ node.op = "continue" => /\ node.ref \in LoopsAround(b, i)
                                               /\ \A l \in LoopsAround(b, i) : l <= node.ref
  BY DEF JumpsInnermost
<1> DEFINE node == code[b][i]
           m == EndOf(node)
<1>1. /\ \A x : Around(code, work, labels, b, i, x) =>
                  x - 1 \in LoopsAround(b, i) /\ x \in Nat
      /\ \A l \in LoopsAround(b, i) : Around(code, work, labels, b, i, l + 1) /\ l \in Nat
  BY LoopsAre
<1>2. node.op \in {"break", "continue"} =>
        /\ Around(code, work, labels, b, i, m)
        /\ \A x : Around(code, work, labels, b, i, x) => x <= m
  BY Accepted DEF Innermost
<1> HIDE DEF node
<1>3. node.op = "break" => m = node.ref
  BY DEF EndOf
<1>4. node.op = "continue" => m = node.ref + 1
  BY DEF EndOf
<1> HIDE DEF m
<1>5. ASSUME node.op \in {"break", "continue"}
      PROVE  m - 1 \in LoopsAround(b, i) /\ \A l \in LoopsAround(b, i) : l <= m - 1
  <2>1. m - 1 \in LoopsAround(b, i) /\ m \in Nat
    BY <1>1, <1>2, <1>5
  <2>2. ASSUME NEW l \in LoopsAround(b, i) PROVE l <= m - 1
    <3>1. l + 1 <= m /\ l \in Nat
      BY <1>1, <1>2, <1>5
    <3> QED
      BY <2>1, <3>1
  <2> QED
    BY <2>1, <2>2
<1>6. node.op = "continue" => m - 1 = node.ref
  <2> SUFFICES ASSUME node.op = "continue" PROVE m - 1 = node.ref
    OBVIOUS
  <2>1. After(code, work, b, 0, node.ref)
    BY Accepted DEF Landing, node, Jumps
  <2>2. node.ref \in DOMAIN labels
    BY <2>1, Accepted DEF After, Known
  <2>3. node.ref \in Nat
    <3>1. labels \in Seq(LabelRec)
      BY Zenon DEF IInv, TypeInv, MiscType
    <3>2. DOMAIN labels = 1 .. Len(labels) /\ Len(labels) \in Nat
      BY <3>1, LenProperties
    <3> QED
      BY ONLY <2>2, <3>2
  <2>4. m = node.ref + 1
    BY <1>4
  <2> QED
    BY ONLY <2>3, <2>4
<1> QED
  BY <1>3, <1>5, <1>6 DEF node

(* In a program that elaborate accepts, every jump that elab_stmt made     *)
(* goes to a label that stands once, in the jump's own block, however      *)
(* loops, ifs and functions are nested (up to the first use of an          *)
(* uninitialised label_node).                                              *)
THEOREM JumpsLandTheorem == Spec => []JumpsLand
<1>1. IInv /\ JInv => JumpsLand
  BY JInvLands
<1> QED
  BY <1>1, SpecJInv, PTL

(* In such a program a break or continue that elab_stmt made belongs to    *)
(* the innermost loop around it in the flat code: the labels it passes     *)
(* down are never those of an outer loop, or of one that is closed.        *)
THEOREM JumpsInnermostTheorem == Spec => []JumpsInnermost
<1>1. IInv /\ JInv => JumpsInnermost
  BY JInvInnermost
<1> QED
  BY <1>1, SpecJInv, PTL

=============================================================================
