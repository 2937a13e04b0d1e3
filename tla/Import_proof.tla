---------------------------- MODULE Import_proof ----------------------------
(***************************************************************************)
(* Proofs about Import: for every set of source files, cyclic imports      *)
(* included, and every depth of the recursion, the handles an importing    *)
(* module sees lead to what they name, no module is made with an import    *)
(* missing, and a failure spreads to every waiting compile.                *)
(***************************************************************************)
EXTENDS Import, SeqLemmas

(* What a module exports, as the handle h of a scope names it, is where h  *)
(* says, among the modules mods and counting imported from 1.              *)
Leads(h, imported, mods) ==
  HasHandleAccessor(h, "local_index") =>
    /\ h.module_index \in DOMAIN imported
    /\ LET m == mods[imported[h.module_index]]
           list == IF h.handle_type = "Function" THEN m.funcs ELSE m.vars
       IN  h.local_index + 1 \in DOMAIN list
             /\ list[h.local_index + 1] = h.name

ScopeLeads(scope, imported, mods) ==
  \A j \in DOMAIN scope : Leads(scope[j], imported, mods)

ModuleRec == [name : Module, imported : Seq(Nat), funcs : Seq(Symbol),
              vars : Seq(Symbol)]

FrameType(f, mods) ==
  /\ DOMAIN f = {"name", "mModuleDict", "mScopeDict", "imported", "toplevel_scope"}
  /\ f.name \in Module
  /\ f.imported \in Seq(DOMAIN mods)
  /\ IsSeq(f.toplevel_scope)

(* The scopes of an activation, those of its dictionary and those it has   *)
(* given out, speak of the modules it has imported.                        *)
FrameLeads(f, mods) ==
  /\ \A i \in DOMAIN f.toplevel_scope :
       ScopeLeads(f.toplevel_scope[i].scope, f.imported, mods)
  /\ \A m \in DOMAIN f.mScopeDict : ScopeLeads(f.mScopeDict[m], f.imported, mods)
  /\ \A n \in DOMAIN f.mModuleDict : f.mModuleDict[n] \in DOMAIN mods

HeadList(f, src) == src[f.name].head
Left(f, src) == Len(f.imported) < Len(HeadList(f, src))

TypeInv ==
  /\ source \in [Module -> Source]
  /\ modules \in Seq(ModuleRec)
  /\ ret \in {NULL, Pending} \cup DOMAIN modules
  /\ IsSeq(stack)
  /\ \A k \in DOMAIN stack : FrameType(stack[k], modules)

(* An activation that waits for an import, which every one below the top   *)
(* does, has a statement left; none has taken more than there are.         *)
ImportsCounted ==
  \A k \in DOMAIN stack :
    /\ Len(stack[k].imported) <= Len(HeadList(stack[k], source))
    /\ (k < Len(stack) \/ ret # Pending) => Left(stack[k], source)

ScopesLead == \A k \in DOMAIN stack : FrameLeads(stack[k], modules)

IInv == TypeInv /\ ImportsCounted /\ ScopesLead /\ NoPartialModule

-----------------------------------------------------------------------------
(* A scope that leads somewhere still does when modules are made and       *)
(* imported after it.                                                      *)
LEMMA ScopeLeadsGrows ==
  ASSUME NEW scope, NEW mods, NEW mods2, NEW imported \in Seq(DOMAIN mods), NEW imported2,
         ScopeLeads(scope, imported, mods),
         \A i \in DOMAIN mods : i \in DOMAIN mods2 /\ mods2[i] = mods[i],
         \A i \in DOMAIN imported : i \in DOMAIN imported2 /\ imported2[i] = imported[i]
  PROVE  ScopeLeads(scope, imported2, mods2)
<1> SUFFICES ASSUME NEW j \in DOMAIN scope PROVE Leads(scope[j], imported2, mods2)
  BY DEF ScopeLeads
<1> DEFINE h == scope[j]
<1>1. Leads(h, imported, mods)
  BY DEF ScopeLeads
<1> HIDE DEF h
<1>2. SUFFICES ASSUME HasHandleAccessor(h, "local_index")
               PROVE  Leads(h, imported2, mods2)
  BY DEF Leads, h
<1>3. h.module_index \in DOMAIN imported
  BY <1>1, <1>2 DEF Leads
<1>4. imported[h.module_index] \in DOMAIN mods
  BY <1>3, LenProperties, ElementOfSeq
<1>5. mods2[imported2[h.module_index]] = mods[imported[h.module_index]]
  BY <1>3, <1>4
<1> QED
  BY <1>1, <1>2, <1>3, <1>5 DEF Leads

(* An activation is not disturbed by the modules made after it. *)
LEMMA FrameGrows ==
  ASSUME NEW f, NEW mods, NEW mods2, FrameType(f, mods), FrameLeads(f, mods),
         \A i \in DOMAIN mods : i \in DOMAIN mods2 /\ mods2[i] = mods[i]
  PROVE  FrameType(f, mods2) /\ FrameLeads(f, mods2)
<1>1. f.imported \in Seq(DOMAIN mods2)
  BY SeqMonotonic DEF FrameType
<1>2. ASSUME NEW scope, ScopeLeads(scope, f.imported, mods)
      PROVE  ScopeLeads(scope, f.imported, mods2)
  <2>1. f.imported \in Seq(DOMAIN mods)
    BY DEF FrameType
  <2> QED
    BY <1>2, <2>1, ScopeLeadsGrows
<1> QED
  BY <1>1, <1>2 DEF FrameType, FrameLeads

(* A module joins imported_module_list and its scope the toplevel scope. *)
LEMMA EnterFacts ==
  ASSUME NEW f, NEW module \in DOMAIN modules, NEW scope, FrameType(f, modules),
         FrameLeads(f, modules),
         ScopeLeads(scope, Append(f.imported, module), modules)
  PROVE  LET g == Enter(f, module, scope) IN
         /\ FrameType(g, modules)
         /\ FrameLeads(g, modules)
         /\ g.name = f.name
         /\ g.imported = Append(f.imported, module)
         /\ g.mModuleDict = f.mModuleDict
         /\ g.mScopeDict = f.mScopeDict
<1> DEFINE g == Enter(f, module, scope)
           item == [name |-> Stmt.alias, scope |-> scope]
           list == f.toplevel_scope
<1>1. /\ DOMAIN g = DOMAIN f
      /\ g.name = f.name
      /\ g.imported = Append(f.imported, module)
      /\ g.mModuleDict = f.mModuleDict
      /\ g.mScopeDict = f.mScopeDict
      /\ g.toplevel_scope = Append(list, item)
  BY DEF FrameType, Enter
<1>2. item.scope = scope
  OBVIOUS
<1> HIDE DEF g, item, list
<1>3. IsSeq(list)
  BY DEF FrameType, list
<1>4. /\ IsSeq(Append(list, item))
      /\ DOMAIN Append(list, item) = 1 .. Len(list) + 1
      /\ \A i \in 1 .. Len(list) : Append(list, item)[i] = list[i]
      /\ Append(list, item)[Len(list) + 1] = item
  BY <1>3, AppendIsSeq
<1>5. Len(list) \in Nat /\ DOMAIN list = 1 .. Len(list)
  BY <1>3, IsSeqFacts
<1>6. f.imported \in Seq(DOMAIN modules)
  BY DEF FrameType
<1>7. /\ Append(f.imported, module) \in Seq(DOMAIN modules)
      /\ \A i \in DOMAIN f.imported : /\ i \in DOMAIN Append(f.imported, module)
                                      /\ Append(f.imported, module)[i] = f.imported[i]
  BY <1>6, AppendProperties, LenProperties
<1>8. FrameType(g, modules)
  BY <1>1, <1>4, <1>7 DEF FrameType
<1>9. ASSUME NEW old, ScopeLeads(old, f.imported, modules)
      PROVE  ScopeLeads(old, g.imported, modules)
  <2> DEFINE im == Append(f.imported, module)
  <2>1. \A i \in DOMAIN f.imported : i \in DOMAIN im /\ im[i] = f.imported[i]
    BY <1>7
  <2> HIDE DEF im
  <2>2. ScopeLeads(old, im, modules)
    BY <1>6, <1>9, <2>1, ScopeLeadsGrows
  <2> QED
    BY <1>1, <2>2 DEF im
<1>10. \A i \in DOMAIN g.toplevel_scope :
         ScopeLeads(g.toplevel_scope[i].scope, g.imported, modules)
  <2> TAKE i \in DOMAIN g.toplevel_scope
  <2>1. i \in 1 .. Len(list) + 1
    BY <1>1, <1>4
  <2>2. CASE i = Len(list) + 1
    BY <1>1, <1>2, <1>4, <2>2
  <2>3. CASE i \in 1 .. Len(list)
    <3>1. g.toplevel_scope[i] = list[i]
      BY <1>1, <1>4, <2>3
    <3>2. ScopeLeads(list[i].scope, f.imported, modules)
      BY <1>5, <2>3 DEF FrameLeads, list
    <3> QED
      BY <1>9, <3>1, <3>2
  <2> QED
    BY <1>5, <2>1, <2>2, <2>3
<1>11. FrameLeads(g, modules)
  BY <1>1, <1>9, <1>10 DEF FrameLeads
<1> QED
  BY <1>1, <1>8, <1>11 DEF g

(* An activation as compile begins it. *)
LEMMA ActivationFacts ==
  ASSUME NEW name \in Module, NEW mods
  PROVE  /\ FrameType(Activation(name), mods)
         /\ FrameLeads(Activation(name), mods)
         /\ Len(Activation(name).imported) = 0
         /\ Activation(name).name = name
<1> DEFINE f == Activation(name)
<1>1. /\ DOMAIN f = {"name", "mModuleDict", "mScopeDict", "imported", "toplevel_scope"}
      /\ f.name = name
      /\ f.imported = <<>>
      /\ f.toplevel_scope = <<>>
      /\ DOMAIN f.mModuleDict = {}
      /\ DOMAIN f.mScopeDict = {}
  BY DEF Activation, NoEntries
<1> HIDE DEF f
<1>2. <<>> \in Seq(DOMAIN mods) /\ Len(<<>>) = 0
  BY EmptySeq
<1>3. FrameType(f, mods)
  BY <1>1, <1>2, EmptyIsSeq DEF FrameType
<1>4. FrameLeads(f, mods)
  BY <1>1, EmptyIsSeq DEF FrameLeads
<1> QED
  BY <1>1, <1>2, <1>3, <1>4 DEF f

(* Scopes are put together of parts. *)
LEMMA ConcatLeads ==
  ASSUME NEW s, IsSeq(s), NEW t, IsSeq(t), NEW imported, NEW mods,
         \A i \in DOMAIN s : Leads(s[i], imported, mods),
         \A i \in DOMAIN t : Leads(t[i], imported, mods)
  PROVE  IsSeq(s \o t) /\ \A i \in DOMAIN (s \o t) : Leads((s \o t)[i], imported, mods)
<1> DEFINE u == s \o t
<1>1. /\ IsSeq(u)
      /\ DOMAIN u = 1 .. Len(s) + Len(t)
      /\ \A i \in 1 .. Len(s) : u[i] = s[i]
      /\ \A i \in 1 .. Len(t) : u[Len(s) + i] = t[i]
  BY ConcatIsSeq
<1>2. /\ Len(s) \in Nat /\ DOMAIN s = 1 .. Len(s)
      /\ Len(t) \in Nat /\ DOMAIN t = 1 .. Len(t)
  BY IsSeqFacts
<1> HIDE DEF u
<1>3. ASSUME NEW i \in DOMAIN u PROVE Leads(u[i], imported, mods)
  <2>1. CASE i \in 1 .. Len(s)
    BY <1>1, <1>2, <2>1
  <2>2. CASE i \notin 1 .. Len(s)
    <3>1. i - Len(s) \in 1 .. Len(t) /\ Len(s) + (i - Len(s)) = i
      BY <1>1, <1>2, <2>2
    <3>2. u[i] = t[i - Len(s)]
      BY <1>1, <3>1
    <3> QED
      BY <1>2, <3>1, <3>2
  <2> QED
    BY <2>1, <2>2
<1> QED
  BY <1>1, <1>3 DEF u

(* The scope of a module just imported: module_index is its place in the   *)
(* list it joins, and the handles count what it exports from 0.            *)
LEMMA module2scopeLeads ==
  ASSUME TypeInv, NEW module \in DOMAIN modules, NEW name, NEW imported \in Seq(DOMAIN modules)
  PROVE  ScopeLeads(module2scope(module, name, Len(imported) + 1),
                    Append(imported, module), modules)
<1> DEFINE m == modules[module]
           mi == Len(imported) + 1
           im == Append(imported, module)
           A == ScopeHandles(name, m.imported)
           B == FuncHandles(m.funcs, mi)
           C == VarHandles(m.vars, mi)
<1>1. m \in ModuleRec
  BY LenProperties, ElementOfSeq DEF TypeInv
<1>2. im[mi] = module /\ mi \in DOMAIN im
  BY AppendProperties, LenProperties
<1>3. /\ m.imported \in Seq(Nat)
      /\ m.funcs \in Seq(Symbol)
      /\ m.vars \in Seq(Symbol)
  BY <1>1 DEF ModuleRec
<1> HIDE DEF m, im, mi
<1>4. IsSeq(A) /\ \A i \in DOMAIN A : Leads(A[i], im, modules)
  <2>1. DOMAIN m.imported = 1 .. Len(m.imported) /\ Len(m.imported) \in Nat
    BY <1>3, LenProperties
  <2> DEFINE S == {A[i] : i \in DOMAIN m.imported}
  <2>2. A \in [1 .. Len(m.imported) -> S]
    BY <2>1 DEF ScopeHandles
  <2>3. ASSUME NEW i \in DOMAIN A PROVE Leads(A[i], im, modules)
    <3>1. DOMAIN A[i] = {"handle_type", "is_static", "name", "scope"}
      BY DEF ScopeHandles, IrScopeHandle
    <3> QED
      BY <3>1 DEF Leads, HasHandleAccessor
  <2> HIDE DEF A, S
  <2> QED
    BY <2>1, <2>2, <2>3, FcnIsSeq
<1>5. IsSeq(B) /\ \A i \in DOMAIN B : Leads(B[i], im, modules)
  <2>1. DOMAIN m.funcs = 1 .. Len(m.funcs) /\ Len(m.funcs) \in Nat
    BY <1>3, LenProperties
  <2> DEFINE S == {B[i] : i \in DOMAIN m.funcs}
  <2>2. B \in [1 .. Len(m.funcs) -> S]
    BY <2>1 DEF FuncHandles
  <2>3. ASSUME NEW i \in DOMAIN B PROVE Leads(B[i], im, modules)
    <3>1. i \in DOMAIN m.funcs /\ i \in Int
      BY <2>1 DEF FuncHandles
    <3>2. /\ B[i].handle_type = "Function"
          /\ B[i].module_index = mi
          /\ B[i].local_index = i - 1
          /\ B[i].name = m.funcs[i]
      BY <3>1 DEF FuncHandles, IrFuncHandle, IrIndexHandle
    <3> HIDE DEF B
    <3>3. modules[im[B[i].module_index]] = m /\ B[i].local_index + 1 = i
      BY <1>2, <3>1, <3>2 DEF m
    <3> QED
      BY <1>2, <3>1, <3>2, <3>3 DEF Leads
  <2> HIDE DEF B, S
  <2> QED
    BY <2>1, <2>2, <2>3, FcnIsSeq
<1>6. IsSeq(C) /\ \A i \in DOMAIN C : Leads(C[i], im, modules)
  <2>1. DOMAIN m.vars = 1 .. Len(m.vars) /\ Len(m.vars) \in Nat
    BY <1>3, LenProperties
  <2> DEFINE S == {C[i] : i \in DOMAIN m.vars}
  <2>2. C \in [1 .. Len(m.vars) -> S]
    BY <2>1 DEF VarHandles
  <2>3. ASSUME NEW i \in DOMAIN C PROVE Leads(C[i], im, modules)
    <3>1. i \in DOMAIN m.vars /\ i \in Int
      BY <2>1 DEF VarHandles
    <3>2. /\ C[i].handle_type = "GlobalVar"
          /\ C[i].module_index = mi
          /\ C[i].local_index = i - 1
          /\ C[i].name = m.vars[i]
      BY <3>1 DEF VarHandles, IrGlobalVarHandle, IrIndexHandle
    <3> HIDE DEF C
    <3>3. modules[im[C[i].module_index]] = m /\ C[i].local_index + 1 = i
      BY <1>2, <3>1, <3>2 DEF m
    <3> QED
      BY <1>2, <3>1, <3>2, <3>3 DEF Leads
  <2> HIDE DEF C, S
  <2> QED
    BY <2>1, <2>2, <2>3, FcnIsSeq
<1> HIDE DEF A, B, C
<1>7. IsSeq(A \o B) /\ \A i \in DOMAIN (A \o B) : Leads((A \o B)[i], im, modules)
  BY <1>4, <1>5, ConcatLeads
<1>8. \A i \in DOMAIN ((A \o B) \o C) : Leads(((A \o B) \o C)[i], im, modules)
  <2> DEFINE D == A \o B
  <2> HIDE DEF D
  <2>1. IsSeq(D) /\ \A i \in DOMAIN D : Leads(D[i], im, modules)
    BY <1>7 DEF D
  <2> QED
    BY <1>6, <2>1, ConcatLeads DEF D
<1>9. module2scope(module, name, mi) = (A \o B) \o C
  BY DEF module2scope, A, B, C, m
<1> QED
  BY <1>8, <1>9 DEF ScopeLeads, mi, im

-----------------------------------------------------------------------------
LEMMA InitIInv == Init => IInv
<1> SUFFICES ASSUME Init PROVE IInv
  OBVIOUS
<1> USE DEF Init
<1>1. source \in [Module -> Source] /\ Main \in Module
  BY ImportAssumption
<1>2. modules \in Seq(ModuleRec) /\ DOMAIN modules = {} /\ Len(modules) = 0
  BY EmptySeq, EmptyIsSeq
<1>3. IsSeq(stack) /\ Len(stack) = 1 /\ DOMAIN stack = {1} /\ stack[1] = Activation(Main)
  BY SingleIsSeq
<1>4. FrameType(Activation(Main), modules) /\ FrameLeads(Activation(Main), modules)
        /\ Len(Activation(Main).imported) = 0
        /\ Activation(Main).name = Main
  BY <1>1, ActivationFacts
<1>5. TypeInv
  BY <1>1, <1>2, <1>3, <1>4 DEF TypeInv
<1>6. Len(source[Main].head) \in Nat
  BY <1>1, LenProperties DEF Source
<1>7. ImportsCounted
  BY <1>3, <1>4, <1>6 DEF ImportsCounted, HeadList
<1>8. ScopesLead
  BY <1>3, <1>4 DEF ScopesLead
<1>9. NoPartialModule
  BY <1>2 DEF NoPartialModule
<1> QED
  BY <1>5, <1>7, <1>8, <1>9 DEF IInv

-----------------------------------------------------------------------------
(* The activation the step works on. *)
LEMMA TopFacts ==
  ASSUME IInv, stack # <<>>
  PROVE  /\ Len(stack) \in Nat \ {0}
         /\ DOMAIN stack = 1 .. Len(stack)
         /\ Top = stack[Len(stack)]
         /\ FrameType(Top, modules)
         /\ FrameLeads(Top, modules)
         /\ Top.imported \in Seq(DOMAIN modules)
         /\ Len(Top.imported) \in Nat
         /\ HeadList(Top, source) \in Seq([module : Module, alias : Symbol])
         /\ Len(HeadList(Top, source)) \in Nat
         /\ ImportsLeft <=> Left(Top, source)
         /\ ret # Pending => Left(Top, source)
<1>1. Len(stack) \in Nat \ {0} /\ DOMAIN stack = 1 .. Len(stack)
  BY IsSeqFacts DEF IInv, TypeInv
<1>2. Top = stack[Len(stack)] /\ Len(stack) \in DOMAIN stack
  BY <1>1 DEF Top, Last
<1>3. FrameType(Top, modules) /\ FrameLeads(Top, modules)
  BY <1>2 DEF IInv, TypeInv, ScopesLead
<1>4. Top.imported \in Seq(DOMAIN modules) /\ Top.name \in Module
  BY <1>3 DEF FrameType
<1>5. HeadList(Top, source) \in Seq([module : Module, alias : Symbol])
  BY <1>4 DEF IInv, TypeInv, Source, HeadList
<1>6. Len(HeadList(Top, source)) \in Nat /\ Len(Top.imported) \in Nat
  BY <1>4, <1>5, LenProperties
<1>7. ImportsLeft <=> Left(Top, source)
  BY DEF ImportsLeft, Left, HeadList
<1>8. ret # Pending => Left(Top, source)
  BY <1>2 DEF IInv, ImportsCounted
<1> QED
  BY <1>1, <1>2, <1>3, <1>4, <1>5, <1>6, <1>7, <1>8

(* An activation ends: its caller had a statement left. *)
LEMMA PopPreserves ==
  ASSUME IInv, stack # <<>>, stack' = Front(stack), source' = source,
         \A i \in DOMAIN modules : i \in DOMAIN modules' /\ modules'[i] = modules[i]
  PROVE  /\ IsSeq(stack')
         /\ \A k \in DOMAIN stack' : FrameType(stack'[k], modules')
         /\ ImportsCounted'
         /\ ScopesLead'
<1>1. /\ IsSeq(stack')
      /\ DOMAIN stack' = 1 .. Len(stack) - 1
      /\ \A i \in 1 .. Len(stack) - 1 : stack'[i] = stack[i]
  BY FrontIsSeq DEF IInv, TypeInv
<1>2. Len(stack) \in Nat \ {0} /\ DOMAIN stack = 1 .. Len(stack)
  BY TopFacts
<1>3. ASSUME NEW k \in DOMAIN stack'
      PROVE  /\ FrameType(stack'[k], modules')
             /\ FrameLeads(stack'[k], modules')
             /\ Len(stack'[k].imported) <= Len(HeadList(stack'[k], source'))
             /\ Left(stack'[k], source')
  <2>1. k \in DOMAIN stack /\ k < Len(stack) /\ stack'[k] = stack[k]
    BY <1>1, <1>2
  <2>2. FrameType(stack[k], modules) /\ FrameLeads(stack[k], modules)
    BY <2>1 DEF IInv, TypeInv, ScopesLead
  <2>3. FrameType(stack[k], modules') /\ FrameLeads(stack[k], modules')
    BY <2>2, FrameGrows
  <2>4. Len(stack[k].imported) <= Len(HeadList(stack[k], source)) /\ Left(stack[k], source)
    BY <2>1 DEF IInv, ImportsCounted
  <2> QED
    BY <2>1, <2>3, <2>4 DEF HeadList, Left
<1> QED
  BY <1>1, <1>3 DEF ImportsCounted, ScopesLead

(* The activation on top has done one import. *)
LEMMA EnterPreserves ==
  ASSUME IInv, stack # <<>>, NEW f, stack' = Front(stack) \o <<f>>,
         source' = source, modules' = modules, ret' = Pending, Left(Top, source),
         FrameType(f, modules), FrameLeads(f, modules),
         f.name = Top.name, Len(f.imported) = Len(Top.imported) + 1
  PROVE  IInv'
<1>1. /\ IsSeq(stack')
      /\ Len(stack') = Len(stack)
      /\ DOMAIN stack' = DOMAIN stack
      /\ stack'[Len(stack)] = f
      /\ \A i \in DOMAIN stack : i # Len(stack) => stack'[i] = stack[i]
  BY ReplaceLast DEF IInv, TypeInv
<1>2. TypeInv'
  <2>1. \A k \in DOMAIN stack' : FrameType(stack'[k], modules')
    BY <1>1 DEF IInv, TypeInv
  <2> QED
    BY <1>1, <2>1 DEF IInv, TypeInv
<1>3. ScopesLead'
  BY <1>1 DEF IInv, ScopesLead
<1>4. ImportsCounted'
  <2> SUFFICES ASSUME NEW k \in DOMAIN stack'
               PROVE  /\ Len(stack'[k].imported) <= Len(HeadList(stack'[k], source'))
                      /\ k < Len(stack') => Left(stack'[k], source')
    BY DEF ImportsCounted
  <2>1. CASE k = Len(stack)
    <3>1. Len(f.imported) <= Len(HeadList(Top, source))
      BY TopFacts DEF Left
    <3> QED
      BY <1>1, <2>1, <3>1, TopFacts DEF HeadList
  <2>2. CASE k # Len(stack)
    <3>1. stack'[k] = stack[k] /\ k \in DOMAIN stack
      BY <1>1, <2>2
    <3> QED
      BY <1>1, <3>1 DEF IInv, ImportsCounted, HeadList, Left
  <2> QED
    BY <2>1, <2>2
<1>5. NoPartialModule'
  BY DEF IInv, NoPartialModule
<1> QED
  BY <1>2, <1>3, <1>4, <1>5 DEF IInv

LEMMA CallImportPreserves ==
  ASSUME IInv, CallImport
  PROVE  IInv'
<1>1. stack # <<>> /\ ret = Pending /\ Left(Top, source) /\ UNCHANGED <<source, modules>>
  BY TopFacts DEF CallImport, Running
<1> DEFINE name == Stmt.module
<1>2. name \in Module
  <2>1. Len(Top.imported) + 1 \in 1 .. Len(HeadList(Top, source))
    BY <1>1, TopFacts DEF Left
  <2>2. HeadList(Top, source)[Len(Top.imported) + 1] \in [module : Module, alias : Symbol]
    BY <1>1, <2>1, TopFacts, ElementOfSeq
  <2> QED
    BY <2>2 DEF Stmt, HeadList
<1> HIDE DEF name
<1>3. NoPartialModule'
  BY <1>1 DEF IInv, NoPartialModule
<1>4. CASE stack' = Append(stack, Activation(name)) /\ ret' = ret
  <2> DEFINE f == Activation(name)
  <2>1. FrameType(f, modules) /\ FrameLeads(f, modules) /\ Len(f.imported) = 0
          /\ f.name = name
    BY <1>2, ActivationFacts
  <2> HIDE DEF f
  <2>2. /\ IsSeq(stack')
        /\ Len(stack') = Len(stack) + 1
        /\ DOMAIN stack' = 1 .. Len(stack) + 1
        /\ \A i \in 1 .. Len(stack) : stack'[i] = stack[i]
        /\ stack'[Len(stack) + 1] = f
    BY <1>4, AppendIsSeq DEF IInv, TypeInv, f
  <2>3. Len(stack) \in Nat /\ DOMAIN stack = 1 .. Len(stack)
    BY <1>1, TopFacts
  <2>4. ASSUME NEW k \in DOMAIN stack'
        PROVE  \/ k = Len(stack) + 1 /\ stack'[k] = f
               \/ k \in DOMAIN stack /\ stack'[k] = stack[k]
    BY <2>2, <2>3
  <2>5. TypeInv'
    <3>1. \A k \in DOMAIN stack' : FrameType(stack'[k], modules')
      BY <1>1, <2>1, <2>4 DEF IInv, TypeInv
    <3> QED
      BY <1>1, <1>4, <2>2, <3>1 DEF IInv, TypeInv
  <2>6. ScopesLead'
    BY <1>1, <2>1, <2>4 DEF IInv, ScopesLead
  <2>7. ImportsCounted'
    <3> SUFFICES ASSUME NEW k \in DOMAIN stack'
                 PROVE  /\ Len(stack'[k].imported) <= Len(HeadList(stack'[k], source'))
                        /\ k < Len(stack') => Left(stack'[k], source')
      BY <1>1, <1>4 DEF ImportsCounted
    <3>1. CASE k = Len(stack) + 1 /\ stack'[k] = f
      <4>1. Len(source[name].head) \in Nat
        BY <1>2, LenProperties DEF IInv, TypeInv, Source
      <4> QED
        BY <1>1, <2>1, <2>2, <2>3, <3>1, <4>1 DEF HeadList
    <3>2. CASE k \in DOMAIN stack /\ stack'[k] = stack[k]
      <4>1. k = Len(stack) => Left(stack[k], source)
        BY <1>1, TopFacts
      <4>2. k < Len(stack) => Left(stack[k], source)
        BY <3>2 DEF IInv, ImportsCounted
      <4>3. Left(stack[k], source) /\ Len(stack[k].imported) <= Len(HeadList(stack[k], source))
        BY <2>3, <3>2, <4>1, <4>2 DEF IInv, ImportsCounted
      <4> QED
        BY <1>1, <3>2, <4>3 DEF HeadList, Left
    <3> QED
      BY <2>4, <3>1, <3>2
  <2> QED
    BY <1>3, <2>5, <2>6, <2>7 DEF IInv
<1>5. CASE ret' = NULL /\ stack' = stack
  <2>1. TypeInv' /\ ScopesLead'
    BY <1>1, <1>5 DEF IInv, TypeInv, ScopesLead
  <2>2. ImportsCounted'
    <3> SUFFICES ASSUME NEW k \in DOMAIN stack
                 PROVE  Len(stack[k].imported) <= Len(HeadList(stack[k], source)) /\ Left(stack[k], source)
      BY <1>1, <1>5 DEF ImportsCounted, HeadList, Left
    <3>1. k = Len(stack) \/ k < Len(stack)
      BY <1>1, TopFacts
    <3> QED
      BY <1>1, <3>1, TopFacts DEF IInv, ImportsCounted
  <2> QED
    BY <1>3, <2>1, <2>2 DEF IInv
<1> QED
  BY <1>4, <1>5 DEF CallImport, OpenAndCompile, Compile, name

LEMMA FoundInDictPreserves ==
  ASSUME IInv, FoundInDict
  PROVE  IInv'
<1> DEFINE module == Top.mModuleDict[Top.name]
           scope == Top.mScopeDict[module]
<1>1. stack # <<>> /\ ret = Pending /\ Left(Top, source) /\ UNCHANGED <<source, modules, ret>>
  BY TopFacts DEF FoundInDict, Running
<1>2. FrameType(Top, modules) /\ FrameLeads(Top, modules)
  BY <1>1, TopFacts
<1>3. module \in DOMAIN modules
  BY <1>2 DEF FrameLeads, FoundInDict
<1>4. CASE module \in DOMAIN Top.mScopeDict /\ stack' = Front(stack) \o <<Enter(Top, module, scope)>>
  <2>1. ScopeLeads(scope, Top.imported, modules)
    BY <1>2, <1>4 DEF FrameLeads
  <2>2. Top.imported \in Seq(DOMAIN modules)
    BY <1>1, TopFacts
  <2>3. Len(Append(Top.imported, module)) = Len(Top.imported) + 1
    BY <1>3, <2>2, AppendProperties
  <2>4. \A i \in DOMAIN Top.imported : /\ i \in DOMAIN Append(Top.imported, module)
                                       /\ Append(Top.imported, module)[i] = Top.imported[i]
    BY <1>3, <2>2, AppendProperties, LenProperties
  <2> HIDE DEF module, scope
  <2>5. ScopeLeads(scope, Append(Top.imported, module), modules)
    BY <2>1, <2>2, <2>4, ScopeLeadsGrows
  <2> DEFINE f == Enter(Top, module, scope)
  <2>6. /\ FrameType(f, modules)
        /\ FrameLeads(f, modules)
        /\ f.name = Top.name
        /\ f.imported = Append(Top.imported, module)
    BY <1>2, <1>3, <2>5, EnterFacts
  <2> HIDE DEF f
  <2>7. stack' = Front(stack) \o <<f>>
    BY <1>4 DEF f
  <2> QED
    BY <1>1, <2>3, <2>6, <2>7, EnterPreserves
<1>5. CASE stack' = stack
  BY <1>1, <1>5 DEF IInv, TypeInv, ImportsCounted, ScopesLead, NoPartialModule, HeadList, Left
<1> QED
  BY <1>4, <1>5 DEF FoundInDict

LEMMA ImportFailedPreserves ==
  ASSUME IInv, ImportFailed
  PROVE  IInv'
<1>1. /\ IsSeq(stack')
      /\ \A k \in DOMAIN stack' : FrameType(stack'[k], modules')
      /\ ImportsCounted'
      /\ ScopesLead'
  BY PopPreserves DEF ImportFailed
<1> QED
  BY <1>1 DEF ImportFailed, IInv, TypeInv, NoPartialModule

LEMMA ImportedPreserves ==
  ASSUME IInv, Imported
  PROVE  IInv'
<1>1. /\ stack # <<>> /\ ret \in DOMAIN modules /\ ret # Pending
      /\ ret' = Pending /\ UNCHANGED <<source, modules>>
  BY DEF Imported, IInv, TypeInv
<1>2. FrameType(Top, modules) /\ FrameLeads(Top, modules) /\ Left(Top, source)
  BY <1>1, TopFacts
<1> DEFINE scope == module2scope(ret, Top.name, ModuleIndex)
           g == Enter(Top, ret, scope)
           f == [g EXCEPT !.mModuleDict = Register(@, Top.name, ret),
                          !.mScopeDict = Register(@, ret, scope)]
<1>3. CASE stack' = Front(stack) \o <<f>>
  <2>1. Top.imported \in Seq(DOMAIN modules)
    BY <1>1, TopFacts
  <2>2. ScopeLeads(scope, Append(Top.imported, ret), modules)
    BY <1>1, <2>1, module2scopeLeads DEF IInv, ModuleIndex
  <2>3. Len(Append(Top.imported, ret)) = Len(Top.imported) + 1
    BY <1>1, <2>1, AppendProperties
  <2> HIDE DEF scope
  <2>4. /\ FrameType(g, modules)
        /\ FrameLeads(g, modules)
        /\ g.name = Top.name
        /\ g.imported = Append(Top.imported, ret)
    BY <1>1, <1>2, <2>2, EnterFacts
  <2> HIDE DEF g
  <2>5. /\ DOMAIN f = DOMAIN g
        /\ f.name = g.name
        /\ f.imported = g.imported
        /\ f.toplevel_scope = g.toplevel_scope
        /\ f.mModuleDict = Register(g.mModuleDict, Top.name, ret)
        /\ f.mScopeDict = Register(g.mScopeDict, ret, scope)
    BY <2>4 DEF FrameType
  <2> HIDE DEF f
  <2>6. FrameType(f, modules)
    BY <2>4, <2>5 DEF FrameType
  <2>7. FrameLeads(f, modules)
    <3>1. \A m \in DOMAIN f.mScopeDict : ScopeLeads(f.mScopeDict[m], f.imported, modules)
      BY <2>2, <2>4, <2>5 DEF FrameLeads, Register
    <3>2. \A n \in DOMAIN f.mModuleDict : f.mModuleDict[n] \in DOMAIN modules
      BY <1>1, <2>4, <2>5 DEF FrameLeads, Register
    <3> QED
      BY <2>4, <2>5, <3>1, <3>2 DEF FrameLeads
  <2> QED
    BY <1>1, <1>2, <1>3, <2>3, <2>4, <2>5, <2>6, <2>7, EnterPreserves
<1>4. CASE stack' = stack
  BY <1>1, <1>4 DEF IInv, TypeInv, ImportsCounted, ScopesLead, NoPartialModule, HeadList, Left
<1> QED
  BY <1>3, <1>4 DEF Imported

LEMMA FinishPreserves ==
  ASSUME IInv, Finish
  PROVE  IInv'
<1>1. stack # <<>> /\ ~ Left(Top, source) /\ stack' = Front(stack) /\ source' = source
  BY TopFacts DEF Finish, Running
<1>2. modules \in Seq(ModuleRec) /\ source \in [Module -> Source]
  BY DEF IInv, TypeInv
<1>3. CASE ret' = NULL /\ modules' = modules
  <2>1. /\ IsSeq(stack')
        /\ \A k \in DOMAIN stack' : FrameType(stack'[k], modules')
        /\ ImportsCounted'
        /\ ScopesLead'
    BY <1>1, <1>3, PopPreserves
  <2> QED
    BY <1>1, <1>3, <2>1 DEF IInv, TypeInv, NoPartialModule
<1>4. CASE modules' = Append(modules, code_gen(Top)) /\ ret' = Len(modules) + 1
  <2> DEFINE m == code_gen(Top)
  <2>1. /\ Top.imported \in Seq(DOMAIN modules)
        /\ Top.name \in Module
        /\ Len(Top.imported) = Len(HeadList(Top, source))
    <3>1. Top.name \in Module
      BY <1>1, TopFacts DEF FrameType
    <3>2. Len(Top.imported) <= Len(HeadList(Top, source))
      BY <1>1, TopFacts DEF IInv, ImportsCounted
    <3> QED
      BY <1>1, <3>1, <3>2, TopFacts DEF Left
  <2>2. Len(modules) \in Nat /\ DOMAIN modules = 1 .. Len(modules)
    BY <1>2, LenProperties
  <2>3. Top.imported \in Seq(Nat)
    BY <2>1, <2>2, SeqMonotonic
  <2>4. m \in ModuleRec /\ m.imported = Top.imported /\ m.name = Top.name
    BY <1>2, <2>1, <2>3 DEF code_gen, VsmModule, ModuleRec, Source
  <2> HIDE DEF m
  <2>5. /\ modules' \in Seq(ModuleRec)
        /\ Len(modules') = Len(modules) + 1
        /\ \A i \in 1 .. Len(modules) : modules'[i] = modules[i]
        /\ modules'[Len(modules) + 1] = m
    BY <1>2, <1>4, <2>4, AppendProperties DEF m
  <2>6. DOMAIN modules' = 1 .. Len(modules) + 1
    BY <2>5, LenProperties
  <2>7. \A i \in DOMAIN modules : i \in DOMAIN modules' /\ modules'[i] = modules[i]
    BY <2>2, <2>5, <2>6
  <2>8. /\ IsSeq(stack')
        /\ \A k \in DOMAIN stack' : FrameType(stack'[k], modules')
        /\ ImportsCounted'
        /\ ScopesLead'
    BY <1>1, <2>7, PopPreserves
  <2>9. TypeInv'
    <3>1. ret' \in DOMAIN modules'
      BY <1>4, <2>2, <2>6
    <3> QED
      BY <1>1, <1>2, <2>5, <2>8, <3>1 DEF TypeInv
  <2>10. NoPartialModule'
    <3> SUFFICES ASSUME NEW k \in DOMAIN modules'
                 PROVE  /\ Len(modules'[k].imported) = Len(source[modules'[k].name].head)
                        /\ \A i \in DOMAIN modules'[k].imported :
                             modules'[k].imported[i] \in 1 .. k - 1
      BY <1>1 DEF NoPartialModule
    <3>1. CASE k \in DOMAIN modules
      BY <2>7, <3>1 DEF IInv, NoPartialModule
    <3>2. CASE k = Len(modules) + 1
      <4>1. \A i \in DOMAIN Top.imported : Top.imported[i] \in DOMAIN modules
        BY <2>1, LenProperties, ElementOfSeq
      <4>2. 1 .. k - 1 = DOMAIN modules
        BY <2>2, <3>2
      <4> QED
        BY <2>1, <2>4, <2>5, <3>2, <4>1, <4>2 DEF HeadList
    <3> QED
      BY <2>2, <2>6, <3>1, <3>2
  <2> QED
    BY <2>8, <2>9, <2>10 DEF IInv
<1> QED
  BY <1>3, <1>4 DEF Finish

LEMMA NextIInv == IInv /\ [Next]_vars => IInv'
<1> SUFFICES ASSUME IInv, [Next]_vars PROVE IInv'
  OBVIOUS
<1>1. CASE UNCHANGED vars
  BY <1>1 DEF vars, IInv, TypeInv, ImportsCounted, ScopesLead, NoPartialModule, HeadList, Left
<1> QED
  BY <1>1, CallImportPreserves, FoundInDictPreserves, ImportFailedPreserves,
     ImportedPreserves, FinishPreserves DEF Next, Terminated

LEMMA SpecIInv == Spec => []IInv
  BY InitIInv, NextIInv, PTL DEF Spec

-----------------------------------------------------------------------------
(* In every compile, however deep in the recursion, the handles module2scope *)
(* gave out lead to the function or variable they name, through the          *)
(* module_index and local_index code generation will use.                    *)
THEOREM HandlesResolveTheorem == Spec => []HandlesResolve
<1>1. IInv => HandlesResolve
  BY DEF IInv, ScopesLead, FrameLeads, ScopeLeads, Leads, HandlesResolve
<1> QED
  BY <1>1, SpecIInv, PTL

(* A VsmModule exists only with all the modules its source imports, and    *)
(* they are older: the import relation of what is made has no cycle.       *)
THEOREM NoPartialModuleTheorem == Spec => []NoPartialModule
<1>1. IInv => NoPartialModule
  BY DEF IInv
<1> QED
  BY <1>1, SpecIInv, PTL

(* After import has returned NULL every activation returns NULL and no     *)
(* module is made, whatever was compiled before the failure.               *)
THEOREM FailureSpreadsTheorem == Spec => FailureSpreads
<1>1. [Next]_vars => [ret = NULL => ret' = NULL /\ modules' = modules]_vars
  <2> SUFFICES ASSUME [Next]_vars, ret = NULL
               PROVE  ret' = NULL /\ modules' = modules
    OBVIOUS
  <2>1. ret # Pending
    BY ImportAssumption DEF Pending
  <2> QED
    BY <2>1 DEF Next, CallImport, FoundInDict, ImportFailed, Imported, Finish,
                Terminated, Running, vars
<1> QED
  BY <1>1, PTL DEF Spec, FailureSpreads
=============================================================================
