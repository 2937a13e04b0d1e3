------------------------------- MODULE Import -------------------------------
(***************************************************************************)
(* Compiling a module and the modules it imports: YmslCompiler::compile    *)
(* reads a source, IrMgr::elaborate imports the modules of its head list   *)
(* by calling YmslCompiler::import, which compiles them in turn, and       *)
(* VsmGen::code_gen makes a VsmModule of the result.  Every compile has an *)
(* IrMgr of its own, so the dictionaries mModuleDict and mScopeDict are    *)
(* part of the activation and die with it.  One step is the work between   *)
(* two calls or returns of this recursion.                                 *)
(***************************************************************************)
EXTENDS Ir, Integers, Sequences, SequencesExt

CONSTANTS Module,      \* the names of modules
          Symbol,      \* the names of functions and variables, and aliases
          Main,        \* the module compile is asked for
          Programs,    \* sets of source files: what is found for every name
          MaxDepth,    \* bound: activations of compile on the stack
          NULL

(* A source file: whether and as what it is found, whether it parses and   *)
(* its labels are all defined, its import statements and what it exports.  *)
Source == [file : {"ym", "ymc", "none"}, parses : BOOLEAN, labels : BOOLEAN,
           head : Seq([module : Module, alias : Symbol]),
           funcs : Seq(Symbol), vars : Seq(Symbol)]

ASSUME ImportAssumption ==
  /\ Main \in Module
  /\ Programs \subseteq [Module -> Source]
  /\ MaxDepth \in Nat \ {0}
  /\ NULL \notin Nat

VARIABLES source,      \* the files under the search path
          stack,       \* the activations of compile, the current one last
          modules,     \* the VsmModule objects made so far
          ret,         \* what the last call returned, Pending while it runs
          aborted      \* an ASSERT_COND has failed

vars == <<source, stack, modules, ret, aborted>>

Pending == 0           \* VsmModule objects are the indices of modules, from 1
NoEntries == [x \in {} |-> x]

Top == Last(stack)

(* Mutant of ImportsLeft: the last import statement is passed over. *)
ImportsLeftButOne == Len(Top.imported) + 1 < Len(source[Top.name].head)

ImportsLeft == Len(Top.imported) < Len(source[Top.name].head)
Stmt == source[Top.name].head[Len(Top.imported) + 1]

(* module_index of elaborate: starts at 1, one more after every import. *)
ModuleIndex == Len(Top.imported) + 1

-----------------------------------------------------------------------------
(* The locals of elaborate and the dictionaries of its IrMgr, when the     *)
(* loop over the head list begins.                                         *)
Activation(name) ==
  [name |-> name, mModuleDict |-> NoEntries, mScopeDict |-> NoEntries,
   imported |-> <<>>, toplevel_scope |-> <<>>]

(* The head of compile: read_source either fails or elaborate begins. *)
Compile(name) ==
  IF source[name].parses
  THEN /\ Len(stack) < MaxDepth
       /\ stack' = Append(stack, Activation(name))
       /\ UNCHANGED ret
  ELSE /\ ret' = NULL
       /\ UNCHANGED stack

(* compile called for the main module. *)
Init ==
  /\ source \in Programs
  /\ source[Main].parses
  /\ stack = <<Activation(Main)>>
  /\ modules = <<>>
  /\ ret = Pending
  /\ aborted = FALSE

(* YmslCompiler::import: a .ym file is compiled, a .ymc file is found but  *)
(* not loaded, and neither gives NULL.                                     *)
OpenAndCompile(name) ==
  IF source[name].file = "ym" THEN Compile(name)
                              ELSE ret' = NULL /\ UNCHANGED stack

Running == ~ aborted /\ stack # <<>> /\ ret = Pending

(* The import statement of a module not in mModuleDict. *)
CallImport ==
  /\ Running
  /\ ImportsLeft
  /\ Top.name \notin DOMAIN Top.mModuleDict
  /\ OpenAndCompile(Stmt.module)
  /\ UNCHANGED <<source, modules, aborted>>

(* The end of the loop body: the module joins imported_module_list and the *)
(* alias, or the name of the module, is added to the toplevel scope.       *)
Enter(f, module, scope) ==
  [f EXCEPT !.imported = Append(@, module),
            !.toplevel_scope = Append(@, [name |-> Stmt.alias, scope |-> scope])]

(* Mutant of FoundInDict: the statement is looked at again. *)
FoundInDictNoEnter ==
  /\ Running
  /\ ImportsLeft
  /\ Top.name \in DOMAIN Top.mModuleDict
  /\ UNCHANGED vars

(* The import statement of a module mModuleDict has.  The dictionary is    *)
(* asked for the name of the importing module.                             *)
FoundInDict ==
  /\ Running
  /\ ImportsLeft
  /\ Top.name \in DOMAIN Top.mModuleDict
  /\ LET module == Top.mModuleDict[Top.name] IN
       IF module \in DOMAIN Top.mScopeDict
       THEN /\ stack' = Front(stack) \o
                 <<Enter(Top, module, Top.mScopeDict[module])>>
            /\ UNCHANGED aborted
       ELSE aborted' = TRUE /\ UNCHANGED stack
  /\ UNCHANGED <<source, modules, ret>>

(* Mutant of ImportFailed: the importing module goes on without it. *)
ImportFailedGoesOn ==
  /\ ~ aborted
  /\ stack # <<>>
  /\ ret = NULL
  /\ stack' = Front(stack) \o <<Enter(Top, NULL, <<>>)>>
  /\ ret' = Pending
  /\ UNCHANGED <<source, modules, aborted>>

(* import returned NULL: elaborate returns NULL, and so does compile. *)
ImportFailed ==
  /\ ~ aborted
  /\ stack # <<>>
  /\ ret = NULL
  /\ stack' = Front(stack)
  /\ UNCHANGED <<source, modules, ret, aborted>>

(* IrMgr::module2scope: handles for the sub-modules, whose scopes must be  *)
(* in mScopeDict, for the functions and for the variables.                 *)
SubmodulesKnown(module) ==
  \A i \in DOMAIN modules[module].imported :
    modules[module].imported[i] \in DOMAIN Top.mScopeDict

ScopeHandles(name, list) ==
  [i \in DOMAIN list |->
     IrScopeHandle(name, Top.mScopeDict[list[i]])]

(* The types of what is exported, which the VsmModule keeps, are left out. *)
FuncHandles(list, module_index) ==
  [i \in DOMAIN list |-> IrFuncHandle(list[i], NULL, module_index, i - 1)]
VarHandles(list, module_index) ==
  [i \in DOMAIN list |-> IrGlobalVarHandle(list[i], NULL, module_index, i - 1)]

(* Mutant of module2scope: the handles count from the wrong end. *)
module2scopeZeroBased(module, name, module_index) ==
  LET m == modules[module] IN
    ScopeHandles(name, m.imported)
      \o FuncHandles(m.funcs, module_index - 1)
      \o VarHandles(m.vars, module_index - 1)

module2scope(module, name, module_index) ==
  LET m == modules[module] IN
    ScopeHandles(name, m.imported)
      \o FuncHandles(m.funcs, module_index)
      \o VarHandles(m.vars, module_index)

(* HashMap::add of a dictionary. *)
Register(dict, key, val) ==
  [k \in DOMAIN dict \cup {key} |-> IF k = key THEN val ELSE dict[k]]

(* import returned a module: its scope is made and both are entered in the *)
(* dictionaries, under the name of the importing module.                   *)
Imported ==
  /\ ~ aborted
  /\ stack # <<>>
  /\ ret \notin {NULL, Pending}
  /\ IF SubmodulesKnown(ret)
     THEN LET scope == module2scope(ret, Top.name, ModuleIndex)
              f == [Enter(Top, ret, scope) EXCEPT
                      !.mModuleDict = Register(@, Top.name, ret),
                      !.mScopeDict = Register(@, ret, scope)]
          IN  /\ stack' = Front(stack) \o <<f>>
              /\ UNCHANGED aborted
     ELSE aborted' = TRUE /\ UNCHANGED stack
  /\ ret' = Pending
  /\ UNCHANGED <<source, modules>>

(* The module keeps what its builder has collected, in order. *)
VsmModule(builder) ==
  [name |-> builder.name, imported |-> builder.modules,
   funcs |-> builder.funcs, vars |-> builder.vars]

(* VsmGen::code_gen: the builder is given the imported modules, then the   *)
(* global variables and the functions of the toplevel block.               *)
code_gen(f) ==
  VsmModule([name |-> f.name, modules |-> f.imported,
             vars |-> source[f.name].vars, funcs |-> source[f.name].funcs])

(* The rest of elaborate: the body is elaborated, and an undefined label   *)
(* makes it return NULL; otherwise code is generated.  The IrMgr and its   *)
(* dictionaries end with the activation.                                   *)
Finish ==
  /\ Running
  /\ ~ ImportsLeft
  /\ stack' = Front(stack)
  /\ IF source[Top.name].labels
     THEN modules' = Append(modules, code_gen(Top)) /\ ret' = Len(modules) + 1
     ELSE ret' = NULL /\ UNCHANGED modules
  /\ UNCHANGED <<source, aborted>>

(* compile has returned to its first caller, or the program has stopped. *)
Stopped == stack = <<>> \/ aborted

Terminated == Stopped /\ UNCHANGED vars

Next == CallImport \/ FoundInDict \/ ImportFailed \/ Imported \/ Finish
          \/ Terminated

(* The compiler is one thread that runs on until it returns. *)
Spec == Init /\ [][Next]_vars /\ WF_vars(Next)

-----------------------------------------------------------------------------
(* A handle for an imported function or variable leads to it: counting     *)
(* from 1, the module at its module_index in imported_module_list exports  *)
(* that name at its local_index.                                           *)
HandlesResolve ==
  \A k \in DOMAIN stack : \A i \in DOMAIN stack[k].toplevel_scope :
    LET scope == stack[k].toplevel_scope[i].scope IN
    \A j \in DOMAIN scope :
      LET h == scope[j] IN
      HasHandleAccessor(h, "local_index") =>
        /\ h.module_index \in DOMAIN stack[k].imported
        /\ LET m == modules[stack[k].imported[h.module_index]]
               list == IF h.handle_type = "Function" THEN m.funcs ELSE m.vars
           IN  h.local_index + 1 \in DOMAIN list
                 /\ list[h.local_index + 1] = h.name

(* A VsmModule is only made when every import of its source gave a module, *)
(* and the modules it refers to are older than itself.                     *)
NoPartialModule ==
  \A m \in DOMAIN modules :
    /\ Len(modules[m].imported) = Len(source[modules[m].name].head)
    /\ \A i \in DOMAIN modules[m].imported :
         modules[m].imported[i] \in 1 .. m - 1

(* Once an import has failed, no compile that waits for it makes a module: *)
(* every activation returns NULL, out to the first caller.                 *)
FailureSpreads == [][ret = NULL => ret' = NULL /\ modules' = modules]_vars

(* When no module imports itself through others, compile returns.          *)
CompileReturns == <>Stopped

-----------------------------------------------------------------------------
(* "すでに import されていないか調べる" (IrMgr.cc:101): an import          *)
(* statement gives the scope of the module it names, imported before or    *)
(* not.                                                                    *)
ImportsResolve ==
  \A k \in DOMAIN stack : \A i \in DOMAIN stack[k].imported :
    modules[stack[k].imported[i]].name = source[stack[k].name].head[i].module
=============================================================================
