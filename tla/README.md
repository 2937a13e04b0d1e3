# A verification project for ymsl

Ymsl is the script language of YmTools: a scanner and a bison grammar build a
syntax tree, `IrMgr` elaborates the tree into an intermediate representation
(scopes, typed handles, code blocks of nodes), `VsmGen` makes a module of it and
`Vsm` runs code. This directory holds TLA+ models of these parts, the TLC
configurations that check them and TLAPS proofs about them.

## 1. Inventory

The program is sequential: one thread, nothing persistent. What is hard about it
is not concurrency but long sequences of legal calls on linked tables, values
that are computed at one place of a recursion and used at another, error paths
that leave work half done, state machines over arbitrary text, and numbers at
the ends of their range.

| Component | State | Operations | What makes it correct |
|---|---|---|---|
| `Scope` (`src/compiler/Scope.cc`) | chained hash table of handles, size, limit, counter; parent and global scope | `add`, `alloc_table`, `_put`, `find_local`, `find` | every name that was added is found; doubling loses and doubles nothing (of handles of one name it turns the order round, so names must be unique or their number small) |
| `TypeMgr` (`src/compiler/TypeMgr.cc`) | list of types, chained hash table of the composite ones | `array_type`, `set_type`, `map_type`, `function_type`, `enum_type`, `clear` | equal types are one object (the rest of the compiler compares pointers) |
| Types and typing (`PrimType.cc`, ..., `calc_type1/2/3`) | none | result and operand types of operators | an accepted operator has operands that can be cast to what it needs |
| `IrMgr` (`src/ir/IrMgr*.cc`) | scopes, list of calls to resolve, list of undefined labels, dictionaries of modules and scopes, the toplevel block with its variables and functions | `elaborate` = imports, `elab_stmt` on every statement, `resolve_func` on every call, check of the labels | names are unique per scope; indices of variables, parameters and functions are places in the list each is kept in; every jump lands, in its own function |
| IR nodes, handles, blocks (`src/ir/node`, `src/ir/handle`) | fields set by `IrMgr` | constructors, accessors | every class defines the accessors its users call |
| `IrInterp` | none | evaluation of constant expressions | a constant is what its expression means |
| `YmslCompiler` | search path, file handler | `compile`, `import` (mutually recursive with `elaborate`) | a failed import fails every importer; a module is bound to its own name |
| `YmslScanner`, `RsrvWordDic` | position, current string, token given back, table of words | `read_token`, `unget_token`, `scan` | tokens are the longest ones, nothing but blanks and comments is dropped |
| `grammer.yy`, `AstMgr`, AST classes | parser stack, syntax tree | `read_source`, grammar actions, `new_...` | a text reads as the tree it means; an error stays in its statement |
| `AstPrinter`, `IrPrinter` | ids of nodes | printing | a printed tree reads back as the same tree; a reference in a listing denotes the node it stands for |
| `VsmGen`, `VsmModule` | - | `code_gen` | a module is only made of a whole elaboration |
| `Vsm`, `VsmCodeList`, `VsmFunction`, builtins | code, local stack, global heap, function table | `execute` | an instruction pops what was pushed; a call leaves its caller's values alone |
| `src/engine` | - | the old engine, not built | - |

Interaction is by direct call: `YmslCompiler::compile` reads a source through
`AstMgr`, whose parser pulls tokens from `YmslScanner`; it owns an `IrMgr`, which
owns a `TypeMgr` and its `Scope`s and calls `YmslCompiler::import` for the import
statements; declarations call `check_name` (a `find_local`) before `Scope::add`;
`elab_expr` asks `TypeMgr` for the type of every operator; calls are kept in
`mFuncCallList` and resolved after the walk; `reg_const` and `reg_enum` call
`IrInterp`. `VsmGen::code_gen` makes the `VsmModule` that other modules import.

The hazards this code is exposed to are listed with their lines in
`PROJECT.json`; the properties below were chosen for them.

## 2. Modules

| Module | Models | Remarks |
|---|---|---|
| `Chains` | tables of linked chains | operators shared by `Scope` and `TypeMgr`: a chain is a sequence, its head the entry the table points to |
| `ScopeDict` | the promise of a symbol table | abstract specification: a set of handles that only grows |
| `Scope` | `Scope.cc` | `alloc_table`'s loops one iteration per step, so the states in the middle of a doubling are visible |
| `TypeIntern` | the promise of the type manager | abstract specification: a list of types and the last answer; a request returns the only type of its structure or makes it |
| `TypeHash` | the hash functions of `TypeMgr.cc` | request side (`hash_func`) and stored side (`hash_func2`) separately |
| `TypeMgr` | `TypeMgr.cc` without typing rules | types are ids, their contents shapes |
| `CalcType` | `calc_type1/2/3`, `castable_to` | used by `ExprType` and `ConstFold` |
| `ExprType` | operators in `elab_expr` | expressions as a stack machine, operands first |
| `IrMgr` | `elaborate` after the imports, `elab_stmt`, `reg_*`, `resolve_*` | the recursion is a stack of tasks, the program is chosen while it is walked |
| `Import` | `compile`, `import`, the import loop of `elaborate`, `module2scope`, `code_gen` | the recursion is a stack of activations |
| `Ast`, `AstMgr` | the classes of `src/ast`, the factory functions and lists | one constructor per class, without state |
| `Grammar` | `grammer.yy` | the rules, their actions and precedences as data |
| `AstPrinter` | `AstPrinter.cc` | a tree as the tokens it prints |
| `Parser` | `AstMgr::read_source`, `AstMgr::scan`, bison's driver (external) | composes `Grammar` and `AstPrinter` |
| `RsrvWordDic`, `YmslScanner` | the lexer | one action per label of `scan()` |
| `Ir` | the classes of `src/ir` | one constructor per class, without state |
| `Number` | integers of `IntWidth` bits, floats as exact fractions | shared by `IrInterp` and `Vsm` |
| `IrInterp` | `eval_boolean`, `eval_int`, `eval_float` | what they return for a node, from what they return for its operands |
| `ConstFold` | `reg_const`, `reg_enum`, `elab_expr` on what constants are made of | composes `CalcType`, `Ir` and `IrInterp` |
| `IrPrinter` | `IrMgr_node.cc`, `IrPrinter.cc` | nodes in a heap, references are places |
| `Vsm` | `Vsm.cc`, `VsmCodeList`, `VsmFunction`, `YmslPrint` | one action per group of opcodes |
| `VsmExpr` | programs for the machine and what they mean | the code shapes are this module's (see below) |
| `MC...` | constants of the runs | |
| `Scope_proof`, `TypeMgr_proof`, `ExprType_proof`, `Import_proof`, `IrMgr_proof`, `YmslScanner_proof`, `ConstFold_proof` | theorems | section 4 |
| `SeqLemmas` | facts about sequences, places and chained tables | shared by the proofs |

### Scope

`mHashTable` maps a bucket to the sequence of its handles. `Prepend` is the two
pointer assignments of `_put`; the loop variable of `alloc_table` together with
the saved `next` is what `old_table` still holds, so forgetting to read the link
first is expressible (the mutants `RehashPutLosesTail` and
`RehashPutKeepsLink`). `add` is `AddFits` when the table is not full, otherwise
`AddGrows`, then `RehashPut` and `RehashNext` for the loops and `AddDone` for
the `_put` after them. `MayAdd` is the caller's side: handles in `Checked` are
declared after `check_name`, the others (parameters, enum constants, imported
modules) are not. `1.8 * size` in floating point is `(size * 9) \div 5`.

### TypeMgr

A type is its `mId`; its shape is its class, component types and name. Primitive
and enum types take ids but `hash_type` returns `mHashSize` for them, so they are
never linked nor counted. `Get` is a get function: `Found`, or `New` followed by
the registration with or without a doubling. After `clear` the manager has no
table and no request is allowed. `wanted` is history, the shape of the last
request, so that the refinement can say that the answer has it. The hash
functions are operator constants with one assumption, that they agree on every
shape; the run instantiates them with `TypeHash`, so TLC checks the assumption
for the real functions.

### ExprType

`stack` holds the types of the operands elaborated so far. `last` is the last
operator with its operand types and the required types the rule returned. A call
has the type NULL until it is resolved: operators that follow that pointer crash.

### IrMgr

The program is not given: at each statement list an action chooses the next
statement, so the behaviours are the elaborations of all programs of the grammar
within the bounds. The bounds are sublanguages (`Sublanguages`): the names,
expressions, types and kinds of statement a program may use, and how many of
them; `left` is what remains of the chosen one. A task of `work` is a statement
list, a body block, the `single_stmt` of a for, the rest of a loop or of an if,
or an enum in progress; it carries the arguments of the `elab_stmt` call (scope,
start and end label, code block). Early returns are `Fail`, failed assertions and
null dereferences `Abort`. `label_node`, read uninitialised when a label is
already known, is any label or the wild pointer `WILD`; after such a read the
behaviour is not followed.

A scope of `mScopeList` is its global scope and its `chain`: the scope itself, its
parents and, behind them, the global scope, which are the scopes `Scope::find`
asks in turn. Each is older than the one before, so the first hit of that walk is
the one in the newest scope of the chain, and `Find` takes it without a recursion.

The condition of a switch is asked of an accessor that `AstSwitch` does not have, so
`Switch` is an `Abort`. An entry of `mFuncList` keeps the parameters of its function
(`mArgList`); their handles and those of local variables are both made by
`new_LocalVarHandle`, with indices from two lists, and the model tells them apart by
their type `param` or `local`.

A name may have several handles, parameters and enum constants that is, and `Find`
takes the newest, which `_put` enters in front. A doubling of a scope's table turns
the order of a chain round. The table (16 entries) doubles at the 29th handle; the
scope of a function holds its parameters only, and `MaxParams` keeps them below that.
Two enum constants of one name are alike in this module.

Abstractions: an expression is a constant, a string constant, a symbol, a call or
an operator with a type error (possibly after a call); its types are the subject
of `ExprType`, its value of `ConstFold`. A type is builtin or a name. Array and
member references, imports and the contents of types are not in this module.
`error`, `ub`, the roles of labels and the op names `break`, `continue`, `goto`
(all `new_Jump` in the code) are history for the properties.

### Import

An entry of `stack` is one activation of `compile` with the `IrMgr` it owns.
`CallImport` finds the module's file and calls `compile` for it, `FoundInDict`
takes a module `mModuleDict` has, `Imported` is the return of an import with the
registration of the module's functions and variables (`module2scope`),
`ImportFailed` the return of NULL, and `Finish` the rest of `elaborate` and
`code_gen`. `source`, chosen in `Init` out of `Programs`, gives each module's
file (`Source`): missing, broken, compiled (`.ymc`), or a list of import statements
and whether all its labels are defined; what it exports are names (`Symbol`).
`Register` is `HashMap::add` of the two dictionaries. A handle of an imported function or variable
carries the module index it was registered with, which addresses that module in
`imported_module_list`.

### Scanner and parser

`YmslScanner` reads a text character by character; `state` is the label of
`scan()` that is reached next, or the sign read so far. `read` keeps the tokens
returned with their first position, and `unget_token` may give the last one back
once; `lost` is a history variable, the places of given back `_dummy_` tokens, which
are not delivered again. A text is the sequence of its characters (`Chars` turns the
words of the tables into such sequences). The two hash tables of `RsrvWordDic` are
one function from text to token.

`Parser` computes the LR automaton from `Grammar` (a state is its kernel) and
runs bison's shift, reduce and error recovery over it, precedence resolving the
conflicts as bison's documentation of `%left`, `%right` and `%nonassoc` has it.
bison itself is not part of the repository: these definitions are marked external.
`TypeOK` checks what the model of the driver relies on, that no state has two
rules to reduce. A grammar action that assigns no value leaves `Garbage`.

`AstPrinter` writes what the scanner would make of the printed text. For a float that
is the work of `FloatText`: the value, a decimal mantissa and exponent, is rounded to
six digits, loses its point when nothing follows it (`1.0` is printed as `1`, an
integer), and gets an exponent when it is large or small, which the scanner reads
only behind a point. `Readable` says which trees come back from their text.

### ConstFold

Each operand on the stack is the node `elab_expr` makes, what the evaluations of
`IrInterp` would return for it, and what the expression means: exact numbers, int
going to float where they meet, and unknown out of the range of int, after an
operation on bits and after a division of floats. `IrInterp` calls itself on the
operands of a node and changes nothing, so its results are computed node by node
while the nodes are made, and used when `reg_const` or `reg_enum` asks for one of
them: the expression may have any size and the model needs no recursion.
Of two elements of one name the later is found, as long as the table of the enum's
scope does not double (`MaxElems`).
Declarations, one after another, register constants and enums whose values later
ones use. The compiler may end inside `IrInterp` (division by zero, a node it cannot
evaluate). The loop that looks for an unused value is the number of its turns.

### IrPrinter

The constructors of `IrMgr_node.cc` append to `heap`. `elab_expr` makes operands from
left to right and before their user, so the values that wait form a `stack`: an
operator or a call takes its operands from the top, a statement takes what is there
and goes into the list of a block, as labels do. What an expression made before it
failed is in no list and is left out; the failed expression statement itself adds a
null pointer to the list (`ExprStmt`). `ResolveCalls` is the end of `elaborate`, which
gives each call a function or leaves it without one. `print_code` numbers and prints
one block after the other, a step each. `dfs_node` follows every entry of the list,
and `print_node` the function of every call: where one is a null pointer the program
crashes, and `listing` has the lines printed before.

### Vsm

A word of code is a number or half of a float. A `VsmValue` is a union, so a value
records the member written last and a read of another member gives any value. An
access outside of an array, a failed assertion or a trapping division ends the
program with a `fault`. The repository has no code generator yet (every
`gen_node` of `VsmGen` is empty), fills no table of the machine and never calls
`execute`. Tables and sizes are therefore constants, and `VsmExpr` writes
programs for expressions by hand, in the shape the instructions ask for:
operands pushed in the reverse order of their popping, an argument below the base
of the function called.

`Means` is what such a program must leave. It does not use the machine's operators:
`Results` says of a number that it is the sum, the quotient or the shifted value, up
to multiples of 2 to the width. With `asCoded` it says what the instructions give
instead where they are known to differ (section 6): a conversion leaves its result in
the member of floats, where whoever reads an int finds any int, and a branch does not
look at its condition.

## 3. Runs

| Run | Bounds | Checks |
|---|---|---|
| `scope` | 7 handles with 5 names, colliding hashes, initial size 2 (1024 in the code): two doublings with full chains | `TypeOK`; `LookupSound`: lookups between additions; `CheckedUnique`; `LinkedOnce`: no handle lost or doubled, in the middle of a doubling too; `LoadBounded`; `ImplementsDict`; `AddCompletes` (liveness) |
| `typemgr` | 4 composite types beyond the primitive ones, components `int` and the first type made, initial size 1: two doublings | `TypesUnique`, `EveryTypeFound`, `CountExact`, `ImplementsIntern` |
| `expr_types` | at most 3 waiting operands, all primitive types, 2 enum types, one other | `CastsPossible`, `SwapSafe` |
| `elab` | four sublanguages: 3 control statements with a label name that is also a condition; 3 declarations of every kind over 2 names with every outcome of their expressions; 3 statements out of blocks, variables and functions with up to 2 parameters; 4 of these without parameters | `NamesUnique`, `JumpsLand`, `JumpsInnermost`, `LocalsOwned`, `SlotsExact` (the index of a variable and of a parameter is its place in its list), `FuncIndexExact` |
| `import` | `main` with up to 3 imports of `a` and `b`, which may import `c`; files missing, broken, compiled or with undefined labels; without cycles, so at most 4 activations | `HandlesResolve`, `NoPartialModule`, `FailureSpreads` (a failed import fails every importer), `CompileReturns` (liveness) |
| `scanner` | every text of 2 characters out of the signs, blanks and one of each other class, all numbers of 5 characters, comments and strings of 4 characters after their opening, some signs and words, a `_dummy_` to give back, an `_int_` before a point | `TokensExact`: a token is the longest one, has the text of the source and prints as it was read; `GapsBlank`; `ScanEnds` (liveness) |
| `parser` | a tree of every class but the switch as `AstPrinter` prints it, 14 floats among them; those that read back also after each of 8 broken statements; all texts of up to 4 tokens over 6 tokens; all pairs of operators; texts of loops, functions, a switch | `TypeOK`; `PrintedReadsBack`: what is printed reads back as the tree exactly when it has no for, function declaration, elif or float that changes its form, and only a switch is not printed; `WordsKept`, `FactorsBindTighter`, `ErrorStaysLocal`, `ParseEnds` (liveness) |
| `const_fold` | ints of 3 bits; constants with up to 2 operators and 3 waiting operands over literals of every type; enums of up to 3 elements, given or counted, with 1 operator | `FoldedExactly`, `EnumValuesDistinct` |
| `ir_listing` | all programs of 4 nodes and 4 list entries in 2 code blocks, each call with or without a function, failed expression statements | `ListingExact`: references denote the node they stand for, operands come before their users, every node is printed once, unless a null pointer is met, and then and only then the listing ends there |
| `vsm` | ints of 7 bits, a stack of 4 cells, one global; every operator on small operands, the conversions and uses of their results included; every pair of constructs (forward jumps, branches, calls of two kinds, a global) around an expression; branches on true, false, computed and converted conditions | `OperandsTyped`: only results of conversions are read by another member than was written; `ResultExact`: one cell is left, with the value of the expression, or where a conversion or a false condition is used the value the instructions give; `FaultsExplained`, `CallersKept` (action property), `ExecutionEnds` (liveness, without backward jumps) |

Three statements are enough for a loop in a loop with a jump, a jump in a
function in a loop, a declaration after a failed one, or a variable in a function
with parameters; four for a variable after a function in a block. The tables meet a doubling that starts in the middle
of an addition, with chains of several elements, and a second one after it. With
three imports a module is imported first, again and between others; with a depth
of three below `main` a failure passes two importers. Five characters make a
number of all four parts with one character too many; a comment of six holds a
run of stars before its end. Four nodes make a choice of three operands, a store into
an element of an array, or a call beside another one. Ints of three bits reach both ends of the range with
two operators, and an enum of three elements wraps. A machine stack of four cells
overflows in calls two deep.

Deadlock is checked where the program must go on: in the elaborator, the import,
the scanner, the parser and the machine nothing gets stuck before the work has
ended (`Ended`, `Terminated` and the like stand for the finished program). In the other runs
the system may stop: all handles are added, the bound on types or nodes is
reached, an expression has failed.

Two runs are expected to fail. They state what a comment says and the code does
not do:

| Run | Comment | Code |
|---|---|---|
| `elab_null_on_error` | `elaborate` returns NULL on an error (`IrMgr.cc:72`) | only undefined goto labels and failed imports do |
| `import_resolve` | a module imported before is looked up and used again (`IrMgr.cc:101`) | the dictionary is asked for the importing module's name: the second import statement is bound to the module of the first |

### Fairness

The program is one thread that runs to its end, so weak fairness of the running
code is what the language guarantees; nothing can keep the thread from its next
step.

- `Scope`: `WF_vars(Rehash)`, the loops of `alloc_table`; none for the callers.
- `Import`, `Parser`, `Vsm`: `WF_vars(Next)`; every step is one of the running call.
- `YmslScanner`: weak fairness of reading (`ReadToken`, `ReadUngot`, `Scan`); none
  for giving tokens back, which is the client's choice.

## 4. Proofs

TLAPS proves, for every value of the constants:

- `Scope_proof`: `ScopeTypeOK`, `ScopeLookupSound`, `ScopeCheckedUnique`,
  `ScopeLinkedOnce`, `ScopeLoadBounded`, `ScopeImplementsDict`;
- `TypeMgr_proof`: `TypeMgrTypeOK`, `TypeMgrTypesUnique`,
  `TypeMgrEveryTypeFound`, `TypeMgrCountExact`, `TypeMgrImplementsIntern`;
- `ExprType_proof`: `ExprTypeCastsPossible`, `ExprTypeSwapSafe`;
- `Import_proof`: `HandlesResolveTheorem`, `NoPartialModuleTheorem`,
  `FailureSpreadsTheorem`;
- `IrMgr_proof`: `IrMgrTypes`, `NamesUniqueTheorem`, `LocalsOwnedTheorem`,
  `SlotsExactTheorem`, `FuncIndexExactTheorem`, `JumpsLandTheorem`,
  `JumpsInnermostTheorem`;
- `YmslScanner_proof`: `GapsBlankTheorem`, `TokensExactTheorem`;
- `ConstFold_proof`: `FoldedExactlyTheorem`, `EnumValuesDistinctTheorem`.

Assumptions: handles have names, names have natural hashes, sizes are positive; for
the type manager the two hash functions agree on every shape; for typing, NULL is no
type and the primitive types are neither enums nor composite; for imports
(`ImportAssumption`), the main module is a module, a program gives every module a
source, and NULL is no module index; for elaboration (`IrMgrAssumption`), the
sublanguages are sublanguages, NULL is no name, no number and not the toplevel
block, and the wild pointer is no label; for the lexer (`CharactersAssumption`),
letters and digits are no signs, blanks or quotes; for constants, ints have at least
two bits (`IntWidthAssumption`) and a literal has a value of its type
(`ConstFoldAssumption`). One assumption has no parameter: `TablesAssumption` says
what the tables of signs and words contain, character by character; the provers know
nothing of the characters of a string, so TLC evaluates it, completely, in the
`scanner` run. None of the others bounds the size of a program, except that a function
has at most 28 parameters and an enum at most 28 elements (`MaxParams`, `MaxElems`),
and the bound on the depth of imports is any number: the theorems hold for modules that import each other
too, as deep as the recursion gets.

The argument for both tables is the same inductive invariant `IInv`. Lookups are
correct between additions because every linked element is in the bucket of its
hash (`Placed`); for that to survive a doubling one needs to know of the states in
the middle that the buckets already visited are empty (`VisitedEmpty`), that no
element is linked twice in or across the two tables (`LinkedOnce`,
`PendingApart`), and that the limit belongs to the size (in `TypeOK`).
`SeqLemmas` states once what prepending and dropping do to the set of linked
elements, to their places and to repetition. `LoadBounded` needs that the counter
is never less than the number of elements (`LoadInv`), which is why over-counting
is harmless. `TypesUnique` follows since a shape is only registered when its
search failed (`LookupComplete`), and the search cannot miss a filed type.
Refinement is then immediate: doubling steps leave the abstract state alone.

For the typing of expressions the invariant is short: the stack holds types of
operands (or NULL, for calls). `UniCasts`, `BinCasts` and `TriCasts` state once
what each rule requires, `OrderSwaps` that the rule of `<` and `<=` is symmetric;
`Taken` says that an operator's operands are the last ones of the stack. That
arithmetic is excluded from `CastsPossible` is necessary (section 6).

For imports, `IInv` of `Import_proof` is `TypeInv`, `ImportsCounted`, `ScopesLead`
and `NoPartialModule`. A handle is registered with the number of modules its
activation has imported, and used when more have been: what makes it resolve is
that every scope an activation holds, in its dictionary or given out, leads into
the modules it has imported so far (`ScopesLead`), and that lists of modules only
grow. A module is whole because every waiting activation still has an import
statement left (`ImportsCounted`), so that one which has none is at its end.

For elaboration, `IInv` of `IrMgr_proof` holds in the middle of every statement,
after errors too, and has a conjunct for each reason a property could fail:

- `ScopeInv`: a scope's chain holds the scope, the toplevel scope and only older
  ones, so a new scope is in no chain but its own;
- `WorkInv`: the tasks are well formed, the lowest is the program, and while an enum
  is in progress its name stays free where it will be declared; `NamesUnique`
  needs this, since `check_name` runs before the constants and `add` after them;
- `LocalsInv`: a local variable that a task can find is of the block the task adds
  to, and tasks that can declare for each other share their block; with `CodeInv`,
  which says it of the code that exists, this is `LocalsOwned`. A function gets a
  scope whose chain leaves out the scopes around it: that is the whole point;
- `BlocksInv`: blocks that handles name have a list of variables, which
  `VariableSlots` and `FuncIndexExact` need to survive the next declaration.

`SlotsExact` has two parts, `VariableSlots` for local and global variables and
`ArgumentSlots` for parameters. It does not say that the variables and the parameters
of one function have different indices: they have not (section 6).

For jumps, `JInv` of `IrMgr_proof` is about code that is still incomplete. A
label has a place in the code (`Stands`) or in a task that is going to place it
(`Waits`); tasks are numbered from the bottom of the stack, so a task keeps its
number while others come and go. `Once` says that a label has one place at most,
`Known` that only labels that were made have places and that loops have pairs of
them, `Landing` that a jump's target is or will be in its own block, `Innermost`
that no open loop around a break or continue is newer than its own, and `TasksOK`
that the labels a task hands down are those of the innermost loop still open in
its block, or NULL in a function. At the end no task is left, so what waits is
nothing and the places are those of the code. `CodeMoves`, `WorkMoves` and
`LabelsMove` say once what a statement may do to places, and the lemmas about them
carry the invariant over every action. A goto needs no label in `Landing`:
its label is on `mUndefList` and is only defined through an uninitialised
`label_node`, so that a program that is accepted without such a read has no goto
at all (`GotosUndefined`). `JInv` was checked by TLC on the states of `elab` before
it was proved.

For the lexer, `IInv` of `YmslScanner_proof` says of every label what is known of
the characters read so far. `LastEnd` is where the last token ended, one that waits to
be read again included; `SkipInv`: from there to the next place, or to the start
of the token in progress, everything is a gap; `CommentInv`: a comment that is being
read has its opening, no newline (`COMMENT2`) or no closed end (`COMMENT3`,
`COMMENT4`) in it yet, and in `COMMENT4` its last character is a star; `UngetInv`: a
token is given back only right after it was read, so at most one waits and it is
the one that follows the last in `read`. `Gap` is the existence of cut points in
the text, so gaps are joined by uniting the cuts and no induction is needed. The
attempt to prove `GapsBlank` without `lost` failed for a good reason: a `_dummy_`
that is given back is not delivered again (section 6), and then a name stands in
the gap. For `TokensExact` (`EInv`), `LabelInv` says that the label of a sign is the
text read since `set_first_loc`, that `mCurString` is that text while a number or a
word is read, and that it is empty before one; `TokensInv` says of a token that
waits to be read again what `TokensExact` says of the others. A sign is the longest
because every sign that is longer by one character has an entry in `Longer`. The
first attempt failed for a good reason: the dictionary has `_int_` for `INT_VAL`
(section 6), so a name can be a number that a point follows. `IInv`, `LabelInv` and
`TokensInv` were checked by TLC on the states of `scanner` before they were proved.

For constants, `IInv` of `ConstFold_proof` is about everything a later expression
can use. An operand on the stack (`EntryOK`) has the type its meaning has, and an
evaluation of it returns only if it asks for that type, and then what is meant
wherever that is known. No cast is ever inserted, so an operator on mixed operands
typechecks and is then not evaluated: that is why "returns only if" is part of it.
`UniEntry`, `BinEntry` and `TriEntry` carry it over the operators and rest on four
facts about numbers: a register keeps every int of its range (`WrapFits`, for which
`2 ^ IntWidth` is positive because it counts subsets), the quotient the machine
computes from absolute values and a sign is the only one that is rounded towards
zero (`QuotientExact`), sums and products of fractions are exact (`FloatExact`), and
comparing by cross multiplication is comparing (`CompareExact`). A constant and an
element of an enum keep the same promise in the scope (`ConstOK`, `ElemOK`), and an
element is only added with a value that no other has (`AddElemStep`). The theorems
hold for every width and literal, and for expressions and programs of every size.

Only model-checked:

- liveness (`AddCompletes`, `CompileReturns`, `ScanEnds`, `ParseEnds`,
  `ExecutionEnds`), which is out of the prover's reach;
- `Parser`, `IrPrinter`: the automaton, the trees and the listings are defined by
  recursion, and the properties are about what these compute for all inputs;
- `Vsm`: the programs and what they mean are defined by recursion in `VsmExpr`.
  `CallersKept` is true of well-formed code only: code is data for the machine, and
  nothing in it keeps an arbitrary store from going below the base.

## 5. What is not modelled, and the plan

Not modelled:

- the old engine (`src/engine`): superseded by `Vsm`, not built, and its headers
  are no longer in the repository;
- the bodies of `VsmGen::gen_node`, which are empty;
- `YmslCompiler::add_searchpath` and the walk over the search path: what matters
  is which of the two files of a module is found first, and that is in `Import`;
- `read_objptr` and `write_objptr` of `VsmCodeList`: no opcode uses them;
- strings that a backslash joins from two lines, whose printed text has the newline in
  it and does not read back;
- backward jumps of the machine, which may go on for ever;
- positions in the source, messages, indentation and the other layout of printers;
- the buckets of `RsrvWordDic`, whose table is built once;
- rounding, infinities and NaN of floats: floats are exact fractions;
- array references and references into imported modules in `elab_expr`, other than
  as nodes to be listed (`IrPrinter`).

The tests in `src/tests` drive the compiler by hand and promise nothing further.

What is left, in this order: the composition of `IrMgr` with
`Import`, once members of modules can be elaborated; `VsmGen` against `VsmExpr`,
once it generates code.

## 6. Where the code differs from what one would expect

The models follow the code, so they have these behaviours. Two of them have a run
of their own (section 3); the properties of the other runs are stated so that they
say what holds in spite of them.

Tables and types:
- relinking counts elements again, so `mHashNum` exceeds the number of elements
  its comment promises (`Scope.h:111`); lookups are unaffected, the table only
  doubles early, and `LoadBounded` still holds;
- the arithmetic rule tests one operand twice: `float + int` is refused and
  `string + float` accepted (`TypeMgr.cc:361`);
- the casts the typing rules ask for are never inserted (`IrMgr_expr.cc:147`).

Elaboration:
- `elaborate` returns a block in spite of errors (`IrMgr.cc:155`): calls in it may
  have no function, and an expression statement that failed is a null pointer in the
  list of nodes (`IrMgr_stmt.cc:163`). `tests/IrMgr_test.cc:53` prints that block;
- parameters are checked for repeated names in a scope that is still empty
  (`IrMgr_stmt.cc:515`);
- a function's first local variable gets the index of its first parameter: both are
  local variable handles, the parameters are counted from 0 (`IrMgr_stmt.cc:544`)
  and are not in the list whose length is the next index (`IrCodeBlock.cc:34`);
  `SlotsExact` says which list an index belongs to;
- `label_node` is uninitialised when a label is already known
  (`IrMgr_stmt.cc:193`, `208` and `261`);
- `if` without `else` hands NULL to `elab_stmt` (`IrMgr_stmt.cc:224`);
- `continue` in a `for` skips its next part (`IrMgr_stmt.cc:180`);
- the declared type of a constant is not compared with its expression
  (`IrMgr_stmt.cc:604`);
- a member that an enum does not have is searched in the global scope
  (`IrMgr_expr.cc:255`);
- the member of a variable is a pointer nobody assigns, and cannot be loaded
  (`IrMgr_expr.cc:269`, `279`).

Imports:
- the second import statement is bound to the module of the first
  (`IrMgr.cc:102`, `118`);
- `module2scope` asserts that the scopes of a module's own imports are known, and
  they were made in another elaboration (`IrMgr.cc:186`);
- the types a module exports belong to a `TypeMgr` that is gone when they are used
  (`YmslCompiler.cc:55`, `VsmGen.cc:63`);
- modules that import each other recurse without end (`YmslCompiler.cc:94`), which
  is why `import` has programs without cycles only.

Scanner and parser:
- the text of `.1` gets two points (`YmslScanner.cc:73`);
- `_int_` and the other names of tokens are read as these tokens
  (`RsrvWordDic.cc:103`), and `_dummy_` is lost when given back, being the marker
  for none (`YmslScanner.cc:40`);
- `a-1` is a name and a negative constant (`YmslScanner.cc:199`);
- a `for` is printed without its closing parenthesis (`AstPrinter.cc:151`), a function
  without the type of its value (`AstPrinter.cc:165`), an `elif` as an `if` in the place
  of the block of an else (`AstPrinter.cc:194`): these texts are syntax errors;
- a float is printed with six digits, a whole one without its point, and a large or
  small one with an exponent the scanner does not know (`AstPrinter.cc:326`);
- `read_source` returns true after a syntax error, with the value of the broken
  statement not assigned (`AstMgr.cc:100`);
- `AstSwitch` does not define `expr()` (`AstSwitch.cc:24`), so a switch aborts when it
  is printed or elaborated.

Listing:
- `dfs_node` and `print_handle` follow the null pointers that a failed expression
  statement and a call without a function leave (`IrPrinter.cc:101`, `443`).

Machine:
- the branches test the instruction word and not the condition (`Vsm.cc:690`);
- the conversions to bool and to int push their result as a float (`Vsm.cc:213`,
  `373`, `381`);
- locals and operands of a function overlap (`Vsm.h:439`, `Vsm.cc:711`);
- a builtin function reads its argument above its caller's values
  (`VsmBuiltinFunc.cc:50`);
- the constructor leaves the tables empty (`Vsm.cc:22`), and `RETURN` and `HALT`
  have no effect (`Vsm.cc:726`).
