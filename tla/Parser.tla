------------------------------- MODULE Parser -------------------------------
(***************************************************************************)
(* AstMgr::read_source: yyparse over the tokens of the scanner.  The       *)
(* driver is bison's: it shifts, reduces and recovers from errors over the *)
(* LR automaton of the grammar.  Every state of this automaton has at most *)
(* one rule to reduce (see TypeOK), so bison reduces by it whatever the    *)
(* next token is; except where the error token can be shifted, which is    *)
(* where the statements of a module end.                                   *)
(***************************************************************************)
EXTENDS Grammar, AstPrinter

CONSTANTS Trees,      \* syntax trees, read from what AstPrinter prints
          Broken,     \* statements that are none, up to their semicolon
          Texts       \* other sequences of tokens the scanner may deliver

VARIABLES source,     \* all the tokens of the file
          input,      \* the tokens not consumed yet
          stack,      \* the states of the parser with their semantic values
          yyerrstatus,
          errors,     \* yyerror has been called
          mToplevel,  \* AstMgr::mToplevel
          pc          \* "parse", then what read_source returns

vars == <<source, input, stack, yyerrstatus, errors, mToplevel, pc>>

EndOfInput == [tok |-> "$end", val |-> NULL]

(* AstMgr::scan: the semantic value of a token, from the value the scanner *)
(* holds for it.                                                           *)
scan(id, cur) ==
  CASE id = "SYMBOL" -> cur
    [] id = "STRING_VAL" -> new_StringConst(cur)
    [] id = "INT_VAL" -> new_IntConst(cur)
    [] id = "FLOAT_VAL" -> new_FloatConst(cur)
    [] OTHER -> NULL

Lookahead == IF input = <<>> THEN EndOfInput ELSE Head(input)

-----------------------------------------------------------------------------
(* The automaton.  A state is its kernel, a set of pairs of a rule and the *)
(* number of symbols of its right side already read.  LeftOf[X]: the       *)
(* nonterminals a text of X may begin with.                                *)
NonTerminals == {Rules[i].lhs : i \in DOMAIN Rules}

LeftOf ==
  LET Step(S) == S \cup {Rules[i].rhs[1] : i \in {j \in DOMAIN Rules :
                            Rules[j].lhs \in S /\ Rules[j].rhs # <<>>}}
      Reach[n \in 0 .. 6, X \in NonTerminals] ==
        IF n = 0 THEN {X} ELSE Step(Reach[n - 1, X])
  IN  [X \in NonTerminals |-> Reach[6, X] \cap NonTerminals]

RulesOf == [X \in NonTerminals |-> {<<i, 0>> : i \in {j \in DOMAIN Rules :
                                      Rules[j].lhs \in LeftOf[X]}}]

After(item) == LET rhs == Rules[item[1]].rhs
               IN  IF item[2] < Len(rhs) THEN {rhs[item[2] + 1]} ELSE {}

Closure(kernel) ==
  kernel \cup UNION {RulesOf[X] : X \in (UNION {After(i) : i \in kernel})
                                          \cap NonTerminals}

Goto(kernel, X) ==
  {<<i[1], i[2] + 1>> : i \in {j \in Closure(kernel) : X \in After(j)}}

Start == {<<i, 0>> : i \in {j \in DOMAIN Rules : Rules[j].lhs = "module"}}

Completed(kernel) ==
  {Rules[i[1]] : i \in {j \in Closure(kernel) : After(j) = {}}}

(* A rule and a token it could be reduced on, or that could be shifted:    *)
(* the one of the higher level wins, and associativity decides in a level. *)
PrefersReduce(r, t) ==
  /\ RuleLevel(r) # 0 /\ Level(t) # 0
  /\ RuleLevel(r) > Level(t) \/ (RuleLevel(r) = Level(t) /\ Level(t) \notin Nonassoc)

Refused(r, t) == /\ RuleLevel(r) # 0 /\ RuleLevel(r) = Level(t)
                 /\ Level(t) \in Nonassoc

ShiftState(kernel, t) ==
  IF \E r \in Completed(kernel) : PrefersReduce(r, t) \/ Refused(r, t)
  THEN {} ELSE Goto(kernel, t)

Reducible(kernel, t) ==
  {r \in Completed(kernel) :
     /\ Goto(kernel, t) = {} \/ PrefersReduce(r, t)
     /\ Goto(kernel, "error") # {} => t = "$end"}

-----------------------------------------------------------------------------
Cell(kernel, val) == [kernel |-> kernel, val |-> val]
Top == Last(stack).kernel
Accepting == stack # <<>> /\ Top = {}    \* module has been reduced

Printed == [t \in Trees |-> print_statement(t)]
Aborts(t) == Aborted \in Range(Printed[t])

(* What the printer writes of a node and the nodes below it is the source  *)
(* of that node.                                                           *)
Nodes == {"expr", "lhs_expr", "stmt", "else_stmt", "body", "index", "func", "init_expr"}
NodeLists == {"headlist", "stmtlist", "operand", "arglist", "enum"}

RECURSIVE Readable(_)
Readable(node) ==
  LET Is(types) == "stmt_type" \in DOMAIN node /\ node.stmt_type \in types
      small == Magnitude(node.float_val) \in -4 .. 5
  IN  /\ ~ Is({"For", "FuncDecl", "Switch"})
      /\ Is({"If"}) /\ node.else_stmt # NULL => node.else_stmt.stmt_type = "Block"
      /\ "float_val" \in DOMAIN node =>
           /\ node.float_val.mant < 10 ^ 6
           /\ IF small THEN node.float_val.exp < 0 ELSE node.float_val.mant >= 10
      /\ \A f \in DOMAIN node \cap Nodes : node[f] # NULL => Readable(node[f])
      /\ \A f \in DOMAIN node \cap NodeLists :
           \A i \in DOMAIN node[f] : Readable(node[f][i])

Init ==
  /\ source \in Texts \cup {Printed[t] : t \in {u \in Trees : ~ Aborts(u)}}
         \cup {b \o Printed[t] : b \in Broken, t \in {u \in Trees : Readable(u)}}
  /\ input = source
  /\ stack = <<Cell(Start, NULL)>>
  /\ yyerrstatus = 0
  /\ errors = FALSE
  /\ mToplevel = NULL
  /\ pc = "parse"

Shift ==
  /\ pc = "parse" /\ input # <<>>
  /\ ShiftState(Top, Lookahead.tok) # {}
  /\ stack' = Append(stack, Cell(ShiftState(Top, Lookahead.tok),
                                scan(Lookahead.tok, Lookahead.val)))
  /\ input' = Tail(input)
  /\ yyerrstatus' = IF yyerrstatus > 0 THEN yyerrstatus - 1 ELSE 0
  /\ UNCHANGED <<source, errors, mToplevel, pc>>

Reduce ==
  /\ pc = "parse"
  /\ \E r \in Reducible(Top, Lookahead.tok) :
       LET n == Len(stack) - Len(r.rhs)
           v == [i \in 1 .. Len(r.rhs) |-> stack[n + i].val]
           value == Action(r, v)
       IN  /\ stack' = Append(SubSeq(stack, 1, n),
                              Cell(Goto(stack[n].kernel, r.lhs), value))
           /\ yyerrstatus' = IF r.act = "yyerrok" THEN 0 ELSE yyerrstatus
           /\ mToplevel' = IF r.act = "set_root" THEN value ELSE mToplevel
  /\ UNCHANGED <<source, input, errors, pc>>

Stuck == /\ ~ Accepting \/ input # <<>>
         /\ ShiftState(Top, Lookahead.tok) = {}
         /\ Reducible(Top, Lookahead.tok) = {}

(* Mutants of Discarded: the offending token stays; it goes at once. *)
DiscardedNever == input
DiscardedAtOnce == IF input = <<>> THEN input ELSE Tail(input)

(* A second error before three tokens were shifted drops the token. *)
Discarded == IF yyerrstatus = 3 THEN Tail(input) ELSE input

(* States are popped until one shifts the error token. *)
Recover ==
  LET ready == {n \in DOMAIN stack : Goto(stack[n].kernel, "error") # {}}
      n == CHOOSE k \in ready : \A j \in ready : j <= k
  IN  IF ready = {} \/ (yyerrstatus = 3 /\ input = <<>>)
      THEN /\ pc' = "false"
           /\ UNCHANGED <<input, stack, yyerrstatus>>
      ELSE /\ stack' = Append(SubSeq(stack, 1, n),
                              Cell(Goto(stack[n].kernel, "error"), Garbage))
           /\ input' = Discarded
           /\ yyerrstatus' = 3
           /\ UNCHANGED pc

SyntaxError ==
  /\ pc = "parse"
  /\ Stuck
  /\ errors' = TRUE
  /\ Recover
  /\ UNCHANGED <<source, mToplevel>>

(* yyparse returns 0, and read_source true. *)
Accept ==
  /\ pc = "parse"
  /\ Accepting /\ input = <<>>
  /\ pc' = "true"
  /\ UNCHANGED <<source, input, stack, yyerrstatus, errors, mToplevel>>

Terminated == pc # "parse" /\ UNCHANGED vars

Next == Shift \/ Reduce \/ SyntaxError \/ Accept \/ Terminated

(* yyparse is a loop of one thread. *)
Spec == Init /\ [][Next]_vars /\ WF_vars(Next)
-----------------------------------------------------------------------------
Done == pc \in {"true", "false"}
Good == pc = "true" /\ ~ errors

(* The automaton decides: a state never has two rules to reduce by, so     *)
(* bison's table (grammer.yy 200-756) holds what the grammar says; and the *)
(* tree that set_root keeps has its imports in front of its statements.    *)
TypeOK ==
  /\ yyerrstatus \in 0 .. 3
  /\ \A n \in DOMAIN stack : Cardinality(Completed(stack[n].kernel)) <= 1
  /\ \E n \in 0 .. Len(source) : input = SubSeq(source, n + 1, Len(source))
  /\ mToplevel # NULL =>
       /\ mToplevel.stmt_type = "Toplevel"
       /\ \A i \in DOMAIN mToplevel.headlist :
            mToplevel.headlist[i].stmt_type = "Import"

(* What AstPrinter prints of a tree, read_source reads back as that tree:  *)
(* operators keep their operands, parentheses group as they were, lists    *)
(* keep their order, an else stays with its if.  This fails exactly for    *)
(* trees with a for, a function declaration, an elif (their text is not    *)
(* the grammar's) or a float constant that FloatText changes: a whole      *)
(* number, one of more than six digits, one digit with an exponent.  And a *)
(* tree with a switch, and no other, is not printed at all.                *)
PrintedReadsBack ==
  Done => \A t \in Trees :
    /\ source = Printed[t] => (Readable(t) <=> Good /\ mToplevel = t)
    /\ Aborts(t) <=> "SWITCH" \in {Printed[t][i].tok : i \in DOMAIN Printed[t]}

(* Whatever is accepted without an error, the tree has the words of the    *)
(* file in their order: no action of a rule drops or exchanges one.  Left  *)
(* out: what the printer does not print, and > with its swapped operands.  *)
Words(text) == SelectSeq(text, LAMBDA t : t.tok \notin {"LP", "RP", "SEMI"})
Unprinted == {"FUNCTION", "SWITCH", "ELIF", "GT", "GE"}
WordsKept ==
  Good /\ (\A i \in DOMAIN source : source[i].tok \notin Unprinted)
    => Words(print_statement(mToplevel)) = Words(source)

(* Multiplication and division take factors and addition and subtraction   *)
(* associate to the left, as the grammar of docs/grammer.txt has it (expr, *)
(* term, factor): where no parenthesis is written, no sum is a factor.     *)
RECURSIVE SumsOfTerms(_)
SumsOfTerms(expr) ==
  LET Is(e, ops) == e.expr_type = "BinOp" /\ e.opcode \in ops
      sum == {"Add", "Sub"}
      product == {"Mul", "Div", "Mod"}
  IN  "operand" \in DOMAIN expr =>
        /\ \A i \in DOMAIN expr.operand : SumsOfTerms(expr.operand[i])
        /\ Is(expr, product) => ~ \E i \in 1 .. 2 : Is(expr.operand[i], sum)
        /\ Is(expr, sum) => ~ Is(expr.operand[2], sum)
        /\ Is(expr, product) => ~ Is(expr.operand[2], product)
FactorsBindTighter ==
  Good /\ (\A i \in DOMAIN source : source[i].tok # "LP") =>
    \A i \in DOMAIN mToplevel.stmtlist :
      mToplevel.stmtlist[i].stmt_type = "Expr" =>
        SumsOfTerms(mToplevel.stmtlist[i].expr)

(* An error costs the statement it is in: the parser resumes behind its    *)
(* semicolon, and the statements that follow are read as they are.         *)
ErrorStaysLocal ==
  Done => \A b \in Broken, t \in {u \in Trees : Readable(u) /\ u.headlist = <<>>} :
    source = b \o Printed[t] =>
      pc = "true" /\ errors /\ mToplevel.stmtlist = <<Garbage>> \o t.stmtlist

(* read_source returns: error recovery drops a token or ends.              *)
ParseEnds == <>Done
=============================================================================
