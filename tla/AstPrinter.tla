----------------------------- MODULE AstPrinter -----------------------------
(***************************************************************************)
(* AstPrinter: a syntax tree as the text of a program.  The text is the    *)
(* sequence of its lexical tokens; blanks, newlines and indentation, which *)
(* only separate them, are left out.  Aborted stands in the text where the *)
(* code runs into ASSERT_NOT_REACHED.                                      *)
(*                                                                         *)
(* Names, integers and strings are printed as they were written: the       *)
(* scanner keeps the backslashes of a string.  (Left out: strings joined   *)
(* from two lines by a backslash, whose newline ends the printed text.)    *)
(***************************************************************************)
EXTENDS Ast, SequencesExt, Integers

CONSTANTS NameE       \* the name e

Aborted == [tok |-> "ASSERT_NOT_REACHED", val |-> NULL]

LOCAL T(id) == <<[tok |-> id, val |-> NULL]>>
LOCAL Sym(name) == <<[tok |-> "SYMBOL", val |-> name]>>

UniOpText == [UniMinus |-> "MINUS", BitNeg |-> "BITNEG", LogNot |-> "LOGNOT"]
CastText == [CastInt |-> "INT", CastBoolean |-> "BOOLEAN", CastFloat |-> "FLOAT"]
BinOpText ==
  [BitAnd |-> "BITAND", BitOr |-> "BITOR", BitXor |-> "BITXOR",
   LogAnd |-> "LOGAND", LogOr |-> "LOGOR", Equal |-> "EQEQ", NotEq |-> "NOTEQ",
   Lt |-> "LT", Le |-> "LE", Add |-> "PLUS", Sub |-> "MINUS", Mul |-> "MULT",
   Div |-> "DIV", Mod |-> "MOD", Lshift |-> "LSHIFT", Rshift |-> "RSHIFT"]
InplaceOpText ==
  [Add |-> "EQPLUS", Sub |-> "EQMINUS", Mul |-> "EQMULT", Div |-> "EQDIV",
   Mod |-> "EQMOD", Lshift |-> "EQLSHIFT", Rshift |-> "EQRSHIFT",
   BitAnd |-> "EQBITAND", BitOr |-> "EQBITOR", BitXor |-> "EQBITXOR"]

LOCAL OpToken(text, opcode) ==
  IF opcode \in DOMAIN text THEN T(text[opcode]) ELSE <<Aborted>>

(* elements separated by sep. *)
LOCAL Separated(texts, sep) ==
  FlattenSeq([i \in DOMAIN texts |-> (IF i = 1 THEN <<>> ELSE sep) \o texts[i]])

(* The numbers that are printed: mant times 10 to the exp, without zeros   *)
(* at the end of mant when it is a float.                                  *)
Num(mant, exp) == [mant |-> mant, exp |-> exp]

Digits[n \in Nat] == IF n < 10 THEN 1 ELSE 1 + Digits[n \div 10]

RECURSIVE Normal(_, _)
Normal(mant, exp) ==
  IF mant # 0 /\ mant % 10 = 0 THEN Normal(mant \div 10, exp + 1) ELSE Num(mant, exp)

(* The power of ten of the first digit. *)
Magnitude(val) == Digits[val.mant] - 1 + val.exp

Rounded(val) ==
  LET more == Digits[val.mant] - 6
  IN  IF more <= 0 THEN val
      ELSE Normal((val.mant + 5 * 10 ^ (more - 1)) \div 10 ^ more, val.exp + more)

(* mS << float_val(), as the scanner sees it: six digits, a number without *)
(* a point when nothing follows it (which is an integer), and an exponent  *)
(* when the number is large or small.  The scanner knows exponents only    *)
(* behind a point: 1e+20 is an integer, a name, an operator, an integer.   *)
FloatText(val) ==
  LET r == Rounded(val)
      plain == Magnitude(r) \in -4 .. 5
      IntVal(n) == <<[tok |-> "INT_VAL", val |-> Num(n, 0)]>>
  IN  CASE plain /\ r.exp >= 0 -> IntVal(r.mant * 10 ^ r.exp)
        [] ~ plain /\ r.mant < 10 ->
             IntVal(r.mant) \o Sym(NameE) \o (IF Magnitude(r) < 0 THEN <<>> ELSE T("PLUS"))
               \o IntVal(Magnitude(r))
        [] OTHER -> <<[tok |-> "FLOAT_VAL", val |-> r]>>

RECURSIVE print_expr(_)
print_expr(expr) ==
  LET Const(id, val) == <<[tok |-> id, val |-> val]>>
      opr == [i \in DOMAIN expr.operand |-> print_expr(expr.operand[i])]
      args == [i \in DOMAIN expr.arglist |-> print_expr(expr.arglist[i])]
      Parens(text) == T("LP") \o text \o T("RP")
  IN  CASE expr.expr_type = "True" -> T("TRUE")
        [] expr.expr_type = "False" -> T("FALSE")
        [] expr.expr_type = "IntConst" -> Const("INT_VAL", expr.int_val)
        [] expr.expr_type = "FloatConst" -> FloatText(expr.float_val)
        [] expr.expr_type = "StringConst" -> Const("STRING_VAL", expr.string_val)
        [] expr.expr_type = "SymbolExpr" -> Sym(expr.symbol)
        [] expr.expr_type = "MemberRef" ->
             print_expr(expr.body) \o T("DOT") \o Sym(expr.member)
        [] expr.expr_type = "ArrayRef" ->
             print_expr(expr.body) \o T("LBK") \o print_expr(expr.index) \o T("RBK")
        [] expr.expr_type = "UniOp" /\ expr.opcode \in DOMAIN CastText ->
             T(CastText[expr.opcode]) \o Parens(opr[1])
        [] expr.expr_type = "UniOp" /\ expr.opcode \notin DOMAIN CastText ->
             Parens(OpToken(UniOpText, expr.opcode) \o opr[1])
        [] expr.expr_type = "BinOp" ->
             Parens(opr[1] \o OpToken(BinOpText, expr.opcode) \o opr[2])
        [] expr.expr_type = "TriOp" ->
             Parens(opr[1] \o T("QST") \o opr[2] \o T("COLON") \o opr[3])
        [] expr.expr_type = "FuncCall" ->
             print_expr(expr.func) \o Parens(Separated(args, T("COMMA")))

RECURSIVE print_type(_)
print_type(type) ==
  LET Of(text) == T("LP") \o text \o T("RP")
  IN  CASE type.type_id \in {"void", "boolean", "int", "float", "string"} ->
             T([void |-> "VOID", boolean |-> "BOOLEAN", int |-> "INT",
                float |-> "FLOAT", string |-> "STRING"][type.type_id])
        [] type.type_id = "array" -> T("ARRAY") \o Of(print_type(type.elem_type))
        [] type.type_id = "set" -> T("SET") \o Of(print_type(type.elem_type))
        [] type.type_id = "map" ->
             T("MAP") \o Of(print_type(type.key_type) \o T("COMMA")
                              \o print_type(type.elem_type))
        [] type.type_id = "named" -> print_expr(type.name)

LOCAL Initializer(expr) == IF expr = NULL THEN <<>> ELSE T("EQ") \o print_expr(expr)

(* What print_statement asks of a statement; a class without the accessor  *)
(* aborts.                                                                 *)
LOCAL ExprOf(stmt) ==
  IF HasStmtAccessor(stmt, "expr") THEN print_expr(stmt.expr) ELSE <<Aborted>>

-----------------------------------------------------------------------------
(* The statements without a body. *)
print_simple(stmt) ==
  LET EnumConst(c) == Sym(c.name) \o Initializer(c.expr)
  IN  CASE stmt.stmt_type = "Break" -> T("BREAK") \o T("SEMI")
        [] stmt.stmt_type = "Continue" -> T("CONTINUE") \o T("SEMI")
        [] stmt.stmt_type = "Goto" -> T("GOTO") \o Sym(stmt.label) \o T("SEMI")
        [] stmt.stmt_type = "Label" -> Sym(stmt.label) \o T("COLON")
        [] stmt.stmt_type = "NullStmt" -> T("SEMI")
        [] stmt.stmt_type = "Return" ->
             T("RETURN") \o (IF stmt.expr = NULL THEN <<>> ELSE ExprOf(stmt))
               \o T("SEMI")
        [] stmt.stmt_type = "Expr" -> ExprOf(stmt) \o T("SEMI")
        [] stmt.stmt_type = "Assignment" ->
             print_expr(stmt.lhs_expr) \o T("EQ") \o ExprOf(stmt) \o T("SEMI")
        [] stmt.stmt_type = "InplaceOp" ->
             print_expr(stmt.lhs_expr) \o OpToken(InplaceOpText, stmt.opcode)
               \o ExprOf(stmt) \o T("SEMI")
        [] stmt.stmt_type = "Incr" ->
             print_expr(stmt.lhs_expr) \o T("PLUSPLUS") \o T("SEMI")
        [] stmt.stmt_type = "Decr" ->
             print_expr(stmt.lhs_expr) \o T("MINUSMINUS") \o T("SEMI")
        [] stmt.stmt_type \in {"VarDecl", "ConstDecl"} ->
             T(IF stmt.stmt_type = "VarDecl" THEN "VAR" ELSE "CONST")
               \o Sym(stmt.name) \o T("COLON") \o print_type(stmt.type)
               \o Initializer(stmt.expr) \o T("SEMI")
        [] stmt.stmt_type = "Import" ->
             T("IMPORT") \o Sym(stmt.import_module)
               \o (IF stmt.import_alias = NULL THEN <<>>
                   ELSE T("AS") \o Sym(stmt.import_alias)) \o T("SEMI")
        [] stmt.stmt_type = "EnumDecl" ->
             T("ENUM") \o Sym(stmt.name) \o T("LCB")
               \o Separated([i \in DOMAIN stmt.enum |-> EnumConst(stmt.enum[i])],
                            T("COMMA"))
               \o T("RCB")
SimpleStmts == {"Break", "Continue", "Goto", "Label", "NullStmt", "Return", "Expr",
                "Assignment", "InplaceOp", "Incr", "Decr", "VarDecl", "ConstDecl",
                "Import", "EnumDecl"}

(* The statements with a body.  A for is printed without its closing       *)
(* parenthesis, a condition of while and do without parentheses of its     *)
(* own, a function without the type of its value, and an elif as an if in  *)
(* the place of the block of an else.                                      *)
RECURSIVE print_statement(_)
print_statement(stmt) ==
  LET All(stmts) == FlattenSeq([i \in DOMAIN stmts |-> print_statement(stmts[i])])
      Param(p) == Sym(p.name) \o T("COLON") \o print_type(p.type)
                    \o Initializer(p.init_expr)
      CaseItem(c) ==
        (IF c.label = NULL THEN T("DEFAULT") ELSE T("CASE") \o print_expr(c.label))
          \o T("COLON") \o print_statement(c.stmt)
  IN  CASE stmt.stmt_type \in SimpleStmts -> print_simple(stmt)
        [] stmt.stmt_type = "Toplevel" -> All(stmt.headlist) \o All(stmt.stmtlist)
        [] stmt.stmt_type = "Block" -> T("LCB") \o All(stmt.stmtlist) \o T("RCB")
        [] stmt.stmt_type = "If" ->
             T("IF") \o ExprOf(stmt) \o print_statement(stmt.stmt)
               \o (IF stmt.else_stmt = NULL THEN <<>>
                   ELSE T("ELSE") \o print_statement(stmt.else_stmt))
        [] stmt.stmt_type = "For" ->
             T("FOR") \o T("LP") \o print_statement(stmt.init_stmt) \o ExprOf(stmt)
               \o T("SEMI") \o print_statement(stmt.next_stmt)
               \o print_statement(stmt.stmt)
        [] stmt.stmt_type = "While" ->
             T("WHILE") \o ExprOf(stmt) \o print_statement(stmt.stmt)
        [] stmt.stmt_type = "DoWhile" ->
             T("DO") \o print_statement(stmt.stmt) \o T("WHILE") \o ExprOf(stmt)
        [] stmt.stmt_type = "Switch" ->
             T("SWITCH") \o ExprOf(stmt) \o T("LCB")
               \o FlattenSeq([i \in DOMAIN stmt.switch |-> CaseItem(stmt.switch[i])])
               \o T("RCB")
        [] stmt.stmt_type = "FuncDecl" ->
             T("FUNCTION") \o Sym(stmt.name) \o T("LP")
               \o Separated([i \in DOMAIN stmt.param |-> Param(stmt.param[i])],
                            T("COMMA"))
               \o T("RP") \o print_statement(stmt.stmt)
=============================================================================
