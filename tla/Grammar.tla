------------------------------ MODULE Grammar -------------------------------
(***************************************************************************)
(* The grammar of YMSL (grammer.yy): its rules with what their actions     *)
(* build, and the precedence of its operators.                             *)
(***************************************************************************)
EXTENDS AstMgr, Integers, FiniteSets

CONSTANTS Garbage     \* a semantic value nobody assigned

Rule(lhs, rhs, act) == [lhs |-> lhs, rhs |-> rhs, act |-> act]

-----------------------------------------------------------------------------
(* module, module_head, import, statement_list. *)
ModuleRules ==
  << Rule("module", <<"module_head", "statement_list">>, "set_root"),
     Rule("module_head", <<>>, "empty"),
     Rule("module_head", <<"module_head", "import">>, "add"),
     Rule("import", <<"IMPORT", "SYMBOL", "SEMI">>, "import"),
     Rule("import", <<"IMPORT", "SYMBOL", "AS", "SYMBOL", "SEMI">>, "import as"),
     Rule("statement_list", <<>>, "empty"),
     Rule("statement_list", <<"statement_list", "statement">>, "add") >>

StatementRules ==
  << Rule("statement", <<"single_stmt", "SEMI">>, "first"),
     Rule("statement", <<"complex_stmt">>, "first"),
     Rule("statement", <<"ENUM", "SYMBOL", "LCB", "enumconst_list", "RCB">>, "enum"),
     Rule("statement", <<"FUNCTION", "SYMBOL", "LP", "param_list", "RP", "COLON",
                         "type", "block_stmt">>, "function"),
     Rule("statement", <<"VAR", "SYMBOL", "COLON", "type", "init_expr", "SEMI">>, "var"),
     Rule("statement", <<"CONST", "SYMBOL", "COLON", "type", "EQ", "expr", "SEMI">>, "const"),
     Rule("statement", <<"SYMBOL", "COLON">>, "label"),
     Rule("statement", <<"SEMI">>, "nullstmt"),
     Rule("statement", <<"error", "SEMI">>, "yyerrok") >>

SingleRules ==
  << Rule("single_stmt", <<"primary", "EQ", "expr">>, "assign"),
     Rule("single_stmt", <<"primary", "eqop", "expr">>, "inplace"),
     Rule("single_stmt", <<"expr">>, "exprstmt"),
     Rule("single_stmt", <<"primary", "PLUSPLUS">>, "incr"),
     Rule("single_stmt", <<"primary", "MINUSMINUS">>, "decr"),
     Rule("single_stmt", <<"GOTO", "SYMBOL">>, "goto"),
     Rule("single_stmt", <<"BREAK">>, "break"),
     Rule("single_stmt", <<"CONTINUE">>, "continue"),
     Rule("single_stmt", <<"RETURN">>, "return"),
     Rule("single_stmt", <<"RETURN", "expr">>, "return expr") >>

EnumConstRules ==
  << Rule("enumconst_list", <<"SYMBOL">>, "first const"),
     Rule("enumconst_list", <<"SYMBOL", "EQ", "expr">>, "first const expr"),
     Rule("enumconst_list", <<"enumconst_list", "COMMA", "SYMBOL">>, "next const"),
     Rule("enumconst_list", <<"enumconst_list", "COMMA", "SYMBOL", "EQ", "expr">>,
          "next const expr") >>

(* The assignment operators and the opcodes of eqop. *)
EqOps ==
  << <<"EQPLUS", "Add">>, <<"EQMINUS", "Sub">>, <<"EQMULT", "Mul">>,
     <<"EQDIV", "Div">>, <<"EQMOD", "Mod">>, <<"EQLSHIFT", "Lshift">>,
     <<"EQRSHIFT", "Rshift">>, <<"EQBITAND", "BitAnd">>, <<"EQBITOR", "BitOr">>,
     <<"EQBITXOR", "BitXor">> >>

(* complex_stmt, block_stmt, else_stmt, case_list. *)
ComplexRules ==
  << Rule("complex_stmt", <<"IF", "expr", "block_stmt", "else_stmt">>, "if"),
     Rule("complex_stmt", <<"FOR", "LP", "single_stmt", "SEMI", "expr", "SEMI",
                            "single_stmt", "RP", "block_stmt">>, "for"),
     Rule("complex_stmt", <<"WHILE", "LP", "expr", "RP", "block_stmt">>, "while"),
     Rule("complex_stmt", <<"DO", "block_stmt", "WHILE", "LP", "expr", "RP">>, "do"),
     Rule("complex_stmt", <<"SWITCH", "expr", "LCB", "case_list", "RCB">>, "switch"),
     Rule("complex_stmt", <<"block_stmt">>, "first"),
     Rule("block_stmt", <<"LCB", "statement_list", "RCB">>, "block"),
     Rule("else_stmt", <<>>, "null"),
     Rule("else_stmt", <<"ELSE", "block_stmt">>, "second"),
     Rule("else_stmt", <<"ELIF", "expr", "block_stmt", "else_stmt">>, "if"),
     Rule("case_list", <<>>, "empty"),
     Rule("case_list", <<"case_list", "CASE", "expr", "COLON", "block_stmt">>, "case"),
     Rule("case_list", <<"case_list", "DEFAULT", "COLON", "block_stmt">>, "default") >>

(* param_list, param, type, init_expr. *)
DeclRules ==
  << Rule("param_list", <<>>, "empty"),
     Rule("param_list", <<"param">>, "single"),
     Rule("param_list", <<"param_list", "COMMA", "param">>, "add"),
     Rule("param", <<"SYMBOL", "COLON", "type", "init_expr">>, "param"),
     Rule("type", <<"VOID">>, "void"), Rule("type", <<"BOOLEAN">>, "boolean"),
     Rule("type", <<"INT">>, "int"), Rule("type", <<"FLOAT">>, "float"),
     Rule("type", <<"STRING">>, "string"),
     Rule("type", <<"primary">>, "named"),
     Rule("type", <<"ARRAY", "LP", "type", "RP">>, "array"),
     Rule("type", <<"SET", "LP", "type", "RP">>, "set"),
     Rule("type", <<"MAP", "LP", "type", "COMMA", "type", "RP">>, "map"),
     Rule("init_expr", <<>>, "null"),
     Rule("init_expr", <<"EQ", "expr">>, "second") >>

(* The unary and the binary operators with their opcodes; > and >= are     *)
(* turned into < and <= with swapped operands.                             *)
UnaryOps == << <<"MINUS", "UniMinus">>, <<"BITNEG", "BitNeg">>, <<"LOGNOT", "LogNot">> >>
CastOps == << <<"INT", "CastInt">>, <<"BOOLEAN", "CastBoolean">>, <<"FLOAT", "CastFloat">> >>
BinaryOps ==
  << <<"PLUS", "Add">>, <<"MINUS", "Sub">>, <<"MULT", "Mul">>, <<"DIV", "Div">>,
     <<"MOD", "Mod">>, <<"LSHIFT", "Lshift">>, <<"RSHIFT", "Rshift">>,
     <<"BITAND", "BitAnd">>, <<"BITOR", "BitOr">>, <<"BITXOR", "BitXor">>,
     <<"LOGAND", "LogAnd">>, <<"LOGOR", "LogOr">>, <<"EQEQ", "Equal">>,
     <<"NOTEQ", "NotEq">>, <<"LT", "Lt">>, <<"LE", "Le">> >>
SwappedOps == << <<"GT", "Lt">>, <<"GE", "Le">> >>

OpRules(ops, Rhs(_), act) ==
  [i \in DOMAIN ops |-> [lhs |-> "expr", rhs |-> Rhs(ops[i][1]), act |-> act,
                         opcode |-> ops[i][2]]]

ConstantRules ==
  << Rule("expr", <<"TRUE">>, "true"), Rule("expr", <<"FALSE">>, "false"),
     Rule("expr", <<"INT_VAL">>, "first"), Rule("expr", <<"FLOAT_VAL">>, "first"),
     Rule("expr", <<"STRING_VAL">>, "first"), Rule("expr", <<"primary">>, "first") >>

OperatorRules ==
  LET Prefix(t) == <<t, "expr">>
      Cast(t) == <<t, "LP", "expr", "RP">>
      Infix(t) == <<"expr", t, "expr">>
  IN  OpRules(UnaryOps, Prefix, "prefix") \o OpRules(CastOps, Cast, "cast")
        \o OpRules(BinaryOps, Infix, "infix") \o OpRules(SwappedOps, Infix, "swapped")

(* The conditional, parentheses, calls, primary and expr_list. *)
PrimaryRules ==
  << Rule("expr", <<"expr", "QST", "expr", "COLON", "expr">>, "ite"),
     Rule("expr", <<"LP", "expr", "RP">>, "second"),
     Rule("expr", <<"primary", "LP", "expr_list", "RP">>, "call"),
     Rule("primary", <<"SYMBOL">>, "symbol"),
     Rule("primary", <<"primary", "DOT", "SYMBOL">>, "member"),
     Rule("primary", <<"primary", "LBK", "expr", "RBK">>, "arrayref"),
     Rule("expr_list", <<>>, "empty"),
     Rule("expr_list", <<"expr">>, "single"),
     Rule("expr_list", <<"expr_list", "COMMA", "expr">>, "add") >>

EqOpRules ==
  [i \in DOMAIN EqOps |-> [lhs |-> "eqop", rhs |-> <<EqOps[i][1]>>, act |-> "opcode",
                           opcode |-> EqOps[i][2]]]

Rules == ModuleRules \o StatementRules \o SingleRules \o EnumConstRules
           \o EqOpRules \o ComplexRules \o DeclRules
           \o ConstantRules \o OperatorRules \o PrimaryRules
-----------------------------------------------------------------------------
(* The actions, given the values v of the symbols of the right side.  The  *)
(* names of actions are those of the rules above.                          *)
ListAction(act, v) ==
  CASE act = "empty" -> EmptyList
    [] act = "single" -> Add(EmptyList, v[1])
    [] act = "add" -> Add(v[1], v[Len(v)])
    [] act = "first const" -> Add(EmptyList, new_EnumConst(v[1], NULL))
    [] act = "first const expr" -> Add(EmptyList, new_EnumConst(v[1], v[3]))
    [] act = "next const" -> Add(v[1], new_EnumConst(v[3], NULL))
    [] act = "next const expr" -> Add(v[1], new_EnumConst(v[3], v[5]))
    [] act = "case" -> Add(v[1], new_CaseItem(v[3], v[5]))
    [] act = "default" -> Add(v[1], new_CaseItem(NULL, v[4]))
ListActions == {"empty", "single", "add", "first const", "first const expr",
                "next const", "next const expr", "case", "default"}

(* yyerrok is all the rule of the error token does: its value stays what   *)
(* bison copied from the error token, which has none.                      *)
StatementAction(act, v) ==
  CASE act = "import" -> new_Import(v[2], NULL)
    [] act = "import as" -> new_Import(v[2], v[4])
    [] act = "enum" -> new_EnumDecl(v[2], v[4])
    [] act = "function" -> new_FuncDecl(v[2], v[7], v[4], v[8])
    [] act = "var" -> new_VarDecl(v[2], v[4], v[5])
    [] act = "const" -> new_ConstDecl(v[2], v[4], v[6])
    [] act = "label" -> new_Label(v[1])
    [] act = "nullstmt" -> new_NullStmt
    [] act = "yyerrok" -> Garbage
    [] act = "set_root" -> set_root(v[1], v[2])
StatementActions == {"import", "import as", "enum", "function", "var", "const",
                     "label", "nullstmt", "yyerrok", "set_root"}

SingleAction(act, v) ==
  CASE act = "assign" -> new_Assignment(v[1], v[3])
    [] act = "inplace" -> new_InplaceOp(v[2], v[1], v[3])
    [] act = "exprstmt" -> new_ExprStmt(v[1])
    [] act = "incr" -> new_Incr(v[1])
    [] act = "decr" -> new_Decr(v[1])
    [] act = "goto" -> new_Goto(v[2])
    [] act = "break" -> new_Break
    [] act = "continue" -> new_Continue
    [] act = "return" -> new_Return(NULL)
    [] act = "return expr" -> new_Return(v[2])
SingleActions == {"assign", "inplace", "exprstmt", "incr", "decr", "goto",
                  "break", "continue", "return", "return expr"}

ComplexAction(act, v) ==
  CASE act = "if" -> new_If(v[2], v[3], v[4])
    [] act = "for" -> new_For(v[3], v[5], v[7], v[9])
    [] act = "while" -> new_While(v[3], v[5])
    [] act = "do" -> new_DoWhile(v[2], v[5])
    [] act = "switch" -> new_Switch(v[2], v[4])
    [] act = "block" -> new_BlockStmt(v[2])
    [] act = "null" -> NULL
    [] act = "first" -> v[1]
    [] act = "second" -> v[2]
ComplexActions == {"if", "for", "while", "do", "switch", "block", "null",
                   "first", "second"}

TypeAction(act, v) ==
  CASE act = "param" -> new_Param(v[1], v[3], v[4])
    [] act = "named" -> new_NamedType(v[1])
    [] act = "array" -> new_ArrayType(v[3])
    [] act = "set" -> new_SetType(v[3])
    [] act = "map" -> new_MapType(v[3], v[5])
    [] OTHER -> new_PrimType(act)
TypeActions == {"param", "named", "array", "set", "map", "void", "boolean", "int",
                "float", "string"}

ExprAction(r, v) ==
  CASE r.act = "true" -> new_TrueConst
    [] r.act = "false" -> new_FalseConst
    [] r.act = "opcode" -> r.opcode
    [] r.act = "prefix" -> new_UniOp(r.opcode, v[2])
    [] r.act = "cast" -> new_UniOp(r.opcode, v[3])
    [] r.act = "infix" -> new_BinOp(r.opcode, v[1], v[3])
    [] r.act = "swapped" -> new_BinOp(r.opcode, v[3], v[1])
    [] r.act = "ite" -> new_IteOp(v[1], v[3], v[5])
    [] r.act = "call" -> new_FuncCall(v[1], v[3])
    [] r.act = "symbol" -> new_SymbolExpr(v[1])
    [] r.act = "member" -> new_MemberRef(v[1], v[3])
    [] r.act = "arrayref" -> new_ArrayRef(v[1], v[3])

Action(r, v) ==
  CASE r.act \in ListActions -> ListAction(r.act, v)
    [] r.act \in StatementActions -> StatementAction(r.act, v)
    [] r.act \in SingleActions -> SingleAction(r.act, v)
    [] r.act \in ComplexActions -> ComplexAction(r.act, v)
    [] r.act \in TypeActions -> TypeAction(r.act, v)
    [] OTHER -> ExprAction(r, v)

-----------------------------------------------------------------------------
(* Mutant of Levels: addition binds tighter than multiplication. *)
LevelsPlusFirst ==
  << {"QST"}, {"ITE"}, {"LOGOR"}, {"LOGAND"}, {"LSHIFT", "RSHIFT"},
     {"BITOR", "BITXOR"}, {"BITAND"},
     {"EQEQ", "NOTEQ", "LT", "LE", "GT", "GE"},
     {"MULT", "DIV", "MOD"}, {"PLUS", "MINUS"}, {"LOGNOT", "BITNEG", "UOP"} >>

(* The precedence declarations, the loosest first. *)
Levels ==
  << {"QST"}, {"ITE"}, {"LOGOR"}, {"LOGAND"}, {"LSHIFT", "RSHIFT"},
     {"BITOR", "BITXOR"}, {"BITAND"},
     {"EQEQ", "NOTEQ", "LT", "LE", "GT", "GE"},
     {"PLUS", "MINUS"}, {"MULT", "DIV", "MOD"}, {"LOGNOT", "BITNEG", "UOP"} >>
Nonassoc == {1, 2, 5, 8}

(* The level of a terminal, 0 for none. *)
Level(t) == IF \E l \in DOMAIN Levels : t \in Levels[l]
            THEN CHOOSE l \in DOMAIN Levels : t \in Levels[l] ELSE 0

(* The level of a rule: %prec, or the level of its operator. *)
RuleLevel(r) ==
  CASE r.act = "ite" -> Level("ITE")
    [] r.act = "prefix" /\ r.rhs[1] = "MINUS" -> Level("UOP")
    [] r.act = "prefix" /\ r.rhs[1] # "MINUS" -> Level(r.rhs[1])
    [] r.act \in {"infix", "swapped"} -> Level(r.rhs[2])
    [] OTHER -> 0
=============================================================================
