------------------------------ MODULE MCParser ------------------------------
(* Trees of every class, with floats of every kind of text, broken         *)
(* statements, all operator pairs, and all short texts over some tokens.   *)
EXTENDS Parser

CONSTANTS x, y, i1, s1      \* names, and the values of constants

L(seq) == [elems |-> seq]
Sx == new_SymbolExpr(x)
Sy == new_SymbolExpr(y)
I1 == new_IntConst(i1)
Two == new_BinOp("Add", Sx, Sy)
Block(stmts) == new_BlockStmt(L(stmts))
Call == new_FuncCall(Sx, L(<<I1, Sy>>))
Ite == new_IteOp(Sx, Two, new_IteOp(I1, Sx, Sy))
Assign == new_Assignment(Sx, I1)

(* 2.5, 1.25, 0.0001; 0, 1 and 300000; 1.234567 and 123456.7; 1234567.8    *)
(* and 9999996; 1e+20, 1.5e+20, 1e-05, 1.25e-05. *)
MCFloats ==
  {Num(25, -1), Num(125, -2), Num(1, -4), Num(0, 0), Num(1, 0), Num(3, 5),
   Num(1234567, -6), Num(1234567, -1), Num(12345678, -1), Num(9999996, 0),
   Num(1, 20), Num(15, 19), Num(1, -5), Num(125, -7)}

MCExprs ==
  {Sx, I1, new_StringConst(s1), new_TrueConst, new_FalseConst,
   Ite, Call, new_FuncCall(new_MemberRef(Sx, y), EmptyList),
   new_ArrayRef(new_MemberRef(Sx, y), Two), new_ArrayRef(new_ArrayRef(Sx, I1), Sy)}
    \cup {new_FloatConst(v) : v \in MCFloats}
    \cup {new_UniOp(c, Two) : c \in DOMAIN UniOpText \cup DOMAIN CastText}
    \cup {new_BinOp(o, Two, new_UniOp("UniMinus", Sy)) : o \in DOMAIN BinOpText}
    \cup {new_BinOp("Mul", new_BinOp(o, Sx, Sy), Ite) : o \in {"LogOr", "Lt", "Mul"}}

MCTypes ==
  {new_PrimType(t) : t \in {"void", "boolean", "int", "float", "string"}}
    \cup {new_ArrayType(new_SetType(new_PrimType("int"))),
          new_MapType(new_PrimType("int"), new_NamedType(new_MemberRef(Sx, y)))}

MCStmts ==
  {new_ExprStmt(e) : e \in MCExprs}
    \cup {new_VarDecl(x, t, NULL) : t \in MCTypes}
    \cup {new_VarDecl(x, new_PrimType("int"), Ite), new_Assignment(Sx, Ite),
          new_ConstDecl(y, new_NamedType(Sx), Two), new_Incr(Sx), new_Decr(Sx),
          new_EnumDecl(x, L(<<new_EnumConst(x, NULL), new_EnumConst(y, Two)>>)),
          new_EnumDecl(x, L(<<new_EnumConst(x, I1), new_EnumConst(y, NULL)>>)),
          new_Goto(x), new_Label(x), new_Break, new_Continue, new_Return(NULL),
          new_Return(Two), new_NullStmt, Block(<<>>), Block(<<Assign, Block(<<Assign>>)>>),
          new_If(Sx, Block(<<Assign>>), NULL),
          new_If(Sx, Block(<<new_If(Sy, Block(<<>>), NULL)>>), Block(<<Assign>>)),
          new_If(Sx, Block(<<>>), Block(<<new_Label(x), new_Goto(x)>>)),
          new_While(Two, Block(<<new_Break>>)), new_DoWhile(Block(<<Assign>>), Two),
          new_For(Assign, Two, new_Incr(Sx), Block(<<new_Continue>>)),
          new_While(Sx, Block(<<new_For(Assign, Sx, Assign, Block(<<>>))>>)),
          new_If(Sx, Block(<<>>), new_If(Sy, Block(<<>>), NULL)),
          new_FuncDecl(x, new_PrimType("void"), L(<<>>), Block(<<>>)),
          new_FuncDecl(x, new_PrimType("int"),
                       L(<<new_Param(x, new_PrimType("int"), NULL),
                           new_Param(y, new_PrimType("float"), Two)>>),
                       Block(<<new_Return(Sx)>>)),
          new_Switch(Sx, L(<<>>)),
          Block(<<new_Switch(Sx, L(<<new_CaseItem(I1, Block(<<new_Break>>)),
                                     new_CaseItem(NULL, Block(<<>>))>>))>>)}
    \cup {new_InplaceOp(o, Sx, Two) : o \in DOMAIN InplaceOpText}

MCTrees ==
  {set_root(EmptyList, L(<<s>>)) : s \in MCStmts}
    \cup {set_root(L(<<new_Import(x, NULL), new_Import(y, x)>>),
                   L(<<Assign, new_ExprStmt(Sx)>>)),
          set_root(EmptyList, L(<<new_Label(x), new_NullStmt, new_Goto(x)>>))}

Tok(id) == [tok |-> id,
            val |-> CASE id = "SYMBOL" -> x [] id = "INT_VAL" -> i1 [] OTHER -> NULL]
Text(ids) == [i \in DOMAIN ids |-> Tok(ids[i])]

MCBroken ==
  {Text(ids) : ids \in
     {<<"SYMBOL", "EQ", "SEMI">>, <<"SYMBOL", "SYMBOL", "INT_VAL", "SEMI">>,
      <<"GOTO", "SEMI">>, <<"IF", "SYMBOL", "SEMI">>, <<"RP", "RP", "SEMI">>,
      <<"VAR", "SYMBOL", "EQ", "INT_VAL", "SEMI">>,
      <<"SYMBOL", "LP", "INT_VAL", "COMMA", "COMMA", "RP", "SEMI">>,
      <<"SYMBOL", "LT", "SYMBOL", "LT", "SYMBOL", "SEMI">>}}

Letters == {"SYMBOL", "EQ", "LCB", "RCB", "SEMI", "INT_VAL"}
Short == UNION {[1 .. n -> Letters] : n \in 0 .. 4}
Operators == {BinaryOps[i][1] : i \in DOMAIN BinaryOps} \cup {"GT", "GE"}
Chains == {<<"SYMBOL", o1, "INT_VAL", o2, "SYMBOL", "SEMI">> : o1, o2 \in Operators}
            \cup {<<"MINUS", "SYMBOL", o, "MINUS", "SYMBOL", "SEMI">> : o \in Operators}
            \cup {<<"SYMBOL", o, "SYMBOL", "QST", "SYMBOL", "COLON", "SYMBOL", o,
                    "SYMBOL", "SEMI">> : o \in Operators}
Loops ==
  {<<"FOR", "LP", "SYMBOL", "EQ", "INT_VAL", "SEMI", "SYMBOL", "SEMI", "SYMBOL",
     "PLUSPLUS", "RP", "LCB", "CONTINUE", "SEMI", "RCB">>,
   <<"WHILE", "LP", "SYMBOL", "RP", "LCB", "BREAK", "SEMI", "RCB">>,
   <<"DO", "LCB", "RCB", "WHILE", "LP", "SYMBOL", "RP">>,
   <<"IF", "SYMBOL", "LCB", "RCB", "ELIF", "SYMBOL", "LCB", "RCB", "ELSE", "LCB", "RCB">>,
   <<"FUNCTION", "SYMBOL", "LP", "SYMBOL", "COLON", "INT", "COMMA", "SYMBOL", "COLON",
     "FLOAT", "EQ", "INT_VAL", "RP", "COLON", "VOID", "LCB", "RETURN", "SEMI", "RCB">>,
   <<"FUNCTION", "SYMBOL", "LP", "RP", "COLON", "VOID", "LCB">>}
Switch == {<<"SWITCH", "SYMBOL", "LCB", "CASE", "INT_VAL", "COLON", "LCB", "RCB",
             "DEFAULT", "COLON", "LCB", "RCB", "RCB">>}

MCTexts == {Text(ids) : ids \in Short \cup Chains \cup Loops \cup Switch}
=============================================================================
