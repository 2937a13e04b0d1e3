---------------------------- MODULE RsrvWordDic -----------------------------
(***************************************************************************)
(* RsrvWordDic: the table of the words and the signs that have a token of  *)
(* their own, searched by text and by token.  Both searches go through the *)
(* one bucket that can hold the answer: the buckets are left out.  A text  *)
(* is the sequence of its characters.                                      *)
(***************************************************************************)
EXTENDS TLC, Functions, Integers, Sequences

(* The characters of a string. *)
Chars(s) == [i \in 1 .. Len(s) |-> SubSeq(s, i, i)]

Signs ==
  (":" :> "COLON") @@ (";" :> "SEMI") @@ ("," :> "COMMA") @@ ("." :> "DOT")
  @@ ("?" :> "QST") @@ ("++" :> "PLUSPLUS") @@ ("--" :> "MINUSMINUS") @@ ("=" :> "EQ")
  @@ ("+=" :> "EQPLUS") @@ ("-=" :> "EQMINUS") @@ ("*=" :> "EQMULT") @@ ("/=" :> "EQDIV")
  @@ ("%=" :> "EQMOD") @@ ("<<=" :> "EQLSHIFT") @@ (">>=" :> "EQRSHIFT")
  @@ ("&=" :> "EQBITAND") @@ ("|=" :> "EQBITOR") @@ ("^=" :> "EQBITXOR")
  @@ ("(" :> "LP") @@ (")" :> "RP") @@ ("{" :> "LCB") @@ ("}" :> "RCB")
  @@ ("[" :> "LBK") @@ ("]" :> "RBK") @@ ("+" :> "PLUS") @@ ("-" :> "MINUS")
  @@ ("*" :> "MULT") @@ ("/" :> "DIV") @@ ("%" :> "MOD") @@ ("~" :> "BITNEG")
  @@ ("&" :> "BITAND") @@ ("|" :> "BITOR") @@ ("^" :> "BITXOR") @@ ("<<" :> "LSHIFT")
  @@ (">>" :> "RSHIFT") @@ ("==" :> "EQEQ") @@ ("!=" :> "NOTEQ") @@ ("<" :> "LT")
  @@ (">" :> "GT") @@ ("<=" :> "LE") @@ (">=" :> "GE")

Words ==
  [not |-> "LOGNOT", and |-> "LOGAND", or |-> "LOGOR", array |-> "ARRAY", as |-> "AS",
   boolean |-> "BOOLEAN", break |-> "BREAK", case |-> "CASE", const |-> "CONST",
   continue |-> "CONTINUE", default |-> "DEFAULT", do |-> "DO", elif |-> "ELIF",
   else |-> "ELSE", enum |-> "ENUM", false |-> "FALSE", float |-> "FLOAT", for |-> "FOR",
   function |-> "FUNCTION", goto |-> "GOTO", if |-> "IF", import |-> "IMPORT",
   int |-> "INT", map |-> "MAP", return |-> "RETURN", set |-> "SET", string |-> "STRING",
   switch |-> "SWITCH", true |-> "TRUE", var |-> "VAR", void |-> "VOID",
   while |-> "WHILE"]

(* The names print_token gives the tokens that have no text of their own. *)
Placeholders ==
  [_int_ |-> "INT_VAL", _dummy_ |-> "DUMMY", _error_ |-> "ERROR", _float_ |-> "FLOAT_VAL",
   _string_ |-> "STRING_VAL", _symbol_ |-> "SYMBOL"]

init_data == Signs @@ Words @@ Placeholders

Spelling == [word \in DOMAIN init_data |-> Chars(word)]

token(text) == IF text \in Range(Spelling)
               THEN init_data[CHOOSE word \in DOMAIN init_data : Spelling[word] = text]
               ELSE "SYMBOL"
str(tok) == Spelling[CHOOSE word \in DOMAIN init_data : init_data[word] = tok]
=============================================================================
