---------------------------- MODULE YmslScanner -----------------------------
(***************************************************************************)
(* YmslScanner: the lexer.  read_token is a sequence of steps, one for     *)
(* every label of scan() reached; a state is named after its label, or     *)
(* after the sign read so far.  get, peek and accept belong to the library *)
(* class Scanner.                                                          *)
(*                                                                         *)
(* The client reads tokens until EOF and may give back, once, the token it *)
(* has just read.                                                          *)
(***************************************************************************)
EXTENDS RsrvWordDic, SequencesExt

CONSTANTS Sources, Letters, Digits

VARIABLES source, pos,     \* the input and the place of the next character
          state,           \* where scan() is, "none" outside of it
          first,           \* set_first_loc
          mCurString, mUngetToken,
          read,            \* the tokens read_token has returned
          fresh,           \* the last one was read, and not given back since
          lost             \* history: the places of given back DUMMY tokens
vars == <<source, pos, state, first, mCurString, mUngetToken, read, fresh, lost>>

EOF == "EOF"
DUMMY == [type |-> "DUMMY"]
is_symbol(c) == c \in Letters \cup {"_"}
isdigit(c) == c \in Digits

peek == IF pos <= Len(source) THEN source[pos] ELSE EOF
Forward == pos' = IF pos <= Len(source) THEN pos + 1 ELSE pos

Init ==
  /\ source \in Sources
  /\ pos = 1 /\ state = "none" /\ first = 1
  /\ mCurString = <<>> /\ mUngetToken = DUMMY
  /\ read = <<>> /\ fresh = FALSE /\ lost = {}
-----------------------------------------------------------------------------
AtEof == read # <<>> /\ Last(read).type = EOF

ReadToken ==
  /\ state = "none" /\ mUngetToken.type = "DUMMY" /\ ~ AtEof
  /\ state' = "INIT"
  /\ mCurString' = <<>>
  /\ UNCHANGED <<source, pos, first, mUngetToken, read, fresh, lost>>

ReadUngot ==
  /\ state = "none" /\ mUngetToken.type # "DUMMY"
  /\ read' = Append(read, mUngetToken)
  /\ mUngetToken' = DUMMY
  /\ UNCHANGED <<source, pos, state, first, mCurString, fresh, lost>>

(* Asserted: no token is waiting, which a client that gives back only the  *)
(* token it has just read keeps to.  What was given back counts as unread; *)
(* the token DUMMY, which stands for none, is not delivered again.         *)
unget_token ==
  /\ state = "none" /\ fresh
  /\ mUngetToken' = Last(read)
  /\ lost' = lost \cup (IF Last(read).type = "DUMMY"
                        THEN {<<Last(read).first, Last(read).end>>} ELSE {})
  /\ read' = Front(read)
  /\ fresh' = FALSE
  /\ UNCHANGED <<source, pos, state, first, mCurString>>

(* scan() returns; it has read the characters first .. end - 1. *)
Return(type, end) ==
  /\ read' = Append(read, [type |-> type, first |-> first, end |-> end,
                           text |-> mCurString])
  /\ state' = "none" /\ fresh' = TRUE
  /\ UNCHANGED <<source, first, mCurString, mUngetToken, lost>>

(* accept(), keep the characters s and go on at a label. *)
Take(s, label) ==
  /\ Forward
  /\ mCurString' = mCurString \o s
  /\ state' = label
  /\ UNCHANGED <<source, first, mUngetToken, read, fresh, lost>>

(* accept() alone. *)
Accept(label) == Take(<<>>, label)

ReturnHere(type) == Return(type, pos) /\ UNCHANGED pos
-----------------------------------------------------------------------------
Blanks == {" ", "\t", "\n"}
Starts == {":", ";", ",", "?", "+", "-", "*", "%", "!", "&", "|", "~", "^", "=", "<", ">",
           "(", ")", "{", "}", "[", "]", "/"}

Quote == "\""

(* Where ST_INIT goes with the character c. *)
AfterInit(c) ==
  CASE is_symbol(c) -> "ID"
    [] isdigit(c) -> "NUM1"
    [] c \in Blanks \cup {"\\"} -> "INIT"
    [] c = Quote -> "DQ"
    [] c \in Starts \cup {"."} -> c
    [] OTHER -> "ERROR"

(* ST_INIT: the first character of a token, or one to be skipped.  A       *)
(* backslash is dropped, with the newline that follows it.                 *)
ScanInit ==
  LET c == peek
  IN  /\ state = "INIT"
      /\ first' = pos
      /\ UNCHANGED <<source, mUngetToken, lost>>
      /\ \/ c = EOF /\ UNCHANGED <<pos, mCurString>> /\ state' = "none" /\ fresh' = TRUE
            /\ read' = Append(read, [type |-> EOF, first |-> pos, end |-> pos,
                                     text |-> mCurString])
         \/ /\ c # EOF /\ UNCHANGED <<read, fresh>>
            /\ pos' = IF c = "\\" /\ pos < Len(source) /\ source[pos + 1] = "\n"
                      THEN pos + 2 ELSE pos + 1
            /\ mCurString' = IF is_symbol(c) \/ isdigit(c) \/ c = "." THEN <<c>> ELSE mCurString
            /\ state' = AfterInit(c)

(* The signs that go on with another character, and what they become. *)
Longer ==
  {<<"+", "+", "++">>, <<"-", "-", "--">>, <<"<", "<", "<<">>, <<">", ">", ">>">>,
   <<"+", "=", "+=">>, <<"-", "=", "-=">>, <<"*", "=", "*=">>, <<"%", "=", "%=">>,
   <<"!", "=", "!=">>, <<"&", "=", "&=">>, <<"|", "=", "|=">>, <<"^", "=", "^=">>,
   <<"=", "=", "==">>, <<"<", "=", "<=">>, <<">", "=", ">=">>, <<"/", "=", "/=">>,
   <<"<<", "=", "<<=">>, <<">>", "=", ">>=">>}

(* What scan() returns for a sign; "!" alone is an error. *)
SignToken ==
  (":" :> "COLON") @@ (";" :> "SEMI") @@ ("," :> "COMMA") @@ ("?" :> "QST")
  @@ ("+" :> "PLUS") @@ ("+=" :> "EQPLUS") @@ ("++" :> "PLUSPLUS")
  @@ ("-" :> "MINUS") @@ ("-=" :> "EQMINUS") @@ ("--" :> "MINUSMINUS")
  @@ ("*" :> "MULT") @@ ("*=" :> "EQMULT") @@ ("%" :> "MOD") @@ ("%=" :> "EQMOD")
  @@ ("!" :> "ERROR") @@ ("!=" :> "NOTEQ") @@ ("&" :> "BITAND") @@ ("&=" :> "EQBITAND")
  @@ ("|" :> "BITOR") @@ ("|=" :> "EQBITOR") @@ ("~" :> "BITNEG") @@ ("^" :> "BITXOR")
  @@ ("^=" :> "EQBITXOR") @@ ("=" :> "EQ") @@ ("==" :> "EQEQ")
  @@ ("<" :> "LT") @@ ("<=" :> "LE") @@ ("<<" :> "LSHIFT") @@ ("<<=" :> "EQLSHIFT")
  @@ (">" :> "GT") @@ (">=" :> "GE") @@ (">>" :> "RSHIFT") @@ (">>=" :> "EQRSHIFT")
  @@ ("(" :> "LP") @@ (")" :> "RP") @@ ("{" :> "LCB") @@ ("}" :> "RCB")
  @@ ("[" :> "LBK") @@ ("]" :> "RBK") @@ ("/" :> "DIV") @@ ("/=" :> "EQDIV")
  @@ ("." :> "DOT") @@ ("ERROR" :> "ERROR")

(* ST_PLUS .. ST_GT, ST_DOT and ST_DIV. *)
SignLabels == Starts \cup {".", "ERROR"} \cup {t[3] : t \in Longer}
ScanSign ==
  /\ state \in SignLabels
  /\ \/ \E t \in Longer : t[1] = state /\ t[2] = peek /\ Accept(t[3])
     \/ state = "/" /\ peek = "/" /\ Accept("COMMENT2")
     \/ state = "/" /\ peek = "*" /\ Accept("COMMENT3")
     \/ state = "-" /\ isdigit(peek) /\ Take(<<"-", peek>>, "NUM1")
     \/ state = "." /\ isdigit(peek) /\ Take(<<".", peek>>, "NUM2")
     \/ /\ ~ \E t \in Longer : t[1] = state /\ t[2] = peek
        /\ ~ (state = "/" /\ peek \in {"/", "*"})
        /\ ~ (state \in {"-", "."} /\ isdigit(peek))
        /\ ReturnHere(SignToken[state])

ScanNum1 ==
  /\ state = "NUM1"
  /\ \/ isdigit(peek) /\ Take(<<peek>>, "NUM1")
     \/ peek = "." /\ Take(<<peek>>, "NUMDOT")
     \/ ~ isdigit(peek) /\ peek # "." /\ ReturnHere("INT_VAL")

ScanNumDot ==
  /\ state = "NUMDOT"
  /\ \/ isdigit(peek) /\ Take(<<peek>>, "NUM2")
     \/ ~ isdigit(peek) /\ ReturnHere("ERROR")

ScanNum2 ==
  /\ state = "NUM2"
  /\ \/ isdigit(peek) /\ Take(<<peek>>, "NUM2")
     \/ peek \in {"e", "E"} /\ Take(<<peek>>, "NUM3")
     \/ ~ isdigit(peek) /\ peek \notin {"e", "E"} /\ ReturnHere("FLOAT_VAL")

ScanNum3 ==
  /\ state = "NUM3"
  /\ \/ (isdigit(peek) \/ peek \in {"+", "-"}) /\ Take(<<peek>>, "NUM4")
     \/ ~ isdigit(peek) /\ peek \notin {"+", "-"} /\ ReturnHere("ERROR")

(* Mutant of ScanNum4: only one digit of the exponent is read. *)
ScanNum4OneDigit == state = "NUM4" /\ ReturnHere("FLOAT_VAL")
ScanNum4 ==
  /\ state = "NUM4"
  /\ \/ isdigit(peek) /\ Take(<<peek>>, "NUM4")
     \/ ~ isdigit(peek) /\ ReturnHere("FLOAT_VAL")

ScanId ==
  /\ state = "ID"
  /\ \/ (is_symbol(peek) \/ isdigit(peek)) /\ Take(<<peek>>, "ID")
     \/ ~ is_symbol(peek) /\ ~ isdigit(peek) /\ ReturnHere(token(mCurString))

(* ST_DQ: what a backslash precedes is kept as it is, with the backslash   *)
(* unless it is a newline.                                                 *)
ScanDq ==
  LET c == peek
      escaped == IF pos < Len(source) THEN source[pos + 1] ELSE EOF
  IN  /\ state = "DQ"
      /\ \/ c = Quote /\ Return("STRING_VAL", pos + 1) /\ Forward
         \/ c \in {"\n", EOF} /\ Forward /\ Return("ERROR", pos')
         \/ /\ c \notin {Quote, "\n", EOF, "\\"} /\ Take(<<c>>, "DQ")
         \/ /\ c = "\\"
            /\ pos' = IF escaped = EOF THEN pos + 1 ELSE pos + 2
            /\ mCurString' = mCurString
                               \o (IF escaped = "\n" THEN <<>> ELSE <<"\\">>) \o <<escaped>>
            /\ UNCHANGED <<source, state, first, mUngetToken, read, fresh, lost>>

(* Mutant of ScanComment2: the end of the file is not looked for. *)
ScanComment2NoEof ==
  /\ state = "COMMENT2"
  /\ Accept(IF peek = "\n" THEN "INIT" ELSE "COMMENT2")
ScanComment2 ==
  /\ state = "COMMENT2"
  /\ \/ peek = EOF /\ ReturnHere(EOF)
     \/ peek # EOF /\ Accept(IF peek = "\n" THEN "INIT" ELSE "COMMENT2")

(* Mutant of ScanComment3: a star inside of a comment closes it. *)
ScanComment3Star ==
  /\ state = "COMMENT3"
  /\ \/ peek = EOF /\ ReturnHere("ERROR")
     \/ peek # EOF /\ Accept(IF peek = "*" THEN "INIT" ELSE "COMMENT3")
ScanComment3 ==
  /\ state = "COMMENT3"
  /\ \/ peek = EOF /\ ReturnHere("ERROR")
     \/ peek # EOF /\ Accept(IF peek = "*" THEN "COMMENT4" ELSE "COMMENT3")

ScanComment4 ==
  /\ state = "COMMENT4"
  /\ \/ peek = EOF /\ ReturnHere("ERROR")
     \/ peek # EOF /\ Accept(CASE peek = "/" -> "INIT" [] peek = "*" -> "COMMENT4"
                               [] OTHER -> "COMMENT3")

Terminated == state = "none" /\ AtEof /\ UNCHANGED vars

Scan == \/ ScanInit \/ ScanSign \/ ScanNum1 \/ ScanNumDot \/ ScanNum2 \/ ScanNum3
        \/ ScanNum4 \/ ScanId \/ ScanDq \/ ScanComment2 \/ ScanComment3 \/ ScanComment4

Next == ReadToken \/ ReadUngot \/ unget_token \/ Scan \/ Terminated

(* scan() runs on, and the client reads on. *)
Spec == Init /\ [][Next]_vars /\ WF_vars(ReadToken \/ ReadUngot \/ Scan)
-----------------------------------------------------------------------------
(* A comment from i to j - 1: up to the newline, or to the first star that *)
(* a slash follows.                                                        *)
Comment(i, j) ==
  /\ i + 2 < j /\ source[i] = "/"
  /\ \/ /\ source[i + 1] = "/" /\ source[j - 1] = "\n"
        /\ \A k \in i .. j - 2 : source[k] # "\n"
     \/ /\ source[i + 1] = "*" /\ i + 3 < j
        /\ source[j - 2] = "*" /\ source[j - 1] = "/"
        /\ \A k \in i + 3 .. j - 2 : ~ (source[k - 1] = "*" /\ source[k] = "/")

(* What scan() passes over in one go, or a client has lost. *)
Skipped(i, j) ==
  \/ j = i + 1 /\ source[i] \in Blanks \cup {"\\"}
  \/ Comment(i, j)
  \/ i < j /\ <<i, j>> \in lost

(* The places i .. j - 1 are skipped from one cut to another. *)
Gap(i, j) ==
  \E cuts \in SUBSET (i .. j) :
    /\ i \in cuts /\ j \in cuts
    /\ \A k \in cuts \ {j} : \E m \in cuts : Skipped(k, m)

(* Nothing is lost and nothing is read twice: between two tokens there are *)
(* only blanks, backslashes and closed comments, whether or not tokens     *)
(* were given back on the way.  (Exception: the token DUMMY given back.)   *)
GapsBlank ==
  \A i \in DOMAIN read :
    Gap(IF i = 1 THEN 1 ELSE read[i - 1].end, read[i].first)

(* The text of the places i .. j - 1. *)
Text(i, j) == SubSeq(source, i, j - 1)

(* A sign or a reserved word is the one read: print_token, which looks the *)
(* token up in the dictionary, gives back the characters of the source.    *)
PrintsAsRead(t) ==
  t.type \in Range(Signs) \cup Range(Words) => str(t.type) = Text(t.first, t.end)

(* A token is as long as it can be.  (The word _int_, which the dictionary *)
(* has for INT_VAL, is no number.)                                         *)
LongestMatch(t) ==
  LET next == source[t.end]
  IN  t.end <= Len(source) =>
        /\ t.type \in Range(Signs) =>
             Text(t.first, t.end + 1) \notin {Spelling[sign] : sign \in DOMAIN Signs}
        /\ t.type = "INT_VAL" /\ ~ is_symbol(source[t.first]) =>
             ~ isdigit(next) /\ next # "."
        /\ t.type = "FLOAT_VAL" => ~ isdigit(next)
        /\ t.type \in Range(Words) \cup {"SYMBOL"} => ~ is_symbol(next) /\ ~ isdigit(next)

(* cur_string of a number or a symbol is the text that was read (a float   *)
(* that starts with its dot has it twice, see ScanInit and ScanSign).      *)
TextKept(t) ==
  t.type \in {"INT_VAL", "FLOAT_VAL", "SYMBOL"} /\ source[t.first] # "." =>
    t.text = Text(t.first, t.end)

(* What read_token returns is exactly what stands in the source: the       *)
(* characters of every token are its own, all of them, and no others.      *)
TokensExact ==
  \A i \in DOMAIN read :
    PrintsAsRead(read[i]) /\ LongestMatch(read[i]) /\ TextKept(read[i])

(* Letters and digits are what isalpha and isdigit say: no signs. *)
ASSUME CharactersAssumption ==
  /\ Sources \subseteq Seq(STRING)
  /\ (Letters \cup Digits) \cap (Starts \cup Blanks \cup {".", "\\", Quote, EOF}) = {}

(* What the tables above contain, without any parameter: a word has one    *)
(* token and a token one word, the label of a sign has the token of that   *)
(* sign, and a label goes on with every character that makes a longer sign.*)
ASSUME TablesAssumption ==
  /\ \A word \in DOMAIN init_data :
       /\ init_data[word] \in Range(Signs) \cup Range(Words) =>
            str(init_data[word]) = Spelling[word]
       /\ init_data[word] \in Range(Signs) => Spelling[word][1] \in Starts \cup {"."}
  /\ \A label \in SignLabels :
       /\ SignToken[label] \in Range(Signs) \cup {"ERROR"}
       /\ SignToken[label] \in Range(Signs) => str(SignToken[label]) = Chars(label)
       /\ \A sign \in DOMAIN Signs : Front(Spelling[sign]) = Chars(label) =>
            \E t \in Longer : t[1] = label /\ t[2] = Last(Spelling[sign])
  /\ SignToken["ERROR"] = "ERROR"
  /\ \A label \in Starts \cup {"."} : Chars(label) = <<label>>
  /\ \A t \in Longer : Chars(t[3]) = Append(Chars(t[1]), t[2])
  /\ Range(Signs) \cap Range(Words) = {}
  /\ (Range(Signs) \cup Range(Words)) \cap
       {"SYMBOL", "INT_VAL", "FLOAT_VAL", "STRING_VAL", "ERROR", EOF} = {}

(* Reading comes to an end, whatever the source holds. *)
ScanEnds == <>[](AtEof /\ state = "none")
=============================================================================
