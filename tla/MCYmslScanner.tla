--------------------------- MODULE MCYmslScanner ----------------------------
(* All sources of two characters, the longer ones that numbers and comments *)
(* are made of, and a few that hold words and strings.                      *)
EXTENDS YmslScanner

MCLetters == {"a", "c", "d", "e", "f", "i", "m", "n", "o", "t", "u", "y"}
MCDigits == {"1"}
Characters == Starts \cup Blanks \cup {"d", "o", "e", "_", "1", ".", "\"", "\\", "@"}

OfLength(n, chars) == [1 .. n -> chars]
Numbers == OfLength(5, {"1", ".", "e", "-", "+"})
Comments == {<<"/", c>> \o s : c \in {"/", "*"}, s \in OfLength(4, {"/", "*", "\n", "1"})}
Strings == {<<"\"">> \o s : s \in OfLength(4, {"\"", "\\", "\n", "1"})}
Signed == {s \o <<c>> : s \in OfLength(2, {"<", ">", "=", "+", "-"}), c \in {"=", "1"}}
Reserved == {<<"c", "o", "n", "t", "i", "n", "u", "e">>, <<"d", "o", "_">>,
             <<"i", "f", " ", "a">>,
             <<"1", " ", "_", "d", "u", "m", "m", "y", "_", " ", "a">>,
             <<"_", "i", "n", "t", "_", ".">>}

MCSources == OfLength(2, Characters) \cup Numbers \cup Comments \cup Strings \cup Signed
             \cup Reserved
=============================================================================
