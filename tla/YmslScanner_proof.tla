------------------------- MODULE YmslScanner_proof --------------------------
(***************************************************************************)
(* Proofs about YmslScanner: in every text, of any length, and however the *)
(* client gives tokens back, the lexer skips nothing but blanks,           *)
(* backslashes and closed comments, and the tokens are exactly what stands *)
(* in the text.                                                            *)
(***************************************************************************)
EXTENDS YmslScanner, SeqLemmas

(* Where the last token ended: of those returned, and of those that were   *)
(* read, one that waits to be read again included.                         *)
ReadEnd == IF read = <<>> THEN 1 ELSE Last(read).end
Ungot == mUngetToken.type # "DUMMY"
LastEnd == IF Ungot THEN mUngetToken.end ELSE ReadEnd

TokenOK(t) == /\ t.first \in Int /\ t.end \in Int
              /\ t.type # EOF => t.first < t.end

(* A character has been read since set_first_loc. *)
Inside == state \notin {"none", "INIT"}

TypeInv ==
  /\ pos \in Int /\ first \in Int
  /\ Inside => first < pos
  /\ IsSeq(read) /\ \A i \in DOMAIN read : TokenOK(read[i])
  /\ Ungot => TokenOK(mUngetToken)

(* The client gives back the one token it has just read. *)
UngetInv ==
  /\ fresh => read # <<>>
  /\ fresh \/ state # "none" => ~ Ungot

NoNewline(i, j) == \A k \in i .. j : source[k] # "\n"
NoStarSlash(i, j) == \A k \in i .. j : ~ (source[k - 1] = "*" /\ source[k] = "/")

(* What the labels of comments know of the characters read so far. *)
CommentInv ==
  /\ state = "/" => pos = first + 1 /\ source[first] = "/"
  /\ state = "COMMENT2" =>
       /\ source[first] = "/" /\ source[first + 1] = "/" /\ first + 2 <= pos
       /\ NoNewline(first, pos - 1)
  /\ state \in {"COMMENT3", "COMMENT4"} =>
       /\ source[first] = "/" /\ source[first + 1] = "*" /\ first + 2 <= pos
       /\ NoStarSlash(first + 3, pos - 1)
  /\ state = "COMMENT3" => first + 2 = pos \/ source[pos - 1] # "*"
  /\ state = "COMMENT4" => first + 3 <= pos /\ source[pos - 1] = "*"

(* All that was read since the last token is to be skipped, the token in   *)
(* progress apart; so is what precedes a token given back.                 *)
SkipInv ==
  /\ Gap(LastEnd, IF Inside THEN first ELSE pos)
  /\ Ungot => Gap(ReadEnd, mUngetToken.first)

IInv == TypeInv /\ UngetInv /\ CommentInv /\ SkipInv /\ GapsBlank

-----------------------------------------------------------------------------
(* Gaps.                                                                   *)

LEMMA GapNone ==
  ASSUME NEW i \in Int
  PROVE  Gap(i, i)
<1> DEFINE cuts == {i}
<1>1. cuts \in SUBSET (i .. i) /\ i \in cuts /\ cuts \ {i} = {}
  OBVIOUS
<1> HIDE DEF cuts
<1> QED
  BY <1>1 DEF Gap

LEMMA GapOrdered ==
  ASSUME NEW i, NEW j, Gap(i, j)
  PROVE  j \in i .. j
BY DEF Gap

(* One more thing is skipped. *)
LEMMA GapSkips ==
  ASSUME NEW i \in Int, NEW j \in Int, NEW n \in Int, Gap(i, j), Skipped(j, n), j < n
  PROVE  Gap(i, n)
<1>1. PICK cuts \in SUBSET (i .. j) :
        /\ i \in cuts /\ j \in cuts
        /\ \A k \in cuts \ {j} : \E m \in cuts : Skipped(k, m)
  BY DEF Gap
<1> DEFINE more == cuts \cup {n}
<1>2. more \in SUBSET (i .. n) /\ i \in more /\ n \in more
  BY <1>1
<1>3. ASSUME NEW k \in more \ {n}
      PROVE  \E m \in more : Skipped(k, m)
  <2>1. CASE k = j
    BY <2>1
  <2>2. CASE k # j
    BY <1>1, <2>2
  <2> QED
    BY <2>1, <2>2
<1> HIDE DEF more
<1> QED
  BY <1>2, <1>3 DEF Gap

(* A gap stays one: the source is the same and nothing lost is found. *)
LEMMA GapKept ==
  ASSUME source' = source, lost \subseteq lost'
  PROVE  \A i, j : Gap(i, j) => Gap(i, j)'
<1>1. \A i, j : Skipped(i, j) => Skipped(i, j)'
  BY DEF Skipped, Comment
<1> SUFFICES ASSUME NEW i, NEW j, Gap(i, j) PROVE Gap(i, j)'
  OBVIOUS
<1>2. PICK cuts \in SUBSET (i .. j) :
        /\ i \in cuts /\ j \in cuts
        /\ \A k \in cuts \ {j} : \E m \in cuts : Skipped(k, m)
  BY DEF Gap
<1>3. \A k \in cuts \ {j} : \E m \in cuts : Skipped(k, m)'
  BY <1>1, <1>2
<1> QED
  BY <1>2, <1>3 DEF Gap

(* A token is returned. *)
LEMMA TokenReturned ==
  ASSUME TypeInv, GapsBlank, NEW t, TokenOK(t), Gap(ReadEnd, t.first),
         read' = Append(read, t), source' = source, lost' = lost
  PROVE  /\ GapsBlank' /\ IsSeq(read)' /\ (\A i \in DOMAIN read : TokenOK(read[i]))'
         /\ read' # <<>> /\ ReadEnd' = t.end
<1> DEFINE n == Len(read)
<1>1. IsSeq(read) /\ n \in Nat /\ DOMAIN read = 1 .. n /\ (read # <<>> <=> n > 0)
  BY IsSeqFacts DEF TypeInv
<1>2. /\ IsSeq(read') /\ Len(read') = n + 1 /\ DOMAIN read' = 1 .. n + 1
      /\ \A i \in 1 .. n : read'[i] = read[i]
      /\ read'[n + 1] = t
  BY <1>1, AppendIsSeq
<1>3. read' # <<>>
  BY <1>1, <1>2, IsSeqFacts
<1> HIDE DEF n
<1>4. \A i \in DOMAIN read' : i = n + 1 \/ i \in DOMAIN read
  BY <1>1, <1>2
<1>5. \A i \in DOMAIN read' : TokenOK(read'[i])
  BY <1>1, <1>2, <1>4 DEF TypeInv
<1>6. ReadEnd' = t.end
  BY <1>2, <1>3 DEF ReadEnd, Last
<1>7. ASSUME NEW i \in DOMAIN read'
      PROVE  Gap(IF i = 1 THEN 1 ELSE read[i - 1].end, read[i].first)'
  <2>1. CASE i \in DOMAIN read
    <3>1. Gap(IF i = 1 THEN 1 ELSE read[i - 1].end, read[i].first)
      BY <2>1 DEF GapsBlank
    <3>2. i # 1 => i - 1 \in 1 .. n
      BY <1>1, <2>1
    <3> QED
      BY <1>1, <1>2, <2>1, <3>1, <3>2, GapKept
  <2>2. CASE i = n + 1
    <3>1. CASE n = 0
      BY <1>1, <1>2, <2>2, <3>1, GapKept DEF ReadEnd
    <3>2. CASE n > 0
      <4>1. ReadEnd = read[n].end
        BY <1>1, <3>2 DEF ReadEnd, Last, n
      <4>2. n \in 1 .. n /\ i # 1 /\ i - 1 = n
        BY <1>1, <2>2, <3>2
      <4>3. read'[i - 1] = read[n] /\ read'[i] = t
        BY <1>2, <2>2, <4>2
      <4> QED
        BY <4>1, <4>2, <4>3, GapKept
    <3> QED
      BY <1>1, <3>1, <3>2
  <2> QED
    BY <1>4, <2>1, <2>2
<1> QED
  BY <1>2, <1>3, <1>5, <1>6, <1>7 DEF GapsBlank

-----------------------------------------------------------------------------
(* The steps of scan().                                                    *)

LEMMA ReadEndInt ==
  ASSUME TypeInv
  PROVE  ReadEnd \in Int
<1>1. CASE read = <<>>
  BY <1>1 DEF ReadEnd
<1>2. CASE read # <<>>
  <2>1. Len(read) \in DOMAIN read
    BY <1>2, IsSeqFacts DEF TypeInv
  <2> QED
    BY <1>2, <2>1 DEF ReadEnd, Last, TypeInv, TokenOK
<1> QED
  BY <1>1, <1>2

LEMMA InsideFacts ==
  ASSUME IInv, Inside
  PROVE  /\ pos \in Int /\ first \in Int /\ first < pos /\ ~ Ungot
         /\ LastEnd = ReadEnd /\ Gap(ReadEnd, first)
BY DEF IInv, TypeInv, UngetInv, SkipInv, Inside, LastEnd

(* scan() returns the characters from first to the place it has reached. *)
LEMMA ReturnInv ==
  ASSUME IInv, Inside, NEW type, NEW end, Return(type, end), pos' = end, end \in Int,
         pos <= end
  PROVE  IInv'
<1> DEFINE t == [type |-> type, first |-> first, end |-> end, text |-> mCurString]
<1>1. /\ read' = Append(read, t) /\ state' = "none" /\ fresh' = TRUE
      /\ UNCHANGED <<source, first, mUngetToken, lost>>
  BY DEF Return
<1>2. /\ pos \in Int /\ first \in Int /\ first < pos /\ ~ Ungot /\ Gap(ReadEnd, first)
  BY InsideFacts
<1>3. t.first = first /\ t.end = end /\ TokenOK(t)
  BY <1>2 DEF TokenOK
<1> HIDE DEF t
<1>4. /\ GapsBlank' /\ IsSeq(read)' /\ (\A i \in DOMAIN read : TokenOK(read[i]))'
      /\ read' # <<>> /\ ReadEnd' = end
  BY <1>1, <1>2, <1>3, TokenReturned DEF IInv
<1>5. ~ Ungot' /\ ~ Inside'
  BY <1>1, <1>2 DEF Ungot, Inside
<1>6. TypeInv'
  BY <1>1, <1>2, <1>4, <1>5 DEF TypeInv
<1>7. UngetInv' /\ CommentInv'
  BY <1>1, <1>4, <1>5 DEF UngetInv, CommentInv
<1>8. SkipInv'
  <2>1. Gap(end, end)'
    BY <1>1, GapNone, GapKept
  <2> QED
    BY <1>4, <1>5, <2>1 DEF SkipInv, LastEnd
<1> QED
  BY <1>4, <1>6, <1>7, <1>8 DEF IInv

LEMMA ReturnHereInv ==
  ASSUME IInv, Inside, NEW type, ReturnHere(type)
  PROVE  IInv'
BY InsideFacts, ReturnInv DEF ReturnHere

(* Another character of the same token or comment. *)
LEMMA TakeInv ==
  ASSUME IInv, Inside, NEW s, NEW label, Take(s, label), label \notin {"none", "INIT"},
         CommentInv'
  PROVE  IInv'
<1>1. /\ state' = label /\ UNCHANGED <<source, first, mUngetToken, read, fresh, lost>>
      /\ pos' = pos \/ pos' = pos + 1
  BY DEF Take, Forward
<1>2. /\ pos \in Int /\ first \in Int /\ first < pos /\ ~ Ungot /\ Gap(ReadEnd, first)
  BY InsideFacts
<1>3. Inside' /\ ~ Ungot' /\ ReadEnd' = ReadEnd
  BY <1>1, <1>2 DEF Ungot, Inside, ReadEnd
<1>4. TypeInv'
  BY <1>1, <1>2, <1>3 DEF IInv, TypeInv
<1>5. UngetInv'
  BY <1>1, <1>3 DEF IInv, UngetInv
<1>6. Gap(ReadEnd, first)' /\ GapsBlank'
  BY <1>1, <1>2, <1>3, GapKept DEF IInv, GapsBlank
<1>7. SkipInv'
  BY <1>3, <1>6 DEF SkipInv, LastEnd
<1> QED
  BY <1>4, <1>5, <1>6, <1>7 DEF IInv

(* Labels that are not those of a comment say nothing of the characters. *)
Plain(label) == label \notin {"none", "INIT", "/", "COMMENT2", "COMMENT3", "COMMENT4"}

LEMMA PlainTakeInv ==
  ASSUME IInv, Inside, NEW s, NEW label, Take(s, label), Plain(label)
  PROVE  IInv'
<1>1. CommentInv'
  BY DEF Take, Plain, CommentInv
<1> QED
  BY <1>1, TakeInv DEF Plain

(* A comment is closed, and scan() starts again. *)
LEMMA ClosedInv ==
  ASSUME IInv, Inside, NEW s, Take(s, "INIT"), pos' = pos + 1, Comment(first, pos + 1)
  PROVE  IInv'
<1>1. /\ state' = "INIT" /\ UNCHANGED <<source, first, mUngetToken, read, fresh, lost>>
  BY DEF Take
<1>2. /\ pos \in Int /\ first \in Int /\ first < pos /\ ~ Ungot /\ Gap(ReadEnd, first)
  BY InsideFacts
<1>3. ~ Inside' /\ ~ Ungot' /\ ReadEnd' = ReadEnd
  BY <1>1, <1>2 DEF Ungot, Inside, ReadEnd
<1>4. TypeInv'
  BY <1>1, <1>2, <1>3 DEF IInv, TypeInv
<1>5. UngetInv' /\ CommentInv'
  BY <1>1, <1>3 DEF IInv, UngetInv, CommentInv
<1>6. GapsBlank'
  BY <1>1, GapKept DEF IInv, GapsBlank
<1>7. Gap(ReadEnd, pos + 1)
  <2>1. Skipped(first, pos + 1)
    BY DEF Skipped
  <2> QED
    BY <1>2, <2>1, GapSkips, ReadEndInt DEF IInv
<1>8. SkipInv'
  BY <1>1, <1>3, <1>7, GapKept DEF SkipInv, LastEnd
<1> QED
  BY <1>4, <1>5, <1>6, <1>8 DEF IInv

LEMMA AfterInitFacts ==
  ASSUME NEW c
  PROVE  /\ AfterInit(c) = "INIT" => c \in Blanks \cup {"\\"}
         /\ AfterInit(c) = "/" => c = "/"
         /\ AfterInit(c) \notin {"none", "COMMENT2", "COMMENT3", "COMMENT4"}
<1>1. c \in Starts \cup {"."} => c \notin {"INIT", "none", "COMMENT2", "COMMENT3", "COMMENT4"}
  BY Zenon DEF Starts
<1> QED
  BY <1>1 DEF AfterInit

(* ST_INIT begins a token, skips a blank or a backslash, or finds the end. *)
LEMMA ScanInitInv ==
  ASSUME IInv, ScanInit
  PROVE  IInv'
<1>1. /\ state = "INIT" /\ first' = pos /\ UNCHANGED <<source, mUngetToken, lost>>
  BY DEF ScanInit
<1>2. pos \in Int /\ ~ Ungot /\ ~ Ungot' /\ Gap(ReadEnd, pos) /\ ReadEnd \in Int
  BY <1>1, ReadEndInt DEF IInv, TypeInv, UngetInv, SkipInv, Inside, LastEnd, Ungot
<1>3. CASE /\ UNCHANGED pos /\ state' = "none" /\ fresh' = TRUE
           /\ read' = Append(read, [type |-> EOF, first |-> pos, end |-> pos,
                                    text |-> mCurString])
  <2> DEFINE t == [type |-> EOF, first |-> pos, end |-> pos, text |-> mCurString]
  <2>1. t.first = pos /\ t.end = pos /\ TokenOK(t) /\ read' = Append(read, t)
    BY <1>2, <1>3 DEF TokenOK
  <2> HIDE DEF t
  <2>2. /\ GapsBlank' /\ IsSeq(read)' /\ (\A i \in DOMAIN read : TokenOK(read[i]))'
        /\ read' # <<>> /\ ReadEnd' = pos
    BY <1>1, <1>2, <2>1, TokenReturned DEF IInv
  <2>3. TypeInv' /\ UngetInv' /\ CommentInv'
    BY <1>1, <1>2, <1>3, <2>2 DEF TypeInv, UngetInv, CommentInv, Inside
  <2>4. Gap(pos, pos)'
    BY <1>1, <1>2, <1>3, GapNone, GapKept
  <2>5. SkipInv'
    BY <1>2, <1>3, <2>2, <2>4 DEF SkipInv, LastEnd, Inside
  <2> QED
    BY <2>2, <2>3, <2>5 DEF IInv
<1>4. CASE peek # EOF /\ UNCHANGED <<read, fresh>>
  <2>1. /\ peek = source[pos]
        /\ pos' = IF peek = "\\" /\ pos < Len(source) /\ source[pos + 1] = "\n"
                  THEN pos + 2 ELSE pos + 1
        /\ state' = AfterInit(peek)
    BY <1>4 DEF ScanInit, peek
  <2>2. GapsBlank' /\ UngetInv' /\ ReadEnd' = ReadEnd
    BY <1>1, <1>2, <1>4, GapKept DEF IInv, GapsBlank, UngetInv, ReadEnd
  <2>3. \A i \in Int : Gap(ReadEnd, i) => Gap(ReadEnd, i)'
    BY <1>1, <2>2, GapKept
  <2>4. pos' \in Int /\ pos < pos'
    BY <1>2, <2>1
  <2>5. TypeInv'
    BY <1>1, <1>2, <1>4, <2>4 DEF IInv, TypeInv
  <2>6. CASE state' = "INIT"
    <3>1. source[pos] \in Blanks \cup {"\\"}
      BY <2>1, <2>6, AfterInitFacts
    <3>2. Gap(ReadEnd, pos + 1)
      <4>1. Skipped(pos, pos + 1)
        BY <3>1 DEF Skipped
      <4> QED
        BY <1>2, <4>1, GapSkips
    <3>3. pos' = pos + 2 => Gap(ReadEnd, pos + 2)
      <4> SUFFICES ASSUME pos' = pos + 2 PROVE Gap(ReadEnd, pos + 2)
        OBVIOUS
      <4>1. source[pos + 1] = "\n" /\ pos + 2 = (pos + 1) + 1
        BY <1>2, <2>1
      <4>2. Skipped(pos + 1, pos + 2)
        BY <4>1 DEF Skipped, Blanks
      <4> QED
        BY <1>2, <3>2, <4>2, GapSkips
    <3>4. Gap(ReadEnd, pos)'
      BY <1>2, <2>1, <2>3, <2>4, <3>2, <3>3
    <3>5. SkipInv' /\ CommentInv'
      BY <1>2, <2>6, <3>4 DEF SkipInv, CommentInv, LastEnd, Inside
    <3> QED
      BY <2>2, <2>5, <3>5 DEF IInv
  <2>7. CASE state' # "INIT"
    <3>1. /\ state' \notin {"none", "COMMENT2", "COMMENT3", "COMMENT4"}
          /\ state' = "/" => peek = "/" /\ pos' = pos + 1
      BY <2>1, <2>7, AfterInitFacts
    <3>2. CommentInv'
      BY <1>1, <2>1, <2>7, <3>1 DEF CommentInv
    <3>3. Gap(ReadEnd, first)'
      BY <1>1, <1>2, <2>3
    <3>4. SkipInv'
      BY <1>2, <2>7, <3>1, <3>3 DEF SkipInv, LastEnd, Inside
    <3> QED
      BY <2>2, <2>5, <3>2, <3>4 DEF IInv
  <2> QED
    BY <2>6, <2>7
<1> QED
  BY <1>3, <1>4 DEF ScanInit

(* The labels of signs. *)
LEMMA SignsPlain ==
  /\ \A t \in Longer : Plain(t[3])
  /\ \A l \in SignLabels : l \notin {"none", "INIT"}
<1>1. \A t \in Longer : Plain(t[3])
  BY DEF Longer, Plain
<1>2. \A l \in Starts : l \notin {"none", "INIT"}
  BY Zenon DEF Starts
<1> QED
  BY <1>1, <1>2 DEF SignLabels, Plain

LEMMA AcceptTakes ==
  ASSUME NEW label, Accept(label)
  PROVE  /\ \E s : Take(s, label)
         /\ Forward /\ state' = label
         /\ UNCHANGED <<source, first>>
BY Zenon DEF Accept, Take

LEMMA ScanSignInv ==
  ASSUME IInv, ScanSign
  PROVE  IInv'
<1>1. Inside
  BY SignsPlain DEF ScanSign, Inside
<1>2. ASSUME NEW t \in Longer, Accept(t[3])
      PROVE  IInv'
  BY <1>1, <1>2, SignsPlain, AcceptTakes, PlainTakeInv
<1>3. ASSUME NEW label \in {"COMMENT2", "COMMENT3"}, state = "/", Accept(label),
             peek = IF label = "COMMENT2" THEN "/" ELSE "*"
      PROVE  IInv'
  <2>1. /\ pos = first + 1 /\ source[first] = "/" /\ pos \in Int /\ first \in Int
    BY <1>3 DEF IInv, TypeInv, CommentInv
  <2>2. /\ peek = source[pos] /\ pos' = pos + 1 /\ UNCHANGED <<source, first>>
        /\ state' = label
    BY <1>3, AcceptTakes DEF Forward, peek, EOF
  <2>3. source[first + 1] = (IF label = "COMMENT2" THEN "/" ELSE "*") /\ pos' = first + 2
    BY <1>3, <2>1, <2>2
  <2>4. \A k \in first .. pos' - 1 : k = first \/ k = first + 1
    BY <2>1, <2>3
  <2>5. first + 3 .. pos' - 1 = {}
    BY <2>1, <2>3
  <2>6. CommentInv'
    BY <1>3, <2>1, <2>2, <2>3, <2>4, <2>5 DEF CommentInv, NoNewline, NoStarSlash
  <2> QED
    BY <1>1, <1>3, <2>6, AcceptTakes, TakeInv
<1>4. ASSUME NEW s, Take(s, "NUM1") \/ Take(s, "NUM2")
      PROVE  IInv'
  <2>1. Plain("NUM1") /\ Plain("NUM2")
    BY DEF Plain
  <2> QED
    BY <1>1, <1>4, <2>1, PlainTakeInv
<1>5. CASE ReturnHere(SignToken[state])
  BY <1>1, <1>5, ReturnHereInv
<1> QED
  BY <1>2, <1>3, <1>4, <1>5 DEF ScanSign

(* Numbers and identifiers take characters and return. *)
LEMMA WordInv ==
  ASSUME IInv, ScanNum1 \/ ScanNumDot \/ ScanNum2 \/ ScanNum3 \/ ScanNum4 \/ ScanId
  PROVE  IInv'
<1>1. Inside
  BY DEF Inside, ScanNum1, ScanNumDot, ScanNum2, ScanNum3, ScanNum4, ScanId
<1>2. \/ \E label : ReturnHere(label)
      \/ \E s, label : /\ label \in {"NUM1", "NUMDOT", "NUM2", "NUM3", "NUM4", "ID"}
                       /\ Take(s, label)
  <2>1. CASE ScanNum1
    BY <2>1 DEF ScanNum1
  <2>2. CASE ScanNumDot
    BY <2>2, Zenon DEF ScanNumDot
  <2>3. CASE ScanNum2
    BY <2>3, Zenon DEF ScanNum2
  <2>4. CASE ScanNum3
    BY <2>4, Zenon DEF ScanNum3
  <2>5. CASE ScanNum4
    BY <2>5, Zenon DEF ScanNum4
  <2>6. CASE ScanId
    BY <2>6 DEF ScanId
  <2> QED
    BY <2>1, <2>2, <2>3, <2>4, <2>5, <2>6
<1>3. \A label \in {"NUM1", "NUMDOT", "NUM2", "NUM3", "NUM4", "ID"} : Plain(label)
  BY DEF Plain
<1> QED
  BY <1>1, <1>2, <1>3, ReturnHereInv, PlainTakeInv

(* Strings: the place behind the closing quote, or behind the newline.     *)
LEMMA ScanDqInv ==
  ASSUME IInv, ScanDq
  PROVE  IInv'
<1>1. Inside /\ Plain("DQ") /\ state = "DQ"
  <2>1. state = "DQ"
    BY Zenon DEF ScanDq
  <2> QED
    BY <2>1 DEF Inside, Plain
<1>2. pos \in Int /\ first \in Int /\ first < pos
  BY <1>1, InsideFacts
<1>3. ASSUME NEW type, Return(type, pos'), Forward
      PROVE  IInv'
  <2>1. pos' \in Int /\ pos <= pos'
    BY <1>2, <1>3 DEF Forward
  <2> QED
    BY <1>1, <1>3, <2>1, ReturnInv
<1>4. CASE peek = Quote /\ Return("STRING_VAL", pos + 1) /\ Forward
  <2>1. Quote # EOF
    BY Zenon DEF Quote, EOF
  <2>2. pos' = pos + 1
    BY <1>4, <2>1 DEF Forward, peek
  <2> QED
    BY <1>1, <1>2, <1>4, <2>2, ReturnInv
<1>5. ASSUME NEW s, Take(s, "DQ")
      PROVE  IInv'
  BY <1>1, <1>5, PlainTakeInv
<1>6. CASE /\ pos' = pos + 1 \/ pos' = pos + 2
           /\ UNCHANGED <<source, state, first, mUngetToken, read, fresh, lost>>
  <2>1. ~ Ungot /\ ~ Ungot' /\ Inside' /\ Gap(ReadEnd, first) /\ ReadEnd' = ReadEnd
    BY <1>1, <1>6, InsideFacts DEF Ungot, Inside, ReadEnd
  <2>2. TypeInv' /\ UngetInv' /\ CommentInv'
    BY <1>1, <1>2, <1>6, <2>1 DEF IInv, TypeInv, UngetInv, CommentInv
  <2>3. Gap(ReadEnd, first)' /\ GapsBlank'
    BY <1>6, <2>1, GapKept DEF IInv, GapsBlank
  <2>4. SkipInv'
    BY <2>1, <2>3 DEF SkipInv, LastEnd
  <2> QED
    BY <2>2, <2>3, <2>4 DEF IInv
<1>7. \/ peek = Quote /\ Return("STRING_VAL", pos + 1) /\ Forward
      \/ Forward /\ Return("ERROR", pos')
      \/ \E s : Take(s, "DQ")
      \/ /\ pos' = pos + 1 \/ pos' = pos + 2
         /\ UNCHANGED <<source, state, first, mUngetToken, read, fresh, lost>>
  BY Zenon DEF ScanDq
<1> QED
  BY <1>3, <1>4, <1>5, <1>6, <1>7

(* Comments.                                                               *)
LEMMA CommentStep ==
  ASSUME IInv, state \in {"COMMENT2", "COMMENT3", "COMMENT4"}, peek # EOF,
         NEW label, Accept(label)
  PROVE  /\ Inside /\ pos \in Int /\ first \in Int /\ first + 2 <= pos
         /\ peek = source[pos] /\ pos' = pos + 1
         /\ state' = label /\ UNCHANGED <<source, first>>
         /\ CommentInv
BY AcceptTakes DEF IInv, TypeInv, CommentInv, Inside, peek, Forward

LEMMA ScanComment2Inv ==
  ASSUME IInv, ScanComment2
  PROVE  IInv'
<1>1. state = "COMMENT2" /\ Inside
  BY DEF ScanComment2, Inside
<1>2. CASE ReturnHere(EOF)
  BY <1>1, <1>2, ReturnHereInv
<1>3. CASE peek # EOF /\ Accept(IF peek = "\n" THEN "INIT" ELSE "COMMENT2")
  <2> DEFINE label == IF peek = "\n" THEN "INIT" ELSE "COMMENT2"
  <2>1. /\ pos \in Int /\ first \in Int /\ first + 2 <= pos
        /\ peek = source[pos] /\ pos' = pos + 1
        /\ state' = label /\ UNCHANGED <<source, first>> /\ CommentInv
    <3> HIDE DEF label
    <3>1. Accept(label)
      BY <1>3 DEF label
    <3> QED
      BY <1>1, <1>3, <3>1, CommentStep
  <2>2. /\ source[first] = "/" /\ source[first + 1] = "/"
        /\ \A k \in first .. pos - 1 : source[k] # "\n"
    BY <1>1, <2>1 DEF CommentInv, NoNewline
  <2>3. CASE peek = "\n"
    <3>1. (pos + 1) - 1 = pos /\ (pos + 1) - 2 = pos - 1 /\ first + 2 < pos + 1
      BY <2>1
    <3> DEFINE end == pos + 1
    <3> HIDE DEF end
    <3>2. Comment(first, end)
      BY <2>1, <2>2, <2>3, <3>1 DEF Comment, end
    <3>3. \E s : Take(s, "INIT")
      BY <1>3, <2>3, AcceptTakes
    <3> QED
      BY <1>1, <2>1, <3>2, <3>3, ClosedInv DEF end
  <2>4. CASE peek # "\n"
    <3>1. \A k \in first .. pos' - 1 : source[k] # "\n"
      BY <2>1, <2>2, <2>4
    <3>2. CommentInv'
      BY <2>1, <2>2, <2>4, <3>1 DEF CommentInv, NoNewline
    <3>3. \E s : Take(s, "COMMENT2")
      BY <1>3, <2>4, AcceptTakes
    <3> QED
      BY <1>1, <3>2, <3>3, TakeInv
  <2> QED
    BY <2>3, <2>4
<1> QED
  BY <1>2, <1>3 DEF ScanComment2

LEMMA ScanComment3Inv ==
  ASSUME IInv, ScanComment3
  PROVE  IInv'
<1>1. state = "COMMENT3" /\ Inside
  BY DEF ScanComment3, Inside
<1>2. CASE ReturnHere("ERROR")
  BY <1>1, <1>2, ReturnHereInv
<1>3. CASE peek # EOF /\ Accept(IF peek = "*" THEN "COMMENT4" ELSE "COMMENT3")
  <2> DEFINE label == IF peek = "*" THEN "COMMENT4" ELSE "COMMENT3"
  <2>1. label \in {"COMMENT3", "COMMENT4"} /\ (label = "COMMENT4" <=> peek = "*")
        /\ Accept(label)
    BY <1>3
  <2> HIDE DEF label
  <2>2. /\ pos \in Int /\ first \in Int /\ first + 2 <= pos
        /\ peek = source[pos] /\ pos' = pos + 1
        /\ state' = label /\ UNCHANGED <<source, first>> /\ CommentInv
    BY <1>1, <1>3, <2>1, CommentStep
  <2>3. /\ source[first] = "/" /\ source[first + 1] = "*"
        /\ \A k \in first + 3 .. pos - 1 : ~ (source[k - 1] = "*" /\ source[k] = "/")
        /\ first + 2 = pos \/ source[pos - 1] # "*"
    BY <1>1, <2>2 DEF CommentInv, NoStarSlash
  <2>4. \A k \in first + 3 .. pos' - 1 : ~ (source[k - 1] = "*" /\ source[k] = "/")
    BY <2>2, <2>3
  <2>5. pos' - 1 = pos /\ first + 3 <= pos' /\ first + 2 <= pos' /\ first + 2 # pos'
    BY <2>2
  <2>6. CommentInv'
    BY <2>1, <2>2, <2>3, <2>4, <2>5 DEF CommentInv, NoStarSlash
  <2> QED
    BY <1>1, <2>1, <2>6, AcceptTakes, TakeInv
<1> QED
  BY <1>2, <1>3 DEF ScanComment3

LEMMA ScanComment4Inv ==
  ASSUME IInv, ScanComment4
  PROVE  IInv'
<1>1. state = "COMMENT4" /\ Inside
  BY DEF ScanComment4, Inside
<1>2. CASE ReturnHere("ERROR")
  BY <1>1, <1>2, ReturnHereInv
<1>3. ASSUME peek # EOF, NEW label, Accept(label),
             label = CASE peek = "/" -> "INIT" [] peek = "*" -> "COMMENT4"
                       [] OTHER -> "COMMENT3"
      PROVE  IInv'
  <2>1. /\ pos \in Int /\ first \in Int
        /\ peek = source[pos] /\ pos' = pos + 1
        /\ state' = label /\ UNCHANGED <<source, first>> /\ CommentInv
    BY <1>1, <1>3, CommentStep
  <2>2. /\ source[first] = "/" /\ source[first + 1] = "*" /\ first + 3 <= pos
        /\ \A k \in first + 3 .. pos - 1 : ~ (source[k - 1] = "*" /\ source[k] = "/")
        /\ source[pos - 1] = "*"
    BY <1>1, <2>1 DEF CommentInv, NoStarSlash
  <2>3. CASE peek = "/"
    <3>1. (pos + 1) - 1 = pos /\ (pos + 1) - 2 = pos - 1
          /\ first + 2 < pos + 1 /\ first + 3 < pos + 1
      BY <2>1, <2>2
    <3>2. Comment(first, pos + 1)
      BY <2>1, <2>2, <2>3, <3>1 DEF Comment
    <3>3. \E s : Take(s, "INIT")
      BY <1>3, <2>3, AcceptTakes
    <3> QED
      BY <1>1, <2>1, <3>2, <3>3, ClosedInv
  <2>4. CASE peek # "/"
    <3>1. label \in {"COMMENT3", "COMMENT4"} /\ (label = "COMMENT4" <=> peek = "*")
      BY <1>3, <2>4
    <3>2. \A k \in first + 3 .. pos' - 1 : ~ (source[k - 1] = "*" /\ source[k] = "/")
      BY <2>1, <2>2, <2>4
    <3>3. pos' - 1 = pos /\ first + 3 <= pos' /\ first + 2 <= pos' /\ first + 2 # pos'
      BY <2>1, <2>2
    <3>4. CommentInv'
      BY <2>1, <2>2, <3>1, <3>2, <3>3 DEF CommentInv, NoStarSlash
    <3> QED
      BY <1>1, <1>3, <3>1, <3>4, AcceptTakes, TakeInv
  <2> QED
    BY <2>3, <2>4
<1> QED
  BY <1>2, <1>3 DEF ScanComment4

-----------------------------------------------------------------------------
(* The client.                                                             *)

LEMMA ReadTokenInv ==
  ASSUME IInv, ReadToken
  PROVE  IInv'
<1>1. /\ state = "none" /\ state' = "INIT" /\ ~ Ungot
      /\ UNCHANGED <<source, pos, first, mUngetToken, read, fresh, lost>>
  BY Zenon DEF ReadToken, Ungot
<1>2. ~ Ungot' /\ ReadEnd' = ReadEnd /\ ~ Inside /\ ~ Inside'
  BY <1>1 DEF Ungot, ReadEnd, Inside
<1>3. TypeInv' /\ UngetInv' /\ CommentInv'
  BY <1>1, <1>2 DEF IInv, TypeInv, UngetInv, CommentInv
<1>4. GapsBlank' /\ SkipInv'
  BY <1>1, <1>2, GapKept DEF IInv, GapsBlank, SkipInv, LastEnd
<1> QED
  BY <1>3, <1>4 DEF IInv

LEMMA ReadUngotInv ==
  ASSUME IInv, ReadUngot
  PROVE  IInv'
<1> DEFINE t == mUngetToken
<1>1. /\ state = "none" /\ Ungot /\ read' = Append(read, t) /\ mUngetToken' = DUMMY
      /\ UNCHANGED <<source, pos, state, first, fresh, lost>>
  BY DEF ReadUngot, Ungot
<1>2. TokenOK(t) /\ Gap(ReadEnd, t.first) /\ Gap(t.end, pos) /\ ~ fresh
  BY <1>1 DEF IInv, TypeInv, UngetInv, SkipInv, LastEnd, Inside
<1>3. /\ GapsBlank' /\ IsSeq(read)' /\ (\A i \in DOMAIN read : TokenOK(read[i]))'
      /\ read' # <<>> /\ ReadEnd' = t.end
  BY <1>1, <1>2, TokenReturned DEF IInv
<1>4. ~ Ungot' /\ ~ Inside'
  BY <1>1 DEF Ungot, DUMMY, Inside
<1>5. TypeInv' /\ UngetInv' /\ CommentInv'
  BY <1>1, <1>2, <1>3, <1>4 DEF IInv, TypeInv, UngetInv, CommentInv
<1>6. SkipInv'
  BY <1>1, <1>2, <1>3, <1>4, GapKept DEF SkipInv, LastEnd
<1> QED
  BY <1>3, <1>5, <1>6 DEF IInv

(* A DUMMY token from a to b - 1 is lost: the gaps around it become one.   *)
LEMMA GapLoses ==
  ASSUME NEW i \in Int, NEW a \in Int, NEW b \in Int, NEW j \in Int,
         Gap(i, a), Gap(b, j), a < b, source' = source, lost' = lost \cup {<<a, b>>}
  PROVE  Gap(i, j)'
<1>1. /\ \A k, m : Skipped(k, m) => Skipped(k, m)'
      /\ Skipped(a, b)'
  BY DEF Skipped, Comment
<1>2. PICK left \in SUBSET (i .. a) :
        /\ i \in left /\ a \in left
        /\ \A k \in left \ {a} : \E m \in left : Skipped(k, m)
  BY DEF Gap
<1>3. PICK right \in SUBSET (b .. j) :
        /\ b \in right /\ j \in right
        /\ \A k \in right \ {j} : \E m \in right : Skipped(k, m)
  BY DEF Gap
<1> DEFINE cuts == left \cup right
<1>4. cuts \in SUBSET (i .. j) /\ i \in cuts /\ j \in cuts
  BY <1>2, <1>3
<1>5. ASSUME NEW k \in cuts \ {j}
      PROVE  \E m \in cuts : Skipped(k, m)'
  <2>1. CASE k = a
    BY <1>1, <1>3, <2>1
  <2>2. CASE k \in left \ {a}
    BY <1>1, <1>2, <2>2
  <2>3. CASE k \in right
    BY <1>1, <1>3, <2>3
  <2> QED
    BY <2>1, <2>2, <2>3
<1> HIDE DEF cuts
<1> QED
  BY <1>4, <1>5 DEF Gap

LEMMA UngetTokenInv ==
  ASSUME IInv, unget_token
  PROVE  IInv'
<1> DEFINE n == Len(read)
           t == read[n]
<1>1. /\ state = "none" /\ fresh /\ mUngetToken' = t /\ read' = Front(read)
      /\ lost' = lost \cup (IF t.type = "DUMMY" THEN {<<t.first, t.end>>} ELSE {})
      /\ fresh' = FALSE /\ UNCHANGED <<source, pos, state, first>>
  BY DEF unget_token, Last
<1>2. read # <<>> /\ ~ Ungot /\ ~ Inside /\ ~ Inside' /\ TypeInv
  BY <1>1 DEF IInv, UngetInv, Inside
<1>3. n \in Nat \ {0} /\ DOMAIN read = 1 .. n /\ IsSeq(read) /\ n \in DOMAIN read
  BY <1>2, IsSeqFacts DEF TypeInv
<1>4. /\ IsSeq(read') /\ Len(read') = n - 1 /\ DOMAIN read' = 1 .. n - 1
      /\ \A i \in 1 .. n - 1 : read'[i] = read[i]
  <2>1. /\ IsSeq(Front(read)) /\ Len(Front(read)) = Len(read) - 1
        /\ DOMAIN Front(read) = 1 .. Len(read) - 1
        /\ \A i \in 1 .. Len(read) - 1 : Front(read)[i] = read[i]
    BY <1>2, <1>3, FrontIsSeq, Zenon
  <2> QED
    BY <1>1, <2>1
<1>5. read' # <<>> <=> n - 1 > 0
  BY <1>4, IsSeqFacts
<1>6. TokenOK(t) /\ t.first \in Int /\ t.end \in Int
  BY <1>2, <1>3 DEF TypeInv, TokenOK
<1>7. Gap(t.end, pos)
  BY <1>2 DEF IInv, SkipInv, LastEnd, ReadEnd, Last
<1> HIDE DEF n
<1>8. ReadEnd' = (IF n = 1 THEN 1 ELSE read[n - 1].end) /\ ReadEnd' \in Int
  <2>1. CASE n = 1
    BY <1>3, <1>5, <2>1 DEF ReadEnd
  <2>2. CASE n # 1
    <3>1. n - 1 \in 1 .. n - 1 /\ n - 1 \in DOMAIN read /\ n - 1 > 0
      BY <1>3, <2>2
    <3>2. ReadEnd' = read[n - 1].end
      BY <1>4, <1>5, <3>1 DEF ReadEnd, Last
    <3> QED
      BY <1>2, <2>2, <3>1, <3>2 DEF TypeInv, TokenOK
  <2> QED
    BY <2>1, <2>2
<1>9. Gap(ReadEnd', t.first)
  BY <1>3, <1>8 DEF IInv, GapsBlank
<1> HIDE DEF t
<1>10. \A i, j : Gap(i, j) => Gap(i, j)'
  BY <1>1, GapKept
<1>11. TypeInv'
  <2>1. \A i \in DOMAIN read' : TokenOK(read'[i])
    BY <1>2, <1>3, <1>4 DEF TypeInv
  <2> QED
    BY <1>1, <1>2, <1>4, <1>6, <2>1 DEF TypeInv
<1>12. UngetInv' /\ CommentInv'
  BY <1>1, <1>2 DEF UngetInv, CommentInv
<1>13. GapsBlank'
  <2> SUFFICES ASSUME NEW i \in DOMAIN read'
               PROVE  Gap(IF i = 1 THEN 1 ELSE read[i - 1].end, read[i].first)'
    BY DEF GapsBlank
  <2>1. i \in 1 .. n - 1 /\ i \in DOMAIN read /\ (i # 1 => i - 1 \in 1 .. n - 1)
    BY <1>3, <1>4
  <2>2. Gap(IF i = 1 THEN 1 ELSE read[i - 1].end, read[i].first)
    BY <2>1 DEF IInv, GapsBlank
  <2> QED
    BY <1>4, <1>10, <2>1, <2>2
<1>14. CASE t.type # "DUMMY"
  <2>1. Ungot' /\ LastEnd' = t.end
    BY <1>1, <1>14 DEF Ungot, LastEnd
  <2>2. SkipInv'
    BY <1>1, <1>2, <1>7, <1>9, <1>10, <2>1 DEF SkipInv
  <2> QED
    BY <1>11, <1>12, <1>13, <2>2 DEF IInv
<1>15. CASE t.type = "DUMMY"
  <2>1. ~ Ungot' /\ LastEnd' = ReadEnd'
    BY <1>1, <1>15 DEF Ungot, LastEnd
  <2>2. t.first < t.end
    BY <1>6, <1>15 DEF TokenOK, EOF
  <2>3. lost' = lost \cup {<<t.first, t.end>>} /\ pos \in Int
    BY <1>1, <1>2, <1>15 DEF TypeInv
  <2>4. PICK i \in Int : i = ReadEnd' /\ Gap(i, t.first)
    BY <1>8, <1>9
  <2>5. Gap(i, pos)'
    BY <1>1, <1>6, <1>7, <2>2, <2>3, <2>4, GapLoses
  <2>6. SkipInv'
    BY <1>1, <1>2, <2>1, <2>4, <2>5 DEF SkipInv
  <2> QED
    BY <1>11, <1>12, <1>13, <2>6 DEF IInv
<1> QED
  BY <1>14, <1>15

-----------------------------------------------------------------------------
LEMMA ScannerInit == Init => IInv
<1> SUFFICES ASSUME Init PROVE IInv
  OBVIOUS
<1>1. /\ pos = 1 /\ first = 1 /\ state = "none" /\ read = <<>> /\ mUngetToken = DUMMY
      /\ fresh = FALSE
  BY Zenon DEF Init
<1>2. ~ Ungot /\ ~ Inside /\ ReadEnd = 1 /\ LastEnd = 1
  BY <1>1 DEF Ungot, DUMMY, Inside, ReadEnd, LastEnd
<1>3. IsSeq(read) /\ DOMAIN read = {}
  BY <1>1, EmptyIsSeq
<1>4. TypeInv /\ UngetInv /\ CommentInv /\ GapsBlank
  BY <1>1, <1>2, <1>3 DEF TypeInv, UngetInv, CommentInv, GapsBlank
<1>5. SkipInv
  BY <1>1, <1>2, GapNone DEF SkipInv
<1> QED
  BY <1>4, <1>5 DEF IInv

LEMMA ScannerNext == IInv /\ [Next]_vars => IInv'
<1> SUFFICES ASSUME IInv, [Next]_vars PROVE IInv'
  OBVIOUS
<1>1. CASE Scan
  BY <1>1, ScanInitInv, ScanSignInv, WordInv, ScanDqInv, ScanComment2Inv,
     ScanComment3Inv, ScanComment4Inv DEF Scan
<1>2. CASE Terminated \/ UNCHANGED vars
  <2>1. UNCHANGED vars
    BY <1>2 DEF Terminated
  <2>2. /\ Ungot' = Ungot /\ Inside' = Inside /\ ReadEnd' = ReadEnd /\ LastEnd' = LastEnd
    BY <2>1 DEF vars, Ungot, Inside, ReadEnd, LastEnd
  <2>3. TypeInv' /\ UngetInv' /\ CommentInv'
    BY <2>1, <2>2 DEF vars, IInv, TypeInv, UngetInv, CommentInv, NoNewline, NoStarSlash
  <2>4. GapsBlank' /\ SkipInv'
    BY <2>1, <2>2, GapKept DEF vars, IInv, GapsBlank, SkipInv
  <2> QED
    BY <2>3, <2>4 DEF IInv
<1> QED
  BY <1>1, <1>2, ReadTokenInv, ReadUngotInv, UngetTokenInv DEF Next

(* In every text, between two tokens read_token returns there is nothing   *)
(* but blanks, backslashes, closed comments and DUMMY tokens given back:   *)
(* no label of scan() leaves a comment too early or too late, and          *)
(* unget_token neither loses a token nor delivers one twice.               *)
THEOREM GapsBlankTheorem == Spec => []GapsBlank
<1>1. IInv => GapsBlank
  BY DEF IInv
<1> QED
  BY <1>1, ScannerInit, ScannerNext, PTL DEF Spec
-----------------------------------------------------------------------------
(* What the labels know of the text in progress.                           *)

WordLabels == {"NUM1", "NUMDOT", "NUM2", "NUM3", "NUM4", "ID"}
CommentLabels == {"COMMENT2", "COMMENT3", "COMMENT4"}

(* The label of a sign is the text read; a number or a word is collected   *)
(* in mCurString, which is empty before it.                                *)
LabelInv ==
  /\ source \in Seq(STRING)
  /\ pos \in 1 .. Len(source) + 1 /\ first \in 1 .. pos
  /\ state \in SignLabels \ {"ERROR"} => Text(first, pos) = Chars(state)
  /\ state \in (SignLabels \ {"."}) \cup CommentLabels \cup {"INIT"} => mCurString = <<>>
  /\ state \in WordLabels /\ source[first] # "." => mCurString = Text(first, pos)
  /\ state = "ID" => is_symbol(source[first])

Exact(t) == PrintsAsRead(t) /\ LongestMatch(t) /\ TextKept(t)

TokensInv ==
  /\ \A i \in DOMAIN read : Exact(read[i])
  /\ Ungot => Exact(mUngetToken)

EInv == IInv /\ LabelInv /\ TokensInv

(* The text grows by the character that is taken. *)
LEMMA TextGrows ==
  ASSUME NEW s \in Seq(STRING), NEW i \in 1 .. Len(s), NEW j \in i .. Len(s)
  PROVE  /\ SubSeq(s, i, j) = Append(SubSeq(s, i, j - 1), s[j])
         /\ SubSeq(s, i, j - 1) \in Seq(STRING)
         /\ Len(SubSeq(s, i, j - 1)) = j - i
         /\ SubSeq(s, i, j) # <<>> /\ SubSeq(s, i, j)[1] = s[i]
<1>1. Len(s) \in Nat /\ i \in Nat /\ j \in Nat
  OBVIOUS
<1>2. /\ SubSeq(s, i, j - 1) \in Seq(STRING) /\ Len(SubSeq(s, i, j - 1)) = j - i
      /\ \A k \in 1 .. j - i : SubSeq(s, i, j - 1)[k] = s[i + k - 1]
  BY <1>1
<1>3. /\ SubSeq(s, i, j) \in Seq(STRING) /\ Len(SubSeq(s, i, j)) = j - i + 1
      /\ \A k \in 1 .. j - i + 1 : SubSeq(s, i, j)[k] = s[i + k - 1]
  BY <1>1
<1> DEFINE a == SubSeq(s, i, j - 1)
           b == SubSeq(s, i, j)
<1>4. s[j] \in STRING
  BY <1>1
<1> HIDE DEF a, b
<1>5. Append(a, s[j]) \in Seq(STRING) /\ Len(Append(a, s[j])) = j - i + 1
  BY <1>1, <1>2, <1>4 DEF a
<1>6. \A k \in 1 .. j - i + 1 : Append(a, s[j])[k] = b[k]
  BY <1>1, <1>2, <1>3, <1>4 DEF a, b
<1>7. b = Append(a, s[j])
  BY <1>1, <1>3, <1>5, <1>6, SeqEqual DEF b
<1>8. b # <<>> /\ b[1] = s[i]
  BY <1>1, <1>3 DEF b
<1> QED
  BY <1>2, <1>7, <1>8 DEF a, b

(* Append, for elements of any set. *)
LEMMA AppendAny ==
  ASSUME NEW S, NEW s \in Seq(S), NEW c \in S
  PROVE  /\ Append(s, c) \in Seq(S) /\ Len(Append(s, c)) = Len(s) + 1
         /\ \A k \in 1 .. Len(s) : Append(s, c)[k] = s[k]
         /\ Append(s, c)[Len(s) + 1] = c /\ Append(s, c) # <<>>
OBVIOUS

LEMMA AppendFront ==
  ASSUME NEW S, NEW s \in Seq(S), NEW c \in S
  PROVE  Front(Append(s, c)) = s /\ Last(Append(s, c)) = c
<1> DEFINE a == Append(s, c)
<1>1. /\ a \in Seq(S) /\ Len(a) = Len(s) + 1
      /\ \A k \in 1 .. Len(s) : a[k] = s[k]
      /\ a[Len(s) + 1] = c
  BY AppendAny
<1> HIDE DEF a
<1>2. Front(a) \in Seq(S) /\ Len(Front(a)) = Len(s)
      /\ \A k \in 1 .. Len(s) : Front(a)[k] = s[k]
  BY <1>1 DEF Front
<1>3. Front(a) = s
  BY <1>2, SeqEqual
<1>4. Last(a) = c
  BY <1>1 DEF Last
<1> QED
  BY <1>3, <1>4 DEF a

(* The text of a sign of two characters. *)
LEMMA AppendPair ==
  ASSUME NEW S, NEW a \in S, NEW b \in S
  PROVE  Append(<<a>>, b) = <<a, b>>
<1> DEFINE y == <<a, b>>
           x == <<a>>
<1>1. x \in Seq(S) /\ Len(x) = 1 /\ x[1] = a
  OBVIOUS
<1>2. y \in Seq(S) /\ Len(y) = 2 /\ y[1] = a /\ y[2] = b
  OBVIOUS
<1> HIDE DEF y, x
<1>3. ASSUME NEW s \in Seq(S), NEW n, n = Len(s)
      PROVE  /\ Append(s, b) \in Seq(S) /\ Len(Append(s, b)) = n + 1
             /\ \A k \in 1 .. n : Append(s, b)[k] = s[k]
             /\ Append(s, b)[n + 1] = b
  BY <1>3
<1>4. /\ Append(x, b) \in Seq(S) /\ Len(Append(x, b)) = 1 + 1
      /\ \A k \in 1 .. 1 : Append(x, b)[k] = x[k]
      /\ Append(x, b)[1 + 1] = b
  BY <1>1, <1>3, Zenon
<1>5. /\ Append(x, b) \in Seq(S) /\ Len(Append(x, b)) = 2
      /\ Append(x, b)[1] = a /\ Append(x, b)[2] = b
  BY <1>1, <1>4
<1>7. Append(x, b) = y
  BY <1>2, <1>5, SeqEqual
<1> QED
  BY <1>7 DEF x, y

LEMMA LabelsApart ==
  \A label \in SignLabels : label \notin WordLabels \cup CommentLabels \cup {"none", "INIT", "DQ"}
<1>1. \A c \in Starts : c \notin WordLabels \cup CommentLabels \cup {"none", "INIT", "DQ"}
  BY Zenon DEF Starts, WordLabels, CommentLabels
<1>2. \A t \in Longer : t[3] \notin WordLabels \cup CommentLabels \cup {"none", "INIT", "DQ"}
  BY DEF Longer, WordLabels, CommentLabels
<1>3. {".", "ERROR"} \cap (WordLabels \cup CommentLabels \cup {"none", "INIT", "DQ"}) = {}
  BY DEF WordLabels, CommentLabels
<1> QED
  BY <1>1, <1>2, <1>3 DEF SignLabels

(* The source stays, so a token that is exact remains so. *)
LEMMA ExactKept ==
  ASSUME source' = source
  PROVE  \A t : Exact(t) => Exact(t)'
BY DEF Exact, PrintsAsRead, LongestMatch, TextKept, Text

LEMMA TokensKept ==
  ASSUME TokensInv, UNCHANGED <<source, read, mUngetToken>>
  PROVE  TokensInv'
BY ExactKept DEF TokensInv, Ungot

LEMMA TokensReturned ==
  ASSUME EInv, NEW t, Exact(t), read' = Append(read, t), source' = source,
         mUngetToken' = mUngetToken \/ mUngetToken' = DUMMY
  PROVE  TokensInv'
<1>1. IsSeq(read)
  BY DEF EInv, IInv, TypeInv
<1>2. \A i \in DOMAIN read' : read'[i] = t \/ (i \in DOMAIN read /\ read'[i] = read[i])
  <2>1. /\ Len(read) \in Nat /\ DOMAIN read = 1 .. Len(read)
        /\ DOMAIN read' = 1 .. Len(read) + 1
        /\ \A i \in 1 .. Len(read) : read'[i] = read[i]
        /\ read'[Len(read) + 1] = t
    BY <1>1, AppendIsSeq, IsSeqFacts
  <2> QED
    BY <2>1
<1>3. ASSUME NEW i \in DOMAIN read'
      PROVE  Exact(read[i])'
  <2>1. Exact(read'[i])
    BY <1>2 DEF EInv, TokensInv
  <2> QED
    BY <2>1, ExactKept
<1>4. (Ungot => Exact(mUngetToken))'
  BY ExactKept DEF EInv, TokensInv, Ungot, DUMMY
<1> QED
  BY <1>3, <1>4 DEF TokensInv

(* Outside of scan() the labels say nothing. *)
LEMMA LabelNone ==
  ASSUME LabelInv, source' = source, pos' \in pos .. Len(source) + 1,
         first' \in first .. pos', state' \in {"none", "DQ"}
  PROVE  LabelInv'
BY LabelsApart DEF LabelInv, WordLabels, CommentLabels

LEMMA ReturnExact ==
  ASSUME EInv, NEW type, NEW end \in pos .. Len(source) + 1, Return(type, end), pos' = end,
         Exact([type |-> type, first |-> first, end |-> end, text |-> mCurString])
  PROVE  LabelInv' /\ TokensInv'
<1>1. TokensInv'
  BY TokensReturned DEF Return
<1>2. LabelInv'
  BY LabelNone DEF EInv, LabelInv, Return
<1> QED
  BY <1>1, <1>2

(* A token whose type is of no sign, word or value. *)
LEMMA OtherExact ==
  ASSUME NEW t, t.type \in {"STRING_VAL", "ERROR", EOF}
  PROVE  Exact(t)
<1>1. t.type \notin Range(Signs) \cup Range(Words) \cup {"SYMBOL", "INT_VAL", "FLOAT_VAL"}
  BY TablesAssumption DEF EOF
<1> QED
  BY <1>1 DEF Exact, PrintsAsRead, LongestMatch, TextKept

LEMMA ReturnOther ==
  ASSUME EInv, NEW type \in {"STRING_VAL", "ERROR", EOF}, NEW end \in pos .. Len(source) + 1,
         Return(type, end), pos' = end
  PROVE  LabelInv' /\ TokensInv'
<1> DEFINE t == [type |-> type, first |-> first, end |-> end, text |-> mCurString]
<1>1. Exact(t)
  BY OtherExact
<1> QED
  BY <1>1, ReturnExact

(* accept() of a character that is there. *)
LEMMA TakeFacts ==
  ASSUME EInv, NEW s, NEW label, Take(s, label), peek # EOF
  PROVE  /\ pos \in 1 .. Len(source) /\ peek = source[pos] /\ peek \in STRING
         /\ pos' = pos + 1 /\ first' = first /\ source' = source
         /\ Text(first, pos)' = Append(Text(first, pos), peek)
         /\ Text(first, pos) \in Seq(STRING)
         /\ mCurString' = mCurString \o s /\ state' = label
         /\ source' \in Seq(STRING) /\ pos' \in 1 .. Len(source') + 1 /\ first' \in 1 .. pos'
         /\ TokensInv'
<1>1. /\ source \in Seq(STRING) /\ pos \in 1 .. Len(source) + 1 /\ first \in 1 .. pos
  BY DEF EInv, LabelInv
<1>2. pos \in 1 .. Len(source) /\ peek = source[pos]
  BY <1>1 DEF peek
<1>3. /\ pos' = pos + 1 /\ UNCHANGED <<source, first, mUngetToken, read>>
      /\ mCurString' = mCurString \o s /\ state' = label
  BY <1>2 DEF Take, Forward
<1>4. TokensInv'
  BY <1>3, TokensKept DEF EInv
<1>5. /\ SubSeq(source, first, pos) = Append(SubSeq(source, first, pos - 1), source[pos])
      /\ SubSeq(source, first, pos - 1) \in Seq(STRING)
  BY <1>1, <1>2, TextGrows
<1>6. Text(first, pos)' = SubSeq(source, first, pos) /\ peek \in STRING
  BY <1>1, <1>2, <1>3 DEF Text
<1> QED
  BY <1>1, <1>2, <1>3, <1>4, <1>5, <1>6 DEF Text

(* Another character of a number or a word. *)
LEMMA WordTake ==
  ASSUME EInv, state \in WordLabels, NEW label \in WordLabels, Take(<<peek>>, label),
         peek # EOF, label = "ID" => state = "ID"
  PROVE  LabelInv' /\ TokensInv'
<1>1. /\ peek \in STRING /\ first' = first /\ source' = source
      /\ Text(first, pos)' = Append(Text(first, pos), peek)
      /\ Text(first, pos) \in Seq(STRING)
      /\ mCurString' = mCurString \o <<peek>> /\ state' = label
      /\ source' \in Seq(STRING) /\ pos' \in 1 .. Len(source') + 1 /\ first' \in 1 .. pos'
      /\ TokensInv'
  BY TakeFacts
<1>2. source[first] # "." => mCurString' = Text(first, pos)'
  <2> HAVE source[first] # "."
  <2>1. mCurString = Text(first, pos)
    BY DEF EInv, LabelInv
  <2> QED
    BY <1>1, <2>1
<1>3. label \notin SignLabels \cup CommentLabels \cup {"INIT"}
  BY LabelsApart DEF WordLabels, CommentLabels
<1> QED
  BY <1>1, <1>2, <1>3 DEF EInv, LabelInv, is_symbol

LEMMA NumberReturn ==
  ASSUME EInv, state \in WordLabels, NEW type \in {"INT_VAL", "FLOAT_VAL", "ERROR"},
         ReturnHere(type), type # "ERROR" => ~ isdigit(peek),
         type = "INT_VAL" => peek # "."
  PROVE  LabelInv' /\ TokensInv'
<1>1. /\ source \in Seq(STRING) /\ pos \in 1 .. Len(source) + 1 /\ first \in 1 .. pos
  BY DEF EInv, LabelInv
<1>2. Return(type, pos) /\ pos' = pos /\ pos \in pos .. Len(source) + 1
  BY <1>1 DEF ReturnHere
<1>3. CASE type = "ERROR"
  BY <1>2, <1>3, ReturnOther
<1>4. CASE type # "ERROR"
  <2> DEFINE t == [type |-> type, first |-> first, end |-> pos, text |-> mCurString]
  <2>1. type \notin Range(Signs) \cup Range(Words) \cup {"SYMBOL"}
    BY <1>4, TablesAssumption
  <2>2. PrintsAsRead(t)
    BY <2>1 DEF PrintsAsRead
  <2>3. LongestMatch(t)
    BY <1>1, <1>4, <2>1 DEF LongestMatch, peek
  <2>4. TextKept(t)
    BY DEF TextKept, EInv, LabelInv
  <2>5. Exact(t)
    BY <2>2, <2>3, <2>4 DEF Exact
  <2> QED
    BY <1>2, <2>5, ReturnExact
<1> QED
  BY <1>3, <1>4

(* No digit and no letter is EOF or the first character of a sign. *)
LEMMA CharacterFacts ==
  ASSUME NEW c, is_symbol(c) \/ isdigit(c)
  PROVE  c # EOF /\ c \notin Starts \cup Blanks \cup {".", "\\", Quote}
<1>1. "_" # EOF /\ "_" \notin Starts \cup Blanks \cup {".", "\\", Quote}
  BY Zenon DEF EOF, Starts, Blanks, Quote
<1> QED
  BY <1>1, CharactersAssumption DEF is_symbol, isdigit

LEMMA NumberExact ==
  ASSUME EInv, ScanNum1 \/ ScanNumDot \/ ScanNum2 \/ ScanNum3 \/ ScanNum4
  PROVE  LabelInv' /\ TokensInv'
<1>1. /\ state \in WordLabels
      /\ \/ \E label \in WordLabels \ {"ID"} : Take(<<peek>>, label) /\ peek # EOF
         \/ \E type \in {"INT_VAL", "FLOAT_VAL", "ERROR"} :
              /\ ReturnHere(type)
              /\ type # "ERROR" => ~ isdigit(peek)
              /\ type = "INT_VAL" => peek # "."
  <2>1. isdigit(peek) \/ peek \in {".", "e", "E", "+", "-"} => peek # EOF
    BY CharacterFacts DEF EOF
  <2>2. CASE ScanNum1
    BY <2>1, <2>2 DEF ScanNum1, WordLabels
  <2>3. CASE ScanNumDot
    BY <2>1, <2>3 DEF ScanNumDot, WordLabels
  <2>4. CASE ScanNum2
    BY <2>1, <2>4 DEF ScanNum2, WordLabels
  <2>5. CASE ScanNum3
    BY <2>1, <2>5 DEF ScanNum3, WordLabels
  <2>6. CASE ScanNum4
    BY <2>1, <2>6 DEF ScanNum4, WordLabels
  <2> QED
    BY <2>2, <2>3, <2>4, <2>5, <2>6
<1> QED
  BY <1>1, WordTake, NumberReturn

(* A word: what the dictionary has for its text, or a symbol. *)
LEMMA IdExact ==
  ASSUME EInv, ScanId
  PROVE  LabelInv' /\ TokensInv'
<1>1. /\ source \in Seq(STRING) /\ pos \in 1 .. Len(source) + 1 /\ first \in 1 .. pos
      /\ state = "ID" /\ state \in WordLabels /\ is_symbol(source[first])
  BY DEF EInv, LabelInv, ScanId, WordLabels
<1>2. CASE (is_symbol(peek) \/ isdigit(peek)) /\ Take(<<peek>>, "ID")
  <2>1. peek # EOF
    BY <1>2, CharacterFacts
  <2> QED
    BY <1>1, <1>2, <2>1, WordTake
<1>3. CASE ~ is_symbol(peek) /\ ~ isdigit(peek) /\ ReturnHere(token(mCurString))
  <2> DEFINE type == token(mCurString)
             t == [type |-> type, first |-> first, end |-> pos, text |-> mCurString]
  <2>1. source[first] # "." /\ source[first] \notin Starts
    BY <1>1, CharacterFacts
  <2>2. mCurString = Text(first, pos)
    BY <1>1, <2>1 DEF EInv, LabelInv
  <2>3. mCurString[1] = source[first]
    <3>1. first < pos
      BY <1>1 DEF EInv, IInv, TypeInv, Inside
    <3>2. first \in 1 .. Len(source) /\ pos - 1 \in first .. Len(source)
      BY <1>1, <3>1
    <3> QED
      BY <1>1, <2>2, <3>2, TextGrows DEF Text
  <2>4. \/ type = "SYMBOL"
        \/ \E word \in DOMAIN init_data : type = init_data[word] /\ Spelling[word] = mCurString
    <3>1. CASE mCurString \in Range(Spelling)
      <4>1. \E word \in DOMAIN init_data : Spelling[word] = mCurString
        BY <3>1 DEF Range, Spelling
      <4> QED
        BY <3>1, <4>1 DEF token
    <3>2. CASE mCurString \notin Range(Spelling)
      BY <3>2 DEF token
    <3> QED
      BY <3>1, <3>2
  <2>5. "SYMBOL" \notin Range(Signs) \cup Range(Words)
    BY TablesAssumption
  <2> HIDE DEF type
  <2>6. type \notin Range(Signs)
    BY <2>1, <2>3, <2>4, <2>5, TablesAssumption
  <2>7. type \in Range(Words) => str(type) = mCurString
    BY <2>4, <2>5, TablesAssumption
  <2>8. PrintsAsRead(t)
    BY <2>2, <2>6, <2>7 DEF PrintsAsRead
  <2>9. LongestMatch(t)
    <3>1. pos <= Len(source) => ~ is_symbol(source[pos]) /\ ~ isdigit(source[pos])
      BY <1>1, <1>3 DEF peek
    <3> QED
      BY <1>1, <2>6, <3>1 DEF LongestMatch
  <2>10. TextKept(t)
    BY <2>2 DEF TextKept
  <2>11. Exact(t)
    BY <2>8, <2>9, <2>10 DEF Exact
  <2>12. Return(type, pos) /\ pos' = pos /\ pos \in pos .. Len(source) + 1
    BY <1>1, <1>3 DEF ReturnHere, type
  <2> QED
    BY <2>11, <2>12, ReturnExact
<1> QED
  BY <1>2, <1>3 DEF ScanId

(* Labels before a text: nothing has been collected. *)
LEMMA AcceptExact ==
  ASSUME EInv, NEW label, Accept(label), peek # EOF,
         state \in (SignLabels \ {"."}) \cup CommentLabels,
         label \in CommentLabels \cup {"INIT"}
  PROVE  LabelInv' /\ TokensInv'
<1>1. Take(<<>>, label)
  BY DEF Accept
<1>2. /\ mCurString' = mCurString \o <<>> /\ state' = label
      /\ source' \in Seq(STRING) /\ pos' \in 1 .. Len(source') + 1 /\ first' \in 1 .. pos'
      /\ TokensInv'
  BY <1>1, TakeFacts
<1>3. mCurString' = <<>>
  BY <1>2 DEF EInv, LabelInv
<1>4. label \notin SignLabels \cup WordLabels
  BY LabelsApart DEF WordLabels, CommentLabels
<1> QED
  BY <1>2, <1>3, <1>4 DEF LabelInv, WordLabels

LEMMA CommentExact ==
  ASSUME EInv, ScanComment2 \/ ScanComment3 \/ ScanComment4
  PROVE  LabelInv' /\ TokensInv'
<1>1. /\ state \in CommentLabels
      /\ \/ ReturnHere(EOF) \/ ReturnHere("ERROR")
         \/ \E label \in CommentLabels \cup {"INIT"} : Accept(label) /\ peek # EOF
  <2>1. CASE ScanComment2
    BY <2>1 DEF ScanComment2, CommentLabels
  <2>2. CASE ScanComment3
    BY <2>2 DEF ScanComment3, CommentLabels
  <2>3. CASE ScanComment4
    BY <2>3 DEF ScanComment4, CommentLabels
  <2> QED
    BY <2>1, <2>2, <2>3
<1>2. ASSUME NEW type \in {"ERROR", EOF}, ReturnHere(type)
      PROVE  LabelInv' /\ TokensInv'
  <2>1. Return(type, pos) /\ pos' = pos /\ pos \in pos .. Len(source) + 1
    BY <1>2 DEF ReturnHere, EInv, LabelInv
  <2> QED
    BY <2>1, ReturnOther
<1> QED
  BY <1>1, <1>2, AcceptExact

(* Signs. *)
LEMMA SignReturn ==
  ASSUME EInv, state \in SignLabels, ReturnHere(SignToken[state]),
         ~ \E t \in Longer : t[1] = state /\ t[2] = peek
  PROVE  LabelInv' /\ TokensInv'
<1> DEFINE type == SignToken[state]
           t == [type |-> type, first |-> first, end |-> pos, text |-> mCurString]
<1>1. /\ source \in Seq(STRING) /\ pos \in 1 .. Len(source) + 1 /\ first \in 1 .. pos
  BY DEF EInv, LabelInv
<1>2. Return(type, pos) /\ pos' = pos /\ pos \in pos .. Len(source) + 1
  BY <1>1 DEF ReturnHere
<1>3. type \in Range(Signs) \cup {"ERROR"}
  BY TablesAssumption
<1>4. CASE type = "ERROR"
  BY <1>2, <1>4, ReturnOther
<1>5. CASE type # "ERROR"
  <2>1. state # "ERROR" /\ Text(first, pos) = Chars(state)
    BY <1>5, TablesAssumption DEF EInv, LabelInv
  <2>2. str(type) = Chars(state)
    BY <1>3, <1>5, TablesAssumption
  <2>3. type \notin Range(Words) \cup {"SYMBOL", "INT_VAL", "FLOAT_VAL"}
    BY <1>3, <1>5, TablesAssumption
  <2> HIDE DEF type
  <2>4. PrintsAsRead(t) /\ TextKept(t)
    BY <2>1, <2>2, <2>3 DEF PrintsAsRead, TextKept
  <2>5. ASSUME pos <= Len(source), NEW sign \in DOMAIN Signs,
               Text(first, pos + 1) = Spelling[sign]
        PROVE  FALSE
    <3>1. peek = source[pos] /\ pos \in first .. Len(source) /\ first \in 1 .. Len(source)
      BY <1>1, <2>5 DEF peek
    <3>2. Text(first, pos + 1) = Append(Chars(state), peek) /\ Chars(state) \in Seq(STRING)
          /\ peek \in STRING
      <4>1. Text(first, pos + 1) = SubSeq(source, first, pos)
        BY <1>1 DEF Text
      <4>2. /\ SubSeq(source, first, pos) = Append(SubSeq(source, first, pos - 1), source[pos])
            /\ SubSeq(source, first, pos - 1) \in Seq(STRING)
        BY <1>1, <3>1, TextGrows
      <4>3. SubSeq(source, first, pos - 1) = Chars(state)
        BY <2>1 DEF Text
      <4>4. source[pos] \in STRING
        BY <1>1, <3>1
      <4> QED
        BY <3>1, <4>1, <4>2, <4>3, <4>4
    <3>3. Front(Spelling[sign]) = Chars(state) /\ Last(Spelling[sign]) = peek
      BY <2>5, <3>2, AppendFront
    <3> QED
      BY <3>3, TablesAssumption
  <2>6. LongestMatch(t)
    BY <2>3, <2>5 DEF LongestMatch
  <2> QED
    BY <1>2, <2>4, <2>6, ReturnExact DEF Exact
<1> QED
  BY <1>4, <1>5

LEMMA LongerFacts ==
  \A t \in Longer : t[1] # "." /\ t[1] # "ERROR" /\ t[2] # EOF /\ t[3] \in SignLabels
                    /\ t[3] # "." /\ t[3] # "ERROR"
<1>1. \A t \in Longer : t[1] # "." /\ t[1] # "ERROR" /\ t[2] # EOF
                        /\ t[3] # "." /\ t[3] # "ERROR"
  BY DEF Longer, EOF
<1> QED
  BY <1>1 DEF SignLabels

LEMMA SignExact ==
  ASSUME EInv, ScanSign
  PROVE  LabelInv' /\ TokensInv'
<1>1. state \in SignLabels
  BY DEF ScanSign
<1>2. ASSUME NEW t \in Longer, t[1] = state, t[2] = peek, Accept(t[3])
      PROVE  LabelInv' /\ TokensInv'
  <2>1. peek # EOF /\ state # "." /\ state # "ERROR" /\ t[3] \in SignLabels
        /\ t[3] # "." /\ t[3] # "ERROR"
    BY <1>2, LongerFacts
  <2>2. /\ mCurString' = mCurString \o <<>> /\ state' = t[3]
        /\ Text(first, pos)' = Append(Text(first, pos), peek)
        /\ source' \in Seq(STRING) /\ pos' \in 1 .. Len(source') + 1 /\ first' \in 1 .. pos'
        /\ TokensInv'
    BY <1>2, <2>1, TakeFacts DEF Accept
  <2>3. mCurString' = <<>>
    BY <1>1, <2>1, <2>2 DEF EInv, LabelInv
  <2>4. Text(first, pos)' = Chars(t[3])
    BY <1>1, <1>2, <2>1, <2>2, TablesAssumption DEF EInv, LabelInv
  <2>5. t[3] \notin WordLabels
    BY <2>1, LabelsApart
  <2> QED
    BY <2>1, <2>2, <2>3, <2>4, <2>5 DEF LabelInv, WordLabels
<1>3. ASSUME state = "/", NEW label \in {"COMMENT2", "COMMENT3"}, Accept(label), peek # EOF
      PROVE  LabelInv' /\ TokensInv'
  BY <1>1, <1>3, AcceptExact DEF CommentLabels
<1>4. ASSUME NEW sign \in {"-", "."}, state = sign, isdigit(peek),
             Take(<<sign, peek>>, IF sign = "-" THEN "NUM1" ELSE "NUM2")
      PROVE  LabelInv' /\ TokensInv'
  <2> DEFINE label == IF sign = "-" THEN "NUM1" ELSE "NUM2"
  <2>1. peek # EOF
    BY <1>4, CharacterFacts
  <2>2. label \in WordLabels /\ label # "ID"
    BY DEF WordLabels
  <2> HIDE DEF label
  <2>3. /\ mCurString' = mCurString \o <<sign, peek>> /\ state' = label
        /\ first' = first /\ source' = source /\ peek \in STRING
        /\ Text(first, pos)' = Append(Text(first, pos), peek)
        /\ source' \in Seq(STRING) /\ pos' \in 1 .. Len(source') + 1 /\ first' \in 1 .. pos'
        /\ TokensInv'
    BY <1>4, <2>1, TakeFacts DEF label
  <2>4. Text(first, pos) = <<sign>>
    <3>1. Chars("-") = <<"-">> /\ Chars(".") = <<".">>
      BY TablesAssumption DEF Starts
    <3> QED
      BY <1>1, <1>4, <3>1 DEF EInv, LabelInv
  <2>5. source[first] = sign
    <3>1. /\ source \in Seq(STRING) /\ pos \in 1 .. Len(source) + 1 /\ first \in 1 .. pos
          /\ first < pos
      BY <1>1, LabelsApart DEF EInv, LabelInv, IInv, TypeInv, Inside
    <3>2. first \in 1 .. Len(source) /\ pos - 1 \in first .. Len(source)
      BY <3>1
    <3>3. Text(first, pos)[1] = source[first]
      BY <3>1, <3>2, TextGrows DEF Text
    <3> QED
      BY <2>4, <3>3
  <2>6. source'[first'] # "." => mCurString' = Text(first, pos)'
    <3> HAVE source'[first'] # "."
    <3>1. sign = "-" /\ mCurString = <<>>
      BY <1>1, <1>4, <2>3, <2>5 DEF EInv, LabelInv
    <3>2. mCurString' = <<sign, peek>>
      BY <2>3, <3>1
    <3>3. Text(first, pos)' = <<sign, peek>>
      <4>1. "-" \in {"-", peek} /\ peek \in {"-", peek}
        BY Zenon
      <4>2. Append(<<"-">>, peek) = <<"-", peek>>
        BY <4>1, AppendPair, Zenon
      <4> QED
        BY <2>3, <2>4, <3>1, <4>2, Zenon
    <3> QED
      BY <3>2, <3>3
  <2>7. label \notin SignLabels \cup CommentLabels \cup {"INIT"}
    BY <2>2, LabelsApart DEF WordLabels, CommentLabels
  <2> QED
    BY <2>2, <2>3, <2>6, <2>7 DEF LabelInv
<1>5. ASSUME ~ \E t \in Longer : t[1] = state /\ t[2] = peek, ReturnHere(SignToken[state])
      PROVE  LabelInv' /\ TokensInv'
  BY <1>1, <1>5, SignReturn
<1>6. {"/", "*"} \cap {EOF} = {}
  BY DEF EOF
<1> QED
  BY <1>2, <1>3, <1>4, <1>5, <1>6 DEF ScanSign

(* One character. *)
LEMMA SingleText ==
  ASSUME NEW S, NEW s \in Seq(S), NEW i \in 1 .. Len(s)
  PROVE  SubSeq(s, i, i) = <<s[i]>>
<1> DEFINE a == SubSeq(s, i, i)
           b == <<s[i]>>
<1>1. s[i] \in S
  OBVIOUS
<1>2. a \in Seq(S) /\ Len(a) = 1 /\ a[1] = s[i]
  OBVIOUS
<1>3. b \in Seq(S) /\ Len(b) = 1 /\ b[1] = s[i]
  BY <1>1
<1> HIDE DEF a, b
<1>4. a = b
  BY <1>2, <1>3, SeqEqual
<1> QED
  BY <1>4 DEF a, b

(* ST_INIT: the first character is all that has been read. *)
LEMMA InitExact ==
  ASSUME EInv, ScanInit
  PROVE  LabelInv' /\ TokensInv'
<1>1. /\ source \in Seq(STRING) /\ pos \in 1 .. Len(source) + 1 /\ first \in 1 .. pos
      /\ state = "INIT" /\ mCurString = <<>>
      /\ source' = source /\ first' = pos /\ mUngetToken' = mUngetToken
  BY DEF EInv, LabelInv, ScanInit
<1>2. CASE peek = EOF
  <2> DEFINE t == [type |-> EOF, first |-> pos, end |-> pos, text |-> mCurString]
  <2>1. pos' = pos /\ state' = "none" /\ read' = Append(read, t)
    BY <1>2 DEF ScanInit
  <2>2. Exact(t)
    BY OtherExact
  <2> HIDE DEF t
  <2>3. TokensInv'
    BY <1>1, <2>1, <2>2, TokensReturned
  <2>4. LabelInv'
    BY <1>1, <2>1, LabelNone DEF EInv
  <2> QED
    BY <2>3, <2>4
<1>3. CASE peek # EOF
  <2> DEFINE c == source[pos]
  <2>1. pos \in 1 .. Len(source) /\ peek = c
    BY <1>1, <1>3 DEF peek
  <2>2. /\ pos' = IF c = "\\" /\ pos < Len(source) /\ source[pos + 1] = "\n"
                  THEN pos + 2 ELSE pos + 1
        /\ mCurString' = IF is_symbol(c) \/ isdigit(c) \/ c = "." THEN <<c>> ELSE mCurString
        /\ state' = AfterInit(c) /\ read' = read
    BY <1>3, <2>1 DEF ScanInit
  <2> HIDE DEF c
  <2>3. TokensInv'
    BY <1>1, <2>2, TokensKept DEF EInv
  <2>4. source' \in Seq(STRING) /\ pos' \in 1 .. Len(source') + 1 /\ first' \in 1 .. pos'
    BY <1>1, <2>1, <2>2
  <2>5. c # "\\" => Text(first, pos)' = <<c>>
    <3> HAVE c # "\\"
    <3>1. pos' = pos + 1
      BY <2>2
    <3>2. Text(first, pos)' = SubSeq(source, pos, pos)
      BY <1>1, <3>1 DEF Text
    <3> QED
      BY <1>1, <2>1, <3>2, SingleText DEF c
  <2>6. CASE is_symbol(c) \/ isdigit(c)
    <3>1. c \notin Starts \cup Blanks \cup {".", "\\", Quote}
      BY <2>6, CharacterFacts
    <3>2. /\ state' \in {"ID", "NUM1"}
          /\ state' = "ID" => is_symbol(c)
      BY <2>2, <2>6, <3>1 DEF AfterInit
    <3>3. mCurString' = Text(first, pos)'
      BY <2>2, <2>5, <2>6, <3>1
    <3>4. state' \notin SignLabels \cup CommentLabels \cup {"INIT"}
      BY <3>2, LabelsApart DEF WordLabels, CommentLabels
    <3>5. (is_symbol(source[first]))' <=> is_symbol(c)
      BY <1>1 DEF is_symbol, c
    <3> QED
      BY <2>3, <2>4, <3>2, <3>3, <3>4, <3>5 DEF LabelInv
  <2>7. CASE ~ is_symbol(c) /\ ~ isdigit(c) /\ c \in Blanks \cup {"\\"}
    <3>1. state' = "INIT"
      <4>1. c \notin Starts \cup {".", Quote}
        BY <2>7, Zenon DEF Blanks, Quote, Starts
      <4> QED
        BY <2>2, <2>7, <4>1 DEF AfterInit
    <3>2. c # "."
      BY <2>7 DEF Blanks
    <3>3. mCurString' = <<>>
      BY <1>1, <2>2, <2>7, <3>2
    <3>4. "INIT" \notin SignLabels \cup WordLabels
      BY LabelsApart DEF WordLabels
    <3> QED
      BY <2>3, <2>4, <3>1, <3>3, <3>4 DEF LabelInv, WordLabels
  <2>8. CASE ~ is_symbol(c) /\ ~ isdigit(c) /\ c = Quote
    <3>1. c \notin Blanks \cup {"\\"} \cup Starts \cup {"."}
      BY <2>8, Zenon DEF Blanks, Quote, Starts
    <3>2. state' = "DQ"
      BY <2>2, <2>8, <3>1 DEF AfterInit
    <3>3. "DQ" \notin SignLabels \cup WordLabels \cup CommentLabels \cup {"INIT"}
      BY LabelsApart DEF WordLabels, CommentLabels
    <3> QED
      BY <2>3, <2>4, <3>2, <3>3 DEF LabelInv, WordLabels
  <2>9. CASE ~ is_symbol(c) /\ ~ isdigit(c) /\ c \in Starts \cup {"."}
    <3>1. c \notin Blanks \cup {"\\", Quote}
      BY <2>9, Zenon DEF Blanks, Quote, Starts
    <3>2. state' = c
      BY <2>2, <2>9, <3>1 DEF AfterInit
    <3>3. c \in SignLabels /\ c \notin WordLabels
      BY <2>9, LabelsApart DEF SignLabels
    <3>4. Text(first, pos)' = Chars(c)
      BY <2>5, <2>9, <3>1, TablesAssumption
    <3>5. c # "." => mCurString' = <<>>
      BY <1>1, <2>2, <2>9
    <3>6. c \notin CommentLabels \cup {"INIT"}
      BY <3>3, LabelsApart
    <3> QED
      BY <2>3, <2>4, <3>2, <3>3, <3>4, <3>5, <3>6 DEF LabelInv, WordLabels
  <2>10. CASE /\ ~ is_symbol(c) /\ ~ isdigit(c)
              /\ c \notin Blanks \cup {"\\", Quote} \cup Starts \cup {"."}
    <3>1. state' = "ERROR"
      BY <2>2, <2>10 DEF AfterInit
    <3>2. mCurString' = <<>>
      BY <1>1, <2>2, <2>10
    <3>3. "ERROR" \notin WordLabels
      BY DEF WordLabels
    <3> QED
      BY <2>3, <2>4, <3>1, <3>2, <3>3 DEF LabelInv, WordLabels
  <2> QED
    BY <2>6, <2>7, <2>8, <2>9, <2>10
<1> QED
  BY <1>2, <1>3

(* ST_DQ: a string is not compared with its text. *)
LEMMA DqExact ==
  ASSUME EInv, ScanDq
  PROVE  LabelInv' /\ TokensInv'
<1>1. /\ source \in Seq(STRING) /\ pos \in 1 .. Len(source) + 1 /\ first \in 1 .. pos
      /\ state = "DQ"
  BY DEF EInv, LabelInv, ScanDq
<1>2. CASE peek = Quote /\ Return("STRING_VAL", pos + 1) /\ Forward
  <2>1. pos \in 1 .. Len(source)
    <3>1. Quote # EOF
      BY DEF Quote, EOF
    <3> QED
      BY <1>1, <1>2, <3>1 DEF peek
  <2>2. pos' = pos + 1 /\ pos + 1 \in pos .. Len(source) + 1
    BY <1>2, <2>1 DEF Forward
  <2> QED
    BY <1>2, <2>2, ReturnOther
<1>3. CASE Forward /\ Return("ERROR", pos')
  <2>1. pos' \in pos .. Len(source) + 1
    BY <1>1, <1>3 DEF Forward
  <2> DEFINE end == pos'
  <2>2. Return("ERROR", end) /\ end \in pos .. Len(source) + 1 /\ pos' = end
    BY <1>3, <2>1
  <2> HIDE DEF end
  <2> QED
    BY <2>2, ReturnOther
<1>4. CASE peek \notin {Quote, "\n", EOF, "\\"} /\ Take(<<peek>>, "DQ")
  <2>1. /\ source' = source /\ state' = "DQ" /\ first' = first
        /\ pos' = pos + 1 /\ pos \in 1 .. Len(source) /\ TokensInv'
    BY <1>4, TakeFacts
  <2>2. pos' \in pos .. Len(source) + 1 /\ first' \in first .. pos'
    BY <1>1, <2>1
  <2> QED
    BY <2>1, <2>2, LabelNone DEF EInv
<1>5. CASE /\ peek = "\\"
           /\ pos' = IF (IF pos < Len(source) THEN source[pos + 1] ELSE EOF) = EOF
                     THEN pos + 1 ELSE pos + 2
           /\ UNCHANGED <<source, state, first, mUngetToken, read, fresh, lost>>
  <2>1. pos \in 1 .. Len(source)
    BY <1>1, <1>5 DEF peek, EOF
  <2>2. pos' \in pos .. Len(source) + 1 /\ first' \in first .. pos'
    BY <1>1, <1>5, <2>1
  <2>3. TokensInv'
    BY <1>5, TokensKept DEF EInv
  <2> QED
    BY <1>1, <1>5, <2>2, <2>3, LabelNone DEF EInv
<1> QED
  BY <1>2, <1>3, <1>4, <1>5 DEF ScanDq

(* The client: it reads on, or gives the last token back. *)
LEMMA ClientExact ==
  ASSUME EInv, ReadToken \/ ReadUngot \/ unget_token
  PROVE  LabelInv' /\ TokensInv'
<1>1. /\ source \in Seq(STRING) /\ pos \in 1 .. Len(source) + 1 /\ first \in 1 .. pos
  BY DEF EInv, LabelInv
<1>2. /\ source' = source /\ pos' = pos /\ first' = first
      /\ source' \in Seq(STRING) /\ pos' \in 1 .. Len(source') + 1 /\ first' \in 1 .. pos'
  BY <1>1 DEF ReadToken, ReadUngot, unget_token
<1>3. CASE ReadToken
  <2>1. state' = "INIT" /\ mCurString' = <<>> /\ read' = read /\ mUngetToken' = mUngetToken
    BY <1>3 DEF ReadToken
  <2>2. "INIT" \notin SignLabels \cup WordLabels
    BY LabelsApart DEF WordLabels
  <2>3. LabelInv'
    BY <1>2, <2>1, <2>2 DEF LabelInv, WordLabels
  <2> QED
    BY <1>2, <2>1, <2>3, TokensKept DEF EInv
<1>4. ASSUME state = "none" /\ state' = state
      PROVE  LabelInv'
  BY <1>1, <1>2, <1>4, LabelNone DEF EInv
<1>5. CASE ReadUngot
  <2>1. /\ read' = Append(read, mUngetToken) /\ mUngetToken' = DUMMY
        /\ state = "none" /\ state' = state /\ Ungot
    BY <1>5 DEF ReadUngot, Ungot
  <2>2. Exact(mUngetToken)
    BY <2>1 DEF EInv, TokensInv
  <2> QED
    BY <1>2, <1>4, <2>1, <2>2, TokensReturned
<1>6. CASE unget_token
  <2>1. /\ read' = Front(read) /\ mUngetToken' = Last(read)
        /\ state = "none" /\ state' = state /\ fresh
    BY <1>6 DEF unget_token
  <2>2. IsSeq(read) /\ read # <<>>
    BY <2>1 DEF EInv, IInv, TypeInv, UngetInv
  <2>3. Exact(Last(read))
    <3>1. Len(read) \in DOMAIN read
      BY <2>2, IsSeqFacts
    <3> QED
      BY <3>1 DEF Last, EInv, TokensInv
  <2>4. ASSUME NEW i \in DOMAIN read'
        PROVE  Exact(read[i])'
    <3>1. i \in DOMAIN read /\ read'[i] = read[i]
      <4>1. DOMAIN read' = 1 .. Len(read) - 1 /\ \A k \in 1 .. Len(read) - 1 : read'[k] = read[k]
        BY <2>1, <2>2, FrontIsSeq
      <4>2. DOMAIN read = 1 .. Len(read) /\ Len(read) \in Nat
        BY <2>2, IsSeqFacts
      <4> QED
        BY <4>1, <4>2
    <3>2. Exact(read'[i])
      BY <3>1 DEF EInv, TokensInv
    <3> QED
      BY <1>2, <3>2, ExactKept
  <2>5. Exact(mUngetToken)'
    <3>1. Exact(mUngetToken')
      BY <2>1, <2>3
    <3> QED
      BY <1>2, <3>1, ExactKept
  <2>6. TokensInv'
    BY <2>4, <2>5 DEF TokensInv
  <2> QED
    BY <1>4, <2>1, <2>6
<1> QED
  BY <1>3, <1>5, <1>6

LEMMA ExactInit == Init => EInv
<1> SUFFICES ASSUME Init PROVE EInv
  OBVIOUS
<1>1. IInv
  BY ScannerInit
<1>2. source \in Seq(STRING) /\ pos = 1 /\ first = 1 /\ state = "none"
  BY CharactersAssumption DEF Init
<1>3. "none" \notin SignLabels \cup WordLabels \cup CommentLabels \cup {"INIT"}
  BY LabelsApart DEF WordLabels, CommentLabels
<1>4. LabelInv
  BY <1>2, <1>3 DEF LabelInv, WordLabels
<1>5. read = <<>> /\ ~ Ungot
  BY DEF Init, Ungot, DUMMY
<1>6. DOMAIN read = {}
  BY <1>5, EmptyIsSeq
<1>7. TokensInv
  BY <1>5, <1>6 DEF TokensInv
<1> QED
  BY <1>1, <1>4, <1>7 DEF EInv

LEMMA ExactNext == EInv /\ [Next]_vars => EInv'
<1> SUFFICES ASSUME EInv, [Next]_vars PROVE EInv'
  OBVIOUS
<1>1. IInv'
  BY ScannerNext DEF EInv
<1>2. CASE Scan
  BY <1>1, <1>2, InitExact, SignExact, NumberExact, IdExact, DqExact, CommentExact DEF Scan, EInv
<1>3. CASE Terminated \/ UNCHANGED vars
  <2>1. UNCHANGED vars
    BY <1>3 DEF Terminated
  <2>2. LabelInv'
    BY <2>1 DEF vars, EInv, LabelInv, Text, is_symbol
  <2>3. TokensInv'
    BY <2>1, TokensKept DEF vars, EInv
  <2> QED
    BY <1>1, <2>2, <2>3 DEF EInv
<1> QED
  BY <1>1, <1>2, <1>3, ClientExact DEF Next, EInv

(* In every text, whatever the client gives back: a token read_token       *)
(* returns as a sign or a reserved word is printed as the characters it    *)
(* was read from, no sign, number or word stops before a character it      *)
(* could go on with, and the text kept of a number or a symbol is its own. *)
THEOREM TokensExactTheorem == Spec => []TokensExact
<1>1. EInv => TokensExact
  BY DEF EInv, TokensInv, Exact, TokensExact
<1> QED
  BY <1>1, ExactInit, ExactNext, PTL DEF Spec
=============================================================================
