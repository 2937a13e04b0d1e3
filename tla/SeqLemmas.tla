------------------------------ MODULE SeqLemmas ------------------------------
(***************************************************************************)
(* Sequences whose elements come from no set known beforehand, such as the *)
(* stacks of frames and the scopes of handles that nest in each other:     *)
(* what Append, Front, Last and \o give on them, element by element.  Also  *)
(* the least and the greatest place of a set of places, and what the two   *)
(* pointer operations on a table of chains do to its elements.             *)
(***************************************************************************)
EXTENDS Chains, SequencesExt, SequenceTheorems, WellFoundedInduction, TLAPS

IsSeq(s) == s \in Seq(Range(s))

(* Any sequence of elements of a set. *)
LEMMA SeqIsSeq ==
  ASSUME NEW S, NEW s \in Seq(S)
  PROVE  IsSeq(s)
<1>1. s \in [1 .. Len(s) -> S] /\ Len(s) \in Nat
  BY LenProperties
<1>2. s \in [1 .. Len(s) -> Range(s)]
  BY <1>1 DEF Range
<1> QED
  BY <1>1, <1>2, SeqDef DEF IsSeq

LEMMA IsSeqFacts ==
  ASSUME NEW s, IsSeq(s)
  PROVE  /\ Len(s) \in Nat
         /\ DOMAIN s = 1 .. Len(s)
         /\ s # <<>> <=> Len(s) > 0
         /\ \A S : (\A i \in DOMAIN s : s[i] \in S) => s \in Seq(S)
<1>1. Len(s) \in Nat /\ DOMAIN s = 1 .. Len(s) /\ s \in [1 .. Len(s) -> Range(s)]
  BY LenProperties DEF IsSeq
<1>2. s # <<>> <=> Len(s) > 0
  BY EmptySeq, <1>1 DEF IsSeq
<1>3. ASSUME NEW S, \A i \in DOMAIN s : s[i] \in S
      PROVE  s \in Seq(S)
  <2>1. s \in [1 .. Len(s) -> S]
    BY <1>1, <1>3
  <2> QED
    BY <1>1, <2>1, SeqDef
<1> QED
  BY <1>1, <1>2, <1>3

(* A function on 1 .. n. *)
LEMMA FcnIsSeq ==
  ASSUME NEW n \in Nat, NEW S, NEW s \in [1 .. n -> S]
  PROVE  IsSeq(s) /\ Len(s) = n
<1>1. s \in Seq(S)
  BY SeqDef
<1>2. DOMAIN s = 1 .. Len(s) /\ Len(s) \in Nat
  BY <1>1, LenProperties
<1>3. Len(s) = n
  <2>1. DOMAIN s = 1 .. n
    OBVIOUS
  <2>2. \A i \in Int : i \in 1 .. n <=> i \in 1 .. Len(s)
    BY <1>2, <2>1
  <2>3. (n > 0 => Len(s) >= n) /\ (Len(s) > 0 => n >= Len(s))
    BY <1>2, <2>2
  <2> QED
    BY <1>2, <2>3
<1> QED
  BY <1>1, <1>3, SeqIsSeq

LEMMA EmptyIsSeq ==
  IsSeq(<<>>) /\ Len(<<>>) = 0 /\ DOMAIN <<>> = {}
<1>1. <<>> \in Seq({}) /\ Len(<<>>) = 0
  BY EmptySeq
<1>2. IsSeq(<<>>)
  BY <1>1, SeqIsSeq, Zenon
<1>3. DOMAIN <<>> = {}
  OBVIOUS
<1> QED
  BY <1>1, <1>2, <1>3

LEMMA AppendIsSeq ==
  ASSUME NEW s, IsSeq(s), NEW x
  PROVE  /\ IsSeq(Append(s, x))
         /\ Len(Append(s, x)) = Len(s) + 1
         /\ DOMAIN Append(s, x) = 1 .. Len(s) + 1
         /\ \A i \in 1 .. Len(s) : Append(s, x)[i] = s[i]
         /\ Append(s, x)[Len(s) + 1] = x
<1> DEFINE S == Range(s) \cup {x}
<1>1. s \in Seq(S)
  BY SeqMonotonic DEF IsSeq
<1>2. /\ Append(s, x) \in Seq(S)
      /\ Len(Append(s, x)) = Len(s) + 1
      /\ \A i \in 1 .. Len(s) : Append(s, x)[i] = s[i]
      /\ Append(s, x)[Len(s) + 1] = x
  <2> HIDE DEF S
  <2>1. x \in S
    BY DEF S
  <2> QED
    BY <1>1, <2>1, AppendProperties
<1> HIDE DEF S
<1> QED
  BY <1>2, SeqIsSeq, LenProperties

LEMMA FrontIsSeq ==
  ASSUME NEW s, IsSeq(s), s # <<>>
  PROVE  /\ IsSeq(Front(s))
         /\ Len(Front(s)) = Len(s) - 1
         /\ DOMAIN Front(s) = 1 .. Len(s) - 1
         /\ \A i \in 1 .. Len(s) - 1 : Front(s)[i] = s[i]
<1> DEFINE S == Range(s)
           n == Len(s) - 1
<1>1. Len(s) \in Nat \ {0} /\ DOMAIN s = 1 .. Len(s)
  BY IsSeqFacts
<1>2. n \in Nat
  BY <1>1
<1>3. \A i \in 1 .. n : s[i] \in S
  BY <1>1 DEF Range
<1> HIDE DEF S
<1>4. /\ SubSeq(s, 1, n) \in Seq(S)
      /\ Len(SubSeq(s, 1, n)) = IF 1 <= n THEN n - 1 + 1 ELSE 0
      /\ \A i \in 1 .. n - 1 + 1 : SubSeq(s, 1, n)[i] = s[1 + i - 1]
  <2> HIDE DEF n
  <2> QED
    BY <1>2, <1>3, SubSeqProperties
<1>5. /\ Len(SubSeq(s, 1, n)) = n
      /\ \A i \in 1 .. n : SubSeq(s, 1, n)[i] = s[i]
  <2> HIDE DEF n
  <2> QED
    BY <1>2, <1>4
<1>6. IsSeq(SubSeq(s, 1, n)) /\ DOMAIN SubSeq(s, 1, n) = 1 .. Len(SubSeq(s, 1, n))
  <2> HIDE DEF n
  <2> QED
    BY <1>4, SeqIsSeq, LenProperties
<1> QED
  BY <1>5, <1>6 DEF Front

LEMMA ConcatIsSeq ==
  ASSUME NEW s, IsSeq(s), NEW t, IsSeq(t)
  PROVE  /\ IsSeq(s \o t)
         /\ Len(s \o t) = Len(s) + Len(t)
         /\ DOMAIN (s \o t) = 1 .. Len(s) + Len(t)
         /\ \A i \in 1 .. Len(s) : (s \o t)[i] = s[i]
         /\ \A i \in 1 .. Len(t) : (s \o t)[Len(s) + i] = t[i]
<1> DEFINE S == Range(s) \cup Range(t)
<1>1. s \in Seq(S) /\ t \in Seq(S)
  BY SeqMonotonic DEF IsSeq
<1>2. Len(s) \in Nat /\ Len(t) \in Nat
  BY IsSeqFacts
<1> HIDE DEF S
<1>3. /\ s \o t \in Seq(S)
      /\ Len(s \o t) = Len(s) + Len(t)
      /\ \A i \in 1 .. Len(s) + Len(t) : (s \o t)[i] =
                     IF i <= Len(s) THEN s[i] ELSE t[i - Len(s)]
  BY <1>1, ConcatProperties
<1>4. IsSeq(s \o t) /\ DOMAIN (s \o t) = 1 .. Len(s \o t)
  BY <1>3, SeqIsSeq, LenProperties
<1>5. \A i \in 1 .. Len(s) : (s \o t)[i] = s[i]
  BY <1>2, <1>3
<1>6. \A i \in 1 .. Len(t) : (s \o t)[Len(s) + i] = t[i]
  <2> TAKE i \in 1 .. Len(t)
  <2>1. Len(s) + i \in 1 .. Len(s) + Len(t) /\ ~(Len(s) + i <= Len(s))
          /\ Len(s) + i - Len(s) = i
    BY <1>2
  <2> QED
    BY <1>3, <2>1
<1> QED
  BY <1>3, <1>4, <1>5, <1>6

(* The one-element sequence. *)
LEMMA SingleIsSeq ==
  ASSUME NEW x
  PROVE  IsSeq(<<x>>) /\ Len(<<x>>) = 1 /\ DOMAIN <<x>> = {1} /\ <<x>>[1] = x
<1>1. <<x>> \in Seq({x})
  OBVIOUS
<1>2. IsSeq(<<x>>)
  BY <1>1, SeqIsSeq, Zenon
<1>3. Len(<<x>>) = 1 /\ <<x>>[1] = x
  OBVIOUS
<1>4. DOMAIN <<x>> = {1}
  OBVIOUS
<1> QED
  BY <1>2, <1>3, <1>4

(* The last element replaced: how a frame on top of a stack is changed. *)
LEMMA ReplaceLast ==
  ASSUME NEW s, IsSeq(s), s # <<>>, NEW x
  PROVE  LET t == Front(s) \o <<x>> IN
         /\ IsSeq(t)
         /\ Len(t) = Len(s)
         /\ DOMAIN t = DOMAIN s
         /\ t[Len(s)] = x
         /\ \A i \in DOMAIN s : i # Len(s) => t[i] = s[i]
<1> DEFINE f == Front(s)
           g == <<x>>
<1>1. Len(s) \in Nat \ {0} /\ DOMAIN s = 1 .. Len(s)
  BY IsSeqFacts
<1>2. IsSeq(f) /\ Len(f) = Len(s) - 1 /\ \A i \in 1 .. Len(s) - 1 : f[i] = s[i]
  BY FrontIsSeq
<1>3. IsSeq(g) /\ Len(g) = 1 /\ g[1] = x
  BY SingleIsSeq
<1> HIDE DEF f, g
<1>4. /\ IsSeq(f \o g)
      /\ Len(f \o g) = Len(f) + Len(g)
      /\ DOMAIN (f \o g) = 1 .. Len(f) + Len(g)
      /\ \A i \in 1 .. Len(f) : (f \o g)[i] = f[i]
      /\ \A i \in 1 .. Len(g) : (f \o g)[Len(f) + i] = g[i]
  <2>1. IsSeq(f) /\ IsSeq(g)
    BY <1>2, <1>3
  <2> QED
    BY ONLY <2>1, ConcatIsSeq, SMTT(30)
<1>5. (f \o g)[Len(f) + 1] = x
  BY <1>3, <1>4
<1> DEFINE t == f \o g
<1> HIDE DEF t
<1>6. Len(f) + Len(g) = Len(s) /\ Len(f) + 1 = Len(s)
  BY <1>1, <1>2, <1>3
<1>7. Len(t) = Len(s) /\ DOMAIN t = DOMAIN s /\ t[Len(s)] = x
  BY <1>1, <1>4, <1>5, <1>6 DEF t
<1>8. \A i \in DOMAIN s : i # Len(s) => t[i] = s[i]
  BY <1>1, <1>2, <1>4 DEF t
<1> QED
  BY <1>4, <1>7, <1>8 DEF t, f, g

-----------------------------------------------------------------------------
LEMMA LeastExists ==
  ASSUME NEW K, K \subseteq Nat, K # {}
  PROVE  \E x \in K : \A y \in K : x <= y
<1> DEFINE less == {ss \in Nat \X Nat : ss[1] < ss[2]}
<1>1. IsWellFoundedOn(less, Nat)
  <2>1. OpToRel(<, Nat) = less
    BY Zenon DEF OpToRel
  <2> QED
    BY <2>1, NatLessThanWellFounded, Zenon
<1>2. \A x, y \in Nat : y < x => <<y, x>> \in less
  OBVIOUS
<1> HIDE DEF less
<1>3. PICK x \in K : \A y \in K : ~ (<<y, x>> \in less)
  BY <1>1, WFMin, Zenon
<1>4. ASSUME NEW y \in K
      PROVE  x <= y
  <2>1. x \in Nat /\ y \in Nat
    OBVIOUS
  <2>2. ~ (y < x)
    BY <1>2, <1>3, <2>1, Zenon
  <2> QED
    BY <2>1, <2>2
<1> QED
  BY <1>4

LEMMA GreatestExists ==
  ASSUME NEW n \in Nat, NEW K, K \subseteq 0 .. n, K # {}
  PROVE  \E x \in K : \A y \in K : y <= x
<1> DEFINE L == {n - y : y \in K}
<1>1. L \subseteq Nat /\ L # {}
  <2>1. \A y \in K : n - y \in Nat
    OBVIOUS
  <2>2. PICK y \in K : TRUE
    OBVIOUS
  <2>3. n - y \in L
    OBVIOUS
  <2> QED
    BY <2>1, <2>3
<1>2. PICK a \in L : \A b \in L : a <= b
  <2> HIDE DEF L
  <2> QED
    BY <1>1, LeastExists
<1>3. PICK x \in K : a = n - x
  OBVIOUS
<1>4. ASSUME NEW y \in K PROVE y <= x
  <2>1. n - x <= n - y
    BY <1>2, <1>3
  <2>2. x \in 0 .. n /\ y \in 0 .. n
    OBVIOUS
  <2> QED
    BY <2>1, <2>2
<1> QED
  BY <1>4

-----------------------------------------------------------------------------
(* A search from the head stops at a match, if there is one: every         *)
(* nonempty set of positions has a first one.                              *)
LEMMA FirstInSet ==
  ASSUME NEW K, K \subseteq Nat, K # {}
  PROVE  First(K) \in K
BY LeastExists DEF First

(* x is linked into the table when some chain holds it. *)
LEMMA LinkedIff ==
  ASSUME NEW tbl, NEW x
  PROVE  x \in Linked(tbl)
           <=> \E b \in DOMAIN tbl : \E k \in DOMAIN tbl[b] : tbl[b][k] = x
BY DEF Linked, Range

(* Linking x in front of a chain, as Scope::_put and reg_type do. *)
LEMMA ConsFacts ==
  ASSUME NEW S, NEW s \in Seq(S), NEW x \in S
  PROVE  /\ <<x>> \o s \in Seq(S)
         /\ DOMAIN (<<x>> \o s) = 1 .. (Len(s) + 1)
         /\ (<<x>> \o s)[1] = x
         /\ \A k \in 1 .. Len(s) : (<<x>> \o s)[k + 1] = s[k]
<1>1. <<x>> \in Seq(S) /\ Len(<<x>>) = 1 /\ <<x>>[1] = x
  OBVIOUS
<1>2. /\ <<x>> \o s \in Seq(S)
      /\ Len(<<x>> \o s) = 1 + Len(s)
      /\ \A i \in 1 .. 1 + Len(s) :
           (<<x>> \o s)[i] = IF i <= 1 THEN <<x>>[i] ELSE s[i - 1]
  BY <1>1, ConcatProperties
<1>3. Len(s) \in Nat
  BY LenProperties
<1>4. DOMAIN (<<x>> \o s) = 1 .. (Len(s) + 1)
  BY <1>2, <1>3, LenProperties
<1> QED
  BY <1>1, <1>2, <1>3, <1>4

(* Each place of the new table holds x, in bucket pos, or what the same    *)
(* bucket of the old table held.                                           *)
OnlyAdds(tbl, new, pos, x) ==
  \A b \in DOMAIN new : \A k \in DOMAIN new[b] :
    \/ b = pos /\ new[b][k] = x
    \/ \E j \in DOMAIN tbl[b] : new[b][k] = tbl[b][j]

(* What Prepend leaves: every old element one place further down its own   *)
(* chain, and x at the head of chain pos.                                  *)
LEMMA PrependFacts ==
  ASSUME NEW S, NEW n \in Nat, NEW tbl, IsTable(tbl, n, S),
         NEW pos \in 0 .. n - 1, NEW x \in S,
         NEW new, new = Prepend(tbl, pos, x)
  PROVE  /\ IsTable(new, n, S)
         /\ OnlyAdds(tbl, new, pos, x)
         /\ Linked(new) = Linked(tbl) \cup {x}
         /\ NoRepeat(tbl) /\ x \notin Linked(tbl) => NoRepeat(new)
<1> USE DEF IsTable
<1> DEFINE s == tbl[pos]
<1>1. s \in Seq(S) /\ Len(s) \in Nat /\ DOMAIN s = 1 .. Len(s)
  BY LenProperties
<1>2. /\ new[pos] = <<x>> \o s
      /\ \A b \in 0 .. n - 1 : b # pos => new[b] = tbl[b]
      /\ DOMAIN new = 0 .. n - 1
  BY DEF Prepend
<1>3. /\ new[pos] \in Seq(S)
      /\ DOMAIN new[pos] = 1 .. (Len(s) + 1)
      /\ new[pos][1] = x
      /\ \A k \in 1 .. Len(s) : new[pos][k + 1] = s[k]
  BY <1>1, <1>2, ConsFacts
<1>4. new \in [0 .. n - 1 -> Seq(S)]
  BY <1>1, <1>3 DEF Prepend
<1>5. ASSUME NEW b \in 0 .. n - 1, NEW k \in DOMAIN new[b]
      PROVE  \/ b = pos /\ k = 1 /\ new[b][k] = x
             \/ b = pos /\ k - 1 \in DOMAIN tbl[b] /\ new[b][k] = tbl[b][k - 1]
             \/ b # pos /\ k \in DOMAIN tbl[b] /\ new[b][k] = tbl[b][k]
  <2>1. CASE b # pos
    BY <1>2, <2>1
  <2>2. CASE b = pos /\ k = 1
    BY <1>3, <2>2
  <2>3. CASE b = pos /\ k # 1
    <3>1. k - 1 \in 1 .. Len(s) /\ (k - 1) + 1 = k
      BY <1>1, <1>3, <2>3
    <3>2. new[b][k] = s[k - 1]
      BY <1>3, <2>3, <3>1
    <3> QED
      BY <1>1, <2>3, <3>1, <3>2
  <2> QED
    BY <2>1, <2>2, <2>3
<1>6. Linked(new) = Linked(tbl) \cup {x}
  <2>1. ASSUME NEW y \in Linked(new)
        PROVE  y \in Linked(tbl) \cup {x}
    <3>1. PICK b \in 0 .. n - 1 : \E k \in DOMAIN new[b] : new[b][k] = y
      BY <1>2, LinkedIff
    <3>2. PICK k \in DOMAIN new[b] : new[b][k] = y
      BY <3>1
    <3>3. y = x \/ \E j \in DOMAIN tbl[b] : tbl[b][j] = y
      BY <1>5, <3>2
    <3> QED
      BY <3>3, LinkedIff
  <2>2. x \in Linked(new)
    <3>1. 1 \in DOMAIN new[pos]
      BY <1>1, <1>3
    <3> QED
      BY <1>2, <1>3, <3>1, LinkedIff
  <2>3. ASSUME NEW y \in Linked(tbl)
        PROVE  y \in Linked(new)
    <3>1. PICK b \in 0 .. n - 1 : \E k \in DOMAIN tbl[b] : tbl[b][k] = y
      BY LinkedIff
    <3>2. PICK k \in DOMAIN tbl[b] : tbl[b][k] = y
      BY <3>1
    <3>3. \E j \in DOMAIN new[b] : new[b][j] = y
      <4>1. CASE b # pos
        BY <1>2, <3>2, <4>1
      <4>2. CASE b = pos
        <5>1. k \in 1 .. Len(s) /\ k + 1 \in DOMAIN new[pos]
          BY <1>1, <1>3, <3>2, <4>2
        <5>2. new[pos][k + 1] = y
          BY <1>3, <3>2, <4>2, <5>1
        <5> QED
          BY <4>2, <5>1, <5>2
      <4> QED
        BY <4>1, <4>2
    <3> QED
      BY <1>2, <3>3, LinkedIff
  <2> QED
    BY <2>1, <2>2, <2>3
<1>7. ASSUME NoRepeat(tbl), x \notin Linked(tbl)
      PROVE  NoRepeat(new)
  <2>1. SUFFICES ASSUME NEW b \in 0 .. n - 1, NEW c \in 0 .. n - 1,
                        NEW j \in DOMAIN new[b], NEW k \in DOMAIN new[c],
                        new[b][j] = new[c][k]
                 PROVE  b = c /\ j = k
    BY <1>2 DEF NoRepeat
  <2>2. \A d \in 0 .. n - 1 : \A i \in DOMAIN tbl[d] : tbl[d][i] # x
    BY <1>7, LinkedIff
  <2>3. \A d, e \in 0 .. n - 1 : \A i \in DOMAIN tbl[d], l \in DOMAIN tbl[e] :
          tbl[d][i] = tbl[e][l] => d = e /\ i = l
    BY <1>7 DEF NoRepeat
  <2>4. j \in Nat /\ k \in Nat
    <3>1. ASSUME NEW d \in 0 .. n - 1 PROVE DOMAIN new[d] \subseteq Nat
      <4>1. new[d] \in Seq(S)
        BY <1>4
      <4>2. DOMAIN new[d] = 1 .. Len(new[d]) /\ Len(new[d]) \in Nat
        BY ONLY <4>1, LenProperties
      <4> QED
        BY <4>2
    <3> QED
      BY <3>1
  <2>5. \/ b = pos /\ j = 1 /\ new[b][j] = x
        \/ b = pos /\ j - 1 \in DOMAIN tbl[b] /\ new[b][j] = tbl[b][j - 1]
        \/ b # pos /\ j \in DOMAIN tbl[b] /\ new[b][j] = tbl[b][j]
    BY <1>5
  <2>6. \/ c = pos /\ k = 1 /\ new[c][k] = x
        \/ c = pos /\ k - 1 \in DOMAIN tbl[c] /\ new[c][k] = tbl[c][k - 1]
        \/ c # pos /\ k \in DOMAIN tbl[c] /\ new[c][k] = tbl[c][k]
    BY <1>5
  <2>7. CASE new[b][j] = x
    BY <2>1, <2>2, <2>5, <2>6, <2>7
  <2>8. CASE new[b][j] # x
    BY <2>1, <2>3, <2>4, <2>5, <2>6, <2>8
  <2> QED
    BY <2>7, <2>8
<1>8. OnlyAdds(tbl, new, pos, x)
  BY <1>2, <1>5 DEF OnlyAdds
<1> QED
  BY <1>4, <1>6, <1>7, <1>8

(* What the rehash loop leaves when it takes the first element of a chain: *)
(* that element is gone from the table, and only that one.                 *)
LEMMA DropHeadFacts ==
  ASSUME NEW S, NEW n \in Nat, NEW tbl, IsTable(tbl, n, S),
         NEW pos \in 0 .. n - 1, ~ AtEnd(tbl, pos),
         NEW new, new = DropHead(tbl, pos),
         NEW x, x = HeadOf(tbl, pos)
  PROVE  /\ x \in S
         /\ x \in Linked(tbl)
         /\ IsTable(new, n, S)
         /\ Linked(tbl) = Linked(new) \cup {x}
         /\ NoRepeat(tbl) => NoRepeat(new) /\ x \notin Linked(new)
<1> USE DEF IsTable, AtEnd, HeadOf
<1> DEFINE s == tbl[pos]
<1>1. s \in Seq(S) /\ Len(s) \in Nat \ {0} /\ DOMAIN s = 1 .. Len(s)
  BY LenProperties, EmptySeq
<1>2. /\ new[pos] = Tail(s)
      /\ \A b \in 0 .. n - 1 : b # pos => new[b] = tbl[b]
      /\ DOMAIN new = 0 .. n - 1
  BY DEF DropHead
<1>3. /\ x = s[1]
      /\ x \in S
      /\ new[pos] \in Seq(S)
      /\ Len(new[pos]) = Len(s) - 1
      /\ DOMAIN new[pos] = 1 .. (Len(s) - 1)
      /\ \A k \in 1 .. (Len(s) - 1) : new[pos][k] = s[k + 1]
  <2>1. /\ x \in S
        /\ Tail(s) \in Seq(S)
        /\ Len(Tail(s)) = Len(s) - 1
        /\ \A k \in 1 .. Len(Tail(s)) : Tail(s)[k] = s[k + 1]
    BY <1>1, HeadTailProperties
  <2>2. x = s[1]
    BY <1>1
  <2> QED
    BY <1>2, <2>1, <2>2, LenProperties
<1>4. new \in [0 .. n - 1 -> Seq(S)]
  BY <1>1, <1>3 DEF DropHead
<1>5. ASSUME NEW b \in 0 .. n - 1, NEW k \in DOMAIN new[b]
      PROVE  \/ b = pos /\ k + 1 \in DOMAIN tbl[b] /\ k >= 1
                        /\ new[b][k] = tbl[b][k + 1]
             \/ b # pos /\ k \in DOMAIN tbl[b] /\ new[b][k] = tbl[b][k]
  <2>1. CASE b # pos
    BY <1>2, <2>1
  <2>2. CASE b = pos
    <3>1. k \in 1 .. (Len(s) - 1)
      BY <1>3, <2>2
    <3>2. k + 1 \in DOMAIN s /\ k >= 1
      BY <1>1, <3>1
    <3>3. new[pos][k] = s[k + 1]
      BY <1>3, <3>1
    <3> QED
      BY <2>2, <3>2, <3>3
  <2> QED
    BY <2>1, <2>2
<1>0. /\ pos \in DOMAIN tbl
      /\ 1 \in DOMAIN tbl[pos]
      /\ tbl[pos][1] = x
  <2>1. 1 \in 1 .. Len(s)
    BY <1>1
  <2>2. s[1] = x
    BY <1>3
  <2> QED
    BY <1>1, <2>1, <2>2
<1>6. x \in Linked(tbl)
  BY <1>0, LinkedIff
<1>7. Linked(tbl) = Linked(new) \cup {x}
  <2>1. ASSUME NEW y \in Linked(new)
        PROVE  y \in Linked(tbl)
    <3>1. PICK b \in 0 .. n - 1 : \E k \in DOMAIN new[b] : new[b][k] = y
      BY <1>2, LinkedIff
    <3>2. PICK k \in DOMAIN new[b] : new[b][k] = y
      BY <3>1
    <3>3. \E j \in DOMAIN tbl[b] : tbl[b][j] = y
      BY <1>5, <3>2
    <3> QED
      BY <3>3, LinkedIff
  <2>2. ASSUME NEW y \in Linked(tbl), y # x
        PROVE  y \in Linked(new)
    <3>1. PICK b \in 0 .. n - 1 : \E k \in DOMAIN tbl[b] : tbl[b][k] = y
      BY LinkedIff
    <3>2. PICK k \in DOMAIN tbl[b] : tbl[b][k] = y
      BY <3>1
    <3>3. \E j \in DOMAIN new[b] : new[b][j] = y
      <4>1. CASE b # pos
        BY <1>2, <3>2, <4>1
      <4>2. CASE b = pos
        <5>1. k \in 1 .. Len(s) /\ k # 1
          BY <1>1, <1>3, <2>2, <3>2, <4>2
        <5>2. k - 1 \in 1 .. (Len(s) - 1) /\ (k - 1) + 1 = k
          BY <1>1, <5>1
        <5>3. new[pos][k - 1] = y
          BY <1>3, <3>2, <4>2, <5>2
        <5> QED
          BY <1>3, <4>2, <5>2, <5>3
      <4> QED
        BY <4>1, <4>2
    <3> QED
      BY <1>2, <3>3, LinkedIff
  <2> QED
    BY <1>6, <2>1, <2>2
<1>8. ASSUME NoRepeat(tbl)
      PROVE  NoRepeat(new) /\ x \notin Linked(new)
  <2>1. \A d, e \in 0 .. n - 1 : \A i \in DOMAIN tbl[d], l \in DOMAIN tbl[e] :
          tbl[d][i] = tbl[e][l] => d = e /\ i = l
    BY <1>8 DEF NoRepeat
  <2>2. \A d \in 0 .. n - 1 : DOMAIN new[d] \subseteq Nat
    BY <1>4, LenProperties
  <2>3. NoRepeat(new)
    <3>1. SUFFICES ASSUME NEW b \in 0 .. n - 1, NEW c \in 0 .. n - 1,
                          NEW j \in DOMAIN new[b], NEW k \in DOMAIN new[c],
                          new[b][j] = new[c][k]
                   PROVE  b = c /\ j = k
      BY <1>2 DEF NoRepeat
    <3>2. j \in Nat /\ k \in Nat
      BY <2>2
    <3>3. \/ b = pos /\ j + 1 \in DOMAIN tbl[b] /\ new[b][j] = tbl[b][j + 1]
          \/ b # pos /\ j \in DOMAIN tbl[b] /\ new[b][j] = tbl[b][j]
      BY <1>5
    <3>4. \/ c = pos /\ k + 1 \in DOMAIN tbl[c] /\ new[c][k] = tbl[c][k + 1]
          \/ c # pos /\ k \in DOMAIN tbl[c] /\ new[c][k] = tbl[c][k]
      BY <1>5
    <3> QED
      BY <2>1, <3>1, <3>2, <3>3, <3>4
  <2>4. ASSUME x \in Linked(new)
        PROVE  FALSE
    <3>1. PICK b \in 0 .. n - 1 : \E k \in DOMAIN new[b] : new[b][k] = x
      BY <1>2, <2>4, LinkedIff
    <3>2. PICK k \in DOMAIN new[b] : new[b][k] = x
      BY <3>1
    <3>3. k \in Nat
      BY <2>2
    <3>4. \/ b = pos /\ k + 1 \in DOMAIN tbl[b] /\ k >= 1
                    /\ new[b][k] = tbl[b][k + 1]
          \/ b # pos /\ k \in DOMAIN tbl[b] /\ new[b][k] = tbl[b][k]
      BY <1>5
    <3> QED
      BY <1>0, <2>1, <3>2, <3>3, <3>4
  <2> QED
    BY <2>3, <2>4
<1> QED
  BY <1>3, <1>4, <1>6, <1>7, <1>8

(* A freshly allocated table links nothing. *)
LEMMA EmptyFacts ==
  ASSUME NEW S, NEW n \in Nat
  PROVE  /\ IsTable(Empty(n), n, S)
         /\ Linked(Empty(n)) = {}
         /\ NoRepeat(Empty(n))
<1>1. IsTable(Empty(n), n, S)
  BY EmptySeq DEF Empty, IsTable
<1>2. \A b \in DOMAIN Empty(n) : DOMAIN Empty(n)[b] = {}
  BY DEF Empty
<1>3. Linked(Empty(n)) = {}
  BY <1>2, LinkedIff
<1> QED
  BY <1>1, <1>2, <1>3 DEF NoRepeat
=============================================================================
