------------------------------- MODULE Chains --------------------------------
(***************************************************************************)
(* The chained hash tables that Scope and TypeMgr both implement: an array *)
(* of buckets, each the head of a chain threaded through the elements' own *)
(* mLink field.  A chain is written as the sequence of the elements met by *)
(* following mLink from the bucket.                                        *)
(***************************************************************************)
EXTENDS Integers, Sequences, Functions

(* new T*[size], every bucket NULL. *)
Empty(size) == [b \in 0 .. size - 1 |-> <<>>]

(* Mutant of Limit: the threshold of a table twice as large. *)
LimitTooLarge(size) == (size * 18) \div 5

(* static_cast<ymuint>(size * 1.8), the threshold for enlarging the table. *)
Limit(size) == (size * 9) \div 5

(* x->mLink = table[pos]; table[pos] = x *)
Prepend(tbl, pos, x) == [tbl EXCEPT ![pos] = <<x>> \o @]

(* The element the rehash loop is at, and whether the chain is exhausted. *)
HeadOf(tbl, pos) == Head(tbl[pos])
AtEnd(tbl, pos) == tbl[pos] = <<>>

(* The rehash loop takes the first element of a chain: it reads its mLink  *)
(* before the element is linked elsewhere.                                 *)
DropHead(tbl, pos) == [tbl EXCEPT ![pos] = Tail(@)]

(* A table of size buckets whose chains hold elements of S. *)
IsTable(tbl, size, S) == tbl \in [0 .. size - 1 -> Seq(S)]

(* The elements linked into a table. *)
Linked(tbl) == UNION {Range(tbl[b]) : b \in DOMAIN tbl}

(* No element is linked at two places. *)
NoRepeat(tbl) ==
  \A b, c \in DOMAIN tbl : \A j \in DOMAIN tbl[b], k \in DOMAIN tbl[c] :
    tbl[b][j] = tbl[c][k] => b = c /\ j = k

(* The position a search from the head of the chain stops at, of those in K. *)
First(K) == CHOOSE k \in K : \A j \in K : k <= j
==============================================================================
