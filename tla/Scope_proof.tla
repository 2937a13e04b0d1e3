----------------------------- MODULE Scope_proof -----------------------------
(***************************************************************************)
(* Proofs about Scope: the inductive invariant IInv, and from it that      *)
(* find_local answers right, that guarded names stay unique, that no       *)
(* handle is linked twice and that the table implements ScopeDict, for     *)
(* every set of handles, every hash function and every initial size.       *)
(***************************************************************************)
EXTENDS Scope, SeqLemmas, FiniteSetTheorems

(* The bucket of a name is a bucket of the table. *)
LEMMA PosType ==
  ASSUME NEW n \in Name, NEW size \in Nat \ {0}
  PROVE  Pos(n, size) \in 0 .. size - 1
<1>1. HashOf[n] \in Nat
  BY HandleAssumption
<1> QED
  BY <1>1 DEF Pos

(* With every handle in the bucket of its hash, find_local looks where the *)
(* handles of that name are.                                               *)
LEMMA FindLocalFacts ==
  ASSUME TypeOK, Placed, NEW n \in Name
  PROVE  /\ FindLocal(n) = NULL
              <=> \A h \in Linked(mHashTable) : NameOf[h] # n
         /\ FindLocal(n) # NULL => /\ FindLocal(n) \in Linked(mHashTable)
                                   /\ NameOf[FindLocal(n)] = n
<1> DEFINE pos == Pos(n, mHashSize)
           chain == mHashTable[pos]
           hits == Matches(chain, n)
<1>1. pos \in 0 .. mHashSize - 1 /\ DOMAIN mHashTable = 0 .. mHashSize - 1
  BY PosType DEF TypeOK, IsTable
<1>2. chain \in Seq(Handle) /\ DOMAIN chain \subseteq Nat
  BY <1>1, LenProperties DEF TypeOK, IsTable
<1>3. \A k \in DOMAIN chain : chain[k] \in Handle /\ chain[k] \in Linked(mHashTable)
  <2>1. TAKE k \in DOMAIN chain
  <2>2. chain[k] \in Handle
    BY <1>2, LenProperties
  <2> QED
    BY <1>1, <2>2, LinkedIff
<1>4. ASSUME NEW h \in Linked(mHashTable), NameOf[h] = n
      PROVE  hits # {}
  <2>1. PICK b \in DOMAIN mHashTable : \E k \in DOMAIN mHashTable[b] : mHashTable[b][k] = h
    BY LinkedIff
  <2>2. PICK k \in DOMAIN mHashTable[b] : mHashTable[b][k] = h
    BY <2>1
  <2>3. b = pos
    BY <1>4, <2>2 DEF Placed
  <2> QED
    BY <1>4, <2>2, <2>3 DEF Matches
<1>5. ASSUME hits # {}
      PROVE  /\ FindLocal(n) \in Linked(mHashTable)
             /\ FindLocal(n) \in Handle
             /\ NameOf[FindLocal(n)] = n
  <2>1. hits \subseteq Nat
    BY <1>2 DEF Matches
  <2>2. First(hits) \in hits
    BY <1>5, <2>1, FirstInSet
  <2>3. FindLocal(n) = chain[First(hits)]
    BY <1>5 DEF FindLocal
  <2> QED
    BY <1>3, <2>2, <2>3 DEF Matches
<1>6. hits = {} => FindLocal(n) = NULL
  BY DEF FindLocal
<1>7. NULL \notin Handle
  BY HandleAssumption
<1> HIDE DEF hits, chain, pos
<1> QED
  BY <1>4, <1>5, <1>6, <1>7

(* The invariant implies what find_local promises between two calls. *)
LEMMA LookupFromInv ==
  ASSUME TypeOK, Placed
  PROVE  LookupSound
<1>1. SUFFICES ASSUME pc = "idle", NEW n \in Name
               PROVE  LET own == {h \in Contents : NameOf[h] = n}
                      IN  IF own = {} THEN FindLocal(n) = NULL
                                      ELSE FindLocal(n) \in own
  BY DEF LookupSound
<1>2. Linked(old_table) = {}
  BY <1>1, EmptyFacts DEF TypeOK
<1>3. Contents = Linked(mHashTable)
  BY <1>2 DEF Contents
<1> QED
  BY <1>3, FindLocalFacts

(* What _put does to the table, in any state the invariant describes. *)
LEMMA PutFacts ==
  ASSUME TypeOK, Placed, NEW h \in Handle, Put(h)
  PROVE  /\ IsTable(mHashTable', mHashSize, Handle)
         /\ mHashSize' = mHashSize /\ mNextLimit' = mNextLimit
         /\ mHashNum' \in Nat
         /\ Placed'
         /\ Linked(mHashTable') = Linked(mHashTable) \cup {h}
         /\ NoRepeat(mHashTable) /\ h \notin Linked(mHashTable)
              => NoRepeat(mHashTable')
<1> DEFINE pos == Pos(NameOf[h], mHashSize)
<1>1. pos \in 0 .. mHashSize - 1
  BY PosType, HandleAssumption DEF TypeOK
<1>2. mHashTable' = Prepend(mHashTable, pos, h)
  BY DEF Put
<1>3. /\ mHashSize \in Nat
      /\ IsTable(mHashTable, mHashSize, Handle)
  BY DEF TypeOK
<1> HIDE DEF pos
<1>4. /\ IsTable(mHashTable', mHashSize, Handle)
      /\ OnlyAdds(mHashTable, mHashTable', pos, h)
      /\ Linked(mHashTable') = Linked(mHashTable) \cup {h}
      /\ NoRepeat(mHashTable) /\ h \notin Linked(mHashTable)
           => NoRepeat(mHashTable')
  BY <1>1, <1>2, <1>3, PrependFacts
<1>5. mHashSize' = mHashSize /\ mNextLimit' = mNextLimit /\ mHashNum' \in Nat
  BY DEF Put, TypeOK
<1>6. Placed'
  <2>1. SUFFICES ASSUME NEW b \in DOMAIN mHashTable',
                        NEW k \in DOMAIN mHashTable'[b]
                 PROVE  Pos(NameOf[mHashTable'[b][k]], mHashSize) = b
    BY <1>4, <1>5 DEF Placed
  <2>2. \/ b = pos /\ mHashTable'[b][k] = h
        \/ \E j \in DOMAIN mHashTable[b] : mHashTable'[b][k] = mHashTable[b][j]
    BY <1>4 DEF OnlyAdds
  <2>3. DOMAIN mHashTable' = DOMAIN mHashTable
    BY <1>3, <1>4 DEF IsTable
  <2> QED
    BY <2>2, <2>3 DEF Placed, pos
<1> QED
  BY <1>4, <1>5, <1>6

(* Every handle linked into a table of handles is a handle. *)
LEMMA LinkedInHandle ==
  ASSUME NEW n, NEW tbl, IsTable(tbl, n, Handle)
  PROVE  Linked(tbl) \subseteq Handle
<1>1. SUFFICES ASSUME NEW x \in Linked(tbl)
               PROVE  x \in Handle
  OBVIOUS
<1>2. PICK b \in DOMAIN tbl : \E k \in DOMAIN tbl[b] : tbl[b][k] = x
  BY LinkedIff
<1>3. tbl[b] \in Seq(Handle)
  BY DEF IsTable
<1> QED
  BY <1>2, <1>3, LenProperties

(* In between two calls the old table links nothing. *)
LEMMA IdleOldEmpty ==
  ASSUME TypeOK, pc = "idle"
  PROVE  /\ Linked(old_table) = {}
         /\ Contents = Linked(mHashTable)
         /\ Owned = Contents
<1>1. old_table = Empty(0) /\ item = NULL
  BY DEF TypeOK
<1>2. Linked(old_table) = {}
  BY <1>1, EmptyFacts
<1> QED
  BY <1>1, <1>2, HandleAssumption DEF Contents, Owned

(* The constructor establishes the invariant. *)
LEMMA InitIInv == Init => IInv
<1> SUFFICES ASSUME Init PROVE IInv
  OBVIOUS
<1>1. InitSize \in Nat /\ 0 \in Nat
  BY SizeAssumption
<1>2. /\ IsTable(mHashTable, InitSize, Handle)
      /\ Linked(mHashTable) = {}
      /\ NoRepeat(mHashTable)
  BY <1>1, EmptyFacts DEF Init
<1>3. Linked(old_table) = {} /\ NoRepeat(old_table)
  BY <1>1, EmptyFacts DEF Init
<1>4. TypeOK
  BY <1>2, SizeAssumption DEF Init, TypeOK
<1>5. Placed
  BY DEF Placed, Init, Empty
<1>6. VisitedEmpty
  BY DEF VisitedEmpty, Init, Empty
<1>7. Contents = {} /\ Owned = {}
  BY <1>2, <1>3, HandleAssumption DEF Contents, Owned, Init
<1> QED
  BY <1>2, <1>3, <1>4, <1>5, <1>6, <1>7
     DEF IInv, PendingApart, LinkedOnce, CheckedUnique

(* A handle that MayAdd accepts has no guarded rival in the scope. *)
LEMMA MayAddFresh ==
  ASSUME IInv, pc = "idle", NEW h \in Handle, MayAdd(h)
  PROVE  /\ h \notin Linked(mHashTable)
         /\ h \in Checked => \A g \in Contents : NameOf[g] # NameOf[h]
         /\ \A g \in Owned : NameOf[g] = NameOf[h] => NameOf[h] \notin CheckedNames
<1>1. Contents = Linked(mHashTable) /\ Owned = Contents
  BY IdleOldEmpty DEF IInv
<1>2. ASSUME h \in Checked
      PROVE  \A g \in Contents : NameOf[g] # NameOf[h]
  <2>1. FindLocal(NameOf[h]) = NULL
    BY <1>2 DEF MayAdd
  <2>2. NameOf[h] \in Name
    BY HandleAssumption
  <2> QED
    BY <1>1, <2>1, <2>2, FindLocalFacts DEF IInv
<1>3. NameOf[h] \in CheckedNames => h \in Checked
  BY DEF CheckedNames
<1> QED
  BY <1>1, <1>2, <1>3 DEF MayAdd

(* Adding such a handle keeps the guarded names unique. *)
LEMMA FreshKeepsUnique ==
  ASSUME CheckedUnique, NEW h, Owned' = Owned \cup {h},
         \A g \in Owned : NameOf[g] = NameOf[h] => NameOf[h] \notin CheckedNames
  PROVE  CheckedUnique'
<1>1. CheckedNames' = CheckedNames
  BY DEF CheckedNames
<1> QED
  BY <1>1 DEF CheckedUnique

(* add without growth keeps the invariant. *)
LEMMA AddFitsIInv ==
  ASSUME IInv, NEW h \in Handle, AddFits(h)
  PROVE  IInv' /\ Contents' = Contents \cup {h}
<1>1. /\ TypeOK /\ Placed /\ pc = "idle" /\ MayAdd(h) /\ Put(h)
      /\ pc' = pc /\ old_table' = old_table /\ bucket' = bucket /\ item' = item
  BY DEF IInv, AddFits
<1>2. /\ IsTable(mHashTable', mHashSize, Handle)
      /\ mHashSize' = mHashSize /\ mNextLimit' = mNextLimit
      /\ mHashNum' \in Nat
      /\ Placed'
      /\ Linked(mHashTable') = Linked(mHashTable) \cup {h}
      /\ NoRepeat(mHashTable) /\ h \notin Linked(mHashTable)
           => NoRepeat(mHashTable')
  BY <1>1, PutFacts
<1>3. /\ h \notin Linked(mHashTable)
      /\ \A g \in Owned : NameOf[g] = NameOf[h] => NameOf[h] \notin CheckedNames
  BY <1>1, MayAddFresh
<1>4. Linked(old_table) = {}
  BY <1>1, IdleOldEmpty
<1>5. Contents' = Contents \cup {h} /\ Owned' = Owned \cup {h}
  BY <1>1, <1>2 DEF Contents, Owned
<1>6. TypeOK'
  BY <1>1, <1>2 DEF TypeOK, OldSize
<1>7. VisitedEmpty'
  BY <1>1 DEF IInv, VisitedEmpty
<1>8. PendingApart'
  <2>1. item = NULL /\ NULL \notin Handle /\ Checked \subseteq Handle
    BY <1>1, HandleAssumption DEF TypeOK
  <2> QED
    BY <1>1, <1>5, <2>1 DEF IInv, PendingApart
<1>9. LinkedOnce'
  BY <1>1, <1>2, <1>3, <1>4 DEF IInv, LinkedOnce
<1>10. CheckedUnique'
  BY <1>3, <1>5, FreshKeepsUnique DEF IInv
<1> QED
  BY <1>2, <1>5, <1>6, <1>7, <1>8, <1>9, <1>10 DEF IInv

(* Entering alloc_table keeps the invariant: the whole table becomes old. *)
LEMMA AddGrowsIInv ==
  ASSUME IInv, NEW h \in Handle, AddGrows(h)
  PROVE  IInv' /\ Contents' = Contents
<1>1. /\ TypeOK /\ Placed /\ pc = "idle" /\ MayAdd(h)
      /\ pc' = "rehash" /\ old_table' = mHashTable /\ bucket' = 0 /\ item' = h
      /\ mHashSize' = 2 * mHashSize
      /\ mNextLimit' = Limit(2 * mHashSize)
      /\ mHashTable' = Empty(2 * mHashSize)
      /\ mHashNum' = mHashNum
  BY DEF IInv, AddGrows
<1>2. /\ mHashSize \in Nat \ {0} /\ mHashNum \in Nat
      /\ IsTable(mHashTable, mHashSize, Handle)
  BY <1>1 DEF TypeOK
<1>3. 2 * mHashSize \in Nat \ {0} /\ (2 * mHashSize) \div 2 = mHashSize
  BY <1>2
<1>4. /\ IsTable(mHashTable', 2 * mHashSize, Handle)
      /\ Linked(mHashTable') = {}
      /\ NoRepeat(mHashTable')
  BY <1>1, <1>3, EmptyFacts
<1>5. /\ h \notin Linked(mHashTable)
      /\ h \in Checked => \A g \in Contents : NameOf[g] # NameOf[h]
      /\ \A g \in Owned : NameOf[g] = NameOf[h] => NameOf[h] \notin CheckedNames
  BY <1>1, MayAddFresh
<1>6. Contents = Linked(mHashTable) /\ Owned = Contents
  BY <1>1, IdleOldEmpty
<1>7. Contents' = Contents /\ Owned' = Owned \cup {h}
  BY <1>1, <1>4, <1>6 DEF Contents, Owned
<1>8. TypeOK'
  BY <1>1, <1>2, <1>3, <1>4 DEF TypeOK, OldSize
<1>9. Placed'
  BY <1>1, <1>3 DEF Placed, Empty
<1>10. VisitedEmpty'
  <2>1. DOMAIN old_table' = 0 .. mHashSize - 1
    BY <1>1, <1>2 DEF IsTable
  <2> QED
    BY <1>1, <1>2, <2>1 DEF VisitedEmpty
<1>11. PendingApart'
  BY <1>1, <1>5, <1>6, <1>7 DEF PendingApart
<1>12. LinkedOnce'
  BY <1>1, <1>4 DEF IInv, LinkedOnce
<1>13. CheckedUnique'
  BY <1>5, <1>7, FreshKeepsUnique DEF IInv
<1> QED
  BY <1>7, <1>8, <1>9, <1>10, <1>11, <1>12, <1>13 DEF IInv

(* Moving one handle keeps the invariant and the contents. *)
LEMMA RehashPutIInv ==
  ASSUME IInv, RehashPut
  PROVE  IInv' /\ Contents' = Contents
<1> DEFINE x == HeadOf(old_table, bucket)
<1>1. /\ TypeOK /\ Placed /\ pc = "rehash" /\ bucket \in DOMAIN old_table
      /\ ~ AtEnd(old_table, bucket) /\ Put(x)
      /\ old_table' = DropHead(old_table, bucket)
      /\ pc' = pc /\ bucket' = bucket /\ item' = item
  BY DEF IInv, RehashPut
<1>2. /\ mHashSize \in Nat \ {0} /\ OldSize \in Nat
      /\ IsTable(old_table, OldSize, Handle)
      /\ bucket \in 0 .. OldSize
      /\ item \in Handle
  BY <1>1 DEF TypeOK, OldSize
<1>3. bucket \in 0 .. OldSize - 1
  BY <1>1, <1>2 DEF IsTable
<1>4. /\ x \in Handle
      /\ x \in Linked(old_table)
      /\ IsTable(old_table', OldSize, Handle)
      /\ Linked(old_table) = Linked(old_table') \cup {x}
      /\ NoRepeat(old_table) => NoRepeat(old_table') /\ x \notin Linked(old_table')
  <2>1. ~ AtEnd(old_table, bucket) /\ old_table' = DropHead(old_table, bucket)
    BY <1>1
  <2>2. x = HeadOf(old_table, bucket)
    OBVIOUS
  <2> HIDE DEF x
  <2> QED
    BY <1>2, <1>3, <2>1, <2>2, DropHeadFacts
<1> HIDE DEF x
<1>5. /\ IsTable(mHashTable', mHashSize, Handle)
      /\ mHashSize' = mHashSize /\ mNextLimit' = mNextLimit
      /\ mHashNum' \in Nat
      /\ Placed'
      /\ Linked(mHashTable') = Linked(mHashTable) \cup {x}
      /\ NoRepeat(mHashTable) /\ x \notin Linked(mHashTable)
           => NoRepeat(mHashTable')
  BY <1>1, <1>4, PutFacts
<1>6. /\ NoRepeat(mHashTable) /\ NoRepeat(old_table)
      /\ Linked(mHashTable) \cap Linked(old_table) = {}
  BY DEF IInv, LinkedOnce
<1>7. Contents' = Contents /\ Owned' = Owned
  BY <1>1, <1>4, <1>5 DEF Contents, Owned
<1>8. TypeOK'
  BY <1>1, <1>2, <1>4, <1>5 DEF TypeOK, OldSize
<1>9. VisitedEmpty'
  <2>1. \A b \in DOMAIN old_table' : b # bucket => old_table'[b] = old_table[b]
    BY <1>1 DEF DropHead
  <2>2. DOMAIN old_table' = DOMAIN old_table /\ DOMAIN old_table \subseteq Int
    BY <1>2, <1>4 DEF IsTable
  <2> QED
    BY <1>1, <1>2, <2>1, <2>2 DEF IInv, VisitedEmpty
<1>10. PendingApart'
  BY <1>1, <1>7 DEF IInv, PendingApart
<1>11. LinkedOnce'
  BY <1>4, <1>5, <1>6 DEF LinkedOnce
<1>12. CheckedUnique'
  BY <1>7 DEF IInv, CheckedUnique, CheckedNames
<1> QED
  BY <1>5, <1>7, <1>8, <1>9, <1>10, <1>11, <1>12 DEF IInv

(* Leaving an empty chain behind keeps the invariant and the contents. *)
LEMMA RehashNextIInv ==
  ASSUME IInv, RehashNext
  PROVE  IInv' /\ Contents' = Contents
<1>1. /\ TypeOK /\ pc = "rehash" /\ bucket \in DOMAIN old_table
      /\ AtEnd(old_table, bucket)
      /\ bucket' = bucket + 1
      /\ pc' = pc /\ item' = item /\ old_table' = old_table
      /\ mHashTable' = mHashTable /\ mHashSize' = mHashSize
      /\ mNextLimit' = mNextLimit /\ mHashNum' = mHashNum
  BY DEF IInv, RehashNext, table
<1>2. /\ mHashSize \in Nat \ {0} /\ OldSize \in Nat
      /\ IsTable(old_table, OldSize, Handle)
      /\ bucket \in 0 .. OldSize
      /\ item \in Handle
  BY <1>1 DEF TypeOK, OldSize
<1>3. DOMAIN old_table = 0 .. OldSize - 1
  BY <1>2 DEF IsTable
<1>4. Contents' = Contents /\ Owned' = Owned
  BY <1>1 DEF Contents, Owned
<1>5. TypeOK'
  BY <1>1, <1>2, <1>3 DEF TypeOK, OldSize
<1>6. VisitedEmpty'
  <2>1. SUFFICES ASSUME NEW b \in 0 .. OldSize - 1, b < bucket + 1
                 PROVE  old_table[b] = <<>>
    BY <1>1, <1>3 DEF VisitedEmpty
  <2>2. b = bucket \/ b < bucket
    BY <1>2, <2>1
  <2> QED
    BY <1>1, <1>3, <2>2 DEF IInv, VisitedEmpty, AtEnd
<1>7. Placed' /\ PendingApart' /\ LinkedOnce' /\ CheckedUnique'
  BY <1>1, <1>4
     DEF IInv, Placed, PendingApart, LinkedOnce, CheckedUnique, CheckedNames
<1> QED
  BY <1>4, <1>5, <1>6, <1>7 DEF IInv

(* The end of the rehash: nothing is left behind in the old table. *)
LEMMA AddDoneIInv ==
  ASSUME IInv, AddDone
  PROVE  IInv' /\ Contents' = Contents \cup {item}
<1>1. /\ TypeOK /\ Placed /\ pc = "rehash" /\ bucket \notin DOMAIN old_table
      /\ Put(item) /\ pc' = "idle" /\ old_table' = Empty(0)
      /\ bucket' = 0 /\ item' = NULL
  BY DEF IInv, AddDone
<1>2. /\ mHashSize \in Nat \ {0} /\ OldSize \in Nat
      /\ IsTable(old_table, OldSize, Handle)
      /\ bucket \in 0 .. OldSize
      /\ item \in Handle
  BY <1>1 DEF TypeOK, OldSize
<1>3. DOMAIN old_table = 0 .. OldSize - 1
  BY <1>2 DEF IsTable
<1>4. Linked(old_table) = {}
  <2>1. bucket = OldSize
    BY <1>1, <1>2, <1>3
  <2>2. \A b \in DOMAIN old_table : old_table[b] = <<>>
    BY <1>2, <1>3, <2>1 DEF IInv, VisitedEmpty
  <2>3. \A b \in DOMAIN old_table : DOMAIN old_table[b] = {}
    BY <2>2
  <2> QED
    BY <2>3, LinkedIff
<1>5. /\ IsTable(mHashTable', mHashSize, Handle)
      /\ mHashSize' = mHashSize /\ mNextLimit' = mNextLimit
      /\ mHashNum' \in Nat
      /\ Placed'
      /\ Linked(mHashTable') = Linked(mHashTable) \cup {item}
      /\ NoRepeat(mHashTable) /\ item \notin Linked(mHashTable)
           => NoRepeat(mHashTable')
  BY <1>1, <1>2, PutFacts
<1>6. Linked(old_table') = {} /\ NoRepeat(old_table')
  BY <1>1, EmptyFacts
<1>7. item \notin Linked(mHashTable)
  BY DEF IInv, PendingApart, Contents
<1>8. Contents' = Contents \cup {item} /\ Owned' = Owned
  BY <1>1, <1>2, <1>4, <1>5, <1>6, HandleAssumption DEF Contents, Owned
<1>9. TypeOK'
  BY <1>1, <1>2, <1>5 DEF TypeOK, OldSize
<1>10. VisitedEmpty'
  BY <1>1 DEF VisitedEmpty, Empty
<1>11. PendingApart'
  <2>1. Contents' \subseteq Handle
    BY <1>2, <1>4, <1>5, <1>6, LinkedInHandle DEF Contents
  <2>2. NULL \notin Handle /\ Checked \subseteq Handle
    BY HandleAssumption
  <2> QED
    BY <1>1, <2>1, <2>2 DEF PendingApart
<1>12. LinkedOnce'
  BY <1>5, <1>6, <1>7 DEF IInv, LinkedOnce
<1>13. CheckedUnique'
  BY <1>8 DEF IInv, CheckedUnique, CheckedNames
<1> QED
  BY <1>5, <1>8, <1>9, <1>10, <1>11, <1>12, <1>13 DEF IInv

(* Every step keeps the invariant. *)
LEMMA NextIInv == IInv /\ [Next]_vars => IInv'
<1> SUFFICES ASSUME IInv, [Next]_vars PROVE IInv'
  OBVIOUS
<1>1. ASSUME NEW h \in Handle, AddFits(h) PROVE IInv'
  BY <1>1, AddFitsIInv
<1>2. ASSUME NEW h \in Handle, AddGrows(h) PROVE IInv'
  BY <1>2, AddGrowsIInv
<1>3. CASE RehashPut
  BY <1>3, RehashPutIInv
<1>4. CASE RehashNext
  BY <1>4, RehashNextIInv
<1>5. CASE AddDone
  BY <1>5, AddDoneIInv
<1>6. CASE UNCHANGED vars
  BY <1>6 DEF vars, IInv, TypeOK, OldSize, Placed, VisitedEmpty, PendingApart,
              LinkedOnce, CheckedUnique, CheckedNames, Owned, Contents
<1> QED
  BY <1>1, <1>2, <1>3, <1>4, <1>5, <1>6 DEF Next, Rehash

(* Adding a handle to a finite scope adds at most one to its size. *)
LEMMA CardAdd ==
  ASSUME NEW S, IsFiniteSet(S), NEW x
  PROVE  /\ IsFiniteSet(S \cup {x})
         /\ Cardinality(S \cup {x}) \in Nat
         /\ Cardinality(S \cup {x}) <= Cardinality(S) + 1
<1>1. IsFiniteSet(S \cup {x}) /\ Cardinality(S) \in Nat
  BY FS_AddElement, FS_CardinalityType
<1>2. \/ Cardinality(S \cup {x}) = Cardinality(S)
      \/ Cardinality(S \cup {x}) = Cardinality(S) + 1
  BY FS_AddElement
<1> QED
  BY <1>1, <1>2

(* The table doubles in time: mHashNum may overcount after a rehash, but   *)
(* it never undercounts.                                                   *)
LEMMA NextLoadInv == IInv /\ LoadInv /\ [Next]_vars => LoadInv'
<1> SUFFICES ASSUME IInv, LoadInv, [Next]_vars PROVE LoadInv'
  OBVIOUS
<1>1. /\ TypeOK /\ mHashSize \in Nat \ {0} /\ mHashNum \in Nat
      /\ mNextLimit = Limit(mHashSize)
  BY DEF IInv, TypeOK
<1>2. IsFiniteSet(Contents) /\ Cardinality(Contents) \in Nat
  BY FS_CardinalityType DEF LoadInv
<1>3. ASSUME NEW h \in Handle, AddFits(h) PROVE LoadInv'
  <2>1. /\ Contents' = Contents \cup {h}
        /\ mHashNum' = mHashNum + 1 /\ mNextLimit' = mNextLimit
        /\ pc = "idle" /\ pc' = "idle" /\ mHashNum < mNextLimit
    BY <1>3, AddFitsIInv DEF AddFits, Put
  <2>2. mNextLimit \in Nat
    BY <1>1 DEF Limit
  <2>3. /\ IsFiniteSet(Contents')
        /\ Cardinality(Contents') \in Nat
        /\ Cardinality(Contents') <= Cardinality(Contents) + 1
    BY <1>2, <2>1, CardAdd
  <2>4. Cardinality(Contents) <= mHashNum
    BY DEF LoadInv
  <2>5. Cardinality(Contents') <= mHashNum' /\ Cardinality(Contents') <= mNextLimit'
    BY <1>1, <1>2, <2>1, <2>2, <2>3, <2>4
  <2> QED
    BY <2>1, <2>3, <2>5 DEF LoadInv
<1>4. ASSUME NEW h \in Handle, AddGrows(h) PROVE LoadInv'
  <2>1. /\ Contents' = Contents
        /\ mHashNum' = mHashNum /\ mHashSize' = 2 * mHashSize
        /\ pc = "idle" /\ pc' = "rehash"
    BY <1>4, AddGrowsIInv DEF AddGrows
  <2>2. OldSize' = mHashSize
    BY <1>1, <2>1 DEF OldSize
  <2> QED
    BY <1>1, <2>1, <2>2 DEF LoadInv
<1>5. CASE RehashPut
  <2>1. /\ Contents' = Contents
        /\ mHashNum' = mHashNum + 1 /\ mHashSize' = mHashSize
        /\ pc = "rehash" /\ pc' = "rehash"
    BY <1>5, RehashPutIInv DEF RehashPut, Put
  <2> QED
    BY <1>1, <1>2, <2>1 DEF LoadInv, OldSize
<1>6. CASE RehashNext
  <2>1. /\ Contents' = Contents
        /\ mHashNum' = mHashNum /\ mHashSize' = mHashSize
        /\ pc = "rehash" /\ pc' = "rehash"
    BY <1>6, RehashNextIInv DEF RehashNext, table
  <2> QED
    BY <2>1 DEF LoadInv, OldSize
<1>7. CASE AddDone
  <2>1. /\ Contents' = Contents \cup {item}
        /\ mHashNum' = mHashNum + 1 /\ mNextLimit' = mNextLimit
        /\ pc = "rehash" /\ pc' = "idle"
    BY <1>7, AddDoneIInv DEF AddDone, Put
  <2>2. Limit(OldSize) + 1 <= Limit(mHashSize) /\ Limit(OldSize) \in Nat
    BY <1>1 DEF Limit, OldSize
  <2>3. mNextLimit \in Nat
    BY <1>1 DEF Limit
  <2>4. /\ IsFiniteSet(Contents')
        /\ Cardinality(Contents') \in Nat
        /\ Cardinality(Contents') <= Cardinality(Contents) + 1
    BY <1>2, <2>1, CardAdd
  <2>5. Cardinality(Contents) <= mHashNum /\ Cardinality(Contents) <= Limit(OldSize)
    BY <2>1 DEF LoadInv
  <2>6. Cardinality(Contents') <= mHashNum' /\ Cardinality(Contents') <= mNextLimit'
    BY <1>1, <1>2, <2>1, <2>2, <2>3, <2>4, <2>5
  <2> QED
    BY <2>1, <2>4, <2>6 DEF LoadInv
<1>8. CASE UNCHANGED vars
  <2>1. /\ Contents' = Contents /\ mHashNum' = mHashNum
        /\ mNextLimit' = mNextLimit /\ mHashSize' = mHashSize /\ pc' = pc
    BY <1>8 DEF vars, Contents
  <2> QED
    BY <2>1 DEF LoadInv, OldSize
<1> QED
  BY <1>3, <1>4, <1>5, <1>6, <1>7, <1>8 DEF Next, Rehash

(* The table is always well formed, inside alloc_table too. *)
THEOREM ScopeTypeOK == Spec => []TypeOK
<1>1. IInv => TypeOK
  BY DEF IInv
<1> QED
  BY <1>1, InitIInv, NextIInv, PTL DEF Spec

(* find_local is right after any sequence of adds and rehashes. *)
THEOREM ScopeLookupSound == Spec => []LookupSound
<1>1. IInv => LookupSound
  BY LookupFromInv DEF IInv
<1> QED
  BY <1>1, InitIInv, NextIInv, PTL DEF Spec

(* Names declared through check_name never get a second handle. *)
THEOREM ScopeCheckedUnique == Spec => []CheckedUnique
<1>1. IInv => CheckedUnique
  BY DEF IInv
<1> QED
  BY <1>1, InitIInv, NextIInv, PTL DEF Spec

(* No handle is linked twice through its single mLink field. *)
THEOREM ScopeLinkedOnce == Spec => []LinkedOnce
<1>1. IInv => LinkedOnce
  BY DEF IInv
<1> QED
  BY <1>1, InitIInv, NextIInv, PTL DEF Spec

(* The chains of a scope stay short on average: never more handles than    *)
(* 1.8 times the number of buckets.                                        *)
THEOREM ScopeLoadBounded == Spec => []LoadBounded
<1>1. Init => LoadInv
  <2> SUFFICES ASSUME Init PROVE LoadInv
    OBVIOUS
  <2>1. InitSize \in Nat /\ 0 \in Nat
    BY SizeAssumption
  <2>2. Linked(mHashTable) = {} /\ Linked(old_table) = {}
    BY <2>1, EmptyFacts DEF Init
  <2>3. Contents = {}
    BY <2>2 DEF Contents
  <2>4. mNextLimit \in Nat /\ mHashNum = 0 /\ pc = "idle"
    BY <2>1 DEF Init, Limit
  <2> QED
    BY <2>3, <2>4, FS_EmptySet DEF LoadInv
<1>2. TypeOK /\ LoadInv => LoadBounded
  <2> SUFFICES ASSUME TypeOK, LoadInv, pc = "idle"
               PROVE  Cardinality(Contents) * 5 <= mHashSize * 9
    BY DEF LoadBounded
  <2>1. Cardinality(Contents) \in Nat
    BY FS_CardinalityType DEF LoadInv
  <2>2. mHashSize \in Nat /\ Cardinality(Contents) <= (mHashSize * 9) \div 5
    BY DEF TypeOK, LoadInv, Limit
  <2> QED
    BY <2>1, <2>2
<1>3. IInv => TypeOK
  BY DEF IInv
<1> QED
  BY <1>1, <1>2, <1>3, InitIInv, NextIInv, NextLoadInv, PTL DEF Spec

(* The hash table implements the growing dictionary: a step of add adds    *)
(* one handle, a step of alloc_table changes nothing.                      *)
THEOREM ScopeImplementsDict == Spec => ImplementsDict
<1>1. Init => Dict!DictInit
  <2> SUFFICES ASSUME Init PROVE Contents = {}
    BY DEF Dict!DictInit
  <2>1. InitSize \in Nat /\ 0 \in Nat
    BY SizeAssumption
  <2>2. Linked(mHashTable) = {} /\ Linked(old_table) = {}
    BY <2>1, EmptyFacts DEF Init
  <2> QED
    BY <2>2 DEF Contents
<1>2. IInv /\ [Next]_vars => [Dict!DictNext]_Contents
  <2> SUFFICES ASSUME IInv, [Next]_vars
               PROVE  Dict!DictNext \/ Contents' = Contents
    OBVIOUS
  <2>1. ASSUME NEW h \in Handle, AddFits(h)
        PROVE  Dict!DictAdd(h)
    <3>1. Contents' = Contents \cup {h} /\ h \notin Contents
      BY <2>1, AddFitsIInv DEF AddFits, MayAdd
    <3>2. h \in Checked => \A g \in Contents : NameOf[g] # NameOf[h]
      BY <2>1, MayAddFresh DEF AddFits
    <3> QED
      BY <3>1, <3>2 DEF Dict!DictAdd, Dict!Bound
  <2>2. ASSUME NEW h \in Handle, AddGrows(h) PROVE Contents' = Contents
    BY <2>2, AddGrowsIInv
  <2>3. CASE RehashPut
    BY <2>3, RehashPutIInv
  <2>4. CASE RehashNext
    BY <2>4, RehashNextIInv
  <2>5. ASSUME AddDone
        PROVE  item \in Handle /\ Dict!DictAdd(item)
    <3>1. Contents' = Contents \cup {item}
      BY <2>5, AddDoneIInv
    <3>2. item \in Handle
      BY <2>5 DEF AddDone, IInv, TypeOK
    <3>3. /\ item \notin Contents
          /\ item \in Checked => \A g \in Contents : NameOf[g] # NameOf[item]
      BY DEF IInv, PendingApart
    <3> QED
      BY <3>1, <3>2, <3>3 DEF Dict!DictAdd, Dict!Bound
  <2>6. CASE UNCHANGED vars
    BY <2>6 DEF vars, Contents
  <2> QED
    BY <2>1, <2>2, <2>3, <2>4, <2>5, <2>6 DEF Next, Rehash, Dict!DictNext
<1> QED
  BY <1>1, <1>2, InitIInv, NextIInv, PTL DEF Spec, ImplementsDict, Dict!DictSpec
==============================================================================
