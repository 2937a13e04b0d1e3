---------------------------- MODULE TypeMgr_proof ----------------------------
(***************************************************************************)
(* Proofs about TypeMgr: composite types are unique by structure, every    *)
(* one is found again, and the manager implements the interning table of   *)
(* TypeIntern, for every pair of agreeing hash functions, every initial    *)
(* size and every number of types.                                         *)
(***************************************************************************)
EXTENDS TypeMgr, SeqLemmas, FiniteSetTheorems

(* The bucket a shape is searched in is the bucket it is filed in. *)
LEMMA PosFacts ==
  ASSUME NEW s \in Shape, Hashed(s), NEW size \in Nat \ {0}
  PROVE  /\ Pos(s, size) \in 0 .. size - 1
         /\ HashReq(s) % size = Pos(s, size)
<1>1. HashReq(s) \in Nat /\ HashType(s) = HashReq(s)
  BY TypeMgrAssumption
<1> QED
  BY <1>1 DEF Pos

(* Every registered type has one of the known shapes. *)
LEMMA ShapeType ==
  ASSUME TypeOK, NEW t \in Ids
  PROVE  ShapeOf(t) \in Shape /\ t \in TypeId
<1>1. mTypeList \in Seq(Shape) /\ Len(mTypeList) \in Nat
  BY LenProperties DEF TypeOK
<1>2. t + 1 \in 1 .. Len(mTypeList) /\ t \in Nat
  BY <1>1 DEF Ids
<1> QED
  BY <1>1, <1>2, ElementOfSeq DEF ShapeOf, TypeId

(* The search of the get functions finds the type filed under a shape, if  *)
(* there is one.                                                           *)
LEMMA LookupFacts ==
  ASSUME TypeOK, FiledHashed, Placed, pc = "idle", NEW s \in Shape, Hashed(s)
  PROVE  /\ Lookup(s) = NULL <=> \A t \in Linked(mHashTable) : ShapeOf(t) # s
         /\ Lookup(s) # NULL => /\ Lookup(s) \in Linked(mHashTable)
                                /\ ShapeOf(Lookup(s)) = s
<1> DEFINE pos == Pos(s, mHashSize)
           chain == mHashTable[pos]
           hits == {k \in DOMAIN chain : ShapeOf(chain[k]) = s}
<1>1. /\ mHashSize \in Nat \ {0} /\ IsTable(mHashTable, mHashSize, TypeId)
  BY DEF TypeOK
<1>2. /\ pos \in 0 .. mHashSize - 1 /\ DOMAIN mHashTable = 0 .. mHashSize - 1
      /\ HashReq(s) % mHashSize = pos
  BY <1>1, PosFacts DEF IsTable
<1>3. chain \in Seq(TypeId) /\ DOMAIN chain \subseteq Nat
  BY <1>1, <1>2, LenProperties DEF IsTable
<1>4. \A k \in DOMAIN chain : chain[k] \in Nat /\ chain[k] \in Linked(mHashTable)
  <2>1. TAKE k \in DOMAIN chain
  <2>2. chain[k] \in Nat
    BY <1>3, LenProperties DEF TypeId
  <2> QED
    BY <1>2, <2>2, LinkedIff
<1>5. ASSUME NEW t \in Linked(mHashTable), ShapeOf(t) = s
      PROVE  hits # {}
  <2>1. PICK b \in DOMAIN mHashTable : \E k \in DOMAIN mHashTable[b] : mHashTable[b][k] = t
    BY LinkedIff
  <2>2. PICK k \in DOMAIN mHashTable[b] : mHashTable[b][k] = t
    BY <2>1
  <2>3. b = pos
    BY <1>5, <2>2 DEF Placed
  <2> QED
    BY <1>5, <2>2, <2>3
<1>6. Lookup(s) = IF hits = {} THEN NULL ELSE chain[First(hits)]
  BY <1>2, Zenon DEF Lookup
<1>7. ASSUME hits # {}
      PROVE  /\ Lookup(s) \in Linked(mHashTable)
             /\ Lookup(s) \in Nat
             /\ ShapeOf(Lookup(s)) = s
  <2>1. hits \subseteq Nat
    BY <1>3
  <2>2. First(hits) \in hits
    BY <1>7, <2>1, FirstInSet
  <2>3. Lookup(s) = chain[First(hits)]
    BY <1>6, <1>7
  <2> QED
    BY <1>4, <2>2, <2>3
<1>8. hits = {} => Lookup(s) = NULL
  BY <1>6
<1>9. NULL \notin Nat
  BY TypeMgrAssumption
<1> HIDE DEF hits, chain, pos
<1> QED
  BY <1>5, <1>7, <1>8, <1>9

(* Between two calls nothing is left in the old table. *)
LEMMA IdleOldEmpty ==
  ASSUME TypeOK, pc = "idle"
  PROVE  Linked(old_table) = {} /\ Filed = Linked(mHashTable)
<1>1. old_table = Empty(0)
  BY DEF TypeOK
<1>2. Linked(old_table) = {}
  BY <1>1, EmptyFacts
<1> QED
  BY <1>2 DEF Filed

(* The search fails exactly for the shapes no registered type has. *)
LEMMA LookupComplete ==
  ASSUME IInv, pc = "idle", NEW s \in Shape, Hashed(s)
  PROVE  /\ Lookup(s) = NULL => \A t \in Ids : ShapeOf(t) # s
         /\ Lookup(s) # NULL => Lookup(s) \in Ids /\ ShapeOf(Lookup(s)) = s
<1>1. Filed = Linked(mHashTable)
  BY IdleOldEmpty DEF IInv
<1>2. /\ Lookup(s) = NULL <=> \A t \in Linked(mHashTable) : ShapeOf(t) # s
      /\ Lookup(s) # NULL => /\ Lookup(s) \in Linked(mHashTable)
                             /\ ShapeOf(Lookup(s)) = s
  BY LookupFacts DEF IInv
<1>3. \A t \in Ids : ShapeOf(t) = s => t \in Filed
  BY DEF IInv, AllFiled
<1> QED
  BY <1>1, <1>2, <1>3 DEF IInv, FiledHashed

(* Between two calls, every composite type answers a search for its shape. *)
LEMMA FoundFromInv ==
  ASSUME IInv
  PROVE  EveryTypeFound
<1>1. SUFFICES ASSUME pc = "idle", NEW t \in Ids, Hashed(ShapeOf(t))
               PROVE  Lookup(ShapeOf(t)) = t
  BY DEF EveryTypeFound
<1>2. ShapeOf(t) \in Shape
  BY ShapeType DEF IInv
<1>3. Lookup(ShapeOf(t)) \in Ids /\ ShapeOf(Lookup(ShapeOf(t))) = ShapeOf(t)
  BY <1>1, <1>2, LookupComplete
<1> QED
  BY <1>1, <1>3 DEF IInv, TypesUnique

(* reg_type's push_back: one more type, the others as they were. *)
LEMMA NewFacts ==
  ASSUME TypeOK, NEW s \in Shape, New(s)
  PROVE  /\ mTypeList' \in Seq(Shape)
         /\ Len(mTypeList) \in Nat
         /\ Ids' = Ids \cup {Len(mTypeList)}
         /\ Len(mTypeList) \notin Ids
         /\ \A t \in Ids : mTypeList'[t + 1] = mTypeList[t + 1]
         /\ mTypeList'[Len(mTypeList) + 1] = s
         /\ type' = Len(mTypeList)
         /\ pc = "idle"
<1>1. /\ mTypeList \in Seq(Shape) /\ mTypeList' = Append(mTypeList, s)
      /\ type' = Len(mTypeList) /\ pc = "idle"
  BY DEF TypeOK, New
<1>2. Len(mTypeList) \in Nat /\ DOMAIN mTypeList = 1 .. Len(mTypeList)
  BY <1>1, LenProperties
<1>3. /\ mTypeList' \in Seq(Shape)
      /\ Len(mTypeList') = Len(mTypeList) + 1
      /\ \A i \in 1 .. Len(mTypeList) : mTypeList'[i] = mTypeList[i]
      /\ mTypeList'[Len(mTypeList) + 1] = s
  BY <1>1, AppendProperties
<1>4. \A t \in Ids : t + 1 \in 1 .. Len(mTypeList)
  BY <1>2 DEF Ids
<1> QED
  BY <1>1, <1>2, <1>3, <1>4 DEF Ids

(* A new composite type has a shape no other type has. *)
LEMMA NewUnique ==
  ASSUME IInv, NEW s \in Shape, New(s)
  PROVE  TypesUnique'
<1>1. /\ Ids' = Ids \cup {Len(mTypeList)}
      /\ \A t \in Ids : mTypeList'[t + 1] = mTypeList[t + 1]
      /\ mTypeList'[Len(mTypeList) + 1] = s
      /\ pc = "idle"
  BY NewFacts DEF IInv
<1>2. Hashed(s) => \A t \in Ids : mTypeList[t + 1] # s
  BY <1>1, LookupComplete DEF New, ShapeOf
<1>3. SUFFICES ASSUME NEW t \in Ids', NEW u \in Ids',
                      Hashed(mTypeList'[t + 1]),
                      mTypeList'[t + 1] = mTypeList'[u + 1]
               PROVE  t = u
  BY DEF TypesUnique, ShapeOf
<1>4. CASE t \in Ids /\ u \in Ids
  BY <1>1, <1>3, <1>4 DEF IInv, TypesUnique, ShapeOf
<1>5. CASE ~(t \in Ids /\ u \in Ids)
  BY <1>1, <1>2, <1>3, <1>5
<1> QED
  BY <1>4, <1>5

(* Linking a type of shape s at the head of the chain of its hash. *)
LEMMA LinkFacts ==
  ASSUME mHashSize \in Nat \ {0}, IsTable(mHashTable, mHashSize, TypeId),
         NEW t \in TypeId, NEW s \in Shape, Hashed(s),
         mHashTable' = Prepend(mHashTable, Pos(s, mHashSize), t)
  PROVE  /\ IsTable(mHashTable', mHashSize, TypeId)
         /\ OnlyAdds(mHashTable, mHashTable', Pos(s, mHashSize), t)
         /\ Linked(mHashTable') = Linked(mHashTable) \cup {t}
<1> DEFINE pos == Pos(s, mHashSize)
<1>1. pos \in 0 .. mHashSize - 1 /\ mHashSize \in Nat
  BY PosFacts
<1>2. mHashTable' = Prepend(mHashTable, pos, t)
  OBVIOUS
<1> HIDE DEF pos
<1>3. /\ IsTable(mHashTable', mHashSize, TypeId)
      /\ OnlyAdds(mHashTable, mHashTable', pos, t)
      /\ Linked(mHashTable') = Linked(mHashTable) \cup {t}
  BY <1>1, <1>2, PrependFacts
<1> QED
  BY <1>3 DEF pos

(* What the end of reg_type does to the table. *)
LEMMA EnterFacts ==
  ASSUME mHashSize \in Nat \ {0}, IsTable(mHashTable, mHashSize, TypeId),
         mHashNum \in Nat,
         NEW t \in TypeId, NEW s \in Shape, Enter(t, s)
  PROVE  /\ mHashSize' = mHashSize /\ mNextLimit' = mNextLimit
         /\ IsTable(mHashTable', mHashSize, TypeId)
         /\ mHashNum' = IF Hashed(s) THEN mHashNum + 1 ELSE mHashNum
         /\ Linked(mHashTable') = IF Hashed(s) THEN Linked(mHashTable) \cup {t}
                                                ELSE Linked(mHashTable)
         /\ \A b \in DOMAIN mHashTable' : \A k \in DOMAIN mHashTable'[b] :
              \/ Hashed(s) /\ b = Pos(s, mHashSize) /\ mHashTable'[b][k] = t
              \/ \E j \in DOMAIN mHashTable[b] :
                   mHashTable'[b][k] = mHashTable[b][j]
         /\ DOMAIN mHashTable' = DOMAIN mHashTable
<1>1. /\ mHashSize' = mHashSize /\ mNextLimit' = mNextLimit
      /\ mHashNum' = IF Hashed(s) THEN mHashNum + 1 ELSE mHashNum
  BY DEF Enter
<1>2. CASE Hashed(s)
  <2>3. /\ IsTable(mHashTable', mHashSize, TypeId)
        /\ OnlyAdds(mHashTable, mHashTable', Pos(s, mHashSize), t)
        /\ Linked(mHashTable') = Linked(mHashTable) \cup {t}
    BY <1>2, LinkFacts DEF Enter
  <2>4. DOMAIN mHashTable' = DOMAIN mHashTable
    BY <2>3 DEF IsTable
  <2> QED
    BY <1>1, <1>2, <2>3, <2>4 DEF OnlyAdds
<1>3. CASE ~ Hashed(s)
  <2>1. mHashTable' = mHashTable
    BY <1>3 DEF Enter
  <2> QED
    BY <1>1, <1>3, <2>1
<1> QED
  BY <1>2, <1>3

(* The constructor establishes the invariant. *)
LEMMA InitIInv == Init => IInv /\ CountInv
<1> SUFFICES ASSUME Init PROVE IInv /\ CountInv
  OBVIOUS
<1>1. InitSize \in Nat \ {0} /\ 0 \in Nat
  BY TypeMgrAssumption
<1>2. PrimShapes \in Seq(Shape) /\ Len(PrimShapes) = 5
  <2>1. PrimShapes \in [1 .. 5 -> Shape]
    <3>1. DOMAIN PrimShapes = 1 .. 5
      BY DEF PrimShapes, PrimNames
    <3>2. \A i \in 1 .. 5 : PrimShapes[i] \in Shape
      BY <3>1 DEF Shape
    <3>3. PrimShapes = [i \in 1 .. 5 |-> PrimShapes[i]]
      BY <3>1 DEF PrimShapes
    <3> QED
      BY <3>2, <3>3
  <2>2. PrimShapes \in Seq(Shape)
    BY <2>1, SeqDef
  <2> QED
    BY <2>1, <2>2, LenProperties
<1>3. \A t \in Ids : ~ Hashed(ShapeOf(t))
  <2>1. \A i \in 1 .. 5 : PrimShapes[i].kind = "prim"
    BY DEF PrimShapes, PrimNames, PrimShape
  <2> QED
    BY <1>2, <2>1 DEF Init, Ids, ShapeOf, Hashed
<1>4. /\ IsTable(mHashTable, InitSize, TypeId)
      /\ Linked(mHashTable) = {}
      /\ Linked(old_table) = {}
  BY <1>1, EmptyFacts DEF Init
<1>5. Filed = {}
  BY <1>4 DEF Filed
<1>6. TypeOK
  <2>1. mNextLimit \in Nat
    BY <1>1 DEF Init, Limit
  <2> QED
    BY <1>1, <1>2, <1>4, <2>1 DEF Init, TypeOK
<1>7. Placed /\ VisitedEmpty
  BY DEF Placed, VisitedEmpty, Init, Empty
<1>8. FiledHashed /\ AllFiled /\ TypesUnique
  BY <1>3, <1>5 DEF FiledHashed, AllFiled, TypesUnique, Init
<1>9. CountInv
  BY <1>5, FS_EmptySet DEF CountInv, Init
<1> QED
  BY <1>6, <1>7, <1>8, <1>9 DEF IInv

(* reg_type without growth keeps the invariant. *)
LEMMA RegFitsIInv ==
  ASSUME IInv, CountInv, NEW s \in Shape, RegFits(s)
  PROVE  IInv' /\ CountInv'
<1> DEFINE t == Len(mTypeList)
<1>1. /\ TypeOK /\ New(s) /\ Enter(t, s)
      /\ pc' = pc /\ old_table' = old_table /\ bucket' = bucket
  BY DEF IInv, RegFits
<1>2. /\ mTypeList' \in Seq(Shape)
      /\ t \in Nat
      /\ Ids' = Ids \cup {t}
      /\ t \notin Ids
      /\ \A u \in Ids : mTypeList'[u + 1] = mTypeList[u + 1]
      /\ mTypeList'[t + 1] = s
      /\ type' = t
      /\ pc = "idle"
  BY <1>1, NewFacts
<1> HIDE DEF t
<1>3. /\ mHashSize \in Nat \ {0} /\ IsTable(mHashTable, mHashSize, TypeId)
      /\ mHashNum \in Nat /\ mNextLimit = Limit(mHashSize) /\ mNextLimit \in Nat
      /\ old_table = Empty(0) /\ bucket = 0
  BY <1>1, <1>2 DEF TypeOK
<1>4. /\ mHashSize' = mHashSize /\ mNextLimit' = mNextLimit
      /\ IsTable(mHashTable', mHashSize, TypeId)
      /\ mHashNum' = IF Hashed(s) THEN mHashNum + 1 ELSE mHashNum
      /\ Linked(mHashTable') = IF Hashed(s) THEN Linked(mHashTable) \cup {t}
                                             ELSE Linked(mHashTable)
      /\ \A b \in DOMAIN mHashTable' : \A k \in DOMAIN mHashTable'[b] :
           \/ Hashed(s) /\ b = Pos(s, mHashSize) /\ mHashTable'[b][k] = t
           \/ \E j \in DOMAIN mHashTable[b] : mHashTable'[b][k] = mHashTable[b][j]
      /\ DOMAIN mHashTable' = DOMAIN mHashTable
  <2>1. t \in TypeId
    BY <1>2 DEF TypeId
  <2> QED
    BY <1>1, <1>3, <2>1, EnterFacts
<1>5. Filed' = IF Hashed(s) THEN Filed \cup {t} ELSE Filed
  BY <1>1, <1>4 DEF Filed
<1>6. TypeOK'
  BY <1>1, <1>2, <1>3, <1>4 DEF TypeOK, OldSize
<1>7. FiledHashed'
  BY <1>2, <1>5 DEF IInv, FiledHashed, ShapeOf
<1>8. Placed'
  <2>1. SUFFICES ASSUME NEW b \in DOMAIN mHashTable',
                        NEW k \in DOMAIN mHashTable'[b]
                 PROVE  Pos(mTypeList'[mHashTable'[b][k] + 1], mHashSize) = b
    BY <1>4 DEF Placed, ShapeOf
  <2>2. \/ Hashed(s) /\ b = Pos(s, mHashSize) /\ mHashTable'[b][k] = t
        \/ \E j \in DOMAIN mHashTable[b] : mHashTable'[b][k] = mHashTable[b][j]
    BY <1>4
  <2>3. CASE mHashTable'[b][k] = t /\ b = Pos(s, mHashSize)
    BY <1>2, <2>3
  <2>4. ASSUME NEW j \in DOMAIN mHashTable[b], mHashTable'[b][k] = mHashTable[b][j]
        PROVE  Pos(mTypeList'[mHashTable'[b][k] + 1], mHashSize) = b
    <3>1. b \in DOMAIN mHashTable
      BY <1>4
    <3>2. mHashTable[b][j] \in Linked(mHashTable)
      BY <3>1, LinkedIff
    <3>3. mHashTable[b][j] \in Ids
      BY <3>2 DEF IInv, FiledHashed, Filed
    <3> QED
      BY <1>2, <2>4, <3>1, <3>3 DEF IInv, Placed, ShapeOf
  <2> QED
    BY <2>2, <2>3, <2>4
<1>9. VisitedEmpty'
  BY <1>1 DEF IInv, VisitedEmpty
<1>10. AllFiled'
  BY <1>1, <1>2, <1>5 DEF IInv, AllFiled, ShapeOf
<1>11. TypesUnique'
  BY <1>1, NewUnique
<1>12. CountInv'
  <2>1. t \notin Filed /\ IsFiniteSet(Filed)
    BY <1>2 DEF IInv, FiledHashed, CountInv
  <2>2. /\ IsFiniteSet(Filed \cup {t})
        /\ Cardinality(Filed \cup {t}) = Cardinality(Filed) + 1
    BY <2>1, FS_AddElement
  <2> QED
    BY <1>4, <1>5, <2>1, <2>2 DEF CountInv
<1> QED
  BY <1>6, <1>7, <1>8, <1>9, <1>10, <1>11, <1>12 DEF IInv

(* Entering alloc_table keeps the invariant: the whole table becomes old. *)
LEMMA RegGrowsIInv ==
  ASSUME IInv, CountInv, NEW s \in Shape, RegGrows(s)
  PROVE  IInv' /\ CountInv'
<1> DEFINE t == Len(mTypeList)
<1>1. /\ TypeOK /\ New(s)
      /\ pc' = "rehash" /\ old_table' = mHashTable /\ bucket' = 0
      /\ mHashSize' = mHashSize * 2 /\ mNextLimit' = Limit(mHashSize * 2)
      /\ mHashTable' = Empty(mHashSize * 2) /\ mHashNum' = mHashNum
  BY DEF IInv, RegGrows
<1>2. /\ mTypeList' \in Seq(Shape)
      /\ t \in Nat
      /\ Ids' = Ids \cup {t}
      /\ t \notin Ids
      /\ \A u \in Ids : mTypeList'[u + 1] = mTypeList[u + 1]
      /\ mTypeList'[t + 1] = s
      /\ type' = t
      /\ pc = "idle"
  BY <1>1, NewFacts
<1> HIDE DEF t
<1>3. /\ mHashSize \in Nat \ {0} /\ IsTable(mHashTable, mHashSize, TypeId)
      /\ mHashNum \in Nat
  BY <1>1, <1>2 DEF TypeOK
<1>4. mHashSize * 2 \in Nat \ {0} /\ (mHashSize * 2) \div 2 = mHashSize
  BY <1>3
<1>5. /\ IsTable(mHashTable', mHashSize * 2, TypeId)
      /\ Linked(mHashTable') = {}
  BY <1>1, <1>4, EmptyFacts
<1>6. Filed' = Filed
  BY <1>1, <1>2, <1>5, IdleOldEmpty DEF Filed
<1>7. TypeOK'
  <2>1. Limit(mHashSize * 2) \in Nat
    BY <1>4 DEF Limit
  <2> QED
    BY <1>1, <1>2, <1>3, <1>4, <1>5, <2>1 DEF TypeOK, OldSize
<1>8. FiledHashed'
  BY <1>2, <1>6 DEF IInv, FiledHashed, ShapeOf
<1>9. Placed'
  BY <1>1 DEF Placed, Empty
<1>10. VisitedEmpty'
  <2>1. DOMAIN old_table' = 0 .. mHashSize - 1
    BY <1>1, <1>3 DEF IsTable
  <2> QED
    BY <1>1, <1>3, <2>1 DEF VisitedEmpty
<1>11. AllFiled'
  <2>1. t \notin Filed
    BY <1>2 DEF IInv, FiledHashed
  <2> QED
    BY <1>1, <1>2, <1>6, <2>1 DEF IInv, AllFiled, ShapeOf
<1>12. TypesUnique'
  BY <1>1, NewUnique
<1>13. CountInv'
  BY <1>1, <1>6 DEF CountInv
<1> QED
  BY <1>7, <1>8, <1>9, <1>10, <1>11, <1>12, <1>13 DEF IInv

(* Relinking one type keeps the invariant. *)
LEMMA RehashLinkIInv ==
  ASSUME IInv, CountInv, RehashLink
  PROVE  IInv' /\ CountInv'
<1> DEFINE t == HeadOf(old_table, bucket)
           pos == Pos(ShapeOf(t), mHashSize)
<1>1. /\ TypeOK /\ pc = "rehash" /\ bucket \in DOMAIN old_table
      /\ ~ AtEnd(old_table, bucket)
      /\ mHashTable' = Prepend(mHashTable, pos, t)
      /\ old_table' = DropHead(old_table, bucket)
      /\ mTypeList' = mTypeList /\ mHashSize' = mHashSize
      /\ mNextLimit' = mNextLimit /\ mHashNum' = mHashNum
      /\ pc' = pc /\ bucket' = bucket /\ type' = type
  BY DEF IInv, RehashLink
<1>2. /\ mHashSize \in Nat \ {0} /\ OldSize \in Nat
      /\ IsTable(mHashTable, mHashSize, TypeId)
      /\ IsTable(old_table, OldSize, TypeId)
      /\ bucket \in 0 .. OldSize
  BY <1>1 DEF TypeOK, OldSize
<1>3. bucket \in 0 .. OldSize - 1
  BY <1>1, <1>2 DEF IsTable
<1>4. /\ t \in TypeId
      /\ t \in Linked(old_table)
      /\ IsTable(old_table', OldSize, TypeId)
      /\ Linked(old_table) = Linked(old_table') \cup {t}
  <2>1. ~ AtEnd(old_table, bucket) /\ old_table' = DropHead(old_table, bucket)
    BY <1>1
  <2>2. t = HeadOf(old_table, bucket)
    OBVIOUS
  <2> HIDE DEF t
  <2> QED
    BY <1>2, <1>3, <2>1, <2>2, DropHeadFacts
<1> HIDE DEF t
<1>5. t \in Ids /\ Hashed(ShapeOf(t))
  BY <1>4 DEF IInv, FiledHashed, Filed
<1>6. ShapeOf(t) \in Shape
  BY <1>1, <1>5, ShapeType
<1>8. /\ IsTable(mHashTable', mHashSize, TypeId)
      /\ OnlyAdds(mHashTable, mHashTable', pos, t)
      /\ Linked(mHashTable') = Linked(mHashTable) \cup {t}
  BY <1>1, <1>2, <1>4, <1>5, <1>6, LinkFacts
<1> HIDE DEF pos
<1>9. Filed' = Filed
  BY <1>4, <1>8 DEF Filed
<1>10. TypeOK'
  BY <1>1, <1>2, <1>4, <1>8 DEF TypeOK, OldSize, Ids
<1>11. Placed'
  <2>1. SUFFICES ASSUME NEW b \in DOMAIN mHashTable',
                        NEW k \in DOMAIN mHashTable'[b]
                 PROVE  Pos(ShapeOf(mHashTable'[b][k]), mHashSize) = b
    BY <1>1 DEF Placed, ShapeOf
  <2>2. \/ b = pos /\ mHashTable'[b][k] = t
        \/ \E j \in DOMAIN mHashTable[b] : mHashTable'[b][k] = mHashTable[b][j]
    BY <1>8 DEF OnlyAdds
  <2>3. DOMAIN mHashTable' = DOMAIN mHashTable
    BY <1>2, <1>8 DEF IsTable
  <2> QED
    BY <2>2, <2>3 DEF IInv, Placed, pos
<1>12. VisitedEmpty'
  <2>1. \A b \in DOMAIN old_table' : b # bucket => old_table'[b] = old_table[b]
    BY <1>1 DEF DropHead
  <2>2. DOMAIN old_table' = DOMAIN old_table /\ DOMAIN old_table \subseteq Int
    BY <1>2, <1>4 DEF IsTable
  <2> QED
    BY <1>1, <1>2, <2>1, <2>2 DEF IInv, VisitedEmpty
<1>13. FiledHashed' /\ AllFiled' /\ TypesUnique' /\ CountInv'
  BY <1>1, <1>9
     DEF IInv, FiledHashed, AllFiled, TypesUnique, CountInv, Ids, ShapeOf
<1> QED
  BY <1>10, <1>11, <1>12, <1>13 DEF IInv

(* Leaving an empty chain behind keeps the invariant. *)
LEMMA RehashNextIInv ==
  ASSUME IInv, CountInv, RehashNext
  PROVE  IInv' /\ CountInv'
<1>1. /\ TypeOK /\ pc = "rehash" /\ bucket \in DOMAIN old_table
      /\ AtEnd(old_table, bucket)
      /\ bucket' = bucket + 1
      /\ pc' = pc /\ type' = type /\ old_table' = old_table
      /\ mHashTable' = mHashTable /\ mHashSize' = mHashSize
      /\ mNextLimit' = mNextLimit /\ mHashNum' = mHashNum
      /\ mTypeList' = mTypeList
  BY DEF IInv, RehashNext
<1>2. /\ mHashSize \in Nat \ {0} /\ OldSize \in Nat
      /\ IsTable(old_table, OldSize, TypeId)
      /\ bucket \in 0 .. OldSize
  BY <1>1 DEF TypeOK, OldSize
<1>3. DOMAIN old_table = 0 .. OldSize - 1
  BY <1>2 DEF IsTable
<1>4. TypeOK'
  BY <1>1, <1>2, <1>3 DEF TypeOK, OldSize, Ids
<1>5. VisitedEmpty'
  <2>1. SUFFICES ASSUME NEW b \in 0 .. OldSize - 1, b < bucket + 1
                 PROVE  old_table[b] = <<>>
    BY <1>1, <1>3 DEF VisitedEmpty
  <2>2. b = bucket \/ b < bucket
    BY <1>2, <2>1
  <2> QED
    BY <1>1, <1>3, <2>2 DEF IInv, VisitedEmpty, AtEnd
<1>6. FiledHashed' /\ Placed' /\ AllFiled' /\ TypesUnique' /\ CountInv'
  BY <1>1 DEF IInv, FiledHashed, Placed, AllFiled, TypesUnique, CountInv,
              Filed, Ids, ShapeOf
<1> QED
  BY <1>4, <1>5, <1>6 DEF IInv

(* The end of the growth: nothing is left in the old table. *)
LEMMA RegDoneIInv ==
  ASSUME IInv, CountInv, RegDone
  PROVE  IInv' /\ CountInv'
<1> DEFINE s == ShapeOf(type)
<1>1. /\ TypeOK /\ pc = "rehash" /\ bucket \notin DOMAIN old_table
      /\ Enter(type, s) /\ pc' = "idle" /\ old_table' = Empty(0)
      /\ bucket' = 0 /\ mTypeList' = mTypeList /\ type' = type
  BY DEF IInv, RegDone
<1>2. /\ mHashSize \in Nat \ {0} /\ OldSize \in Nat
      /\ IsTable(mHashTable, mHashSize, TypeId)
      /\ IsTable(old_table, OldSize, TypeId)
      /\ bucket \in 0 .. OldSize
      /\ mHashNum \in Nat /\ mNextLimit \in Nat /\ mNextLimit = Limit(mHashSize)
      /\ type \in Ids
      /\ mTypeList \in Seq(Shape)
  BY <1>1 DEF TypeOK, OldSize
<1>3. s \in Shape /\ type \in TypeId
  BY <1>1, <1>2, ShapeType
<1>4. DOMAIN old_table = 0 .. OldSize - 1
  BY <1>2 DEF IsTable
<1>5. Linked(old_table) = {}
  <2>1. bucket = OldSize
    BY <1>1, <1>2, <1>4
  <2>2. \A b \in DOMAIN old_table : old_table[b] = <<>>
    BY <1>2, <1>4, <2>1 DEF IInv, VisitedEmpty
  <2>3. \A b \in DOMAIN old_table : DOMAIN old_table[b] = {}
    BY <2>2
  <2> QED
    BY <2>3, LinkedIff
<1>6. Linked(old_table') = {}
  BY <1>1, EmptyFacts
<1>7. type \notin Filed
  BY <1>1 DEF IInv, AllFiled
<1> HIDE DEF s
<1>8. /\ mHashSize' = mHashSize /\ mNextLimit' = mNextLimit
      /\ IsTable(mHashTable', mHashSize, TypeId)
      /\ mHashNum' = IF Hashed(s) THEN mHashNum + 1 ELSE mHashNum
      /\ Linked(mHashTable') = IF Hashed(s) THEN Linked(mHashTable) \cup {type}
                                             ELSE Linked(mHashTable)
      /\ \A b \in DOMAIN mHashTable' : \A k \in DOMAIN mHashTable'[b] :
           \/ Hashed(s) /\ b = Pos(s, mHashSize) /\ mHashTable'[b][k] = type
           \/ \E j \in DOMAIN mHashTable[b] : mHashTable'[b][k] = mHashTable[b][j]
      /\ DOMAIN mHashTable' = DOMAIN mHashTable
  BY <1>1, <1>2, <1>3, EnterFacts
<1>9. Filed' = IF Hashed(s) THEN Filed \cup {type} ELSE Filed
  BY <1>5, <1>6, <1>8 DEF Filed
<1>10. TypeOK'
  BY <1>1, <1>2, <1>8 DEF TypeOK, Ids
<1>11. FiledHashed'
  BY <1>1, <1>2, <1>9 DEF IInv, FiledHashed, ShapeOf, Ids, s
<1>12. Placed'
  <2>1. SUFFICES ASSUME NEW b \in DOMAIN mHashTable',
                        NEW k \in DOMAIN mHashTable'[b]
                 PROVE  Pos(ShapeOf(mHashTable'[b][k]), mHashSize) = b
    BY <1>1, <1>8 DEF Placed, ShapeOf
  <2>2. \/ b = Pos(s, mHashSize) /\ mHashTable'[b][k] = type
        \/ \E j \in DOMAIN mHashTable[b] : mHashTable'[b][k] = mHashTable[b][j]
    BY <1>8
  <2> QED
    BY <1>8, <2>2 DEF IInv, Placed, s
<1>13. VisitedEmpty'
  BY <1>1 DEF VisitedEmpty, Empty
<1>14. AllFiled'
  BY <1>1, <1>9 DEF IInv, AllFiled, ShapeOf, Ids, s
<1>15. TypesUnique'
  BY <1>1 DEF IInv, TypesUnique, ShapeOf, Ids
<1>16. CountInv'
  <2>1. IsFiniteSet(Filed)
    BY DEF CountInv
  <2>2. /\ IsFiniteSet(Filed \cup {type})
        /\ Cardinality(Filed \cup {type}) = Cardinality(Filed) + 1
    BY <1>7, <2>1, FS_AddElement
  <2> QED
    BY <1>8, <1>9, <2>1, <2>2 DEF CountInv
<1> QED
  BY <1>10, <1>11, <1>12, <1>13, <1>14, <1>15, <1>16 DEF IInv

(* Every request is for a shape of Shape. *)
LEMMA RequestShapes ==
  ASSUME Next
  PROVE  \/ \E s \in Shape : Found(s) \/ RegFits(s) \/ RegGrows(s)
         \/ RehashLink \/ RehashNext \/ RegDone \/ Clear
<1>1. Args \subseteq ReqArgs /\ Inputs \subseteq InputLists
  BY DEF Args, Inputs, InputLists
<1>2. \A e \in Args : ArrayShape(e) \in Shape /\ SetShape(e) \in Shape
  BY <1>1 DEF Shape
<1>3. \A k, e \in Args : MapShape(k, e) \in Shape
  BY <1>1 DEF Shape
<1>4. \A out \in Args, ins \in Inputs : FuncShape(out, ins) \in Shape
  BY <1>1 DEF Shape
<1>5. \A n \in EnumName : EnumShape(n) \in Shape
  BY DEF Shape
<1> QED
  BY <1>2, <1>3, <1>4, <1>5
     DEF Next, Get, array_type, set_type, map_type, function_type, enum_type

(* A found type leaves everything but the answer as it was. *)
LEMMA FoundIInv ==
  ASSUME IInv, CountInv, NEW s \in Shape, Found(s)
  PROVE  /\ IInv' /\ CountInv'
         /\ type' \in Ids /\ ShapeOf(type') = s
<1>1. /\ TypeOK /\ pc = "idle" /\ Hashed(s) /\ Lookup(s) # NULL
      /\ type' = Lookup(s)
      /\ mTypeList' = mTypeList /\ mHashSize' = mHashSize
      /\ mNextLimit' = mNextLimit /\ mHashTable' = mHashTable
      /\ mHashNum' = mHashNum /\ pc' = pc /\ old_table' = old_table
      /\ bucket' = bucket
  BY DEF IInv, Found
<1>2. Lookup(s) \in Ids /\ ShapeOf(Lookup(s)) = s
  BY <1>1, LookupComplete
<1>3. type' \in Ids /\ ShapeOf(type') = s
  BY <1>1, <1>2
<1>4. TypeOK'
  BY <1>1, <1>3 DEF TypeOK, Ids
<1>5. FiledHashed' /\ Placed' /\ VisitedEmpty' /\ AllFiled' /\ TypesUnique'
  BY <1>1 DEF IInv, FiledHashed, Placed, VisitedEmpty, AllFiled, TypesUnique,
              Filed, Ids, ShapeOf
<1>6. CountInv'
  BY <1>1 DEF CountInv, Filed
<1> QED
  BY <1>3, <1>4, <1>5, <1>6 DEF IInv

(* Destroying the manager: nothing is registered and nothing is linked. *)
LEMMA ClearIInv ==
  ASSUME IInv, CountInv, Clear
  PROVE  IInv' /\ CountInv'
<1>1. /\ TypeOK /\ pc = "idle" /\ pc' = "cleared"
      /\ mTypeList' = <<>> /\ mHashSize' = 0 /\ mHashTable' = Empty(0)
      /\ mHashNum' = 0 /\ type' = NULL
      /\ mNextLimit' = mNextLimit /\ old_table' = old_table
      /\ bucket' = bucket
  BY DEF IInv, Clear
<1>2. /\ old_table = Empty(0) /\ mNextLimit \in Nat
  BY <1>1 DEF TypeOK
<1>3. Linked(mHashTable') = {} /\ Linked(old_table') = {}
  BY <1>1, <1>2, EmptyFacts
<1>4. Filed' = {}
  BY <1>3 DEF Filed
<1>5. Ids' = {}
  BY <1>1, EmptySeq DEF Ids
<1>6. TypeOK'
  BY <1>1, <1>2, EmptySeq DEF TypeOK
<1>7. Placed' /\ VisitedEmpty'
  BY <1>1, <1>2 DEF Placed, VisitedEmpty, Empty
<1>8. FiledHashed' /\ AllFiled' /\ TypesUnique'
  BY <1>1, <1>4, <1>5 DEF FiledHashed, AllFiled, TypesUnique
<1>9. CountInv'
  BY <1>1, <1>4, FS_EmptySet DEF CountInv
<1> QED
  BY <1>6, <1>7, <1>8, <1>9 DEF IInv

(* Every step keeps the inductive invariant. *)
LEMMA NextIInv == IInv /\ CountInv /\ [Next]_vars => IInv' /\ CountInv'
<1> SUFFICES ASSUME IInv, CountInv, [Next]_vars PROVE IInv' /\ CountInv'
  OBVIOUS
<1>1. CASE Next
  BY <1>1, RequestShapes, FoundIInv, RegFitsIInv, RegGrowsIInv,
     RehashLinkIInv, RehashNextIInv, RegDoneIInv, ClearIInv
<1>2. CASE UNCHANGED vars
  BY <1>2 DEF vars, IInv, CountInv, TypeOK, FiledHashed, Placed, VisitedEmpty,
              AllFiled, TypesUnique, Filed, Ids, ShapeOf, OldSize, Pos
<1> QED
  BY <1>1, <1>2

(* The variables of TypeMgr keep their types, the table its size and its   *)
(* threshold, through every growth (reg_type, alloc_table) and clear().    *)
THEOREM TypeMgrTypeOK == Spec => []TypeOK
<1>1. IInv => TypeOK
  BY DEF IInv
<1> QED
  BY <1>1, InitIInv, NextIInv, PTL DEF Spec

(* array_type, set_type, map_type and function_type never make a second    *)
(* type of one shape, whatever the growth did to the table before.         *)
THEOREM TypeMgrTypesUnique == Spec => []TypesUnique
<1>1. IInv => TypesUnique
  BY DEF IInv
<1> QED
  BY <1>1, InitIInv, NextIInv, PTL DEF Spec

(* Every composite type is found by the search for its shape: alloc_table  *)
(* loses none and files each where the get functions look.                 *)
THEOREM TypeMgrEveryTypeFound == Spec => []EveryTypeFound
<1>1. IInv => EveryTypeFound
  BY FoundFromInv
<1> QED
  BY <1>1, InitIInv, NextIInv, PTL DEF Spec

(* mHashNum is the number of linked types between any two calls.           *)
THEOREM TypeMgrCountExact == Spec => []CountExact
<1>1. IInv /\ CountInv => CountExact
  BY IdleOldEmpty DEF IInv, CountInv, CountExact
<1> QED
  BY <1>1, InitIInv, NextIInv, PTL DEF Spec

(* TypeMgr implements the interning table: each get function answers with  *)
(* the one type of the shape, made when there was none.                    *)
THEOREM TypeMgrImplementsIntern == Spec => ImplementsIntern
<1>1. Init => Intern!InternInit
  BY DEF Init, Intern!InternInit
<1>2. ASSUME IInv, CountInv, [Next]_vars
      PROVE  [Intern!InternNext]_<<mTypeList, wanted, type>>
  <2>1. ASSUME NEW s \in Shape, Found(s)
        PROVE  Intern!Reuse(s)
    <3>1. type' \in Ids /\ ShapeOf(type') = s
      BY <1>2, <2>1, FoundIInv
    <3> QED
      BY <2>1, <3>1 DEF Found, Intern!Reuse, Intern!IdsOf, Ids, ShapeOf
  <2>2. ASSUME NEW s \in Shape, New(s)
        PROVE  Intern!Create(s)
    <3>1. Hashed(s) => \A t \in Ids : ShapeOf(t) # s
      BY <1>2, <2>2, LookupComplete DEF New
    <3>2. Hashed(s) => Intern!IdsOf(s) = {}
      BY <3>1 DEF Intern!IdsOf, Ids, ShapeOf
    <3> QED
      BY <2>2, <3>2 DEF New, Intern!Create
  <2>3. CASE \E s \in Shape : Found(s) \/ RegFits(s) \/ RegGrows(s)
    BY <2>1, <2>2, <2>3 DEF RegFits, RegGrows, Intern!InternNext
  <2>4. CASE RehashLink \/ RehashNext \/ RegDone
    BY <2>4 DEF RehashLink, RehashNext, RegDone
  <2>5. CASE Clear
    BY <2>5 DEF Clear, Intern!InternNext, Intern!Discard
  <2>6. CASE UNCHANGED vars
    BY <2>6 DEF vars
  <2> QED
    BY <1>2, <2>3, <2>4, <2>5, <2>6, RequestShapes
<1> QED
  BY <1>1, <1>2, InitIInv, NextIInv, PTL
     DEF Spec, ImplementsIntern, Intern!InternSpec
==============================================================================
