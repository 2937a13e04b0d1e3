------------------------------- MODULE TypeMgr -------------------------------
(***************************************************************************)
(* The type manager (TypeMgr.cc).  A type is its id, its index in          *)
(* mTypeList counted from 0; what its class stores is its shape: the kind, *)
(* the component types (elem_type, key_type, output and input types) and,  *)
(* for prim and enum types, a name.  Composite types are hash-consed in a  *)
(* chained table; as in module Scope the loops of alloc_table are taken    *)
(* one element at a time.                                                  *)
(***************************************************************************)
EXTENDS Chains, FiniteSets

CONSTANTS HashReq(_),   \* the hash a get function searches with
          HashType(_),  \* the hash hash_type files a type under
          EnumName,     \* names of enum types
          InitSize,     \* the size init() asks for (1024 in the code)
          MaxTypes,     \* bound: types a behaviour registers
          ReqArgs,      \* bound: types used as components of requests
          MaxInputs,    \* bound: inputs of a function type
          NULL

(* Types are written as their ids. *)
TypeId == Nat

PrimNames == <<"void", "boolean", "int", "float", "string">>

(* The shapes that take part in hash-consing: hash_type's non-default cases. *)
Hashed(s) == s.kind \in {"array", "set", "map", "func"}

ArrayShape(e) == [kind |-> "array", args |-> <<e>>, name |-> NULL]
SetShape(e) == [kind |-> "set", args |-> <<e>>, name |-> NULL]
MapShape(k, e) == [kind |-> "map", args |-> <<k, e>>, name |-> NULL]
FuncShape(out, ins) == [kind |-> "func", args |-> <<out>> \o ins, name |-> NULL]
EnumShape(n) == [kind |-> "enum", args |-> <<>>, name |-> n]
PrimShape(n) == [kind |-> "prim", args |-> <<>>, name |-> n]

PrimShapes == [i \in DOMAIN PrimNames |-> PrimShape(PrimNames[i])]

(* The shapes a manager may meet: composite types over the components in   *)
(* ReqArgs, enum types and prim types.                                     *)
InputLists == UNION {[1 .. n -> ReqArgs] : n \in 0 .. MaxInputs}
Shape ==
  {ArrayShape(e) : e \in ReqArgs} \cup {SetShape(e) : e \in ReqArgs}
    \cup {MapShape(k, e) : k, e \in ReqArgs}
    \cup {FuncShape(out, ins) : out \in ReqArgs, ins \in InputLists}
    \cup {EnumShape(n) : n \in EnumName}
    \cup {PrimShapes[i] : i \in DOMAIN PrimShapes}

ASSUME TypeMgrAssumption ==
  /\ InitSize \in Nat \ {0}
  /\ ReqArgs \subseteq Nat
  /\ MaxInputs \in Nat
  /\ NULL \notin Nat
  /\ \A s \in Shape : Hashed(s) => /\ HashReq(s) \in Nat
                                  /\ HashType(s) = HashReq(s)

VARIABLES mTypeList, mHashSize, mNextLimit, mHashTable, mHashNum,
          pc,          \* "idle", "rehash" inside alloc_table, or "cleared"
          old_table,   \* what alloc_table has not moved yet
          bucket,      \* alloc_table's loop index into old_table
          type,        \* the type being registered, then returned
          wanted       \* history: the shape the last request asked for

vars == <<mTypeList, mHashSize, mNextLimit, mHashTable, mHashNum,
          pc, old_table, bucket, type, wanted>>

-----------------------------------------------------------------------------
Ids == 0 .. Len(mTypeList) - 1
ShapeOf(t) == mTypeList[t + 1]

(* hash_type for a hashed shape. *)
Pos(s, size) == HashType(s) % size

(* Mutant of Lookup: only the head of the chain is compared. *)
LookupHeadOnly(s) ==
  LET chain == mHashTable[HashReq(s) % mHashSize]
  IN  IF chain # <<>> /\ ShapeOf(Head(chain)) = s THEN Head(chain) ELSE NULL

(* Mutant of Lookup: function types are compared without their inputs. *)
LookupIgnoresInputs(s) ==
  LET chain == mHashTable[HashReq(s) % mHashSize]
      hits  == {k \in DOMAIN chain :
                  LET c == ShapeOf(chain[k])
                  IN  c.kind = s.kind /\ c.args[1] = s.args[1]}
  IN  IF hits = {} THEN NULL ELSE chain[First(hits)]

(* The search loop of array_type, set_type, map_type and function_type. *)
Lookup(s) ==
  LET chain == mHashTable[HashReq(s) % mHashSize]
      hits  == {k \in DOMAIN chain : ShapeOf(chain[k]) = s}
  IN  IF hits = {} THEN NULL ELSE chain[First(hits)]

(* init(): prim types get ids and are not entered in the table. *)
Init ==
  /\ mTypeList = PrimShapes
  /\ mHashSize = InitSize
  /\ mNextLimit = Limit(InitSize)
  /\ mHashTable = Empty(InitSize)
  /\ mHashNum = 0
  /\ pc = "idle"
  /\ old_table = Empty(0)
  /\ bucket = 0
  /\ type = NULL /\ wanted = NULL

(* A request that finds its type in the table. *)
Found(s) ==
  /\ pc = "idle"
  /\ Hashed(s)
  /\ Lookup(s) # NULL
  /\ type' = Lookup(s) /\ wanted' = s
  /\ UNCHANGED <<mTypeList, mHashSize, mNextLimit, mHashTable, mHashNum,
                 pc, old_table, bucket>>

(* The end of reg_type: link and count the type, if it is hashed. *)
Enter(t, s) ==
  /\ mHashTable' = IF Hashed(s) THEN Prepend(mHashTable, Pos(s, mHashSize), t)
                                ELSE mHashTable
  /\ mHashNum' = IF Hashed(s) THEN mHashNum + 1 ELSE mHashNum
  /\ UNCHANGED <<mHashSize, mNextLimit>>

(* The beginning of reg_type for a type that must be made: enum types      *)
(* always, composite types when the search failed.                         *)
New(s) ==
  /\ pc = "idle"
  /\ Len(mTypeList) < MaxTypes
  /\ Hashed(s) => Lookup(s) = NULL
  /\ mTypeList' = Append(mTypeList, s)
  /\ type' = Len(mTypeList) /\ wanted' = s

(* reg_type when the table need not grow. *)
RegFits(s) ==
  /\ New(s)
  /\ mHashNum < mNextLimit
  /\ Enter(Len(mTypeList), s)
  /\ UNCHANGED <<pc, old_table, bucket>>

(* reg_type when it grows: alloc_table's assignments before its loops. *)
RegGrows(s) ==
  /\ New(s)
  /\ mHashNum >= mNextLimit
  /\ pc' = "rehash"
  /\ old_table' = mHashTable
  /\ bucket' = 0
  /\ mHashSize' = mHashSize * 2
  /\ mNextLimit' = Limit(mHashSize * 2)
  /\ mHashTable' = Empty(mHashSize * 2)
  /\ UNCHANGED mHashNum

(* Mutant of RehashLink: relinking counts the type again, as Scope does. *)
RehashLinkCounts ==
  /\ pc = "rehash"
  /\ bucket \in DOMAIN old_table
  /\ ~ AtEnd(old_table, bucket)
  /\ LET t == HeadOf(old_table, bucket)
     IN  mHashTable' = Prepend(mHashTable, Pos(ShapeOf(t), mHashSize), t)
  /\ mHashNum' = mHashNum + 1
  /\ old_table' = DropHead(old_table, bucket)
  /\ UNCHANGED <<mTypeList, mHashSize, mNextLimit, pc, bucket, type, wanted>>

(* Mutant of RehashLink: the type keeps the bucket it had. *)
RehashLinkSameBucket ==
  /\ pc = "rehash"
  /\ bucket \in DOMAIN old_table
  /\ ~ AtEnd(old_table, bucket)
  /\ mHashTable' = Prepend(mHashTable, bucket, HeadOf(old_table, bucket))
  /\ old_table' = DropHead(old_table, bucket)
  /\ UNCHANGED <<mTypeList, mHashSize, mNextLimit, mHashNum, pc, bucket, type, wanted>>

(* One turn of alloc_table's inner loop: rehash and relink one type. *)
RehashLink ==
  /\ pc = "rehash"
  /\ bucket \in DOMAIN old_table
  /\ ~ AtEnd(old_table, bucket)
  /\ LET t == HeadOf(old_table, bucket)
     IN  mHashTable' = Prepend(mHashTable, Pos(ShapeOf(t), mHashSize), t)
  /\ old_table' = DropHead(old_table, bucket)
  /\ UNCHANGED <<mTypeList, mHashSize, mNextLimit, mHashNum, pc, bucket, type, wanted>>

(* The end of a chain: alloc_table's outer loop moves to the next bucket. *)
RehashNext ==
  /\ pc = "rehash"
  /\ bucket \in DOMAIN old_table
  /\ AtEnd(old_table, bucket)
  /\ bucket' = bucket + 1
  /\ UNCHANGED <<mTypeList, mHashSize, mNextLimit, mHashTable, mHashNum,
                 pc, old_table, type, wanted>>

(* alloc_table returns to reg_type, which enters the new type. *)
RegDone ==
  /\ pc = "rehash"
  /\ bucket \notin DOMAIN old_table
  /\ Enter(type, ShapeOf(type))
  /\ pc' = "idle"
  /\ old_table' = Empty(0)
  /\ bucket' = 0
  /\ UNCHANGED <<mTypeList, type, wanted>>

Get(s) == Found(s) \/ RegFits(s) \/ RegGrows(s)

array_type(e) == Get(ArrayShape(e))
set_type(e) == Get(SetShape(e))
map_type(k, e) == Get(MapShape(k, e))
function_type(out, ins) == Get(FuncShape(out, ins))
enum_type(n) == RegFits(EnumShape(n)) \/ RegGrows(EnumShape(n))

(* clear(), which only the destructors reach: every type is deleted. *)
Clear ==
  /\ pc = "idle"
  /\ pc' = "cleared"
  /\ mTypeList' = <<>>
  /\ mHashSize' = 0
  /\ mHashTable' = Empty(0)
  /\ mHashNum' = 0
  /\ type' = NULL /\ wanted' = NULL
  /\ UNCHANGED <<mNextLimit, old_table, bucket>>

(* The component types of a request are types the manager made. *)
Args == Ids \cap ReqArgs
Inputs == UNION {[1 .. n -> Args] : n \in 0 .. MaxInputs}

Next ==
  \/ \E e \in Args : array_type(e) \/ set_type(e)
  \/ \E k, e \in Args : map_type(k, e)
  \/ \E out \in Args, ins \in Inputs : function_type(out, ins)
  \/ \E n \in EnumName : enum_type(n)
  \/ RehashLink \/ RehashNext \/ RegDone
  \/ Clear

Spec == Init /\ [][Next]_vars

-----------------------------------------------------------------------------
OldSize == mHashSize \div 2

(* The type invariant; a cleared manager keeps only its stale threshold. *)
TypeOK ==
  /\ mTypeList \in Seq(Shape)
  /\ mHashNum \in Nat
  /\ mNextLimit \in Nat
  /\ \/ /\ pc = "idle"
        /\ mHashSize \in Nat \ {0}
        /\ mNextLimit = Limit(mHashSize)
        /\ IsTable(mHashTable, mHashSize, TypeId)
        /\ old_table = Empty(0)
        /\ bucket = 0
        /\ type \in Ids \cup {NULL}
     \/ /\ pc = "rehash"
        /\ mHashSize \in Nat \ {0}
        /\ mNextLimit = Limit(mHashSize)
        /\ IsTable(mHashTable, mHashSize, TypeId)
        /\ IsTable(old_table, OldSize, TypeId)
        /\ bucket \in 0 .. OldSize
        /\ type \in Ids
     \/ /\ pc = "cleared"
        /\ mTypeList = <<>>
        /\ mHashTable = Empty(0)
        /\ old_table = Empty(0)
        /\ type = NULL

(* The types linked into the tables. *)
Filed == Linked(mHashTable) \cup Linked(old_table)

(* Types are compared by address everywhere in the elaborator, so no two   *)
(* composite types may have the same shape, in the middle of a growth too. *)
(* (tests/TypeMgr_test.cc checks it for single types: "is not unique".)    *)
TypesUnique ==
  \A t, u \in Ids : (Hashed(ShapeOf(t)) /\ ShapeOf(t) = ShapeOf(u)) => t = u

(* What uniqueness rests on: between two calls every composite type ever   *)
(* made is found again by a search for its shape.                          *)
EveryTypeFound ==
  pc = "idle" => \A t \in Ids : Hashed(ShapeOf(t)) => Lookup(ShapeOf(t)) = t

(* Only registered composite types are filed, each in the bucket of its    *)
(* hash; what alloc_table has passed is empty; and every composite type is *)
(* filed, but for the one whose registration triggered the growth.         *)
FiledHashed == \A t \in Filed : t \in Ids /\ Hashed(ShapeOf(t))
Placed ==
  \A b \in DOMAIN mHashTable : \A k \in DOMAIN mHashTable[b] :
    Pos(ShapeOf(mHashTable[b][k]), mHashSize) = b
VisitedEmpty ==
  \A b \in DOMAIN old_table : b < bucket => old_table[b] = <<>>
AllFiled ==
  /\ \A t \in Ids :
       Hashed(ShapeOf(t)) /\ ~(pc = "rehash" /\ t = type) => t \in Filed
  /\ pc = "rehash" => type \notin Filed

(* The inductive invariant behind TypesUnique and the refinement.          *)
IInv ==
  /\ TypeOK
  /\ FiledHashed
  /\ Placed
  /\ VisitedEmpty
  /\ AllFiled
  /\ TypesUnique

(* mHashNum counts the linked types exactly, growth after growth: here,    *)
(* unlike in Scope, relinking does not count again.                        *)
CountExact ==
  pc = "idle" => mHashNum = Cardinality(Linked(mHashTable))

(* Its inductive form, true inside alloc_table too. *)
CountInv == IsFiniteSet(Filed) /\ mHashNum = Cardinality(Filed)

(* The manager implements the interning table of TypeIntern: every get     *)
(* function answers with the one type of the shape it was asked for.       *)
Intern == INSTANCE TypeIntern WITH Structural <- Hashed, list <- mTypeList,
                                   asked <- wanted, answer <- type
ImplementsIntern == Intern!InternSpec
==============================================================================
