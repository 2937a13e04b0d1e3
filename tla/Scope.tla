-------------------------------- MODULE Scope --------------------------------
(***************************************************************************)
(* One Scope object (Scope.cc): a chained hash table of IrHandles, linked  *)
(* through the handles' own mLink fields and doubled when mHashNum reaches *)
(* mNextLimit.  A chain is the sequence met by following mLink from the    *)
(* bucket head, newest handle first.  The loops of alloc_table are taken   *)
(* one handle at a time, so that what is true in the middle of a rehash is *)
(* part of the model.                                                      *)
(***************************************************************************)
EXTENDS Chains, FiniteSets

CONSTANTS Handle,      \* the IrHandle objects the elaborator may create
          Name,        \* the names of the program
          NameOf,      \* IrHandle::name()
          HashOf,      \* ShString::hash()
          Checked,     \* handles whose add follows a successful check_name
          InitSize,    \* the size the constructor asks for (16 in the code)
          NULL

ASSUME HandleAssumption ==
  /\ NameOf \in [Handle -> Name]
  /\ HashOf \in [Name -> Nat]
  /\ Checked \subseteq Handle
  /\ NULL \notin Handle

ASSUME SizeAssumption == InitSize \in Nat \ {0}

VARIABLES mHashSize, mNextLimit, mHashTable, mHashNum,
          pc,          \* "idle", or "rehash" inside alloc_table called by add
          old_table,   \* what alloc_table has not moved yet
          bucket,      \* alloc_table's loop index into old_table
          item         \* the argument of the add in progress

table == <<mHashSize, mNextLimit, mHashTable, mHashNum>>
vars  == <<mHashSize, mNextLimit, mHashTable, mHashNum,
           pc, old_table, bucket, item>>

-----------------------------------------------------------------------------
Pos(n, size) == HashOf[n] % size

(* Every handle this scope owns, the ones still in the old table included. *)
Contents == Linked(mHashTable) \cup Linked(old_table)

(* The positions of a chain whose handle has name n. *)
Matches(chain, n) == {k \in DOMAIN chain : NameOf[chain[k]] = n}

(* Scope::find_local: the first handle of the chain with that name. *)
FindLocal(n) ==
  LET chain == mHashTable[Pos(n, mHashSize)]
      hits  == Matches(chain, n)
  IN  IF hits = {} THEN NULL ELSE chain[First(hits)]

-----------------------------------------------------------------------------
(* Scope::Scope calls alloc_table on an empty object. *)
Init ==
  /\ mHashSize = InitSize
  /\ mNextLimit = Limit(InitSize)
  /\ mHashTable = Empty(InitSize)
  /\ mHashNum = 0
  /\ pc = "idle"
  /\ old_table = Empty(0)
  /\ bucket = 0
  /\ item = NULL

(* Scope::_put: prepend to the chain and count. *)
Put(h) ==
  /\ mHashTable' = Prepend(mHashTable, Pos(NameOf[h], mHashSize), h)
  /\ mHashNum' = mHashNum + 1
  /\ UNCHANGED <<mHashSize, mNextLimit>>

(* Mutant of MayAdd: a declaration that skips check_name. *)
MayAddUnchecked(h) == h \notin Contents

(* The callers create a fresh handle for every add, and the declarations   *)
(* of variables, functions, constants and enums call check_name first.     *)
MayAdd(h) ==
  /\ h \notin Contents
  /\ h \in Checked => FindLocal(NameOf[h]) = NULL

(* Scope::add when the table need not grow. *)
AddFits(h) ==
  /\ pc = "idle"
  /\ MayAdd(h)
  /\ mHashNum < mNextLimit
  /\ Put(h)
  /\ UNCHANGED <<pc, old_table, bucket, item>>

(* Mutant of AddGrows: the threshold of the old size stays in force. *)
AddGrowsKeepsLimit(h) ==
  /\ pc = "idle"
  /\ MayAdd(h)
  /\ mHashNum >= mNextLimit
  /\ pc' = "rehash"
  /\ old_table' = mHashTable
  /\ bucket' = 0
  /\ item' = h
  /\ mHashSize' = 2 * mHashSize
  /\ mHashTable' = Empty(2 * mHashSize)
  /\ UNCHANGED <<mNextLimit, mHashNum>>

(* Scope::add when it grows: alloc_table's assignments before its loops. *)
AddGrows(h) ==
  /\ pc = "idle"
  /\ MayAdd(h)
  /\ mHashNum >= mNextLimit
  /\ pc' = "rehash"
  /\ old_table' = mHashTable
  /\ bucket' = 0
  /\ item' = h
  /\ mHashSize' = 2 * mHashSize
  /\ mNextLimit' = Limit(2 * mHashSize)
  /\ mHashTable' = Empty(2 * mHashSize)
  /\ UNCHANGED mHashNum

(* Mutant of RehashPut: the handle is moved without being unlinked first. *)
RehashPutKeepsLink ==
  /\ pc = "rehash"
  /\ bucket \in DOMAIN old_table
  /\ ~ AtEnd(old_table, bucket)
  /\ Put(HeadOf(old_table, bucket))
  /\ bucket' = bucket + 1
  /\ UNCHANGED <<pc, old_table, item>>

(* Mutant of RehashPut: only the head of each chain is moved, because the  *)
(* link is read after _put has overwritten it.                             *)
RehashPutLosesTail ==
  /\ pc = "rehash"
  /\ bucket \in DOMAIN old_table
  /\ ~ AtEnd(old_table, bucket)
  /\ Put(HeadOf(old_table, bucket))
  /\ old_table' = [old_table EXCEPT ![bucket] = <<>>]
  /\ UNCHANGED <<pc, bucket, item>>

(* Mutant of RehashPut: the chain is copied to the bucket of the same index. *)
RehashPutSameBucket ==
  /\ pc = "rehash"
  /\ bucket \in DOMAIN old_table
  /\ ~ AtEnd(old_table, bucket)
  /\ mHashTable' = Prepend(mHashTable, bucket, HeadOf(old_table, bucket))
  /\ mHashNum' = mHashNum + 1
  /\ old_table' = DropHead(old_table, bucket)
  /\ UNCHANGED <<mHashSize, mNextLimit, pc, bucket, item>>

(* One turn of alloc_table's inner loop: read the link, then _put. *)
RehashPut ==
  /\ pc = "rehash"
  /\ bucket \in DOMAIN old_table
  /\ ~ AtEnd(old_table, bucket)
  /\ Put(HeadOf(old_table, bucket))
  /\ old_table' = DropHead(old_table, bucket)
  /\ UNCHANGED <<pc, bucket, item>>

(* Mutant of RehashNext: the outer loop forgets to advance. *)
RehashNextStuck ==
  /\ pc = "rehash"
  /\ bucket \in DOMAIN old_table
  /\ AtEnd(old_table, bucket)
  /\ UNCHANGED <<table, pc, old_table, bucket, item>>

(* The end of a chain: alloc_table's outer loop moves to the next bucket. *)
RehashNext ==
  /\ pc = "rehash"
  /\ bucket \in DOMAIN old_table
  /\ AtEnd(old_table, bucket)
  /\ bucket' = bucket + 1
  /\ UNCHANGED <<table, pc, old_table, item>>

(* alloc_table frees the old table and add puts its item. *)
AddDone ==
  /\ pc = "rehash"
  /\ bucket \notin DOMAIN old_table
  /\ Put(item)
  /\ pc' = "idle"
  /\ old_table' = Empty(0)
  /\ bucket' = 0
  /\ item' = NULL

Rehash == RehashPut \/ RehashNext \/ AddDone

Next == (\E h \in Handle : AddFits(h) \/ AddGrows(h)) \/ Rehash

(* alloc_table is straight-line code: once entered, its loops run to the end. *)
Spec == Init /\ [][Next]_vars /\ WF_vars(Rehash)

-----------------------------------------------------------------------------
(* The size before the doubling in progress. *)
OldSize == mHashSize \div 2

(* The type invariant: sizes, limit and table always belong together, and  *)
(* the loop variables of alloc_table are in use exactly during a rehash.   *)
TypeOK ==
  /\ mHashSize \in Nat \ {0}
  /\ mNextLimit = Limit(mHashSize)
  /\ IsTable(mHashTable, mHashSize, Handle)
  /\ mHashNum \in Nat
  /\ \/ /\ pc = "idle"
        /\ old_table = Empty(0)
        /\ bucket = 0
        /\ item = NULL
     \/ /\ pc = "rehash"
        /\ IsTable(old_table, OldSize, Handle)
        /\ bucket \in 0 .. OldSize
        /\ item \in Handle

(* Names that only check_name-guarded declarations can carry. *)
CheckedNames == {n \in Name : \A h \in Handle : NameOf[h] = n => h \in Checked}

(* Between two calls, find_local answers NULL exactly for the names of     *)
(* which the scope owns no handle, and otherwise returns a handle it owns  *)
(* with that name - however many rehashes have moved the handles.          *)
LookupSound ==
  pc = "idle" =>
    \A n \in Name :
      LET own == {h \in Contents : NameOf[h] = n}
      IN  IF own = {} THEN FindLocal(n) = NULL ELSE FindLocal(n) \in own

(* The handles in the tables and the one an add is about to link. *)
Owned == Contents \cup ({item} \cap Handle)

(* check_name keeps a guarded name bound to a single handle, in the middle *)
(* of a rehash too (the pending item included), so that its meaning never  *)
(* depends on the order of a chain.                                        *)
CheckedUnique ==
  \A g, h \in Owned :
    (NameOf[g] = NameOf[h] /\ NameOf[g] \in CheckedNames) => g = h

(* A handle has one mLink field: it is linked at one place of one chain,   *)
(* never in the old and the new table at the same time.                    *)
LinkedOnce ==
  /\ NoRepeat(mHashTable)
  /\ NoRepeat(old_table)
  /\ Linked(mHashTable) \cap Linked(old_table) = {}

(* What makes lookups right at every step: each handle of the new table is *)
(* in the bucket of its hash, buckets already visited are empty in the old *)
(* table, and neither the handle being added nor, if check_name was called *)
(* for it, its name is in either table yet.                                *)
Placed ==
  \A b \in DOMAIN mHashTable : \A k \in DOMAIN mHashTable[b] :
    Pos(NameOf[mHashTable[b][k]], mHashSize) = b
VisitedEmpty ==
  \A b \in DOMAIN old_table : b < bucket => old_table[b] = <<>>
PendingApart ==
  /\ item \notin Contents
  /\ item \in Checked => \A g \in Contents : NameOf[g] # NameOf[item]

(* The inductive invariant behind LookupSound, CheckedUnique, LinkedOnce   *)
(* and the refinement of ScopeDict.                                        *)
IInv ==
  /\ TypeOK
  /\ Placed
  /\ VisitedEmpty
  /\ PendingApart
  /\ LinkedOnce
  /\ CheckedUnique

(* The chains stay short: the table grows before it holds more handles     *)
(* than 1.8 times its size (Scope.h:106, the threshold for enlarging).     *)
LoadBounded == pc = "idle" => Cardinality(Contents) * 5 <= mHashSize * 9

(* The inductive form of LoadBounded: mHashNum never undercounts, so the   *)
(* table held at most its threshold when the growth began.                 *)
LoadInv ==
  /\ IsFiniteSet(Contents)
  /\ Cardinality(Contents) <= mHashNum
  /\ Cardinality(Contents) <= IF pc = "idle" THEN mNextLimit ELSE Limit(OldSize)

(* Scope implements the growing dictionary of ScopeDict; a rehash is       *)
(* invisible to it.                                                        *)
Dict == INSTANCE ScopeDict WITH dict <- Contents
ImplementsDict == Dict!DictSpec

(* h is in the scope, and find_local finds it if its name is guarded. *)
Settled(h) ==
  /\ pc = "idle"
  /\ h \in Contents
  /\ NameOf[h] \in CheckedNames => FindLocal(NameOf[h]) = h

(* An add that has to grow the table terminates, and then the handle under *)
(* a guarded name is what find_local returns.                              *)
AddCompletes == \A h \in Handle : (item = h) ~> Settled(h)
==============================================================================
