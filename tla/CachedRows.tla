----------------------------- MODULE CachedRows -----------------------------
(***************************************************************************)
(* The index of the main chain behind its cache (CDBBlockCache with        *)
(* CCache).  The cache is two trees of the same items, one in the order of *)
(* row numbers and one in the order in which the items were used, and the  *)
(* item used least recently is the first to go.  The index of the blocks   *)
(* of a number and the blocks themselves have caches of the same form;     *)
(* their rows are never passed over.  Row -1, which is written through the *)
(* cache and read past it, is left out.                                    *)
(***************************************************************************)
EXTENDS Integers, Sequences

CONSTANTS
  Position,   \* positions of blocks in their file
  Hole,       \* what a row that was passed over reads as
  MaxCacheSize,
  MaxRowNum      \* bound: numbers of rows

ASSUME CacheAssumption == MaxCacheSize \in Nat

VARIABLES
  file,      \* DBMainIndex, from number 0 on
  byIndex,   \* CacheDBTree: the position by the number of its row
  byAge,     \* VersionDBTree: the numbers, the least recently used first
  answer     \* what the last ReadMainIndex has returned

cacheVars == << file, byIndex, byAge, answer >>

Nothing == [none |-> TRUE]

GetMaxMainIndex == Len(file) - 1
-----------------------------------------------------------------------------
(* CCache, on a pair of trees.                                             *)
Cache == [index |-> byIndex, age |-> byAge]

Kept(index, numbers) == [i \in DOMAIN index \cap numbers |-> index[i]]

Without(age, gone) ==
  LET Left[k \in 0 .. Len(age)] ==
        IF k = 0 THEN << >> ELSE IF age[k] \in gone THEN Left[k - 1] ELSE Append(Left[k - 1], age[k])
  IN Left[Len(age)]

RemoveItem(c, i) == [index |-> Kept(c.index, DOMAIN c.index \ {i}), age |-> Without(c.age, {i})]

CheckDBBlockCacheSize(c, size) ==
  LET gone == IF Len(c.age) > size THEN Len(c.age) - size ELSE 0
      old  == {c.age[k] : k \in 1 .. gone}
  IN [index |-> Kept(c.index, DOMAIN c.index \ old), age |-> SubSeq(c.age, gone + 1, Len(c.age))]

\* scarce: there is not much memory left, and the cache is halved.
AddItemToCache(c, i, value, scarce) ==
  LET found == IF i \in DOMAIN c.index THEN RemoveItem(c, i) ELSE c
      added == [index |-> [j \in DOMAIN found.index \cup {i} |-> IF j = i THEN value ELSE found.index[j]],
                age |-> Append(found.age, i)]
      kept  == CheckDBBlockCacheSize(added, MaxCacheSize)
  IN IF scarce THEN CheckDBBlockCacheSize(kept, Len(kept.age) \div 2) ELSE kept

\* An item that is found is the youngest again.
Used(c, i) == [c EXCEPT !.age = Append(Without(@, {i}), i)]

(* Mutant: the rows that are cut off stay in the cache.                    *)
ClearCacheDBTree_No(c, num) == c

ClearCacheDBTree(c, num) ==
  LET gone == {i \in DOMAIN c.index : i > num}
  IN [index |-> Kept(c.index, DOMAIN c.index \ gone), age |-> Without(c.age, gone)]

SetCache(c) == byIndex' = c.index /\ byAge' = c.age
-----------------------------------------------------------------------------
(* CDBBlockCache.                                                          *)
ReadMainIndex(num, scarce) ==
  /\ IF num > GetMaxMainIndex
       THEN answer' = Nothing /\ UNCHANGED << byIndex, byAge >>
     ELSE IF num \in DOMAIN byIndex
       THEN answer' = [row |-> byIndex[num]] /\ SetCache(Used(Cache, num))
     ELSE answer' = [row |-> file[num + 1]] /\ SetCache(AddItemToCache(Cache, num, file[num + 1], scarce))
  /\ UNCHANGED file

\* The file is extended with holes up to a row above its end.
WriteMainIndex(num, position, scarce) ==
  /\ file' = [i \in 1 .. (IF num < Len(file) THEN Len(file) ELSE num + 1) |->
                IF i = num + 1 THEN position ELSE IF i =< Len(file) THEN file[i] ELSE Hole]
  /\ SetCache(AddItemToCache(Cache, num, position, scarce))
  /\ UNCHANGED answer

TruncateMain(num) ==
  /\ file' = SubSeq(file, 1, num + 1)
  /\ SetCache(ClearCacheDBTree(Cache, num))
  /\ UNCHANGED answer

Clear ==
  /\ file' = << >> /\ byIndex' = << >> /\ byAge' = << >>
  /\ UNCHANGED answer
-----------------------------------------------------------------------------
CacheInit == file = << >> /\ byIndex = << >> /\ byAge = << >> /\ answer = Nothing

CacheNext ==
  \/ \E num \in 0 .. MaxRowNum, scarce \in BOOLEAN :
       \/ ReadMainIndex(num, scarce)
       \/ \E position \in Position : WriteMainIndex(num, position, scarce)
  \/ \E num \in -1 .. GetMaxMainIndex : TruncateMain(num)
  \/ Clear

CacheSpec == CacheInit /\ [][CacheNext]_cacheVars
-----------------------------------------------------------------------------
Numbers(age) == {age[k] : k \in DOMAIN age}

(* Both trees hold the same items, each once, and no more than the cache   *)
(* may: otherwise an item that has gone from one of them would be found by *)
(* the other, or take the place of another one for ever.                   *)
TreesAgree ==
  /\ Numbers(byAge) = DOMAIN byIndex
  /\ \A j, k \in DOMAIN byAge : byAge[j] = byAge[k] => j = k
  /\ Len(byAge) =< MaxCacheSize

Rows == INSTANCE RowFile WITH rows <- file, got <- answer

(* Behind its cache the index is still a file of rows: a read finds what   *)
(* was written last, whatever was dropped from the cache, cut off and      *)
(* written again above the end before; and its trees never part.           *)
IsRowFile == Rows!Spec /\ []TreesAgree
=============================================================================
