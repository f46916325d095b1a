-------------------------------- MODULE Work --------------------------------
(***************************************************************************)
(* Proof of work and bodies of the blocks, and the list of the strongest   *)
(* hashes a node keeps for a block number (MaxLiderList).                  *)
(***************************************************************************)
EXTENDS Blocks, SequencesExt

CONSTANTS
  Power,      \* Power[b]: leading zero bits of b's PowHash
  SumPow,     \* SumPow[b]: Power of b and of all its ancestors
  Rank,       \* Rank[b]: place of b's PowHash among all, the smallest first
  Miner,      \* Miner[b]: account the MinerHash of b names
  MaxLeader   \* JINN_CONST.MAX_LEADER_COUNT

ASSUME WorkAssumption ==
  /\ Power \in [Block -> Nat] /\ SumPow \in [Block -> Nat]
  /\ \A b \in Block : Num[b] > 0 => SumPow[b] = SumPow[Prev[b]] + Power[b]
  /\ Rank \in [Block -> Nat]
  /\ \A a, b \in Block : Rank[a] = Rank[b] => a = b
  /\ \A a, b \in Block : Power[a] > Power[b] => Rank[a] < Rank[b]
  /\ DOMAIN Miner = Block
  /\ MaxLeader \in Nat \ {0}

(* How much weaker than the first hash a hash of the list may be.          *)
MaxSpread == 4

(* The chain ending with a has more work than the one ending with b.       *)
Better(a, b) ==
  SumPow[a] > SumPow[b] \/ (SumPow[a] = SumPow[b] /\ Rank[a] < Rank[b])

(* Mutant: equal powers are not told apart by the hash.                    *)
Weaker_PowerOnly(a, b) == Power[a] < Power[b]

(* CompareMaxLider(a, b) < 0.                                              *)
Weaker(a, b) ==
  Power[a] < Power[b] \/ (Power[a] = Power[b] /\ Rank[b] < Rank[a])
-----------------------------------------------------------------------------
Stronger(list, b) == {n \in DOMAIN list : \A m \in 1 .. n : ~Weaker(list[m], b)}

(* AddHashToMaxLider meets b in the list before a weaker hash.             *)
IsDouble(list, b) == \E n \in Stronger(list, b) : list[n] = b

(* The place in the list b gets, 0 if it gets none.                        *)
Place(list, b) ==
  LET at == Cardinality(Stronger(list, b)) + 1
  IN IF at =< Len(list) \/ Len(list) < MaxLeader THEN at ELSE 0

(* Mutant: a new hash is always put at the end.                            *)
AddLider_AtEnd(list, b) ==
  IF Len(list) < MaxLeader THEN Append(list, b) ELSE list

(* Mutant: the hashes of b's miner are removed wherever they stand.        *)
AddLider_AnyOfMiner(list, b) ==
  LET at == Place(list, b)
      own == SelectSeq(list, LAMBDA c : Miner[c] # Miner[b])
  IN IF at = 0 THEN own ELSE Append(own, b)

(* The list after AddHashToMaxLider for a b that is not in it: b at its    *)
(* place, the list cut, and of the rest the too weak hashes and those of   *)
(* b's miner behind b removed (when b gets no place: behind the first).    *)
AddLider(list, b) ==
  LET at    == Place(list, b)
      grown == IF at = 0 THEN list ELSE InsertAt(list, at, b)
      cut   == SubSeq(grown, 1, IF Len(grown) > MaxLeader THEN MaxLeader ELSE Len(grown))
      stays == {n \in DOMAIN cut :
                  n > 1 => /\ Power[cut[1]] < Power[cut[n]] + MaxSpread
                           /\ ~(n > at /\ Miner[cut[n]] = Miner[b])}
      kept[i \in 0 .. Len(cut)] ==
        IF i = 0 THEN << >>
        ELSE IF i \in stays THEN Append(kept[i - 1], cut[i]) ELSE kept[i - 1]
  IN kept[Len(cut)]
=============================================================================
