----------------------------- MODULE LiderList -----------------------------
(***************************************************************************)
(* MaxLiderList of one block number under any order of arriving hashes:    *)
(* from peers, from the miners, and the node's own.                        *)
(***************************************************************************)
EXTENDS Work

CONSTANT
  LiderNum   \* the block number

VARIABLES
  list,     \* LiderArr: the hashes kept, the strongest first
  offered   \* every hash that has arrived

liderVars == << list, offered >>

LiderInit == list = << >> /\ offered = {}

(* AddHashToMaxLider: a hash that is met in the list changes nothing.      *)
Offer(b) ==
  /\ list' = IF IsDouble(list, b) THEN list ELSE AddLider(list, b)
  /\ offered' = offered \cup {b}

LiderNext == \E b \in Block : Num[b] = LiderNum /\ Offer(b)

LiderSpec == LiderInit /\ [][LiderNext]_liderVars
-----------------------------------------------------------------------------
(* The strongest hash that ever arrived is the first of the list: neither  *)
(* the cut to MaxLeader nor the removals by spread and by miner, which     *)
(* also run for a hash that gets no place, can lose it, and a hash removed *)
(* earlier and offered again does not displace it. The list below it is    *)
(* sorted, short, and less than MaxSpread bits deep, what the search for a *)
(* place (which stops at the first weaker hash) relies on.                 *)
HeadIsBest ==
  /\ offered # {} => list # << >>
  /\ list # << >> => list[1] \in offered /\ \A b \in offered : ~Weaker(list[1], b)
  /\ Len(list) =< MaxLeader
  /\ \A i, j \in DOMAIN list : i < j => Weaker(list[j], list[i])
  /\ \A i \in DOMAIN list : Power[list[1]] < Power[list[i]] + MaxSpread
=============================================================================
