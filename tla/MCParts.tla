------------------------------ MODULE MCParts ------------------------------
(* The parts of the system that keep a structure of their own, one in each *)
(* behaviour.                                                              *)
EXTENDS RowSearch, NodeTime, LiderList, JumpIndex, CachedRows, DoubleConnect, RestTable

VARIABLE part  \* the part that takes the steps
-----------------------------------------------------------------------------
(* Two chains over genesis blocks 0 and 1 that part above number 2; a5, a3 *)
(* and b4 have transactions.                                               *)
ChainA == << "g0", "g1", "a2", "a3", "a4", "a5" >>
ChainB == << "g0", "g1", "a2", "b3", "b4" >>
Seeds == {"a5", "a4", "b4"}
Empties == {"g0", "g1", "a2", "a4", "b3"}

(* Eight hashes of three miners for block number 5, with equal and with    *)
(* very different powers.                                                  *)
Hashes == << "h1", "h2", "h3", "a5", "h5", "h6", "h7", "h8" >>
HashPower == << 7, 5, 5, 4, 3, 3, 2, 1 >>
Ranked == Hashes \o << "g0", "g1", "a2", "a3", "a4", "b3", "b4" >>

TreeBlock == Range(Ranked)
IndexIn(s, b) == CHOOSE i \in DOMAIN s : s[i] = b
ChainOf(b) ==
  IF b \in Range(Hashes) THEN [ChainA EXCEPT ![6] = b]
  ELSE IF b \in Range(ChainA) THEN ChainA ELSE ChainB
TreeNum == [b \in TreeBlock |-> IndexIn(ChainOf(b), b) - 1]
TreePrev == [b \in TreeBlock |-> IF b = "g0" THEN b ELSE ChainOf(b)[TreeNum[b]]]
TreeAnc == [b \in TreeBlock |-> [n \in 0 .. 5 |-> IF n =< TreeNum[b] THEN ChainOf(b)[n + 1] ELSE b]]
TreeRank == [b \in TreeBlock |-> IndexIn(Ranked, b)]
TreePower == [b \in TreeBlock |-> IF TreeRank[b] =< 8 THEN HashPower[TreeRank[b]] ELSE 0]
TreeMiner == [b \in TreeBlock |-> TreeRank[b] % 3]

(* Errors of the clock on both sides.                                     *)
Clocks == {-30, 0, 13}
-----------------------------------------------------------------------------
Parts == {"search", "lider", "jump", "cache", "time", "double", "rest"}

PartsInit ==
  /\ part \in Parts
  /\ Init /\ LiderInit /\ JumpInit /\ CacheInit /\ TimeInit /\ DoubleInit /\ RestInit
  /\ part # "time" => clock = 0

PartsNext ==
  /\ UNCHANGED part
  /\ IF part = "search" THEN Next ELSE UNCHANGED vars
  /\ IF part = "lider" THEN LiderNext ELSE UNCHANGED liderVars
  /\ IF part = "jump" THEN JumpNext ELSE UNCHANGED jumpVars
  /\ IF part = "cache" THEN CacheNext ELSE UNCHANGED cacheVars
  /\ IF part = "time" THEN TimeNext ELSE UNCHANGED timeVars
  /\ IF part = "double" THEN DoubleNext ELSE UNCHANGED doubleVars
  /\ IF part = "rest" THEN RestNext ELSE UNCHANGED restVars

PartsSpec == PartsInit /\ [][PartsNext]_<< part, vars, liderVars, jumpVars, cacheVars, timeVars, doubleVars, restVars >>
=============================================================================
