------------------------------- MODULE Blocks -------------------------------
(***************************************************************************)
(* The universe of block headers a node may meet.                          *)
(*                                                                         *)
(* A block is identified with its SumHash: the hash of a header commits to *)
(* the header of its parent (jinn-block.js, CalcBlockData), so a block     *)
(* determines the whole chain below it.  Hashes are injective here.        *)
(*                                                                         *)
(* The universe is a parameter.  Everything that would be a recursion over *)
(* a chain (the ancestor at a given number) is a parameter too, pinned     *)
(* down by the assumption, so that the modules built on this one use no    *)
(* recursive definition.                                                   *)
(***************************************************************************)
EXTENDS Integers

CONSTANTS
  Block,          \* the block headers
  Num,            \* Num[b]: BlockNum of the header
  Prev,           \* Prev[b]: the block whose SumHash is b.PrevSumHash
  Anc,            \* Anc[b][n]: the ancestor of b with number n <= Num[b]
  GenesisCount,   \* JINN_CONST.BLOCK_GENESIS_COUNT
  MaxNum          \* bound: the greatest block number of the universe

Heights == 0 .. MaxNum

(* Blocks below GenesisCount are made locally by every node and are the    *)
(* same everywhere (GetGenesisBlock); the first block is its own Prev only *)
(* to make Prev total, no action follows it.                               *)
ASSUME BlocksAssumption ==
  /\ GenesisCount \in Nat \ {0}
  /\ MaxNum \in Nat
  /\ GenesisCount =< MaxNum
  /\ Num \in [Block -> Heights]
  /\ Prev \in [Block -> Block]
  /\ \A b \in Block : Num[b] > 0 => Num[Prev[b]] = Num[b] - 1
  /\ \A n \in 0 .. GenesisCount - 1 :
       \E b \in Block : Num[b] = n /\ \A c \in Block : Num[c] = n => c = b
  /\ Anc \in [Block -> [Heights -> Block]]
  /\ \A b \in Block : Anc[b][Num[b]] = b
  /\ \A b \in Block : \A n \in 1 .. Num[b] :
       /\ Num[Anc[b][n]] = n
       /\ Anc[b][n - 1] = Prev[Anc[b][n]]

(* The locally made block with number n < GenesisCount.                    *)
GenesisBlock(n) == CHOOSE b \in Block : Num[b] = n

Genesis == {b \in Block : Num[b] < GenesisCount}
=============================================================================
