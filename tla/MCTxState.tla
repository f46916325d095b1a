----------------------------- MODULE MCTxState -----------------------------
(* Two chains over g0, g1 that part above block a2.  Accounts 0 and 1 are  *)
(* there from the start; a2, b3 and a4 make more.                          *)
EXTENDS TxState

MCBlock == {"g0", "g1", "a2", "a3", "a4", "b3", "b4", "b5"}

ChainA == << "g0", "g1", "a2", "a3", "a4" >>
ChainB == << "g0", "g1", "a2", "b3", "b4", "b5" >>
ChainOf(b) == IF b \in ToSet(ChainA) THEN ChainA ELSE ChainB

MCNum == [b \in MCBlock |-> (CHOOSE i \in DOMAIN ChainOf(b) : ChainOf(b)[i] = b) - 1]
MCPrev == [b \in MCBlock |-> IF b = "g0" THEN b ELSE ChainOf(b)[MCNum[b]]]
MCAnc == [b \in MCBlock |-> [n \in 0 .. 5 |->
            ChainOf(b)[IF n < Len(ChainOf(b)) THEN n + 1 ELSE Len(ChainOf(b))]]]

MCChanges == [b \in MCBlock |->
  CASE b = "a2" -> {0} [] b = "a3" -> {0, 2} [] b = "a4" -> {1} []
       b = "b3" -> {0} [] b = "b4" -> {2, 3} [] b = "b5" -> {0, 3} [] OTHER -> {}]
MCNewCount == [b \in MCBlock |-> CASE b = "b3" -> 2 [] b \in {"a2", "a4"} -> 1 [] OTHER -> 0]
MCSmart == {"a2", "b3", "a4"}
=============================================================================
