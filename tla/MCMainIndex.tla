---------------------------- MODULE MCMainIndex ----------------------------
(* Two chains that part above block a2: a3 .. a6 and b3 .. b6, over the    *)
(* two blocks g0, g1 every node makes itself.  Each block leaves a row in  *)
(* the log of TX, but b4 leaves three.                                     *)
EXTENDS MainIndex

MCBlock == {"g0", "g1", "a2", "a3", "a4", "a5", "a6", "b3", "b4", "b5", "b6"}

ChainA == << "g0", "g1", "a2", "a3", "a4", "a5", "a6" >>
ChainB == << "g0", "g1", "a2", "b3", "b4", "b5", "b6" >>
ChainOf(b) == IF \E i \in 1 .. 7 : ChainA[i] = b THEN ChainA ELSE ChainB

MCNum == [b \in MCBlock |-> (CHOOSE i \in 1 .. 7 : ChainOf(b)[i] = b) - 1]
MCPrev == [b \in MCBlock |-> IF b = "g0" THEN b ELSE ChainOf(b)[MCNum[b]]]
MCAnc == [b \in MCBlock |-> [n \in 0 .. 6 |-> ChainOf(b)[n + 1]]]
MCLogRows == [b \in MCBlock |-> MCNum[b] + IF b \in {"b4", "b5", "b6"} THEN 2 ELSE 0]
=============================================================================
