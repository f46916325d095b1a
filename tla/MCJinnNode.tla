----------------------------- MODULE MCJinnNode -----------------------------
(* A node over the genesis blocks 0 and 1.  A block is the path to it, one *)
(* label per number: "p" made by a peer (with the transactions T at number *)
(* 3), "o" made by the node without transactions, "q" by the node with T,  *)
(* "m" the node's mined form of "o", "r" and "s" those of "q".             *)
EXTENDS JinnNode

CONSTANT T      \* the root of the transactions of number 3

G == << "g", "g" >>
Level2 == {Append(G, x) : x \in {"p", "o", "m"}}
Level3 == {Append(b, x) : b \in Level2, x \in {"o", "q"}} \cup {Append(Append(G, x), "p") : x \in {"p", "o"}}
          \cup {G \o << "o", "r" >>, G \o << "o", "s" >>}
Level4 == {Append(b, "o") : b \in Level3} \cup {G \o << "p", "p", "p" >>}

MCBlock == {<< "g" >>, G} \cup Level2 \cup Level3 \cup Level4

MCNum == [b \in MCBlock |-> Len(b) - 1]
MCPrev == [b \in MCBlock |-> IF Len(b) = 1 THEN b ELSE Front(b)]
MCAnc == [b \in MCBlock |-> [n \in 0 .. 4 |-> SubSeq(b, 1, IF n < Len(b) THEN n + 1 ELSE Len(b))]]

Bits == [g |-> 0, p |-> 3, o |-> 1, q |-> 1, m |-> 5, r |-> 2, s |-> 4]
MCPower == [b \in MCBlock |-> Bits[Last(b)]]
MCSumPow == [b \in MCBlock |-> FoldLeft(LAMBDA s, x : s + Bits[x], 0, b)]

(* Equal powers are told apart by the path.                                *)
Code == [g |-> 5, m |-> 1, p |-> 2, o |-> 3, q |-> 4, r |-> 6, s |-> 7]
Path(b) == FoldLeft(LAMBDA s, x : 8 * s + Code[x], 0, b) + 100000 * (5 - MCPower[b])
MCRank == [b \in MCBlock |-> Path(b)]
MCMiner == [b \in MCBlock |-> Last(b) \in {"o", "q", "m", "r", "s"}]

MCTree == [b \in MCBlock |-> IF Len(b) = 4 /\ Last(b) \in {"p", "q", "r", "s"} THEN T ELSE NoTree]
MCOwn == [p \in MCBlock |-> [t \in {T, NoTree} |->
            LET b == Append(p, IF t = T THEN "q" ELSE "o") IN IF b \in MCBlock THEN b ELSE None]]
MCMined == {b \in MCBlock : Last(b) \in {"m", "r", "s"}}
MCPeer == {b \in MCBlock : Last(b) = "p"} \cup {G \o << "o", "q" >>}
MCPeerFork == MCPeer \ {G \o << "o", "p" >>}
MCPeerFew == {G \o << "p" >>, G \o << "p", "p" >>}
MCPeerSome == MCPeerFew \cup {G \o << "o", "q" >>}
(* A listening node among peers with forks, and a mining node.             *)
MCListens == [mining |-> FALSE, peer |-> MCPeerFork]
MCMines == [mining |-> TRUE, peer |-> MCPeerSome]
MCSetups == {MCListens, MCMines}
MCWork == {[mining |-> FALSE, peer |-> MCPeer]}
MCStart == {4}
MCTreesAt == [n \in Heights |-> IF n = 3 THEN {T, NoTree} ELSE {NoTree}]
=============================================================================
