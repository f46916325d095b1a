--------------------------- MODULE MCPacketStream ---------------------------
(* Two nodes, a with b in a hot slot.                                      *)
EXTENDS PacketStream

CONSTANTS a, b

MCEnds == {a, b}
MCHot == {a}
MC11 == [e \in {a, b} |-> 1]
MC20 == (a :> 2) @@ (b :> 0)
MC21 == (a :> 2) @@ (b :> 1)
=============================================================================
