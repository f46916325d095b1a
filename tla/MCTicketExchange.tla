-------------------------- MODULE MCTicketExchange --------------------------
(* Networks of up to three nodes in a row, a - b - c.  Met: users of both    *)
(* ends have the transaction, so that tickets meet in the middle and bodies  *)
(* are left out.  Late: it comes from a, a mines and the number gets old at  *)
(* b.  Two: two neighbours have it, one of them mines, and both are open.    *)
(* Caps: two transactions and messages of one.  Far: the clocks are up to    *)
(* two numbers apart.  Set: the clock of b is set once, back or ahead.       *)
EXTENDS TicketExchange, TLC

CONSTANTS a, b, c, t1, t2

Setup(link, own, miners, last) ==
    [link |-> link, own |-> own, miners |-> miners, upset |-> {},
     start |-> [n \in Node |-> 0], last |-> last, apart |-> 1]

Own(A, B, C) == a :> A @@ b :> B @@ c :> C
MCRow == {{a, b}, {b, c}}
MCPair == {{a, b}}
MCMet == Setup(MCRow, Own({t1}, {}, {t1}), {}, Own(1, 1, 1))
MCLate == Setup(MCPair, Own({t1}, {}, {}), {a}, Own(2, 3, 1))
MCTwo == Setup(MCPair, Own({t1}, {t1}, {}), {a}, Own(2, 1, 1))
MCCaps == Setup(MCPair, Own({t1, t2}, {}, {}), {}, Own(1, 1, 1))
MCFar == [Setup(MCPair, Own({t1}, {}, {}), {a}, Own(3, 2, 1))
            EXCEPT !.start = Own(0, -1, 0), !.apart = 2]
MCSet == [Setup(MCPair, Own({t1}, {}, {}), {}, Own(2, 3, 1))
            EXCEPT !.start = Own(0, -1, 0), !.upset = {b}]

MCSetups == {MCMet, MCLate, MCTwo, MCCaps, MCFar, MCSet}
MCMining == {Setup(MCRow, Own({t1}, {}, {}), {a}, Own(2, 1, 1))}
MCOrder == t1 :> 1 @@ t2 :> 2
=============================================================================
