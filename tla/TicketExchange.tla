--------------------------- MODULE TicketExchange ---------------------------
(***************************************************************************)
(* How the transactions of one block number travel between hot neighbours. *)
(* A node first sends the tickets (short hashes) of what it has, later the *)
(* bodies of those transactions the neighbour has not shown to know, and   *)
(* an empty body where it has.  What each side is believed to have is kept *)
(* in bit masks per item; the same masks later decide which transactions   *)
(* of a block body are sent as tickets only.                               *)
(***************************************************************************)
EXTENDS Integers, Sequences, FiniteSets, SequencesExt

CONSTANTS Node, Tx, None,
          MaxTT,  \* MAX_TRANSFER_TT
          MaxTX,  \* MAX_TRANSFER_TX
          Order,  \* Order[t]: the order of the transactions in a tree
          Setups  \* the networks, users and miners looked at

\* link: {n, m} are hot for each other during this number; own[n]: transactions
\* of the node's own users; miners: who makes a block of this number.  start[n]
\* and last[n] (bounds): the part of the way of the clock of n that is looked at;
\* apart: how many numbers clocks of neighbours go apart; upset (a bound): the
\* nodes whose clock is set once, whatever its neighbours show.
ASSUME SetupsAssumption ==
    \A s \in Setups :
        /\ s.link \subseteq SUBSET Node
        /\ s.own \in [Node -> SUBSET Tx]
        /\ s.miners \subseteq Node /\ s.upset \subseteq Node
        /\ s.start \in [Node -> {-1, 0}] /\ s.last \in [Node -> 1 .. 3]
        /\ s.apart \in 1 .. 3
ASSUME CapsAssumption == MaxTT \in Nat \ {0} /\ MaxTX \in Nat \ {0}
ASSUME OrderAssumption == Order \in [Tx -> Nat]

VARIABLES setup,  \* one of Setups, chosen at the start
          item,   \* item[n][t]: t in the ticket tree of n
          arr,    \* arr[n]: ArrTxAll
          step,   \* step[n]: StepTaskTt and StepTaskTx of the number
          past,   \* past[n]: how far the clock of n is past the number
          session, \* session[n]: n has noted its neighbours for the number
          upset,  \* nodes whose clock may still be set
          have,   \* have[n]: block bodies n has with all their transactions
          out,    \* out[n][m]: messages from n to m, in order
          refused, \* history: whole transactions not taken for their number
          gave,   \* history: block bodies a node has sent to another
          broken  \* history: bodies a receiver could not put together

clock == <<past, session, upset>>
vars == <<setup, item, arr, step, clock, have, out, refused, gave, broken>>

Linked(n, m) == n # m /\ {n, m} \in setup.link
\* GetTransferSession: whom n sends to.
HotOf(n) == {m \in Node : session[n] /\ Linked(n, m)}

\* CurrentBlockNum less the number: at -1 it has not begun; at 0 transactions of
\* the node's own are added; from 1 to 5 tickets and bodies are sent; at 2 a miner
\* makes its block.  3 stands for 3 to 5.
Pasts == -1 .. 3

\* STEP_TICKET and STEP_TX are 1: a number is taken at 0, 1 and 2, and refused as
\* too early before and as too late after.
CanProcessBlock(n) == past[n] - 1 \in -1 .. 1

NoItem == [kind |-> "none", from |-> None, ttSend |-> {}, ttReceive |-> {},
           ttTxReceive |-> {}, txSend |-> {}, txReceive |-> {}, ttTxSend |-> {},
           wait |-> 0]

NewItem(kind, from) == [NoItem EXCEPT !.kind = kind, !.from = from]

Init == /\ setup \in Setups
        /\ item = [n \in Node |-> [t \in Tx |-> NoItem]]
        /\ arr = [n \in Node |-> << >>]
        /\ step = [n \in Node |-> [tt |-> FALSE, tx |-> FALSE]]
        /\ past = setup.start
        /\ session = [n \in Node |-> setup.start[n] = 0]
        /\ upset = setup.upset
        /\ have = [n \in Node |-> {}]
        /\ out = [n \in Node |-> [m \in Node |-> << >>]]
        /\ refused = {}
        /\ gave = {}
        /\ broken = {}

Full(n, t) == item[n][t].kind = "tx"
BothSteps == [tt |-> TRUE, tx |-> TRUE]

\* Transactions in the order of a tree.
InOrder(S) == SetToSortSeq(S, LAMBDA t, u : Order[t] < Order[u])
FirstOf(s, max) == SubSeq(s, 1, IF Len(s) < max THEN Len(s) ELSE max)

\* The items of a list that are in P, in the order of the list.
Only(s, P) ==
    LET first[i \in 0 .. Len(s)] ==
          IF i = 0 THEN << >>
          ELSE IF s[i] \in P THEN Append(first[i - 1], s[i]) ELSE first[i - 1]
    IN  first[Len(s)]

-----------------------------------------------------------------------------
\* AddCurrentProcessingTx: a transaction of the node's own for this number.
AddCurrentProcessingTx(n, t) ==
    /\ t \in setup.own[n]
    /\ past[n] = 0
    /\ ~Full(n, t)
    /\ item' = [item EXCEPT ![n][t] = IF @.kind = "none" THEN NewItem("tx", None)
                                      ELSE [@ EXCEPT !.kind = "tx"]]
    /\ arr' = [arr EXCEPT ![n] = Append(@, t)]
    /\ step' = [step EXCEPT ![n] = BothSteps]
    /\ UNCHANGED <<clock, have, out, refused, gave, broken>>

-----------------------------------------------------------------------------
\* SendTicket to one neighbour: every ticket not sent to it yet, at most MaxTT;
\* those it has sent itself go as requests.
Tickets(its, m) ==
    FirstOf(InOrder({t \in Tx : its[t].kind # "none" /\ m \notin its[t].ttSend}), MaxTT)

TicketMessage(its, m) ==
    LET ts == ToSet(Tickets(its, m))
        req == {t \in ts : its[t].from = m}
    IN  [type |-> "TRANSFERTT", tt |-> ts \ req, req |-> req]

\* The loop over the tree ends when the message is full.
LookedAt(its, m) ==
    LET ts == Tickets(its, m)
    IN  {t \in Tx : /\ its[t].kind # "none"
                    /\ Len(ts) >= MaxTT => Order[t] =< Order[Last(ts)]}

\* All neighbours get theirs from the same tree; what is looked at starts its
\* clock (TimeTTSend).
TicketsSent(its, to) ==
    LET sent == [m \in to |-> ToSet(Tickets(its, m))]
        looked == UNION {LookedAt(its, m) : m \in to}
    IN  [t \in Tx |->
           [its[t] EXCEPT !.ttSend = @ \cup {m \in to : t \in sent[m]},
                          !.wait = IF @ = 0 /\ t \in looked THEN 1 ELSE @]]

\* SendTx to one neighbour: what is due, and whether it goes without its body
\* because the neighbour has sent the ticket itself.
MinPassed(i) == i.wait >= 2
MaxPassed(i) == i.wait >= 3

Empty(i, m) == m \in i.ttReceive

Due(i, m) == /\ i.kind = "tx"
             /\ m \notin i.txSend
             /\ MinPassed(i)
             /\ Empty(i, m) => MaxPassed(i) /\ m \notin i.ttTxSend

Waits(i, m) == /\ m \notin i.txSend
               /\ MinPassed(i) => Empty(i, m) /\ ~MaxPassed(i)

Bodies(its, list, m) ==
    FirstOf(Only(list, {t \in Tx : Due(its[t], m)}), MaxTX)

BodyMessage(its, list, m) ==
    [type |-> "TRANSFERTX",
     txs |-> [k \in DOMAIN Bodies(its, list, m) |->
                LET t == Bodies(its, list, m)[k]
                IN  [tx |-> t, full |-> ~Empty(its[t], m)]]]

BodiesSent(its, list, to) ==
    LET sent == [m \in to |-> ToSet(Bodies(its, list, m))]
    IN  [t \in Tx |->
           [its[t] EXCEPT
              !.txSend = @ \cup {m \in to : t \in sent[m] /\ ~Empty(its[t], m)},
              !.ttTxSend = @ \cup {m \in to : t \in sent[m] /\ Empty(its[t], m)}]]

\* Mutant: only a full message keeps the step going.
WasBreak_OnlyFull(its, list, to) == \E m \in to : Len(Bodies(its, list, m)) >= MaxTX

\* Something has to be looked at again in the next tick.
WasBreak(its, list, to) ==
    \E m \in to : \/ Len(Bodies(its, list, m)) >= MaxTX
                  \/ \E t \in ToSet(list) : Waits(its[t], m)

\* The part of DoNode that is about this number: what the items, the messages
\* and the step become.
Ticked(n) ==
    LET to == HotOf(n)
        first == IF step[n].tt THEN TicketsSent(item[n], to) ELSE item[n]
        tt(m) == IF step[n].tt /\ Tickets(item[n], m) # << >>
                 THEN <<TicketMessage(item[n], m)>> ELSE << >>
        tx(m) == IF step[n].tx /\ Bodies(first, arr[n], m) # << >>
                 THEN <<BodyMessage(first, arr[n], m)>> ELSE << >>
    IN  [item |-> IF step[n].tx THEN BodiesSent(first, arr[n], to) ELSE first,
         out |-> [m \in Node |-> IF m \in to THEN out[n][m] \o tt(m) \o tx(m)
                                 ELSE out[n][m]],
         more |-> step[n].tx /\ WasBreak(first, arr[n], to)]

TimerRuns(n) == past[n] >= 1 /\ (step[n].tt \/ step[n].tx)

Tick(n) ==
    /\ TimerRuns(n)
    /\ LET x == Ticked(n)
       IN  /\ item' = [item EXCEPT ![n] = x.item]
           /\ out' = [out EXCEPT ![n] = x.out]
           /\ step' = [step EXCEPT ![n].tx = x.more]
    /\ UNCHANGED <<arr, clock, have, refused, gave, broken>>

-----------------------------------------------------------------------------
\* TRANSFERTT: at n, from m.  The sender is looked for among the neighbours noted
\* for the number.
ReceiveTickets(n, m, msg) ==
    LET known(t) == IF item[n][t].kind = "none" THEN NewItem("ticket", m) ELSE item[n][t]
        new == {t \in msg.tt : item[n][t].kind = "none"}
    IN  /\ IF m \in HotOf(n) /\ CanProcessBlock(n)
           THEN /\ item' = [item EXCEPT ![n] = [t \in Tx |->
                      IF t \in msg.tt THEN [known(t) EXCEPT !.ttReceive = @ \cup {m}]
                      ELSE IF t \in msg.req /\ item[n][t].kind # "none"
                      THEN [item[n][t] EXCEPT !.ttTxReceive = @ \cup {m}]
                      ELSE item[n][t]]]
                /\ step' = [step EXCEPT ![n].tt = @ \/ new # {}]
           ELSE UNCHANGED <<item, step>>
        /\ out' = [out EXCEPT ![m][n] = Tail(@)]
        /\ UNCHANGED <<arr, clock, have, refused, gave, broken>>

\* TRANSFERTX: at n, from m.  Bodies are taken, empty ones that n has no body
\* for are asked for in the answer.  A number that is refused gets no answer.
AfterBody(i, m) ==
    IF i.kind = "none" THEN [NewItem("tx", m) EXCEPT !.txReceive = {m}]
    ELSE [i EXCEPT !.kind = "tx", !.txReceive = @ \cup {m}]

AfterEmpty(i, m) ==
    IF i.kind = "none" THEN i ELSE [i EXCEPT !.ttTxReceive = @ \cup {m}]

IsFullIn(msg, t) == [tx |-> t, full |-> TRUE] \in ToSet(msg.txs)
Named(msg) == [k \in DOMAIN msg.txs |-> msg.txs[k].tx]

\* Mutant: a body that is there already is taken again.
NewBodies_Again(n, msg) == Only(Named(msg), {t \in Tx : IsFullIn(msg, t)})

NewBodies(n, msg) == Only(Named(msg), {t \in Tx : IsFullIn(msg, t) /\ ~Full(n, t)})

ReceiveBodies(n, m, msg) ==
    LET named == ToSet(Named(msg))
        full == {t \in named : IsFullIn(msg, t)}
        req == {t \in named \ full : ~Full(n, t)}
        answer == [type |-> "TRANSFERTX_RET", req |-> req]
    IN  /\ IF CanProcessBlock(n)
           THEN /\ item' = [item EXCEPT ![n] = [t \in Tx |->
                      IF t \in full THEN AfterBody(item[n][t], m)
                      ELSE IF t \in named THEN AfterEmpty(item[n][t], m)
                      ELSE item[n][t]]]
                /\ arr' = [arr EXCEPT ![n] = @ \o NewBodies(n, msg)]
                /\ step' = [step EXCEPT ![n] = IF full # {} THEN BothSteps ELSE @]
                /\ out' = [out EXCEPT ![m][n] = Tail(@), ![n][m] = Append(@, answer)]
                /\ refused' = refused
           ELSE /\ out' = [out EXCEPT ![m][n] = Tail(@)]
                /\ refused' = refused \cup {<<m, n, t>> : t \in full}
                /\ UNCHANGED <<item, arr, step>>
        /\ UNCHANGED <<clock, have, gave, broken>>

\* OnTxResult: m asks n for the bodies after all.
ReceiveRequest(n, m, msg) ==
    /\ item' = [item EXCEPT ![n] = [t \in Tx |->
         IF t \in msg.req
         THEN [item[n][t] EXCEPT !.txSend = @ \ {m}, !.ttTxSend = @ \ {m},
                                 !.ttReceive = @ \ {m}]
         ELSE item[n][t]]]
    /\ step' = [step EXCEPT ![n].tx = @ \/ msg.req # {}]
    /\ out' = [out EXCEPT ![m][n] = Tail(@)]
    /\ UNCHANGED <<arr, clock, have, refused, gave, broken>>

-----------------------------------------------------------------------------
\* FillBodyFromTransfer: a block of the number gets what has come in so far.
CreateBlock(n) ==
    /\ n \in setup.miners
    /\ past[n] = 2
    /\ arr[n] # << >>
    /\ have' = [have EXCEPT ![n] = @ \cup {ToSet(arr[n])}]
    /\ UNCHANGED <<item, arr, step, clock, out, refused, gave, broken>>

\* ProcessBlockOnSend: n sends m the body of a block m has asked for.  What m is
\* known to have goes as a ticket.
Knows(i, m) == m \in i.txReceive \/ m \in i.txSend \/ m \in i.ttTxReceive

\* Mutant: what goes as a ticket is marked as sent as well.
MarkSent_Ticket(i, whole, m) == [i EXCEPT !.txSend = @ \cup {m}]

\* What is sent whole is marked as sent.
MarkSent(i, whole, m) == IF whole THEN [i EXCEPT !.txSend = @ \cup {m}] ELSE i

SendBlock(n, m, body) ==
    LET full == {t \in body : ~Knows(item[n][t], m)}
    IN  /\ Linked(n, m)
        /\ body \in have[n] \ have[m]
        /\ <<n, m, body>> \notin gave
        /\ out' = [out EXCEPT ![n][m] =
             Append(@, [type |-> "BLOCK", body |-> body, full |-> full])]
        /\ item' = [item EXCEPT ![n] = [t \in Tx |->
             IF t \notin body THEN item[n][t]
             ELSE LET i == IF item[n][t].kind = "none" THEN NewItem("tx", None)
                           ELSE [item[n][t] EXCEPT !.kind = "tx"]
                  IN  MarkSent(i, t \in full, m)]]
        /\ gave' = gave \cup {<<n, m, body>>}
        /\ UNCHANGED <<arr, step, clock, have, refused, broken>>

\* AddBlockBody and ProcessBlockOnReceive: a transaction that came as a ticket
\* is taken from the tree; one that is not there is "Error #1" or "#2" and the
\* body is not loaded.
ReceiveBlock(n, m, msg) ==
    LET lost == {t \in msg.body \ msg.full : ~Full(n, t)}
        after(t) == LET i == item[n][t] IN
                    IF i.kind = "none" THEN [NewItem("tx", None) EXCEPT !.txReceive = {m}]
                    ELSE [i EXCEPT !.kind = "tx", !.txReceive = @ \cup {m}]
    IN  /\ IF msg.body \in have[n] THEN UNCHANGED <<item, have, broken>>
           ELSE /\ item' = [item EXCEPT ![n] = [t \in Tx |->
                      IF t \in msg.body \ lost THEN after(t) ELSE item[n][t]]]
                /\ have' = IF lost = {} THEN [have EXCEPT ![n] = @ \cup {msg.body}] ELSE have
                /\ broken' = IF lost = {} THEN broken ELSE broken \cup {<<m, n, msg.body>>}
        /\ out' = [out EXCEPT ![m][n] = Tail(@)]
        /\ UNCHANGED <<arr, step, clock, refused, gave>>

\* The next message from m at n.
Receive(n, m) ==
    /\ out[m][n] # << >>
    /\ LET msg == Head(out[m][n]) IN
         \/ msg.type = "TRANSFERTT" /\ ReceiveTickets(n, m, msg)
         \/ msg.type = "TRANSFERTX" /\ ReceiveBodies(n, m, msg)
         \/ msg.type = "TRANSFERTX_RET" /\ ReceiveRequest(n, m, msg)
         \/ msg.type = "BLOCK" /\ ReceiveBlock(n, m, msg)

-----------------------------------------------------------------------------
\* MIN_TIME_SEND_TT_PERIOD and then MAX_TIME_SEND_TT_PERIOD pass for an item.
TimePasses(n, t) ==
    /\ item[n][t].wait \in {1, 2}
    /\ item' = [item EXCEPT ![n][t].wait = @ + 1]
    /\ UNCHANGED <<arr, step, clock, have, out, refused, gave, broken>>

\* DoNodeFirst and DoNode: the clock of n shows p.  When the number begins the
\* neighbours are noted (InitTransferSession).
Shows(n, p) ==
    /\ past' = [past EXCEPT ![n] = p]
    /\ session' = [session EXCEPT ![n] = @ \/ p = 0]
    /\ UNCHANGED <<item, arr, step, have, out, refused, gave, broken>>

\* The clock goes on, and stays near those of the neighbours.
ClockGoes(n) ==
    /\ past[n] < setup.last[n]
    /\ \A m \in Node : Linked(n, m) => past[n] + 1 =< past[m] + setup.apart
    /\ Shows(n, past[n] + 1)
    /\ UNCHANGED upset

\* CorrectTimeByDelta: the clock is set back or ahead, over any numbers.
ClockIsSet(n) ==
    /\ n \in upset
    /\ \E p \in -1 .. setup.last[n] : Shows(n, p)
    /\ upset' = upset \ {n}

Next ==
    /\ UNCHANGED setup
    /\ \E n \in Node :
         \/ Tick(n) \/ ClockGoes(n) \/ ClockIsSet(n)
         \/ CreateBlock(n)
         \/ \E t \in Tx : AddCurrentProcessingTx(n, t) \/ TimePasses(n, t)
         \/ \E m \in Node : \/ Receive(n, m)
                            \/ \E body \in have[n] : SendBlock(n, m, body)

Spec == Init /\ [][Next]_vars

\* Weak fairness of the timer, of the clock and of the delivery of messages.
\* What is sent and asked for is marked, so that only finitely many steps change
\* something and weak fairness of an action means: it is again and again not
\* enabled.  A tick that finds nothing to send and nothing to drop changes nothing.
Idle(n) == TimerRuns(n) => LET x == Ticked(n)
                           IN  x.item = item[n] /\ x.out = out[n] /\ x.more = step[n].tx

FairSpec ==
    /\ Spec
    /\ []<>(\A n \in Node : /\ past[n] >= 1 /\ Idle(n)
                             /\ \A t \in Tx : item[n][t].wait \notin {1, 2})
    /\ []<>(\A n \in Node : \A m \in HotOf(n) : out[m][n] = << >>)

-----------------------------------------------------------------------------
Items == [kind : {"none", "ticket", "tx"}, from : Node \cup {None},
          ttSend : SUBSET Node, ttReceive : SUBSET Node, ttTxReceive : SUBSET Node,
          txSend : SUBSET Node, txReceive : SUBSET Node, ttTxSend : SUBSET Node,
          wait : 0..3]

\* Every variable has its type, and only neighbours have bits.
TypeOK ==
    /\ setup \in Setups
    /\ item \in [Node -> [Tx -> Items]]
    /\ arr \in [Node -> Seq(Tx)]
    /\ step \in [Node -> [tt : BOOLEAN, tx : BOOLEAN]]
    /\ past \in [Node -> Pasts]
    /\ session \in [Node -> BOOLEAN]
    /\ upset \subseteq setup.upset
    /\ have \in [Node -> SUBSET SUBSET Tx]

\* What a block of the number is made of (ArrTxAll) has each transaction once and
\* whole, whichever of the node's own users, the neighbours' transactions and
\* the tickets before them brought it (AddToTreeWithAll, TRANSFERTX).
ArrOnce == \A n \in Node : /\ IsInjective(arr[n])
                           /\ \A t \in ToSet(arr[n]) : Full(n, t)

OnItsWay(n, m, t) ==
    \E k \in DOMAIN out[n][m] :
        LET msg == out[n][m][k]
        IN  \/ msg.type = "TRANSFERTX" /\ IsFullIn(msg, t)
            \/ msg.type = "BLOCK" /\ t \in msg.full

\* Clocks of neighbours that are never more than one number apart: what
\* MAX_DELTA_PROCESSING allows for.
Near == setup.apart = 1 /\ setup.upset = {}

\* The bits that let a body be left out later are right: who is marked as having
\* been sent a transaction has it, or it is on its way ahead of everything sent
\* from now on, or it came when its number was not taken, and then the mark
\* stays; who is marked as its source has it.  Near clocks refuse nothing as too
\* early: what was refused was too late.
SentIsKnown ==
    \A n, m \in Node : \A t \in Tx :
        /\ m \in item[n][t].txSend => \/ Full(m, t) \/ OnItsWay(n, m, t)
                                      \/ <<n, m, t>> \in refused
        /\ m \in item[n][t].txReceive => Full(m, t)
        /\ Near /\ <<n, m, t>> \in refused => past[m] = 3

\* A transaction in the list of a node comes to each hot neighbour, unless the
\* number gets old there or, with clocks that go further apart or are set, it was
\* refused: a body that is held back because the neighbour has sent the ticket is
\* not held back for ever, whichever of the two really has it, and the caps of a
\* message only delay it.  Both must have noted their neighbours: a node whose
\* clock is set over the number never does.
Spreads ==
    \A n, m \in Node : \A t \in Tx :
        m \in HotOf(n) /\ n \in HotOf(m) /\ t \in ToSet(arr[n])
            ~> Full(m, t) \/ past[m] = 3 \/ (~Near /\ <<n, m, t>> \in refused)

\* A block body that a neighbour sends, with tickets for what the receiver is
\* thought to have, can be put together by the receiver while it still takes
\* transactions of this number.
BodyIsBuilt == \A b \in broken : ~CanProcessBlock(b[2])

=============================================================================
