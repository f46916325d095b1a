----------------------------- MODULE HotConnect -----------------------------
(***************************************************************************)
(* The hot connections of JINN nodes: which neighbour holds which slot of  *)
(* Engine.LevelArr, the request and the refusal of a slot, the periodic    *)
(* check of the slots, and connections that close and open again.          *)
(* Every node runs the same handlers (jinn-connect-hot.js); a connection   *)
(* delivers in order, what is in flight from n to m is node[n].out[m].     *)
(* Scores, ages and the speed test are left open: what they decide is a    *)
(* choice.  Two connections between the same two nodes are not modelled.   *)
(***************************************************************************)
EXTENDS Integers, Sequences, FiniteSetsExt

CONSTANTS
    Node,       \* the nodes
    None,       \* an empty slot
    Link,       \* the pairs {n, m} that can connect
    MAX_LEVEL_CONNECTION,   \* slots given by the distance of two addresses
    EXTRA_SLOTS_COUNT,      \* slots for nodes that ask when their normal slot is taken
    NaturalOf,  \* [n, known, m] |-> normal slot of m at n, before and after n
                \* has learnt its own address
    Setups,     \* what the start may be: the nodes that do not know their own
                \* address yet, and a first value of opened
    Score,      \* the scores nodes give each other
    Asker,      \* the nodes that look for neighbours; the others only answer
    MaxOut,     \* bound: requests and MAXHASH are sent while less is in flight
    MaxOpen     \* bound: connections opened again after the start

MAX_LEVEL_ALL == MAX_LEVEL_CONNECTION + EXTRA_SLOTS_COUNT
Levels == 0 .. MAX_LEVEL_ALL - 1
Normal == 0 .. MAX_LEVEL_CONNECTION - 1
Extra == MAX_LEVEL_CONNECTION .. MAX_LEVEL_ALL - 1

ASSUME LevelAssumption ==
    /\ MAX_LEVEL_CONNECTION \in Nat \ {0} /\ EXTRA_SLOTS_COUNT \in Nat
    /\ NaturalOf \in [Node \X BOOLEAN \X Node -> Normal]
    /\ None \notin Node /\ Asker \subseteq Node
    /\ Setups \subseteq [learner : SUBSET Node, opened : 0 .. MaxOpen]
    /\ Score \in [Node -> Nat] /\ {MaxOut, MaxOpen} \subseteq Nat

ConnectLevelMsg == [method |-> "CONNECTLEVEL"]
Result(ok) == [method |-> "CONNECTLEVEL_RET", result |-> ok]
DisconnectMsg == [method |-> "DISCONNECTLEVEL"]
MaxHashMsg == [method |-> "MAXHASH"]
CloseMark == [method |-> "close"]
Message == {ConnectLevelMsg, DisconnectMsg, MaxHashMsg, CloseMark} \cup {Result(b) : b \in BOOLEAN}

VARIABLES
    node,       \* the state of every node
    opened      \* connections opened so far, up to MaxOpen
hotVars == <<node, opened>>

\* What a node keeps of its neighbours.  A slot in "dead" holds the object of a connection that has been removed.
NodeState ==
    [slot : [Levels -> Node \cup {None}],  \* Engine.LevelArr
     dead : SUBSET Levels,
     level : [Node -> Levels],             \* Child.Level
     ready : SUBSET Node,                  \* Child.HotReady
     start : SUBSET Node,                  \* HotItem.HotStart not older than MAX_HOT_CONNECTION_DELAY
     deny : SUBSET Node,                   \* HotItem.DenyHotStart not older than MAX_DENY_HOT_CONNECTION
     conn : [Node -> {"none", "wait", "open"}],
     known : BOOLEAN,                      \* Engine.IDArr is of the node's own address
     out : [Node -> Seq(Message)]]

Natural(n, s, m) == NaturalOf[<<n, s.known, m>>]

-----------------------------------------------------------------------------
(* Engine's functions, on the state s of node n and its child m.           *)

InSlot(s, m, l) == s.slot[l] = m /\ l \notin s.dead
IsOpen(s, m) == s.conn[m] = "open"
IsHot(s, m) == InSlot(s, m, s.level[m]) /\ m \notin s.start
IsHotReady(s, m) == m \in s.ready /\ IsOpen(s, m) /\ IsHot(s, m)

SendTo(s, m, msg) == IF IsOpen(s, m) THEN [s EXCEPT !.out[m] = Append(@, msg)] ELSE s

RecalcChildLevel(n, s, m) == [s EXCEPT !.level[m] = Natural(n, s, m)]

\* Mutant: the neighbour is not told.
DisconnectLevel_Silent(n, s, m, bSend) ==
    LET cleared == IF InSlot(s, m, s.level[m]) THEN [s EXCEPT !.slot[s.level[m]] = None] ELSE s
    IN  RecalcChildLevel(n, cleared, m)

DisconnectLevel(n, s, m, bSend) ==
    LET told == IF bSend THEN SendTo(s, m, DisconnectMsg) ELSE s
        cleared == IF InSlot(s, m, s.level[m]) THEN [told EXCEPT !.slot[s.level[m]] = None] ELSE told
    IN  RecalcChildLevel(n, cleared, m)

Denied(s, m) == [s EXCEPT !.start = @ \ {m}, !.deny = @ \cup {m}]

DenyHotConnection(n, s, m, bSend) == DisconnectLevel(n, Denied(s, m), m, bSend)

\* The same for the removed object in slot l: its Level is its normal slot, and only that slot is cleared.
DenyRemoved(n, s, l) ==
    LET m == s.slot[l] IN
    IF l = Natural(n, s, m) THEN [Denied(s, m) EXCEPT !.slot[l] = None, !.dead = @ \ {l}] ELSE Denied(s, m)

CanSetHot(s, m) == m \notin s.deny /\ (s.slot[s.level[m]] = None \/ InSlot(s, m, s.level[m]))

\* SetHotConnection where CanSetHot.
SetHot(s, m) == [s EXCEPT !.start = @ \ {m}, !.deny = @ \ {m}, !.ready = @ \cup {m}, !.slot[s.level[m]] = m]

\* The child leaves ConnectArray; a slot it still holds keeps the removed object.
RemoveConnect(s, m) ==
    [s EXCEPT !.conn[m] = "none", !.ready = @ \ {m}, !.dead = @ \cup {l \in Levels : InSlot(s, m, l)}]

\* Mutant: a removed child stays in its slot.
OnDeleteConnect_KeepsSlot(n, s, m) ==
    LET denied == IF m \in s.start THEN DenyHotConnection(n, s, m, FALSE) ELSE s
    IN  RemoveConnect(RecalcChildLevel(n, denied, m), m)

OnDeleteConnect(n, s, m) ==
    LET denied == IF m \in s.start THEN DenyHotConnection(n, s, m, FALSE) ELSE s
    IN  RemoveConnect(DisconnectLevel(n, denied, m, FALSE), m)

\* ClearSocket before OnDeleteConnect: nothing can be sent any more.
CloseSocket(n, s, m) == OnDeleteConnect(n, [s EXCEPT !.out[m] = Append(@, CloseMark), !.conn[m] = "none"], m)

StartDisconnect(n, s, m) ==
    LET left == DisconnectLevel(n, s, m, TRUE)
    IN  IF IsOpen(left, m) THEN CloseSocket(n, left, m) ELSE OnDeleteConnect(n, left, m)

TryHotConnection(n, s, m) ==
    SendTo([s EXCEPT !.slot[s.level[m]] = m, !.ready = @ \ {m}, !.start = @ \cup {m}], m, ConnectLevelMsg)

-----------------------------------------------------------------------------
(* The handlers of messages.                                               *)

\* old: the slot's child was connected RECONNECT_MIN_TIME ago; it is removed if its score is less than half of that of m.
CONNECTLEVEL(n, s, m, old) ==
    LET l == s.level[m]
        asked == IF ~old \/ s.slot[l] = None \/ 2 * Score[s.slot[l]] >= Score[m] THEN s
                 ELSE IF l \in s.dead THEN DenyRemoved(n, s, l)
                 ELSE DenyHotConnection(n, s, s.slot[l], TRUE)
        own == RecalcChildLevel(n, [asked EXCEPT !.ready = @ \ {m}], m)
        free == {i \in Extra : own.slot[i] = None}
    IN  IF CanSetHot(own, m) THEN SendTo(SetHot(own, m), m, Result(TRUE))
        ELSE IF free # {} /\ m \notin own.deny
             THEN SendTo(SetHot([own EXCEPT !.level[m] = Min(free)], m), m, Result(TRUE))
        ELSE SendTo(DenyHotConnection(n, own, m, FALSE), m, Result(FALSE))

CONNECTLEVEL_RET(n, s, m, result) ==
    LET own == RecalcChildLevel(n, s, m)
    IN  IF result /\ CanSetHot(own, m) THEN SetHot(own, m)
        ELSE DenyHotConnection(n, IF result THEN own ELSE s, m, FALSE)

MAXHASH(n, s, m) ==
    LET checked == IF IsHot(s, m) THEN s ELSE DenyHotConnection(n, s, m, FALSE)
    IN  IF IsHotReady(checked, m) THEN checked ELSE DenyHotConnection(n, checked, m, TRUE)

Handle(n, s, m, msg, old) ==
    CASE msg.method = "CONNECTLEVEL" -> CONNECTLEVEL(n, s, m, old)
      [] msg.method = "CONNECTLEVEL_RET" -> CONNECTLEVEL_RET(n, s, m, msg.result)
      [] msg.method = "DISCONNECTLEVEL" -> DisconnectLevel(n, s, m, FALSE)
      [] msg.method = "MAXHASH" -> MAXHASH(n, s, m)
      [] msg.method = "close" -> OnDeleteConnect(n, [s EXCEPT !.conn[m] = "none"], m)

\* Mutant: without check 1#.
CheckSlot_NoBroken(n, s, l, quiet) ==
    LET m == s.slot[l] IN
    IF m # None /\ l \notin s.dead /\ (m \in quiet \/ (IsHot(s, m) /\ IsOpen(s, m) /\ m \notin s.ready))
    THEN DenyHotConnection(n, StartDisconnect(n, s, m), m, FALSE) ELSE s

(* CheckHotConnections, every 500 ms; quiet: the children that have sent nothing for MAX_TRANSFER_TIMEOUT. *)
CheckSlot(n, s, l, quiet) ==
    LET m == s.slot[l] IN
    CASE m = None -> s
      [] m # None /\ l \in s.dead -> IF m \in s.start THEN s ELSE DenyRemoved(n, s, l)
      [] m # None /\ l \notin s.dead ->
           IF \/ m \notin s.start /\ ~IsOpen(s, m)
              \/ m \in quiet
              \/ IsHot(s, m) /\ ~IsHotReady(s, m)
           THEN DenyHotConnection(n, StartDisconnect(n, s, m), m, FALSE)
           ELSE s

CheckHotConnections(n, s, quiet) ==
    LET checked[L \in 0 .. MAX_LEVEL_ALL] == IF L = 0 THEN s ELSE CheckSlot(n, checked[L - 1], L - 1, quiet)
    IN  checked[MAX_LEVEL_ALL]

\* A removed child, or one whose Level is not its slot, leaves the slot.
LeaveWrong(t, l) ==
    LET m == t.slot[l]
        cleared == [Denied(t, m) EXCEPT !.slot[l] = None, !.dead = @ \ {l}]
    IN  IF m = None THEN t
        ELSE IF l \in t.dead THEN cleared
        ELSE IF t.level[m] # l THEN SendTo(cleared, m, DisconnectMsg)
        ELSE t

\* RecreateLevelsArray, when the node has learnt its own address.
RecreateLevelsArray(n, s) ==
    LET own == [s EXCEPT !.known = TRUE, !.level = [m \in Node |-> NaturalOf[<<n, TRUE, m>>]]]
        left[l \in 0 .. MAX_LEVEL_CONNECTION] == IF l = 0 THEN own ELSE LeaveWrong(left[l - 1], l - 1)
    IN  left[MAX_LEVEL_CONNECTION]

-----------------------------------------------------------------------------
(* Actions                                                                 *)

HotInit ==
    \E setup \in Setups :
    /\ node = [n \in Node |->
              [slot |-> [l \in Levels |-> None], dead |-> {},
               level |-> [m \in Node |-> NaturalOf[<<n, n \notin setup.learner, m>>]],
               ready |-> {}, start |-> {}, deny |-> {},
               conn |-> [m \in Node |-> IF {n, m} \in Link /\ n # m THEN "open" ELSE "none"],
               known |-> n \notin setup.learner, out |-> [m \in Node |-> <<>>]]]
    /\ opened = setup.opened

Linked(n, m) == n # m /\ {n, m} \in Link
\* Nothing is in flight between n and m.
Settled(n, m) == node[n].out[m] = <<>> /\ node[m].out[n] = <<>>
Room(n, m) == Len(node[n].out[m]) + Len(node[m].out[n]) < MaxOut

\* n handles the next message from m, or drops it: its end of the connection is closed.
ReceiveHot(n, m) ==
    /\ node[m].out[n] # <<>>
    /\ LET msg == Head(node[m].out[n])
           popped == [node EXCEPT ![m].out[n] = Tail(@)]
       IN  IF IsOpen(node[n], m)
           THEN \E old \in BOOLEAN : node' = [popped EXCEPT ![n] = Handle(n, popped[n], m, msg, old)]
           ELSE node' = popped
    /\ UNCHANGED opened

\* DoConnectHotLevels, for one empty normal slot and the child it takes for it.
DoConnectHotLevel(n, m) ==
    LET s == node[n] IN
    /\ n \in Asker /\ Linked(n, m) /\ Room(n, m)
    /\ s.conn[m] # "none" /\ s.level[m] \in Normal /\ s.slot[s.level[m]] = None
    /\ m \notin s.deny
    /\ node' = [node EXCEPT ![n] = TryHotConnection(n, s, m)]
    /\ UNCHANGED opened

\* A hot child is sent MAXHASH in every tick.
SendMaxHash(n, m) ==
    /\ Linked(n, m) /\ Room(n, m) /\ IsHotReady(node[n], m)
    /\ node' = [node EXCEPT ![n] = SendTo(@, m, MaxHashMsg)]
    /\ UNCHANGED opened

CheckHot(n, quiet) ==
    /\ node' = [node EXCEPT ![n] = CheckHotConnections(n, @, quiet)]
    /\ UNCHANGED opened

\* DoConnectLevels makes a new child for a known address ...
NewConnect(n, m) ==
    /\ n \in Asker /\ Linked(n, m) /\ node[n].conn[m] = "none" /\ opened < MaxOpen
    /\ node' = [node EXCEPT ![n].conn[m] = "wait", ![n].level[m] = Natural(n, node[n], m)]
    /\ UNCHANGED opened

\* ... and the connection opens, with the handshake: the other side makes its child, this side asks for its slot if it waits for one.
Connected(n, m) ==
    /\ Linked(n, m) /\ node[n].conn[m] = "wait" /\ node[m].conn[n] = "none"
    /\ Settled(n, m)
    /\ opened < MaxOpen /\ opened' = opened + 1
    /\ LET s == RecalcChildLevel(n, [node[n] EXCEPT !.conn[m] = "open"], m)
           t == RecalcChildLevel(m, [node[m] EXCEPT !.conn[n] = "open"], n)
       IN  node' = [node EXCEPT ![m] = t,
                                ![n] = IF m \in s.start /\ CanSetHot(s, m) THEN TryHotConnection(n, s, m) ELSE s]

\* A child that has not become hot is disconnected after MAX_CONNECT_TIMEOUT.
ConnectTimeout(n, m) ==
    /\ Linked(n, m) /\ node[n].conn[m] # "none" /\ ~IsHot(node[n], m) /\ Settled(n, m)
    /\ node' = [node EXCEPT ![n] = StartDisconnect(n, @, m)]
    /\ UNCHANGED opened

\* The connection breaks: n sees it at once, m when it has read what still arrives.
Break(n, m) ==
    /\ IsOpen(node[n], m)
    /\ \E arrives \in {<<>>, node[n].out[m]} :
         node' = [node EXCEPT ![n] = CloseSocket(n, [@ EXCEPT !.out[m] = arrives], m)]
    /\ UNCHANGED opened

\* Two seconds have passed since the request.
StartPasses(n, m) ==
    /\ m \in node[n].start
    /\ node' = [node EXCEPT ![n].start = @ \ {m}]
    /\ UNCHANGED opened

\* Seven seconds have passed since the refusal.
DenyPasses(n, m) ==
    /\ m \in node[n].deny /\ Settled(n, m)
    /\ node' = [node EXCEPT ![n].deny = @ \ {m}]
    /\ UNCHANGED opened

SetOwnIP(n) ==
    /\ ~node[n].known
    /\ node' = [node EXCEPT ![n] = RecreateLevelsArray(n, @)]
    /\ UNCHANGED opened

HotNext ==
    \E n \in Node :
        \/ \E quiet \in SUBSET {m \in Node : Linked(n, m)} : CheckHot(n, quiet)
        \/ SetOwnIP(n)
        \/ \E m \in Node : \/ ReceiveHot(n, m) \/ DoConnectHotLevel(n, m) \/ SendMaxHash(n, m)
                           \/ NewConnect(n, m) \/ Connected(n, m) \/ ConnectTimeout(n, m) \/ Break(n, m)
                           \/ StartPasses(n, m) \/ DenyPasses(n, m)

HotSpec == HotInit /\ [][HotNext]_hotVars

-----------------------------------------------------------------------------
\* Every variable has its type; a child's Level is a slot of LevelArr.
HotTypeOK == node \in [Node -> NodeState] /\ opened \in 0 .. MaxOpen

\* A child in a normal slot is connected to it: it has not been removed (its
\* connection may still be opening), and its Level and the distance of the two
\* addresses name that slot, also when messages cross, connections close and
\* the node learns its address in between.  (CheckHotConnections and the search
\* for hot neighbours rely on it: DisconnectLevel clears LevelArr[Child.Level].)
NormalSlots ==
    \A n \in Node, l \in Normal :
        LET m == node[n].slot[l] IN
        m # None => l \notin node[n].dead /\ node[n].level[m] = l /\ Natural(n, node[n], m) = l

\* Two neighbours cannot disagree for ever on whether they are hot for each
\* other: the one that is not answers MAXHASH with DISCONNECTLEVEL.
Agree(n, m) == IsHotReady(node[n], m) <=> IsHotReady(node[m], n)
MutualHot == \A n, m \in Node : Linked(n, m) => []<>Agree(n, m)

Stale(n, l) == LET m == node[n].slot[l] IN m # None /\ (l \in node[n].dead \/ ~IsOpen(node[n], m))

\* A normal slot whose connection is gone, or never opened, does not stay
\* occupied (check 1# of CheckHotConnections).
NormalFreed == \A n \in Node, l \in Normal : []<>~Stale(n, l)

\* After CheckHotConnections no slot, normal or extra, is held by a child whose
\* connection is gone and that is not waiting for an answer (check 1#, made for
\* every slot of LevelArr).
CheckFreesSlots ==
    [][\A n \in Node, l \in Levels :
         CheckHot(n, {}) => LET m == node'[n].slot[l] IN
                            \/ m \in node'[n].start \cup {None}
                            \/ l \notin node'[n].dead /\ IsOpen(node'[n], m)]_hotVars

\* Weak fairness, with what lets the action change something written out.
HotFairSpec ==
    /\ HotSpec
    /\ \A n \in Node : []<>(CheckHotConnections(n, node[n], {}) = node[n]) \/ []<><<CheckHot(n, {})>>_hotVars
    /\ \A n, m \in Node : Linked(n, m) =>
         /\ []<>(node[m].out[n] = <<>>) \/ []<><<ReceiveHot(n, m)>>_hotVars
         /\ []<>~(Room(n, m) /\ IsHotReady(node[n], m)) \/ []<><<SendMaxHash(n, m)>>_hotVars
         /\ []<>(m \notin node[n].start) \/ []<><<StartPasses(n, m)>>_hotVars
=============================================================================
