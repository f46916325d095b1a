-------------------------- MODULE ConnectionProofs --------------------------
(***************************************************************************)
(* What a connection is worth.  A child in a normal slot belongs there,    *)
(* for any nodes and links, any number of slots and any distances of       *)
(* addresses (HotConnect).  One connection carries the packets of both     *)
(* ends: however the stream of bytes is cut, it is the channel of packets  *)
(* it must be, its counters agree and callbacks get the answers to their   *)
(* own calls (PacketStream).                                               *)
(***************************************************************************)
EXTENDS HotConnect, PacketStream, Loops, SequenceTheorems, FiniteSetTheorems, TLAPS

-----------------------------------------------------------------------------
(***************************************************************************)
(* Hot connections.                                                        *)
(***************************************************************************)
(* What a handler keeps of the node n: no removed child is in a normal     *)
(* slot, the Level of a child is its distance or an extra slot, and a      *)
(* child in a normal slot has this Level.                                  *)
Belongs(n, s) ==
    /\ s.dead \subseteq Extra
    /\ \A m \in Node : s.level[m] \in Extra \cup {Natural(n, s, m)}
    /\ \A l \in Normal : s.slot[l] # None => s.level[s.slot[l]] = l
NodeOK(n, s) == s \in NodeState /\ Belongs(n, s)
AllOK(f) == f \in [Node -> NodeState] /\ \A n \in Node : NodeOK(n, f[n])

(* m has no normal slot.                                                   *)
Left(s, m) == \A l \in Normal : s.slot[l] # m

LEMMA SlotsAre ==
    /\ Normal \subseteq Levels /\ Extra \subseteq Levels /\ Levels \subseteq Nat /\ Normal \cap Extra = {}
    /\ \A n, m \in Node, b \in BOOLEAN : NaturalOf[<<n, b, m>>] \in Normal
    /\ None \notin Node
<1>1. MAX_LEVEL_CONNECTION \in Nat /\ EXTRA_SLOTS_COUNT \in Nat /\ None \notin Node
  BY LevelAssumption
<1>2. /\ Normal \subseteq Levels /\ Extra \subseteq Levels /\ Levels \subseteq Nat /\ Normal \cap Extra = {}
  BY <1>1 DEF Normal, Extra, Levels, MAX_LEVEL_ALL
<1>3. ASSUME NEW n \in Node, NEW m \in Node, NEW b \in BOOLEAN PROVE NaturalOf[<<n, b, m>>] \in Normal
  <2>1. NaturalOf \in [Node \X BOOLEAN \X Node -> Normal] /\ <<n, b, m>> \in Node \X BOOLEAN \X Node
    BY LevelAssumption
  <2> QED
    BY <2>1
<1> QED
  BY <1>1, <1>2, <1>3

LEMMA MessagesAre ==
    /\ ConnectLevelMsg \in Message /\ DisconnectMsg \in Message /\ MaxHashMsg \in Message /\ CloseMark \in Message
    /\ Result(TRUE) \in Message /\ Result(FALSE) \in Message
BY Zenon DEF Message

LEMMA StateIs ==
    ASSUME NEW n \in Node, NEW s \in NodeState
    PROVE  /\ s.slot \in [Levels -> Node \cup {None}] /\ s.dead \subseteq Levels /\ s.level \in [Node -> Levels]
           /\ s.ready \subseteq Node /\ s.start \subseteq Node /\ s.deny \subseteq Node
           /\ s.conn \in [Node -> {"none", "wait", "open"}] /\ s.known \in BOOLEAN /\ s.out \in [Node -> Seq(Message)]
           /\ \A m \in Node : Natural(n, s, m) \in Normal
BY SlotsAre DEF NodeState, Natural

LEMMA AppendMessage ==
    ASSUME NEW q \in Seq(Message), NEW msg \in Message
    PROVE  Append(q, msg) \in Seq(Message)
OBVIOUS

LEMMA SendIs ==
    ASSUME NEW n \in Node, NEW s, NodeOK(n, s), NEW m \in Node, NEW msg \in Message
    PROVE  LET t == SendTo(s, m, msg) IN
           /\ NodeOK(n, t) /\ t.slot = s.slot /\ t.dead = s.dead /\ t.level = s.level /\ t.ready = s.ready
           /\ t.start = s.start /\ t.deny = s.deny /\ t.conn = s.conn /\ t.known = s.known
<1>1. s \in NodeState /\ s.out \in [Node -> Seq(Message)]
  BY StateIs DEF NodeOK
<1>2. PICK q : q = Append(s.out[m], msg)
  OBVIOUS
<1>3. q \in Seq(Message)
  BY <1>1, <1>2, AppendMessage
<1>4. PICK t : t = [s EXCEPT !.out[m] = q]
  OBVIOUS
<1>5. /\ t \in NodeState /\ t.slot = s.slot /\ t.dead = s.dead /\ t.level = s.level /\ t.ready = s.ready
      /\ t.start = s.start /\ t.deny = s.deny /\ t.conn = s.conn /\ t.known = s.known
  BY <1>1, <1>3, <1>4 DEF NodeState
<1>6. NodeOK(n, t)
  BY <1>5 DEF NodeOK, Belongs, Natural
<1>7. SendTo(s, m, msg) = t \/ SendTo(s, m, msg) = s
  BY <1>2, <1>4 DEF SendTo
<1> QED
  BY <1>5, <1>6, <1>7

(* The Level of m becomes its distance, which is that of the normal slot m *)
(* is in, if any.                                                          *)
LEMMA RecalcIs ==
    ASSUME NEW n \in Node, NEW s, NodeOK(n, s), NEW m \in Node
    PROVE  LET t == RecalcChildLevel(n, s, m) IN
           /\ NodeOK(n, t) /\ t.slot = s.slot /\ t.dead = s.dead /\ t.ready = s.ready /\ t.out = s.out
           /\ t.start = s.start /\ t.deny = s.deny /\ t.conn = s.conn /\ t.known = s.known
           /\ t.level[m] = Natural(n, t, m) /\ t.level[m] \in Normal
<1>1. PICK t : t = RecalcChildLevel(n, s, m)
  OBVIOUS
<1>2. s \in NodeState /\ Natural(n, s, m) \in Normal /\ Natural(n, s, m) \in Levels
  BY StateIs, SlotsAre DEF NodeOK
<1>3. /\ t \in NodeState /\ t.slot = s.slot /\ t.dead = s.dead /\ t.ready = s.ready /\ t.out = s.out
      /\ t.start = s.start /\ t.deny = s.deny /\ t.conn = s.conn /\ t.known = s.known
      /\ t.level = [s.level EXCEPT ![m] = Natural(n, s, m)]
  BY <1>1, <1>2 DEF RecalcChildLevel, NodeState
<1>4. t.level[m] = Natural(n, s, m) /\ \A k \in Node : Natural(n, t, k) = Natural(n, s, k) /\ (k # m => t.level[k] = s.level[k])
  BY <1>2, <1>3, StateIs DEF Natural
<1>5. ASSUME NEW l \in Normal, t.slot[l] # None PROVE t.level[t.slot[l]] = l
  <2>1. s.level[s.slot[l]] = l /\ s.slot[l] \in Node
    BY <1>2, <1>3, <1>5, StateIs, SlotsAre DEF NodeOK, Belongs
  <2>2. CASE s.slot[l] = m
    <3>1. s.level[m] = l /\ s.level[m] \in Extra \cup {Natural(n, s, m)}
      BY <2>1, <2>2 DEF NodeOK, Belongs
    <3> QED
      BY <1>3, <1>4, <2>2, <3>1, SlotsAre
  <2> QED
    BY <1>3, <1>4, <2>1, <2>2
<1>6. NodeOK(n, t)
  BY <1>3, <1>4, <1>5 DEF NodeOK, Belongs
<1> QED
  BY <1>1, <1>2, <1>3, <1>4, <1>6

LEMMA DisconnectIs ==
    ASSUME NEW n \in Node, NEW s, NodeOK(n, s), NEW m \in Node, NEW bSend \in BOOLEAN
    PROVE  NodeOK(n, DisconnectLevel(n, s, m, bSend)) /\ Left(DisconnectLevel(n, s, m, bSend), m)
<1>1. PICK told : told = IF bSend THEN SendTo(s, m, DisconnectMsg) ELSE s
  OBVIOUS
<1>2. NodeOK(n, told) /\ told.slot = s.slot /\ told.level = s.level /\ told.dead = s.dead
  BY <1>1, SendIs, MessagesAre
<1>3. PICK cleared : cleared = IF InSlot(s, m, s.level[m]) THEN [told EXCEPT !.slot[s.level[m]] = None] ELSE told
  OBVIOUS
<1>4. /\ told \in NodeState /\ s \in NodeState /\ s.slot \in [Levels -> Node \cup {None}] /\ s.level[m] \in Levels
      /\ s.dead \subseteq Extra
  BY <1>2, StateIs DEF NodeOK, Belongs
<1>5. NodeOK(n, cleared) /\ Left(cleared, m)
  <2>1. CASE InSlot(s, m, s.level[m])
    <3>1. /\ cleared \in NodeState /\ cleared.dead = told.dead /\ cleared.level = told.level /\ cleared.known = told.known
          /\ cleared.slot = [s.slot EXCEPT ![s.level[m]] = None]
      BY <1>2, <1>3, <1>4, <2>1 DEF NodeState
    <3>2. Belongs(n, cleared)
      BY <1>2, <1>4, <3>1, SlotsAre DEF NodeOK, Belongs, Natural
    <3>3. Left(cleared, m)
      BY <1>2, <1>4, <3>1, SlotsAre DEF NodeOK, Belongs, Left
    <3> QED
      BY <3>1, <3>2, <3>3 DEF NodeOK
  <2>2. CASE ~InSlot(s, m, s.level[m])
    <3>1. cleared = told
      BY <1>3, <2>2
    <3>2. Left(s, m)
      BY <1>4, <2>2, SlotsAre DEF NodeOK, Belongs, Left, InSlot
    <3> QED
      BY <1>2, <3>1, <3>2 DEF Left
  <2> QED
    BY <2>1, <2>2
<1>6. DisconnectLevel(n, s, m, bSend) = RecalcChildLevel(n, cleared, m)
  BY <1>1, <1>3 DEF DisconnectLevel
<1> QED
  BY <1>5, <1>6, RecalcIs DEF Left

LEMMA DeniedIs ==
    ASSUME NEW n \in Node, NEW s, NodeOK(n, s), NEW m \in Node
    PROVE  /\ NodeOK(n, Denied(s, m)) /\ Denied(s, m).slot = s.slot /\ Denied(s, m).dead = s.dead
           /\ Denied(s, m).level = s.level /\ Denied(s, m).known = s.known
<1>1. PICK t : t = Denied(s, m)
  OBVIOUS
<1>2. s \in NodeState
  BY DEF NodeOK
<1>3. t \in NodeState /\ t.slot = s.slot /\ t.dead = s.dead /\ t.level = s.level /\ t.known = s.known
  BY <1>1, <1>2 DEF Denied, NodeState
<1>4. NodeOK(n, t)
  BY <1>3 DEF NodeOK, Belongs, Natural
<1> QED
  BY <1>1, <1>3, <1>4

LEMMA DenyIs ==
    ASSUME NEW n \in Node, NEW s, NodeOK(n, s), NEW m \in Node, NEW bSend \in BOOLEAN
    PROVE  NodeOK(n, DenyHotConnection(n, s, m, bSend)) /\ Left(DenyHotConnection(n, s, m, bSend), m)
BY DeniedIs, DisconnectIs DEF DenyHotConnection

LEMMA DenyRemovedIs ==
    ASSUME NEW n \in Node, NEW s, NodeOK(n, s), NEW l \in Levels, s.slot[l] # None
    PROVE  NodeOK(n, DenyRemoved(n, s, l))
<1>1. PICK m : m = s.slot[l]
  OBVIOUS
<1>2. m \in Node
  BY <1>1, StateIs DEF NodeOK
<1>3. PICK t : t = Denied(s, m)
  OBVIOUS
<1>4. NodeOK(n, t)
  BY <1>2, <1>3, DeniedIs
<1>5. PICK u : u = [t EXCEPT !.slot[l] = None, !.dead = @ \ {l}]
  OBVIOUS
<1>6. t \in NodeState /\ t.slot \in [Levels -> Node \cup {None}]
  BY <1>4, StateIs DEF NodeOK
<1>7. /\ u \in NodeState /\ u.dead = t.dead \ {l} /\ u.level = t.level /\ u.known = t.known
      /\ u.slot = [t.slot EXCEPT ![l] = None]
  BY <1>5, <1>6 DEF NodeState
<1>8. NodeOK(n, u)
  BY <1>4, <1>6, <1>7, SlotsAre DEF NodeOK, Belongs, Natural
<1>9. DenyRemoved(n, s, l) = u \/ DenyRemoved(n, s, l) = t
  BY <1>1, <1>3, <1>5 DEF DenyRemoved
<1> QED
  BY <1>4, <1>8, <1>9
LEMMA SetHotIs ==
    ASSUME NEW n \in Node, NEW s, NodeOK(n, s), NEW m \in Node
    PROVE  NodeOK(n, SetHot(s, m))
<1>1. PICK t : t = SetHot(s, m)
  OBVIOUS
<1>2. s \in NodeState /\ s.slot \in [Levels -> Node \cup {None}] /\ s.level[m] \in Levels
  BY StateIs DEF NodeOK
<1>3. /\ t \in NodeState /\ t.slot = [s.slot EXCEPT ![s.level[m]] = m] /\ t.dead = s.dead /\ t.level = s.level
      /\ t.known = s.known
  BY <1>1, <1>2 DEF SetHot, NodeState
<1>4. ASSUME NEW l \in Normal, t.slot[l] # None PROVE t.level[t.slot[l]] = l
  <2>1. CASE l = s.level[m]
    BY <1>2, <1>3, <2>1
  <2>2. CASE l # s.level[m]
    <3>1. t.slot[l] = s.slot[l]
      BY <1>2, <1>3, <2>2, SlotsAre
    <3> QED
      BY <1>3, <1>4, <3>1 DEF NodeOK, Belongs
  <2> QED
    BY <2>1, <2>2
<1>5. NodeOK(n, t)
  BY <1>3, <1>4 DEF NodeOK, Belongs, Natural
<1> QED
  BY <1>1, <1>5

(* A child that gets an extra slot has no normal one.                      *)
LEMMA ExtraIs ==
    ASSUME NEW n \in Node, NEW s, NodeOK(n, s), NEW m \in Node, Left(s, m), NEW i \in Extra
    PROVE  NodeOK(n, [s EXCEPT !.level[m] = i])
<1>1. PICK t : t = [s EXCEPT !.level[m] = i]
  OBVIOUS
<1>2. s \in NodeState /\ s.level \in [Node -> Levels] /\ i \in Levels /\ s.slot \in [Levels -> Node \cup {None}]
  BY StateIs, SlotsAre DEF NodeOK
<1>3. /\ t \in NodeState /\ t.slot = s.slot /\ t.dead = s.dead /\ t.level = [s.level EXCEPT ![m] = i] /\ t.known = s.known
  BY <1>1, <1>2 DEF NodeState
<1>4. ASSUME NEW l \in Normal, t.slot[l] # None PROVE t.level[t.slot[l]] = l
  <2>1. t.slot[l] # m /\ t.slot[l] \in Node
    BY <1>2, <1>3, <1>4, SlotsAre DEF Left
  <2> QED
    BY <1>2, <1>3, <1>4, <2>1 DEF NodeOK, Belongs
<1>5. NodeOK(n, t)
  BY <1>2, <1>3, <1>4 DEF NodeOK, Belongs, Natural
<1> QED
  BY <1>1, <1>5

(* A child that has no normal slot is removed.                             *)
LEMMA RemoveIs ==
    ASSUME NEW n \in Node, NEW s, NodeOK(n, s), NEW m \in Node, Left(s, m)
    PROVE  NodeOK(n, RemoveConnect(s, m))
<1>1. PICK t : t = RemoveConnect(s, m)
  OBVIOUS
<1>2. PICK more : more = {l \in Levels : InSlot(s, m, l)}
  OBVIOUS
<1>3. more \subseteq Extra
  <2>1. Levels = Normal \cup Extra
    BY LevelAssumption DEF Normal, Extra, Levels, MAX_LEVEL_ALL
  <2> QED
    BY <1>2, <2>1 DEF Left, InSlot
<1>4. s \in NodeState /\ more \subseteq Levels
  BY <1>2 DEF NodeOK
<1>5. /\ t \in NodeState /\ t.slot = s.slot /\ t.dead = s.dead \cup more /\ t.level = s.level /\ t.known = s.known
  BY <1>1, <1>2, <1>4 DEF RemoveConnect, NodeState
<1>6. NodeOK(n, t)
  BY <1>3, <1>5 DEF NodeOK, Belongs, Natural
<1> QED
  BY <1>1, <1>6

LEMMA DeleteIs ==
    ASSUME NEW n \in Node, NEW s, NodeOK(n, s), NEW m \in Node
    PROVE  NodeOK(n, OnDeleteConnect(n, s, m))
<1>1. PICK t : t = IF m \in s.start THEN DenyHotConnection(n, s, m, FALSE) ELSE s
  OBVIOUS
<1>2. NodeOK(n, t)
  BY <1>1, DenyIs
<1>3. PICK u : u = DisconnectLevel(n, t, m, FALSE)
  OBVIOUS
<1>4. NodeOK(n, u) /\ Left(u, m)
  BY <1>2, <1>3, DisconnectIs
<1> QED
  BY <1>1, <1>3, <1>4, RemoveIs DEF OnDeleteConnect

(* The end of a connection, and of what is in flight on it.                *)
LEMMA ConnIs ==
    ASSUME NEW n \in Node, NEW s, NodeOK(n, s), NEW m \in Node, NEW c \in {"none", "wait", "open"}
    PROVE  NodeOK(n, [s EXCEPT !.conn[m] = c])
<1>1. PICK t : t = [s EXCEPT !.conn[m] = c]
  OBVIOUS
<1>2. s \in NodeState
  BY DEF NodeOK
<1>3. /\ t \in NodeState /\ t.slot = s.slot /\ t.dead = s.dead /\ t.level = s.level /\ t.known = s.known
  BY <1>1, <1>2 DEF NodeState
<1>4. NodeOK(n, t)
  BY <1>3 DEF NodeOK, Belongs, Natural
<1> QED
  BY <1>1, <1>4

LEMMA OutIs ==
    ASSUME NEW n \in Node, NEW s, NodeOK(n, s), NEW m \in Node, NEW q \in Seq(Message)
    PROVE  NodeOK(n, [s EXCEPT !.out[m] = q])
<1>1. PICK t : t = [s EXCEPT !.out[m] = q]
  OBVIOUS
<1>2. s \in NodeState
  BY DEF NodeOK
<1>3. /\ t \in NodeState /\ t.slot = s.slot /\ t.dead = s.dead /\ t.level = s.level /\ t.known = s.known
  BY <1>1, <1>2 DEF NodeState
<1>4. NodeOK(n, t)
  BY <1>3 DEF NodeOK, Belongs, Natural
<1> QED
  BY <1>1, <1>4

LEMMA CloseIs ==
    ASSUME NEW n \in Node, NEW s, NodeOK(n, s), NEW m \in Node
    PROVE  NodeOK(n, CloseSocket(n, s, m))
<1>1. PICK q : q = Append(s.out[m], CloseMark)
  OBVIOUS
<1>2. q \in Seq(Message)
  BY <1>1, StateIs, MessagesAre, AppendMessage DEF NodeOK
<1>3. PICK t : t = [s EXCEPT !.out[m] = q]
  OBVIOUS
<1>4. NodeOK(n, t)
  BY <1>2, <1>3, OutIs
<1>5. PICK u : u = [t EXCEPT !.conn[m] = "none"]
  OBVIOUS
<1>6. NodeOK(n, u)
  BY <1>4, <1>5, ConnIs
<1>7. CloseSocket(n, s, m) = OnDeleteConnect(n, u, m)
  BY <1>1, <1>3, <1>5 DEF CloseSocket
<1> QED
  BY <1>6, <1>7, DeleteIs

LEMMA StartDisconnectIs ==
    ASSUME NEW n \in Node, NEW s, NodeOK(n, s), NEW m \in Node
    PROVE  NodeOK(n, StartDisconnect(n, s, m))
BY DisconnectIs, CloseIs, DeleteIs DEF StartDisconnect

LEMMA TryIs ==
    ASSUME NEW n \in Node, NEW s, NodeOK(n, s), NEW m \in Node
    PROVE  NodeOK(n, TryHotConnection(n, s, m))
<1>1. PICK t : t = [s EXCEPT !.slot[s.level[m]] = m, !.ready = @ \ {m}, !.start = @ \cup {m}]
  OBVIOUS
<1>2. s \in NodeState /\ s.slot \in [Levels -> Node \cup {None}] /\ s.level[m] \in Levels
  BY StateIs DEF NodeOK
<1>3. /\ t \in NodeState /\ t.slot = [s.slot EXCEPT ![s.level[m]] = m] /\ t.dead = s.dead /\ t.level = s.level
      /\ t.known = s.known
  BY <1>1, <1>2 DEF NodeState
<1>4. ASSUME NEW l \in Normal, t.slot[l] # None PROVE t.level[t.slot[l]] = l
  <2>1. CASE l = s.level[m]
    BY <1>2, <1>3, <2>1
  <2>2. CASE l # s.level[m]
    <3>1. t.slot[l] = s.slot[l]
      BY <1>2, <1>3, <2>2, SlotsAre
    <3> QED
      BY <1>3, <1>4, <3>1 DEF NodeOK, Belongs
  <2> QED
    BY <2>1, <2>2
<1>5. NodeOK(n, t)
  BY <1>3, <1>4 DEF NodeOK, Belongs, Natural
<1>6. TryHotConnection(n, s, m) = SendTo(t, m, ConnectLevelMsg)
  BY <1>1 DEF TryHotConnection
<1> QED
  BY <1>5, <1>6, SendIs, MessagesAre
-----------------------------------------------------------------------------
(* The handlers of messages.                                               *)
LEMMA ReadyIs ==
    ASSUME NEW n \in Node, NEW s, NodeOK(n, s), NEW m \in Node
    PROVE  NodeOK(n, [s EXCEPT !.ready = @ \ {m}])
<1>1. PICK t : t = [s EXCEPT !.ready = @ \ {m}]
  OBVIOUS
<1>2. s \in NodeState
  BY DEF NodeOK
<1>3. /\ t \in NodeState /\ t.slot = s.slot /\ t.dead = s.dead /\ t.level = s.level /\ t.known = s.known
  BY <1>1, <1>2 DEF NodeState
<1>4. NodeOK(n, t)
  BY <1>3 DEF NodeOK, Belongs, Natural
<1> QED
  BY <1>1, <1>4

LEMMA RequestIs ==
    ASSUME NEW n \in Node, NEW s, NodeOK(n, s), NEW m \in Node, NEW old \in BOOLEAN
    PROVE  NodeOK(n, CONNECTLEVEL(n, s, m, old))
<1>1. PICK l : l = s.level[m]
  OBVIOUS
<1>2. l \in Levels /\ s.slot[l] \in Node \cup {None}
  BY <1>1, StateIs DEF NodeOK
<1>3. PICK asked : asked = IF ~old \/ s.slot[l] = None \/ 2 * Score[s.slot[l]] >= Score[m] THEN s
                           ELSE IF l \in s.dead THEN DenyRemoved(n, s, l)
                           ELSE DenyHotConnection(n, s, s.slot[l], TRUE)
  OBVIOUS
<1>4. NodeOK(n, asked)
  <2>1. CASE asked = s
    BY <2>1
  <2>2. CASE s.slot[l] # None /\ asked = DenyRemoved(n, s, l)
    BY <1>2, <2>2, DenyRemovedIs
  <2>3. CASE s.slot[l] # None /\ asked = DenyHotConnection(n, s, s.slot[l], TRUE)
    BY <1>2, <2>3, DenyIs
  <2> QED
    BY <1>3, <2>1, <2>2, <2>3
<1>5. PICK t : t = [asked EXCEPT !.ready = @ \ {m}]
  OBVIOUS
<1>6. PICK own : own = RecalcChildLevel(n, t, m)
  OBVIOUS
<1>7. NodeOK(n, own) /\ own.level[m] = Natural(n, own, m) /\ own.level[m] \in Normal
  BY <1>4, <1>5, <1>6, ReadyIs, RecalcIs
<1>8. PICK free : free = {i \in Extra : own.slot[i] = None}
  OBVIOUS
<1>9. \/ CanSetHot(own, m) /\ CONNECTLEVEL(n, s, m, old) = SendTo(SetHot(own, m), m, Result(TRUE))
      \/ /\ ~CanSetHot(own, m) /\ free # {} /\ m \notin own.deny
         /\ CONNECTLEVEL(n, s, m, old) = SendTo(SetHot([own EXCEPT !.level[m] = Min(free)], m), m, Result(TRUE))
      \/ CONNECTLEVEL(n, s, m, old) = SendTo(DenyHotConnection(n, own, m, FALSE), m, Result(FALSE))
  BY <1>1, <1>3, <1>5, <1>6, <1>8 DEF CONNECTLEVEL
<1>10. ASSUME free # {}, ~CanSetHot(own, m), m \notin own.deny
       PROVE  NodeOK(n, [own EXCEPT !.level[m] = Min(free)])
  <2>1. free \subseteq Nat /\ free \subseteq Extra
    BY <1>8, SlotsAre
  <2>2. Min(free) \in Extra
    <3>1. PICK i \in free : \A j \in free : i =< j
      BY <2>1, <1>10, LeastIn
    <3> QED
      BY <2>1, <3>1 DEF Min
  <2>3. Left(own, m)
    <3>1. ~InSlot(own, m, own.level[m]) /\ own.level[m] \notin own.dead
      BY <1>7, <1>10, SlotsAre DEF CanSetHot, NodeOK, Belongs
    <3> QED
      BY <1>7, <3>1, SlotsAre DEF Left, InSlot, NodeOK, Belongs
  <2> QED
    BY <1>7, <2>2, <2>3, ExtraIs
<1>11. ASSUME NEW u, NodeOK(n, u), NEW b \in BOOLEAN PROVE NodeOK(n, SendTo(u, m, Result(b)))
  BY <1>11, SendIs, MessagesAre
<1>12. NodeOK(n, SetHot(own, m)) /\ NodeOK(n, DenyHotConnection(n, own, m, FALSE))
  BY <1>7, SetHotIs, DenyIs
<1>13. ASSUME free # {}, ~CanSetHot(own, m), m \notin own.deny
       PROVE  NodeOK(n, SetHot([own EXCEPT !.level[m] = Min(free)], m))
  BY <1>10, <1>13, SetHotIs
<1> QED
  BY <1>9, <1>11, <1>12, <1>13

LEMMA AnswerIs ==
    ASSUME NEW n \in Node, NEW s, NodeOK(n, s), NEW m \in Node, NEW result \in BOOLEAN
    PROVE  NodeOK(n, CONNECTLEVEL_RET(n, s, m, result))
BY RecalcIs, SetHotIs, DenyIs DEF CONNECTLEVEL_RET

LEMMA MaxHashIs ==
    ASSUME NEW n \in Node, NEW s, NodeOK(n, s), NEW m \in Node
    PROVE  NodeOK(n, MAXHASH(n, s, m))
BY DenyIs DEF MAXHASH

LEMMA HandleIs ==
    ASSUME NEW n \in Node, NEW s, NodeOK(n, s), NEW m \in Node, NEW msg \in Message, NEW old \in BOOLEAN
    PROVE  NodeOK(n, Handle(n, s, m, msg, old))
<1>1. CASE msg = ConnectLevelMsg
  BY <1>1, RequestIs DEF Handle, ConnectLevelMsg
<1>2. CASE \E b \in BOOLEAN : msg = Result(b)
  BY <1>2, AnswerIs DEF Handle, Result
<1>3. CASE msg = DisconnectMsg
  BY <1>3, DisconnectIs DEF Handle, DisconnectMsg
<1>4. CASE msg = MaxHashMsg
  BY <1>4, MaxHashIs DEF Handle, MaxHashMsg
<1>5. CASE msg = CloseMark
  BY <1>5, ConnIs, DeleteIs DEF Handle, CloseMark
<1> QED
  BY <1>1, <1>2, <1>3, <1>4, <1>5 DEF Message
-----------------------------------------------------------------------------
(* The periodic check, and the node's own address.                         *)
LEMMA CheckSlotIs ==
    ASSUME NEW n \in Node, NEW s, NodeOK(n, s), NEW l \in Levels, NEW quiet
    PROVE  NodeOK(n, CheckSlot(n, s, l, quiet))
<1>1. PICK m : m = s.slot[l]
  OBVIOUS
<1>2. m \in Node \cup {None}
  BY <1>1, StateIs DEF NodeOK
<1>3. \/ CheckSlot(n, s, l, quiet) = s
      \/ m # None /\ CheckSlot(n, s, l, quiet) = DenyRemoved(n, s, l)
      \/ m # None /\ CheckSlot(n, s, l, quiet) = DenyHotConnection(n, StartDisconnect(n, s, m), m, FALSE)
  BY <1>1 DEF CheckSlot
<1>4. CASE m # None /\ CheckSlot(n, s, l, quiet) = DenyRemoved(n, s, l)
  BY <1>1, <1>4, DenyRemovedIs
<1>5. CASE m # None /\ CheckSlot(n, s, l, quiet) = DenyHotConnection(n, StartDisconnect(n, s, m), m, FALSE)
  BY <1>2, <1>5, StartDisconnectIs, DenyIs
<1> QED
  BY <1>3, <1>4, <1>5

LEMMA CheckIs ==
    ASSUME NEW n \in Node, NEW s, NodeOK(n, s), NEW quiet
    PROVE  NodeOK(n, CheckHotConnections(n, s, quiet))
<1> DEFINE N == MAX_LEVEL_ALL
           T == {t \in NodeState : NodeOK(n, t)}
           Turn(t, i) == CheckSlot(n, t, i - 1, quiet)
           Is(h) == h = [i \in 0 .. N |-> IF i = 0 THEN s ELSE Turn(h[i - 1], i)]
           h == CHOOSE x : Is(x)
<1>1. N \in Nat /\ \A i \in 1 .. N : i - 1 \in Levels
  BY LevelAssumption DEF Levels, MAX_LEVEL_ALL
<1>2. s \in T /\ \A t \in T : NodeOK(n, t)
  BY DEF NodeOK
<1>3. ASSUME NEW i \in 1 .. N, NEW t \in T PROVE Turn(t, i) \in T
  <2>1. NodeOK(n, Turn(t, i))
    BY <1>1, <1>2, CheckSlotIs
  <2> QED
    BY <2>1 DEF NodeOK
<1>4. CheckHotConnections(n, s, quiet) = h[N]
  BY DEF CheckHotConnections
<1> HIDE DEF Turn, T, N
<1>5. \E f : Is(f) /\ f \in [0 .. N -> T]
  <2>1. PICK G : G = [i \in 1 .. N |-> [x \in T |-> Turn(x, i)]]
    OBVIOUS
  <2>2. G \in [1 .. N -> [T -> T]]
    BY <1>3, <2>1
  <2>3. Taken(N, T, s, G)
    BY <1>1, <1>2, <2>2, Turns
  <2>4. PICK f \in [0 .. N -> T] : f[0] = s /\ \A i \in 1 .. N : f[i] = G[i][f[i - 1]]
    BY <2>3 DEF Taken
  <2>5. ASSUME NEW i \in 0 .. N PROVE f[i] = IF i = 0 THEN s ELSE Turn(f[i - 1], i)
    <3>1. CASE i # 0
      <4>1. i \in 1 .. N /\ i - 1 \in 0 .. N
        BY <1>1, <3>1
      <4>2. f[i - 1] \in T /\ f[i] = G[i][f[i - 1]]
        BY <2>4, <4>1
      <4> QED
        BY <2>1, <3>1, <4>1, <4>2
    <3> QED
      BY <2>4, <3>1
  <2> QED
    BY <2>5
<1>6. Is(h)
  BY <1>5
<1> HIDE DEF h
<1> DEFINE Q == {i \in 0 .. N : h[i] \in T}
<1>7. 0 \in Q
  BY <1>1, <1>2, <1>6
<1>8. ASSUME NEW i \in 1 .. N, i - 1 \in Q PROVE i \in Q
  <2>1. h[i] = Turn(h[i - 1], i) /\ h[i - 1] \in T /\ i \in 0 .. N
    BY <1>1, <1>6, <1>8
  <2> QED
    BY <1>3, <2>1
<1> HIDE DEF Q
<1>9. N \in 0 .. N /\ \A i \in 0 .. N : i \in Q
  BY <1>1, <1>7, <1>8, OneByOne
<1> QED
  BY <1>2, <1>4, <1>9 DEF Q

(* The Levels are those of the new address, and the slots below l are      *)
(* those of their children.                                                *)
Fresh(n, s) ==
    /\ s \in NodeState /\ s.dead \subseteq Extra
    /\ \A m \in Node : s.level[m] = Natural(n, s, m)
Placed(n, s, l) ==
    /\ Fresh(n, s)
    /\ \A i \in Normal : i < l /\ s.slot[i] # None => s.level[s.slot[i]] = i

LEMMA LeaveIs ==
    ASSUME NEW n \in Node, NEW s, NEW l \in Normal, Fresh(n, s)
    PROVE  Fresh(n, LeaveWrong(s, l)) /\ (Placed(n, s, l) => Placed(n, LeaveWrong(s, l), l + 1))
<1>1. PICK m : m = s.slot[l]
  OBVIOUS
<1>2. s \in NodeState /\ s.slot \in [Levels -> Node \cup {None}] /\ l \in Levels /\ s.dead \subseteq Levels
  BY StateIs, SlotsAre DEF Fresh
<1>3. l \notin s.dead /\ \A i \in Normal : i < l + 1 <=> i < l \/ i = l
  <2>1. l \notin s.dead
    BY SlotsAre DEF Fresh
  <2>2. l \in Nat /\ Normal \subseteq Nat
    BY SlotsAre
  <2> QED
    BY <2>1, <2>2
<1>4. CASE m = None \/ s.level[m] = l
  <2>1. LeaveWrong(s, l) = s
    BY <1>1, <1>3, <1>4 DEF LeaveWrong
  <2> QED
    BY <1>1, <1>3, <1>4, <2>1 DEF Placed
<1>5. CASE m # None /\ s.level[m] # l
  <2>1. PICK t : t = [Denied(s, m) EXCEPT !.slot[l] = None, !.dead = @ \ {l}]
    OBVIOUS
  <2>2. LeaveWrong(s, l) = SendTo(t, m, DisconnectMsg) /\ m \in Node
    BY <1>1, <1>2, <1>3, <1>5, <2>1 DEF LeaveWrong
  <2>3. PICK d : d = Denied(s, m)
    OBVIOUS
  <2>4. d \in NodeState /\ d.slot = s.slot /\ d.dead = s.dead /\ d.level = s.level /\ d.known = s.known
    BY <1>2, <2>2, <2>3 DEF Denied, NodeState
  <2>5. /\ t \in NodeState /\ t.slot = [s.slot EXCEPT ![l] = None] /\ t.dead = s.dead \ {l} /\ t.level = s.level
        /\ t.known = s.known
    BY <1>2, <2>1, <2>3, <2>4 DEF NodeState
  <2>6. PICK q : q = Append(t.out[m], DisconnectMsg)
    OBVIOUS
  <2>7. q \in Seq(Message)
    BY <2>2, <2>5, <2>6, StateIs, MessagesAre, AppendMessage
  <2>8. PICK u : u = [t EXCEPT !.out[m] = q]
    OBVIOUS
  <2>9. /\ u \in NodeState /\ u.slot = t.slot /\ u.dead = t.dead /\ u.level = t.level /\ u.known = t.known
    BY <2>2, <2>5, <2>7, <2>8 DEF NodeState
  <2>10. LeaveWrong(s, l) = u \/ LeaveWrong(s, l) = t
    BY <2>2, <2>6, <2>8 DEF SendTo
  <2>11. ASSUME NEW v, v \in NodeState, v.slot = t.slot, v.dead = t.dead, v.level = t.level, v.known = t.known
         PROVE  Fresh(n, v) /\ (Placed(n, s, l) => Placed(n, v, l + 1))
    <3>1. v.dead \subseteq Extra /\ \A k \in Node : v.level[k] = Natural(n, v, k)
      BY <2>5, <2>11 DEF Fresh, Natural
    <3>2. ASSUME Placed(n, s, l), NEW i \in Normal, i < l + 1, v.slot[i] # None PROVE v.level[v.slot[i]] = i
      <4>1. i # l /\ i < l /\ v.slot[i] = s.slot[i]
        BY <1>2, <1>3, <2>5, <2>11, <3>2, SlotsAre
      <4> QED
        BY <2>5, <2>11, <3>2, <4>1 DEF Placed
    <3> QED
      BY <2>11, <3>1, <3>2 DEF Placed, Fresh
  <2> QED
    BY <2>5, <2>9, <2>10, <2>11
<1> QED
  BY <1>4, <1>5

LEMMA RecreateIs ==
    ASSUME NEW n \in Node, NEW s, NodeOK(n, s)
    PROVE  NodeOK(n, RecreateLevelsArray(n, s))
<1>1. PICK own : own = [s EXCEPT !.known = TRUE, !.level = [m \in Node |-> NaturalOf[<<n, TRUE, m>>]]]
  OBVIOUS
<1>2. Placed(n, own, 0)
  <2>1. s \in NodeState /\ s.dead \subseteq Extra
    BY DEF NodeOK, Belongs
  <2>2. PICK lev : lev = [m \in Node |-> NaturalOf[<<n, TRUE, m>>]]
    OBVIOUS
  <2>3. lev \in [Node -> Levels]
    BY <2>2, SlotsAre
  <2>4. own \in NodeState /\ own.dead = s.dead /\ own.level = lev /\ own.known = TRUE
    BY <1>1, <2>1, <2>2, <2>3 DEF NodeState
  <2>5. \A m \in Node : own.level[m] = Natural(n, own, m)
    BY <2>2, <2>4 DEF Natural
  <2>6. \A i \in Normal : ~(i < 0)
    BY LevelAssumption DEF Normal
  <2> QED
    BY <2>1, <2>4, <2>5, <2>6 DEF Placed, Fresh
<1> DEFINE N == MAX_LEVEL_CONNECTION
           Turn(t, i) == LeaveWrong(t, i - 1)
           Is(h) == h = [i \in 0 .. N |-> IF i = 0 THEN own ELSE Turn(h[i - 1], i)]
           h == CHOOSE x : Is(x)
           T == {t \in NodeState : Fresh(n, t)}
<1>3. N \in Nat /\ \A i \in 1 .. N : i - 1 \in Normal
  BY LevelAssumption DEF Normal
<1>4. own \in T
  BY <1>2 DEF Placed, Fresh
<1>5. ASSUME NEW i \in 1 .. N, NEW t \in T
      PROVE  Turn(t, i) \in T /\ (Placed(n, t, i - 1) => Placed(n, Turn(t, i), i))
  <2>1. i - 1 \in Normal /\ (i - 1) + 1 = i
    BY <1>3
  <2>2. Fresh(n, Turn(t, i)) /\ (Placed(n, t, i - 1) => Placed(n, Turn(t, i), (i - 1) + 1))
    BY <2>1, LeaveIs
  <2> QED
    BY <2>1, <2>2 DEF Fresh
<1>6. RecreateLevelsArray(n, s) = h[N]
  BY <1>1 DEF RecreateLevelsArray
<1> HIDE DEF Turn, T, N
<1>7. \E f : Is(f)
  <2>1. PICK G : G = [i \in 1 .. N |-> [x \in T |-> Turn(x, i)]]
    OBVIOUS
  <2>2. G \in [1 .. N -> [T -> T]]
    BY <1>5, <2>1
  <2>3. Taken(N, T, own, G)
    BY <1>3, <1>4, <2>2, Turns
  <2>4. PICK f \in [0 .. N -> T] : f[0] = own /\ \A i \in 1 .. N : f[i] = G[i][f[i - 1]]
    BY <2>3 DEF Taken
  <2>5. ASSUME NEW i \in 0 .. N PROVE f[i] = IF i = 0 THEN own ELSE Turn(f[i - 1], i)
    <3>1. CASE i # 0
      <4>1. i \in 1 .. N /\ i - 1 \in 0 .. N
        BY <1>3, <3>1
      <4>2. f[i - 1] \in T /\ f[i] = G[i][f[i - 1]]
        BY <2>4, <4>1
      <4> QED
        BY <2>1, <3>1, <4>1, <4>2
    <3> QED
      BY <2>4, <3>1
  <2> QED
    BY <2>5
<1>8. Is(h)
  BY <1>7
<1> HIDE DEF h
<1> DEFINE Q == {i \in 0 .. N : h[i] \in T /\ Placed(n, h[i], i)}
<1>9. 0 \in Q
  BY <1>2, <1>3, <1>4, <1>8
<1>10. ASSUME NEW i \in 1 .. N, i - 1 \in Q PROVE i \in Q
  <2>1. h[i] = Turn(h[i - 1], i) /\ h[i - 1] \in T /\ Placed(n, h[i - 1], i - 1) /\ i \in 0 .. N
    BY <1>3, <1>8, <1>10
  <2> QED
    BY <1>5, <2>1
<1> HIDE DEF Q
<1>11. N \in 0 .. N /\ \A i \in 0 .. N : i \in Q
  BY <1>3, <1>9, <1>10, OneByOne
<1>12. Placed(n, h[N], N)
  BY <1>11 DEF Q
<1>13. \A i \in Normal : i < N
  BY <1>3 DEF Normal, N
<1> QED
  BY <1>6, <1>12, <1>13 DEF Placed, Fresh, NodeOK, Belongs
-----------------------------------------------------------------------------
(* Every step keeps what belongs to the nodes.                             *)
LEMMA InitInv == HotInit => AllOK(node) /\ opened \in 0 .. MaxOpen
<1> SUFFICES ASSUME HotInit PROVE AllOK(node) /\ opened \in 0 .. MaxOpen
  OBVIOUS
<1>1. PICK setup \in Setups :
        /\ node = [n \in Node |->
              [slot |-> [l \in Levels |-> None], dead |-> {},
               level |-> [m \in Node |-> NaturalOf[<<n, n \notin setup.learner, m>>]],
               ready |-> {}, start |-> {}, deny |-> {},
               conn |-> [m \in Node |-> IF {n, m} \in Link /\ n # m THEN "open" ELSE "none"],
               known |-> n \notin setup.learner, out |-> [m \in Node |-> <<>>]]]
        /\ opened = setup.opened
  BY DEF HotInit
<1>2. setup.opened \in 0 .. MaxOpen
  BY LevelAssumption
<1>3. ASSUME NEW n \in Node PROVE NodeOK(n, node[n])
  <2>1. PICK b : b = (n \notin setup.learner)
    OBVIOUS
  <2>2. b \in BOOLEAN
    BY <2>1, Zenon
  <2>3. PICK lev : lev = [m \in Node |-> NaturalOf[<<n, b, m>>]]
    OBVIOUS
  <2>4. lev \in [Node -> Levels]
    BY <2>2, <2>3, SlotsAre
  <2>5. PICK slots, conns, outs : slots = [l \in Levels |-> None]
          /\ conns = [m \in Node |-> IF {n, m} \in Link /\ n # m THEN "open" ELSE "none"] /\ outs = [m \in Node |-> <<>>]
    OBVIOUS
  <2>6. /\ slots \in [Levels -> Node \cup {None}] /\ conns \in [Node -> {"none", "wait", "open"}]
        /\ outs \in [Node -> Seq(Message)]
    BY <2>5
  <2>7. PICK s : s = [slot |-> slots, dead |-> {}, level |-> lev, ready |-> {}, start |-> {}, deny |-> {},
                      conn |-> conns, known |-> b, out |-> outs]
    OBVIOUS
  <2>8. node[n] = s
    BY <1>1, <2>1, <2>3, <2>5, <2>7, Zenon
  <2>9. s \in NodeState
    BY <2>2, <2>4, <2>6, <2>7, Zenon DEF NodeState
  <2>10. s.slot = slots /\ s.dead = {} /\ s.level = lev /\ s.known = b
    BY <2>7
  <2>11. Belongs(n, s)
    BY <2>3, <2>5, <2>10, SlotsAre DEF Belongs, Natural
  <2> QED
    BY <2>8, <2>9, <2>11 DEF NodeOK
<1> QED
  BY <1>1, <1>2, <1>3 DEF AllOK, NodeOK

(* A step that changes one node.                                           *)
LEMMA OneNode ==
    ASSUME NEW f, AllOK(f), NEW n \in Node, NEW t, NodeOK(n, t)
    PROVE  AllOK([f EXCEPT ![n] = t])
BY DEF AllOK, NodeOK

LEMMA ReceiveInv ==
    ASSUME AllOK(node), NEW n \in Node, NEW m \in Node, ReceiveHot(n, m)
    PROVE  AllOK(node')
<1>1. NodeOK(m, node[m]) /\ node \in [Node -> NodeState] /\ node[m].out[n] \in Seq(Message) /\ node[m].out[n] # <<>>
  BY StateIs DEF AllOK, ReceiveHot
<1>2. PICK q, msg : q = Tail(node[m].out[n]) /\ msg = Head(node[m].out[n])
  OBVIOUS
<1>3. q \in Seq(Message) /\ msg \in Message
  BY <1>1, <1>2
<1>4. PICK t : t = [node[m] EXCEPT !.out[n] = q]
  OBVIOUS
<1>5. NodeOK(m, t)
  BY <1>1, <1>3, <1>4, OutIs
<1>6. PICK popped : popped = [node EXCEPT ![m] = t]
  OBVIOUS
<1>7. AllOK(popped)
  BY <1>5, <1>6, OneNode
<1>8. popped = [node EXCEPT ![m].out[n] = Tail(@)]
  BY <1>1, <1>2, <1>4, <1>6
<1>9. \/ node' = popped
      \/ \E old \in BOOLEAN : node' = [popped EXCEPT ![n] = Handle(n, popped[n], m, msg, old)]
  BY <1>2, <1>8, Zenon DEF ReceiveHot
<1>10. ASSUME NEW old \in BOOLEAN PROVE AllOK([popped EXCEPT ![n] = Handle(n, popped[n], m, msg, old)])
  <2>1. NodeOK(n, popped[n])
    BY <1>7 DEF AllOK
  <2>2. NodeOK(n, Handle(n, popped[n], m, msg, old))
    BY <1>3, <2>1, HandleIs
  <2> QED
    BY <1>7, <2>2, OneNode
<1> QED
  BY <1>7, <1>9, <1>10

LEMMA ConnectedInv ==
    ASSUME AllOK(node), NEW n \in Node, NEW m \in Node, Connected(n, m)
    PROVE  AllOK(node')
<1>1. NodeOK(n, node[n]) /\ NodeOK(m, node[m]) /\ n # m
  BY DEF AllOK, Connected, Linked
<1>2. PICK s0, t0 : s0 = [node[n] EXCEPT !.conn[m] = "open"] /\ t0 = [node[m] EXCEPT !.conn[n] = "open"]
  OBVIOUS
<1>3. NodeOK(n, s0) /\ NodeOK(m, t0)
  BY <1>1, <1>2, ConnIs
<1>4. PICK s, t : s = RecalcChildLevel(n, s0, m) /\ t = RecalcChildLevel(m, t0, n)
  OBVIOUS
<1>5. NodeOK(n, s) /\ NodeOK(m, t)
  BY <1>3, <1>4, RecalcIs
<1>6. PICK u : u = IF m \in s.start /\ CanSetHot(s, m) THEN TryHotConnection(n, s, m) ELSE s
  OBVIOUS
<1>7. NodeOK(n, u)
  BY <1>5, <1>6, TryIs
<1>8. node' = [[node EXCEPT ![m] = t] EXCEPT ![n] = u]
  BY <1>2, <1>4, <1>6 DEF Connected
<1> QED
  BY <1>5, <1>7, <1>8, OneNode

LEMMA SetsIs ==
    ASSUME NEW n \in Node, NEW s, NodeOK(n, s), NEW m \in Node
    PROVE  NodeOK(n, [s EXCEPT !.start = @ \ {m}]) /\ NodeOK(n, [s EXCEPT !.deny = @ \ {m}])
<1>1. PICK t, u : t = [s EXCEPT !.start = @ \ {m}] /\ u = [s EXCEPT !.deny = @ \ {m}]
  OBVIOUS
<1>2. s \in NodeState
  BY DEF NodeOK
<1>3. /\ t \in NodeState /\ t.slot = s.slot /\ t.dead = s.dead /\ t.level = s.level /\ t.known = s.known
  BY <1>1, <1>2 DEF NodeState
<1>4. /\ u \in NodeState /\ u.slot = s.slot /\ u.dead = s.dead /\ u.level = s.level /\ u.known = s.known
  BY <1>1, <1>2 DEF NodeState
<1>5. NodeOK(n, t) /\ NodeOK(n, u)
  BY <1>3, <1>4 DEF NodeOK, Belongs, Natural
<1> QED
  BY <1>1, <1>5

LEMMA NextInv ==
    ASSUME AllOK(node), opened \in 0 .. MaxOpen, [HotNext]_hotVars
    PROVE  AllOK(node') /\ opened' \in 0 .. MaxOpen
<1>1. CASE UNCHANGED hotVars
  BY <1>1 DEF hotVars
<1>2. ASSUME NEW n \in Node, NEW m \in Node, ReceiveHot(n, m) PROVE AllOK(node') /\ opened' = opened
  BY <1>2, ReceiveInv DEF ReceiveHot
<1>3. ASSUME NEW n \in Node, NEW m \in Node, Connected(n, m) PROVE AllOK(node') /\ opened' \in 0 .. MaxOpen
  <2>1. opened' = opened + 1 /\ opened < MaxOpen
    BY <1>3 DEF Connected
  <2> QED
    BY <1>3, <2>1, ConnectedInv, LevelAssumption
<1>4. ASSUME NEW n \in Node, NEW m \in Node, DoConnectHotLevel(n, m) PROVE AllOK(node') /\ opened' = opened
  <2>1. node' = [node EXCEPT ![n] = TryHotConnection(n, node[n], m)] /\ opened' = opened /\ NodeOK(n, node[n])
    BY <1>4 DEF DoConnectHotLevel, AllOK
  <2> QED
    BY <2>1, TryIs, OneNode
<1>5. ASSUME NEW n \in Node, NEW m \in Node, SendMaxHash(n, m) PROVE AllOK(node') /\ opened' = opened
  <2>1. node' = [node EXCEPT ![n] = SendTo(node[n], m, MaxHashMsg)] /\ opened' = opened /\ NodeOK(n, node[n])
    BY <1>5 DEF SendMaxHash, AllOK
  <2>2. NodeOK(n, SendTo(node[n], m, MaxHashMsg))
    BY <2>1, SendIs, MessagesAre
  <2> QED
    BY <2>1, <2>2, OneNode
<1>6. ASSUME NEW n \in Node, NEW quiet, CheckHot(n, quiet) PROVE AllOK(node') /\ opened' = opened
  <2>1. node' = [node EXCEPT ![n] = CheckHotConnections(n, node[n], quiet)] /\ opened' = opened /\ NodeOK(n, node[n])
    BY <1>6 DEF CheckHot, AllOK
  <2> QED
    BY <2>1, CheckIs, OneNode
<1>7. ASSUME NEW n \in Node, NEW m \in Node, NewConnect(n, m) PROVE AllOK(node') /\ opened' = opened
  <2>1. PICK t, u : t = [node[n] EXCEPT !.conn[m] = "wait"] /\ u = RecalcChildLevel(n, t, m)
    OBVIOUS
  <2>2. NodeOK(n, node[n]) /\ opened' = opened /\ node \in [Node -> NodeState]
    BY <1>7 DEF AllOK, NewConnect
  <2>3. NodeOK(n, u)
    BY <2>1, <2>2, ConnIs, RecalcIs
  <2>4. t.known = node[n].known
    BY <2>1, <2>2 DEF NodeState
  <2>5. u = [t EXCEPT !.level[m] = Natural(n, node[n], m)]
    BY <2>1, <2>4 DEF RecalcChildLevel, Natural
  <2>6. node' = [node EXCEPT ![n] = u]
    BY <1>7, <2>1, <2>2, <2>5 DEF NewConnect
  <2> QED
    BY <2>2, <2>3, <2>6, OneNode
<1>8. ASSUME NEW n \in Node, NEW m \in Node, ConnectTimeout(n, m) PROVE AllOK(node') /\ opened' = opened
  <2>1. node' = [node EXCEPT ![n] = StartDisconnect(n, node[n], m)] /\ opened' = opened /\ NodeOK(n, node[n])
    BY <1>8 DEF ConnectTimeout, AllOK
  <2> QED
    BY <2>1, StartDisconnectIs, OneNode
<1>9. ASSUME NEW n \in Node, NEW m \in Node, Break(n, m) PROVE AllOK(node') /\ opened' = opened
  <2>1. PICK arrives \in {<<>>, node[n].out[m]} :
          node' = [node EXCEPT ![n] = CloseSocket(n, [node[n] EXCEPT !.out[m] = arrives], m)]
    BY <1>9 DEF Break
  <2>2. NodeOK(n, node[n]) /\ opened' = opened
    BY <1>9 DEF AllOK, Break
  <2>3. arrives \in Seq(Message)
    <3>1. node[n].out[m] \in Seq(Message)
      BY <2>2, StateIs DEF NodeOK
    <3>2. <<>> \in Seq(Message)
      OBVIOUS
    <3>3. arrives = <<>> \/ arrives = node[n].out[m]
      BY <2>1, Zenon
    <3> QED
      BY <3>1, <3>2, <3>3, Zenon
  <2>4. NodeOK(n, [node[n] EXCEPT !.out[m] = arrives])
    BY <2>2, <2>3, OutIs
  <2> QED
    BY <2>1, <2>2, <2>4, CloseIs, OneNode
<1>10. ASSUME NEW n \in Node, NEW m \in Node, StartPasses(n, m) \/ DenyPasses(n, m) PROVE AllOK(node') /\ opened' = opened
  <2>1. NodeOK(n, node[n]) /\ opened' = opened /\ node \in [Node -> NodeState]
    BY <1>10 DEF AllOK, StartPasses, DenyPasses
  <2>2. \/ node' = [node EXCEPT ![n] = [node[n] EXCEPT !.start = @ \ {m}]]
        \/ node' = [node EXCEPT ![n] = [node[n] EXCEPT !.deny = @ \ {m}]]
    BY <1>10, <2>1 DEF StartPasses, DenyPasses
  <2>3. AllOK([node EXCEPT ![n] = [node[n] EXCEPT !.start = @ \ {m}]])
    BY <2>1, SetsIs, OneNode
  <2>4. AllOK([node EXCEPT ![n] = [node[n] EXCEPT !.deny = @ \ {m}]])
    BY <2>1, SetsIs, OneNode
  <2> QED
    BY <2>1, <2>2, <2>3, <2>4
<1>11. ASSUME NEW n \in Node, SetOwnIP(n) PROVE AllOK(node') /\ opened' = opened
  <2>1. node' = [node EXCEPT ![n] = RecreateLevelsArray(n, node[n])] /\ opened' = opened /\ NodeOK(n, node[n])
    BY <1>11 DEF SetOwnIP, AllOK
  <2> QED
    BY <2>1, RecreateIs, OneNode
<1>12. CASE HotNext
  BY <1>2, <1>3, <1>4, <1>5, <1>6, <1>7, <1>8, <1>9, <1>10, <1>11, <1>12, Zenon DEF HotNext
<1> QED
  BY <1>1, <1>12

LEMMA SlotsKept == HotSpec => [](AllOK(node) /\ opened \in 0 .. MaxOpen)
<1>1. HotInit => AllOK(node) /\ opened \in 0 .. MaxOpen
  BY InitInv
<1>2. AllOK(node) /\ opened \in 0 .. MaxOpen /\ [HotNext]_hotVars => (AllOK(node) /\ opened \in 0 .. MaxOpen)'
  BY NextInv
<1> QED
  BY <1>1, <1>2, PTL DEF HotSpec

(* Every variable has its type whatever the neighbours do.                 *)
THEOREM SlotTypes == HotSpec => []HotTypeOK
<1>1. AllOK(node) /\ opened \in 0 .. MaxOpen => HotTypeOK
  BY DEF AllOK, HotTypeOK
<1> QED
  BY <1>1, SlotsKept, PTL

(* A normal slot is held by a child that is connected and belongs there:   *)
(* no order of requests, refusals, evictions, checks, closings and of      *)
(* learning the own address leaves another one in it.                      *)
THEOREM SlotsHold == HotSpec => []NormalSlots
<1>1. AllOK(node) => NormalSlots
  <2> SUFFICES ASSUME AllOK(node), NEW n \in Node, NEW l \in Normal, node[n].slot[l] # None
               PROVE  /\ l \notin node[n].dead /\ node[n].level[node[n].slot[l]] = l
                      /\ Natural(n, node[n], node[n].slot[l]) = l
    BY DEF NormalSlots
  <2>1. PICK s : s = node[n]
    OBVIOUS
  <2>2. PICK m : m = s.slot[l]
    OBVIOUS
  <2>3. NodeOK(n, s) /\ m # None
    BY <2>1, <2>2 DEF AllOK
  <2>4. m \in Node
    BY <2>2, <2>3, StateIs, SlotsAre DEF NodeOK
  <2>5. s.level[m] = l /\ s.level[m] \in Extra \cup {Natural(n, s, m)} /\ s.dead \subseteq Extra
    BY <2>2, <2>3, <2>4 DEF NodeOK, Belongs
  <2> QED
    BY <2>1, <2>2, <2>5, SlotsAre
<1> QED
  BY <1>1, SlotsKept, PTL
-----------------------------------------------------------------------------
(***************************************************************************)
(* The stream of packets.                                                  *)
(***************************************************************************)
(* The bytes that have not been parsed.  A sequence s of bytes of the      *)
(* packets P is the end of their stream: it begins with a packet, each     *)
(* byte is followed by the next one, and nothing is missing at the end.    *)
Byte == Nat \X Nat

After(b, P) == IF b[2] < P[b[1]].len THEN << b[1], b[2] + 1 >> ELSE << b[1] + 1, 1 >>

Aligned(s, P) ==
  /\ s \in Seq(Byte)
  /\ \A k \in 1 .. Len(s) : s[k][1] \in 1 .. Len(P) /\ s[k][2] \in 1 .. P[s[k][1]].len
  /\ \A k \in 1 .. Len(s) - 1 : s[k + 1] = After(s[k], P)
  /\ s # << >> => s[1][2] = 1 /\ s[Len(s)] = << Len(P), P[Len(P)].len >>

(* The packet it begins with.                                              *)
First(s, P) == IF s = << >> THEN Len(P) + 1 ELSE s[1][1]

LEMMA LenIs == ASSUME NEW p \in Packets PROVE p.len \in Nat /\ p.len > HeaderSize
<1>1. p.len \in {HeaderSize + b : b \in Bodies}
  BY DEF Packets
<1>2. PICK b \in Bodies : p.len = HeaderSize + b
  BY <1>1
<1>3. b \in Nat /\ b > 0
  BY SizesAssumption
<1> QED
  BY <1>2, <1>3 DEF HeaderSize

LEMMA PacketIs ==
  ASSUME NEW P \in Seq(Packets), NEW i \in 1 .. Len(P)
  PROVE  P[i] \in Packets /\ P[i].len \in Nat /\ P[i].len > HeaderSize
<1>1. P[i] \in Packets
  OBVIOUS
<1> QED
  BY <1>1, LenIs

LEMMA OtherIs ==
  ASSUME NEW e \in Ends
  PROVE  Other(e) \in Ends /\ Other(e) # e /\ Other(Other(e)) = e /\ Ends = {e, Other(e)}
<1>1. IsFiniteSet(Ends \ {e}) /\ Cardinality(Ends \ {e}) = 1
  BY EndsAssumption, FS_RemoveElement
<1>2. PICK o : Ends \ {e} = {o}
  BY <1>1, FS_Singleton
<1> QED
  BY <1>2 DEF Other

LEMMA PrefixIs ==
  ASSUME NEW S \in Seq(Packets), NEW T \in Seq(Packets), Len(S) =< Len(T), \A i \in 1 .. Len(S) : S[i] = T[i]
  PROVE  IsPrefix(S, T)
<1>1. Len(S) \in Nat /\ Len(T) \in Nat /\ S \in [1 .. Len(S) -> Packets]
  OBVIOUS
<1>2. SubSeq(T, 1, Len(S)) \in Seq(Packets) /\ Len(SubSeq(T, 1, Len(S))) = Len(S) /\ \A i \in 1 .. Len(S) : SubSeq(T, 1, Len(S))[i] = T[i]
  <2>1. \A i \in 1 .. Len(S) : T[i] \in Packets
    BY <1>1
  <2>2. /\ SubSeq(T, 1, Len(S)) \in Seq(Packets)
        /\ Len(SubSeq(T, 1, Len(S))) = IF 1 =< Len(S) THEN Len(S) - 1 + 1 ELSE 0
        /\ \A i \in 1 .. Len(S) - 1 + 1 : SubSeq(T, 1, Len(S))[i] = T[1 + i - 1]
    BY <1>1, <2>1, SubSeqProperties
  <2> QED
    BY <1>1, <2>1, <2>2
<1>3. S = SubSeq(T, 1, Len(S))
  BY <1>2, SeqEqual
<1> QED
  BY <1>1, <1>3 DEF IsPrefix

LEMMA PrefixSame == ASSUME NEW S \in Seq(Packets) PROVE IsPrefix(S, S)
BY PrefixIs

LEMMA PrefixAgrees ==
  ASSUME NEW S \in Seq(Packets), NEW T \in Seq(Packets), IsPrefix(S, T)
  PROVE  \A i \in 1 .. Len(S) : S[i] = T[i]
<1>1. Len(S) \in Nat /\ Len(T) \in Nat /\ Len(S) =< Len(T) /\ SubSeq(S, 1, Len(S)) = SubSeq(T, 1, Len(S))
  BY DEF IsPrefix
<1>2. \A i \in 1 .. Len(S) : T[i] \in Packets
  BY <1>1
<1>3. \A i \in 1 .. Len(S) : S[i] \in Packets
  BY <1>1
<1>4. \A i \in 1 .. Len(S) : SubSeq(S, 1, Len(S))[i] = S[1 + i - 1]
  BY <1>1, <1>3, SubSeqProperties
<1>5. \A i \in 1 .. Len(S) : SubSeq(T, 1, Len(S))[i] = T[1 + i - 1]
  BY <1>1, <1>2, SubSeqProperties
<1> QED
  BY <1>1, <1>4, <1>5

LEMMA PrefixGrows ==
  ASSUME NEW S \in Seq(Packets), NEW p \in Packets
  PROVE  IsPrefix(S, S) /\ IsPrefix(S, Append(S, p))
<1>1. Append(S, p) \in Seq(Packets) /\ Len(Append(S, p)) = Len(S) + 1 /\ \A i \in 1 .. Len(S) : Append(S, p)[i] = S[i]
  BY AppendProperties
<1>2. IsPrefix(S, S)
  BY PrefixIs
<1>3. PICK T \in Seq(Packets) : T = Append(S, p)
  BY <1>1
<1>4. Len(S) =< Len(T) /\ \A i \in 1 .. Len(S) : S[i] = T[i]
  BY <1>1, <1>3
<1>5. IsPrefix(S, T)
  BY <1>3, <1>4, PrefixIs
<1> QED
  BY <1>2, <1>3, <1>5

(* The stream begins with a whole packet.                                  *)
LEMMA WholeFirst ==
  ASSUME NEW P \in Seq(Packets), NEW s, Aligned(s, P), s # << >>
  PROVE  LET i == s[1][1]
         IN  /\ i \in 1 .. Len(P) /\ P[i].len =< Len(s)
             /\ \A j \in 1 .. P[i].len : s[j] = << i, j >>
             /\ IF Len(s) > P[i].len THEN s[P[i].len + 1] = << i + 1, 1 >> ELSE i = Len(P)
<1> DEFINE i == s[1][1]
           L == P[i].len
           N == IF L =< Len(s) THEN L ELSE Len(s)
           S == {j \in 0 .. N : j = 0 \/ s[j] = << i, j >>}
<1>1. /\ Len(s) \in Nat /\ Len(s) >= 1 /\ s \in Seq(Byte) /\ i \in 1 .. Len(P)
      /\ \A k \in 1 .. Len(s) : s[k] \in Byte
  BY EmptySeq DEF Aligned
<1>2. L \in Nat /\ L > 1 /\ N \in Nat /\ N >= 1 /\ N =< L /\ N =< Len(s)
  BY <1>1, PacketIs DEF HeaderSize
<1>3. s[1] = << i, 1 >>
  <2>1. s[1] \in Byte /\ s[1][2] = 1
    BY <1>1 DEF Aligned
  <2> QED
    BY <2>1 DEF Byte
<1> HIDE DEF i, L, N
<1>4. ASSUME NEW j \in 1 .. N, j - 1 \in S PROVE j \in S
  <2>1. CASE j = 1
    BY <1>2, <1>3, <2>1
  <2>2. CASE j > 1
    <3>1. s[j - 1] = << i, j - 1 >> /\ j - 1 \in 1 .. Len(s) - 1 /\ (j - 1) + 1 = j
      BY <1>1, <1>2, <1>4, <2>2
    <3>2. s[j] = After(s[j - 1], P)
      BY <3>1 DEF Aligned
    <3>3. After(<< i, j - 1 >>, P) = << i, (j - 1) + 1 >>
      BY <1>2, <2>2 DEF After, L
    <3> QED
      BY <3>1, <3>2, <3>3
  <2> QED
    BY <2>1, <2>2
<1>5. \A j \in 1 .. N : s[j] = << i, j >>
  <2>1. 0 \in S
    BY <1>2
  <2> HIDE DEF S
  <2>2. \A j \in 0 .. N : j \in S
    BY <1>2, <1>4, <2>1, OneByOne
  <2> QED
    BY <2>2 DEF S
<1>6. L =< Len(s)
  <2> SUFFICES ASSUME Len(s) < L PROVE FALSE
    BY <1>1, <1>2
  <2>1. N = Len(s) /\ s[Len(s)] = << i, Len(s) >>
    BY <1>1, <1>2, <1>5 DEF N
  <2>2. s[Len(s)] = << Len(P), P[Len(P)].len >>
    BY DEF Aligned
  <2> QED
    BY <1>1, <1>2, <2>1, <2>2 DEF L
<1>7. N = L
  BY <1>6 DEF N
<1>8. CASE Len(s) > L
  <2>1. L \in 1 .. Len(s) - 1 /\ s[L] = << i, L >>
    BY <1>1, <1>2, <1>5, <1>7, <1>8
  <2>2. s[L + 1] = After(s[L], P)
    BY <2>1 DEF Aligned
  <2>3. After(<< i, L >>, P) = << i + 1, 1 >>
    BY <1>2 DEF After, L
  <2> QED
    BY <1>1, <1>5, <1>6, <1>7, <1>8, <2>1, <2>2, <2>3 DEF i, L
<1>9. CASE Len(s) = L
  <2>1. s[L] = << i, L >> /\ s[L] = << Len(P), P[Len(P)].len >>
    BY <1>2, <1>5, <1>7, <1>9 DEF Aligned
  <2>2. i = Len(P)
    BY <2>1
  <2> QED
    BY <1>1, <1>5, <1>6, <1>7, <1>9, <2>2 DEF i, L
<1> QED
  BY <1>1, <1>2, <1>6, <1>8, <1>9

(* Without its first packet the stream begins with the next one.           *)
LEMMA CutFirst ==
  ASSUME NEW P \in Seq(Packets), NEW s, Aligned(s, P), s # << >>
  PROVE  LET i == s[1][1]
             rest == SubSeq(s, P[i].len + 1, Len(s))
         IN  Aligned(rest, P) /\ First(rest, P) = i + 1
<1> DEFINE i == s[1][1]
           L == P[i].len
           rest == SubSeq(s, L + 1, Len(s))
<1>1. /\ i \in 1 .. Len(P) /\ L =< Len(s)
      /\ IF Len(s) > L THEN s[L + 1] = << i + 1, 1 >> ELSE i = Len(P)
  BY WholeFirst
<1>2. /\ Len(s) \in Nat /\ L \in Nat /\ s \in Seq(Byte)
      /\ \A k \in 1 .. Len(s) : s[k] \in Byte
  BY <1>1, PacketIs DEF Aligned
<1> HIDE DEF i, L
<1>3. /\ rest \in Seq(Byte) /\ Len(rest) = Len(s) - L
      /\ \A k \in 1 .. Len(s) - L : rest[k] = s[L + k]
  <2>1. \A k \in L + 1 .. Len(s) : s[k] \in Byte
    BY <1>2
  <2>2. /\ rest \in Seq(Byte) /\ Len(rest) = IF L + 1 =< Len(s) THEN Len(s) - (L + 1) + 1 ELSE 0
        /\ \A k \in 1 .. Len(s) - (L + 1) + 1 : rest[k] = s[L + 1 + k - 1]
    BY <1>2, <2>1, SubSeqProperties
  <2> QED
    BY <1>1, <1>2, <2>2
<1> HIDE DEF rest
<1>4. Aligned(rest, P)
  <2>1. ASSUME NEW k \in 1 .. Len(rest) PROVE rest[k][1] \in 1 .. Len(P) /\ rest[k][2] \in 1 .. P[rest[k][1]].len
    <3>1. L + k \in 1 .. Len(s) /\ rest[k] = s[L + k]
      BY <1>2, <1>3
    <3> QED
      BY <3>1 DEF Aligned
  <2>2. ASSUME NEW k \in 1 .. Len(rest) - 1 PROVE rest[k + 1] = After(rest[k], P)
    <3>1. /\ L + k \in 1 .. Len(s) - 1 /\ rest[k] = s[L + k]
          /\ (L + k) + 1 = L + (k + 1) /\ rest[k + 1] = s[L + (k + 1)]
      BY <1>2, <1>3
    <3> QED
      BY <3>1 DEF Aligned
  <2>3. ASSUME rest # << >> PROVE rest[1][2] = 1 /\ rest[Len(rest)] = << Len(P), P[Len(P)].len >>
    <3>1. Len(rest) >= 1
      BY <1>3, <2>3, EmptySeq
    <3>2. rest[1] = << i + 1, 1 >>
      <4>1. 1 \in 1 .. Len(s) - L /\ Len(s) > L
        BY <1>1, <1>2, <1>3, <3>1
      <4> QED
        BY <1>1, <1>3, <4>1
    <3>3. rest[Len(rest)] = s[Len(s)]
      <4>1. Len(rest) \in 1 .. Len(s) - L /\ L + Len(rest) = Len(s)
        BY <1>1, <1>2, <1>3, <3>1
      <4> QED
        BY <1>3, <4>1
    <3>4. s # << >>
      BY <1>1, <1>2, <1>3, <3>1, EmptySeq
    <3> QED
      BY <3>2, <3>3, <3>4 DEF Aligned
  <2> QED
    BY <1>3, <2>1, <2>2, <2>3 DEF Aligned
<1>5. First(rest, P) = i + 1
  <2>1. CASE rest = << >>
    BY <1>1, <1>2, <1>3, <2>1 DEF First
  <2>2. CASE rest # << >>
    <3>1. Len(rest) >= 1
      BY <1>3, <2>2, EmptySeq
    <3>2. rest[1] = << i + 1, 1 >>
      BY <1>1, <1>2, <1>3, <3>1
    <3> QED
      BY <2>2, <3>2 DEF First
  <2> QED
    BY <2>1, <2>2
<1> QED
  BY <1>4, <1>5 DEF rest, i, L

(* A packet that is written goes to the end of the stream.                 *)
LEMMA GrowLast ==
  ASSUME NEW P \in Seq(Packets), NEW p \in Packets, NEW s, Aligned(s, P)
  PROVE  LET grown == s \o Bytes(p, Len(P) + 1)
         IN  Aligned(grown, Append(P, p)) /\ First(grown, Append(P, p)) = First(s, P)
<1> DEFINE n == Len(P) + 1
           Q == Append(P, p)
           t == Bytes(p, n)
           grown == s \o t
<1>1. /\ Len(P) \in Nat /\ Q \in Seq(Packets) /\ Len(Q) = n /\ Q[n] = p
      /\ \A i \in 1 .. Len(P) : Q[i] = P[i]
  BY AppendProperties
<1>2. p.len \in Nat /\ p.len >= 1
  BY LenIs DEF HeaderSize
<1>3. /\ t \in Seq(Byte) /\ Len(t) = p.len /\ \A k \in 1 .. p.len : t[k] = << n, k >>
  <2>1. t \in [1 .. p.len -> Byte] /\ \A k \in 1 .. p.len : t[k] = << n, k >>
    BY <1>1, <1>2 DEF Bytes, Byte
  <2> QED
    BY <1>2, <2>1
<1>4. /\ s \in Seq(Byte) /\ Len(s) \in Nat /\ \A k \in 1 .. Len(s) : s[k] \in Byte
  BY DEF Aligned
<1> HIDE DEF n, Q, t
<1>5. /\ grown \in Seq(Byte) /\ Len(grown) = Len(s) + p.len
      /\ \A k \in 1 .. Len(s) : grown[k] = s[k]
      /\ \A k \in 1 .. p.len : grown[Len(s) + k] = << n, k >>
  <2>1. /\ grown \in Seq(Byte) /\ Len(grown) = Len(s) + Len(t)
        /\ \A k \in 1 .. Len(s) + Len(t) : grown[k] = IF k <= Len(s) THEN s[k] ELSE t[k - Len(s)]
    BY <1>3, <1>4, ConcatProperties
  <2> QED
    BY <1>2, <1>3, <1>4, <2>1
<1> HIDE DEF grown
<1>6. \A k \in 1 .. Len(grown) : k \in 1 .. Len(s) \/ \E j \in 1 .. p.len : k = Len(s) + j
  <2> SUFFICES ASSUME NEW k \in 1 .. Len(grown), k \notin 1 .. Len(s) PROVE \E j \in 1 .. p.len : k = Len(s) + j
    OBVIOUS
  <2>1. k - Len(s) \in 1 .. p.len /\ k = Len(s) + (k - Len(s))
    BY <1>2, <1>4, <1>5
  <2> QED
    BY <2>1
<1>7. ASSUME NEW k \in 1 .. Len(grown)
      PROVE  grown[k][1] \in 1 .. Len(Q) /\ grown[k][2] \in 1 .. Q[grown[k][1]].len
  <2>1. CASE k \in 1 .. Len(s)
    <3>1. grown[k] = s[k] /\ s[k][1] \in 1 .. Len(P) /\ s[k][2] \in 1 .. P[s[k][1]].len
      BY <1>5, <2>1 DEF Aligned
    <3>2. s[k][1] \in 1 .. Len(Q) /\ Q[s[k][1]] = P[s[k][1]]
      BY <1>1, <3>1 DEF n
    <3> QED
      BY <3>1, <3>2
  <2>2. ASSUME NEW j \in 1 .. p.len, k = Len(s) + j
        PROVE  grown[k][1] \in 1 .. Len(Q) /\ grown[k][2] \in 1 .. Q[grown[k][1]].len
    <3>1. grown[k][1] = n /\ grown[k][2] = j
      BY <1>5, <2>2
    <3> QED
      BY <1>1, <3>1 DEF n
  <2> QED
    BY <1>6, <2>1, <2>2
<1>8. ASSUME NEW k \in 1 .. Len(grown) - 1 PROVE grown[k + 1] = After(grown[k], Q)
  <2>1. CASE k \in 1 .. Len(s) - 1
    <3>1. grown[k] = s[k] /\ grown[k + 1] = s[k + 1] /\ s[k][1] \in 1 .. Len(P) /\ s[k + 1] = After(s[k], P)
      BY <1>4, <1>5, <2>1 DEF Aligned
    <3> QED
      BY <1>1, <3>1 DEF After
  <2>2. CASE k = Len(s)
    <3>1. grown[k] = << Len(P), P[Len(P)].len >> /\ grown[k + 1] = << n, 1 >> /\ Len(P) \in 1 .. Len(P)
      <4>1. s # << >> /\ k \in 1 .. Len(s) /\ s[k] = << Len(P), P[Len(P)].len >>
        BY <1>4, <1>5, <2>2 DEF Aligned
      <4>2. s[k][1] \in 1 .. Len(P) /\ s[k][1] = Len(P)
        BY <4>1 DEF Aligned
      <4>3. grown[Len(s) + 1] = << n, 1 >>
        BY <1>2, <1>5
      <4> QED
        BY <1>5, <2>2, <4>1, <4>2, <4>3
    <3>2. Q[Len(P)].len = P[Len(P)].len /\ P[Len(P)].len \in Nat
      BY <1>1, <3>1, PacketIs
    <3> QED
      BY <1>1, <3>1, <3>2 DEF After, n
  <2>3. ASSUME NEW j \in 1 .. p.len, k = Len(s) + j
        PROVE  grown[k + 1] = After(grown[k], Q)
    <3>1. j + 1 \in 1 .. p.len /\ k + 1 = Len(s) + (j + 1)
      BY <1>2, <1>4, <1>5, <2>3
    <3>2. grown[k] = << n, j >> /\ grown[k + 1] = << n, j + 1 >> /\ j < p.len
      BY <1>2, <1>5, <2>3, <3>1
    <3> QED
      BY <1>1, <3>2 DEF After
  <2>4. k \in 1 .. Len(grown) /\ (k \in 1 .. Len(s) => k \in 1 .. Len(s) - 1 \/ k = Len(s))
    BY <1>2, <1>4, <1>5
  <2>5. k \in 1 .. Len(s) \/ \E j \in 1 .. p.len : k = Len(s) + j
    BY <1>6, <2>4
  <2> QED
    BY <2>1, <2>2, <2>3, <2>4, <2>5
<1>9. /\ grown # << >> /\ grown[1][2] = 1 /\ grown[Len(grown)] = << Len(Q), Q[Len(Q)].len >>
      /\ grown[1] = IF s = << >> THEN << n, 1 >> ELSE s[1]
  <2>1. grown[Len(grown)] = << n, p.len >> /\ grown # << >>
    <3>1. p.len \in 1 .. p.len /\ Len(grown) > 0
      BY <1>2, <1>4, <1>5
    <3>2. grown # << >>
      BY <3>1, EmptySeq
    <3> QED
      BY <1>5, <3>1, <3>2
  <2>2. CASE s = << >>
    <3>1. Len(s) = 0 /\ grown[1] = << n, 1 >>
      BY <1>2, <1>5, <2>2
    <3> QED
      BY <1>1, <2>1, <2>2, <3>1
  <2>3. CASE s # << >>
    <3>1. grown[1] = s[1] /\ s[1][2] = 1
      BY <1>4, <1>5, <2>3, EmptySeq DEF Aligned
    <3> QED
      BY <1>1, <2>1, <2>3, <3>1
  <2> QED
    BY <2>2, <2>3
<1>10. Aligned(grown, Q)
  BY <1>5, <1>7, <1>8, <1>9 DEF Aligned
<1>11. First(grown, Q) = First(s, P)
  BY <1>9 DEF First, n
<1> QED
  BY <1>10, <1>11 DEF grown, Q, t, n

(* What has arrived begins with the header of the first packet.            *)
LEMMA HeaderRead ==
  ASSUME NEW P \in Seq(Packets), NEW arr \in Seq(Byte), NEW left \in Seq(Byte),
         Aligned(arr \o left, P), Len(arr) >= HeaderSize
  PROVE  /\ arr[1][1] = (arr \o left)[1][1] /\ arr \o left # << >>
         /\ Read(arr, P, 0, 0) = P[arr[1][1]].num
         /\ Read(arr, P, 4, 4) = P[arr[1][1]].len
<1> DEFINE s == arr \o left
           i == s[1][1]
<1>1. /\ s \in Seq(Byte) /\ Len(arr) \in Nat /\ Len(left) \in Nat /\ Len(s) = Len(arr) + Len(left)
      /\ \A k \in 1 .. Len(arr) : s[k] = arr[k]
  BY ConcatProperties
<1> HIDE DEF s
<1>2. s # << >> /\ Len(arr) >= 8
  BY <1>1 DEF HeaderSize
<1>3. i \in 1 .. Len(P) /\ \A j \in 1 .. P[i].len : s[j] = << i, j >>
  BY <1>2, WholeFirst DEF s
<1>4. P[i].len \in Nat /\ P[i].len > 8
  BY <1>3, PacketIs DEF HeaderSize
<1> HIDE DEF i
<1>5. ASSUME NEW k \in 1 .. 8 PROVE arr[k] = << i, k >>
  <2>1. k \in 1 .. P[i].len /\ k \in 1 .. Len(arr)
    BY <1>2, <1>4, <1>1
  <2>2. s[k] = << i, k >> /\ arr[k] = s[k]
    BY <1>1, <1>3, <2>1
  <2> QED
    BY <2>2
<1>6. arr[1][1] = i /\ arr[5][1] = i
  BY <1>5
<1>7. Read(arr, P, 0, 0) = P[i].num
  <2>1. arr[0 + 1][1] = i /\ \A k \in 1 .. 4 : arr[0 + k] = << i, 0 + k >>
    BY <1>5, <1>6
  <2> QED
    BY <2>1 DEF Read
<1>8. Read(arr, P, 4, 4) = P[i].len
  <2>1. arr[4 + 1][1] = i /\ \A k \in 1 .. 4 : arr[4 + k] = << i, 4 + k >>
    BY <1>5, <1>6
  <2> QED
    BY <2>1 DEF Read
<1> QED
  BY <1>2, <1>6, <1>7, <1>8 DEF i, s

(* A piece that arrives moves bytes from the one side to the other, and    *)
(* what is cut from the buffer is cut from the stream.                     *)
LEMMA PieceMoves ==
  ASSUME NEW buf \in Seq(Byte), NEW bytes \in Seq(Byte), NEW k \in 1 .. Len(bytes)
  PROVE  /\ buf \o SubSeq(bytes, 1, k) \in Seq(Byte) /\ SubSeq(bytes, k + 1, Len(bytes)) \in Seq(Byte)
         /\ (buf \o SubSeq(bytes, 1, k)) \o SubSeq(bytes, k + 1, Len(bytes)) = buf \o bytes
<1> DEFINE a == SubSeq(bytes, 1, k)
           b == SubSeq(bytes, k + 1, Len(bytes))
<1>1. Len(bytes) \in Nat /\ \A j \in 1 .. Len(bytes) : bytes[j] \in Byte
  OBVIOUS
<1>2. a \in Seq(Byte) /\ b \in Seq(Byte)
  <2>1. \A j \in 1 .. k : bytes[j] \in Byte
    BY <1>1
  <2>2. \A j \in k + 1 .. Len(bytes) : bytes[j] \in Byte
    BY <1>1
  <2> QED
    BY <1>1, <2>1, <2>2, SubSeqProperties
<1>3. a \o b = SubSeq(bytes, 1, Len(bytes))
  <2>1. k \in 1 - 1 .. Len(bytes) /\ Len(bytes) \in k .. Len(bytes) /\ 1 \in 1 .. Len(bytes) + 1
    BY <1>1
  <2>2. PICK B : B = Byte
    OBVIOUS
  <2>3. bytes \in Seq(B)
    BY <2>2
  <2> QED
    BY <2>1, <2>3, ConcatAdjacentSubSeq
<1>4. SubSeq(bytes, 1, Len(bytes)) = bytes
  BY SubSeqFull
<1> HIDE DEF a, b
<1>5. (buf \o a) \o b = buf \o (a \o b)
  BY <1>2, ConcatAssociative, SMTT(30)
<1>6. buf \o a \in Seq(Byte)
  BY <1>2, ConcatProperties
<1> QED
  BY <1>2, <1>3, <1>4, <1>5, <1>6 DEF a, b

LEMMA CutMoves ==
  ASSUME NEW arr \in Seq(Byte), NEW left \in Seq(Byte), NEW n \in 0 .. Len(arr)
  PROVE  LET rest == SubSeq(arr, n + 1, Len(arr))
         IN  /\ rest \in Seq(Byte) /\ Len(rest) = Len(arr) - n
             /\ rest \o left = SubSeq(arr \o left, n + 1, Len(arr \o left))
<1> DEFINE rest == SubSeq(arr, n + 1, Len(arr))
           s == arr \o left
<1>1. /\ Len(arr) \in Nat /\ Len(left) \in Nat /\ \A k \in 1 .. Len(arr) : arr[k] \in Byte
      /\ s \in Seq(Byte) /\ Len(s) = Len(arr) + Len(left)
      /\ \A k \in 1 .. Len(arr) + Len(left) : s[k] = IF k =< Len(arr) THEN arr[k] ELSE left[k - Len(arr)]
  BY ConcatProperties
<1>2. /\ rest \in Seq(Byte) /\ Len(rest) = Len(arr) - n
      /\ \A k \in 1 .. Len(arr) - n : rest[k] = arr[n + k]
  <2>1. \A k \in n + 1 .. Len(arr) : arr[k] \in Byte
    BY <1>1
  <2>2. /\ rest \in Seq(Byte) /\ Len(rest) = IF n + 1 =< Len(arr) THEN Len(arr) - (n + 1) + 1 ELSE 0
        /\ \A k \in 1 .. Len(arr) - (n + 1) + 1 : rest[k] = arr[n + 1 + k - 1]
    BY <1>1, <2>1, SubSeqProperties
  <2> QED
    BY <1>1, <2>2
<1> HIDE DEF rest, s
<1>3. /\ rest \o left \in Seq(Byte) /\ Len(rest \o left) = Len(s) - n
      /\ \A k \in 1 .. Len(s) - n : (rest \o left)[k] = IF k =< Len(arr) - n THEN arr[n + k] ELSE left[k - (Len(arr) - n)]
  <2>1. /\ rest \o left \in Seq(Byte) /\ Len(rest \o left) = Len(rest) + Len(left)
        /\ \A k \in 1 .. Len(rest) + Len(left) : (rest \o left)[k] = IF k =< Len(rest) THEN rest[k] ELSE left[k - Len(rest)]
    BY <1>2, ConcatProperties
  <2>2. ASSUME NEW k \in 1 .. Len(s) - n
        PROVE  (rest \o left)[k] = IF k =< Len(arr) - n THEN arr[n + k] ELSE left[k - (Len(arr) - n)]
    <3>1. k \in 1 .. Len(rest) + Len(left) /\ (k =< Len(arr) - n => k \in 1 .. Len(arr) - n)
      BY <1>1, <1>2
    <3> QED
      BY <1>2, <2>1, <3>1
  <2> QED
    BY <1>1, <1>2, <2>1, <2>2
<1>4. /\ SubSeq(s, n + 1, Len(s)) \in Seq(Byte) /\ Len(SubSeq(s, n + 1, Len(s))) = Len(s) - n
      /\ \A k \in 1 .. Len(s) - n : SubSeq(s, n + 1, Len(s))[k] = s[n + k]
  <2>1. \A k \in n + 1 .. Len(s) : s[k] \in Byte
    BY <1>1
  <2>2. /\ SubSeq(s, n + 1, Len(s)) \in Seq(Byte)
        /\ Len(SubSeq(s, n + 1, Len(s))) = IF n + 1 =< Len(s) THEN Len(s) - (n + 1) + 1 ELSE 0
        /\ \A k \in 1 .. Len(s) - (n + 1) + 1 : SubSeq(s, n + 1, Len(s))[k] = s[n + 1 + k - 1]
    BY <1>1, <2>1, SubSeqProperties
  <2> QED
    BY <1>1, <2>2
<1>5. \A k \in 1 .. Len(s) - n : (rest \o left)[k] = SubSeq(s, n + 1, Len(s))[k]
  <2> SUFFICES ASSUME NEW k \in 1 .. Len(s) - n PROVE (rest \o left)[k] = SubSeq(s, n + 1, Len(s))[k]
    OBVIOUS
  <2>1. /\ n + k \in 1 .. Len(arr) + Len(left) /\ (k =< Len(arr) - n <=> n + k =< Len(arr))
        /\ k - (Len(arr) - n) = (n + k) - Len(arr)
    BY <1>1
  <2> QED
    BY <1>1, <1>3, <1>4, <2>1
<1>6. rest \o left = SubSeq(s, n + 1, Len(s))
  BY <1>3, <1>4, <1>5, SeqEqual
<1> QED
  BY <1>2, <1>6 DEF rest, s

-----------------------------------------------------------------------------
(* What a turn works on.                                                   *)
CallRec == [method : Methods, age : Nat, packet : Nat]
Child == [open : BOOLEAN, sendCount : Nat, recvCount : Nat, ids : Nat,
          calls : UNION {[D -> CallRec] : D \in SUBSET Nat}, buf : Seq(Byte)]
Ran == [packet : Nat, of : Nat]
Works == [c : Child, sent : Seq(Packets), pipe : Seq(Byte), took : Seq(Packets),
          ran : Seq(Ran), bad : BOOLEAN, more : BOOLEAN]

(* The packets S an end has written are numbered.                          *)
Numbers(c, S) == c.sendCount = Len(S) /\ \A i \in 1 .. Len(S) : S[i].num = i - 1

(* A context belongs to one call, whether or not it is still waited for.   *)
Asks(S, i, id) == i \in 1 .. Len(S) /\ S[i].call /\ S[i].ctx = id
Contexts(c, S) ==
  /\ \A i \in 1 .. Len(S) : S[i].call => S[i].ctx =< c.ids
  /\ \A i, j \in 1 .. Len(S) : S[i].call /\ S[j].call /\ S[i].ctx = S[j].ctx /\ S[i].ctx # 0 => i = j
  /\ \A id \in DOMAIN c.calls : id \in 1 .. c.ids /\ Asks(S, c.calls[id].packet, id)

(* The callbacks that have run got their own answer, and their contexts    *)
(* are gone.                                                               *)
Callbacks(all, c, S) ==
  /\ \A i \in 1 .. Len(all) :
       /\ all[i].of = all[i].packet
       /\ \E id \in (1 .. c.ids) \ DOMAIN c.calls : Asks(S, all[i].packet, id)
  /\ \A i, j \in 1 .. Len(all) : all[i].packet = all[j].packet => i = j

(* An answer among the packets S answers a call among P.                   *)
Answers(S, P) == \A i \in 1 .. Len(S) : ~S[i].call => S[i].ctx # 0 /\ Asks(P, S[i].of, S[i].ctx)

(* What an end owes to its own packets, while the other end has written P, *)
(* still holds the bytes b and will parse packet number f next.            *)
Sends(w, P, b, f) ==
  /\ w \in Works
  /\ Numbers(w.c, w.sent) /\ Contexts(w.c, w.sent) /\ Callbacks(w.ran, w.c, w.sent)
  /\ Answers(w.sent, P) /\ Answers(P, w.sent)
  /\ Aligned(b \o w.pipe, w.sent) /\ First(b \o w.pipe, w.sent) = f

LEMMA AskedLater ==
  ASSUME NEW S \in Seq(Packets), NEW p \in Packets, NEW i, NEW id, Asks(S, i, id)
  PROVE  Asks(Append(S, p), i, id)
BY AppendProperties DEF Asks

LEMMA WrittenIs ==
  ASSUME NEW w \in Works, NEW p \in Packets
  PROVE  LET x == Written(w, p)
         IN  /\ x \in Works /\ x.c.sendCount = w.c.sendCount + 1
             /\ x.c.open = w.c.open /\ x.c.buf = w.c.buf /\ x.c.recvCount = w.c.recvCount
             /\ x.c.ids = w.c.ids /\ x.c.calls = w.c.calls
             /\ x.sent = Append(w.sent, p) /\ x.pipe = w.pipe \o Bytes(p, Len(w.sent) + 1)
             /\ x.took = w.took /\ x.ran = w.ran /\ x.bad = w.bad /\ x.more = w.more
<1>1. w.sent \in Seq(Packets) /\ w.pipe \in Seq(Byte) /\ w.c \in Child
  BY DEF Works
<1>2. Append(w.sent, p) \in Seq(Packets) /\ Len(w.sent) + 1 \in Nat
  BY <1>1, AppendProperties
<1>3. Bytes(p, Len(w.sent) + 1) \in Seq(Byte)
  <2>1. Bytes(p, Len(w.sent) + 1) \in [1 .. p.len -> Byte] /\ p.len \in Nat
    BY <1>2, LenIs DEF Bytes, Byte
  <2>2. PICK n \in Nat : n = p.len
    BY <2>1
  <2>3. PICK t : t = Bytes(p, Len(w.sent) + 1)
    OBVIOUS
  <2>4. t \in [1 .. n -> Byte]
    BY <2>1, <2>2, <2>3
  <2>5. t \in Seq(Byte)
    BY <2>4
  <2> QED
    BY <2>3, <2>5
<1>4. w.pipe \o Bytes(p, Len(w.sent) + 1) \in Seq(Byte)
  BY <1>1, <1>3, ConcatProperties
<1>5. PICK c \in Child : c = [w.c EXCEPT !.sendCount = @ + 1]
  <2>1. w.c.sendCount + 1 \in Nat
    BY <1>1 DEF Child
  <2>2. [w.c EXCEPT !.sendCount = @ + 1] \in Child
    BY <1>1, <2>1 DEF Child
  <2> QED
    BY <2>2
<1>6. Written(w, p) = [w EXCEPT !.sent = Append(w.sent, p), !.pipe = w.pipe \o Bytes(p, Len(w.sent) + 1),
                                !.c = c]
  BY <1>5 DEF Written, Works
<1>7. /\ c.open = w.c.open /\ c.buf = w.c.buf /\ c.recvCount = w.c.recvCount
      /\ c.sendCount = w.c.sendCount + 1 /\ c.ids = w.c.ids /\ c.calls = w.c.calls
  BY <1>1, <1>5 DEF Child
<1> QED
  BY <1>2, <1>4, <1>5, <1>6, <1>7 DEF Works

(* A packet is written: with it all holds that the contexts do not decide. *)
LEMMA WrittenSends ==
  ASSUME NEW P \in Seq(Packets), NEW b \in Seq(Byte), NEW f, NEW w, Sends(w, P, b, f),
         NEW p \in Packets, p.num = w.c.sendCount,
         ~p.call => p.ctx # 0 /\ Asks(P, p.of, p.ctx)
  PROVE  LET x == Written(w, p)
         IN  /\ x \in Works /\ Numbers(x.c, x.sent) /\ Answers(x.sent, P) /\ Answers(P, x.sent)
             /\ Aligned(b \o x.pipe, x.sent) /\ First(b \o x.pipe, x.sent) = f
<1> DEFINE x == Written(w, p)
           S == w.sent
           n == Len(S) + 1
<1>1. w \in Works /\ S \in Seq(Packets) /\ w.pipe \in Seq(Byte) /\ w.c \in Child /\ Len(S) \in Nat
  BY DEF Sends, Works
<1>2. /\ x \in Works /\ x.c.sendCount = w.c.sendCount + 1
      /\ x.sent = Append(S, p) /\ x.pipe = w.pipe \o Bytes(p, n)
  BY <1>1, WrittenIs
<1> HIDE DEF x
<1>3. Len(x.sent) = n /\ x.sent[n] = p /\ \A i \in 1 .. Len(S) : x.sent[i] = S[i]
  BY <1>1, <1>2, AppendProperties
<1>4. Numbers(x.c, x.sent)
  <2>1. x.c.sendCount = n /\ p.num = n - 1
    BY <1>1, <1>2 DEF Child, Sends, Numbers
  <2>2. ASSUME NEW i \in 1 .. n PROVE x.sent[i].num = i - 1
    <3>1. CASE i = n
      BY <1>3, <2>1, <3>1
    <3>2. CASE i \in 1 .. Len(S)
      BY <1>3, <3>2 DEF Sends, Numbers
    <3> QED
      BY <1>1, <3>1, <3>2
  <2> QED
    BY <1>3, <2>1, <2>2 DEF Numbers
<1>5. Answers(x.sent, P)
  <2>1. ASSUME NEW i \in 1 .. n, ~x.sent[i].call PROVE x.sent[i].ctx # 0 /\ Asks(P, x.sent[i].of, x.sent[i].ctx)
    <3>1. CASE i = n
      BY <1>3, <2>1, <3>1
    <3>2. CASE i \in 1 .. Len(S)
      BY <1>3, <2>1, <3>2 DEF Sends, Answers
    <3> QED
      BY <1>1, <3>1, <3>2
  <2> QED
    BY <1>3, <2>1 DEF Answers
<1>6. Answers(P, x.sent)
  BY <1>1, <1>2, AskedLater DEF Sends, Answers
<1>7. b \o x.pipe = (b \o w.pipe) \o Bytes(p, n)
  <2>1. Bytes(p, n) \in Seq(Byte)
    <3>1. Bytes(p, n) \in [1 .. p.len -> Byte] /\ p.len \in Nat
      BY <1>1, LenIs DEF Bytes, Byte
    <3> QED
      BY <3>1
  <2>2. PICK t \in Seq(Byte) : t = Bytes(p, n)
    BY <2>1
  <2>3. PICK u \in Seq(Byte) : u = w.pipe
    BY <1>1
  <2>4. b \o (u \o t) = (b \o u) \o t
    BY ConcatAssociative
  <2> QED
    BY <1>2, <2>2, <2>3, <2>4
<1>8. PICK s : s = b \o w.pipe
  OBVIOUS
<1>9. Aligned(s, S) /\ First(s, S) = f
  BY <1>8 DEF Sends
<1>10. Aligned(s \o Bytes(p, n), x.sent) /\ First(s \o Bytes(p, n), x.sent) = f
  BY <1>1, <1>2, <1>9, GrowLast
<1> QED
  BY <1>2, <1>4, <1>5, <1>6, <1>7, <1>8, <1>10 DEF x

(* A packet without a new context leaves the contexts as they are.         *)
LEMMA PlainSends ==
  ASSUME NEW P \in Seq(Packets), NEW b \in Seq(Byte), NEW f, NEW w, Sends(w, P, b, f),
         NEW p \in Packets, p.num = w.c.sendCount,
         ~p.call => p.ctx # 0 /\ Asks(P, p.of, p.ctx), p.call => p.ctx = 0
  PROVE  Sends(Written(w, p), P, b, f)
<1> DEFINE x == Written(w, p)
           S == w.sent
           n == Len(S) + 1
<1>1. w \in Works /\ S \in Seq(Packets) /\ w.c \in Child /\ Len(S) \in Nat /\ w.c.ids \in Nat
  BY DEF Sends, Works, Child
<1>2. /\ x.c.ids = w.c.ids /\ x.c.calls = w.c.calls /\ x.ran = w.ran /\ x.sent = Append(S, p)
  BY <1>1, WrittenIs DEF Child
<1>3. /\ x \in Works /\ Numbers(x.c, x.sent) /\ Answers(x.sent, P) /\ Answers(P, x.sent)
      /\ Aligned(b \o x.pipe, x.sent) /\ First(b \o x.pipe, x.sent) = f
  BY WrittenSends
<1> HIDE DEF x
<1>4. Len(x.sent) = n /\ x.sent[n] = p /\ \A i \in 1 .. Len(S) : x.sent[i] = S[i]
  BY <1>1, <1>2, AppendProperties
<1>5. \A i \in 1 .. n : x.sent[i].call /\ x.sent[i].ctx # 0 => i \in 1 .. Len(S)
  <2> SUFFICES ASSUME NEW i \in 1 .. n, i \notin 1 .. Len(S), x.sent[i].call, x.sent[i].ctx # 0 PROVE FALSE
    OBVIOUS
  <2>1. i = n
    BY <1>1
  <2> QED
    BY <1>4, <2>1
<1>6. Contexts(x.c, x.sent)
  <2>1. ASSUME NEW i \in 1 .. n, x.sent[i].call PROVE x.sent[i].ctx =< x.c.ids
    <3>1. CASE x.sent[i].ctx = 0
      BY <1>1, <1>2, <3>1
    <3>2. CASE x.sent[i].ctx # 0
      <4>1. i \in 1 .. Len(S) /\ x.sent[i] = S[i]
        BY <1>4, <1>5, <2>1, <3>2
      <4> QED
        BY <1>2, <2>1, <4>1 DEF Sends, Contexts
    <3> QED
      BY <3>1, <3>2
  <2>2. ASSUME NEW i \in 1 .. n, NEW j \in 1 .. n, x.sent[i].call, x.sent[j].call,
               x.sent[i].ctx = x.sent[j].ctx, x.sent[i].ctx # 0
        PROVE  i = j
    <3>1. i \in 1 .. Len(S) /\ j \in 1 .. Len(S) /\ x.sent[i] = S[i] /\ x.sent[j] = S[j]
      BY <1>4, <1>5, <2>2
    <3> QED
      BY <2>2, <3>1 DEF Sends, Contexts
  <2>3. ASSUME NEW id \in DOMAIN x.c.calls PROVE id \in 1 .. x.c.ids /\ Asks(x.sent, x.c.calls[id].packet, id)
    <3>1. id \in 1 .. w.c.ids /\ Asks(S, w.c.calls[id].packet, id)
      BY <1>2, <2>3 DEF Sends, Contexts
    <3> QED
      BY <1>1, <1>2, <3>1, AskedLater
  <2> QED
    BY <1>4, <2>1, <2>2, <2>3 DEF Contexts
<1>7. Callbacks(x.ran, x.c, x.sent)
  <2>1. ASSUME NEW i \in 1 .. Len(w.ran)
        PROVE  w.ran[i].of = w.ran[i].packet /\ \E id \in (1 .. x.c.ids) \ DOMAIN x.c.calls : Asks(x.sent, w.ran[i].packet, id)
    <3>1. PICK id \in (1 .. w.c.ids) \ DOMAIN w.c.calls : w.ran[i].of = w.ran[i].packet /\ Asks(S, w.ran[i].packet, id)
      BY DEF Sends, Callbacks
    <3>2. Asks(x.sent, w.ran[i].packet, id)
      BY <1>1, <1>2, <3>1, AskedLater
    <3> QED
      BY <1>2, <3>1, <3>2
  <2> QED
    BY <1>2, <2>1 DEF Sends, Callbacks
<1> QED
  BY <1>3, <1>6, <1>7 DEF Sends, x

(* The call that is made now waits in the next context.                    *)
Waits(c, x, n) ==
  LET id == c.ids + 1
  IN  /\ x.ids = id /\ DOMAIN x.calls = DOMAIN c.calls \cup {id} /\ x.calls[id].packet = n
      /\ \A k \in DOMAIN c.calls : k # id => x.calls[k] = c.calls[k]

LEMMA AskedIs ==
  ASSUME NEW w \in Works, NEW method \in Methods
  PROVE  LET a == Asked(w, w.c.ids + 1, method)
         IN  /\ a \in Works /\ Waits(w.c, a.c, Len(w.sent) + 1)
             /\ a.c.open = w.c.open /\ a.c.buf = w.c.buf /\ a.c.recvCount = w.c.recvCount
             /\ a.c.sendCount = w.c.sendCount /\ a.sent = w.sent /\ a.pipe = w.pipe
             /\ a.took = w.took /\ a.ran = w.ran /\ a.bad = w.bad /\ a.more = w.more
<1>1. /\ w.sent \in Seq(Packets) /\ w.c \in Child /\ Len(w.sent) \in Nat /\ w.c.ids \in Nat
      /\ w.c.calls \in UNION {[D -> CallRec] : D \in SUBSET Nat}
  BY DEF Works, Child
<1>2. PICK D \in SUBSET Nat : w.c.calls \in [D -> CallRec]
  BY <1>1
<1>3. PICK id \in Nat : id = w.c.ids + 1
  BY <1>1
<1>4. PICK called \in CallRec : called = [method |-> method, age |-> 0, packet |-> Len(w.sent) + 1]
  <2>1. [method |-> method, age |-> 0, packet |-> Len(w.sent) + 1] \in CallRec
    BY <1>1 DEF CallRec
  <2> QED
    BY <2>1
<1>5. PICK old : old = w.c.calls
  OBVIOUS
<1>6. old \in [D -> CallRec]
  BY <1>2, <1>5
<1>7. PICK calls : calls = [k \in D \cup {id} |-> IF k = id THEN called ELSE old[k]]
  OBVIOUS
<1>8. /\ calls \in [D \cup {id} -> CallRec] /\ D \cup {id} \in SUBSET Nat
      /\ calls[id] = called /\ \A k \in D : k # id => calls[k] = old[k]
  BY <1>3, <1>6, <1>7
<1>9. calls \in UNION {[E -> CallRec] : E \in SUBSET Nat}
  BY <1>8
<1>10. DOMAIN old = D
  BY <1>6
<1>11. Asked(w, id, method) = [w EXCEPT !.c = [w.c EXCEPT !.ids = id, !.calls = calls]]
  BY <1>4, <1>5, <1>7, <1>10 DEF Asked, Works, Child
<1>12. [w.c EXCEPT !.ids = id, !.calls = calls] \in Child
  BY <1>1, <1>9 DEF Child
<1>13. Waits(w.c, Asked(w, id, method).c, Len(w.sent) + 1)
  <2>1. Asked(w, id, method).c.ids = id /\ Asked(w, id, method).c.calls = calls
    BY <1>1, <1>11 DEF Works, Child
  <2>2. DOMAIN calls = D \cup {id} /\ calls[id].packet = Len(w.sent) + 1
    BY <1>4, <1>8
  <2> QED
    BY <1>3, <1>5, <1>8, <1>10, <2>1, <2>2 DEF Waits
<1>14. Asked(w, id, method) \in Works
  BY <1>11, <1>12 DEF Works
<1>15. LET a == Asked(w, id, method)
       IN  /\ a.c.open = w.c.open /\ a.c.buf = w.c.buf /\ a.c.recvCount = w.c.recvCount
           /\ a.c.sendCount = w.c.sendCount /\ a.sent = w.sent /\ a.pipe = w.pipe
           /\ a.took = w.took /\ a.ran = w.ran /\ a.bad = w.bad /\ a.more = w.more
  BY <1>1, <1>11 DEF Works, Child
<1> QED
  BY <1>3, <1>13, <1>14, <1>15

LEMMA AskSends ==
  ASSUME NEW w \in Works, Contexts(w.c, w.sent), Callbacks(w.ran, w.c, w.sent),
         NEW p \in Packets, p.call, p.ctx = w.c.ids + 1,
         NEW x \in Works, x.sent = Append(w.sent, p), x.ran = w.ran, Waits(w.c, x.c, Len(w.sent) + 1)
  PROVE  Contexts(x.c, x.sent) /\ Callbacks(x.ran, x.c, x.sent)
<1>1. /\ w.sent \in Seq(Packets) /\ Len(w.sent) \in Nat /\ w.c.ids \in Nat
  BY DEF Works, Child
<1>2. PICK S \in Seq(Packets) : S = w.sent
  BY <1>1
<1>3. PICK n \in Nat : n = Len(S) + 1 /\ Len(S) \in Nat
  BY <1>1, <1>2
<1>4. PICK id \in Nat : id = w.c.ids + 1 /\ w.c.ids < id /\ id # 0
  BY <1>1
<1>5. PICK T \in Seq(Packets) : T = Append(S, p)
  BY AppendProperties
<1>6. Len(T) = n /\ T[n] = p /\ \A i \in 1 .. Len(S) : T[i] = S[i]
  BY <1>3, <1>5, AppendProperties
<1>7. \A i \in 1 .. n : i = n \/ i \in 1 .. Len(S)
  BY <1>3
<1>8. \A i \in 1 .. Len(S) : S[i].call => S[i].ctx \in Nat /\ S[i].ctx =< w.c.ids
  BY <1>2, PacketIs DEF Contexts, Packets
<1>9. /\ x.sent = T /\ x.c.ids = id /\ DOMAIN x.c.calls = DOMAIN w.c.calls \cup {id} /\ x.c.calls[id].packet = n
      /\ \A k \in DOMAIN w.c.calls : k # id => x.c.calls[k] = w.c.calls[k]
  BY <1>2, <1>3, <1>4, <1>5 DEF Waits
<1>10. \A i, k : Asks(S, i, k) => Asks(T, i, k)
  BY <1>3, <1>6 DEF Asks
<1>11. Contexts(x.c, T)
  <2>1. ASSUME NEW i \in 1 .. n, T[i].call PROVE T[i].ctx =< id
    <3>1. CASE i = n
      BY <1>4, <1>6, <3>1
    <3>2. CASE i \in 1 .. Len(S)
      <4>1. S[i].ctx \in Nat /\ S[i].ctx =< w.c.ids /\ T[i] = S[i]
        BY <1>6, <1>8, <2>1, <3>2
      <4> QED
        BY <1>1, <1>4, <4>1
    <3> QED
      BY <1>7, <3>1, <3>2
  <2>2. ASSUME NEW i \in 1 .. n, NEW j \in 1 .. n, T[i].call, T[j].call, T[i].ctx = T[j].ctx, T[i].ctx # 0
        PROVE  i = j
    <3>1. ASSUME NEW k \in 1 .. Len(S), T[k].call PROVE T[k].ctx # T[n].ctx
      <4>1. S[k].ctx \in Nat /\ S[k].ctx =< w.c.ids /\ T[k] = S[k] /\ T[n].ctx = id
        BY <1>4, <1>6, <1>8, <3>1
      <4> QED
        BY <1>1, <1>4, <4>1
    <3>2. CASE i \in 1 .. Len(S) /\ j \in 1 .. Len(S)
      BY <1>2, <1>6, <2>2, <3>2 DEF Contexts
    <3> QED
      BY <1>7, <2>2, <3>1, <3>2
  <2>3. ASSUME NEW k \in DOMAIN x.c.calls PROVE k \in 1 .. id /\ Asks(T, x.c.calls[k].packet, k)
    <3>1. CASE k = id
      <4>1. n \in 1 .. Len(T) /\ T[n].call /\ T[n].ctx = id /\ id \in 1 .. id
        BY <1>3, <1>4, <1>6
      <4> QED
        BY <1>9, <3>1, <4>1 DEF Asks
    <3>2. CASE k # id
      <4>1. k \in DOMAIN w.c.calls /\ x.c.calls[k] = w.c.calls[k]
        BY <1>9, <2>3, <3>2
      <4>2. k \in 1 .. w.c.ids /\ Asks(S, w.c.calls[k].packet, k)
        BY <1>2, <4>1 DEF Contexts
      <4>3. Asks(T, x.c.calls[k].packet, k)
        BY <1>10, <4>1, <4>2
      <4> QED
        BY <1>1, <1>4, <4>2, <4>3
    <3> QED
      BY <3>1, <3>2
  <2> QED
    BY <1>6, <1>9, <2>1, <2>2, <2>3 DEF Contexts
<1>12. Callbacks(w.ran, x.c, T)
  <2>1. ASSUME NEW i \in 1 .. Len(w.ran)
        PROVE  w.ran[i].of = w.ran[i].packet /\ \E k \in (1 .. x.c.ids) \ DOMAIN x.c.calls : Asks(T, w.ran[i].packet, k)
    <3>1. PICK k \in (1 .. w.c.ids) \ DOMAIN w.c.calls : w.ran[i].of = w.ran[i].packet /\ Asks(S, w.ran[i].packet, k)
      BY <1>2 DEF Callbacks
    <3>2. Asks(T, w.ran[i].packet, k)
      BY <1>10, <3>1
    <3>3. k \in (1 .. x.c.ids) \ DOMAIN x.c.calls
      BY <1>1, <1>4, <1>9, <3>1
    <3> QED
      BY <3>1, <3>2, <3>3
  <2> QED
    BY <2>1 DEF Callbacks
<1> QED
  BY <1>9, <1>11, <1>12

(* PrepareOnSendNext of a call.                                            *)
LEMMA CallSends ==
  ASSUME NEW P \in Seq(Packets), NEW b \in Seq(Byte), NEW f, NEW w, Sends(w, P, b, f),
         NEW method \in Methods, NEW wants \in BOOLEAN, NEW body \in Bodies
  PROVE  LET x == Call(w, method, wants, body)
         IN  /\ Sends(x, P, b, f) /\ IsPrefix(w.sent, x.sent)
             /\ x.c.open = w.c.open /\ x.c.buf = w.c.buf /\ x.c.recvCount = w.c.recvCount
             /\ x.took = w.took /\ x.bad = w.bad
<1>1. /\ w \in Works /\ w.sent \in Seq(Packets) /\ w.c \in Child /\ w.c.ids \in Nat /\ w.c.sendCount \in Nat
  BY DEF Sends, Works, Child
<1>2. PICK p \in Packets : p = Pack(w.c, TRUE, method, w.c.ids + 1, 0, body)
  <2>1. Pack(w.c, TRUE, method, w.c.ids + 1, 0, body) \in Packets
    BY <1>1 DEF Pack, Packets
  <2> QED
    BY <2>1
<1>3. PICK q \in Packets : q = Pack(w.c, TRUE, method, 0, 0, body)
  BY <1>1 DEF Pack, Packets
<1>4. p \in Packets /\ p.num = w.c.sendCount /\ p.call /\ p.ctx = w.c.ids + 1
  BY <1>1, <1>2 DEF Pack
<1>5. q \in Packets /\ q.num = w.c.sendCount /\ q.call /\ q.ctx = 0
  BY <1>1, <1>3 DEF Pack
<1>6. \A r \in Packets : IsPrefix(w.sent, Append(w.sent, r)) /\ IsPrefix(w.sent, w.sent)
  BY <1>1, PrefixGrows
<1>7. CASE ~w.c.open
  BY <1>6, <1>4, <1>7 DEF Call
<1>8. CASE w.c.open /\ ~wants
  <2>1. Call(w, method, wants, body) = Written(w, q)
    BY <1>3, <1>8 DEF Call
  <2>2. Sends(Written(w, q), P, b, f)
    BY <1>5, PlainSends
  <2>3. w \in Works
    BY <1>1
  <2>4. LET x == Written(w, q)
        IN  /\ x.sent = Append(w.sent, q) /\ x.c.open = w.c.open /\ x.c.buf = w.c.buf
            /\ x.c.recvCount = w.c.recvCount /\ x.took = w.took /\ x.bad = w.bad
    BY <2>3, WrittenIs
  <2> QED
    BY <1>6, <2>1, <2>2, <2>4
<1>9. CASE w.c.open /\ wants
  <2>1. PICK a \in Works : a = Asked(w, w.c.ids + 1, method)
    BY <1>1, AskedIs
  <2>2. /\ Waits(w.c, a.c, Len(w.sent) + 1) /\ a.c \in Child
        /\ a.c.open = w.c.open /\ a.c.buf = w.c.buf /\ a.c.recvCount = w.c.recvCount
        /\ a.c.sendCount = w.c.sendCount /\ a.sent = w.sent /\ a.pipe = w.pipe
        /\ a.took = w.took /\ a.ran = w.ran /\ a.bad = w.bad
    BY <1>1, <2>1, AskedIs DEF Works
  <2>3. Call(w, method, wants, body) = Written(a, p)
    BY <1>2, <1>9, <2>1 DEF Call
  <2>4. PICK x \in Works : x = Written(a, p)
    BY WrittenIs
  <2>5. /\ x.c.open = a.c.open /\ x.c.buf = a.c.buf /\ x.c.recvCount = a.c.recvCount
        /\ x.c.sendCount = a.c.sendCount + 1 /\ x.c.ids = a.c.ids /\ x.c.calls = a.c.calls
        /\ x.sent = Append(w.sent, p)
        /\ x.pipe = w.pipe \o Bytes(p, Len(w.sent) + 1)
        /\ x.took = w.took /\ x.ran = w.ran /\ x.bad = w.bad
    <3>1. LET z == Written(a, p)
          IN  /\ z.c.open = a.c.open /\ z.c.buf = a.c.buf /\ z.c.recvCount = a.c.recvCount
              /\ z.c.sendCount = a.c.sendCount + 1 /\ z.c.ids = a.c.ids /\ z.c.calls = a.c.calls
              /\ z.sent = Append(a.sent, p) /\ z.pipe = a.pipe \o Bytes(p, Len(a.sent) + 1)
              /\ z.took = a.took /\ z.ran = a.ran /\ z.bad = a.bad
      BY WrittenIs
    <3> QED
      BY <2>2, <2>4, <3>1
  <2>6. /\ x.c.open = w.c.open /\ x.c.buf = w.c.buf /\ x.c.recvCount = w.c.recvCount
        /\ x.c.sendCount = w.c.sendCount + 1 /\ x.c.ids = a.c.ids /\ x.c.calls = a.c.calls
    BY <2>2, <2>5
  <2>7. PICK y \in Works : y = Written(w, p)
    BY <1>1, WrittenIs
  <2>8. y.sent = x.sent /\ y.pipe = x.pipe /\ y.c.sendCount = x.c.sendCount
    <3>1. w \in Works /\ p \in Packets
      BY <1>1
    <3>2. LET z == Written(w, p)
          IN  /\ z.sent = Append(w.sent, p) /\ z.pipe = w.pipe \o Bytes(p, Len(w.sent) + 1)
              /\ z.c.sendCount = w.c.sendCount + 1
      BY <3>1, WrittenIs
    <3> QED
      BY <2>5, <2>6, <2>7, <3>2
  <2>9. /\ Numbers(y.c, y.sent) /\ Answers(y.sent, P) /\ Answers(P, y.sent)
        /\ Aligned(b \o y.pipe, y.sent) /\ First(b \o y.pipe, y.sent) = f
    BY <1>4, <2>7, WrittenSends
  <2>10. Contexts(x.c, x.sent) /\ Callbacks(x.ran, x.c, x.sent)
    <3>1. Waits(w.c, x.c, Len(w.sent) + 1)
      BY <2>2, <2>6 DEF Waits
    <3>2. Contexts(w.c, w.sent) /\ Callbacks(w.ran, w.c, w.sent)
      BY DEF Sends
    <3> QED
      BY <1>1, <1>4, <2>5, <3>1, <3>2, AskSends
  <2>11. Numbers(x.c, x.sent)
    BY <2>8, <2>9 DEF Numbers
  <2>12. Sends(x, P, b, f)
    BY <2>8, <2>9, <2>10, <2>11 DEF Sends
  <2> QED
    BY <1>6, <2>3, <2>4, <2>5, <2>6, <2>12, <1>4
<1> QED
  BY <1>7, <1>8, <1>9

(* What a handler leaves as it is.                                         *)
Kept(w, x) ==
  /\ IsPrefix(w.sent, x.sent) /\ x.c.buf = w.c.buf /\ x.c.recvCount = w.c.recvCount
  /\ x.bad = w.bad /\ (x.c.open => w.c.open)

LEMMA CloseSends ==
  ASSUME NEW P \in Seq(Packets), NEW b \in Seq(Byte), NEW f, NEW w, Sends(w, P, b, f)
  PROVE  LET x == Closed(w)
         IN  Sends(x, P, b, f) /\ Kept(w, x) /\ x.took = w.took /\ ~x.c.open
<1>1. w \in Works /\ w.c \in Child /\ w.sent \in Seq(Packets)
  BY DEF Sends, Works
<1>2. PICK c \in Child : c = [w.c EXCEPT !.open = FALSE]
  <2>1. [w.c EXCEPT !.open = FALSE] \in Child
    BY <1>1 DEF Child
  <2> QED
    BY <2>1
<1>3. /\ c.open = FALSE /\ c.buf = w.c.buf /\ c.recvCount = w.c.recvCount
      /\ c.sendCount = w.c.sendCount /\ c.ids = w.c.ids /\ c.calls = w.c.calls
  BY <1>1, <1>2 DEF Child
<1>4. PICK x : x = Closed(w)
  OBVIOUS
<1>5. x = [w EXCEPT !.c = c]
  BY <1>1, <1>2, <1>4 DEF Closed, Works
<1>6. /\ x \in Works /\ x.c = c /\ x.sent = w.sent /\ x.pipe = w.pipe /\ x.took = w.took
      /\ x.ran = w.ran /\ x.bad = w.bad
  BY <1>1, <1>5 DEF Works
<1>7. Numbers(c, w.sent) /\ Contexts(c, w.sent) /\ Callbacks(w.ran, c, w.sent)
  BY <1>3 DEF Sends, Numbers, Contexts, Callbacks
<1>8. Sends(x, P, b, f)
  BY <1>6, <1>7 DEF Sends
<1>9. IsPrefix(w.sent, w.sent)
  BY <1>1, PrefixSame
<1> QED
  BY <1>3, <1>4, <1>6, <1>8, <1>9 DEF Kept

Taking(w, p) == [w EXCEPT !.took = Append(@, p)]

LEMMA TakeSends ==
  ASSUME NEW P \in Seq(Packets), NEW b \in Seq(Byte), NEW f, NEW w, Sends(w, P, b, f), NEW p \in Packets
  PROVE  LET x == Taking(w, p)
         IN  Sends(x, P, b, f) /\ Kept(w, x) /\ x.took = Append(w.took, p) /\ x.c = w.c
<1>1. w \in Works /\ w.took \in Seq(Packets) /\ w.sent \in Seq(Packets)
  BY DEF Sends, Works
<1>2. PICK took \in Seq(Packets) : took = Append(w.took, p)
  BY <1>1, AppendProperties
<1>3. PICK x : x = Taking(w, p)
  OBVIOUS
<1>4. /\ x \in Works /\ x.c = w.c /\ x.sent = w.sent /\ x.pipe = w.pipe /\ x.took = took
      /\ x.ran = w.ran /\ x.bad = w.bad
  BY <1>1, <1>2, <1>3 DEF Taking, Works
<1>5. Sends(x, P, b, f)
  BY <1>4 DEF Sends
<1>6. IsPrefix(w.sent, w.sent)
  BY <1>1, PrefixSame
<1> QED
  BY <1>2, <1>3, <1>4, <1>5, <1>6 DEF Kept

(* PrepareOnSendNext of an answer.                                         *)
LEMMA AnswerSends ==
  ASSUME NEW P \in Seq(Packets), NEW b \in Seq(Byte), NEW f, NEW w, Sends(w, P, b, f),
         NEW i \in 1 .. Len(P), P[i].call, NEW body \in Bodies
  PROVE  LET x == Answer(w, P[i], i, body)
         IN  Sends(x, P, b, f) /\ Kept(w, x) /\ x.took = w.took /\ x.c.open = w.c.open
<1>1. w \in Works /\ w.c \in Child /\ w.c.sendCount \in Nat /\ w.sent \in Seq(Packets)
  BY DEF Sends, Works, Child
<1>2. IsPrefix(w.sent, w.sent) /\ P[i] \in Packets /\ i \in Nat
  BY <1>1, PrefixSame, PacketIs
<1>3. CASE ~(w.c.open /\ P[i].ctx # 0)
  BY <1>2, <1>3 DEF Answer, Kept
<1>4. CASE w.c.open /\ P[i].ctx # 0
  <2>1. Pack(w.c, FALSE, P[i].method, P[i].ctx, i, body) \in Packets
    BY <1>1, <1>2 DEF Pack, Packets
  <2>2. PICK q \in Packets : q = Pack(w.c, FALSE, P[i].method, P[i].ctx, i, body)
    BY <2>1
  <2>3. q.num = w.c.sendCount /\ ~q.call /\ q.ctx = P[i].ctx /\ q.of = i
    BY <2>2 DEF Pack
  <2>4. Asks(P, q.of, q.ctx)
    BY <2>3 DEF Asks
  <2>5. Sends(Written(w, q), P, b, f)
    BY <1>4, <2>3, <2>4, PlainSends
  <2>6. LET x == Written(w, q)
        IN  /\ x.sent = Append(w.sent, q) /\ x.c.open = w.c.open /\ x.c.buf = w.c.buf
            /\ x.c.recvCount = w.c.recvCount /\ x.took = w.took /\ x.bad = w.bad
    <3>1. w \in Works
      BY <1>1
    <3> QED
      BY <3>1, WrittenIs
  <2>7. IsPrefix(w.sent, Append(w.sent, q))
    BY <1>1, PrefixGrows
  <2>8. Answer(w, P[i], i, body) = Written(w, q)
    BY <1>4, <2>2 DEF Answer
  <2> QED
    BY <2>5, <2>6, <2>7, <2>8 DEF Kept
<1> QED
  BY <1>3, <1>4

(* CallMethodOnReceive of an answer.                                       *)
LEMMA CallbackSends ==
  ASSUME NEW P \in Seq(Packets), NEW b \in Seq(Byte), NEW f, NEW w, Sends(w, P, b, f),
         NEW i \in 1 .. Len(P), ~P[i].call, NEW what
  PROVE  LET x == RunCallback(w, P[i], what)
         IN  Sends(x, P, b, f) /\ Kept(w, x) /\ x.took = w.took
<1>1. /\ w \in Works /\ w.c \in Child /\ w.c.ids \in Nat /\ w.sent \in Seq(Packets) /\ w.ran \in Seq(Ran)
      /\ w.c.calls \in UNION {[D -> CallRec] : D \in SUBSET Nat}
  BY DEF Sends, Works, Child
<1>2. PICK p \in Packets : p = P[i]
  BY PacketIs
<1>3. p.ctx # 0 /\ Asks(w.sent, p.of, p.ctx)
  BY <1>2 DEF Sends, Answers
<1>4. IsPrefix(w.sent, w.sent)
  BY <1>1, PrefixSame
<1>5. CASE ~(p.ctx \in DOMAIN w.c.calls /\ w.c.calls[p.ctx].method = p.method)
  <2>1. RunCallback(w, P[i], what) = w
    BY <1>2, <1>5 DEF RunCallback
  <2> QED
    BY <1>4, <2>1 DEF Kept
<1>6. CASE p.ctx \in DOMAIN w.c.calls /\ w.c.calls[p.ctx].method = p.method
  <2>1. PICK old : old = w.c.calls
    OBVIOUS
  <2>2. PICK D \in SUBSET Nat : old \in [D -> CallRec]
    BY <1>1, <2>1
  <2>3. PICK ctx \in D : ctx = p.ctx
    BY <1>6, <2>1, <2>2
  <2>4. old[ctx].packet \in Nat /\ p.of \in Nat
    BY <2>2 DEF CallRec, Packets
  <2>5. PICK r \in Ran : r = [packet |-> old[ctx].packet, of |-> p.of]
    <3>1. [packet |-> old[ctx].packet, of |-> p.of] \in Ran
      BY <2>4 DEF Ran
    <3> QED
      BY <3>1
  <2>6. PICK calls : calls = [k \in D \ {ctx} |-> old[k]]
    OBVIOUS
  <2>7. /\ calls \in [D \ {ctx} -> CallRec] /\ D \ {ctx} \in SUBSET Nat /\ DOMAIN calls = D \ {ctx} /\ DOMAIN old = D
        /\ \A k \in D \ {ctx} : calls[k] = old[k]
    BY <2>2, <2>6
  <2>8. PICK c \in Child : c = [w.c EXCEPT !.calls = calls]
    <3>1. calls \in UNION {[E -> CallRec] : E \in SUBSET Nat}
      BY <2>7
    <3>2. [w.c EXCEPT !.calls = calls] \in Child
      BY <1>1, <3>1 DEF Child
    <3> QED
      BY <3>2
  <2>9. /\ c.open = w.c.open /\ c.buf = w.c.buf /\ c.recvCount = w.c.recvCount
        /\ c.sendCount = w.c.sendCount /\ c.ids = w.c.ids /\ c.calls = calls
    BY <1>1, <2>8 DEF Child
  <2>10. PICK all \in Seq(Ran) : all = Append(w.ran, r)
    BY <1>1, AppendProperties
  <2>11. PICK d : d = [w EXCEPT !.c = c, !.ran = all]
    OBVIOUS
  <2>12. /\ d \in Works /\ d.c = c /\ d.sent = w.sent /\ d.pipe = w.pipe /\ d.took = w.took
         /\ d.ran = all /\ d.bad = w.bad
    BY <1>1, <2>11 DEF Works
  <2>13. RunCallback(w, P[i], what) = IF what = "close" THEN Closed(d) ELSE d
    <3>1. Restrict(old, DOMAIN old \ {ctx}) = calls
      BY <2>6, <2>7 DEF Restrict
    <3>2. d = [w EXCEPT !.c.calls = Restrict(@, DOMAIN @ \ {ctx}),
                        !.ran = Append(@, [packet |-> old[ctx].packet, of |-> p.of])]
      BY <1>1, <2>1, <2>5, <2>8, <2>10, <2>11, <3>1 DEF Works
    <3> QED
      BY <1>2, <1>6, <2>1, <2>3, <3>2 DEF RunCallback
  <2>14. Numbers(c, w.sent) /\ Contexts(c, w.sent)
    <3>1. ASSUME NEW k \in D \ {ctx} PROVE k \in 1 .. c.ids /\ Asks(w.sent, calls[k].packet, k)
      BY <2>1, <2>7, <2>9 DEF Sends, Contexts
    <3> QED
      BY <2>7, <2>9, <3>1 DEF Sends, Contexts, Numbers
  <2>15. ctx \in 1 .. w.c.ids /\ Asks(w.sent, old[ctx].packet, ctx)
    BY <2>1, <2>3, <2>7 DEF Sends, Contexts
  <2>16. r.of = r.packet /\ Asks(w.sent, r.packet, ctx)
    BY <1>3, <2>3, <2>5, <2>15 DEF Asks, Sends, Contexts
  <2>17. ASSUME NEW j \in 1 .. Len(w.ran)
         PROVE  /\ w.ran[j].of = w.ran[j].packet /\ w.ran[j].packet # r.packet
                /\ \E k \in (1 .. c.ids) \ DOMAIN c.calls : Asks(w.sent, w.ran[j].packet, k)
    <3>1. PICK k \in (1 .. w.c.ids) \ DOMAIN w.c.calls :
                 w.ran[j].of = w.ran[j].packet /\ Asks(w.sent, w.ran[j].packet, k)
      BY DEF Sends, Callbacks
    <3>2. k \in (1 .. c.ids) \ DOMAIN c.calls /\ k # ctx
      BY <2>1, <2>3, <2>7, <2>9, <3>1
    <3> QED
      BY <2>16, <3>1, <3>2 DEF Asks
  <2>18. Callbacks(all, c, w.sent)
    <3>1. /\ Len(w.ran) \in Nat /\ Len(all) = Len(w.ran) + 1 /\ all[Len(w.ran) + 1] = r
          /\ \A j \in 1 .. Len(w.ran) : all[j] = w.ran[j]
      BY <1>1, <2>10, AppendProperties
    <3>2. \A j \in 1 .. Len(all) : j = Len(w.ran) + 1 \/ j \in 1 .. Len(w.ran)
      BY <3>1
    <3>3. \E k \in (1 .. c.ids) \ DOMAIN c.calls : Asks(w.sent, r.packet, k)
      BY <2>7, <2>9, <2>15, <2>16
    <3>4. ASSUME NEW j \in 1 .. Len(all)
          PROVE  all[j].of = all[j].packet /\ \E k \in (1 .. c.ids) \ DOMAIN c.calls : Asks(w.sent, all[j].packet, k)
      <4>1. CASE j = Len(w.ran) + 1
        BY <2>16, <3>1, <3>3, <4>1
      <4>2. CASE j \in 1 .. Len(w.ran)
        BY <2>17, <3>1, <4>2
      <4> QED
        BY <3>2, <4>1, <4>2
    <3>5. ASSUME NEW j \in 1 .. Len(all), NEW k \in 1 .. Len(all), all[j].packet = all[k].packet PROVE j = k
      <4>1. CASE j \in 1 .. Len(w.ran) /\ k \in 1 .. Len(w.ran)
        BY <3>1, <3>5, <4>1 DEF Sends, Callbacks
      <4>2. CASE j \in 1 .. Len(w.ran) /\ k = Len(w.ran) + 1
        BY <2>17, <3>1, <3>5, <4>2
      <4>3. CASE k \in 1 .. Len(w.ran) /\ j = Len(w.ran) + 1
        BY <2>17, <3>1, <3>5, <4>3
      <4> QED
        BY <3>2, <4>1, <4>2, <4>3
    <3> QED
      BY <3>4, <3>5 DEF Callbacks
  <2>19. Sends(d, P, b, f)
    BY <2>12, <2>14, <2>18 DEF Sends
  <2>20. Kept(w, d)
    BY <1>4, <2>9, <2>12 DEF Kept
  <2>21. CASE what = "close"
    <3>1. LET x == Closed(d)
          IN  Sends(x, P, b, f) /\ Kept(d, x) /\ x.took = d.took /\ ~x.c.open
      BY <2>19, CloseSends
    <3>2. Kept(w, Closed(d))
      BY <2>12, <2>20, <3>1 DEF Kept
    <3> QED
      BY <2>12, <2>13, <2>21, <3>1, <3>2
  <2>22. CASE what # "close"
    BY <2>12, <2>13, <2>19, <2>20, <2>22
  <2> QED
    BY <2>21, <2>22
<1> QED
  BY <1>5, <1>6

(* CallMethodOnReceive of the packet p.                                    *)
Handed(w, x, p) ==
  /\ Kept(w, x) /\ (~w.c.open => x = w)
  /\ x.took = IF w.c.open THEN Append(w.took, p) ELSE w.took

LEMMA HandlerSends ==
  ASSUME NEW P \in Seq(Packets), NEW b \in Seq(Byte), NEW f, NEW w, Sends(w, P, b, f),
         NEW i \in 1 .. Len(P), NEW what, NEW body \in Bodies
  PROVE  LET x == CallMethodOnReceive(w, P[i], i, what, body)
         IN  Sends(x, P, b, f) /\ Handed(w, x, P[i])
<1>1. w \in Works /\ w.sent \in Seq(Packets)
  BY DEF Sends, Works
<1>2. IsPrefix(w.sent, w.sent) /\ P[i] \in Packets
  BY <1>1, PrefixSame, PacketIs
<1>3. CASE ~w.c.open
  <2>1. CallMethodOnReceive(w, P[i], i, what, body) = w
    BY <1>3 DEF CallMethodOnReceive
  <2> QED
    BY <1>2, <1>3, <2>1 DEF Kept, Handed
<1>4. CASE w.c.open
  <2>1. PICK t : t = Taking(w, P[i])
    OBVIOUS
  <2>2. Sends(t, P, b, f) /\ Kept(w, t) /\ t.took = Append(w.took, P[i]) /\ t.c = w.c
    <3>1. PICK p \in Packets : p = P[i]
      BY <1>2
    <3>2. LET x == Taking(w, p)
          IN  Sends(x, P, b, f) /\ Kept(w, x) /\ x.took = Append(w.took, p) /\ x.c = w.c
      BY TakeSends
    <3> QED
      BY <2>1, <3>1, <3>2
  <2>3. ASSUME NEW x, Sends(x, P, b, f), Kept(t, x), x.took = t.took,
               CallMethodOnReceive(w, P[i], i, what, body) = x
        PROVE  LET y == CallMethodOnReceive(w, P[i], i, what, body)
               IN  /\ Sends(y, P, b, f) /\ Kept(w, y) /\ y.took = Append(w.took, P[i])
    <3>1. t.sent = w.sent
      BY <1>1, <2>1 DEF Taking, Works
    <3>2. Kept(w, x)
      BY <2>2, <2>3, <3>1 DEF Kept
    <3> QED
      BY <2>2, <2>3, <3>2
  <2> SUFFICES LET y == CallMethodOnReceive(w, P[i], i, what, body)
               IN  /\ Sends(y, P, b, f) /\ Kept(w, y) /\ y.took = Append(w.took, P[i])
    BY <1>4 DEF Handed
  <2>4. CASE ~P[i].call
    <3>1. LET x == RunCallback(t, P[i], what)
          IN  Sends(x, P, b, f) /\ Kept(t, x) /\ x.took = t.took
      <4>1. Sends(t, P, b, f) /\ ~P[i].call
        BY <2>2, <2>4
      <4> QED
        BY <4>1, CallbackSends
    <3>2. CallMethodOnReceive(w, P[i], i, what, body) = RunCallback(t, P[i], what)
      BY <1>4, <2>1, <2>4 DEF CallMethodOnReceive, Taking
    <3> QED
      BY <1>4, <2>3, <3>1, <3>2
  <2>5. CASE P[i].call /\ what = "answer"
    <3>1. LET x == Answer(t, P[i], i, body)
          IN  Sends(x, P, b, f) /\ Kept(t, x) /\ x.took = t.took
      BY <2>2, <2>5, AnswerSends
    <3>2. CallMethodOnReceive(w, P[i], i, what, body) = Answer(t, P[i], i, body)
      BY <1>4, <2>1, <2>5 DEF CallMethodOnReceive, Taking
    <3> QED
      BY <1>4, <2>3, <3>1, <3>2
  <2>6. CASE P[i].call /\ what = "close"
    <3>1. LET x == Closed(t)
          IN  Sends(x, P, b, f) /\ Kept(t, x) /\ x.took = t.took
      BY <2>2, CloseSends
    <3>2. CallMethodOnReceive(w, P[i], i, what, body) = Closed(t)
      BY <1>4, <2>1, <2>6 DEF CallMethodOnReceive, Taking
    <3> QED
      BY <1>4, <2>3, <3>1, <3>2
  <2>7. CASE P[i].call /\ what # "answer" /\ what # "close"
    <3>1. CallMethodOnReceive(w, P[i], i, what, body) = t
      BY <1>4, <2>1, <2>7 DEF CallMethodOnReceive, Taking
    <3> QED
      BY <1>4, <2>2, <3>1
  <2> QED
    BY <2>4, <2>5, <2>6, <2>7
<1> QED
  BY <1>3, <1>4

-----------------------------------------------------------------------------
(* What an end owes to the packets P of the other one, while left is still *)
(* to arrive and packet number f is the next to be parsed.                 *)
Fits(P) == \A i \in 1 .. Len(P) : P[i].len =< MaxPacketSize
InOrder(P) == \A i \in 1 .. Len(P) : P[i].num = i - 1

At(w, P, f, bad) ==
  /\ Len(w.took) < f /\ (\A i \in 1 .. Len(w.took) : w.took[i] = P[i])
  /\ (w.c.open => Len(w.took) = f - 1)
  /\ (Fits(P) => w.c.recvCount = f - 1)
  /\ (w.bad => bad \/ ~Fits(P))

Reads(w, P, left, bad) ==
  Aligned(w.c.buf \o left, P) /\ At(w, P, First(w.c.buf \o left, P), bad)

(* What a turn may do to the channel of packets.                           *)
Onward(w, x) ==
  /\ IsPrefix(w.sent, x.sent) /\ IsPrefix(w.took, x.took)
  /\ ~w.c.open => ~x.c.open /\ x.sent = w.sent /\ x.took = w.took

(* What is kept from w to x.                                               *)
Passed(w, x, P, b, f, left, bad) == Sends(x, P, b, f) /\ Reads(x, P, left, bad) /\ Onward(w, x)

LEMMA SameSends ==
  ASSUME NEW P, NEW b, NEW f, NEW w, Sends(w, P, b, f), NEW x \in Works,
         x.sent = w.sent, x.pipe = w.pipe, x.ran = w.ran,
         x.c.sendCount = w.c.sendCount, x.c.ids = w.c.ids, x.c.calls = w.c.calls
  PROVE  Sends(x, P, b, f)
BY DEF Sends, Numbers, Contexts, Callbacks

(* The counter and the buffer are set, the rest of the turn stays.         *)
Set(w, x, count, buf) ==
  /\ x.sent = w.sent /\ x.pipe = w.pipe /\ x.ran = w.ran /\ x.took = w.took
  /\ x.c.open = w.c.open /\ x.c.sendCount = w.c.sendCount /\ x.c.ids = w.c.ids /\ x.c.calls = w.c.calls
  /\ x.c.recvCount = count /\ x.c.buf = buf

LEMMA CountIs ==
  ASSUME NEW w \in Works, NEW num \in Nat
  PROVE  LET x == [Numbered(w, num) EXCEPT !.more = FALSE]
         IN  /\ x \in Works /\ Set(w, x, (IF num > w.c.recvCount THEN num ELSE w.c.recvCount) + 1, w.c.buf)
             /\ x.bad <=> w.bad \/ num # w.c.recvCount
<1>1. w.c \in Child /\ w.c.recvCount \in Nat /\ w.bad \in BOOLEAN
  BY DEF Works, Child
<1>2. PICK count \in Nat : count = (IF num > w.c.recvCount THEN num ELSE w.c.recvCount) + 1
  BY <1>1
<1>3. PICK c \in Child : c = [w.c EXCEPT !.recvCount = count]
  <2>1. [w.c EXCEPT !.recvCount = count] \in Child
    BY <1>1 DEF Child
  <2> QED
    BY <2>1
<1>4. PICK bad \in BOOLEAN : bad = (w.bad \/ num # w.c.recvCount)
  OBVIOUS
<1>5. PICK x : x = [w EXCEPT !.c = c, !.bad = bad, !.more = FALSE]
  OBVIOUS
<1>6. x = [Numbered(w, num) EXCEPT !.more = FALSE]
  BY <1>1, <1>2, <1>3, <1>4, <1>5 DEF Numbered, Works
<1>7. /\ x \in Works /\ x.c = c /\ x.sent = w.sent /\ x.pipe = w.pipe /\ x.took = w.took /\ x.ran = w.ran
      /\ x.bad = bad
  BY <1>5 DEF Works
<1>8. /\ c.open = w.c.open /\ c.buf = w.c.buf /\ c.recvCount = count
      /\ c.sendCount = w.c.sendCount /\ c.ids = w.c.ids /\ c.calls = w.c.calls
  BY <1>1, <1>3 DEF Child
<1>9. Set(w, x, count, w.c.buf)
  BY <1>7, <1>8 DEF Set
<1> QED
  BY <1>2, <1>4, <1>6, <1>7, <1>9

LEMMA UncountIs ==
  ASSUME NEW w \in Works, w.c.recvCount > 0
  PROVE  LET x == Uncounted(w)
         IN  x \in Works /\ Set(w, x, w.c.recvCount - 1, w.c.buf) /\ x.bad = w.bad
<1>1. w.c \in Child /\ w.c.recvCount \in Nat
  BY DEF Works, Child
<1>2. PICK count \in Nat : count = w.c.recvCount - 1
  BY <1>1
<1>3. PICK c \in Child : c = [w.c EXCEPT !.recvCount = count]
  <2>1. [w.c EXCEPT !.recvCount = count] \in Child
    BY <1>1 DEF Child
  <2> QED
    BY <2>1
<1>4. PICK x : x = [w EXCEPT !.c = c]
  OBVIOUS
<1>5. x = Uncounted(w)
  BY <1>1, <1>2, <1>3, <1>4 DEF Uncounted, Works
<1>6. /\ x \in Works /\ x.c = c /\ x.sent = w.sent /\ x.pipe = w.pipe /\ x.took = w.took /\ x.ran = w.ran
      /\ x.bad = w.bad
  BY <1>4 DEF Works
<1>7. /\ c.open = w.c.open /\ c.buf = w.c.buf /\ c.recvCount = count
      /\ c.sendCount = w.c.sendCount /\ c.ids = w.c.ids /\ c.calls = w.c.calls
  BY <1>1, <1>3 DEF Child
<1>8. Set(w, x, count, w.c.buf)
  BY <1>6, <1>7 DEF Set
<1> QED
  BY <1>2, <1>5, <1>6, <1>8

Cutting(cut, buf, more) == [[cut EXCEPT !.c.buf = buf] EXCEPT !.more = more]
Behind(arr, length) == SubSeq(arr, length + 1, Len(arr))

LEMMA CutIs ==
  ASSUME NEW w \in Works, NEW buf \in Seq(Byte), NEW more \in BOOLEAN
  PROVE  LET x == Cutting(w, buf, more)
         IN  x \in Works /\ Set(w, x, w.c.recvCount, buf) /\ x.bad = w.bad
<1>1. w.c \in Child
  BY DEF Works
<1>2. PICK c \in Child : c = [w.c EXCEPT !.buf = buf]
  <2>1. [w.c EXCEPT !.buf = buf] \in Child
    BY <1>1 DEF Child
  <2> QED
    BY <2>1
<1>3. PICK x : x = [w EXCEPT !.c = c, !.more = more]
  OBVIOUS
<1>4. x = Cutting(w, buf, more)
  BY <1>1, <1>2, <1>3 DEF Works, Cutting
<1>5. /\ x \in Works /\ x.c = c /\ x.sent = w.sent /\ x.pipe = w.pipe /\ x.took = w.took /\ x.ran = w.ran
      /\ x.bad = w.bad
  BY <1>3 DEF Works
<1>6. /\ c.open = w.c.open /\ c.buf = buf /\ c.recvCount = w.c.recvCount
      /\ c.sendCount = w.c.sendCount /\ c.ids = w.c.ids /\ c.calls = w.c.calls
  BY <1>1, <1>2 DEF Child
<1>7. Set(w, x, w.c.recvCount, buf)
  BY <1>5, <1>6 DEF Set
<1> QED
  BY <1>4, <1>5, <1>7

(* The stream s begins with packet number i, which is in the buffer whole  *)
(* and has been counted.                                                   *)
Comes(n, P, s, left, i, bad) ==
  /\ s = n.c.buf \o left /\ Aligned(s, P) /\ s # << >>
  /\ i \in 1 .. Len(P) /\ i = s[1][1] /\ P[i].len =< Len(n.c.buf)
  /\ Len(n.took) < i /\ (\A j \in 1 .. Len(n.took) : n.took[j] = P[j])
  /\ (n.c.open => Len(n.took) = i - 1)
  /\ (Fits(P) => n.c.recvCount = i) /\ (n.bad => bad \/ ~Fits(P))

LEMMA HandledReads ==
  ASSUME NEW P \in Seq(Packets), NEW b \in Seq(Byte), NEW f, NEW left \in Seq(Byte), NEW bad \in BOOLEAN,
         NEW n, Sends(n, P, b, f), NEW s, NEW i, Comes(n, P, s, left, i, bad),
         NEW what, NEW body \in Bodies, NEW more \in BOOLEAN
  PROVE  Passed(n, Cutting(CallMethodOnReceive(n, P[i], i, what, body), Behind(n.c.buf, P[i].len), more), P, b, f, left, bad)
<1>1. n \in Works /\ n.c.buf \in Seq(Byte) /\ n.sent \in Seq(Packets) /\ n.took \in Seq(Packets) /\ Len(n.took) \in Nat
  BY DEF Sends, Works, Child
<1>2. i \in 1 .. Len(P) /\ P[i] \in Packets /\ P[i].len \in Nat /\ i \in Nat
  <2>1. i \in 1 .. Len(P)
    BY DEF Comes
  <2> QED
    BY <2>1, PacketIs
<1>3. PICK cut : cut = CallMethodOnReceive(n, P[i], i, what, body)
  OBVIOUS
<1>4. /\ Sends(cut, P, b, f) /\ Kept(n, cut) /\ (~n.c.open => cut = n)
       /\ cut.took = IF n.c.open THEN Append(n.took, P[i]) ELSE n.took
  <2>1. i \in 1 .. Len(P)
    BY <1>2
  <2>2. LET y == CallMethodOnReceive(n, P[i], i, what, body)
        IN  Sends(y, P, b, f) /\ Handed(n, y, P[i])
    BY <2>1, HandlerSends
  <2> QED
    BY <1>3, <2>2 DEF Handed
<1>5. PICK arr \in Seq(Byte) : arr = n.c.buf
  BY <1>1
<1>6. PICK length \in 0 .. Len(arr) : length = P[i].len
  <2>1. P[i].len =< Len(arr)
    BY <1>5 DEF Comes
  <2>2. P[i].len \in 0 .. Len(arr)
    BY <1>2, <2>1
  <2> QED
    BY <2>2
<1>7. PICK buf : buf = Behind(arr, length)
  OBVIOUS
<1>8. buf \in Seq(Byte) /\ buf \o left = SubSeq(s, length + 1, Len(s))
  <2>1. s = arr \o left
    BY <1>5 DEF Comes
  <2>2. LET rest == SubSeq(arr, length + 1, Len(arr))
        IN  /\ rest \in Seq(Byte) /\ Len(rest) = Len(arr) - length
            /\ rest \o left = SubSeq(arr \o left, length + 1, Len(arr \o left))
    BY CutMoves
  <2> QED
    BY <1>7, <2>1, <2>2 DEF Behind
<1>9. Aligned(buf \o left, P) /\ First(buf \o left, P) = i + 1
  <2>1. Aligned(s, P) /\ s # << >> /\ i = s[1][1]
    BY DEF Comes
  <2>2. LET k == s[1][1]
            rest == SubSeq(s, P[k].len + 1, Len(s))
        IN  Aligned(rest, P) /\ First(rest, P) = k + 1
    BY <2>1, CutFirst
  <2> QED
    BY <1>6, <1>8, <2>1, <2>2
<1>10. cut \in Works
  BY <1>4 DEF Sends
<1>11. PICK x : x = Cutting(cut, buf, more)
  OBVIOUS
<1>12. x \in Works /\ Set(cut, x, cut.c.recvCount, buf) /\ x.bad = cut.bad
  BY <1>8, <1>10, <1>11, CutIs
<1>13. Sends(x, P, b, f)
  <2>1. Sends(cut, P, b, f)
    BY <1>4
  <2> QED
    BY <1>12, <2>1, SameSends DEF Set
<1>14. /\ x.took = cut.took /\ x.sent = cut.sent /\ x.c.open = cut.c.open /\ x.c.buf = buf
       /\ x.c.recvCount = n.c.recvCount /\ x.bad = n.bad
  <2>1. /\ x.took = cut.took /\ x.sent = cut.sent /\ x.c.open = cut.c.open /\ x.c.buf = buf
        /\ x.c.recvCount = cut.c.recvCount /\ x.bad = cut.bad
    BY <1>12 DEF Set
  <2>2. cut.c.recvCount = n.c.recvCount /\ cut.bad = n.bad
    BY <1>4 DEF Kept
  <2> QED
    BY <2>1, <2>2
<1>15. x.c.open => n.c.open
  BY <1>4, <1>14 DEF Kept
<1>16. (Fits(P) => x.c.recvCount = (i + 1) - 1) /\ (x.bad => bad \/ ~Fits(P))
  <2>1. (Fits(P) => n.c.recvCount = i) /\ (n.bad => bad \/ ~Fits(P))
    BY DEF Comes
  <2>2. (i + 1) - 1 = i
    BY <1>2
  <2> QED
    BY <1>14, <2>1, <2>2
<1>17. At(x, P, i + 1, bad) /\ IsPrefix(n.took, x.took)
  <2>1. CASE n.c.open
    <3>1. PICK p \in Packets : p = P[i]
      BY <1>2
    <3>2. PICK old \in Seq(Packets) : old = n.took
      BY <1>1
    <3>3. x.took = Append(old, p) /\ Len(old) = i - 1 /\ \A j \in 1 .. Len(old) : old[j] = P[j]
      BY <1>4, <1>14, <2>1, <3>1, <3>2 DEF Comes
    <3>4. /\ Len(x.took) = Len(old) + 1 /\ x.took[Len(old) + 1] = p
          /\ \A j \in 1 .. Len(old) : x.took[j] = old[j]
      BY <3>3, AppendProperties
    <3>5. Len(x.took) = i /\ \A j \in 1 .. i : j = i \/ j \in 1 .. Len(old)
      BY <1>2, <3>3, <3>4
    <3>6. \A j \in 1 .. Len(x.took) : x.took[j] = P[j]
      BY <1>2, <3>1, <3>3, <3>4, <3>5
    <3>7. IsPrefix(n.took, x.took)
      BY <3>2, <3>3, PrefixGrows
    <3> QED
      BY <1>2, <1>16, <3>5, <3>6, <3>7 DEF At
  <2>2. CASE ~n.c.open
    <3>1. x.took = n.took /\ ~x.c.open
      BY <1>4, <1>14, <1>15, <2>2
    <3>2. IsPrefix(n.took, x.took)
      BY <1>1, <3>1, PrefixSame
    <3>3. Len(n.took) < i /\ \A j \in 1 .. Len(n.took) : n.took[j] = P[j]
      BY DEF Comes
    <3>4. Len(n.took) < i + 1
      BY <1>1, <1>2, <3>3
    <3> QED
      BY <1>16, <3>1, <3>2, <3>3, <3>4 DEF At
  <2> QED
    BY <2>1, <2>2
<1>18. Onward(n, x)
  BY <1>4, <1>14, <1>17, <1>15 DEF Onward, Kept
<1>19. Reads(x, P, left, bad)
  BY <1>9, <1>14, <1>17 DEF Reads
<1> QED
  BY <1>3, <1>5, <1>6, <1>7, <1>11, <1>13, <1>18, <1>19 DEF Passed

(* One pass of TweakOneMethod.                                             *)
LEMMA TweakedReads ==
  ASSUME NEW P \in Seq(Packets), InOrder(P), NEW b \in Seq(Byte), NEW f, NEW left \in Seq(Byte),
         NEW bad \in BOOLEAN, NEW w, Sends(w, P, b, f), Reads(w, P, left, bad), NEW will, NEW body \in Bodies
  PROVE  Passed(w, Tweaked(w, P, will, body), P, b, f, left, bad)
<1>1. /\ w \in Works /\ w.c.buf \in Seq(Byte) /\ w.c.recvCount \in Nat
      /\ w.sent \in Seq(Packets) /\ w.took \in Seq(Packets) /\ Len(w.took) \in Nat
  BY DEF Sends, Works, Child
<1>2. IsPrefix(w.sent, w.sent) /\ IsPrefix(w.took, w.took)
  BY <1>1, PrefixSame
<1>3. PICK arr \in Seq(Byte) : arr = w.c.buf
  BY <1>1
<1>4. PICK s : s = arr \o left
  OBVIOUS
<1>5. Aligned(s, P) /\ At(w, P, First(s, P), bad)
  BY <1>3, <1>4 DEF Reads
<1>6. CASE Len(arr) < HeaderSize
  <2>1. PICK x : x = [w EXCEPT !.more = FALSE]
    OBVIOUS
  <2>2. x \in Works /\ x.c = w.c /\ x.sent = w.sent /\ x.pipe = w.pipe /\ x.ran = w.ran /\ x.took = w.took /\ x.bad = w.bad
    BY <1>1, <2>1 DEF Works
  <2>3. Sends(x, P, b, f)
    BY <2>2, SameSends
  <2>4. Reads(x, P, left, bad)
    BY <1>3, <1>4, <1>5, <2>2 DEF Reads, At
  <2>5. Onward(w, x)
    BY <1>2, <2>2 DEF Onward
  <2>6. Tweaked(w, P, will, body) = x
    BY <1>3, <1>6, <2>1 DEF Tweaked
  <2> QED
    BY <2>3, <2>4, <2>5, <2>6 DEF Passed
<1>7. CASE ~(Len(arr) < HeaderSize)
  <2>1. Len(arr) >= HeaderSize /\ Len(arr) \in Nat /\ ~(Len(arr) < Short)
    BY <1>7 DEF HeaderSize, Short
  <2>2. /\ arr[1][1] = s[1][1] /\ s # << >>
        /\ Read(arr, P, 0, 0) = P[s[1][1]].num /\ Read(arr, P, 4, 4) = P[s[1][1]].len
    BY <1>4, <1>5, <2>1, HeaderRead
  <2>3. PICK i \in 1 .. Len(P) : i = s[1][1]
    BY <1>5, <2>2, WholeFirst
  <2>4. P[i] \in Packets /\ P[i].len \in Nat /\ P[i].len > HeaderSize /\ i \in Nat /\ P[i].num = i - 1 /\ i >= 1
    BY PacketIs DEF InOrder
  <2>5. PICK num \in Nat : num = P[i].num
    BY <2>4
  <2>6. First(s, P) = i
    BY <2>2, <2>3 DEF First
  <2>7. PICK n : n = [Numbered(w, num) EXCEPT !.more = FALSE]
    OBVIOUS
  <2>8. /\ n \in Works /\ Set(w, n, (IF num > w.c.recvCount THEN num ELSE w.c.recvCount) + 1, w.c.buf)
        /\ n.bad <=> w.bad \/ num # w.c.recvCount
    <3>1. LET y == [Numbered(w, num) EXCEPT !.more = FALSE]
          IN  /\ y \in Works /\ Set(w, y, (IF num > w.c.recvCount THEN num ELSE w.c.recvCount) + 1, w.c.buf)
              /\ y.bad <=> w.bad \/ num # w.c.recvCount
      BY <1>1, CountIs
    <3> QED
      BY <2>7, <3>1
  <2>9. /\ n.sent = w.sent /\ n.took = w.took /\ n.c.buf = arr /\ n.c.open = w.c.open
        /\ n.c.recvCount \in Nat /\ n.c.recvCount > 0
        /\ Fits(P) => n.c.recvCount = i
        /\ n.bad => bad \/ ~Fits(P)
    <3>1. Fits(P) => w.c.recvCount = num
      BY <1>5, <2>4, <2>5, <2>6 DEF At
    <3>2. w.bad => bad \/ ~Fits(P)
      BY <1>5 DEF At
    <3>3. /\ n.sent = w.sent /\ n.took = w.took /\ n.c.buf = arr /\ n.c.open = w.c.open
          /\ n.c.recvCount = (IF num > w.c.recvCount THEN num ELSE w.c.recvCount) + 1
      BY <1>3, <2>8 DEF Set
    <3> QED
      BY <1>1, <2>4, <2>5, <2>8, <3>1, <3>2, <3>3
  <2>10. Sends(n, P, b, f)
    BY <2>8, SameSends DEF Set
  <2>11. Onward(w, n)
    BY <1>2, <2>9 DEF Onward
  <2>12. PICK what : what = IF i \in DOMAIN will THEN will[i] ELSE "silent"
    OBVIOUS
  <2>13. PICK cut : cut = CallMethodOnReceive(n, P[i], i, what, body)
    OBVIOUS
  <2>14. PICK length \in Nat : length = P[i].len
    BY <2>4
  <2>15. PICK rest : rest = [cut EXCEPT !.c.buf = SubSeq(arr, length + 1, Len(arr))]
    OBVIOUS
  <2>16. Tweaked(w, P, will, body) =
           IF length > MaxPacketSize THEN n
           ELSE IF Len(arr) = length THEN rest
           ELSE IF length # 0 /\ Len(arr) > length THEN [rest EXCEPT !.more = TRUE]
           ELSE Uncounted(n)
    <3>1. /\ Read(arr, P, 0, 0) = num /\ Read(arr, P, 4, 4) = length /\ arr[1][1] = i /\ Parsed(arr, P) = P[i]
          /\ Len(arr) \in Nat /\ ~(Len(arr) < Short \/ Len(arr) < HeaderSize)
      BY <1>7, <2>1, <2>2, <2>3, <2>5, <2>14 DEF Parsed
    <3> QED
      BY <1>3, <2>7, <2>12, <2>13, <2>15, <3>1 DEF Tweaked
  <2>17. CASE length > MaxPacketSize
    <3>1. ~Fits(P)
      BY <2>14, <2>17, SizesAssumption DEF Fits
    <3>2. At(n, P, i, bad)
      BY <1>5, <2>6, <2>9, <3>1 DEF At
    <3>3. Reads(n, P, left, bad)
      BY <1>4, <1>5, <2>6, <2>9, <3>2 DEF Reads
    <3> QED
      BY <2>10, <2>11, <2>16, <2>17, <3>3 DEF Passed
  <2>18. CASE ~(length > MaxPacketSize) /\ Len(arr) >= length
    <3>1. Comes(n, P, s, left, i, bad)
      <4>1. s = n.c.buf \o left /\ P[i].len =< Len(n.c.buf)
        BY <1>4, <2>9, <2>14, <2>18
      <4>2. /\ Len(n.took) < i /\ (\A j \in 1 .. Len(n.took) : n.took[j] = P[j])
            /\ (n.c.open => Len(n.took) = i - 1)
        BY <1>5, <2>6, <2>9 DEF At
      <4> QED
        BY <1>5, <2>2, <2>3, <2>9, <4>1, <4>2 DEF Comes
    <3>2. ASSUME NEW more \in BOOLEAN, NEW x, x = Cutting(cut, Behind(arr, length), more)
          PROVE  Sends(x, P, b, f) /\ Reads(x, P, left, bad) /\ Onward(n, x)
      <4>1. Passed(n, Cutting(CallMethodOnReceive(n, P[i], i, what, body), Behind(n.c.buf, P[i].len), more), P, b, f, left, bad)
        BY <2>10, <3>1, HandledReads
      <4>2. n.c.buf = arr
        BY <2>9
      <4> QED
        BY <2>13, <2>14, <3>2, <4>1, <4>2 DEF Passed
    <3>3. cut \in Works
      <4>1. LET y == CallMethodOnReceive(n, P[i], i, what, body)
            IN  Sends(y, P, b, f) /\ Handed(n, y, P[i])
        BY <2>10, HandlerSends
      <4> QED
        BY <2>13, <4>1 DEF Sends
    <3>4. PICK more \in BOOLEAN : Tweaked(w, P, will, body) = Cutting(cut, Behind(arr, length), more)
      <4>1. [rest EXCEPT !.more = TRUE] = Cutting(cut, Behind(arr, length), TRUE)
        BY <2>15 DEF Cutting, Behind
      <4>2. rest = Cutting(cut, Behind(arr, length), cut.more) /\ cut.more \in BOOLEAN
        BY <2>15, <3>3 DEF Cutting, Behind, Works
      <4>3. CASE Len(arr) = length
        <5>1. Tweaked(w, P, will, body) = rest
          BY <2>16, <2>18, <4>3
        <5> QED
          BY <4>2, <5>1
      <4>4. CASE Len(arr) > length
        <5>1. Tweaked(w, P, will, body) = [rest EXCEPT !.more = TRUE]
          BY <2>1, <2>4, <2>14, <2>16, <2>18, <4>4 DEF HeaderSize
        <5> QED
          BY <4>1, <5>1
      <4> QED
        BY <2>1, <2>18, <4>3, <4>4
    <3>5. PICK x : x = Tweaked(w, P, will, body)
      OBVIOUS
    <3>6. Sends(x, P, b, f) /\ Reads(x, P, left, bad) /\ Onward(n, x)
      BY <3>2, <3>4, <3>5
    <3>7. Onward(w, x)
      BY <2>9, <3>6 DEF Onward
    <3> QED
      BY <3>5, <3>6, <3>7 DEF Passed
  <2>19. CASE ~(length > MaxPacketSize) /\ ~(Len(arr) >= length)
    <3>1. Tweaked(w, P, will, body) = Uncounted(n)
      BY <2>1, <2>14, <2>16, <2>19
    <3>2. PICK x : x = Uncounted(n)
      OBVIOUS
    <3>3. x \in Works /\ Set(n, x, n.c.recvCount - 1, n.c.buf) /\ x.bad = n.bad
      <4>1. LET y == Uncounted(n)
            IN  y \in Works /\ Set(n, y, n.c.recvCount - 1, n.c.buf) /\ y.bad = n.bad
        BY <2>8, <2>9, UncountIs
      <4> QED
        BY <3>2, <4>1
    <3>4. Sends(x, P, b, f)
      BY <2>10, <3>3, SameSends DEF Set
    <3>5. /\ x.sent = w.sent /\ x.took = w.took /\ x.c.open = w.c.open /\ x.c.buf = arr
          /\ x.c.recvCount = n.c.recvCount - 1 /\ x.bad = n.bad
      BY <2>9, <3>3 DEF Set
    <3>6. At(x, P, i, bad)
      BY <1>5, <2>6, <2>9, <3>5 DEF At
    <3>7. Reads(x, P, left, bad)
      BY <1>4, <1>5, <2>6, <3>5, <3>6 DEF Reads
    <3>8. Onward(w, x)
      BY <1>2, <3>5 DEF Onward
    <3> QED
      BY <3>1, <3>2, <3>4, <3>7, <3>8 DEF Passed
  <2> QED
    BY <2>17, <2>18, <2>19
<1> QED
  BY <1>6, <1>7

LEMMA OnwardAgain ==
  ASSUME NEW w \in Works, NEW x \in Works, NEW y \in Works, Onward(w, x), Onward(x, y)
  PROVE  Onward(w, y)
<1>1. ASSUME NEW S \in Seq(Packets), NEW T \in Seq(Packets), NEW U \in Seq(Packets), IsPrefix(S, T), IsPrefix(T, U)
      PROVE  IsPrefix(S, U)
  <2>1. Len(S) \in Nat /\ Len(T) \in Nat /\ Len(U) \in Nat /\ Len(S) =< Len(T) /\ Len(T) =< Len(U)
    BY <1>1 DEF IsPrefix
  <2>2. \A i \in 1 .. Len(S) : S[i] = T[i]
    BY <1>1, PrefixAgrees
  <2>3. \A i \in 1 .. Len(T) : T[i] = U[i]
    BY <1>1, PrefixAgrees
  <2>4. \A i \in 1 .. Len(S) : S[i] = U[i]
    BY <2>1, <2>2, <2>3
  <2> QED
    BY <2>1, <2>4, PrefixIs
<1>2. /\ w.sent \in Seq(Packets) /\ x.sent \in Seq(Packets) /\ y.sent \in Seq(Packets)
      /\ w.took \in Seq(Packets) /\ x.took \in Seq(Packets) /\ y.took \in Seq(Packets)
  BY DEF Works
<1>3. IsPrefix(w.sent, y.sent) /\ IsPrefix(w.took, y.took)
  BY <1>1, <1>2 DEF Onward
<1> QED
  BY <1>3 DEF Onward

(* A piece that arrives.                                                   *)
LEMMA TurnReads ==
  ASSUME NEW P \in Seq(Packets), InOrder(P), NEW b \in Seq(Byte), NEW f, NEW left \in Seq(Byte),
         NEW bad \in BOOLEAN, NEW w, Sends(w, P, b, f), Reads(w, P, left, bad), NEW will, NEW body \in Bodies
  PROVE  Passed(w, TweakOneMethod(w, P, will, body), P, b, f, left, bad)
<1> DEFINE first == [w EXCEPT !.more = TRUE]
           Turn(x) == IF x.more THEN Tweaked(x, P, will, body) ELSE x
<1>1. PICK N \in Nat : N = Len(w.c.buf)
  BY DEF Sends, Works, Child
<1>2. PICK T : T = {x \in Works : Passed(w, x, P, b, f, left, bad)}
  OBVIOUS
<1> DEFINE Is(g) == g = [n \in 0 .. N |-> IF n = 0 THEN first ELSE Turn(g[n - 1])]
           h == CHOOSE g : Is(g)
<1>3. w \in Works /\ w.sent \in Seq(Packets) /\ w.took \in Seq(Packets)
  BY DEF Sends, Works
<1>4. first \in T
  <2>1. PICK x : x = first
    OBVIOUS
  <2>2. x \in Works /\ x.c = w.c /\ x.sent = w.sent /\ x.pipe = w.pipe /\ x.ran = w.ran /\ x.took = w.took /\ x.bad = w.bad
    BY <1>3, <2>1 DEF Works
  <2>3. Sends(x, P, b, f)
    BY <2>2, SameSends
  <2>4. Reads(x, P, left, bad)
    BY <2>2 DEF Reads, At
  <2>5. Onward(w, x)
    BY <1>3, <2>2, PrefixSame DEF Onward
  <2> QED
    BY <1>2, <2>1, <2>2, <2>3, <2>4, <2>5 DEF Passed
<1>5. ASSUME NEW x \in T PROVE Turn(x) \in T
  <2>1. CASE ~x.more
    BY <2>1
  <2>2. CASE x.more
    <3>1. x \in Works /\ Sends(x, P, b, f) /\ Reads(x, P, left, bad) /\ Onward(w, x)
      BY <1>2, <1>5 DEF Passed
    <3>2. PICK y : y = Tweaked(x, P, will, body)
      OBVIOUS
    <3>3. Passed(x, y, P, b, f, left, bad)
      BY <3>1, <3>2, TweakedReads
    <3>4. y \in Works /\ Sends(y, P, b, f) /\ Reads(y, P, left, bad) /\ Onward(x, y)
      BY <3>3 DEF Passed, Sends
    <3>5. Onward(w, y)
      BY <1>3, <3>1, <3>4, OnwardAgain
    <3>6. y \in T
      BY <1>2, <3>4, <3>5 DEF Passed
    <3> QED
      BY <2>2, <3>2, <3>6
  <2> QED
    BY <2>1, <2>2
<1>6. TweakOneMethod(w, P, will, body) = h[N]
  BY <1>1 DEF TweakOneMethod
<1> HIDE DEF Turn, first
<1>7. \E g : Is(g)
  <2>1. PICK G : G = [i \in 1 .. N |-> [x \in T |-> Turn(x)]]
    OBVIOUS
  <2>2. G \in [1 .. N -> [T -> T]]
    BY <1>5, <2>1
  <2>3. Taken(N, T, first, G)
    BY <1>4, <2>2, Turns
  <2>4. PICK g \in [0 .. N -> T] : g[0] = first /\ \A i \in 1 .. N : g[i] = G[i][g[i - 1]]
    BY <2>3 DEF Taken
  <2>5. ASSUME NEW i \in 0 .. N PROVE g[i] = IF i = 0 THEN first ELSE Turn(g[i - 1])
    <3>1. CASE i # 0
      <4>1. i \in 1 .. N /\ i - 1 \in 0 .. N
        BY <1>1, <3>1
      <4>2. g[i - 1] \in T /\ g[i] = G[i][g[i - 1]]
        BY <2>4, <4>1
      <4> QED
        BY <2>1, <3>1, <4>1, <4>2
    <3> QED
      BY <2>4, <3>1
  <2> QED
    BY <2>5
<1>8. Is(h)
  BY <1>7
<1> HIDE DEF h
<1>9. h[N] \in T
  <2> DEFINE Q == {i \in 0 .. N : h[i] \in T}
  <2>1. 0 \in Q
    BY <1>1, <1>4, <1>8
  <2>2. ASSUME NEW i \in 1 .. N, i - 1 \in Q PROVE i \in Q
    <3>1. h[i - 1] \in T
      BY <2>2
    <3>2. i \in 0 .. N /\ i # 0
      BY <1>1
    <3>3. h[i] = Turn(h[i - 1])
      BY <1>8, <3>2
    <3> QED
      BY <1>5, <3>1, <3>2, <3>3
  <2> HIDE DEF Q
  <2>3. \A i \in 0 .. N : i \in Q
    BY <1>1, <2>1, <2>2, OneByOne
  <2>4. N \in 0 .. N
    BY <1>1
  <2> QED
    BY <2>3, <2>4 DEF Q
<1> QED
  BY <1>2, <1>6, <1>9

-----------------------------------------------------------------------------
(* The inductive invariant: each end keeps to what it owes to its own      *)
(* packets and to those of the other end.  Parses(e) is the number of the  *)
(* packet of e that is parsed next.                                        *)
Parses(e) == First(child[Other(e)].buf \o pipe[e], sent[e])

StreamTypes ==
  /\ child \in [Ends -> Child] /\ pipe \in [Ends -> Seq(Byte)] /\ sent \in [Ends -> Seq(Packets)]
  /\ handled \in [Ends -> Seq(Packets)] /\ ran \in [Ends -> Seq(Ran)] /\ badNum \in BOOLEAN

SendsOf(e) == Sends(Work(e), sent[Other(e)], child[Other(e)].buf, Parses(e))
ReadsOf(e) == Reads(Work(e), sent[Other(e)], pipe[Other(e)], badNum)

StreamInv == StreamTypes /\ (\A e \in Ends : SendsOf(e) /\ ReadsOf(e)) /\ NoBadNum

LEMMA WorkIs ==
  ASSUME StreamTypes, NEW e \in Ends
  PROVE  /\ Work(e) \in Works /\ Work(e).c = child[e] /\ Work(e).sent = sent[e] /\ Work(e).pipe = pipe[e]
         /\ Work(e).took = handled[e] /\ Work(e).ran = ran[e] /\ Work(e).bad = badNum
BY DEF StreamTypes, Work, Works

(* What has been taken is a beginning of what was sent.                    *)
LEMMA TakenIsPrefix ==
  ASSUME NEW P \in Seq(Packets), NEW w \in Works, NEW left, NEW bad, Reads(w, P, left, bad)
  PROVE  IsPrefix(w.took, P) /\ Len(w.took) =< Len(P)
<1>1. PICK s : s = w.c.buf \o left
  OBVIOUS
<1>2. Aligned(s, P) /\ At(w, P, First(s, P), bad)
  BY <1>1 DEF Reads
<1>3. First(s, P) \in Nat /\ First(s, P) =< Len(P) + 1
  <2>1. CASE s = << >>
    BY <2>1 DEF First
  <2>2. CASE s # << >>
    <3>1. s[1][1] \in 1 .. Len(P)
      BY <1>2, <2>2, WholeFirst
    <3> QED
      BY <2>2, <3>1 DEF First
  <2> QED
    BY <2>1, <2>2
<1>4. w.took \in Seq(Packets) /\ Len(w.took) \in Nat /\ Len(P) \in Nat
  BY DEF Works
<1>5. Len(w.took) < First(s, P) /\ \A i \in 1 .. Len(w.took) : w.took[i] = P[i]
  BY <1>2 DEF At
<1>6. Len(w.took) =< Len(P)
  BY <1>3, <1>4, <1>5
<1> QED
  BY <1>4, <1>5, <1>6, PrefixIs

LEMMA FitsBefore ==
  ASSUME NEW S \in Seq(Packets), NEW T \in Seq(Packets), IsPrefix(S, T), Fits(T)
  PROVE  Fits(S)
<1>1. Len(S) =< Len(T) /\ Len(S) \in Nat /\ Len(T) \in Nat /\ \A i \in 1 .. Len(S) : S[i] = T[i]
  BY PrefixAgrees DEF IsPrefix
<1> QED
  BY <1>1 DEF Fits

(* The end e has finished a turn with x, and left has not arrived.         *)
LEMMA FinishKeeps ==
  ASSUME StreamInv, NEW e \in Ends, NEW w \in Works, NEW x, NEW left \in Seq(Byte), Finish(e, x, left),
         w.sent = sent[e], w.took = handled[e], w.c.open = child[e].open,
         Passed(w, x, sent[Other(e)], child[Other(e)].buf, Parses(e), left, badNum)
  PROVE  StreamInv' /\ [Channel!ChannelNext]_(Channel!chanVars)
<1>1. PICK o \in Ends : o = Other(e) /\ o # e /\ Other(o) = e /\ Ends = {e, o}
  BY OtherIs
<1>2. StreamTypes /\ SendsOf(o) /\ ReadsOf(o)
  BY DEF StreamInv
<1>3. /\ sent[e] \in Seq(Packets) /\ sent[o] \in Seq(Packets) /\ pipe[e] \in Seq(Byte)
      /\ handled[e] \in Seq(Packets) /\ child[e] \in Child /\ child[o] \in Child
  BY <1>2 DEF StreamTypes
<1>4. /\ Sends(x, sent[o], child[o].buf, Parses(e)) /\ Reads(x, sent[o], left, badNum)
      /\ IsPrefix(sent[e], x.sent) /\ IsPrefix(handled[e], x.took)
      /\ ~child[e].open => ~x.c.open /\ x.sent = sent[e] /\ x.took = handled[e]
  BY <1>1 DEF Passed, Onward
<1>5. /\ x \in Works /\ x.c \in Child /\ x.sent \in Seq(Packets) /\ x.pipe \in Seq(Byte) /\ x.took \in Seq(Packets)
      /\ x.ran \in Seq(Ran) /\ x.bad \in BOOLEAN
  BY <1>4 DEF Sends, Works
<1>6. /\ child' = [child EXCEPT ![e] = x.c] /\ pipe' = [pipe EXCEPT ![e] = x.pipe, ![o] = left]
      /\ sent' = [sent EXCEPT ![e] = x.sent] /\ handled' = [handled EXCEPT ![e] = x.took]
      /\ ran' = [ran EXCEPT ![e] = x.ran] /\ badNum' = x.bad
  BY <1>1 DEF Finish
<1>7. StreamTypes'
  BY <1>2, <1>5, <1>6 DEF StreamTypes
<1>8. /\ child'[e] = x.c /\ child'[o] = child[o] /\ pipe'[e] = x.pipe /\ pipe'[o] = left
      /\ sent'[e] = x.sent /\ sent'[o] = sent[o] /\ handled'[e] = x.took /\ handled'[o] = handled[o]
      /\ ran'[e] = x.ran /\ ran'[o] = ran[o] /\ badNum' = x.bad
  BY <1>1, <1>2, <1>6 DEF StreamTypes
<1>9. PICK f : f = Parses(e)
  OBVIOUS
<1>10. Aligned(child[o].buf \o x.pipe, x.sent) /\ First(child[o].buf \o x.pipe, x.sent) = f
  BY <1>4, <1>9 DEF Sends
<1>11. PICK y : y = Work(e)'
  OBVIOUS
<1>12. y = [c |-> x.c, sent |-> x.sent, pipe |-> x.pipe, took |-> x.took, ran |-> x.ran, bad |-> x.bad, more |-> FALSE]
  BY <1>8, <1>11 DEF Work
<1>13. y \in Works /\ y.c = x.c /\ y.sent = x.sent /\ y.pipe = x.pipe /\ y.took = x.took /\ y.ran = x.ran /\ y.bad = x.bad
  BY <1>5, <1>12 DEF Works
<1>14. Sends(y, sent[o], child[o].buf, f) /\ Reads(y, sent[o], left, x.bad)
  <2>1. Sends(x, sent[o], child[o].buf, f)
    BY <1>4, <1>9
  <2>2. Sends(y, sent[o], child[o].buf, f)
    BY <1>13, <2>1 DEF Sends
  <2>3. Reads(y, sent[o], left, x.bad)
    BY <1>4, <1>13 DEF Reads, At
  <2> QED
    BY <2>2, <2>3
<1>15. PICK z : z = Work(o)'
  OBVIOUS
<1>16. z = [c |-> child[o], sent |-> sent[o], pipe |-> left, took |-> handled[o], ran |-> ran[o], bad |-> x.bad, more |-> FALSE]
  BY <1>8, <1>15 DEF Work
<1>17. /\ z \in Works /\ z.c = child[o] /\ z.sent = sent[o] /\ z.pipe = left /\ z.took = handled[o] /\ z.ran = ran[o] /\ z.bad = x.bad
  BY <1>2, <1>5, <1>16 DEF Works, StreamTypes
<1>18. PICK v : v = Work(o)
  OBVIOUS
<1>19. /\ v \in Works /\ v.c = child[o] /\ v.sent = sent[o] /\ v.pipe = pipe[o] /\ v.took = handled[o] /\ v.ran = ran[o]
  BY <1>2, <1>18, WorkIs
<1>20. Sends(z, x.sent, x.c.buf, First(x.c.buf \o left, sent[o]))
  <2>1. /\ Numbers(child[o], sent[o]) /\ Contexts(child[o], sent[o]) /\ Callbacks(ran[o], child[o], sent[o])
    BY <1>2, <1>18, <1>19 DEF SendsOf, Sends
  <2>2. Answers(sent[o], x.sent) /\ Answers(x.sent, sent[o])
    BY <1>4 DEF Sends
  <2>3. Aligned(x.c.buf \o left, sent[o])
    BY <1>4 DEF Reads
  <2> QED
    BY <1>17, <2>1, <2>2, <2>3 DEF Sends
<1>21. Reads(z, x.sent, x.pipe, x.bad)
  <2>1. At(v, sent[e], f, badNum)
    BY <1>1, <1>2, <1>9, <1>18, <1>19 DEF ReadsOf, Reads, Parses
  <2>2. Len(handled[o]) =< Len(sent[e])
    <3>1. Reads(v, sent[e], pipe[e], badNum)
      BY <1>1, <1>2, <1>18 DEF ReadsOf
    <3>2. PICK S \in Seq(Packets) : S = sent[e]
      BY <1>3
    <3>3. PICK left0, bad0 : Reads(v, S, left0, bad0)
      BY <3>1, <3>2
    <3>4. Len(v.took) =< Len(S)
      BY <1>19, <3>3, TakenIsPrefix
    <3> QED
      BY <1>19, <3>2, <3>4
  <2>3. /\ Fits(x.sent) => Fits(sent[e])
        /\ \A i \in 1 .. Len(sent[e]) : sent[e][i] = x.sent[i]
    <3>1. PICK S \in Seq(Packets), T \in Seq(Packets) : S = sent[e] /\ T = x.sent
      BY <1>3, <1>5
    <3>2. IsPrefix(S, T)
      BY <1>4, <3>1
    <3> QED
      BY <3>1, <3>2, FitsBefore, PrefixAgrees
  <2>4. \A i \in 1 .. Len(handled[o]) : handled[o][i] = x.sent[i]
    <3>1. \A i \in 1 .. Len(handled[o]) : i \in 1 .. Len(sent[e]) /\ handled[o][i] = sent[e][i]
      <4>1. Len(handled[o]) \in Nat /\ Len(sent[e]) \in Nat
        BY <1>2, <1>3 DEF StreamTypes
      <4>2. \A i \in 1 .. Len(handled[o]) : handled[o][i] = sent[e][i]
        BY <1>19, <2>1 DEF At
      <4> QED
        BY <2>2, <4>1, <4>2
    <3> QED
      BY <2>3, <3>1
  <2>5. At(z, x.sent, f, x.bad)
    BY <1>17, <1>19, <2>1, <2>3, <2>4 DEF At
  <2> QED
    BY <1>10, <1>17, <2>5 DEF Reads
<1>22. SendsOf(e)' /\ ReadsOf(e)' /\ SendsOf(o)' /\ ReadsOf(o)'
  <2>1. Parses(e)' = f /\ Parses(o)' = First(x.c.buf \o left, sent[o])
    BY <1>1, <1>8, <1>10 DEF Parses
  <2>2. SendsOf(e)' /\ ReadsOf(e)'
    BY <1>1, <1>8, <1>11, <1>14, <2>1 DEF SendsOf, ReadsOf
  <2>3. SendsOf(o)' /\ ReadsOf(o)'
    BY <1>1, <1>8, <1>15, <1>20, <1>21, <2>1 DEF SendsOf, ReadsOf
  <2> QED
    BY <2>2, <2>3
<1>23. NoBadNum'
  <2> SUFFICES ASSUME badNum', AllFit' PROVE FALSE
    BY DEF NoBadNum
  <2>1. Fits(x.sent) /\ Fits(sent[o])
    BY <1>1, <1>8 DEF AllFit, Fits
  <2>2. badNum
    <3>1. x.bad
      BY <1>8
    <3> QED
      BY <1>4, <2>1, <3>1 DEF Reads, At
  <2>3. Fits(sent[e])
    <3>1. PICK S \in Seq(Packets), T \in Seq(Packets) : S = sent[e] /\ T = x.sent
      BY <1>3, <1>5
    <3> QED
      BY <1>4, <2>1, <3>1, FitsBefore
  <2>4. AllFit
    BY <1>1, <2>1, <2>3 DEF AllFit, Fits
  <2> QED
    BY <2>2, <2>4 DEF StreamInv, NoBadNum
<1>24. StreamInv'
  BY <1>1, <1>7, <1>22, <1>23 DEF StreamInv
<1>25. [Channel!ChannelNext]_(Channel!chanVars)
  <2>1. CASE child[e].open
    <3>1. IsPrefix(x.took, sent[o])
      <4>1. PICK S \in Seq(Packets) : S = sent[o]
        BY <1>3
      <4>2. PICK bad0 : Reads(x, S, left, bad0)
        BY <1>4, <4>1
      <4> QED
        BY <1>5, <4>1, <4>2, TakenIsPrefix
    <3>2. Channel!Others(e) = {o}
      BY <1>1 DEF Channel!Others
    <3>3. \A S, T : IsPrefix(S, T) => Channel!IsPrefix(S, T)
      BY DEF IsPrefix, Channel!IsPrefix
    <3>4. /\ Channel!IsPrefix(handled[e], handled'[e]) /\ Channel!IsPrefix(handled'[e], sent[o])
          /\ Channel!IsPrefix(sent[e], sent'[e])
      BY <1>4, <1>8, <3>1, <3>3
    <3>5. x.c.open \in BOOLEAN
      BY <1>5 DEF Child
    <3>6. Channel!Turn(e)
      BY <1>8, <2>1, <3>2, <3>4, <3>5 DEF Channel!Turn
    <3> QED
      BY <3>6 DEF Channel!ChannelNext
  <2>2. CASE ~child[e].open
    <3>1. sent' = sent /\ handled' = handled
      BY <1>2, <1>4, <1>6, <2>2 DEF StreamTypes
    <3>2. [d \in Ends |-> child'[d].open] = [d \in Ends |-> child[d].open]
      <4>1. child'[e].open = child[e].open
        BY <1>3, <1>4, <1>5, <1>8, <2>2 DEF Child
      <4> QED
        BY <1>1, <1>8, <4>1
    <3> QED
      BY <3>1, <3>2 DEF Channel!chanVars
  <2> QED
    BY <2>1, <2>2
<1> QED
  BY <1>24, <1>25

(* What an end has before it on its turn.                                  *)
Standing(e, w, P, b, f, left) ==
  /\ w \in Works /\ P \in Seq(Packets) /\ b \in Seq(Byte) /\ left \in Seq(Byte)
  /\ w = Work(e) /\ P = sent[Other(e)] /\ b = child[Other(e)].buf /\ f = Parses(e) /\ left = pipe[Other(e)]
  /\ w.c = child[e] /\ w.sent = sent[e] /\ w.pipe = pipe[e] /\ w.took = handled[e] /\ w.ran = ran[e] /\ w.bad = badNum
  /\ Sends(w, P, b, f) /\ Reads(w, P, left, badNum) /\ InOrder(P)

LEMMA Stands ==
  ASSUME StreamInv, NEW e \in Ends
  PROVE  \E w, P, b, f, left : Standing(e, w, P, b, f, left)
<1>1. PICK o \in Ends : o = Other(e)
  BY OtherIs
<1>2. StreamTypes /\ SendsOf(e) /\ ReadsOf(e) /\ SendsOf(o)
  BY DEF StreamInv
<1>3. PICK w, P, b, f, left : w = Work(e) /\ P = sent[o] /\ b = child[o].buf /\ f = Parses(e) /\ left = pipe[o]
  OBVIOUS
<1>4. P \in Seq(Packets) /\ b \in Seq(Byte) /\ left \in Seq(Byte)
  BY <1>2, <1>3 DEF StreamTypes, Child
<1>5. /\ w \in Works /\ w.c = child[e] /\ w.sent = sent[e] /\ w.pipe = pipe[e] /\ w.took = handled[e]
      /\ w.ran = ran[e] /\ w.bad = badNum
  BY <1>2, <1>3, WorkIs
<1>6. Sends(w, P, b, f) /\ Reads(w, P, left, badNum)
  BY <1>1, <1>2, <1>3 DEF SendsOf, ReadsOf
<1>7. InOrder(P)
  <2>1. Work(o).sent = P
    BY <1>2, <1>3, WorkIs
  <2>2. Numbers(Work(o).c, P)
    BY <1>2, <2>1 DEF SendsOf, Sends
  <2> QED
    BY <2>2 DEF Numbers, InOrder
<1>8. Standing(e, w, P, b, f, left)
  BY <1>1, <1>3, <1>4, <1>5, <1>6, <1>7 DEF Standing
<1> QED
  BY <1>8

Channelled == StreamInv' /\ [Channel!ChannelNext]_(Channel!chanVars)

LEMMA TurnKeeps ==
  ASSUME StreamInv, NEW e \in Ends, NEW w, NEW P, NEW b, NEW f, NEW left, Standing(e, w, P, b, f, left),
         NEW v \in Works, v.sent = w.sent, v.took = w.took, v.c.open = w.c.open,
         NEW x, NEW rest \in Seq(Byte), Finish(e, x, rest), Passed(v, x, P, b, f, rest, badNum)
  PROVE  Channelled
<1>1. v.sent = sent[e] /\ v.took = handled[e] /\ v.c.open = child[e].open
  BY DEF Standing
<1>2. Passed(v, x, sent[Other(e)], child[Other(e)].buf, Parses(e), rest, badNum)
  BY DEF Standing
<1> QED
  BY <1>1, <1>2, FinishKeeps DEF Channelled

LEMMA SendKeeps ==
  ASSUME StreamInv, NEW e \in Ends, Send(e)
  PROVE  Channelled
<1>1. PICK w, P, b, f, left : Standing(e, w, P, b, f, left)
  BY Stands
<1>2. /\ w \in Works /\ P \in Seq(Packets) /\ b \in Seq(Byte) /\ left \in Seq(Byte) /\ left = pipe[Other(e)]
      /\ w = Work(e) /\ w.c = child[e] /\ w.took \in Seq(Packets)
      /\ Sends(w, P, b, f) /\ Reads(w, P, left, badNum)
  BY <1>1 DEF Standing, Works
<1>3. PICK method \in Methods, wants \in BOOLEAN, body \in Bodies :
             Finish(e, Call(Work(e), method, wants, body), pipe[Other(e)])
  BY DEF Send
<1>4. PICK x : x = Call(w, method, wants, body)
  OBVIOUS
<1>5. /\ Sends(x, P, b, f) /\ IsPrefix(w.sent, x.sent)
      /\ x.c.open = w.c.open /\ x.c.buf = w.c.buf /\ x.c.recvCount = w.c.recvCount
      /\ x.took = w.took /\ x.bad = w.bad
  <2>1. LET y == Call(w, method, wants, body)
        IN  /\ Sends(y, P, b, f) /\ IsPrefix(w.sent, y.sent)
            /\ y.c.open = w.c.open /\ y.c.buf = w.c.buf /\ y.c.recvCount = w.c.recvCount
            /\ y.took = w.took /\ y.bad = w.bad
    BY <1>2, CallSends
  <2> QED
    BY <1>4, <2>1
<1>6. Reads(x, P, left, badNum)
  BY <1>2, <1>5 DEF Reads, At
<1>7. w.c.open
  BY <1>2 DEF Send
<1>8. IsPrefix(w.took, x.took)
  BY <1>2, <1>5, PrefixSame
<1>9. Passed(w, x, P, b, f, left, badNum)
  BY <1>5, <1>6, <1>7, <1>8 DEF Passed, Onward
<1>10. Finish(e, x, left)
  BY <1>2, <1>3, <1>4
<1> QED
  BY <1>1, <1>2, <1>9, <1>10, TurnKeeps

LEMMA CloseKeeps ==
  ASSUME StreamInv, NEW e \in Ends, Close(e)
  PROVE  Channelled
<1>1. PICK w, P, b, f, left : Standing(e, w, P, b, f, left)
  BY Stands
<1>2. /\ w \in Works /\ P \in Seq(Packets) /\ b \in Seq(Byte) /\ left \in Seq(Byte) /\ left = pipe[Other(e)]
      /\ w = Work(e) /\ w.c = child[e] /\ w.took \in Seq(Packets)
      /\ Sends(w, P, b, f) /\ Reads(w, P, left, badNum)
  BY <1>1 DEF Standing, Works
<1>3. PICK x : x = Closed(w)
  OBVIOUS
<1>4. Sends(x, P, b, f) /\ Kept(w, x) /\ x.took = w.took /\ ~x.c.open
  <2>1. LET y == Closed(w)
        IN  Sends(y, P, b, f) /\ Kept(w, y) /\ y.took = w.took /\ ~y.c.open
    <3>1. P \in Seq(Packets) /\ b \in Seq(Byte) /\ Sends(w, P, b, f)
      BY <1>2
    <3> QED
      BY <3>1, CloseSends
  <2> QED
    BY <1>3, <2>1
<1>5. Reads(x, P, left, badNum)
  BY <1>2, <1>4 DEF Reads, At, Kept
<1>6. w.c.open
  BY <1>2 DEF Close
<1>7. IsPrefix(w.took, x.took)
  BY <1>2, <1>4, PrefixSame
<1>8. Passed(w, x, P, b, f, left, badNum)
  BY <1>4, <1>5, <1>6, <1>7 DEF Passed, Onward, Kept
<1>9. Finish(e, x, left)
  BY <1>2, <1>3 DEF Close
<1> QED
  BY <1>1, <1>2, <1>8, <1>9, TurnKeeps

LEMMA ReceiveKeeps ==
  ASSUME StreamInv, NEW e \in Ends, Receive(e)
  PROVE  Channelled
<1>1. PICK w, P, b, f, left : Standing(e, w, P, b, f, left)
  BY Stands
<1>2. /\ w \in Works /\ P \in Seq(Packets) /\ b \in Seq(Byte) /\ left \in Seq(Byte) /\ left = pipe[Other(e)]
      /\ P = sent[Other(e)] /\ InOrder(P)
      /\ w = Work(e) /\ w.c = child[e] /\ w.c \in Child /\ w.c.buf \in Seq(Byte) /\ w.bad = badNum /\ w.bad \in BOOLEAN
      /\ Sends(w, P, b, f) /\ Reads(w, P, left, badNum)
  BY <1>1 DEF Standing, Works, Child
<1>3. PICK k \in 1 .. Len(left), body \in Bodies :
        \E will : Finish(e, TweakOneMethod([Work(e) EXCEPT !.c.buf = child[e].buf \o SubSeq(left, 1, k)], P, will, body),
                        SubSeq(left, k + 1, Len(left)))
  BY <1>2 DEF Receive
<1>4. PICK will :
        Finish(e, TweakOneMethod([Work(e) EXCEPT !.c.buf = child[e].buf \o SubSeq(left, 1, k)], P, will, body),
               SubSeq(left, k + 1, Len(left)))
  BY <1>3
<1>5. PICK arr, rest : arr = w.c.buf \o SubSeq(left, 1, k) /\ rest = SubSeq(left, k + 1, Len(left))
  OBVIOUS
<1>6. arr \in Seq(Byte) /\ rest \in Seq(Byte) /\ arr \o rest = w.c.buf \o left
  <2>1. PICK buf \in Seq(Byte) : buf = w.c.buf
    BY <1>2
  <2> QED
    BY <1>2, <1>5, <2>1, PieceMoves
<1>7. PICK v : v = [w EXCEPT !.c.buf = arr]
  OBVIOUS
<1>8. v \in Works /\ Set(w, v, w.c.recvCount, arr) /\ v.bad = w.bad
  <2>1. w.more \in BOOLEAN /\ Cutting(w, arr, w.more) = v
    BY <1>2, <1>7 DEF Cutting, Works
  <2>2. LET y == Cutting(w, arr, w.more)
        IN  y \in Works /\ Set(w, y, w.c.recvCount, arr) /\ y.bad = w.bad
    BY <1>2, <1>6, <2>1, CutIs
  <2> QED
    BY <2>1, <2>2
<1>9. Sends(v, P, b, f)
  BY <1>2, <1>8, SameSends DEF Set
<1>10. Reads(v, P, rest, badNum)
  BY <1>2, <1>6, <1>8 DEF Reads, At, Set
<1>11. PICK x : x = TweakOneMethod(v, P, will, body)
  OBVIOUS
<1>12. Passed(v, x, P, b, f, rest, badNum)
  <2>1. PICK bad \in BOOLEAN : bad = badNum
    BY <1>2
  <2>2. Reads(v, P, rest, bad)
    BY <1>10, <2>1
  <2>3. Passed(v, TweakOneMethod(v, P, will, body), P, b, f, rest, bad)
    BY <1>2, <1>6, <1>9, <2>2, TurnReads
  <2> QED
    BY <1>11, <2>1, <2>3
<1>13. Finish(e, x, rest)
  BY <1>2, <1>4, <1>5, <1>7, <1>11
<1>14. v.sent = w.sent /\ v.took = w.took /\ v.c.open = w.c.open
  BY <1>8 DEF Set
<1> QED
  BY <1>1, <1>6, <1>8, <1>12, <1>13, <1>14, TurnKeeps

(* Calls that are forgotten or grow older.                                 *)
LEMMA DoNodeKeeps ==
  ASSUME StreamInv, NEW e \in Ends, DoNode(e)
  PROVE  Channelled
<1>1. PICK w, P, b, f, left : Standing(e, w, P, b, f, left)
  BY Stands
<1>2. /\ w \in Works /\ P \in Seq(Packets) /\ b \in Seq(Byte) /\ left \in Seq(Byte) /\ left = pipe[Other(e)]
      /\ w.c = child[e] /\ w.c \in Child /\ w.sent \in Seq(Packets) /\ w.took \in Seq(Packets)
      /\ w.sent = sent[e] /\ w.pipe = pipe[e] /\ w.took = handled[e] /\ w.ran = ran[e] /\ w.bad = badNum
      /\ Sends(w, P, b, f) /\ Reads(w, P, left, badNum)
      /\ w.c.calls \in UNION {[D -> CallRec] : D \in SUBSET Nat}
  BY <1>1 DEF Standing, Works, Child
<1>3. PICK D \in SUBSET Nat : w.c.calls \in [D -> CallRec]
  BY <1>2
<1>4. PICK old : old = w.c.calls /\ old \in [D -> CallRec]
  BY <1>3
<1>5. PICK young : young = {id \in D : old[id].age <= AliveTicks}
  OBVIOUS
<1>6. PICK aged : aged = [id \in young |-> [old[id] EXCEPT !.age = @ + 1]]
  OBVIOUS
<1>7. /\ young \in SUBSET Nat /\ young \subseteq D /\ DOMAIN old = D /\ aged \in [young -> CallRec] /\ DOMAIN aged = young
      /\ \A id \in young : aged[id].packet = old[id].packet
  <2>1. ASSUME NEW id \in young
        PROVE  [old[id] EXCEPT !.age = @ + 1] \in CallRec /\ [old[id] EXCEPT !.age = @ + 1].packet = old[id].packet
    <3>1. old[id] \in CallRec
      BY <1>4, <1>5
    <3> QED
      BY <3>1 DEF CallRec
  <2> QED
    BY <1>4, <1>5, <1>6, <2>1
<1>8. PICK c : c = [w.c EXCEPT !.calls = aged]
  OBVIOUS
<1>9. /\ c \in Child /\ c.open = w.c.open /\ c.buf = w.c.buf /\ c.recvCount = w.c.recvCount
      /\ c.sendCount = w.c.sendCount /\ c.ids = w.c.ids /\ c.calls = aged
  <2>1. aged \in UNION {[E -> CallRec] : E \in SUBSET Nat}
    BY <1>7
  <2> QED
    BY <1>2, <1>8, <2>1 DEF Child
<1>10. PICK x : x = [w EXCEPT !.c = c]
  OBVIOUS
<1>11. /\ x \in Works /\ x.c = c /\ x.sent = w.sent /\ x.pipe = w.pipe /\ x.took = w.took /\ x.ran = w.ran
       /\ x.bad = w.bad
  BY <1>2, <1>9, <1>10 DEF Works
<1>12. Contexts(c, w.sent)
  <2>1. ASSUME NEW id \in young PROVE id \in 1 .. c.ids /\ Asks(w.sent, aged[id].packet, id)
    BY <1>2, <1>4, <1>7, <1>9 DEF Sends, Contexts
  <2> QED
    BY <1>2, <1>7, <1>9, <2>1 DEF Sends, Contexts
<1>13. Callbacks(w.ran, c, w.sent)
  BY <1>2, <1>4, <1>7, <1>9 DEF Sends, Callbacks
<1>14. Sends(x, P, b, f)
  BY <1>2, <1>9, <1>11, <1>12, <1>13 DEF Sends, Numbers
<1>15. Reads(x, P, left, badNum)
  BY <1>2, <1>9, <1>11 DEF Reads, At
<1>16. Onward(w, x)
  BY <1>2, <1>9, <1>11, PrefixSame DEF Onward
<1>17. Finish(e, x, left)
  <2>1. child' = [child EXCEPT ![e].calls = aged]
    BY <1>2, <1>4, <1>5, <1>6, <1>7 DEF DoNode
  <2>2. StreamTypes /\ Other(e) \in Ends /\ Other(e) # e
    BY OtherIs DEF StreamInv
  <2>3. child' = [child EXCEPT ![e] = x.c]
    BY <1>2, <1>8, <1>11, <2>1, <2>2 DEF StreamTypes
  <2>4. pipe' = [pipe EXCEPT ![e] = x.pipe, ![Other(e)] = left]
    BY <1>2, <1>11, <2>2 DEF DoNode, StreamTypes
  <2>5. sent' = [sent EXCEPT ![e] = x.sent] /\ handled' = [handled EXCEPT ![e] = x.took] /\ ran' = [ran EXCEPT ![e] = x.ran] /\ badNum' = x.bad
    BY <1>2, <1>11, <2>2 DEF DoNode, StreamTypes
  <2> QED
    BY <2>3, <2>4, <2>5 DEF Finish
<1>18. Passed(w, x, P, b, f, left, badNum)
  BY <1>14, <1>15, <1>16 DEF Passed
<1> QED
  BY <1>1, <1>2, <1>17, <1>18, TurnKeeps

LEMMA InitStands ==
  ASSUME Init
  PROVE  StreamInv
<1>1. NewChild \in Child
  <2>1. << >> \in [{} -> CallRec]
    OBVIOUS
  <2>2. << >> \in UNION {[D -> CallRec] : D \in SUBSET Nat} /\ << >> \in Seq(Byte)
    BY <2>1
  <2> QED
    BY <2>2 DEF NewChild, Child
<1>2. StreamTypes
  <2>1. << >> \in Seq(Byte) /\ << >> \in Seq(Packets) /\ << >> \in Seq(Ran)
    OBVIOUS
  <2>2. child \in [Ends -> Child]
    BY <1>1 DEF Init
  <2>3. pipe \in [Ends -> Seq(Byte)] /\ sent \in [Ends -> Seq(Packets)]
    BY <2>1 DEF Init
  <2>4. handled \in [Ends -> Seq(Packets)] /\ ran \in [Ends -> Seq(Ran)] /\ badNum \in BOOLEAN
    BY <2>1 DEF Init
  <2> QED
    BY <2>2, <2>3, <2>4 DEF StreamTypes
<1>3. Aligned(<< >>, << >>) /\ First(<< >>, << >>) = 1
  BY DEF Aligned, First
<1>4. << >> \o << >> = << >>
  OBVIOUS
<1>5. ASSUME NEW e \in Ends PROVE SendsOf(e) /\ ReadsOf(e)
  <2>1. PICK o \in Ends : o = Other(e)
    BY OtherIs
  <2>2. /\ child[e] = NewChild /\ child[o] = NewChild /\ pipe[e] = << >> /\ pipe[o] = << >> /\ sent[e] = << >> /\ sent[o] = << >>
        /\ handled[e] = << >> /\ ran[e] = << >>
    BY DEF Init
  <2>3. PICK w \in Works : w = Work(e)
    BY <1>2, WorkIs
  <2>4. w.c = NewChild /\ w.sent = << >> /\ w.pipe = << >> /\ w.took = << >> /\ w.ran = << >> /\ w.bad = FALSE
    BY <1>2, <2>2, <2>3, WorkIs DEF Init
  <2>5. Parses(e) = 1
    BY <1>3, <1>4, <2>1, <2>2 DEF Parses, NewChild
  <2>6. Numbers(NewChild, << >>) /\ Contexts(NewChild, << >>) /\ Callbacks(<< >>, NewChild, << >>) /\ Answers(<< >>, << >>)
    BY DEF Numbers, Contexts, Callbacks, Answers, NewChild
  <2>7. Sends(w, << >>, << >>, 1)
    BY <1>3, <1>4, <2>4, <2>6 DEF Sends
  <2>8. Reads(w, << >>, << >>, FALSE)
    BY <1>3, <1>4, <2>4 DEF Reads, At, NewChild
  <2>9. badNum = FALSE
    BY DEF Init
  <2>10. child[o].buf = << >>
    BY <2>2 DEF NewChild
  <2>11. SendsOf(e)
    BY <2>1, <2>2, <2>3, <2>5, <2>7, <2>10 DEF SendsOf
  <2>12. ReadsOf(e)
    BY <2>1, <2>2, <2>3, <2>8, <2>9 DEF ReadsOf
  <2> QED
    BY <2>11, <2>12
<1>6. NoBadNum
  BY DEF Init, NoBadNum
<1> QED
  BY <1>2, <1>5, <1>6 DEF StreamInv

LEMMA NextKeeps ==
  ASSUME StreamInv, [Next]_vars
  PROVE  Channelled
<1>1. CASE Next
  <2>1. PICK e \in Ends : Send(e) \/ Receive(e) \/ Close(e) \/ DoNode(e)
    BY <1>1 DEF Next
  <2> QED
    BY <2>1, SendKeeps, ReceiveKeeps, CloseKeeps, DoNodeKeeps
<1>2. CASE UNCHANGED vars
  <2>1. child' = child /\ pipe' = pipe /\ sent' = sent /\ handled' = handled /\ ran' = ran /\ badNum' = badNum
    BY <1>2 DEF vars
  <2>2. StreamTypes'
    BY <2>1 DEF StreamInv, StreamTypes
  <2>3. NoBadNum'
    BY <2>1 DEF StreamInv, NoBadNum, AllFit
  <2>4. \A e \in Ends : SendsOf(e)' /\ ReadsOf(e)'
    BY <2>1 DEF StreamInv, SendsOf, ReadsOf, Work, Parses
  <2>5. UNCHANGED Channel!chanVars
    BY <2>1 DEF Channel!chanVars
  <2> QED
    BY <2>2, <2>3, <2>4, <2>5 DEF Channelled, StreamInv
<1> QED
  BY <1>1, <1>2

LEMMA StreamSafe == Spec => []StreamInv
<1>1. Init => StreamInv
  BY InitStands
<1>2. StreamInv /\ [Next]_vars => StreamInv'
  BY NextKeeps DEF Channelled
<1> QED
  BY <1>1, <1>2, PTL DEF Spec

(* Every variable keeps its type, and each call that is waited for is the  *)
(* one that carries its context (TypeOK of PacketStream).                  *)
THEOREM StreamTypeOK == Spec => []TypeOK
<1>1. StreamInv => TypeOK
  <2> SUFFICES ASSUME StreamInv PROVE TypeOK
    OBVIOUS
  <2>1. ASSUME NEW e \in Ends
        PROVE  /\ child[e].open \in BOOLEAN
               /\ child[e].sendCount = Len(sent[e])
               /\ child[e].recvCount \in Nat
               /\ DOMAIN child[e].calls \subseteq 1..child[e].ids
               /\ \A id \in DOMAIN child[e].calls : sent[e][child[e].calls[id].packet].ctx = id
               /\ \A i \in 1..Len(sent[e]) : sent[e][i] \in Packets
    <3>1. StreamTypes /\ SendsOf(e)
      BY DEF StreamInv
    <3>2. child[e] \in Child /\ sent[e] \in Seq(Packets)
      BY <3>1 DEF StreamTypes
    <3>3. Numbers(child[e], sent[e]) /\ Contexts(child[e], sent[e])
      BY <3>1, WorkIs DEF SendsOf, Sends
    <3> QED
      BY <3>2, <3>3 DEF Child, Numbers, Contexts, Asks
  <2>2. badNum \in BOOLEAN
    BY DEF StreamInv, StreamTypes
  <2> QED
    BY <2>1, <2>2 DEF TypeOK
<1> QED
  BY <1>1, StreamSafe, PTL

(* The counters of the two ends agree however the stream is cut: "Bad      *)
(* packet num" is reported only behind a packet above the limit            *)
(* (TweakOneMethod).                                                       *)
THEOREM CountersAgree == Spec => []NoBadNum
<1>1. StreamInv => NoBadNum
  BY DEF StreamInv
<1> QED
  BY <1>1, StreamSafe, PTL

(* A callback runs at most once and with the answer to its own call, also  *)
(* when contexts have been forgotten (CallMethodOnReceive, DoNode).        *)
THEOREM CallbacksGetTheirAnswer == Spec => []OwnAnswer
<1>1. StreamInv => OwnAnswer
  <2> SUFFICES ASSUME StreamInv, NEW e \in Ends PROVE Callbacks(ran[e], child[e], sent[e])
    BY DEF OwnAnswer, Callbacks
  <2>1. StreamTypes /\ SendsOf(e)
    BY DEF StreamInv
  <2> QED
    BY <2>1, WorkIs DEF SendsOf, Sends
<1> QED
  BY <1>1, StreamSafe, PTL

(* The stream of bytes is the channel of packets it must be: each end is   *)
(* handed whole packets, once each, in order, and none after it has closed *)
(* (PrepareOnReceive, TweakOneMethod, CallMethodOnReceive).                *)
THEOREM StreamIsChannel == Spec => IsChannel
<1>1. Init => Channel!ChannelInit
  BY DEF Init, NewChild, Channel!ChannelInit
<1>2. StreamInv /\ [Next]_vars => [Channel!ChannelNext]_(Channel!chanVars)
  BY NextKeeps DEF Channelled
<1> QED
  BY <1>1, <1>2, StreamSafe, PTL DEF Spec, IsChannel, Channel!ChannelSpec
=============================================================================
