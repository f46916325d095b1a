--------------------------- MODULE DoubleConnect ---------------------------
(***************************************************************************)
(* Two nodes that connect to each other at the same time: the handshake    *)
(* that refuses a neighbour which is there already, and the tick that      *)
(* closes one of two connections to it, the same one at both ends.         *)
(*                                                                         *)
(* The connections are those that are not hot (HotConnect models those)    *)
(* and not yet as old as MAX_CONNECT_TIMEOUT.                              *)
(***************************************************************************)
EXTENDS Integers, Sequences, FiniteSets

CONSTANTS
  Lesser, Greater,  \* two nodes, by the order of their IDArr
  Conn,             \* connections, in the order they are made
  MaxBreaks         \* bound: connections that break

Node == {Lesser, Greater}
None == "none"

ASSUME DoubleAssumption ==
  /\ Lesser # Greater /\ None \notin Node
  /\ Conn \subseteq Nat /\ IsFiniteSet(Conn) /\ MaxBreaks \in Nat

VARIABLES
  by,        \* by[c]: the node that makes the connection, or None
  child,     \* child[c][n]: what n has of it
  wire,      \* wire[c][n]: what is on its way to n
  checked,   \* CheckStartConnect: the greater node has let one chance pass
  breaks     \* connections that have broken

doubleVars == << by, child, wire, checked, breaks >>

Peer(n) == CHOOSE m \in Node : m # n

(* A child is waiting for its socket, open until its RndHash is known, and *)
(* known until it is removed.                                              *)
Open(n) == {c \in Conn : child[c][n] \in {"open", "known"}}
Known(n) == {c \in Conn : child[c][n] = "known"}

\* The children with the AddrItem of the neighbour.
Neighbours(n) ==
  {c \in Conn : IF by[c] = n THEN child[c][n] \in {"wait", "open", "known"} ELSE c \in Known(n)}

Send(w, c, n, message) == [w EXCEPT ![c][n] = Append(@, message)]

(* StartDisconnect, OnDeleteConnect: the children are removed and their    *)
(* sockets closed, which the other end sees after what was sent before.    *)
Removed(cs, n) == [c \in Conn |-> IF c \in cs THEN [child[c] EXCEPT ![n] = "gone"] ELSE child[c]]
Closed(w, cs, n) ==
  [c \in Conn |-> IF c \in cs /\ child[c][Peer(n)] # None
                    THEN [w[c] EXCEPT ![Peer(n)] = Append(@, "close")] ELSE w[c]]
-----------------------------------------------------------------------------
(* Mutant: only the connections that have come in are counted.             *)
Doubles_Incoming(n) ==
  IF Cardinality({c \in Neighbours(n) : by[c] # n}) =< 1 THEN {}
  ELSE {c \in Open(n) \cap Neighbours(n) : (by[c] = n) <=> (n # Greater)}

(* Of several connections the greater node closes those that have come in, *)
(* the other node those it has made.                                       *)
Doubles(n) ==
  IF Cardinality(Neighbours(n)) =< 1 THEN {}
  ELSE {c \in Open(n) \cap Neighbours(n) : (by[c] = n) <=> (n # Greater)}

(* DoConnectLevels: to a neighbour without a connection, when it is time.  *)
Connect(n) ==
  \E c \in Conn :
    /\ by[c] = None /\ \A d \in Conn : d < c => by[d] # None
    /\ Neighbours(n) = {}
    /\ IF n = Greater /\ ~checked
         THEN checked' = TRUE /\ UNCHANGED << by, child >>
         ELSE by' = [by EXCEPT ![c] = n] /\ child' = [child EXCEPT ![c][n] = "wait"] /\ UNCHANGED checked

(* One tick.                                                               *)
DoNode(n) ==
  /\ \/ /\ Doubles(n) # {}
        /\ child' = Removed(Doubles(n), n) /\ wire' = Closed(wire, Doubles(n), n)
        /\ UNCHANGED << by, checked >>
     \/ Doubles(n) = {} /\ Connect(n) /\ UNCHANGED wire
  /\ UNCHANGED breaks

(* CreateConnectionToChild comes through: both ends have a socket, and the *)
(* handshake is sent.                                                      *)
Connected(c) ==
  /\ by[c] # None /\ child[c][by[c]] = "wait"
  /\ child' = [child EXCEPT ![c] = [n \in Node |-> "open"]]
  /\ wire' = Send(wire, c, Peer(by[c]), "HANDSHAKE")
  /\ UNCHANGED << by, checked, breaks >>

NotConnected(c) ==
  /\ by[c] # None /\ child[c][by[c]] = "wait"
  /\ child' = Removed({c}, by[c])
  /\ UNCHANGED << by, wire, checked, breaks >>

(* Mutant: a neighbour is greeted that is there already.                   *)
FindConnectByHash_No(n) == FALSE

FindConnectByHash(n) == Known(n) # {}

HANDSHAKE(c, n, rest) ==
  IF FindConnectByHash(n)
    THEN wire' = Send(rest, c, by[c], "FIND_IN_CONNECT") /\ UNCHANGED child
    ELSE wire' = Send(rest, c, by[c], "RET") /\ child' = [child EXCEPT ![c][n] = "known"]

OnHandShakeReturn(c, n, rest, result) ==
  IF result = "RET"
    THEN child' = [child EXCEPT ![c][n] = "known"] /\ wire' = rest
    ELSE child' = Removed({c}, n) /\ wire' = Closed(rest, {c}, n)

(* What arrives at a removed child is dropped.                             *)
Receive(c, n) ==
  /\ wire[c][n] # << >>
  /\ LET message == Head(wire[c][n])
         rest    == [wire EXCEPT ![c][n] = Tail(@)]
     IN IF child[c][n] = "gone" THEN wire' = rest /\ UNCHANGED child
        ELSE IF message = "HANDSHAKE" THEN HANDSHAKE(c, n, rest)
        ELSE IF message = "close" THEN child' = Removed({c}, n) /\ wire' = rest
        ELSE OnHandShakeReturn(c, n, rest, message)
  /\ UNCHANGED << by, checked, breaks >>

(* ClearSocket: a connection breaks, which one end sees first.             *)
Break(c, n) ==
  /\ breaks < MaxBreaks /\ breaks' = breaks + 1
  /\ c \in Open(n)
  /\ child' = Removed({c}, n) /\ wire' = Closed(wire, {c}, n)
  /\ UNCHANGED << by, checked >>
-----------------------------------------------------------------------------
DoubleInit ==
  /\ by = [c \in Conn |-> None]
  /\ child = [c \in Conn |-> [n \in Node |-> None]]
  /\ wire = [c \in Conn |-> [n \in Node |-> << >>]]
  /\ checked = FALSE /\ breaks = 0

DoubleNext ==
  \/ \E n \in Node : DoNode(n)
  \/ \E c \in Conn : Connected(c) \/ NotConnected(c)
  \/ \E c \in Conn, n \in Node : Receive(c, n) \/ Break(c, n)

DoubleSpec == DoubleInit /\ [][DoubleNext]_doubleVars
-----------------------------------------------------------------------------
(* A tick that closes double connections leaves one to the neighbour, also *)
(* while old ones that the other end has left already are still there.     *)
KeepsOne == [][\A n \in Node : DoNode(n) /\ Neighbours(n) # {} => Neighbours(n)' # {}]_doubleVars

(* When all is delivered and no tick has anything to close, there is at    *)
(* most one connection, and both ends have it: however the two handshakes  *)
(* and the two ends' ticks cross, neither two connections remain nor one   *)
(* that only one of the nodes has.                                         *)
Settled ==
  (\A n \in Node : Doubles(n) = {} /\ \A c \in Conn : wire[c][n] = << >>) =>
    \A n, m \in Node : Cardinality(Known(n)) =< 1 /\ Known(n) = Known(m)
=============================================================================
