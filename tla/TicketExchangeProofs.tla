------------------------ MODULE TicketExchangeProofs ------------------------
(***************************************************************************)
(* The exchange of transactions keeps its lists and its bits right, for    *)
(* any nodes, links, transactions and caps of a message.                   *)
(***************************************************************************)
EXTENDS TicketExchange, WellFoundedInduction, TLAPS

(* Lists.                                                                  *)
LEMMA LeastOf ==
  ASSUME NEW S, S \subseteq Nat, S # {}
  PROVE  \E n \in S : \A m \in S : n =< m
<1>1. IsWellFoundedOn(OpToRel(<, Nat), Nat)
  BY NatLessThanWellFounded
<1>2. PICK n \in S : \A m \in S : ~(<< m, n >> \in OpToRel(<, Nat))
  BY <1>1, WFMin
<1>3. ASSUME NEW m \in S PROVE n =< m
  <2>1. m \in Nat /\ n \in Nat
    OBVIOUS
  <2>2. ~(m < n)
    BY <1>2, <2>1 DEF OpToRel
  <2> QED
    BY <2>1, <2>2
<1> QED
  BY <1>3

LEMMA AppendItem ==
  ASSUME NEW S, NEW s \in Seq(S), NEW x \in S
  PROVE  /\ ToSet(Append(s, x)) = ToSet(s) \cup {x}
         /\ IsInjective(s) /\ x \notin ToSet(s) => IsInjective(Append(s, x))
<1> DEFINE t == Append(s, x)
<1>1. /\ t \in Seq(S) /\ Len(s) \in Nat /\ Len(t) = Len(s) + 1 /\ t[Len(s) + 1] = x
      /\ \A i \in 1 .. Len(s) : t[i] = s[i]
  OBVIOUS
<1>2. DOMAIN s = 1 .. Len(s) /\ DOMAIN t = 1 .. Len(s) + 1
  BY <1>1
<1> HIDE DEF t
<1>3. DOMAIN t = DOMAIN s \cup {Len(s) + 1}
  BY <1>1, <1>2
<1>4. ToSet(t) = ToSet(s) \cup {x}
  BY <1>1, <1>2, <1>3 DEF ToSet
<1>5. IsInjective(s) /\ x \notin ToSet(s) => IsInjective(t)
  BY <1>1, <1>2, <1>3 DEF IsInjective, ToSet
<1> QED
  BY <1>4, <1>5 DEF t

(* Only, one item of the list at a time.                                   *)
Turn(s, P, f, i) == IF i = 0 THEN << >> ELSE IF s[i] \in P THEN Append(f[i - 1], s[i]) ELSE f[i - 1]

Part(S, s, P, n) == \E f \in [0 .. n -> Seq(S)] : \A i \in 0 .. n : f[i] = Turn(s, P, f, i)

LEMMA OnlyExists ==
  ASSUME NEW S, NEW s \in Seq(S), NEW P
  PROVE  \A n \in 0 .. Len(s) : Part(S, s, P, n)
<1> DEFINE bad == {n \in 0 .. Len(s) : ~Part(S, s, P, n)}
<1> SUFFICES ASSUME bad # {} PROVE FALSE
  OBVIOUS
<1>1. PICK n \in bad : \A m \in bad : n =< m
  <2>1. bad \subseteq Nat
    OBVIOUS
  <2> QED
    BY <2>1, LeastOf
<1>2. n \in 0 .. Len(s) /\ Len(s) \in Nat
  BY <1>1
<1>3. n # 0
  <2> DEFINE g == [i \in 0 .. 0 |-> << >>]
  <2>1. g \in [0 .. 0 -> Seq(S)] /\ \A i \in 0 .. 0 : g[i] = Turn(s, P, g, i)
    BY DEF Turn
  <2>2. Part(S, s, P, 0)
    BY <2>1 DEF Part
  <2> QED
    BY <1>1, <2>2
<1>4. Part(S, s, P, n - 1)
  <2>1. n - 1 \in 0 .. Len(s) /\ ~(n =< n - 1)
    BY <1>2, <1>3
  <2> QED
    BY <1>1, <2>1
<1>5. PICK f \in [0 .. n - 1 -> Seq(S)] : \A i \in 0 .. n - 1 : f[i] = Turn(s, P, f, i)
  BY <1>4 DEF Part
<1> DEFINE g == [i \in 0 .. n |-> IF i < n THEN f[i] ELSE Turn(s, P, f, n)]
<1>6. Turn(s, P, f, n) \in Seq(S)
  <2>1. f[n - 1] \in Seq(S) /\ s[n] \in S
    BY <1>2, <1>3
  <2> QED
    BY <2>1, <1>3 DEF Turn
<1>7. g \in [0 .. n -> Seq(S)]
  BY <1>2, <1>6
<1>8. ASSUME NEW i \in 0 .. n PROVE g[i] = Turn(s, P, g, i)
  <2>1. CASE i = 0
    BY <2>1, <1>2, <1>3, <1>5 DEF Turn
  <2>2. CASE i # 0
    <3>1. g[i - 1] = f[i - 1]
      BY <1>2, <2>2
    <3>2. g[i] = Turn(s, P, f, i)
      BY <1>2, <1>5
    <3> QED
      BY <3>1, <3>2, <2>2 DEF Turn
  <2> QED
    BY <2>1, <2>2
<1>9. Part(S, s, P, n)
  BY <1>7, <1>8 DEF Part
<1> QED
  BY <1>9, <1>1

LEMMA OnlyIs ==
  ASSUME NEW S, NEW s \in Seq(S), NEW P
  PROVE  \E f \in [0 .. Len(s) -> Seq(S)] :
            (\A i \in 0 .. Len(s) : f[i] = Turn(s, P, f, i)) /\ Only(s, P) = f[Len(s)]
<1> DEFINE Is(f) == f = [i \in 0 .. Len(s) |->
                           IF i = 0 THEN << >>
                           ELSE IF s[i] \in P THEN Append(f[i - 1], s[i]) ELSE f[i - 1]]
<1>0. Len(s) \in Nat
  OBVIOUS
<1>1. PICK f \in [0 .. Len(s) -> Seq(S)] : \A i \in 0 .. Len(s) : f[i] = Turn(s, P, f, i)
  <2>1. Len(s) \in 0 .. Len(s)
    BY <1>0
  <2>2. Part(S, s, P, Len(s))
    BY <2>1, OnlyExists
  <2> QED
    BY <2>2 DEF Part
<1>2. Is(f)
  BY <1>1 DEF Turn
<1>3. Is(CHOOSE h : Is(h))
  BY <1>2
<1> DEFINE c == CHOOSE h : Is(h)
<1>4. Only(s, P) = c[Len(s)]
  BY DEF Only
<1>5. c = [i \in 0 .. Len(s) |-> Turn(s, P, c, i)]
  BY <1>3 DEF Turn
<1> HIDE DEF c
<1>6. c = f
  <2>1. SUFFICES ASSUME c # f PROVE FALSE
    OBVIOUS
  <2> DEFINE bad == {i \in 0 .. Len(s) : c[i] # f[i]}
  <2>2. c = [i \in 0 .. Len(s) |-> c[i]] /\ f = [i \in 0 .. Len(s) |-> f[i]]
    BY <1>5
  <2>3. bad # {} /\ bad \subseteq Nat
    BY <2>1, <2>2, <1>0
  <2>4. PICK n \in bad : \A m \in bad : n =< m
    BY <2>3, LeastOf
  <2>5. n \in 0 .. Len(s) /\ c[n] # f[n]
    BY <2>4
  <2>6. ASSUME n # 0 PROVE c[n - 1] = f[n - 1]
    <3>1. n - 1 \in 0 .. Len(s) /\ ~(n =< n - 1)
      BY <2>5, <2>6, <1>0
    <3> QED
      BY <3>1, <2>4
  <2>7. c[n] = Turn(s, P, c, n) /\ f[n] = Turn(s, P, f, n)
    BY <1>5, <1>1, <2>5
  <2> QED
    BY <2>5, <2>6, <2>7 DEF Turn
<1> QED
  BY <1>1, <1>4, <1>6

(* A list's items in P, each of them once if they are so in the list.      *)
LEMMA OnlySelects ==
  ASSUME NEW S, NEW s \in Seq(S), NEW P
  PROVE  /\ Only(s, P) \in Seq(S)
         /\ ToSet(Only(s, P)) = ToSet(s) \cap P
         /\ IsInjective(s) => IsInjective(Only(s, P))
<1>0. Len(s) \in Nat
  OBVIOUS
<1>1. PICK f \in [0 .. Len(s) -> Seq(S)] :
        (\A i \in 0 .. Len(s) : f[i] = Turn(s, P, f, i)) /\ Only(s, P) = f[Len(s)]
  BY OnlyIs
<1> DEFINE Good(i) == /\ ToSet(f[i]) = {s[k] : k \in 1 .. i} \cap P
                      /\ IsInjective(s) => IsInjective(f[i])
           bad == {i \in 0 .. Len(s) : ~Good(i)}
<1>2. bad = {}
  <2> SUFFICES ASSUME bad # {} PROVE FALSE
    OBVIOUS
  <2>1. bad \subseteq Nat
    BY <1>0
  <2>2. PICK n \in bad : \A m \in bad : n =< m
    BY <2>1, LeastOf
  <2>3. n \in 0 .. Len(s)
    BY <2>2
  <2>4. n # 0
    BY <1>1, <2>2, <1>0 DEF Turn, ToSet, IsInjective
  <2>5. n - 1 \in 0 .. Len(s) /\ n \in 1 .. Len(s)
    BY <1>0, <2>3, <2>4
  <2>6. Good(n - 1)
    BY <2>2, <2>5
  <2>7. f[n] = IF s[n] \in P THEN Append(f[n - 1], s[n]) ELSE f[n - 1]
    BY <1>1, <2>3, <2>4 DEF Turn
  <2>8. {s[k] : k \in 1 .. n} = {s[k] : k \in 1 .. n - 1} \cup {s[n]}
    <3>1. 1 .. n = (1 .. n - 1) \cup {n}
      BY <2>5, <1>0
    <3> QED
      BY <3>1
  <2> DEFINE g == f[n - 1]
  <2>9. g \in Seq(S)
    BY <2>5, <1>1
  <2>10. CASE s[n] \notin P
    BY <2>10, <2>6, <2>7, <2>8, <2>2
  <2>11. CASE s[n] \in P
    <3>1. f[n] = Append(g, s[n]) /\ s[n] \in S
      BY <2>7, <2>11, <2>5
    <3>2. ToSet(f[n]) = ToSet(g) \cup {s[n]}
      BY <3>1, <2>9, AppendItem
    <3>3. ASSUME IsInjective(s) PROVE IsInjective(f[n])
      <4>1. s[n] \notin {s[k] : k \in 1 .. n - 1}
        BY <3>3, <2>5 DEF IsInjective
      <4>2. s[n] \notin ToSet(g) /\ IsInjective(g)
        BY <4>1, <2>6, <3>3
      <4> QED
        BY <3>1, <4>2, <2>9, AppendItem
    <3> QED
      BY <3>2, <3>3, <2>6, <2>8, <2>11, <2>2
  <2> QED
    BY <2>10, <2>11
<1>3. Good(Len(s))
  BY <1>2, <1>0
<1>4. ToSet(s) = {s[k] : k \in 1 .. Len(s)}
  BY DEF ToSet
<1> QED
  BY <1>1, <1>3, <1>4, <1>0
LEMMA FirstSelects ==
  ASSUME NEW S, NEW s \in Seq(S), NEW max \in Nat
  PROVE  /\ FirstOf(s, max) \in Seq(S)
         /\ ToSet(FirstOf(s, max)) \subseteq ToSet(s)
         /\ IsInjective(s) => IsInjective(FirstOf(s, max))
<1> DEFINE k == IF Len(s) < max THEN Len(s) ELSE max
           t == SubSeq(s, 1, k)
<1>1. k \in 0 .. Len(s) /\ Len(s) \in Nat
  OBVIOUS
<1>2. t \in Seq(S) /\ Len(t) = k /\ \A i \in 1 .. k : t[i] = s[i]
  BY <1>1
<1>3. DOMAIN s = 1 .. Len(s) /\ DOMAIN t = 1 .. k /\ 1 .. k \subseteq 1 .. Len(s)
  BY <1>1, <1>2
<1>4. FirstOf(s, max) = t
  BY DEF FirstOf
<1> HIDE DEF k, t
<1> QED
  BY <1>2, <1>3, <1>4 DEF ToSet, IsInjective

(* A list of whatever: messages are not given a type.                      *)
IsList(s) == s \in Seq(ToSet(s))

LEMMA ListOf ==
  ASSUME NEW S, NEW s \in Seq(S)
  PROVE  IsList(s)
<1>1. Len(s) \in Nat /\ s \in [1 .. Len(s) -> S]
  OBVIOUS
<1>2. s \in [1 .. Len(s) -> ToSet(s)]
  BY <1>1 DEF ToSet
<1> QED
  BY <1>1, <1>2 DEF IsList

LEMMA AppendList ==
  ASSUME NEW s, IsList(s), NEW x
  PROVE  IsList(Append(s, x)) /\ ToSet(Append(s, x)) = ToSet(s) \cup {x}
<1> DEFINE S == ToSet(s) \cup {x}
<1>1. s \in Seq(S)
  BY DEF IsList
<1>2. x \in S
  OBVIOUS
<1> HIDE DEF S
<1>3. Append(s, x) \in Seq(S)
  BY <1>1, <1>2
<1>4. IsList(Append(s, x))
  BY <1>3, ListOf
<1>5. ToSet(Append(s, x)) = ToSet(s) \cup {x}
  BY <1>1, <1>2, AppendItem
<1> QED
  BY <1>4, <1>5

LEMMA ConcatList ==
  ASSUME NEW s, IsList(s), NEW t, IsList(t)
  PROVE  IsList(s \o t) /\ ToSet(s \o t) = ToSet(s) \cup ToSet(t)
<1> DEFINE S == ToSet(s) \cup ToSet(t)
<1>1. s \in Seq(S) /\ t \in Seq(S)
  BY DEF IsList
<1> HIDE DEF S
<1> DEFINE r == s \o t
<1>2. /\ r \in Seq(S) /\ Len(s) \in Nat /\ Len(t) \in Nat /\ Len(r) = Len(s) + Len(t)
      /\ \A i \in 1 .. Len(s) : r[i] = s[i]
      /\ \A i \in 1 .. Len(t) : r[Len(s) + i] = t[i]
  BY <1>1
<1>3. DOMAIN r = 1 .. Len(s) + Len(t) /\ DOMAIN s = 1 .. Len(s) /\ DOMAIN t = 1 .. Len(t)
  BY <1>1, <1>2
<1> HIDE DEF r
<1>4. \A i \in DOMAIN r : i \in DOMAIN s \/ (i - Len(s) \in DOMAIN t /\ r[i] = t[i - Len(s)])
  <2> TAKE i \in DOMAIN r
  <2>1. i \in DOMAIN s \/ i - Len(s) \in 1 .. Len(t)
    BY <1>2, <1>3
  <2>2. i - Len(s) \in 1 .. Len(t) => r[Len(s) + (i - Len(s))] = t[i - Len(s)]
    BY <1>2
  <2> QED
    BY <2>1, <2>2, <1>2, <1>3
<1>5. \A i \in DOMAIN t : Len(s) + i \in DOMAIN r
  BY <1>2, <1>3
<1>6. ToSet(r) = ToSet(s) \cup ToSet(t)
  BY <1>2, <1>3, <1>4, <1>5 DEF ToSet
<1> QED
  BY <1>2, <1>6, ListOf DEF r

LEMMA ConcatInjective ==
  ASSUME NEW S, NEW s \in Seq(S), NEW t \in Seq(S), IsInjective(s), IsInjective(t),
         ToSet(s) \cap ToSet(t) = {}
  PROVE  IsInjective(s \o t)
<1> DEFINE r == s \o t
<1>1. /\ r \in Seq(S) /\ Len(s) \in Nat /\ Len(t) \in Nat /\ Len(r) = Len(s) + Len(t)
      /\ \A i \in 1 .. Len(s) : r[i] = s[i]
      /\ \A i \in 1 .. Len(t) : r[Len(s) + i] = t[i]
  OBVIOUS
<1>2. DOMAIN r = 1 .. Len(s) + Len(t) /\ DOMAIN s = 1 .. Len(s) /\ DOMAIN t = 1 .. Len(t)
  BY <1>1
<1> HIDE DEF r
<1>3. \A i \in DOMAIN r :
        \/ i \in DOMAIN s /\ r[i] = s[i]
        \/ i - Len(s) \in DOMAIN t /\ r[i] = t[i - Len(s)]
  <2> TAKE i \in DOMAIN r
  <2>1. i \in DOMAIN s \/ i - Len(s) \in 1 .. Len(t)
    BY <1>1, <1>2
  <2>2. i - Len(s) \in 1 .. Len(t) => r[Len(s) + (i - Len(s))] = t[i - Len(s)]
    BY <1>1
  <2> QED
    BY <2>1, <2>2, <1>1, <1>2
<1>4. ASSUME NEW i \in DOMAIN r, NEW j \in DOMAIN r, r[i] = r[j] PROVE i = j
  <2>1. \A k \in DOMAIN s, l \in DOMAIN t : s[k] # t[l]
    BY DEF ToSet
  <2>2. i \in Int /\ j \in Int
    BY <1>1, <1>2
  <2>3. CASE i \in DOMAIN s /\ r[i] = s[i] /\ j \in DOMAIN s /\ r[j] = s[j]
    BY <1>4, <2>3 DEF IsInjective
  <2>4. CASE /\ i - Len(s) \in DOMAIN t /\ r[i] = t[i - Len(s)]
             /\ j - Len(s) \in DOMAIN t /\ r[j] = t[j - Len(s)]
    <3>1. i - Len(s) = j - Len(s)
      BY <1>4, <2>4 DEF IsInjective
    <3> QED
      BY <3>1, <2>2, <1>1
  <2> QED
    BY <1>3, <1>4, <2>1, <2>3, <2>4
<1>5. IsInjective(r)
  BY <1>4 DEF IsInjective
<1> QED
  BY <1>5 DEF r

LEMMA TailList ==
  ASSUME NEW s, IsList(s), s # << >>
  PROVE  IsList(Tail(s)) /\ ToSet(s) = {Head(s)} \cup ToSet(Tail(s))
<1> DEFINE S == ToSet(s)
           r == Tail(s)
<1>1. s \in Seq(S)
  BY DEF IsList
<1> HIDE DEF S
<1>2. /\ r \in Seq(S) /\ Len(s) \in Nat /\ Len(s) > 0 /\ Len(r) = Len(s) - 1 /\ Head(s) = s[1]
      /\ \A i \in 1 .. Len(r) : r[i] = s[i + 1]
  BY <1>1
<1>3. DOMAIN r = 1 .. Len(s) - 1 /\ DOMAIN s = 1 .. Len(s)
  BY <1>1, <1>2
<1> HIDE DEF r
<1>4. \A i \in DOMAIN s : i = 1 \/ (i - 1 \in DOMAIN r /\ r[i - 1] = s[i])
  <2> TAKE i \in DOMAIN s
  <2>1. i = 1 \/ i - 1 \in 1 .. Len(r)
    BY <1>2, <1>3
  <2>2. i - 1 \in 1 .. Len(r) => r[i - 1] = s[(i - 1) + 1]
    BY <1>2
  <2> QED
    BY <2>1, <2>2, <1>2, <1>3
<1>5. \A i \in DOMAIN r : i + 1 \in DOMAIN s /\ r[i] = s[i + 1]
  BY <1>2, <1>3
<1>6. ToSet(s) = {s[1]} \cup ToSet(r)
  BY <1>2, <1>3, <1>4, <1>5 DEF ToSet
<1> QED
  BY <1>2, <1>6, ListOf DEF r
-----------------------------------------------------------------------------
(* Items.                                                                  *)

(* What may become of an item in a step that does not send it.             *)
Later(i, j) ==
  /\ j \in Items
  /\ i.kind = "tx" => j.kind = "tx"
  /\ j.txSend \subseteq i.txSend

LEMMA NewItemIs ==
  ASSUME NEW kind \in {"ticket", "tx"}, NEW from \in Node \cup {None}
  PROVE  /\ NewItem(kind, from) \in Items /\ NewItem(kind, from).kind = kind
         /\ NewItem(kind, from).txSend = {} /\ NewItem(kind, from).txReceive = {}
<1>1. /\ NoItem \in Items /\ NoItem.txSend = {} /\ NoItem.txReceive = {}
  BY DEF NoItem, Items
<1>2. \A i \in Items : LET j == [i EXCEPT !.kind = kind, !.from = from] IN
        j \in Items /\ j.kind = kind /\ j.txSend = i.txSend /\ j.txReceive = i.txReceive
  BY DEF Items
<1> HIDE DEF NoItem
<1> QED
  BY <1>1, <1>2 DEF NewItem

LEMMA BecomesTx ==
  ASSUME NEW i \in Items
  PROVE  LET j == [i EXCEPT !.kind = "tx"] IN
         Later(i, j) /\ j.kind = "tx" /\ j.txSend = i.txSend /\ j.txReceive = i.txReceive
BY DEF Later, Items

LEMMA AfterBodyIs ==
  ASSUME NEW i \in Items, NEW m \in Node
  PROVE  /\ Later(i, AfterBody(i, m)) /\ AfterBody(i, m).kind = "tx"
         /\ AfterBody(i, m).txReceive \subseteq i.txReceive \cup {m}
<1>1. CASE i.kind = "none"
  <2> DEFINE new == NewItem("tx", m)
  <2>1. new \in Items /\ new.kind = "tx" /\ new.txSend = {} /\ new.txReceive = {}
    BY NewItemIs
  <2> HIDE DEF new
  <2>2. [new EXCEPT !.txReceive = {m}] \in Items
    BY <2>1 DEF Items
  <2>3. AfterBody(i, m) = [new EXCEPT !.txReceive = {m}]
    BY <1>1 DEF AfterBody, new
  <2> QED
    BY <2>1, <2>2, <2>3 DEF Later, Items
<1>2. CASE i.kind # "none"
  BY <1>2 DEF AfterBody, Later, Items
<1> QED
  BY <1>1, <1>2

LEMMA AfterEmptyIs ==
  ASSUME NEW i \in Items, NEW m \in Node
  PROVE  Later(i, AfterEmpty(i, m)) /\ AfterEmpty(i, m).txReceive \subseteq i.txReceive
BY DEF AfterEmpty, Later, Items

LEMMA MarkSentIs ==
  ASSUME NEW i \in Items, NEW m \in Node, NEW whole \in BOOLEAN
  PROVE  LET j == MarkSent(i, whole, m) IN
         /\ j \in Items /\ j.kind = i.kind /\ j.txReceive = i.txReceive
         /\ j.txSend \subseteq i.txSend \cup {m} /\ (~whole => j.txSend = i.txSend)
BY DEF MarkSent, Items
-----------------------------------------------------------------------------
(* Messages.                                                               *)

(* What the sender n of a message has when it sends it, and keeps.         *)
Sound(n, x) ==
  /\ x.type = "TRANSFERTX" =>
       /\ x.txs \in Seq([tx : Tx, full : BOOLEAN]) /\ IsInjective(Named(x))
       /\ \A t \in Tx : IsFullIn(x, t) => Full(n, t)
  /\ x.type = "BLOCK" =>
       /\ x.body \subseteq Tx /\ x.full \subseteq x.body
       /\ \A t \in x.body : Full(n, t)

Carries(x, t) ==
  \/ x.type = "TRANSFERTX" /\ IsFullIn(x, t)
  \/ x.type = "BLOCK" /\ t \in x.full

LEMMA WayCarries ==
  ASSUME NEW n, NEW m, NEW t
  PROVE  OnItsWay(n, m, t) <=> \E x \in ToSet(out[n][m]) : Carries(x, t)
BY DEF OnItsWay, Carries, ToSet

LEMMA BodyMessageIs ==
  ASSUME NEW its \in [Tx -> Items], NEW list \in Seq(Tx), IsInjective(list), NEW m \in Node
  PROVE  LET b == Bodies(its, list, m)
             x == BodyMessage(its, list, m) IN
         /\ \A t \in ToSet(b) : t \in Tx /\ its[t].kind = "tx"
         /\ x.type = "TRANSFERTX" /\ x.txs \in Seq([tx : Tx, full : BOOLEAN]) /\ IsInjective(Named(x))
         /\ \A t : IsFullIn(x, t) <=> t \in ToSet(b) /\ ~Empty(its[t], m)
<1> DEFINE due == {t \in Tx : Due(its[t], m)}
           b == Bodies(its, list, m)
           x == BodyMessage(its, list, m)
           txs == [k \in DOMAIN b |-> [tx |-> b[k], full |-> ~Empty(its[b[k]], m)]]
<1>1. b \in Seq(Tx) /\ ToSet(b) \subseteq due /\ IsInjective(b)
  <2>1. /\ Only(list, due) \in Seq(Tx) /\ ToSet(Only(list, due)) \subseteq due
        /\ IsInjective(Only(list, due))
    BY OnlySelects
  <2>2. b = FirstOf(Only(list, due), MaxTX) /\ MaxTX \in Nat
    BY CapsAssumption DEF Bodies
  <2> HIDE DEF due, b
  <2> QED
    BY <2>1, <2>2, FirstSelects
<1>2. \A t \in ToSet(b) : t \in Tx /\ its[t].kind = "tx"
  BY <1>1 DEF Due
<1>3. x.type = "TRANSFERTX" /\ x.txs = txs
  BY DEF BodyMessage
<1> HIDE DEF b, x
<1>4. Len(b) \in Nat /\ DOMAIN b = 1 .. Len(b) /\ \A k \in DOMAIN b : b[k] \in Tx
  BY <1>1
<1>5. \A k \in DOMAIN b : [tx |-> b[k], full |-> ~Empty(its[b[k]], m)] \in [tx : Tx, full : BOOLEAN]
  BY <1>4 DEF Empty
<1>6. txs \in [1 .. Len(b) -> [tx : Tx, full : BOOLEAN]]
  BY <1>4, <1>5
<1>7. txs \in Seq([tx : Tx, full : BOOLEAN])
  BY <1>4, <1>6
<1>8. IsInjective(Named(x))
  BY <1>1, <1>3 DEF Named, IsInjective
<1>9. ASSUME NEW t PROVE IsFullIn(x, t) <=> t \in ToSet(b) /\ ~Empty(its[t], m)
  <2>1. IsFullIn(x, t) <=> \E k \in DOMAIN b : [tx |-> t, full |-> TRUE] = [tx |-> b[k], full |-> ~Empty(its[b[k]], m)]
    BY <1>3 DEF IsFullIn, ToSet
  <2>2. \A k \in DOMAIN b :
          [tx |-> t, full |-> TRUE] = [tx |-> b[k], full |-> ~Empty(its[b[k]], m)]
            <=> t = b[k] /\ ~Empty(its[b[k]], m)
    BY DEF Empty
  <2>3. t \in ToSet(b) <=> \E k \in DOMAIN b : t = b[k]
    BY DEF ToSet
  <2> QED
    BY <2>1, <2>2, <2>3
<1> QED
  BY <1>2, <1>3, <1>7, <1>8, <1>9 DEF b, x
-----------------------------------------------------------------------------
(* The invariant.                                                          *)

(* What is on its way comes from a neighbour, and is sound.                *)
Wire ==
  /\ out = [n \in Node |-> [m \in Node |-> out[n][m]]]
  /\ \A n, m \in Node : IsList(out[n][m]) /\ \A x \in ToSet(out[n][m]) : Sound(n, x)
  /\ \A n \in Node : out[n][n] = << >>

(* Who has a block body has its transactions.                              *)
HaveFull == \A n \in Node : \A b \in have[n] : \A t \in b : Full(n, t)

(* Near clocks stay near, and who gets a body has begun the number.        *)
InTime ==
  Near => /\ \A n, m \in Node : Linked(n, m) => past[n] =< past[m] + 1
          /\ \A n, m \in Node : \A x \in ToSet(out[n][m]) : x.type = "TRANSFERTX" => past[m] >= 0

ExchangeInv == TypeOK /\ Wire /\ InTime /\ HaveFull /\ ArrOnce /\ SentIsKnown

(* Transactions are never lost.                                            *)
Grow ==
  /\ item' \in [Node -> [Tx -> Items]]
  /\ \A n \in Node, t \in Tx : Full(n, t) => Full(n, t)'

LEMMA SoundKept ==
  ASSUME NEW n \in Node, NEW x, Sound(n, x), Grow
  PROVE  Sound(n, x)'
BY DEF Sound, Grow, Named, IsFullIn

LEMMA HaveKept ==
  ASSUME ExchangeInv, Grow, have' \in [Node -> SUBSET SUBSET Tx],
         \A n \in Node : \A b \in have'[n] : b \in have[n] \/ \A t \in b : Full(n, t)'
  PROVE  HaveFull'
<1> SUFFICES ASSUME NEW n \in Node, NEW b \in have'[n], NEW t \in b
             PROVE  Full(n, t)'
  BY DEF HaveFull
<1>1. t \in Tx
  OBVIOUS
<1> QED
  BY <1>1 DEF ExchangeInv, HaveFull, Grow

LEMMA ArrKept ==
  ASSUME ExchangeInv, Grow, arr' = arr
  PROVE  ArrOnce'
<1>1. \A n \in Node : ToSet(arr[n]) \subseteq Tx
  BY DEF ExchangeInv, TypeOK, ToSet
<1> QED
  BY <1>1 DEF ExchangeInv, ArrOnce, Grow

(* What near clocks refuse is too late.                                    *)
Late == \A n, m \in Node, t \in Tx : Near /\ << n, m, t >> \in refused => past[m] = 3

(* The bits stay right when new ones are, and what was on its way stays    *)
(* there, has come or was refused.                                         *)
LEMMA KnownKept ==
  ASSUME ExchangeInv, Grow, Late', refused \subseteq refused',
         \A n, m \in Node, t \in Tx :
           /\ m \in item'[n][t].txSend /\ m \notin item[n][t].txSend => OnItsWay(n, m, t)'
           /\ OnItsWay(n, m, t) => OnItsWay(n, m, t)' \/ Full(m, t)' \/ << n, m, t >> \in refused'
           /\ m \in item'[n][t].txReceive => m \in item[n][t].txReceive \/ Full(m, t)'
  PROVE  SentIsKnown'
<1> SUFFICES ASSUME NEW n \in Node, NEW m \in Node, NEW t \in Tx
             PROVE  /\ m \in item'[n][t].txSend =>
                         Full(m, t)' \/ OnItsWay(n, m, t)' \/ << n, m, t >> \in refused'
                    /\ m \in item'[n][t].txReceive => Full(m, t)'
                    /\ (Near /\ << n, m, t >> \in refused => past[m] = 3)'
  BY DEF SentIsKnown
<1>1. /\ m \in item[n][t].txSend => Full(m, t) \/ OnItsWay(n, m, t) \/ << n, m, t >> \in refused
      /\ m \in item[n][t].txReceive => Full(m, t)
  BY DEF ExchangeInv, SentIsKnown
<1>2. Full(m, t) => Full(m, t)'
  BY DEF Grow
<1>3. (Near /\ << n, m, t >> \in refused => past[m] = 3)'
  BY DEF Late
<1> QED
  BY <1>1, <1>2, <1>3

LEMMA LateKept ==
  ASSUME ExchangeInv, UNCHANGED << setup, past, refused >>
  PROVE  Late'
BY DEF ExchangeInv, SentIsKnown, Late, Near

LEMMA InTimeKept ==
  ASSUME ExchangeInv, UNCHANGED << setup, past >>,
         \A n, m \in Node : \A x \in ToSet(out'[n][m]) :
           \/ x \in ToSet(out[n][m]) \/ x.type # "TRANSFERTX" \/ ~Near \/ past[m] >= 0
  PROVE  InTime'
BY DEF ExchangeInv, InTime, Near, Linked

(* Messages are taken, and sound ones added.                               *)
LEMMA WireKept ==
  ASSUME ExchangeInv, Grow,
         out' = [n \in Node |-> [m \in Node |-> out'[n][m]]],
         \A n \in Node : out'[n][n] = << >>,
         \A n, m \in Node :
           /\ IsList(out'[n][m])
           /\ \A x \in ToSet(out'[n][m]) : x \in ToSet(out[n][m]) \/ Sound(n, x)'
  PROVE  Wire'
<1> SUFFICES ASSUME NEW n \in Node, NEW m \in Node, NEW x \in ToSet(out'[n][m])
             PROVE  Sound(n, x)'
  BY DEF Wire
<1> QED
  BY SoundKept DEF ExchangeInv, Wire
-----------------------------------------------------------------------------
(* A step changes the items of one node.                                   *)
LEMMA OneNode ==
  ASSUME TypeOK, NEW n \in Node, NEW row \in [Tx -> Items], item' = [item EXCEPT ![n] = row],
         \A t \in Tx : item[n][t].kind = "tx" => row[t].kind = "tx"
  PROVE  Grow /\ item'[n] = row /\ \A a \in Node : a # n => item'[a] = item[a]
BY DEF TypeOK, Grow, Full

(* Nothing is sent or received.                                            *)
LEMMA QuietStep ==
  ASSUME ExchangeInv, Grow, UNCHANGED << setup, past, out, refused >>,
         \A n \in Node, t \in Tx : /\ item'[n][t].txSend \subseteq item[n][t].txSend
                                   /\ item'[n][t].txReceive \subseteq item[n][t].txReceive
  PROVE  Wire' /\ InTime' /\ SentIsKnown'
<1>1. Wire'
  BY WireKept DEF ExchangeInv, Wire
<1>2. \A n, m \in Node, t \in Tx : OnItsWay(n, m, t)' <=> OnItsWay(n, m, t)
  BY DEF OnItsWay, IsFullIn
<1>3. SentIsKnown'
  BY <1>2, LateKept, KnownKept
<1>4. InTime'
  BY InTimeKept
<1> QED
  BY <1>1, <1>3, <1>4

(* The next message from m is taken, and perhaps answered.                 *)
Taken(n, m) == out' = [out EXCEPT ![m][n] = Tail(@)]
Answered(n, m, answer) == out' = [out EXCEPT ![m][n] = Tail(@), ![n][m] = Append(@, answer)]

LEMMA TakenIs ==
  ASSUME Wire, NEW n \in Node, NEW m \in Node, out[m][n] # << >>, NEW answer,
         Taken(n, m) \/ Answered(n, m, answer)
  PROVE  /\ n # m
         /\ out' = [a \in Node |-> [b \in Node |-> out'[a][b]]]
         /\ \A a \in Node : out'[a][a] = << >>
         /\ \A a, b \in Node : IsList(out'[a][b])
         /\ \A a, b \in Node : \A x \in ToSet(out'[a][b]) : x \in ToSet(out[a][b]) \/ x = answer
         /\ \A a, b \in Node : \A x \in ToSet(out[a][b]) :
              x \in ToSet(out'[a][b]) \/ (a = m /\ b = n /\ x = Head(out[m][n]))
<1>1. n # m
  BY DEF Wire
<1> DEFINE cell(a, b) == IF a = m /\ b = n THEN Tail(out[m][n])
                         ELSE IF a = n /\ b = m /\ ~Taken(n, m) THEN Append(out[n][m], answer)
                         ELSE out[a][b]
<1>2. DOMAIN out = Node /\ \A a \in Node : DOMAIN out[a] = Node
  BY DEF Wire
<1>3. /\ out' = [a \in Node |-> out'[a]]
      /\ out'[m] = [out[m] EXCEPT ![n] = Tail(out[m][n])]
      /\ out'[n] = IF Taken(n, m) THEN out[n] ELSE [out[n] EXCEPT ![m] = Append(out[n][m], answer)]
      /\ \A a \in Node : a # m /\ a # n => out'[a] = out[a]
  <2>1. CASE Taken(n, m)
    BY <1>1, <1>2, <2>1 DEF Taken
  <2>2. CASE ~Taken(n, m) /\ Answered(n, m, answer)
    BY <1>1, <1>2, <2>2 DEF Answered
  <2> QED
    BY <2>1, <2>2
<1>4. ASSUME NEW a \in Node, NEW b \in Node PROVE out'[a][b] = cell(a, b)
  <2>1. CASE a = m
    BY <1>1, <1>2, <1>3, <2>1
  <2>2. CASE a = n
    BY <1>1, <1>2, <1>3, <2>2
  <2>3. CASE a # m /\ a # n
    BY <1>3, <2>3
  <2> QED
    BY <2>1, <2>2, <2>3
<1>5. out' = [a \in Node |-> [b \in Node |-> out'[a][b]]]
  <2>1. \A a \in Node : out[a] = [b \in Node |-> out[a][b]]
    BY DEF Wire
  <2>2. \A a \in Node : out'[a] = [b \in Node |-> out'[a][b]]
    BY <1>2, <1>3, <2>1
  <2> QED
    BY <1>3, <2>2
<1>6. /\ IsList(out'[m][n])
      /\ ToSet(out[m][n]) = {Head(out[m][n])} \cup ToSet(out'[m][n])
  <2>1. IsList(out[m][n])
    BY DEF Wire
  <2> QED
    BY <1>4, <2>1, TailList
<1>7. /\ IsList(out'[n][m])
      /\ ToSet(out[n][m]) \subseteq ToSet(out'[n][m])
      /\ ToSet(out'[n][m]) \subseteq ToSet(out[n][m]) \cup {answer}
  <2>1. IsList(out[n][m])
    BY DEF Wire
  <2> QED
    BY <1>1, <1>4, <2>1, AppendList
<1>8. \A a \in Node : out'[a][a] = << >>
  BY <1>1, <1>4 DEF Wire
<1>9. \A a, b \in Node : IsList(out'[a][b])
  BY <1>4, <1>6, <1>7 DEF Wire
<1>10. \A a, b \in Node : \A x \in ToSet(out'[a][b]) : x \in ToSet(out[a][b]) \/ x = answer
  BY <1>4, <1>6, <1>7
<1>11. \A a, b \in Node : \A x \in ToSet(out[a][b]) :
         x \in ToSet(out'[a][b]) \/ (a = m /\ b = n /\ x = Head(out[m][n]))
  BY <1>4, <1>6, <1>7
<1> QED
  BY <1>1, <1>5, <1>8, <1>9, <1>10, <1>11

(* What the message carries has come.                                      *)
LEMMA TakenKeeps ==
  ASSUME ExchangeInv, Grow, UNCHANGED << setup, past >>,
         NEW n \in Node, NEW m \in Node, out[m][n] # << >>,
         NEW answer, answer.type = "TRANSFERTX_RET",
         Taken(n, m) \/ Answered(n, m, answer), refused \subseteq refused',
         \A x \in refused' : x \in refused \/ (/\ x[2] = n /\ ~CanProcessBlock(n)
                                             /\ Head(out[m][n]).type = "TRANSFERTX"),
         \A t \in Tx : Carries(Head(out[m][n]), t) => Full(n, t)' \/ << m, n, t >> \in refused',
         \A a, b \in Node, t \in Tx :
           /\ item'[a][t].txSend \subseteq item[a][t].txSend
           /\ b \in item'[a][t].txReceive => b \in item[a][t].txReceive \/ Full(b, t)'
  PROVE  Wire' /\ InTime' /\ SentIsKnown'
<1>1. Sound(n, answer)' /\ \A a \in Node : Sound(a, answer)'
  BY DEF Sound
<1>2. Wire
  BY DEF ExchangeInv
<1>3. Wire'
  <2>1. /\ out' = [a \in Node |-> [b \in Node |-> out'[a][b]]]
        /\ \A a \in Node : out'[a][a] = << >>
        /\ \A a, b \in Node : IsList(out'[a][b])
        /\ \A a, b \in Node : \A x \in ToSet(out'[a][b]) : x \in ToSet(out[a][b]) \/ x = answer
    BY <1>2, TakenIs
  <2> QED
    BY <1>1, <2>1, WireKept
<1>4. \A a, b \in Node, t \in Tx :
        OnItsWay(a, b, t) => OnItsWay(a, b, t)' \/ Full(b, t)' \/ << a, b, t >> \in refused'
  <2> SUFFICES ASSUME NEW a \in Node, NEW b \in Node, NEW t \in Tx, OnItsWay(a, b, t)
               PROVE  OnItsWay(a, b, t)' \/ Full(b, t)' \/ << a, b, t >> \in refused'
    OBVIOUS
  <2>1. PICK x \in ToSet(out[a][b]) : Carries(x, t)
    BY WayCarries
  <2>2. CASE x \in ToSet(out'[a][b])
    BY <2>1, <2>2, ZenonT(60) DEF OnItsWay, Carries, ToSet, IsFullIn
  <2>3. CASE a = m /\ b = n /\ x = Head(out[m][n])
    BY <2>1, <2>3
  <2> QED
    BY <1>2, <2>1, <2>2, <2>3, TakenIs
<1>5. InTime'
  <2>1. \A a, b \in Node : \A x \in ToSet(out'[a][b]) : x \in ToSet(out[a][b]) \/ x.type # "TRANSFERTX"
    BY <1>2, TakenIs
  <2> QED
    BY <2>1, InTimeKept
<1>6. Late'
  <2> SUFFICES ASSUME NEW a \in Node, NEW b \in Node, NEW t \in Tx,
                      Near', << a, b, t >> \in refused'
               PROVE  past'[b] = 3
    BY DEF Late
  <2>1. Near /\ past \in [Node -> Pasts]
    BY DEF Near, ExchangeInv, TypeOK
  <2>2. CASE << a, b, t >> \in refused
    BY <2>1, <2>2 DEF ExchangeInv, SentIsKnown
  <2>3. CASE b = n /\ ~CanProcessBlock(n) /\ Head(out[m][n]).type = "TRANSFERTX"
    <3>1. IsList(out[m][n])
      BY <1>2 DEF Wire
    <3>2. Head(out[m][n]) \in ToSet(out[m][n])
      BY <3>1, TailList
    <3>3. past[n] >= 0
      BY <2>1, <2>3, <3>2 DEF ExchangeInv, InTime
    <3> QED
      BY <2>1, <2>3, <3>3 DEF CanProcessBlock, Pasts
  <2> QED
    BY <2>2, <2>3
<1>7. SentIsKnown'
  BY <1>4, <1>6, KnownKept
<1> QED
  BY <1>3, <1>5, <1>7
-----------------------------------------------------------------------------
(* The steps of the clock, the user and the miner.                         *)
LEMMA InitInv == Init => ExchangeInv
<1> SUFFICES ASSUME Init PROVE ExchangeInv
  OBVIOUS
<1>1. NoItem \in Items /\ NoItem.txSend = {} /\ NoItem.txReceive = {}
  BY DEF NoItem, Items
<1>2. << >> \in Seq(Tx) /\ ToSet(<< >>) = {} /\ IsInjective(<< >>) /\ IsList(<< >>)
  BY DEF ToSet, IsInjective, IsList
<1> HIDE DEF NoItem
<1>3. TypeOK
  BY <1>1, <1>2, SetupsAssumption DEF Init, TypeOK, Pasts
<1>4. Wire
  BY <1>2 DEF Init, Wire
<1>5. HaveFull
  BY DEF Init, HaveFull
<1>6. ArrOnce
  BY <1>2 DEF Init, ArrOnce
<1>7. SentIsKnown
  BY <1>1 DEF Init, SentIsKnown
<1>8. InTime
  <2>1. setup.start \in [Node -> {-1, 0}]
    BY SetupsAssumption DEF Init
  <2>2. \A n \in Node : past[n] \in {-1, 0}
    BY <2>1 DEF Init
  <2>3. \A n, m \in Node : ToSet(out[n][m]) = {}
    BY <1>2 DEF Init
  <2> QED
    BY <2>2, <2>3 DEF InTime
<1> QED
  BY <1>3, <1>4, <1>5, <1>6, <1>7, <1>8 DEF ExchangeInv

LEMMA ClockStep ==
  ASSUME ExchangeInv, UNCHANGED setup, NEW n \in Node, ClockGoes(n) \/ ClockIsSet(n)
  PROVE  ExchangeInv'
<1>1. /\ UNCHANGED << item, arr, step, have, out, refused >>
      /\ past \in [Node -> Pasts] /\ session \in [Node -> BOOLEAN] /\ upset \subseteq setup.upset
      /\ setup.last[n] \in 1 .. 3
  BY SetupsAssumption DEF ClockGoes, ClockIsSet, Shows, ExchangeInv, TypeOK
<1>2. PICK p \in Pasts : Shows(n, p)
  <2>1. CASE ClockGoes(n)
    <3>1. past[n] + 1 \in Pasts
      BY <1>1, <2>1 DEF ClockGoes, Pasts
    <3> QED
      BY <2>1, <3>1 DEF ClockGoes
  <2>2. CASE ClockIsSet(n)
    <3>1. PICK p \in -1 .. setup.last[n] : Shows(n, p)
      BY <2>2 DEF ClockIsSet
    <3>2. p \in Pasts
      BY <1>1 DEF Pasts
    <3> QED
      BY <3>1, <3>2
  <2> QED
    BY <2>1, <2>2
<1>3. past' \in [Node -> Pasts] /\ session' \in [Node -> BOOLEAN] /\ upset' \subseteq setup.upset
  BY <1>1, <1>2 DEF Shows, ClockGoes, ClockIsSet
<1>4. TypeOK'
  BY <1>1, <1>3 DEF ExchangeInv, TypeOK
<1>5. Grow
  BY <1>1 DEF ExchangeInv, TypeOK, Grow, Full
<1>6. Near => /\ past' = [past EXCEPT ![n] = @ + 1] /\ past[n] < 3
              /\ \A m \in Node : Linked(n, m) => past[n] =< past[m]
  <2>1. Near => upset = {}
    BY <1>1 DEF Near
  <2>2. Near => ClockGoes(n)
    BY <2>1 DEF ClockIsSet
  <2>3. Near => \A m \in Node : Linked(n, m) => past[n] + 1 =< past[m] + 1
    BY <2>2 DEF ClockGoes, Near
  <2>4. \A m \in Node : past[m] \in Int
    BY <1>1 DEF Pasts
  <2> QED
    BY <1>1, <2>2, <2>3, <2>4 DEF ClockGoes, Shows
<1>7. InTime'
  <2>1. \A m \in Node : past[m] \in Int
    BY <1>1 DEF Pasts
  <2>2. Near => \A m \in Node : past'[m] = IF m = n THEN past[n] + 1 ELSE past[m]
    BY <1>1, <1>6
  <2>3. Near' <=> Near
    BY DEF Near
  <2>4. \A a, b \in Node : Linked(a, b)' <=> Linked(a, b)
    BY DEF Linked
  <2>5. Near => \A a, b \in Node : Linked(a, b) => past[a] =< past[b] + 1
    BY DEF ExchangeInv, InTime
  <2>6. Near => \A a, b \in Node : Linked(a, b) => past'[a] =< past'[b] + 1
    BY <1>6, <2>1, <2>2, <2>5
  <2>7. Near => \A a, b \in Node : \A x \in ToSet(out[a][b]) : x.type = "TRANSFERTX" => past'[b] >= 0
    BY <2>1, <2>2 DEF ExchangeInv, InTime
  <2> QED
    BY <1>1, <2>3, <2>4, <2>6, <2>7 DEF InTime
<1>8. Late'
  BY <1>1, <1>6 DEF Late, Near, ExchangeInv, SentIsKnown
<1>9. Wire'
  BY <1>1, <1>5, WireKept DEF ExchangeInv, Wire
<1>10. SentIsKnown'
  <2>1. \A a, b \in Node, t \in Tx : OnItsWay(a, b, t)' <=> OnItsWay(a, b, t)
    BY <1>1 DEF OnItsWay, IsFullIn
  <2> QED
    BY <1>1, <1>5, <1>8, <2>1, KnownKept
<1>11. HaveFull' /\ ArrOnce'
  BY <1>1, <1>5, ArrKept DEF ExchangeInv, HaveFull, Full
<1> QED
  BY <1>4, <1>7, <1>9, <1>10, <1>11 DEF ExchangeInv

LEMMA TimePassesStep ==
  ASSUME ExchangeInv, UNCHANGED setup, NEW n \in Node, NEW t \in Tx, TimePasses(n, t)
  PROVE  ExchangeInv'
<1>1. /\ UNCHANGED << arr, step, past, session, upset, have, out, refused >>
      /\ item[n][t].wait \in {1, 2} /\ item' = [item EXCEPT ![n][t].wait = @ + 1]
  BY DEF TimePasses, clock
<1> DEFINE j == [item[n][t] EXCEPT !.wait = @ + 1]
           row == [item[n] EXCEPT ![t] = j]
<1>2. item[n] \in [Tx -> Items]
  BY DEF ExchangeInv, TypeOK
<1>3. j \in Items /\ j.kind = item[n][t].kind /\ j.txSend = item[n][t].txSend /\ j.txReceive = item[n][t].txReceive
  BY <1>1, <1>2 DEF Items
<1>4. item' = [item EXCEPT ![n] = row]
  BY <1>1
<1> HIDE DEF j
<1>5. row \in [Tx -> Items] /\ \A u \in Tx : /\ row[u].kind = item[n][u].kind
                                            /\ row[u].txSend = item[n][u].txSend
                                            /\ row[u].txReceive = item[n][u].txReceive
  BY <1>2, <1>3
<1> HIDE DEF row
<1>6. Grow /\ item'[n] = row /\ \A a \in Node : a # n => item'[a] = item[a]
  BY <1>4, <1>5, OneNode, ZenonT(60) DEF ExchangeInv
<1>7. TypeOK'
  BY <1>1, <1>6 DEF ExchangeInv, TypeOK, Grow
<1>8. Wire' /\ InTime' /\ SentIsKnown'
  BY <1>1, <1>5, <1>6, QuietStep
<1>9. HaveFull' /\ ArrOnce'
  BY <1>1, <1>6, HaveKept, ArrKept DEF ExchangeInv, TypeOK
<1> QED
  BY <1>7, <1>8, <1>9 DEF ExchangeInv

LEMMA AddCurrentStep ==
  ASSUME ExchangeInv, UNCHANGED setup, NEW n \in Node, NEW t \in Tx, AddCurrentProcessingTx(n, t)
  PROVE  ExchangeInv'
<1>1. /\ UNCHANGED << past, session, upset, have, out, refused >> /\ ~Full(n, t)
      /\ arr' = [arr EXCEPT ![n] = Append(@, t)] /\ step' = [step EXCEPT ![n] = BothSteps]
  BY DEF AddCurrentProcessingTx, clock
<1> DEFINE j == IF item[n][t].kind = "none" THEN NewItem("tx", None) ELSE [item[n][t] EXCEPT !.kind = "tx"]
           row == [item[n] EXCEPT ![t] = j]
<1>2. item[n] \in [Tx -> Items] /\ arr[n] \in Seq(Tx) /\ arr \in [Node -> Seq(Tx)]
  BY DEF ExchangeInv, TypeOK
<1>3. /\ j \in Items /\ j.kind = "tx" /\ j.txSend \subseteq item[n][t].txSend
      /\ j.txReceive \subseteq item[n][t].txReceive
  BY <1>2, NewItemIs, BecomesTx DEF Later
<1>4. item' = [item EXCEPT ![n] = row]
  BY DEF AddCurrentProcessingTx
<1> HIDE DEF j
<1>5. row \in [Tx -> Items] /\ row[t].kind = "tx"
      /\ \A u \in Tx : /\ item[n][u].kind = "tx" => row[u].kind = "tx"
                       /\ row[u].txSend \subseteq item[n][u].txSend
                       /\ row[u].txReceive \subseteq item[n][u].txReceive
  BY <1>2, <1>3
<1> HIDE DEF row
<1>6. Grow /\ item'[n] = row /\ \A a \in Node : a # n => item'[a] = item[a]
  BY <1>4, <1>5, OneNode DEF ExchangeInv
<1>7. Append(arr[n], t) \in Seq(Tx)
  BY <1>2
<1>8. TypeOK'
  BY <1>1, <1>2, <1>6, <1>7 DEF ExchangeInv, TypeOK, Grow, BothSteps
<1>9. Wire' /\ InTime' /\ SentIsKnown'
  BY <1>1, <1>5, <1>6, QuietStep
<1>10. HaveFull'
  BY <1>1, <1>6, HaveKept DEF ExchangeInv, TypeOK
<1>11. ArrOnce'
  <2>1. t \notin ToSet(arr[n]) /\ IsInjective(arr[n]) /\ \A u \in ToSet(arr[n]) : Full(n, u)
    BY <1>1 DEF ExchangeInv, ArrOnce
  <2>2. /\ ToSet(arr'[n]) = ToSet(arr[n]) \cup {t} /\ IsInjective(arr'[n])
        /\ ToSet(arr[n]) \subseteq Tx
    <3>1. /\ ToSet(Append(arr[n], t)) = ToSet(arr[n]) \cup {t} /\ IsInjective(Append(arr[n], t))
      BY <1>2, <2>1, AppendItem
    <3>2. arr'[n] = Append(arr[n], t)
      BY <1>1, <1>2
    <3>3. ToSet(arr[n]) \subseteq Tx
      BY <1>2 DEF ToSet
    <3> QED
      BY <3>1, <3>2, <3>3
  <2>3. \A u \in ToSet(arr'[n]) : Full(n, u)'
    BY <2>1, <2>2, <1>5, <1>6 DEF Grow, Full
  <2>4. \A a \in Node : a # n => arr'[a] = arr[a] /\ item'[a] = item[a]
    BY <1>1, <1>2, <1>6
  <2> QED
    BY <2>2, <2>3, <2>4 DEF ExchangeInv, ArrOnce, Full
<1> QED
  BY <1>8, <1>9, <1>10, <1>11 DEF ExchangeInv

LEMMA CreateBlockStep ==
  ASSUME ExchangeInv, UNCHANGED setup, NEW n \in Node, CreateBlock(n)
  PROVE  ExchangeInv'
<1>1. /\ UNCHANGED << item, arr, step, past, session, upset, out, refused >>
      /\ have' = [have EXCEPT ![n] = @ \cup {ToSet(arr[n])}]
  BY DEF CreateBlock, clock
<1>2. ToSet(arr[n]) \subseteq Tx /\ \A t \in ToSet(arr[n]) : Full(n, t)
  BY DEF ExchangeInv, TypeOK, ArrOnce, ToSet
<1>3. have' \in [Node -> SUBSET SUBSET Tx]
  BY <1>1, <1>2 DEF ExchangeInv, TypeOK
<1>4. TypeOK'
  BY <1>1, <1>3 DEF ExchangeInv, TypeOK
<1>5. Grow
  BY <1>1 DEF ExchangeInv, TypeOK, Grow, Full
<1>6. Wire' /\ InTime' /\ SentIsKnown'
  BY <1>1, <1>5, QuietStep
<1>7. \A a \in Node : \A b \in have'[a] : b \in have[a] \/ \A t \in b : Full(a, t)'
  BY <1>1, <1>2 DEF ExchangeInv, TypeOK, Full
<1>8. HaveFull'
  BY <1>3, <1>5, <1>7, HaveKept
<1>9. ArrOnce'
  BY <1>1, <1>5, ArrKept
<1> QED
  BY <1>4, <1>6, <1>8, <1>9 DEF ExchangeInv
-----------------------------------------------------------------------------
(* The messages.                                                           *)
LEMMA TicketsStep ==
  ASSUME ExchangeInv, UNCHANGED setup, NEW n \in Node, NEW m \in Node, out[m][n] # << >>,
         NEW msg, msg = Head(out[m][n]), msg.type = "TRANSFERTT", ReceiveTickets(n, m, msg)
  PROVE  ExchangeInv'
<1> DEFINE known(t) == IF item[n][t].kind = "none" THEN NewItem("ticket", m) ELSE item[n][t]
           e(t) == IF t \in msg.tt THEN [known(t) EXCEPT !.ttReceive = @ \cup {m}]
                   ELSE IF t \in msg.req /\ item[n][t].kind # "none"
                   THEN [item[n][t] EXCEPT !.ttTxReceive = @ \cup {m}]
                   ELSE item[n][t]
           row == IF m \in HotOf(n) /\ CanProcessBlock(n) THEN [t \in Tx |-> e(t)] ELSE item[n]
<1>1. /\ UNCHANGED << arr, past, session, upset, have, refused >> /\ Taken(n, m)
  BY DEF ReceiveTickets, Taken, clock
<1>2. item \in [Node -> [Tx -> Items]] /\ step \in [Node -> [tt : BOOLEAN, tx : BOOLEAN]]
  BY DEF ExchangeInv, TypeOK
<1>3. item' = [item EXCEPT ![n] = row]
  BY <1>2 DEF ReceiveTickets
<1>4. step' \in [Node -> [tt : BOOLEAN, tx : BOOLEAN]]
  <2> DEFINE new == {t \in msg.tt : item[n][t].kind = "none"}
  <2>1. step' = step \/ step' = [step EXCEPT ![n].tt = @ \/ new # {}]
    BY DEF ReceiveTickets
  <2> HIDE DEF new
  <2> QED
    BY <1>2, <2>1
<1>5. ASSUME NEW t \in Tx
      PROVE  Later(item[n][t], e(t)) /\ e(t).txReceive \subseteq item[n][t].txReceive
  <2>1. item[n][t] \in Items
    BY <1>2
  <2>2. /\ known(t) \in Items /\ known(t).txSend \subseteq item[n][t].txSend
        /\ known(t).txReceive \subseteq item[n][t].txReceive
        /\ item[n][t].kind = "tx" => known(t).kind = "tx"
    BY <2>1, NewItemIs
  <2> HIDE DEF known
  <2>3. \A i \in Items : LET j == [i EXCEPT !.ttReceive = @ \cup {m}] IN
          j \in Items /\ j.kind = i.kind /\ j.txSend = i.txSend /\ j.txReceive = i.txReceive
    BY DEF Items
  <2>4. \A i \in Items : LET j == [i EXCEPT !.ttTxReceive = @ \cup {m}] IN
          j \in Items /\ j.kind = i.kind /\ j.txSend = i.txSend /\ j.txReceive = i.txReceive
    BY DEF Items
  <2> QED
    BY <2>1, <2>2, <2>3, <2>4 DEF Later
<1> HIDE DEF e
<1>6. row \in [Tx -> Items] /\ \A t \in Tx : /\ item[n][t].kind = "tx" => row[t].kind = "tx"
                                            /\ row[t].txSend \subseteq item[n][t].txSend
                                            /\ row[t].txReceive \subseteq item[n][t].txReceive
  BY <1>2, <1>5 DEF Later
<1> HIDE DEF row
<1>7. Grow /\ item'[n] = row /\ \A a \in Node : a # n => item'[a] = item[a]
  BY <1>3, <1>6, OneNode, ZenonT(60) DEF ExchangeInv
<1>8. TypeOK'
  BY <1>1, <1>4, <1>7 DEF ExchangeInv, TypeOK, Grow
<1>9. Wire' /\ InTime' /\ SentIsKnown'
  <2>1. \A t \in Tx : ~Carries(msg, t)
    BY DEF Carries
  <2>2. \A a \in Node, t \in Tx : /\ item'[a][t].txSend \subseteq item[a][t].txSend
                                  /\ item'[a][t].txReceive \subseteq item[a][t].txReceive
    BY <1>6, <1>7
  <2> DEFINE answer == [type |-> "TRANSFERTX_RET", req |-> {}]
  <2> QED
    BY <1>1, <1>7, <2>1, <2>2, TakenKeeps, answer.type = "TRANSFERTX_RET"
<1>10. HaveFull' /\ ArrOnce'
  BY <1>1, <1>7, HaveKept, ArrKept DEF ExchangeInv, TypeOK
<1> QED
  BY <1>8, <1>9, <1>10 DEF ExchangeInv

LEMMA RequestStep ==
  ASSUME ExchangeInv, UNCHANGED setup, NEW n \in Node, NEW m \in Node, out[m][n] # << >>,
         NEW msg, msg = Head(out[m][n]), msg.type = "TRANSFERTX_RET", ReceiveRequest(n, m, msg)
  PROVE  ExchangeInv'
<1> DEFINE cleared(i) == [i EXCEPT !.txSend = @ \ {m}, !.ttTxSend = @ \ {m}, !.ttReceive = @ \ {m}]
           row == [t \in Tx |-> IF t \in msg.req THEN cleared(item[n][t]) ELSE item[n][t]]
<1>1. UNCHANGED << arr, past, session, upset, have, refused >> /\ Taken(n, m)
  BY DEF ReceiveRequest, Taken, clock
<1>2. item \in [Node -> [Tx -> Items]] /\ step \in [Node -> [tt : BOOLEAN, tx : BOOLEAN]]
  BY DEF ExchangeInv, TypeOK
<1>3. item' = [item EXCEPT ![n] = row]
  BY DEF ReceiveRequest
<1>4. step' \in [Node -> [tt : BOOLEAN, tx : BOOLEAN]]
  BY <1>2 DEF ReceiveRequest
<1>5. \A i \in Items : /\ cleared(i) \in Items /\ cleared(i).kind = i.kind
                       /\ cleared(i).txSend \subseteq i.txSend /\ cleared(i).txReceive = i.txReceive
  BY DEF Items
<1> HIDE DEF cleared
<1>6. row \in [Tx -> Items] /\ \A t \in Tx : /\ item[n][t].kind = "tx" => row[t].kind = "tx"
                                            /\ row[t].txSend \subseteq item[n][t].txSend
                                            /\ row[t].txReceive \subseteq item[n][t].txReceive
  BY <1>2, <1>5
<1> HIDE DEF row
<1>7. Grow /\ item'[n] = row /\ \A a \in Node : a # n => item'[a] = item[a]
  BY <1>3, <1>6, OneNode, ZenonT(60) DEF ExchangeInv
<1>8. TypeOK'
  BY <1>1, <1>4, <1>7 DEF ExchangeInv, TypeOK, Grow
<1>9. Wire' /\ InTime' /\ SentIsKnown'
  <2>1. \A t \in Tx : ~Carries(msg, t)
    BY DEF Carries
  <2>2. \A a \in Node, t \in Tx : /\ item'[a][t].txSend \subseteq item[a][t].txSend
                                  /\ item'[a][t].txReceive \subseteq item[a][t].txReceive
    BY <1>6, <1>7
  <2> QED
    BY <1>1, <1>7, <2>1, <2>2, TakenKeeps
<1>10. HaveFull' /\ ArrOnce'
  BY <1>1, <1>7, HaveKept, ArrKept DEF ExchangeInv, TypeOK
<1> QED
  BY <1>8, <1>9, <1>10 DEF ExchangeInv

LEMMA BodiesStep ==
  ASSUME ExchangeInv, UNCHANGED setup, NEW n \in Node, NEW m \in Node, out[m][n] # << >>,
         NEW msg, msg = Head(out[m][n]), msg.type = "TRANSFERTX", ReceiveBodies(n, m, msg)
  PROVE  ExchangeInv'
<1> DEFINE named == ToSet(Named(msg))
           full == {t \in named : IsFullIn(msg, t)}
           e(t) == IF t \in full THEN AfterBody(item[n][t], m)
                   ELSE IF t \in named THEN AfterEmpty(item[n][t], m)
                   ELSE item[n][t]
           row == IF CanProcessBlock(n) THEN [t \in Tx |-> e(t)] ELSE item[n]
           answer == [type |-> "TRANSFERTX_RET", req |-> {t \in named \ full : ~Full(n, t)}]
           new == NewBodies(n, msg)
<1>1. /\ UNCHANGED << past, session, upset, have >>
      /\ refused' = IF CanProcessBlock(n) THEN refused ELSE refused \cup {<< m, n, t >> : t \in full}
  BY DEF ReceiveBodies, clock
<1>2. /\ item \in [Node -> [Tx -> Items]] /\ step \in [Node -> [tt : BOOLEAN, tx : BOOLEAN]]
      /\ arr \in [Node -> Seq(Tx)]
  BY DEF ExchangeInv, TypeOK
<1>3. item' = [item EXCEPT ![n] = row]
  BY <1>2 DEF ReceiveBodies
<1>4. step' \in [Node -> [tt : BOOLEAN, tx : BOOLEAN]]
  <2>1. BothSteps \in [tt : BOOLEAN, tx : BOOLEAN]
    BY DEF BothSteps
  <2>2. step' = step \/ step' = [step EXCEPT ![n] = IF full # {} THEN BothSteps ELSE @]
    BY DEF ReceiveBodies
  <2> HIDE DEF full
  <2> QED
    BY <1>2, <2>1, <2>2
<1>5. Taken(n, m) \/ Answered(n, m, answer)
  BY DEF ReceiveBodies, Taken, Answered
<1>6. arr' = IF CanProcessBlock(n) THEN [arr EXCEPT ![n] = @ \o new] ELSE arr
  BY DEF ReceiveBodies
<1>7. msg \in ToSet(out[m][n]) /\ Sound(m, msg)
  <2>1. IsList(out[m][n]) /\ \A x \in ToSet(out[m][n]) : Sound(m, x)
    BY DEF ExchangeInv, Wire
  <2> QED
    BY <2>1, TailList
<1>8. /\ msg.txs \in Seq([tx : Tx, full : BOOLEAN]) /\ IsInjective(Named(msg))
      /\ \A t \in Tx : IsFullIn(msg, t) => Full(m, t)
  BY <1>7 DEF Sound
<1>9. Named(msg) \in Seq(Tx) /\ \A t \in Tx : IsFullIn(msg, t) => t \in named
  <2>1. Len(msg.txs) \in Nat /\ DOMAIN msg.txs = 1 .. Len(msg.txs)
        /\ \A k \in DOMAIN msg.txs : msg.txs[k].tx \in Tx
    <3> DEFINE list == msg.txs
               Ts == [tx : Tx, full : BOOLEAN]
    <3>1. list \in Seq(Ts) /\ \A x \in Ts : x.tx \in Tx
      BY <1>8
    <3> HIDE DEF list, Ts
    <3>2. Len(list) \in Nat /\ DOMAIN list = 1 .. Len(list) /\ \A k \in DOMAIN list : list[k] \in Ts
      BY <3>1
    <3> QED
      BY <3>1, <3>2 DEF list
  <2>2. Named(msg) \in [1 .. Len(msg.txs) -> Tx]
    BY <2>1 DEF Named
  <2>3. Named(msg) \in Seq(Tx)
    BY <2>1, <2>2
  <2>4. ASSUME NEW t \in Tx, IsFullIn(msg, t) PROVE t \in named
    <3>1. PICK k \in DOMAIN msg.txs : msg.txs[k] = [tx |-> t, full |-> TRUE]
      BY <2>4 DEF IsFullIn, ToSet
    <3>2. Named(msg)[k] = t /\ k \in DOMAIN Named(msg)
      BY <3>1 DEF Named
    <3> QED
      BY <3>2 DEF ToSet
  <2> QED
    BY <2>3, <2>4
<1>10. /\ new \in Seq(Tx) /\ IsInjective(new)
       /\ \A t \in ToSet(new) : t \in full /\ t \in Tx /\ ~Full(n, t)
  <2> DEFINE P == {t \in Tx : IsFullIn(msg, t) /\ ~Full(n, t)}
  <2>1. new = Only(Named(msg), P)
    BY DEF NewBodies
  <2>2. P \subseteq Tx /\ \A t \in P : t \in full /\ ~Full(n, t)
    BY <1>9
  <2> HIDE DEF P, new, full
  <2>3. new \in Seq(Tx) /\ IsInjective(new) /\ ToSet(new) = named \cap P
    BY <1>8, <1>9, <2>1, OnlySelects
  <2> QED
    BY <2>2, <2>3
<1>11. ASSUME NEW t \in Tx
       PROVE  /\ Later(item[n][t], e(t)) /\ (t \in full => e(t).kind = "tx")
              /\ \A b \in e(t).txReceive : b \in item[n][t].txReceive \/ (b = m /\ Full(m, t))
  <2>1. item[n][t] \in Items /\ Later(item[n][t], item[n][t])
    BY <1>2 DEF Later
  <2>2. t \in full => Full(m, t)
    BY <1>8
  <2>3. /\ Later(item[n][t], AfterBody(item[n][t], m)) /\ AfterBody(item[n][t], m).kind = "tx"
        /\ AfterBody(item[n][t], m).txReceive \subseteq item[n][t].txReceive \cup {m}
    BY <2>1, AfterBodyIs
  <2>4. /\ Later(item[n][t], AfterEmpty(item[n][t], m))
        /\ AfterEmpty(item[n][t], m).txReceive \subseteq item[n][t].txReceive
    BY <2>1, AfterEmptyIs
  <2> HIDE DEF full, named
  <2> QED
    BY <2>1, <2>2, <2>3, <2>4
<1> HIDE DEF e, answer, new
<1>12. row \in [Tx -> Items] /\ \A t \in Tx :
         /\ item[n][t].kind = "tx" => row[t].kind = "tx"
         /\ row[t].txSend \subseteq item[n][t].txSend
         /\ \A b \in row[t].txReceive : b \in item[n][t].txReceive \/ (b = m /\ Full(m, t))
         /\ CanProcessBlock(n) /\ t \in full => row[t].kind = "tx"
  BY <1>2, <1>11 DEF Later
<1> HIDE DEF row
<1>13. Grow /\ item'[n] = row /\ \A a \in Node : a # n => item'[a] = item[a]
  <2>1. row \in [Tx -> Items] /\ \A t \in Tx : item[n][t].kind = "tx" => row[t].kind = "tx"
    BY <1>12
  <2> QED
    BY <1>3, <2>1, OneNode DEF ExchangeInv
<1>14. \A t \in Tx : CanProcessBlock(n) /\ t \in full => Full(n, t)'
  BY <1>12, <1>13 DEF Full
<1>15. arr' \in [Node -> Seq(Tx)]
  <2>1. arr[n] \o new \in Seq(Tx)
    BY <1>2, <1>10
  <2> QED
    BY <1>2, <1>6, <2>1
<1>16. TypeOK'
  BY <1>1, <1>4, <1>13, <1>15 DEF ExchangeInv, TypeOK, Grow
<1>17. Wire' /\ InTime' /\ SentIsKnown'
  <2>1. \A t \in Tx : Carries(msg, t) => Full(n, t)' \/ << m, n, t >> \in refused'
    <3> SUFFICES ASSUME NEW t \in Tx, Carries(msg, t)
                 PROVE  Full(n, t)' \/ << m, n, t >> \in refused'
      OBVIOUS
    <3>1. t \in full
      BY <1>9 DEF Carries
    <3> QED
      BY <1>1, <1>14, <3>1
  <2>2. \A a, b \in Node, t \in Tx :
          /\ item'[a][t].txSend \subseteq item[a][t].txSend
          /\ b \in item'[a][t].txReceive => b \in item[a][t].txReceive \/ Full(b, t)'
    BY <1>12, <1>13 DEF Grow
  <2>3. answer.type = "TRANSFERTX_RET"
    BY DEF answer
  <2>4. refused \subseteq refused' /\ \A x \in refused' : x \in refused \/ (x[2] = n /\ ~CanProcessBlock(n))
    BY <1>1
  <2> HIDE DEF full, named
  <2> QED
    BY <1>1, <1>5, <1>13, <2>1, <2>2, <2>3, <2>4, TakenKeeps
<1>18. HaveFull'
  BY <1>1, <1>13, HaveKept DEF ExchangeInv, TypeOK
<1>19. ArrOnce'
  <2>1. CASE ~CanProcessBlock(n)
    BY <1>6, <1>13, <2>1, ArrKept
  <2>2. CASE CanProcessBlock(n)
    <3>1. /\ IsInjective(arr[n]) /\ \A t \in ToSet(arr[n]) : Full(n, t)
      BY DEF ExchangeInv, ArrOnce
    <3>2. ToSet(arr[n]) \cap ToSet(new) = {} /\ arr[n] \in Seq(Tx)
      BY <1>2, <1>10, <3>1
    <3>3. IsInjective(arr[n] \o new)
      BY <1>10, <3>1, <3>2, ConcatInjective
    <3>4. IsList(arr[n]) /\ IsList(new) /\ ToSet(arr[n]) \subseteq Tx
      <4>1. IsList(arr[n])
        BY <3>2, ListOf
      <4>2. IsList(new)
        BY <1>10, ListOf
      <4>3. ToSet(arr[n]) \subseteq Tx
        BY <3>2 DEF ToSet
      <4> QED
        BY <4>1, <4>2, <4>3
    <3>5. ToSet(arr[n] \o new) = ToSet(arr[n]) \cup ToSet(new)
      BY <3>4, ConcatList
    <3>6. arr'[n] = arr[n] \o new /\ \A a \in Node : a # n => arr'[a] = arr[a] /\ item'[a] = item[a]
      BY <1>2, <1>6, <1>13, <2>2
    <3>7. \A t \in ToSet(arr'[n]) : Full(n, t)'
      BY <3>1, <3>4, <3>5, <3>6, <1>10, <1>13, <1>14, <2>2 DEF Grow
    <3> QED
      BY <3>3, <3>6, <3>7 DEF ExchangeInv, ArrOnce, Full
  <2> QED
    BY <2>1, <2>2
<1> QED
  BY <1>16, <1>17, <1>18, <1>19 DEF ExchangeInv

LEMMA BlockStep ==
  ASSUME ExchangeInv, UNCHANGED setup, NEW n \in Node, NEW m \in Node, out[m][n] # << >>,
         NEW msg, msg = Head(out[m][n]), msg.type = "BLOCK", ReceiveBlock(n, m, msg)
  PROVE  ExchangeInv'
<1> DEFINE lost == {t \in msg.body \ msg.full : ~Full(n, t)}
           after(t) == LET i == item[n][t] IN
                       IF i.kind = "none" THEN [NewItem("tx", None) EXCEPT !.txReceive = {m}]
                       ELSE [i EXCEPT !.kind = "tx", !.txReceive = @ \cup {m}]
           e(t) == IF t \in msg.body \ lost THEN after(t) ELSE item[n][t]
           row == IF msg.body \in have[n] THEN item[n] ELSE [t \in Tx |-> e(t)]
<1>1. UNCHANGED << arr, step, past, session, upset, refused >> /\ Taken(n, m)
  BY DEF ReceiveBlock, Taken, clock
<1>2. item \in [Node -> [Tx -> Items]] /\ have \in [Node -> SUBSET SUBSET Tx]
  BY DEF ExchangeInv, TypeOK
<1>3. item' = [item EXCEPT ![n] = row]
  BY <1>2 DEF ReceiveBlock
<1>4. have' = have \/ (msg.body \notin have[n] /\ lost = {} /\ have' = [have EXCEPT ![n] = @ \cup {msg.body}])
  BY DEF ReceiveBlock
<1>5. msg.body \subseteq Tx /\ msg.full \subseteq msg.body /\ \A t \in msg.body : Full(m, t)
  <2>1. IsList(out[m][n]) /\ \A x \in ToSet(out[m][n]) : Sound(m, x)
    BY DEF ExchangeInv, Wire
  <2>2. Sound(m, msg)
    BY <2>1, TailList
  <2> QED
    BY <2>2 DEF Sound
<1>6. ASSUME NEW t \in Tx
      PROVE  /\ Later(item[n][t], after(t)) /\ after(t).kind = "tx"
             /\ after(t).txReceive \subseteq item[n][t].txReceive \cup {m}
  <2>1. item[n][t] \in Items
    BY <1>2
  <2>2. CASE item[n][t].kind = "none"
    <3> DEFINE new == NewItem("tx", None)
    <3>1. new \in Items /\ new.kind = "tx" /\ new.txSend = {} /\ new.txReceive = {}
      BY NewItemIs
    <3> HIDE DEF new
    <3>2. LET j == [new EXCEPT !.txReceive = {m}] IN
          j \in Items /\ j.kind = "tx" /\ j.txSend = {} /\ j.txReceive = {m}
      BY <3>1 DEF Items
    <3> QED
      BY <2>2, <3>2 DEF Later, new
  <2>3. CASE item[n][t].kind # "none"
    BY <2>1, <2>3 DEF Later, Items
  <2> QED
    BY <2>2, <2>3
<1> HIDE DEF after
<1>7. row \in [Tx -> Items] /\ \A t \in Tx :
        /\ item[n][t].kind = "tx" => row[t].kind = "tx"
        /\ row[t].txSend \subseteq item[n][t].txSend
        /\ \A b \in row[t].txReceive : b \in item[n][t].txReceive \/ (b = m /\ Full(m, t))
        /\ msg.body \notin have[n] /\ t \in msg.body \ lost => row[t].kind = "tx"
  <2>1. \A t \in Tx : /\ Later(item[n][t], e(t))
                      /\ \A b \in e(t).txReceive : b \in item[n][t].txReceive \/ (b = m /\ Full(m, t))
                      /\ t \in msg.body \ lost => e(t).kind = "tx"
    BY <1>2, <1>5, <1>6 DEF Later
  <2> HIDE DEF e, lost
  <2> QED
    BY <1>2, <2>1 DEF Later
<1> HIDE DEF row
<1>8. Grow /\ item'[n] = row /\ \A a \in Node : a # n => item'[a] = item[a]
  <2>1. row \in [Tx -> Items] /\ \A t \in Tx : item[n][t].kind = "tx" => row[t].kind = "tx"
    BY <1>7
  <2> QED
    BY <1>3, <2>1, OneNode DEF ExchangeInv
<1>9. \A t \in Tx : msg.body \notin have[n] /\ t \in msg.body \ lost => Full(n, t)'
  BY <1>7, <1>8 DEF Full
<1>10. have' \in [Node -> SUBSET SUBSET Tx]
  BY <1>2, <1>4, <1>5
<1>11. TypeOK'
  BY <1>1, <1>8, <1>10 DEF ExchangeInv, TypeOK, Grow
<1>12. Wire' /\ InTime' /\ SentIsKnown'
  <2>1. ASSUME NEW t \in Tx, Carries(msg, t) PROVE Full(n, t)'
    <3>1. t \in msg.full /\ t \in msg.body
      BY <1>5, <2>1 DEF Carries
    <3>2. CASE msg.body \in have[n]
      BY <1>8, <3>1, <3>2 DEF ExchangeInv, HaveFull, Grow
    <3>3. CASE msg.body \notin have[n]
      BY <1>9, <3>1, <3>3
    <3> QED
      BY <3>2, <3>3
  <2>2. \A a, b \in Node, t \in Tx :
          /\ item'[a][t].txSend \subseteq item[a][t].txSend
          /\ b \in item'[a][t].txReceive => b \in item[a][t].txReceive \/ Full(b, t)'
    BY <1>7, <1>8 DEF Grow
  <2> DEFINE answer == [type |-> "TRANSFERTX_RET", req |-> {}]
  <2>3. answer.type = "TRANSFERTX_RET"
    OBVIOUS
  <2> HIDE DEF answer
  <2> QED
    BY <1>1, <1>8, <2>1, <2>2, <2>3, TakenKeeps
<1>13. HaveFull'
  <2>1. \A a \in Node : \A b \in have'[a] : b \in have[a] \/ \A t \in b : Full(a, t)'
    <3>1. CASE have' = have
      BY <3>1
    <3>2. CASE msg.body \notin have[n] /\ lost = {} /\ have' = [have EXCEPT ![n] = @ \cup {msg.body}]
      <4>1. \A t \in msg.body : Full(n, t)'
        BY <1>5, <1>9, <3>2
      <4>2. \A a \in Node : \A b \in have'[a] : b \in have[a] \/ (a = n /\ b = msg.body)
        BY <1>2, <3>2
      <4> QED
        BY <4>1, <4>2
    <3> QED
      BY <1>4, <3>1, <3>2
  <2> QED
    BY <1>8, <1>10, <2>1, HaveKept
<1>14. ArrOnce'
  BY <1>1, <1>8, ArrKept
<1> QED
  BY <1>11, <1>12, <1>13, <1>14 DEF ExchangeInv

LEMMA ReceiveStep ==
  ASSUME ExchangeInv, UNCHANGED setup, NEW n \in Node, NEW m \in Node, Receive(n, m)
  PROVE  ExchangeInv'
<1> DEFINE msg == Head(out[m][n])
<1>1. out[m][n] # << >>
  BY DEF Receive
<1>2. \/ msg.type = "TRANSFERTT" /\ ReceiveTickets(n, m, msg)
      \/ msg.type = "TRANSFERTX" /\ ReceiveBodies(n, m, msg)
      \/ msg.type = "TRANSFERTX_RET" /\ ReceiveRequest(n, m, msg)
      \/ msg.type = "BLOCK" /\ ReceiveBlock(n, m, msg)
  BY DEF Receive
<1> QED
  BY <1>1, <1>2, TicketsStep, BodiesStep, RequestStep, BlockStep
-----------------------------------------------------------------------------
(* A node sends to some of its neighbours: what a transaction is marked    *)
(* for is in the message.                                                  *)
LEMMA SentKeeps ==
  ASSUME ExchangeInv, Grow, UNCHANGED << setup, past, refused >>,
         NEW n \in Node, NEW row, out' = [out EXCEPT ![n] = row], row = [m \in Node |-> row[m]],
         row[n] = << >>,
         \A m \in Node : /\ IsList(row[m]) /\ ToSet(out[n][m]) \subseteq ToSet(row[m])
                         /\ \A x \in ToSet(row[m]) : x \in ToSet(out[n][m]) \/ Sound(n, x)',
         \A m \in Node : \A x \in ToSet(row[m]) :
           x \in ToSet(out[n][m]) \/ x.type # "TRANSFERTX" \/ ~Near \/ past[m] >= 0,
         \A a, b \in Node, t \in Tx :
           /\ b \in item'[a][t].txReceive => b \in item[a][t].txReceive
           /\ b \in item'[a][t].txSend /\ b \notin item[a][t].txSend =>
                a = n /\ \E x \in ToSet(row[b]) : Carries(x, t)
  PROVE  Wire' /\ InTime' /\ SentIsKnown'
<1>1. /\ out' = [a \in Node |-> out'[a]] /\ out'[n] = row
      /\ \A a \in Node : a # n => out'[a] = out[a]
  BY DEF ExchangeInv, Wire
<1>2. \A a \in Node : out'[a] = [b \in Node |-> out'[a][b]]
  BY <1>1 DEF ExchangeInv, Wire
<1>3. out' = [a \in Node |-> [b \in Node |-> out'[a][b]]]
  BY <1>1, <1>2
<1>4. \A a \in Node : out'[a][a] = << >>
  BY <1>1 DEF ExchangeInv, Wire
<1>5. \A a, b \in Node : /\ IsList(out'[a][b]) /\ ToSet(out[a][b]) \subseteq ToSet(out'[a][b])
                         /\ \A x \in ToSet(out'[a][b]) : x \in ToSet(out[a][b]) \/ Sound(a, x)'
  BY <1>1 DEF ExchangeInv, Wire
<1>6. Wire'
  BY <1>3, <1>4, <1>5, WireKept
<1>7. ASSUME NEW a \in Node, NEW b \in Node, NEW t \in Tx, NEW x \in ToSet(out'[a][b]), Carries(x, t)
      PROVE  OnItsWay(a, b, t)'
  <2>1. PICK k \in DOMAIN out'[a][b] : out'[a][b][k] = x
    BY DEF ToSet
  <2> QED
    BY <1>7, <2>1 DEF OnItsWay, Carries, IsFullIn
<1>8. \A a, b \in Node, t \in Tx : OnItsWay(a, b, t) => OnItsWay(a, b, t)'
  BY <1>5, <1>7, WayCarries
<1>9. SentIsKnown'
  BY <1>1, <1>7, <1>8, LateKept, KnownKept
<1>10. InTime'
  <2>1. \A a, b \in Node : \A x \in ToSet(out'[a][b]) :
          x \in ToSet(out[a][b]) \/ x.type # "TRANSFERTX" \/ ~Near \/ past[b] >= 0
    BY <1>1
  <2> QED
    BY <2>1, InTimeKept
<1> QED
  BY <1>6, <1>9, <1>10

LEMMA SendBlockStep ==
  ASSUME ExchangeInv, UNCHANGED setup, NEW n \in Node, NEW m \in Node, NEW body \in have[n],
         SendBlock(n, m, body)
  PROVE  ExchangeInv'
<1> DEFINE full == {t \in body : ~Knows(item[n][t], m)}
<1>0. PICK x : x = [type |-> "BLOCK", body |-> body, full |-> full]
  OBVIOUS
<1> DEFINE i(t) == IF item[n][t].kind = "none" THEN NewItem("tx", None) ELSE [item[n][t] EXCEPT !.kind = "tx"]
           e(t) == IF t \notin body THEN item[n][t] ELSE MarkSent(i(t), t \in full, m)
           items == [t \in Tx |-> e(t)]
           row == [out[n] EXCEPT ![m] = Append(@, x)]
<1>1. /\ UNCHANGED << arr, step, past, session, upset, have, refused >> /\ n # m
      /\ out' = [out EXCEPT ![n] = row] /\ item' = [item EXCEPT ![n] = items]
  <2>1. item' = [item EXCEPT ![n] = items]
    BY DEF SendBlock
  <2>2. out' = [out EXCEPT ![n] = row]
    BY <1>0 DEF SendBlock
  <2> QED
    BY <2>1, <2>2 DEF SendBlock, Linked, clock
<1>2. item \in [Node -> [Tx -> Items]] /\ have \in [Node -> SUBSET SUBSET Tx] /\ body \subseteq Tx
  BY DEF ExchangeInv, TypeOK
<1>3. ASSUME NEW t \in Tx
      PROVE  /\ e(t) \in Items /\ (t \in body \/ item[n][t].kind = "tx" => e(t).kind = "tx")
             /\ e(t).txReceive \subseteq item[n][t].txReceive
             /\ \A b \in e(t).txSend : b \in item[n][t].txSend \/ (b = m /\ t \in full)
  <2>1. item[n][t] \in Items
    BY <1>2
  <2>2. /\ i(t) \in Items /\ i(t).kind = "tx" /\ i(t).txSend \subseteq item[n][t].txSend
        /\ i(t).txReceive \subseteq item[n][t].txReceive
    BY <2>1, NewItemIs, BecomesTx DEF Later
  <2> HIDE DEF i
  <2>3. LET j == MarkSent(i(t), t \in full, m) IN
        /\ j \in Items /\ j.kind = "tx" /\ j.txReceive = i(t).txReceive
        /\ j.txSend \subseteq i(t).txSend \cup {m} /\ (t \notin full => j.txSend = i(t).txSend)
    <3>1. (t \in full) \in BOOLEAN
      OBVIOUS
    <3> HIDE DEF full
    <3> QED
      BY <2>2, <3>1, MarkSentIs
  <2> HIDE DEF full
  <2> QED
    BY <2>1, <2>2, <2>3
<1> HIDE DEF e
<1>4. items \in [Tx -> Items] /\ \A t \in Tx : item[n][t].kind = "tx" => items[t].kind = "tx"
  BY <1>3
<1>5. Grow /\ item'[n] = items /\ \A a \in Node : a # n => item'[a] = item[a]
  BY <1>1, <1>4, OneNode DEF ExchangeInv
<1>6. TypeOK'
  BY <1>1, <1>5 DEF ExchangeInv, TypeOK, Grow
<1>7. Wire' /\ InTime' /\ SentIsKnown'
  <2>1. \A b \in Node : IsList(out[n][b])
    BY DEF ExchangeInv, Wire
  <2>2. DOMAIN out[n] = Node /\ out[n] = [b \in Node |-> out[n][b]] /\ out[n][n] = << >>
    BY DEF ExchangeInv, Wire
  <2>3. row = [b \in Node |-> row[b]] /\ row[n] = << >> /\ row[m] = Append(out[n][m], x)
        /\ \A b \in Node : b # m => row[b] = out[n][b]
    BY <2>2, <1>1
  <2>4. IsList(row[m]) /\ ToSet(row[m]) = ToSet(out[n][m]) \cup {x}
    BY <2>1, <2>3, AppendList
  <2>5. Sound(n, x)'
    <3>1. \A t \in body : Full(n, t)'
      BY <1>2, <1>3, <1>5 DEF Full
    <3> QED
      BY <1>0, <1>2, <3>1 DEF Sound
  <2>6. \A a, b \in Node, t \in Tx :
           /\ b \in item'[a][t].txReceive => b \in item[a][t].txReceive
           /\ b \in item'[a][t].txSend /\ b \notin item[a][t].txSend => a = n /\ b = m /\ t \in full
    BY <1>3, <1>5
  <2>7. \A t \in full : Carries(x, t)
    BY <1>0 DEF Carries
  <2>10. x.type = "BLOCK"
    BY <1>0
  <2>11. \A b \in Node : \A y \in ToSet(row[b]) :
           y \in ToSet(out[n][b]) \/ y.type # "TRANSFERTX" \/ ~Near \/ past[b] >= 0
    BY <2>3, <2>4, <2>10
  <2> HIDE DEF row, full
  <2>8. \A b \in Node : /\ IsList(row[b]) /\ ToSet(out[n][b]) \subseteq ToSet(row[b])
                        /\ \A y \in ToSet(row[b]) : y \in ToSet(out[n][b]) \/ Sound(n, y)'
    BY <2>1, <2>3, <2>4, <2>5
  <2>9. \A a, b \in Node, t \in Tx :
           b \in item'[a][t].txSend /\ b \notin item[a][t].txSend =>
                a = n /\ \E y \in ToSet(row[b]) : Carries(y, t)
    BY <2>4, <2>6, <2>7
  <2> QED
    BY <1>1, <1>5, <2>3, <2>6, <2>8, <2>9, <2>11, SentKeeps, ZenonT(60)
<1>8. HaveFull' /\ ArrOnce'
  BY <1>1, <1>2, <1>5, HaveKept, ArrKept
<1> QED
  BY <1>6, <1>7, <1>8 DEF ExchangeInv

LEMMA TicketsSentIs ==
  ASSUME NEW its \in [Tx -> Items], NEW to \in SUBSET Node
  PROVE  /\ TicketsSent(its, to) \in [Tx -> Items]
         /\ \A t \in Tx : /\ TicketsSent(its, to)[t].kind = its[t].kind
                          /\ TicketsSent(its, to)[t].txSend = its[t].txSend
                          /\ TicketsSent(its, to)[t].txReceive = its[t].txReceive
<1> DEFINE sent == [m \in to |-> ToSet(Tickets(its, m))]
           looked == UNION {LookedAt(its, m) : m \in to}
           told(t) == {m \in to : t \in sent[m]}
           time(t) == IF its[t].wait = 0 /\ t \in looked THEN 1 ELSE its[t].wait
           e(t) == [its[t] EXCEPT !.ttSend = @ \cup told(t), !.wait = time(t)]
<1>1. TicketsSent(its, to) = [t \in Tx |-> e(t)]
  BY DEF TicketsSent
<1>2. ASSUME NEW t \in Tx
      PROVE  e(t) \in Items /\ e(t).kind = its[t].kind /\ e(t).txSend = its[t].txSend
             /\ e(t).txReceive = its[t].txReceive
  <2>1. told(t) \subseteq Node
    OBVIOUS
  <2>2. its[t] \in Items /\ time(t) \in 0 .. 3
    BY DEF Items
  <2> HIDE DEF told, time, sent, looked
  <2> QED
    BY <2>1, <2>2 DEF Items
<1> HIDE DEF e
<1> QED
  BY <1>1, <1>2

LEMMA BodiesSentIs ==
  ASSUME NEW its \in [Tx -> Items], NEW list, NEW to \in SUBSET Node
  PROVE  /\ BodiesSent(its, list, to) \in [Tx -> Items]
         /\ \A t \in Tx :
              /\ BodiesSent(its, list, to)[t].kind = its[t].kind
              /\ BodiesSent(its, list, to)[t].txReceive = its[t].txReceive
              /\ \A b \in BodiesSent(its, list, to)[t].txSend :
                   b \in its[t].txSend \/ (b \in to /\ t \in ToSet(Bodies(its, list, b)) /\ ~Empty(its[t], b))
<1> DEFINE full(t) == {m \in to : t \in ToSet(Bodies(its, list, m)) /\ ~Empty(its[t], m)}
           empty(t) == {m \in to : t \in ToSet(Bodies(its, list, m)) /\ Empty(its[t], m)}
           e(t) == [its[t] EXCEPT !.txSend = @ \cup full(t), !.ttTxSend = @ \cup empty(t)]
<1>1. BodiesSent(its, list, to) = [t \in Tx |-> e(t)]
  BY DEF BodiesSent
<1>2. ASSUME NEW t \in Tx
      PROVE  e(t) \in Items /\ e(t).kind = its[t].kind /\ e(t).txReceive = its[t].txReceive
             /\ e(t).txSend = its[t].txSend \cup full(t)
  <2>1. full(t) \subseteq Node /\ empty(t) \subseteq Node
    OBVIOUS
  <2> HIDE DEF full, empty
  <2> QED
    BY <2>1 DEF Items
<1> HIDE DEF e
<1> QED
  BY <1>1, <1>2

LEMMA TickStep ==
  ASSUME ExchangeInv, UNCHANGED setup, NEW n \in Node, Tick(n)
  PROVE  ExchangeInv'
<1> DEFINE to == HotOf(n)
           list == arr[n]
           first == IF step[n].tt THEN TicketsSent(item[n], to) ELSE item[n]
           items == IF step[n].tx THEN BodiesSent(first, list, to) ELSE first
           tt(m) == IF step[n].tt /\ Tickets(item[n], m) # << >> THEN << TicketMessage(item[n], m) >> ELSE << >>
           tx(m) == IF step[n].tx /\ Bodies(first, list, m) # << >> THEN << BodyMessage(first, list, m) >> ELSE << >>
           row == [m \in Node |-> IF m \in to THEN out[n][m] \o tt(m) \o tx(m) ELSE out[n][m]]
<1>1. UNCHANGED << arr, past, session, upset, have, refused >>
  BY DEF Tick, clock
<1>2. /\ item \in [Node -> [Tx -> Items]] /\ step \in [Node -> [tt : BOOLEAN, tx : BOOLEAN]]
      /\ list \in Seq(Tx) /\ IsInjective(list) /\ to \in SUBSET Node /\ n \notin to
  BY DEF ExchangeInv, TypeOK, ArrOnce, HotOf, Linked
<1>3. item' = [item EXCEPT ![n] = items] /\ out' = [out EXCEPT ![n] = row]
  <2>1. Ticked(n).item = items
    BY DEF Ticked
  <2>2. Ticked(n).out = row
    BY DEF Ticked
  <2> QED
    BY <2>1, <2>2 DEF Tick
<1>4. step' \in [Node -> [tt : BOOLEAN, tx : BOOLEAN]]
  <2>1. Ticked(n).more = (step[n].tx /\ WasBreak(first, list, to))
    BY DEF Ticked
  <2>2. step' = [step EXCEPT ![n].tx = step[n].tx /\ WasBreak(first, list, to)]
    BY <2>1 DEF Tick
  <2> QED
    BY <1>2, <2>2
<1>5. first \in [Tx -> Items] /\ \A t \in Tx : /\ first[t].kind = item[n][t].kind
                                              /\ first[t].txSend = item[n][t].txSend
                                              /\ first[t].txReceive = item[n][t].txReceive
  BY <1>2, TicketsSentIs
<1> HIDE DEF first
<1>6. items \in [Tx -> Items] /\ \A t \in Tx :
        /\ items[t].kind = item[n][t].kind /\ items[t].txReceive = item[n][t].txReceive
        /\ \A b \in items[t].txSend :
             b \in item[n][t].txSend
             \/ (step[n].tx /\ b \in to /\ t \in ToSet(Bodies(first, list, b)) /\ ~Empty(first[t], b))
  <2>1. CASE step[n].tx
    BY <1>2, <1>5, <2>1, BodiesSentIs
  <2>2. CASE ~step[n].tx
    BY <1>5, <2>2
  <2> QED
    BY <2>1, <2>2
<1> HIDE DEF items
<1>7. Grow /\ item'[n] = items /\ \A a \in Node : a # n => item'[a] = item[a]
  <2>1. \A t \in Tx : item[n][t].kind = "tx" => items[t].kind = "tx"
    BY <1>6
  <2> QED
    BY <1>3, <1>6, <2>1, OneNode DEF ExchangeInv
<1>8. TypeOK'
  BY <1>1, <1>4, <1>7 DEF ExchangeInv, TypeOK, Grow
<1>9. ASSUME NEW m \in Node
      PROVE  /\ IsList(row[m]) /\ ToSet(out[n][m]) \subseteq ToSet(row[m])
             /\ \A y \in ToSet(row[m]) :
                  y \in ToSet(out[n][m]) \/ y = TicketMessage(item[n], m) \/ y = BodyMessage(first, list, m)
             /\ step[n].tx /\ m \in to /\ Bodies(first, list, m) # << >> =>
                  BodyMessage(first, list, m) \in ToSet(row[m])
  <2>1. IsList(out[n][m])
    BY DEF ExchangeInv, Wire
  <2>2. ASSUME NEW y PROVE IsList(<< y >>) /\ ToSet(<< y >>) = {y} /\ IsList(<< >>) /\ ToSet(<< >>) = {}
    BY DEF IsList, ToSet
  <2>3. IsList(tt(m)) /\ ToSet(tt(m)) \subseteq {TicketMessage(item[n], m)}
    BY <2>2
  <2>4. /\ IsList(tx(m)) /\ ToSet(tx(m)) \subseteq {BodyMessage(first, list, m)}
        /\ step[n].tx /\ Bodies(first, list, m) # << >> => BodyMessage(first, list, m) \in ToSet(tx(m))
    BY <2>2
  <2> HIDE DEF tt, tx
  <2>5. /\ IsList(out[n][m] \o tt(m))
        /\ ToSet(out[n][m] \o tt(m)) = ToSet(out[n][m]) \cup ToSet(tt(m))
    BY <2>1, <2>3, ConcatList
  <2>6. /\ IsList(out[n][m] \o tt(m) \o tx(m))
        /\ ToSet(out[n][m] \o tt(m) \o tx(m)) = ToSet(out[n][m] \o tt(m)) \cup ToSet(tx(m))
    BY <2>4, <2>5, ConcatList
  <2>7. row[m] = IF m \in to THEN out[n][m] \o tt(m) \o tx(m) ELSE out[n][m]
    OBVIOUS
  <2> HIDE DEF row, to
  <2> QED
    BY <2>1, <2>3, <2>4, <2>5, <2>6, <2>7
<1>10. row = [m \in Node |-> row[m]] /\ row[n] = << >>
  <2>1. row[n] = out[n][n]
    BY <1>2
  <2> QED
    BY <2>1 DEF ExchangeInv, Wire
<1> HIDE DEF row, to, list
<1>11. ASSUME NEW m \in Node
       PROVE  /\ \A t \in ToSet(Bodies(first, list, m)) : t \in Tx /\ first[t].kind = "tx"
              /\ LET x == BodyMessage(first, list, m) IN
                 /\ x.type = "TRANSFERTX" /\ x.txs \in Seq([tx : Tx, full : BOOLEAN]) /\ IsInjective(Named(x))
                 /\ \A t : IsFullIn(x, t) <=> t \in ToSet(Bodies(first, list, m)) /\ ~Empty(first[t], m)
  BY <1>2, <1>5, BodyMessageIs
<1>12. ASSUME NEW m \in Node, NEW x, x = BodyMessage(first, list, m) PROVE Sound(n, x)'
  <2>1. ASSUME NEW t \in Tx, IsFullIn(x, t) PROVE Full(n, t)'
    BY <1>5, <1>6, <1>7, <1>11, <1>12, <2>1 DEF Full
  <2> QED
    BY <1>11, <1>12, <2>1 DEF Sound, Named, IsFullIn
<1>13. ASSUME NEW m \in Node, NEW x, x = TicketMessage(item[n], m) PROVE Sound(n, x)'
  BY <1>13 DEF Sound, TicketMessage
<1>14. Wire' /\ InTime' /\ SentIsKnown'
  <2>1. \A m \in Node : /\ IsList(row[m]) /\ ToSet(out[n][m]) \subseteq ToSet(row[m])
                        /\ \A x \in ToSet(row[m]) : x \in ToSet(out[n][m]) \/ Sound(n, x)'
    BY <1>9, <1>12, <1>13
  <2>2. ASSUME NEW a \in Node, NEW b \in Node, NEW t \in Tx
        PROVE  /\ b \in item'[a][t].txReceive => b \in item[a][t].txReceive
               /\ b \in item'[a][t].txSend /\ b \notin item[a][t].txSend =>
                    a = n /\ \E x \in ToSet(row[b]) : Carries(x, t)
    <3>1. CASE a # n
      BY <1>7, <3>1
    <3>2. CASE a = n
      <4>1. b \in item'[a][t].txReceive => b \in item[a][t].txReceive
        BY <1>6, <1>7, <3>2
      <4>2. ASSUME b \in item'[a][t].txSend, b \notin item[a][t].txSend
            PROVE  \E x \in ToSet(row[b]) : Carries(x, t)
        <5>1. step[n].tx /\ b \in to /\ t \in ToSet(Bodies(first, list, b)) /\ ~Empty(first[t], b)
          BY <1>6, <1>7, <3>2, <4>2
        <5>2. Bodies(first, list, b) # << >>
          BY <5>1 DEF ToSet
        <5>3. BodyMessage(first, list, b) \in ToSet(row[b])
          BY <1>9, <5>1, <5>2
        <5>4. Carries(BodyMessage(first, list, b), t)
          BY <1>11, <5>1 DEF Carries
        <5> QED
          BY <5>3, <5>4
      <4> QED
        BY <3>2, <4>1, <4>2
    <3> QED
      BY <3>1, <3>2
  <2>3. ASSUME NEW m \in Node, NEW x \in ToSet(row[m]), x.type = "TRANSFERTX", x \notin ToSet(out[n][m]), Near
        PROVE  past[m] >= 0
    <3>1. m \in HotOf(n) \/ row[m] = out[n][m]
      BY DEF row, to
    <3>2. Linked(n, m)
      BY <2>3, <3>1 DEF HotOf
    <3>3. past[n] >= 1 /\ past \in [Node -> Pasts]
      BY DEF Tick, TimerRuns, ExchangeInv, TypeOK
    <3>4. past[n] =< past[m] + 1
      BY <2>3, <3>2 DEF ExchangeInv, InTime
    <3> QED
      BY <3>3, <3>4 DEF Pasts
  <2> QED
    BY <1>1, <1>3, <1>7, <1>10, <2>1, <2>2, <2>3, SentKeeps
<1>15. HaveFull' /\ ArrOnce'
  BY <1>1, <1>7, HaveKept, ArrKept DEF ExchangeInv, TypeOK
<1> QED
  BY <1>8, <1>14, <1>15 DEF ExchangeInv
-----------------------------------------------------------------------------
LEMMA ExchangeNext == ExchangeInv /\ [Next]_vars => ExchangeInv'
<1> SUFFICES ASSUME ExchangeInv, [Next]_vars PROVE ExchangeInv'
  OBVIOUS
<1>1. CASE UNCHANGED vars
  <2>1. UNCHANGED << setup, item, arr, step, past, session, upset, have, out, refused >>
    BY <1>1 DEF vars, clock
  <2>2. TypeOK'
    BY <2>1 DEF ExchangeInv, TypeOK
  <2>3. Grow
    BY <2>1 DEF ExchangeInv, TypeOK, Grow, Full
  <2>4. Wire' /\ InTime' /\ SentIsKnown'
    BY <2>1, <2>3, QuietStep
  <2>5. HaveFull' /\ ArrOnce'
    BY <2>1, <2>3, ArrKept DEF ExchangeInv, HaveFull, Full
  <2> QED
    BY <2>2, <2>4, <2>5 DEF ExchangeInv
<1>2. CASE Next
  <2>1. UNCHANGED setup
    BY <1>2 DEF Next
  <2>2. PICK n \in Node :
          \/ Tick(n) \/ ClockGoes(n) \/ ClockIsSet(n) \/ CreateBlock(n)
          \/ \E t \in Tx : AddCurrentProcessingTx(n, t) \/ TimePasses(n, t)
          \/ \E m \in Node : Receive(n, m) \/ \E body \in have[n] : SendBlock(n, m, body)
    BY <1>2 DEF Next
  <2>3. CASE Tick(n)
    BY <2>1, <2>3, TickStep
  <2>4. CASE ClockGoes(n) \/ ClockIsSet(n)
    BY <2>1, <2>4, ClockStep
  <2>5. CASE CreateBlock(n)
    BY <2>1, <2>5, CreateBlockStep
  <2>6. CASE \E t \in Tx : AddCurrentProcessingTx(n, t) \/ TimePasses(n, t)
    BY <2>1, <2>6, AddCurrentStep, TimePassesStep
  <2>7. CASE \E m \in Node : Receive(n, m) \/ \E body \in have[n] : SendBlock(n, m, body)
    BY <2>1, <2>7, ReceiveStep, SendBlockStep
  <2> QED
    BY <2>2, <2>3, <2>4, <2>5, <2>6, <2>7
<1> QED
  BY <1>1, <1>2

LEMMA ExchangeAlways == Spec => []ExchangeInv
BY InitInv, ExchangeNext, PTL DEF Spec

(* No block is made of a transaction twice, or of one without its body:    *)
(* FillBodyFromTransfer takes the list as it is, and it is filled from the *)
(* node's own users and from any neighbours at once (jinn-tx.js).          *)
THEOREM ListsHaveTxOnce == Spec => []ArrOnce
<1>1. ExchangeInv => ArrOnce
  BY DEF ExchangeInv
<1> QED
  BY <1>1, ExchangeAlways, PTL

(* A bit that says a neighbour was sent a transaction is never wrong in a  *)
(* way that keeps the transaction from it, unless the neighbour refused    *)
(* its number when it came: it has it, or the transaction is on its way    *)
(* (SendTx, TRANSFERTX, ProcessBlockOnSend and ProcessBlockOnReceive in    *)
(* any order, whatever the clocks show).  Where clocks stay within one     *)
(* number of each other only an old number is refused (CanProcessBlock).   *)
THEOREM BitsAreTrue == Spec => []SentIsKnown
<1>1. ExchangeInv => SentIsKnown
  BY DEF ExchangeInv
<1> QED
  BY <1>1, ExchangeAlways, PTL
=============================================================================
