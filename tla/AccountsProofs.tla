--------------------------- MODULE AccountsProofs ---------------------------
(***************************************************************************)
(* What blocks keep of the accounts, for every set of transactions, every  *)
(* beginning, every number of cents in a coin and every sequence of blocks *)
(* executed and taken back.                                                *)
(*                                                                         *)
(* Types          every variable keeps its type                            *)
(* SupplyIsKept   money is neither made nor lost                           *)
(* NeverOverdrawn no account is overdrawn                                  *)
(* PaysOnce       no transfer is executed twice in a chain                 *)
(* Dense          account numbers have no gap                              *)
(* HistoryIsTrue  the history of an account adds up to its balance         *)
(* UndoIsExact    a block taken back leaves the accounts it has found      *)
(*                                                                         *)
(* A transaction is followed through its copies of the accounts (TrOK,     *)
(* from BlockShape), its end is added to the block (BlockOK), the block    *)
(* to the files (LogOK, FileOK), and what a block has written says what    *)
(* taking it back leaves (Wrote).  Inv puts these together.                *)
(***************************************************************************)
EXTENDS Accounts, Loops, SequenceTheorems, TLAPS

(* Sums of money.                                                          *)
LEMMA Carry ==
  ASSUME NEW x \in Int, NEW y \in Int
  PROVE  /\ (x + y) * Cents = x * Cents + y * Cents
         /\ (x - y) * Cents = x * Cents - y * Cents
         /\ (x + y + 1) * Cents = x * Cents + y * Cents + Cents
         /\ (x - y - 1) * Cents = x * Cents - y * Cents - Cents
BY CentsAssumption, SMT

(* A sum of two coins is a coin of the worth of both (ADD): no cent is     *)
(* lost in the carry, and one carry is enough.                             *)
THEOREM AddExact ==
  ASSUME NEW a \in Coin, NEW b \in Coin
  PROVE  ADD(a, b) \in Coin /\ Worth(ADD(a, b)) = Worth(a) + Worth(b)
<1>1. /\ a.coin \in Nat /\ a.cent \in 0 .. Cents - 1
      /\ b.coin \in Nat /\ b.cent \in 0 .. Cents - 1
  BY DEF Coin
<1>2. a.coin \in Int /\ b.coin \in Int
  BY <1>1
<1>3. CASE a.cent + b.cent >= Cents
  <2>1. ADD(a, b) = [coin |-> a.coin + b.coin + 1, cent |-> a.cent + b.cent - Cents]
    BY <1>3 DEF ADD
  <2>2. a.coin + b.coin + 1 \in Nat /\ a.cent + b.cent - Cents \in 0 .. Cents - 1
    BY <1>1, <1>3, CentsAssumption
  <2>3. ADD(a, b) \in Coin
    BY <2>1, <2>2 DEF Coin
  <2>4. (a.coin + b.coin + 1) * Cents = a.coin * Cents + b.coin * Cents + Cents
    BY <1>2, Carry, Zenon
  <2>5. a.coin * Cents \in Int /\ b.coin * Cents \in Int
    BY <1>1, CentsAssumption
  <2>6. Worth(ADD(a, b)) = Worth(a) + Worth(b)
    BY <1>1, <2>1, <2>4, <2>5, CentsAssumption DEF Worth
  <2> QED BY <2>3, <2>6
<1>4. CASE ~(a.cent + b.cent >= Cents)
  <2>1. ADD(a, b) = [coin |-> a.coin + b.coin, cent |-> a.cent + b.cent]
    BY <1>4 DEF ADD
  <2>2. a.coin + b.coin \in Nat /\ a.cent + b.cent \in 0 .. Cents - 1
    BY <1>1, <1>4, CentsAssumption
  <2>3. ADD(a, b) \in Coin
    BY <2>1, <2>2 DEF Coin
  <2>4. (a.coin + b.coin) * Cents = a.coin * Cents + b.coin * Cents
    BY <1>2, Carry, Zenon
  <2>5. a.coin * Cents \in Int /\ b.coin * Cents \in Int
    BY <1>1, CentsAssumption
  <2>6. Worth(ADD(a, b)) = Worth(a) + Worth(b)
    BY <1>1, <2>1, <2>4, <2>5, CentsAssumption DEF Worth
  <2> QED BY <2>3, <2>6
<1> QED BY <1>3, <1>4

(* SUB takes exactly the worth of its second argument off, and the sign of *)
(* the coins tells, as TRTransferMoney's own comparison does, whether      *)
(* there was enough; then the rest is a coin again.                        *)
THEOREM SubExact ==
  ASSUME NEW a \in Coin, NEW b \in Coin
  PROVE  /\ Worth(SUB(a, b)) = Worth(a) - Worth(b)
         /\ IsEnough(SUB(a, b)) <=> ~LessThan(a, b)
         /\ IsEnough(SUB(a, b)) => SUB(a, b) \in Coin
<1>1. /\ a.coin \in Nat /\ a.cent \in 0 .. Cents - 1
      /\ b.coin \in Nat /\ b.cent \in 0 .. Cents - 1
  BY DEF Coin
<1>2. a.coin \in Int /\ b.coin \in Int
  BY <1>1
<1>3. CASE a.cent >= b.cent
  <2>1. SUB(a, b) = [coin |-> a.coin - b.coin, cent |-> a.cent - b.cent]
    BY <1>3 DEF SUB
  <2>2. a.coin - b.coin \in Int /\ a.cent - b.cent \in 0 .. Cents - 1
    BY <1>1, <1>3, CentsAssumption
  <2>3. IsEnough(SUB(a, b)) <=> ~LessThan(a, b)
    BY <1>1, <1>3, <2>1 DEF IsEnough, LessThan
  <2>4. IsEnough(SUB(a, b)) => SUB(a, b) \in Coin
    BY <2>1, <2>2 DEF IsEnough, Coin
  <2>5. (a.coin - b.coin) * Cents = a.coin * Cents - b.coin * Cents
    BY <1>2, Carry, Zenon
  <2>6. a.coin * Cents \in Int /\ b.coin * Cents \in Int
    BY <1>1, CentsAssumption
  <2>7. Worth(SUB(a, b)) = Worth(a) - Worth(b)
    BY <1>1, <2>1, <2>5, <2>6, CentsAssumption DEF Worth
  <2> QED BY <2>3, <2>4, <2>7
<1>4. CASE ~(a.cent >= b.cent)
  <2>1. SUB(a, b) = [coin |-> a.coin - b.coin - 1, cent |-> Cents + a.cent - b.cent]
    BY <1>4 DEF SUB
  <2>2. a.coin - b.coin - 1 \in Int /\ Cents + a.cent - b.cent \in 0 .. Cents - 1
    BY <1>1, <1>4, CentsAssumption
  <2>3. IsEnough(SUB(a, b)) <=> ~LessThan(a, b)
    BY <1>1, <1>4, <2>1 DEF IsEnough, LessThan
  <2>4. IsEnough(SUB(a, b)) => SUB(a, b) \in Coin
    BY <2>1, <2>2 DEF IsEnough, Coin
  <2>5. (a.coin - b.coin - 1) * Cents = a.coin * Cents - b.coin * Cents - Cents
    BY <1>2, Carry, Zenon
  <2>6. a.coin * Cents \in Int /\ b.coin * Cents \in Int
    BY <1>1, CentsAssumption
  <2>7. Worth(SUB(a, b)) = Worth(a) - Worth(b)
    BY <1>1, <2>1, <2>5, <2>6, CentsAssumption DEF Worth
  <2> QED BY <2>3, <2>4, <2>7
<1> QED BY <1>3, <1>4
-----------------------------------------------------------------------------
(* Sums of a list.                                                         *)
LEMMA SeqOf == ASSUME NEW n \in Nat, NEW S, NEW f, f \in [1 .. n -> S] PROVE f \in Seq(S) /\ Len(f) = n
<1>1. f \in Seq(S)
  BY SeqDef
<1>2. Len(f) \in Nat /\ 1 .. Len(f) = 1 .. n
  BY <1>1, LenProperties
<1> QED
  BY <1>1, <1>2

LEMMA SumIs ==
  ASSUME NEW N \in Nat, NEW f \in Seq(Int), Len(f) = N
  PROVE  \E s \in [0 .. N -> Int] : s[0] = 0 /\ SumOf(f) = s[N] /\ \A i \in 1 .. N : s[i] = s[i - 1] + f[i]
<1> DEFINE Is(h) == h = [i \in 0 .. N |-> IF i = 0 THEN 0 ELSE h[i - 1] + f[i]]
           h == CHOOSE x : Is(x)
<1>1. PICK G : G = [i \in 1 .. N |-> [x \in Int |-> x + f[i]]]
  OBVIOUS
<1>2. \A i \in 1 .. N : f[i] \in Int
  BY ElementOfSeq
<1> HIDE DEF h
<1>12. ASSUME NEW i \in 1 .. N PROVE G[i] \in [Int -> Int]
  <2>1. f[i] \in Int /\ G[i] = [x \in Int |-> x + f[i]]
    BY <1>1, <1>2
  <2> QED
    BY <2>1
<1>13. G \in [1 .. N -> [Int -> Int]]
  BY <1>1, <1>12
<1>3. Taken(N, Int, 0, G)
  <2>1. 0 \in Int
    OBVIOUS
  <2> QED
    BY <1>13, <2>1, Turns
<1>4. PICK s \in [0 .. N -> Int] : s[0] = 0 /\ \A i \in 1 .. N : s[i] = G[i][s[i - 1]]
  BY <1>3 DEF Taken
<1>5. ASSUME NEW i \in 1 .. N PROVE s[i] = s[i - 1] + f[i]
  <2>1. s[i - 1] \in Int /\ s[i] = G[i][s[i - 1]]
    BY <1>4
  <2> QED
    BY <1>1, <2>1
<1>6. Is(s)
  BY <1>4, <1>5
<1>7. Is(h)
  BY <1>6 DEF h
<1>8. SumOf(f) = h[N]
  BY DEF SumOf, h
<1>9. h[0] = 0 /\ \A i \in 1 .. N : h[i] = h[i - 1] + f[i]
  BY <1>7
<1>10. \A i \in 0 .. N : h[i] \in Int
  <2> DEFINE Q == {i \in 0 .. N : h[i] \in Int}
  <2>1. 0 \in Q
    BY <1>9
  <2>2. ASSUME NEW i \in 1 .. N, i - 1 \in Q PROVE i \in Q
    BY <1>2, <1>9, <2>2
  <2> HIDE DEF Q
  <2>3. \A i \in 0 .. N : i \in Q
    BY <2>1, <2>2, OneByOne
  <2> QED
    BY <2>3 DEF Q
<1>11. h \in [0 .. N -> Int]
  BY <1>7, <1>10
<1> QED
  BY <1>8, <1>9, <1>11

LEMMA SumIsInt == ASSUME NEW f \in Seq(Int) PROVE SumOf(f) \in Int
<1>1. Len(f) \in Nat
  OBVIOUS
<1>2. \E s \in [0 .. Len(f) -> Int] : SumOf(f) = s[Len(f)]
  BY <1>1, SumIs
<1> QED
  BY <1>1, <1>2

(* Two lists that are equal up to an item differ by it; zeros at the end   *)
(* do not count.                                                           *)
LEMMA SumTail ==
  ASSUME NEW f \in Seq(Int), NEW g \in Seq(Int), Len(f) =< Len(g), \A i \in 1 .. Len(f) : g[i] = f[i],
         \A i \in Len(f) + 1 .. Len(g) : g[i] = 0
  PROVE  SumOf(g) = SumOf(f)
<1>1. PICK M \in Nat, N \in Nat : M = Len(f) /\ N = Len(g)
  OBVIOUS
<1>2. PICK s \in [0 .. M -> Int] : s[0] = 0 /\ SumOf(f) = s[M] /\ \A i \in 1 .. M : s[i] = s[i - 1] + f[i]
  BY <1>1, SumIs
<1>3. PICK t \in [0 .. N -> Int] : t[0] = 0 /\ SumOf(g) = t[N] /\ \A i \in 1 .. N : t[i] = t[i - 1] + g[i]
  BY <1>1, SumIs
<1> DEFINE Q == {i \in 0 .. N : t[i] = IF i =< M THEN s[i] ELSE s[M]}
<1>4. 0 \in Q
  BY <1>2, <1>3
<1>5. ASSUME NEW i \in 1 .. N, i - 1 \in Q PROVE i \in Q
  <2>1. t[i] = t[i - 1] + g[i] /\ i \in 0 .. N /\ t[i - 1] \in Int
    BY <1>3
  <2>2. CASE i =< M
    BY <1>1, <1>2, <1>5, <2>1, <2>2
  <2>3. CASE i > M
    <3>1. g[i] = 0 /\ t[i - 1] = s[M]
      BY <1>1, <1>5, <2>3
    <3> QED
      BY <2>1, <2>3, <3>1, <1>1
  <2> QED
    BY <2>2, <2>3, <1>1
<1> HIDE DEF Q
<1>6. \A i \in 0 .. N : i \in Q
  BY <1>1, <1>4, <1>5, OneByOne
<1> QED
  BY <1>1, <1>2, <1>3, <1>6 DEF Q

LEMMA SumAppend ==
  ASSUME NEW f \in Seq(Int), NEW g \in Seq(Int), Len(g) = Len(f) + 1, \A i \in 1 .. Len(f) : g[i] = f[i]
  PROVE  SumOf(g) = SumOf(f) + g[Len(g)]
<1>1. PICK N \in Nat : N = Len(f)
  OBVIOUS
<1>2. N + 1 \in Nat /\ Len(g) = N + 1
  BY <1>1
<1>3. PICK s \in [0 .. N + 1 -> Int] :
        s[0] = 0 /\ SumOf(g) = s[N + 1] /\ \A i \in 1 .. N + 1 : s[i] = s[i - 1] + g[i]
  BY <1>2, SumIs
<1>4. PICK t \in [0 .. N -> Int] : t[0] = 0 /\ SumOf(f) = t[N] /\ \A i \in 1 .. N : t[i] = t[i - 1] + f[i]
  BY <1>1, SumIs
<1> DEFINE Q == {i \in 0 .. N : s[i] = t[i]}
<1>5. 0 \in Q
  BY <1>3, <1>4
<1>6. ASSUME NEW i \in 1 .. N, i - 1 \in Q PROVE i \in Q
  <2>1. s[i] = s[i - 1] + g[i] /\ t[i] = t[i - 1] + f[i] /\ g[i] = f[i] /\ s[i - 1] = t[i - 1]
    BY <1>1, <1>3, <1>4, <1>6
  <2> QED
    BY <2>1
<1> HIDE DEF Q
<1>7. \A i \in 0 .. N : i \in Q
  BY <1>1, <1>5, <1>6, OneByOne
<1>8. s[N + 1] = s[N] + g[N + 1]
  <2>1. N + 1 \in 1 .. N + 1 /\ (N + 1) - 1 = N
    OBVIOUS
  <2> QED
    BY <1>3, <2>1
<1>9. N \in 0 .. N
  OBVIOUS
<1>10. s[N] = t[N]
  BY <1>7, <1>9 DEF Q
<1> QED
  BY <1>2, <1>3, <1>4, <1>8, <1>10

LEMMA SumChange ==
  ASSUME NEW f \in Seq(Int), NEW g \in Seq(Int), Len(g) = Len(f), NEW k \in 1 .. Len(f),
         \A i \in 1 .. Len(f) : i # k => g[i] = f[i]
  PROVE  SumOf(g) = SumOf(f) - f[k] + g[k]
<1>1. PICK N \in Nat : N = Len(f)
  OBVIOUS
<1>2. f[k] \in Int /\ g[k] \in Int /\ k \in 1 .. N
  BY <1>1, ElementOfSeq
<1>3. PICK s \in [0 .. N -> Int] : s[0] = 0 /\ SumOf(g) = s[N] /\ \A i \in 1 .. N : s[i] = s[i - 1] + g[i]
  BY <1>1, SumIs
<1>4. PICK t \in [0 .. N -> Int] : t[0] = 0 /\ SumOf(f) = t[N] /\ \A i \in 1 .. N : t[i] = t[i - 1] + f[i]
  BY <1>1, SumIs
<1> DEFINE Q == {i \in 0 .. N : s[i] = IF i < k THEN t[i] ELSE t[i] - f[k] + g[k]}
<1>5. 0 \in Q
  BY <1>2, <1>3, <1>4
<1>6. ASSUME NEW i \in 1 .. N, i - 1 \in Q PROVE i \in Q
  <2>1. /\ s[i] = s[i - 1] + g[i] /\ t[i] = t[i - 1] + f[i] /\ t[i - 1] \in Int /\ f[i] \in Int /\ g[i] \in Int
        /\ i # k => g[i] = f[i]
        /\ s[i - 1] = IF i - 1 < k THEN t[i - 1] ELSE t[i - 1] - f[k] + g[k]
    BY <1>1, <1>3, <1>4, <1>6, ElementOfSeq
  <2>2. CASE i < k
    BY <1>1, <2>1, <2>2, <1>2
  <2>3. CASE i = k
    BY <1>1, <2>1, <2>3, <1>2
  <2>4. CASE i > k
    BY <1>1, <2>1, <2>4, <1>2, SMTT(30)
  <2> QED
    BY <1>1, <1>2, <2>2, <2>3, <2>4
<1> HIDE DEF Q
<1>7. \A i \in 0 .. N : i \in Q
  BY <1>1, <1>5, <1>6, OneByOne
<1> QED
  BY <1>2, <1>3, <1>4, <1>7 DEF Q

LEMMA SumConcat ==
  ASSUME NEW f \in Seq(Int), NEW g \in Seq(Int)
  PROVE  SumOf(f \o g) = SumOf(f) + SumOf(g)
<1>1. PICK M \in Nat : M = Len(f)
  OBVIOUS
<1>0. PICK N \in Nat : N = Len(g)
  OBVIOUS
<1>9. PICK h : h = f \o g
  OBVIOUS
<1>2. /\ h \in Seq(Int) /\ Len(h) = M + N /\ (\A i \in 1 .. M : h[i] = f[i]) /\ \A i \in 1 .. N : h[M + i] = g[i]
      /\ M + N \in Nat
  BY <1>0, <1>1, <1>9, ConcatProperties
<1>3. PICK s \in [0 .. M + N -> Int] :
        s[0] = 0 /\ SumOf(h) = s[M + N] /\ \A i \in 1 .. M + N : s[i] = s[i - 1] + h[i]
  BY <1>2, SumIs
<1>4. PICK t \in [0 .. M -> Int] : t[0] = 0 /\ SumOf(f) = t[M] /\ \A i \in 1 .. M : t[i] = t[i - 1] + f[i]
  BY <1>1, SumIs
<1>5. PICK u \in [0 .. N -> Int] : u[0] = 0 /\ SumOf(g) = u[N] /\ \A i \in 1 .. N : u[i] = u[i - 1] + g[i]
  BY <1>0, SumIs
<1> DEFINE P == {i \in 0 .. M : s[i] = t[i]}
           Q == {i \in 0 .. N : s[M + i] = t[M] + u[i]}
<1>6. s[M] = t[M]
  <2>1. 0 \in P
    BY <1>3, <1>4
  <2>2. ASSUME NEW i \in 1 .. M, i - 1 \in P PROVE i \in P
    <3>1. s[i - 1] = t[i - 1] /\ i \in 1 .. M + N /\ i \in 0 .. M
      BY <2>2
    <3>2. s[i] = s[i - 1] + h[i] /\ t[i] = t[i - 1] + f[i] /\ h[i] = f[i]
      BY <1>2, <1>3, <1>4, <3>1
    <3> QED
      BY <3>1, <3>2
  <2> HIDE DEF P
  <2>3. \A i \in 0 .. M : i \in P
    BY <1>0, <1>1, <2>1, <2>2, OneByOne
  <2> QED
    BY <1>1, <2>3 DEF P
<1>7. s[M + N] = t[M] + u[N]
  <2>1. 0 \in Q
    BY <1>4, <1>5, <1>6
  <2>2. ASSUME NEW i \in 1 .. N, i - 1 \in Q PROVE i \in Q
    <3>1. M + i \in 1 .. M + N /\ (M + i) - 1 = M + (i - 1)
      OBVIOUS
    <3>4. s[M + i] = s[(M + i) - 1] + h[M + i]
      BY <1>3, <3>1
    <3>5. s[M + i] = s[M + (i - 1)] + g[i]
      BY <1>2, <3>1, <3>4
    <3>6. u[i] = u[i - 1] + g[i] /\ u[i - 1] \in Int
      BY <1>5
    <3>7. g[i] \in Int
      BY <1>0, ElementOfSeq
    <3>2. s[M + i] = s[M + (i - 1)] + g[i] /\ u[i] = u[i - 1] + g[i] /\ u[i - 1] \in Int /\ g[i] \in Int
      BY <3>5, <3>6, <3>7
    <3>3. s[M + (i - 1)] = t[M] + u[i - 1] /\ t[M] \in Int
      BY <1>4, <2>2
    <3> QED
      BY <1>0, <1>1, <3>2, <3>3
  <2> HIDE DEF Q
  <2>3. \A i \in 0 .. N : i \in Q
    BY <1>0, <1>1, <2>1, <2>2, OneByOne
  <2>4. N \in 0 .. N
    OBVIOUS
  <2> QED
    BY <2>3, <2>4 DEF Q
<1> QED
  BY <1>3, <1>4, <1>5, <1>7, <1>9
-----------------------------------------------------------------------------
(* What the accounts of a currency hold.                                   *)
Val(r, cur) == IF r.cur = cur THEN Worth(r.coin) ELSE 0
Vals(rows, cur) == [i \in 1 .. Len(rows) |-> Val(rows[i], cur)]

LEMMA CoinFacts ==
  /\ Cents \in Nat /\ 1 < Cents
  /\ NoCoin \in Coin /\ Worth(NoCoin) = 0
  /\ \A c \in Coin : Worth(c) \in Nat
<1>1. Cents \in Nat /\ 1 < Cents
  BY CentsAssumption
<1>2. NoCoin \in Coin /\ Worth(NoCoin) = 0
  BY <1>1 DEF NoCoin, Coin, Worth
<1>3. ASSUME NEW c \in Coin PROVE Worth(c) \in Nat
  <2>1. c.coin \in Nat /\ c.cent \in Nat
    BY <1>1 DEF Coin
  <2>2. c.coin * Cents \in Nat
    BY <1>1, <2>1
  <2> QED
    BY <2>1, <2>2 DEF Worth
<1> QED
  BY <1>1, <1>2, <1>3

LEMMA HeldIs ==
  ASSUME NEW rows \in Seq(Row), NEW cur
  PROVE  /\ Vals(rows, cur) \in Seq(Int) /\ Len(Vals(rows, cur)) = Len(rows)
         /\ \A i \in 1 .. Len(rows) : rows[i] \in Row /\ Vals(rows, cur)[i] = Val(rows[i], cur)
         /\ Held(rows, cur) = SumOf(Vals(rows, cur))
<1>1. Len(rows) \in Nat /\ \A i \in 1 .. Len(rows) : rows[i] \in Row
  BY ElementOfSeq
<1>2. \A r \in Row : Val(r, cur) \in Int
  <2>1. \A r \in Row : r.coin \in Coin
    BY DEF Row
  <2>2. \A c \in Coin : Worth(c) \in Int
    BY CoinFacts
  <2> QED
    BY <2>1, <2>2 DEF Val
<1>3. Vals(rows, cur) \in [1 .. Len(rows) -> Int]
  BY <1>1, <1>2 DEF Vals
<1>4. Vals(rows, cur) \in Seq(Int) /\ Len(Vals(rows, cur)) = Len(rows)
  BY <1>1, <1>3, SeqOf
<1>5. Held(rows, cur) = SumOf(Vals(rows, cur))
  BY DEF Held, Vals, Val
<1> QED
  BY <1>1, <1>4, <1>5 DEF Vals

LEMMA HeldIsInt == ASSUME NEW rows \in Seq(Row), NEW cur PROVE Held(rows, cur) \in Int
<1>1. Vals(rows, cur) \in Seq(Int) /\ Held(rows, cur) = SumOf(Vals(rows, cur))
  BY HeldIs
<1> QED
  BY <1>1, SumIsInt

(* Accounts without money do not count.                                    *)
LEMMA HeldTail ==
  ASSUME NEW x \in Seq(Row), NEW y \in Seq(Row), NEW cur, Len(x) =< Len(y),
         \A i \in 1 .. Len(x) : y[i].cur = x[i].cur /\ y[i].coin = x[i].coin,
         \A i \in Len(x) + 1 .. Len(y) : y[i].coin = NoCoin
  PROVE  Held(y, cur) = Held(x, cur)
<1>1. PICK f \in Seq(Int) : /\ Len(f) = Len(x) /\ Held(x, cur) = SumOf(f)
                            /\ \A i \in 1 .. Len(x) : f[i] = Val(x[i], cur)
  BY HeldIs
<1>2. PICK g \in Seq(Int) : /\ Len(g) = Len(y) /\ Held(y, cur) = SumOf(g)
                            /\ \A i \in 1 .. Len(y) : g[i] = Val(y[i], cur)
  BY HeldIs
<1>3. ASSUME NEW i \in 1 .. Len(f) PROVE g[i] = f[i]
  <2>1. i \in 1 .. Len(x) /\ i \in 1 .. Len(y)
    BY <1>1
  <2> QED
    BY <1>1, <1>2, <2>1 DEF Val
<1>4. ASSUME NEW i \in Len(f) + 1 .. Len(g) PROVE g[i] = 0
  <2>1. i \in Len(x) + 1 .. Len(y) /\ i \in 1 .. Len(y)
    BY <1>1, <1>2
  <2>2. g[i] = Val(y[i], cur) /\ y[i].coin = NoCoin
    BY <1>2, <2>1
  <2> QED
    BY <2>2, CoinFacts DEF Val
<1>5. Len(f) =< Len(g)
  BY <1>1, <1>2
<1> QED
  BY <1>1, <1>2, <1>3, <1>4, <1>5, SumTail

LEMMA HeldAppend ==
  ASSUME NEW x \in Seq(Row), NEW y \in Seq(Row), NEW cur, Len(y) = Len(x) + 1,
         \A i \in 1 .. Len(x) : y[i].cur = x[i].cur /\ y[i].coin = x[i].coin
  PROVE  Held(y, cur) = Held(x, cur) + Val(y[Len(y)], cur)
<1>1. PICK f \in Seq(Int) : /\ Len(f) = Len(x) /\ Held(x, cur) = SumOf(f)
                            /\ \A i \in 1 .. Len(x) : f[i] = Val(x[i], cur)
  BY HeldIs
<1>2. PICK g \in Seq(Int) : /\ Len(g) = Len(y) /\ Held(y, cur) = SumOf(g)
                            /\ \A i \in 1 .. Len(y) : g[i] = Val(y[i], cur)
  BY HeldIs
<1>3. ASSUME NEW i \in 1 .. Len(f) PROVE g[i] = f[i]
  <2>1. i \in 1 .. Len(x) /\ i \in 1 .. Len(y)
    BY <1>1
  <2> QED
    BY <1>1, <1>2, <2>1 DEF Val
<1>4. Len(g) = Len(f) + 1 /\ Len(g) \in 1 .. Len(y)
  BY <1>1, <1>2
<1>5. SumOf(g) = SumOf(f) + g[Len(g)]
  BY <1>3, <1>4, SumAppend
<1> QED
  BY <1>1, <1>2, <1>4, <1>5

LEMMA HeldChange ==
  ASSUME NEW x \in Seq(Row), NEW y \in Seq(Row), NEW cur, Len(y) = Len(x), NEW k \in 1 .. Len(x),
         \A i \in 1 .. Len(x) : i # k => y[i] = x[i]
  PROVE  Held(y, cur) = Held(x, cur) - Val(x[k], cur) + Val(y[k], cur)
<1>1. PICK f \in Seq(Int) : /\ Len(f) = Len(x) /\ Held(x, cur) = SumOf(f)
                            /\ \A i \in 1 .. Len(x) : f[i] = Val(x[i], cur)
  BY HeldIs
<1>2. PICK g \in Seq(Int) : /\ Len(g) = Len(y) /\ Held(y, cur) = SumOf(g)
                            /\ \A i \in 1 .. Len(y) : g[i] = Val(y[i], cur)
  BY HeldIs
<1>3. ASSUME NEW i \in 1 .. Len(f), i # k PROVE g[i] = f[i]
  BY <1>1, <1>2, <1>3
<1>4. Len(g) = Len(f) /\ k \in 1 .. Len(f)
  BY <1>1, <1>2
<1>5. SumOf(g) = SumOf(f) - f[k] + g[k]
  BY <1>3, <1>4, SumChange
<1> QED
  BY <1>1, <1>2, <1>4, <1>5
-----------------------------------------------------------------------------
(* A transaction at work.  What it has of an account of the block differs  *)
(* in its money and its number only, and in its number only unless it is   *)
(* marked as changed; the accounts it has made are of currency 0.          *)
Maps == UNION {[D -> Item] : D \in SUBSET Nat}
Block == [on : BOOLEAN, num : Nat, map : Maps, max : Nat, hist : Seq(Paying), made : BOOLEAN, count : Nat]
Tran == [map : Maps, max : Nat, hist : Seq(Paying), smarts : Seq(Contract), made : BOOLEAN, ok : BOOLEAN]

BlockShape ==
  /\ state \in Seq(Row) /\ Len(GenesisRows) =< Len(state) /\ smarts \in Seq(Contract)
  /\ chg \in Block /\ Len(state) =< chg.max + 1
  /\ DOMAIN chg.map \subseteq 0 .. chg.max /\ Len(state) .. chg.max \subseteq DOMAIN chg.map
  /\ \A i \in 1 .. Len(GenesisRows) : Account(i - 1).cur = GenesisRows[i].cur

BackOf(id) == IF id \in DOMAIN chg.map THEN chg.map[id].back ELSE state[id + 1]
OldOK(e, id) ==
  LET a == Account(id) IN
  /\ ~e.new /\ e.back = BackOf(id)
  /\ e.row.cur = a.cur /\ e.row.key = a.key /\ e.row.smart = a.smart /\ e.row.born = a.born /\ e.row.pos = a.pos
  /\ a.op =< e.row.op /\ (e.changed \/ e.row.coin = a.coin)
NewOK(e) == e.new /\ e.changed /\ e.back = Blank /\ e.row.cur = 0 /\ e.row.smart = 0 /\ e.row.pos = 0
EntryOK(e, id) == e \in Item /\ IF id =< chg.max THEN OldOK(e, id) ELSE NewOK(e)

TrBase(t) ==
  /\ t \in Tran /\ t.smarts = smarts
  /\ chg.max =< t.max /\ DOMAIN t.map \subseteq 0 .. t.max /\ chg.max + 1 .. t.max \subseteq DOMAIN t.map
  /\ \A id \in DOMAIN t.map : EntryOK(t.map[id], id)

LEMMA MapsIs ==
  ASSUME NEW m
  PROVE  m \in Maps <=> DOMAIN m \subseteq Nat /\ m = [i \in DOMAIN m |-> m[i]] /\ \A i \in DOMAIN m : m[i] \in Item
<1>1. ASSUME m \in Maps
      PROVE  DOMAIN m \subseteq Nat /\ m = [i \in DOMAIN m |-> m[i]] /\ \A i \in DOMAIN m : m[i] \in Item
  <2>1. PICK D \in SUBSET Nat : m \in [D -> Item]
    BY <1>1 DEF Maps
  <2> QED
    BY <2>1
<1>2. ASSUME DOMAIN m \subseteq Nat, m = [i \in DOMAIN m |-> m[i]], \A i \in DOMAIN m : m[i] \in Item
      PROVE  m \in Maps
  <2>1. m \in [DOMAIN m -> Item]
    BY <1>2
  <2> QED
    BY <1>2, <2>1 DEF Maps
<1> QED
  BY <1>1, <1>2

LEMMA AccountIs ==
  ASSUME BlockShape, NEW id \in 0 .. chg.max
  PROVE  /\ Account(id) \in Row /\ BackOf(id) \in Row
         /\ id \in DOMAIN chg.map => chg.map[id] \in Item
         /\ id \notin DOMAIN chg.map => id + 1 \in 1 .. Len(state)
<1>1. /\ state \in Seq(Row) /\ chg.map \in Maps /\ Len(state) \in Nat /\ chg.max \in Nat
      /\ Len(state) .. chg.max \subseteq DOMAIN chg.map
  BY DEF BlockShape, Block
<1>2. CASE id \in DOMAIN chg.map
  <2>1. chg.map[id] \in Item
    BY <1>1, <1>2, MapsIs
  <2> QED
    BY <1>2, <2>1 DEF Account, BackOf, Item
<1>3. CASE id \notin DOMAIN chg.map
  <2>1. id + 1 \in 1 .. Len(state)
    BY <1>1, <1>3
  <2>2. state[id + 1] \in Row
    BY <1>1, <2>1, ElementOfSeq
  <2> QED
    BY <1>3, <2>1, <2>2 DEF Account, BackOf
<1> QED
  BY <1>2, <1>3

LEMMA EntryIs ==
  ASSUME BlockShape, NEW t, TrBase(t), NEW id \in 0 .. t.max
  PROVE  /\ EntryOK(Entry(t, id), id) /\ Entry(t, id).row \in Row /\ ReadStateTR(t, id) = Entry(t, id).row
         /\ id \in DOMAIN t.map => Entry(t, id) = t.map[id]
         /\ id \notin DOMAIN t.map => id =< chg.max /\ Entry(t, id).row = Account(id)
         /\ id =< chg.max => id \in 0 .. chg.max
<1>1. chg.max \in Nat /\ t.max \in Nat /\ chg.max + 1 .. t.max \subseteq DOMAIN t.map
  BY DEF BlockShape, Block, TrBase, Tran
<1>2. CASE id \in DOMAIN t.map
  <2>1. EntryOK(t.map[id], id) /\ Entry(t, id) = t.map[id]
    BY <1>2 DEF TrBase, Entry
  <2> QED
    BY <1>1, <1>2, <2>1 DEF EntryOK, Item, ReadStateTR
<1>3. CASE id \notin DOMAIN t.map
  <2>1. id =< chg.max /\ id \in 0 .. chg.max
    BY <1>1, <1>3
  <2>2. Account(id) \in Row /\ BackOf(id) \in Row /\ Account(id).op \in Nat
    BY <2>1, AccountIs DEF Row
  <2>3. CASE id \in DOMAIN chg.map
    <3>1. Entry(t, id) = [chg.map[id] EXCEPT !.new = FALSE, !.changed = FALSE] /\ chg.map[id] \in Item
      BY <1>3, <2>1, <2>3, AccountIs DEF Entry
    <3>2. /\ Entry(t, id) \in Item /\ Entry(t, id).row = Account(id) /\ Entry(t, id).back = BackOf(id)
          /\ ~Entry(t, id).new
      BY <2>3, <3>1 DEF Item, Account, BackOf
    <3> QED
      BY <1>3, <2>1, <2>2, <3>2 DEF EntryOK, OldOK, ReadStateTR
  <2>4. CASE id \notin DOMAIN chg.map
    <3>1. Entry(t, id) = [row |-> state[id + 1], back |-> state[id + 1], new |-> FALSE, changed |-> FALSE]
      BY <1>3, <2>4 DEF Entry
    <3>2. /\ Entry(t, id) \in Item /\ Entry(t, id).row = Account(id) /\ Entry(t, id).back = BackOf(id)
          /\ ~Entry(t, id).new
      BY <2>2, <2>4, <3>1 DEF Item, Account, BackOf
    <3> QED
      BY <1>3, <2>1, <2>2, <3>2 DEF EntryOK, OldOK, ReadStateTR
  <2> QED
    BY <2>3, <2>4
<1> QED
  BY <1>2, <1>3

LEMMA ExistsIs ==
  ASSUME BlockShape, NEW t, TrBase(t), NEW id \in Nat
  PROVE  Exists(t, id) <=> id \in 0 .. t.max
<1>1. /\ chg.max \in Nat /\ t.max \in Nat /\ chg.max =< t.max /\ Len(state) \in Nat /\ Len(state) =< chg.max + 1
      /\ DOMAIN t.map \subseteq 0 .. t.max /\ chg.max + 1 .. t.max \subseteq DOMAIN t.map
      /\ DOMAIN chg.map \subseteq 0 .. chg.max /\ Len(state) .. chg.max \subseteq DOMAIN chg.map
  BY DEF BlockShape, Block, TrBase, Tran
<1>2. ASSUME id \in 0 .. t.max PROVE id \in DOMAIN t.map \/ id \in DOMAIN chg.map \/ id < Len(state)
  <2>1. id \in chg.max + 1 .. t.max \/ id \in Len(state) .. chg.max \/ id < Len(state)
    BY <1>1, <1>2
  <2> QED
    BY <1>1, <2>1
<1>3. ASSUME id \in DOMAIN t.map \/ id \in DOMAIN chg.map \/ id < Len(state) PROVE id \in 0 .. t.max
  BY <1>1, <1>3
<1> QED
  BY <1>2, <1>3 DEF Exists

(* An entry is put into the map of the transaction.                        *)
IsPut(t, id, e, u) ==
  /\ TrBase(u) /\ u.max = t.max /\ u.hist = t.hist /\ u.ok = t.ok /\ u.made = t.made
  /\ id \in DOMAIN u.map /\ u.map[id] = e
  /\ \A j \in 0 .. t.max : j # id => Entry(u, j) = Entry(t, j)
  /\ DOMAIN u.map = DOMAIN t.map \cup {id}
  /\ \A j \in DOMAIN t.map : j # id => u.map[j] = t.map[j]

LEMMA PutIs ==
  ASSUME BlockShape, NEW t, TrBase(t), NEW id \in 0 .. t.max, NEW e, EntryOK(e, id),
         NEW u, u = [t EXCEPT !.map = With(t.map, id, e)]
  PROVE  IsPut(t, id, e, u)
<1>1. PICK m : m = With(t.map, id, e)
  OBVIOUS
<1>2. /\ DOMAIN m = DOMAIN t.map \cup {id} /\ m[id] = e /\ \A j \in DOMAIN t.map : j # id => m[j] = t.map[j]
      /\ m = [j \in DOMAIN m |-> m[j]]
  BY <1>1 DEF With
<1>3. t \in Tran /\ t.max \in Nat /\ DOMAIN t.map \subseteq 0 .. t.max /\ t.map \in Maps
  BY DEF TrBase, Tran
<1>4. ASSUME NEW j \in DOMAIN m PROVE EntryOK(m[j], j) /\ m[j] \in Item
  <2>1. CASE j = id
    BY <1>2, <2>1 DEF EntryOK
  <2>2. CASE j # id
    <3>1. j \in DOMAIN t.map /\ m[j] = t.map[j]
      BY <1>2, <2>2
    <3> QED
      BY <3>1 DEF TrBase, EntryOK
  <2> QED
    BY <2>1, <2>2
<1>5. m \in Maps /\ DOMAIN m \subseteq 0 .. t.max
  <2>1. DOMAIN m \subseteq 0 .. t.max /\ DOMAIN m \subseteq Nat
    BY <1>2, <1>3
  <2> QED
    BY <1>2, <1>4, <2>1, MapsIs
<1>6. /\ u.map = m /\ u.max = t.max /\ u.hist = t.hist /\ u.ok = t.ok /\ u.made = t.made /\ u.smarts = t.smarts
      /\ u \in Tran
  BY <1>1, <1>3, <1>5 DEF Tran
<1>7. TrBase(u)
  BY <1>2, <1>4, <1>5, <1>6 DEF TrBase
<1>8. ASSUME NEW j \in 0 .. t.max, j # id PROVE Entry(u, j) = Entry(t, j)
  <2>1. j \in DOMAIN m <=> j \in DOMAIN t.map
    BY <1>2, <1>8
  <2>2. j \in DOMAIN t.map => m[j] = t.map[j]
    BY <1>2, <1>8
  <2> QED
    BY <1>6, <2>1, <2>2 DEF Entry
<1> QED
  BY <1>2, <1>6, <1>7, <1>8 DEF IsPut
-----------------------------------------------------------------------------
(* What a transaction at work keeps: no currency gains or loses, and its   *)
(* payments are those that have changed the accounts that have a history.  *)
Sheet(t) == [i \in 1 .. t.max + 1 |-> ReadStateTR(t, i - 1)]

Amounts(h, id) == [k \in 1 .. Len(h) |-> IF h[k].id = id THEN h[k].amount ELSE 0]
Pend(h, id) == SumOf(Amounts(h, id))
WorthBefore(id) == IF id =< chg.max THEN Worth(Account(id).coin) ELSE 0

Paired(t) ==
  /\ \A k \in 1 .. Len(t.hist) : t.hist[k].id \in Changed(t) /\ StartHistory =< t.hist[k].id
  /\ \A id \in StartHistory .. t.max : Worth(ReadStateTR(t, id).coin) = WorthBefore(id) + Pend(t.hist, id)

Balanced(t) == \A cur \in Nat : Held(Sheet(t), cur) = Held(Rows, cur)
TrOK(t) == TrBase(t) /\ Paired(t) /\ Balanced(t)

Later(t, u) ==
  /\ t.max =< u.max /\ Changed(t) \subseteq Changed(u) /\ (u.ok => t.ok) /\ u.made = t.made
  /\ \A id \in 0 .. t.max : ReadStateTR(t, id).op =< ReadStateTR(u, id).op

LEMMA PendIs ==
  ASSUME NEW h \in Seq(Paying), NEW id
  PROVE  /\ Amounts(h, id) \in Seq(Int) /\ Len(Amounts(h, id)) = Len(h) /\ Pend(h, id) \in Int
         /\ \A k \in 1 .. Len(h) : Amounts(h, id)[k] = IF h[k].id = id THEN h[k].amount ELSE 0
<1>1. Len(h) \in Nat /\ \A k \in 1 .. Len(h) : h[k].amount \in Int
  <2>1. \A k \in 1 .. Len(h) : h[k] \in Paying
    BY ElementOfSeq
  <2> QED
    BY <2>1 DEF Paying
<1>2. Amounts(h, id) \in [1 .. Len(h) -> Int]
  BY <1>1 DEF Amounts
<1>3. Amounts(h, id) \in Seq(Int) /\ Len(Amounts(h, id)) = Len(h)
  BY <1>1, <1>2, SeqOf
<1>4. Pend(h, id) \in Int
  BY <1>3, SumIsInt DEF Pend
<1> QED
  BY <1>3, <1>4 DEF Amounts

LEMMA PendAppend ==
  ASSUME NEW h \in Seq(Paying), NEW p \in Paying, NEW id
  PROVE  Pend(Append(h, p), id) = Pend(h, id) + (IF p.id = id THEN p.amount ELSE 0)
<1>1. PICK g : g = Append(h, p)
  OBVIOUS
<1>2. g \in Seq(Paying) /\ Len(h) \in Nat /\ Len(g) = Len(h) + 1 /\ g[Len(h) + 1] = p /\ \A k \in 1 .. Len(h) : g[k] = h[k]
  BY <1>1, AppendProperties
<1>3. /\ Amounts(h, id) \in Seq(Int) /\ Len(Amounts(h, id)) = Len(h)
      /\ Amounts(g, id) \in Seq(Int) /\ Len(Amounts(g, id)) = Len(g)
  BY <1>2, PendIs
<1>4. ASSUME NEW k \in 1 .. Len(h) PROVE Amounts(g, id)[k] = Amounts(h, id)[k]
  <2>1. k \in 1 .. Len(g) /\ g[k] = h[k]
    BY <1>2
  <2> QED
    BY <2>1 DEF Amounts
<1>5. SumOf(Amounts(g, id)) = SumOf(Amounts(h, id)) + Amounts(g, id)[Len(g)]
  BY <1>2, <1>3, <1>4, SumAppend
<1>6. Len(g) \in 1 .. Len(g)
  BY <1>2
<1>7. Amounts(g, id)[Len(g)] = IF g[Len(g)].id = id THEN g[Len(g)].amount ELSE 0
  BY <1>6 DEF Amounts
<1> QED
  BY <1>1, <1>2, <1>5, <1>7 DEF Pend

LEMMA PendNone ==
  ASSUME NEW h \in Seq(Paying), NEW id, \A k \in 1 .. Len(h) : h[k].id # id
  PROVE  Pend(h, id) = 0
<1>1. PICK f : f = Amounts(h, id)
  OBVIOUS
<1>2. f \in Seq(Int) /\ Len(f) \in Nat /\ Pend(h, id) = SumOf(f) /\ \A k \in 1 .. Len(f) : f[k] = 0
  BY <1>1, PendIs DEF Pend
<1>3. PICK s \in [0 .. Len(f) -> Int] :
        s[0] = 0 /\ SumOf(f) = s[Len(f)] /\ \A k \in 1 .. Len(f) : s[k] = s[k - 1] + f[k]
  BY <1>2, SumIs
<1> DEFINE Q == {k \in 0 .. Len(f) : s[k] = 0}
<1>4. 0 \in Q
  BY <1>2, <1>3
<1>5. ASSUME NEW k \in 1 .. Len(f), k - 1 \in Q PROVE k \in Q
  <2>1. k \in 0 .. Len(f) /\ s[k] = s[k - 1] + f[k] /\ f[k] = 0 /\ s[k - 1] = 0
    BY <1>2, <1>3, <1>5
  <2> QED
    BY <2>1
<1> HIDE DEF Q
<1>6. \A k \in 0 .. Len(f) : k \in Q
  BY <1>2, <1>4, <1>5, OneByOne
<1>7. Len(f) \in 0 .. Len(f)
  BY <1>2
<1> QED
  BY <1>2, <1>3, <1>6, <1>7 DEF Q

LEMMA SheetIs ==
  ASSUME BlockShape, NEW t, TrBase(t)
  PROVE  /\ Sheet(t) \in Seq(Row) /\ Len(Sheet(t)) = t.max + 1 /\ t.max \in Nat
         /\ \A i \in 1 .. t.max + 1 : Sheet(t)[i] = ReadStateTR(t, i - 1) /\ Sheet(t)[i] \in Row
<1>1. t.max \in Nat
  BY DEF TrBase, Tran
<1>2. ASSUME NEW i \in 1 .. t.max + 1 PROVE Sheet(t)[i] = ReadStateTR(t, i - 1) /\ Sheet(t)[i] \in Row
  <2>1. i - 1 \in 0 .. t.max
    BY <1>1
  <2>2. ReadStateTR(t, i - 1) \in Row
    BY <2>1, EntryIs
  <2> QED
    BY <2>2 DEF Sheet
<1>3. Sheet(t) \in [1 .. t.max + 1 -> Row]
  BY <1>2 DEF Sheet
<1> QED
  BY <1>1, <1>2, <1>3, SeqOf

(* Money is written to an account and the payment noted.                   *)
Write(t, id, coin, amount) == Payment(WriteStateTR(t, id, [ReadStateTR(t, id) EXCEPT !.coin = coin]), id, amount)

HasWritten(t, id, coin, amount, u) ==
  /\ TrBase(u) /\ Paired(u) /\ u.max = t.max /\ Later(t, u) /\ Changed(u) = Changed(t) \cup {id} /\ u.ok = t.ok
  /\ ReadStateTR(u, id) = [ReadStateTR(t, id) EXCEPT !.coin = coin]
  /\ \A j \in 0 .. t.max : j # id => ReadStateTR(u, j) = ReadStateTR(t, j)
  /\ \A cur \in Nat : Held(Sheet(u), cur)
                        = Held(Sheet(t), cur) + (IF ReadStateTR(t, id).cur = cur THEN amount ELSE 0)

LEMMA WriteIs ==
  ASSUME BlockShape, NEW t, TrBase(t), Paired(t), NEW id \in 0 .. t.max, NEW coin \in Coin, NEW amount \in Int,
         Worth(coin) = Worth(ReadStateTR(t, id).coin) + amount,
         NEW u, u = Write(t, id, coin, amount)
  PROVE  HasWritten(t, id, coin, amount, u)
<1>1. PICK r, e, w : /\ r = ReadStateTR(t, id) /\ e = [Entry(t, id) EXCEPT !.row = [r EXCEPT !.coin = coin], !.changed = TRUE]
                     /\ w = [t EXCEPT !.map = With(t.map, id, e)]
  OBVIOUS
<1>2. EntryOK(Entry(t, id), id) /\ r \in Row /\ r = Entry(t, id).row /\ t.max \in Nat /\ chg.max \in Nat
  <2>1. t.max \in Nat /\ chg.max \in Nat
    BY DEF TrBase, Tran, BlockShape, Block
  <2>2. EntryOK(Entry(t, id), id) /\ Entry(t, id).row \in Row /\ ReadStateTR(t, id) = Entry(t, id).row
    BY EntryIs
  <2> QED
    BY <1>1, <2>1, <2>2
<1>3. /\ e \in Item /\ e.row = [r EXCEPT !.coin = coin] /\ e.changed /\ e.new = Entry(t, id).new
      /\ e.back = Entry(t, id).back
  BY <1>1, <1>2 DEF EntryOK, Item, Row
<1>4. EntryOK(e, id)
  <2>1. /\ e.row.cur = r.cur /\ e.row.key = r.key /\ e.row.smart = r.smart /\ e.row.born = r.born /\ e.row.pos = r.pos
        /\ e.row.op = r.op
    BY <1>2, <1>3 DEF Row
  <2> QED
    BY <1>2, <1>3, <2>1 DEF EntryOK, OldOK, NewOK
<1>5. /\ TrBase(w) /\ w.max = t.max /\ w.hist = t.hist /\ w.ok = t.ok /\ w.made = t.made
      /\ id \in DOMAIN w.map /\ w.map[id] = e
      /\ \A j \in 0 .. t.max : j # id => Entry(w, j) = Entry(t, j)
      /\ DOMAIN w.map = DOMAIN t.map \cup {id}
      /\ \A j \in DOMAIN t.map : j # id => w.map[j] = t.map[j]
  <2>1. IsPut(t, id, e, w)
    BY <1>1, <1>4, PutIs, Zenon
  <2> QED
    BY <2>1 DEF IsPut
<1>6. Changed(w) = Changed(t) \cup {id}
  BY <1>3, <1>5 DEF Changed
<1>7. u = Payment(w, id, amount)
  BY <1>1 DEF Write, WriteStateTR
<1>8. t.hist \in Seq(Paying) /\ w \in Tran
  BY <1>5 DEF TrBase, Tran
<1>9. /\ u.map = w.map /\ u.max = t.max /\ u.ok = t.ok /\ u.made = t.made /\ u.smarts = w.smarts /\ u \in Tran
      /\ u.hist = IF id < StartHistory THEN t.hist ELSE Append(t.hist, [id |-> id, amount |-> amount])
  <2>1. CASE id < StartHistory
    BY <1>5, <1>7, <1>8, <2>1 DEF Payment
  <2>2. CASE ~(id < StartHistory)
    <3>1. u = [w EXCEPT !.hist = Append(t.hist, [id |-> id, amount |-> amount])]
      BY <1>5, <1>7, <2>2 DEF Payment
    <3>2. Append(t.hist, [id |-> id, amount |-> amount]) \in Seq(Paying)
      <4>1. [id |-> id, amount |-> amount] \in Paying
        BY <1>2 DEF Paying
      <4> QED
        BY <1>8, <4>1
    <3> QED
      BY <1>5, <1>8, <2>2, <3>1, <3>2 DEF Tran
  <2> QED
    BY <2>1, <2>2
<1>10. TrBase(u)
  BY <1>5, <1>9 DEF TrBase
<1>11. \A j \in 0 .. t.max : Entry(u, j) = Entry(w, j)
  BY <1>9 DEF Entry
<1>12. /\ ReadStateTR(u, id) = [r EXCEPT !.coin = coin]
       /\ \A j \in 0 .. t.max : j # id => ReadStateTR(u, j) = ReadStateTR(t, j)
  <2>1. Entry(w, id) = e
    BY <1>5 DEF Entry
  <2> QED
    BY <1>3, <1>5, <1>11, <2>1 DEF ReadStateTR
<1>13. Changed(u) = Changed(t) \cup {id}
  BY <1>6, <1>9 DEF Changed
<1>14. Later(t, u)
  <2>1. \A j \in 0 .. t.max : ReadStateTR(t, j) \in Row
    BY EntryIs
  <2>2. ASSUME NEW j \in 0 .. t.max PROVE ReadStateTR(t, j).op =< ReadStateTR(u, j).op
    BY <1>1, <1>12, <2>1, <2>2 DEF Row
  <2> QED
    BY <1>2, <1>9, <1>13, <2>2 DEF Later
<1>15. \A cur \in Nat : Held(Sheet(u), cur) = Held(Sheet(t), cur) + (IF r.cur = cur THEN amount ELSE 0)
  <2> TAKE cur \in Nat
  <2>1. /\ Sheet(t) \in Seq(Row) /\ Len(Sheet(t)) = t.max + 1 /\ Sheet(u) \in Seq(Row) /\ Len(Sheet(u)) = t.max + 1
        /\ \A i \in 1 .. t.max + 1 : Sheet(t)[i] = ReadStateTR(t, i - 1) /\ Sheet(u)[i] = ReadStateTR(u, i - 1)
    BY <1>9, <1>10, SheetIs
  <2>0. PICK x, y : x = Sheet(t) /\ y = Sheet(u)
    OBVIOUS
  <2>2. ASSUME NEW i \in 1 .. t.max + 1, i # id + 1 PROVE Sheet(u)[i] = Sheet(t)[i]
    <3>1. i - 1 \in 0 .. t.max /\ i - 1 # id
      BY <1>2, <2>2
    <3> QED
      BY <1>12, <2>1, <3>1
  <2>3. id + 1 \in 1 .. t.max + 1 /\ (id + 1) - 1 = id
    BY <1>2
  <2>9. /\ x \in Seq(Row) /\ y \in Seq(Row) /\ Len(y) = Len(x) /\ id + 1 \in 1 .. Len(x)
        /\ \A i \in 1 .. Len(x) : i # id + 1 => y[i] = x[i]
    BY <2>0, <2>1, <2>2, <2>3
  <2>4. Held(Sheet(u), cur) = Held(Sheet(t), cur) - Val(Sheet(t)[id + 1], cur) + Val(Sheet(u)[id + 1], cur)
    BY <2>0, <2>9, HeldChange
  <2>5. Sheet(t)[id + 1] = r /\ Sheet(u)[id + 1] = [r EXCEPT !.coin = coin]
    BY <1>1, <1>12, <2>1, <2>3
  <2>6. Held(Sheet(t), cur) \in Int /\ Worth(r.coin) \in Int /\ Worth(coin) \in Int
    <3>1. Held(Sheet(t), cur) \in Int
      BY <2>1, HeldIsInt
    <3>2. r.coin \in Coin
      BY <1>2 DEF Row
    <3> QED
      BY <3>1, <3>2, CoinFacts
  <2>7. Val(Sheet(u)[id + 1], cur) = IF r.cur = cur THEN Worth(coin) ELSE 0
    BY <1>2, <2>5 DEF Val, Row
  <2>8. Val(Sheet(t)[id + 1], cur) = IF r.cur = cur THEN Worth(r.coin) ELSE 0
    BY <2>5 DEF Val
  <2> QED
    BY <1>1, <2>4, <2>6, <2>7, <2>8
<1>16. Paired(u)
  <2>1. StartHistory \in Nat
    BY AccountsAssumption
  <2>2. ASSUME NEW k \in 1 .. Len(u.hist) PROVE u.hist[k].id \in Changed(u) /\ StartHistory =< u.hist[k].id
    <3>1. CASE id < StartHistory
      BY <1>9, <1>13, <2>2, <3>1 DEF Paired
    <3>2. CASE ~(id < StartHistory) /\ k = Len(t.hist) + 1
      <4>1. u.hist[k] = [id |-> id, amount |-> amount]
        BY <1>8, <1>9, <3>2
      <4> QED
        BY <1>2, <1>13, <2>1, <3>2, <4>1
    <3>3. CASE ~(id < StartHistory) /\ k # Len(t.hist) + 1
      <4>1. k \in 1 .. Len(t.hist) /\ u.hist[k] = t.hist[k]
        BY <1>8, <1>9, <2>2, <3>3
      <4> QED
        BY <1>13, <4>1 DEF Paired
    <3> QED
      BY <3>1, <3>2, <3>3
  <2>3. ASSUME NEW j \in StartHistory .. u.max PROVE Worth(ReadStateTR(u, j).coin) = WorthBefore(j) + Pend(u.hist, j)
    <3>1. j \in StartHistory .. t.max /\ j \in 0 .. t.max
      BY <1>9, <2>1
    <3>2. Worth(ReadStateTR(t, j).coin) = WorthBefore(j) + Pend(t.hist, j)
      BY <3>1 DEF Paired
    <3>3. WorthBefore(j) \in Int
      <4>1. j =< chg.max => Account(j) \in Row
        BY <1>2, <3>1, AccountIs
      <4> QED
        BY <4>1, CoinFacts DEF WorthBefore, Row
    <3>4. Pend(t.hist, j) \in Int
      BY <1>8, PendIs
    <3>5. CASE j # id
      <4>1. Pend(u.hist, j) = Pend(t.hist, j)
        <5>1. CASE id < StartHistory
          BY <1>9, <5>1
        <5>2. CASE ~(id < StartHistory)
          <6>1. [id |-> id, amount |-> amount] \in Paying
            BY <1>2 DEF Paying
          <6>2. Pend(u.hist, j) = Pend(t.hist, j) + 0
            BY <1>8, <1>9, <3>5, <5>2, <6>1, PendAppend
          <6> QED
            BY <3>4, <6>2
        <5> QED
          BY <5>1, <5>2
      <4> QED
        BY <1>12, <3>1, <3>2, <3>5, <4>1
    <3>6. CASE j = id
      <4>1. [id |-> id, amount |-> amount] \in Paying /\ ~(id < StartHistory)
        BY <1>2, <2>1, <3>1, <3>6 DEF Paying
      <4>2. Pend(u.hist, j) = Pend(t.hist, j) + amount
        BY <1>8, <1>9, <3>6, <4>1, PendAppend
      <4>3. ReadStateTR(u, j).coin = coin
        BY <1>2, <1>12, <3>6 DEF Row
      <4> QED
        BY <3>2, <3>3, <3>4, <3>6, <4>2, <4>3
    <3> QED
      BY <3>5, <3>6
  <2> QED
    BY <2>2, <2>3 DEF Paired
<1> QED
  BY <1>1, <1>9, <1>10, <1>12, <1>13, <1>14, <1>15, <1>16 DEF HasWritten
-----------------------------------------------------------------------------
(* The operations of a transaction keep what TrOK says.                    *)
LEMMA SameMoney ==
  ASSUME BlockShape, NEW t, TrOK(t), NEW u, TrBase(u), u.max = t.max, u.hist = t.hist, Changed(t) \subseteq Changed(u),
         \A j \in 0 .. t.max : /\ ReadStateTR(u, j).coin = ReadStateTR(t, j).coin
                               /\ ReadStateTR(u, j).cur = ReadStateTR(t, j).cur
  PROVE  TrOK(u)
<1>1. t.max \in Nat /\ StartHistory \in Nat
  BY AccountsAssumption DEF TrOK, TrBase, Tran
<1>2. Paired(u)
  <2>1. ASSUME NEW k \in 1 .. Len(u.hist) PROVE u.hist[k].id \in Changed(u) /\ StartHistory =< u.hist[k].id
    BY DEF TrOK, Paired
  <2>2. ASSUME NEW j \in StartHistory .. u.max PROVE Worth(ReadStateTR(u, j).coin) = WorthBefore(j) + Pend(u.hist, j)
    <3>1. j \in 0 .. t.max /\ j \in StartHistory .. t.max
      BY <1>1
    <3> QED
      BY <3>1 DEF TrOK, Paired
  <2> QED
    BY <2>1, <2>2 DEF Paired
<1>3. ASSUME NEW cur \in Nat PROVE Held(Sheet(u), cur) = Held(Rows, cur)
  <2>1. PICK x, y : x = Sheet(t) /\ y = Sheet(u)
    OBVIOUS
  <2>2. /\ x \in Seq(Row) /\ Len(x) = t.max + 1 /\ y \in Seq(Row) /\ Len(y) = t.max + 1
        /\ \A i \in 1 .. t.max + 1 : x[i] = ReadStateTR(t, i - 1) /\ y[i] = ReadStateTR(u, i - 1)
    BY <2>1, SheetIs DEF TrOK
  <2>3. ASSUME NEW i \in 1 .. Len(x) PROVE y[i].cur = x[i].cur /\ y[i].coin = x[i].coin
    <3>1. i \in 1 .. t.max + 1 /\ i - 1 \in 0 .. t.max
      BY <1>1, <2>2
    <3> QED
      BY <2>2, <3>1
  <2>4. Len(x) =< Len(y) /\ Len(x) + 1 .. Len(y) = {}
    BY <1>1, <2>2
  <2>5. Held(y, cur) = Held(x, cur)
    BY <2>2, <2>3, <2>4, HeldTail
  <2> QED
    BY <2>1, <2>5 DEF TrOK, Balanced
<1> QED
  BY <1>2, <1>3 DEF TrOK, Balanced

LEMMA FailIs ==
  ASSUME BlockShape, NEW t, TrOK(t)
  PROVE  TrOK(Fail(t)) /\ Later(t, Fail(t)) /\ ~Fail(t).ok /\ Fail(t).max = t.max /\ Changed(Fail(t)) = Changed(t)
<1>1. PICK u : u = Fail(t)
  OBVIOUS
<1>2. t \in Tran
  BY DEF TrOK, TrBase
<1>3. /\ u \in Tran /\ u.map = t.map /\ u.max = t.max /\ u.hist = t.hist /\ u.smarts = t.smarts /\ u.made = t.made /\ ~u.ok
  BY <1>1, <1>2 DEF Fail, Tran
<1>4. TrBase(u)
  BY <1>3 DEF TrOK, TrBase
<1>5. \A j : ReadStateTR(u, j) = ReadStateTR(t, j)
  BY <1>3 DEF ReadStateTR, Entry
<1>6. Changed(u) = Changed(t)
  BY <1>3 DEF Changed
<1>7. TrOK(u)
  BY <1>3, <1>4, <1>5, <1>6, SameMoney
<1>8. \A j \in 0 .. t.max : ReadStateTR(t, j).op =< ReadStateTR(u, j).op
  <2>1. \A j \in 0 .. t.max : ReadStateTR(t, j) \in Row
    BY EntryIs DEF TrOK
  <2> QED
    BY <1>5, <2>1 DEF Row
<1> QED
  BY <1>1, <1>2, <1>3, <1>6, <1>7, <1>8 DEF Later, Tran

LEMMA LaterSelf == ASSUME BlockShape, NEW t, TrOK(t) PROVE Later(t, t)
<1>1. \A j \in 0 .. t.max : ReadStateTR(t, j) \in Row
  BY EntryIs DEF TrOK
<1> QED
  BY <1>1, SMTT(30) DEF Later, Row, TrOK, TrBase, Tran

LEMMA LaterTwice ==
  ASSUME BlockShape, NEW t, TrOK(t), NEW u, TrOK(u), NEW v, TrOK(v), Later(t, u), Later(u, v)
  PROVE  Later(t, v)
<1>1. /\ \A j \in 0 .. t.max : ReadStateTR(t, j) \in Row
      /\ \A j \in 0 .. u.max : ReadStateTR(u, j) \in Row
      /\ \A j \in 0 .. v.max : ReadStateTR(v, j) \in Row
  BY EntryIs DEF TrOK
<1>2. t.max \in Nat /\ u.max \in Nat /\ v.max \in Nat /\ t.max =< u.max /\ u.max =< v.max
  BY DEF TrOK, TrBase, Tran, Later
<1>3. ASSUME NEW j \in 0 .. t.max PROVE ReadStateTR(t, j).op =< ReadStateTR(v, j).op
  <2>1. j \in 0 .. u.max /\ j \in 0 .. v.max
    BY <1>2
  <2>2. ReadStateTR(t, j).op =< ReadStateTR(u, j).op /\ ReadStateTR(u, j).op =< ReadStateTR(v, j).op
    BY <2>1 DEF Later
  <2>3. ReadStateTR(t, j).op \in Nat /\ ReadStateTR(u, j).op \in Nat /\ ReadStateTR(v, j).op \in Nat
    BY <1>1, <2>1 DEF Row
  <2> QED
    BY <2>2, <2>3
<1> QED
  BY <1>2, <1>3 DEF Later

LEMMA KeepIs ==
  ASSUME BlockShape, NEW t, TrOK(t), NEW id \in 0 .. t.max, NEW op \in Nat, ReadStateTR(t, id).op =< op,
         NEW u, u = Keep(t, id, [ReadStateTR(t, id) EXCEPT !.op = op])
  PROVE  /\ TrOK(u) /\ Later(t, u) /\ u.max = t.max /\ u.ok = t.ok /\ Changed(u) = Changed(t)
         /\ ReadStateTR(u, id) = [ReadStateTR(t, id) EXCEPT !.op = op]
         /\ \A j \in 0 .. t.max : j # id => ReadStateTR(u, j) = ReadStateTR(t, j)
<1>1. PICK r, e : r = ReadStateTR(t, id) /\ e = [Entry(t, id) EXCEPT !.row = [r EXCEPT !.op = op]]
  OBVIOUS
<1>2. TrBase(t) /\ t.max \in Nat
  BY DEF TrOK, TrBase, Tran
<1>3. EntryOK(Entry(t, id), id) /\ r \in Row /\ r = Entry(t, id).row /\ (id \in DOMAIN t.map => Entry(t, id) = t.map[id])
  BY <1>1, <1>2, EntryIs
<1>4. /\ e \in Item /\ e.row = [r EXCEPT !.op = op] /\ e.changed = Entry(t, id).changed /\ e.new = Entry(t, id).new
      /\ e.back = Entry(t, id).back
  BY <1>1, <1>3 DEF EntryOK, Item, Row
<1>5. EntryOK(e, id)
  <2>1. /\ e.row.cur = r.cur /\ e.row.key = r.key /\ e.row.smart = r.smart /\ e.row.born = r.born /\ e.row.pos = r.pos
        /\ e.row.op = op /\ e.row.coin = r.coin
    BY <1>3, <1>4 DEF Row
  <2>2. id =< chg.max => Account(id).op \in Nat
    <3>1. id =< chg.max => id \in 0 .. chg.max
      BY <1>2, EntryIs
    <3> QED
      BY <3>1, AccountIs DEF Row
  <2>3. r.op \in Nat /\ r.op =< op
    BY <1>1, <1>3 DEF Row
  <2> QED
    BY <1>3, <1>4, <2>1, <2>2, <2>3 DEF EntryOK, OldOK, NewOK
<1>6. u = [t EXCEPT !.map = With(t.map, id, e)]
  BY <1>1 DEF Keep
<1>7. IsPut(t, id, e, u)
  BY <1>2, <1>5, <1>6, PutIs, Zenon
<1>8. /\ TrBase(u) /\ u.max = t.max /\ u.hist = t.hist /\ u.ok = t.ok /\ u.made = t.made
      /\ id \in DOMAIN u.map /\ u.map[id] = e
      /\ \A j \in 0 .. t.max : j # id => Entry(u, j) = Entry(t, j)
      /\ DOMAIN u.map = DOMAIN t.map \cup {id}
      /\ \A j \in DOMAIN t.map : j # id => u.map[j] = t.map[j]
  BY <1>7 DEF IsPut
<1>9. Changed(u) = Changed(t)
  <2>1. id \notin DOMAIN t.map => ~Entry(t, id).changed
    <3>1. id \notin DOMAIN t.map => id \in 0 .. chg.max
      BY <1>2, EntryIs
    <3>2. id \in DOMAIN chg.map /\ id \notin DOMAIN t.map => chg.map[id] \in Item
      BY <3>1, AccountIs
    <3> QED
      BY <3>2 DEF Entry, Item
  <2> QED
    BY <1>3, <1>4, <1>8, <2>1 DEF Changed
<1>10. /\ ReadStateTR(u, id) = [r EXCEPT !.op = op]
       /\ \A j \in 0 .. t.max : j # id => ReadStateTR(u, j) = ReadStateTR(t, j)
  <2>1. Entry(u, id) = e
    BY <1>8 DEF Entry
  <2> QED
    BY <1>4, <1>8, <2>1 DEF ReadStateTR
<1>11. \A j \in 0 .. t.max : ReadStateTR(u, j).coin = ReadStateTR(t, j).coin /\ ReadStateTR(u, j).cur = ReadStateTR(t, j).cur
  BY <1>1, <1>3, <1>10 DEF Row
<1>12. TrOK(u)
  BY <1>8, <1>9, <1>11, SameMoney
<1>13. ASSUME NEW j \in 0 .. t.max PROVE ReadStateTR(t, j).op =< ReadStateTR(u, j).op
  <2>1. ReadStateTR(t, j).op \in Nat
    BY <1>2, EntryIs DEF Row
  <2>2. CASE j = id
    BY <1>1, <1>3, <1>10, <2>2 DEF Row
  <2>3. CASE j # id
    BY <1>10, <2>1, <2>3
  <2> QED
    BY <2>2, <2>3
<1> QED
  BY <1>1, <1>2, <1>8, <1>9, <1>10, <1>12, <1>13 DEF Later

LEMMA BlankIs == Blank \in Row /\ \A k \in AnyKey : [Blank EXCEPT !.key = k] \in Row
  BY CoinFacts DEF Blank, Row, AnyKey

(* A new account: the map and the maximum grow together.                   *)
IsAdded(t, row, u) ==
  /\ u \in Tran /\ u.max = t.max + 1 /\ u.max \in Nat /\ u.hist = t.hist /\ u.ok = t.ok /\ u.made = t.made
  /\ u.smarts = t.smarts
  /\ DOMAIN u.map = DOMAIN t.map \cup {u.max} /\ u.max \notin DOMAIN t.map
  /\ u.map[u.max] = [row |-> row, back |-> Blank, new |-> TRUE, changed |-> TRUE]
  /\ \A j \in DOMAIN t.map : u.map[j] = t.map[j]
  /\ DOMAIN u.map \subseteq 0 .. u.max /\ chg.max + 1 .. u.max \subseteq DOMAIN u.map
  /\ Changed(u) = Changed(t) \cup {u.max}
  /\ \A j \in 0 .. t.max : ReadStateTR(u, j) = ReadStateTR(t, j)
  /\ ReadStateTR(u, u.max) = row

LEMMA AddedIs ==
  ASSUME BlockShape, NEW t, TrBase(t), NEW row \in Row, NEW u, u = NewAccountTR(t, row)
  PROVE  IsAdded(t, row, u)
<1>1. PICK e, n, m : /\ e = [row |-> row, back |-> Blank, new |-> TRUE, changed |-> TRUE] /\ n = t.max + 1
                     /\ m = With(t.map, n, e)
  OBVIOUS
<1>2. /\ t \in Tran /\ t.max \in Nat /\ t.map \in Maps /\ chg.max \in Nat
      /\ DOMAIN t.map \subseteq 0 .. t.max /\ chg.max + 1 .. t.max \subseteq DOMAIN t.map
  BY DEF TrBase, Tran, BlockShape, Block
<1>3. n \in Nat /\ n \notin DOMAIN t.map /\ e \in Item
  BY <1>1, <1>2, BlankIs DEF Item
<1>4. /\ DOMAIN m = DOMAIN t.map \cup {n} /\ m[n] = e /\ \A j \in DOMAIN t.map : m[j] = t.map[j]
      /\ m = [j \in DOMAIN m |-> m[j]]
  BY <1>1, <1>3 DEF With
<1>5. m \in Maps /\ DOMAIN m \subseteq 0 .. n /\ chg.max + 1 .. n \subseteq DOMAIN m
  <2>1. DOMAIN t.map \subseteq Nat /\ \A j \in DOMAIN t.map : t.map[j] \in Item
    BY <1>2, MapsIs
  <2>2. m \in Maps
    BY <1>3, <1>4, <2>1, MapsIs
  <2>3. chg.max + 1 .. n \subseteq DOMAIN m
    BY <1>1, <1>2, <1>4
  <2>4. DOMAIN m \subseteq 0 .. n
    BY <1>1, <1>2, <1>4
  <2> QED
    BY <2>2, <2>3, <2>4
<1>6. /\ u = [t EXCEPT !.max = n, !.map = m]
      /\ u.map = m /\ u.max = n /\ u.hist = t.hist /\ u.ok = t.ok /\ u.made = t.made /\ u.smarts = t.smarts /\ u \in Tran
  BY <1>1, <1>2, <1>3, <1>5 DEF NewAccountTR, Tran
<1>7. Changed(u) = Changed(t) \cup {n}
  <2>1. m[n].changed
    BY <1>1, <1>4
  <2> QED
    BY <1>3, <1>4, <1>6, <2>1 DEF Changed
<1>8. ASSUME NEW j \in 0 .. t.max PROVE ReadStateTR(u, j) = ReadStateTR(t, j)
  <2>1. j # n
    BY <1>1, <1>2
  <2>2. (j \in DOMAIN m <=> j \in DOMAIN t.map) /\ (j \in DOMAIN t.map => m[j] = t.map[j])
    BY <1>4, <2>1
  <2> QED
    BY <1>6, <2>2 DEF ReadStateTR, Entry
<1>9. ReadStateTR(u, n) = row
  BY <1>1, <1>4, <1>6 DEF ReadStateTR, Entry
<1> QED
  BY <1>1, <1>3, <1>4, <1>5, <1>6, <1>7, <1>8, <1>9 DEF IsAdded

LEMMA NewIs ==
  ASSUME BlockShape, NEW t, TrOK(t), NEW row \in Row, row.cur = 0, row.smart = 0, row.pos = 0, row.coin = NoCoin,
         NEW u, u = NewAccountTR(t, row)
  PROVE  TrOK(u) /\ Later(t, u) /\ u.max = t.max + 1 /\ u.ok = t.ok /\ ReadStateTR(u, u.max) = row
<1>1. TrBase(t) /\ Paired(t) /\ Balanced(t) /\ t.max \in Nat /\ chg.max \in Nat /\ chg.max =< t.max /\ t.hist \in Seq(Paying)
  BY DEF TrOK, TrBase, Tran, BlockShape, Block
<1>2. IsAdded(t, row, u)
  BY <1>1, AddedIs, Zenon
<1>3. /\ u \in Tran /\ u.max = t.max + 1 /\ u.hist = t.hist /\ u.ok = t.ok /\ u.made = t.made /\ u.smarts = t.smarts
      /\ DOMAIN u.map = DOMAIN t.map \cup {u.max}
      /\ u.map[u.max] = [row |-> row, back |-> Blank, new |-> TRUE, changed |-> TRUE]
      /\ \A j \in DOMAIN t.map : u.map[j] = t.map[j]
      /\ DOMAIN u.map \subseteq 0 .. u.max /\ chg.max + 1 .. u.max \subseteq DOMAIN u.map
      /\ Changed(u) = Changed(t) \cup {u.max}
      /\ \A j \in 0 .. t.max : ReadStateTR(u, j) = ReadStateTR(t, j)
      /\ ReadStateTR(u, u.max) = row
  BY <1>2 DEF IsAdded
<1>4. EntryOK(u.map[u.max], u.max)
  <2>1. u.map[u.max] \in Item
    BY <1>3, BlankIs DEF Item
  <2>2. NewOK(u.map[u.max]) /\ ~(u.max =< chg.max)
    BY <1>1, <1>3 DEF NewOK
  <2> QED
    BY <2>1, <2>2 DEF EntryOK
<1>5. TrBase(u)
  <2>1. \A id \in DOMAIN u.map : EntryOK(u.map[id], id)
    BY <1>1, <1>3, <1>4 DEF TrBase
  <2>2. chg.max =< u.max /\ u.smarts = smarts
    BY <1>1, <1>3 DEF TrBase
  <2> QED
    BY <1>3, <2>1, <2>2 DEF TrBase
<1>6. Paired(u)
  <2>1. ASSUME NEW k \in 1 .. Len(u.hist) PROVE u.hist[k].id \in Changed(u) /\ StartHistory =< u.hist[k].id
    BY <1>1, <1>3 DEF Paired
  <2>2. ASSUME NEW j \in StartHistory .. u.max PROVE Worth(ReadStateTR(u, j).coin) = WorthBefore(j) + Pend(u.hist, j)
    <3>1. StartHistory \in Nat
      BY AccountsAssumption
    <3>2. CASE j # u.max
      <4>1. j \in StartHistory .. t.max /\ j \in 0 .. t.max
        BY <1>1, <1>3, <3>1, <3>2
      <4> QED
        BY <1>1, <1>3, <4>1 DEF Paired
    <3>3. CASE j = u.max
      <4>1. WorthBefore(j) = 0 /\ Worth(ReadStateTR(u, j).coin) = 0
        BY <1>1, <1>3, <3>3, CoinFacts DEF WorthBefore
      <4>2. ASSUME NEW k \in 1 .. Len(t.hist) PROVE t.hist[k].id # j
        <5>1. t.hist[k].id \in DOMAIN t.map
          BY <1>1 DEF Paired, Changed
        <5> QED
          BY <1>1, <1>3, <3>3, <5>1 DEF TrBase
      <4>3. Pend(t.hist, j) = 0
        BY <1>1, <4>2, PendNone
      <4> QED
        BY <1>3, <4>1, <4>3
    <3> QED
      BY <3>2, <3>3
  <2> QED
    BY <2>1, <2>2 DEF Paired
<1>7. ASSUME NEW cur \in Nat PROVE Held(Sheet(u), cur) = Held(Rows, cur)
  <2>1. PICK x, y : x = Sheet(t) /\ y = Sheet(u)
    OBVIOUS
  <2>2. /\ x \in Seq(Row) /\ Len(x) = t.max + 1 /\ y \in Seq(Row) /\ Len(y) = t.max + 2
        /\ \A i \in 1 .. t.max + 1 : x[i] = ReadStateTR(t, i - 1)
        /\ \A i \in 1 .. t.max + 2 : y[i] = ReadStateTR(u, i - 1)
    <3>1. u.max + 1 = t.max + 2
      BY <1>1, <1>3
    <3> QED
      BY <1>1, <1>5, <2>1, <3>1, SheetIs
  <2>3. ASSUME NEW i \in 1 .. Len(x) PROVE y[i].cur = x[i].cur /\ y[i].coin = x[i].coin
    <3>1. i \in 1 .. t.max + 1 /\ i \in 1 .. t.max + 2 /\ i - 1 \in 0 .. t.max
      BY <1>1, <2>2
    <3> QED
      BY <1>3, <2>2, <3>1
  <2>4. ASSUME NEW i \in Len(x) + 1 .. Len(y) PROVE y[i].coin = NoCoin
    <3>1. i = t.max + 2 /\ i \in 1 .. t.max + 2 /\ i - 1 = u.max
      BY <1>1, <1>3, <2>2
    <3> QED
      BY <1>3, <2>2, <3>1
  <2>5. Len(x) =< Len(y)
    BY <1>1, <2>2
  <2>6. Held(y, cur) = Held(x, cur)
    BY <2>2, <2>3, <2>4, <2>5, HeldTail
  <2> QED
    BY <1>1, <2>1, <2>6 DEF Balanced
<1>8. Later(t, u)
  <2>1. \A j \in 0 .. t.max : ReadStateTR(t, j) \in Row
    BY <1>1, EntryIs
  <2> QED
    BY <1>1, <1>3, <2>1, SMTT(30) DEF Later, Row
<1> QED
  BY <1>3, <1>5, <1>6, <1>7, <1>8 DEF TrOK, Balanced

(* Money goes from one account to another of the same currency.            *)
SameCur(t, from, to, sum) == Worth(sum) = 0 \/ ReadStateTR(t, from).cur = ReadStateTR(t, to).cur
Sent(t, from, to, u) ==
  /\ TrOK(u) /\ Later(t, u) /\ u.max = t.max /\ (u.ok => from \in Changed(u))
  /\ Changed(u) \subseteq Changed(t) \cup {from, to, Sink}

LEMMA MoveIs ==
  ASSUME BlockShape, NEW t, TrOK(t), NEW from \in Nat, NEW to \in Nat, NEW sum \in Coin, NEW ops \in Nat,
         SameCur(t, from, to, sum)
  PROVE  Sent(t, from, to, Move(t, from, to, sum, ops))
<1>1. PICK rest : rest = SUB(ReadStateTR(t, from).coin, sum)
  OBVIOUS
<1>2. PICK t1 : t1 = Write(t, from, rest, -Worth(sum))
  OBVIOUS
<1>3. PICK t2 : t2 = Write(t1, to, ADD(ReadStateTR(t1, to).coin, sum), Worth(sum))
  OBVIOUS
<1>4. PICK u : u = Keep(t2, from, [ReadStateTR(t2, from) EXCEPT !.op = ReadStateTR(t2, from).op + ops])
  OBVIOUS
<1>5. Move(t, from, to, sum, ops)
        = IF Exists(t, from) /\ Exists(t, to) /\ IsEnough(rest) THEN u ELSE Fail(t)
  BY <1>1, <1>2, <1>3, <1>4 DEF Move, Write
<1>6. TrBase(t) /\ Paired(t) /\ Balanced(t) /\ t.max \in Nat
  BY DEF TrOK, TrBase, Tran
<1>7. CASE ~(Exists(t, from) /\ Exists(t, to) /\ IsEnough(rest))
  <2>1. Changed(Fail(t)) = Changed(t)
    BY FailIs
  <2> QED
    BY <1>5, <1>7, <2>1, FailIs DEF Sent
<1>8. CASE Exists(t, from) /\ Exists(t, to) /\ IsEnough(rest)
  <2>1. from \in 0 .. t.max /\ to \in 0 .. t.max
    BY <1>6, <1>8, ExistsIs
  <2>2. PICK r : r = ReadStateTR(t, from) /\ r \in Row /\ r.coin \in Coin
    <3>1. ReadStateTR(t, from) \in Row
      BY <1>6, <2>1, EntryIs
    <3> QED
      BY <3>1 DEF Row
  <2>3. rest \in Coin /\ Worth(rest) = Worth(r.coin) - Worth(sum)
    BY <1>1, <1>8, <2>2, SubExact
  <2>4. Worth(sum) \in Nat /\ Worth(r.coin) \in Nat /\ Worth(rest) \in Nat
    BY <2>2, <2>3, CoinFacts
  <2>5. Worth(rest) = Worth(ReadStateTR(t, from).coin) + (-Worth(sum)) /\ -Worth(sum) \in Int
    BY <2>2, <2>3, <2>4
  <2>6. /\ TrBase(t1) /\ Paired(t1) /\ t1.max = t.max /\ Later(t, t1) /\ Changed(t1) = Changed(t) \cup {from} /\ t1.ok = t.ok
        /\ ReadStateTR(t1, from) = [r EXCEPT !.coin = rest]
        /\ \A j \in 0 .. t.max : j # from => ReadStateTR(t1, j) = ReadStateTR(t, j)
        /\ \A cur \in Nat : Held(Sheet(t1), cur)
                              = Held(Sheet(t), cur) + (IF r.cur = cur THEN -Worth(sum) ELSE 0)
    <3>1. HasWritten(t, from, rest, -Worth(sum), t1)
      BY <1>2, <1>6, <2>1, <2>3, <2>5, WriteIs, Zenon
    <3> QED
      BY <2>2, <3>1 DEF HasWritten
  <2>7. PICK q : q = ReadStateTR(t1, to) /\ q \in Row /\ q.coin \in Coin
    <3>1. ReadStateTR(t1, to) \in Row
      BY <2>1, <2>6, EntryIs
    <3> QED
      BY <3>1 DEF Row
  <2>8. q.cur = ReadStateTR(t, to).cur
    <3>1. CASE to = from
      BY <2>2, <2>6, <2>7, <3>1 DEF Row
    <3>2. CASE to # from
      BY <2>1, <2>6, <2>7, <3>2
    <3> QED
      BY <3>1, <3>2
  <2>9. ADD(q.coin, sum) \in Coin /\ Worth(ADD(q.coin, sum)) = Worth(q.coin) + Worth(sum)
    BY <2>7, AddExact
  <2>10. /\ TrBase(t2) /\ Paired(t2) /\ t2.max = t.max /\ Later(t1, t2) /\ t2.ok = t.ok /\ Changed(t2) = Changed(t1) \cup {to}
         /\ \A cur \in Nat : Held(Sheet(t2), cur)
                               = Held(Sheet(t1), cur) + (IF q.cur = cur THEN Worth(sum) ELSE 0)
    <3>1. HasWritten(t1, to, ADD(q.coin, sum), Worth(sum), t2)
      <4>1. to \in 0 .. t1.max /\ Worth(sum) \in Int
        BY <2>1, <2>4, <2>6
      <4> QED
        BY <1>3, <2>6, <2>7, <2>9, <4>1, WriteIs, Zenon
    <3> QED
      BY <2>6, <2>7, <3>1 DEF HasWritten
  <2>11. Balanced(t2)
    <3>1. ASSUME NEW cur \in Nat PROVE Held(Sheet(t2), cur) = Held(Rows, cur)
      <4>1. /\ Held(Sheet(t2), cur) = Held(Sheet(t1), cur) + (IF q.cur = cur THEN Worth(sum) ELSE 0)
            /\ Held(Sheet(t1), cur) = Held(Sheet(t), cur) + (IF r.cur = cur THEN -Worth(sum) ELSE 0)
        BY <2>6, <2>10
      <4>2. Held(Sheet(t), cur) \in Int /\ Held(Sheet(t), cur) = Held(Rows, cur)
        BY <1>6, SheetIs, HeldIsInt DEF Balanced
      <4>3. q.cur = r.cur \/ Worth(sum) = 0
        BY <2>2, <2>8 DEF SameCur
      <4> QED
        BY <2>4, <4>1, <4>2, <4>3
    <3> QED
      BY <3>1 DEF Balanced
  <2>13. TrOK(t2)
    BY <2>10, <2>11 DEF TrOK
  <2>14. ReadStateTR(t2, from) \in Row
    BY <2>1, <2>10, EntryIs
  <2>15. ReadStateTR(t2, from).op + ops \in Nat /\ ReadStateTR(t2, from).op =< ReadStateTR(t2, from).op + ops
    BY <2>14 DEF Row
  <2>16. TrOK(u) /\ Later(t2, u) /\ u.max = t.max /\ u.ok = t.ok /\ Changed(u) = Changed(t2)
    BY <1>4, <2>1, <2>10, <2>13, <2>15, KeepIs
  <2>17. Later(t, u)
    <3>1. ASSUME NEW j \in 0 .. t.max PROVE ReadStateTR(t, j).op =< ReadStateTR(u, j).op
      <4>1. ReadStateTR(t, j) \in Row /\ ReadStateTR(t1, j) \in Row /\ ReadStateTR(t2, j) \in Row /\ ReadStateTR(u, j) \in Row
        BY <1>6, <2>6, <2>10, <2>16, EntryIs DEF TrOK
      <4>2. /\ ReadStateTR(t, j).op =< ReadStateTR(t1, j).op /\ ReadStateTR(t1, j).op =< ReadStateTR(t2, j).op
            /\ ReadStateTR(t2, j).op =< ReadStateTR(u, j).op
        BY <2>6, <2>10, <2>16 DEF Later
      <4> QED
        BY <4>1, <4>2 DEF Row
    <3> QED
      BY <1>6, <2>6, <2>10, <2>16, <3>1 DEF Later
  <2>18. from \in Changed(u) /\ Changed(u) \subseteq Changed(t) \cup {from, to, Sink}
    BY <2>6, <2>10, <2>16
  <2> QED
    BY <1>5, <1>8, <2>16, <2>17, <2>18 DEF Sent
<1> QED
  BY <1>7, <1>8

LEMMA OnGetIs ==
  ASSUME BlockShape, NEW t, TrOK(t), NEW to \in Nat, NEW sum \in Coin
  PROVE  /\ TrOK(OnGet(t, to, sum)) /\ Later(t, OnGet(t, to, sum)) /\ OnGet(t, to, sum).max = t.max
         /\ Changed(OnGet(t, to, sum)) \subseteq Changed(t) \cup {to, Sink}
<1>1. PICK kind, m : /\ kind = t.smarts[ReadStateTR(t, to).smart + 1].kind
                     /\ m = Move(t, to, Sink, sum, 1)
  OBVIOUS
<1>2. OnGet(t, to, sum) = IF kind = "refuse" THEN Fail(t) ELSE IF kind # "forward" THEN t
                          ELSE IF ReadStateTR(t, to).cur # ReadStateTR(t, Sink).cur THEN Fail(t) ELSE m
  BY <1>1 DEF OnGet
<1>3. TrOK(t) /\ Later(t, t)
  BY LaterSelf
<1>4. TrOK(Fail(t)) /\ Later(t, Fail(t)) /\ Fail(t).max = t.max /\ Changed(Fail(t)) = Changed(t)
  BY FailIs
<1>5. ASSUME ReadStateTR(t, to).cur = ReadStateTR(t, Sink).cur 
      PROVE  TrOK(m) /\ Later(t, m) /\ m.max = t.max /\ Changed(m) \subseteq Changed(t) \cup {to, Sink}
  <2>1. Sink \in Nat /\ 1 \in Nat
    BY AccountsAssumption
  <2>2. SameCur(t, to, Sink, sum)
    BY <1>5 DEF SameCur
  <2> QED
    BY <1>1, <2>1, <2>2, MoveIs DEF Sent
<1> QED
  BY <1>2, <1>3, <1>4, <1>5

LEMMA SendIs ==
  ASSUME BlockShape, NEW t, TrOK(t), NEW from \in Nat, NEW to \in Nat, NEW sum \in Coin, NEW ops \in Nat,
         SameCur(t, from, to, sum)
  PROVE  Sent(t, from, to, SendMoneyTR(t, from, to, sum, ops))
<1>1. PICK m, u : m = Move(t, from, to, sum, ops) /\ u = OnGet(m, to, sum)
  OBVIOUS
<1>2. SendMoneyTR(t, from, to, sum, ops) = IF t.ok THEN (IF m.ok THEN u ELSE m) ELSE t
  BY <1>1 DEF SendMoneyTR
<1>3. Sent(t, from, to, m)
  BY <1>1, MoveIs
<1>4. TrOK(u) /\ Later(m, u) /\ u.max = m.max /\ Changed(u) \subseteq Changed(m) \cup {to, Sink}
  BY <1>1, <1>3, OnGetIs DEF Sent
<1>5. Later(t, u)
  BY <1>3, <1>4, LaterTwice DEF Sent
<1>6. m.ok => from \in Changed(u)
  BY <1>3, <1>4 DEF Sent, Later
<1> QED
  BY <1>2, <1>3, <1>4, <1>5, <1>6, LaterSelf DEF Sent

LEMMA CurIs ==
  ASSUME BlockShape, NEW t, TrBase(t)
  PROVE  /\ \A id \in 0 .. t.max : ReadStateTR(t, id).cur = IF id =< chg.max THEN Account(id).cur ELSE 0
         /\ 0 \in 0 .. t.max /\ ReadStateTR(t, 0).cur = 0
         /\ Developer \in 0 .. t.max /\ ReadStateTR(t, Developer).cur = 0
<1>1. ASSUME NEW id \in 0 .. t.max PROVE ReadStateTR(t, id).cur = IF id =< chg.max THEN Account(id).cur ELSE 0
  <2>1. EntryOK(Entry(t, id), id) /\ ReadStateTR(t, id) = Entry(t, id).row
    BY EntryIs
  <2> QED
    BY <2>1 DEF EntryOK, OldOK, NewOK
<1>2. /\ t.max \in Nat /\ chg.max \in Nat /\ chg.max =< t.max /\ Len(state) =< chg.max + 1 /\ Len(state) \in Nat
      /\ Len(GenesisRows) \in Nat /\ Len(GenesisRows) =< Len(state)
      /\ Developer \in 0 .. Len(GenesisRows) - 1
  <2>1. GenesisRows \in Seq(Row) /\ Developer \in 0 .. Len(GenesisRows) - 1
    BY AccountsAssumption
  <2>2. /\ t.max \in Nat /\ chg.max \in Nat /\ chg.max =< t.max /\ Len(state) =< chg.max + 1 /\ state \in Seq(Row)
        /\ Len(GenesisRows) =< Len(state)
    BY DEF BlockShape, Block, TrBase, Tran
  <2>3. Len(GenesisRows) \in Nat /\ Len(state) \in Nat
    BY <2>1, <2>2
  <2> QED
    BY <2>1, <2>2, <2>3
<1>3. /\ Developer \in 0 .. t.max /\ 0 \in 0 .. t.max /\ Developer =< chg.max /\ 0 =< chg.max
      /\ 1 \in 1 .. Len(GenesisRows) /\ Developer + 1 \in 1 .. Len(GenesisRows)
  BY <1>2
<1>4. GenesisRows[1].cur = 0 /\ GenesisRows[Developer + 1].cur = 0
  BY AccountsAssumption
<1>5. Account(0).cur = 0 /\ Account(Developer).cur = 0
  <2>1. Account(1 - 1).cur = GenesisRows[1].cur /\ Account((Developer + 1) - 1).cur = GenesisRows[Developer + 1].cur
    BY <1>3 DEF BlockShape
  <2>2. 1 - 1 = 0 /\ (Developer + 1) - 1 = Developer
    BY <1>3
  <2> QED
    BY <1>4, <2>1, <2>2
<1> QED
  BY <1>1, <1>3, <1>5

(* What the loop over the receivers relies on: all sums are sums of money, *)
(* the sender exists, and nothing is paid if the total is nothing.         *)
Payable(tx) ==
  /\ tx \in Transaction /\ tx.from \in 0 .. chg.max /\ \A i \in DOMAIN tx.to : tx.to[i].sum \in Coin
  /\ Total(tx) = NoCoin => \A i \in Paid(tx) : Worth(tx.to[i].sum) = 0
AfterPay(t, tx, i, u) == TrOK(u) /\ Later(t, u) /\ (u.ok /\ i \in Paid(tx) => tx.from \in Changed(u))

LEMMA PayNewIs ==
  ASSUME BlockShape, NEW t, TrOK(t), NEW tx, Payable(tx), NEW i \in DOMAIN tx.to,
         SameCur(t, tx.from, 0, tx.to[i].sum)
  PROVE  AfterPay(t, tx, i, PayNew(t, tx, i))
<1>1. PICK row, n : row = [Blank EXCEPT !.key = tx.to[i].key] /\ n = NewAccountTR(t, row)
  OBVIOUS
<1>2. PICK s, u : /\ s = SendMoneyTR(n, tx.from, n.max, tx.to[i].sum, 1)
                  /\ u = SendMoneyTR(s, n.max, 0, [NoCoin EXCEPT !.coin = Price], 1)
  OBVIOUS
<1>3. PayNew(t, tx, i) = IF tx.to[i].sum.coin < Price THEN Fail(t) ELSE u
  BY <1>1, <1>2 DEF PayNew
<1>4. tx.from \in Nat /\ tx.to[i].key \in AnyKey /\ tx.to[i].sum \in Coin /\ tx.from \in 0 .. chg.max
  <2>1. tx.to \in Seq(Receiver) /\ tx.from \in Nat
    BY DEF Payable, Transaction
  <2>2. tx.to[i] \in Receiver
    BY <2>1
  <2> QED
    BY <2>1, <2>2 DEF Payable, Receiver
<1>5. /\ row \in Row /\ row.cur = 0 /\ row.smart = 0 /\ row.pos = 0 /\ row.coin = NoCoin
  <2>1. row \in Row
    BY <1>1, <1>4, BlankIs
  <2> QED
    BY <1>1, <2>1 DEF Blank
<1>6. TrOK(n) /\ Later(t, n) /\ n.max = t.max + 1 /\ ReadStateTR(n, n.max) = row
  BY <1>1, <1>5, NewIs
<1>7. TrBase(t) /\ t.max \in Nat /\ chg.max \in Nat /\ chg.max =< t.max /\ TrBase(n) /\ n.max \in Nat
  BY <1>6 DEF TrOK, TrBase, Tran, BlockShape, Block
<1>8. SameCur(n, tx.from, n.max, tx.to[i].sum)
  <2>1. CASE Worth(tx.to[i].sum) = 0
    BY <2>1 DEF SameCur
  <2>2. CASE Worth(tx.to[i].sum) # 0
    <3>1. ReadStateTR(t, tx.from).cur = ReadStateTR(t, 0).cur
      BY <2>2 DEF SameCur
    <3>2. ReadStateTR(t, 0).cur = 0
      BY <1>7, CurIs
    <3>3. tx.from \in 0 .. t.max /\ tx.from \in 0 .. n.max /\ tx.from =< chg.max
      BY <1>4, <1>6, <1>7
    <3>4. ReadStateTR(t, tx.from).cur = ReadStateTR(n, tx.from).cur
      BY <1>7, <3>3, CurIs
    <3> QED
      BY <1>5, <1>6, <3>1, <3>2, <3>4 DEF SameCur
  <2> QED
    BY <2>1, <2>2
<1>9. 1 \in Nat /\ 0 \in Nat
  OBVIOUS
<1>10. Sent(n, tx.from, n.max, s)
  BY <1>2, <1>4, <1>6, <1>7, <1>8, <1>9, SendIs
<1>11. TrOK(s) /\ Later(n, s) /\ s.max = n.max /\ (s.ok => tx.from \in Changed(s)) /\ TrBase(s)
  BY <1>10 DEF Sent, TrOK
<1>12. SameCur(s, n.max, 0, [NoCoin EXCEPT !.coin = Price])
  <2>1. n.max \in 0 .. s.max /\ ~(n.max =< chg.max)
    BY <1>6, <1>7, <1>11
  <2>2. ReadStateTR(s, n.max).cur = 0 /\ ReadStateTR(s, 0).cur = 0
    BY <1>11, <2>1, CurIs
  <2> QED
    BY <2>2 DEF SameCur
<1>13. [NoCoin EXCEPT !.coin = Price] \in Coin
  BY CoinFacts, AccountsAssumption DEF Coin
<1>14. Sent(s, n.max, 0, u)
  BY <1>2, <1>7, <1>9, <1>11, <1>12, <1>13, SendIs
<1>15. TrOK(u) /\ Later(s, u)
  BY <1>14 DEF Sent
<1>16. Later(t, u)
  <2>1. Later(t, s)
    BY <1>6, <1>11, LaterTwice
  <2> QED
    BY <1>11, <1>15, <2>1, LaterTwice
<1>17. u.ok => tx.from \in Changed(u)
  BY <1>11, <1>15 DEF Later
<1> QED
  BY <1>3, <1>15, <1>16, <1>17, FailIs DEF AfterPay

LEMMA PayIs ==
  ASSUME BlockShape, NEW t, TrOK(t), NEW tx, Payable(tx), NEW i \in DOMAIN tx.to
  PROVE  AfterPay(t, tx, i, Pay(t, tx, i))
<1>1. PICK to, sum, n, u : /\ to = tx.to[i].id /\ sum = tx.to[i].sum /\ n = PayNew(t, tx, i)
                           /\ u = SendMoneyTR(t, tx.from, to, sum, 0)
  OBVIOUS
<1>2. tx.from \in Nat /\ to \in Nat /\ sum \in Coin /\ 0 \in Nat
  <2>1. tx.to \in Seq(Receiver) /\ tx.from \in Nat
    BY DEF Payable, Transaction
  <2>2. tx.to[i] \in Receiver
    BY <2>1
  <2> QED
    BY <1>1, <2>1, <2>2 DEF Payable, Receiver
<1>3. AfterPay(t, tx, i, Fail(t))
  BY FailIs DEF AfterPay
<1>4. CASE ~t.ok \/ ~Exists(t, to) \/ Pay(t, tx, i) = Fail(t)
  <2>1. Pay(t, tx, i) = Fail(t)
    BY <1>1, <1>4 DEF Pay
  <2> QED
    BY <1>3, <2>1
<1>5. CASE /\ t.ok /\ Exists(t, to)
           /\ ~(Total(tx) # NoCoin /\ ReadStateTR(t, tx.from).cur # ReadStateTR(t, to).cur)
           /\ ~(ReadStateTR(t, to).smart # 0 /\ Len(tx.to) > 1)
  <2>1. Pay(t, tx, i) = IF MakesAccount(tx, i) THEN n ELSE IF Skips(tx, i) THEN t ELSE u
    BY <1>1, <1>5 DEF Pay
  <2>2. i \in Paid(tx) => SameCur(t, tx.from, to, sum)
    BY <1>1, <1>5 DEF Payable, SameCur
  <2>3. CASE MakesAccount(tx, i)
    <3>1. i \in Paid(tx) /\ to = 0
      BY <1>1, <2>3 DEF MakesAccount, Paid, Skips
    <3>2. AfterPay(t, tx, i, n)
      BY <1>1, <2>2, <3>1, PayNewIs
    <3> QED
      BY <2>1, <2>3, <3>2
  <2>4. CASE ~MakesAccount(tx, i) /\ Skips(tx, i)
    <3>1. i \notin Paid(tx)
      BY <2>4 DEF Paid
    <3> QED
      BY <2>1, <2>4, <3>1, LaterSelf DEF AfterPay
  <2>5. CASE ~MakesAccount(tx, i) /\ ~Skips(tx, i)
    <3>1. i \in Paid(tx)
      BY <2>5 DEF Paid
    <3>2. Sent(t, tx.from, to, u)
      BY <1>1, <1>2, <2>2, <3>1, SendIs
    <3> QED
      BY <2>1, <2>5, <3>2 DEF Sent, AfterPay
  <2> QED
    BY <2>3, <2>4, <2>5
<1>6. t.ok /\ Exists(t, to) /\ Pay(t, tx, i) # Fail(t) =>
        /\ ~(Total(tx) # NoCoin /\ ReadStateTR(t, tx.from).cur # ReadStateTR(t, to).cur)
        /\ ~(ReadStateTR(t, to).smart # 0 /\ Len(tx.to) > 1)
  BY <1>1 DEF Pay
<1> QED
  BY <1>4, <1>5, <1>6

(* The total of what is paid.                                              *)
LEMMA TotalIs ==
  ASSUME NEW tx \in Transaction, \A i \in DOMAIN tx.to : tx.to[i].sum \in Coin
  PROVE  Total(tx) \in Coin /\ (Total(tx) = NoCoin => \A i \in Paid(tx) : Worth(tx.to[i].sum) = 0)
<1>1. PICK N : N = Len(tx.to)
  OBVIOUS
<1>2. N \in Nat /\ DOMAIN tx.to = 1 .. N /\ Paid(tx) \subseteq 1 .. N
  BY <1>1 DEF Transaction, Paid
<1> DEFINE Turn(x, i) == IF i \in Paid(tx) THEN ADD(x, tx.to[i].sum) ELSE x
           Is(h) == h = [i \in 0 .. N |-> IF i = 0 THEN NoCoin ELSE Turn(h[i - 1], i)]
           h == CHOOSE x : Is(x)
<1>3. ASSUME NEW i \in 1 .. N, NEW x \in Coin PROVE Turn(x, i) \in Coin
  BY <1>2, AddExact
<1>4. Total(tx) = h[N]
  BY <1>1 DEF Total
<1> HIDE DEF Turn
<1>5. \E f : Is(f)
  <2>1. PICK G : G = [i \in 1 .. N |-> [x \in Coin |-> Turn(x, i)]]
    OBVIOUS
  <2>2. G \in [1 .. N -> [Coin -> Coin]]
    BY <1>3, <2>1
  <2>3. Taken(N, Coin, NoCoin, G)
    BY <1>2, <2>2, CoinFacts, Turns
  <2>4. PICK f \in [0 .. N -> Coin] : f[0] = NoCoin /\ \A i \in 1 .. N : f[i] = G[i][f[i - 1]]
    BY <2>3 DEF Taken
  <2>5. ASSUME NEW i \in 0 .. N PROVE f[i] = IF i = 0 THEN NoCoin ELSE Turn(f[i - 1], i)
    <3>1. CASE i # 0
      <4>1. i \in 1 .. N /\ i - 1 \in 0 .. N
        BY <1>2, <3>1
      <4>2. f[i - 1] \in Coin /\ f[i] = G[i][f[i - 1]]
        BY <2>4, <4>1
      <4> QED
        BY <2>1, <3>1, <4>1, <4>2
    <3> QED
      BY <2>4, <3>1
  <2> QED
    BY <2>5
<1>6. Is(h)
  BY <1>5
<1> HIDE DEF h
<1>7. h[0] = NoCoin /\ \A i \in 1 .. N : h[i] = Turn(h[i - 1], i)
  BY <1>2, <1>6
<1> DEFINE Q == {i \in 0 .. N : h[i] \in Coin /\ \A j \in 1 .. i : j \in Paid(tx) => Worth(tx.to[j].sum) =< Worth(h[i])}
<1>8. 0 \in Q
  BY <1>2, <1>7, CoinFacts
<1>9. ASSUME NEW i \in 1 .. N, i - 1 \in Q PROVE i \in Q
  <2>1. /\ h[i] = Turn(h[i - 1], i) /\ h[i - 1] \in Coin /\ i \in 0 .. N
        /\ \A j \in 1 .. i - 1 : j \in Paid(tx) => Worth(tx.to[j].sum) =< Worth(h[i - 1])
    BY <1>2, <1>7, <1>9
  <2>2. Worth(h[i - 1]) \in Nat
    BY <2>1, CoinFacts
  <2>3. CASE i \notin Paid(tx)
    <3>1. h[i] = h[i - 1]
      BY <2>1, <2>3 DEF Turn
    <3>2. ASSUME NEW j \in 1 .. i, j \in Paid(tx) PROVE j \in 1 .. i - 1
      BY <1>2, <2>3, <3>2
    <3> QED
      BY <2>1, <3>1, <3>2
  <2>4. CASE i \in Paid(tx)
    <3>1. h[i] = ADD(h[i - 1], tx.to[i].sum) /\ tx.to[i].sum \in Coin
      BY <1>2, <2>1, <2>4 DEF Turn
    <3>2. h[i] \in Coin /\ Worth(h[i]) = Worth(h[i - 1]) + Worth(tx.to[i].sum)
      BY <2>1, <3>1, AddExact
    <3>3. Worth(tx.to[i].sum) \in Nat
      BY <3>1, CoinFacts
    <3>4. ASSUME NEW j \in 1 .. i, j \in Paid(tx) PROVE Worth(tx.to[j].sum) =< Worth(h[i])
      <4>1. CASE j = i
        BY <2>2, <3>2, <3>3, <4>1
      <4>2. CASE j # i
        <5>1. j \in 1 .. i - 1 /\ j \in 1 .. N
          BY <1>2, <4>2
        <5>2. Worth(tx.to[j].sum) \in Nat
          BY <1>2, <5>1, CoinFacts
        <5> QED
          BY <2>1, <2>2, <3>2, <3>3, <3>4, <5>1, <5>2
      <4> QED
        BY <4>1, <4>2
    <3> QED
      BY <2>1, <3>2, <3>4
  <2> QED
    BY <2>3, <2>4
<1> HIDE DEF Q
<1>10. \A i \in 0 .. N : i \in Q
  BY <1>2, <1>8, <1>9, OneByOne
<1>11. N \in 0 .. N
  BY <1>2
<1>12. h[N] \in Coin /\ \A j \in 1 .. N : j \in Paid(tx) => Worth(tx.to[j].sum) =< Worth(h[N])
  BY <1>10, <1>11 DEF Q
<1>13. ASSUME h[N] = NoCoin, NEW i \in Paid(tx) PROVE Worth(tx.to[i].sum) = 0
  <2>1. i \in 1 .. N /\ tx.to[i].sum \in Coin
    BY <1>2
  <2>2. Worth(tx.to[i].sum) \in Nat /\ Worth(tx.to[i].sum) =< 0
    BY <1>12, <1>13, <2>1, CoinFacts
  <2> QED
    BY <2>2
<1> QED
  BY <1>4, <1>12, <1>13

(* All receivers are paid.                                                 *)
LEMMA PayAllIs ==
  ASSUME BlockShape, NEW t, TrOK(t), NEW tx, Payable(tx), NEW op \in Nat, ReadStateTR(t, tx.from).op =< op
  PROVE  LET u == PayAll(t, tx, op) IN
         /\ TrOK(u) /\ Later(t, u) /\ op =< ReadStateTR(u, tx.from).op
         /\ u.ok /\ Paid(tx) # {} => tx.from \in Changed(u)
<1>1. PICK N, first : N = Len(tx.to) /\ first = Keep(t, tx.from, [ReadStateTR(t, tx.from) EXCEPT !.op = op])
  OBVIOUS
<1>2. N \in Nat /\ DOMAIN tx.to = 1 .. N /\ Paid(tx) \subseteq 1 .. N /\ tx.from \in 0 .. t.max
  <2>1. tx \in Transaction /\ tx.from \in 0 .. chg.max
    BY DEF Payable
  <2>2. t.max \in Nat /\ chg.max \in Nat /\ chg.max =< t.max
    BY DEF TrOK, TrBase, Tran, BlockShape, Block
  <2> QED
    BY <1>1, <2>1, <2>2 DEF Transaction, Paid
<1>3. TrOK(first) /\ Later(t, first) /\ ReadStateTR(first, tx.from).op = op /\ tx.from \in 0 .. first.max
  <2>1. /\ TrOK(first) /\ Later(t, first) /\ first.max = t.max
        /\ ReadStateTR(first, tx.from) = [ReadStateTR(t, tx.from) EXCEPT !.op = op]
    BY <1>1, <1>2, KeepIs
  <2>2. ReadStateTR(t, tx.from) \in Row
    BY <1>2, EntryIs DEF TrOK
  <2> QED
    BY <1>2, <2>1, <2>2 DEF Row
<1>4. PICK T : T = {u \in Tran : TrOK(u) /\ Later(first, u)}
  OBVIOUS
<1>5. first \in T
  BY <1>3, <1>4, LaterSelf DEF TrOK, TrBase
<1> DEFINE Turn(x, i) == Pay(x, tx, i)
           Is(h) == h = [i \in 0 .. N |-> IF i = 0 THEN first ELSE Turn(h[i - 1], i)]
           h == CHOOSE x : Is(x)
<1>6. PayAll(t, tx, op) = h[N]
  BY <1>1 DEF PayAll
<1>7. ASSUME NEW i \in 1 .. N, NEW x \in T PROVE AfterPay(x, tx, i, Turn(x, i)) /\ Turn(x, i) \in T
  <2>1. TrOK(x) /\ Later(first, x) /\ i \in DOMAIN tx.to
    BY <1>2, <1>4
  <2>2. AfterPay(x, tx, i, Turn(x, i))
    BY <2>1, PayIs
  <2>3. TrOK(Turn(x, i)) /\ Later(x, Turn(x, i))
    BY <2>2 DEF AfterPay
  <2>4. Later(first, Turn(x, i))
    BY <1>3, <2>1, <2>3, LaterTwice
  <2> QED
    BY <1>4, <2>2, <2>3, <2>4 DEF TrOK, TrBase
<1> HIDE DEF Turn
<1>8. \E f : Is(f)
  <2>1. PICK G : G = [i \in 1 .. N |-> [x \in T |-> Turn(x, i)]]
    OBVIOUS
  <2>2. G \in [1 .. N -> [T -> T]]
    BY <1>7, <2>1
  <2>3. Taken(N, T, first, G)
    BY <1>2, <1>5, <2>2, Turns
  <2>4. PICK f \in [0 .. N -> T] : f[0] = first /\ \A i \in 1 .. N : f[i] = G[i][f[i - 1]]
    BY <2>3 DEF Taken
  <2>5. ASSUME NEW i \in 0 .. N PROVE f[i] = IF i = 0 THEN first ELSE Turn(f[i - 1], i)
    <3>1. CASE i # 0
      <4>1. i \in 1 .. N /\ i - 1 \in 0 .. N
        BY <1>2, <3>1
      <4>2. f[i - 1] \in T /\ f[i] = G[i][f[i - 1]]
        BY <2>4, <4>1
      <4> QED
        BY <2>1, <3>1, <4>1, <4>2
    <3> QED
      BY <2>4, <3>1
  <2> QED
    BY <2>5
<1>9. Is(h)
  BY <1>8
<1> HIDE DEF h
<1>10. h[0] = first /\ \A i \in 1 .. N : h[i] = Turn(h[i - 1], i)
  BY <1>2, <1>9
<1> DEFINE Q == {i \in 0 .. N : h[i] \in T /\ (h[i].ok /\ (\E j \in 1 .. i : j \in Paid(tx)) => tx.from \in Changed(h[i]))}
<1>11. 0 \in Q
  BY <1>2, <1>5, <1>10
<1>12. ASSUME NEW i \in 1 .. N, i - 1 \in Q PROVE i \in Q
  <2>1. /\ h[i] = Turn(h[i - 1], i) /\ h[i - 1] \in T /\ i \in 0 .. N
        /\ h[i - 1].ok /\ (\E j \in 1 .. i - 1 : j \in Paid(tx)) => tx.from \in Changed(h[i - 1])
    BY <1>2, <1>10, <1>12
  <2>2. AfterPay(h[i - 1], tx, i, h[i]) /\ h[i] \in T
    BY <1>7, <2>1
  <2>3. ASSUME h[i].ok, NEW j \in 1 .. i, j \in Paid(tx) PROVE tx.from \in Changed(h[i])
    <3>1. CASE j = i
      BY <2>2, <2>3, <3>1 DEF AfterPay
    <3>2. CASE j # i
      <4>1. j \in 1 .. i - 1 /\ h[i - 1].ok
        BY <1>2, <2>2, <2>3, <3>2 DEF AfterPay, Later
      <4> QED
        BY <2>1, <2>2, <2>3, <4>1 DEF AfterPay, Later
    <3> QED
      BY <3>1, <3>2
  <2> QED
    BY <2>1, <2>2, <2>3
<1> HIDE DEF Q
<1>13. \A i \in 0 .. N : i \in Q
  BY <1>2, <1>11, <1>12, OneByOne
<1>14. N \in 0 .. N
  BY <1>2
<1>15. PICK u : u = h[N] /\ u \in T /\ (u.ok /\ (\E j \in 1 .. N : j \in Paid(tx)) => tx.from \in Changed(u))
  BY <1>13, <1>14 DEF Q
<1>16. TrOK(u) /\ Later(first, u) /\ Later(t, u)
  BY <1>3, <1>4, <1>15, LaterTwice
<1>17. op =< ReadStateTR(u, tx.from).op
  BY <1>3, <1>16 DEF Later
<1>18. u.ok /\ Paid(tx) # {} => tx.from \in Changed(u)
  BY <1>2, <1>15
<1> QED
  BY <1>6, <1>15, <1>16, <1>17, <1>18
-----------------------------------------------------------------------------
(* A transaction begins and ends.  What is kept of it in the end are the   *)
(* accounts it has changed and those it has made, whose contract and       *)
(* currency are looked up; at most one of them is the owner of a new       *)
(* contract and gets all coins of its currency.                            *)
LEMMA RowsIs ==
  ASSUME BlockShape
  PROVE  /\ (chg.on => Rows = [i \in 1 .. chg.max + 1 |-> Account(i - 1)])
         /\ \A i \in 1 .. chg.max + 1 : Account(i - 1) \in Row
<1>1. chg.max \in Nat
  BY DEF BlockShape, Block
<1>2. ASSUME NEW i \in 1 .. chg.max + 1 PROVE Account(i - 1) \in Row
  <2>1. i - 1 \in 0 .. chg.max
    BY <1>1
  <2> QED
    BY <2>1, AccountIs
<1> QED
  BY <1>2 DEF Rows, Top

LEMMA BeginIs ==
  ASSUME BlockShape, chg.on
  PROVE  /\ TrOK(BeginTransaction) /\ BeginTransaction.ok /\ BeginTransaction.max = chg.max
         /\ \A id \in 0 .. chg.max : ReadStateTR(BeginTransaction, id) = Account(id)
<1>1. PICK t : t = BeginTransaction
  OBVIOUS
<1>2. chg \in Block /\ chg.max \in Nat /\ chg.made \in BOOLEAN /\ smarts \in Seq(Contract) /\ StartHistory \in Nat
  BY AccountsAssumption DEF BlockShape, Block
<1>3. /\ t.map = << >> /\ t.max = chg.max /\ t.hist = << >> /\ t.smarts = smarts /\ t.ok
  BY <1>1 DEF BeginTransaction
<1>4. DOMAIN t.map = {} /\ t.map \in Maps
  <2>1. DOMAIN t.map = {}
    BY <1>3
  <2>2. t.map = [i \in DOMAIN t.map |-> t.map[i]]
    BY <1>3
  <2> QED
    BY <2>1, <2>2, MapsIs
<1>5. t \in Tran
  BY <1>1, <1>2, <1>3, <1>4 DEF BeginTransaction, Tran
<1>6. TrBase(t)
  BY <1>2, <1>3, <1>4, <1>5 DEF TrBase
<1>7. ASSUME NEW id \in 0 .. chg.max PROVE ReadStateTR(t, id) = Account(id)
  <2>1. id \notin DOMAIN t.map
    BY <1>4
  <2> QED
    BY <1>3, <1>6, <2>1, EntryIs
<1>8. Paired(t)
  <2>1. Len(t.hist) = 0 /\ t.hist \in Seq(Paying)
    BY <1>3
  <2>2. ASSUME NEW id \in StartHistory .. t.max PROVE Worth(ReadStateTR(t, id).coin) = WorthBefore(id) + Pend(t.hist, id)
    <3>1. id \in 0 .. chg.max /\ id =< chg.max
      BY <1>2, <1>3
    <3>2. Pend(t.hist, id) = 0
      BY <2>1, PendNone
    <3>3. Worth(Account(id).coin) \in Nat
      BY <3>1, AccountIs, CoinFacts DEF Row
    <3> QED
      BY <1>7, <3>1, <3>2, <3>3 DEF WorthBefore
  <2> QED
    BY <2>1, <2>2 DEF Paired
<1>9. Sheet(t) = Rows
  <2>1. \A i \in 1 .. chg.max + 1 : i - 1 \in 0 .. chg.max
    BY <1>2
  <2>2. \A i \in 1 .. chg.max + 1 : ReadStateTR(t, i - 1) = Account(i - 1)
    BY <1>7, <2>1
  <2>3. Sheet(t) = [i \in 1 .. chg.max + 1 |-> Account(i - 1)]
    BY <1>3, <2>2 DEF Sheet
  <2> QED
    BY <2>3, RowsIs
<1>10. Balanced(t)
  BY <1>9 DEF Balanced
<1> QED
  BY <1>1, <1>3, <1>6, <1>7, <1>8, <1>10 DEF TrOK

LEMMA RegisteredIs ==
  ASSUME BlockShape, NEW u, NEW row \in Row
  PROVE  LET r == Registered(u, row) IN
         /\ r \in Row /\ r.coin = row.coin /\ r.pos = row.pos /\ r.op = row.op /\ (row.cur = 0 => r.cur = 0)
         /\ r.born = chg.num
         /\ row.cur < Len(u.smarts) /\ u.smarts[row.cur + 1].kind = "token" => r.cur = row.cur
<1>1. PICK number : number = [k \in Nat |-> IF k < Len(u.smarts) THEN k ELSE 0]
  OBVIOUS
<1>2. row.cur \in Nat /\ row.smart \in Nat /\ chg.num \in Nat
  BY DEF Row, BlockShape, Block
<1>3. PICK c : c = IF u.smarts[number[row.cur] + 1].kind = "token" THEN number[row.cur] ELSE 0
  OBVIOUS
<1>4. Registered(u, row) = [row EXCEPT !.born = chg.num, !.smart = number[row.smart], !.cur = c]
  BY <1>1, <1>2, <1>3 DEF Registered
<1>5. number[row.smart] \in Nat /\ c \in Nat /\ (row.cur = 0 => c = 0)
      /\ (row.cur < Len(u.smarts) /\ u.smarts[row.cur + 1].kind = "token" => c = row.cur)
  BY <1>1, <1>2, <1>3
<1> QED
  BY <1>2, <1>4, <1>5 DEF Row

EndRow(u, id) ==
  IF id \notin Changed(u) THEN Account(id)
  ELSE IF u.map[id].new THEN Registered(u, u.map[id].row) ELSE u.map[id].row
EndSheet(u) == [i \in 1 .. u.max + 1 |-> EndRow(u, i - 1)]
NewContracts(u) == Len(smarts) + 1 .. Len(u.smarts)

EndOK(e, id) ==
  e \in Item /\ IF id =< chg.max THEN OldOK(e, id) ELSE e.new /\ e.changed /\ e.back = Blank /\ e.row.pos = 0

Finished(u) ==
  /\ u \in Tran /\ chg.max =< u.max /\ DOMAIN u.map \subseteq 0 .. u.max /\ chg.max + 1 .. u.max \subseteq DOMAIN u.map
  /\ \A id \in DOMAIN u.map : EndOK(u.map[id], id)
  /\ Len(smarts) =< Len(u.smarts) /\ \A i \in 1 .. Len(smarts) : u.smarts[i] = smarts[i]
  /\ \A i \in NewContracts(u) : u.smarts[i].num = chg.num /\ u.smarts[i].account \in chg.max + 1 .. u.max
  /\ \A cur \in Nat : Held(EndSheet(u), cur)
                        = Held(Rows, cur) + (IF cur + 1 \in NewContracts(u) THEN StartValue * Cents ELSE 0)
  /\ \A k \in 1 .. Len(u.hist) : u.hist[k].id \in Changed(u) /\ StartHistory =< u.hist[k].id
  /\ \A id \in StartHistory .. u.max :
       Worth(EndRow(u, id).coin)
         = WorthBefore(id) + Pend(u.hist, id)
             + (IF \E i \in NewContracts(u) : u.smarts[i].account = id THEN StartValue * Cents ELSE 0)

(* What is kept of an account that the transaction t knows.                *)
LEMMA EndRowIs ==
  ASSUME BlockShape, NEW t, TrOK(t), NEW u,
         \A id \in DOMAIN t.map : u.map[id] = t.map[id],
         \A id \in 0 .. t.max : id \in Changed(u) <=> id \in Changed(t),
         NEW id \in 0 .. t.max
  PROVE  /\ EndRow(u, id) \in Row /\ EndRow(u, id).coin = ReadStateTR(t, id).coin /\ EndRow(u, id).cur = ReadStateTR(t, id).cur
         /\ id \in Changed(t) => EndRow(u, id).op = ReadStateTR(t, id).op
         /\ id =< chg.max => Account(id).op =< EndRow(u, id).op
<1>1. /\ EntryOK(Entry(t, id), id) /\ Entry(t, id).row \in Row /\ ReadStateTR(t, id) = Entry(t, id).row
      /\ id \in DOMAIN t.map => Entry(t, id) = t.map[id]
      /\ id \notin DOMAIN t.map => id =< chg.max /\ Entry(t, id).row = Account(id)
      /\ id =< chg.max => id \in 0 .. chg.max
  BY EntryIs DEF TrOK
<1>2. id =< chg.max => Account(id) \in Row /\ Account(id).op \in Nat
  BY <1>1, AccountIs DEF Row
<1>3. CASE id \notin Changed(t)
  <2>1. EndRow(u, id) = Account(id)
    BY <1>3 DEF EndRow
  <2>2. CASE id \in DOMAIN t.map
    <3>1. ~Entry(t, id).changed
      BY <1>1, <1>3, <2>2 DEF Changed
    <3>2. id =< chg.max /\ OldOK(Entry(t, id), id)
      BY <1>1, <3>1 DEF EntryOK, NewOK
    <3> QED
      BY <1>1, <1>2, <1>3, <2>1, <3>1, <3>2 DEF OldOK
  <2>3. CASE id \notin DOMAIN t.map
    BY <1>1, <1>2, <1>3, <2>1, <2>3
  <2> QED
    BY <2>2, <2>3
<1>4. CASE id \in Changed(t)
  <2>1. id \in DOMAIN t.map /\ u.map[id] = t.map[id] /\ id \in Changed(u) /\ u.map[id].row \in Row
        /\ EntryOK(u.map[id], id) /\ ReadStateTR(t, id) = u.map[id].row
    BY <1>1, <1>4 DEF Changed
  <2>2. CASE u.map[id].new
    <3>1. ~(id =< chg.max) /\ u.map[id].row.cur = 0
      BY <2>1, <2>2 DEF EntryOK, OldOK, NewOK
    <3>2. EndRow(u, id) = Registered(u, u.map[id].row)
      BY <2>1, <2>2 DEF EndRow
    <3> QED
      BY <2>1, <3>1, <3>2, RegisteredIs
  <2>3. CASE ~u.map[id].new
    <3>1. EndRow(u, id) = u.map[id].row
      BY <2>1, <2>3 DEF EndRow
    <3>2. id =< chg.max => Account(id).op =< u.map[id].row.op
      BY <2>1 DEF EntryOK, OldOK
    <3> QED
      BY <2>1, <3>1, <3>2
  <2> QED
    BY <2>2, <2>3
<1> QED
  BY <1>3, <1>4

LEMMA FinishedPlain == ASSUME BlockShape, chg.on, NEW t, TrOK(t) PROVE Finished(t)
<1>1. /\ t \in Tran /\ t.max \in Nat /\ chg.max \in Nat /\ smarts \in Seq(Contract) /\ Len(smarts) \in Nat /\ t.smarts = smarts
      /\ StartHistory \in Nat /\ t.hist \in Seq(Paying)
  BY AccountsAssumption DEF TrOK, TrBase, Tran, BlockShape, Block
<1>2. NewContracts(t) = {}
  BY <1>1 DEF NewContracts
<1>3. \A id \in DOMAIN t.map : EndOK(t.map[id], id)
  BY DEF TrOK, TrBase, EntryOK, NewOK, EndOK
<1>4. ASSUME NEW id \in 0 .. t.max
      PROVE  EndRow(t, id) \in Row /\ EndRow(t, id).coin = ReadStateTR(t, id).coin /\ EndRow(t, id).cur = ReadStateTR(t, id).cur
  BY EndRowIs
<1>5. ASSUME NEW cur \in Nat PROVE Held(EndSheet(t), cur) = Held(Rows, cur) + 0
  <2>1. PICK x, y : x = Sheet(t) /\ y = EndSheet(t)
    OBVIOUS
  <2>2. \A i \in 1 .. t.max + 1 : i - 1 \in 0 .. t.max
    BY <1>1
  <2>3. y \in [1 .. t.max + 1 -> Row] /\ \A i \in 1 .. t.max + 1 : y[i] = EndRow(t, i - 1)
    BY <1>4, <2>1, <2>2 DEF EndSheet
  <2>9. t.max + 1 \in Nat
    BY <1>1
  <2>4. y \in Seq(Row) /\ Len(y) = t.max + 1
    BY <2>3, <2>9, SeqOf
  <2>5. x \in Seq(Row) /\ Len(x) = t.max + 1 /\ \A i \in 1 .. t.max + 1 : x[i] = ReadStateTR(t, i - 1)
    BY <2>1, SheetIs DEF TrOK
  <2>6. \A i \in 1 .. Len(x) : y[i].cur = x[i].cur /\ y[i].coin = x[i].coin
    BY <1>4, <2>2, <2>3, <2>5
  <2>7. Len(x) =< Len(y) /\ Len(x) + 1 .. Len(y) = {}
    BY <1>1, <2>4, <2>5
  <2>8. Held(y, cur) = Held(x, cur) /\ Held(x, cur) \in Int
    BY <2>4, <2>5, <2>6, <2>7, HeldTail, HeldIsInt
  <2> QED
    BY <2>1, <2>8 DEF TrOK, Balanced
<1>6. ASSUME NEW id \in StartHistory .. t.max PROVE Worth(EndRow(t, id).coin) = WorthBefore(id) + Pend(t.hist, id) + 0
  <2>1. id \in 0 .. t.max
    BY <1>1
  <2>2. EndRow(t, id) \in Row /\ EndRow(t, id).coin = ReadStateTR(t, id).coin
    BY <1>4, <2>1
  <2>3. Worth(EndRow(t, id).coin) \in Int
    BY <2>2, CoinFacts DEF Row
  <2> QED
    BY <2>2, <2>3 DEF TrOK, Paired
<1>7. \A k \in 1 .. Len(t.hist) : t.hist[k].id \in Changed(t) /\ StartHistory =< t.hist[k].id
  BY DEF TrOK, Paired
<1>8. chg.max =< t.max /\ DOMAIN t.map \subseteq 0 .. t.max /\ chg.max + 1 .. t.max \subseteq DOMAIN t.map
  BY DEF TrOK, TrBase
<1> QED
  BY <1>1, <1>2, <1>3, <1>5, <1>6, <1>7, <1>8 DEF Finished

(* The last thing a transaction does is to make an account: for nothing,   *)
(* or as the owner of all coins of a new currency.                         *)
LEMMA FinishedMade ==
  ASSUME BlockShape, chg.on, NEW t, TrOK(t), NEW row \in Row, row.pos = 0, NEW v, IsAdded(t, row, v),
         NEW u \in Tran, u.map = v.map, u.max = v.max, u.hist = v.hist,
         \/ u.smarts = smarts /\ row.coin = NoCoin
         \/ /\ u.smarts = Append(smarts, [kind |-> "token", num |-> chg.num, account |-> v.max])
            /\ row.cur = Len(smarts) /\ row.coin = [NoCoin EXCEPT !.coin = StartValue]
  PROVE  Finished(u)
<1>1. /\ t.max \in Nat /\ chg.max \in Nat /\ chg.num \in Nat /\ smarts \in Seq(Contract) /\ Len(smarts) \in Nat
      /\ StartHistory \in Nat /\ StartValue \in Nat /\ t.hist \in Seq(Paying) /\ chg.max =< t.max
      /\ DOMAIN t.map \subseteq 0 .. t.max
  <2>1. StartHistory \in Nat /\ StartValue \in Nat
    BY AccountsAssumption
  <2> QED
    BY <2>1 DEF TrOK, TrBase, Tran, BlockShape, Block
<1>2. PICK n, gift : /\ n = t.max + 1
                     /\ gift = IF u.smarts = smarts THEN 0 ELSE StartValue * Cents
  OBVIOUS
<1>3. /\ u.max = n /\ n \in Nat /\ u.hist = t.hist
      /\ DOMAIN u.map = DOMAIN t.map \cup {n} /\ n \notin DOMAIN t.map
      /\ u.map[n] = [row |-> row, back |-> Blank, new |-> TRUE, changed |-> TRUE]
      /\ \A j \in DOMAIN t.map : u.map[j] = t.map[j]
      /\ DOMAIN u.map \subseteq 0 .. n /\ chg.max + 1 .. n \subseteq DOMAIN u.map
      /\ Changed(u) = Changed(t) \cup {n}
  <2>1. Changed(u) = Changed(v)
    BY DEF Changed
  <2> QED
    BY <1>2, <2>1 DEF IsAdded
<1>4. /\ u.smarts \in Seq(Contract) /\ Len(smarts) =< Len(u.smarts) /\ \A i \in 1 .. Len(smarts) : u.smarts[i] = smarts[i]
      /\ \/ u.smarts = smarts /\ row.coin = NoCoin /\ NewContracts(u) = {}
         \/ /\ u.smarts # smarts /\ NewContracts(u) = {Len(smarts) + 1} /\ Len(u.smarts) = Len(smarts) + 1
            /\ u.smarts[Len(smarts) + 1] = [kind |-> "token", num |-> chg.num, account |-> n]
            /\ row.cur = Len(smarts) /\ row.coin = [NoCoin EXCEPT !.coin = StartValue]
  <2>1. CASE u.smarts = smarts /\ row.coin = NoCoin
    BY <1>1, <2>1 DEF NewContracts
  <2>2. CASE /\ u.smarts = Append(smarts, [kind |-> "token", num |-> chg.num, account |-> n])
             /\ row.cur = Len(smarts) /\ row.coin = [NoCoin EXCEPT !.coin = StartValue]
    <3>1. PICK c : c = [kind |-> "token", num |-> chg.num, account |-> n]
      OBVIOUS
    <3>2. c \in Contract
      BY <1>1, <1>3, <3>1 DEF Contract
    <3>3. /\ u.smarts \in Seq(Contract) /\ Len(u.smarts) = Len(smarts) + 1 /\ u.smarts[Len(smarts) + 1] = c
          /\ \A i \in 1 .. Len(smarts) : u.smarts[i] = smarts[i]
      BY <1>1, <2>2, <3>1, <3>2, AppendProperties
    <3>4. u.smarts # smarts
      BY <1>1, <3>3
    <3> QED
      BY <1>1, <2>2, <3>1, <3>3, <3>4 DEF NewContracts
  <2> QED
    BY <1>3, <2>1, <2>2
<1>5. ASSUME NEW id \in DOMAIN u.map PROVE EndOK(u.map[id], id)
  <2>1. CASE id = n
    <3>1. u.map[n] \in Item /\ ~(n =< chg.max)
      BY <1>1, <1>2, <1>3, BlankIs DEF Item
    <3> QED
      BY <1>3, <2>1, <3>1 DEF EndOK
  <2>2. CASE id # n
    <3>1. id \in DOMAIN t.map /\ EntryOK(u.map[id], id)
      BY <1>3, <2>2 DEF TrOK, TrBase
    <3> QED
      BY <3>1 DEF EntryOK, NewOK, EndOK
  <2> QED
    BY <2>1, <2>2
<1>6. ASSUME NEW id \in 0 .. t.max
      PROVE  EndRow(u, id) \in Row /\ EndRow(u, id).coin = ReadStateTR(t, id).coin /\ EndRow(u, id).cur = ReadStateTR(t, id).cur
  <2>1. \A j \in 0 .. t.max : j \in Changed(u) <=> j \in Changed(t)
    BY <1>1, <1>2, <1>3
  <2> QED
    BY <1>3, <2>1, EndRowIs
<1>7. EndRow(u, n) \in Row /\ \A cur \in Nat : Val(EndRow(u, n), cur) = IF cur + 1 \in NewContracts(u) THEN gift ELSE 0
  <2>1. EndRow(u, n) = Registered(u, row)
    BY <1>3 DEF EndRow
  <2>2. /\ EndRow(u, n) \in Row /\ EndRow(u, n).coin = row.coin
        /\ row.cur < Len(u.smarts) /\ u.smarts[row.cur + 1].kind = "token" => EndRow(u, n).cur = row.cur
    BY <2>1, RegisteredIs
  <2>3. CASE u.smarts = smarts /\ row.coin = NoCoin /\ NewContracts(u) = {}
    BY <2>2, <2>3, CoinFacts DEF Val
  <2>4. CASE /\ u.smarts # smarts /\ NewContracts(u) = {Len(smarts) + 1} /\ Len(u.smarts) = Len(smarts) + 1
             /\ u.smarts[Len(smarts) + 1] = [kind |-> "token", num |-> chg.num, account |-> n]
             /\ row.cur = Len(smarts) /\ row.coin = [NoCoin EXCEPT !.coin = StartValue]
    <3>1. EndRow(u, n).cur = Len(smarts)
      BY <1>1, <2>2, <2>4
    <3>2. Worth(EndRow(u, n).coin) = StartValue * Cents
      <4>1. EndRow(u, n).coin.coin = StartValue /\ EndRow(u, n).coin.cent = 0
        BY <2>2, <2>4 DEF NoCoin
      <4>2. StartValue * Cents \in Int
        BY <1>1, CoinFacts
      <4> QED
        BY <4>1, <4>2 DEF Worth
    <3>3. \A cur \in Nat : cur + 1 \in NewContracts(u) <=> cur = Len(smarts)
      BY <1>1, <2>4
    <3> QED
      BY <1>2, <2>2, <2>4, <3>1, <3>2, <3>3 DEF Val
  <2> QED
    BY <1>4, <2>3, <2>4
<1>8. ASSUME NEW cur \in Nat
      PROVE  Held(EndSheet(u), cur) = Held(Rows, cur) + (IF cur + 1 \in NewContracts(u) THEN StartValue * Cents ELSE 0)
  <2>1. PICK x, y : x = Sheet(t) /\ y = EndSheet(u)
    OBVIOUS
  <2>2. \A i \in 1 .. t.max + 1 : i - 1 \in 0 .. t.max
    BY <1>1
  <2>3. y \in [1 .. n + 1 -> Row] /\ \A i \in 1 .. n + 1 : y[i] = EndRow(u, i - 1)
    <3>1. \A i \in 1 .. n + 1 : i - 1 \in 0 .. t.max \/ i - 1 = n
      BY <1>1, <1>2
    <3> QED
      BY <1>3, <1>6, <1>7, <2>1, <3>1 DEF EndSheet
  <2>4. y \in Seq(Row) /\ Len(y) = n + 1 /\ Len(y) = t.max + 2
    BY <1>1, <1>2, <1>3, <2>3, SeqOf
  <2>5. x \in Seq(Row) /\ Len(x) = t.max + 1 /\ \A i \in 1 .. t.max + 1 : x[i] = ReadStateTR(t, i - 1)
    BY <2>1, SheetIs DEF TrOK
  <2>6. ASSUME NEW i \in 1 .. Len(x) PROVE y[i].cur = x[i].cur /\ y[i].coin = x[i].coin
    <3>1. i \in 1 .. n + 1 /\ i - 1 \in 0 .. t.max /\ i \in 1 .. t.max + 1
      BY <1>1, <1>2, <2>5
    <3> QED
      BY <1>6, <2>3, <2>5, <3>1
  <2>7. Len(y) = Len(x) + 1 /\ n + 1 \in 1 .. n + 1 /\ (n + 1) - 1 = n
    BY <1>1, <1>3, <2>4, <2>5
  <2>8. Held(y, cur) = Held(x, cur) + Val(y[n + 1], cur)
    BY <2>4, <2>5, <2>6, <2>7, HeldAppend, SMTT(30)
  <2>9. y[n + 1] = EndRow(u, n)
    BY <2>3, <2>7
  <2>10. cur + 1 \in NewContracts(u) => gift = StartValue * Cents
    BY <1>2, <1>4
  <2> QED
    BY <1>7, <2>1, <2>8, <2>9, <2>10 DEF TrOK, Balanced
<1>9. ASSUME NEW id \in StartHistory .. u.max
      PROVE  Worth(EndRow(u, id).coin)
               = WorthBefore(id) + Pend(u.hist, id)
                   + (IF \E i \in NewContracts(u) : u.smarts[i].account = id THEN StartValue * Cents ELSE 0)
  <2>1. CASE id # n
    <3>1. id \in 0 .. t.max /\ id \in StartHistory .. t.max
      BY <1>1, <1>2, <1>3, <2>1
    <3>2. EndRow(u, id) \in Row /\ EndRow(u, id).coin = ReadStateTR(t, id).coin
      BY <1>6, <3>1
    <3>3. Worth(EndRow(u, id).coin) \in Int
      BY <3>2, CoinFacts DEF Row
    <3>4. ~\E i \in NewContracts(u) : u.smarts[i].account = id
      BY <1>4, <2>1
    <3>5. Worth(EndRow(u, id).coin) = WorthBefore(id) + Pend(u.hist, id)
      BY <1>3, <3>1, <3>2 DEF TrOK, Paired
    <3> QED
      BY <3>3, <3>4, <3>5
  <2>2. CASE id = n
    <3>1. WorthBefore(n) = 0
      BY <1>1, <1>2 DEF WorthBefore
    <3>2. Pend(u.hist, n) = 0
      <4>1. ASSUME NEW k \in 1 .. Len(t.hist) PROVE t.hist[k].id # n
        BY <1>3 DEF TrOK, Paired, Changed
      <4>2. Pend(t.hist, n) = 0
        BY <1>1, <4>1, PendNone
      <4> QED
        BY <1>3, <4>2
    <3>3. Worth(EndRow(u, n).coin) = gift
      <4>1. EndRow(u, n) = Registered(u, row)
        BY <1>3 DEF EndRow
      <4>2. EndRow(u, n).coin = row.coin
        BY <4>1, RegisteredIs
      <4>3. CASE u.smarts = smarts
        BY <1>2, <1>4, <4>2, <4>3, CoinFacts
      <4>4. CASE u.smarts # smarts
        <5>1. EndRow(u, n).coin.coin = StartValue /\ EndRow(u, n).coin.cent = 0
          BY <1>4, <4>2, <4>4 DEF NoCoin
        <5>2. StartValue * Cents \in Int
          BY <1>1, CoinFacts
        <5> QED
          BY <1>2, <4>4, <5>1, <5>2 DEF Worth
      <4> QED
        BY <4>3, <4>4
    <3>4. (\E i \in NewContracts(u) : u.smarts[i].account = n) <=> u.smarts # smarts
      BY <1>4
    <3>5. gift \in Int
      BY <1>1, <1>2, CoinFacts
    <3> QED
      BY <1>2, <2>2, <3>1, <3>2, <3>3, <3>4, <3>5
  <2> QED
    BY <2>1, <2>2
<1>10. \A k \in 1 .. Len(u.hist) : u.hist[k].id \in Changed(u) /\ StartHistory =< u.hist[k].id
  BY <1>3 DEF TrOK, Paired
<1>11. \A i \in NewContracts(u) : u.smarts[i].num = chg.num /\ u.smarts[i].account \in chg.max + 1 .. u.max
  BY <1>1, <1>2, <1>3, <1>4
<1>12. chg.max =< u.max
  BY <1>1, <1>2, <1>3
<1> QED
  BY <1>3, <1>4, <1>5, <1>8, <1>9, <1>10, <1>11, <1>12 DEF Finished

(* The transaction t has ended as u.                                       *)
Ended(t, u) ==
  /\ u.ok \in BOOLEAN /\ u.made \in BOOLEAN /\ (~u.ok => u.smarts = smarts)
  /\ u.ok => t.ok /\ Finished(u) /\ \A id \in Changed(t) : EndRow(u, id).op = ReadStateTR(t, id).op

LEMMA EndedFail == ASSUME BlockShape, NEW t, TrOK(t) PROVE Ended(t, Fail(t))
<1>1. t \in Tran /\ t.smarts = smarts
  BY DEF TrOK, TrBase
<1>2. Fail(t).ok = FALSE /\ Fail(t).made = t.made /\ Fail(t).smarts = smarts /\ t.made \in BOOLEAN
  BY <1>1 DEF Fail, Tran
<1> QED
  BY <1>2 DEF Ended

LEMMA EndedPlain == ASSUME BlockShape, chg.on, NEW t, TrOK(t) PROVE Ended(t, t)
<1>1. t \in Tran /\ t.smarts = smarts /\ DOMAIN t.map \subseteq 0 .. t.max
  BY DEF TrOK, TrBase
<1>2. ASSUME NEW id \in Changed(t) PROVE EndRow(t, id).op = ReadStateTR(t, id).op
  <2>1. id \in 0 .. t.max
    BY <1>1 DEF Changed
  <2> QED
    BY <2>1, EndRowIs
<1>3. Finished(t)
  BY FinishedPlain
<1> QED
  BY <1>1, <1>2, <1>3 DEF Ended, Tran

LEMMA EndedMade ==
  ASSUME BlockShape, chg.on, NEW t, TrOK(t), NEW row \in Row, row.pos = 0, NEW v, IsAdded(t, row, v),
         NEW u \in Tran, u.map = v.map, u.max = v.max, u.hist = v.hist, u.ok = t.ok,
         \/ u.smarts = smarts /\ row.coin = NoCoin
         \/ /\ t.ok /\ u.smarts = Append(smarts, [kind |-> "token", num |-> chg.num, account |-> v.max])
            /\ row.cur = Len(smarts) /\ row.coin = [NoCoin EXCEPT !.coin = StartValue]
  PROVE  Ended(t, u)
<1>1. Finished(u)
  BY FinishedMade
<1>2. /\ t.max \in Nat /\ DOMAIN t.map \subseteq 0 .. t.max /\ v.max = t.max + 1 /\ Changed(v) = Changed(t) \cup {v.max}
      /\ \A j \in DOMAIN t.map : v.map[j] = t.map[j]
  BY DEF IsAdded, TrOK, TrBase, Tran
<1>3. Changed(u) = Changed(v)
  BY DEF Changed
<1>4. ASSUME NEW id \in Changed(t) PROVE EndRow(u, id).op = ReadStateTR(t, id).op
  <2>1. id \in 0 .. t.max
    BY <1>2, <1>4 DEF Changed
  <2>2. \A j \in 0 .. t.max : j \in Changed(u) <=> j \in Changed(t)
    BY <1>2, <1>3
  <2>3. \A j \in DOMAIN t.map : u.map[j] = t.map[j]
    BY <1>2
  <2> QED
    BY <2>1, <2>2, <2>3, EndRowIs
<1> QED
  BY <1>1, <1>4 DEF Ended, Tran

LEMMA CreateIs ==
  ASSUME BlockShape, chg.on, NEW t, TrOK(t), NEW tx \in Transaction, NEW isPaid
  PROVE  Ended(t, TRCreateAccount(t, tx, isPaid))
<1>1. PICK row, v, u : /\ row = [Blank EXCEPT !.key = tx.key, !.cur = tx.cur, !.smart = tx.smart]
                       /\ v = NewAccountTR(t, row) /\ u = [v EXCEPT !.made = TRUE]
  OBVIOUS
<1>2. TRCreateAccount(t, tx, isPaid) = IF t.made /\ ~isPaid THEN Fail(t) ELSE u
  BY <1>1 DEF TRCreateAccount
<1>3. row \in Row /\ row.pos = 0 /\ row.coin = NoCoin
  <2>1. tx.key \in AnyKey /\ tx.cur \in Nat /\ tx.smart \in Nat
    BY DEF Transaction
  <2> QED
    BY <1>1, <2>1, BlankIs DEF Blank, Row
<1>4. IsAdded(t, row, v)
  <2>1. TrBase(t)
    BY DEF TrOK
  <2> QED
    BY <1>1, <1>3, <2>1, AddedIs, Zenon
<1>5. /\ u \in Tran /\ u.map = v.map /\ u.max = v.max /\ u.hist = v.hist /\ u.ok = t.ok /\ u.smarts = smarts
  BY <1>1, <1>4 DEF IsAdded, Tran, TrOK, TrBase
<1>6. Ended(t, u)
  BY <1>3, <1>4, <1>5, EndedMade
<1> QED
  BY <1>2, <1>6, EndedFail

LEMMA CreateSmartIs ==
  ASSUME BlockShape, chg.on, NEW t, TrOK(t), t.ok, NEW tx \in Transaction, tx.from \in 0 .. t.max
  PROVE  Ended(t, TRCreateSmart(t, tx))
<1>1. PICK c, row, v, u : /\ c = [kind |-> "token", num |-> chg.num, account |-> t.max + 1]
                          /\ row = [Blank EXCEPT !.key = ReadStateTR(t, tx.from).key, !.cur = Len(t.smarts),
                                                 !.smart = Len(t.smarts), !.coin = [NoCoin EXCEPT !.coin = StartValue]]
                          /\ v = NewAccountTR(t, row) /\ u = [v EXCEPT !.smarts = Append(v.smarts, c)]
  OBVIOUS
<1>2. TRCreateSmart(t, tx) = IF ~PaidFor(tx, TokenPrice) THEN Fail(t) ELSE u
  BY <1>1 DEF TRCreateSmart
<1>3. t \in Tran /\ t.smarts = smarts /\ smarts \in Seq(Contract) /\ Len(smarts) \in Nat /\ t.max \in Nat /\ chg.num \in Nat
  BY DEF TrOK, TrBase, Tran, BlockShape, Block
<1>4. row \in Row /\ row.pos = 0 /\ row.cur = Len(smarts) /\ row.coin = [NoCoin EXCEPT !.coin = StartValue]
  <2>1. ReadStateTR(t, tx.from).key \in AnyKey
    BY EntryIs DEF Row, TrOK
  <2>2. [NoCoin EXCEPT !.coin = StartValue] \in Coin
    BY CoinFacts, AccountsAssumption DEF Coin
  <2> QED
    BY <1>1, <1>3, <2>1, <2>2, BlankIs DEF Blank, Row
<1>5. IsAdded(t, row, v)
  <2>1. TrBase(t)
    BY DEF TrOK
  <2> QED
    BY <1>1, <1>4, <2>1, AddedIs, Zenon
<1>6. /\ u \in Tran /\ u.map = v.map /\ u.max = v.max /\ u.hist = v.hist /\ u.ok = t.ok
      /\ u.smarts = Append(smarts, [kind |-> "token", num |-> chg.num, account |-> v.max])
  <2>1. v \in Tran /\ v.smarts = smarts /\ v.max = t.max + 1 /\ v.ok = t.ok
    BY <1>3, <1>5 DEF IsAdded
  <2>2. c \in Contract
    BY <1>1, <1>3 DEF Contract
  <2>3. Append(smarts, c) \in Seq(Contract)
    BY <1>3, <2>2
  <2> QED
    BY <1>1, <2>1, <2>3 DEF Tran
<1>7. Ended(t, u)
  BY <1>4, <1>5, <1>6, EndedMade
<1> QED
  BY <1>2, <1>7, EndedFail

(* What a transaction does to the block: it leaves nothing when it fails;  *)
(* when it succeeds, the number of a sender that has paid has passed that  *)
(* of the transaction.                                                     *)
Pays(tx) == tx.type # "create" /\ tx.to # << >>
Processed(tx, u) ==
  /\ u.ok \in BOOLEAN /\ u.made \in BOOLEAN /\ (~u.ok => u.smarts = smarts) /\ (u.ok => Finished(u))
  /\ u.ok /\ Pays(tx) =>
       tx.from \in 0 .. chg.max /\ Account(tx.from).op =< tx.op /\ tx.op < EndRow(u, tx.from).op

LEMMA CanPayIs ==
  ASSUME BlockShape, chg.on, NEW tx \in Transaction, CanPay(BeginTransaction, tx)
  PROVE  /\ Payable(tx) /\ Account(tx.from) = ReadStateTR(BeginTransaction, tx.from) /\ Account(tx.from).op =< tx.op
         /\ tx.to # << >> => Paid(tx) # {}
<1>1. PICK t : t = BeginTransaction
  OBVIOUS
<1>2. TrOK(t) /\ t.max = chg.max /\ \A id \in 0 .. chg.max : ReadStateTR(t, id) = Account(id)
  BY <1>1, BeginIs
<1>3. /\ Exists(t, tx.from) /\ RightNumber(tx, ReadStateTR(t, tx.from)) /\ (\A i \in DOMAIN tx.to : tx.to[i].sum \in Coin)
      /\ tx.ver < 3 => Paid(tx) # {}
  BY <1>1 DEF CanPay
<1>4. tx.from \in Nat /\ tx.op \in Nat /\ tx.ver \in Nat /\ tx.to \in Seq(Receiver)
  BY DEF Transaction
<1>5. tx.from \in 0 .. chg.max
  BY <1>2, <1>3, <1>4, ExistsIs DEF TrOK
<1>6. Account(tx.from) = ReadStateTR(t, tx.from) /\ Account(tx.from) \in Row
  BY <1>2, <1>5, AccountIs
<1>7. Account(tx.from).op =< tx.op
  <2>1. Account(tx.from).op \in Nat /\ MaxAhead \in Nat
    BY <1>6, AccountsAssumption DEF Row
  <2> QED
    BY <1>3, <1>4, <1>6, <2>1 DEF RightNumber
<1>8. Payable(tx)
  BY <1>3, <1>5, TotalIs DEF Payable
<1>9. ASSUME tx.to # << >> PROVE Paid(tx) # {}
  <2>1. CASE tx.ver < 3
    BY <1>3, <2>1
  <2>2. CASE ~(tx.ver < 3)
    <3>1. 1 \in DOMAIN tx.to
      BY <1>4, <1>9
    <3> QED
      BY <2>2, <3>1 DEF Paid, Skips
  <2> QED
    BY <2>1, <2>2
<1> QED
  BY <1>1, <1>6, <1>7, <1>8, <1>9

LEMMA ProcessIs ==
  ASSUME BlockShape, chg.on, NEW tx \in Transaction
  PROVE  Processed(tx, OnProcessTransaction(tx))
<1>1. PICK t, p, u : t = BeginTransaction /\ p = PayAll(t, tx, tx.op + 1) /\ u = OnProcessTransaction(tx)
  OBVIOUS
<1>2. TrOK(t)
  BY <1>1, BeginIs
<1>3. CASE tx.type = "create"
  <2>1. u = TRCreateAccount(t, tx, FALSE)
    BY <1>1, <1>3 DEF OnProcessTransaction
  <2>2. Ended(t, u)
    BY <1>2, <2>1, CreateIs
  <2> QED
    BY <1>1, <1>3, <2>2 DEF Ended, Processed, Pays
<1>4. CASE tx.type # "create"
  <2>1. u = IF ~CanPay(t, tx) THEN Fail(t)
            ELSE IF ~p.ok \/ ReadStateTR(t, tx.from).key = NoKey \/ tx.signer # ReadStateTR(t, tx.from).key THEN Fail(p)
            ELSE InBody(p, tx)
    BY <1>1, <1>4 DEF OnProcessTransaction, TRTransferMoney
  <2>2. CASE ~CanPay(t, tx)
    <3>1. Ended(t, u) /\ ~u.ok
      BY <1>2, <2>1, <2>2, EndedFail, FailIs
    <3> QED
      BY <1>1, <3>1 DEF Ended, Processed
  <2>3. CASE CanPay(t, tx)
    <3>1. /\ Payable(tx) /\ Account(tx.from) = ReadStateTR(t, tx.from) /\ Account(tx.from).op =< tx.op
          /\ tx.to # << >> => Paid(tx) # {}
      BY <1>1, <2>3, CanPayIs
    <3>2. tx.from \in 0 .. chg.max /\ Account(tx.from).op \in Nat /\ tx.op \in Nat /\ tx.from \in Nat
      BY <3>1, AccountIs DEF Payable, Row, Transaction
    <3>3. ReadStateTR(t, tx.from).op =< tx.op + 1 /\ tx.op + 1 \in Nat
      BY <3>1, <3>2
    <3>4. /\ TrOK(p) /\ Later(t, p) /\ tx.op + 1 =< ReadStateTR(p, tx.from).op
          /\ p.ok /\ Paid(tx) # {} => tx.from \in Changed(p)
      BY <1>1, <1>2, <3>1, <3>3, PayAllIs
    <3>5. chg.max \in Nat /\ p.max \in Nat /\ chg.max =< p.max
      BY <3>4 DEF TrOK, TrBase, Tran, BlockShape, Block
    <3>6. tx.from \in 0 .. p.max /\ tx.body \in {"none", "account", "token"}
      BY <3>2, <3>5 DEF Transaction
    <3>7. p.ok => Ended(p, InBody(p, tx))
      <4>1. ASSUME p.ok, tx.body = "none" PROVE Ended(p, InBody(p, tx))
        <5>1. InBody(p, tx) = p
          BY <4>1 DEF InBody
        <5> QED
          BY <3>4, <5>1, EndedPlain
      <4>2. ASSUME p.ok, tx.body = "account" PROVE Ended(p, InBody(p, tx))
        <5>1. InBody(p, tx) = TRCreateAccount(p, tx, PaidFor(tx, Price))
          BY <4>2 DEF InBody
        <5> QED
          BY <3>4, <5>1, CreateIs
      <4>3. ASSUME p.ok, tx.body = "token" PROVE Ended(p, InBody(p, tx))
        <5>1. InBody(p, tx) = TRCreateSmart(p, tx)
          BY <4>3 DEF InBody
        <5> QED
          BY <3>4, <3>6, <4>3, <5>1, CreateSmartIs
      <4> QED
        BY <3>6, <4>1, <4>2, <4>3
    <3>8. Ended(p, u)
      BY <2>1, <2>3, <3>4, <3>7, EndedFail
    <3>9. ASSUME u.ok, Pays(tx) PROVE tx.op < EndRow(u, tx.from).op
      <4>1. tx.from \in Changed(p)
        BY <3>1, <3>4, <3>8, <3>9 DEF Ended, Pays
      <4>2. EndRow(u, tx.from).op = ReadStateTR(p, tx.from).op
        BY <3>8, <3>9, <4>1 DEF Ended
      <4>3. ReadStateTR(p, tx.from).op \in Nat
        BY <3>4, <3>6, EntryIs DEF TrOK, Row
      <4> QED
        BY <3>2, <3>4, <4>2, <4>3
    <3> QED
      BY <1>1, <3>1, <3>2, <3>8, <3>9 DEF Ended, Processed
  <2> QED
    BY <2>2, <2>3
<1> QED
  BY <1>3, <1>4

LEMMA DivIs == ASSUME NEW x \in Nat, NEW k \in Nat \ {0} PROVE x \div k \in Nat /\ (x \div k) * k =< x
  OBVIOUS

LEMMA PartIsCoin == ASSUME NEW c \in Coin, NEW k \in Nat \ {0} PROVE DIV(c, k) \in Coin
<1>1. c.coin \in Nat /\ c.cent \in 0 .. Cents - 1 /\ Cents \in Nat /\ 1 < Cents
  BY CoinFacts DEF Coin
<1>2. PICK m \in 0 .. k - 1 : m = c.coin % k
  BY <1>1
<1>3. PICK q, r : q = c.cent \div k /\ r = (m * Cents) \div k
  OBVIOUS
<1>4. q \in Nat /\ q * k =< c.cent
  BY <1>1, <1>3, DivIs
<1>5. r \in Nat /\ r * k =< m * Cents
  <2>1. m * Cents \in Nat
    BY <1>1
  <2> QED
    BY <1>3, <2>1, DivIs
<1>6. q =< c.cent
  BY <1>1, <1>4
<1>7. r < Cents
  <2> SUFFICES ASSUME r >= Cents PROVE FALSE
    BY <1>1, <1>5
  <2>1. r * k >= Cents * k
    BY <1>1, <1>5
  <2>2. m * Cents < k * Cents
    BY <1>1
  <2>3. Cents * k = k * Cents /\ Cents * k \in Int /\ r * k \in Int /\ m * Cents \in Int
    BY <1>1, <1>5
  <2> QED
    BY <1>5, <2>1, <2>2, <2>3
<1>8. c.coin \div k \in Nat
  BY <1>1, DivIs
<1> QED
  BY <1>1, <1>2, <1>3, <1>4, <1>5, <1>6, <1>7, <1>8 DEF DIV, Coin

(* The reward goes to accounts that the block has not made.                *)
LEMMA CoinBaseIs ==
  ASSUME BlockShape, chg.on, NEW miner \in Nat
  PROVE  LET u == CoinBase(miner) IN
         /\ TrOK(u) /\ u.max = chg.max
         /\ \A id \in Changed(u) : id \in 0 .. chg.max /\ (id < Len(GenesisRows) \/ Account(id).born < chg.num)
<1>1. PICK tr, t, dev, u : /\ tr = BeginTransaction /\ t = SendMoneyTR(tr, 0, miner, Reward, 1)
                           /\ dev = DIV(Reward, Share) /\ u = SendMoneyTR(t, 0, Developer, dev, 1)
  OBVIOUS
<1>2. TrOK(tr) /\ tr.max = chg.max /\ \A id \in 0 .. chg.max : ReadStateTR(tr, id) = Account(id)
  BY <1>1, BeginIs
<1>3. Changed(tr) = {}
  BY <1>1 DEF Changed, BeginTransaction
<1>4. CASE \/ miner < FirstOwned \/ ~Exists(tr, miner)
           \/ ReadStateTR(tr, miner).cur # 0 \/ ReadStateTR(tr, miner).born >= chg.num
           \/ ReadStateTR(tr, 0).coin.coin = 0
  <2>1. CoinBase(miner) = tr
    BY <1>1, <1>4 DEF CoinBase
  <2> QED
    BY <1>2, <1>3, <2>1
<1>5. CASE /\ ~(miner < FirstOwned) /\ Exists(tr, miner)
           /\ ReadStateTR(tr, miner).cur = 0 /\ ~(ReadStateTR(tr, miner).born >= chg.num)
           /\ ReadStateTR(tr, 0).coin.coin # 0
  <2>1. CoinBase(miner) = IF dev = NoCoin THEN t ELSE u
    BY <1>1, <1>5 DEF CoinBase
  <2>2. miner \in 0 .. chg.max
    BY <1>2, <1>5, ExistsIs DEF TrOK
  <2>3. Account(miner).born < chg.num
    <3>1. Account(miner).born \in Nat /\ chg.num \in Nat
      BY <2>2, AccountIs DEF Row, BlockShape, Block
    <3> QED
      BY <1>2, <1>5, <2>2, <3>1
  <2>4. SameCur(tr, 0, miner, Reward)
    BY <1>2, <1>5, CurIs DEF SameCur, TrOK
  <2>5. Reward \in Coin /\ Share \in Nat \ {0} /\ Developer \in 0 .. Len(GenesisRows) - 1 /\ Sink \in 0 .. Len(GenesisRows) - 1
    BY AccountsAssumption
  <2>6. Len(GenesisRows) \in Nat /\ Len(GenesisRows) =< chg.max + 1 /\ chg.max \in Nat
    <3>1. GenesisRows \in Seq(Row) /\ state \in Seq(Row) /\ chg.max \in Nat
          /\ Len(GenesisRows) =< Len(state) /\ Len(state) =< chg.max + 1
      BY AccountsAssumption DEF BlockShape, Block
    <3>2. Len(GenesisRows) \in Nat /\ Len(state) \in Nat
      BY <3>1
    <3> QED
      BY <3>1, <3>2
  <2>7. 0 \in Nat /\ 1 \in Nat /\ Developer \in Nat
    BY <2>5, <2>6
  <2>8. Sent(tr, 0, miner, t)
    BY <1>1, <1>2, <2>4, <2>5, <2>7, SendIs
  <2>9. dev \in Coin
    BY <1>1, <2>5, PartIsCoin
  <2>10. TrOK(t)
    BY <2>8 DEF Sent
  <2>11. SameCur(t, 0, Developer, dev)
    BY <2>10, CurIs DEF SameCur, TrOK
  <2>12. Sent(t, 0, Developer, u)
    BY <1>1, <2>7, <2>9, <2>10, <2>11, SendIs
  <2>13. Changed(t) \subseteq {0, miner, Sink} /\ Changed(u) \subseteq {0, miner, Sink, Developer}
    BY <1>3, <2>8, <2>12 DEF Sent
  <2>14. \A id \in {0, miner, Sink, Developer} : id \in 0 .. chg.max /\ (id < Len(GenesisRows) \/ Account(id).born < chg.num)
    BY <2>2, <2>3, <2>5, <2>6
  <2>15. TrOK(u) /\ t.max = chg.max /\ u.max = chg.max
    BY <1>2, <2>8, <2>12 DEF Sent
  <2> QED
    BY <2>1, <2>10, <2>13, <2>14, <2>15
<1> QED
  BY <1>4, <1>5
-----------------------------------------------------------------------------
(* What holds of the accounts after each block.  The log keeps the rows    *)
(* that each block left (hash): they are the accounts as they were before  *)
(* the next one, and what is said of them is said for every number n of a  *)
(* block, of the contracts and the transactions up to that block.          *)
AccountOf(st, c, id) == IF id \in DOMAIN c.map THEN c.map[id].row ELSE st[id + 1]
RowsOf(st, c) == [i \in 1 .. c.max + 1 |-> AccountOf(st, c, i - 1)]

Signed(sm, n) == {i \in DOMAIN sm : 0 < sm[i].num /\ sm[i].num =< n}
IssuedBy(sm, cur, n) == Held(GenesisRows, cur) + (IF cur + 1 \in Signed(sm, n) THEN StartValue * Cents ELSE 0)
StartBy(sm, id, n) ==
  IF id < Len(GenesisRows) THEN Worth(GenesisRows[id + 1].coin)
  ELSE IF \E i \in Signed(sm, n) : sm[i].account = id THEN StartValue * Cents ELSE 0

RowsOK(sm, dn, n, x) ==
  /\ x \in Seq(Row) /\ Len(GenesisRows) =< Len(x)
  /\ \A i \in 1 .. Len(GenesisRows) : x[i].cur = GenesisRows[i].cur
  /\ \A cur \in Nat : Held(x, cur) = IssuedBy(sm, cur, n)
  /\ \A i \in Signed(sm, n) : sm[i].account < Len(x)
  /\ \A i \in DOMAIN dn : dn[i].num =< n /\ Pays(dn[i].tx) =>
       dn[i].tx.from < Len(x) /\ dn[i].tx.op < x[dn[i].tx.from + 1].op

(* The accounts y are those of x but for the places in the history, and    *)
(* those there are more are empty.                                         *)
Like(y, x) ==
  /\ Len(x) =< Len(y)
  /\ \A i \in 1 .. Len(x) : x[i] = [y[i] EXCEPT !.pos = 0]
  /\ \A i \in Len(x) + 1 .. Len(y) : y[i].coin = NoCoin

(* The payments are lists, and a row is explained by its list.             *)
Pays3 == [id : Nat, amount : Int, next : Nat]
ListOK(h) == h \in Seq(Pays3) /\ \A p \in 1 .. Len(h) : h[p].next < p
Expl(h, sm, id, row, n) ==
  /\ row.pos \in 0 .. Len(h) /\ OwnList(h, id, row.pos)
  /\ Worth(row.coin) = StartBy(sm, id, n) + Listed(h, row.pos)

(* The rows lg[lo .. hi] of block n, which found the accounts w and left x.  *)
Wrote(lg, lo, hi, n, w, x, sm, rem) ==
  /\ Len(w) =< Len(x)
  /\ \A j \in lo .. hi :
       /\ lg[j].id < Len(x) /\ lg[j].mode \in {"old", "new"}
       /\ lg[j].mode = "new" => Len(w) =< lg[j].id
       /\ lg[j].mode = "old" =>
            IF lg[j].id < Len(w) THEN w[lg[j].id + 1] = [lg[j].val EXCEPT !.pos = 0] ELSE lg[j].val.coin = NoCoin
  /\ \A i, j \in lo .. hi : lg[i].id = lg[j].id => i = j
  /\ \A i \in 1 .. Len(w) : x[i].cur = w[i].cur /\ x[i].key = w[i].key /\ x[i].born = w[i].born
  /\ \A i \in 1 .. Len(x) : (\A j \in lo .. hi : lg[j].id # i - 1) => IF i =< Len(w) THEN x[i] = w[i] ELSE x[i].coin = NoCoin
  /\ ~rem => \A i \in Len(w) + 1 .. Len(x) : \E j \in lo .. hi : lg[j].id = i - 1 /\ lg[j].mode = "new"
  /\ \A i \in DOMAIN sm : sm[i].num = n => \E j \in lo .. hi : lg[j].id = sm[i].account

(* Block n ends at row e[n] of the log.                                    *)
Ends(lg, e, L) ==
  /\ lg \in Seq(LogRow) /\ L \in Nat /\ e \in [0 .. L -> 0 .. Len(lg)] /\ e[0] = 0 /\ e[L] = Len(lg)
  /\ \A n \in 0 .. L : \A j \in 1 .. Len(lg) : j =< e[n] <=> lg[j].num =< n
  /\ \A n \in 1 .. L : e[n - 1] < e[n] /\ lg[e[n]].mode = "sum"
At(lg, e, n) == IF n = 0 THEN CalcHash(GenesisRows) ELSE lg[e[n]].hash

LogOK(lg, e, L, sm, dn, rem, h) ==
  /\ Ends(lg, e, L)
  /\ \A n \in 0 .. L : RowsOK(sm, dn, n, At(lg, e, n)) /\ \A i \in 1 .. Len(At(lg, e, n)) : At(lg, e, n)[i].pos = 0
  /\ \A n \in 1 .. L : Wrote(lg, e[n - 1] + 1, e[n] - 1, n, At(lg, e, n - 1), At(lg, e, n), sm, rem)
  /\ \A j \in 1 .. Len(lg) : lg[j].mode = "old" /\ StartHistory =< lg[j].id =>
       Expl(h, sm, lg[j].id, lg[j].val, lg[j].num - 1)

(* The accounts in the file, when the last block was L and left x.         *)
FileOK(st, x, L, sm, rem, h) ==
  /\ st \in Seq(Row) /\ Like(st, x) /\ (~rem => Len(st) = Len(x)) /\ ListOK(h)
  /\ \A id \in StartHistory .. Len(st) - 1 : Expl(h, sm, id, st[id + 1], L)

(* Contracts and transactions are in the order of their blocks.            *)
InOrder(list, N) ==
  /\ \A i \in 1 .. Len(list) : list[i].num =< N
  /\ \A i, j \in 1 .. Len(list) : i =< j => list[i].num =< list[j].num

(* The block being executed.  What is put into the log for an account is   *)
(* what the file has of it; an account without a row in the file that is   *)
(* not marked as new was changed again in the block.                       *)
PosOf(st, id) == IF id < Len(st) THEN st[id + 1].pos ELSE 0
BlockOK(st, sm, dn, rem, h, c) ==
  /\ st \in Seq(Row) /\ Len(GenesisRows) =< Len(st) /\ sm \in Seq(Contract)
  /\ c \in Block /\ c.on /\ 0 < c.num /\ Len(st) =< c.max + 1
  /\ DOMAIN c.map \subseteq 0 .. c.max /\ Len(st) .. c.max \subseteq DOMAIN c.map
  /\ \A id \in DOMAIN c.map :
       LET e == c.map[id] IN
       IF id < Len(st)
         THEN /\ ~e.new /\ e.back = st[id + 1] /\ e.row.cur = st[id + 1].cur /\ e.row.key = st[id + 1].key
              /\ e.row.born = st[id + 1].born /\ e.row.pos = st[id + 1].pos
         ELSE e.back = Blank /\ e.row.pos = 0 /\ e.row.born = c.num /\ (e.new \/ rem)
  /\ RowsOK(sm, dn, c.num, RowsOf(st, c))
  /\ \A i \in DOMAIN sm : sm[i].num = c.num => sm[i].account \in DOMAIN c.map
  /\ \A k \in 1 .. Len(c.hist) : c.hist[k].id \in DOMAIN c.map /\ StartHistory =< c.hist[k].id
  /\ \A id \in StartHistory .. c.max :
       Worth(AccountOf(st, c, id).coin) = StartBy(sm, id, c.num) + Listed(h, PosOf(st, id)) + Pend(c.hist, id)

LEMMA HashIs ==
  ASSUME NEW rows \in Seq(Row)
  PROVE  /\ CalcHash(rows) \in Seq(Row) /\ Len(CalcHash(rows)) = Len(rows)
         /\ \A i \in 1 .. Len(rows) : CalcHash(rows)[i] = [rows[i] EXCEPT !.pos = 0] /\ rows[i] \in Row
<1>1. Len(rows) \in Nat /\ DOMAIN rows = 1 .. Len(rows) /\ \A i \in 1 .. Len(rows) : rows[i] \in Row
  BY ElementOfSeq
<1>2. \A i \in 1 .. Len(rows) : [rows[i] EXCEPT !.pos = 0] \in Row
  BY <1>1 DEF Row
<1>3. CalcHash(rows) \in [1 .. Len(rows) -> Row]
  BY <1>1, <1>2 DEF CalcHash
<1>4. CalcHash(rows) \in Seq(Row) /\ Len(CalcHash(rows)) = Len(rows)
  BY <1>1, <1>3, SeqOf
<1> QED
  BY <1>1, <1>4 DEF CalcHash

LEMMA GenesisIs ==
  /\ GenesisRows \in Seq(Row) /\ Len(GenesisRows) \in Nat /\ CalcHash(GenesisRows) \in Seq(Row)
  /\ Len(CalcHash(GenesisRows)) = Len(GenesisRows)
  /\ \A i \in 1 .. Len(GenesisRows) : CalcHash(GenesisRows)[i] = GenesisRows[i] /\ GenesisRows[i] \in Row /\ GenesisRows[i].pos = 0
<1>1. GenesisRows \in Seq(Row) /\ \A i \in DOMAIN GenesisRows : GenesisRows[i].pos = 0
  BY AccountsAssumption
<1>2. /\ CalcHash(GenesisRows) \in Seq(Row) /\ Len(CalcHash(GenesisRows)) = Len(GenesisRows)
      /\ \A i \in 1 .. Len(GenesisRows) :
           CalcHash(GenesisRows)[i] = [GenesisRows[i] EXCEPT !.pos = 0] /\ GenesisRows[i] \in Row
  BY <1>1, HashIs
<1>3. ASSUME NEW i \in 1 .. Len(GenesisRows)
      PROVE  CalcHash(GenesisRows)[i] = GenesisRows[i] /\ GenesisRows[i] \in Row /\ GenesisRows[i].pos = 0
  <2>1. /\ i \in DOMAIN GenesisRows /\ GenesisRows[i].pos = 0 /\ GenesisRows[i] \in Row
        /\ CalcHash(GenesisRows)[i] = [GenesisRows[i] EXCEPT !.pos = 0]
    BY <1>1, <1>2
  <2> QED
    BY <2>1 DEF Row
<1> QED
  BY <1>1, <1>2, <1>3

(* Done transactions.                                                      *)
Done == [num : Nat, tx : Tx]

LEMMA DoneIs ==
  ASSUME NEW dn \in Seq(Done), NEW i \in DOMAIN dn
  PROVE  dn[i].num \in Nat /\ dn[i].tx \in Tx /\ dn[i].tx \in Transaction /\ dn[i].tx.from \in Nat /\ dn[i].tx.op \in Nat
<1>1. dn[i] \in Done
  OBVIOUS
<1> QED
  BY <1>1, AccountsAssumption DEF Done, Transaction

LEMMA SignedIs ==
  ASSUME NEW sm \in Seq(Contract), NEW n
  PROVE  /\ \A i \in 1 .. Len(sm) : sm[i] \in Contract /\ sm[i].num \in Nat /\ sm[i].account \in Nat
         /\ \A i : i \in Signed(sm, n) <=> i \in 1 .. Len(sm) /\ 0 < sm[i].num /\ sm[i].num =< n
<1>1. \A i \in 1 .. Len(sm) : sm[i] \in Contract
  BY ElementOfSeq
<1>2. DOMAIN sm = 1 .. Len(sm)
  OBVIOUS
<1> QED
  BY <1>1, <1>2 DEF Signed, Contract

LEMMA RowsKeep ==
  ASSUME NEW sm \in Seq(Contract), NEW dn \in Seq(Done), NEW n, NEW x, RowsOK(sm, dn, n, x), NEW y \in Seq(Row),
         Len(x) =< Len(y),
         \A i \in 1 .. Len(x) : y[i].cur = x[i].cur /\ y[i].coin = x[i].coin /\ y[i].op = x[i].op,
         \A i \in Len(x) + 1 .. Len(y) : y[i].coin = NoCoin
  PROVE  RowsOK(sm, dn, n, y)
<1>1. x \in Seq(Row) /\ Len(x) \in Nat /\ Len(y) \in Nat /\ Len(GenesisRows) \in Nat /\ Len(GenesisRows) =< Len(x)
  BY GenesisIs DEF RowsOK
<1>2. Len(GenesisRows) =< Len(y) /\ \A i \in 1 .. Len(GenesisRows) : y[i].cur = GenesisRows[i].cur
  <2>1. \A i \in 1 .. Len(GenesisRows) : i \in 1 .. Len(x) /\ x[i].cur = GenesisRows[i].cur
    BY <1>1 DEF RowsOK
  <2> QED
    BY <1>1, <2>1
<1>3. ASSUME NEW cur \in Nat PROVE Held(y, cur) = IssuedBy(sm, cur, n)
  <2>1. Held(y, cur) = Held(x, cur)
    BY <1>1, HeldTail
  <2> QED
    BY <2>1 DEF RowsOK
<1>4. ASSUME NEW i \in Signed(sm, n) PROVE sm[i].account < Len(y)
  <2>1. sm[i].account \in Nat
    BY SignedIs
  <2> QED
    BY <1>1, <2>1 DEF RowsOK
<1>5. ASSUME NEW i \in DOMAIN dn, dn[i].num =< n /\ Pays(dn[i].tx)
      PROVE  dn[i].tx.from < Len(y) /\ dn[i].tx.op < y[dn[i].tx.from + 1].op
  <2>1. dn[i].tx.from \in Nat /\ dn[i].tx.from < Len(x) /\ dn[i].tx.op < x[dn[i].tx.from + 1].op
    BY <1>5, DoneIs DEF RowsOK
  <2>2. dn[i].tx.from + 1 \in 1 .. Len(x)
    BY <1>1, <2>1
  <2> QED
    BY <1>1, <2>1, <2>2
<1> QED
  BY <1>2, <1>3, <1>4, <1>5 DEF RowsOK

(* What is said up to block n does not depend on later contracts and       *)
(* transactions.                                                           *)
SameUpTo(sm, sm2, n) == Signed(sm2, n) = Signed(sm, n) /\ \A i \in Signed(sm, n) : sm2[i] = sm[i]
FewerUpTo(dn, dn2, n) == \A i \in DOMAIN dn2 : dn2[i].num =< n => i \in DOMAIN dn /\ dn2[i] = dn[i]

LEMMA SameIs ==
  ASSUME NEW sm, NEW sm2, NEW n, SameUpTo(sm, sm2, n)
  PROVE  /\ \A cur : IssuedBy(sm2, cur, n) = IssuedBy(sm, cur, n)
         /\ \A id : StartBy(sm2, id, n) = StartBy(sm, id, n)
         /\ \A h, id, row : Expl(h, sm2, id, row, n) <=> Expl(h, sm, id, row, n)
         /\ \A dn, dn2, x : FewerUpTo(dn, dn2, n) /\ RowsOK(sm, dn, n, x) => RowsOK(sm2, dn2, n, x)
<1>1. \A cur : IssuedBy(sm2, cur, n) = IssuedBy(sm, cur, n)
  BY DEF SameUpTo, IssuedBy
<1>2. ASSUME NEW id PROVE StartBy(sm2, id, n) = StartBy(sm, id, n)
  <2>1. (\E i \in Signed(sm2, n) : sm2[i].account = id) <=> \E i \in Signed(sm, n) : sm[i].account = id
    BY DEF SameUpTo
  <2> QED
    BY <2>1 DEF StartBy
<1>3. \A h, id, row : Expl(h, sm2, id, row, n) <=> Expl(h, sm, id, row, n)
  BY <1>2 DEF Expl
<1>4. ASSUME NEW dn, NEW dn2, NEW x, FewerUpTo(dn, dn2, n), RowsOK(sm, dn, n, x) PROVE RowsOK(sm2, dn2, n, x)
  <2>1. \A i \in Signed(sm2, n) : sm2[i].account < Len(x)
    BY <1>4 DEF SameUpTo, RowsOK
  <2>2. \A cur \in Nat : Held(x, cur) = IssuedBy(sm2, cur, n)
    BY <1>1, <1>4 DEF RowsOK
  <2>3. ASSUME NEW i \in DOMAIN dn2, dn2[i].num =< n, Pays(dn2[i].tx)
        PROVE  dn2[i].tx.from < Len(x) /\ dn2[i].tx.op < x[dn2[i].tx.from + 1].op
    <3>1. i \in DOMAIN dn /\ dn2[i] = dn[i]
      BY <1>4, <2>3 DEF FewerUpTo
    <3> QED
      BY <1>4, <2>3, <3>1 DEF RowsOK
  <2> QED
    BY <1>4, <2>1, <2>2, <2>3 DEF RowsOK
<1> QED
  BY <1>1, <1>2, <1>3, <1>4

-----------------------------------------------------------------------------
(* The lists of payments.                                                  *)
LEMMA ListIs ==
  ASSUME NEW h, ListOK(h)
  PROVE  /\ Listed(h, 0) = 0 /\ \A p \in 0 .. Len(h) : Listed(h, p) \in Int
         /\ \A p \in 1 .. Len(h) : Listed(h, p) = h[p].amount + Listed(h, h[p].next) /\ h[p].next \in 0 .. p - 1
<1>1. PICK N \in Nat : N = Len(h)
  BY DEF ListOK
<1>2. ASSUME NEW p \in 1 .. N PROVE h[p].amount \in Int /\ h[p].next \in 0 .. p - 1
  <2>1. h[p] \in Pays3
    BY <1>1, ElementOfSeq DEF ListOK
  <2> QED
    BY <1>1, <2>1 DEF Pays3, ListOK
<1> DEFINE Is(f) == f = [p \in 0 .. N |-> IF p = 0 THEN 0 ELSE h[p].amount + f[h[p].next]]
           f == CHOOSE x : Is(x)
<1>3. \A p : Listed(h, p) = f[p]
  BY <1>1 DEF Listed
<1> HIDE DEF f
<1>4. \E x : Is(x) /\ \A p \in 0 .. N : x[p] \in Int
  <2>1. PICK next : next = [p \in 1 .. N |-> h[p].next]
    OBVIOUS
  <2>2. PICK G : G = [p \in 1 .. N |-> [x \in Int |-> h[p].amount + x]]
    OBVIOUS
  <2>3. next \in [1 .. N -> 0 .. N] /\ \A p \in 1 .. N : next[p] < p
    BY <1>2, <2>1
  <2>4. G \in [1 .. N -> [Int -> Int]]
    BY <1>2, <2>2
  <2>5. Unwound(N, Int, 0, next, G)
    <3>1. 0 \in Int
      OBVIOUS
    <3> QED
      BY <2>3, <2>4, <3>1, Unwind
  <2>6. PICK x \in [0 .. N -> Int] : x[0] = 0 /\ \A p \in 1 .. N : x[p] = G[p][x[next[p]]]
    BY <2>5 DEF Unwound
  <2>7. ASSUME NEW p \in 1 .. N PROVE x[p] = h[p].amount + x[h[p].next]
    <3>1. next[p] \in 0 .. N /\ next[p] = h[p].next /\ x[next[p]] \in Int
      BY <2>1, <2>3, <2>6
    <3> QED
      BY <2>2, <2>6, <3>1
  <2>8. Is(x)
    BY <2>6, <2>7
  <2> QED
    BY <2>6, <2>8
<1>5. Is(f)
  BY <1>4 DEF f
<1>6. f[0] = 0 /\ \A p \in 1 .. N : f[p] = h[p].amount + f[h[p].next]
  BY <1>5
<1>7. ASSUME NEW p \in 0 .. N PROVE f[p] \in Int
  <2> DEFINE Q == {n \in 0 .. N : \A q \in 0 .. n : f[q] \in Int}
  <2>1. 0 \in Q
    BY <1>6
  <2>2. ASSUME NEW n \in 1 .. N, n - 1 \in Q PROVE n \in Q
    <3>1. \A q \in 0 .. n - 1 : f[q] \in Int
      BY <2>2
    <3>2. f[n] \in Int
      BY <1>2, <1>6, <3>1
    <3>3. \A q \in 0 .. n : q \in 0 .. n - 1 \/ q = n
      OBVIOUS
    <3>4. \A q \in 0 .. n : f[q] \in Int
      BY <3>1, <3>2, <3>3
    <3> QED
      BY <3>4
  <2> HIDE DEF Q
  <2>3. \A n \in 0 .. N : n \in Q
    BY <2>1, <2>2, OneByOne
  <2> QED
    BY <2>3 DEF Q
<1> QED
  BY <1>1, <1>2, <1>3, <1>6, <1>7

LEMMA OwnIs ==
  ASSUME NEW h, ListOK(h), NEW id
  PROVE  /\ OwnList(h, id, 0)
         /\ \A p \in 1 .. Len(h) : OwnList(h, id, p) <=> h[p].id = id /\ OwnList(h, id, h[p].next)
<1>1. PICK N \in Nat : N = Len(h)
  BY DEF ListOK
<1>2. ASSUME NEW p \in 1 .. N PROVE h[p].next \in 0 .. p - 1
  <2>1. h[p] \in Pays3
    BY <1>1, ElementOfSeq DEF ListOK
  <2> QED
    BY <1>1, <2>1 DEF Pays3, ListOK
<1> DEFINE Is(f) == f = [p \in 0 .. N |-> p = 0 \/ (h[p].id = id /\ f[h[p].next])]
           f == CHOOSE x : Is(x)
<1>3. \A p : OwnList(h, id, p) = f[p]
  BY <1>1 DEF OwnList
<1> HIDE DEF f
<1>4. \E x : Is(x)
  <2>1. PICK next : next = [p \in 1 .. N |-> h[p].next]
    OBVIOUS
  <2>2. PICK G : G = [p \in 1 .. N |-> [x \in BOOLEAN |-> h[p].id = id /\ x]]
    OBVIOUS
  <2>3. next \in [1 .. N -> 0 .. N] /\ \A p \in 1 .. N : next[p] < p
    BY <1>2, <2>1
  <2>4. G \in [1 .. N -> [BOOLEAN -> BOOLEAN]]
    BY <2>2
  <2>5. Unwound(N, BOOLEAN, TRUE, next, G)
    <3>1. TRUE \in BOOLEAN
      OBVIOUS
    <3> QED
      BY <2>3, <2>4, <3>1, Unwind
  <2>6. PICK x \in [0 .. N -> BOOLEAN] : x[0] = TRUE /\ \A p \in 1 .. N : x[p] = G[p][x[next[p]]]
    BY <2>5 DEF Unwound
  <2>7. ASSUME NEW p \in 0 .. N PROVE x[p] = (p = 0 \/ (h[p].id = id /\ x[h[p].next]))
    <3>1. CASE p = 0
      BY <2>6, <3>1
    <3>2. CASE p # 0
      <4>1. p \in 1 .. N
        BY <3>2
      <4>2. next[p] = h[p].next /\ x[h[p].next] \in BOOLEAN
        BY <1>2, <2>1, <2>6, <4>1
      <4>3. x[p] = G[p][x[h[p].next]]
        BY <2>6, <4>1, <4>2
      <4>4. x[p] = (h[p].id = id /\ x[h[p].next])
        BY <2>2, <4>1, <4>2, <4>3
      <4> QED
        BY <3>2, <4>4
    <3> QED
      BY <3>1, <3>2
  <2>8. Is(x)
    BY <2>6, <2>7
  <2> QED
    BY <2>8
<1>5. Is(f)
  BY <1>4 DEF f
<1>6. ASSUME NEW p \in 0 .. N PROVE f[p] = (p = 0 \/ (h[p].id = id /\ f[h[p].next]))
  BY <1>5
<1>7. f[0]
  <2>1. 0 \in 0 .. N
    BY <1>1
  <2> QED
    BY <1>6, <2>1
<1>8. ASSUME NEW p \in 1 .. N PROVE f[p] <=> h[p].id = id /\ f[h[p].next]
  <2>1. p \in 0 .. N /\ p # 0
    BY <1>1
  <2> QED
    BY <1>6, <2>1
<1> QED
  BY <1>1, <1>3, <1>7, <1>8

(* What is added to the file of payments does not change a list.           *)
Longer(h, g) == Len(h) =< Len(g) /\ \A p \in 1 .. Len(h) : g[p] = h[p]

LEMMA ListGrows ==
  ASSUME NEW h, ListOK(h), NEW g, ListOK(g), Longer(h, g), NEW p \in 0 .. Len(h)
  PROVE  Listed(g, p) = Listed(h, p) /\ \A id : OwnList(g, id, p) <=> OwnList(h, id, p)
<1>1. PICK N \in Nat : N = Len(h)
  BY DEF ListOK
<1>2. /\ Listed(h, 0) = 0 /\ \A q \in 1 .. N : Listed(h, q) = h[q].amount + Listed(h, h[q].next) /\ h[q].next \in 0 .. q - 1
  BY <1>1, ListIs
<1>3. ASSUME NEW q \in 1 .. N PROVE q \in 1 .. Len(g) /\ g[q] = h[q]
  <2>1. Len(g) \in Nat /\ N =< Len(g)
    BY <1>1 DEF ListOK, Longer
  <2> QED
    BY <1>1, <2>1 DEF Longer
<1>4. /\ Listed(g, 0) = 0 /\ \A q \in 1 .. N : Listed(g, q) = h[q].amount + Listed(g, h[q].next)
  BY <1>3, ListIs
<1> DEFINE Q == {n \in 0 .. N : \A q \in 0 .. n : Listed(g, q) = Listed(h, q)}
<1>5. p \in Q
  <2>1. 0 \in Q
    BY <1>2, <1>4
  <2>2. ASSUME NEW n \in 1 .. N, n - 1 \in Q PROVE n \in Q
    <3>1. \A q \in 0 .. n - 1 : Listed(g, q) = Listed(h, q)
      BY <2>2
    <3>2. Listed(g, n) = Listed(h, n)
      BY <1>2, <1>4, <3>1
    <3>3. \A q \in 0 .. n : q \in 0 .. n - 1 \/ q = n
      OBVIOUS
    <3>4. \A q \in 0 .. n : Listed(g, q) = Listed(h, q)
      BY <3>1, <3>2, <3>3
    <3> QED
      BY <3>4
  <2> HIDE DEF Q
  <2> QED
    BY <1>1, <2>1, <2>2, OneByOne
<1>6. ASSUME NEW id PROVE OwnList(g, id, p) <=> OwnList(h, id, p)
  <2> DEFINE R == {n \in 0 .. N : \A q \in 0 .. n : OwnList(g, id, q) <=> OwnList(h, id, q)}
  <2>1. OwnList(h, id, 0) /\ \A q \in 1 .. N : OwnList(h, id, q) <=> h[q].id = id /\ OwnList(h, id, h[q].next)
    BY <1>1, OwnIs
  <2>2. OwnList(g, id, 0) /\ \A q \in 1 .. N : OwnList(g, id, q) <=> h[q].id = id /\ OwnList(g, id, h[q].next)
    <3>1. OwnList(g, id, 0) /\ \A q \in 1 .. Len(g) : OwnList(g, id, q) <=> g[q].id = id /\ OwnList(g, id, g[q].next)
      BY OwnIs
    <3> QED
      BY <1>3, <3>1
  <2>3. 0 \in R
    BY <2>1, <2>2
  <2>4. ASSUME NEW n \in 1 .. N, n - 1 \in R PROVE n \in R
    <3>1. \A q \in 0 .. n - 1 : OwnList(g, id, q) <=> OwnList(h, id, q)
      BY <2>4
    <3>2. OwnList(g, id, n) <=> OwnList(h, id, n)
      BY <1>2, <2>1, <2>2, <3>1
    <3>3. \A q \in 0 .. n : q \in 0 .. n - 1 \/ q = n
      OBVIOUS
    <3>4. \A q \in 0 .. n : OwnList(g, id, q) <=> OwnList(h, id, q)
      BY <3>1, <3>2, <3>3
    <3> QED
      BY <3>4
  <2> HIDE DEF R
  <2>5. p \in R
    BY <1>1, <2>3, <2>4, OneByOne
  <2> QED
    BY <2>5, <1>1 DEF R
<1> QED
  BY <1>1, <1>5, <1>6

(* A payment is put in front of the list of its account.                   *)
Saves(D) ==
  {x \in [hist : Seq(Pays3), map : [D -> Item]] :
     ListOK(x.hist) /\ \A id \in D : StartHistory =< id => x.map[id].row.pos \in 0 .. Len(x.hist)}
ListOf(x, id) == Listed(x.hist, x.map[id].row.pos)
OwnOf(x, id) == OwnList(x.hist, id, x.map[id].row.pos)
SavedOne(D, x, p, y) ==
  /\ y \in Saves(D) /\ Longer(x.hist, y.hist)
  /\ \A id \in D : y.map[id].row = [x.map[id].row EXCEPT !.pos = y.map[id].row.pos]
  /\ \A id \in D : StartHistory =< id =>
       /\ ListOf(y, id) = ListOf(x, id) + (IF p.id = id THEN p.amount ELSE 0)
       /\ OwnOf(x, id) => OwnOf(y, id)

LEMMA SaveIs ==
  ASSUME NEW D, D \subseteq Nat, NEW x \in Saves(D), NEW p \in Paying, p.id \in D, StartHistory =< p.id
  PROVE  SavedOne(D, x, p, SaveHistory(x, p))
<1>1. PICK n, q, y : /\ n = Len(x.hist) + 1 /\ q = [id |-> p.id, amount |-> p.amount, next |-> x.map[p.id].row.pos]
                     /\ y = SaveHistory(x, p)
  OBVIOUS
<1>2. /\ x.hist \in Seq(Pays3) /\ x.map \in [D -> Item] /\ ListOK(x.hist) /\ Len(x.hist) \in Nat
      /\ \A id \in D : x.map[id] \in Item /\ x.map[id].row \in Row
      /\ \A id \in D : StartHistory =< id => x.map[id].row.pos \in 0 .. Len(x.hist)
  BY DEF Saves, Item
<1>3. p.amount \in Int /\ p.id \in Nat /\ q \in Pays3 /\ q.next \in 0 .. n - 1 /\ n \in Nat
  BY <1>1, <1>2 DEF Paying, Pays3
<1>4. /\ y.hist = Append(x.hist, q) /\ y.map = [x.map EXCEPT ![p.id].row.pos = n]
      /\ y = [hist |-> y.hist, map |-> y.map]
  BY <1>1 DEF SaveHistory
<1>5. y.hist \in Seq(Pays3) /\ Len(y.hist) = n /\ y.hist[n] = q /\ \A k \in 1 .. Len(x.hist) : y.hist[k] = x.hist[k]
  BY <1>1, <1>2, <1>3, <1>4, AppendProperties
<1>6. ListOK(y.hist)
  <2>1. ASSUME NEW k \in 1 .. n PROVE y.hist[k].next < k
    <3>1. CASE k = n
      BY <1>3, <1>5, <3>1
    <3>2. CASE k # n
      <4>1. k \in 1 .. Len(x.hist)
        BY <1>1, <1>2, <3>2
      <4> QED
        BY <1>2, <1>5, <4>1 DEF ListOK
    <3> QED
      BY <3>1, <3>2
  <2> QED
    BY <1>5, <2>1 DEF ListOK
<1>7. ASSUME NEW id \in D
      PROVE  /\ y.map[id] \in Item /\ y.map[id].row.pos = IF id = p.id THEN n ELSE x.map[id].row.pos
             /\ y.map[id].row = [x.map[id].row EXCEPT !.pos = y.map[id].row.pos]
  <2>1. CASE id = p.id
    <3>1. PICK e, f : e = x.map[id] /\ f = y.map[id]
      OBVIOUS
    <3>2. f = [e EXCEPT !.row.pos = n] /\ e \in Item /\ e.row \in Row
      BY <1>2, <1>4, <2>1, <3>1
    <3>3. [e.row EXCEPT !.pos = n] \in Row
      BY <1>3, <3>2 DEF Row
    <3>4. f.row = [e.row EXCEPT !.pos = n] /\ f \in Item
      BY <3>2, <3>3 DEF Item
    <3>5. f.row.pos = n
      BY <3>2, <3>4 DEF Row
    <3> QED
      BY <2>1, <3>1, <3>4, <3>5
  <2>2. CASE id # p.id
    <3>1. y.map[id] = x.map[id]
      BY <1>2, <1>4, <2>2
    <3> QED
      BY <1>2, <2>2, <3>1 DEF Item, Row
  <2> QED
    BY <2>1, <2>2
<1>8. y.map \in [D -> Item]
  <2>1. DOMAIN y.map = D /\ y.map = [id \in D |-> y.map[id]]
    BY <1>2, <1>4
  <2> QED
    BY <1>7, <2>1
<1>9. y \in Saves(D)
  <2>1. ASSUME NEW id \in D, StartHistory =< id PROVE y.map[id].row.pos \in 0 .. Len(y.hist)
    <3>1. x.map[id].row.pos \in 0 .. n /\ n \in 0 .. n
      BY <1>1, <1>2, <2>1
    <3> QED
      BY <1>5, <1>7, <3>1
  <2>2. y \in [hist : Seq(Pays3), map : [D -> Item]]
    BY <1>4, <1>5, <1>8
  <2> QED
    BY <1>6, <2>1, <2>2 DEF Saves
<1>10. Longer(x.hist, y.hist)
  BY <1>1, <1>2, <1>5 DEF Longer
<1>11. ASSUME NEW id \in D, StartHistory =< id
       PROVE  /\ ListOf(y, id) = ListOf(x, id) + (IF p.id = id THEN p.amount ELSE 0)
              /\ OwnOf(x, id) => OwnOf(y, id)
  <2>1. PICK pos \in 0 .. Len(x.hist) : pos = x.map[id].row.pos
    BY <1>2, <1>11
  <2>2. Listed(y.hist, pos) = Listed(x.hist, pos) /\ (OwnList(y.hist, id, pos) <=> OwnList(x.hist, id, pos))
    BY <1>2, <1>6, <1>10, <2>1, ListGrows
  <2>3. Listed(x.hist, pos) \in Int
    BY <1>2, <2>1, ListIs
  <2>4. CASE id # p.id
    <3>1. y.map[id].row.pos = pos
      BY <1>7, <2>1, <2>4
    <3>2. ListOf(y, id) = ListOf(x, id) + 0
      BY <2>1, <2>2, <2>3, <3>1 DEF ListOf
    <3>3. OwnOf(x, id) => OwnOf(y, id)
      BY <2>1, <2>2, <3>1 DEF OwnOf
    <3> QED
      BY <2>4, <3>2, <3>3
  <2>5. CASE id = p.id
    <3>1. y.map[id].row.pos = n /\ n \in 1 .. Len(y.hist) /\ y.hist[n].next = pos /\ y.hist[n].amount = p.amount
          /\ y.hist[n].id = id
      <4>1. y.map[id].row.pos = n
        BY <1>7, <2>5
      <4>2. n \in 1 .. Len(y.hist)
        BY <1>1, <1>2, <1>5
      <4>3. q.next = pos /\ q.amount = p.amount /\ q.id = id
        BY <1>1, <2>1, <2>5
      <4> QED
        BY <1>5, <4>1, <4>2, <4>3
    <3>2. Listed(y.hist, n) = p.amount + Listed(y.hist, pos)
      BY <1>6, <3>1, ListIs
    <3>3. OwnList(y.hist, id, n) <=> OwnList(y.hist, id, pos)
      BY <1>6, <3>1, OwnIs
    <3> QED
      BY <1>3, <2>1, <2>2, <2>3, <2>5, <3>1, <3>2, <3>3 DEF ListOf, OwnOf
  <2> QED
    BY <2>4, <2>5
<1> QED
  BY <1>1, <1>7, <1>9, <1>10, <1>11 DEF SavedOne

(* All payments of the block.                                              *)
Saved(h, c, s) ==
  /\ s \in Saves(DOMAIN c.map) /\ Longer(h, s.hist)
  /\ \A id \in DOMAIN c.map : s.map[id].row = [c.map[id].row EXCEPT !.pos = s.map[id].row.pos]
  /\ \A id \in DOMAIN c.map : StartHistory =< id =>
       /\ Listed(s.hist, s.map[id].row.pos) = Listed(h, c.map[id].row.pos) + Pend(c.hist, id)
       /\ OwnList(h, id, c.map[id].row.pos) => OwnList(s.hist, id, s.map[id].row.pos)

LEMMA SavedIs ==
  ASSUME ListOK(hist), NEW c, c.map \in Maps, c.hist \in Seq(Paying),
         \A id \in DOMAIN c.map : StartHistory =< id => c.map[id].row.pos \in 0 .. Len(hist),
         \A k \in 1 .. Len(c.hist) : c.hist[k].id \in DOMAIN c.map /\ StartHistory =< c.hist[k].id
  PROVE  Saved(hist, c, WithHistory(c))
<1>1. PICK N, D, T, first : /\ N = Len(c.hist) /\ D = DOMAIN c.map /\ T = Saves(D)
                            /\ first = [hist |-> hist, map |-> c.map]
  OBVIOUS
<1>2. N \in Nat /\ D \subseteq Nat /\ \A i \in 1 .. N : c.hist[i] \in Paying /\ c.hist[i].id \in D /\ StartHistory =< c.hist[i].id
  BY <1>1, MapsIs, ElementOfSeq
<1>3. first \in T
  <2>1. c.map \in [D -> Item] /\ hist \in Seq(Pays3)
    BY <1>1, MapsIs DEF ListOK
  <2> QED
    BY <1>1, <2>1 DEF Saves
<1> DEFINE Turn(x, i) == SaveHistory(x, c.hist[i])
           Is(h) == h = [i \in 0 .. N |-> IF i = 0 THEN first ELSE Turn(h[i - 1], i)]
           h == CHOOSE x : Is(x)
<1>4. WithHistory(c) = h[N]
  BY <1>1 DEF WithHistory
<1>5. ASSUME NEW i \in 1 .. N, NEW x \in T PROVE SavedOne(D, x, c.hist[i], Turn(x, i)) /\ Turn(x, i) \in T
  <2>1. SavedOne(D, x, c.hist[i], Turn(x, i))
    BY <1>1, <1>2, SaveIs
  <2> QED
    BY <1>1, <2>1 DEF SavedOne
<1> HIDE DEF Turn
<1>6. \E f : Is(f)
  <2>1. PICK G : G = [i \in 1 .. N |-> [x \in T |-> Turn(x, i)]]
    OBVIOUS
  <2>2. G \in [1 .. N -> [T -> T]]
    BY <1>5, <2>1
  <2>3. Taken(N, T, first, G)
    BY <1>2, <1>3, <2>2, Turns
  <2>4. PICK f \in [0 .. N -> T] : f[0] = first /\ \A i \in 1 .. N : f[i] = G[i][f[i - 1]]
    BY <2>3 DEF Taken
  <2>5. ASSUME NEW i \in 0 .. N PROVE f[i] = IF i = 0 THEN first ELSE Turn(f[i - 1], i)
    <3>1. CASE i # 0
      <4>1. i \in 1 .. N /\ i - 1 \in 0 .. N
        BY <1>2, <3>1
      <4>2. f[i - 1] \in T /\ f[i] = G[i][f[i - 1]]
        BY <2>4, <4>1
      <4> QED
        BY <2>1, <3>1, <4>1, <4>2
    <3> QED
      BY <2>4, <3>1
  <2> QED
    BY <2>5
<1>7. Is(h)
  BY <1>6
<1> HIDE DEF h
<1>8. h[0] = first /\ \A i \in 1 .. N : h[i] = Turn(h[i - 1], i)
  BY <1>2, <1>7
<1> DEFINE Q == {i \in 0 .. N : /\ h[i] \in T /\ Longer(hist, h[i].hist)
                                /\ \A id \in D : h[i].map[id].row = [c.map[id].row EXCEPT !.pos = h[i].map[id].row.pos]}
<1>9. 0 \in Q
  <2>1. ASSUME NEW id \in D PROVE c.map[id].row = [c.map[id].row EXCEPT !.pos = c.map[id].row.pos]
    <3>1. c.map[id] \in Item
      BY <1>1, MapsIs
    <3> QED
      BY <3>1 DEF Item, Row
  <2>2. Len(hist) \in Nat
    BY DEF ListOK
  <2>3. Longer(hist, hist) /\ first.hist = hist /\ first.map = c.map
    BY <1>1, <2>2 DEF Longer
  <2>4. 0 \in 0 .. N
    BY <1>2
  <2> QED
    BY <1>1, <1>3, <1>8, <2>1, <2>3, <2>4
<1>10. ASSUME NEW i \in 1 .. N, i - 1 \in Q PROVE i \in Q
  <2>1. PICK x, y : x = h[i - 1] /\ y = h[i]
    OBVIOUS
  <2>2. /\ y = Turn(x, i) /\ x \in T /\ Longer(hist, x.hist) /\ i \in 0 .. N
        /\ \A id \in D : x.map[id].row = [c.map[id].row EXCEPT !.pos = x.map[id].row.pos]
    BY <1>2, <1>8, <1>10, <2>1
  <2>3. SavedOne(D, x, c.hist[i], y) /\ y \in T
    BY <1>5, <2>2
  <2>4. Longer(hist, y.hist)
    <3>1. Longer(hist, x.hist) /\ Longer(x.hist, y.hist)
      BY <2>2, <2>3 DEF SavedOne
    <3>2. Len(hist) \in Nat /\ Len(x.hist) \in Nat /\ Len(y.hist) \in Nat
      BY <1>1, <2>2, <2>3 DEF Saves, ListOK
    <3> QED
      BY <3>1, <3>2 DEF Longer
  <2>5. ASSUME NEW id \in D PROVE y.map[id].row = [c.map[id].row EXCEPT !.pos = y.map[id].row.pos]
    <3>1. y.map[id].row = [x.map[id].row EXCEPT !.pos = y.map[id].row.pos]
      BY <2>3 DEF SavedOne
    <3>2. x.map[id].row = [c.map[id].row EXCEPT !.pos = x.map[id].row.pos]
      BY <2>2
    <3>3. c.map[id].row \in Row
      BY <1>1, MapsIs DEF Item
    <3> QED
      BY <3>1, <3>2, <3>3 DEF Row
  <2> QED
    BY <2>1, <2>2, <2>3, <2>4, <2>5
<1> HIDE DEF Q
<1>11. \A i \in 0 .. N : i \in Q
  BY <1>2, <1>9, <1>10, OneByOne
<1>12. PICK s : /\ s = h[N] /\ s \in T /\ Longer(hist, s.hist)
                /\ \A id \in D : s.map[id].row = [c.map[id].row EXCEPT !.pos = s.map[id].row.pos]
  <2>1. N \in 0 .. N
    BY <1>2
  <2> QED
    BY <1>11, <2>1 DEF Q
<1>13. ASSUME NEW id \in D, StartHistory =< id
       PROVE  /\ Listed(s.hist, s.map[id].row.pos) = Listed(hist, c.map[id].row.pos) + Pend(c.hist, id)
              /\ OwnList(hist, id, c.map[id].row.pos) => OwnList(s.hist, id, s.map[id].row.pos)
  <2>1. PICK f : f = Amounts(c.hist, id)
    OBVIOUS
  <2>2. f \in Seq(Int) /\ Len(f) = N /\ SumOf(f) = Pend(c.hist, id)
        /\ \A i \in 1 .. N : f[i] = IF c.hist[i].id = id THEN c.hist[i].amount ELSE 0
    BY <1>1, <2>1, PendIs DEF Pend
  <2>3. PICK a \in [0 .. N -> Int] : a[0] = 0 /\ SumOf(f) = a[N] /\ \A i \in 1 .. N : a[i] = a[i - 1] + f[i]
    BY <1>2, <2>2, SumIs
  <2>4. PICK start \in Int : start = ListOf(first, id)
    <3>1. ListOf(first, id) = Listed(hist, c.map[id].row.pos) /\ c.map[id].row.pos \in 0 .. Len(hist)
      BY <1>1, <1>13 DEF ListOf
    <3> QED
      BY <3>1, ListIs
  <2> DEFINE R == {i \in 0 .. N : ListOf(h[i], id) = start + a[i] /\ (OwnOf(first, id) => OwnOf(h[i], id))}
  <2>5. 0 \in R
    BY <1>2, <1>8, <2>3, <2>4
  <2>6. ASSUME NEW i \in 1 .. N, i - 1 \in R PROVE i \in R
    <3>1. PICK x, y : x = h[i - 1] /\ y = h[i]
      OBVIOUS
    <3>2. x \in T /\ y = Turn(x, i) /\ i \in 0 .. N
      BY <1>2, <1>8, <1>11, <3>1 DEF Q
    <3>3. SavedOne(D, x, c.hist[i], y)
      BY <1>5, <3>2
    <3>4. /\ ListOf(y, id) = ListOf(x, id) + f[i] /\ (OwnOf(x, id) => OwnOf(y, id))
      BY <1>13, <2>2, <3>3 DEF SavedOne
    <3>5. a[i] = a[i - 1] + f[i] /\ a[i - 1] \in Int /\ f[i] \in Int
      <4>1. i - 1 \in 0 .. N
        BY <1>2
      <4>2. a[i] = a[i - 1] + f[i] /\ a[i - 1] \in Int
        BY <2>3, <4>1
      <4>3. f[i] \in Int
        BY <2>2, ElementOfSeq
      <4> QED
        BY <4>2, <4>3
    <3>6. ListOf(x, id) = start + a[i - 1] /\ (OwnOf(first, id) => OwnOf(x, id))
      BY <2>6, <3>1
    <3>7. ListOf(y, id) = start + a[i]
      BY <2>4, <3>4, <3>5, <3>6
    <3> QED
      BY <3>1, <3>2, <3>4, <3>6, <3>7
  <2> HIDE DEF R
  <2>7. \A i \in 0 .. N : i \in R
    BY <1>2, <2>5, <2>6, OneByOne
  <2>8. N \in 0 .. N
    BY <1>2
  <2>9. ListOf(s, id) = start + a[N] /\ (OwnOf(first, id) => OwnOf(s, id))
    BY <1>12, <2>7, <2>8 DEF R
  <2> QED
    BY <1>1, <2>2, <2>3, <2>4, <2>9 DEF ListOf, OwnOf
<1> QED
  BY <1>1, <1>4, <1>12, <1>13 DEF Saved
-----------------------------------------------------------------------------
(* The rows of the log: one for each account of the block.                 *)
RowFor(c, id) ==
  [num |-> c.num, id |-> id, mode |-> IF c.map[id].new THEN "new" ELSE "old", val |-> c.map[id].back, hash |-> << >>]
RowsUpTo(c, n, x) ==
  /\ x \in Seq(LogRow)
  /\ \A j \in 1 .. Len(x) : x[j].id \in DOMAIN c.map /\ x[j].id < n /\ x[j] = RowFor(c, x[j].id)
  /\ \A i, j \in 1 .. Len(x) : x[i].id = x[j].id => i = j
  /\ \A id \in DOMAIN c.map : id < n => \E j \in 1 .. Len(x) : x[j].id = id

LEMMA NextRow ==
  ASSUME NEW c, c.map \in Maps, c.num \in Nat, NEW n \in Nat, NEW x, RowsUpTo(c, n, x)
  PROVE  RowsUpTo(c, n + 1, IF n \in DOMAIN c.map THEN Append(x, RowFor(c, n)) ELSE x)
<1>1. /\ x \in Seq(LogRow) /\ Len(x) \in Nat
      /\ \A j \in 1 .. Len(x) : x[j].id \in DOMAIN c.map /\ x[j].id < n /\ x[j] = RowFor(c, x[j].id)
      /\ \A i, j \in 1 .. Len(x) : x[i].id = x[j].id => i = j
      /\ \A id \in DOMAIN c.map : id < n => \E j \in 1 .. Len(x) : x[j].id = id
  BY DEF RowsUpTo
<1>2. DOMAIN c.map \subseteq Nat /\ \A id \in DOMAIN c.map : c.map[id] \in Item
  BY MapsIs
<1>3. CASE n \notin DOMAIN c.map
  <2>1. \A j \in 1 .. Len(x) : x[j].id < n + 1
    BY <1>1, <1>2
  <2>2. \A id \in DOMAIN c.map : id < n + 1 => id < n
    BY <1>2, <1>3
  <2> QED
    BY <1>1, <1>3, <2>1, <2>2 DEF RowsUpTo
<1>4. CASE n \in DOMAIN c.map
  <2>1. PICK r, y : r = RowFor(c, n) /\ y = Append(x, r)
    OBVIOUS
  <2>2. r \in LogRow /\ r.id = n
    <3>1. c.map[n].back \in Row /\ c.map[n].new \in BOOLEAN /\ << >> \in Seq(Row)
      BY <1>2, <1>4 DEF Item
    <3> QED
      BY <2>1, <3>1 DEF RowFor, LogRow
  <2>3. /\ y \in Seq(LogRow) /\ Len(y) = Len(x) + 1 /\ y[Len(x) + 1] = r /\ \A j \in 1 .. Len(x) : y[j] = x[j]
    BY <1>1, <2>1, <2>2, AppendProperties
  <2>4. \A j \in 1 .. Len(y) : j \in 1 .. Len(x) \/ j = Len(x) + 1
    BY <1>1, <2>3
  <2>5. ASSUME NEW j \in 1 .. Len(y) PROVE y[j].id \in DOMAIN c.map /\ y[j].id < n + 1 /\ y[j] = RowFor(c, y[j].id)
    <3>1. CASE j \in 1 .. Len(x)
      <4>1. x[j].id \in Nat /\ x[j].id < n
        BY <1>1, <1>2, <3>1
      <4> QED
        BY <1>1, <2>3, <3>1, <4>1
    <3>2. CASE j = Len(x) + 1
      BY <1>4, <2>1, <2>2, <2>3, <3>2
    <3> QED
      BY <2>4, <3>1, <3>2
  <2>6. ASSUME NEW i \in 1 .. Len(y), NEW j \in 1 .. Len(y), y[i].id = y[j].id PROVE i = j
    <3>1. \A k \in 1 .. Len(x) : x[k].id # n
      BY <1>1, <1>2
    <3>2. CASE i \in 1 .. Len(x) /\ j \in 1 .. Len(x)
      BY <1>1, <2>3, <2>6, <3>2
    <3>3. CASE i \in 1 .. Len(x) /\ j = Len(x) + 1
      BY <2>2, <2>3, <2>6, <3>1, <3>3
    <3>4. CASE i = Len(x) + 1 /\ j \in 1 .. Len(x)
      BY <2>2, <2>3, <2>6, <3>1, <3>4
    <3> QED
      BY <2>4, <3>2, <3>3, <3>4
  <2>7. ASSUME NEW id \in DOMAIN c.map, id < n + 1 PROVE \E j \in 1 .. Len(y) : y[j].id = id
    <3>1. CASE id = n
      <4>1. Len(x) + 1 \in 1 .. Len(y)
        BY <1>1, <2>3
      <4> QED
        BY <2>2, <2>3, <3>1, <4>1
    <3>2. CASE id # n
      <4>1. id < n
        BY <1>2, <2>7, <3>2
      <4>2. PICK j \in 1 .. Len(x) : x[j].id = id
        BY <1>1, <4>1
      <4>3. j \in 1 .. Len(y)
        BY <1>1, <2>3
      <4> QED
        BY <2>3, <4>2, <4>3
    <3> QED
      BY <3>1, <3>2
  <2> QED
    BY <1>4, <2>1, <2>3, <2>5, <2>6, <2>7 DEF RowsUpTo
<1> QED
  BY <1>3, <1>4

LEMMA LogRowsIs ==
  ASSUME NEW c, c.map \in Maps, c.num \in Nat, c.max \in Nat
  PROVE  RowsUpTo(c, c.max + 1, LogRows(c))
<1>1. PICK N : N = c.max + 1
  OBVIOUS
<1>2. N \in Nat
  BY <1>1
<1> DEFINE Turn(x, i) ==
             IF i - 1 \notin DOMAIN c.map THEN x
             ELSE Append(x, [num |-> c.num, id |-> i - 1, mode |-> IF c.map[i - 1].new THEN "new" ELSE "old",
                             val |-> c.map[i - 1].back, hash |-> << >>])
           Is(h) == h = [i \in 0 .. N |-> IF i = 0 THEN << >> ELSE Turn(h[i - 1], i)]
           h == CHOOSE x : Is(x)
           T == Seq(LogRow)
<1>3. LogRows(c) = h[N]
  BY <1>1 DEF LogRows
<1>13. \A x, i : Turn(x, i) = IF i - 1 \in DOMAIN c.map THEN Append(x, RowFor(c, i - 1)) ELSE x
  BY DEF RowFor
<1> HIDE DEF Turn
<1>4. << >> \in T /\ RowsUpTo(c, 0, << >>)
  <2>1. DOMAIN c.map \subseteq Nat
    BY MapsIs
  <2>2. << >> \in T /\ Len(<< >>) = 0
    OBVIOUS
  <2> QED
    BY <2>1, <2>2 DEF RowsUpTo
<1>5. ASSUME NEW i \in 1 .. N, NEW x, RowsUpTo(c, i - 1, x) PROVE RowsUpTo(c, i, Turn(x, i))
  <2>1. i - 1 \in Nat /\ (i - 1) + 1 = i
    BY <1>2
  <2> QED
    BY <1>5, <1>13, <2>1, NextRow
<1>14. ASSUME NEW i \in 1 .. N, NEW x \in T PROVE Turn(x, i) \in T
  <2>1. CASE i - 1 \in DOMAIN c.map
    <3>1. c.map[i - 1] \in Item /\ i - 1 \in Nat /\ << >> \in Seq(Row)
      BY <2>1, MapsIs
    <3>2. RowFor(c, i - 1) \in LogRow
      BY <3>1 DEF RowFor, LogRow, Item
    <3> QED
      BY <1>13, <2>1, <3>2
  <2> QED
    BY <1>13, <2>1
<1>6. \E f : Is(f)
  <2>1. PICK G : G = [i \in 1 .. N |-> [x \in T |-> Turn(x, i)]]
    OBVIOUS
  <2> HIDE DEF T
  <2>2. G \in [1 .. N -> [T -> T]]
    BY <1>14, <2>1
  <2>3. Taken(N, T, << >>, G)
    BY <1>2, <1>4, <2>2, Turns
  <2>4. PICK f \in [0 .. N -> T] : f[0] = << >> /\ \A i \in 1 .. N : f[i] = G[i][f[i - 1]]
    BY <2>3 DEF Taken
  <2>5. ASSUME NEW i \in 0 .. N PROVE f[i] = IF i = 0 THEN << >> ELSE Turn(f[i - 1], i)
    <3>1. CASE i # 0
      <4>1. i \in 1 .. N /\ i - 1 \in 0 .. N
        BY <1>2, <3>1
      <4>2. f[i - 1] \in T /\ f[i] = G[i][f[i - 1]]
        BY <2>4, <4>1
      <4> QED
        BY <2>1, <3>1, <4>1, <4>2
    <3> QED
      BY <2>4, <3>1
  <2> QED
    BY <2>5
<1>7. Is(h)
  BY <1>6
<1> HIDE DEF h, T
<1>8. h[0] = << >> /\ \A i \in 1 .. N : h[i] = Turn(h[i - 1], i)
  BY <1>2, <1>7
<1> DEFINE Q == {i \in 0 .. N : RowsUpTo(c, i, h[i])}
<1>9. 0 \in Q
  BY <1>2, <1>4, <1>8
<1>10. ASSUME NEW i \in 1 .. N, i - 1 \in Q PROVE i \in Q
  <2>1. i \in 0 .. N /\ RowsUpTo(c, i - 1, h[i - 1]) /\ h[i] = Turn(h[i - 1], i)
    BY <1>2, <1>8, <1>10
  <2> QED
    BY <1>5, <2>1
<1> HIDE DEF Q
<1>11. \A i \in 0 .. N : i \in Q
  BY <1>2, <1>9, <1>10, OneByOne
<1>12. N \in 0 .. N
  BY <1>2
<1> QED
  BY <1>1, <1>3, <1>11, <1>12 DEF Q
-----------------------------------------------------------------------------
(* The block being executed takes a transaction over.                      *)
ThisBlock == BlockOK(state, smarts, done, remade, hist, chg)

LEMMA ShapeIs ==
  ASSUME ThisBlock
  PROVE  /\ BlockShape /\ chg.on /\ chg.num \in Nat /\ 0 < chg.num /\ chg.max \in Nat /\ Len(state) \in Nat
         /\ \A id : Account(id) = AccountOf(state, chg, id)
         /\ Rows = RowsOf(state, chg) /\ Len(Rows) = chg.max + 1
         /\ \A i \in 1 .. chg.max + 1 : Rows[i] = Account(i - 1)
<1>1. \A id : Account(id) = AccountOf(state, chg, id)
  BY DEF Account, AccountOf
<1>2. /\ state \in Seq(Row) /\ Len(GenesisRows) =< Len(state) /\ smarts \in Seq(Contract) /\ chg \in Block
      /\ chg.on /\ 0 < chg.num /\ Len(state) =< chg.max + 1 /\ chg.num \in Nat /\ chg.max \in Nat
      /\ DOMAIN chg.map \subseteq 0 .. chg.max /\ Len(state) .. chg.max \subseteq DOMAIN chg.map
      /\ Len(state) \in Nat /\ Len(GenesisRows) \in Nat
  BY GenesisIs DEF ThisBlock, BlockOK, Block
<1>3. Rows = RowsOf(state, chg) /\ Rows = [i \in 1 .. chg.max + 1 |-> Account(i - 1)]
  BY <1>1, <1>2 DEF Rows, Top, RowsOf
<1>4. Len(Rows) = chg.max + 1
  <2>1. RowsOf(state, chg) \in Seq(Row)
    BY DEF ThisBlock, BlockOK, RowsOK
  <2>6. Rows \in Seq(Row)
    BY <1>3, <2>1
  <2>2. DOMAIN Rows = 1 .. Len(Rows) /\ Len(Rows) \in Nat
    BY <2>6, LenProperties
  <2>3. DOMAIN Rows = 1 .. chg.max + 1
    BY <1>3
  <2>4. Len(Rows) \in 1 .. Len(Rows) \/ Len(Rows) = 0
    BY <2>2
  <2>5. chg.max + 1 \in 1 .. chg.max + 1
    BY <1>2
  <2> QED
    BY <1>2, <2>2, <2>3, <2>4, <2>5
<1>5. ASSUME NEW i \in 1 .. Len(GenesisRows) PROVE Account(i - 1).cur = GenesisRows[i].cur
  <2>1. RowsOf(state, chg)[i].cur = GenesisRows[i].cur
    BY DEF ThisBlock, BlockOK, RowsOK
  <2>2. i \in 1 .. chg.max + 1
    BY <1>2
  <2> QED
    BY <1>3, <2>1, <2>2
<1> QED
  BY <1>1, <1>2, <1>3, <1>4, <1>5 DEF BlockShape

(* What the block has of the accounts afterwards.                          *)
LEMMA MergedIs ==
  ASSUME ThisBlock, NEW u, Finished(u), NEW m, m = Merged(u)
  PROVE  /\ m \in Maps /\ DOMAIN m = DOMAIN chg.map \cup Changed(u) /\ u.max \in Nat /\ chg.max =< u.max
         /\ DOMAIN m \subseteq 0 .. u.max /\ Len(state) .. u.max \subseteq DOMAIN m
         /\ chg.max + 1 .. u.max \subseteq Changed(u)
         /\ \A id \in DOMAIN m : m[id].row = EndRow(u, id)
         /\ \A id \in DOMAIN m : id \in Changed(u) => m[id].back = u.map[id].back /\ m[id].new = u.map[id].new
         /\ \A id \in DOMAIN m : id \notin Changed(u) => m[id] = chg.map[id]
<1>1. /\ u \in Tran /\ u.max \in Nat /\ chg.max \in Nat /\ chg.max =< u.max /\ DOMAIN u.map \subseteq 0 .. u.max
      /\ chg.max + 1 .. u.max \subseteq DOMAIN u.map /\ \A id \in DOMAIN u.map : EndOK(u.map[id], id)
      /\ Len(state) \in Nat /\ chg.map \in Maps
      /\ DOMAIN chg.map \subseteq 0 .. chg.max /\ Len(state) .. chg.max \subseteq DOMAIN chg.map
  <2>1. u \in Tran /\ chg.max =< u.max /\ DOMAIN u.map \subseteq 0 .. u.max
        /\ chg.max + 1 .. u.max \subseteq DOMAIN u.map /\ \A id \in DOMAIN u.map : EndOK(u.map[id], id)
    BY DEF Finished
  <2>2. u.max \in Nat
    BY <2>1 DEF Tran
  <2>3. Len(state) \in Nat /\ chg.max \in Nat
    BY ShapeIs
  <2>4. chg.map \in Maps /\ DOMAIN chg.map \subseteq 0 .. chg.max /\ Len(state) .. chg.max \subseteq DOMAIN chg.map
    BY DEF ThisBlock, BlockOK, Block
  <2> QED
    BY <2>1, <2>2, <2>3, <2>4
<1>2. DOMAIN m = DOMAIN chg.map \cup Changed(u) /\ m = [id \in DOMAIN m |-> m[id]]
  BY DEF Merged
<1>3. Changed(u) \subseteq 0 .. u.max /\ Changed(u) \subseteq DOMAIN u.map
  BY <1>1 DEF Changed
<1>4. chg.max + 1 .. u.max \subseteq Changed(u)
  <2>1. ASSUME NEW id \in chg.max + 1 .. u.max PROVE id \in Changed(u)
    <3>1. id \in DOMAIN u.map /\ EndOK(u.map[id], id) /\ ~(id =< chg.max)
      BY <1>1
    <3> QED
      BY <3>1 DEF EndOK, Changed
  <2> QED
    BY <2>1
<1>5. Len(state) .. u.max \subseteq DOMAIN m
  <2>1. \A id \in Len(state) .. u.max : id \in Len(state) .. chg.max \/ id \in chg.max + 1 .. u.max
    BY <1>1
  <2> QED
    BY <1>1, <1>2, <1>4, <2>1
<1>6. ASSUME NEW id \in DOMAIN m
      PROVE  /\ m[id] \in Item /\ m[id].row = EndRow(u, id)
             /\ id \in Changed(u) => m[id].back = u.map[id].back /\ m[id].new = u.map[id].new
             /\ id \notin Changed(u) => m[id] = chg.map[id]
  <2>1. CASE id \notin Changed(u)
    <3>1. id \in DOMAIN chg.map /\ m[id] = chg.map[id] /\ chg.map[id] \in Item
      BY <1>1, <1>2, <2>1, MapsIs DEF Merged
    <3> QED
      BY <2>1, <3>1 DEF EndRow, Account
  <2>2. CASE id \in Changed(u)
    <3>1. u.map[id] \in Item /\ EndOK(u.map[id], id)
      BY <1>1, <1>3, <2>2 DEF EndOK
    <3>2. m[id] = IF u.map[id].new THEN [u.map[id] EXCEPT !.row = Registered(u, u.map[id].row)] ELSE u.map[id]
      BY <1>2, <2>2 DEF Merged
    <3>3. Registered(u, u.map[id].row) \in Row
      <4>1. u.map[id].row \in Row
        BY <3>1 DEF Item
      <4> QED
        BY <4>1, ShapeIs, RegisteredIs
    <3> QED
      BY <2>2, <3>1, <3>2, <3>3 DEF Item, EndRow
  <2> QED
    BY <2>1, <2>2
<1>7. DOMAIN m \subseteq 0 .. u.max
  BY <1>1, <1>2, <1>3
<1>8. m \in Maps
  <2>1. DOMAIN m \subseteq Nat
    BY <1>7
  <2> QED
    BY <1>2, <1>6, <2>1, MapsIs
<1> QED
  BY <1>1, <1>2, <1>4, <1>5, <1>6, <1>7, <1>8

LEMMA KeptIs ==
  ASSUME ThisBlock, NEW u, Finished(u), NEW id \in 0 .. u.max
  PROVE  /\ EndRow(u, id) \in Row
         /\ id =< chg.max =>
              /\ Account(id).op =< EndRow(u, id).op /\ EndRow(u, id).cur = Account(id).cur
              /\ EndRow(u, id).key = Account(id).key /\ EndRow(u, id).born = Account(id).born
              /\ EndRow(u, id).pos = Account(id).pos /\ Account(id) \in Row
         /\ ~(id =< chg.max) => EndRow(u, id).pos = 0 /\ EndRow(u, id).born = chg.num
<1>1. u.max \in Nat /\ chg.max \in Nat /\ chg.max =< u.max /\ \A j \in DOMAIN u.map : EndOK(u.map[j], j)
  BY DEF Finished, Tran, ThisBlock, BlockOK, Block
<1>2. id =< chg.max => Account(id) \in Row /\ Account(id).op \in Nat
  <2>1. id =< chg.max => id \in 0 .. chg.max
    BY <1>1
  <2> QED
    BY <2>1, ShapeIs, AccountIs DEF Row
<1>3. CASE id \notin Changed(u)
  <2>1. id =< chg.max
    <3>1. ~(id =< chg.max) => id \in chg.max + 1 .. u.max
      BY <1>1
    <3> QED
      BY <1>3, <3>1, MergedIs
  <2> QED
    BY <1>2, <1>3, <2>1 DEF EndRow
<1>4. CASE id \in Changed(u)
  <2>1. id \in DOMAIN u.map /\ EndOK(u.map[id], id) /\ u.map[id].row \in Row
    BY <1>1, <1>4 DEF Changed, EndOK, Item
  <2>2. CASE id =< chg.max
    <3>1. OldOK(u.map[id], id)
      BY <2>1, <2>2 DEF EndOK
    <3>2. EndRow(u, id) = u.map[id].row
      BY <1>4, <3>1 DEF EndRow, OldOK
    <3> QED
      BY <1>2, <2>1, <2>2, <3>1, <3>2 DEF OldOK
  <2>3. CASE ~(id =< chg.max)
    <3>1. EndRow(u, id) = Registered(u, u.map[id].row) /\ u.map[id].row.pos = 0
      BY <1>4, <2>1, <2>3 DEF EndRow, EndOK
    <3> QED
      BY <2>1, <2>3, <3>1, ShapeIs, RegisteredIs
  <2> QED
    BY <2>2, <2>3
<1> QED
  BY <1>3, <1>4

LEMMA PendConcat ==
  ASSUME NEW h \in Seq(Paying), NEW g \in Seq(Paying), NEW id
  PROVE  Pend(h \o g, id) = Pend(h, id) + Pend(g, id)
<1>1. PICK a, b, f : a = Amounts(h, id) /\ b = Amounts(g, id) /\ f = Amounts(h \o g, id)
  OBVIOUS
<1>2. /\ a \in Seq(Int) /\ Len(a) = Len(h) /\ b \in Seq(Int) /\ Len(b) = Len(g) /\ f \in Seq(Int) /\ Len(f) = Len(h \o g)
      /\ \A k \in 1 .. Len(h) : a[k] = IF h[k].id = id THEN h[k].amount ELSE 0
      /\ \A k \in 1 .. Len(g) : b[k] = IF g[k].id = id THEN g[k].amount ELSE 0
      /\ \A k \in 1 .. Len(h \o g) : f[k] = IF (h \o g)[k].id = id THEN (h \o g)[k].amount ELSE 0
  <2>5. h \o g \in Seq(Paying)
    BY ConcatProperties
  <2>1. PICK hg : hg = h \o g /\ hg \in Seq(Paying)
    BY <2>5
  <2>2. a \in Seq(Int) /\ Len(a) = Len(h) /\ \A k \in 1 .. Len(h) : a[k] = IF h[k].id = id THEN h[k].amount ELSE 0
    BY <1>1, PendIs
  <2>3. b \in Seq(Int) /\ Len(b) = Len(g) /\ \A k \in 1 .. Len(g) : b[k] = IF g[k].id = id THEN g[k].amount ELSE 0
    BY <1>1, PendIs
  <2>4. f \in Seq(Int) /\ Len(f) = Len(hg) /\ \A k \in 1 .. Len(hg) : f[k] = IF hg[k].id = id THEN hg[k].amount ELSE 0
    <3>1. f = Amounts(hg, id)
      BY <1>1, <2>1
    <3>2. hg \in Seq(Paying)
      BY <2>1
    <3> QED
      BY <3>1, <3>2, PendIs
  <2> QED
    BY <2>1, <2>2, <2>3, <2>4
<1>3. /\ Len(h) \in Nat /\ Len(g) \in Nat /\ Len(h \o g) = Len(h) + Len(g)
      /\ \A k \in 1 .. Len(h) + Len(g) : (h \o g)[k] = IF k =< Len(h) THEN h[k] ELSE g[k - Len(h)]
  OBVIOUS
<1>4. ASSUME NEW k \in 1 .. Len(h) + Len(g) PROVE f[k] = IF k =< Len(a) THEN a[k] ELSE b[k - Len(a)]
  <2>1. CASE k =< Len(h)
    <3>1. k \in 1 .. Len(h) /\ k \in 1 .. Len(h \o g) /\ (h \o g)[k] = h[k]
      BY <1>3, <2>1
    <3> QED
      BY <1>2, <2>1, <3>1
  <2>2. CASE ~(k =< Len(h))
    <3>1. k - Len(h) \in 1 .. Len(g) /\ k \in 1 .. Len(h \o g) /\ (h \o g)[k] = g[k - Len(h)]
      BY <1>3, <2>2
    <3> QED
      BY <1>2, <2>2, <3>1
  <2> QED
    BY <2>1, <2>2
<1>5. f = a \o b
  <2>1. a \o b \in Seq(Int) /\ Len(a \o b) = Len(f) /\ \A k \in 1 .. Len(f) : (a \o b)[k] = f[k]
    <3>1. Len(f) = Len(a) + Len(b) /\ Len(a \o b) = Len(a) + Len(b) /\ a \o b \in Seq(Int)
      <4>1. a \in Seq(Int) /\ b \in Seq(Int) /\ Len(f) = Len(a) + Len(b)
        BY <1>2, <1>3
      <4> QED
        BY <4>1
    <3>2. \A k \in 1 .. Len(a) + Len(b) : (a \o b)[k] = IF k =< Len(a) THEN a[k] ELSE b[k - Len(a)]
      BY <1>2
    <3> QED
      BY <1>2, <1>4, <3>1, <3>2
  <2> QED
    BY <1>2, <2>1, SeqEqual
<1> QED
  BY <1>1, <1>2, <1>5, SumConcat DEF Pend

(* What is issued by the contracts of the transaction u.                   *)
LEMMA StartGrows ==
  ASSUME ThisBlock, NEW u, Finished(u)
  PROVE  /\ Signed(u.smarts, chg.num) = Signed(smarts, chg.num) \cup NewContracts(u)
         /\ \A i \in Signed(smarts, chg.num) : u.smarts[i] = smarts[i] /\ smarts[i].account \in 0 .. chg.max
         /\ \A i \in NewContracts(u) : u.smarts[i].account \in chg.max + 1 .. u.max
         /\ \A id \in Nat : StartBy(u.smarts, id, chg.num) = StartBy(smarts, id, chg.num)
              + (IF \E i \in NewContracts(u) : u.smarts[i].account = id THEN StartValue * Cents ELSE 0)
         /\ \A cur \in Nat : IssuedBy(u.smarts, cur, chg.num) = IssuedBy(smarts, cur, chg.num)
              + (IF cur + 1 \in NewContracts(u) THEN StartValue * Cents ELSE 0)
<1>1. /\ chg.max \in Nat /\ chg.num \in Nat /\ 0 < chg.num /\ smarts \in Seq(Contract) /\ Len(Rows) = chg.max + 1
      /\ Len(GenesisRows) \in Nat /\ Len(GenesisRows) =< chg.max + 1
  <2>1. BlockShape /\ chg.max \in Nat /\ chg.num \in Nat /\ 0 < chg.num /\ Len(Rows) = chg.max + 1 /\ Len(state) \in Nat
    BY ShapeIs
  <2>2. smarts \in Seq(Contract) /\ Len(GenesisRows) =< Len(state) /\ Len(state) =< chg.max + 1
    BY <2>1 DEF BlockShape
  <2> QED
    BY <2>1, <2>2, GenesisIs
<1>2. /\ u.smarts \in Seq(Contract) /\ u.max \in Nat /\ Len(smarts) =< Len(u.smarts)
      /\ \A i \in 1 .. Len(smarts) : u.smarts[i] = smarts[i]
      /\ \A i \in NewContracts(u) : u.smarts[i].num = chg.num /\ u.smarts[i].account \in chg.max + 1 .. u.max
  BY DEF Finished, Tran
<1>3. Len(smarts) \in Nat /\ Len(u.smarts) \in Nat
  BY <1>1, <1>2
<1>4. /\ \A i : i \in Signed(smarts, chg.num) <=> i \in 1 .. Len(smarts) /\ 0 < smarts[i].num /\ smarts[i].num =< chg.num
      /\ \A i : i \in Signed(u.smarts, chg.num) <=> i \in 1 .. Len(u.smarts) /\ 0 < u.smarts[i].num /\ u.smarts[i].num =< chg.num
      /\ \A i \in 1 .. Len(smarts) : smarts[i].account \in Nat
  BY <1>1, <1>2, SignedIs
<1>5. \A i : i \in 1 .. Len(u.smarts) <=> i \in 1 .. Len(smarts) \/ i \in NewContracts(u)
  BY <1>2, <1>3 DEF NewContracts
<1>6. Signed(u.smarts, chg.num) = Signed(smarts, chg.num) \cup NewContracts(u)
  BY <1>1, <1>2, <1>4, <1>5
<1>7. ASSUME NEW i \in Signed(smarts, chg.num) PROVE u.smarts[i] = smarts[i] /\ smarts[i].account \in 0 .. chg.max
  <2>1. smarts[i].account < Len(Rows)
    BY ShapeIs DEF ThisBlock, BlockOK, RowsOK
  <2> QED
    BY <1>1, <1>2, <1>4, <2>1
<1>8. StartValue * Cents \in Int
  <2>1. StartValue \in Nat
    BY AccountsAssumption
  <2> QED
    BY <2>1, CentsAssumption
<1>9. ASSUME NEW id \in Nat
      PROVE  StartBy(u.smarts, id, chg.num) = StartBy(smarts, id, chg.num)
               + (IF \E i \in NewContracts(u) : u.smarts[i].account = id THEN StartValue * Cents ELSE 0)
  <2>1. CASE id =< chg.max
    <3>1. ~\E i \in NewContracts(u) : u.smarts[i].account = id
      BY <1>1, <1>2, <2>1
    <3>2. (\E i \in Signed(u.smarts, chg.num) : u.smarts[i].account = id) <=> \E i \in Signed(smarts, chg.num) : smarts[i].account = id
      BY <1>6, <1>7, <3>1
    <3>3. id < Len(GenesisRows) => Worth(GenesisRows[id + 1].coin) \in Int
      <4>1. id < Len(GenesisRows) => id + 1 \in 1 .. Len(GenesisRows)
        BY <1>1
      <4> QED
        BY <4>1, GenesisIs, CoinFacts DEF Row
    <3> QED
      BY <1>8, <3>1, <3>2, <3>3 DEF StartBy
  <2>2. CASE ~(id =< chg.max)
    <3>1. ~(id < Len(GenesisRows))
      BY <1>1, <2>2
    <3>2. ~\E i \in Signed(smarts, chg.num) : smarts[i].account = id
      BY <1>1, <1>7, <2>2
    <3>3. (\E i \in Signed(u.smarts, chg.num) : u.smarts[i].account = id) <=> \E i \in NewContracts(u) : u.smarts[i].account = id
      BY <1>6, <1>7, <3>2
    <3> QED
      BY <1>8, <3>1, <3>2, <3>3 DEF StartBy
  <2> QED
    BY <2>1, <2>2
<1>10. ASSUME NEW cur \in Nat
       PROVE  IssuedBy(u.smarts, cur, chg.num) = IssuedBy(smarts, cur, chg.num)
                + (IF cur + 1 \in NewContracts(u) THEN StartValue * Cents ELSE 0)
  <2>1. Held(GenesisRows, cur) \in Int
    BY GenesisIs, HeldIsInt
  <2>2. ~(cur + 1 \in NewContracts(u) /\ cur + 1 \in Signed(smarts, chg.num))
    BY <1>3, <1>4 DEF NewContracts
  <2>3. cur + 1 \in Signed(u.smarts, chg.num) <=> cur + 1 \in Signed(smarts, chg.num) \/ cur + 1 \in NewContracts(u)
    BY <1>6
  <2> QED
    BY <1>8, <2>1, <2>2, <2>3 DEF IssuedBy
<1> QED
  BY <1>2, <1>6, <1>7, <1>9, <1>10

Commits(u, c) ==
  /\ c \in Block /\ c.on /\ c.num = chg.num /\ c.map = Merged(u) /\ c.max = u.max /\ c.hist = chg.hist \o u.hist
LEMMA CommitRows ==
  ASSUME ThisBlock, NEW u, Finished(u), NEW c, Commits(u, c)
  PROVE  /\ RowsOf(state, c) = EndSheet(u) /\ EndSheet(u) \in Seq(Row) /\ Len(EndSheet(u)) = u.max + 1
         /\ \A id \in 0 .. u.max : AccountOf(state, c, id) = EndRow(u, id)
<1>1. u.max \in Nat /\ c.max = u.max /\ c.map = Merged(u)
  BY DEF Commits, Finished, Tran
<1>2. ASSUME NEW id \in 0 .. u.max PROVE AccountOf(state, c, id) = EndRow(u, id)
  <2>1. CASE id \in DOMAIN c.map
    BY <1>1, <2>1, MergedIs DEF AccountOf
  <2>2. CASE id \notin DOMAIN c.map
    <3>1. id \notin Changed(u) /\ id \notin DOMAIN chg.map
      BY <1>1, <2>2, MergedIs
    <3> QED
      BY <2>2, <3>1 DEF AccountOf, EndRow, Account
  <2> QED
    BY <2>1, <2>2
<1>3. \A i \in 1 .. u.max + 1 : i - 1 \in 0 .. u.max
  BY <1>1
<1>4. RowsOf(state, c) = EndSheet(u)
  BY <1>1, <1>2, <1>3 DEF RowsOf, EndSheet
<1>5. EndSheet(u) \in [1 .. u.max + 1 -> Row]
  BY <1>3, KeptIs DEF EndSheet
<1>6. u.max + 1 \in Nat
  BY <1>1
<1>7. EndSheet(u) \in Seq(Row) /\ Len(EndSheet(u)) = u.max + 1
  BY <1>5, <1>6, SeqOf
<1> QED
  BY <1>2, <1>4, <1>7

(* The block with the transaction u in it.                                 *)
Adds(u, dn) ==
  /\ dn \in Seq(Done)
  /\ \A i \in DOMAIN dn :
       \/ i \in DOMAIN done /\ dn[i] = done[i]
       \/ dn[i].num = chg.num /\ (Pays(dn[i].tx) => dn[i].tx.from \in 0 .. chg.max /\ dn[i].tx.op < EndRow(u, dn[i].tx.from).op)
Remakes(u, rem) ==
  rem \in BOOLEAN /\ (remade => rem) /\ ((\E id \in Changed(u) \cap DOMAIN chg.map : chg.map[id].new) => rem)

LEMMA CommitHeld ==
  ASSUME ThisBlock, done \in Seq(Done), NEW u, Finished(u), NEW c, Commits(u, c), NEW dn, Adds(u, dn)
  PROVE  RowsOK(u.smarts, dn, chg.num, RowsOf(state, c))
<1>1. PICK x, y, sm : x = Rows /\ y = EndSheet(u) /\ sm = u.smarts
  OBVIOUS
<1>2. RowsOK(smarts, done, chg.num, x) /\ x \in Seq(Row) /\ Len(x) = chg.max + 1 /\ chg.max \in Nat
      /\ \A i \in 1 .. chg.max + 1 : x[i] = Account(i - 1)
  BY <1>1, ShapeIs DEF ThisBlock, BlockOK, RowsOK
<1>3. y \in Seq(Row) /\ Len(y) = u.max + 1 /\ RowsOf(state, c) = y /\ u.max \in Nat /\ chg.max =< u.max
      /\ \A i \in 1 .. u.max + 1 : y[i] = EndRow(u, i - 1)
  <2>1. u.max \in Nat /\ chg.max =< u.max
    BY DEF Finished, Tran
  <2>2. y \in Seq(Row) /\ Len(y) = u.max + 1 /\ RowsOf(state, c) = y
    BY <1>1, CommitRows
  <2> QED
    BY <1>1, <2>1, <2>2 DEF EndSheet
<1>4. Len(GenesisRows) \in Nat /\ Len(GenesisRows) =< chg.max + 1
  BY <1>2, GenesisIs DEF RowsOK
<1>5. ASSUME NEW i \in 1 .. chg.max + 1
      PROVE  i \in 1 .. u.max + 1 /\ y[i].cur = x[i].cur /\ x[i].op =< y[i].op /\ x[i].op \in Nat /\ y[i].op \in Nat
  <2>1. i \in 1 .. u.max + 1 /\ i - 1 \in 0 .. u.max /\ i - 1 =< chg.max /\ y[i] \in Row /\ x[i] \in Row
    BY <1>2, <1>3, ElementOfSeq
  <2>2. x[i].op \in Nat /\ y[i].op \in Nat
    BY <2>1 DEF Row
  <2>3. x[i] = Account(i - 1) /\ y[i] = EndRow(u, i - 1)
    BY <1>2, <1>3, <2>1
  <2>4. Account(i - 1).op =< EndRow(u, i - 1).op /\ EndRow(u, i - 1).cur = Account(i - 1).cur
    BY <2>1, KeptIs
  <2> QED
    BY <2>1, <2>2, <2>3, <2>4
<1>6. \A i \in 1 .. Len(GenesisRows) : y[i].cur = GenesisRows[i].cur
  <2>1. \A i \in 1 .. Len(GenesisRows) : i \in 1 .. chg.max + 1
    BY <1>2, <1>4
  <2> QED
    BY <1>2, <1>5, <2>1 DEF RowsOK
<1>7. ASSUME NEW cur \in Nat PROVE Held(y, cur) = IssuedBy(sm, cur, chg.num)
  <2>1. Held(y, cur) = Held(x, cur) + (IF cur + 1 \in NewContracts(u) THEN StartValue * Cents ELSE 0)
    BY <1>1 DEF Finished
  <2>2. Held(x, cur) = IssuedBy(smarts, cur, chg.num)
    BY <1>2 DEF RowsOK
  <2> QED
    BY <1>1, <2>1, <2>2, StartGrows
<1>8. ASSUME NEW i \in Signed(sm, chg.num) PROVE sm[i].account < Len(y)
  <2>1. i \in Signed(smarts, chg.num) \/ i \in NewContracts(u)
    BY <1>1, StartGrows
  <2>2. CASE i \in Signed(smarts, chg.num)
    <3>1. sm[i].account \in 0 .. chg.max
      BY <1>1, <2>2, StartGrows
    <3> QED
      BY <1>2, <1>3, <3>1
  <2>3. CASE i \in NewContracts(u)
    <3>1. sm[i].account \in chg.max + 1 .. u.max
      BY <1>1, <2>3, StartGrows
    <3> QED
      BY <1>2, <1>3, <3>1
  <2> QED
    BY <2>1, <2>2, <2>3
<1>9. ASSUME NEW i \in DOMAIN dn, dn[i].num =< chg.num, Pays(dn[i].tx)
      PROVE  dn[i].tx.from < Len(y) /\ dn[i].tx.op < y[dn[i].tx.from + 1].op
  <2>1. dn[i].tx.from \in Nat /\ dn[i].tx.op \in Nat
    BY DoneIs DEF Adds
  <2>2. CASE i \in DOMAIN done /\ dn[i] = done[i]
    <3>1. dn[i].tx.from < Len(x) /\ dn[i].tx.op < x[dn[i].tx.from + 1].op
      BY <1>2, <1>9, <2>2 DEF RowsOK
    <3>2. PICK k : k = dn[i].tx.from + 1
      OBVIOUS
    <3>3. k \in 1 .. chg.max + 1
      BY <1>2, <2>1, <3>1, <3>2
    <3>4. dn[i].tx.op < x[k].op /\ x[k].op =< y[k].op /\ x[k].op \in Nat /\ y[k].op \in Nat
      BY <1>5, <3>1, <3>2, <3>3
    <3>5. dn[i].tx.op < y[k].op
      BY <2>1, <3>4
    <3>6. dn[i].tx.from < Len(y)
      BY <1>2, <1>3, <2>1, <3>1
    <3> QED
      BY <3>2, <3>5, <3>6
  <2>3. CASE dn[i].tx.from \in 0 .. chg.max /\ dn[i].tx.op < EndRow(u, dn[i].tx.from).op
    <3>1. dn[i].tx.from + 1 \in 1 .. u.max + 1 /\ (dn[i].tx.from + 1) - 1 = dn[i].tx.from /\ dn[i].tx.from < Len(y)
      BY <1>2, <1>3, <2>3
    <3> QED
      BY <1>3, <2>3, <3>1
  <2> QED
    BY <1>9, <2>2, <2>3 DEF Adds
<1> QED
  BY <1>1, <1>2, <1>3, <1>4, <1>6, <1>7, <1>8, <1>9 DEF RowsOK

LEMMA CommitMap ==
  ASSUME ThisBlock, NEW u, Finished(u), NEW rem, Remakes(u, rem), NEW m, m = Merged(u), NEW id \in DOMAIN m
  PROVE  LET e == m[id] IN
         IF id < Len(state)
           THEN /\ ~e.new /\ e.back = state[id + 1] /\ e.row.cur = state[id + 1].cur /\ e.row.key = state[id + 1].key
                /\ e.row.born = state[id + 1].born /\ e.row.pos = state[id + 1].pos
           ELSE e.back = Blank /\ e.row.pos = 0 /\ e.row.born = chg.num /\ (e.new \/ rem)
<1>1. /\ chg.max \in Nat /\ u.max \in Nat /\ id \in 0 .. u.max /\ Len(state) \in Nat /\ Len(state) =< chg.max + 1
      /\ \A j \in DOMAIN u.map : EndOK(u.map[j], j)
  <2>1. u.max \in Nat /\ DOMAIN m \subseteq 0 .. u.max
    BY MergedIs
  <2>2. BlockShape /\ chg.max \in Nat /\ Len(state) \in Nat
    BY ShapeIs
  <2> QED
    BY <2>1, <2>2 DEF Finished, BlockShape
<1>2. PICK e : e = m[id]
  OBVIOUS
<1>3. id \in DOMAIN chg.map => IF id < Len(state)
        THEN /\ ~chg.map[id].new /\ chg.map[id].back = state[id + 1] /\ chg.map[id].row.cur = state[id + 1].cur
             /\ chg.map[id].row.key = state[id + 1].key
             /\ chg.map[id].row.born = state[id + 1].born /\ chg.map[id].row.pos = state[id + 1].pos
        ELSE chg.map[id].back = Blank /\ chg.map[id].row.pos = 0 /\ chg.map[id].row.born = chg.num /\ (chg.map[id].new \/ remade)
  BY DEF ThisBlock, BlockOK
<1>4. CASE id \notin Changed(u)
  <2>1. id \in DOMAIN chg.map /\ m[id] = chg.map[id]
    BY <1>4, MergedIs, ZenonT(60)
  <2> QED
    BY <1>3, <2>1 DEF Remakes
<1>5. CASE id \in Changed(u)
  <2>1. /\ e.row = EndRow(u, id) /\ e.back = u.map[id].back /\ e.new = u.map[id].new
        /\ id \in DOMAIN u.map /\ EndOK(u.map[id], id)
    <3>1. id \in DOMAIN u.map /\ EndOK(u.map[id], id)
      BY <1>1, <1>5 DEF Changed
    <3>2. \A j \in DOMAIN m : m[j].row = EndRow(u, j)
      BY MergedIs
    <3>4. u.map[id] \in Item
      BY <3>1 DEF EndOK
    <3>5. m[id] = IF u.map[id].new THEN [u.map[id] EXCEPT !.row = Registered(u, u.map[id].row)] ELSE u.map[id]
      BY <1>5 DEF Merged
    <3>6. m[id].back = u.map[id].back /\ m[id].new = u.map[id].new
      BY <3>4, <3>5 DEF Item
    <3>3. e.row = EndRow(u, id) /\ e.back = u.map[id].back /\ e.new = u.map[id].new
      BY <1>2, <3>2, <3>6
    <3> QED
      BY <3>1, <3>3
  <2>2. CASE ~(id =< chg.max)
    <3>1. EndRow(u, id).pos = 0 /\ EndRow(u, id).born = chg.num
      BY <1>1, <2>2, KeptIs
    <3>2. ~(id < Len(state))
      BY <1>1, <2>2
    <3> QED
      BY <1>2, <2>1, <2>2, <3>1, <3>2 DEF EndOK
  <2>3. CASE id =< chg.max
    <3>1. /\ e.row.cur = Account(id).cur /\ e.row.key = Account(id).key
          /\ e.row.born = Account(id).born /\ e.row.pos = Account(id).pos
      BY <1>1, <2>1, <2>3, KeptIs
    <3>2. ~e.new /\ e.back = BackOf(id)
      BY <2>1, <2>3 DEF EndOK, OldOK
    <3>3. CASE id \in DOMAIN chg.map
      <4>1. Account(id) = chg.map[id].row /\ BackOf(id) = chg.map[id].back
        BY <3>3 DEF Account, BackOf
      <4>2. id \in Changed(u) \cap DOMAIN chg.map
        BY <1>5, <3>3
      <4>3. ~(id < Len(state)) => rem
        BY <1>3, <3>3, <4>2 DEF Remakes
      <4> QED
        BY <1>2, <1>3, <3>1, <3>2, <3>3, <4>1, <4>3
    <3>4. CASE id \notin DOMAIN chg.map
      <4>1. Account(id) = state[id + 1] /\ BackOf(id) = state[id + 1]
        BY <3>4 DEF Account, BackOf
      <4>2. id < Len(state)
        <5>1. Len(state) .. chg.max \subseteq DOMAIN chg.map
          BY DEF ThisBlock, BlockOK
        <5> QED
          BY <1>1, <2>3, <3>4, <5>1
      <4> QED
        BY <1>2, <3>1, <3>2, <4>1, <4>2
    <3> QED
      BY <3>3, <3>4
  <2> QED
    BY <2>2, <2>3
<1> QED
  BY <1>4, <1>5

LEMMA StartIsInt == ASSUME NEW sm, NEW id \in Nat, NEW n PROVE StartBy(sm, id, n) \in Int
<1>1. id < Len(GenesisRows) => Worth(GenesisRows[id + 1].coin) \in Int
  <2>1. id < Len(GenesisRows) => id + 1 \in 1 .. Len(GenesisRows)
    BY GenesisIs
  <2> QED
    BY <2>1, GenesisIs, CoinFacts DEF Row
<1>2. StartValue * Cents \in Int
  <2>1. StartValue \in Nat
    BY AccountsAssumption
  <2> QED
    BY <2>1, CentsAssumption
<1> QED
  BY <1>1, <1>2 DEF StartBy

LEMMA CommitIs ==
  ASSUME ThisBlock, done \in Seq(Done), ListOK(hist),
         \A id \in StartHistory .. Len(state) - 1 : state[id + 1].pos \in 0 .. Len(hist),
         NEW u, Finished(u), NEW c, Commits(u, c), NEW dn, Adds(u, dn), NEW rem, Remakes(u, rem)
  PROVE  BlockOK(state, u.smarts, dn, rem, hist, c)
<1>1. PICK m, y, sm : m = Merged(u) /\ y = EndSheet(u) /\ sm = u.smarts
  OBVIOUS
<1>2. /\ BlockShape /\ chg.max \in Nat /\ u.max \in Nat /\ chg.max =< u.max /\ Len(state) \in Nat /\ Len(state) =< chg.max + 1
      /\ sm \in Seq(Contract) /\ Len(smarts) \in Nat /\ u.hist \in Seq(Paying) /\ chg.hist \in Seq(Paying)
      /\ chg.num \in Nat /\ 0 < chg.num /\ StartHistory \in Nat
  <2>1. BlockShape /\ chg.max \in Nat /\ Len(state) \in Nat /\ chg.num \in Nat /\ 0 < chg.num
    BY ShapeIs
  <2>2. Len(state) =< chg.max + 1 /\ smarts \in Seq(Contract) /\ chg.hist \in Seq(Paying)
    BY <2>1 DEF BlockShape, Block
  <2>3. u.max \in Nat /\ chg.max =< u.max /\ sm \in Seq(Contract) /\ u.hist \in Seq(Paying)
    BY <1>1 DEF Finished, Tran
  <2>4. StartHistory \in Nat
    BY AccountsAssumption
  <2> QED
    BY <2>1, <2>2, <2>3, <2>4
<1>3. c \in Block /\ c.on /\ c.num = chg.num /\ c.map = m /\ c.max = u.max /\ c.hist = chg.hist \o u.hist
  BY <1>1 DEF Commits
<1>4. /\ DOMAIN m \subseteq 0 .. u.max /\ Len(state) .. u.max \subseteq DOMAIN m
      /\ DOMAIN m = DOMAIN chg.map \cup Changed(u) /\ chg.max + 1 .. u.max \subseteq Changed(u)
  BY <1>1, MergedIs
<1>5. state \in Seq(Row) /\ Len(GenesisRows) =< Len(state) /\ Len(state) =< c.max + 1
  BY <1>2, <1>3 DEF BlockShape
<1>6. RowsOK(sm, dn, c.num, RowsOf(state, c))
  BY <1>1, <1>3, CommitHeld
<1>7. \A i \in DOMAIN sm : sm[i].num = c.num => sm[i].account \in DOMAIN c.map
  <2>1. ASSUME NEW i \in DOMAIN sm, sm[i].num = chg.num PROVE sm[i].account \in DOMAIN m
    <3>1. i \in Signed(sm, chg.num)
      BY <1>2, <2>1 DEF Signed
    <3>2. i \in Signed(smarts, chg.num) \/ i \in NewContracts(u)
      BY <1>1, <3>1, StartGrows
    <3>3. CASE i \in Signed(smarts, chg.num)
      <4>1. sm[i] = smarts[i] /\ i \in DOMAIN smarts
        BY <1>1, <3>3, StartGrows DEF Signed
      <4>2. smarts[i].account \in DOMAIN chg.map
        BY <2>1, <4>1 DEF ThisBlock, BlockOK
      <4> QED
        BY <1>4, <4>1, <4>2
    <3>4. CASE i \in NewContracts(u)
      <4>1. sm[i].account \in chg.max + 1 .. u.max
        BY <1>1, <3>4, StartGrows
      <4> QED
        BY <1>4, <4>1
    <3> QED
      BY <3>2, <3>3, <3>4
  <2> QED
    BY <1>3, <2>1
<1>8. ASSUME NEW k \in 1 .. Len(c.hist) PROVE c.hist[k].id \in DOMAIN m /\ StartHistory =< c.hist[k].id
  <2>1. /\ Len(chg.hist) \in Nat /\ Len(u.hist) \in Nat /\ Len(chg.hist \o u.hist) = Len(chg.hist) + Len(u.hist)
        /\ \A j \in 1 .. Len(chg.hist) + Len(u.hist) :
             (chg.hist \o u.hist)[j] = IF j =< Len(chg.hist) THEN chg.hist[j] ELSE u.hist[j - Len(chg.hist)]
    <3>1. chg.hist \in Seq(Paying) /\ u.hist \in Seq(Paying)
      BY <1>2
    <3> QED
      BY <3>1, ConcatProperties, LenProperties
  <2>2. CASE k =< Len(chg.hist)
    <3>1. k \in 1 .. Len(chg.hist) /\ c.hist[k] = chg.hist[k]
      BY <1>3, <2>1, <2>2
    <3>2. chg.hist[k].id \in DOMAIN chg.map /\ StartHistory =< chg.hist[k].id
      BY <3>1 DEF ThisBlock, BlockOK
    <3> QED
      BY <1>4, <3>1, <3>2
  <2>3. CASE ~(k =< Len(chg.hist))
    <3>0. Len(c.hist) = Len(chg.hist) + Len(u.hist)
      BY <1>3, <2>1
    <3>3. PICK a, b : a = Len(chg.hist) /\ b = Len(u.hist)
      OBVIOUS
    <3>4. k \in 1 .. a + b /\ a \in Nat /\ b \in Nat /\ ~(k =< a)
      BY <2>1, <2>3, <3>0, <3>3
    <3>5. k - a \in 1 .. b
      BY <3>4
    <3>6. (chg.hist \o u.hist)[k] = u.hist[k - a]
      BY <2>1, <3>3, <3>4
    <3>1. k - Len(chg.hist) \in 1 .. Len(u.hist) /\ c.hist[k] = u.hist[k - Len(chg.hist)]
      BY <1>3, <3>3, <3>5, <3>6
    <3>2. \A j \in 1 .. Len(u.hist) : u.hist[j].id \in Changed(u) /\ StartHistory =< u.hist[j].id
      BY DEF Finished
    <3> QED
      BY <1>4, <3>1, <3>2
  <2> QED
    BY <2>2, <2>3
<1>9. ASSUME NEW id \in StartHistory .. u.max
      PROVE  Worth(AccountOf(state, c, id).coin) = StartBy(sm, id, chg.num) + Listed(hist, PosOf(state, id)) + Pend(c.hist, id)
  <2>1. id \in Nat /\ id \in 0 .. u.max
    BY <1>2
  <2>2. PICK extra : extra = IF \E i \in NewContracts(u) : u.smarts[i].account = id THEN StartValue * Cents ELSE 0
    OBVIOUS
  <2>3. extra \in Int
    <3>1. StartValue \in Nat
      BY AccountsAssumption
    <3> QED
      BY <2>2, <3>1, CentsAssumption
  <2>4. AccountOf(state, c, id) = EndRow(u, id)
    BY <2>1, CommitRows
  <2>5. Worth(EndRow(u, id).coin) = WorthBefore(id) + Pend(u.hist, id) + extra
    BY <2>2 DEF Finished
  <2>6. StartBy(sm, id, chg.num) = StartBy(smarts, id, chg.num) + extra
    BY <1>1, <2>1, <2>2, StartGrows
  <2>7. Pend(c.hist, id) = Pend(chg.hist, id) + Pend(u.hist, id) /\ Pend(chg.hist, id) \in Int /\ Pend(u.hist, id) \in Int
    BY <1>2, <1>3, PendConcat, PendIs
  <2>8. Listed(hist, PosOf(state, id)) \in Int
    <3>1. PosOf(state, id) \in 0 .. Len(hist)
      <4>1. CASE id < Len(state)
        BY <1>2, <4>1 DEF PosOf
      <4>2. CASE ~(id < Len(state))
        <5>1. Len(hist) \in Nat
          BY DEF ListOK
        <5> QED
          BY <4>2, <5>1 DEF PosOf
      <4> QED
        BY <4>1, <4>2
    <3> QED
      BY <3>1, ListIs
  <2>9. StartBy(smarts, id, chg.num) \in Int
    BY <2>1, StartIsInt
  <2>10. WorthBefore(id) = StartBy(smarts, id, chg.num) + Listed(hist, PosOf(state, id)) + Pend(chg.hist, id)
    <3>1. CASE id =< chg.max
      <4>1. id \in StartHistory .. chg.max
        BY <1>2, <3>1
      <4>2. Worth(AccountOf(state, chg, id).coin) = StartBy(smarts, id, chg.num) + Listed(hist, PosOf(state, id)) + Pend(chg.hist, id)
        BY <4>1 DEF ThisBlock, BlockOK
      <4> QED
        BY <3>1, <4>2, ShapeIs DEF WorthBefore
    <3>2. CASE ~(id =< chg.max)
      <4>1. ~(id < Len(state)) /\ ~(id < Len(GenesisRows))
        BY <1>2, <1>5, <2>1, <3>2, GenesisIs
      <4>2. PosOf(state, id) = 0 /\ Listed(hist, 0) = 0
        BY <4>1, ListIs DEF PosOf
      <4>3. ~\E i \in Signed(smarts, chg.num) : smarts[i].account = id
        <5>1. \A i \in Signed(smarts, chg.num) : smarts[i].account \in 0 .. chg.max
          BY StartGrows
        <5> QED
          BY <1>2, <3>2, <5>1
      <4>4. StartBy(smarts, id, chg.num) = 0
        BY <4>1, <4>3 DEF StartBy
      <4>5. Pend(chg.hist, id) = 0
        <5>1. \A k \in 1 .. Len(chg.hist) : chg.hist[k].id \in 0 .. chg.max
          BY DEF ThisBlock, BlockOK
        <5>2. \A k \in 1 .. Len(chg.hist) : chg.hist[k].id # id
          BY <1>2, <3>2, <5>1
        <5> QED
          BY <1>2, <5>2, PendNone
      <4> QED
        BY <3>2, <4>2, <4>4, <4>5 DEF WorthBefore
    <3> QED
      BY <3>1, <3>2
  <2>11. Worth(EndRow(u, id).coin) = StartBy(sm, id, chg.num) + Listed(hist, PosOf(state, id)) + Pend(c.hist, id)
    BY <2>3, <2>5, <2>6, <2>7, <2>8, <2>9, <2>10
  <2> QED
    BY <2>4, <2>11
<1>10. \A id \in DOMAIN m :
         LET e == m[id] IN
         IF id < Len(state)
           THEN /\ ~e.new /\ e.back = state[id + 1] /\ e.row.cur = state[id + 1].cur /\ e.row.key = state[id + 1].key
                /\ e.row.born = state[id + 1].born /\ e.row.pos = state[id + 1].pos
           ELSE e.back = Blank /\ e.row.pos = 0 /\ e.row.born = chg.num /\ (e.new \/ rem)
  BY <1>1, CommitMap
<1> QED
  BY <1>1, <1>2, <1>3, <1>4, <1>5, <1>6, <1>7, <1>8, <1>9, <1>10 DEF BlockOK

(* A transaction that fails leaves the block but for a count.              *)
LEMMA CommitFail ==
  ASSUME NEW st, NEW sm, NEW dn, NEW rem, NEW h, NEW b, BlockOK(st, sm, dn, rem, h, b),
         NEW c \in Block, c.on, c.num = b.num, c.map = b.map, c.max = b.max, c.hist = b.hist
  PROVE  BlockOK(st, sm, dn, rem, h, c)
<1>1. RowsOf(st, c) = RowsOf(st, b) /\ \A id : AccountOf(st, c, id) = AccountOf(st, b, id)
  BY DEF RowsOf, AccountOf
<1> QED
  BY <1>1 DEF BlockOK
-----------------------------------------------------------------------------
(* A block ends.                                                           *)
Chain(e) ==
  /\ LogOK(log, e, LastNum, smarts, done, remade, hist)
  /\ FileOK(state, At(log, e, LastNum), LastNum, smarts, remade, hist)
  /\ smarts \in Seq(Contract) /\ done \in Seq(Done)
Finish(c, s, lr, st, lg) ==
  /\ c.num = LastNum + 1 /\ BlockOK(state, smarts, done, remade, hist, c)
  /\ Saved(hist, c, s) /\ RowsUpTo(c, c.max + 1, lr)
  /\ st = [i \in 1 .. c.max + 1 |-> IF i - 1 \in DOMAIN c.map THEN s.map[i - 1].row ELSE state[i]]
  /\ lg = log \o lr \o << [num |-> c.num, id |-> 0, mode |-> "sum", val |-> Blank, hash |-> CalcHash(st)] >>

LEMMA ThreeIs ==
  ASSUME NEW S, NEW a \in Seq(S), NEW b \in Seq(S), NEW r \in S, NEW g, g = a \o b \o << r >>
  PROVE  /\ g \in Seq(S) /\ Len(a) \in Nat /\ Len(b) \in Nat /\ Len(g) = Len(a) + Len(b) + 1
         /\ \A j \in 1 .. Len(a) : g[j] = a[j]
         /\ \A j \in 1 .. Len(b) : g[Len(a) + j] = b[j]
         /\ g[Len(g)] = r
<1>1. PICK f : f = a \o b
  OBVIOUS
<1>2. f \in Seq(S) /\ Len(f) = Len(a) + Len(b) /\ Len(a) \in Nat /\ Len(b) \in Nat
      /\ \A i \in 1 .. Len(a) + Len(b) : f[i] = IF i =< Len(a) THEN a[i] ELSE b[i - Len(a)]
  BY <1>1, ConcatProperties, LenProperties
<1>3. << r >> \in Seq(S) /\ Len(<< r >>) = 1 /\ << r >>[1] = r
  OBVIOUS
<1>4. g \in Seq(S) /\ Len(g) = Len(f) + 1
      /\ \A i \in 1 .. Len(f) + 1 : g[i] = IF i =< Len(f) THEN f[i] ELSE << r >>[i - Len(f)]
  BY <1>1, <1>2, <1>3, ConcatProperties
<1>5. Len(g) = Len(a) + Len(b) + 1
  BY <1>2, <1>4
<1>6. ASSUME NEW j \in 1 .. Len(a) PROVE g[j] = a[j]
  <2>1. j \in 1 .. Len(f) + 1 /\ j =< Len(f) /\ j \in 1 .. Len(a) + Len(b) /\ j =< Len(a)
    BY <1>2
  <2> QED
    BY <1>2, <1>4, <2>1
<1>7. ASSUME NEW j \in 1 .. Len(b) PROVE g[Len(a) + j] = b[j]
  <2>1. PICK k : k = Len(a) + j
    OBVIOUS
  <2>2. k \in 1 .. Len(f) + 1 /\ k =< Len(f) /\ k \in 1 .. Len(a) + Len(b) /\ ~(k =< Len(a)) /\ k - Len(a) = j
    BY <1>2, <2>1
  <2> QED
    BY <1>2, <1>4, <2>1, <2>2
<1>8. g[Len(g)] = r
  <2>1. Len(f) + 1 \in 1 .. Len(f) + 1 /\ ~(Len(f) + 1 =< Len(f)) /\ (Len(f) + 1) - Len(f) = 1
    BY <1>2
  <2>2. g[Len(f) + 1] = << r >>[1]
    BY <1>4, <2>1
  <2> QED
    BY <1>3, <1>4, <2>2
<1> QED
  BY <1>2, <1>4, <1>5, <1>6, <1>7, <1>8

LEMMA ExplGrows ==
  ASSUME NEW h, ListOK(h), NEW g, ListOK(g), Longer(h, g), NEW sm, NEW id, NEW row, NEW n, Expl(h, sm, id, row, n)
  PROVE  Expl(g, sm, id, row, n)
<1>1. Len(h) \in Nat /\ Len(g) \in Nat /\ Len(h) =< Len(g) /\ row.pos \in 0 .. Len(h)
  BY DEF ListOK, Longer, Expl
<1>2. row.pos \in 0 .. Len(g)
  BY <1>1
<1>3. Listed(g, row.pos) = Listed(h, row.pos) /\ (OwnList(g, id, row.pos) <=> OwnList(h, id, row.pos))
  BY <1>1, ListGrows
<1> QED
  BY <1>2, <1>3 DEF Expl

LEMMA WroteSame ==
  ASSUME NEW lg, NEW lo, NEW hi, NEW n, NEW w, NEW x, NEW sm, NEW rem, Wrote(lg, lo, hi, n, w, x, sm, rem),
         NEW g, \A j \in lo .. hi : g[j] = lg[j]
  PROVE  Wrote(g, lo, hi, n, w, x, sm, rem)
<1>1. \A i \in 1 .. Len(x) : (\A j \in lo .. hi : g[j].id # i - 1) <=> \A j \in lo .. hi : lg[j].id # i - 1
  OBVIOUS
<1>2. \A i \in 1 .. Len(x) : (\A j \in lo .. hi : g[j].id # i - 1) => IF i =< Len(w) THEN x[i] = w[i] ELSE x[i].coin = NoCoin
  BY <1>1 DEF Wrote
<1>3. ~rem => \A i \in Len(w) + 1 .. Len(x) : \E j \in lo .. hi : g[j].id = i - 1 /\ g[j].mode = "new"
  BY DEF Wrote
<1>4. \A i \in DOMAIN sm : sm[i].num = n => \E j \in lo .. hi : g[j].id = sm[i].account
  BY DEF Wrote
<1>5. ASSUME NEW j \in lo .. hi
      PROVE  /\ g[j].id < Len(x) /\ g[j].mode \in {"old", "new"}
             /\ g[j].mode = "new" => Len(w) =< g[j].id
             /\ g[j].mode = "old" =>
                  IF g[j].id < Len(w) THEN w[g[j].id + 1] = [g[j].val EXCEPT !.pos = 0] ELSE g[j].val.coin = NoCoin
  <2>1. g[j] = lg[j]
    OBVIOUS
  <2> QED
    BY <2>1 DEF Wrote
<1>6. \A i, j \in lo .. hi : g[i].id = g[j].id => i = j
  BY DEF Wrote
<1>7. Len(w) =< Len(x) /\ \A i \in 1 .. Len(w) : x[i].cur = w[i].cur /\ x[i].key = w[i].key /\ x[i].born = w[i].born
  BY DEF Wrote
<1> QED
  BY <1>2, <1>3, <1>4, <1>5, <1>6, <1>7 DEF Wrote

LEMMA ChainIs ==
  ASSUME NEW e, Chain(e)
  PROVE  /\ log \in Seq(LogRow) /\ LastNum \in Nat /\ Len(log) \in Nat /\ e \in [0 .. LastNum -> 0 .. Len(log)]
         /\ e[LastNum] = Len(log) /\ \A j \in 1 .. Len(log) : log[j] \in LogRow /\ log[j].num \in Nat /\ log[j].num =< LastNum
         /\ \A n \in 0 .. LastNum : /\ At(log, e, n) \in Seq(Row) /\ Len(At(log, e, n)) \in Nat
                                    /\ Len(GenesisRows) =< Len(At(log, e, n))
                                    /\ \A i \in 1 .. Len(At(log, e, n)) : At(log, e, n)[i] \in Row
         /\ state \in Seq(Row) /\ Len(state) \in Nat /\ \A i \in 1 .. Len(state) : state[i] \in Row
         /\ ListOK(hist) /\ Len(hist) \in Nat
<1>1. Ends(log, e, LastNum)
  BY DEF Chain, LogOK
<1>2. /\ log \in Seq(LogRow) /\ LastNum \in Nat /\ Len(log) \in Nat /\ e \in [0 .. LastNum -> 0 .. Len(log)] /\ e[LastNum] = Len(log)
  BY <1>1 DEF Ends
<1>3. ASSUME NEW j \in 1 .. Len(log) PROVE log[j] \in LogRow /\ log[j].num \in Nat /\ log[j].num =< LastNum
  <2>1. log[j] \in LogRow
    BY <1>2, ElementOfSeq
  <2>2. j =< e[LastNum] /\ LastNum \in 0 .. LastNum
    BY <1>2
  <2>3. log[j].num =< LastNum
    BY <1>1, <2>2 DEF Ends
  <2> QED
    BY <2>1, <2>3 DEF LogRow
<1>4. ASSUME NEW n \in 0 .. LastNum
      PROVE  /\ At(log, e, n) \in Seq(Row) /\ Len(At(log, e, n)) \in Nat /\ Len(GenesisRows) =< Len(At(log, e, n))
             /\ \A i \in 1 .. Len(At(log, e, n)) : At(log, e, n)[i] \in Row
  <2>1. At(log, e, n) \in Seq(Row) /\ Len(GenesisRows) =< Len(At(log, e, n))
    BY DEF Chain, LogOK, RowsOK
  <2> QED
    BY <2>1, ElementOfSeq, LenProperties
<1>5. state \in Seq(Row) /\ ListOK(hist)
  BY DEF Chain, FileOK
<1>6. Len(state) \in Nat /\ Len(hist) \in Nat /\ \A i \in 1 .. Len(state) : state[i] \in Row
  BY <1>5, ElementOfSeq DEF ListOK
<1> QED
  BY <1>2, <1>3, <1>4, <1>5, <1>6

LEMMA FinishRows ==
  ASSUME NEW e, Chain(e), NEW c, NEW s, NEW lr, NEW st, NEW lg, Finish(c, s, lr, st, lg)
  PROVE  /\ st \in Seq(Row) /\ Len(st) = c.max + 1 /\ c.max \in Nat /\ Len(state) =< c.max + 1
         /\ \A i \in 1 .. c.max + 1 :
              /\ st[i] \in Row /\ st[i] = [RowsOf(state, c)[i] EXCEPT !.pos = st[i].pos] /\ RowsOf(state, c)[i] \in Row
              /\ i - 1 \in DOMAIN c.map => st[i] = s.map[i - 1].row /\ RowsOf(state, c)[i] = c.map[i - 1].row
              /\ i - 1 \notin DOMAIN c.map => i \in 1 .. Len(state) /\ st[i] = state[i]
         /\ \A i \in 1 .. Len(state) : st[i].cur = state[i].cur /\ st[i].key = state[i].key /\ st[i].born = state[i].born
<1>1. c.max \in Nat /\ Len(state) =< c.max + 1 /\ c.map \in Maps /\ Len(state) .. c.max \subseteq DOMAIN c.map /\ Len(state) \in Nat
  BY ChainIs DEF Finish, BlockOK, Block
<1>2. s \in Saves(DOMAIN c.map) /\ \A id \in DOMAIN c.map : s.map[id].row = [c.map[id].row EXCEPT !.pos = s.map[id].row.pos]
  BY DEF Finish, Saved
<1>3. ASSUME NEW i \in 1 .. c.max + 1
      PROVE  /\ st[i] \in Row /\ st[i] = [RowsOf(state, c)[i] EXCEPT !.pos = st[i].pos] /\ RowsOf(state, c)[i] \in Row
             /\ i - 1 \in DOMAIN c.map => st[i] = s.map[i - 1].row /\ RowsOf(state, c)[i] = c.map[i - 1].row
             /\ i - 1 \notin DOMAIN c.map => i \in 1 .. Len(state) /\ st[i] = state[i]
  <2>1. st[i] = IF i - 1 \in DOMAIN c.map THEN s.map[i - 1].row ELSE state[i]
    BY DEF Finish
  <2>2. RowsOf(state, c)[i] = AccountOf(state, c, i - 1)
    BY DEF RowsOf
  <2>3. CASE i - 1 \in DOMAIN c.map
    <3>1. st[i] = s.map[i - 1].row /\ RowsOf(state, c)[i] = c.map[i - 1].row
      BY <2>1, <2>2, <2>3 DEF AccountOf
    <3>2. c.map[i - 1].row \in Row /\ s.map[i - 1].row \in Row
      <4>1. c.map[i - 1] \in Item
        BY <1>1, <2>3, MapsIs
      <4>2. s.map[i - 1] \in Item
        BY <1>2, <2>3 DEF Saves
      <4> QED
        BY <4>1, <4>2 DEF Item
    <3> QED
      BY <1>2, <2>3, <3>1, <3>2
  <2>4. CASE i - 1 \notin DOMAIN c.map
    <3>1. i \in 1 .. Len(state)
      <4>1. i - 1 \notin Len(state) .. c.max
        BY <1>1, <2>4
      <4> QED
        BY <1>1, <4>1
    <3>2. state[i] \in Row /\ (i - 1) + 1 = i
      BY <3>1, ChainIs
    <3>3. st[i] = state[i] /\ RowsOf(state, c)[i] = state[i]
      BY <2>1, <2>2, <2>4, <3>2 DEF AccountOf
    <3> QED
      BY <2>4, <3>1, <3>2, <3>3 DEF Row
  <2> QED
    BY <2>3, <2>4
<1>4. st \in [1 .. c.max + 1 -> Row]
  BY <1>3 DEF Finish
<1>5. st \in Seq(Row) /\ Len(st) = c.max + 1
  <2>1. c.max + 1 \in Nat
    BY <1>1
  <2> QED
    BY <1>4, <2>1, SeqOf
<1>6. ASSUME NEW i \in 1 .. Len(state)
      PROVE  st[i].cur = state[i].cur /\ st[i].key = state[i].key /\ st[i].born = state[i].born
  <2>1. i \in 1 .. c.max + 1 /\ i - 1 < Len(state) /\ (i - 1) + 1 = i
    BY <1>1
  <2>2. CASE i - 1 \in DOMAIN c.map
    <3>1. st[i] = s.map[i - 1].row /\ s.map[i - 1].row = [c.map[i - 1].row EXCEPT !.pos = s.map[i - 1].row.pos]
      BY <1>2, <1>3, <2>1, <2>2
    <3>2. c.map[i - 1].row \in Row
      BY <1>3, <2>1, <2>2
    <3>3. c.map[i - 1].row.cur = state[i].cur /\ c.map[i - 1].row.key = state[i].key /\ c.map[i - 1].row.born = state[i].born
      BY <2>1, <2>2 DEF Finish, BlockOK
    <3> QED
      BY <3>1, <3>2, <3>3 DEF Row
  <2>3. CASE i - 1 \notin DOMAIN c.map
    BY <1>3, <2>1, <2>3
  <2> QED
    BY <2>2, <2>3
<1> QED
  BY <1>1, <1>3, <1>5, <1>6

(* The rows the block has put into the log.                                *)
LEMMA FinishWrote ==
  ASSUME NEW e, Chain(e), NEW c, NEW s, NEW lr, NEW st, NEW lg, Finish(c, s, lr, st, lg)
  PROVE  Wrote(lg, Len(log) + 1, Len(lg) - 1, c.num, At(log, e, LastNum), CalcHash(st), smarts, remade)
<1>1. PICK w, x, A : w = At(log, e, LastNum) /\ x = CalcHash(st) /\ A = Len(log)
  OBVIOUS
<1>2. PICK r : r = [num |-> c.num, id |-> 0, mode |-> "sum", val |-> Blank, hash |-> CalcHash(st)]
  OBVIOUS
<1>3. /\ st \in Seq(Row) /\ Len(st) = c.max + 1 /\ c.max \in Nat /\ Len(state) =< c.max + 1
      /\ \A i \in 1 .. c.max + 1 :
           /\ st[i] \in Row /\ st[i] = [RowsOf(state, c)[i] EXCEPT !.pos = st[i].pos] /\ RowsOf(state, c)[i] \in Row
           /\ i - 1 \in DOMAIN c.map => st[i] = s.map[i - 1].row /\ RowsOf(state, c)[i] = c.map[i - 1].row
           /\ i - 1 \notin DOMAIN c.map => i \in 1 .. Len(state) /\ st[i] = state[i]
      /\ \A i \in 1 .. Len(state) : st[i].cur = state[i].cur /\ st[i].key = state[i].key /\ st[i].born = state[i].born
  BY FinishRows
<1>4. x \in Seq(Row) /\ Len(x) = c.max + 1 /\ \A i \in 1 .. c.max + 1 : x[i] = [st[i] EXCEPT !.pos = 0]
  BY <1>1, <1>3, HashIs
<1>5. RowsUpTo(c, c.max + 1, lr) /\ lr \in Seq(LogRow) /\ c.num \in Nat
  BY DEF Finish, RowsUpTo, BlockOK, Block
<1>6. r \in LogRow
  <2>1. Blank \in Row /\ 0 \in Nat /\ CalcHash(st) \in Seq(Row)
    BY <1>1, <1>4, BlankIs
  <2> QED
    BY <1>2, <1>5, <2>1 DEF LogRow
<1>7. /\ Len(lr) \in Nat /\ A \in Nat /\ Len(lg) = A + Len(lr) + 1
      /\ \A j \in 1 .. Len(lr) : lg[A + j] = lr[j]
  <2>1. lg = log \o lr \o << r >> /\ log \in Seq(LogRow)
    BY <1>2, ChainIs DEF Finish
  <2> QED
    BY <1>1, <1>5, <1>6, <2>1, ThreeIs
<1>8. /\ \A j \in 1 .. Len(lr) : A + j \in A + 1 .. Len(lg) - 1
      /\ \A j \in A + 1 .. Len(lg) - 1 : j - A \in 1 .. Len(lr) /\ lg[j] = lr[j - A]
  <2>1. \A j \in 1 .. Len(lr) : A + j \in A + 1 .. Len(lg) - 1
    BY <1>7
  <2>2. \A j \in A + 1 .. Len(lg) - 1 : j - A \in 1 .. Len(lr) /\ A + (j - A) = j
    BY <1>7
  <2>3. ASSUME NEW j \in A + 1 .. Len(lg) - 1 PROVE lg[j] = lr[j - A]
    <3>1. lg[A + (j - A)] = lr[j - A]
      BY <1>7, <2>2
    <3> QED
      BY <2>2, <3>1
  <2> QED
    BY <2>1, <2>2, <2>3
<1>9. /\ Len(w) \in Nat /\ Len(w) =< Len(state) /\ Len(state) \in Nat /\ \A i \in 1 .. Len(state) : state[i] \in Row
      /\ \A i \in 1 .. Len(w) : w[i] = [state[i] EXCEPT !.pos = 0]
      /\ \A i \in Len(w) + 1 .. Len(state) : state[i].coin = NoCoin
      /\ ~remade => Len(state) = Len(w)
  <2>1. Like(state, w) /\ (~remade => Len(state) = Len(w))
    BY <1>1 DEF Chain, FileOK
  <2>2. Len(w) \in Nat /\ Len(state) \in Nat /\ \A i \in 1 .. Len(state) : state[i] \in Row
    <3>1. LastNum \in 0 .. LastNum
      BY ChainIs
    <3> QED
      BY <1>1, <3>1, ChainIs
  <2> QED
    BY <2>1, <2>2 DEF Like
<1>10. /\ DOMAIN c.map \subseteq 0 .. c.max
       /\ \A id \in DOMAIN c.map :
            IF id < Len(state) THEN ~c.map[id].new /\ c.map[id].back = state[id + 1]
            ELSE c.map[id].back = Blank /\ (c.map[id].new \/ remade)
  BY DEF Finish, BlockOK
<1>11. /\ \A j \in 1 .. Len(lr) : lr[j].id \in DOMAIN c.map /\ lr[j] = RowFor(c, lr[j].id)
       /\ \A i, j \in 1 .. Len(lr) : lr[i].id = lr[j].id => i = j
       /\ \A id \in DOMAIN c.map : \E j \in 1 .. Len(lr) : lr[j].id = id
  <2>1. \A id \in DOMAIN c.map : id < c.max + 1
    BY <1>3, <1>10
  <2> QED
    BY <1>5, <2>1 DEF RowsUpTo
<1>12. ASSUME NEW id \in DOMAIN c.map
       PROVE  \E j \in A + 1 .. Len(lg) - 1 : lg[j].id = id /\ (c.map[id].new => lg[j].mode = "new")
  <2>1. PICK j \in 1 .. Len(lr) : lr[j].id = id
    BY <1>11
  <2>2. A + j \in A + 1 .. Len(lg) - 1 /\ lg[A + j] = lr[j]
    BY <1>7, <1>8
  <2>3. lr[j] = RowFor(c, id)
    BY <1>11, <2>1
  <2>4. c.map[id].new => lr[j].mode = "new"
    BY <2>3 DEF RowFor
  <2> QED
    BY <2>1, <2>2, <2>4
<1>13. ASSUME NEW j \in A + 1 .. Len(lg) - 1
       PROVE  /\ lg[j].id < Len(x) /\ lg[j].mode \in {"old", "new"}
              /\ lg[j].mode = "new" => Len(w) =< lg[j].id
              /\ lg[j].mode = "old" =>
                   IF lg[j].id < Len(w) THEN w[lg[j].id + 1] = [lg[j].val EXCEPT !.pos = 0] ELSE lg[j].val.coin = NoCoin
  <2>1. PICK id : id = lg[j].id
    OBVIOUS
  <2>2. id \in DOMAIN c.map /\ lg[j] = RowFor(c, id) /\ id \in 0 .. c.max
    <3>1. PICK k \in 1 .. Len(lr) : lg[j] = lr[k]
      BY <1>8
    <3>2. lr[k].id \in DOMAIN c.map /\ lr[k] = RowFor(c, lr[k].id)
      BY <1>11
    <3> QED
      BY <1>10, <2>1, <3>1, <3>2
  <2>3. lg[j].mode = (IF c.map[id].new THEN "new" ELSE "old") /\ lg[j].val = c.map[id].back
    BY <2>2 DEF RowFor
  <2>4. c.map[id].new => Len(w) =< id
    BY <1>3, <1>9, <1>10, <2>2
  <2>5. CASE id < Len(state)
    <3>1. c.map[id].back = state[id + 1] /\ id + 1 \in 1 .. Len(state)
      BY <1>3, <1>9, <1>10, <2>2, <2>5
    <3>2. id < Len(w) => id + 1 \in 1 .. Len(w)
      BY <1>9, <2>2
    <3>3. ~(id < Len(w)) => id + 1 \in Len(w) + 1 .. Len(state)
      BY <1>9, <3>1, <2>2
    <3>4. IF id < Len(w) THEN w[id + 1] = [lg[j].val EXCEPT !.pos = 0] ELSE lg[j].val.coin = NoCoin
      BY <1>9, <2>3, <3>1, <3>2, <3>3
    <3>5. id < Len(x) /\ lg[j].mode \in {"old", "new"} /\ (lg[j].mode = "new" => Len(w) =< id)
      BY <1>3, <1>4, <2>2, <2>3, <2>4
    <3> QED
      BY <2>1, <3>4, <3>5
  <2>6. CASE ~(id < Len(state))
    <3>1. c.map[id].back = Blank /\ ~(id < Len(w))
      BY <1>9, <1>10, <2>2, <2>6
    <3>2. lg[j].val.coin = NoCoin
      BY <2>3, <3>1 DEF Blank
    <3> QED
      BY <1>3, <1>4, <2>1, <2>2, <2>3, <2>4, <3>1, <3>2
  <2> QED
    BY <2>5, <2>6
<1>14. \A i, j \in A + 1 .. Len(lg) - 1 : lg[i].id = lg[j].id => i = j
  <2>1. ASSUME NEW i \in A + 1 .. Len(lg) - 1, NEW j \in A + 1 .. Len(lg) - 1, lg[i].id = lg[j].id PROVE i = j
    <3>1. i - A = j - A
      BY <1>8, <1>11, <2>1
    <3> QED
      BY <1>7, <3>1
  <2> QED
    BY <2>1
<1>15. ASSUME NEW i \in 1 .. Len(w) PROVE x[i].cur = w[i].cur /\ x[i].key = w[i].key /\ x[i].born = w[i].born
  <2>1. i \in 1 .. Len(state) /\ i \in 1 .. c.max + 1
    BY <1>3, <1>9
  <2>2. st[i].cur = state[i].cur /\ st[i].key = state[i].key /\ st[i].born = state[i].born /\ st[i] \in Row /\ state[i] \in Row
    BY <1>3, <1>9, <2>1
  <2>3. x[i] = [st[i] EXCEPT !.pos = 0] /\ w[i] = [state[i] EXCEPT !.pos = 0]
    BY <1>4, <1>9, <2>1
  <2> QED
    BY <2>2, <2>3 DEF Row
<1>16. ASSUME NEW i \in 1 .. Len(x), \A j \in A + 1 .. Len(lg) - 1 : lg[j].id # i - 1
       PROVE  IF i =< Len(w) THEN x[i] = w[i] ELSE x[i].coin = NoCoin
  <2>1. i \in 1 .. c.max + 1 /\ i - 1 \notin DOMAIN c.map
    BY <1>4, <1>12, <1>16
  <2>2. i \in 1 .. Len(state) /\ x[i] = [state[i] EXCEPT !.pos = 0]
    BY <1>3, <1>4, <2>1
  <2>3. i =< Len(w) => i \in 1 .. Len(w)
    BY <1>9, <2>2
  <2>4. ~(i =< Len(w)) => i \in Len(w) + 1 .. Len(state)
    BY <1>9, <2>2
  <2>5. state[i] \in Row
    BY <1>9, <2>2
  <2> QED
    BY <1>9, <2>2, <2>3, <2>4, <2>5 DEF Row
<1>17. ASSUME ~remade, NEW i \in Len(w) + 1 .. Len(x)
       PROVE  \E j \in A + 1 .. Len(lg) - 1 : lg[j].id = i - 1 /\ lg[j].mode = "new"
  <2>1. i - 1 \in Len(state) .. c.max /\ ~(i - 1 < Len(state))
    BY <1>3, <1>4, <1>9, <1>17
  <2>2. i - 1 \in DOMAIN c.map /\ c.map[i - 1].new
    <3>1. Len(state) .. c.max \subseteq DOMAIN c.map
      BY DEF Finish, BlockOK
    <3> QED
      BY <1>10, <1>17, <2>1, <3>1
  <2> QED
    BY <1>12, <2>2
<1>18. \A i \in DOMAIN smarts : smarts[i].num = c.num => \E j \in A + 1 .. Len(lg) - 1 : lg[j].id = smarts[i].account
  <2>1. \A i \in DOMAIN smarts : smarts[i].num = c.num => smarts[i].account \in DOMAIN c.map
    BY DEF Finish, BlockOK
  <2> QED
    BY <1>12, <2>1
<1>19. Len(w) =< Len(x)
  BY <1>3, <1>4, <1>9
<1>20. Wrote(lg, A + 1, Len(lg) - 1, c.num, w, x, smarts, remade)
  BY <1>13, <1>14, <1>15, <1>16, <1>17, <1>18, <1>19 DEF Wrote
<1> QED
  BY <1>1, <1>20

(* The payments of the block explain the accounts it leaves, and those     *)
(* before it explain what it has put into the log.                         *)
LEMMA NotIssued ==
  ASSUME NEW e, Chain(e), NEW id \in Nat, Len(state) =< id
  PROVE  StartBy(smarts, id, LastNum) = 0
<1>1. PICK w : w = At(log, e, LastNum)
  OBVIOUS
<1>2. LastNum \in 0 .. LastNum
  BY ChainIs
<1>3. /\ Len(GenesisRows) =< Len(w) /\ Len(w) \in Nat /\ Len(w) =< Len(state) /\ Len(state) \in Nat
      /\ \A i \in Signed(smarts, LastNum) : smarts[i].account < Len(w)
  <2>1. RowsOK(smarts, done, LastNum, w)
    BY <1>1, <1>2 DEF Chain, LogOK
  <2>2. Like(state, w)
    BY <1>1 DEF Chain, FileOK
  <2>3. Len(w) \in Nat /\ Len(state) \in Nat
    BY <1>1, <1>2, ChainIs
  <2> QED
    BY <2>1, <2>2, <2>3 DEF RowsOK, Like
<1>4. ~\E i \in Signed(smarts, LastNum) : smarts[i].account = id
  BY <1>3
<1>5. ~(id < Len(GenesisRows))
  BY <1>3, GenesisIs
<1> QED
  BY <1>4, <1>5 DEF StartBy

LEMMA FinishExpl ==
  ASSUME NEW e, Chain(e), NEW c, NEW s, NEW lr, NEW st, NEW lg, Finish(c, s, lr, st, lg)
  PROVE  /\ ListOK(s.hist) /\ Longer(hist, s.hist)
         /\ \A j \in 1 .. Len(lr) : lr[j].mode = "old" /\ StartHistory =< lr[j].id =>
              Expl(s.hist, smarts, lr[j].id, lr[j].val, LastNum)
         /\ \A id \in StartHistory .. c.max : Expl(s.hist, smarts, id, st[id + 1], c.num)
<1>1. ListOK(s.hist) /\ Longer(hist, s.hist) /\ ListOK(hist)
  BY ChainIs DEF Finish, Saved, Saves
<1>2. /\ \A id \in StartHistory .. Len(state) - 1 : Expl(hist, smarts, id, state[id + 1], LastNum)
      /\ StartHistory \in Nat /\ Len(state) \in Nat /\ c.max \in Nat /\ Len(hist) \in Nat /\ Len(state) =< c.max + 1
      /\ DOMAIN c.map \subseteq 0 .. c.max
  <2>1. StartHistory \in Nat
    BY AccountsAssumption
  <2> QED
    BY <2>1, ChainIs, FinishRows DEF Chain, FileOK, Finish, BlockOK
<1>3. ASSUME NEW j \in 1 .. Len(lr), lr[j].mode = "old", StartHistory =< lr[j].id
      PROVE  Expl(s.hist, smarts, lr[j].id, lr[j].val, LastNum)
  <2>1. PICK id : id = lr[j].id
    OBVIOUS
  <2>2. id \in DOMAIN c.map /\ lr[j] = RowFor(c, id) /\ id \in 0 .. c.max
    BY <1>2, <2>1 DEF Finish, RowsUpTo
  <2>3. lr[j].val = c.map[id].back
    BY <2>2 DEF RowFor
  <2>4. CASE id < Len(state)
    <3>1. id \in StartHistory .. Len(state) - 1 /\ c.map[id].back = state[id + 1]
      BY <1>2, <1>3, <2>1, <2>2, <2>4 DEF Finish, BlockOK
    <3>2. Expl(hist, smarts, id, lr[j].val, LastNum)
      BY <1>2, <2>3, <3>1
    <3> QED
      BY <1>1, <2>1, <3>2, ExplGrows
  <2>5. CASE ~(id < Len(state))
    <3>1. lr[j].val = Blank
      BY <2>2, <2>3, <2>5 DEF Finish, BlockOK
    <3>2. lr[j].val.pos = 0 /\ Worth(lr[j].val.coin) = 0
      BY <3>1, CoinFacts DEF Blank
    <3>3. StartBy(smarts, id, LastNum) = 0
      BY <1>2, <2>2, <2>5, NotIssued
    <3>4. Listed(hist, 0) = 0 /\ OwnList(hist, id, 0)
      BY <1>1, ListIs, OwnIs
    <3>5. Expl(hist, smarts, id, lr[j].val, LastNum)
      BY <1>2, <3>2, <3>3, <3>4 DEF Expl
    <3> QED
      BY <1>1, <2>1, <3>5, ExplGrows
  <2> QED
    BY <2>4, <2>5
<1>5. \A i \in 1 .. c.max + 1 :
        /\ st[i] \in Row /\ st[i] = [RowsOf(state, c)[i] EXCEPT !.pos = st[i].pos] /\ RowsOf(state, c)[i] \in Row
        /\ i - 1 \in DOMAIN c.map => st[i] = s.map[i - 1].row /\ RowsOf(state, c)[i] = c.map[i - 1].row
        /\ i - 1 \notin DOMAIN c.map => i \in 1 .. Len(state) /\ st[i] = state[i]
  BY FinishRows
<1>4. ASSUME NEW id \in StartHistory .. c.max PROVE Expl(s.hist, smarts, id, st[id + 1], c.num)
  <2>1. id + 1 \in 1 .. c.max + 1 /\ (id + 1) - 1 = id /\ id \in Nat
    BY <1>2
  <2>2. Worth(AccountOf(state, c, id).coin) = StartBy(smarts, id, c.num) + Listed(hist, PosOf(state, id)) + Pend(c.hist, id)
    BY DEF Finish, BlockOK
  <2>3. PosOf(state, id) \in 0 .. Len(hist) /\ OwnList(hist, id, PosOf(state, id))
    <3>1. CASE id < Len(state)
      <4>1. id \in StartHistory .. Len(state) - 1
        BY <1>2, <3>1
      <4> QED
        BY <1>2, <3>1, <4>1 DEF Expl, PosOf
    <3>2. CASE ~(id < Len(state))
      BY <1>1, <1>2, <3>2, OwnIs DEF PosOf
    <3> QED
      BY <3>1, <3>2
  <2>4. StartBy(smarts, id, c.num) \in Int /\ Listed(hist, PosOf(state, id)) \in Int
    <3>1. StartBy(smarts, id, c.num) \in Int
      BY <2>1, StartIsInt
    <3> QED
      BY <1>1, <2>3, <3>1, ListIs
  <2>7. PICK i : i = id + 1 /\ i \in 1 .. c.max + 1 /\ i - 1 = id
    BY <2>1
  <2>8. /\ i - 1 \in DOMAIN c.map => st[i] = s.map[i - 1].row /\ RowsOf(state, c)[i] = c.map[i - 1].row
        /\ i - 1 \notin DOMAIN c.map => i \in 1 .. Len(state) /\ st[i] = state[i]
        /\ RowsOf(state, c)[i] \in Row
    BY <1>5, <2>7
  <2>9. /\ id \in DOMAIN c.map => st[id + 1] = s.map[id].row /\ RowsOf(state, c)[id + 1] = c.map[id].row
        /\ id \notin DOMAIN c.map => id + 1 \in 1 .. Len(state) /\ st[id + 1] = state[id + 1]
        /\ RowsOf(state, c)[id + 1] \in Row
    BY <2>7, <2>8
  <2>5. CASE id \in DOMAIN c.map
    <3>1. st[id + 1] = s.map[id].row
      BY <2>5, <2>9
    <3>10. StartHistory =< id
      BY <1>2
    <3>2. /\ s.map[id].row = [c.map[id].row EXCEPT !.pos = s.map[id].row.pos]
          /\ Listed(s.hist, s.map[id].row.pos) = Listed(hist, c.map[id].row.pos) + Pend(c.hist, id)
          /\ OwnList(hist, id, c.map[id].row.pos) => OwnList(s.hist, id, s.map[id].row.pos)
          /\ s.map[id].row.pos \in 0 .. Len(s.hist)
      BY <2>5, <3>10 DEF Finish, Saved, Saves
    <3>3. c.map[id].row.pos = PosOf(state, id)
      BY <2>5 DEF Finish, BlockOK, PosOf
    <3>4. c.map[id].row \in Row /\ AccountOf(state, c, id) = c.map[id].row
      <4>1. RowsOf(state, c)[id + 1] \in Row /\ RowsOf(state, c)[id + 1] = c.map[id].row
        BY <2>5, <2>9
      <4> QED
        BY <2>5, <4>1 DEF AccountOf
    <3>5. s.map[id].row.coin = c.map[id].row.coin
      BY <3>2, <3>4 DEF Row
    <3>6. Pend(c.hist, id) \in Int
      <4>1. c.hist \in Seq(Paying)
        BY DEF Finish, BlockOK, Block
      <4> QED
        BY <4>1, PendIs
    <3>7. Worth(st[id + 1].coin) = StartBy(smarts, id, c.num) + Listed(s.hist, st[id + 1].pos)
      BY <2>2, <2>4, <3>1, <3>2, <3>3, <3>4, <3>5, <3>6
    <3>8. OwnList(s.hist, id, st[id + 1].pos) /\ st[id + 1].pos \in 0 .. Len(s.hist)
      BY <2>3, <3>1, <3>2, <3>3
    <3> QED
      BY <3>7, <3>8 DEF Expl
  <2>6. CASE id \notin DOMAIN c.map
    <3>1. id + 1 \in 1 .. Len(state) /\ st[id + 1] = state[id + 1]
      BY <2>6, <2>9
    <3>2. Pend(c.hist, id) = 0
      <4>1. c.hist \in Seq(Paying) /\ \A k \in 1 .. Len(c.hist) : c.hist[k].id # id
        BY <2>6 DEF Finish, BlockOK, Block
      <4> QED
        BY <4>1, PendNone
    <3>3. AccountOf(state, c, id) = state[id + 1] /\ PosOf(state, id) = state[id + 1].pos
      BY <1>2, <2>1, <2>6, <3>1 DEF AccountOf, PosOf
    <3>4. Expl(hist, smarts, id, st[id + 1], c.num)
      BY <2>2, <2>3, <2>4, <3>1, <3>2, <3>3 DEF Expl
    <3> QED
      BY <1>1, <3>4, ExplGrows
  <2> QED
    BY <2>5, <2>6
<1> QED
  BY <1>1, <1>3, <1>4

LEMMA FinishLog ==
  ASSUME NEW e, Chain(e), NEW c, NEW s, NEW lr, NEW st, NEW lg, Finish(c, s, lr, st, lg)
  PROVE  /\ lg \in Seq(LogRow) /\ Len(lg) \in Nat /\ Len(log) < Len(lg) /\ c.num = LastNum + 1
         /\ \A j \in 1 .. Len(log) : lg[j] = log[j]
         /\ \A j \in Len(log) + 1 .. Len(lg) : lg[j].num = c.num
         /\ \A j \in Len(log) + 1 .. Len(lg) - 1 :
              lg[j].mode = "old" /\ StartHistory =< lg[j].id => Expl(s.hist, smarts, lg[j].id, lg[j].val, LastNum)
         /\ lg[Len(lg)].mode = "sum" /\ lg[Len(lg)].hash = CalcHash(st) /\ CalcHash(st) \in Seq(Row)
<1>1. PICK r, A : r = [num |-> c.num, id |-> 0, mode |-> "sum", val |-> Blank, hash |-> CalcHash(st)] /\ A = Len(log)
  OBVIOUS
<1>2. CalcHash(st) \in Seq(Row)
  <2>1. st \in Seq(Row)
    BY FinishRows
  <2> QED
    BY <2>1, HashIs
<1>3. c.num = LastNum + 1 /\ lr \in Seq(LogRow) /\ c.num \in Nat
      /\ \A j \in 1 .. Len(lr) : lr[j] = RowFor(c, lr[j].id)
  BY DEF Finish, RowsUpTo, BlockOK, Block
<1>4. r \in LogRow
  <2>1. Blank \in Row /\ 0 \in Nat
    BY BlankIs
  <2> QED
    BY <1>1, <1>2, <1>3, <2>1 DEF LogRow
<1>5. /\ lg \in Seq(LogRow) /\ Len(lr) \in Nat /\ A \in Nat /\ Len(lg) = A + Len(lr) + 1
      /\ \A j \in 1 .. A : lg[j] = log[j]
      /\ \A j \in 1 .. Len(lr) : lg[A + j] = lr[j]
      /\ lg[Len(lg)] = r
  <2>1. lg = log \o lr \o << r >> /\ log \in Seq(LogRow)
    BY <1>1, ChainIs DEF Finish
  <2> QED
    BY <1>1, <1>3, <1>4, <2>1, ThreeIs
<1>6. ASSUME NEW j \in A + 1 .. Len(lg) - 1 PROVE \E k \in 1 .. Len(lr) : lg[j] = lr[k]
  <2>1. j - A \in 1 .. Len(lr) /\ A + (j - A) = j
    BY <1>5
  <2>2. lg[A + (j - A)] = lr[j - A]
    BY <1>5, <2>1
  <2> QED
    BY <2>1, <2>2
<1>7. ASSUME NEW j \in A + 1 .. Len(lg) PROVE lg[j].num = c.num
  <2>1. CASE j = Len(lg)
    BY <1>1, <1>5, <2>1
  <2>2. CASE j # Len(lg)
    <3>1. j \in A + 1 .. Len(lg) - 1
      BY <1>5, <2>2
    <3>2. PICK k \in 1 .. Len(lr) : lg[j] = lr[k]
      BY <1>6, <3>1
    <3>3. lr[k] = RowFor(c, lr[k].id)
      BY <1>3
    <3>4. \A id : RowFor(c, id).num = c.num
      BY DEF RowFor
    <3>5. lr[k].num = c.num
      BY <3>3, <3>4
    <3> QED
      BY <3>2, <3>5
  <2> QED
    BY <2>1, <2>2
<1>8. ASSUME NEW j \in A + 1 .. Len(lg) - 1, lg[j].mode = "old", StartHistory =< lg[j].id
      PROVE  Expl(s.hist, smarts, lg[j].id, lg[j].val, LastNum)
  <2>1. PICK k \in 1 .. Len(lr) : lg[j] = lr[k]
    BY <1>6
  <2>2. \A i \in 1 .. Len(lr) : lr[i].mode = "old" /\ StartHistory =< lr[i].id => Expl(s.hist, smarts, lr[i].id, lr[i].val, LastNum)
    BY FinishExpl
  <2> QED
    BY <1>8, <2>1, <2>2
<1>9. Len(lg) \in Nat /\ A < Len(lg)
  BY <1>5
<1> QED
  BY <1>1, <1>2, <1>3, <1>5, <1>7, <1>8, <1>9

LEMMA FinishChain ==
  ASSUME NEW e, Chain(e), NEW c, NEW s, NEW lr, NEW st, NEW lg, Finish(c, s, lr, st, lg)
  PROVE  \E e2 : /\ LogOK(lg, e2, c.num, smarts, done, remade, s.hist)
                 /\ FileOK(st, At(lg, e2, c.num), c.num, smarts, remade, s.hist)
<1>1. PICK L, A, B : L = LastNum /\ A = Len(log) /\ B = Len(lg)
  OBVIOUS
<1>2. PICK e2 : e2 = [n \in 0 .. L + 1 |-> IF n = L + 1 THEN B ELSE e[n]]
  OBVIOUS
<1>3. /\ lg \in Seq(LogRow) /\ B \in Nat /\ A < B /\ c.num = L + 1
      /\ \A j \in 1 .. A : lg[j] = log[j]
      /\ \A j \in A + 1 .. B : lg[j].num = c.num
      /\ \A j \in A + 1 .. B - 1 :
           lg[j].mode = "old" /\ StartHistory =< lg[j].id => Expl(s.hist, smarts, lg[j].id, lg[j].val, L)
      /\ lg[B].mode = "sum" /\ lg[B].hash = CalcHash(st) /\ CalcHash(st) \in Seq(Row)
  BY <1>1, FinishLog
<1>4. /\ L \in Nat /\ A \in Nat /\ e \in [0 .. L -> 0 .. A] /\ e[L] = A /\ e[0] = 0
      /\ \A j \in 1 .. A : log[j].num \in Nat /\ log[j].num =< L
      /\ \A n \in 0 .. L : \A j \in 1 .. A : j =< e[n] <=> log[j].num =< n
      /\ \A n \in 1 .. L : e[n - 1] < e[n] /\ log[e[n]].mode = "sum"
  <2>1. Ends(log, e, L)
    BY <1>1 DEF Chain, LogOK
  <2>2. e[0] = 0 /\ \A n \in 0 .. L : \A j \in 1 .. A : j =< e[n] <=> log[j].num =< n
    BY <1>1, <2>1 DEF Ends
  <2>3. \A n \in 1 .. L : e[n - 1] < e[n] /\ log[e[n]].mode = "sum"
    BY <2>1 DEF Ends
  <2>4. L \in Nat /\ A \in Nat /\ e \in [0 .. L -> 0 .. A] /\ e[L] = A /\ \A j \in 1 .. A : log[j].num \in Nat /\ log[j].num =< L
    BY <1>1, ChainIs
  <2> QED
    BY <2>2, <2>3, <2>4
<1>5. /\ \A n \in 0 .. L : e2[n] = e[n] /\ e[n] \in 0 .. A /\ n \in 0 .. L + 1
      /\ e2[L + 1] = B /\ L + 1 \in 0 .. L + 1
      /\ \A n \in 0 .. L + 1 : n = L + 1 \/ n \in 0 .. L
      /\ \A n \in 1 .. L + 1 : n - 1 \in 0 .. L /\ (n = L + 1 \/ n \in 1 .. L)
  BY <1>2, <1>4
<1>6. /\ At(lg, e2, L + 1) = CalcHash(st)
      /\ \A n \in 0 .. L : At(lg, e2, n) = At(log, e, n)
  <2>1. At(lg, e2, L + 1) = CalcHash(st)
    BY <1>3, <1>4, <1>5 DEF At
  <2>2. ASSUME NEW n \in 0 .. L PROVE At(lg, e2, n) = At(log, e, n)
    <3>1. CASE n = 0
      BY <3>1 DEF At
    <3>2. CASE n # 0
      <4>1. n \in 1 .. L /\ n - 1 \in 0 .. L
        BY <1>4, <3>2
      <4>2. e[n - 1] < e[n] /\ e[n - 1] \in 0 .. A /\ e[n] \in 0 .. A
        BY <1>4, <1>5, <4>1
      <4>3. e[n] \in 1 .. A
        BY <1>4, <4>2
      <4>4. e2[n] = e[n] /\ lg[e[n]] = log[e[n]]
        BY <1>3, <1>5, <4>3
      <4> QED
        BY <3>2, <4>4 DEF At
    <3> QED
      BY <3>1, <3>2
  <2> QED
    BY <2>1, <2>2
<1>7. Ends(lg, e2, c.num)
  <2>1. e2 \in [0 .. L + 1 -> 0 .. B]
    <3>1. \A n \in 0 .. L + 1 : (IF n = L + 1 THEN B ELSE e[n]) \in 0 .. B
      BY <1>3, <1>4, <1>5
    <3> QED
      BY <1>2, <3>1
  <2>2. e2[0] = 0 /\ e2[L + 1] = Len(lg)
    BY <1>1, <1>4, <1>5
  <2>3. ASSUME NEW n \in 0 .. L + 1, NEW j \in 1 .. B PROVE j =< e2[n] <=> lg[j].num =< n
    <3>1. j \in 1 .. A \/ j \in A + 1 .. B
      BY <1>3, <1>4
    <3>2. CASE n = L + 1
      <4>1. j =< e2[n]
        BY <1>3, <1>5, <3>2
      <4>2. lg[j].num =< n
        <5>1. CASE j \in 1 .. A
          <6>1. lg[j] = log[j] /\ log[j].num \in Nat /\ log[j].num =< L
            BY <1>3, <1>4, <5>1
          <6> QED
            BY <1>4, <3>2, <6>1
        <5>2. CASE j \in A + 1 .. B
          <6>1. lg[j].num = L + 1
            BY <1>3, <5>2
          <6> QED
            BY <1>4, <3>2, <6>1
        <5> QED
          BY <3>1, <5>1, <5>2
      <4> QED
        BY <4>1, <4>2
    <3>3. CASE n \in 0 .. L /\ j \in 1 .. A
      BY <1>3, <1>4, <1>5, <3>3
    <3>4. CASE n \in 0 .. L /\ j \in A + 1 .. B
      <4>1. lg[j].num = L + 1 /\ e2[n] = e[n] /\ e[n] \in 0 .. A
        BY <1>3, <1>5, <3>4
      <4> QED
        BY <1>4, <3>4, <4>1
    <3> QED
      BY <1>5, <3>1, <3>2, <3>3, <3>4
  <2>4. ASSUME NEW n \in 1 .. L + 1 PROVE e2[n - 1] < e2[n] /\ lg[e2[n]].mode = "sum"
    <3>1. CASE n = L + 1
      <4>1. n - 1 = L /\ e2[n - 1] = A /\ e2[n] = B
        BY <1>4, <1>5, <3>1
      <4> QED
        BY <1>3, <4>1
    <3>2. CASE n \in 1 .. L
      <4>1. n - 1 \in 0 .. L /\ n \in 0 .. L
        BY <1>4, <3>2
      <4>2. e2[n - 1] = e[n - 1] /\ e2[n] = e[n] /\ e[n - 1] < e[n] /\ log[e[n]].mode = "sum" /\ e[n - 1] \in 0 .. A /\ e[n] \in 0 .. A
        BY <1>4, <1>5, <3>2, <4>1
      <4>3. e[n] \in 1 .. A
        BY <1>4, <4>2
      <4> QED
        BY <1>3, <4>2, <4>3
    <3> QED
      BY <1>5, <3>1, <3>2
  <2>5. L + 1 \in Nat
    BY <1>4
  <2> QED
    BY <1>1, <1>3, <2>1, <2>2, <2>3, <2>4, <2>5 DEF Ends
<1>8. ASSUME NEW n \in 0 .. L + 1
      PROVE  RowsOK(smarts, done, n, At(lg, e2, n)) /\ \A i \in 1 .. Len(At(lg, e2, n)) : At(lg, e2, n)[i].pos = 0
  <2>1. CASE n = L + 1
    <3>1. PICK x, y : x = RowsOf(state, c) /\ y = CalcHash(st)
      OBVIOUS
    <3>2. RowsOK(smarts, done, L + 1, x) /\ x \in Seq(Row)
      BY <1>3, <3>1 DEF Finish, BlockOK, RowsOK
    <3>3. /\ st \in Seq(Row) /\ Len(st) = c.max + 1 /\ c.max \in Nat
          /\ \A i \in 1 .. c.max + 1 : st[i] = [x[i] EXCEPT !.pos = st[i].pos] /\ x[i] \in Row
      BY <3>1, FinishRows
    <3>4. y \in Seq(Row) /\ Len(y) = c.max + 1 /\ \A i \in 1 .. c.max + 1 : y[i] = [st[i] EXCEPT !.pos = 0] /\ st[i] \in Row
      BY <3>1, <3>3, HashIs
    <3>5. Len(x) = c.max + 1
      <4>1. c.max + 1 \in Nat
        BY <3>3
      <4>2. x = [i \in 1 .. c.max + 1 |-> x[i]]
        BY <3>1 DEF RowsOf
      <4>3. x \in [1 .. c.max + 1 -> Row]
        BY <3>3, <4>2
      <4> QED
        BY <4>1, <4>3, SeqOf
    <3>11. ASSUME NEW i \in 1 .. c.max + 1
           PROVE  y[i].cur = x[i].cur /\ y[i].coin = x[i].coin /\ y[i].op = x[i].op /\ y[i].pos = 0
      <4>1. PICK a, p : a = x[i] /\ p = st[i].pos
        OBVIOUS
      <4>2. y[i] = [st[i] EXCEPT !.pos = 0] /\ st[i] = [a EXCEPT !.pos = p] /\ a \in Row
        BY <3>3, <3>4, <4>1
      <4> QED
        BY <4>1, <4>2 DEF Row
    <3>6. \A i \in 1 .. Len(x) : y[i].cur = x[i].cur /\ y[i].coin = x[i].coin /\ y[i].op = x[i].op
      BY <3>5, <3>11
    <3>7. \A i \in 1 .. Len(y) : y[i].pos = 0
      BY <3>4, <3>11
    <3>8. Len(x) =< Len(y) /\ \A i \in Len(x) + 1 .. Len(y) : y[i].coin = NoCoin
      BY <3>3, <3>4, <3>5
    <3>9. smarts \in Seq(Contract) /\ done \in Seq(Done)
      BY DEF Chain
    <3>10. RowsOK(smarts, done, L + 1, y)
      BY <3>2, <3>4, <3>6, <3>8, <3>9, RowsKeep
    <3> QED
      BY <1>6, <2>1, <3>1, <3>7, <3>10
  <2>2. CASE n \in 0 .. L
    BY <1>1, <1>6, <2>2 DEF Chain, LogOK
  <2> QED
    BY <1>5, <2>1, <2>2
<1>9. ASSUME NEW n \in 1 .. L + 1
      PROVE  Wrote(lg, e2[n - 1] + 1, e2[n] - 1, n, At(lg, e2, n - 1), At(lg, e2, n), smarts, remade)
  <2>1. CASE n = L + 1
    <3>1. e2[n - 1] = A /\ e2[n] = B /\ n = c.num /\ At(lg, e2, n - 1) = At(log, e, L) /\ At(lg, e2, n) = CalcHash(st)
      <4>1. n - 1 = L /\ L \in 0 .. L
        BY <1>4, <2>1
      <4> QED
        BY <1>3, <1>4, <1>5, <1>6, <2>1, <4>1
    <3>2. Wrote(lg, A + 1, B - 1, c.num, At(log, e, L), CalcHash(st), smarts, remade)
      BY <1>1, FinishWrote
    <3> QED
      BY <3>1, <3>2
  <2>2. CASE n \in 1 .. L
    <3>1. n - 1 \in 0 .. L /\ n \in 0 .. L
      BY <1>4, <2>2
    <3>2. PICK lo, hi : lo = e[n - 1] + 1 /\ hi = e[n] - 1
      OBVIOUS
    <3>3. e2[n - 1] = e[n - 1] /\ e2[n] = e[n] /\ At(lg, e2, n - 1) = At(log, e, n - 1) /\ At(lg, e2, n) = At(log, e, n)
      BY <1>5, <1>6, <3>1
    <3>4. \A j \in lo .. hi : lg[j] = log[j]
      <4>1. e[n - 1] \in 0 .. A /\ e[n] \in 0 .. A
        BY <1>5, <3>1
      <4>2. \A j \in lo .. hi : j \in 1 .. A
        BY <1>4, <3>2, <4>1
      <4> QED
        BY <1>3, <4>2
    <3>5. Wrote(log, lo, hi, n, At(log, e, n - 1), At(log, e, n), smarts, remade)
      BY <1>1, <2>2, <3>2 DEF Chain, LogOK
    <3>6. Wrote(lg, lo, hi, n, At(log, e, n - 1), At(log, e, n), smarts, remade)
      BY <3>4, <3>5, WroteSame
    <3> QED
      BY <3>2, <3>3, <3>6
  <2> QED
    BY <1>5, <2>1, <2>2
<1>10. ASSUME NEW j \in 1 .. B, lg[j].mode = "old", StartHistory =< lg[j].id
       PROVE  Expl(s.hist, smarts, lg[j].id, lg[j].val, lg[j].num - 1)
  <2>1. CASE j \in 1 .. A
    <3>1. lg[j] = log[j]
      BY <1>3, <2>1
    <3>2. Expl(hist, smarts, log[j].id, log[j].val, log[j].num - 1)
      BY <1>1, <1>10, <2>1, <3>1 DEF Chain, LogOK
    <3>3. ListOK(hist) /\ ListOK(s.hist) /\ Longer(hist, s.hist)
      BY ChainIs, FinishExpl
    <3> QED
      BY <3>1, <3>2, <3>3, ExplGrows
  <2>2. CASE j \in A + 1 .. B - 1
    <3>1. lg[j].num - 1 = L
      <4>1. j \in A + 1 .. B
        BY <1>3, <1>4, <2>2
      <4>2. lg[j].num = L + 1
        BY <1>3, <4>1
      <4> QED
        BY <1>4, <4>2
    <3>2. Expl(s.hist, smarts, lg[j].id, lg[j].val, L)
      BY <1>3, <1>10, <2>2
    <3> QED
      BY <3>1, <3>2
  <2>3. CASE j = B
    BY <1>3, <1>10, <2>3
  <2>4. j \in 1 .. A \/ j \in A + 1 .. B - 1 \/ j = B
    BY <1>3, <1>4
  <2> QED
    BY <2>1, <2>2, <2>3, <2>4
<1>11. LogOK(lg, e2, c.num, smarts, done, remade, s.hist)
  BY <1>1, <1>3, <1>7, <1>8, <1>9, <1>10 DEF LogOK
<1>12. FileOK(st, At(lg, e2, c.num), c.num, smarts, remade, s.hist)
  <2>1. st \in Seq(Row) /\ Len(st) = c.max + 1 /\ c.max \in Nat
    BY FinishRows
  <2>2. PICK y : y = CalcHash(st)
    OBVIOUS
  <2>3. Len(y) = Len(st) /\ \A i \in 1 .. Len(st) : y[i] = [st[i] EXCEPT !.pos = 0]
    BY <2>1, <2>2, HashIs
  <2>4. Like(st, y)
    <3>1. Len(y) + 1 .. Len(st) = {} /\ Len(y) =< Len(st)
      BY <2>1, <2>3
    <3> QED
      BY <2>3, <3>1 DEF Like
  <2>5. ListOK(s.hist) /\ \A id \in StartHistory .. c.max : Expl(s.hist, smarts, id, st[id + 1], c.num)
    BY FinishExpl
  <2>6. Len(st) - 1 = c.max
    BY <2>1
  <2> QED
    BY <1>3, <1>6, <2>1, <2>2, <2>3, <2>4, <2>5, <2>6 DEF FileOK
<1> QED
  BY <1>11, <1>12
-----------------------------------------------------------------------------
(* A block is taken back.                                                  *)
LEMMA MinIs == ASSUME NEW S, S \subseteq Nat, S # {} PROVE Min(S) \in S /\ \A m \in S : Min(S) =< m
<1>1. \E n \in S : \A m \in S : n =< m
  BY LeastIn
<1> QED
  BY <1>1 DEF Min

LEMMA BeforeIs ==
  ASSUME NEW S, NEW list \in Seq(S), LastNum \in Nat, \A i \in 1 .. Len(list) : list[i].num \in Nat,
         \A i, j \in 1 .. Len(list) : i =< j => list[i].num =< list[j].num
  PROVE  /\ Before(list) \in Seq(S) /\ Len(Before(list)) \in 0 .. Len(list)
         /\ \A i \in 1 .. Len(Before(list)) : Before(list)[i] = list[i]
         /\ \A i \in 1 .. Len(list) : i =< Len(Before(list)) <=> list[i].num < LastNum
<1>1. PICK N \in Nat : N = Len(list)
  BY LenProperties
<1>2. DOMAIN list = 1 .. N /\ \A i \in 1 .. N : list[i] \in S
  BY <1>1, ElementOfSeq
<1>3. PICK T : T = {0} \cup {i \in DOMAIN list : list[i].num < LastNum}
  OBVIOUS
<1>4. T \subseteq 0 .. N /\ 0 \in T
  BY <1>1, <1>2, <1>3
<1>5. PICK m : m = Max(T)
  OBVIOUS
<1>6. m \in T /\ \A i \in T : i =< m
  BY <1>1, <1>4, <1>5, GreatestIn
<1>7. m \in 0 .. N
  BY <1>4, <1>6
<1>8. ASSUME NEW i \in 1 .. N PROVE i =< m <=> list[i].num < LastNum
  <2>1. list[i].num < LastNum => i =< m
    BY <1>2, <1>3, <1>6
  <2>2. ASSUME i =< m PROVE list[i].num < LastNum
    <3>1. m # 0 /\ m \in 1 .. N
      BY <1>1, <1>7, <2>2
    <3>2. list[m].num < LastNum
      BY <1>3, <1>6, <3>1
    <3>3. list[i].num =< list[m].num /\ list[i].num \in Nat /\ list[m].num \in Nat
      BY <1>1, <2>2, <3>1
    <3> QED
      BY <3>2, <3>3
  <2> QED
    BY <2>1, <2>2
<1>9. PICK b : b = Before(list) /\ b = SubSeq(list, 1, m)
  BY <1>3, <1>5 DEF Before
<1>10. \A i \in 1 .. m : list[i] \in S
  BY <1>1, <1>2, <1>7
<1>11. /\ SubSeq(list, 1, m) \in Seq(S)
       /\ Len(SubSeq(list, 1, m)) = IF 1 =< m THEN m - 1 + 1 ELSE 0
       /\ \A i \in 1 .. m - 1 + 1 : SubSeq(list, 1, m)[i] = list[1 + i - 1]
  <2>1. 1 \in Int /\ m \in Int
    BY <1>7
  <2> QED
    BY <1>10, <2>1, SubSeqProperties
<1>12. Len(b) = m /\ b \in Seq(S)
  BY <1>1, <1>7, <1>9, <1>11
<1>13. ASSUME NEW i \in 1 .. m PROVE b[i] = list[i]
  <2>1. i \in 1 .. m - 1 + 1 /\ 1 + i - 1 = i
    BY <1>7
  <2> QED
    BY <1>9, <1>11, <2>1
<1> QED
  BY <1>1, <1>7, <1>8, <1>9, <1>12, <1>13

(* The number of the last block is that of the last row.                   *)
LastOf(lg) == IF lg = << >> THEN 0 ELSE lg[Len(lg)].num

LEMMA LastIs == ASSUME NEW lg, NEW e, NEW L, Ends(lg, e, L) PROVE LastOf(lg) = L
<1>1. /\ lg \in Seq(LogRow) /\ L \in Nat /\ Len(lg) \in Nat /\ e[0] = 0 /\ e[L] = Len(lg)
      /\ \A j \in 1 .. Len(lg) : lg[j].num \in Nat
      /\ \A n \in 0 .. L : e[n] \in 0 .. Len(lg)
  <2>1. lg \in Seq(LogRow) /\ L \in Nat /\ e \in [0 .. L -> 0 .. Len(lg)] /\ e[0] = 0 /\ e[L] = Len(lg)
    BY DEF Ends
  <2>2. \A j \in 1 .. Len(lg) : lg[j] \in LogRow
    BY <2>1, ElementOfSeq
  <2>3. \A j \in 1 .. Len(lg) : lg[j].num \in Nat
    BY <2>2 DEF LogRow
  <2> QED
    BY <2>1, <2>3, LenProperties
<1>2. CASE L = 0
  <2>1. Len(lg) = 0
    BY <1>1, <1>2
  <2>2. lg = << >>
    BY <1>1, <2>1
  <2> QED
    BY <1>2, <2>2 DEF LastOf
<1>3. CASE L # 0
  <2>1. L \in 1 .. L /\ L - 1 \in 0 .. L /\ L \in 0 .. L
    BY <1>1, <1>3
  <2>2. e[L - 1] < e[L] /\ e[L - 1] \in 0 .. Len(lg)
    BY <1>1, <2>1 DEF Ends
  <2>3. Len(lg) \in 1 .. Len(lg) /\ ~(Len(lg) =< e[L - 1])
    BY <1>1, <2>2
  <2>4. lg[Len(lg)].num =< L /\ ~(lg[Len(lg)].num =< L - 1)
    BY <1>1, <2>1, <2>3 DEF Ends
  <2>5. lg # << >>
    BY <2>3
  <2> QED
    BY <1>1, <2>3, <2>4, <2>5 DEF LastOf
<1> QED
  BY <1>2, <1>3

(* What is left of the log, the contracts and the transactions.            *)
Undo(e, y) == Chain(e) /\ 0 < LastNum /\ InOrder(smarts, LastNum) /\ InOrder(done, LastNum) /\ y = Undone(state)

LEMMA BeforeLog ==
  ASSUME NEW e, NEW y, Undo(e, y)
  PROVE  /\ Before(log) \in Seq(LogRow) /\ Len(Before(log)) = e[LastNum - 1]
         /\ \A j \in 1 .. e[LastNum - 1] : Before(log)[j] = log[j]
         /\ e[LastNum - 1] \in 0 .. Len(log) - 1
         /\ \A j \in 1 .. Len(log) : log[j].num = LastNum <=> e[LastNum - 1] < j
<1>1. PICK L, A, a : L = LastNum /\ A = Len(log) /\ a = e[L - 1]
  OBVIOUS
<1>2. /\ L \in Nat /\ 0 < L /\ A \in Nat /\ log \in Seq(LogRow) /\ e[L] = A /\ \A j \in 1 .. A : log[j].num \in Nat /\ log[j].num =< L
      /\ \A n \in 0 .. L : e[n] \in 0 .. A
  BY <1>1, ChainIs DEF Undo
<1>3. Ends(log, e, L)
  BY <1>1 DEF Undo, Chain, LogOK
<1>4. L - 1 \in 0 .. L /\ L \in 1 .. L /\ L \in 0 .. L
  BY <1>2
<1>5. a \in 0 .. A - 1
  <2>1. a < e[L] /\ a \in 0 .. A
    BY <1>1, <1>2, <1>3, <1>4 DEF Ends
  <2> QED
    BY <1>2, <2>1
<1>6. ASSUME NEW j \in 1 .. A PROVE (j =< a <=> log[j].num < L) /\ (log[j].num = L <=> a < j)
  <2>1. j =< e[L - 1] <=> log[j].num =< L - 1
    BY <1>1, <1>3, <1>4 DEF Ends
  <2> QED
    BY <1>1, <1>2, <1>5, <2>1
<1>7. ASSUME NEW i \in 1 .. A, NEW j \in 1 .. A, i =< j PROVE log[i].num =< log[j].num
  <2>1. PICK n : n = log[j].num
    OBVIOUS
  <2>2. n \in 0 .. L
    BY <1>2, <2>1
  <2>3. j =< e[n] /\ e[n] \in 0 .. A
    BY <1>1, <1>2, <1>3, <2>1, <2>2 DEF Ends
  <2>4. i =< e[n]
    BY <1>2, <1>7, <2>3
  <2> QED
    BY <1>1, <1>3, <2>1, <2>2, <2>4 DEF Ends
<1>8. /\ Before(log) \in Seq(LogRow) /\ Len(Before(log)) \in 0 .. A
      /\ \A i \in 1 .. Len(Before(log)) : Before(log)[i] = log[i]
      /\ \A i \in 1 .. A : i =< Len(Before(log)) <=> log[i].num < L
  BY <1>1, <1>2, <1>7, BeforeIs
<1>9. Len(Before(log)) = a
  <2>1. \A i \in 1 .. A : i =< Len(Before(log)) <=> i =< a
    BY <1>6, <1>8
  <2>2. PICK b \in 0 .. A : b = Len(Before(log))
    BY <1>8
  <2>3. ~(b < a)
    <3>1. ASSUME b < a PROVE FALSE
      <4>1. a \in 1 .. A /\ ~(a =< b) /\ a =< a
        BY <1>2, <1>5, <2>2, <3>1
      <4> QED
        BY <2>1, <2>2, <4>1
    <3> QED
      BY <3>1
  <2>4. ~(a < b)
    <3>1. ASSUME a < b PROVE FALSE
      <4>1. b \in 1 .. A /\ ~(b =< a) /\ b =< b
        BY <1>2, <1>5, <2>2, <3>1
      <4> QED
        BY <2>1, <2>2, <4>1
    <3> QED
      BY <3>1
  <2> QED
    BY <1>5, <2>2, <2>3, <2>4
<1> QED
  BY <1>1, <1>5, <1>6, <1>8, <1>9

LEMMA BeforeSame ==
  ASSUME NEW e, NEW y, Undo(e, y)
  PROVE  /\ Before(smarts) \in Seq(Contract) /\ Before(done) \in Seq(Done)
         /\ \A i \in DOMAIN Before(smarts) : i \in DOMAIN smarts /\ Before(smarts)[i] = smarts[i]
         /\ InOrder(Before(smarts), LastNum - 1) /\ InOrder(Before(done), LastNum - 1)
         /\ \A i \in 1 .. Len(Before(done)) : i \in 1 .. Len(done) /\ Before(done)[i] = done[i]
         /\ \A n \in 0 .. LastNum - 1 : SameUpTo(smarts, Before(smarts), n) /\ FewerUpTo(done, Before(done), n)
<1>1. PICK L, b, d : L = LastNum /\ b = Before(smarts) /\ d = Before(done)
  OBVIOUS
<1>2. smarts \in Seq(Contract) /\ done \in Seq(Done) /\ L \in Nat /\ 0 < L
  BY <1>1, ChainIs DEF Undo, Chain
<1>3. /\ \A i \in 1 .. Len(smarts) : smarts[i].num \in Nat
      /\ \A i \in 1 .. Len(done) : done[i].num \in Nat
      /\ DOMAIN smarts = 1 .. Len(smarts) /\ DOMAIN done = 1 .. Len(done) /\ Len(smarts) \in Nat /\ Len(done) \in Nat
  <2>1. DOMAIN smarts = 1 .. Len(smarts) /\ DOMAIN done = 1 .. Len(done) /\ Len(smarts) \in Nat /\ Len(done) \in Nat
    BY <1>2, LenProperties
  <2> QED
    BY <1>2, <2>1, DoneIs, SignedIs
<1>4. /\ \A i, j \in 1 .. Len(smarts) : i =< j => smarts[i].num =< smarts[j].num
      /\ \A i, j \in 1 .. Len(done) : i =< j => done[i].num =< done[j].num
  BY DEF Undo, InOrder
<1>5. /\ b \in Seq(Contract) /\ Len(b) \in 0 .. Len(smarts) /\ \A i \in 1 .. Len(b) : b[i] = smarts[i]
      /\ \A i \in 1 .. Len(smarts) : i =< Len(b) <=> smarts[i].num < L
  BY <1>1, <1>2, <1>3, <1>4, BeforeIs
<1>6. /\ d \in Seq(Done) /\ Len(d) \in 0 .. Len(done) /\ \A i \in 1 .. Len(d) : d[i] = done[i]
      /\ \A i \in 1 .. Len(done) : i =< Len(d) <=> done[i].num < L
  BY <1>1, <1>2, <1>3, <1>4, BeforeIs
<1>7. /\ \A i \in 1 .. Len(b) : i \in 1 .. Len(smarts) /\ b[i] = smarts[i] /\ smarts[i].num \in Nat /\ smarts[i].num < L
      /\ \A i \in 1 .. Len(d) : i \in 1 .. Len(done) /\ d[i] = done[i] /\ done[i].num \in Nat /\ done[i].num < L
      /\ DOMAIN b = 1 .. Len(b) /\ DOMAIN d = 1 .. Len(d)
  <2>1. \A i \in 1 .. Len(b) : i \in 1 .. Len(smarts) /\ i =< Len(b)
    BY <1>3, <1>5
  <2>2. \A i \in 1 .. Len(d) : i \in 1 .. Len(done) /\ i =< Len(d)
    BY <1>3, <1>6
  <2>3. DOMAIN b = 1 .. Len(b) /\ DOMAIN d = 1 .. Len(d)
    BY <1>5, <1>6, LenProperties
  <2>4. \A i \in 1 .. Len(b) : i \in 1 .. Len(smarts) /\ b[i] = smarts[i] /\ smarts[i].num \in Nat /\ smarts[i].num < L
    BY <1>3, <1>5, <2>1
  <2>5. \A i \in 1 .. Len(d) : i \in 1 .. Len(done) /\ d[i] = done[i] /\ done[i].num \in Nat /\ done[i].num < L
    BY <1>3, <1>6, <2>2
  <2> QED
    BY <2>3, <2>4, <2>5
<1>8. InOrder(b, L - 1)
  <2>1. \A i \in 1 .. Len(b) : b[i].num =< L - 1
    BY <1>2, <1>7
  <2> QED
    BY <1>4, <1>7, <2>1 DEF InOrder
<1>9. InOrder(d, L - 1)
  <2>1. \A i \in 1 .. Len(d) : d[i].num =< L - 1
    BY <1>2, <1>7
  <2> QED
    BY <1>4, <1>7, <2>1 DEF InOrder
<1>10. ASSUME NEW n \in 0 .. L - 1 PROVE SameUpTo(smarts, b, n) /\ FewerUpTo(done, d, n)
  <2>1. FewerUpTo(done, d, n)
    BY <1>3, <1>7 DEF FewerUpTo
  <2>2. /\ \A i : i \in Signed(smarts, n) <=> i \in 1 .. Len(smarts) /\ 0 < smarts[i].num /\ smarts[i].num =< n
        /\ \A i : i \in Signed(b, n) <=> i \in 1 .. Len(b) /\ 0 < b[i].num /\ b[i].num =< n
    BY <1>2, <1>5, SignedIs
  <2>3. ASSUME NEW i \in Signed(smarts, n) PROVE i \in Signed(b, n) /\ b[i] = smarts[i]
    <3>1. i \in 1 .. Len(smarts) /\ 0 < smarts[i].num /\ smarts[i].num =< n /\ smarts[i].num \in Nat
      BY <1>3, <2>2
    <3>2. smarts[i].num < L
      BY <1>2, <3>1
    <3>3. i =< Len(b)
      BY <1>5, <3>1, <3>2
    <3>4. i \in 1 .. Len(b)
      BY <1>5, <3>1, <3>3
    <3> QED
      BY <1>7, <2>2, <3>1, <3>4
  <2>4. \A i \in Signed(b, n) : i \in Signed(smarts, n)
    BY <1>7, <2>2
  <2> QED
    BY <2>1, <2>3, <2>4 DEF SameUpTo
<1> QED
  BY <1>1, <1>5, <1>6, <1>7, <1>8, <1>9, <1>10

(* The accounts are put back and those the block has made are cut off.     *)
Touched(a, id) == \E j \in a + 1 .. Len(log) - 1 : log[j].id = id

LEMMA UndoneIs ==
  ASSUME NEW e, NEW y, Undo(e, y), NEW a, a = e[LastNum - 1], NEW w, w = At(log, e, LastNum - 1)
  PROVE  /\ y \in Seq(Row) /\ Len(y) \in Nat /\ Len(w) \in Nat /\ Len(w) =< Len(y) /\ Len(y) =< Len(state)
         /\ ~remade => Len(y) = Len(w)
         /\ \A j \in a + 1 .. Len(log) - 1 : log[j].mode = "new" => Len(y) =< log[j].id
         /\ \A i \in 1 .. Len(y) : /\ i \in 1 .. Len(state) /\ (~Touched(a, i - 1) => y[i] = state[i])
                                   /\ y[i].cur = state[i].cur /\ y[i].key = state[i].key /\ y[i].born = state[i].born
         /\ \A j \in a + 1 .. Len(log) - 1 : log[j].mode = "old" /\ log[j].id < Len(y) =>
              /\ y[log[j].id + 1].coin = log[j].val.coin /\ y[log[j].id + 1].op = log[j].val.op
              /\ y[log[j].id + 1].smart = log[j].val.smart /\ y[log[j].id + 1].pos = log[j].val.pos
<1>1. PICK L, B, x : L = LastNum /\ B = Len(log) /\ x = At(log, e, L)
  OBVIOUS
<1>2. /\ L \in Nat /\ 0 < L /\ B \in Nat /\ a \in 0 .. B - 1 /\ Len(state) \in Nat /\ state \in Seq(Row)
      /\ \A i \in 1 .. Len(state) : state[i] \in Row
      /\ Len(w) \in Nat /\ Len(x) \in Nat /\ e[L] = B
      /\ \A j \in 1 .. B : log[j] \in LogRow /\ (log[j].num = L <=> a < j)
  <2>1. L \in Nat /\ B \in Nat /\ Len(state) \in Nat /\ state \in Seq(Row) /\ (\A i \in 1 .. Len(state) : state[i] \in Row)
        /\ e[L] = B /\ \A j \in 1 .. B : log[j] \in LogRow
    BY <1>1, ChainIs DEF Undo
  <2>2. 0 < L /\ a \in 0 .. B - 1 /\ \A j \in 1 .. B : log[j].num = L <=> a < j
    BY <1>1, BeforeLog DEF Undo
  <2>3. L \in 0 .. L /\ L - 1 \in 0 .. L
    BY <2>1, <2>2
  <2>4. Len(w) \in Nat /\ Len(x) \in Nat
    BY <1>1, <2>3, ChainIs DEF Undo
  <2> QED
    BY <2>1, <2>2, <2>4
<1>3. PICK mine : mine = a + 1 .. B - 1
  OBVIOUS
<1>4. /\ \A j \in mine : j \in 1 .. B /\ log[j].id \in Nat /\ log[j].val \in Row /\ log[j].id < Len(x) /\ log[j].mode \in {"old", "new"}
      /\ \A j \in mine : log[j].mode = "new" => Len(w) =< log[j].id
      /\ \A i, j \in mine : log[i].id = log[j].id => i = j
      /\ ~remade => \A i \in Len(w) + 1 .. Len(x) : \E j \in mine : log[j].id = i - 1 /\ log[j].mode = "new"
      /\ Len(w) =< Len(x)
  <2>1. Wrote(log, a + 1, B - 1, L, w, x, smarts, remade)
    <3>1. L \in 1 .. L
      BY <1>2
    <3> QED
      BY <1>1, <1>2, <3>1 DEF Undo, Chain, LogOK
  <2>2. ASSUME NEW j \in mine PROVE j \in 1 .. B /\ log[j].id \in Nat /\ log[j].val \in Row
    <3>1. j \in 1 .. B
      BY <1>2, <1>3
    <3> QED
      BY <1>2, <3>1 DEF LogRow
  <2> QED
    BY <1>3, <2>1, <2>2 DEF Wrote
<1>5. Len(x) =< Len(state) /\ (~remade => Len(state) = Len(x))
  BY <1>1 DEF Undo, Chain, FileOK, Like
<1>6. Min({i \in DOMAIN log : log[i].num = LastNum}) = a + 1
  <2>1. PICK S : S = {i \in DOMAIN log : log[i].num = LastNum}
    OBVIOUS
  <2>2. DOMAIN log = 1 .. B
    BY <1>1, ChainIs DEF Undo
  <2>3. \A i : i \in S <=> i \in 1 .. B /\ a < i
    BY <1>1, <1>2, <2>1, <2>2
  <2>4. a + 1 \in S /\ S \subseteq Nat
    BY <1>2, <2>3
  <2>5. Min(S) \in S /\ \A m \in S : Min(S) =< m
    BY <2>4, MinIs
  <2>6. PICK m : m = Min(S)
    OBVIOUS
  <2>7. m \in 1 .. B /\ a < m /\ m =< a + 1
    BY <2>3, <2>4, <2>5, <2>6
  <2> QED
    BY <1>2, <2>1, <2>6, <2>7
<1>7. PICK new, old : new = {log[i].id : i \in {j \in mine : log[j].mode = "new"}} /\ old = {j \in mine : log[j].mode = "old"}
  OBVIOUS
<1> DEFINE V(id) == log[CHOOSE j \in old : log[j].id = id].val
           Back(id, row) == [row EXCEPT !.coin = V(id).coin, !.op = V(id).op, !.smart = V(id).smart, !.pos = V(id).pos]
<1>8. PICK N : N = IF new = {} THEN Len(state) ELSE Min(new)
  OBVIOUS
<1>9. y = [i \in 1 .. N |-> IF \E j \in old : log[j].id = i - 1 THEN Back(i - 1, state[i]) ELSE state[i]]
  BY <1>1, <1>3, <1>6, <1>7, <1>8 DEF Undo, Undone
<1>10. new \subseteq Nat /\ \A id \in new : Len(w) =< id /\ id < Len(x)
  BY <1>4, <1>7
<1>11. N \in Nat /\ Len(w) =< N /\ N =< Len(state) /\ \A id \in new : N =< id
  <2>1. CASE new = {}
    BY <1>2, <1>4, <1>5, <1>8, <2>1
  <2>2. CASE new # {}
    <3>1. Min(new) \in new /\ \A id \in new : Min(new) =< id
      BY <1>10, <2>2, MinIs
    <3>2. PICK m : m = Min(new)
      OBVIOUS
    <3>3. m \in Nat /\ Len(w) =< m /\ m < Len(x) /\ N = m /\ \A id \in new : m =< id
      BY <1>8, <1>10, <2>2, <3>1, <3>2
    <3> QED
      BY <1>2, <1>5, <3>3
  <2> QED
    BY <2>1, <2>2
<1>12. ~remade => N = Len(w)
  <2>1. SUFFICES ASSUME ~remade, Len(w) < N PROVE FALSE
    BY <1>2, <1>11
  <2>2. Len(w) + 1 \in Len(w) + 1 .. Len(x) /\ (Len(w) + 1) - 1 = Len(w)
    BY <1>2, <1>5, <1>11, <2>1
  <2>3. PICK j \in mine : log[j].id = Len(w) /\ log[j].mode = "new"
    BY <1>4, <2>1, <2>2
  <2>4. Len(w) \in new
    BY <1>7, <2>3
  <2> QED
    BY <1>2, <1>11, <2>1, <2>4
<1>13. ASSUME NEW j \in old PROVE V(log[j].id) = log[j].val /\ log[j].val \in Row
  <2>1. \A i \in old : log[i].id = log[j].id => i = j
    BY <1>4, <1>7
  <2>2. (CHOOSE i \in old : log[i].id = log[j].id) = j
    BY <2>1
  <2> QED
    BY <1>4, <1>7, <2>2
<1> HIDE DEF V
<1>14. ASSUME NEW i \in 1 .. N
       PROVE  /\ y[i] \in Row /\ i \in 1 .. Len(state) /\ (~Touched(a, i - 1) => y[i] = state[i])
              /\ y[i].cur = state[i].cur /\ y[i].key = state[i].key /\ y[i].born = state[i].born
              /\ \A j \in old : log[j].id = i - 1 =>
                   /\ y[i].coin = log[j].val.coin /\ y[i].op = log[j].val.op
                   /\ y[i].smart = log[j].val.smart /\ y[i].pos = log[j].val.pos
  <2>1. i \in 1 .. Len(state) /\ state[i] \in Row
    BY <1>2, <1>11
  <2>2. CASE \E j \in old : log[j].id = i - 1
    <3>1. PICK j \in old : log[j].id = i - 1
      BY <2>2
    <3>2. V(i - 1) = log[j].val /\ log[j].val \in Row /\ \A k \in old : log[k].id = i - 1 => k = j
      BY <1>4, <1>7, <1>13, <3>1
    <3>3. PICK v : v = log[j].val
      OBVIOUS
    <3>4. y[i] = [state[i] EXCEPT !.coin = v.coin, !.op = v.op, !.smart = v.smart, !.pos = v.pos]
      BY <1>9, <2>2, <3>2, <3>3
    <3>5. v \in Row
      BY <3>2, <3>3
    <3>6. /\ y[i] \in Row /\ y[i].cur = state[i].cur /\ y[i].key = state[i].key /\ y[i].born = state[i].born
          /\ y[i].coin = v.coin /\ y[i].op = v.op /\ y[i].smart = v.smart /\ y[i].pos = v.pos
      BY <2>1, <3>4, <3>5 DEF Row
    <3>7. Touched(a, i - 1)
      BY <1>1, <1>3, <1>7, <3>1 DEF Touched
    <3> QED
      BY <2>1, <3>2, <3>3, <3>6, <3>7
  <2>3. CASE ~\E j \in old : log[j].id = i - 1
    <3>1. y[i] = state[i]
      BY <1>9, <2>3
    <3> QED
      BY <2>1, <2>3, <3>1
  <2> QED
    BY <2>2, <2>3
<1>15. y \in Seq(Row) /\ Len(y) = N
  <2>1. y \in [1 .. N -> Row]
    BY <1>9, <1>14
  <2> QED
    BY <1>11, <2>1, SeqOf
<1>16. \A j \in mine : log[j].mode = "new" => N =< log[j].id
  BY <1>7, <1>11
<1>17. ASSUME NEW j \in mine, log[j].mode = "old", log[j].id < N
       PROVE  /\ y[log[j].id + 1].coin = log[j].val.coin /\ y[log[j].id + 1].op = log[j].val.op
              /\ y[log[j].id + 1].smart = log[j].val.smart /\ y[log[j].id + 1].pos = log[j].val.pos
  <2>1. PICK i : i = log[j].id + 1
    OBVIOUS
  <2>2. i \in 1 .. N /\ log[j].id = i - 1 /\ j \in old
    BY <1>4, <1>7, <1>11, <1>17, <2>1
  <2> QED
    BY <1>14, <2>1, <2>2
<1> QED
  BY <1>1, <1>2, <1>3, <1>11, <1>12, <1>14, <1>15, <1>16, <1>17

LEMMA UndoneFile ==
  ASSUME NEW e, NEW y, Undo(e, y), NEW w, w = At(log, e, LastNum - 1)
  PROVE  FileOK(y, w, LastNum - 1, Before(smarts), remade, hist)
<1>1. PICK L, B, x, a, mine : /\ L = LastNum /\ B = Len(log) /\ x = At(log, e, L) /\ a = e[LastNum - 1]
                              /\ mine = a + 1 .. B - 1
  OBVIOUS
<1>2. /\ y \in Seq(Row) /\ Len(y) \in Nat /\ Len(w) \in Nat /\ Len(w) =< Len(y) /\ Len(y) =< Len(state)
      /\ ~remade => Len(y) = Len(w)
      /\ \A j \in mine : log[j].mode = "new" => Len(y) =< log[j].id
      /\ \A i \in 1 .. Len(y) : /\ i \in 1 .. Len(state) /\ (~Touched(a, i - 1) => y[i] = state[i])
                                /\ y[i].cur = state[i].cur /\ y[i].key = state[i].key /\ y[i].born = state[i].born
      /\ \A j \in mine : log[j].mode = "old" /\ log[j].id < Len(y) =>
              /\ y[log[j].id + 1].coin = log[j].val.coin /\ y[log[j].id + 1].op = log[j].val.op
              /\ y[log[j].id + 1].smart = log[j].val.smart /\ y[log[j].id + 1].pos = log[j].val.pos
  BY <1>1, UndoneIs
<1>3. /\ L \in Nat /\ 0 < L /\ B \in Nat /\ a \in 0 .. B - 1 /\ e[L] = B /\ Len(x) \in Nat /\ Len(state) \in Nat
      /\ \A i \in 1 .. Len(state) : state[i] \in Row
      /\ \A i \in 1 .. Len(w) : w[i] \in Row
      /\ \A i \in 1 .. Len(x) : x[i] \in Row
      /\ L \in 0 .. L /\ L - 1 \in 0 .. L /\ L \in 1 .. L /\ L - 1 \in 0 .. L - 1
  <2>1. L \in Nat /\ 0 < L /\ B \in Nat /\ e[L] = B /\ Len(state) \in Nat /\ \A i \in 1 .. Len(state) : state[i] \in Row
    BY <1>1, ChainIs DEF Undo
  <2>2. a \in 0 .. B - 1
    BY <1>1, BeforeLog
  <2>3. L \in 0 .. L /\ L - 1 \in 0 .. L /\ L \in 1 .. L /\ L - 1 \in 0 .. L - 1
    BY <2>1
  <2>4. /\ Len(x) \in Nat /\ \A i \in 1 .. Len(w) : w[i] \in Row
        /\ \A i \in 1 .. Len(x) : x[i] \in Row
    BY <1>1, <2>3, ChainIs DEF Undo
  <2> QED
    BY <2>1, <2>2, <2>3, <2>4
<1>4. Wrote(log, a + 1, B - 1, L, w, x, smarts, remade)
  BY <1>1, <1>3 DEF Undo, Chain, LogOK
<1>5. /\ Len(w) =< Len(x) /\ Len(x) =< Len(state)
      /\ \A j \in mine : /\ log[j].mode \in {"old", "new"} /\ j \in 1 .. B /\ log[j].num = L
                         /\ log[j].id \in Nat /\ log[j].val \in Row
                         /\ log[j].mode = "old" =>
                              IF log[j].id < Len(w) THEN w[log[j].id + 1] = [log[j].val EXCEPT !.pos = 0] ELSE log[j].val.coin = NoCoin
      /\ \A i \in 1 .. Len(x) : x[i] = [state[i] EXCEPT !.pos = 0]
      /\ \A i \in Len(x) + 1 .. Len(state) : state[i].coin = NoCoin
  <2>1. Like(state, x)
    BY <1>1 DEF Undo, Chain, FileOK
  <2>2. ASSUME NEW j \in mine PROVE j \in 1 .. B /\ log[j].num = L /\ log[j].id \in Nat /\ log[j].val \in Row
    <3>1. j \in 1 .. B /\ a < j
      BY <1>1, <1>3
    <3>2. log[j] \in LogRow
      BY <1>1, <3>1, ChainIs DEF Undo
    <3> QED
      BY <1>1, <3>1, <3>2, BeforeLog DEF LogRow
  <2> QED
    BY <1>1, <1>4, <2>1, <2>2 DEF Like, Wrote
<1>6. ASSUME NEW i \in 1 .. Len(y), Touched(a, i - 1)
      PROVE  \E j \in mine : log[j].id = i - 1 /\ log[j].mode = "old" /\ y[i].coin = log[j].val.coin /\ y[i].op = log[j].val.op
                             /\ y[i].smart = log[j].val.smart /\ y[i].pos = log[j].val.pos
  <2>1. PICK j \in mine : log[j].id = i - 1
    BY <1>1, <1>6 DEF Touched
  <2>3. i - 1 < Len(y) /\ ~(Len(y) =< i - 1) /\ (i - 1) + 1 = i
    BY <1>2
  <2>4. log[j].mode # "new"
    BY <1>2, <2>1, <2>3
  <2>2. log[j].mode = "old" /\ log[j].id < Len(y) /\ log[j].id + 1 = i
    BY <1>5, <2>1, <2>3, <2>4
  <2> QED
    BY <1>2, <2>1, <2>2
<1>7. ASSUME NEW i \in 1 .. Len(y), ~Touched(a, i - 1)
      PROVE  y[i] = state[i] /\ (i =< Len(x) => IF i =< Len(w) THEN x[i] = w[i] ELSE x[i].coin = NoCoin)
  <2>1. \A j \in mine : log[j].id # i - 1
    BY <1>1, <1>7 DEF Touched
  <2>2. i =< Len(x) => i \in 1 .. Len(x)
    BY <1>3
  <2> QED
    BY <1>1, <1>2, <1>4, <1>7, <2>1, <2>2 DEF Wrote
<1>8. ASSUME NEW i \in 1 .. Len(w) PROVE w[i] = [y[i] EXCEPT !.pos = 0]
  <2>1. i \in 1 .. Len(y) /\ i \in 1 .. Len(x) /\ i \in 1 .. Len(state) /\ i - 1 < Len(w) /\ (i - 1) + 1 = i
    BY <1>2, <1>3, <1>5
  <2>2. w[i] \in Row /\ state[i] \in Row /\ y[i] \in Row /\ x[i] = [state[i] EXCEPT !.pos = 0]
    BY <1>2, <1>3, <1>5, <2>1, ElementOfSeq
  <2>3. CASE Touched(a, i - 1)
    <3>1. PICK j \in mine : log[j].id = i - 1 /\ log[j].mode = "old" /\ y[i].coin = log[j].val.coin /\ y[i].op = log[j].val.op
                             /\ y[i].smart = log[j].val.smart
      BY <1>6, <2>1, <2>3
    <3>2. PICK v : v = log[j].val
      OBVIOUS
    <3>3. w[i] = [v EXCEPT !.pos = 0] /\ v \in Row
      BY <1>5, <2>1, <3>1, <3>2
    <3>4. y[i].cur = x[i].cur /\ y[i].key = x[i].key /\ y[i].born = x[i].born
      BY <1>2, <2>1, <2>2 DEF Row
    <3>5. x[i].cur = w[i].cur /\ x[i].key = w[i].key /\ x[i].born = w[i].born
      BY <1>4 DEF Wrote
    <3>6. /\ w[i].cur = y[i].cur /\ w[i].key = y[i].key /\ w[i].born = y[i].born
          /\ w[i].coin = y[i].coin /\ w[i].op = y[i].op /\ w[i].smart = y[i].smart /\ w[i].pos = 0
      BY <3>1, <3>2, <3>3, <3>4, <3>5 DEF Row
    <3> QED
      BY <2>2, <3>6 DEF Row
  <2>4. CASE ~Touched(a, i - 1)
    BY <1>7, <2>1, <2>2, <2>4
  <2> QED
    BY <2>3, <2>4
<1>9. ASSUME NEW i \in Len(w) + 1 .. Len(y) PROVE y[i].coin = NoCoin
  <2>1. i \in 1 .. Len(y) /\ i \in 1 .. Len(state) /\ ~(i =< Len(w)) /\ ~(i - 1 < Len(w))
    BY <1>2
  <2>2. CASE Touched(a, i - 1)
    <3>1. PICK j \in mine : log[j].id = i - 1 /\ log[j].mode = "old" /\ y[i].coin = log[j].val.coin
      BY <1>6, <2>1, <2>2
    <3> QED
      BY <1>5, <2>1, <3>1
  <2>3. CASE ~Touched(a, i - 1)
    <3>1. y[i] = state[i] /\ (i =< Len(x) => x[i].coin = NoCoin)
      BY <1>7, <2>1, <2>3
    <3>2. CASE i =< Len(x)
      <4>1. x[i] = [state[i] EXCEPT !.pos = 0] /\ state[i] \in Row
        BY <1>3, <1>5, <2>1, <3>2
      <4> QED
        BY <3>1, <3>2, <4>1 DEF Row
    <3>3. CASE ~(i =< Len(x))
      <4>1. i \in Len(x) + 1 .. Len(state)
        BY <1>3, <2>1, <3>3
      <4> QED
        BY <1>5, <3>1, <4>1
    <3> QED
      BY <3>2, <3>3
  <2> QED
    BY <2>2, <2>3
<1>10. Like(y, w)
  BY <1>2, <1>8, <1>9 DEF Like
<1>11. ASSUME NEW id \in StartHistory .. Len(y) - 1 PROVE Expl(hist, Before(smarts), id, y[id + 1], L - 1)
  <2>1. StartHistory \in Nat
    BY AccountsAssumption
  <2>2. PICK i : i = id + 1
    OBVIOUS
  <2>3. id \in Nat /\ i \in 1 .. Len(y) /\ i - 1 = id /\ StartHistory =< id /\ i \in 1 .. Len(state)
    BY <1>2, <2>1, <2>2
  <2>4. Expl(hist, smarts, id, y[i], L - 1)
    <3>1. CASE Touched(a, id)
      <4>1. PICK j \in mine : log[j].id = id /\ log[j].mode = "old" /\ y[i].coin = log[j].val.coin /\ y[i].pos = log[j].val.pos
        BY <1>6, <2>3, <3>1
      <4>2. j \in 1 .. B /\ log[j].num = L
        BY <1>5
      <4>3. Expl(hist, smarts, id, log[j].val, L - 1)
        BY <1>1, <2>3, <4>1, <4>2 DEF Undo, Chain, LogOK
      <4> QED
        BY <4>1, <4>3 DEF Expl
    <3>2. CASE ~Touched(a, id)
      <4>1. y[i] = state[i]
        BY <1>7, <2>3, <3>2
      <4>2. Expl(hist, smarts, id, state[i], L)
        <5>1. id \in StartHistory .. Len(state) - 1
          BY <1>3, <2>1, <2>3
        <5> QED
          BY <1>1, <2>2, <5>1 DEF Undo, Chain, FileOK
      <4>3. StartBy(smarts, id, L) = StartBy(smarts, id, L - 1)
        <5>1. smarts \in Seq(Contract) /\ DOMAIN smarts = 1 .. Len(smarts)
          BY LenProperties DEF Undo, Chain
        <5>2. /\ \A k : k \in Signed(smarts, L) <=> k \in 1 .. Len(smarts) /\ 0 < smarts[k].num /\ smarts[k].num =< L
              /\ \A k : k \in Signed(smarts, L - 1) <=> k \in 1 .. Len(smarts) /\ 0 < smarts[k].num /\ smarts[k].num =< L - 1
              /\ \A k \in 1 .. Len(smarts) : smarts[k].num \in Nat
          BY <5>1, SignedIs
        <5>3. \A k \in 1 .. Len(smarts) : smarts[k].num = L => smarts[k].account # id
          <6>1. ASSUME NEW k \in 1 .. Len(smarts), smarts[k].num = L, smarts[k].account = id PROVE FALSE
            <7>1. \E j \in mine : log[j].id = id
              BY <1>1, <1>4, <5>1, <6>1 DEF Wrote
            <7> QED
              BY <1>1, <3>2, <7>1 DEF Touched
          <6> QED
            BY <6>1
        <5>4. \A k \in 1 .. Len(smarts) : smarts[k].num =< L <=> smarts[k].num =< L - 1 \/ smarts[k].num = L
          BY <1>3, <5>2
        <5>5. (\E k \in Signed(smarts, L) : smarts[k].account = id) <=> \E k \in Signed(smarts, L - 1) : smarts[k].account = id
          BY <5>2, <5>3, <5>4
        <5> QED
          BY <5>5 DEF StartBy
      <4> QED
        BY <4>1, <4>2, <4>3 DEF Expl
    <3> QED
      BY <3>1, <3>2
  <2>5. SameUpTo(smarts, Before(smarts), L - 1)
    BY <1>1, <1>3, BeforeSame
  <2> QED
    BY <2>2, <2>4, <2>5, SameIs
<1>12. ListOK(hist)
  BY ChainIs DEF Undo
<1> QED
  BY <1>1, <1>2, <1>10, <1>11, <1>12 DEF FileOK

LEMMA WroteBefore ==
  ASSUME NEW lg, NEW lo, NEW hi, NEW n, NEW w, NEW x, NEW sm, NEW rem, Wrote(lg, lo, hi, n, w, x, sm, rem),
         NEW sm2, \A i \in DOMAIN sm2 : i \in DOMAIN sm /\ sm2[i] = sm[i]
  PROVE  Wrote(lg, lo, hi, n, w, x, sm2, rem)
<1>1. \A i \in DOMAIN sm2 : sm2[i].num = n => \E j \in lo .. hi : lg[j].id = sm2[i].account
  BY DEF Wrote
<1> QED
  BY <1>1 DEF Wrote

LEMMA UndoneLog ==
  ASSUME NEW e, NEW y, Undo(e, y)
  PROVE  \E e2 : /\ LogOK(Before(log), e2, LastNum - 1, Before(smarts), Before(done), remade, hist)
                 /\ At(Before(log), e2, LastNum - 1) = At(log, e, LastNum - 1)
<1>1. PICK L, A, a, lg, sm, dn : /\ L = LastNum /\ A = Len(log) /\ a = e[L - 1] /\ lg = Before(log)
                                 /\ sm = Before(smarts) /\ dn = Before(done)
  OBVIOUS
<1>2. PICK e2 : e2 = [n \in 0 .. L - 1 |-> e[n]]
  OBVIOUS
<1>3. /\ lg \in Seq(LogRow) /\ Len(lg) = a /\ \A j \in 1 .. a : lg[j] = log[j]
      /\ a \in 0 .. A - 1
  BY <1>1, BeforeLog
<1>4. /\ L \in Nat /\ 0 < L /\ A \in Nat /\ \A n \in 0 .. L : e[n] \in 0 .. A
      /\ \A j \in 1 .. A : log[j].num \in Nat
  BY <1>1, ChainIs DEF Undo
<1>5. /\ e[0] = 0
      /\ \A n \in 0 .. L : \A j \in 1 .. A : j =< e[n] <=> log[j].num =< n
      /\ \A n \in 1 .. L : e[n - 1] < e[n] /\ log[e[n]].mode = "sum"
  BY <1>1 DEF Undo, Chain, LogOK, Ends
<1>6. /\ L - 1 \in 0 .. L - 1 /\ L - 1 \in 0 .. L /\ L - 1 \in Nat
      /\ \A n \in 0 .. L - 1 : n \in 0 .. L
      /\ \A n \in 1 .. L - 1 : n \in 1 .. L /\ n \in 0 .. L - 1 /\ n - 1 \in 0 .. L - 1 /\ n - 1 \in 0 .. L
  BY <1>4
<1>7. ASSUME NEW n \in 0 .. L - 1 PROVE e2[n] = e[n] /\ e[n] \in 0 .. a
  <2>1. e[n] \in 0 .. A /\ n \in 0 .. L
    BY <1>4, <1>6
  <2>2. CASE e[n] = 0
    BY <1>2, <1>3, <2>2
  <2>3. CASE e[n] # 0
    <3>1. e[n] \in 1 .. A /\ e[n] =< e[n]
      BY <1>4, <2>1, <2>3
    <3>2. log[e[n]].num =< n /\ log[e[n]].num \in Nat
      BY <1>4, <1>5, <2>1, <3>1
    <3>3. log[e[n]].num =< L - 1
      BY <1>4, <3>2
    <3>4. e[n] =< e[L - 1]
      BY <1>5, <1>6, <3>1, <3>3
    <3> QED
      BY <1>1, <1>2, <1>3, <2>1, <3>4
  <2> QED
    BY <2>2, <2>3
<1>8. ASSUME NEW n \in 1 .. L - 1 PROVE e[n] \in 1 .. a /\ e[n - 1] \in 0 .. a /\ e[n - 1] < e[n]
  <2>1. e[n] \in 0 .. a /\ e[n - 1] \in 0 .. a /\ e[n - 1] < e[n]
    BY <1>5, <1>6, <1>7
  <2> QED
    BY <1>3, <2>1
<1>9. ASSUME NEW n \in 0 .. L - 1 PROVE At(lg, e2, n) = At(log, e, n)
  <2>1. CASE n = 0
    BY <2>1 DEF At
  <2>2. CASE n # 0
    <3>1. n \in 1 .. L - 1
      BY <1>4, <2>2
    <3>2. lg[e[n]] = log[e[n]] /\ e2[n] = e[n]
      BY <1>3, <1>7, <1>8, <3>1
    <3> QED
      BY <2>2, <3>2 DEF At
  <2> QED
    BY <2>1, <2>2
<1>10. Ends(lg, e2, L - 1)
  <2>1. e2 \in [0 .. L - 1 -> 0 .. a]
    BY <1>2, <1>7
  <2>2. e2[0] = 0 /\ e2[L - 1] = a
    <3>1. 0 \in 0 .. L - 1
      BY <1>4
    <3> QED
      BY <1>1, <1>5, <1>6, <1>7, <3>1
  <2>3. ASSUME NEW n \in 0 .. L - 1, NEW j \in 1 .. a PROVE j =< e2[n] <=> lg[j].num =< n
    <3>1. j \in 1 .. A /\ n \in 0 .. L
      BY <1>3, <1>4, <1>6
    <3> QED
      BY <1>3, <1>5, <1>7, <3>1
  <2>4. ASSUME NEW n \in 1 .. L - 1 PROVE e2[n - 1] < e2[n] /\ lg[e2[n]].mode = "sum"
    <3>1. e2[n - 1] = e[n - 1] /\ e2[n] = e[n] /\ lg[e[n]] = log[e[n]]
      BY <1>3, <1>6, <1>7, <1>8
    <3> QED
      BY <1>5, <1>6, <3>1
  <2> QED
    BY <1>3, <1>6, <2>1, <2>2, <2>3, <2>4 DEF Ends
<1>11. ASSUME NEW n \in 0 .. L - 1
       PROVE  RowsOK(sm, dn, n, At(lg, e2, n)) /\ \A i \in 1 .. Len(At(lg, e2, n)) : At(lg, e2, n)[i].pos = 0
  <2>1. RowsOK(smarts, done, n, At(log, e, n)) /\ \A i \in 1 .. Len(At(log, e, n)) : At(log, e, n)[i].pos = 0
    BY <1>1, <1>6 DEF Undo, Chain, LogOK
  <2>2. SameUpTo(smarts, sm, n) /\ FewerUpTo(done, dn, n)
    BY <1>1, BeforeSame
  <2>3. RowsOK(sm, dn, n, At(log, e, n))
    BY <2>1, <2>2, SameIs
  <2> QED
    BY <1>9, <2>1, <2>3
<1>12. ASSUME NEW n \in 1 .. L - 1
       PROVE  Wrote(lg, e2[n - 1] + 1, e2[n] - 1, n, At(lg, e2, n - 1), At(lg, e2, n), sm, remade)
  <2>1. PICK lo, hi : lo = e[n - 1] + 1 /\ hi = e[n] - 1
    OBVIOUS
  <2>2. e2[n - 1] = e[n - 1] /\ e2[n] = e[n] /\ At(lg, e2, n - 1) = At(log, e, n - 1) /\ At(lg, e2, n) = At(log, e, n)
    BY <1>6, <1>7, <1>9
  <2>3. Wrote(log, lo, hi, n, At(log, e, n - 1), At(log, e, n), smarts, remade)
    BY <1>1, <1>6, <2>1 DEF Undo, Chain, LogOK
  <2>4. \A j \in lo .. hi : lg[j] = log[j]
    <3>1. \A j \in lo .. hi : j \in 1 .. a
      BY <1>3, <1>8, <2>1
    <3> QED
      BY <1>3, <3>1
  <2>5. Wrote(lg, lo, hi, n, At(log, e, n - 1), At(log, e, n), smarts, remade)
    BY <2>3, <2>4, WroteSame
  <2>6. \A i \in DOMAIN sm : i \in DOMAIN smarts /\ sm[i] = smarts[i]
    BY <1>1, BeforeSame
  <2>7. Wrote(lg, lo, hi, n, At(log, e, n - 1), At(log, e, n), sm, remade)
    BY <2>5, <2>6, WroteBefore
  <2> QED
    BY <2>1, <2>2, <2>7
<1>13. ASSUME NEW j \in 1 .. a, lg[j].mode = "old", StartHistory =< lg[j].id
       PROVE  Expl(hist, sm, lg[j].id, lg[j].val, lg[j].num - 1)
  <2>1. j \in 1 .. A /\ lg[j] = log[j]
    BY <1>3, <1>4
  <2>2. Expl(hist, smarts, log[j].id, log[j].val, log[j].num - 1)
    BY <1>1, <1>13, <2>1 DEF Undo, Chain, LogOK
  <2>3. PICK n : n = log[j].num - 1
    OBVIOUS
  <2>4. n \in 0 .. L - 1
    <3>1. log[j].num =< L - 1 /\ log[j].num \in Nat
      <4>1. j =< e[L - 1]
        BY <1>1, <1>3
      <4> QED
        BY <1>4, <1>5, <1>6, <2>1, <4>1
    <3>2. ~(log[j].num =< 0)
      <4>1. 0 \in 0 .. L /\ ~(j =< 0)
        BY <1>3, <1>4
      <4> QED
        BY <1>5, <2>1, <4>1
    <3> QED
      BY <1>4, <2>3, <3>1, <3>2
  <2>5. SameUpTo(smarts, sm, n)
    BY <1>1, <2>4, BeforeSame
  <2>6. Expl(hist, sm, log[j].id, log[j].val, n)
    BY <2>2, <2>3, <2>5, SameIs
  <2> QED
    BY <2>1, <2>3, <2>6
<1>14. LogOK(lg, e2, L - 1, sm, dn, remade, hist)
  BY <1>3, <1>10, <1>11, <1>12, <1>13 DEF LogOK
<1> QED
  BY <1>1, <1>6, <1>9, <1>14
-----------------------------------------------------------------------------
(* A block begins.                                                         *)
LEMMA RowsOfFile ==
  ASSUME NEW e, Chain(e)
  PROVE  RowsOK(smarts, done, LastNum, state)
<1>1. PICK x : x = At(log, e, LastNum)
  OBVIOUS
<1>2. LastNum \in 0 .. LastNum /\ state \in Seq(Row) /\ Len(state) \in Nat /\ Len(x) \in Nat
      /\ (\A i \in 1 .. Len(state) : state[i] \in Row)
  <2>1. LastNum \in 0 .. LastNum
    BY ChainIs
  <2> QED
    BY <1>1, <2>1, ChainIs
<1>3. RowsOK(smarts, done, LastNum, x) /\ Like(state, x) /\ smarts \in Seq(Contract) /\ done \in Seq(Done)
  BY <1>1, <1>2 DEF Chain, LogOK, FileOK
<1>4. ASSUME NEW i \in 1 .. Len(x) PROVE state[i].cur = x[i].cur /\ state[i].coin = x[i].coin /\ state[i].op = x[i].op
  <2>1. i \in 1 .. Len(state) /\ x[i] = [state[i] EXCEPT !.pos = 0]
    BY <1>2, <1>3 DEF Like
  <2>2. state[i] \in Row
    BY <1>2, <2>1
  <2> QED
    BY <2>1, <2>2 DEF Row
<1>5. Len(x) =< Len(state) /\ \A i \in Len(x) + 1 .. Len(state) : state[i].coin = NoCoin
  BY <1>3 DEF Like
<1> QED
  BY <1>2, <1>3, <1>4, <1>5, RowsKeep

LEMMA NextNumber ==
  ASSUME NEW sm \in Seq(Contract), NEW dn \in Seq(Done), NEW L \in Nat, InOrder(sm, L), InOrder(dn, L)
  PROVE  /\ Signed(sm, L + 1) = Signed(sm, L) /\ \A id : StartBy(sm, id, L + 1) = StartBy(sm, id, L)
         /\ \A x : RowsOK(sm, dn, L, x) => RowsOK(sm, dn, L + 1, x)
<1>1. /\ \A i \in 1 .. Len(sm) : sm[i].num \in Nat /\ sm[i].num =< L
      /\ \A i \in DOMAIN dn : dn[i].num \in Nat /\ dn[i].num =< L
  <2>1. DOMAIN dn = 1 .. Len(dn)
    BY LenProperties
  <2> QED
    BY <2>1, DoneIs, SignedIs DEF InOrder
<1>2. Signed(sm, L + 1) = Signed(sm, L)
  <2>1. /\ \A i : i \in Signed(sm, L) <=> i \in 1 .. Len(sm) /\ 0 < sm[i].num /\ sm[i].num =< L
        /\ \A i : i \in Signed(sm, L + 1) <=> i \in 1 .. Len(sm) /\ 0 < sm[i].num /\ sm[i].num =< L + 1
    BY SignedIs
  <2>2. \A i \in 1 .. Len(sm) : sm[i].num =< L + 1
    BY <1>1
  <2> QED
    BY <1>1, <2>1, <2>2
<1>3. \A id : StartBy(sm, id, L + 1) = StartBy(sm, id, L)
  BY <1>2 DEF StartBy
<1>4. ASSUME NEW x, RowsOK(sm, dn, L, x) PROVE RowsOK(sm, dn, L + 1, x)
  <2>1. \A cur \in Nat : Held(x, cur) = IssuedBy(sm, cur, L + 1)
    BY <1>2, <1>4 DEF RowsOK, IssuedBy
  <2>2. \A i \in DOMAIN dn : dn[i].num =< L + 1 /\ Pays(dn[i].tx) =>
          dn[i].tx.from < Len(x) /\ dn[i].tx.op < x[dn[i].tx.from + 1].op
    BY <1>1, <1>4 DEF RowsOK
  <2> QED
    BY <1>2, <1>4, <2>1, <2>2 DEF RowsOK
<1> QED
  BY <1>2, <1>3, <1>4

(* A record with the fields of a block.                                    *)
LEMMA BlockIs ==
  ASSUME NEW on \in BOOLEAN, NEW num \in Nat, NEW map \in Maps, NEW max \in Nat, NEW pays \in Seq(Paying),
         NEW made \in BOOLEAN, NEW count \in Nat
  PROVE  [on |-> on, num |-> num, map |-> map, max |-> max, hist |-> pays, made |-> made, count |-> count] \in Block
BY DEF Block

LEMMA BeginBlock ==
  ASSUME NEW e, Chain(e), InOrder(smarts, LastNum), InOrder(done, LastNum),
         NEW c, c = [Idle EXCEPT !.on = TRUE, !.num = LastNum + 1, !.max = Len(state) - 1]
  PROVE  BlockOK(state, smarts, done, remade, hist, c)
<1>1. c.on = TRUE /\ c.num = LastNum + 1 /\ c.map = << >> /\ c.max = Len(state) - 1 /\ c.hist = << >>
  BY DEF Idle
<1>2. /\ LastNum \in Nat /\ state \in Seq(Row) /\ Len(state) \in Nat /\ smarts \in Seq(Contract) /\ done \in Seq(Done)
      /\ ListOK(hist) /\ \A i \in 1 .. Len(state) : state[i] \in Row
  BY ChainIs DEF Chain
<1>3. RowsOK(smarts, done, LastNum, state)
  BY RowsOfFile
<1>4. Len(GenesisRows) \in Nat /\ 0 < Len(GenesisRows) /\ Len(GenesisRows) =< Len(state)
  <2>1. Developer \in 0 .. Len(GenesisRows) - 1
    BY AccountsAssumption
  <2> QED
    BY <1>3, <2>1, GenesisIs DEF RowsOK
<1>5. DOMAIN c.map = {} /\ c.map \in Maps
  <2>1. DOMAIN c.map = {}
    BY <1>1
  <2>2. c.map = [i \in DOMAIN c.map |-> c.map[i]]
    BY <1>1
  <2> QED
    BY <2>1, <2>2, MapsIs
<1>6. c \in Block
  <2>1. Len(state) - 1 \in Nat /\ LastNum + 1 \in Nat /\ << >> \in Seq(Paying)
    BY <1>2, <1>4
  <2>2. PICK m : m = << >>
    OBVIOUS
  <2>3. m \in Maps /\ m \in Seq(Paying)
    BY <1>1, <1>5, <2>1, <2>2
  <2>4. PICK num, max : num = LastNum + 1 /\ max = Len(state) - 1
    OBVIOUS
  <2>5. c = [on |-> TRUE, num |-> num, map |-> m, max |-> max, hist |-> m, made |-> FALSE, count |-> 0]
    BY <2>2, <2>4 DEF Idle
  <2>6. num \in Nat /\ max \in Nat
    BY <2>1, <2>4
  <2>7. TRUE \in BOOLEAN /\ FALSE \in BOOLEAN /\ 0 \in Nat
    OBVIOUS
  <2>8. [on |-> TRUE, num |-> num, map |-> m, max |-> max, hist |-> m, made |-> FALSE, count |-> 0] \in Block
    BY <2>3, <2>6, <2>7, BlockIs, Zenon
  <2> QED
    BY <2>5, <2>8
<1>7. RowsOf(state, c) = state
  <2>1. c.max + 1 = Len(state)
    BY <1>1, <1>2
  <2>2. \A i \in 1 .. Len(state) : AccountOf(state, c, i - 1) = state[i]
    <3>1. ASSUME NEW i \in 1 .. Len(state) PROVE AccountOf(state, c, i - 1) = state[i]
      <4>1. (i - 1) + 1 = i
        BY <1>2
      <4> QED
        BY <1>5, <4>1 DEF AccountOf
    <3> QED
      BY <3>1
  <2>3. RowsOf(state, c) = [i \in 1 .. Len(state) |-> state[i]]
    BY <2>1, <2>2 DEF RowsOf
  <2>4. state = [i \in 1 .. Len(state) |-> state[i]]
    BY <1>2
  <2> QED
    BY <2>3, <2>4
<1>8. RowsOK(smarts, done, c.num, RowsOf(state, c))
  BY <1>1, <1>2, <1>3, <1>7, NextNumber
<1>9. \A i \in DOMAIN smarts : smarts[i].num # c.num
  <2>1. \A i \in DOMAIN smarts : smarts[i].num \in Nat /\ smarts[i].num =< LastNum
    <3>1. DOMAIN smarts = 1 .. Len(smarts)
      BY <1>2, LenProperties
    <3> QED
      BY <1>2, <3>1, SignedIs DEF InOrder
  <2> QED
    BY <1>1, <1>2, <2>1
<1>10. ASSUME NEW id \in StartHistory .. c.max
       PROVE  Worth(AccountOf(state, c, id).coin) = StartBy(smarts, id, c.num) + Listed(hist, PosOf(state, id)) + Pend(c.hist, id)
  <2>1. StartHistory \in Nat
    BY AccountsAssumption
  <2>2. id \in StartHistory .. Len(state) - 1 /\ id \in Nat /\ id < Len(state)
    BY <1>1, <1>2, <2>1
  <2>3. Expl(hist, smarts, id, state[id + 1], LastNum)
    BY <2>2 DEF Chain, FileOK
  <2>4. StartBy(smarts, id, c.num) = StartBy(smarts, id, LastNum)
    BY <1>1, <1>2, NextNumber
  <2>5. Pend(c.hist, id) = 0
    <3>1. << >> \in Seq(Paying) /\ Len(<< >>) = 0
      OBVIOUS
    <3>2. PICK h : h = << >>
      OBVIOUS
    <3>3. c.hist = h /\ h \in Seq(Paying) /\ Len(h) = 0
      BY <1>1, <3>1, <3>2
    <3>4. \A k \in 1 .. Len(h) : h[k].id # id
      BY <3>3
    <3> QED
      BY <3>3, <3>4, PendNone
  <2>6. AccountOf(state, c, id) = state[id + 1] /\ PosOf(state, id) = state[id + 1].pos
    BY <1>5, <2>2 DEF AccountOf, PosOf
  <2>7. StartBy(smarts, id, c.num) \in Int /\ Listed(hist, state[id + 1].pos) \in Int
    <3>1. state[id + 1].pos \in 0 .. Len(hist)
      BY <2>3 DEF Expl
    <3> QED
      BY <1>2, <2>2, <3>1, ListIs, StartIsInt
  <2> QED
    BY <2>3, <2>4, <2>5, <2>6, <2>7 DEF Expl
<1>11. /\ 0 < c.num /\ Len(state) =< c.max + 1 /\ DOMAIN c.map \subseteq 0 .. c.max /\ Len(state) .. c.max \subseteq DOMAIN c.map
       /\ Len(c.hist) = 0
  BY <1>1, <1>2, <1>5
<1> QED
  BY <1>1, <1>2, <1>4, <1>5, <1>6, <1>8, <1>9, <1>10, <1>11 DEF BlockOK
-----------------------------------------------------------------------------
(* Contracts and transactions of the block being executed do not change    *)
(* what is said of the blocks before it.                                   *)
LEMMA ChainMore ==
  ASSUME NEW e, Chain(e), NEW sm, NEW dn, NEW rem, remade => rem,
         \A n \in 0 .. LastNum : SameUpTo(smarts, sm, n) /\ FewerUpTo(done, dn, n),
         \A i \in DOMAIN sm : sm[i].num \in Nat
  PROVE  /\ LogOK(log, e, LastNum, sm, dn, rem, hist)
         /\ FileOK(state, At(log, e, LastNum), LastNum, sm, rem, hist)
<1>1. PICK L, B : L = LastNum /\ B = Len(log)
  OBVIOUS
<1>2. L \in Nat /\ L \in 0 .. L /\ \A j \in 1 .. B : log[j].num \in Nat /\ log[j].num =< L
  BY <1>1, ChainIs
<1>3. Ends(log, e, L)
  BY <1>1 DEF Chain, LogOK
<1>4. ASSUME NEW n \in 0 .. L
      PROVE  RowsOK(sm, dn, n, At(log, e, n)) /\ \A i \in 1 .. Len(At(log, e, n)) : At(log, e, n)[i].pos = 0
  <2>1. RowsOK(smarts, done, n, At(log, e, n)) /\ \A i \in 1 .. Len(At(log, e, n)) : At(log, e, n)[i].pos = 0
    BY <1>1 DEF Chain, LogOK
  <2>2. SameUpTo(smarts, sm, n) /\ FewerUpTo(done, dn, n)
    BY <1>1
  <2> QED
    BY <2>1, <2>2, SameIs
<1>5. ASSUME NEW n \in 1 .. L
      PROVE  Wrote(log, e[n - 1] + 1, e[n] - 1, n, At(log, e, n - 1), At(log, e, n), sm, rem)
  <2>1. PICK lo, hi, w, x : lo = e[n - 1] + 1 /\ hi = e[n] - 1 /\ w = At(log, e, n - 1) /\ x = At(log, e, n)
    OBVIOUS
  <2>2. Wrote(log, lo, hi, n, w, x, smarts, remade)
    BY <1>1, <2>1 DEF Chain, LogOK
  <2>3. ASSUME NEW i \in DOMAIN sm, sm[i].num = n PROVE \E j \in lo .. hi : log[j].id = sm[i].account
    <3>1. n \in 0 .. L
      BY <1>2
    <3>2. i \in Signed(sm, n)
      BY <1>2, <2>3 DEF Signed
    <3>3. i \in Signed(smarts, n) /\ sm[i] = smarts[i]
      BY <1>1, <3>1, <3>2 DEF SameUpTo
    <3> QED
      BY <2>2, <2>3, <3>3 DEF Wrote, Signed
  <2>4. Wrote(log, lo, hi, n, w, x, sm, rem)
    BY <2>2, <2>3 DEF Wrote
  <2> QED
    BY <2>1, <2>4
<1>6. ASSUME NEW j \in 1 .. B, log[j].mode = "old", StartHistory =< log[j].id
      PROVE  Expl(hist, sm, log[j].id, log[j].val, log[j].num - 1)
  <2>1. Expl(hist, smarts, log[j].id, log[j].val, log[j].num - 1)
    BY <1>1, <1>6 DEF Chain, LogOK
  <2>2. PICK n : n = log[j].num - 1
    OBVIOUS
  <2>3. n \in 0 .. L
    <3>1. e[0] = 0 /\ (j =< e[0] <=> log[j].num =< 0)
      <4>1. 0 \in 0 .. L
        BY <1>2
      <4> QED
        BY <1>1, <1>3, <4>1 DEF Ends
    <3>2. ~(log[j].num =< 0)
      BY <3>1
    <3> QED
      BY <1>2, <2>2, <3>2
  <2>4. SameUpTo(smarts, sm, n)
    BY <1>1, <2>3
  <2>5. Expl(hist, sm, log[j].id, log[j].val, n)
    BY <2>1, <2>2, <2>4, SameIs
  <2> QED
    BY <2>2, <2>5
<1>7. LogOK(log, e, L, sm, dn, rem, hist)
  BY <1>1, <1>3, <1>4, <1>5, <1>6 DEF LogOK
<1>8. FileOK(state, At(log, e, L), L, sm, rem, hist)
  <2>1. FileOK(state, At(log, e, L), L, smarts, remade, hist)
    BY <1>1 DEF Chain
  <2>2. SameUpTo(smarts, sm, L)
    BY <1>1, <1>2
  <2>3. \A id \in StartHistory .. Len(state) - 1 : Expl(hist, sm, id, state[id + 1], L)
    BY <2>1, <2>2, SameIs DEF FileOK
  <2> QED
    BY <2>1, <2>3 DEF FileOK
<1> QED
  BY <1>1, <1>7, <1>8
-----------------------------------------------------------------------------
(* Counting a transaction changes nothing else of the block.               *)
LEMMA Counted ==
  ASSUME NEW c \in Block, NEW d, d = [c EXCEPT !.count = @ + 1]
  PROVE  d \in Block /\ (c.on => d.on) /\ d.num = c.num /\ d.map = c.map /\ d.max = c.max /\ d.hist = c.hist
<1>1. PICK n : n = c.count + 1
  OBVIOUS
<1>2. n \in Nat /\ d = [c EXCEPT !.count = n]
  BY <1>1 DEF Block
<1>3. d \in Block
  BY <1>2 DEF Block
<1>4. d.num = c.num /\ d.map = c.map /\ d.max = c.max /\ d.hist = c.hist
  BY <1>2 DEF Block
<1>5. d.on = c.on
  BY <1>2 DEF Block
<1> QED
  BY <1>3, <1>4, <1>5

(* What CommitTransaction makes of the block, with one more transaction    *)
(* counted or not.                                                         *)
LEMMA CommitsIs ==
  ASSUME ThisBlock, NEW u, Finished(u), u.ok, NEW c, c = CommitTransaction(u),
         NEW d, d = [c EXCEPT !.count = @ + 1]
  PROVE  Commits(u, c) /\ Commits(u, d)
<1>1. chg \in Block /\ chg.on /\ u \in Tran
  BY DEF ThisBlock, BlockOK, Finished
<1>2. PICK m, h : m = Merged(u) /\ h = chg.hist \o u.hist
  OBVIOUS
<1>3. m \in Maps
  BY <1>2, MergedIs
<1>4. h \in Seq(Paying)
  <2>1. chg.hist \in Seq(Paying) /\ u.hist \in Seq(Paying)
    BY <1>1 DEF Block, Tran
  <2> QED
    BY <1>2, <2>1, ConcatProperties
<1>5. u.max \in Nat /\ u.made \in BOOLEAN
  BY <1>1 DEF Tran
<1>6. c = [chg EXCEPT !.map = m, !.max = u.max, !.hist = h, !.made = u.made]
  BY <1>2 DEF CommitTransaction
<1>7. c \in Block /\ c.on /\ c.num = chg.num /\ c.map = m /\ c.max = u.max /\ c.hist = h
  BY <1>1, <1>3, <1>4, <1>5, <1>6 DEF Block
<1>8. d \in Block /\ d.on /\ d.num = c.num /\ d.map = c.map /\ d.max = c.max /\ d.hist = c.hist
  BY <1>7, Counted
<1> QED
  BY <1>2, <1>7, <1>8 DEF Commits

LEMMA RolledBack ==
  ASSUME ThisBlock, NEW u, ~u.ok, u.made \in BOOLEAN, NEW c, c = CommitTransaction(u),
         NEW d, d = [c EXCEPT !.count = @ + 1]
  PROVE  /\ c \in Block /\ c.on /\ c.num = chg.num /\ c.map = chg.map /\ c.max = chg.max /\ c.hist = chg.hist
         /\ d \in Block /\ d.on /\ d.num = chg.num /\ d.map = chg.map /\ d.max = chg.max /\ d.hist = chg.hist
<1>1. chg \in Block /\ chg.on
  BY DEF ThisBlock, BlockOK
<1>2. c = [chg EXCEPT !.made = u.made]
  BY DEF CommitTransaction
<1>3. c \in Block /\ c.on /\ c.num = chg.num /\ c.map = chg.map /\ c.max = chg.max /\ c.hist = chg.hist
  BY <1>1, <1>2 DEF Block
<1>4. d \in Block /\ d.on /\ d.num = c.num /\ d.map = c.map /\ d.max = c.max /\ d.hist = c.hist
  BY <1>3, Counted
<1> QED
  BY <1>3, <1>4

(* The reward at the end of a block changes no account the block has made. *)
LEMMA RewardIs ==
  ASSUME ThisBlock, done \in Seq(Done), remade \in BOOLEAN, ListOK(hist),
         \A id \in StartHistory .. Len(state) - 1 : state[id + 1].pos \in 0 .. Len(hist),
         NEW miner \in Nat, NEW c, c = CommitTransaction(CoinBase(miner))
  PROVE  BlockOK(state, smarts, done, remade, hist, c) /\ c.num = chg.num
<1>1. BlockShape /\ chg.on /\ Len(state) \in Nat /\ chg.max \in Nat
  BY ShapeIs
<1>2. PICK u : u = CoinBase(miner)
  OBVIOUS
<1>3. TrOK(u) /\ u.max = chg.max
      /\ \A id \in Changed(u) : id \in 0 .. chg.max /\ (id < Len(GenesisRows) \/ Account(id).born < chg.num)
  BY <1>1, <1>2, CoinBaseIs
<1>4. Finished(u)
  BY <1>1, <1>3, FinishedPlain
<1>5. u.smarts = smarts /\ u \in Tran
  BY <1>3 DEF TrOK, TrBase
<1>6. PICK d : d = [c EXCEPT !.count = @ + 1]
  OBVIOUS
<1>7. CASE u.ok
  <2>1. Commits(u, c)
    BY <1>2, <1>4, <1>6, <1>7, CommitsIs
  <2>2. Adds(u, done)
    BY DEF Adds
  <2>3. ASSUME NEW id \in Changed(u) \cap DOMAIN chg.map, chg.map[id].new PROVE FALSE
    <3>1. id \in DOMAIN chg.map /\ id \in 0 .. chg.max
      BY <1>3, <2>3
    <3>2. ~(id < Len(state))
      BY <2>3, <3>1 DEF ThisBlock, BlockOK
    <3>3. chg.map[id].row.born = chg.num
      BY <3>1, <3>2 DEF ThisBlock, BlockOK
    <3>4. Account(id).born = chg.num
      BY <3>1, <3>3 DEF Account
    <3>5. Len(GenesisRows) =< Len(state) /\ Len(GenesisRows) \in Nat /\ chg.num \in Nat
      BY GenesisIs, ShapeIs DEF ThisBlock, BlockOK
    <3>6. id < Len(GenesisRows) \/ Account(id).born < chg.num
      BY <1>3, <2>3
    <3>7. ~(id < Len(GenesisRows))
      BY <1>1, <3>1, <3>2, <3>5
    <3> QED
      BY <3>4, <3>5, <3>6, <3>7
  <2>4. Remakes(u, remade)
    BY <2>3 DEF Remakes
  <2>5. BlockOK(state, u.smarts, done, remade, hist, c)
    BY <1>4, <2>1, <2>2, <2>4, CommitIs
  <2>6. c.num = chg.num
    BY <2>1 DEF Commits
  <2> QED
    BY <1>5, <2>5, <2>6
<1>8. CASE ~u.ok
  <2>1. u.made \in BOOLEAN
    BY <1>5 DEF Tran
  <2>2. c \in Block /\ c.on /\ c.num = chg.num /\ c.map = chg.map /\ c.max = chg.max /\ c.hist = chg.hist
    BY <1>2, <1>6, <1>8, <2>1, RolledBack
  <2>3. BlockOK(state, smarts, done, remade, hist, chg)
    BY DEF ThisBlock
  <2> QED
    BY <2>2, <2>3, CommitFail
<1> QED
  BY <1>7, <1>8
-----------------------------------------------------------------------------
(* A transaction that pays and succeeds is new to the chain, because the   *)
(* number of its sender is above those of all transactions before.         *)
Once(dn) == \A i, j \in DOMAIN dn : i < j /\ dn[i].tx = dn[j].tx => ~Pays(dn[i].tx)
With1(dn, ok, tx) == IF ok THEN Append(dn, [num |-> chg.num, tx |-> tx]) ELSE dn

LEMMA RunDone ==
  ASSUME ThisBlock, done \in Seq(Done), InOrder(done, chg.num), Once(done), NEW tx \in Tx,
         NEW u, Processed(tx, u), NEW dn, dn = With1(done, u.ok, tx)
  PROVE  /\ dn \in Seq(Done) /\ InOrder(dn, chg.num) /\ Once(dn) /\ (u.ok => Adds(u, dn))
         /\ \A n \in Nat : n < chg.num => FewerUpTo(done, dn, n)
<1>1. chg.num \in Nat /\ Len(done) \in Nat /\ DOMAIN done = 1 .. Len(done) /\ u.ok \in BOOLEAN /\ tx \in Transaction
      /\ tx.op \in Nat /\ tx.from \in Nat /\ chg.max \in Nat
  <2>1. tx \in Transaction
    BY AccountsAssumption
  <2>2. u.ok \in BOOLEAN
    BY DEF Processed
  <2> QED
    BY <2>1, <2>2, ShapeIs DEF Transaction
<1>2. CASE ~u.ok
  <2>1. dn = done
    BY <1>2 DEF With1
  <2>2. \A n : FewerUpTo(done, done, n)
    BY DEF FewerUpTo
  <2> QED
    BY <1>2, <2>1, <2>2
<1>3. CASE u.ok
  <2>1. PICK r, N : r = [num |-> chg.num, tx |-> tx] /\ N = Len(done) + 1
    OBVIOUS
  <2>2. r \in Done /\ r.num = chg.num /\ r.tx = tx
    BY <1>1, <2>1 DEF Done
  <2>3. dn = Append(done, r)
    BY <1>3, <2>1 DEF With1
  <2>4. dn \in Seq(Done) /\ Len(dn) = N /\ dn[N] = r /\ (\A i \in 1 .. Len(done) : dn[i] = done[i]) /\ DOMAIN dn = 1 .. N
    BY <1>1, <2>1, <2>2, <2>3, AppendProperties, LenProperties
  <2>5. \A i \in 1 .. Len(done) : done[i].num \in Nat /\ done[i].num =< chg.num
    BY <1>1, DoneIs DEF InOrder
  <2>6. \A i \in 1 .. N : i \in 1 .. Len(done) \/ i = N
    BY <1>1, <2>1
  <2>7. InOrder(dn, chg.num)
    <3>1. \A i \in 1 .. N : dn[i].num \in Nat /\ dn[i].num =< chg.num
      BY <1>1, <2>2, <2>4, <2>5, <2>6
    <3>2. ASSUME NEW i \in 1 .. N, NEW j \in 1 .. N, i =< j PROVE dn[i].num =< dn[j].num
      <4>1. CASE j = N
        BY <2>2, <2>4, <3>1, <4>1
      <4>2. CASE j \in 1 .. Len(done)
        <5>1. i \in 1 .. Len(done)
          BY <1>1, <3>2, <4>2
        <5> QED
          BY <2>4, <3>2, <4>2, <5>1 DEF InOrder
      <4> QED
        BY <2>6, <4>1, <4>2
    <3> QED
      BY <2>4, <3>1, <3>2 DEF InOrder
  <2>8. ASSUME Pays(tx)
        PROVE  /\ tx.from \in 0 .. chg.max /\ tx.op < EndRow(u, tx.from).op
               /\ \A i \in 1 .. Len(done) : done[i].tx # tx
    <3>1. tx.from \in 0 .. chg.max /\ Account(tx.from).op =< tx.op /\ tx.op < EndRow(u, tx.from).op
      BY <1>3, <2>8 DEF Processed
    <3>2. ASSUME NEW i \in 1 .. Len(done), done[i].tx = tx PROVE FALSE
      <4>1. RowsOK(smarts, done, chg.num, Rows)
        BY ShapeIs DEF ThisBlock, BlockOK
      <4>2. done[i].num =< chg.num
        BY <2>5
      <4>3. tx.op < Rows[tx.from + 1].op
        BY <1>1, <2>8, <3>2, <4>1, <4>2 DEF RowsOK
      <4>4. PICK k : k = tx.from + 1
        OBVIOUS
      <4>5. k \in 1 .. chg.max + 1 /\ k - 1 = tx.from
        BY <1>1, <3>1, <4>4
      <4>6. Rows[k] = Account(tx.from)
        BY <4>5, ShapeIs
      <4>7. Account(tx.from) \in Row
        BY <3>1, AccountIs, ShapeIs
      <4>8. Account(tx.from).op \in Nat
        BY <4>7 DEF Row
      <4> QED
        BY <1>1, <3>1, <4>3, <4>4, <4>6, <4>8
    <3> QED
      BY <3>1, <3>2
  <2>9. Once(dn)
    <3>1. ASSUME NEW i \in 1 .. N, NEW j \in 1 .. N, i < j, dn[i].tx = dn[j].tx PROVE ~Pays(dn[i].tx)
      <4>1. i \in 1 .. Len(done)
        BY <1>1, <2>1, <3>1
      <4>2. CASE j = N
        BY <2>2, <2>4, <2>8, <3>1, <4>1, <4>2
      <4>3. CASE j \in 1 .. Len(done)
        BY <1>1, <2>4, <3>1, <4>1, <4>3 DEF Once
      <4> QED
        BY <2>6, <4>2, <4>3
    <3> QED
      BY <2>4, <3>1 DEF Once
  <2>10. Adds(u, dn)
    <3>1. ASSUME NEW i \in 1 .. N
          PROVE  \/ i \in DOMAIN done /\ dn[i] = done[i]
                 \/ dn[i].num = chg.num /\ (Pays(dn[i].tx) => dn[i].tx.from \in 0 .. chg.max /\ dn[i].tx.op < EndRow(u, dn[i].tx.from).op)
      BY <1>1, <2>2, <2>4, <2>6, <2>8
    <3> QED
      BY <2>4, <3>1 DEF Adds
  <2>11. ASSUME NEW n \in Nat, n < chg.num PROVE FewerUpTo(done, dn, n)
    <3>1. ASSUME NEW i \in 1 .. N, dn[i].num =< n PROVE i \in DOMAIN done /\ dn[i] = done[i]
      <4>1. i # N
        BY <1>1, <2>2, <2>4, <2>11, <3>1
      <4> QED
        BY <1>1, <2>4, <2>6, <4>1
    <3> QED
      BY <2>4, <3>1 DEF FewerUpTo
  <2> QED
    BY <2>4, <2>7, <2>9, <2>10, <2>11
<1> QED
  BY <1>1, <1>2, <1>3

(* The contracts a transaction leaves: those there were and its own.       *)
LEMMA RunSmarts ==
  ASSUME ThisBlock, smarts \in Seq(Contract), InOrder(smarts, chg.num), NEW tx, NEW u, Processed(tx, u)
  PROVE  /\ u.smarts \in Seq(Contract) /\ InOrder(u.smarts, chg.num)
         /\ \A i \in DOMAIN u.smarts : u.smarts[i].num \in Nat
         /\ \A n \in Nat : n < chg.num => SameUpTo(smarts, u.smarts, n)
<1>1. chg.num \in Nat /\ Len(smarts) \in Nat /\ DOMAIN smarts = 1 .. Len(smarts) /\ u.ok \in BOOLEAN
  <2>1. u.ok \in BOOLEAN
    BY DEF Processed
  <2> QED
    BY <2>1, ShapeIs
<1>2. \A i \in 1 .. Len(smarts) : smarts[i].num \in Nat /\ smarts[i].num =< chg.num
  BY SignedIs DEF InOrder
<1>3. CASE ~u.ok
  <2>1. u.smarts = smarts
    BY <1>3 DEF Processed
  <2>2. \A n : SameUpTo(smarts, smarts, n)
    BY DEF SameUpTo
  <2> QED
    BY <1>1, <1>2, <2>1, <2>2
<1>4. CASE u.ok
  <2>1. PICK s, N : s = u.smarts /\ N = Len(s)
    OBVIOUS
  <2>2. /\ u \in Tran /\ Len(smarts) =< N /\ (\A i \in 1 .. Len(smarts) : s[i] = smarts[i])
        /\ \A i \in Len(smarts) + 1 .. N : s[i].num = chg.num
    BY <1>4, <2>1 DEF Processed, Finished, NewContracts
  <2>3. s \in Seq(Contract) /\ N \in Nat /\ DOMAIN s = 1 .. N
    <3>1. s \in Seq(Contract)
      BY <2>1, <2>2 DEF Tran
    <3> QED
      BY <2>1, <3>1, LenProperties
  <2>4. \A i \in 1 .. N : i \in 1 .. Len(smarts) \/ i \in Len(smarts) + 1 .. N
    BY <1>1, <2>3
  <2>5. \A i \in 1 .. N : s[i].num \in Nat /\ s[i].num =< chg.num
    BY <1>1, <1>2, <2>2, <2>4
  <2>6. ASSUME NEW i \in 1 .. N, NEW j \in 1 .. N, i =< j PROVE s[i].num =< s[j].num
    <3>1. CASE j \in Len(smarts) + 1 .. N
      BY <2>2, <2>5, <3>1
    <3>2. CASE j \in 1 .. Len(smarts)
      <4>1. i \in 1 .. Len(smarts)
        BY <1>1, <2>6, <3>2
      <4> QED
        BY <2>2, <2>6, <3>2, <4>1 DEF InOrder
    <3> QED
      BY <2>4, <3>1, <3>2
  <2>7. InOrder(s, chg.num)
    BY <2>1, <2>5, <2>6 DEF InOrder
  <2>8. ASSUME NEW n \in Nat, n < chg.num PROVE SameUpTo(smarts, s, n)
    <3>1. ASSUME NEW i \in 1 .. N, s[i].num =< n PROVE i \in 1 .. Len(smarts)
      BY <1>1, <2>2, <2>4, <2>8, <3>1
    <3>2. \A i : i \in Signed(s, n) <=> i \in 1 .. N /\ 0 < s[i].num /\ s[i].num =< n
      BY <2>1, <2>3, SignedIs
    <3>3. \A i : i \in Signed(smarts, n) <=> i \in 1 .. Len(smarts) /\ 0 < smarts[i].num /\ smarts[i].num =< n
      BY SignedIs
    <3>4. \A i \in 1 .. Len(smarts) : i \in 1 .. N
      BY <1>1, <2>2, <2>3
    <3>5. Signed(s, n) = Signed(smarts, n)
      BY <2>2, <3>1, <3>2, <3>3, <3>4
    <3> QED
      BY <2>2, <3>3, <3>5 DEF SameUpTo
  <2> QED
    BY <2>1, <2>3, <2>5, <2>7, <2>8
<1> QED
  BY <1>1, <1>3, <1>4

(* The lists of the accounts begin in the file of payments.                *)
LEMMA PositionsIs ==
  ASSUME NEW e, Chain(e)
  PROVE  ListOK(hist) /\ \A id \in StartHistory .. Len(state) - 1 : state[id + 1].pos \in 0 .. Len(hist)
BY DEF Chain, FileOK, Expl

(* What one transaction leaves of block, contracts and chain.              *)
LEMMA RunIs ==
  ASSUME NEW e, Chain(e), ThisBlock, chg.num = LastNum + 1, remade \in BOOLEAN,
         InOrder(smarts, chg.num), InOrder(done, chg.num), Once(done),
         NEW tx \in Tx, NEW u, u = OnProcessTransaction(tx),
         NEW c, c = [CommitTransaction(u) EXCEPT !.count = @ + 1],
         NEW dn, dn = With1(done, u.ok, tx),
         NEW rem \in BOOLEAN, remade => rem, u.ok /\ (\E id \in Changed(u) \cap DOMAIN chg.map : chg.map[id].new) => rem
  PROVE  /\ BlockOK(state, u.smarts, dn, rem, hist, c) /\ c.num = chg.num
         /\ u.smarts \in Seq(Contract) /\ InOrder(u.smarts, chg.num)
         /\ dn \in Seq(Done) /\ InOrder(dn, chg.num) /\ Once(dn)
         /\ LogOK(log, e, LastNum, u.smarts, dn, rem, hist)
         /\ FileOK(state, At(log, e, LastNum), LastNum, u.smarts, rem, hist)
<1>1. BlockShape /\ chg.on /\ chg.num \in Nat
  BY ShapeIs
<1>2. tx \in Transaction
  BY AccountsAssumption
<1>3. Processed(tx, u)
  BY <1>1, <1>2, ProcessIs
<1>4. smarts \in Seq(Contract) /\ done \in Seq(Done)
  BY DEF Chain
<1>5. /\ dn \in Seq(Done) /\ InOrder(dn, chg.num) /\ Once(dn) /\ (u.ok => Adds(u, dn))
      /\ \A n \in Nat : n < chg.num => FewerUpTo(done, dn, n)
  BY <1>3, <1>4, RunDone
<1>6. /\ u.smarts \in Seq(Contract) /\ InOrder(u.smarts, chg.num)
      /\ \A i \in DOMAIN u.smarts : u.smarts[i].num \in Nat
      /\ \A n \in Nat : n < chg.num => SameUpTo(smarts, u.smarts, n)
  BY <1>3, <1>4, RunSmarts
<1>7. LastNum \in Nat /\ \A n \in 0 .. LastNum : n \in Nat /\ n < chg.num
  BY ChainIs
<1>8. /\ LogOK(log, e, LastNum, u.smarts, dn, rem, hist)
      /\ FileOK(state, At(log, e, LastNum), LastNum, u.smarts, rem, hist)
  <2>1. \A n \in 0 .. LastNum : SameUpTo(smarts, u.smarts, n) /\ FewerUpTo(done, dn, n)
    BY <1>5, <1>6, <1>7
  <2> QED
    BY <1>6, <2>1, ChainMore
<1>9. PICK b : b = CommitTransaction(u)
  OBVIOUS
<1>10. c = [b EXCEPT !.count = @ + 1]
  BY <1>9
<1>11. ASSUME u.ok PROVE BlockOK(state, u.smarts, dn, rem, hist, c) /\ c.num = chg.num
  <2>1. Finished(u) /\ Adds(u, dn)
    BY <1>3, <1>5, <1>11 DEF Processed
  <2>2. Commits(u, c)
    BY <1>9, <1>10, <1>11, <2>1, CommitsIs
  <2>3. Remakes(u, rem)
    BY <1>11 DEF Remakes
  <2>4. BlockOK(state, u.smarts, dn, rem, hist, c)
    BY <1>4, <2>1, <2>2, <2>3, PositionsIs, CommitIs
  <2>5. c.num = chg.num
    BY <2>2 DEF Commits
  <2> QED
    BY <2>4, <2>5
<1>12. ASSUME ~u.ok PROVE BlockOK(state, u.smarts, dn, rem, hist, c) /\ c.num = chg.num
  <2>1. u.made \in BOOLEAN /\ u.smarts = smarts
    BY <1>3, <1>12 DEF Processed
  <2>2. c \in Block /\ c.on /\ c.num = chg.num /\ c.map = chg.map /\ c.max = chg.max /\ c.hist = chg.hist
    BY <1>9, <1>10, <1>12, <2>1, RolledBack
  <2>3. BlockOK(state, smarts, done, remade, hist, chg)
    BY DEF ThisBlock
  <2>4. BlockOK(state, smarts, done, remade, hist, c)
    BY <2>2, <2>3, CommitFail
  <2>5. dn = done
    BY <1>12 DEF With1
  <2>6. BlockOK(state, smarts, done, rem, hist, c)
    BY <2>4 DEF BlockOK
  <2> QED
    BY <2>1, <2>2, <2>5, <2>6
<1>13. BlockOK(state, u.smarts, dn, rem, hist, c) /\ c.num = chg.num
  <2>1. u.ok \in BOOLEAN
    BY <1>3 DEF Processed
  <2> QED
    BY <1>11, <1>12, <2>1
<1> QED
  BY <1>5, <1>6, <1>8, <1>13
-----------------------------------------------------------------------------
(* The invariant: the log and the files describe a chain of blocks, and    *)
(* the block being executed continues it.                                  *)
Chained == \E e : Chain(e)
InNumbers ==
  LET N == IF chg.on THEN LastNum + 1 ELSE LastNum IN InOrder(smarts, N) /\ InOrder(done, N)
Executing == IF chg.on THEN chg.num = LastNum + 1 /\ ThisBlock ELSE chg = Idle

Inv == TypeOK /\ OnceOnly /\ Chained /\ InNumbers /\ Executing

(* What the invariant says of the current values, and what has to be shown *)
(* of the next ones.                                                       *)
LEMMA InvIs ==
  ASSUME Inv
  PROVE  /\ (\E e : Chain(e)) /\ Once(done) /\ remade \in BOOLEAN /\ LastNum \in Nat
         /\ chg.on => /\ chg.num = LastNum + 1 /\ ThisBlock /\ InOrder(smarts, chg.num) /\ InOrder(done, chg.num)
         /\ ~chg.on => chg = Idle /\ InOrder(smarts, LastNum) /\ InOrder(done, LastNum)
<1>1. PICK e : Chain(e)
  BY DEF Inv, Chained
<1>2. Once(done)
  <2>1. done \in Seq(Done)
    BY <1>1 DEF Chain
  <2>2. ASSUME NEW i \in DOMAIN done, NEW j \in DOMAIN done, i < j, done[i].tx = done[j].tx PROVE ~Pays(done[i].tx)
    BY <2>2 DEF Inv, OnceOnly, Pays
  <2> QED
    BY <2>2 DEF Once
<1>3. remade \in BOOLEAN /\ LastNum \in Nat
  BY <1>1, ChainIs DEF Inv, TypeOK
<1> QED
  BY <1>1, <1>2, <1>3 DEF Inv, InNumbers, Executing

(* The fields of a block, begun or not.                                    *)
LEMMA BlockTypes ==
  ASSUME NEW c, c \in Block \/ c = Idle
  PROVE  /\ c.on \in BOOLEAN /\ c.made \in BOOLEAN /\ {c.num, c.max, c.count} \subseteq Nat
         /\ c.map \in [DOMAIN c.map -> Item] /\ c.hist \in Seq(Paying)
<1>1. CASE c \in Block
  <2>1. c.map \in Maps /\ c.on \in BOOLEAN /\ c.made \in BOOLEAN /\ {c.num, c.max, c.count} \subseteq Nat
        /\ c.hist \in Seq(Paying)
    BY <1>1 DEF Block
  <2>2. c.map \in [DOMAIN c.map -> Item]
    BY <2>1, MapsIs
  <2> QED
    BY <2>1, <2>2
<1>2. CASE c = Idle
  <2>1. c.on = FALSE /\ c.made = FALSE /\ c.num = 0 /\ c.max = 0 /\ c.count = 0 /\ c.map = << >> /\ c.hist = << >>
    BY <1>2 DEF Idle
  <2>2. << >> \in [DOMAIN << >> -> Item] /\ << >> \in Seq(Paying)
    OBVIOUS
  <2>3. PICK m : m = << >>
    OBVIOUS
  <2>4. c.map = m /\ c.hist = m /\ m \in [DOMAIN m -> Item] /\ m \in Seq(Paying)
    BY <2>1, <2>2, <2>3
  <2>5. c.on \in BOOLEAN /\ c.made \in BOOLEAN
    BY <2>1
  <2>6. {c.num, c.max, c.count} \subseteq Nat
    BY <2>1
  <2> QED
    BY <2>4, <2>5, <2>6
<1> QED
  BY <1>1, <1>2

(* The five steps keep the invariant.                                      *)
LEMMA StartStep == ASSUME Inv, BlockStart PROVE Inv'
<1>1. PICK c : c = [Idle EXCEPT !.on = TRUE, !.num = LastNum + 1, !.max = Len(state) - 1]
  OBVIOUS
<1>2. PICK e : Chain(e)
  BY InvIs
<1>3. ~chg.on /\ InOrder(smarts, LastNum) /\ InOrder(done, LastNum)
  BY InvIs DEF BlockStart
<1>4. chg' = c /\ state' = state /\ hist' = hist /\ log' = log /\ smarts' = smarts /\ done' = done /\ undos' = undos
      /\ remade' = remade
  BY <1>1 DEF BlockStart
<1>5. LastNum' = LastNum
  BY <1>4 DEF LastNum
<1>6. BlockOK(state, smarts, done, remade, hist, c) /\ c.num = LastNum + 1 /\ c.on
  <2>1. BlockOK(state, smarts, done, remade, hist, c)
    BY <1>1, <1>2, <1>3, BeginBlock
  <2> QED
    BY <1>1, <2>1 DEF BlockOK
<1>7. Executing'
  BY <1>4, <1>5, <1>6 DEF Executing, ThisBlock
<1>8. Chained'
  BY <1>2, <1>4, <1>5 DEF Chained, Chain
<1>9. InNumbers'
  <2>1. PICK N : N = LastNum
    OBVIOUS
  <2>2. InOrder(smarts, N + 1) /\ InOrder(done, N + 1)
    <3>1. /\ \A i \in 1 .. Len(smarts) : smarts[i].num \in Nat
          /\ \A i \in 1 .. Len(done) : done[i].num \in Nat
      <4>1. smarts \in Seq(Contract) /\ done \in Seq(Done)
        BY <1>2 DEF Chain
      <4>2. DOMAIN done = 1 .. Len(done)
        BY <4>1, LenProperties
      <4> QED
        BY <4>1, <4>2, DoneIs, SignedIs
    <3>2. N \in Nat
      BY <2>1, InvIs
    <3> QED
      BY <1>3, <2>1, <3>1, <3>2 DEF InOrder
  <2> QED
    BY <1>4, <1>5, <1>6, <2>1, <2>2 DEF InNumbers
<1>10. TypeOK'
  <2>1. c \in Block
    BY <1>6 DEF BlockOK
  <2> QED
    BY <1>4, <2>1, BlockTypes DEF Inv, TypeOK
<1>11. OnceOnly'
  BY <1>4 DEF Inv, OnceOnly
<1> QED
  BY <1>7, <1>8, <1>9, <1>10, <1>11 DEF Inv

LEMMA RunStep == ASSUME Inv, NEW tx \in Tx, RunTx(tx) PROVE Inv'
<1>1. PICK u, c, dn, rem : /\ u = OnProcessTransaction(tx) /\ c = [CommitTransaction(u) EXCEPT !.count = @ + 1]
                           /\ dn = With1(done, u.ok, tx) /\ rem = remade'
  OBVIOUS
<1>2. PICK e : Chain(e)
  BY InvIs
<1>3. chg.on /\ chg.num = LastNum + 1 /\ ThisBlock /\ InOrder(smarts, chg.num) /\ InOrder(done, chg.num) /\ Once(done)
      /\ remade \in BOOLEAN
  BY InvIs DEF RunTx
<1>4. chg' = c /\ smarts' = u.smarts /\ done' = dn /\ state' = state /\ hist' = hist /\ log' = log /\ undos' = undos
  BY <1>1 DEF RunTx, With1
<1>5. rem \in BOOLEAN /\ (remade => rem) /\ (u.ok /\ (\E id \in Changed(u) \cap DOMAIN chg.map : chg.map[id].new) => rem)
  BY <1>1 DEF RunTx
<1>6. LastNum' = LastNum
  BY <1>4 DEF LastNum
<1>7. /\ BlockOK(state, u.smarts, dn, rem, hist, c) /\ c.num = chg.num
      /\ u.smarts \in Seq(Contract) /\ InOrder(u.smarts, chg.num)
      /\ dn \in Seq(Done) /\ InOrder(dn, chg.num) /\ Once(dn)
      /\ LogOK(log, e, LastNum, u.smarts, dn, rem, hist)
      /\ FileOK(state, At(log, e, LastNum), LastNum, u.smarts, rem, hist)
  BY <1>1, <1>2, <1>3, <1>5, RunIs
<1>8. c.on /\ c \in Block
  BY <1>7 DEF BlockOK
<1>9. Executing'
  BY <1>1, <1>3, <1>4, <1>6, <1>7, <1>8 DEF Executing, ThisBlock
<1>10. Chained'
  BY <1>1, <1>4, <1>6, <1>7 DEF Chained, Chain
<1>11. InNumbers'
  BY <1>3, <1>4, <1>6, <1>7, <1>8 DEF InNumbers
<1>12. TypeOK'
  <2>1. dn \in Seq([num : Nat, tx : Tx])
    BY <1>7 DEF Done
  <2>2. c.on \in BOOLEAN /\ c.made \in BOOLEAN /\ {c.num, c.max, c.count} \subseteq Nat
        /\ c.map \in [DOMAIN c.map -> Item] /\ c.hist \in Seq(Paying)
    BY <1>8, BlockTypes
  <2> QED
    BY <1>1, <1>4, <1>5, <1>7, <2>1, <2>2 DEF Inv, TypeOK
<1>13. OnceOnly'
  <2>1. ASSUME NEW i \in DOMAIN dn, NEW j \in DOMAIN dn, i < j, dn[i].tx = dn[j].tx
        PROVE  dn[i].tx.type = "create" \/ dn[i].tx.to = << >>
    BY <1>7, <2>1 DEF Once, Pays
  <2> QED
    BY <1>4, <2>1 DEF OnceOnly
<1> QED
  BY <1>9, <1>10, <1>11, <1>12, <1>13 DEF Inv

LEMMA FinishStep == ASSUME Inv, NEW miner \in Miners, BlockFinish(miner) PROVE Inv'
<1>1. PICK c, s, lr, st, lg :
        /\ c = CommitTransaction(CoinBase(miner)) /\ s = WithHistory(c) /\ lr = LogRows(c)
        /\ st = [i \in 1 .. c.max + 1 |-> IF i - 1 \in DOMAIN c.map THEN s.map[i - 1].row ELSE state[i]]
        /\ lg = log \o lr \o << [num |-> c.num, id |-> 0, mode |-> "sum", val |-> Blank, hash |-> CalcHash(st)] >>
  OBVIOUS
<1>2. PICK e : Chain(e)
  BY InvIs
<1>3. chg.on /\ chg.num = LastNum + 1 /\ ThisBlock /\ InOrder(smarts, chg.num) /\ InOrder(done, chg.num)
      /\ remade \in BOOLEAN
  BY InvIs DEF BlockFinish
<1>4. chg' = Idle /\ smarts' = smarts /\ done' = done /\ state' = st /\ hist' = s.hist /\ log' = lg /\ undos' = undos
      /\ remade' = remade
  BY <1>1 DEF BlockFinish, CommitBlock
<1>5. smarts \in Seq(Contract) /\ done \in Seq(Done) /\ miner \in Nat
  <2>1. miner \in Nat
    BY AccountsAssumption
  <2> QED
    BY <1>2, <2>1 DEF Chain
<1>6. ListOK(hist) /\ \A id \in StartHistory .. Len(state) - 1 : state[id + 1].pos \in 0 .. Len(hist)
  BY <1>2, PositionsIs
<1>7. BlockOK(state, smarts, done, remade, hist, c) /\ c.num = chg.num
  BY <1>1, <1>3, <1>5, <1>6, RewardIs
<1>8. c \in Block /\ DOMAIN c.map \subseteq 0 .. c.max
  BY <1>7 DEF BlockOK
<1>9. c.map \in Maps /\ c.num \in Nat /\ c.max \in Nat /\ c.hist \in Seq(Paying)
  BY <1>8 DEF Block
<1>10. Saved(hist, c, s)
  <2>1. ASSUME NEW id \in DOMAIN c.map, StartHistory =< id PROVE c.map[id].row.pos \in 0 .. Len(hist)
    <3>1. id \in 0 .. c.max /\ StartHistory \in Nat /\ Len(state) \in Nat /\ Len(hist) \in Nat
      <4>1. StartHistory \in Nat
        BY AccountsAssumption
      <4> QED
        BY <1>2, <1>8, <4>1, ChainIs
    <3>2. CASE id < Len(state)
      <4>1. id \in StartHistory .. Len(state) - 1
        BY <1>9, <2>1, <3>1, <3>2
      <4>2. c.map[id].row.pos = state[id + 1].pos
        BY <1>7, <3>2 DEF BlockOK
      <4> QED
        BY <1>6, <4>1, <4>2
    <3>3. CASE ~(id < Len(state))
      <4>1. c.map[id].row.pos = 0
        BY <1>7, <3>3 DEF BlockOK
      <4> QED
        BY <3>1, <4>1
    <3> QED
      BY <3>2, <3>3
  <2>2. \A k \in 1 .. Len(c.hist) : c.hist[k].id \in DOMAIN c.map /\ StartHistory =< c.hist[k].id
    BY <1>7 DEF BlockOK
  <2> QED
    BY <1>1, <1>6, <1>9, <2>1, <2>2, SavedIs
<1>11. RowsUpTo(c, c.max + 1, lr)
  BY <1>1, <1>9, LogRowsIs
<1>12. Finish(c, s, lr, st, lg)
  BY <1>1, <1>3, <1>7, <1>10, <1>11 DEF Finish
<1>13. PICK e2 : /\ LogOK(lg, e2, c.num, smarts, done, remade, s.hist)
                 /\ FileOK(st, At(lg, e2, c.num), c.num, smarts, remade, s.hist)
  BY <1>2, <1>12, FinishChain
<1>14. LastNum' = c.num
  <2>1. LastOf(lg) = c.num
    BY <1>13, LastIs DEF LogOK
  <2> QED
    BY <1>4, <2>1 DEF LastNum, LastOf
<1>15. Executing'
  BY <1>4 DEF Executing, Idle
<1>16. Chained'
  BY <1>4, <1>5, <1>13, <1>14 DEF Chained, Chain
<1>17. InNumbers'
  <2>1. chg'.on = FALSE
    BY <1>4 DEF Idle
  <2> QED
    BY <1>3, <1>4, <1>7, <1>14, <2>1 DEF InNumbers
<1>18. TypeOK'
  <2>1. st \in Seq(Row) /\ lg \in Seq(LogRow) /\ s.hist \in Seq(Pays3)
    BY <1>13 DEF FileOK, LogOK, Ends, ListOK
  <2>2. /\ Idle.on \in BOOLEAN /\ Idle.made \in BOOLEAN /\ {Idle.num, Idle.max, Idle.count} \subseteq Nat
        /\ Idle.map \in [DOMAIN Idle.map -> Item] /\ Idle.hist \in Seq(Paying)
    BY BlockTypes
  <2>3. s.hist \in Seq([id : Nat, amount : Int, next : Nat])
    BY <2>1 DEF Pays3
  <2> QED
    BY <1>3, <1>4, <1>5, <2>1, <2>2, <2>3 DEF Inv, TypeOK
<1>19. OnceOnly'
  BY <1>4 DEF Inv, OnceOnly
<1> QED
  BY <1>15, <1>16, <1>17, <1>18, <1>19 DEF Inv

LEMMA DeleteStep == ASSUME Inv, DeleteBlock PROVE Inv'
<1>1. PICK e, y : Chain(e) /\ y = Undone(state)
  BY InvIs
<1>2. chg = Idle /\ InOrder(smarts, LastNum) /\ InOrder(done, LastNum) /\ remade \in BOOLEAN /\ LastNum \in Nat
  BY InvIs DEF DeleteBlock
<1>3. PICK sm, dn, lg : sm = Before(smarts) /\ dn = Before(done) /\ lg = Before(log)
  OBVIOUS
<1>4. state' = y /\ smarts' = sm /\ done' = dn /\ log' = lg /\ hist' = hist /\ chg' = chg /\ remade' = remade
      /\ undos < MaxUndo /\ undos' = undos + 1
  BY <1>1, <1>3 DEF DeleteBlock
<1>5. 0 < LastNum
  <2>1. e[LastNum] = Len(log) /\ e[0] = 0 /\ log \in Seq(LogRow)
    BY <1>1 DEF Chain, LogOK, Ends
  <2>2. log # << >>
    BY DEF DeleteBlock
  <2>3. Len(log) # 0
    BY <2>1, <2>2, EmptySeq
  <2> QED
    BY <1>2, <2>1, <2>3
<1>6. Undo(e, y)
  BY <1>1, <1>2, <1>5 DEF Undo
<1>7. PICK e2 : /\ LogOK(lg, e2, LastNum - 1, sm, dn, remade, hist)
                /\ At(lg, e2, LastNum - 1) = At(log, e, LastNum - 1)
  BY <1>3, <1>6, UndoneLog
<1>8. FileOK(y, At(lg, e2, LastNum - 1), LastNum - 1, sm, remade, hist)
  BY <1>3, <1>6, <1>7, UndoneFile
<1>9. LastNum' = LastNum - 1
  <2>1. LastOf(lg) = LastNum - 1
    BY <1>7, LastIs DEF LogOK
  <2> QED
    BY <1>4, <2>1 DEF LastNum, LastOf
<1>10. /\ sm \in Seq(Contract) /\ dn \in Seq(Done) /\ InOrder(sm, LastNum - 1) /\ InOrder(dn, LastNum - 1)
       /\ \A i \in 1 .. Len(dn) : i \in 1 .. Len(done) /\ dn[i] = done[i]
  BY <1>3, <1>6, BeforeSame
<1>11. chg'.on = FALSE
  BY <1>2, <1>4 DEF Idle
<1>12. Executing'
  BY <1>2, <1>4, <1>11 DEF Executing
<1>13. Chained'
  BY <1>4, <1>7, <1>8, <1>9, <1>10 DEF Chained, Chain
<1>14. InNumbers'
  BY <1>4, <1>9, <1>10, <1>11 DEF InNumbers
<1>15. TypeOK'
  <2>1. y \in Seq(Row) /\ lg \in Seq(LogRow)
    BY <1>7, <1>8 DEF FileOK, LogOK, Ends
  <2>2. dn \in Seq([num : Nat, tx : Tx])
    BY <1>10 DEF Done
  <2>3. undos + 1 \in 0 .. MaxUndo
    <3>1. MaxUndo \in Nat
      BY AccountsAssumption
    <3> QED
      BY <1>4, <3>1 DEF Inv, TypeOK
  <2> QED
    BY <1>2, <1>4, <1>10, <2>1, <2>2, <2>3 DEF Inv, TypeOK
<1>16. OnceOnly'
  <2>1. \A i \in DOMAIN dn : i \in DOMAIN done /\ dn[i] = done[i]
    <3>1. done \in Seq(Done)
      BY <1>1 DEF Chain
    <3> QED
      BY <1>10, <3>1, LenProperties
  <2>2. ASSUME NEW i \in DOMAIN dn, NEW j \in DOMAIN dn, i < j, dn[i].tx = dn[j].tx
        PROVE  dn[i].tx.type = "create" \/ dn[i].tx.to = << >>
    BY <2>1, <2>2 DEF Inv, OnceOnly
  <2> QED
    BY <1>4, <2>2 DEF OnceOnly
<1> QED
  BY <1>12, <1>13, <1>14, <1>15, <1>16 DEF Inv

(* Before the first block nothing is signed, listed or logged.             *)
LEMMA NothingYet ==
  ASSUME NEW h, h = << >>
  PROVE  /\ ListOK(h) /\ Len(h) = 0 /\ Listed(h, 0) = 0 /\ \A id : OwnList(h, id, 0)
         /\ GenesisSmarts \in Seq(Contract) /\ Signed(GenesisSmarts, 0) = {} /\ InOrder(GenesisSmarts, 0)
<1>1. h \in Seq(Pays3) /\ Len(h) = 0
  OBVIOUS
<1>2. ListOK(h)
  BY <1>1 DEF ListOK
<1>3. GenesisSmarts \in Seq(Contract) /\ \A i \in 1 .. Len(GenesisSmarts) : GenesisSmarts[i].num = 0
  <2>1. GenesisSmarts \in Seq(Contract) /\ \A i \in DOMAIN GenesisSmarts : GenesisSmarts[i].num = 0
    BY AccountsAssumption
  <2> QED
    BY <2>1, LenProperties
<1>4. Signed(GenesisSmarts, 0) = {}
  <2>1. \A i : i \in Signed(GenesisSmarts, 0) => FALSE
    BY <1>3, SignedIs
  <2> QED
    BY <2>1
<1>5. InOrder(GenesisSmarts, 0)
  BY <1>3 DEF InOrder
<1> QED
  BY <1>1, <1>2, <1>3, <1>4, <1>5, ListIs, OwnIs

LEMMA InitInv == ASSUME Init PROVE Inv
<1>1. PICK h, e : h = << >> /\ e = [n \in 0 .. 0 |-> 0]
  OBVIOUS
<1>2. state = GenesisRows /\ smarts = GenesisSmarts /\ hist = h /\ log = h /\ done = h /\ chg = Idle /\ undos = 0 /\ remade = FALSE
  BY <1>1 DEF Init
<1>3. LastNum = 0
  BY <1>1, <1>2 DEF LastNum
<1>4. /\ ListOK(h) /\ Len(h) = 0 /\ Listed(h, 0) = 0 /\ (\A id : OwnList(h, id, 0))
      /\ GenesisSmarts \in Seq(Contract) /\ Signed(GenesisSmarts, 0) = {} /\ InOrder(GenesisSmarts, 0)
  BY <1>1, NothingYet
<1>5. /\ h \in Seq(LogRow) /\ h \in Seq(Done) /\ DOMAIN h = {} /\ e \in [0 .. 0 -> 0 .. Len(h)] /\ e[0] = 0
  BY <1>1
<1>6. PICK x : x = CalcHash(GenesisRows)
  OBVIOUS
<1>7. /\ GenesisRows \in Seq(Row) /\ Len(GenesisRows) \in Nat /\ x \in Seq(Row) /\ Len(x) = Len(GenesisRows)
      /\ \A i \in 1 .. Len(GenesisRows) : x[i] = GenesisRows[i] /\ GenesisRows[i] \in Row /\ GenesisRows[i].pos = 0
  BY <1>6, GenesisIs
<1>8. RowsOK(smarts, done, 0, x)
  <2>1. ASSUME NEW cur \in Nat PROVE Held(x, cur) = IssuedBy(smarts, cur, 0)
    <3>1. Held(x, cur) = Held(GenesisRows, cur)
      <4>1. Len(GenesisRows) =< Len(x) /\ \A i \in Len(GenesisRows) + 1 .. Len(x) : x[i].coin = NoCoin
        BY <1>7
      <4> QED
        BY <1>7, <4>1, HeldTail
    <3>2. Held(GenesisRows, cur) \in Int
      BY <1>7, HeldIsInt
    <3>3. IssuedBy(smarts, cur, 0) = Held(GenesisRows, cur) + 0
      BY <1>2, <1>4 DEF IssuedBy
    <3> QED
      BY <3>1, <3>2, <3>3
  <2>2. Len(GenesisRows) =< Len(x)
    BY <1>7
  <2> QED
    BY <1>2, <1>4, <1>5, <1>7, <2>1, <2>2 DEF RowsOK
<1>9. Ends(log, e, 0)
  BY <1>2, <1>4, <1>5 DEF Ends
<1>10. LogOK(log, e, 0, smarts, done, remade, hist)
  <2>1. \A n \in 0 .. 0 : n = 0 /\ At(log, e, n) = x
    BY <1>6 DEF At
  <2>2. \A i \in 1 .. Len(x) : x[i].pos = 0
    BY <1>7
  <2> QED
    BY <1>2, <1>4, <1>8, <1>9, <2>1, <2>2 DEF LogOK
<1>11. FileOK(state, x, 0, smarts, remade, hist)
  <2>1. Like(GenesisRows, x)
    <3>1. \A i \in 1 .. Len(x) : x[i] = [GenesisRows[i] EXCEPT !.pos = 0]
      BY <1>7 DEF Row
    <3> QED
      BY <1>7, <3>1 DEF Like
  <2>2. ASSUME NEW id \in StartHistory .. Len(GenesisRows) - 1 PROVE Expl(h, smarts, id, GenesisRows[id + 1], 0)
    <3>1. PICK i : i = id + 1
      OBVIOUS
    <3>2. StartHistory \in Nat
      BY AccountsAssumption
    <3>3. i \in 1 .. Len(GenesisRows) /\ id < Len(GenesisRows)
      BY <1>7, <3>1, <3>2
    <3>4. Worth(GenesisRows[i].coin) \in Int
      <4>1. GenesisRows[i].coin \in Coin
        BY <1>7, <3>3 DEF Row
      <4> QED
        BY <4>1, CoinFacts
    <3>5. GenesisRows[i].pos = 0
      BY <1>7, <3>3
    <3>6. StartBy(smarts, id, 0) = Worth(GenesisRows[i].coin)
      BY <3>1, <3>3 DEF StartBy
    <3> QED
      BY <1>4, <3>1, <3>4, <3>5, <3>6 DEF Expl
  <2> QED
    BY <1>2, <1>4, <1>7, <2>1, <2>2 DEF FileOK
<1>12. Chained
  <2>1. At(log, e, 0) = x
    BY <1>6 DEF At
  <2> QED
    BY <1>2, <1>3, <1>4, <1>5, <1>10, <1>11, <2>1 DEF Chained, Chain
<1>13. chg.on = FALSE
  BY <1>2 DEF Idle
<1>14. Executing
  BY <1>2, <1>13 DEF Executing
<1>15. InNumbers
  <2>1. InOrder(h, 0)
    BY <1>4 DEF InOrder
  <2> QED
    BY <1>2, <1>3, <1>4, <1>13, <2>1 DEF InNumbers
<1>16. OnceOnly
  BY <1>2, <1>5 DEF OnceOnly
<1>17. TypeOK
  <2>1. h \in Seq([id : Nat, amount : Int, next : Nat]) /\ h \in Seq([num : Nat, tx : Tx])
    BY <1>1
  <2>2. MaxUndo \in Nat
    BY AccountsAssumption
  <2>3. undos \in 0 .. MaxUndo
    BY <1>2, <2>2
  <2>5. remade \in BOOLEAN
    BY <1>2, Zenon
  <2>4. /\ chg.on \in BOOLEAN /\ chg.made \in BOOLEAN /\ {chg.num, chg.max, chg.count} \subseteq Nat
        /\ chg.map \in [DOMAIN chg.map -> Item] /\ chg.hist \in Seq(Paying)
    BY <1>2, BlockTypes
  <2> QED
    BY <1>2, <1>4, <1>5, <1>7, <2>1, <2>3, <2>4, <2>5 DEF TypeOK
<1> QED
  BY <1>12, <1>14, <1>15, <1>16, <1>17 DEF Inv

LEMMA StutterStep == ASSUME Inv, UNCHANGED vars PROVE Inv'
<1>1. LastNum' = LastNum
  BY DEF vars, LastNum
<1> QED
  BY <1>1 DEF vars, Inv, TypeOK, OnceOnly, Chained, Chain, InNumbers, Executing, ThisBlock

(* Every step keeps the invariant.                                         *)
THEOREM Invariant == Spec => []Inv
<1>1. Init => Inv
  BY InitInv
<1>2. Inv /\ [Next]_vars => Inv'
  <2> SUFFICES ASSUME Inv, [Next]_vars PROVE Inv'
    OBVIOUS
  <2>1. CASE BlockStart
    BY <2>1, StartStep
  <2>2. ASSUME NEW tx \in Tx, RunTx(tx) PROVE Inv'
    BY <2>2, RunStep
  <2>3. ASSUME NEW miner \in Miners, BlockFinish(miner) PROVE Inv'
    BY <2>3, FinishStep
  <2>4. CASE DeleteBlock
    BY <2>4, DeleteStep
  <2>5. CASE UNCHANGED vars
    BY <2>5, StutterStep
  <2> QED
    BY <2>1, <2>2, <2>3, <2>4, <2>5 DEF Next
<1> QED
  BY <1>1, <1>2, PTL DEF Spec
-----------------------------------------------------------------------------
(* What all variables are.                                                 *)
THEOREM Types == Spec => []TypeOK
<1>1. Inv => TypeOK
  BY DEF Inv
<1> QED
  BY <1>1, Invariant, PTL

(* A transfer that pays somebody is executed at most once in a chain.      *)
THEOREM PaysOnce == Spec => []OnceOnly
<1>1. Inv => OnceOnly
  BY DEF Inv
<1> QED
  BY <1>1, Invariant, PTL

(* Accounts are numbered without a gap.                                    *)
THEOREM Dense == Spec => []NumbersDense
<1>1. ASSUME Inv PROVE NumbersDense
  <2>1. ASSUME chg.on, NEW id \in 0 .. chg.max PROVE id \in (0 .. Len(state) - 1) \cup DOMAIN chg.map
    <3>1. ThisBlock
      BY <1>1, <2>1, InvIs
    <3>2. BlockShape /\ Len(state) \in Nat /\ chg.max \in Nat
      BY <3>1, ShapeIs
    <3>3. Len(state) .. chg.max \subseteq DOMAIN chg.map
      BY <3>2 DEF BlockShape
    <3> QED
      BY <2>1, <3>2, <3>3
  <2> QED
    BY <2>1 DEF NumbersDense
<1> QED
  BY <1>1, Invariant, PTL

(* No account is ever overdrawn.                                           *)
THEOREM NeverOverdrawn == Spec => []NoOverdraft
<1>1. ASSUME Inv PROVE NoOverdraft
  <2>1. CASE chg.on
    <3>1. ThisBlock
      BY <1>1, <2>1, InvIs
    <3>2. \A id \in 0 .. chg.max : Account(id) \in Row
      BY <3>1, ShapeIs, AccountIs
    <3>3. \A id \in 0 .. chg.max : Account(id).coin \in Coin
      BY <3>2 DEF Row
    <3> QED
      BY <2>1, <3>3 DEF NoOverdraft, Top
  <2>2. CASE ~chg.on
    <3>1. chg = Idle
      BY <1>1, <2>2, InvIs
    <3>2. DOMAIN chg.map = {}
      BY <3>1 DEF Idle
    <3>3. PICK e : Chain(e)
      BY <1>1, InvIs
    <3>4. ASSUME NEW id \in 0 .. Len(state) - 1 PROVE Account(id).coin \in Coin
      <4>1. PICK i : i = id + 1
        OBVIOUS
      <4>2. i \in 1 .. Len(state) /\ state[i] \in Row
        BY <3>3, <4>1, ChainIs
      <4>3. Account(id) = state[i]
        BY <3>2, <4>1 DEF Account
      <4> QED
        BY <4>2, <4>3 DEF Row
    <3> QED
      BY <2>2, <3>4 DEF NoOverdraft, Top
  <2> QED
    BY <2>1, <2>2
<1> QED
  BY <1>1, Invariant, PTL

(* All contracts are signed by the blocks of the chain.                    *)
LEMMA AllIssued ==
  ASSUME smarts \in Seq(Contract), NEW N, InOrder(smarts, N)
  PROVE  /\ \A cur : IssuedBy(smarts, cur, N) = Issued(cur)
         /\ \A id : StartBy(smarts, id, N) = Start(id)
<1>1. DOMAIN smarts = 1 .. Len(smarts)
  BY LenProperties
<1>2. \A i : i \in Signed(smarts, N) <=> i \in DOMAIN smarts /\ smarts[i].num > 0
  <2>1. \A i \in 1 .. Len(smarts) : smarts[i].num \in Nat /\ smarts[i].num =< N
    BY SignedIs DEF InOrder
  <2> QED
    BY <1>1, <2>1, SignedIs
<1>3. \A cur : IssuedBy(smarts, cur, N) = Issued(cur)
  BY <1>2 DEF IssuedBy, Issued
<1>4. ASSUME NEW id PROVE StartBy(smarts, id, N) = Start(id)
  <2>1. (\E i \in Signed(smarts, N) : smarts[i].account = id)
          <=> (\E i \in DOMAIN smarts : smarts[i].num > 0 /\ smarts[i].account = id)
    BY <1>2
  <2> QED
    BY <2>1 DEF StartBy, Start
<1> QED
  BY <1>3, <1>4

(* No transaction, reward or block taken back makes or loses money.        *)
THEOREM SupplyIsKept == Spec => []SupplyKept
<1>1. ASSUME Inv PROVE SupplyKept
  <2>1. PICK e : Chain(e)
    BY <1>1, InvIs
  <2>2. smarts \in Seq(Contract) /\ Len(smarts) \in Nat
    BY <2>1 DEF Chain
  <2>3. PICK N : N = IF chg.on THEN chg.num ELSE LastNum
    OBVIOUS
  <2>4. InOrder(smarts, N)
    BY <1>1, <2>3, InvIs
  <2>5. RowsOK(smarts, done, N, Rows)
    <3>1. CASE chg.on
      <4>1. ThisBlock
        BY <1>1, <3>1, InvIs
      <4> QED
        BY <2>3, <3>1, <4>1, ShapeIs DEF ThisBlock, BlockOK
    <3>2. CASE ~chg.on
      <4>1. chg = Idle
        BY <1>1, <3>2, InvIs
      <4>2. DOMAIN chg.map = {}
        BY <4>1 DEF Idle
      <4>3. state \in Seq(Row) /\ Len(state) \in Nat
        BY <2>1, ChainIs
      <4>4. ASSUME NEW i \in 1 .. Len(state) PROVE Account(i - 1) = state[i]
        <5>1. (i - 1) + 1 = i
          BY <4>3
        <5> QED
          BY <4>2, <5>1 DEF Account
      <4>5. Top + 1 = Len(state)
        BY <3>2, <4>3 DEF Top
      <4>6. Rows = [i \in 1 .. Len(state) |-> state[i]]
        BY <4>4, <4>5 DEF Rows
      <4>7. Rows = state
        BY <4>3, <4>6
      <4> QED
        BY <2>1, <2>3, <3>2, <4>7, RowsOfFile
    <3> QED
      BY <3>1, <3>2
  <2>6. ASSUME NEW cur \in 0 .. Len(smarts) - 1 PROVE Held(Rows, cur) = Issued(cur)
    <3>1. cur \in Nat
      BY <2>2
    <3>2. Held(Rows, cur) = IssuedBy(smarts, cur, N)
      BY <2>5, <3>1 DEF RowsOK
    <3> QED
      BY <2>2, <2>4, <3>2, AllIssued
  <2> QED
    BY <2>6 DEF SupplyKept
<1> QED
  BY <1>1, Invariant, PTL

(* The history of an account explains its balance.                         *)
THEOREM HistoryIsTrue == Spec => []HistoryExplains
<1>1. ASSUME Inv PROVE HistoryExplains
  <2>1. PICK e : Chain(e)
    BY <1>1, InvIs
  <2>2. ASSUME NEW id \in StartHistory .. Len(state) - 1, ~chg.on
        PROVE  OwnList(hist, id, state[id + 1].pos) /\ Worth(state[id + 1].coin) = Start(id) + Listed(hist, state[id + 1].pos)
    <3>1. Expl(hist, smarts, id, state[id + 1], LastNum)
      BY <2>1 DEF Chain, FileOK
    <3>2. smarts \in Seq(Contract) /\ InOrder(smarts, LastNum)
      BY <1>1, <2>1, <2>2, InvIs DEF Chain
    <3>3. StartBy(smarts, id, LastNum) = Start(id)
      BY <3>2, AllIssued
    <3> QED
      BY <3>1, <3>3 DEF Expl
  <2> QED
    BY <2>2 DEF HistoryExplains
<1> QED
  BY <1>1, Invariant, PTL

(* Taking blocks back restores the accounts they have found.               *)
THEOREM UndoIsExact == Spec => []UndoRestores
<1>1. ASSUME Inv, ~remade, ~chg.on
      PROVE  CalcHash(state) = IF log = << >> THEN CalcHash(GenesisRows) ELSE log[Len(log)].hash
  <2>1. PICK e : Chain(e)
    BY <1>1, InvIs
  <2>2. PICK x : x = At(log, e, LastNum)
    OBVIOUS
  <2>3. x \in Seq(Row) /\ Len(x) \in Nat /\ state \in Seq(Row) /\ log \in Seq(LogRow) /\ LastNum \in Nat
    <3>1. LastNum \in 0 .. LastNum
      BY <2>1, ChainIs
    <3> QED
      BY <2>1, <2>2, <3>1, ChainIs
  <2>4. Len(state) = Len(x) /\ \A i \in 1 .. Len(x) : x[i] = [state[i] EXCEPT !.pos = 0]
    BY <1>1, <2>1, <2>2 DEF Chain, FileOK, Like
  <2>5. CalcHash(state) = x
    <3>1. /\ CalcHash(state) \in Seq(Row) /\ Len(CalcHash(state)) = Len(state)
          /\ \A i \in 1 .. Len(state) : CalcHash(state)[i] = [state[i] EXCEPT !.pos = 0]
      BY <2>3, HashIs
    <3>2. \A i \in 1 .. Len(x) : CalcHash(state)[i] = x[i]
      BY <2>4, <3>1
    <3> QED
      BY <2>3, <2>4, <3>1, <3>2, SeqEqual
  <2>6. e[0] = 0 /\ e[LastNum] = Len(log)
    BY <2>1 DEF Chain, LogOK, Ends
  <2>7. CASE log = << >>
    <3>1. LastNum = 0
      BY <2>7 DEF LastNum
    <3> QED
      BY <2>2, <2>5, <2>7, <3>1 DEF At
  <2>8. CASE log # << >>
    <3>1. Len(log) # 0
      BY <2>3, <2>8, EmptySeq
    <3>2. LastNum # 0
      BY <2>6, <3>1
    <3> QED
      BY <2>2, <2>5, <2>6, <2>8, <3>2 DEF At
  <2> QED
    BY <2>7, <2>8
<1>2. Inv => UndoRestores
  BY <1>1 DEF UndoRestores, HashAgrees
<1> QED
  BY <1>2, Invariant, PTL
=============================================================================
