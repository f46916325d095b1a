------------------------------- MODULE Loops -------------------------------
(***************************************************************************)
(* What the proofs need about numbers and about loops: a set of numbers    *)
(* has a least and a greatest one, what passes from each number to the     *)
(* next holds for all, and a definition by recursion over 0 .. N has a     *)
(* value.                                                                  *)
(***************************************************************************)
EXTENDS Integers, FiniteSetsExt, WellFoundedInduction, TLAPS

LEMMA LeastIn ==
  ASSUME NEW S, S \subseteq Nat, S # {}
  PROVE  \E n \in S : \A m \in S : n =< m
<1>1. IsWellFoundedOn(OpToRel(<, Nat), Nat)
  BY NatLessThanWellFounded
<1>2. PICK n \in S : \A m \in S : ~(<< m, n >> \in OpToRel(<, Nat))
  BY <1>1, WFMin
<1>3. ASSUME NEW m \in S PROVE n =< m
  <2>1. m \in Nat /\ n \in Nat
    OBVIOUS
  <2>2. ~(m < n)
    BY <1>2, <2>1 DEF OpToRel
  <2> QED
    BY <2>1, <2>2
<1> QED
  BY <1>3

LEMMA GreatestIn ==
  ASSUME NEW N \in Nat, NEW S, S \subseteq 0 .. N, S # {}
  PROVE  Max(S) \in S /\ \A m \in S : m =< Max(S)
<1> DEFINE up == {N - m : m \in S}
<1>1. up \subseteq Nat /\ up # {}
  <2>1. \A m \in S : m \in 0 .. N
    OBVIOUS
  <2>2. \A m \in 0 .. N : N - m \in Nat
    OBVIOUS
  <2> QED
    BY <2>1, <2>2
<1>2. PICK u \in up : \A v \in up : u =< v
  BY <1>1, LeastIn
<1>3. PICK m \in S : u = N - m
  OBVIOUS
<1>4. \A k \in S : m >= k
  BY <1>2, <1>3
<1>5. Max(S) \in S /\ \A k \in S : Max(S) >= k
  BY <1>4 DEF Max
<1> QED
  BY <1>5

LEMMA OneByOne ==
  ASSUME NEW N \in Nat, NEW S, 0 \in S, \A i \in 1 .. N : i - 1 \in S => i \in S
  PROVE  \A i \in 0 .. N : i \in S
<1> DEFINE bad == {i \in 0 .. N : i \notin S}
<1> SUFFICES ASSUME bad # {} PROVE FALSE
  OBVIOUS
<1>1. PICK i \in bad : \A j \in bad : i =< j
  <2>1. bad \subseteq Nat
    OBVIOUS
  <2> QED
    BY <2>1, LeastIn
<1>2. i # 0 /\ i \in 1 .. N
  OBVIOUS
<1>3. i - 1 \notin bad /\ i - 1 \in 0 .. N
  BY <1>1, <1>2
<1> QED
  BY <1>1, <1>2, <1>3

(* The values of a recursive definition over 0 .. N that goes back from    *)
(* each number i to a smaller one, next[i].                                *)
Unwound(N, T, first, next, G) ==
  \E f \in [0 .. N -> T] : f[0] = first /\ \A i \in 1 .. N : f[i] = G[i][f[next[i]]]

LEMMA Unwind ==
  ASSUME NEW N \in Nat, NEW T, NEW first \in T,
         NEW next, next \in [1 .. N -> 0 .. N], \A i \in 1 .. N : next[i] < i,
         NEW G, G \in [1 .. N -> [T -> T]]
  PROVE  Unwound(N, T, first, next, G)
<1> DEFINE To(n) == \E f \in [0 .. n -> T] : f[0] = first /\ \A i \in 1 .. n : f[i] = G[i][f[next[i]]]
           S == {n \in 0 .. N : To(n)}
<1>1. 0 \in S
  <2> DEFINE g == [i \in 0 .. 0 |-> first]
  <2>1. g \in [0 .. 0 -> T] /\ g[0] = first /\ \A i \in 1 .. 0 : g[i] = G[i][g[next[i]]]
    OBVIOUS
  <2>2. To(0)
    BY <2>1
  <2> QED
    BY <2>2
<1>2. ASSUME NEW n \in 1 .. N, n - 1 \in S PROVE n \in S
  <2>1. PICK f \in [0 .. n - 1 -> T] : f[0] = first /\ \A i \in 1 .. n - 1 : f[i] = G[i][f[next[i]]]
    BY <1>2
  <2> DEFINE g == [i \in 0 .. n |-> IF i < n THEN f[i] ELSE G[n][f[next[n]]]]
  <2>2. next[n] \in 0 .. n - 1
    OBVIOUS
  <2>3. f[next[n]] \in T /\ G[n] \in [T -> T]
    BY <2>2
  <2>4. g \in [0 .. n -> T]
    BY <2>3
  <2>5. g[0] = first
    BY <2>1
  <2>6. ASSUME NEW i \in 1 .. n PROVE g[i] = G[i][g[next[i]]]
    <3>1. next[i] \in 0 .. n /\ next[i] < n /\ i \in 0 .. n
      OBVIOUS
    <3>2. g[next[i]] = f[next[i]]
      BY <3>1
    <3>3. CASE i = n
      BY <3>1, <3>2, <3>3
    <3>4. CASE i # n
      <4>1. i \in 1 .. n - 1 /\ i < n
        BY <3>4
      <4>2. g[i] = f[i]
        BY <4>1, <3>1
      <4> HIDE DEF g
      <4> QED
        BY <2>1, <4>1, <4>2, <3>2
    <3> QED
      BY <3>3, <3>4
  <2> HIDE DEF g
  <2>7. To(n)
    BY <2>4, <2>5, <2>6
  <2> HIDE DEF To
  <2> QED
    BY <2>7
<1> HIDE DEF S
<1>3. N \in S
  <2>1. \A i \in 0 .. N : i \in S
    BY <1>1, <1>2, OneByOne
  <2> QED
    BY <2>1
<1> QED
  BY <1>3 DEF S, Unwound

(* A step taken N times, for steps that stay in T.                         *)
Taken(N, T, first, G) ==
  \E f \in [0 .. N -> T] : f[0] = first /\ \A i \in 1 .. N : f[i] = G[i][f[i - 1]]

LEMMA Turns ==
  ASSUME NEW N \in Nat, NEW T, NEW first \in T, NEW G, G \in [1 .. N -> [T -> T]]
  PROVE  Taken(N, T, first, G)
<1>1. PICK next : next = [i \in 1 .. N |-> i - 1]
  OBVIOUS
<1>2. next \in [1 .. N -> 0 .. N] /\ \A i \in 1 .. N : next[i] < i /\ next[i] = i - 1
  BY <1>1
<1>3. Unwound(N, T, first, next, G)
  BY <1>2, Unwind
<1> QED
  BY <1>2, <1>3 DEF Unwound, Taken

(* Two sequences that go back in the same way from the same place.         *)
BothBack(n, f, g, back) == \A k \in 1 .. n : f[k - 1] = back[f[k]] /\ g[k - 1] = back[g[k]]

LEMMA SameBelow ==
  ASSUME NEW n \in Nat, NEW f, NEW g, NEW back, f[n] = g[n], BothBack(n, f, g, back)
  PROVE  \A k \in 0 .. n : f[k] = g[k]
<1> USE DEF BothBack
<1> DEFINE S == {i \in 0 .. n : f[n - i] = g[n - i]}
<1>1. 0 \in S
  OBVIOUS
<1>2. ASSUME NEW i \in 1 .. n, i - 1 \in S PROVE i \in S
  <2>1. PICK k : k = n - (i - 1)
    OBVIOUS
  <2>2. k \in 1 .. n /\ k - 1 = n - i /\ f[k] = g[k] /\ i \in 0 .. n
    BY <1>2, <2>1
  <2> QED
    BY <2>2
<1> HIDE DEF S
<1>3. \A i \in 0 .. n : i \in S
  BY <1>1, <1>2, OneByOne
<1>4. ASSUME NEW k \in 0 .. n PROVE f[k] = g[k]
  <2>1. n - k \in 0 .. n /\ n - (n - k) = k
    OBVIOUS
  <2> QED
    BY <1>3, <2>1 DEF S
<1> QED
  BY <1>4
=============================================================================
