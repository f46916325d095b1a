---------------------------- MODULE TxStateProofs ---------------------------
(***************************************************************************)
(* For every tree of blocks, every period, every size of the log and any   *)
(* number of kills: whenever TX is up, the accounts, the smart contracts   *)
(* and the file of hashes are what the chain of the last executed block    *)
(* leads to, and as long as the log was never rotated a start never gives  *)
(* up.                                                                     *)
(*                                                                         *)
(* A kill leaves any prefix of the writes of an operation, so what has to  *)
(* be invariant is what every prefix leaves: files from which the log can  *)
(* undo the last block (Undoable), or which the next start clears          *)
(* (fewer accounts than GenesisCount), or no log.  The argument goes from  *)
(* single writes (Passes: the files a sequence of writes goes through) to  *)
(* the rows of the log (LogFits), to taking a block back (DeleteBlock) and *)
(* executing one (Execute), to the start and ReWriteDAppTransactions, and  *)
(* to the steps.                                                           *)
(***************************************************************************)
EXTENDS TxState, Loops, FiniteSetTheorems, TLAPS

-----------------------------------------------------------------------------
(***************************************************************************)
(* Files and writes.                                                       *)
(***************************************************************************)
Files == {"state", "act", "prev", "hash", "smart"}

(* Each file is a sequence of rows.                                        *)
IsDisk(d) == \E R : Zero \in R /\ d \in [Files -> Seq(R)]

IsWrite(w) ==
  /\ w.file \in Files /\ w.num \in Int /\ w.cut \in BOOLEAN
  /\ IF w.cut THEN w.num >= -1 ELSE w.num >= 0
IsWrites(ws) ==
  /\ \E W : ws \in Seq(W)
  /\ \A i \in 1 .. Len(ws) : IsWrite(ws[i])

LEMMA FileIs ==
  ASSUME NEW d, IsDisk(d), NEW f \in Files
  PROVE  /\ Len(d[f]) \in Nat /\ DOMAIN d[f] = 1 .. Len(d[f])
         /\ (d[f] = << >> <=> Len(d[f]) = 0)
         /\ \E R : d[f] \in Seq(R)
<1>1. PICK R : d \in [Files -> Seq(R)]
  BY DEF IsDisk
<1> QED
  BY <1>1

LEMMA SameSeq ==
  ASSUME NEW s, NEW t, \E R : s \in Seq(R), \E R : t \in Seq(R),
         Len(s) = Len(t), \A i \in 1 .. Len(s) : s[i] = t[i]
  PROVE  s = t
<1>1. PICK R : s \in Seq(R)
  OBVIOUS
<1>2. PICK T : t \in Seq(T)
  OBVIOUS
<1>3. /\ s = [i \in 1 .. Len(s) |-> s[i]] /\ t = [i \in 1 .. Len(t) |-> t[i]]
  BY <1>1, <1>2
<1> QED
  BY <1>3

(* What a row is written to and what stays.                                *)
LEMMA PutIs ==
  ASSUME NEW d, IsDisk(d), NEW f \in Files, NEW n \in Nat, NEW row,
         NEW x, x = Write(d, Put(f, n, row))
  PROVE  /\ IsDisk(x)
         /\ \A g \in Files : g # f => x[g] = d[g]
         /\ Len(x[f]) = (IF n < Len(d[f]) THEN Len(d[f]) ELSE n + 1)
         /\ x[f][n + 1] = row
         /\ \A i \in 1 .. Len(x[f]) : i # n + 1 => x[f][i] = IF i =< Len(d[f]) THEN d[f][i] ELSE Zero
<1>1. PICK R : Zero \in R /\ d \in [Files -> Seq(R)]
  BY DEF IsDisk
<1>2. PICK T : T = R \cup {row}
  OBVIOUS
<1>3. d \in [Files -> Seq(T)] /\ Zero \in T /\ row \in T /\ d[f] \in Seq(T) /\ Len(d[f]) \in Nat
  BY <1>1, <1>2
<1>4. PICK m \in Nat : m = IF n < Len(d[f]) THEN Len(d[f]) ELSE n + 1
  BY <1>3
<1>5. Max({Len(d[f]), n + 1}) = m
  <2>1. {Len(d[f]), n + 1} \subseteq 0 .. m /\ m \in {Len(d[f]), n + 1}
    BY <1>3, <1>4
  <2>2. /\ Max({Len(d[f]), n + 1}) \in {Len(d[f]), n + 1}
        /\ \A k \in {Len(d[f]), n + 1} : k =< Max({Len(d[f]), n + 1})
    BY <2>1, GreatestIn
  <2> QED
    BY <2>1, <2>2
<1> DEFINE g == [i \in 1 .. m |-> IF i =< Len(d[f]) THEN d[f][i] ELSE Zero]
<1>6. PICK s : s = [g EXCEPT ![n + 1] = row]
  OBVIOUS
<1>7. s \in Seq(T) /\ Len(s) = m /\ s[n + 1] = row
      /\ \A i \in 1 .. m : i # n + 1 => s[i] = IF i =< Len(d[f]) THEN d[f][i] ELSE Zero
  <2>1. n + 1 \in 1 .. m
    BY <1>3, <1>4
  <2>2. ASSUME NEW i \in 1 .. m PROVE g[i] = (IF i =< Len(d[f]) THEN d[f][i] ELSE Zero) /\ g[i] \in T
    <3>1. i =< Len(d[f]) => d[f][i] \in T
      BY <1>3
    <3> QED
      BY <1>3, <3>1
  <2>3. g \in [1 .. m -> T]
    BY <2>2
  <2> HIDE DEF g
  <2>4. s \in [1 .. m -> T]
    BY <1>3, <1>6, <2>1, <2>3
  <2>5. s \in Seq(T) /\ Len(s) = m
    BY <2>4
  <2>6. s[n + 1] = row /\ \A i \in 1 .. m : i # n + 1 => s[i] = g[i]
    BY <1>6, <2>1, <2>3
  <2> QED
    BY <2>2, <2>5, <2>6
<1>8. x = [d EXCEPT ![f] = s]
  BY <1>5, <1>6 DEF Write, Put, Resize
<1>9. x \in [Files -> Seq(T)] /\ x[f] = s /\ \A h \in Files : h # f => x[h] = d[h]
  BY <1>3, <1>7, <1>8
<1> QED
  BY <1>3, <1>4, <1>7, <1>9 DEF IsDisk

LEMMA CutIs ==
  ASSUME NEW d, IsDisk(d), NEW f \in Files, NEW n \in Int, n >= -1,
         NEW x, x = Write(d, Cut(f, n))
  PROVE  /\ IsDisk(x)
         /\ \A g \in Files : g # f => x[g] = d[g]
         /\ Len(x[f]) = n + 1
         /\ \A i \in 1 .. n + 1 : x[f][i] = IF i =< Len(d[f]) THEN d[f][i] ELSE Zero
<1>1. PICK R : Zero \in R /\ d \in [Files -> Seq(R)]
  BY DEF IsDisk
<1>2. PICK s : s = [i \in 1 .. n + 1 |-> IF i =< Len(d[f]) THEN d[f][i] ELSE Zero]
  OBVIOUS
<1>3. n + 1 \in Nat /\ s \in [1 .. n + 1 -> R]
  BY <1>1, <1>2
<1>4. s \in Seq(R) /\ Len(s) = n + 1
  BY <1>3
<1>5. x = [d EXCEPT ![f] = s]
  BY <1>2 DEF Write, Cut, Resize
<1>6. x \in [Files -> Seq(R)] /\ x[f] = s /\ \A g \in Files : g # f => x[g] = d[g]
  BY <1>1, <1>4, <1>5
<1> QED
  BY <1>1, <1>2, <1>4, <1>6 DEF IsDisk

LEMMA WriteDisk ==
  ASSUME NEW d, IsDisk(d), NEW w, IsWrite(w)
  PROVE  IsDisk(Write(d, w))
<1>1. CASE w.cut
  <2>1. Write(d, w) = Write(d, Cut(w.file, w.num))
    BY <1>1 DEF Write, Cut
  <2> QED
    BY <1>1, <2>1, CutIs DEF IsWrite
<1>2. CASE ~w.cut
  <2>1. Write(d, w) = Write(d, Put(w.file, w.num, w.row))
    BY <1>2 DEF Write, Put
  <2> QED
    BY <1>2, <2>1, PutIs DEF IsWrite
<1> QED
  BY <1>1, <1>2

LEMMA DisksAre ==
  ASSUME NEW d, IsDisk(d), NEW ws, IsWrites(ws)
  PROVE  /\ Len(ws) \in Nat
         /\ Disks(d, ws)[0] = d
         /\ \A i \in 1 .. Len(ws) : Disks(d, ws)[i] = Write(Disks(d, ws)[i - 1], ws[i])
         /\ \A i \in 0 .. Len(ws) : IsDisk(Disks(d, ws)[i])
<1> DEFINE N == Len(ws)
           S == {n \in 0 .. N : \E f : /\ f = [i \in 0 .. n |-> f[i]] /\ f[0] = d
                                       /\ \A i \in 1 .. n : f[i] = Write(f[i - 1], ws[i])}
           Is(f) == f = [i \in 0 .. N |-> IF i = 0 THEN d ELSE Write(f[i - 1], ws[i])]
<1>1. N \in Nat
  BY DEF IsWrites
<1>2. 0 \in S
  <2>1. PICK f : f = [i \in 0 .. 0 |-> d]
    OBVIOUS
  <2>2. f = [i \in 0 .. 0 |-> f[i]] /\ f[0] = d /\ \A i \in 1 .. 0 : f[i] = Write(f[i - 1], ws[i])
    BY <2>1
  <2> QED
    BY <1>1, <2>2
<1>3. ASSUME NEW n \in 1 .. N, n - 1 \in S PROVE n \in S
  <2>1. PICK f : /\ f = [i \in 0 .. n - 1 |-> f[i]] /\ f[0] = d
                 /\ \A i \in 1 .. n - 1 : f[i] = Write(f[i - 1], ws[i])
    BY <1>3
  <2>2. PICK h : h = [i \in 0 .. n |-> IF i < n THEN f[i] ELSE Write(f[n - 1], ws[n])]
    OBVIOUS
  <2>3. h[0] = d /\ h = [i \in 0 .. n |-> h[i]]
    BY <2>1, <2>2
  <2>4. ASSUME NEW i \in 1 .. n PROVE h[i] = Write(h[i - 1], ws[i])
    <3>1. h[i - 1] = f[i - 1]
      BY <2>2
    <3>2. CASE i = n
      <4>1. h[n] = Write(f[n - 1], ws[n])
        BY <1>1, <2>2
      <4> QED
        BY <3>1, <3>2, <4>1
    <3>3. CASE i # n
      <4>1. i \in 1 .. n - 1 /\ h[i] = f[i]
        BY <2>2, <3>3
      <4> QED
        BY <2>1, <3>1, <4>1
    <3> QED
      BY <3>2, <3>3
  <2>5. \E k : /\ k = [i \in 0 .. n |-> k[i]] /\ k[0] = d
              /\ \A i \in 1 .. n : k[i] = Write(k[i - 1], ws[i])
    BY <2>3, <2>4
  <2>6. n \in 0 .. N
    BY <1>1
  <2> QED
    BY <2>5, <2>6
<1>4. \A n \in 0 .. N : n \in S
  <2> HIDE DEF S
  <2> QED
    BY <1>1, <1>2, <1>3, OneByOne
<1>5. \E f : Is(f)
  <2>1. N \in S
    BY <1>1, <1>4
  <2>2. PICK f : /\ f = [i \in 0 .. N |-> f[i]] /\ f[0] = d
                 /\ \A i \in 1 .. N : f[i] = Write(f[i - 1], ws[i])
    BY <2>1
  <2>3. ASSUME NEW i \in 0 .. N PROVE f[i] = IF i = 0 THEN d ELSE Write(f[i - 1], ws[i])
    BY <1>1, <2>2
  <2>4. [i \in 0 .. N |-> f[i]] = [i \in 0 .. N |-> IF i = 0 THEN d ELSE Write(f[i - 1], ws[i])]
    BY <2>3
  <2> QED
    BY <2>2, <2>4
<1>6. PICK D : D = Disks(d, ws)
  OBVIOUS
<1>7. D = CHOOSE f : Is(f)
  BY <1>6 DEF Disks
<1>8. Is(D)
  BY <1>5, <1>7
<1>9. \A i \in 0 .. N : D[i] = IF i = 0 THEN d ELSE Write(D[i - 1], ws[i])
  BY <1>8
<1>10. D[0] = d /\ \A i \in 1 .. N : D[i] = Write(D[i - 1], ws[i])
  BY <1>1, <1>9
<1>11. \A i \in 0 .. N : IsDisk(D[i])
  <2> DEFINE T == {i \in 0 .. N : IsDisk(D[i])}
  <2>1. 0 \in T
    BY <1>1, <1>10
  <2>2. ASSUME NEW i \in 1 .. N, i - 1 \in T PROVE i \in T
    <3>1. IsWrite(ws[i]) /\ D[i] = Write(D[i - 1], ws[i]) /\ IsDisk(D[i - 1])
      BY <1>10, <2>2 DEF IsWrites
    <3> QED
      BY <3>1, WriteDisk
  <2> HIDE DEF T
  <2>3. \A i \in 0 .. N : i \in T
    BY <1>1, <2>1, <2>2, OneByOne
  <2> QED
    BY <2>3 DEF T
<1> QED
  BY <1>1, <1>6, <1>10, <1>11

(* What is on the disk at some time during the writes.                     *)
Passes(d, ws) == {Disks(d, ws)[i] : i \in 0 .. Len(ws)}

LEMMA PassesAre ==
  ASSUME NEW d, IsDisk(d), NEW ws, IsWrites(ws)
  PROVE  /\ Part(d, ws) \subseteq Passes(d, ws)
         /\ d \in Passes(d, ws) /\ After(d, ws) \in Passes(d, ws)
         /\ \A x \in Passes(d, ws) : IsDisk(x)
         /\ IsDisk(After(d, ws))
BY DisksAre DEF Part, Passes, After

LEMMA NoWrites ==
  ASSUME NEW d, IsDisk(d)
  PROVE  IsWrites(<< >>) /\ After(d, << >>) = d /\ Passes(d, << >>) = {d}
<1>1. IsWrites(<< >>)
  <2>1. << >> \in Seq({}) /\ Len(<< >>) = 0
    OBVIOUS
  <2> QED
    BY <2>1 DEF IsWrites
<1> QED
  BY <1>1, DisksAre DEF After, Passes

LEMMA OneWrite ==
  ASSUME NEW d, IsDisk(d), NEW w, IsWrite(w)
  PROVE  /\ IsWrites(<< w >>) /\ After(d, << w >>) = Write(d, w)
         /\ Passes(d, << w >>) = {d, Write(d, w)} /\ IsDisk(Write(d, w))
<1>1. IsWrites(<< w >>)
  <2>1. << w >> \in Seq({w}) /\ Len(<< w >>) = 1 /\ << w >>[1] = w
    OBVIOUS
  <2>2. \A i \in 1 .. Len(<< w >>) : IsWrite(<< w >>[i])
    <3>1. \A i \in 1 .. Len(<< w >>) : i = 1
      BY <2>1
    <3> QED
      BY <2>1, <3>1
  <2>3. \E W : << w >> \in Seq(W)
    BY <2>1
  <2> QED
    BY <2>2, <2>3 DEF IsWrites
<1>2. Len(<< w >>) = 1 /\ << w >>[1] = w
  OBVIOUS
<1>3. Disks(d, << w >>)[0] = d /\ Disks(d, << w >>)[1] = Write(d, w)
  <2>1. 1 \in 1 .. Len(<< w >>) /\ 1 - 1 = 0
    BY <1>2
  <2> QED
    BY <1>1, <1>2, <2>1, DisksAre
<1>4. After(d, << w >>) = Write(d, w)
  BY <1>2, <1>3 DEF After
<1>5. Passes(d, << w >>) = {d, Write(d, w)}
  <2>1. 0 .. Len(<< w >>) = {0, 1}
    BY <1>2
  <2> QED
    BY <1>3, <2>1 DEF Passes
<1> QED
  BY <1>1, <1>4, <1>5, WriteDisk

LEMMA Joined ==
  ASSUME NEW d, IsDisk(d), NEW u, IsWrites(u), NEW v, IsWrites(v)
  PROVE  /\ IsWrites(u \o v)
         /\ After(d, u \o v) = After(After(d, u), v)
         /\ Passes(d, u \o v) = Passes(d, u) \cup Passes(After(d, u), v)
<1>1. PICK U : u \in Seq(U)
  BY DEF IsWrites
<1>2. PICK V : v \in Seq(V)
  BY DEF IsWrites
<1>3. u \in Seq(U \cup V) /\ v \in Seq(U \cup V) /\ Len(u) \in Nat /\ Len(v) \in Nat
  BY <1>1, <1>2
<1>4. /\ u \o v \in Seq(U \cup V) /\ Len(u \o v) = Len(u) + Len(v)
      /\ \A i \in 1 .. Len(u) : (u \o v)[i] = u[i]
      /\ \A i \in 1 .. Len(v) : (u \o v)[Len(u) + i] = v[i]
  BY <1>3
<1>5. IsWrites(u \o v)
  <2>1. ASSUME NEW i \in 1 .. Len(u \o v) PROVE IsWrite((u \o v)[i])
    <3>1. CASE i =< Len(u)
      BY <1>3, <1>4, <3>1 DEF IsWrites
    <3>2. CASE i > Len(u)
      <4>1. i - Len(u) \in 1 .. Len(v) /\ Len(u) + (i - Len(u)) = i
        BY <1>3, <1>4, <3>2
      <4>2. (u \o v)[i] = v[i - Len(u)]
        BY <1>4, <4>1
      <4> QED
        BY <4>1, <4>2 DEF IsWrites
    <3> QED
      BY <1>3, <1>4, <3>1, <3>2
  <2> QED
    BY <1>4, <2>1 DEF IsWrites
<1>0. PICK w : /\ w = u \o v /\ IsWrites(w) /\ Len(w) = Len(u) + Len(v)
               /\ \A k \in 1 .. Len(u) : w[k] = u[k]
               /\ \A k \in 1 .. Len(v) : w[Len(u) + k] = v[k]
  BY <1>4, <1>5
<1> DEFINE D == Disks(d, w)
           A == Disks(d, u)
           B == Disks(After(d, u), v)
<1>10. IsWrites(w)
  BY <1>0
<1>11. \A k \in 1 .. Len(w) : Disks(d, w)[k] = Write(Disks(d, w)[k - 1], w[k])
  BY <1>10, DisksAre
<1>6. \A i \in 0 .. Len(u) : D[i] = A[i]
  <2> DEFINE S == {i \in 0 .. Len(u) : D[i] = A[i]}
  <2>1. 0 \in S
    BY <1>3, <1>0, DisksAre
  <2>2. ASSUME NEW i \in 1 .. Len(u), i - 1 \in S PROVE i \in S
    <3>1. i \in 1 .. Len(w)
      BY <1>3, <1>0
    <3>2. D[i] = Write(D[i - 1], w[i])
      BY <1>11, <3>1
    <3>4. A[i] = Write(A[i - 1], u[i])
      BY <2>2, DisksAre
    <3>3. D[i - 1] = A[i - 1] /\ w[i] = u[i]
      BY <1>0, <2>2
    <3> HIDE DEF D, A
    <3> QED
      BY <1>3, <3>2, <3>3, <3>4
  <2> HIDE DEF S
  <2>3. \A i \in 0 .. Len(u) : i \in S
    BY <1>3, <2>1, <2>2, OneByOne
  <2> QED
    BY <2>3 DEF S
<1>7. \A i \in 0 .. Len(v) : D[Len(u) + i] = B[i]
  <2> DEFINE S == {i \in 0 .. Len(v) : D[Len(u) + i] = B[i]}
  <2>0. IsDisk(After(d, u)) /\ After(d, u) = A[Len(u)]
    BY PassesAre DEF After
  <2>1. 0 \in S
    <3>1. D[Len(u) + 0] = A[Len(u)]
      BY <1>3, <1>6
    <3>2. B[0] = After(d, u)
      BY <2>0, DisksAre
    <3> HIDE DEF D, A, B
    <3> QED
      BY <1>3, <2>0, <3>1, <3>2
  <2>2. ASSUME NEW i \in 1 .. Len(v), i - 1 \in S PROVE i \in S
    <3>1. Len(u) + i \in 1 .. Len(w) /\ Len(u) + i - 1 = Len(u) + (i - 1)
      BY <1>3, <1>0
    <3>2. D[Len(u) + i] = Write(D[Len(u) + (i - 1)], w[Len(u) + i])
      BY <1>11, <3>1
    <3>3. B[i] = Write(B[i - 1], v[i])
      BY <2>0, DisksAre
    <3>4. D[Len(u) + (i - 1)] = B[i - 1] /\ w[Len(u) + i] = v[i]
      BY <1>0, <2>2
    <3> HIDE DEF D, A, B
    <3> QED
      BY <1>3, <3>2, <3>3, <3>4
  <2> HIDE DEF S
  <2>3. \A i \in 0 .. Len(v) : i \in S
    BY <1>3, <2>1, <2>2, OneByOne
  <2> QED
    BY <2>3 DEF S
<1>8. After(d, u \o v) = After(After(d, u), v)
  <2>1. D[Len(u) + Len(v)] = B[Len(v)]
    BY <1>3, <1>7
  <2> QED
    BY <1>0, <2>1 DEF After
<1>9. Passes(d, u \o v) = {A[i] : i \in 0 .. Len(u)} \cup {B[i] : i \in 0 .. Len(v)}
  <2>1. ASSUME NEW i \in 0 .. Len(u) + Len(v)
        PROVE  D[i] \in {A[k] : k \in 0 .. Len(u)} \cup {B[k] : k \in 0 .. Len(v)}
    <3>1. CASE i =< Len(u)
      BY <1>3, <1>6, <3>1
    <3>2. CASE i > Len(u)
      <4>1. i - Len(u) \in 0 .. Len(v) /\ Len(u) + (i - Len(u)) = i
        BY <1>3, <3>2
      <4>2. D[i] = B[i - Len(u)]
        BY <1>7, <4>1
      <4> HIDE DEF D, A, B
      <4> QED
        BY <4>1, <4>2
    <3> QED
      BY <1>3, <3>1, <3>2
  <2>2. ASSUME NEW i \in 0 .. Len(u) PROVE A[i] \in {D[k] : k \in 0 .. Len(u) + Len(v)}
    <3>1. i \in 0 .. Len(u) + Len(v) /\ D[i] = A[i]
      BY <1>3, <1>6
    <3> HIDE DEF D, A, B
    <3> QED
      BY <3>1
  <2>3. ASSUME NEW i \in 0 .. Len(v) PROVE B[i] \in {D[k] : k \in 0 .. Len(u) + Len(v)}
    <3>1. Len(u) + i \in 0 .. Len(u) + Len(v) /\ D[Len(u) + i] = B[i]
      BY <1>3, <1>7
    <3> HIDE DEF D, A, B
    <3> QED
      BY <3>1
  <2>4. Passes(d, u \o v) = {D[i] : i \in 0 .. Len(u) + Len(v)}
    BY <1>0 DEF Passes
  <2> HIDE DEF D, A, B
  <2> QED
    BY <2>1, <2>2, <2>3, <2>4
<1> QED
  BY <1>5, <1>8, <1>9 DEF Passes

-----------------------------------------------------------------------------
(***************************************************************************)
(* Sorted sets of numbers.                                                 *)
(***************************************************************************)
Increasing(s, k) == \A i, j \in 1 .. k : i < j => s[i] < s[j]

LEMMA IncreasingOnto ==
  ASSUME NEW S, S \subseteq Nat, IsFiniteSet(S),
         NEW s \in [1 .. Cardinality(S) -> S], Increasing(s, Cardinality(S))
  PROVE  \A x \in S : \E i \in 1 .. Cardinality(S) : s[i] = x
<1>1. Cardinality(S) \in Nat
  BY FS_CardinalityType
<1>2. IsFiniteSet(1 .. Cardinality(S)) /\ Cardinality(1 .. Cardinality(S)) = Cardinality(S)
  BY <1>1, FS_Interval
<1>3. s \in Injection(1 .. Cardinality(S), S)
  <2>1. ASSUME NEW i \in 1 .. Cardinality(S), NEW j \in 1 .. Cardinality(S), s[i] = s[j] PROVE i = j
    <3>0. s[i] \in S
      OBVIOUS
    <3>1. PICK x \in Nat : s[i] = x /\ s[j] = x
      BY <2>1, <3>0
    <3>3. ~(s[i] < s[j]) /\ ~(s[j] < s[i])
      BY <3>1
    <3>2. ~(i < j) /\ ~(j < i)
      BY <3>3 DEF Increasing
    <3> QED
      BY <1>1, <3>2
  <2> QED
    BY <2>1 DEF Injection, IsInjective
<1>4. s \in Surjection(1 .. Cardinality(S), S)
  BY <1>2, <1>3, FS_Injection
<1> QED
  BY <1>4 DEF Surjection

LEMMA IncreasingSame ==
  ASSUME NEW S, S \subseteq Nat, IsFiniteSet(S),
         NEW s \in [1 .. Cardinality(S) -> S], Increasing(s, Cardinality(S)),
         NEW t \in [1 .. Cardinality(S) -> S], Increasing(t, Cardinality(S))
  PROVE  s = t
<1> DEFINE bad == {i \in 1 .. Cardinality(S) : s[i] # t[i]}
<1> SUFFICES ASSUME bad # {} PROVE FALSE
  <2>1. bad = {} => \A i \in 1 .. Cardinality(S) : s[i] = t[i]
    OBVIOUS
  <2>2. s = [i \in 1 .. Cardinality(S) |-> s[i]] /\ t = [i \in 1 .. Cardinality(S) |-> t[i]]
    OBVIOUS
  <2> HIDE DEF bad
  <2>3. bad = {} => [i \in 1 .. Cardinality(S) |-> s[i]] = [i \in 1 .. Cardinality(S) |-> t[i]]
    BY <2>1
  <2> QED
    BY <2>2, <2>3
<1>1. Cardinality(S) \in Nat
  BY FS_CardinalityType
<1>2. PICK i \in bad : \A j \in bad : i =< j
  <2>1. bad \subseteq Nat
    BY <1>1
  <2> QED
    BY <2>1, LeastIn
<1>3. \A j \in 1 .. Cardinality(S) : j < i => s[j] = t[j]
  BY <1>1, <1>2
<1>4. i \in 1 .. Cardinality(S) /\ s[i] \in S /\ t[i] \in S /\ s[i] # t[i] /\ S \subseteq Nat
  OBVIOUS
<1>7. s[i] \in Nat /\ t[i] \in Nat
  BY <1>4
<1> HIDE DEF bad
<1>5. CASE s[i] < t[i]
  <2>0. \A x \in S : \E j \in 1 .. Cardinality(S) : t[j] = x
    BY IncreasingOnto
  <2>1. PICK j \in 1 .. Cardinality(S) : t[j] = s[i]
    BY <1>4, <2>0
  <2>2. ~(i < j) /\ i # j
    <3>1. ~(t[i] < t[j]) /\ t[i] # t[j]
      BY <1>7, <1>5, <2>1
    <3> QED
      BY <1>4, <3>1 DEF Increasing
  <2>3. j < i
    BY <1>1, <1>4, <2>2
  <2>4. s[j] < s[i] /\ s[j] = t[j]
    BY <1>1, <1>3, <1>4, <2>3 DEF Increasing
  <2> QED
    BY <1>7, <2>1, <2>4
<1>6. CASE t[i] < s[i]
  <2>0. \A x \in S : \E j \in 1 .. Cardinality(S) : s[j] = x
    BY IncreasingOnto
  <2>1. PICK j \in 1 .. Cardinality(S) : s[j] = t[i]
    BY <1>4, <2>0
  <2>2. ~(i < j) /\ i # j
    <3>1. ~(s[i] < s[j]) /\ s[i] # s[j]
      BY <1>7, <1>6, <2>1
    <3> QED
      BY <1>4, <3>1 DEF Increasing
  <2>3. j < i
    BY <1>1, <1>4, <2>2
  <2>4. t[j] < t[i] /\ s[j] = t[j]
    BY <1>1, <1>3, <1>4, <2>3 DEF Increasing
  <2> QED
    BY <1>7, <2>1, <2>4
<1> QED
  BY <1>4, <1>5, <1>6, <1>7

(* Adding a number above all others.                                       *)
Extend(s, k, n) == [i \in 1 .. k + 1 |-> IF i =< k THEN s[i] ELSE n]

LEMMA AddLast ==
  ASSUME NEW S, S \subseteq Nat, IsFiniteSet(S), NEW n \in Nat, \A m \in S : m < n,
         NEW s \in [1 .. Cardinality(S) -> S], Increasing(s, Cardinality(S))
  PROVE  /\ Cardinality(S \cup {n}) = Cardinality(S) + 1 /\ IsFiniteSet(S \cup {n})
         /\ Extend(s, Cardinality(S), n) \in [1 .. Cardinality(S \cup {n}) -> S \cup {n}]
         /\ Increasing(Extend(s, Cardinality(S), n), Cardinality(S) + 1)
<1>0. PICK t : t = Extend(s, Cardinality(S), n)
  OBVIOUS
<1>1. Cardinality(S) \in Nat
  BY FS_CardinalityType
<1>2. n \notin S
  OBVIOUS
<1>3. Cardinality(S \cup {n}) = Cardinality(S) + 1 /\ IsFiniteSet(S \cup {n})
  BY <1>2, FS_AddElement
<1>4. ASSUME NEW i \in 1 .. Cardinality(S) + 1
      PROVE  /\ i =< Cardinality(S) => t[i] = s[i] /\ s[i] \in S /\ i \in 1 .. Cardinality(S)
             /\ ~(i =< Cardinality(S)) => t[i] = n /\ i = Cardinality(S) + 1
  BY <1>0, <1>1 DEF Extend
<1>5. t \in [1 .. Cardinality(S) + 1 -> S \cup {n}]
  <2>1. \A i \in 1 .. Cardinality(S) + 1 : t[i] \in S \cup {n}
    BY <1>4
  <2> QED
    BY <1>0, <2>1 DEF Extend
<1>6. ASSUME NEW i \in 1 .. Cardinality(S) + 1, NEW j \in 1 .. Cardinality(S) + 1, i < j PROVE t[i] < t[j]
  <2>1. i =< Cardinality(S)
    BY <1>1, <1>6
  <2>2. t[i] = s[i] /\ s[i] \in S
    BY <1>4, <2>1
  <2>3. CASE j =< Cardinality(S)
    <3>1. i \in 1 .. Cardinality(S) /\ j \in 1 .. Cardinality(S) /\ t[j] = s[j]
      BY <1>4, <2>1, <2>3
    <3> QED
      BY <1>6, <2>2, <3>1 DEF Increasing
  <2>4. CASE ~(j =< Cardinality(S))
    BY <1>4, <2>2, <2>4
  <2> QED
    BY <2>3, <2>4
<1>7. Increasing(t, Cardinality(S) + 1)
  BY <1>5, <1>6 DEF Increasing
<1> QED
  BY <1>0, <1>3, <1>5, <1>7

LEMMA IncreasingExists ==
  ASSUME NEW N \in Nat, NEW S, S \subseteq 0 .. N
  PROVE  IsFiniteSet(S) /\ \E s \in [1 .. Cardinality(S) -> S] : Increasing(s, Cardinality(S))
<1> DEFINE B(n) == {m \in S : m < n}
           Good == {n \in 0 .. N + 1 : IsFiniteSet(B(n)) /\ \E s \in [1 .. Cardinality(B(n)) -> B(n)] : Increasing(s, Cardinality(B(n)))}
<1>0. \A m \in S : m \in Nat /\ m =< N
  OBVIOUS
<1>1. 0 \in Good
  <2>1. B(0) = {}
    <3>1. \A m \in S : ~(m < 0)
      BY <1>0
    <3> QED
      BY <3>1
  <2>2. IsFiniteSet(B(0)) /\ Cardinality(B(0)) = 0
    BY <2>1, FS_EmptySet
  <2>3. PICK s : s = [i \in 1 .. 0 |-> i]
    OBVIOUS
  <2>5. 0 \in 0 .. N + 1
    OBVIOUS
  <2> HIDE DEF B
  <2>4. s \in [1 .. Cardinality(B(0)) -> B(0)] /\ Increasing(s, Cardinality(B(0)))
    <3>1. 1 .. Cardinality(B(0)) = 1 .. 0 /\ \A i \in 1 .. 0 : FALSE
      BY <2>2
    <3> HIDE <2>2
    <3> QED
      BY <2>3, <3>1 DEF Increasing
  <2> QED
    BY <2>2, <2>4, <2>5
<1>2. ASSUME NEW n \in 1 .. N + 1, n - 1 \in Good PROVE n \in Good
  <2>0. n - 1 \in Nat /\ n \in 0 .. N + 1
    OBVIOUS
  <2>1. IsFiniteSet(B(n - 1)) /\ \E s \in [1 .. Cardinality(B(n - 1)) -> B(n - 1)] : Increasing(s, Cardinality(B(n - 1)))
    BY <1>2
  <2>2. B(n - 1) \subseteq Nat /\ \A m \in B(n - 1) : m < n - 1
    BY <1>0
  <2>3. CASE n - 1 \in S
    <3>1. B(n) = B(n - 1) \cup {n - 1}
      <4>1. \A m \in S : m < n <=> m < n - 1 \/ m = n - 1
        BY <1>0
      <4> QED
        BY <2>3, <4>1
    <3> HIDE DEF B
    <3>2. PICK s \in [1 .. Cardinality(B(n - 1)) -> B(n - 1)] : Increasing(s, Cardinality(B(n - 1)))
      BY <2>1
    <3>3. PICK t : t = Extend(s, Cardinality(B(n - 1)), n - 1)
      OBVIOUS
    <3>5. PICK S1 : S1 = B(n - 1)
      OBVIOUS
    <3>6. /\ S1 \subseteq Nat /\ IsFiniteSet(S1) /\ \A m \in S1 : m < n - 1
          /\ s \in [1 .. Cardinality(S1) -> S1] /\ Increasing(s, Cardinality(S1))
      BY <2>1, <2>2, <3>2, <3>5
    <3>7. /\ Cardinality(S1 \cup {n - 1}) = Cardinality(S1) + 1 /\ IsFiniteSet(S1 \cup {n - 1})
          /\ Extend(s, Cardinality(S1), n - 1) \in [1 .. Cardinality(S1 \cup {n - 1}) -> S1 \cup {n - 1}]
          /\ Increasing(Extend(s, Cardinality(S1), n - 1), Cardinality(S1) + 1)
      BY <2>0, <3>6, AddLast
    <3>4. IsFiniteSet(B(n)) /\ t \in [1 .. Cardinality(B(n)) -> B(n)] /\ Increasing(t, Cardinality(B(n)))
      BY <3>1, <3>3, <3>5, <3>7
    <3> QED
      BY <2>0, <3>4
  <2>4. CASE n - 1 \notin S
    <3>1. B(n) = B(n - 1)
      <4>1. \A m \in S : m < n <=> m < n - 1
        <5>1. \A m \in S : m # n - 1
          BY <2>4
        <5> QED
          BY <1>0, <5>1
      <4> QED
        BY <4>1
    <3> HIDE DEF B
    <3> QED
      BY <2>0, <2>1, <3>1
  <2> QED
    BY <2>3, <2>4
<1> HIDE DEF Good
<1>3. \A n \in 0 .. N + 1 : n \in Good
  BY <1>1, <1>2, OneByOne
<1>4. N + 1 \in Good
  BY <1>3
<1>5. B(N + 1) = S
  <2>1. \A m \in S : m < N + 1
    OBVIOUS
  <2> QED
    BY <2>1
<1> HIDE DEF B
<1> QED
  BY <1>4, <1>5 DEF Good

(* What Sorted returns.                                                    *)
LEMMA SortedIs ==
  ASSUME NEW N \in Nat, NEW S, S \subseteq 0 .. N
  PROVE  /\ IsFiniteSet(S) /\ Cardinality(S) \in Nat
         /\ Sorted(S) \in [1 .. Cardinality(S) -> S]
         /\ Increasing(Sorted(S), Cardinality(S))
         /\ \A x \in S : \E i \in 1 .. Cardinality(S) : Sorted(S)[i] = x
         /\ Sorted(S) \in Seq(S) /\ Len(Sorted(S)) = Cardinality(S)
<1>1. IsFiniteSet(S) /\ \E s \in [1 .. Cardinality(S) -> S] : Increasing(s, Cardinality(S))
  BY IncreasingExists
<1> DEFINE Ok(s) == \A i, j \in DOMAIN s : i < j => s[i] < s[j]
<1>2. Sorted(S) \in [1 .. Cardinality(S) -> S] /\ Increasing(Sorted(S), Cardinality(S))
  <2>1. PICK s \in [1 .. Cardinality(S) -> S] : Increasing(s, Cardinality(S))
    BY <1>1
  <2>2. DOMAIN s = 1 .. Cardinality(S)
    OBVIOUS
  <2>3. Ok(s)
    BY <2>1, <2>2 DEF Increasing
  <2>4. Sorted(S) = CHOOSE q \in [1 .. Cardinality(S) -> S] : Ok(q)
    BY DEF Sorted
  <2> HIDE DEF Ok
  <2>5. Sorted(S) \in [1 .. Cardinality(S) -> S] /\ Ok(Sorted(S))
    BY <2>3, <2>4
  <2> QED
    BY <2>5 DEF Ok, Increasing
<1>3. Cardinality(S) \in Nat
  BY <1>1, FS_CardinalityType
<1>4. S \subseteq Nat
  OBVIOUS
<1>5. \A x \in S : \E i \in 1 .. Cardinality(S) : Sorted(S)[i] = x
  BY <1>1, <1>2, <1>4, IncreasingOnto
<1>6. Sorted(S) \in Seq(S) /\ Len(Sorted(S)) = Cardinality(S)
  BY <1>2, <1>3
<1> QED
  BY <1>1, <1>2, <1>3, <1>5, <1>6

LEMMA SortedAdd ==
  ASSUME NEW N \in Nat, NEW S, S \subseteq 0 .. N, NEW n \in 0 .. N, \A m \in S : m < n
  PROVE  /\ Len(Sorted(S \cup {n})) = Len(Sorted(S)) + 1
         /\ \A i \in 1 .. Len(Sorted(S)) : Sorted(S \cup {n})[i] = Sorted(S)[i]
         /\ Sorted(S \cup {n})[Len(Sorted(S)) + 1] = n
<1>1. /\ IsFiniteSet(S) /\ Sorted(S) \in [1 .. Cardinality(S) -> S] /\ Increasing(Sorted(S), Cardinality(S))
      /\ Len(Sorted(S)) = Cardinality(S) /\ Cardinality(S) \in Nat
  BY SortedIs
<1>2. /\ Sorted(S \cup {n}) \in [1 .. Cardinality(S \cup {n}) -> S \cup {n}] /\ Increasing(Sorted(S \cup {n}), Cardinality(S \cup {n}))
      /\ Len(Sorted(S \cup {n})) = Cardinality(S \cup {n})
  <2>1. S \cup {n} \subseteq 0 .. N
    OBVIOUS
  <2> QED
    BY <2>1, SortedIs
<1>3. PICK t : t = Extend(Sorted(S), Cardinality(S), n)
  OBVIOUS
<1>4. S \subseteq Nat /\ n \in Nat /\ S \cup {n} \subseteq Nat
  OBVIOUS
<1>5. /\ Cardinality(S \cup {n}) = Cardinality(S) + 1 /\ IsFiniteSet(S \cup {n})
      /\ t \in [1 .. Cardinality(S \cup {n}) -> S \cup {n}] /\ Increasing(t, Cardinality(S) + 1)
  BY <1>1, <1>3, <1>4, AddLast
<1>6. Sorted(S \cup {n}) = t
  BY <1>2, <1>4, <1>5, IncreasingSame
<1>7. PICK k \in Nat : k = Cardinality(S) /\ k = Len(Sorted(S))
  BY <1>1
<1>8. \A i \in 1 .. k + 1 : t[i] = IF i =< k THEN Sorted(S)[i] ELSE n
  BY <1>3, <1>7 DEF Extend
<1>9. t[k + 1] = n /\ \A i \in 1 .. k : t[i] = Sorted(S)[i]
  BY <1>7, <1>8
<1> QED
  BY <1>2, <1>5, <1>6, <1>7, <1>9
-----------------------------------------------------------------------------
(***************************************************************************)
(* The chain of a block, and the state it leads to.                        *)
(***************************************************************************)
LEMMA ChainIs ==
  ASSUME NEW b \in Block
  PROVE  /\ Num[b] \in 0 .. MaxNum /\ Num[b] \in Nat /\ MaxNum \in Nat /\ Prev[b] \in Block
         /\ Anc[b][Num[b]] = b
         /\ \A n \in 0 .. Num[b] : Anc[b][n] \in Block /\ Num[Anc[b][n]] = n
         /\ \A n \in 1 .. Num[b] : Anc[b][n - 1] = Prev[Anc[b][n]]
         /\ Num[b] > 0 => Num[Prev[b]] = Num[b] - 1
<1>1. Num[b] \in 0 .. MaxNum /\ MaxNum \in Nat /\ Prev[b] \in Block
  BY BlocksAssumption DEF Heights
<1>2. \A n \in 0 .. MaxNum : Anc[b][n] \in Block
  BY BlocksAssumption DEF Heights
<1>3. Anc[b][Num[b]] = b /\ \A n \in 1 .. Num[b] : Num[Anc[b][n]] = n /\ Anc[b][n - 1] = Prev[Anc[b][n]]
  BY BlocksAssumption
<1>4. ASSUME NEW c \in Block, Num[c] > 0 PROVE Num[Prev[c]] = Num[c] - 1
  BY <1>4, BlocksAssumption
<1>5. Num[Anc[b][0]] = 0
  <2>1. CASE Num[b] = 0
    BY <1>3, <2>1
  <2>2. CASE Num[b] # 0
    <3>1. 1 \in 1 .. Num[b] /\ Anc[b][1] \in Block
      BY <1>1, <1>2, <2>2
    <3>2. Num[Anc[b][1]] = 1 /\ Anc[b][0] = Prev[Anc[b][1]]
      BY <1>3, <3>1
    <3> QED
      BY <1>4, <3>1, <3>2
  <2> QED
    BY <2>1, <2>2
<1>6. ASSUME NEW n \in 0 .. Num[b] PROVE Anc[b][n] \in Block /\ Num[Anc[b][n]] = n
  <2>1. n \in 0 .. MaxNum /\ (n = 0 \/ n \in 1 .. Num[b])
    BY <1>1
  <2> QED
    BY <1>2, <1>3, <1>5, <2>1
<1> QED
  BY <1>1, <1>3, <1>4, <1>6

LEMMA FirstIs ==
  /\ GenesisBlock(0) \in Block /\ Num[GenesisBlock(0)] = 0
  /\ \A c \in Block : Num[c] = 0 => c = GenesisBlock(0)
  /\ GenesisCount \in Nat /\ GenesisCount > 0
<1>1. GenesisCount \in Nat /\ GenesisCount > 0
  BY BlocksAssumption
<1>2. 0 \in 0 .. GenesisCount - 1
  BY <1>1
<1>3. PICK g \in Block : Num[g] = 0 /\ \A c \in Block : Num[c] = 0 => c = g
  BY <1>2, BlocksAssumption
<1>4. GenesisBlock(0) = g
  BY <1>3 DEF GenesisBlock
<1> QED
  BY <1>1, <1>3, <1>4

(* The locally made blocks are the same in every chain.                    *)
LEMMA GenesisSame ==
  ASSUME NEW b \in Block, NEW c \in Block, Num[b] = Num[c], Num[b] < GenesisCount
  PROVE  b = c
<1>1. GenesisCount \in Nat /\ Num[b] \in Nat
  BY ChainIs, FirstIs
<1>2. Num[b] \in 0 .. GenesisCount - 1
  BY <1>1
<1>3. PICK g \in Block : Num[g] = Num[b] /\ \A a \in Block : Num[a] = Num[b] => a = g
  BY <1>2, BlocksAssumption
<1> QED
  BY <1>3

LEMMA AncOfAnc ==
  ASSUME NEW b \in Block, NEW m \in 0 .. Num[b], NEW c, c = Anc[b][m]
  PROVE  /\ c \in Block /\ Num[c] = m
         /\ \A n \in 0 .. m : Anc[c][n] = Anc[b][n]
<1>1. c \in Block /\ Num[c] = m /\ Num[b] \in Nat /\ m \in Nat
  BY ChainIs
<1>2. Anc[c][m] = Anc[b][m]
  BY <1>1, ChainIs
<1>3. ASSUME NEW k \in 1 .. m PROVE Anc[c][k - 1] = Prev[Anc[c][k]] /\ Anc[b][k - 1] = Prev[Anc[b][k]]
  <2>1. k \in 1 .. Num[c] /\ k \in 1 .. Num[b]
    BY <1>1
  <2> QED
    BY <1>1, <2>1, ChainIs
<1>4. PICK f : f = Anc[c]
  OBVIOUS
<1>5. PICK g : g = Anc[b]
  OBVIOUS
<1>6. \A n \in 0 .. m : f[n] = g[n]
  <2>1. f[m] = g[m] /\ \A k \in 1 .. m : f[k - 1] = Prev[f[k]] /\ g[k - 1] = Prev[g[k]]
    BY <1>2, <1>3, <1>4, <1>5
  <2>2. BothBack(m, f, g, Prev)
    BY <2>1 DEF BothBack
  <2> QED
    BY <1>1, <2>1, <2>2, SameBelow
<1> QED
  BY <1>1, <1>4, <1>5, <1>6

LEMMA ChildIs ==
  ASSUME NEW b \in Block, Num[b] > 0, NEW e, e = Prev[b]
  PROVE  /\ e \in Block /\ Num[e] \in Nat /\ Num[b] = Num[e] + 1
         /\ e = Anc[b][Num[e]]
         /\ \A n \in 0 .. Num[e] : Anc[b][n] = Anc[e][n]
<1>1. Num[b] \in Nat /\ e \in Block /\ Num[e] = Num[b] - 1
  BY ChainIs
<1>2. Num[b] \in 1 .. Num[b] /\ Num[e] \in 0 .. Num[b] /\ Num[b] - 1 = Num[e]
  BY <1>1
<1>3. Anc[b][Num[e]] = e
  BY <1>2, ChainIs
<1>4. \A n \in 0 .. Num[e] : Anc[e][n] = Anc[b][n]
  BY <1>2, <1>3, AncOfAnc
<1> QED
  BY <1>1, <1>3, <1>4

-----------------------------------------------------------------------------
(* How many accounts there are after each block of the chain of b.         *)
IsCount(b, f) ==
  /\ f \in [Heights -> Nat] /\ f[0] = GenesisCount
  /\ \A n \in 1 .. MaxNum : f[n] = f[n - 1] + NewCount[Anc[b][n]]

LEMMA CountIs ==
  ASSUME NEW b \in Block
  PROVE  \E f : IsCount(b, f) /\ AccountsOf(b) = f[Num[b]]
<1> DEFINE Is(f) == f = [n \in Heights |-> IF n = 0 THEN GenesisCount ELSE f[n - 1] + NewCount[Anc[b][n]]]
<1>1. MaxNum \in Nat /\ GenesisCount \in Nat
  BY BlocksAssumption
<1>2. ASSUME NEW n \in 1 .. MaxNum PROVE NewCount[Anc[b][n]] \in Nat
  <2>1. Anc[b][n] \in Block
    BY <1>1, BlocksAssumption DEF Heights
  <2> QED
    BY <2>1, TxAssumption
<1>3. PICK G : G = [n \in 1 .. MaxNum |-> [k \in Nat |-> k + NewCount[Anc[b][n]]]]
  OBVIOUS
<1>4. G \in [1 .. MaxNum -> [Nat -> Nat]] /\ \A n \in 1 .. MaxNum : \A k \in Nat : G[n][k] = k + NewCount[Anc[b][n]]
  BY SMTT(30), <1>2, <1>3
<1>5. PICK f \in [0 .. MaxNum -> Nat] : f[0] = GenesisCount /\ \A n \in 1 .. MaxNum : f[n] = G[n][f[n - 1]]
  <2>1. Taken(MaxNum, Nat, GenesisCount, G)
    BY <1>1, <1>4, Turns
  <2> QED
    BY <2>1 DEF Taken
<1>6. ASSUME NEW n \in 1 .. MaxNum PROVE f[n] = f[n - 1] + NewCount[Anc[b][n]]
  <2>1. n - 1 \in 0 .. MaxNum
    BY <1>1
  <2>2. f[n - 1] \in Nat
    BY <2>1
  <2> QED
    BY <1>4, <1>5, <2>2
<1>7. Is(f)
  <2>1. \A n \in Heights : f[n] = IF n = 0 THEN GenesisCount ELSE f[n - 1] + NewCount[Anc[b][n]]
    <3>1. ASSUME NEW n \in Heights PROVE f[n] = IF n = 0 THEN GenesisCount ELSE f[n - 1] + NewCount[Anc[b][n]]
      <4>1. n = 0 \/ n \in 1 .. MaxNum
        BY <1>1 DEF Heights
      <4> QED
        BY <1>5, <1>6, <4>1
    <3> QED
      BY <3>1
  <2>2. f = [n \in Heights |-> f[n]]
    BY DEF Heights
  <2> QED
    BY <2>1, <2>2
<1>8. PICK c : c = CHOOSE g : Is(g)
  OBVIOUS
<1>9. Is(c)
  BY <1>7, <1>8
<1>10. AccountsOf(b) = c[Num[b]]
  BY <1>8 DEF AccountsOf
<1>11. \A n \in 0 .. MaxNum : c[n] = IF n = 0 THEN GenesisCount ELSE c[n - 1] + NewCount[Anc[b][n]]
  BY <1>9 DEF Heights
<1>12. c[0] = GenesisCount /\ \A n \in 1 .. MaxNum : c[n] = c[n - 1] + NewCount[Anc[b][n]]
  BY <1>1, <1>11
<1>13. \A n \in 0 .. MaxNum : c[n] \in Nat
  <2> DEFINE S == {n \in 0 .. MaxNum : c[n] \in Nat}
  <2>1. 0 \in S
    BY <1>1, <1>12
  <2>2. ASSUME NEW n \in 1 .. MaxNum, n - 1 \in S PROVE n \in S
    <3>1. c[n - 1] \in Nat /\ NewCount[Anc[b][n]] \in Nat /\ c[n] = c[n - 1] + NewCount[Anc[b][n]]
      BY <1>2, <1>12, <2>2
    <3>2. c[n] \in Nat /\ n \in 0 .. MaxNum
      BY <1>1, <3>1
    <3> QED
      BY <3>2
  <2> HIDE DEF S
  <2>3. \A n \in 0 .. MaxNum : n \in S
    BY <1>1, <2>1, <2>2, OneByOne
  <2> QED
    BY <2>3 DEF S
<1>14. c \in [Heights -> Nat]
  <2>1. c = [n \in Heights |-> c[n]]
    BY <1>9
  <2> QED
    BY <1>13, <2>1 DEF Heights
<1> QED
  BY <1>10, <1>12, <1>14 DEF IsCount

LEMMA AccountsNext ==
  ASSUME NEW b \in Block, Num[b] > 0, NEW e, e = Prev[b]
  PROVE  /\ AccountsOf(e) \in Nat /\ NewCount[b] \in Nat
         /\ AccountsOf(b) = AccountsOf(e) + NewCount[b]
<1>1. /\ e \in Block /\ Num[e] \in Nat /\ Num[b] = Num[e] + 1
      /\ \A n \in 0 .. Num[e] : Anc[b][n] = Anc[e][n]
  BY ChildIs
<1>2. PICK f : IsCount(b, f) /\ AccountsOf(b) = f[Num[b]]
  BY CountIs
<1>3. PICK g : IsCount(e, g) /\ AccountsOf(e) = g[Num[e]]
  BY <1>1, CountIs
<1>4. MaxNum \in Nat /\ Num[b] \in 0 .. MaxNum /\ Anc[b][Num[b]] = b
  BY ChainIs
<1>5. \A n \in 0 .. Num[e] : f[n] = g[n]
  <2> DEFINE S == {n \in 0 .. Num[e] : f[n] = g[n]}
  <2>1. 0 \in S
    BY <1>1, <1>2, <1>3 DEF IsCount
  <2>2. ASSUME NEW n \in 1 .. Num[e], n - 1 \in S PROVE n \in S
    <3>1. n \in 1 .. MaxNum /\ n \in 0 .. Num[e] /\ f[n - 1] = g[n - 1]
      BY <1>1, <1>4, <2>2
    <3>2. f[n] = f[n - 1] + NewCount[Anc[b][n]] /\ g[n] = g[n - 1] + NewCount[Anc[e][n]]
      BY <1>2, <1>3, <3>1 DEF IsCount
    <3> QED
      BY <1>1, <3>1, <3>2
  <2> HIDE DEF S
  <2>3. \A n \in 0 .. Num[e] : n \in S
    BY <1>1, <2>1, <2>2, OneByOne
  <2> QED
    BY <2>3 DEF S
<1>6. f[Num[b]] = f[Num[e]] + NewCount[b]
  <2>1. Num[b] \in 1 .. MaxNum /\ Num[b] - 1 = Num[e]
    BY <1>1, <1>4
  <2> QED
    BY <1>2, <1>4, <2>1 DEF IsCount
<1>7. f[Num[e]] = g[Num[e]] /\ g[Num[e]] \in Nat
  <2>1. Num[e] \in 0 .. Num[e] /\ Num[e] \in Heights
    BY <1>1, <1>4 DEF Heights
  <2> QED
    BY <1>3, <1>5, <2>1 DEF IsCount
<1>8. NewCount[b] \in Nat
  BY TxAssumption
<1> QED
  BY <1>2, <1>3, <1>6, <1>7, <1>8

LEMMA AccountsFirst == AccountsOf(GenesisBlock(0)) = GenesisCount
<1>1. PICK f : IsCount(GenesisBlock(0), f) /\ AccountsOf(GenesisBlock(0)) = f[Num[GenesisBlock(0)]]
  BY FirstIs, CountIs
<1> QED
  BY <1>1, FirstIs DEF IsCount

LEMMA AccountsType ==
  ASSUME NEW b \in Block
  PROVE  AccountsOf(b) \in Nat
<1>1. PICK f : IsCount(b, f) /\ AccountsOf(b) = f[Num[b]]
  BY CountIs
<1>2. Num[b] \in Heights
  BY BlocksAssumption
<1> QED
  BY <1>1, <1>2 DEF IsCount

(* No block of the chain has more accounts than its last one.              *)
LEMMA AccountsGrow ==
  ASSUME NEW b \in Block, NEW n \in 0 .. Num[b]
  PROVE  AccountsOf(Anc[b][n]) =< AccountsOf(b)
<1> DEFINE S == {k \in 0 .. Num[b] : \A m \in 0 .. k : AccountsOf(Anc[b][m]) =< AccountsOf(Anc[b][k])}
<1>1. Num[b] \in Nat /\ \A k \in 0 .. Num[b] : Anc[b][k] \in Block /\ Num[Anc[b][k]] = k /\ AccountsOf(Anc[b][k]) \in Nat
  BY ChainIs, AccountsType
<1>2. 0 \in S
  <2>1. 0 \in 0 .. Num[b] /\ \A m \in 0 .. 0 : m = 0
    BY <1>1
  <2>2. AccountsOf(Anc[b][0]) =< AccountsOf(Anc[b][0])
    BY <1>1, <2>1
  <2> QED
    BY <2>1, <2>2
<1>3. ASSUME NEW k \in 1 .. Num[b], k - 1 \in S PROVE k \in S
  <2>1. k \in 0 .. Num[b] /\ k - 1 \in 0 .. Num[b] /\ Anc[b][k - 1] = Prev[Anc[b][k]]
    BY <1>1, ChainIs
  <2>2. PICK c \in Block : c = Anc[b][k] /\ Num[c] = k
    BY <1>1, <2>1
  <2>3. AccountsOf(Prev[c]) \in Nat /\ NewCount[c] \in Nat /\ AccountsOf(c) = AccountsOf(Prev[c]) + NewCount[c]
    BY <2>2, AccountsNext
  <2>4. AccountsOf(Anc[b][k - 1]) =< AccountsOf(Anc[b][k])
    BY <2>1, <2>2, <2>3
  <2>5. ASSUME NEW m \in 0 .. k PROVE AccountsOf(Anc[b][m]) =< AccountsOf(Anc[b][k])
    <3>1. CASE m = k
      BY <1>1, <2>1, <3>1
    <3>2. CASE m # k
      <4>1. m \in 0 .. k - 1 /\ m \in 0 .. Num[b]
        BY <1>1, <3>2
      <4>2. AccountsOf(Anc[b][m]) =< AccountsOf(Anc[b][k - 1])
        BY <1>3, <4>1
      <4> QED
        BY <1>1, <2>1, <2>4, <4>1, <4>2
    <3> QED
      BY <3>1, <3>2
  <2> QED
    BY <2>1, <2>5
<1> HIDE DEF S
<1>4. \A k \in 0 .. Num[b] : k \in S
  BY <1>1, <1>2, <1>3, OneByOne
<1>5. Num[b] \in S
  BY <1>1, <1>4
<1> QED
  BY <1>5, ChainIs DEF S
-----------------------------------------------------------------------------
(***************************************************************************)
(* What the chain of a block leads to: the values and the smart contracts. *)
(***************************************************************************)
LEMMA ChainNext ==
  ASSUME NEW b \in Block, Num[b] > 0, NEW e, e = Prev[b]
  PROVE  Chain(b) = Chain(e) \cup {b}
<1>1. /\ e \in Block /\ Num[e] \in Nat /\ Num[b] = Num[e] + 1
      /\ \A n \in 0 .. Num[e] : Anc[b][n] = Anc[e][n]
  BY ChildIs
<1>2. Anc[b][Num[b]] = b
  BY ChainIs
<1>3. ASSUME NEW c \in Chain(b) PROVE c \in Chain(e) \cup {b}
  <2>1. PICK n \in 1 .. Num[b] : c = Anc[b][n]
    BY DEF Chain
  <2>2. n = Num[b] \/ n \in 1 .. Num[e]
    BY <1>1
  <2> QED
    BY <1>1, <1>2, <2>1, <2>2 DEF Chain
<1>4. ASSUME NEW c \in Chain(e) PROVE c \in Chain(b)
  <2>1. PICK n \in 1 .. Num[e] : c = Anc[e][n]
    BY DEF Chain
  <2>2. n \in 1 .. Num[b] /\ c = Anc[b][n]
    BY <1>1, <2>1
  <2> QED
    BY <2>2 DEF Chain
<1>5. b \in Chain(b)
  BY <1>1, <1>2 DEF Chain
<1> QED
  BY <1>3, <1>4, <1>5

LEMMA ReplayIs ==
  ASSUME NEW b \in Block
  PROVE  /\ AccountsOf(b) \in Nat /\ Len(Replay(b)) = AccountsOf(b)
         /\ Replay(b) \in Seq(SUBSET Block)
         /\ \A i \in 1 .. AccountsOf(b) : Replay(b)[i] = {c \in Chain(b) : Touches(c, i - 1)}
<1>1. AccountsOf(b) \in Nat
  BY AccountsType
<1>2. Chain(b) \subseteq Block
  <2>1. \A n \in 1 .. Num[b] : n \in 0 .. Num[b]
    OBVIOUS
  <2> QED
    BY <2>1, ChainIs DEF Chain
<1> DEFINE V(i) == {c \in Chain(b) : Touches(c, i - 1)}
<1>3. Replay(b) = [i \in 1 .. AccountsOf(b) |-> V(i)]
  BY DEF Replay
<1>4. \A i \in 1 .. AccountsOf(b) : V(i) \in SUBSET Block
  BY <1>2
<1> HIDE DEF V
<1>5. Replay(b) \in [1 .. AccountsOf(b) -> SUBSET Block]
  BY <1>3, <1>4
<1>6. \A i \in 1 .. AccountsOf(b) : Replay(b)[i] = V(i)
  BY <1>3
<1>7. Replay(b) \in Seq(SUBSET Block) /\ Len(Replay(b)) = AccountsOf(b)
  BY <1>1, <1>5
<1> QED
  BY <1>1, <1>6, <1>7 DEF V

LEMMA ReplayFirst ==
  /\ Len(Replay(GenesisBlock(0))) = GenesisCount
  /\ \A i \in 1 .. GenesisCount : Replay(GenesisBlock(0))[i] = {}
<1>1. Chain(GenesisBlock(0)) = {}
  BY FirstIs DEF Chain
<1> QED
  BY <1>1, FirstIs, AccountsFirst, ReplayIs

(* A block adds itself to the accounts it changes and makes new ones.      *)
LEMMA ReplayNext ==
  ASSUME NEW b \in Block, Num[b] > 0, NEW e, e = Prev[b]
  PROVE  /\ \A a \in 0 .. AccountsOf(e) - 1 :
              /\ a \in Changes[b] => Replay(b)[a + 1] = {b} \cup Replay(e)[a + 1]
              /\ a \notin Changes[b] => Replay(b)[a + 1] = Replay(e)[a + 1]
         /\ \A a \in AccountsOf(e) .. AccountsOf(b) - 1 : Replay(b)[a + 1] = {b}
<1>1. /\ e \in Block /\ Num[e] \in Nat /\ Num[b] = Num[e] + 1
      /\ \A n \in 0 .. Num[e] : Anc[b][n] = Anc[e][n]
  BY ChildIs
<1>2. AccountsOf(e) \in Nat /\ AccountsOf(b) \in Nat /\ AccountsOf(e) =< AccountsOf(b)
  BY AccountsNext
<1>3. Chain(b) = Chain(e) \cup {b}
  BY ChainNext
<1>4. ASSUME NEW a \in 0 .. AccountsOf(e) - 1
      PROVE  /\ a \in Changes[b] => Replay(b)[a + 1] = {b} \cup Replay(e)[a + 1]
             /\ a \notin Changes[b] => Replay(b)[a + 1] = Replay(e)[a + 1]
  <2>1. /\ a + 1 \in 1 .. AccountsOf(e) /\ a + 1 \in 1 .. AccountsOf(b) /\ (a + 1) - 1 = a
        /\ a < AccountsOf(e)
    BY <1>2
  <2>2. /\ Replay(b)[a + 1] = {c \in Chain(b) : Touches(c, a)}
        /\ Replay(e)[a + 1] = {c \in Chain(e) : Touches(c, a)}
    BY <1>1, <2>1, ReplayIs
  <2>3. Touches(b, a) <=> a \in Changes[b]
    BY <2>1 DEF Touches
  <2> QED
    BY <1>3, <2>2, <2>3
<1>5. ASSUME NEW a \in AccountsOf(e) .. AccountsOf(b) - 1 PROVE Replay(b)[a + 1] = {b}
  <2>1. a + 1 \in 1 .. AccountsOf(b) /\ (a + 1) - 1 = a /\ ~(a < AccountsOf(e)) /\ a < AccountsOf(b)
    BY <1>2
  <2>2. Replay(b)[a + 1] = {c \in Chain(b) : Touches(c, a)}
    BY <2>1, ReplayIs
  <2>3. Touches(b, a)
    BY <2>1 DEF Touches
  <2>4. ASSUME NEW c \in Chain(e) PROVE ~Touches(c, a)
    <3>1. PICK n \in 1 .. Num[e] : c = Anc[e][n]
      BY DEF Chain
    <3>2. n \in 0 .. Num[e] /\ n - 1 \in 0 .. Num[e] /\ Anc[e][n - 1] = Prev[c]
      BY <1>1, <3>1, ChainIs
    <3>3. AccountsOf(c) =< AccountsOf(e) /\ AccountsOf(Prev[c]) =< AccountsOf(e)
      BY <1>1, <3>1, <3>2, AccountsGrow
    <3>4. c \in Block /\ Prev[c] \in Block
      BY <1>1, <3>1, <3>2, ChainIs
    <3>5. AccountsOf(c) \in Nat /\ AccountsOf(Prev[c]) \in Nat /\ a \in Nat
      BY <1>2, <3>4, AccountsType
    <3>6. ~(a < AccountsOf(c)) /\ ~(a < AccountsOf(Prev[c]))
      BY <1>2, <2>1, <3>3, <3>5
    <3> QED
      BY <3>6 DEF Touches
  <2> QED
    BY <1>3, <2>2, <2>3, <2>4
<1> QED
  BY <1>4, <1>5

SmartNums(b) == {n \in 1 .. Num[b] : Anc[b][n] \in Smart}

LEMMA SmartsIs ==
  ASSUME NEW b \in Block
  PROVE  /\ Smarts(b) \in Seq(Block) /\ Len(Smarts(b)) \in Nat
         /\ Len(Smarts(b)) = Len(Sorted(SmartNums(b))) + 1 /\ Smarts(b)[1] = GenesisBlock(0)
         /\ \A i \in 1 .. Len(Sorted(SmartNums(b))) : Smarts(b)[i + 1] = Anc[b][Sorted(SmartNums(b))[i]]
         /\ \A i \in 1 .. Len(Smarts(b)) : Smarts(b)[i] \in Block /\ Num[Smarts(b)[i]] =< Num[b]
<1>1. Num[b] \in Nat /\ \A n \in 1 .. Num[b] : n \in 0 .. Num[b]
  BY ChainIs
<1>2. PICK nums : nums = Sorted(SmartNums(b))
  OBVIOUS
<1>3. SmartNums(b) \subseteq 0 .. Num[b]
  BY <1>1 DEF SmartNums
<1>4. PICK k \in Nat : nums \in [1 .. k -> SmartNums(b)] /\ Len(nums) = k
  BY <1>1, <1>2, <1>3, SortedIs
<1>5. ASSUME NEW i \in 1 .. k PROVE nums[i] \in 1 .. Num[b] /\ Anc[b][nums[i]] \in Block /\ Num[Anc[b][nums[i]]] = nums[i]
  <2>1. nums[i] \in SmartNums(b)
    BY <1>4
  <2>2. nums[i] \in 1 .. Num[b]
    BY <2>1 DEF SmartNums
  <2> QED
    BY <1>1, <2>2, ChainIs
<1>6. PICK tail : tail = [i \in 1 .. k |-> Anc[b][nums[i]]]
  OBVIOUS
<1>7. tail \in Seq(Block) /\ Len(tail) = k /\ \A i \in 1 .. k : tail[i] = Anc[b][nums[i]]
  <2>1. tail \in [1 .. k -> Block]
    BY <1>5, <1>6
  <2> QED
    BY <1>6, <2>1
<1>8. DOMAIN nums = 1 .. k
  BY <1>4
<1>9. Smarts(b) = << GenesisBlock(0) >> \o tail
  BY <1>2, <1>6, <1>8 DEF Smarts, SmartNums
<1>10. PICK s : s = Smarts(b)
  OBVIOUS
<1>11. /\ s \in Seq(Block) /\ Len(s) = k + 1 /\ s[1] = GenesisBlock(0)
       /\ \A i \in 1 .. k : s[i + 1] = tail[i]
  BY <1>7, <1>9, <1>10, FirstIs
<1>12. ASSUME NEW i \in 1 .. k + 1 PROVE s[i] \in Block /\ Num[s[i]] =< Num[b]
  <2>1. CASE i = 1
    BY <1>1, <1>11, <2>1, FirstIs
  <2>2. CASE i # 1
    <3>1. i - 1 \in 1 .. k /\ (i - 1) + 1 = i
      BY <2>2
    <3>2. s[i] = tail[i - 1] /\ tail[i - 1] = Anc[b][nums[i - 1]]
      BY <1>7, <1>11, <3>1
    <3>3. nums[i - 1] =< Num[b] /\ s[i] \in Block /\ Num[s[i]] = nums[i - 1]
      BY <1>1, <1>5, <3>1, <3>2
    <3> QED
      BY <3>3
  <2> QED
    BY <2>1, <2>2
<1> QED
  BY <1>2, <1>4, <1>7, <1>10, <1>11, <1>12

LEMMA SmartsFirst ==
  Len(Smarts(GenesisBlock(0))) = 1 /\ Smarts(GenesisBlock(0))[1] = GenesisBlock(0)
<1>1. SmartNums(GenesisBlock(0)) = {}
  BY FirstIs DEF SmartNums
<1>2. Len(Sorted({})) = 0
  <2>1. {} \subseteq 0 .. 0 /\ 0 \in Nat
    OBVIOUS
  <2>2. Len(Sorted({})) = Cardinality({})
    BY <2>1, SortedIs
  <2> QED
    BY <2>2, FS_EmptySet
<1>3. PICK g \in Block : g = GenesisBlock(0)
  BY FirstIs
<1>4. Len(Smarts(g)) = Len(Sorted(SmartNums(g))) + 1 /\ Smarts(g)[1] = GenesisBlock(0)
  BY SmartsIs
<1>5. Len(Sorted(SmartNums(g))) = 0
  BY <1>1, <1>2, <1>3
<1>6. Len(Smarts(g)) = 1
  <2>1. PICK k : k = Len(Sorted(SmartNums(g)))
    OBVIOUS
  <2>2. Len(Smarts(g)) = k + 1 /\ k = 0
    BY <1>4, <1>5, <2>1
  <2> QED
    BY <2>2
<1> QED
  BY <1>3, <1>4, <1>6

LEMMA SmartsNext ==
  ASSUME NEW b \in Block, Num[b] > 0, NEW e, e = Prev[b]
  PROVE  /\ Len(Smarts(e)) \in Nat
         /\ \A i \in 1 .. Len(Smarts(e)) : Smarts(b)[i] = Smarts(e)[i]
         /\ b \notin Smart => Len(Smarts(b)) = Len(Smarts(e))
         /\ b \in Smart => Len(Smarts(b)) = Len(Smarts(e)) + 1 /\ Smarts(b)[Len(Smarts(e)) + 1] = b
<1>1. /\ e \in Block /\ Num[e] \in Nat /\ Num[b] = Num[e] + 1
      /\ \A n \in 0 .. Num[e] : Anc[b][n] = Anc[e][n]
  BY ChildIs
<1>2. Anc[b][Num[b]] = b
  BY ChainIs
<1>3. SmartNums(b) = (IF b \in Smart THEN SmartNums(e) \cup {Num[b]} ELSE SmartNums(e))
  <2>1. ASSUME NEW n \in 1 .. Num[b] PROVE n = Num[b] \/ (n \in 1 .. Num[e] /\ Anc[b][n] = Anc[e][n])
    BY <1>1
  <2>2. ASSUME NEW n \in 1 .. Num[e] PROVE n \in 1 .. Num[b] /\ n # Num[b] /\ Anc[b][n] = Anc[e][n]
    BY <1>1
  <2>3. Num[b] \in 1 .. Num[b]
    BY <1>1
  <2> QED
    BY <1>2, <2>1, <2>2, <2>3 DEF SmartNums
<1>4. SmartNums(e) \subseteq 0 .. Num[e]
  BY <1>1 DEF SmartNums
<1>5. PICK S : S = SmartNums(e)
  OBVIOUS
<1>6. PICK k \in Nat : Len(Sorted(S)) = k /\ Len(Smarts(e)) = k + 1
                       /\ \A i \in 1 .. k : Sorted(S)[i] \in S
  <2>1. Len(Sorted(S)) \in Nat /\ \A i \in 1 .. Len(Sorted(S)) : Sorted(S)[i] \in S
    BY <1>1, <1>4, <1>5, SortedIs
  <2> QED
    BY <1>1, <1>5, <2>1, SmartsIs
<1>7. CASE b \notin Smart
  <2>1. Len(Smarts(b)) = k + 1 /\ Smarts(b)[1] = Smarts(e)[1]
    BY <1>1, <1>3, <1>5, <1>6, <1>7, SmartsIs
  <2>2. ASSUME NEW i \in 1 .. k PROVE Smarts(b)[i + 1] = Smarts(e)[i + 1]
    <3>0. SmartNums(b) = S /\ SmartNums(e) = S /\ i \in 1 .. Len(Sorted(S))
      BY <1>3, <1>5, <1>6, <1>7
    <3>3. \A c \in {b, e} : c \in Block /\ \A j \in 1 .. Len(Sorted(SmartNums(c))) : Smarts(c)[j + 1] = Anc[c][Sorted(SmartNums(c))[j]]
      BY <1>1, SmartsIs
    <3>1. Smarts(b)[i + 1] = Anc[b][Sorted(S)[i]] /\ Smarts(e)[i + 1] = Anc[e][Sorted(S)[i]]
      BY <3>0, <3>3
    <3>2. Sorted(S)[i] \in 0 .. Num[e]
      BY <1>4, <1>5, <1>6
    <3> QED
      BY <1>1, <3>1, <3>2
  <2>3. ASSUME NEW i \in 1 .. k + 1 PROVE Smarts(b)[i] = Smarts(e)[i]
    <3>1. i = 1 \/ (i - 1 \in 1 .. k /\ (i - 1) + 1 = i)
      OBVIOUS
    <3> QED
      BY <2>1, <2>2, <3>1
  <2> QED
    BY <1>6, <1>7, <2>1, <2>3
<1>8. CASE b \in Smart
  <2>1. PICK T : T = S \cup {Num[b]}
    OBVIOUS
  <2>2. /\ Len(Sorted(T)) = k + 1 /\ Sorted(T)[k + 1] = Num[b]
        /\ \A i \in 1 .. k : Sorted(T)[i] = Sorted(S)[i]
    <3>1. Num[b] \in Nat /\ Num[b] \in 0 .. Num[b] /\ S \subseteq 0 .. Num[b] /\ \A m \in S : m < Num[b]
      BY <1>1, <1>4, <1>5
    <3>2. /\ Len(Sorted(S \cup {Num[b]})) = Len(Sorted(S)) + 1
          /\ \A i \in 1 .. Len(Sorted(S)) : Sorted(S \cup {Num[b]})[i] = Sorted(S)[i]
          /\ Sorted(S \cup {Num[b]})[Len(Sorted(S)) + 1] = Num[b]
      BY <3>1, SortedAdd
    <3> QED
      BY <1>6, <2>1, <3>2
  <2>3. SmartNums(b) = T
    BY <1>3, <1>5, <1>8, <2>1
  <2>4. /\ Len(Smarts(b)) = k + 2 /\ Smarts(b)[1] = Smarts(e)[1]
        /\ \A i \in 1 .. k + 1 : Smarts(b)[i + 1] = Anc[b][Sorted(T)[i]]
    <3>1. /\ Len(Smarts(b)) = Len(Sorted(SmartNums(b))) + 1 /\ Smarts(b)[1] = GenesisBlock(0)
          /\ \A i \in 1 .. Len(Sorted(SmartNums(b))) : Smarts(b)[i + 1] = Anc[b][Sorted(SmartNums(b))[i]]
      BY SmartsIs
    <3>2. Smarts(e)[1] = GenesisBlock(0)
      BY <1>1, SmartsIs
    <3>3. Len(Sorted(SmartNums(b))) = k + 1 /\ Sorted(SmartNums(b)) = Sorted(T)
      BY <2>2, <2>3
    <3> QED
      BY <3>1, <3>2, <3>3
  <2>5. ASSUME NEW i \in 1 .. k PROVE Smarts(b)[i + 1] = Smarts(e)[i + 1]
    <3>1. i \in 1 .. k + 1 /\ Sorted(T)[i] = Sorted(S)[i]
      BY <2>2
    <3>2. Smarts(b)[i + 1] = Anc[b][Sorted(S)[i]]
      BY <2>4, <3>1
    <3>3. Smarts(e)[i + 1] = Anc[e][Sorted(S)[i]]
      BY <1>1, <1>5, <1>6, SmartsIs
    <3>4. Sorted(S)[i] \in 0 .. Num[e]
      BY <1>4, <1>5, <1>6
    <3> QED
      BY <1>1, <3>2, <3>3, <3>4
  <2>6. Smarts(b)[(k + 1) + 1] = b
    <3>1. k + 1 \in 1 .. k + 1
      OBVIOUS
    <3> QED
      BY <1>2, <2>2, <2>4, <3>1
  <2>7. ASSUME NEW i \in 1 .. k + 1 PROVE Smarts(b)[i] = Smarts(e)[i]
    <3>1. i = 1 \/ (i - 1 \in 1 .. k /\ (i - 1) + 1 = i)
      OBVIOUS
    <3> QED
      BY <2>4, <2>5, <3>1
  <2> QED
    BY <1>6, <1>8, <2>4, <2>6, <2>7
<1> QED
  BY <1>7, <1>8
-----------------------------------------------------------------------------
(***************************************************************************)
(* Many rows written to one file: the first h over rows that are there,    *)
(* the others after the last row.                                          *)
(***************************************************************************)
LEMMA PutIsWrite ==
  ASSUME NEW f \in Files, NEW n \in Nat, NEW row
  PROVE  IsWrite(Put(f, n, row))
BY DEF IsWrite, Put

LEMMA CutIsWrite ==
  ASSUME NEW f \in Files, NEW n \in Int, n >= -1
  PROVE  IsWrite(Cut(f, n))
BY DEF IsWrite, Cut

LEMMA MakeSeq ==
  ASSUME NEW k \in Nat, NEW s, s = [i \in 1 .. k |-> s[i]]
  PROVE  Len(s) = k /\ \E W : s \in Seq(W)
<1>1. PICK W : W = {s[i] : i \in 1 .. k}
  OBVIOUS
<1>2. s \in [1 .. k -> W]
  BY <1>1
<1> QED
  BY <1>2

ArePuts(ws, f, ids, vals, k, h, L) ==
  /\ (\E W : ws \in Seq(W)) /\ Len(ws) = k
  /\ \A i \in 1 .. k : ws[i] = Put(f, ids[i], vals[i])
  /\ \A i \in 1 .. h : ids[i] < L
  /\ \A i \in h + 1 .. k : ids[i] = L + (i - 1 - h)
  /\ \A i, j \in 1 .. h : i # j => ids[i] # ids[j]

(* What is there after the first j of the writes.                          *)
PutsDone(d, x, f, ids, vals, j, h, L) ==
  /\ IsDisk(x) /\ \A g \in Files : g # f => x[g] = d[g]
  /\ Len(x[f]) = (IF j > h THEN L + (j - h) ELSE L)
  /\ \A i \in 1 .. j : x[f][ids[i] + 1] = vals[i]
  /\ \A a \in 0 .. L - 1 : (\A i \in 1 .. j : ids[i] # a) => x[f][a + 1] = d[f][a + 1]

LEMMA PutsAre ==
  ASSUME NEW d, IsDisk(d), NEW f \in Files, NEW k \in Nat, NEW h \in 0 .. k,
         NEW ids \in [1 .. k -> Nat], NEW vals, NEW L, L = Len(d[f]),
         NEW ws, ArePuts(ws, f, ids, vals, k, h, L)
  PROVE  /\ IsWrites(ws) /\ L \in Nat
         /\ \A j \in 0 .. k : PutsDone(d, Disks(d, ws)[j], f, ids, vals, j, h, L)
<1>2. /\ (\E W : ws \in Seq(W)) /\ Len(ws) = k
      /\ \A i \in 1 .. k : ws[i] = Put(f, ids[i], vals[i])
      /\ \A i \in 1 .. h : ids[i] < L
      /\ \A i \in h + 1 .. k : ids[i] = L + (i - 1 - h)
      /\ \A i, j \in 1 .. h : i # j => ids[i] # ids[j]
  BY DEF ArePuts
<1>1. L \in Nat
  BY FileIs
<1>4. IsWrites(ws)
  <2>1. ASSUME NEW i \in 1 .. k PROVE IsWrite(ws[i])
    <3>1. ids[i] \in Nat
      OBVIOUS
    <3> QED
      BY <1>2, <3>1, PutIsWrite
  <2> QED
    BY <1>2, <2>1 DEF IsWrites
<1> DEFINE Ok(j, x) == /\ IsDisk(x) /\ \A g \in Files : g # f => x[g] = d[g]
                       /\ Len(x[f]) = (IF j > h THEN L + (j - h) ELSE L)
                       /\ \A i \in 1 .. j : x[f][ids[i] + 1] = vals[i]
                       /\ \A a \in 0 .. L - 1 : (\A i \in 1 .. j : ids[i] # a) => x[f][a + 1] = d[f][a + 1]
           S == {j \in 0 .. k : Ok(j, Disks(d, ws)[j])}
<1>5. Disks(d, ws)[0] = d /\ \A j \in 1 .. k : Disks(d, ws)[j] = Write(Disks(d, ws)[j - 1], ws[j])
  <2>1. /\ Disks(d, ws)[0] = d
        /\ \A i \in 1 .. Len(ws) : Disks(d, ws)[i] = Write(Disks(d, ws)[i - 1], ws[i])
    BY <1>4, DisksAre
  <2> QED
    BY <1>2, <2>1
<1>6. 0 \in S
  <2>1. Ok(0, d)
    <3>1. ~(0 > h) /\ \A i \in 1 .. 0 : FALSE
      OBVIOUS
    <3>2. Len(d[f]) = (IF 0 > h THEN L + (0 - h) ELSE L)
      BY <3>1
    <3> QED
      BY <3>1, <3>2
  <2> HIDE DEF Ok
  <2> QED
    BY <1>5, <2>1
<1>7. ASSUME NEW j \in 1 .. k, j - 1 \in S PROVE j \in S
  <2>1. PICK x : x = Disks(d, ws)[j - 1]
    OBVIOUS
  <2>2. PICK y : y = Disks(d, ws)[j]
    OBVIOUS
  <2>3. Ok(j - 1, x)
    BY <1>7, <2>1
  <2>4. PICK n \in Nat : n = ids[j]
    OBVIOUS
  <2>5. y = Write(x, Put(f, n, vals[j]))
    BY <1>2, <1>5, <2>1, <2>2, <2>4
  <2>6. IsDisk(x) /\ Len(x[f]) \in Nat
    BY <2>3, FileIs
  <2>7. /\ IsDisk(y) /\ \A g \in Files : g # f => y[g] = x[g]
        /\ Len(y[f]) = (IF n < Len(x[f]) THEN Len(x[f]) ELSE n + 1)
        /\ y[f][n + 1] = vals[j]
        /\ \A i \in 1 .. Len(y[f]) : i # n + 1 => y[f][i] = IF i =< Len(x[f]) THEN x[f][i] ELSE Zero
    BY <2>5, <2>6, PutIs
  <2>8. Len(x[f]) = (IF j - 1 > h THEN L + (j - 1 - h) ELSE L)
    BY <2>3
  <2>9. IF j > h THEN n = L + (j - 1 - h) /\ n = Len(x[f]) ELSE n < L /\ Len(x[f]) = L
    <3>1. CASE j > h
      <4>1. j \in h + 1 .. k
        BY <3>1
      <4> QED
        BY <1>1, <1>2, <2>4, <2>8, <3>1, <4>1
    <3>2. CASE ~(j > h)
      <4>1. j \in 1 .. h
        BY <3>2
      <4> QED
        BY <1>2, <2>4, <2>8, <3>2, <4>1
    <3> QED
      BY <3>1, <3>2
  <2>10. Len(y[f]) = (IF j > h THEN L + (j - h) ELSE L)
    BY SMTT(30), <1>1, <2>4, <2>7, <2>9
  <2>11. \A i \in 1 .. Len(x[f]) : i # n + 1 => y[f][i] = x[f][i]
    <3>1. \A i \in 1 .. Len(x[f]) : i \in 1 .. Len(y[f])
      BY <2>4, <2>6, <2>7
    <3> QED
      BY <2>7, <3>1
  <2>12. ASSUME NEW i \in 1 .. j PROVE y[f][ids[i] + 1] = vals[i]
    <3>1. CASE i = j
      BY <2>4, <2>7, <3>1
    <3>2. CASE i # j
      <4>1. i \in 1 .. j - 1 /\ i \in 1 .. k /\ ids[i] \in Nat
        BY <3>2
      <4>2. x[f][ids[i] + 1] = vals[i]
        BY <2>3, <4>1
      <4>3. ids[i] # n /\ ids[i] < Len(x[f])
        <5>1. CASE j =< h
          <6>1. i \in 1 .. h /\ j \in 1 .. h
            BY <4>1, <5>1
          <6>2. ids[i] # ids[j] /\ ids[i] < L
            BY <1>2, <3>2, <6>1
          <6> QED
            BY <2>4, <2>9, <5>1, <6>2
        <5>2. CASE j > h
          <6>1. CASE i =< h
            <7>1. i \in 1 .. h
              BY <4>1, <6>1
            <7>2. ids[i] < L
              BY <1>2, <7>1
            <7> QED
              BY <1>1, <2>4, <2>9, <4>1, <5>2, <7>2
          <6>2. CASE i > h
            <7>1. i \in h + 1 .. k
              BY <4>1, <6>2
            <7>2. ids[i] = L + (i - 1 - h)
              BY <1>2, <7>1
            <7> QED
              BY <1>1, <2>9, <4>1, <5>2, <7>2
          <6> QED
            BY <6>1, <6>2
        <5> QED
          BY <5>1, <5>2
      <4>4. ids[i] + 1 \in 1 .. Len(x[f]) /\ ids[i] + 1 # n + 1
        BY <2>4, <2>6, <4>1, <4>3
      <4> QED
        BY <2>11, <4>2, <4>4
    <3> QED
      BY <3>1, <3>2
  <2>13. ASSUME NEW a \in 0 .. L - 1, \A i \in 1 .. j : ids[i] # a PROVE y[f][a + 1] = d[f][a + 1]
    <3>1. \A i \in 1 .. j - 1 : ids[i] # a
      BY <2>13
    <3>2. x[f][a + 1] = d[f][a + 1]
      BY <2>3, <3>1
    <3>3. a # n
      BY <2>4, <2>13
    <3>4. a + 1 \in 1 .. Len(x[f]) /\ a + 1 # n + 1
      BY <1>1, <2>4, <2>8, <3>3
    <3> QED
      BY <2>11, <3>2, <3>4
  <2>14. \A g \in Files : g # f => y[g] = d[g]
    BY <2>3, <2>7
  <2>15. Ok(j, y)
    BY <2>7, <2>10, <2>12, <2>13, <2>14
  <2> HIDE DEF Ok
  <2> QED
    BY <2>2, <2>15
<1>8. \A j \in 0 .. k : j \in S
  <2> HIDE DEF S
  <2> QED
    BY <1>6, <1>7, OneByOne
<1>9. ASSUME NEW j \in 0 .. k PROVE PutsDone(d, Disks(d, ws)[j], f, ids, vals, j, h, L)
  <2>1. PICK x : x = Disks(d, ws)[j]
    OBVIOUS
  <2>2. Ok(j, x)
    <3> HIDE DEF Ok
    <3> QED
      BY <1>8, <2>1
  <2>3. PutsDone(d, x, f, ids, vals, j, h, L)
    BY <2>2 DEF PutsDone
  <2> QED
    BY <2>1, <2>3
<1> QED
  BY <1>1, <1>4, <1>9

(* The same for all that passes, and for what is there in the end.         *)
LEMMA PassesOfPuts ==
  ASSUME NEW d, IsDisk(d), NEW ws, IsWrites(ws), NEW x \in Passes(d, ws)
  PROVE  \E j \in 0 .. Len(ws) : x = Disks(d, ws)[j]
BY DEF Passes
-----------------------------------------------------------------------------
(***************************************************************************)
(* The rows of a log, for the chain of e: each row of a block c says what  *)
(* c changed, made or left; the row of hashes comes last in the block and  *)
(* stands for all that c changed and made; blocks follow each other.       *)
(***************************************************************************)
OldRow(r, c) ==
  /\ r.mode = "old" /\ r.id \in Nat /\ r.id \in Changes[c] /\ r.id < AccountsOf(Prev[c])
  /\ r.val = Replay(Prev[c])[r.id + 1]
NewRow(r, c) == r.mode = "new" /\ r.id \in Nat /\ AccountsOf(Prev[c]) =< r.id /\ r.id < AccountsOf(c)
SumRow(r, c) == r.mode = "sum" /\ r.val = [blk |-> c, acc |-> Replay(c)]

RowFits(r, e) ==
  /\ r.num \in 1 .. Num[e]
  /\ OldRow(r, Anc[e][r.num]) \/ NewRow(r, Anc[e][r.num]) \/ SumRow(r, Anc[e][r.num])

Logged(rows, c, i) ==
  /\ \A a \in Changes[c] : a < AccountsOf(Prev[c]) =>
       \E j \in 1 .. i : rows[j].num = Num[c] /\ rows[j].mode = "old" /\ rows[j].id = a
  /\ AccountsOf(Prev[c]) < AccountsOf(c) =>
       \E j \in 1 .. i : rows[j].num = Num[c] /\ rows[j].mode = "new"

Ordered(rows) ==
  /\ \A i, j \in 1 .. Len(rows) : i < j =>
       /\ rows[i].num =< rows[j].num
       /\ rows[i].mode = "sum" => rows[i].num < rows[j].num
       /\ rows[i].num = rows[j].num /\ rows[j].mode # "sum" => rows[i].id # rows[j].id
  /\ \A i \in 1 .. Len(rows) - 1 :
       rows[i + 1].num = IF rows[i].mode = "sum" THEN rows[i].num + 1 ELSE rows[i].num

LogFits(rows, e) ==
  /\ \A i \in 1 .. Len(rows) : RowFits(rows[i], e)
  /\ \A i \in 1 .. Len(rows) : rows[i].mode = "sum" => Logged(rows, Anc[e][rows[i].num], i)
  /\ \A i \in 1 .. Len(rows) :
       rows[i].mode = "new" /\ rows[i].id # AccountsOf(Prev[Anc[e][rows[i].num]]) =>
         i > 1 /\ rows[i - 1].mode = "new"
  /\ Ordered(rows)

LogOk(d, e) ==
  /\ e \in Block /\ Log(d) # << >> /\ Num[e] = LastNum(d)
  /\ LogFits(d.prev, e) /\ LogFits(d.act, e)
  /\ d.prev # << >> => d.prev[Len(d.prev)].mode = "sum"
  /\ d.prev # << >> /\ d.act # << >> => d.act[1].num = d.prev[Len(d.prev)].num + 1

(* What is left of a log fits every chain that has the blocks left in it.  *)
PrefixOf(s, rows, f, e, m) ==
  /\ Len(s) \in 0 .. Len(rows) /\ \A i \in 1 .. Len(s) : s[i] = rows[i] /\ s[i].num =< m
  /\ \A n \in 1 .. m : Anc[f][n] = Anc[e][n]

LEMMA LogPrefix ==
  ASSUME NEW rows, NEW e \in Block, LogFits(rows, e), Len(rows) \in Nat,
         NEW f \in Block, NEW m \in 0 .. Num[f], NEW s, PrefixOf(s, rows, f, e, m)
  PROVE  LogFits(s, f)
<1>7. /\ Len(s) \in 0 .. Len(rows) /\ \A i \in 1 .. Len(s) : s[i] = rows[i] /\ s[i].num =< m
      /\ \A n \in 1 .. m : Anc[f][n] = Anc[e][n]
  BY DEF PrefixOf
<1>0. Len(s) \in Nat /\ Num[f] \in Nat /\ Num[e] \in Nat /\ m \in Nat
  BY <1>7, ChainIs
<1>1. ASSUME NEW i \in 1 .. Len(s)
      PROVE  /\ i \in 1 .. Len(rows) /\ s[i] = rows[i] /\ RowFits(rows[i], e)
             /\ s[i].num \in 1 .. m /\ Anc[f][s[i].num] = Anc[e][s[i].num]
  <2>1. i \in 1 .. Len(rows) /\ s[i] = rows[i]
    BY <1>0, <1>7
  <2>2. RowFits(rows[i], e)
    BY <2>1 DEF LogFits
  <2>3. s[i].num \in 1 .. Num[e] /\ s[i].num =< m
    BY <1>7, <2>1, <2>2 DEF RowFits
  <2>4. s[i].num \in 1 .. m
    BY <1>0, <2>3
  <2> QED
    BY <1>7, <2>1, <2>2, <2>4
<1>2. \A i \in 1 .. Len(s) : RowFits(s[i], f)
  <2>1. ASSUME NEW i \in 1 .. Len(s) PROVE RowFits(s[i], f)
    <3>1. s[i].num \in 1 .. Num[f]
      BY <1>0, <1>1
    <3> QED
      BY <1>1, <3>1 DEF RowFits
  <2> QED
    BY <2>1
<1>3. ASSUME NEW i \in 1 .. Len(s), s[i].mode = "sum" PROVE Logged(s, Anc[f][s[i].num], i)
  <2>1. PICK c : c = Anc[e][s[i].num]
    OBVIOUS
  <2>2. Logged(rows, c, i)
    BY <1>1, <1>3, <2>1 DEF LogFits
  <2>3. \A j \in 1 .. i : s[j] = rows[j]
    BY <1>0, <1>7
  <2>4. Logged(s, c, i)
    BY <2>2, <2>3 DEF Logged
  <2> QED
    BY <1>1, <2>1, <2>4
<1>4. ASSUME NEW i \in 1 .. Len(s), s[i].mode = "new", s[i].id # AccountsOf(Prev[Anc[f][s[i].num]])
      PROVE  i > 1 /\ s[i - 1].mode = "new"
  <2>1. i > 1 /\ rows[i - 1].mode = "new"
    BY <1>1, <1>4 DEF LogFits
  <2>2. i - 1 \in 1 .. Len(s)
    BY <1>0, <2>1
  <2> QED
    BY <1>1, <1>7, <2>1, <2>2
<1>5. Ordered(s)
  <2>1. Ordered(rows)
    BY DEF LogFits
  <2>2. ASSUME NEW i \in 1 .. Len(s), NEW j \in 1 .. Len(s), i < j
        PROVE  /\ s[i].num =< s[j].num
               /\ s[i].mode = "sum" => s[i].num < s[j].num
               /\ s[i].num = s[j].num /\ s[j].mode # "sum" => s[i].id # s[j].id
    BY <1>1, <2>1, <2>2 DEF Ordered
  <2>3. ASSUME NEW i \in 1 .. Len(s) - 1
        PROVE  s[i + 1].num = IF s[i].mode = "sum" THEN s[i].num + 1 ELSE s[i].num
    <3>1. i \in 1 .. Len(s) /\ i + 1 \in 1 .. Len(s) /\ i \in 1 .. Len(rows) - 1
      BY <1>0, <1>7
    <3> QED
      BY <1>1, <2>1, <3>1 DEF Ordered
  <2> QED
    BY <2>2, <2>3 DEF Ordered
<1> QED
  BY <1>2, <1>3, <1>4, <1>5 DEF LogFits

(* The rows below a block number come first.                               *)
Below(rows, n) == Max({0} \cup {i \in DOMAIN rows : rows[i].num < n})

LEMMA BelowIs ==
  ASSUME NEW rows, \E R : rows \in Seq(R), NEW e \in Block, LogFits(rows, e), NEW n \in Int
  PROVE  /\ Len(rows) \in Nat /\ Below(rows, n) \in 0 .. Len(rows)
         /\ \A i \in 1 .. Len(rows) : rows[i].num \in 1 .. Num[e]
         /\ \A i \in 1 .. Len(rows) : i =< Below(rows, n) <=> rows[i].num < n
<1>1. Len(rows) \in Nat /\ DOMAIN rows = 1 .. Len(rows) /\ Num[e] \in Nat
  BY ChainIs
<1>2. \A i \in 1 .. Len(rows) : rows[i].num \in 1 .. Num[e]
  BY DEF LogFits, RowFits
<1>3. PICK S : S = {0} \cup {i \in DOMAIN rows : rows[i].num < n}
  OBVIOUS
<1>4. S \subseteq 0 .. Len(rows) /\ S # {}
  BY <1>1, <1>3
<1>5. PICK k : k = Below(rows, n)
  OBVIOUS
<1>6. k \in S /\ \A m \in S : m =< k
  BY <1>1, <1>3, <1>4, <1>5, GreatestIn DEF Below
<1>7. k \in 0 .. Len(rows)
  BY <1>4, <1>6
<1>8. ASSUME NEW i \in 1 .. Len(rows) PROVE i =< k <=> rows[i].num < n
  <2>1. rows[i].num < n => i =< k
    BY <1>1, <1>3, <1>6
  <2>2. CASE i < k
    <3>1. k \in 1 .. Len(rows) /\ k # 0
      BY <1>7, <2>2
    <3>2. rows[k].num < n
      BY <1>3, <1>6, <3>1
    <3>3. rows[i].num =< rows[k].num
      BY <2>2, <3>1 DEF LogFits, Ordered
    <3>4. rows[i].num \in Int /\ rows[k].num \in Int
      BY <1>2, <3>1
    <3> QED
      BY <2>2, <3>2, <3>3, <3>4, <1>7
  <2>3. CASE i = k
    <3>1. rows[k].num < n
      BY <1>3, <1>6, <2>3
    <3> QED
      BY <2>3, <3>1, <1>7
  <2>4. CASE ~(i < k) /\ i # k
    <3>1. ~(i =< k)
      BY <1>7, <2>4
    <3> QED
      BY <2>1, <3>1
  <2> QED
    BY <2>2, <2>3, <2>4
<1> QED
  BY <1>1, <1>2, <1>5, <1>7, <1>8

LEMMA EmptyFits ==
  ASSUME NEW e \in Block, NEW rows, Len(rows) = 0
  PROVE  LogFits(rows, e)
BY DEF LogFits, Ordered

LEMMA SortedNone == Len(Sorted({})) = 0 /\ Sorted({}) \in Seq({}) /\ Sorted({}) = << >>
<1>1. {} \subseteq 0 .. 0 /\ 0 \in Nat
  OBVIOUS
<1>2. Sorted({}) \in Seq({}) /\ Len(Sorted({})) = Cardinality({})
  BY <1>1, SortedIs
<1>3. Len(Sorted({})) = 0
  BY <1>2, FS_EmptySet
<1> QED
  BY <1>2, <1>3

(* A log without rows of the block is left alone.                          *)
LEMMA UndoNone ==
  ASSUME NEW d, IsDisk(d), NEW f \in Files, NEW e \in Block, LogFits(d[f], e),
         NEW n \in Int, \A i \in 1 .. Len(d[f]) : d[f][i].num < n
  PROVE  UndoLog(d, f, n) = << >>
<1>1. PICK rows : rows = d[f]
  OBVIOUS
<1>2. Len(rows) \in Nat /\ DOMAIN rows = 1 .. Len(rows) /\ \E R : rows \in Seq(R)
  BY <1>1, FileIs
<1>3. Below(rows, n) = Len(rows)
  <2>1. Below(rows, n) \in 0 .. Len(rows) /\ \A i \in 1 .. Len(rows) : i =< Below(rows, n)
    BY <1>1, <1>2, BelowIs
  <2>2. CASE Len(rows) = 0
    BY <2>1, <2>2
  <2>3. CASE Len(rows) # 0
    <3>1. Len(rows) \in 1 .. Len(rows)
      BY <1>2, <2>3
    <3> QED
      BY <1>2, <2>1, <3>1
  <2> QED
    BY <2>2, <2>3
<1> DEFINE first == Max({0} \cup {i \in DOMAIN rows : rows[i].num < n}) + 1
           mine == {i \in first .. Len(rows) : Decides(rows, first, i)}
           new == {i \in mine : rows[i].mode = "new"}
           old == {i \in mine : rows[i].mode = "old" /\ rows[i].id < Len(d.state)}
           back == Sorted(old)
<1>4. UndoLog(d, f, n) =
        [k \in DOMAIN back |-> Put("state", rows[back[k]].id, rows[back[k]].val)]
        \o (IF new = {} THEN << >> ELSE << Cut("state", rows[Min(new)].id - 1) >>)
        \o (IF mine = {} THEN << >> ELSE << Cut(f, first - 2) >>)
  BY <1>1 DEF UndoLog
<1>5. first = Len(rows) + 1
  BY <1>3 DEF Below
<1>6. mine = {}
  <2> HIDE DEF first
  <2>1. first .. Len(rows) = {}
    BY <1>2, <1>5
  <2> QED
    BY <2>1
<1>7. new = {} /\ old = {}
  BY <1>6
<1>8. back = << >>
  BY <1>7, SortedNone
<1> HIDE DEF back, new, mine, first
<1>9. [k \in DOMAIN back |-> Put("state", rows[back[k]].id, rows[back[k]].val)] = << >>
  BY <1>8
<1> QED
  BY <1>4, <1>6, <1>7, <1>9
-----------------------------------------------------------------------------
(***************************************************************************)
(* What is on the disk.  Between two operations it is what the chain of    *)
(* the last executed block leads to (At).  Whenever there is a log, the    *)
(* rows of its last block e can undo what e has changed (Undoable).        *)
(***************************************************************************)
SmartFits(d, e) ==
  /\ Len(Smarts(e)) =< Len(d.smart)
  /\ \A i \in 1 .. Len(d.smart) :
       IF i =< Len(Smarts(e)) THEN d.smart[i] = Smarts(e)[i]
       ELSE d.smart[i] \in Block /\ Num[d.smart[i]] > Num[e]

HashesFit(d, e) ==
  \A k \in 1 .. MaxNum : k * Period =< Num[e] =>
    /\ k < Len(d.hash)
    /\ d.hash[k + 1] = [blk |-> Anc[e][k * Period], acc |-> Replay(Anc[e][k * Period])]

Undoable(d, e) ==
  /\ LogOk(d, e) /\ SmartFits(d, Prev[e]) /\ HashesFit(d, Prev[e])
  /\ AccountsOf(Prev[e]) =< Len(d.state)
  /\ \A a \in 0 .. AccountsOf(Prev[e]) - 1 :
       \/ d.state[a + 1] = Replay(Prev[e])[a + 1]
       \/ \E i \in 1 .. Len(Log(d)) : Log(d)[i].num = Num[e] /\ Log(d)[i].mode = "old" /\ Log(d)[i].id = a
  /\ AccountsOf(Prev[e]) < Len(d.state) =>
       \E i \in 1 .. Len(Log(d)) : Log(d)[i].num = Num[e] /\ Log(d)[i].mode = "new"

At(d, e) ==
  /\ e \in Block /\ IsDisk(d)
  /\ Log(d) # << >> => LogOk(d, e) /\ Log(d)[Len(Log(d))].mode = "sum"
  /\ d.state = Replay(e) /\ SmartFits(d, e) /\ HashesFit(d, e)

(* The first row of hashes in the log is of the chain of b (Remembers).    *)
FirstSum(rows, i) == i \in 1 .. Len(rows) /\ rows[i].mode = "sum" /\ \A j \in 1 .. i - 1 : rows[j].mode # "sum"
Held(r, b) == r.num > 1 => Anc[b][r.num] = r.val.blk /\ Num[b] >= r.num
Holds(rows, b) == \A i \in 1 .. Len(rows) : FirstSum(rows, i) => Held(rows[i], b)
Rem(d, b) == Holds(d.prev, b) /\ (d.prev = << >> => Holds(d.act, b))

(* The log goes back to the first block.                                   *)
Unrotated(d) ==
  /\ d.prev = << >>
  /\ d.act = << >> => Len(d.state) =< GenesisCount
  /\ d.act # << >> => d.act[1].num = 1

(* What may be on the disk at any time; b is the last block of the main    *)
(* chain, u says that the log goes back to the first block.                *)
Dirty(d, b) ==
  \/ Len(d.state) < GenesisCount
  \/ Log(d) = << >>
  \/ \E e \in Block : Undoable(d, e) /\ Rem(d, b)
Good(d, b, u) == IsDisk(d) /\ Dirty(d, b) /\ (u => Unrotated(d))

LEMMA LogIs ==
  ASSUME NEW d, IsDisk(d)
  PROVE  /\ Len(Log(d)) \in Nat /\ (Log(d) = << >> <=> Len(Log(d)) = 0)
         /\ \E R : Log(d) \in Seq(R)
         /\ Log(d) # << >> => LastNum(d) = Log(d)[Len(Log(d))].num /\ LastItem(d) = Log(d)[Len(Log(d))]
         /\ Log(d) = << >> => LastNum(d) = -1 /\ d.act = << >> /\ d.prev = << >>
         /\ \E f \in {"act", "prev"} :
              /\ f \in Files /\ Log(d) = d[f] /\ (f = "act" <=> d.act # << >>)
<1>1. "act" \in Files /\ "prev" \in Files
  BY DEF Files
<1>2. PICK f \in {"act", "prev"} : f \in Files /\ Log(d) = d[f] /\ (f = "act" <=> d.act # << >>)
  BY <1>1 DEF Log
<1>3. Len(d[f]) \in Nat /\ (d[f] = << >> <=> Len(d[f]) = 0) /\ \E R : d[f] \in Seq(R)
  BY <1>2, FileIs
<1>4. Log(d) # << >> => LastNum(d) = Log(d)[Len(Log(d))].num /\ LastItem(d) = Log(d)[Len(Log(d))]
  BY DEF LastNum, LastItem, Last
<1>5. Log(d) = << >> => LastNum(d) = -1 /\ d.act = << >> /\ d.prev = << >>
  BY DEF LastNum, Log
<1> QED
  BY <1>2, <1>3, <1>4, <1>5

LEMMA LogOkIs ==
  ASSUME NEW d, IsDisk(d), NEW e, LogOk(d, e)
  PROVE  /\ e \in Block /\ Len(Log(d)) \in Nat /\ Len(Log(d)) > 0 /\ LogFits(Log(d), e)
         /\ Log(d)[Len(Log(d))].num = Num[e] /\ Num[e] \in Nat /\ Num[e] > 0 /\ Anc[e][Num[e]] = e
         /\ \A i \in 1 .. Len(Log(d)) : Log(d)[i].num \in 1 .. Num[e] /\ RowFits(Log(d)[i], e)
<1>1. e \in Block /\ Log(d) # << >> /\ Num[e] = LastNum(d) /\ LogFits(d.prev, e) /\ LogFits(d.act, e)
  BY DEF LogOk
<1>2. Len(Log(d)) \in Nat /\ Len(Log(d)) > 0 /\ LogFits(Log(d), e) /\ Log(d)[Len(Log(d))].num = Num[e]
  BY <1>1, LogIs DEF Log
<1>3. \A i \in 1 .. Len(Log(d)) : Log(d)[i].num \in 1 .. Num[e] /\ RowFits(Log(d)[i], e)
  BY <1>2 DEF LogFits, RowFits
<1>4. Num[e] \in Nat /\ Anc[e][Num[e]] = e
  BY <1>1, ChainIs
<1>5. Num[e] > 0
  <2>1. Len(Log(d)) \in 1 .. Len(Log(d))
    BY <1>2
  <2>2. Num[e] \in 1 .. Num[e]
    BY <1>2, <1>3, <2>1
  <2> QED
    BY <1>4, <2>2
<1> QED
  BY <1>1, <1>2, <1>3, <1>4, <1>5

LEMMA SmartsBack ==
  ASSUME NEW d, NEW e \in Block, Num[e] > 0, SmartFits(d, e), Len(d.smart) \in Nat
  PROVE  SmartFits(d, Prev[e])
<1>1. PICK p : p = Prev[e]
  OBVIOUS
<1>2. p \in Block /\ Num[p] \in Nat /\ Num[e] = Num[p] + 1
  BY <1>1, ChildIs
<1>3. PICK k \in Nat : k = Len(Smarts(p))
  BY <1>2, SmartsIs
<1>4. /\ \A i \in 1 .. k : Smarts(e)[i] = Smarts(p)[i]
      /\ e \notin Smart => Len(Smarts(e)) = k
      /\ e \in Smart => Len(Smarts(e)) = k + 1 /\ Smarts(e)[k + 1] = e
  BY <1>1, <1>3, SmartsNext
<1>5. k =< Len(d.smart)
  BY <1>3, <1>4 DEF SmartFits
<1>6. ASSUME NEW i \in 1 .. Len(d.smart)
      PROVE  IF i =< k THEN d.smart[i] = Smarts(p)[i] ELSE d.smart[i] \in Block /\ Num[d.smart[i]] > Num[p]
  <2>1. CASE i =< k
    <3>1. i \in 1 .. k /\ i =< Len(Smarts(e))
      BY <1>4, <2>1
    <3> QED
      BY <1>4, <2>1, <3>1 DEF SmartFits
  <2>2. CASE ~(i =< k)
    <3>1. CASE i =< Len(Smarts(e))
      <4>1. i = k + 1 /\ e \in Smart
        BY <1>4, <2>2, <3>1
      <4>2. d.smart[i] = e
        BY <1>4, <3>1, <4>1 DEF SmartFits
      <4> QED
        BY <1>2, <2>2, <4>2
    <3>2. CASE ~(i =< Len(Smarts(e)))
      <4>1. d.smart[i] \in Block /\ Num[d.smart[i]] > Num[e]
        BY <3>2 DEF SmartFits
      <4>2. Num[d.smart[i]] \in Nat
        BY <4>1, ChainIs
      <4> QED
        BY <1>2, <2>2, <4>1, <4>2
    <3> QED
      BY <3>1, <3>2
  <2> QED
    BY <2>1, <2>2
<1> QED
  BY <1>1, <1>3, <1>5, <1>6 DEF SmartFits

LEMMA HashesBack ==
  ASSUME NEW d, NEW e \in Block, Num[e] > 0, HashesFit(d, e)
  PROVE  HashesFit(d, Prev[e])
<1>1. PICK p : p = Prev[e]
  OBVIOUS
<1>2. /\ p \in Block /\ Num[p] \in Nat /\ Num[e] = Num[p] + 1
      /\ \A n \in 0 .. Num[p] : Anc[e][n] = Anc[p][n]
  BY <1>1, ChildIs
<1>3. ASSUME NEW k \in 1 .. MaxNum, k * Period =< Num[p]
      PROVE  k < Len(d.hash) /\ d.hash[k + 1] = [blk |-> Anc[p][k * Period], acc |-> Replay(Anc[p][k * Period])]
  <2>0. k \in Nat /\ Period \in Nat
    BY TxAssumption
  <2>1. PICK q \in Nat : q = k * Period
    BY <2>0
  <2>2. q =< Num[e] /\ Anc[e][q] = Anc[p][q]
    BY <1>2, <1>3, <2>1
  <2> QED
    BY <2>1, <2>2 DEF HashesFit
<1> QED
  BY <1>1, <1>3 DEF HashesFit

LEMMA FilesAre ==
  ASSUME NEW d, IsDisk(d)
  PROVE  /\ Len(d.state) \in Nat /\ Len(d.act) \in Nat /\ Len(d.prev) \in Nat
         /\ Len(d.hash) \in Nat /\ Len(d.smart) \in Nat
         /\ (d.state = << >> <=> Len(d.state) = 0) /\ (d.act = << >> <=> Len(d.act) = 0)
         /\ (d.prev = << >> <=> Len(d.prev) = 0) /\ (d.smart = << >> <=> Len(d.smart) = 0)
         /\ (\E R : d.state \in Seq(R)) /\ (\E R : d.act \in Seq(R)) /\ (\E R : d.prev \in Seq(R))
         /\ (\E R : d.smart \in Seq(R))
<1>1. "state" \in Files /\ "act" \in Files /\ "prev" \in Files /\ "hash" \in Files /\ "smart" \in Files
  BY DEF Files
<1>2. /\ Len(d["state"]) \in Nat /\ Len(d["act"]) \in Nat /\ Len(d["prev"]) \in Nat
      /\ Len(d["hash"]) \in Nat /\ Len(d["smart"]) \in Nat
  BY <1>1, FileIs
<1>3. /\ d["state"] = << >> <=> Len(d["state"]) = 0
      /\ d["act"] = << >> <=> Len(d["act"]) = 0
      /\ d["prev"] = << >> <=> Len(d["prev"]) = 0
      /\ d["smart"] = << >> <=> Len(d["smart"]) = 0
  BY <1>1, FileIs
<1>4. /\ \E R : d["state"] \in Seq(R)
      /\ \E R : d["act"] \in Seq(R)
      /\ \E R : d["prev"] \in Seq(R)
      /\ \E R : d["smart"] \in Seq(R)
  BY <1>1, FileIs
<1> QED
  BY <1>2, <1>3, <1>4

(* What an executed block has left in the log can undo it.                 *)
LEMMA AtUndoable ==
  ASSUME NEW d, NEW e, At(d, e), Log(d) # << >>
  PROVE  Undoable(d, e)
<1>1. /\ e \in Block /\ IsDisk(d) /\ LogOk(d, e) /\ Log(d)[Len(Log(d))].mode = "sum"
      /\ d.state = Replay(e) /\ SmartFits(d, e) /\ HashesFit(d, e)
  BY DEF At
<1>2. PICK rows : rows = Log(d)
  OBVIOUS
<1>3. PICK L \in Nat : L = Len(rows) /\ L > 0
  BY <1>1, <1>2, LogOkIs
<1>4. LogFits(rows, e) /\ rows[L].num = Num[e] /\ Num[e] > 0 /\ Anc[e][Num[e]] = e
  BY <1>1, <1>2, <1>3, LogOkIs
<1>5. PICK p : p = Prev[e]
  OBVIOUS
<1>6. /\ p \in Block /\ AccountsOf(p) \in Nat /\ AccountsOf(e) \in Nat /\ AccountsOf(p) =< AccountsOf(e)
      /\ Len(Replay(e)) = AccountsOf(e)
  BY <1>1, <1>4, <1>5, ChildIs, AccountsNext, ReplayIs
<1>7. L \in 1 .. Len(rows) /\ rows[L].mode = "sum"
  BY <1>1, <1>2, <1>3
<1>8. Logged(rows, e, L)
  BY <1>4, <1>7 DEF LogFits
<1>9. SmartFits(d, p) /\ HashesFit(d, p)
  BY <1>1, <1>4, <1>5, SmartsBack, HashesBack, FilesAre
<1>10. ASSUME NEW a \in 0 .. AccountsOf(p) - 1
       PROVE  \/ d.state[a + 1] = Replay(p)[a + 1]
              \/ \E i \in 1 .. Len(rows) : rows[i].num = Num[e] /\ rows[i].mode = "old" /\ rows[i].id = a
  <2>1. CASE a \in Changes[e]
    <3>1. a < AccountsOf(p)
      BY <1>6
    <3> QED
      BY <1>3, <1>5, <1>8, <2>1, <3>1 DEF Logged
  <2>2. CASE a \notin Changes[e]
    <3>1. \A x \in 0 .. AccountsOf(p) - 1 : x \notin Changes[e] => Replay(e)[x + 1] = Replay(p)[x + 1]
      <4>1. e \in Block /\ Num[e] > 0
        BY <1>1, <1>4
      <4> QED
        BY <1>5, <4>1, ReplayNext
    <3>2. Replay(e)[a + 1] = Replay(p)[a + 1]
      BY <2>2, <3>1
    <3> QED
      BY <1>1, <3>2
  <2> QED
    BY <2>1, <2>2
<1>11. AccountsOf(p) < Len(d.state) => \E i \in 1 .. Len(rows) : rows[i].num = Num[e] /\ rows[i].mode = "new"
  BY <1>1, <1>3, <1>5, <1>6, <1>8 DEF Logged
<1> QED
  BY <1>1, <1>2, <1>5, <1>6, <1>9, <1>10, <1>11 DEF Undoable

LEMMA AtGood ==
  ASSUME NEW d, NEW e, At(d, e), NEW b, Rem(d, b), NEW u, u => Unrotated(d)
  PROVE  Good(d, b, u)
<1>1. e \in Block /\ IsDisk(d)
  BY DEF At
<1> QED
  BY <1>1, AtUndoable DEF Good, Dirty
-----------------------------------------------------------------------------
(***************************************************************************)
(* The end of BlockDeleteTX: the hashes and the smart contracts.           *)
(***************************************************************************)
LEMMA DivideIs ==
  ASSUME NEW n \in Nat, NEW q \in Nat, q > 0
  PROVE  /\ n \div q \in Nat
         /\ \A k \in Nat : k * q =< n => k =< n \div q
         /\ \A k \in Nat : k * q < n /\ n % q = 0 => k < n \div q
<1>1. /\ n \div q \in Nat /\ n % q \in 0 .. q - 1
      /\ n = q * (n \div q) + (n % q)
  OBVIOUS
<1>2. PICK m \in Nat, r \in 0 .. q - 1 : m = n \div q /\ r = n % q /\ n = q * m + r
  BY <1>1
<1>3. ASSUME NEW k \in Nat, k > m PROVE k * q > n
  <2>1. PICK j \in Nat : k = m + 1 + j
    <3>1. k - m - 1 \in Nat /\ k = m + 1 + (k - m - 1)
      BY <1>3
    <3> QED
      BY <3>1
  <2>2. k * q = m * q + q + j * q
    BY <2>1
  <2>3. j * q \in Nat /\ m * q = q * m /\ m * q \in Nat
    OBVIOUS
  <2> QED
    BY <1>2, <2>2, <2>3
<1>4. ASSUME NEW k \in Nat, k * q =< n PROVE k =< m
  <2>1. k * q \in Nat
    OBVIOUS
  <2> QED
    BY <1>3, <1>4, <2>1
<1>5. ASSUME NEW k \in Nat, k * q < n, r = 0 PROVE k < m
  <2>1. n = m * q
    BY <1>2, <1>5
  <2>2. k =< m /\ k # m
    BY <1>4, <1>5, <2>1
  <2> QED
    BY <2>2
<1> QED
  BY <1>2, <1>4, <1>5

(* The hashes up to the block are kept.                                    *)
LEMMA HashCut ==
  ASSUME NEW x, IsDisk(x), NEW p \in Block, HashesFit(x, p), NEW n, n = Num[p] + 1,
         NEW y, y = Write(x, Cut("hash", n \div Period))
  PROVE  /\ IsWrite(Cut("hash", n \div Period)) /\ IsDisk(y) /\ HashesFit(y, p)
         /\ y.state = x.state /\ y.act = x.act /\ y.prev = x.prev /\ y.smart = x.smart
         /\ Len(y.hash) = (n \div Period) + 1 /\ n \div Period \in Nat
<1>1. Num[p] \in Nat /\ n \in Nat /\ Period \in Nat /\ Period > 0
  BY ChainIs, TxAssumption
<1>2. PICK q \in Nat : q = n \div Period /\ \A k \in Nat : k * Period =< n => k =< q
  BY <1>1, DivideIs
<1>3. "hash" \in Files /\ "state" \in Files /\ "act" \in Files /\ "prev" \in Files /\ "smart" \in Files
  BY DEF Files
<1>4. /\ IsDisk(y) /\ \A g \in Files : g # "hash" => y[g] = x[g]
      /\ Len(y["hash"]) = q + 1
      /\ \A i \in 1 .. q + 1 : y["hash"][i] = IF i =< Len(x["hash"]) THEN x["hash"][i] ELSE Zero
  BY <1>2, <1>3, CutIs
<1>5. IsWrite(Cut("hash", q))
  BY <1>2, <1>3, CutIsWrite
<1>6. Len(x.hash) \in Nat
  BY FilesAre
<1>7. ASSUME NEW k \in 1 .. MaxNum, k * Period =< Num[p]
      PROVE  k < Len(y.hash) /\ y.hash[k + 1] = [blk |-> Anc[p][k * Period], acc |-> Replay(Anc[p][k * Period])]
  <2>1. k \in Nat /\ k * Period \in Nat
    BY <1>1
  <2>2. k * Period =< n
    BY <1>1, <1>7, <2>1
  <2>3. k =< q
    BY <1>2, <2>1, <2>2
  <2>4. k < Len(x.hash) /\ x.hash[k + 1] = [blk |-> Anc[p][k * Period], acc |-> Replay(Anc[p][k * Period])]
    BY <1>7 DEF HashesFit
  <2>5. k + 1 \in 1 .. q + 1 /\ k + 1 =< Len(x.hash)
    BY <1>6, <2>1, <2>3, <2>4
  <2>6. y.hash[k + 1] = x.hash[k + 1]
    BY <1>4, <2>5
  <2> QED
    BY <1>4, <2>1, <2>3, <2>4, <2>6
<1>8. HashesFit(y, p)
  BY <1>7 DEF HashesFit
<1> QED
  BY <1>2, <1>3, <1>4, <1>5, <1>8

(* The smart contracts of the later blocks are cut off.                    *)
LEMMA SmartCut ==
  ASSUME NEW d, IsDisk(d), NEW p \in Block, SmartFits(d, p), NEW n, n = Num[p] + 1
  PROVE  \/ DeleteHistory(d, n) = << >> /\ d.smart = Smarts(p)
         \/ DeleteHistory(d, n) = << Cut("smart", Len(Smarts(p)) - 1) >>
<1>1. PICK k \in Nat : k = Len(Smarts(p)) /\ k =< Len(d.smart)
  BY SmartsIs DEF SmartFits
<1>2. Len(d.smart) \in Nat /\ DOMAIN d.smart = 1 .. Len(d.smart) /\ \E R : d.smart \in Seq(R)
  <2>1. "smart" \in Files
    BY DEF Files
  <2> QED
    BY <2>1, FileIs
<1>3. PICK keep : keep = Max({0} \cup {i \in DOMAIN d.smart : Num[d.smart[i]] < n})
  OBVIOUS
<1>4. Num[p] \in Nat
  BY ChainIs
<1>5. ASSUME NEW i \in 1 .. Len(d.smart) PROVE Num[d.smart[i]] < n <=> i =< k
  <2>1. CASE i =< k
    <3>1. d.smart[i] = Smarts(p)[i] /\ i \in 1 .. Len(Smarts(p))
      BY <1>1, <2>1 DEF SmartFits
    <3>2. d.smart[i] \in Block /\ Num[d.smart[i]] =< Num[p]
      BY <3>1, SmartsIs
    <3>3. Num[d.smart[i]] \in Nat
      BY <3>2, ChainIs
    <3> QED
      BY <1>4, <2>1, <3>2, <3>3
  <2>2. CASE ~(i =< k)
    <3>1. d.smart[i] \in Block /\ Num[d.smart[i]] > Num[p]
      BY <1>1, <2>2 DEF SmartFits
    <3>2. Num[d.smart[i]] \in Nat
      BY <3>1, ChainIs
    <3> QED
      BY <1>4, <2>2, <3>1, <3>2
  <2> QED
    BY <2>1, <2>2
<1>6. {0} \cup {i \in DOMAIN d.smart : Num[d.smart[i]] < n} = 0 .. k
  <2>1. \A i \in 1 .. k : i \in 1 .. Len(d.smart)
    BY <1>1, <1>2
  <2>2. \A i : i \in 0 .. k <=> i = 0 \/ i \in 1 .. k
    BY <1>1
  <2>3. \A i \in DOMAIN d.smart : Num[d.smart[i]] < n <=> i \in 1 .. k
    BY <1>1, <1>2, <1>5
  <2> QED
    BY <1>2, <2>1, <2>2, <2>3
<1>7. keep = k
  <2>1. 0 .. k \subseteq 0 .. k /\ 0 .. k # {}
    BY <1>1
  <2>2. Max(0 .. k) \in 0 .. k /\ \A m \in 0 .. k : m =< Max(0 .. k)
    BY <1>1, <2>1, GreatestIn
  <2>3. k \in 0 .. k
    BY <1>1
  <2>4. Max(0 .. k) = k
    BY <1>1, <2>2, <2>3
  <2> QED
    BY <1>3, <1>6, <2>4
<1>8. DeleteHistory(d, n) = IF k < Len(d.smart) THEN << Cut("smart", k - 1) >> ELSE << >>
  BY <1>3, <1>7 DEF DeleteHistory
<1>9. CASE k < Len(d.smart)
  BY <1>1, <1>8, <1>9
<1>10. CASE ~(k < Len(d.smart))
  <2>1. Len(d.smart) = Len(Smarts(p))
    BY <1>1, <1>2, <1>10
  <2>2. \A i \in 1 .. Len(d.smart) : d.smart[i] = Smarts(p)[i]
    BY <1>1, <1>2, <1>10 DEF SmartFits
  <2>3. \E R : Smarts(p) \in Seq(R)
    BY SmartsIs
  <2>4. d.smart = Smarts(p)
    BY <1>2, <2>1, <2>2, <2>3, SameSeq
  <2> QED
    BY <1>8, <1>10, <2>4
<1> QED
  BY <1>9, <1>10

(* At and the logs, when only the hashes or the smart contracts change.    *)
LEMMA AtSame ==
  ASSUME NEW x, NEW p, At(x, p), NEW y, IsDisk(y),
         y.state = x.state, y.act = x.act, y.prev = x.prev, SmartFits(y, p), HashesFit(y, p)
  PROVE  At(y, p)
<1>1. Log(y) = Log(x) /\ LastNum(y) = LastNum(x)
  BY DEF Log, LastNum, LastItem
<1> QED
  BY <1>1 DEF At, LogOk

EndOf(d, n) == << Cut("hash", n \div Period) >> \o DeleteHistory(d, n)

LEMMA DeleteTail ==
  ASSUME NEW d, IsDisk(d), NEW p, NEW x, At(x, p), x.smart = d.smart, NEW n, n = Num[p] + 1,
         NEW ws, ws = EndOf(d, n)
  PROVE  /\ IsWrites(ws)
         /\ \A y \in Passes(x, ws) : At(y, p) /\ y.act = x.act /\ y.prev = x.prev /\ y.state = x.state
         /\ After(x, ws).smart = Smarts(p)
<1>1. p \in Block /\ IsDisk(x) /\ HashesFit(x, p) /\ SmartFits(x, p)
  BY DEF At
<1>2. SmartFits(d, p)
  BY <1>1 DEF SmartFits
<1>3. PICK y : y = Write(x, Cut("hash", n \div Period))
  OBVIOUS
<1>4. /\ IsWrite(Cut("hash", n \div Period)) /\ IsDisk(y) /\ HashesFit(y, p)
      /\ y.state = x.state /\ y.act = x.act /\ y.prev = x.prev /\ y.smart = x.smart
  BY <1>1, <1>3, HashCut
<1>5. SmartFits(y, p)
  BY <1>1, <1>4 DEF SmartFits
<1>6. At(y, p)
  BY <1>4, <1>5, AtSame
<1>7. PICK u : u = << Cut("hash", n \div Period) >>
  OBVIOUS
<1>8. IsWrites(u) /\ After(x, u) = y /\ Passes(x, u) = {x, y}
  BY <1>1, <1>3, <1>4, <1>7, OneWrite
<1>9. PICK v : v = DeleteHistory(d, n)
  OBVIOUS
<1>10. IsWrites(v) /\ After(y, v).smart = Smarts(p)
       /\ \A z \in Passes(y, v) : At(z, p) /\ z.act = x.act /\ z.prev = x.prev /\ z.state = x.state
  <2>1. CASE v = << >> /\ d.smart = Smarts(p)
    <3>1. IsWrites(v) /\ After(y, v) = y /\ Passes(y, v) = {y}
      BY <1>4, <2>1, NoWrites
    <3> QED
      BY <1>4, <1>6, <2>1, <3>1
  <2>2. CASE v = << Cut("smart", Len(Smarts(p)) - 1) >>
    <3>1. PICK k \in Nat : k = Len(Smarts(p)) /\ k =< Len(y.smart) /\ \A i \in 1 .. k : i =< Len(y.smart)
      <4>1. Len(Smarts(p)) \in Nat /\ Len(Smarts(p)) =< Len(y.smart) /\ Len(y.smart) \in Nat
        BY <1>1, <1>4, <1>5, SmartsIs, FilesAre DEF SmartFits
      <4> QED
        BY <4>1
    <3>2. "smart" \in Files /\ "state" \in Files /\ "act" \in Files /\ "prev" \in Files /\ "hash" \in Files
      BY DEF Files
    <3>3. k - 1 \in Int /\ k - 1 >= -1 /\ (k - 1) + 1 = k
      OBVIOUS
    <3>4. PICK z : z = Write(y, Cut("smart", k - 1))
      OBVIOUS
    <3>5. IsWrite(Cut("smart", k - 1))
      BY <3>2, <3>3, CutIsWrite
    <3>6. /\ IsDisk(z) /\ \A g \in Files : g # "smart" => z[g] = y[g]
          /\ Len(z["smart"]) = (k - 1) + 1
          /\ \A i \in 1 .. (k - 1) + 1 : z["smart"][i] = IF i =< Len(y["smart"]) THEN y["smart"][i] ELSE Zero
      BY <1>4, <3>2, <3>3, <3>4, CutIs
    <3>7. z.state = y.state /\ z.act = y.act /\ z.prev = y.prev /\ z.hash = y.hash /\ Len(z.smart) = k
      BY <3>2, <3>3, <3>6
    <3>8. \A i \in 1 .. k : z.smart[i] = Smarts(p)[i]
      <4>1. ASSUME NEW i \in 1 .. k PROVE z.smart[i] = Smarts(p)[i]
        <5>1. i =< Len(y.smart) /\ i \in 1 .. Len(y.smart)
          BY <1>4, <3>1, FilesAre
        <5>2. z.smart[i] = y.smart[i]
          BY <3>3, <3>6, <5>1
        <5>3. y.smart[i] = Smarts(p)[i]
          BY <1>5, <3>1, <5>1 DEF SmartFits
        <5> QED
          BY <5>2, <5>3
      <4> QED
        BY <4>1
    <3>9. SmartFits(z, p)
      BY <3>1, <3>7, <3>8 DEF SmartFits
    <3>10. HashesFit(z, p)
      BY <1>4, <3>7 DEF HashesFit
    <3>11. At(z, p)
      BY <1>6, <3>6, <3>7, <3>9, <3>10, AtSame
    <3>12. z.smart = Smarts(p)
      <4>1. (\E R : z.smart \in Seq(R)) /\ (\E R : Smarts(p) \in Seq(R)) /\ Len(z.smart) = Len(Smarts(p))
        BY <1>1, <3>1, <3>6, <3>7, FilesAre, SmartsIs
      <4> QED
        BY <3>7, <3>8, <4>1, SameSeq
    <3>13. IsWrites(v) /\ After(y, v) = z /\ Passes(y, v) = {y, z}
      BY <1>4, <2>2, <3>1, <3>4, <3>5, OneWrite
    <3> QED
      BY <1>4, <1>6, <3>7, <3>11, <3>12, <3>13
  <2> QED
    BY <1>1, <1>2, <1>9, <2>1, <2>2, SmartCut
<1>11. IsWrites(u \o v) /\ After(x, u \o v) = After(y, v) /\ Passes(x, u \o v) = Passes(x, u) \cup Passes(y, v)
  BY <1>1, <1>8, <1>10, Joined
<1> QED
  BY <1>4, <1>6, <1>7, <1>8, <1>9, <1>10, <1>11 DEF EndOf
-----------------------------------------------------------------------------
(***************************************************************************)
(* Taking the last block of the log back.                                  *)
(***************************************************************************)
OldOf(rows, n) == {i \in 1 .. Len(rows) : rows[i].num = n /\ rows[i].mode = "old"}
NewOf(rows, n) == {i \in 1 .. Len(rows) : rows[i].num = n /\ rows[i].mode = "new"}

(* The rows of the last block of a log.                                    *)
LastGroup(rows, e) ==
  /\ \E R : rows \in Seq(R)
  /\ e \in Block /\ LogFits(rows, e) /\ Len(rows) > 0 /\ rows[Len(rows)].num = Num[e]

LEMMA LastGroupIs ==
  ASSUME NEW rows, NEW e, LastGroup(rows, e), NEW F, F = Below(rows, Num[e])
  PROVE  /\ Len(rows) \in Nat /\ Num[e] \in Nat /\ Num[e] > 0 /\ F \in 0 .. Len(rows) - 1
         /\ \A i \in 1 .. F : rows[i].num \in 1 .. Num[e] - 1
         /\ \A i \in F + 1 .. Len(rows) : rows[i].num = Num[e]
         /\ F > 0 => rows[F].mode = "sum" /\ rows[F].num = Num[e] - 1
<1>1. (\E R : rows \in Seq(R)) /\ e \in Block /\ LogFits(rows, e) /\ Len(rows) > 0 /\ rows[Len(rows)].num = Num[e]
  BY DEF LastGroup
<1>2. Num[e] \in Nat
  BY <1>1, ChainIs
<1>3. /\ Len(rows) \in Nat /\ F \in 0 .. Len(rows)
      /\ \A i \in 1 .. Len(rows) : rows[i].num \in 1 .. Num[e]
      /\ \A i \in 1 .. Len(rows) : i =< F <=> rows[i].num < Num[e]
  <2>1. PICK n \in Int : n = Num[e]
    BY <1>2
  <2>2. /\ Len(rows) \in Nat /\ Below(rows, n) \in 0 .. Len(rows)
        /\ \A i \in 1 .. Len(rows) : rows[i].num \in 1 .. Num[e]
        /\ \A i \in 1 .. Len(rows) : i =< Below(rows, n) <=> rows[i].num < n
    BY <1>1, BelowIs
  <2> QED
    BY <2>1, <2>2
<1>4. Len(rows) \in 1 .. Len(rows)
  BY <1>1, <1>3
<1>5. ~(Len(rows) =< F) /\ Num[e] > 0
  BY <1>1, <1>2, <1>3, <1>4
<1>6. \A i \in 1 .. F : rows[i].num \in 1 .. Num[e] - 1
  <2>1. ASSUME NEW i \in 1 .. F PROVE rows[i].num \in 1 .. Num[e] - 1
    <3>1. i \in 1 .. Len(rows) /\ i =< F
      BY <1>3
    <3> QED
      BY <1>2, <1>3, <3>1
  <2> QED
    BY <2>1
<1>7. \A i \in F + 1 .. Len(rows) : rows[i].num = Num[e]
  <2>1. ASSUME NEW i \in F + 1 .. Len(rows) PROVE rows[i].num = Num[e]
    <3>1. i \in 1 .. Len(rows) /\ ~(i =< F)
      BY <1>3
    <3> QED
      BY <1>2, <1>3, <3>1
  <2> QED
    BY <2>1
<1>8. F > 0 => rows[F].mode = "sum" /\ rows[F].num = Num[e] - 1
  <2>1. SUFFICES ASSUME F > 0 PROVE rows[F].mode = "sum" /\ rows[F].num = Num[e] - 1
    OBVIOUS
  <2>2. F \in 1 .. F /\ F \in 1 .. Len(rows) - 1 /\ F + 1 \in F + 1 .. Len(rows)
    BY <1>3, <1>5, <2>1
  <2>3. rows[F].num \in 1 .. Num[e] - 1 /\ rows[F + 1].num = Num[e]
    BY <1>6, <1>7, <2>2
  <2>4. rows[F + 1].num = IF rows[F].mode = "sum" THEN rows[F].num + 1 ELSE rows[F].num
    BY <1>1, <2>2 DEF LogFits, Ordered
  <2> QED
    BY <1>2, <2>3, <2>4
<1> QED
  BY <1>2, <1>3, <1>5, <1>6, <1>7, <1>8

(* The first new account of the block is the one after the old ones.       *)
LEMMA FirstNew ==
  ASSUME NEW rows, NEW e, LastGroup(rows, e), NewOf(rows, Num[e]) # {}
  PROVE  rows[Min(NewOf(rows, Num[e]))].id = AccountsOf(Prev[e])
<1>1. /\ (\E R : rows \in Seq(R)) /\ e \in Block /\ LogFits(rows, e) /\ Len(rows) \in Nat
      /\ Num[e] \in Nat /\ Anc[e][Num[e]] = e
  BY LastGroupIs, ChainIs DEF LastGroup
<1>2. PICK S : S = NewOf(rows, Num[e])
  OBVIOUS
<1>3. S \subseteq Nat
  BY <1>1, <1>2 DEF NewOf
<1>4. PICK k \in S : \A m \in S : k =< m
  BY <1>2, <1>3, LeastIn
<1>5. Min(S) = k
  <2>1. Min(S) \in S /\ \A m \in S : Min(S) =< m
    BY <1>4 DEF Min
  <2>2. Min(S) \in Nat /\ k \in Nat /\ Min(S) =< k /\ k =< Min(S)
    BY <1>3, <1>4, <2>1
  <2> QED
    BY <2>2
<1>6. k \in 1 .. Len(rows) /\ rows[k].num = Num[e] /\ rows[k].mode = "new"
  BY <1>2, <1>4 DEF NewOf
<1>7. SUFFICES ASSUME rows[k].id # AccountsOf(Prev[e]) PROVE FALSE
  BY <1>2, <1>5
<1>8. k > 1 /\ rows[k - 1].mode = "new"
  BY <1>1, <1>6, <1>7 DEF LogFits
<1>9. k - 1 \in 1 .. Len(rows) - 1 /\ (k - 1) + 1 = k /\ k - 1 \in 1 .. Len(rows)
  BY <1>1, <1>6, <1>8
<1>10. rows[(k - 1) + 1].num = IF rows[k - 1].mode = "sum" THEN rows[k - 1].num + 1 ELSE rows[k - 1].num
  BY <1>1, <1>9 DEF LogFits, Ordered
<1>11. rows[k - 1].num = Num[e]
  BY <1>6, <1>8, <1>9, <1>10
<1>12. k - 1 \in S
  BY <1>2, <1>8, <1>9, <1>11 DEF NewOf
<1> QED
  BY <1>3, <1>4, <1>6, <1>12

Backs(rows, e) ==
  LET back == Sorted(OldOf(rows, Num[e])) IN
  [k \in DOMAIN back |-> Put("state", rows[back[k]].id, rows[back[k]].val)]
Trims(rows, e) ==
  IF NewOf(rows, Num[e]) = {} THEN << >> ELSE << Cut("state", AccountsOf(Prev[e]) - 1) >>

LEMMA UndoShape ==
  ASSUME NEW d, IsDisk(d), NEW f \in Files, NEW rows, rows = d[f],
         NEW e, LastGroup(rows, e), AccountsOf(Prev[e]) =< Len(d.state)
  PROVE  UndoLog(d, f, Num[e]) = (Backs(rows, e) \o Trims(rows, e)) \o << Cut(f, Below(rows, Num[e]) - 1) >>
<1> DEFINE n == Num[e]
           first == Max({0} \cup {i \in DOMAIN rows : rows[i].num < n}) + 1
           mine == {i \in first .. Len(rows) : Decides(rows, first, i)}
           new == {i \in mine : rows[i].mode = "new"}
           old == {i \in mine : rows[i].mode = "old" /\ rows[i].id < Len(d.state)}
           back == Sorted(old)
<1>1. UndoLog(d, f, n) =
        ([k \in DOMAIN back |-> Put("state", rows[back[k]].id, rows[back[k]].val)]
         \o (IF new = {} THEN << >> ELSE << Cut("state", rows[Min(new)].id - 1) >>))
        \o (IF mine = {} THEN << >> ELSE << Cut(f, first - 2) >>)
  BY DEF UndoLog
<1>2. PICK F : F = Below(rows, Num[e])
  OBVIOUS
<1>3. first = F + 1
  BY <1>2 DEF Below
<1> HIDE DEF first
<1>4. /\ Len(rows) \in Nat /\ Num[e] \in Nat /\ Num[e] > 0 /\ F \in 0 .. Len(rows) - 1
      /\ \A i \in 1 .. F : rows[i].num \in 1 .. Num[e] - 1
      /\ \A i \in F + 1 .. Len(rows) : rows[i].num = Num[e]
  BY <1>2, LastGroupIs
<1>5. e \in Block /\ LogFits(rows, e)
  BY DEF LastGroup
<1>6. \A i \in 1 .. Len(rows) : i \in first .. Len(rows) <=> rows[i].num = n
  <2>1. ASSUME NEW i \in 1 .. Len(rows) PROVE i \in first .. Len(rows) <=> rows[i].num = n
    <3>1. CASE i \in 1 .. F
      <4>1. rows[i].num # n /\ i \notin first .. Len(rows)
        BY <1>3, <1>4, <3>1
      <4> QED
        BY <4>1
    <3>2. CASE i \in F + 1 .. Len(rows)
      <4>1. rows[i].num = n /\ i \in first .. Len(rows)
        BY <1>3, <1>4, <3>2
      <4> QED
        BY <4>1
    <3>3. i \in 1 .. F \/ i \in F + 1 .. Len(rows)
      BY <1>4
    <3> QED
      BY <3>1, <3>2, <3>3
  <2> QED
    BY <2>1
<1>7. first .. Len(rows) \subseteq 1 .. Len(rows) /\ first \in first .. Len(rows)
  BY <1>3, <1>4
<1>8. ASSUME NEW i \in first .. Len(rows), rows[i].mode # "sum" PROVE Decides(rows, first, i)
  <2>1. ASSUME NEW j \in first .. i - 1 PROVE rows[j].id # rows[i].id
    <3>1. j \in 1 .. Len(rows) /\ i \in 1 .. Len(rows) /\ j < i
      BY <1>3, <1>4
    <3>2. rows[j].num = rows[i].num
      BY <1>3, <1>4, <3>1
    <3> QED
      BY <1>5, <1>8, <3>1, <3>2 DEF LogFits, Ordered
  <2> QED
    BY <2>1 DEF Decides
<1>9. first \in mine
  <2>1. first .. first - 1 = {}
    BY <1>3, <1>4
  <2> QED
    BY <1>7, <2>1 DEF Decides
<1>10. new = NewOf(rows, n)
  <2>1. ASSUME NEW i \in new PROVE i \in NewOf(rows, n)
    BY <1>6, <1>7 DEF NewOf
  <2>2. ASSUME NEW i \in NewOf(rows, n) PROVE i \in new
    <3>1. i \in 1 .. Len(rows) /\ rows[i].num = n /\ rows[i].mode = "new" /\ "new" # "sum"
      BY DEF NewOf
    <3>2. i \in first .. Len(rows)
      BY <1>6, <3>1
    <3>3. Decides(rows, first, i)
      BY <1>8, <3>1, <3>2
    <3> QED
      BY <3>1, <3>2, <3>3
  <2> HIDE DEF new
  <2> QED
    BY <2>1, <2>2
<1>11. old = OldOf(rows, n)
  <2>1. ASSUME NEW i \in old PROVE i \in OldOf(rows, n)
    BY <1>6, <1>7 DEF OldOf
  <2>2. ASSUME NEW i \in OldOf(rows, n) PROVE i \in old
    <3>1. i \in 1 .. Len(rows) /\ rows[i].num = n /\ rows[i].mode = "old" /\ "old" # "sum" /\ "old" # "new"
      BY DEF OldOf
    <3>2. i \in first .. Len(rows)
      BY <1>6, <3>1
    <3>3. Decides(rows, first, i)
      BY <1>8, <3>1, <3>2
    <3>4. Anc[e][rows[i].num] = e
      BY <1>5, <3>1, ChainIs
    <3>5. OldRow(rows[i], e)
      <4>1. RowFits(rows[i], e)
        BY <1>5, <3>1 DEF LogFits
      <4> QED
        BY <3>1, <3>4, <4>1 DEF RowFits, NewRow, SumRow
    <3>6. rows[i].id \in Nat /\ rows[i].id < AccountsOf(Prev[e])
      BY <3>5 DEF OldRow
    <3>7. AccountsOf(Prev[e]) \in Nat /\ Len(d.state) \in Nat
      BY <1>4, <1>5, AccountsNext, FilesAre
    <3>8. rows[i].id < Len(d.state)
      BY <3>6, <3>7
    <3> QED
      BY <3>1, <3>2, <3>3, <3>8
  <2> HIDE DEF old
  <2> QED
    BY <2>1, <2>2
<1> HIDE DEF old, new, mine
<1>12. back = Sorted(OldOf(rows, Num[e]))
  BY <1>11
<1>13. new # {} => rows[Min(new)].id = AccountsOf(Prev[e])
  BY <1>10, FirstNew
<1>14. (IF new = {} THEN << >> ELSE << Cut("state", rows[Min(new)].id - 1) >>) = Trims(rows, e)
  BY <1>10, <1>13 DEF Trims
<1>15. [k \in DOMAIN back |-> Put("state", rows[back[k]].id, rows[back[k]].val)] = Backs(rows, e)
  BY <1>12 DEF Backs
<1>16. mine # {} /\ first - 2 = F - 1
  BY <1>3, <1>4, <1>9
<1> HIDE DEF back, n
<1> QED
  BY <1>1, <1>2, <1>14, <1>15, <1>16 DEF n
-----------------------------------------------------------------------------
LEMMA FilesIn == {"state", "act", "prev", "hash", "smart"} \subseteq Files
BY DEF Files

(* While the old values are put back the log still undoes the block.       *)
LEMMA UndoableSame ==
  ASSUME NEW d, IsDisk(d), NEW e, Undoable(d, e), NEW x, IsDisk(x),
         x.act = d.act, x.prev = d.prev, x.hash = d.hash, x.smart = d.smart,
         AccountsOf(Prev[e]) =< Len(x.state), Len(x.state) =< Len(d.state),
         \A a \in 0 .. AccountsOf(Prev[e]) - 1 :
           x.state[a + 1] = d.state[a + 1] \/ x.state[a + 1] = Replay(Prev[e])[a + 1]
  PROVE  Undoable(x, e)
<1>1. Log(x) = Log(d) /\ LastNum(x) = LastNum(d)
  BY DEF Log, LastNum, LastItem
<1>2. LogOk(x, e)
  BY <1>1 DEF Undoable, LogOk
<1>3. SmartFits(x, Prev[e]) /\ HashesFit(x, Prev[e])
  BY DEF Undoable, SmartFits, HashesFit
<1>4. e \in Block /\ Num[e] > 0
  BY LogOkIs DEF Undoable
<1>5. Len(x.state) \in Nat /\ Len(d.state) \in Nat /\ AccountsOf(Prev[e]) \in Nat
  BY <1>4, FilesAre, AccountsNext
<1>6. ASSUME NEW a \in 0 .. AccountsOf(Prev[e]) - 1
      PROVE  \/ x.state[a + 1] = Replay(Prev[e])[a + 1]
             \/ \E i \in 1 .. Len(Log(x)) : Log(x)[i].num = Num[e] /\ Log(x)[i].mode = "old" /\ Log(x)[i].id = a
  BY <1>1 DEF Undoable
<1>7. AccountsOf(Prev[e]) < Len(x.state) =>
        \E i \in 1 .. Len(Log(x)) : Log(x)[i].num = Num[e] /\ Log(x)[i].mode = "new"
  BY <1>1, <1>5 DEF Undoable
<1> QED
  BY <1>2, <1>3, <1>6, <1>7 DEF Undoable

LEMMA UndoBack ==
  ASSUME NEW d, IsDisk(d), NEW e, Undoable(d, e), NEW rows, rows = Log(d), NEW ws, ws = Backs(rows, e)
  PROVE  /\ IsWrites(ws)
         /\ \A x \in Passes(d, ws) :
              /\ IsDisk(x) /\ Undoable(x, e)
              /\ x.act = d.act /\ x.prev = d.prev /\ x.hash = d.hash /\ x.smart = d.smart
              /\ Len(x.state) = Len(d.state)
         /\ \A a \in 0 .. AccountsOf(Prev[e]) - 1 : After(d, ws).state[a + 1] = Replay(Prev[e])[a + 1]
<1>1. /\ LogOk(d, e) /\ AccountsOf(Prev[e]) =< Len(d.state)
      /\ \A a \in 0 .. AccountsOf(Prev[e]) - 1 :
           \/ d.state[a + 1] = Replay(Prev[e])[a + 1]
           \/ \E i \in 1 .. Len(rows) : rows[i].num = Num[e] /\ rows[i].mode = "old" /\ rows[i].id = a
  BY DEF Undoable
<1>2. /\ e \in Block /\ Len(rows) \in Nat /\ LogFits(rows, e) /\ Num[e] \in Nat /\ Num[e] > 0 /\ Anc[e][Num[e]] = e
      /\ \A i \in 1 .. Len(rows) : RowFits(rows[i], e)
  BY <1>1, LogOkIs
<1>3. AccountsOf(Prev[e]) \in Nat /\ Len(d.state) \in Nat
  BY <1>2, FilesAre, AccountsNext
<1>4. PICK S : S = OldOf(rows, Num[e])
  OBVIOUS
<1>5. S \subseteq 0 .. Len(rows)
  BY <1>2, <1>4 DEF OldOf
<1>6. PICK back : back = Sorted(S)
  OBVIOUS
<1>7. PICK k \in Nat : /\ back \in [1 .. k -> S] /\ Increasing(back, k) /\ DOMAIN back = 1 .. k
                       /\ \A i \in S : \E j \in 1 .. k : back[j] = i
  <2>1. /\ Cardinality(S) \in Nat /\ back \in [1 .. Cardinality(S) -> S] /\ Increasing(back, Cardinality(S))
        /\ \A i \in S : \E j \in 1 .. Cardinality(S) : back[j] = i
    BY ZenonT(60), <1>2, <1>5, <1>6, SortedIs
  <2>2. DOMAIN back = 1 .. Cardinality(S)
    BY <2>1
  <2> QED
    BY <2>1, <2>2
<1>8. ASSUME NEW i \in S
      PROVE  /\ i \in 1 .. Len(rows) /\ rows[i].num = Num[e] /\ rows[i].mode = "old"
             /\ rows[i].id \in Nat /\ rows[i].id < AccountsOf(Prev[e])
             /\ rows[i].val = Replay(Prev[e])[rows[i].id + 1]
  <2>1. i \in 1 .. Len(rows) /\ rows[i].num = Num[e] /\ rows[i].mode = "old"
    BY <1>4 DEF OldOf
  <2>2. OldRow(rows[i], e)
    BY <1>2, <2>1 DEF RowFits, NewRow, SumRow
  <2> QED
    BY <2>1, <2>2 DEF OldRow
<1>9. PICK ids : ids = [j \in 1 .. k |-> rows[back[j]].id]
  OBVIOUS
<1>10. PICK vals : vals = [j \in 1 .. k |-> rows[back[j]].val]
  OBVIOUS
<1>11. ASSUME NEW j \in 1 .. k
       PROVE  /\ back[j] \in S /\ back[j] \in Nat /\ ids[j] = rows[back[j]].id /\ vals[j] = rows[back[j]].val
              /\ ids[j] \in 0 .. AccountsOf(Prev[e]) - 1 /\ vals[j] = Replay(Prev[e])[ids[j] + 1]
  <2>1. back[j] \in S
    BY <1>7
  <2>2. ids[j] = rows[back[j]].id /\ vals[j] = rows[back[j]].val
    BY <1>9, <1>10
  <2>3. rows[back[j]].id \in Nat /\ rows[back[j]].id < AccountsOf(Prev[e]) /\ rows[back[j]].val = Replay(Prev[e])[rows[back[j]].id + 1]
    BY <1>8, <2>1
  <2>4. back[j] \in Nat
    <3>1. \A i \in S : i \in 0 .. Len(rows)
      BY <1>5
    <3> QED
      BY <1>2, <2>1, <3>1
  <2> QED
    BY <1>3, <2>1, <2>2, <2>3, <2>4
<1>12. ids \in [1 .. k -> Nat]
  <2>1. ids = [j \in 1 .. k |-> ids[j]]
    BY <1>9
  <2>2. \A j \in 1 .. k : ids[j] \in Nat
    BY <1>11
  <2> QED
    BY <2>1, <2>2
<1>13. ASSUME NEW i \in 1 .. k, NEW j \in 1 .. k, i # j PROVE ids[i] # ids[j]
  <2>1. ASSUME NEW x \in 1 .. k, NEW y \in 1 .. k, x < y PROVE ids[x] # ids[y]
    <3>1. back[x] < back[y]
      BY <1>7, <2>1 DEF Increasing
    <3>2. /\ back[x] \in 1 .. Len(rows) /\ back[y] \in 1 .. Len(rows)
          /\ rows[back[x]].num = rows[back[y]].num /\ rows[back[y]].mode # "sum"
      <4>1. \A z \in {x, y} : back[z] \in S
        BY <1>11
      <4>2. \A z \in {x, y} : back[z] \in 1 .. Len(rows) /\ rows[back[z]].num = Num[e] /\ rows[back[z]].mode = "old"
        BY <1>8, <4>1
      <4>3. "old" # "sum"
        OBVIOUS
      <4> QED
        BY <4>2, <4>3
    <3>3. rows[back[x]].id # rows[back[y]].id
      BY <1>2, <3>1, <3>2 DEF LogFits, Ordered
    <3> QED
      BY <1>11, <3>3
  <2>2. i < j \/ j < i
    BY <1>13
  <2> QED
    BY <2>1, <2>2
<1>14. ws = [j \in 1 .. k |-> Put("state", rows[back[j]].id, rows[back[j]].val)]
  BY <1>4, <1>6, <1>7 DEF Backs
<1>15. Len(ws) = k /\ \E W : ws \in Seq(W)
  <2>1. ws = [j \in 1 .. k |-> ws[j]]
    BY <1>14
  <2> QED
    BY <2>1, MakeSeq
<1>16. \A j \in 1 .. k : ws[j] = Put("state", ids[j], vals[j])
  BY <1>9, <1>10, <1>14
<1>17. "state" \in Files /\ "act" \in Files /\ "prev" \in Files /\ "hash" \in Files /\ "smart" \in Files
  BY FilesIn
<1>18. PICK L : L = Len(d["state"])
  OBVIOUS
<1>19. IsWrites(ws) /\ L \in Nat /\ \A j \in 0 .. k : PutsDone(d, Disks(d, ws)[j], "state", ids, vals, j, k, L)
  <2>1. k \in 0 .. k /\ \A i \in 1 .. k : ids[i] < L
    <3>1. L \in Nat /\ AccountsOf(Prev[e]) =< L
      BY <1>1, <1>3, <1>18
    <3> QED
      BY <1>3, <1>11, <3>1
  <2>2. \A i \in k + 1 .. k : ids[i] = L + (i - 1 - k)
    OBVIOUS
  <2>3. \A i, j \in 1 .. k : i # j => ids[i] # ids[j]
    BY <1>13
  <2>4. ArePuts(ws, "state", ids, vals, k, k, L)
    BY <1>15, <1>16, <2>1, <2>2, <2>3 DEF ArePuts
  <2> QED
    BY <1>12, <1>17, <1>18, <2>1, <2>4, PutsAre
<1>20. ASSUME NEW j \in 0 .. k, NEW x, x = Disks(d, ws)[j]
       PROVE  /\ IsDisk(x) /\ Undoable(x, e)
              /\ x.act = d.act /\ x.prev = d.prev /\ x.hash = d.hash /\ x.smart = d.smart
              /\ Len(x.state) = Len(d.state)
              /\ \A a \in 0 .. AccountsOf(Prev[e]) - 1 :
                   \/ x.state[a + 1] = Replay(Prev[e])[a + 1]
                   \/ x.state[a + 1] = d.state[a + 1] /\ \A i \in 1 .. j : ids[i] # a
  <2>1. /\ IsDisk(x) /\ \A g \in Files : g # "state" => x[g] = d[g]
        /\ Len(x["state"]) = (IF j > k THEN L + (j - k) ELSE L)
        /\ \A i \in 1 .. j : x["state"][ids[i] + 1] = vals[i]
        /\ \A a \in 0 .. L - 1 : (\A i \in 1 .. j : ids[i] # a) => x["state"][a + 1] = d["state"][a + 1]
    BY <1>19, <1>20 DEF PutsDone
  <2>2. x.act = d.act /\ x.prev = d.prev /\ x.hash = d.hash /\ x.smart = d.smart /\ Len(x.state) = Len(d.state)
    BY <1>17, <1>18, <2>1
  <2>3. ASSUME NEW a \in 0 .. AccountsOf(Prev[e]) - 1
        PROVE  \/ x.state[a + 1] = Replay(Prev[e])[a + 1]
               \/ x.state[a + 1] = d.state[a + 1] /\ \A i \in 1 .. j : ids[i] # a
    <3>1. CASE \E i \in 1 .. j : ids[i] = a
      <4>1. PICK i \in 1 .. j : ids[i] = a
        BY <3>1
      <4>2. i \in 1 .. k
        OBVIOUS
      <4> QED
        BY <1>11, <2>1, <4>1, <4>2
    <3>2. CASE ~ \E i \in 1 .. j : ids[i] = a
      <4>1. a \in 0 .. L - 1
        BY <1>1, <1>3, <1>18
      <4> QED
        BY <2>1, <3>2, <4>1
    <3> QED
      BY <3>1, <3>2
  <2>4. Undoable(x, e)
    <3>1. AccountsOf(Prev[e]) =< Len(x.state) /\ Len(x.state) =< Len(d.state)
      BY <1>1, <1>3, <2>2
    <3>2. \A a \in 0 .. AccountsOf(Prev[e]) - 1 :
            x.state[a + 1] = d.state[a + 1] \/ x.state[a + 1] = Replay(Prev[e])[a + 1]
      BY <2>3
    <3> QED
      BY <2>1, <2>2, <3>1, <3>2, UndoableSame
  <2> QED
    BY <2>1, <2>2, <2>3, <2>4
<1>21. ASSUME NEW a \in 0 .. AccountsOf(Prev[e]) - 1
       PROVE  After(d, ws).state[a + 1] = Replay(Prev[e])[a + 1]
  <2>1. PICK x : x = After(d, ws)
    OBVIOUS
  <2>2. x = Disks(d, ws)[k] /\ k \in 0 .. k
    BY <1>15, <2>1 DEF After
  <2>3. \/ x.state[a + 1] = Replay(Prev[e])[a + 1]
        \/ x.state[a + 1] = d.state[a + 1] /\ \A i \in 1 .. k : ids[i] # a
    BY <1>20, <2>2
  <2>4. CASE x.state[a + 1] = d.state[a + 1] /\ \A i \in 1 .. k : ids[i] # a
    <3>1. CASE d.state[a + 1] = Replay(Prev[e])[a + 1]
      BY <2>1, <2>4, <3>1
    <3>2. CASE d.state[a + 1] # Replay(Prev[e])[a + 1]
      <4>1. PICK i \in 1 .. Len(rows) : rows[i].num = Num[e] /\ rows[i].mode = "old" /\ rows[i].id = a
        BY <1>1, <3>2
      <4>2. i \in S
        BY <1>4, <4>1 DEF OldOf
      <4>3. PICK j \in 1 .. k : back[j] = i
        BY <1>7, <4>2
      <4>4. ids[j] = a
        BY <1>11, <4>1, <4>3
      <4> QED
        BY <2>4, <4>4
    <3> QED
      BY <3>1, <3>2
  <2> QED
    BY <2>1, <2>3, <2>4
<1>22. \A x \in Passes(d, ws) : \E j \in 0 .. k : x = Disks(d, ws)[j]
  BY <1>15 DEF Passes
<1> QED
  BY <1>19, <1>20, <1>21, <1>22
-----------------------------------------------------------------------------
IsCut(x, y, f, F) ==
  /\ IsWrite(Cut(f, F - 1)) /\ IsDisk(y) /\ \A g \in Files : g # f => y[g] = x[g]
  /\ Len(y[f]) = F /\ \A i \in 1 .. F : y[f][i] = x[f][i]

LEMMA CutShorter ==
  ASSUME NEW x, IsDisk(x), NEW f \in Files, NEW F \in Nat, F =< Len(x[f]), NEW y, y = Write(x, Cut(f, F - 1))
  PROVE  IsCut(x, y, f, F)
<1>1. PICK m \in Int : m = F - 1 /\ m >= -1 /\ m + 1 = F
  OBVIOUS
<1>2. y = Write(x, Cut(f, m))
  BY <1>1
<1>3. /\ IsDisk(y) /\ \A g \in Files : g # f => y[g] = x[g]
      /\ Len(y[f]) = m + 1
      /\ \A i \in 1 .. m + 1 : y[f][i] = IF i =< Len(x[f]) THEN x[f][i] ELSE Zero
  BY <1>1, <1>2, CutIs
<1>4. IsWrite(Cut(f, m))
  BY <1>1, CutIsWrite
<1>5. \A i \in 1 .. F : y[f][i] = x[f][i]
  <2>1. ASSUME NEW i \in 1 .. F PROVE y[f][i] = x[f][i]
    <3>1. i \in 1 .. m + 1 /\ i =< Len(x[f])
      BY <1>1, FileIs
    <3> QED
      BY <1>3, <3>1
  <2> QED
    BY <2>1
<1> QED
  BY <1>1, <1>3, <1>4, <1>5 DEF IsCut

LEMMA UndoTrim ==
  ASSUME NEW x, IsDisk(x), NEW e, Undoable(x, e),
         \A a \in 0 .. AccountsOf(Prev[e]) - 1 : x.state[a + 1] = Replay(Prev[e])[a + 1],
         NEW ws, ws = Trims(Log(x), e)
  PROVE  /\ IsWrites(ws)
         /\ \A y \in Passes(x, ws) :
              /\ IsDisk(y) /\ Undoable(y, e)
              /\ y.act = x.act /\ y.prev = x.prev /\ y.hash = x.hash /\ y.smart = x.smart
              /\ Len(y.state) =< Len(x.state)
         /\ After(x, ws).state = Replay(Prev[e])
<1>1. PICK p : p = Prev[e]
  OBVIOUS
<1>2. LogOk(x, e) /\ AccountsOf(p) =< Len(x.state)
  BY <1>1 DEF Undoable
<1>3. e \in Block /\ Num[e] \in Nat /\ Num[e] > 0
  BY <1>2, LogOkIs
<1>4. /\ p \in Block /\ AccountsOf(p) \in Nat /\ Len(Replay(p)) = AccountsOf(p)
      /\ \E R : Replay(p) \in Seq(R)
  BY <1>1, <1>3, ChildIs, ReplayIs
<1>5. Len(x.state) \in Nat /\ \E R : x.state \in Seq(R)
  BY FilesAre
<1>6. ASSUME NEW i \in 1 .. AccountsOf(p) PROVE x.state[i] = Replay(p)[i]
  <2>1. i - 1 \in 0 .. AccountsOf(p) - 1 /\ (i - 1) + 1 = i
    BY <1>4
  <2> QED
    BY <1>1, <2>1
<1>7. CASE NewOf(Log(x), Num[e]) = {}
  <2>1. ws = << >>
    BY <1>7 DEF Trims
  <2>2. IsWrites(ws) /\ After(x, ws) = x /\ Passes(x, ws) = {x}
    BY <2>1, NoWrites
  <2>3. Len(x.state) = AccountsOf(p)
    <3>1. ~ \E i \in 1 .. Len(Log(x)) : Log(x)[i].num = Num[e] /\ Log(x)[i].mode = "new"
      BY <1>7 DEF NewOf
    <3>2. ~(AccountsOf(p) < Len(x.state))
      BY <1>1, <3>1 DEF Undoable
    <3> QED
      BY <1>2, <1>4, <1>5, <3>2
  <2>4. x.state = Replay(p)
    BY <1>4, <1>5, <1>6, <2>3, SameSeq
  <2> QED
    BY <1>1, <1>5, <2>2, <2>4
<1>8. CASE NewOf(Log(x), Num[e]) # {}
  <2>1. PICK n \in Int : n = AccountsOf(p) - 1 /\ n >= -1 /\ n + 1 = AccountsOf(p)
    BY <1>4
  <2>2. ws = << Cut("state", n) >>
    BY <1>1, <1>8, <2>1 DEF Trims
  <2>3. "state" \in Files /\ "act" \in Files /\ "prev" \in Files /\ "hash" \in Files /\ "smart" \in Files
    BY FilesIn
  <2>4. PICK y : y = Write(x, Cut("state", n))
    OBVIOUS
  <2>5. /\ IsDisk(y) /\ \A g \in Files : g # "state" => y[g] = x[g]
        /\ Len(y["state"]) = n + 1
        /\ \A i \in 1 .. n + 1 : y["state"][i] = IF i =< Len(x["state"]) THEN x["state"][i] ELSE Zero
    BY <2>1, <2>3, <2>4, CutIs
  <2>6. IsWrites(ws) /\ After(x, ws) = y /\ Passes(x, ws) = {x, y}
    BY <2>1, <2>2, <2>3, <2>4, CutIsWrite, OneWrite
  <2>7. y.act = x.act /\ y.prev = x.prev /\ y.hash = x.hash /\ y.smart = x.smart /\ Len(y.state) = AccountsOf(p)
    BY <2>1, <2>3, <2>5
  <2>8. \A i \in 1 .. AccountsOf(p) : y.state[i] = Replay(p)[i]
    <3>1. ASSUME NEW i \in 1 .. AccountsOf(p) PROVE y.state[i] = Replay(p)[i]
      <4>1. i =< Len(x.state)
        BY <1>2, <1>4, <1>5
      <4> QED
        BY <1>6, <2>1, <2>5, <4>1
    <3> QED
      BY <3>1
  <2>9. y.state = Replay(p)
    <3>1. \E R : y.state \in Seq(R)
      BY <2>5, FilesAre
    <3> QED
      BY <1>4, <2>7, <2>8, <3>1, SameSeq
  <2>10. Undoable(y, e)
    <3>1. \A a \in 0 .. AccountsOf(p) - 1 : y.state[a + 1] = Replay(p)[a + 1]
      BY <2>9
    <3>2. AccountsOf(p) =< Len(y.state) /\ Len(y.state) =< Len(x.state)
      BY <1>2, <1>4, <2>7
    <3> QED
      BY <1>1, <2>5, <2>7, <3>1, <3>2, UndoableSame
  <2> QED
    BY <1>1, <1>2, <1>4, <1>5, <2>5, <2>6, <2>7, <2>9, <2>10
<1> QED
  BY <1>7, <1>8

LEMMA HoldsPrefix ==
  ASSUME NEW rows, NEW b, Holds(rows, b), Len(rows) \in Nat,
         NEW s, Len(s) \in 0 .. Len(rows), \A i \in 1 .. Len(s) : s[i] = rows[i]
  PROVE  Holds(s, b)
<1>1. ASSUME NEW i \in 1 .. Len(s), FirstSum(s, i) PROVE Held(s[i], b)
  <2>1. i \in 1 .. Len(rows) /\ s[i] = rows[i] /\ \A j \in 1 .. i - 1 : s[j] = rows[j]
    OBVIOUS
  <2>2. FirstSum(rows, i)
    BY <1>1, <2>1 DEF FirstSum
  <2> QED
    BY <2>1, <2>2 DEF Holds
<1> QED
  BY <1>1 DEF Holds

(* With the rows of the block gone, the block before it is the last one.   *)
LEMMA UndoCut ==
  ASSUME NEW x, IsDisk(x), NEW e, Undoable(x, e), x.state = Replay(Prev[e]),
         NEW b, Rem(x, b), NEW u, u => Unrotated(x),
         NEW f \in {"act", "prev"}, Log(x) = x[f], f = "act" <=> x.act # << >>,
         NEW y, y = Write(x, Cut(f, Below(Log(x), Num[e]) - 1))
  PROVE  /\ IsWrite(Cut(f, Below(Log(x), Num[e]) - 1)) /\ IsDisk(y) /\ At(y, Prev[e]) /\ Rem(y, b) /\ (u => Unrotated(y))
         /\ y.smart = x.smart
         /\ Log(y) = << >> => /\ x.act = << >> \/ x.prev = << >>
                              /\ \A i \in 1 .. Len(Log(x)) : Log(x)[i].num = Num[e]
<1>1. PICK p : p = Prev[e]
  OBVIOUS
<1>2. PICK rows : rows = Log(x) /\ rows = x[f]
  OBVIOUS
<1>3. /\ LogOk(x, e) /\ SmartFits(x, p) /\ HashesFit(x, p)
  BY <1>1 DEF Undoable
<1>4. LastGroup(rows, e) /\ e \in Block /\ Num[e] > 0
  BY <1>2, <1>3, LogOkIs, LogIs DEF LastGroup
<1>5. PICK F : F = Below(rows, Num[e])
  OBVIOUS
<1>6. PICK n \in Nat : n = Num[e] /\ n > 0
  BY <1>4, ChainIs
<1>7. /\ Len(rows) \in Nat /\ F \in 0 .. Len(rows) - 1
      /\ \A i \in 1 .. F : rows[i].num \in 1 .. n - 1
      /\ \A i \in F + 1 .. Len(rows) : rows[i].num = n
      /\ F > 0 => rows[F].mode = "sum" /\ rows[F].num = n - 1
  BY <1>4, <1>5, <1>6, LastGroupIs
<1>8. "state" \in Files /\ "act" \in Files /\ "prev" \in Files /\ "hash" \in Files /\ "smart" \in Files /\ f \in Files
  BY FilesIn
<1>9. F \in Nat /\ F =< Len(x[f]) /\ y = Write(x, Cut(f, F - 1))
  BY <1>2, <1>5, <1>7
<1>10. /\ IsWrite(Cut(f, F - 1)) /\ IsDisk(y) /\ \A g \in Files : g # f => y[g] = x[g]
       /\ Len(y[f]) = F /\ \A i \in 1 .. F : y[f][i] = x[f][i]
  <2>1. IsCut(x, y, f, F)
    BY <1>8, <1>9, CutShorter
  <2> QED
    BY <2>1 DEF IsCut
<1>11. IsWrite(Cut(f, Below(Log(x), Num[e]) - 1))
  BY <1>2, <1>5, <1>10
<1>12. Len(y[f]) = F /\ \A i \in 1 .. F : y[f][i] = rows[i]
  BY <1>2, <1>10
<1>13. y.state = x.state /\ y.hash = x.hash /\ y.smart = x.smart
  BY <1>8, <1>10
<1>14. /\ p \in Block /\ Num[p] \in Nat /\ Num[p] = n - 1
       /\ \A k \in 0 .. Num[p] : Anc[e][k] = Anc[p][k]
  BY <1>1, <1>4, <1>6, ChildIs
<1>15. SmartFits(y, p) /\ HashesFit(y, p)
  BY <1>3, <1>13 DEF SmartFits, HashesFit
<1>16. LogFits(rows, e)
  BY <1>4 DEF LastGroup
<1>17. LogFits(y[f], p)
  <2>1. PICK m \in 0 .. Num[p] : m = Num[p] /\ m = n - 1
    BY <1>14
  <2>2. PICK s : s = y[f]
    OBVIOUS
  <2>3. Len(s) \in 0 .. Len(rows) /\ \A i \in 1 .. Len(s) : s[i] = rows[i]
    BY <1>7, <1>9, <1>12, <2>2
  <2>4. \A i \in 1 .. Len(s) : s[i].num =< m
    BY <1>7, <1>9, <1>12, <2>1, <2>2
  <2>5. \A k \in 1 .. m : Anc[p][k] = Anc[e][k]
    BY <1>14, <2>1
  <2>6. LogFits(s, p)
    <3>1. PrefixOf(s, rows, p, e, m)
      BY <2>3, <2>4, <2>5 DEF PrefixOf
    <3> QED
      BY <1>4, <1>7, <1>14, <1>16, <3>1, LogPrefix
  <2> QED
    BY <2>2, <2>6
<1>18. Len(x.prev) \in Nat /\ Len(y.prev) \in Nat /\ Len(y.act) \in Nat /\ Len(x.act) \in Nat
       /\ (y.prev = << >> <=> Len(y.prev) = 0) /\ (y.act = << >> <=> Len(y.act) = 0)
       /\ (x.prev = << >> <=> Len(x.prev) = 0) /\ (x.act = << >> <=> Len(x.act) = 0)
  BY <1>10, FilesAre
<1>19. LogFits(x.prev, e) /\ (x.prev # << >> => x.prev[Len(x.prev)].mode = "sum")
       /\ (x.prev # << >> /\ x.act # << >> => x.act[1].num = x.prev[Len(x.prev)].num + 1)
  BY <1>3 DEF LogOk
<1>20. Len(rows) > 0 /\ Len(rows) \in 1 .. Len(rows) /\ 1 \in 1 .. Len(rows) /\ (1 \in F + 1 .. Len(rows) \/ F > 0)
  BY <1>4, <1>7 DEF LastGroup
<1>21. CASE f = "act"
  <2>1. x.act # << >> /\ rows = x.act /\ y.prev = x.prev /\ Len(y.act) = F /\ \A i \in 1 .. F : y.act[i] = rows[i]
    BY <1>2, <1>8, <1>10, <1>12, <1>21
  <2>2. x.prev # << >> => Len(x.prev) \in 1 .. Len(x.prev) /\ x.prev[Len(x.prev)].num = rows[1].num - 1
                          /\ x.prev[Len(x.prev)].num \in Nat
    <3>1. SUFFICES ASSUME x.prev # << >>
          PROVE  Len(x.prev) \in 1 .. Len(x.prev) /\ x.prev[Len(x.prev)].num = rows[1].num - 1
                 /\ x.prev[Len(x.prev)].num \in Nat
      OBVIOUS
    <3>2. Len(x.prev) \in 1 .. Len(x.prev)
      BY <1>18, <3>1
    <3>3. RowFits(x.prev[Len(x.prev)], e)
      BY <1>19, <3>2 DEF LogFits
    <3>4. x.prev[Len(x.prev)].num \in Nat
      BY <3>3 DEF RowFits
    <3> QED
      BY <1>19, <2>1, <3>1, <3>2, <3>4
  <2>3. rows[1].num \in 1 .. n
    <3>1. F > 0 => 1 \in 1 .. F
      BY <1>7
    <3>2. ~(F > 0) => 1 \in F + 1 .. Len(rows)
      BY <1>7, <1>20
    <3> QED
      BY <1>6, <1>7, <3>1, <3>2
  <2>4. \A i \in 1 .. Len(x.prev) : x.prev[i].num =< Num[p]
    <3>1. ASSUME NEW i \in 1 .. Len(x.prev) PROVE x.prev[i].num =< Num[p]
      <4>1. x.prev # << >> /\ Len(x.prev) \in 1 .. Len(x.prev)
        BY <1>18
      <4>2. RowFits(x.prev[i], e)
        BY <1>19 DEF LogFits
      <4>3. x.prev[i].num \in Nat
        BY <4>2 DEF RowFits
      <4>4. i # Len(x.prev) => x.prev[i].num =< x.prev[Len(x.prev)].num
        <5>1. i # Len(x.prev) => i < Len(x.prev)
          BY <1>18
        <5> QED
          BY <1>19, <4>1, <5>1 DEF LogFits, Ordered
      <4>5. x.prev[i].num =< x.prev[Len(x.prev)].num
        BY <4>3, <4>4
      <4> QED
        BY <1>14, <2>2, <2>3, <4>1, <4>3, <4>5
    <3> QED
      BY <3>1
  <2>5. LogFits(y.prev, p)
    <3>1. PICK m \in 0 .. Num[p] : m = Num[p]
      BY <1>14
    <3>2. PICK s : s = x.prev
      OBVIOUS
    <3>3. Len(s) \in Nat /\ Len(s) \in 0 .. Len(s) /\ \A i \in 1 .. Len(s) : s[i].num =< m
      BY <1>18, <2>4, <3>1, <3>2
    <3>4. \A k \in 1 .. m : Anc[p][k] = Anc[e][k]
      BY <1>14, <3>1
    <3>5. LogFits(s, e)
      BY <1>19, <3>2
    <3>6. LogFits(s, p)
      <4>1. PrefixOf(s, s, p, e, m)
        BY <3>3, <3>4 DEF PrefixOf
      <4> QED
        BY <1>4, <1>14, <3>3, <3>5, <4>1, LogPrefix
    <3> QED
      BY <2>1, <3>2, <3>6
  <2>6. LogFits(y.act, p)
    BY <1>17, <1>21
  <2>7. F > 0 => Log(y) = y.act /\ Log(y) # << >> /\ Log(y)[Len(Log(y))].mode = "sum" /\ Log(y)[Len(Log(y))].num = Num[p]
    <3>1. SUFFICES ASSUME F > 0 PROVE Log(y) = y.act /\ Log(y) # << >> /\ Log(y)[Len(Log(y))].mode = "sum" /\ Log(y)[Len(Log(y))].num = Num[p]
      OBVIOUS
    <3>2. y.act # << >> /\ Log(y) = y.act /\ F \in 1 .. F
      BY <1>9, <1>18, <2>1, <3>1 DEF Log
    <3> QED
      BY <1>7, <1>14, <2>1, <3>1, <3>2
  <2>8. F = 0 => Log(y) = x.prev /\ y.act = << >> /\ (x.prev # << >> => x.prev[Len(x.prev)].num = Num[p])
    <3>1. SUFFICES ASSUME F = 0 PROVE Log(y) = x.prev /\ y.act = << >> /\ (x.prev # << >> => x.prev[Len(x.prev)].num = Num[p])
      OBVIOUS
    <3>2. y.act = << >> /\ Log(y) = x.prev
      BY <1>18, <2>1, <3>1 DEF Log
    <3>3. rows[1].num = n
      BY <1>7, <1>20, <3>1
    <3> QED
      BY <1>14, <2>2, <3>2, <3>3
  <2>9. Log(y) # << >> => LastNum(y) = Num[p] /\ Log(y)[Len(Log(y))].mode = "sum"
    <3>1. Log(y) # << >> => LastNum(y) = Log(y)[Len(Log(y))].num
      BY <1>10, LogIs
    <3>2. F > 0 \/ F = 0
      BY <1>9
    <3> QED
      BY <1>19, <2>7, <2>8, <3>1, <3>2
  <2>10. y.prev # << >> /\ y.act # << >> => y.act[1].num = y.prev[Len(y.prev)].num + 1
    <3>1. y.act # << >> => y.act[1] = rows[1]
      <4>1. y.act # << >> => 1 \in 1 .. F
        BY <1>9, <1>18, <2>1
      <4> QED
        BY <2>1, <4>1
    <3> QED
      BY <1>19, <2>1, <3>1
  <2>11. Log(y) # << >> => LogOk(y, p)
    BY <1>14, <1>19, <2>1, <2>5, <2>6, <2>9, <2>10 DEF LogOk
  <2>12. At(y, p)
    BY <1>1, <1>10, <1>13, <1>14, <1>15, <2>9, <2>11 DEF At
  <2>13. Rem(y, b)
    <3>1. Holds(x.prev, b) /\ (x.prev = << >> => Holds(rows, b))
      BY <2>1 DEF Rem
    <3>2. x.prev = << >> => Holds(y.act, b)
      <4>1. Len(y.act) \in 0 .. Len(rows) /\ \A i \in 1 .. Len(y.act) : y.act[i] = rows[i]
        BY <1>7, <1>9, <2>1
      <4> QED
        BY <1>7, <3>1, <4>1, HoldsPrefix
    <3> QED
      BY <2>1, <3>1, <3>2 DEF Rem
  <2>14. u => Unrotated(y)
    <3>1. SUFFICES ASSUME Unrotated(x) PROVE Unrotated(y)
      OBVIOUS
    <3>2. x.prev = << >> /\ rows[1].num = 1
      BY <2>1, <3>1 DEF Unrotated
    <3>3. y.act # << >> => y.act[1].num = 1
      <4>1. y.act # << >> => 1 \in 1 .. F
        BY <1>9, <1>18, <2>1
      <4> QED
        BY <2>1, <3>2, <4>1
    <3>4. y.act = << >> => Len(y.state) =< GenesisCount
      <4>1. SUFFICES ASSUME y.act = << >> PROVE Len(y.state) =< GenesisCount
        OBVIOUS
      <4>2. F = 0
        BY <1>18, <2>1, <4>1
      <4>3. n = 1
        BY <1>7, <1>20, <3>2, <4>2
      <4>4. p = GenesisBlock(0)
        BY <1>14, <4>3, FirstIs
      <4>5. Len(Replay(p)) = GenesisCount /\ y.state = Replay(p)
        BY <1>1, <1>13, <4>4, ReplayFirst
      <4> QED
        BY <4>5, FirstIs
    <3> QED
      BY <2>1, <3>2, <3>3, <3>4 DEF Unrotated
  <2>15. Log(y) = << >> => x.prev = << >> /\ \A i \in 1 .. Len(rows) : rows[i].num = n
    <3>1. SUFFICES ASSUME Log(y) = << >> PROVE x.prev = << >> /\ F = 0
      BY <1>7
    <3>2. ~(F > 0)
      BY <2>7, <3>1
    <3>3. F = 0
      BY <1>9, <3>2
    <3> QED
      BY <2>8, <3>1, <3>3
  <2> QED
    BY <1>1, <1>2, <1>6, <1>10, <1>11, <1>13, <2>12, <2>13, <2>14, <2>15
<1>22. CASE f = "prev"
  <2>1. x.act = << >> /\ rows = x.prev /\ y.act = << >> /\ Len(y.prev) = F /\ \A i \in 1 .. F : y.prev[i] = rows[i]
    BY <1>2, <1>8, <1>10, <1>12, <1>22
  <2>2. Log(y) = y.prev
    BY <2>1 DEF Log
  <2>3. LogFits(y.prev, p) /\ LogFits(y.act, p)
    <3>1. Len(y.act) = 0
      BY <1>18, <2>1
    <3> QED
      BY <1>14, <1>17, <1>22, <3>1, EmptyFits
  <2>4. y.prev # << >> => y.prev[Len(y.prev)].mode = "sum" /\ y.prev[Len(y.prev)].num = Num[p]
    <3>1. y.prev # << >> => F > 0 /\ F \in 1 .. F
      BY <1>9, <1>18, <2>1
    <3> QED
      BY <1>7, <1>14, <2>1, <3>1
  <2>5. Log(y) # << >> => LastNum(y) = Num[p]
    BY <1>10, <2>2, <2>4, LogIs
  <2>6. At(y, p)
    BY <1>1, <1>10, <1>13, <1>14, <1>15, <2>1, <2>2, <2>3, <2>4, <2>5 DEF At, LogOk
  <2>7. Rem(y, b)
    <3>1. Holds(rows, b)
      BY <2>1 DEF Rem
    <3>2. Len(y.prev) \in 0 .. Len(rows) /\ \A i \in 1 .. Len(y.prev) : y.prev[i] = rows[i]
      BY <1>7, <1>9, <2>1
    <3>3. Holds(y.prev, b)
      BY <1>7, <3>1, <3>2, HoldsPrefix
    <3>4. Holds(y.act, b)
      <4>1. Len(y.act) = 0
        BY <1>18, <2>1
      <4> QED
        BY <4>1 DEF Holds
    <3> QED
      BY <3>3, <3>4 DEF Rem
  <2>8. ~u
    <3>1. x.prev # << >>
      BY <1>7, <1>18, <1>20, <2>1
    <3> QED
      BY <3>1 DEF Unrotated
  <2>9. Log(y) = << >> => \A i \in 1 .. Len(rows) : rows[i].num = n
    <3>1. Log(y) = << >> => F = 0
      BY <1>18, <2>1, <2>2
    <3> QED
      BY <1>7, <3>1
  <2> QED
    BY <1>1, <1>2, <1>6, <1>10, <1>11, <1>13, <2>1, <2>6, <2>7, <2>8, <2>9
<1> QED
  BY <1>21, <1>22
-----------------------------------------------------------------------------
(* All that passes during the writes is good.                              *)
AllGood(d, ws, b, u) == IsWrites(ws) /\ \A x \in Passes(d, ws) : Good(x, b, u)

LEMMA GoodJoined ==
  ASSUME NEW d, IsDisk(d), NEW b, NEW u, NEW v, AllGood(d, v, b, u), NEW w, AllGood(After(d, v), w, b, u)
  PROVE  /\ AllGood(d, v \o w, b, u)
         /\ After(d, v \o w) = After(After(d, v), w)
<1>1. IsWrites(v) /\ IsWrites(w)
  BY DEF AllGood
<1>2. /\ IsWrites(v \o w)
      /\ After(d, v \o w) = After(After(d, v), w)
      /\ Passes(d, v \o w) = Passes(d, v) \cup Passes(After(d, v), w)
  BY <1>1, Joined
<1> QED
  BY <1>2 DEF AllGood

LEMMA NoneGood ==
  ASSUME NEW d, NEW b, NEW u, Good(d, b, u)
  PROVE  AllGood(d, << >>, b, u) /\ After(d, << >>) = d
<1>1. IsDisk(d)
  BY DEF Good
<1> QED
  BY <1>1, NoWrites DEF AllGood

LEMMA OneGood ==
  ASSUME NEW d, NEW b, NEW u, Good(d, b, u), NEW w, IsWrite(w), Good(Write(d, w), b, u)
  PROVE  AllGood(d, << w >>, b, u) /\ After(d, << w >>) = Write(d, w)
<1>1. IsDisk(d)
  BY DEF Good
<1>2. /\ IsWrites(<< w >>) /\ After(d, << w >>) = Write(d, w)
      /\ Passes(d, << w >>) = {d, Write(d, w)}
  BY <1>1, OneWrite
<1> QED
  BY <1>2 DEF AllGood

ConcatOf(x, s, t, T) ==
  /\ x \in Seq(T) /\ Len(x) = Len(s) + Len(t)
  /\ \A i \in 1 .. Len(s) : x[i] = s[i]
  /\ \A i \in 1 .. Len(t) : x[Len(s) + i] = t[i]

LEMMA ConcatIs ==
  ASSUME NEW T, NEW s \in Seq(T), NEW t \in Seq(T)
  PROVE  ConcatOf(s \o t, s, t, T)
<1>1. Len(s) \in Nat /\ Len(t) \in Nat
  OBVIOUS
<1>2. /\ s \o t \in Seq(T) /\ Len(s \o t) = Len(s) + Len(t)
      /\ \A i \in 1 .. Len(s) : (s \o t)[i] = s[i]
      /\ \A i \in 1 .. Len(t) : (s \o t)[Len(s) + i] = t[i]
  BY <1>1
<1> QED
  BY <1>2 DEF ConcatOf

LEMMA Regroup ==
  ASSUME NEW u, IsWrites(u), NEW v, IsWrites(v), NEW w, IsWrites(w)
  PROVE  (u \o v) \o w = u \o (v \o w)
<1>1. PICK U : u \in Seq(U)
  BY DEF IsWrites
<1>2. PICK V : v \in Seq(V)
  BY DEF IsWrites
<1>3. PICK W : w \in Seq(W)
  BY DEF IsWrites
<1>4. PICK T : T = (U \cup V) \cup W
  OBVIOUS
<1>5. u \in Seq(T) /\ v \in Seq(T) /\ w \in Seq(T) /\ Len(u) \in Nat /\ Len(v) \in Nat /\ Len(w) \in Nat
  BY <1>1, <1>2, <1>3, <1>4
<1>6. PICK p : p = u \o v
  OBVIOUS
<1>7. PICK q : q = v \o w
  OBVIOUS
<1>8. /\ p \in Seq(T) /\ Len(p) = Len(u) + Len(v)
      /\ \A i \in 1 .. Len(u) : p[i] = u[i]
      /\ \A i \in 1 .. Len(v) : p[Len(u) + i] = v[i]
  BY <1>5, <1>6
<1>9. /\ q \in Seq(T) /\ Len(q) = Len(v) + Len(w)
      /\ \A i \in 1 .. Len(v) : q[i] = v[i]
      /\ \A i \in 1 .. Len(w) : q[Len(v) + i] = w[i]
  BY <1>5, <1>7
<1>10. PICK x : x = p \o w
  OBVIOUS
<1>11. PICK y : y = u \o q
  OBVIOUS
<1>12. /\ x \in Seq(T) /\ Len(x) = Len(p) + Len(w)
       /\ \A i \in 1 .. Len(p) : x[i] = p[i]
       /\ \A i \in 1 .. Len(w) : x[Len(p) + i] = w[i]
  <2>1. ConcatOf(p \o w, p, w, T)
    <3>1. p \in Seq(T) /\ w \in Seq(T)
      BY <1>5, <1>8
    <3> QED
      BY <3>1, ConcatIs
  <2>2. ConcatOf(x, p, w, T)
    BY <2>1, <1>10
  <2> QED
    BY <2>2 DEF ConcatOf
<1>13. /\ y \in Seq(T) /\ Len(y) = Len(u) + Len(q)
       /\ \A i \in 1 .. Len(u) : y[i] = u[i]
       /\ \A i \in 1 .. Len(q) : y[Len(u) + i] = q[i]
  <2>1. ConcatOf(u \o q, u, q, T)
    <3>1. u \in Seq(T) /\ q \in Seq(T)
      BY <1>5, <1>9
    <3> QED
      BY <3>1, ConcatIs
  <2>2. ConcatOf(y, u, q, T)
    BY <2>1, <1>11
  <2> QED
    BY <2>2 DEF ConcatOf
<1>14. ASSUME NEW i \in 1 .. Len(x) PROVE x[i] = y[i]
  <2>1. CASE i =< Len(u)
    <3>1. i \in 1 .. Len(u) /\ i \in 1 .. Len(p)
      BY <1>5, <1>8, <2>1
    <3> QED
      BY <1>8, <1>12, <1>13, <3>1
  <2>2. CASE i > Len(u) /\ i =< Len(p)
    <3>1. PICK j \in 1 .. Len(v) : i = Len(u) + j
      <4>1. i - Len(u) \in 1 .. Len(v) /\ i = Len(u) + (i - Len(u))
        BY <1>5, <1>8, <2>2
      <4> QED
        BY <4>1
    <3>2. i \in 1 .. Len(p) /\ j \in 1 .. Len(q)
      BY <1>5, <1>8, <1>9, <2>2, <3>1
    <3>3. x[i] = v[j]
      BY <1>8, <1>12, <3>1, <3>2
    <3>4. y[i] = v[j]
      BY <1>9, <1>13, <3>1, <3>2
    <3> QED
      BY <3>3, <3>4
  <2>3. CASE i > Len(p)
    <3>1. PICK j \in 1 .. Len(w) : i = Len(p) + j
      <4>1. i - Len(p) \in 1 .. Len(w) /\ i = Len(p) + (i - Len(p))
        BY <1>5, <1>8, <1>12, <2>3
      <4> QED
        BY <4>1
    <3>2. PICK k \in 1 .. Len(q) : k = Len(v) + j
      BY <1>5, <1>9
    <3>3. x[i] = w[j]
      BY <1>12, <3>1
    <3>4. i = Len(u) + k
      BY <1>5, <1>8, <3>1, <3>2
    <3>5. y[i] = w[j]
      BY <1>9, <1>13, <3>2, <3>4
    <3> QED
      BY <3>3, <3>5
  <2>4. i =< Len(u) \/ (i > Len(u) /\ i =< Len(p)) \/ i > Len(p)
    BY <1>5, <1>8
  <2> QED
    BY <2>1, <2>2, <2>3, <2>4
<1>15. Len(x) = Len(y)
  BY <1>5, <1>8, <1>9, <1>12, <1>13
<1>16. x = y
  BY <1>12, <1>13, <1>14, <1>15, SameSeq
<1> QED
  BY <1>6, <1>7, <1>10, <1>11, <1>16

LEMMA UndoableGood ==
  ASSUME NEW d, NEW x, IsDisk(x), NEW e, Undoable(x, e), x.act = d.act, x.prev = d.prev,
         NEW b, Rem(d, b), NEW u, u => Unrotated(d)
  PROVE  Good(x, b, u)
<1>1. Rem(x, b)
  BY DEF Rem
<1>2. e \in Block /\ Log(x) # << >>
  BY DEF Undoable, LogOk
<1>3. u => Unrotated(x)
  BY <1>2 DEF Unrotated, Log
<1> QED
  BY <1>1, <1>2, <1>3 DEF Good, Dirty

(* What taking the block e back leaves.                                    *)
Undone(d, y, e, b, u) ==
  /\ At(y, Prev[e]) /\ Rem(y, b) /\ (u => Unrotated(y))
  /\ Log(y) = << >> => /\ d.act = << >> \/ d.prev = << >>
                       /\ \A i \in 1 .. Len(Log(d)) : Log(d)[i].num = Num[e]

LEMMA UndoGroup ==
  ASSUME NEW d, IsDisk(d), NEW e, Undoable(d, e), NEW b, Rem(d, b), NEW u, u => Unrotated(d),
         NEW f \in {"act", "prev"}, Log(d) = d[f], f = "act" <=> d.act # << >>,
         NEW ws, ws = UndoLog(d, f, Num[e])
  PROVE  /\ AllGood(d, ws, b, u)
         /\ Undone(d, After(d, ws), e, b, u) /\ After(d, ws).smart = d.smart
<1>1. f \in Files
  BY FilesIn
<1>2. PICK rows : rows = Log(d) /\ rows = d[f]
  OBVIOUS
<1>3. LogOk(d, e) /\ AccountsOf(Prev[e]) =< Len(d.state)
  BY DEF Undoable
<1>4. LastGroup(rows, e)
  BY <1>2, <1>3, LogOkIs, LogIs DEF LastGroup
<1>5. PICK A : A = Backs(rows, e)
  OBVIOUS
<1>6. PICK B : B = Trims(rows, e)
  OBVIOUS
<1>7. PICK w : w = Cut(f, Below(rows, Num[e]) - 1)
  OBVIOUS
<1>8. ws = (A \o B) \o << w >>
  <2>1. /\ IsDisk(d) /\ f \in Files /\ rows = d[f] /\ LastGroup(rows, e)
        /\ AccountsOf(Prev[e]) =< Len(d.state)
    BY <1>1, <1>2, <1>3, <1>4
  <2>2. UndoLog(d, f, Num[e]) = (Backs(rows, e) \o Trims(rows, e)) \o << Cut(f, Below(rows, Num[e]) - 1) >>
    BY <2>1, UndoShape
  <2> QED
    BY <1>5, <1>6, <1>7, <2>2
<1>9. PICK x : x = After(d, A)
  OBVIOUS
<1>10. /\ IsWrites(A)
       /\ \A z \in Passes(d, A) :
            /\ IsDisk(z) /\ Undoable(z, e)
            /\ z.act = d.act /\ z.prev = d.prev /\ z.hash = d.hash /\ z.smart = d.smart
       /\ \A a \in 0 .. AccountsOf(Prev[e]) - 1 : x.state[a + 1] = Replay(Prev[e])[a + 1]
  BY <1>2, <1>5, <1>9, UndoBack
<1>11. x \in Passes(d, A)
  BY <1>9, <1>10, PassesAre
<1>12. IsDisk(x) /\ Undoable(x, e) /\ x.act = d.act /\ x.prev = d.prev /\ x.smart = d.smart
  BY <1>10, <1>11
<1>13. Log(x) = rows
  BY <1>2, <1>12 DEF Log
<1>14. PICK y : y = After(x, B)
  OBVIOUS
<1>15. /\ IsWrites(B)
       /\ \A z \in Passes(x, B) :
            /\ IsDisk(z) /\ Undoable(z, e)
            /\ z.act = x.act /\ z.prev = x.prev /\ z.hash = x.hash /\ z.smart = x.smart
       /\ y.state = Replay(Prev[e])
  BY <1>6, <1>10, <1>12, <1>13, <1>14, UndoTrim
<1>16. y \in Passes(x, B)
  BY <1>12, <1>14, <1>15, PassesAre
<1>17. IsDisk(y) /\ Undoable(y, e) /\ y.act = d.act /\ y.prev = d.prev /\ y.smart = d.smart
  BY <1>12, <1>15, <1>16
<1>18. Log(y) = rows
  BY <1>2, <1>17 DEF Log
<1>19. Rem(y, b) /\ (u => Unrotated(y))
  <2>1. Log(d) # << >>
    BY <1>3 DEF LogOk
  <2> QED
    BY <1>17, <2>1 DEF Rem, Unrotated, Log
<1>20. AllGood(d, A, b, u)
  <2>1. ASSUME NEW z \in Passes(d, A) PROVE Good(z, b, u)
    BY <1>10, UndoableGood
  <2> QED
    BY <1>10, <2>1 DEF AllGood
<1>21. AllGood(x, B, b, u)
  <2>1. ASSUME NEW z \in Passes(x, B) PROVE Good(z, b, u)
    <3>1. IsDisk(z) /\ Undoable(z, e) /\ z.act = d.act /\ z.prev = d.prev
      BY <1>12, <1>15
    <3> QED
      BY <3>1, UndoableGood
  <2> QED
    BY <1>15, <2>1 DEF AllGood
<1>22. PICK v : v = Write(y, w)
  OBVIOUS
<1>23. /\ IsWrite(w) /\ IsDisk(v) /\ At(v, Prev[e]) /\ Rem(v, b) /\ (u => Unrotated(v))
       /\ v.smart = y.smart
       /\ Log(v) = << >> => /\ y.act = << >> \/ y.prev = << >>
                            /\ \A i \in 1 .. Len(Log(y)) : Log(y)[i].num = Num[e]
  <2>1. Log(y) = y[f] /\ (f = "act" <=> y.act # << >>)
    BY <1>17, <1>18 DEF Log
  <2>2. v = Write(y, Cut(f, Below(Log(y), Num[e]) - 1)) /\ w = Cut(f, Below(Log(y), Num[e]) - 1)
    BY <1>7, <1>18, <1>22
  <2> QED
    BY <1>15, <1>17, <1>19, <2>1, <2>2, UndoCut
<1>24. AllGood(y, << w >>, b, u) /\ After(y, << w >>) = v
  <2>1. Good(y, b, u)
    BY <1>15, <1>16, <1>21 DEF AllGood
  <2>2. Good(v, b, u)
    BY <1>23, AtGood
  <2> QED
    BY <1>22, <1>23, <2>1, <2>2, OneGood
<1>25. AllGood(d, A \o B, b, u) /\ After(d, A \o B) = y
  BY <1>9, <1>14, <1>20, <1>21, GoodJoined
<1>26. AllGood(d, ws, b, u) /\ After(d, ws) = v
  BY <1>8, <1>24, <1>25, GoodJoined
<1>27. Undone(d, v, e, b, u)
  BY <1>2, <1>17, <1>18, <1>23 DEF Undone
<1> QED
  BY <1>17, <1>23, <1>26, <1>27
-----------------------------------------------------------------------------
(***************************************************************************)
(* BlockDeleteTX, of the last block of the log, and of a block that has    *)
(* left nothing in it.                                                     *)
(***************************************************************************)
LEMMA ConcatNone ==
  ASSUME NEW w, IsWrites(w)
  PROVE  w \o << >> = w /\ << >> \o w = w
<1>1. PICK W : w \in Seq(W)
  BY DEF IsWrites
<1> QED
  BY <1>1

LEMMA HashCutWrites ==
  ASSUME NEW n \in Nat
  PROVE  IsWrites(<< Cut("hash", n \div Period) >>)
<1>1. PICK q \in Nat : q = n \div Period
  BY DivideIs, TxAssumption
<1>2. IsWrite(Cut("hash", q))
  <2>1. "hash" \in Files /\ q \in Int /\ q >= -1
    BY FilesIn
  <2> QED
    BY <2>1, CutIsWrite
<1>3. PICK w : w = Cut("hash", q)
  OBVIOUS
<1>4. << w >> \in Seq({w}) /\ Len(<< w >>) = 1 /\ << w >>[1] = w
  OBVIOUS
<1>5. \A i \in 1 .. Len(<< w >>) : IsWrite(<< w >>[i])
  <2>1. \A i \in 1 .. Len(<< w >>) : i = 1
    BY <1>4
  <2> QED
    BY <1>2, <1>3, <1>4, <2>1
<1>6. IsWrites(<< w >>)
  <2>1. \E W : << w >> \in Seq(W)
    BY <1>4
  <2> QED
    BY <1>5, <2>1 DEF IsWrites
<1> QED
  BY <1>1, <1>3, <1>6

LEMMA HistoryWrites ==
  ASSUME NEW d, IsDisk(d), NEW p \in Block, SmartFits(d, p), NEW n, n = Num[p] + 1
  PROVE  IsWrites(DeleteHistory(d, n))
<1>1. CASE DeleteHistory(d, n) = << >>
  BY <1>1, NoWrites
<1>2. CASE DeleteHistory(d, n) = << Cut("smart", Len(Smarts(p)) - 1) >>
  <2>1. PICK k \in Int : k = Len(Smarts(p)) - 1 /\ k >= -1
    <3>1. Len(Smarts(p)) \in Nat
      BY SmartsIs
    <3>2. Len(Smarts(p)) - 1 \in Int /\ Len(Smarts(p)) - 1 >= -1
      BY <3>1
    <3> QED
      BY <3>2
  <2>2. IsWrite(Cut("smart", k))
    BY <2>1, FilesIn, CutIsWrite
  <2>3. IsWrites(<< Cut("smart", k) >>)
    BY <2>2, OneWrite
  <2> QED
    BY <1>2, <2>1, <2>3
<1> QED
  BY <1>1, <1>2, SmartCut

(* The two logs hold different blocks.                                     *)
LEMMA PrevBelow ==
  ASSUME NEW d, IsDisk(d), NEW e, LogOk(d, e), d.act # << >>
  PROVE  \A i \in 1 .. Len(d.prev) : d.prev[i].num < Num[e]
<1>1. /\ e \in Block /\ LogFits(d.prev, e) /\ LogFits(d.act, e)
      /\ d.prev # << >> => d.act[1].num = d.prev[Len(d.prev)].num + 1
  BY DEF LogOk
<1>2. Len(d.act) \in Nat /\ Len(d.prev) \in Nat /\ Len(d.act) > 0 /\ (d.prev = << >> <=> Len(d.prev) = 0)
  BY FilesAre
<1>3. Num[e] \in Nat
  BY <1>1, ChainIs
<1>4. ASSUME NEW i \in 1 .. Len(d.prev) PROVE d.prev[i].num < Num[e]
  <2>1. Len(d.prev) \in 1 .. Len(d.prev) /\ d.prev # << >> /\ 1 \in 1 .. Len(d.act)
    BY <1>2
  <2>2. d.act[1].num \in 1 .. Num[e] /\ d.prev[i].num \in 1 .. Num[e] /\ d.prev[Len(d.prev)].num \in 1 .. Num[e]
    BY <1>1, <2>1 DEF LogFits, RowFits
  <2>3. d.prev[i].num =< d.prev[Len(d.prev)].num
    <3>1. CASE i = Len(d.prev)
      BY <2>2, <3>1
    <3>2. CASE i # Len(d.prev)
      <4>1. i < Len(d.prev)
        BY <1>2, <3>2
      <4>2. Ordered(d.prev)
        BY <1>1 DEF LogFits
      <4> QED
        BY <2>1, <4>1, <4>2 DEF Ordered
    <3> QED
      BY <3>1, <3>2
  <2> QED
    BY <1>1, <1>3, <2>1, <2>2, <2>3
<1> QED
  BY <1>4

LEMMA UndoLast ==
  ASSUME NEW d, IsDisk(d), NEW e, Undoable(d, e), NEW b, Rem(d, b), NEW u, u => Unrotated(d),
         NEW ws, ws = UndoLog(d, "act", Num[e]) \o UndoLog(d, "prev", Num[e])
  PROVE  /\ AllGood(d, ws, b, u)
         /\ Undone(d, After(d, ws), e, b, u) /\ After(d, ws).smart = d.smart
<1>1. LogOk(d, e)
  BY DEF Undoable
<1>2. e \in Block /\ LogFits(d.prev, e) /\ LogFits(d.act, e) /\ Log(d) # << >>
  BY <1>1 DEF LogOk
<1>3. Num[e] \in Nat
  BY <1>2, ChainIs
<1>4. CASE d.act # << >>
  <2>1. UndoLog(d, "prev", Num[e]) = << >>
    <3>1. "prev" \in Files /\ Num[e] \in Int /\ LogFits(d["prev"], e)
      BY <1>2, <1>3, FilesIn
    <3>2. \A i \in 1 .. Len(d["prev"]) : d["prev"][i].num < Num[e]
      BY <1>1, <1>4, PrevBelow
    <3> QED
      BY <1>2, <3>1, <3>2, UndoNone
  <2>2. PICK A : A = UndoLog(d, "act", Num[e])
    OBVIOUS
  <2>3. PICK f : f = "act"
    OBVIOUS
  <2>4. f \in {"act", "prev"} /\ Log(d) = d[f] /\ (f = "act" <=> d.act # << >>) /\ A = UndoLog(d, f, Num[e])
    BY <1>4, <2>2, <2>3 DEF Log
  <2>5. /\ AllGood(d, A, b, u)
        /\ Undone(d, After(d, A), e, b, u) /\ After(d, A).smart = d.smart
    BY <2>4, UndoGroup
  <2>6. A \o << >> = A
    BY <2>5, ConcatNone DEF AllGood
  <2> QED
    BY <2>1, <2>2, <2>5, <2>6
<1>5. CASE d.act = << >>
  <2>1. UndoLog(d, "act", Num[e]) = << >>
    <3>1. "act" \in Files /\ Num[e] \in Int /\ LogFits(d["act"], e)
      BY <1>2, <1>3, FilesIn
    <3>2. \A i \in 1 .. Len(d["act"]) : d["act"][i].num < Num[e]
      <4>1. Len(d.act) = 0
        BY <1>5, FilesAre
      <4> QED
        BY <4>1
    <3> QED
      BY <1>2, <3>1, <3>2, UndoNone
  <2>2. PICK A : A = UndoLog(d, "prev", Num[e])
    OBVIOUS
  <2>3. PICK f : f = "prev"
    OBVIOUS
  <2>4. f \in {"act", "prev"} /\ Log(d) = d[f] /\ (f = "act" <=> d.act # << >>) /\ A = UndoLog(d, f, Num[e])
    BY <1>5, <2>2, <2>3 DEF Log
  <2>5. /\ AllGood(d, A, b, u)
        /\ Undone(d, After(d, A), e, b, u) /\ After(d, A).smart = d.smart
    BY <2>4, UndoGroup
  <2>6. << >> \o A = A
    BY <2>5, ConcatNone DEF AllGood
  <2> QED
    BY <2>1, <2>2, <2>5, <2>6
<1> QED
  BY <1>4, <1>5

(* The end of it, for what is there when the log is done.                  *)
LEMMA GoodTail ==
  ASSUME NEW d, IsDisk(d), NEW p, NEW x, At(x, p), x.smart = d.smart, NEW b, Rem(x, b),
         NEW u, u => Unrotated(x), NEW n, n = Num[p] + 1,
         NEW ws, ws = EndOf(d, n)
  PROVE  /\ AllGood(x, ws, b, u)
         /\ At(After(x, ws), p) /\ After(x, ws).smart = Smarts(p)
         /\ After(x, ws).act = x.act /\ After(x, ws).prev = x.prev /\ After(x, ws).state = x.state
         /\ Rem(After(x, ws), b) /\ (u => Unrotated(After(x, ws)))
<1>1. /\ IsWrites(ws)
      /\ \A y \in Passes(x, ws) : At(y, p) /\ y.act = x.act /\ y.prev = x.prev /\ y.state = x.state
      /\ After(x, ws).smart = Smarts(p)
  BY DeleteTail
<1>2. ASSUME NEW y \in Passes(x, ws)
      PROVE  Rem(y, b) /\ (u => Unrotated(y)) /\ Good(y, b, u)
  <2>1. At(y, p) /\ y.act = x.act /\ y.prev = x.prev /\ y.state = x.state
    BY <1>1
  <2>2. Rem(y, b) /\ (u => Unrotated(y))
    BY <2>1 DEF Rem, Unrotated
  <2> QED
    BY <2>1, <2>2, AtGood
<1>3. AllGood(x, ws, b, u)
  BY <1>1, <1>2 DEF AllGood
<1>4. After(x, ws) \in Passes(x, ws)
  <2>1. IsDisk(x)
    BY DEF At
  <2> QED
    BY <1>1, <2>1, PassesAre
<1> QED
  BY <1>1, <1>2, <1>3, <1>4

LEMMA DeleteShape ==
  ASSUME NEW d, IsDisk(d), NEW p \in Block, SmartFits(d, p), NEW n \in Nat, n = Num[p] + 1,
         NEW v, v = UndoLog(d, "act", n) \o UndoLog(d, "prev", n), IsWrites(v)
  PROVE  DeleteBlock(d, n) = v \o EndOf(d, n)
<1>1. PICK c : c = << Cut("hash", n \div Period) >>
  OBVIOUS
<1>2. PICK h : h = DeleteHistory(d, n)
  OBVIOUS
<1>3. IsWrites(c) /\ IsWrites(h)
  BY <1>1, <1>2, HashCutWrites, HistoryWrites
<1>4. (v \o c) \o h = v \o (c \o h)
  BY <1>3, Regroup
<1> QED
  BY <1>1, <1>2, <1>4 DEF DeleteBlock, EndOf

(* The last block of the log is taken back.                                *)
LEMMA DeleteLast ==
  ASSUME NEW d, IsDisk(d), NEW e, Undoable(d, e), NEW b, Rem(d, b), NEW u, u => Unrotated(d),
         NEW ws, ws = DeleteBlock(d, Num[e])
  PROVE  /\ AllGood(d, ws, b, u)
         /\ Undone(d, After(d, ws), e, b, u) /\ After(d, ws).smart = Smarts(Prev[e])
<1>1. PICK p : p = Prev[e]
  OBVIOUS
<1>2. /\ e \in Block /\ Num[e] \in Nat /\ p \in Block /\ Num[e] = Num[p] + 1
  <2>1. e \in Block /\ Num[e] > 0
    BY LogOkIs DEF Undoable
  <2> QED
    BY <1>1, <2>1, ChainIs, ChildIs
<1>3. SmartFits(d, p)
  BY <1>1 DEF Undoable
<1>4. PICK v : v = UndoLog(d, "act", Num[e]) \o UndoLog(d, "prev", Num[e])
  OBVIOUS
<1>5. PICK x : x = After(d, v)
  OBVIOUS
<1>6. AllGood(d, v, b, u) /\ Undone(d, x, e, b, u) /\ x.smart = d.smart
  BY <1>4, <1>5, UndoLast
<1>7. At(x, p) /\ Rem(x, b) /\ (u => Unrotated(x))
  BY <1>1, <1>6 DEF Undone
<1>8. PICK n \in Nat : n = Num[e]
  BY <1>2
<1>9. PICK w : w = EndOf(d, n)
  OBVIOUS
<1>10. ws = v \o w
  <2>1. IsWrites(v) /\ n = Num[p] + 1 /\ v = UndoLog(d, "act", n) \o UndoLog(d, "prev", n)
    BY <1>2, <1>4, <1>6, <1>8 DEF AllGood
  <2>2. DeleteBlock(d, n) = v \o w
    BY <1>2, <1>3, <1>9, <2>1, DeleteShape
  <2> QED
    BY <1>8, <2>2
<1>11. PICK y : y = After(x, w)
  OBVIOUS
<1>12. /\ AllGood(x, w, b, u)
       /\ At(y, p) /\ y.smart = Smarts(p)
       /\ y.act = x.act /\ y.prev = x.prev
       /\ Rem(y, b) /\ (u => Unrotated(y))
  <2>1. n = Num[p] + 1
    BY <1>2, <1>8
  <2> QED
    BY <1>6, <1>7, <1>9, <1>11, <2>1, GoodTail
<1>13. AllGood(d, ws, b, u) /\ After(d, ws) = y
  BY <1>5, <1>6, <1>10, <1>11, <1>12, GoodJoined
<1>14. Undone(d, y, e, b, u)
  <2>1. Log(y) = Log(x)
    BY <1>12 DEF Log
  <2> QED
    BY <1>1, <1>6, <1>12, <2>1 DEF Undone
<1> QED
  BY <1>1, <1>12, <1>13, <1>14

(* A block after the last one has nothing that could be taken back.        *)
LEMMA DeleteNone ==
  ASSUME NEW d, NEW e, At(d, e), NEW b, Rem(d, b), NEW u, u => Unrotated(d),
         NEW ws, ws = DeleteBlock(d, Num[e] + 1)
  PROVE  /\ AllGood(d, ws, b, u)
         /\ At(After(d, ws), e) /\ After(d, ws).smart = Smarts(e)
         /\ After(d, ws).act = d.act /\ After(d, ws).prev = d.prev /\ After(d, ws).state = d.state
         /\ Rem(After(d, ws), b) /\ (u => Unrotated(After(d, ws)))
<1>1. /\ e \in Block /\ IsDisk(d) /\ SmartFits(d, e)
      /\ Log(d) # << >> => LogOk(d, e)
  BY DEF At
<1>2. Num[e] \in Nat
  BY <1>1, ChainIs
<1>3. PICK n \in Nat : n = Num[e] + 1
  BY <1>2
<1>4. ASSUME NEW f \in {"act", "prev"} PROVE UndoLog(d, f, n) = << >>
  <2>1. f \in Files /\ n \in Int
    BY <1>3, FilesIn
  <2>2. LogFits(d[f], e)
    <3>1. CASE Log(d) = << >>
      <4>1. Len(d[f]) = 0
        BY <1>1, <3>1, LogIs, FilesAre
      <4> QED
        BY <1>1, <4>1, EmptyFits
    <3>2. CASE Log(d) # << >>
      BY <1>1, <3>2 DEF LogOk
    <3> QED
      BY <3>1, <3>2
  <2>3. \A i \in 1 .. Len(d[f]) : d[f][i].num < n
    <3>1. \A i \in 1 .. Len(d[f]) : d[f][i].num \in 1 .. Num[e]
      BY <2>2 DEF LogFits, RowFits
    <3> QED
      BY <1>2, <1>3, <3>1
  <2> QED
    BY <1>1, <2>1, <2>2, <2>3, UndoNone
<1>5. PICK v : v = UndoLog(d, "act", n) \o UndoLog(d, "prev", n)
  OBVIOUS
<1>6. v = << >> /\ IsWrites(v)
  <2>1. << >> \o << >> = << >>
    OBVIOUS
  <2> QED
    BY <1>1, <1>4, <1>5, <2>1, NoWrites
<1>7. PICK w : w = EndOf(d, n)
  OBVIOUS
<1>8. ws = v \o w
  <2>1. DeleteBlock(d, n) = v \o w
    BY <1>1, <1>3, <1>5, <1>6, <1>7, DeleteShape
  <2> QED
    BY <1>3, <2>1
<1>9. /\ AllGood(d, w, b, u)
      /\ At(After(d, w), e) /\ After(d, w).smart = Smarts(e)
      /\ After(d, w).act = d.act /\ After(d, w).prev = d.prev /\ After(d, w).state = d.state
      /\ Rem(After(d, w), b) /\ (u => Unrotated(After(d, w)))
  <2>1. d.smart = d.smart
    OBVIOUS
  <2> QED
    BY <1>1, <1>3, <1>7, <2>1, GoodTail
<1>10. ws = w
  BY <1>6, <1>8, <1>9, ConcatNone DEF AllGood
<1> QED
  BY <1>9, <1>10
-----------------------------------------------------------------------------
(***************************************************************************)
(* BlockProcessTX.  The rows CommitBlock appends to the log for block b,   *)
(* whose predecessor is e: m old values, then the new accounts, and the    *)
(* row of hashes as row k + 1.                                             *)
(***************************************************************************)
Group(g, b, e, m, k) ==
  /\ k \in Nat /\ m \in 0 .. k /\ k = m + NewCount[b]
  /\ \A i \in 1 .. k + 1 : g[i].num = Num[b]
  /\ \A i \in 1 .. m :
       /\ g[i].mode = "old" /\ g[i].id \in Nat /\ g[i].id \in Changes[b] /\ g[i].id < AccountsOf(e)
       /\ g[i].val = Replay(e)[g[i].id + 1]
  /\ \A i \in m + 1 .. k : g[i].mode = "new" /\ g[i].id = AccountsOf(e) + (i - 1 - m)
  /\ \A i, j \in 1 .. m : i # j => g[i].id # g[j].id
  /\ \A a \in Changes[b] : a < AccountsOf(e) => \E i \in 1 .. m : g[i].id = a
  /\ g[k + 1].mode = "sum" /\ g[k + 1].val = [blk |-> b, acc |-> Replay(b)]

SumOf(b) == [id |-> 0, num |-> Num[b], mode |-> "sum", val |-> [blk |-> b, acc |-> Replay(b)]]

(* The rows and the row of hashes.                                         *)
WithSum(g, rows, b) == g = [i \in 1 .. Len(rows) + 1 |-> IF i =< Len(rows) THEN rows[i] ELSE SumOf(b)]

LEMMA RowsAre ==
  ASSUME NEW b \in Block, Num[b] > 0, NEW e, e = Prev[b], NEW d, d.state = Replay(e),
         NEW rows, rows = LogRows(d, b), NEW g, WithSum(g, rows, b)
  PROVE  /\ \E R : rows \in Seq(R)
         /\ \E m \in 0 .. Len(rows) : Group(g, b, e, m, Len(rows))
<1>1. PICK len \in Nat : len = AccountsOf(e) /\ len = Len(d.state) /\ e \in Block
  <2>1. e \in Block
    BY ChildIs
  <2> QED
    BY <2>1, ReplayIs
<1>2. PICK S : S = {a \in Changes[b] : a < len}
  OBVIOUS
<1>3. S \subseteq 0 .. len /\ Changes[b] \subseteq Nat /\ NewCount[b] \in Nat
  <2>1. Changes[b] \subseteq Nat /\ NewCount[b] \in Nat
    BY TxAssumption
  <2> QED
    BY <1>2, <2>1
<1>4. PICK old : old = Sorted(S)
  OBVIOUS
<1>5. PICK m \in Nat : /\ old \in [1 .. m -> S] /\ Increasing(old, m) /\ Len(old) = m
                       /\ \A x \in S : \E i \in 1 .. m : old[i] = x
  <2>1. /\ Cardinality(S) \in Nat /\ old \in [1 .. Cardinality(S) -> S] /\ Increasing(old, Cardinality(S))
        /\ Len(old) = Cardinality(S) /\ \A x \in S : \E i \in 1 .. Cardinality(S) : old[i] = x
    BY <1>3, <1>4, SortedIs
  <2> QED
    BY <2>1
<1>6. DOMAIN old = 1 .. m
  BY <1>5
<1>7. PICK c \in Nat : c = NewCount[b]
  BY <1>3
<1>8. PICK A : A = [i \in 1 .. m |-> [id |-> old[i], num |-> Num[b], mode |-> "old", val |-> d.state[old[i] + 1]]]
  OBVIOUS
<1>9. PICK B : B = [i \in 1 .. c |-> [id |-> len + i - 1, num |-> Num[b], mode |-> "new", val |-> Zero]]
  OBVIOUS
<1>10. rows = A \o B
  BY <1>1, <1>2, <1>4, <1>6, <1>7, <1>8, <1>9 DEF LogRows
<1>11. PICK V : V = {A[i] : i \in 1 .. m} \cup {B[i] : i \in 1 .. c}
  OBVIOUS
<1>12. A \in Seq(V) /\ B \in Seq(V) /\ Len(A) = m /\ Len(B) = c
  <2>1. A = [i \in 1 .. m |-> A[i]] /\ B = [i \in 1 .. c |-> B[i]]
    BY <1>8, <1>9
  <2>2. A \in [1 .. m -> V] /\ B \in [1 .. c -> V]
    BY <1>11, <2>1
  <2> QED
    BY <2>2
<1>13. PICK k \in Nat : k = m + c
  OBVIOUS
<1>14. /\ rows \in Seq(V) /\ Len(rows) = k
       /\ \A i \in 1 .. m : rows[i] = A[i]
       /\ \A i \in 1 .. c : rows[m + i] = B[i]
  <2>1. ConcatOf(A \o B, A, B, V)
    BY <1>12, ConcatIs
  <2> QED
    BY <1>10, <1>12, <1>13, <2>1 DEF ConcatOf
<1>15. /\ \A i \in 1 .. k : g[i] = rows[i]
       /\ g[k + 1] = SumOf(b)
  <2>1. \A i \in 1 .. k : i \in 1 .. k + 1 /\ i =< k
    OBVIOUS
  <2>2. k + 1 \in 1 .. k + 1 /\ ~(k + 1 =< k)
    OBVIOUS
  <2>3. g = [i \in 1 .. k + 1 |-> IF i =< k THEN rows[i] ELSE SumOf(b)]
    BY <1>14 DEF WithSum
  <2> QED
    BY <2>1, <2>2, <2>3
<1>16. ASSUME NEW i \in 1 .. m
       PROVE  /\ g[i].num = Num[b] /\ g[i].mode = "old" /\ g[i].id = old[i] /\ g[i].val = Replay(e)[old[i] + 1]
              /\ old[i] \in S
  <2>1. i \in 1 .. k
    BY <1>13
  <2>2. g[i] = A[i]
    BY <1>14, <1>15, <2>1
  <2> QED
    BY <1>5, <1>8, <2>2
<1>17. ASSUME NEW i \in m + 1 .. k
       PROVE  g[i].num = Num[b] /\ g[i].mode = "new" /\ g[i].id = len + (i - 1 - m)
  <2>1. PICK j \in 1 .. c : i = m + j
    <3>1. i - m \in 1 .. c /\ i = m + (i - m)
      BY <1>13
    <3> QED
      BY <3>1
  <2>2. i \in 1 .. k
    BY <1>13
  <2>3. g[i] = B[j]
    BY <1>14, <1>15, <2>1, <2>2
  <2>4. g[i].num = Num[b] /\ g[i].mode = "new" /\ g[i].id = len + j - 1
    BY <1>9, <2>3
  <2> QED
    BY <2>1, <2>4
<1>18. /\ k \in Nat /\ m \in 0 .. k /\ k = m + NewCount[b]
       /\ \A i \in 1 .. m :
            /\ g[i].mode = "old" /\ g[i].id \in Nat /\ g[i].id \in Changes[b] /\ g[i].id < AccountsOf(e)
            /\ g[i].val = Replay(e)[g[i].id + 1]
       /\ \A i \in m + 1 .. k : g[i].mode = "new" /\ g[i].id = AccountsOf(e) + (i - 1 - m)
  <2>1. ASSUME NEW i \in 1 .. m
        PROVE  /\ g[i].mode = "old" /\ g[i].id \in Nat /\ g[i].id \in Changes[b] /\ g[i].id < AccountsOf(e)
               /\ g[i].val = Replay(e)[g[i].id + 1]
    BY <1>1, <1>2, <1>3, <1>16
  <2> QED
    BY SMTT(30), <1>1, <1>7, <1>13, <1>17, <2>1
<1>19. \A i \in 1 .. k + 1 : g[i].num = Num[b]
  <2>1. ASSUME NEW i \in 1 .. k + 1 PROVE g[i].num = Num[b]
    <3>1. i \in 1 .. m \/ i \in m + 1 .. k \/ i = k + 1
      BY <1>13
    <3>2. g[k + 1].num = Num[b]
      BY <1>15 DEF SumOf
    <3> QED
      BY <1>16, <1>17, <3>1, <3>2
  <2> QED
    BY <2>1
<1>20. \A i, j \in 1 .. m : i # j => g[i].id # g[j].id
  <2>1. ASSUME NEW i \in 1 .. m, NEW j \in 1 .. m, i # j PROVE old[i] # old[j]
    <3>1. old[i] \in Nat /\ old[j] \in Nat
      <4>1. old[i] \in S /\ old[j] \in S
        BY <1>5
      <4>2. \A a \in S : a \in Nat
        BY <1>3
      <4> QED
        BY <4>1, <4>2
    <3>2. i < j \/ j < i
      BY <2>1
    <3>3. i < j => old[i] < old[j]
      BY <1>5 DEF Increasing
    <3>4. j < i => old[j] < old[i]
      BY <1>5 DEF Increasing
    <3> QED
      BY <3>1, <3>2, <3>3, <3>4
  <2> QED
    BY <1>16, <2>1
<1>21. \A a \in Changes[b] : a < AccountsOf(e) => \E i \in 1 .. m : g[i].id = a
  BY <1>1, <1>2, <1>5, <1>16
<1>22. g[k + 1].mode = "sum" /\ g[k + 1].val = [blk |-> b, acc |-> Replay(b)]
  BY <1>15 DEF SumOf
<1>23. Group(g, b, e, m, k)
  BY <1>18, <1>19, <1>20, <1>21, <1>22 DEF Group
<1> QED
  BY <1>13, <1>14, <1>18, <1>23

(* The log with the first j of these rows appended.                        *)
Extends(s, rows, g, j) ==
  /\ Len(s) = Len(rows) + j
  /\ \A i \in 1 .. Len(rows) : s[i] = rows[i]
  /\ \A i \in 1 .. j : s[Len(rows) + i] = g[i]

RowsFit(g, b, k) ==
  /\ \A i \in 1 .. k + 1 : RowFits(g[i], b)
  /\ \A i \in 1 .. k : g[i].mode # "sum" /\ g[i].id \in Nat
  /\ \A i, j \in 1 .. k : i # j => g[i].id # g[j].id

LEMMA GroupRows ==
  ASSUME NEW b \in Block, Num[b] > 0, NEW e, e = Prev[b], NEW g, NEW m, NEW k, Group(g, b, e, m, k)
  PROVE  RowsFit(g, b, k)
<1>1. /\ k \in Nat /\ m \in 0 .. k /\ k = m + NewCount[b]
      /\ \A i \in 1 .. k + 1 : g[i].num = Num[b]
      /\ \A i \in 1 .. m :
           /\ g[i].mode = "old" /\ g[i].id \in Nat /\ g[i].id \in Changes[b] /\ g[i].id < AccountsOf(e)
           /\ g[i].val = Replay(e)[g[i].id + 1]
      /\ \A i \in m + 1 .. k : g[i].mode = "new" /\ g[i].id = AccountsOf(e) + (i - 1 - m)
      /\ \A i, j \in 1 .. m : i # j => g[i].id # g[j].id
      /\ g[k + 1].mode = "sum" /\ g[k + 1].val = [blk |-> b, acc |-> Replay(b)]
  BY DEF Group
<1>2. AccountsOf(e) \in Nat /\ NewCount[b] \in Nat /\ AccountsOf(b) = AccountsOf(e) + NewCount[b]
  BY AccountsNext
<1>3. Num[b] \in 1 .. Num[b] /\ Anc[b][Num[b]] = b
  BY ChainIs
<1>4. ASSUME NEW i \in 1 .. k PROVE g[i].mode # "sum" /\ g[i].id \in Nat /\ (OldRow(g[i], b) \/ NewRow(g[i], b))
  <2>1. CASE i \in 1 .. m
    <3>1. OldRow(g[i], b)
      BY <1>1, <2>1 DEF OldRow
    <3> QED
      BY <1>1, <2>1, <3>1
  <2>2. CASE i \notin 1 .. m
    <3>1. i \in m + 1 .. k
      BY <1>1, <2>2
    <3>2. i - 1 - m \in Nat /\ i - 1 - m < NewCount[b]
      BY <1>1, <1>2, <3>1
    <3>3. g[i].id \in Nat /\ AccountsOf(e) =< g[i].id /\ g[i].id < AccountsOf(b)
      BY <1>1, <1>2, <3>1, <3>2
    <3>4. NewRow(g[i], b)
      BY <1>1, <3>1, <3>3 DEF NewRow
    <3> QED
      BY <1>1, <3>1, <3>3, <3>4
  <2> QED
    BY <2>1, <2>2
<1>5. ASSUME NEW i \in 1 .. k + 1 PROVE RowFits(g[i], b)
  <2>1. g[i].num \in 1 .. Num[b] /\ Anc[b][g[i].num] = b
    BY <1>1, <1>3
  <2>2. i \in 1 .. k \/ i = k + 1
    BY <1>1
  <2>3. SumRow(g[k + 1], b)
    BY <1>1 DEF SumRow
  <2> QED
    BY <1>4, <2>1, <2>2, <2>3 DEF RowFits
<1>6. ASSUME NEW i \in 1 .. k, NEW j \in 1 .. k, i # j PROVE g[i].id # g[j].id
  <2>1. CASE i \in 1 .. m /\ j \in 1 .. m
    BY <1>1, <1>6, <2>1
  <2>2. CASE i \in 1 .. m /\ j \notin 1 .. m
    <3>1. j \in m + 1 .. k
      BY <1>1, <2>2
    <3> QED
      BY <1>1, <1>2, <2>2, <3>1
  <2>3. CASE i \notin 1 .. m /\ j \in 1 .. m
    <3>1. i \in m + 1 .. k
      BY <1>1, <2>3
    <3> QED
      BY <1>1, <1>2, <2>3, <3>1
  <2>4. CASE i \notin 1 .. m /\ j \notin 1 .. m
    <3>1. i \in m + 1 .. k /\ j \in m + 1 .. k
      BY <1>1, <2>4
    <3> QED
      BY <1>1, <1>2, <1>6, <3>1
  <2> QED
    BY <2>1, <2>2, <2>3, <2>4
<1> QED
  BY <1>4, <1>5, <1>6 DEF RowsFit
(* The log with them fits the chain of the block.                          *)
LEMMA GroupFits ==
  ASSUME NEW b \in Block, Num[b] > 0, NEW e, e = Prev[b], NEW g, NEW m, NEW k, Group(g, b, e, m, k),
         NEW rows, LogFits(rows, e), Len(rows) \in Nat,
         Len(rows) > 0 => rows[Len(rows)].mode = "sum" /\ rows[Len(rows)].num = Num[e],
         NEW j \in 0 .. k + 1, NEW s, Extends(s, rows, g, j)
  PROVE  LogFits(s, b)
<1>1. /\ k \in Nat /\ m \in 0 .. k /\ k = m + NewCount[b]
      /\ \A i \in 1 .. k + 1 : g[i].num = Num[b]
      /\ \A i \in 1 .. m : g[i].mode = "old"
      /\ \A i \in m + 1 .. k : g[i].mode = "new" /\ g[i].id = AccountsOf(e) + (i - 1 - m)
      /\ \A a \in Changes[b] : a < AccountsOf(e) => \E i \in 1 .. m : g[i].id = a
      /\ g[k + 1].mode = "sum"
  BY DEF Group
<1>2. /\ AccountsOf(e) \in Nat /\ NewCount[b] \in Nat /\ AccountsOf(b) = AccountsOf(e) + NewCount[b]
  BY AccountsNext
<1>3. /\ e \in Block /\ Num[e] \in Nat /\ Num[b] = Num[e] + 1 /\ Anc[b][Num[b]] = b
      /\ \A n \in 1 .. Num[e] : Anc[b][n] = Anc[e][n]
  <2>1. /\ e \in Block /\ Num[e] \in Nat /\ Num[b] = Num[e] + 1
        /\ \A n \in 0 .. Num[e] : Anc[b][n] = Anc[e][n]
    BY ChildIs
  <2> QED
    BY <2>1, ChainIs
<1>4. PICK L \in Nat : L = Len(rows)
  OBVIOUS
<1>5. /\ Len(s) = L + j /\ Len(s) \in Nat
      /\ \A i \in 1 .. L : s[i] = rows[i]
      /\ \A i \in 1 .. j : s[L + i] = g[i]
  BY <1>1, <1>4 DEF Extends
<1>6. /\ \A i \in 1 .. k + 1 : RowFits(g[i], b)
      /\ \A i \in 1 .. k : g[i].mode # "sum" /\ g[i].id \in Nat
      /\ \A i, l \in 1 .. k : i # l => g[i].id # g[l].id
  <2>1. RowsFit(g, b, k)
    BY GroupRows
  <2> QED
    BY <2>1 DEF RowsFit
<1>7. ASSUME NEW i \in 1 .. L
      PROVE  /\ i \in 1 .. Len(rows) /\ s[i] = rows[i] /\ RowFits(rows[i], e)
             /\ s[i].num \in 1 .. Num[e] /\ Anc[b][s[i].num] = Anc[e][s[i].num] /\ s[i].num < Num[b]
  <2>1. i \in 1 .. Len(rows) /\ s[i] = rows[i] /\ RowFits(rows[i], e)
    BY <1>4, <1>5 DEF LogFits
  <2>2. s[i].num \in 1 .. Num[e]
    BY <2>1 DEF RowFits
  <2> QED
    BY <1>3, <2>1, <2>2
<1>8. ASSUME NEW i \in 1 .. Len(s), i \notin 1 .. L
      PROVE  \E l \in 1 .. j : i = L + l /\ s[i] = g[l] /\ l \in 1 .. k + 1
  <2>1. i - L \in 1 .. j /\ i = L + (i - L) /\ i - L \in 1 .. k + 1
    BY <1>1, <1>4, <1>5, <1>8
  <2> QED
    BY <1>5, <2>1
<1>9. ASSUME NEW i \in 1 .. Len(s) PROVE RowFits(s[i], b)
  <2>1. CASE i \in 1 .. L
    <3>1. s[i].num \in 1 .. Num[b]
      BY <1>3, <1>7, <2>1
    <3> QED
      BY <1>7, <2>1, <3>1 DEF RowFits
  <2>2. CASE i \notin 1 .. L
    BY <1>6, <1>8, <2>2
  <2> QED
    BY <2>1, <2>2
<1>10. ASSUME NEW i \in 1 .. Len(s), s[i].mode = "sum" PROVE Logged(s, Anc[b][s[i].num], i)
  <2>1. CASE i \in 1 .. L
    <3>1. PICK c : c = Anc[e][s[i].num]
      OBVIOUS
    <3>2. Logged(rows, c, i)
      BY <1>7, <1>10, <2>1, <3>1 DEF LogFits
    <3>3. \A l \in 1 .. i : s[l] = rows[l]
      BY <1>5, <2>1
    <3>4. Logged(s, c, i)
      BY SMTT(30), <3>2, <3>3 DEF Logged
    <3> QED
      BY <1>7, <2>1, <3>1, <3>4
  <2>2. CASE i \notin 1 .. L
    <3>1. PICK l \in 1 .. j : i = L + l /\ s[i] = g[l] /\ l \in 1 .. k + 1
      BY <1>8, <2>2
    <3>2. l = k + 1 /\ i = L + (k + 1) /\ j = k + 1
      <4>1. l \notin 1 .. k
        BY <1>6, <1>10, <3>1
      <4>2. l = k + 1
        BY <1>1, <3>1, <4>1
      <4>3. j = k + 1
        BY <1>1, <4>2
      <4> QED
        BY <3>1, <4>2, <4>3
    <3>3. s[i].num = Num[b]
      BY <1>1, <3>1
    <3>4. ASSUME NEW l2 \in 1 .. k PROVE L + l2 \in 1 .. i /\ s[L + l2] = g[l2] /\ g[l2].num = Num[b]
      <4>1. l2 \in 1 .. j /\ l2 \in 1 .. k + 1 /\ L + l2 \in 1 .. i
        BY SMTT(30), <1>1, <1>4, <3>2
      <4> QED
        BY <1>1, <1>5, <4>1
    <3>5. ASSUME NEW a \in Changes[b], a < AccountsOf(e)
          PROVE  \E l2 \in 1 .. i : s[l2].num = Num[b] /\ s[l2].mode = "old" /\ s[l2].id = a
      <4>1. PICK l2 \in 1 .. m : g[l2].id = a
        BY <1>1, <3>5
      <4>2. l2 \in 1 .. k /\ g[l2].mode = "old"
        BY <1>1
      <4> QED
        BY <3>4, <4>1, <4>2
    <3>6. ASSUME AccountsOf(e) < AccountsOf(b)
          PROVE  \E l2 \in 1 .. i : s[l2].num = Num[b] /\ s[l2].mode = "new"
      <4>1. m + 1 \in m + 1 .. k /\ m + 1 \in 1 .. k
        BY <1>1, <1>2, <3>6
      <4>2. s[L + (m + 1)] = g[m + 1] /\ L + (m + 1) \in 1 .. i /\ g[m + 1].num = Num[b]
        BY <3>4, <4>1
      <4>3. g[m + 1].mode = "new"
        BY <1>1, <4>1
      <4> QED
        BY <4>2, <4>3
    <3>7. Logged(s, b, i)
      BY <3>5, <3>6 DEF Logged
    <3> QED
      BY <1>3, <3>3, <3>7
  <2> QED
    BY <2>1, <2>2
<1>11. ASSUME NEW i \in 1 .. Len(s), s[i].mode = "new", s[i].id # AccountsOf(Prev[Anc[b][s[i].num]])
       PROVE  i > 1 /\ s[i - 1].mode = "new"
  <2>1. CASE i \in 1 .. L
    <3>1. i > 1 /\ rows[i - 1].mode = "new"
      BY <1>7, <1>11, <2>1 DEF LogFits
    <3>2. i - 1 \in 1 .. L
      BY <1>4, <2>1, <3>1
    <3> QED
      BY <1>5, <3>1, <3>2
  <2>2. CASE i \notin 1 .. L
    <3>1. PICK l \in 1 .. j : i = L + l /\ s[i] = g[l] /\ l \in 1 .. k + 1
      BY <1>8, <2>2
    <3>2. s[i].num = Num[b] /\ Anc[b][s[i].num] = b
      BY <1>1, <1>3, <3>1
    <3>3. s[i].id # AccountsOf(e)
      BY <1>11, <3>2
    <3>4. l \in m + 1 .. k
      <4>1. l # k + 1
        BY <1>1, <1>11, <3>1
      <4>2. l \notin 1 .. m
        BY <1>1, <1>11, <3>1
      <4> QED
        BY <1>1, <3>1, <4>1, <4>2
    <3>5. l # m + 1
      BY <1>1, <1>2, <3>1, <3>3, <3>4
    <3>6. l - 1 \in m + 1 .. k /\ l - 1 \in 1 .. j /\ i - 1 = L + (l - 1) /\ i > 1
      BY <1>1, <1>4, <3>1, <3>4, <3>5
    <3> QED
      BY <1>1, <1>5, <3>6
  <2> QED
    BY <2>1, <2>2
<1>12. Ordered(rows)
  BY DEF LogFits
<1>13. ASSUME NEW i \in 1 .. Len(s), NEW l \in 1 .. Len(s), i < l
       PROVE  /\ s[i].num =< s[l].num
              /\ s[i].mode = "sum" => s[i].num < s[l].num
              /\ s[i].num = s[l].num /\ s[l].mode # "sum" => s[i].id # s[l].id
  <2>1. CASE i \in 1 .. L /\ l \in 1 .. L
    BY <1>7, <1>12, <1>13, <2>1 DEF Ordered
  <2>2. CASE i \in 1 .. L /\ l \notin 1 .. L
    <3>1. s[l].num = Num[b]
      BY <1>1, <1>8, <2>2
    <3>2. s[i].num \in Nat /\ s[i].num < Num[b]
      BY <1>7, <2>2
    <3> QED
      BY <1>3, <3>1, <3>2
  <2>3. CASE i \notin 1 .. L
    <3>1. l \notin 1 .. L
      BY <1>4, <1>13, <2>3
    <3>2. PICK x \in 1 .. j : i = L + x /\ s[i] = g[x] /\ x \in 1 .. k + 1
      BY <1>8, <2>3
    <3>3. PICK y \in 1 .. j : l = L + y /\ s[l] = g[y] /\ y \in 1 .. k + 1
      BY <1>8, <3>1
    <3>4. x < y
      BY <1>4, <1>13, <3>2, <3>3
    <3>5. x \in 1 .. k
      BY <1>1, <3>2, <3>3, <3>4
    <3>6. s[i].num = Num[b] /\ s[l].num = Num[b] /\ s[i].mode # "sum"
      BY <1>1, <1>6, <3>2, <3>3, <3>5
    <3>7. s[l].mode # "sum" => y \in 1 .. k
      <4>1. y \notin 1 .. k => y = k + 1
        BY <1>1, <3>3
      <4> QED
        BY <1>1, <3>3, <4>1
    <3>8. s[l].mode # "sum" => s[i].id # s[l].id
      BY <1>6, <3>2, <3>3, <3>4, <3>5, <3>7
    <3> QED
      BY <1>3, <3>6, <3>8
  <2> QED
    BY <2>1, <2>2, <2>3
<1>14. ASSUME NEW i \in 1 .. Len(s) - 1
       PROVE  s[i + 1].num = IF s[i].mode = "sum" THEN s[i].num + 1 ELSE s[i].num
  <2>1. CASE i + 1 \in 1 .. L
    <3>1. i \in 1 .. Len(rows) - 1 /\ i \in 1 .. L
      BY <1>4, <2>1
    <3> QED
      BY <1>5, <1>12, <2>1, <3>1 DEF Ordered
  <2>2. CASE i = L
    <3>1. L > 0 /\ L \in 1 .. L /\ i + 1 = L + 1 /\ 1 \in 1 .. j /\ 1 \in 1 .. k + 1
      BY <1>1, <1>4, <1>5, <2>2
    <3>2. s[i].mode = "sum" /\ s[i].num = Num[e]
      BY <1>4, <1>5, <2>2, <3>1
    <3>3. s[i + 1].num = Num[b]
      BY <1>1, <1>5, <3>1
    <3> QED
      BY <1>3, <3>2, <3>3
  <2>3. CASE i > L
    <3>1. PICK x \in 1 .. j : i = L + x /\ x + 1 \in 1 .. j
      <4>1. i - L \in 1 .. j /\ i = L + (i - L) /\ (i - L) + 1 \in 1 .. j
        BY <1>4, <1>5, <2>3
      <4> QED
        BY <4>1
    <3>2. x \in 1 .. k /\ x \in 1 .. k + 1 /\ x + 1 \in 1 .. k + 1 /\ i + 1 = L + (x + 1)
      BY <1>1, <1>4, <3>1
    <3>3. s[i] = g[x] /\ s[i + 1] = g[x + 1]
      BY <1>5, <3>1, <3>2
    <3> QED
      BY <1>1, <1>6, <3>2, <3>3
  <2>4. i + 1 \in 1 .. L \/ i = L \/ i > L
    BY <1>4, <1>5
  <2> QED
    BY <2>1, <2>2, <2>3, <2>4
<1>15. Ordered(s)
  BY <1>13, <1>14 DEF Ordered
<1> QED
  BY <1>9, <1>10, <1>11, <1>15 DEF LogFits

(***************************************************************************)
(* y is what is on the disk when the rows of block b are written, c the    *)
(* last block of the main chain; u as in Good.                             *)
(***************************************************************************)
Ready(y, b, e, c, u) ==
  /\ b \in Block /\ Num[b] > 0 /\ e = Prev[b]
  /\ At(y, e) /\ y.smart = Smarts(b) /\ (Log(y) = << >> => Num[b] = 1)
  /\ Rem(y, c) /\ (u => Unrotated(y))

Added(z, b, c, u) ==
  LogOk(z, b) /\ Rem(z, c) /\ (u => Unrotated(z)) /\ Log(z) = z.act /\ z.act # << >>

(* Appended to the log on the disk.                                        *)
LEMMA GroupAdded ==
  ASSUME NEW y, NEW b, NEW e, NEW c, NEW u, Ready(y, b, e, c, u), NEW g, NEW m, NEW k, Group(g, b, e, m, k),
         NEW j \in 1 .. k + 1, NEW z, IsDisk(z), z.prev = y.prev, Extends(z.act, y.act, g, j)
  PROVE  Added(z, b, c, u)
<1>0. /\ b \in Block /\ Num[b] > 0 /\ e = Prev[b] /\ At(y, e) /\ (Log(y) = << >> => Num[b] = 1)
      /\ Rem(y, c) /\ (u => Unrotated(y))
  BY DEF Ready
<1>1. /\ e \in Block /\ IsDisk(y)
      /\ Log(y) # << >> => LogOk(y, e) /\ Log(y)[Len(Log(y))].mode = "sum"
  BY <1>0 DEF At
<1>2. /\ Num[e] \in Nat /\ Num[b] = Num[e] + 1
      /\ \A n \in 1 .. Num[e] : Anc[b][n] = Anc[e][n]
  <2>1. /\ Num[e] \in Nat /\ Num[b] = Num[e] + 1
        /\ \A n \in 0 .. Num[e] : Anc[b][n] = Anc[e][n]
    BY <1>0, ChildIs
  <2> QED
    BY <2>1
<1>3. /\ k \in Nat /\ \A i \in 1 .. k + 1 : g[i].num = Num[b]
  BY DEF Group
<1>4. PICK L \in Nat : L = Len(y.act) /\ (L = 0 <=> y.act = << >>) /\ Len(y.prev) \in Nat /\ (Len(y.prev) = 0 <=> y.prev = << >>)
  BY <1>1, FilesAre
<1>5. /\ Len(z.act) = L + j
      /\ \A i \in 1 .. L : z.act[i] = y.act[i]
      /\ \A i \in 1 .. j : z.act[L + i] = g[i]
  BY <1>4 DEF Extends
<1>6. z.act # << >> /\ Log(z) = z.act
  <2>1. Len(z.act) # 0
    BY <1>3, <1>4, <1>5
  <2> QED
    BY <2>1, FilesAre DEF Log
<1>7. LastNum(z) = Num[b] /\ z.act[L + j].num = Num[b]
  <2>1. z.act[L + j] = g[j]
    BY <1>3, <1>5
  <2>2. LastNum(z) = z.act[Len(z.act)].num
    BY <1>6, LogIs
  <2> QED
    BY <1>3, <1>5, <2>1, <2>2
<1>8. L > 0 => /\ Log(y) = y.act /\ LogOk(y, e) /\ y.act[L].mode = "sum" /\ y.act[L].num = Num[e] /\ Log(y) # << >>
  <2>1. ASSUME L > 0 PROVE /\ Log(y) = y.act /\ LogOk(y, e) /\ y.act[L].mode = "sum" /\ y.act[L].num = Num[e] /\ Log(y) # << >>
    <3>1. Log(y) = y.act /\ Log(y) # << >>
      BY <1>4, <2>1 DEF Log
    <3>2. LogOk(y, e) /\ y.act[L].mode = "sum"
      BY <1>1, <1>4, <3>1
    <3>3. y.act[L].num = Num[e]
      BY <1>1, <1>4, <3>1, <3>2, LogOkIs
    <3> QED
      BY <3>1, <3>2, <3>3
  <2> QED
    BY <2>1
<1>9. L = 0 => Log(y) = y.prev
  BY <1>4 DEF Log
<1>10. LogFits(y.act, e) /\ LogFits(y.prev, e)
  <2>1. CASE Log(y) = << >>
    <3>1. Len(y.act) = 0 /\ Len(y.prev) = 0
      BY <1>1, <2>1, LogIs, FilesAre
    <3> QED
      BY <1>1, <3>1, EmptyFits
  <2>2. CASE Log(y) # << >>
    BY <1>1, <2>2 DEF LogOk
  <2> QED
    BY <2>1, <2>2
<1>11. LogFits(z.act, b)
  <2>1. Len(y.act) > 0 => y.act[Len(y.act)].mode = "sum" /\ y.act[Len(y.act)].num = Num[e]
    BY <1>4, <1>8
  <2>2. j \in 0 .. k + 1
    BY <1>3
  <2> QED
    BY <1>0, <1>4, <1>10, <2>1, <2>2, GroupFits
<1>12. LogFits(z.prev, b)
  <2>1. \A i \in 1 .. Len(y.prev) : y.prev[i].num =< Num[e]
    <3>1. \A i \in 1 .. Len(y.prev) : y.prev[i].num \in 1 .. Num[e]
      BY <1>10 DEF LogFits, RowFits
    <3> QED
      BY <1>2, <3>1
  <2>2. PrefixOf(y.prev, y.prev, b, e, Num[e])
    BY <1>2, <1>4, <2>1 DEF PrefixOf
  <2>3. Num[e] \in 0 .. Num[b]
    BY <1>2
  <2>4. LogFits(y.prev, b)
    BY <1>0, <1>1, <1>4, <1>10, <2>2, <2>3, LogPrefix
  <2> QED
    BY <2>4
<1>13. ASSUME z.prev # << >>
       PROVE  z.prev[Len(z.prev)].mode = "sum" /\ z.act[1].num = z.prev[Len(z.prev)].num + 1
  <2>1. CASE L > 0
    <3>1. y.prev[Len(y.prev)].mode = "sum" /\ y.act[1].num = y.prev[Len(y.prev)].num + 1
      BY <1>4, <1>8, <1>13, <2>1 DEF LogOk
    <3>2. z.act[1] = y.act[1]
      BY <1>5, <2>1
    <3> QED
      BY <3>1, <3>2
  <2>2. CASE L = 0
    <3>1. Log(y) = y.prev /\ Log(y) # << >>
      BY <1>9, <1>13, <2>2
    <3>2. LogOk(y, e) /\ y.prev[Len(y.prev)].mode = "sum"
      BY <1>1, <3>1
    <3>3. y.prev[Len(y.prev)].num = Num[e]
      BY <1>1, <3>1, <3>2, LogOkIs
    <3>4. 1 \in 1 .. j /\ 1 \in 1 .. k + 1 /\ L + 1 = 1
      BY <1>3, <2>2
    <3>5. z.act[1].num = Num[b]
      BY <1>3, <1>5, <3>4
    <3> QED
      BY <1>2, <3>2, <3>3, <3>5
  <2> QED
    BY <1>4, <2>1, <2>2
<1>14. LogOk(z, b)
  BY <1>0, <1>6, <1>7, <1>11, <1>12, <1>13 DEF LogOk
<1>15. L = 0 /\ y.prev = << >> => Num[b] = 1
  BY <1>0, <1>9
<1>16. ASSUME z.prev = << >> PROVE Holds(z.act, c)
  <2>0. Holds(y.act, c)
    BY <1>0, <1>16 DEF Rem
  <2>1. ASSUME NEW i \in 1 .. Len(z.act), FirstSum(z.act, i) PROVE Held(z.act[i], c)
    <3>1. CASE i \in 1 .. L
      <4>1. z.act[i] = y.act[i] /\ \A l \in 1 .. i - 1 : z.act[l] = y.act[l]
        BY <1>5, <3>1
      <4>2. FirstSum(y.act, i)
        BY <1>4, <2>1, <3>1, <4>1 DEF FirstSum
      <4> QED
        BY <1>4, <2>0, <3>1, <4>1, <4>2 DEF Holds
    <3>2. CASE i \notin 1 .. L
      <4>1. L = 0
        <5>1. ASSUME L > 0 PROVE FALSE
          <6>1. L \in 1 .. i - 1 /\ L \in 1 .. L
            BY <1>3, <1>5, <3>2, <5>1
          <6>2. z.act[L] = y.act[L]
            BY <1>5, <6>1
          <6> QED
            BY <1>8, <2>1, <5>1, <6>1, <6>2 DEF FirstSum
        <5> QED
          BY <5>1
      <4>2. i \in 1 .. j /\ i \in 1 .. k + 1 /\ L + i = i
        BY <1>3, <1>5, <4>1
      <4>3. z.act[i].num = Num[b]
        BY <1>3, <1>5, <4>2
      <4>4. Num[b] = 1
        BY <1>15, <1>16, <4>1
      <4> QED
        BY <4>3, <4>4 DEF Held
    <3> QED
      BY <3>1, <3>2
  <2> QED
    BY <2>1 DEF Holds
<1>17. Rem(z, c)
  BY <1>0, <1>16 DEF Rem
<1>18. ASSUME u PROVE Unrotated(z)
  <2>1. y.prev = << >> /\ (y.act # << >> => y.act[1].num = 1)
    BY <1>0, <1>18 DEF Unrotated
  <2>2. z.act[1].num = 1
    <3>1. CASE L > 0
      <4>1. z.act[1] = y.act[1]
        BY <1>5, <3>1
      <4> QED
        BY <1>4, <2>1, <3>1, <4>1
    <3>2. CASE L = 0
      <4>1. 1 \in 1 .. j /\ 1 \in 1 .. k + 1 /\ L + 1 = 1
        BY <1>3, <3>2
      <4> QED
        BY <1>3, <1>5, <1>15, <2>1, <3>2, <4>1
    <3> QED
      BY <1>4, <3>1, <3>2
  <2> QED
    BY <1>6, <2>1, <2>2 DEF Unrotated
<1> QED
  BY <1>6, <1>14, <1>17, <1>18 DEF Added
-----------------------------------------------------------------------------
(***************************************************************************)
(* While CommitBlock writes.  y is what was there before, z is there now   *)
(* and has the first j rows of the block in its log: every account that    *)
(* is not what block e has left is in one of them.                         *)
(***************************************************************************)
Covered(state, e, g, j) ==
  /\ AccountsOf(e) =< Len(state)
  /\ \A a \in 0 .. AccountsOf(e) - 1 :
       \/ state[a + 1] = Replay(e)[a + 1]
       \/ \E i \in 1 .. j : g[i].mode = "old" /\ g[i].id = a
  /\ AccountsOf(e) < Len(state) => \E i \in 1 .. j : g[i].mode = "new"

Midway(z, y, e, g, j) ==
  /\ IsDisk(z) /\ z.prev = y.prev /\ z.smart = y.smart /\ HashesFit(z, e)
  /\ Extends(z.act, y.act, g, j)
  /\ Covered(z.state, e, g, j)

LEMMA SmartsFit ==
  ASSUME NEW b \in Block, NEW d, d.smart = Smarts(b)
  PROVE  SmartFits(d, b)
<1>1. Len(Smarts(b)) \in Nat
  BY SmartsIs
<1> QED
  BY <1>1 DEF SmartFits

LEMMA MidUndoable ==
  ASSUME NEW y, NEW b, NEW e, NEW c, NEW u, Ready(y, b, e, c, u), NEW g, NEW m, NEW k, Group(g, b, e, m, k),
         NEW j \in 1 .. k + 1, NEW z, Midway(z, y, e, g, j)
  PROVE  Undoable(z, b) /\ Rem(z, c) /\ (u => Unrotated(z)) /\ Log(z) = z.act /\ z.act # << >>
<1>1. /\ b \in Block /\ Num[b] > 0 /\ e = Prev[b] /\ At(y, e) /\ y.smart = Smarts(b)
      /\ (Log(y) = << >> => Num[b] = 1) /\ Rem(y, c) /\ (u => Unrotated(y))
  BY DEF Ready
<1>2. /\ IsDisk(z) /\ z.prev = y.prev /\ z.smart = y.smart /\ HashesFit(z, e)
      /\ Extends(z.act, y.act, g, j) /\ Covered(z.state, e, g, j)
  BY DEF Midway
<1>3. /\ LogOk(z, b) /\ Rem(z, c) /\ (u => Unrotated(z)) /\ Log(z) = z.act /\ z.act # << >>
  <2>1. Added(z, b, c, u)
    BY <1>2, GroupAdded
  <2> QED
    BY <2>1 DEF Added
<1>4. SmartFits(z, e)
  <2>1. SmartFits(z, b) /\ Len(z.smart) \in Nat
    BY <1>1, <1>2, SmartsFit, FilesAre
  <2> QED
    BY <1>1, <2>1, SmartsBack
<1>5. k \in Nat /\ \A i \in 1 .. k + 1 : g[i].num = Num[b]
  BY DEF Group
<1>6. Len(y.act) \in Nat
  BY <1>1, FilesAre DEF At
<1>7. ASSUME NEW i \in 1 .. j
      PROVE  Len(y.act) + i \in 1 .. Len(z.act) /\ z.act[Len(y.act) + i] = g[i] /\ g[i].num = Num[b]
  <2>1. i \in 1 .. k + 1
    BY <1>5
  <2>2. Len(z.act) = Len(y.act) + j /\ z.act[Len(y.act) + i] = g[i]
    BY <1>2 DEF Extends
  <2>3. Len(y.act) + i \in 1 .. Len(z.act)
    BY <1>5, <1>6, <2>2
  <2> QED
    BY <1>5, <2>1, <2>2, <2>3
<1>8. AccountsOf(e) =< Len(z.state)
  BY <1>2 DEF Covered
<1>9. ASSUME NEW a \in 0 .. AccountsOf(e) - 1
      PROVE  \/ z.state[a + 1] = Replay(e)[a + 1]
             \/ \E i \in 1 .. Len(z.act) : z.act[i].num = Num[b] /\ z.act[i].mode = "old" /\ z.act[i].id = a
  <2>1. CASE \E i \in 1 .. j : g[i].mode = "old" /\ g[i].id = a
    <3>1. PICK i \in 1 .. j : g[i].mode = "old" /\ g[i].id = a
      BY <2>1
    <3>2. Len(y.act) + i \in 1 .. Len(z.act) /\ z.act[Len(y.act) + i] = g[i] /\ g[i].num = Num[b]
      BY <1>7
    <3> QED
      BY <3>1, <3>2
  <2> QED
    BY <1>2, <2>1 DEF Covered
<1>10. ASSUME AccountsOf(e) < Len(z.state)
       PROVE  \E i \in 1 .. Len(z.act) : z.act[i].num = Num[b] /\ z.act[i].mode = "new"
  <2>1. PICK i \in 1 .. j : g[i].mode = "new"
    BY <1>2, <1>10 DEF Covered
  <2>2. Len(y.act) + i \in 1 .. Len(z.act) /\ z.act[Len(y.act) + i] = g[i] /\ g[i].num = Num[b]
    BY <1>7
  <2> QED
    BY <2>1, <2>2
<1>11. Undoable(z, b)
  BY <1>1, <1>2, <1>3, <1>4, <1>8, <1>9, <1>10 DEF Undoable
<1> QED
  BY <1>3, <1>11

LEMMA MidGood ==
  ASSUME NEW y, NEW b, NEW e, NEW c, NEW u, Ready(y, b, e, c, u), NEW g, NEW m, NEW k, Group(g, b, e, m, k),
         NEW j \in 0 .. k + 1, NEW z, Midway(z, y, e, g, j)
  PROVE  Good(z, c, u)
<1>1. /\ b \in Block /\ Num[b] > 0 /\ e = Prev[b] /\ At(y, e) /\ y.smart = Smarts(b)
      /\ Rem(y, c) /\ (u => Unrotated(y))
  BY DEF Ready
<1>2. /\ IsDisk(z) /\ z.prev = y.prev /\ z.smart = y.smart /\ HashesFit(z, e)
      /\ Extends(z.act, y.act, g, j) /\ Covered(z.state, e, g, j)
  BY DEF Midway
<1>3. k \in Nat
  BY DEF Group
<1>4. CASE j > 0
  <2>1. j \in 1 .. k + 1
    BY <1>3, <1>4
  <2>2. Undoable(z, b) /\ Rem(z, c) /\ (u => Unrotated(z))
    BY <2>1, MidUndoable
  <2>3. Log(z) # << >>
    BY <2>2 DEF Undoable, LogOk
  <2> QED
    BY <1>1, <1>2, <2>2 DEF Good, Dirty
<1>5. CASE j = 0
  <2>1. IsDisk(y) /\ e \in Block /\ SmartFits(y, e) /\ y.state = Replay(e)
    BY <1>1 DEF At
  <2>2. z.act = y.act
    <3>1. Len(z.act) = Len(y.act) /\ \A i \in 1 .. Len(y.act) : z.act[i] = y.act[i]
      <4>1. Len(y.act) \in Nat
        BY <2>1, FilesAre
      <4> QED
        BY <1>2, <1>5, <4>1 DEF Extends
    <3>2. (\E R : z.act \in Seq(R)) /\ (\E R : y.act \in Seq(R))
      BY <1>2, <2>1, FilesAre
    <3> QED
      BY <3>1, <3>2, SameSeq
  <2>3. z.state = Replay(e)
    <3>1. AccountsOf(e) \in Nat /\ Len(Replay(e)) = AccountsOf(e) /\ \E R : Replay(e) \in Seq(R)
      BY <2>1, ReplayIs
    <3>2. Len(z.state) \in Nat /\ \E R : z.state \in Seq(R)
      BY <1>2, FilesAre
    <3>3. 1 .. j = {}
      BY <1>5
    <3>4. Len(z.state) = AccountsOf(e) /\ \A a \in 0 .. AccountsOf(e) - 1 : z.state[a + 1] = Replay(e)[a + 1]
      <4>1. AccountsOf(e) =< Len(z.state) /\ ~(AccountsOf(e) < Len(z.state))
        BY <1>2, <3>3 DEF Covered
      <4>2. \A a \in 0 .. AccountsOf(e) - 1 : z.state[a + 1] = Replay(e)[a + 1]
        BY <1>2, <3>3 DEF Covered
      <4> QED
        BY <3>1, <3>2, <4>1, <4>2
    <3>5. ASSUME NEW i \in 1 .. Len(z.state) PROVE z.state[i] = Replay(e)[i]
      <4>1. PICK a \in 0 .. AccountsOf(e) - 1 : i = a + 1
        <5>1. i - 1 \in 0 .. AccountsOf(e) - 1 /\ i = (i - 1) + 1
          BY <3>1, <3>4
        <5> QED
          BY <5>1
      <4> QED
        BY <3>4, <4>1
    <3> QED
      BY <3>1, <3>2, <3>4, <3>5, SameSeq
  <2>4. SmartFits(z, e)
    BY <1>2, <2>1 DEF SmartFits
  <2>5. At(z, e)
    BY <1>1, <1>2, <2>1, <2>2, <2>3, <2>4, AtSame
  <2>6. Rem(z, c) /\ (u => Unrotated(z))
    BY <1>1, <1>2, <2>1, <2>2, <2>3 DEF Rem, Unrotated
  <2> QED
    BY <2>5, <2>6, AtGood
<1> QED
  BY <1>3, <1>4, <1>5

(* First the rows of the log.                                              *)
LEMMA LogWritesAre ==
  ASSUME NEW y, NEW b, NEW e, NEW c, NEW u, Ready(y, b, e, c, u),
         NEW rows, rows = LogRows(y, b), NEW g, WithSum(g, rows, b),
         NEW m, NEW k, k = Len(rows), Group(g, b, e, m, k),
         NEW ws, ws = LogWrites(y, b)
  PROVE  /\ AllGood(y, ws, c, u)
         /\ Midway(After(y, ws), y, e, g, k) /\ After(y, ws).state = Replay(e)
<1>1. /\ b \in Block /\ Num[b] > 0 /\ e = Prev[b] /\ At(y, e)
  BY DEF Ready
<1>2. /\ IsDisk(y) /\ y.state = Replay(e) /\ HashesFit(y, e) /\ e \in Block
  BY <1>1 DEF At
<1>3. k \in Nat /\ (\E R : rows \in Seq(R)) /\ DOMAIN rows = 1 .. k
  <2>1. \E R : rows \in Seq(R)
    BY <1>1, <1>2, RowsAre
  <2> QED
    BY <2>1
<1>4. \A i \in 1 .. k : g[i] = rows[i]
  <2>1. g = [i \in 1 .. k + 1 |-> IF i =< k THEN rows[i] ELSE SumOf(b)]
    BY DEF WithSum
  <2>2. \A i \in 1 .. k : i \in 1 .. k + 1 /\ i =< k
    BY <1>3
  <2> QED
    BY <2>1, <2>2
<1>5. PICK L \in Nat : L = Len(y.act)
  BY <1>2, FilesAre
<1>6. PICK ids : ids = [i \in 1 .. k |-> L + i - 1]
  OBVIOUS
<1>7. ids \in [1 .. k -> Nat] /\ \A i \in 1 .. k : ids[i] = L + (i - 1)
  <2>1. \A i \in 1 .. k : L + i - 1 \in Nat /\ L + i - 1 = L + (i - 1)
    BY <1>3
  <2> QED
    BY <1>6, <2>1
<1>8. ws = [i \in 1 .. k |-> Put("act", L + i - 1, rows[i])]
  BY <1>3, <1>5 DEF LogWrites
<1>9. ArePuts(ws, "act", ids, rows, k, 0, L)
  <2>1. Len(ws) = k /\ \E W : ws \in Seq(W)
    <3>1. ws = [i \in 1 .. k |-> ws[i]]
      BY <1>8
    <3> QED
      BY <1>3, <3>1, MakeSeq
  <2>2. \A i \in 1 .. k : ws[i] = Put("act", ids[i], rows[i])
    BY <1>6, <1>8
  <2>3. \A i \in 0 + 1 .. k : ids[i] = L + (i - 1 - 0)
    BY <1>3, <1>7
  <2>4. \A i \in 1 .. 0 : FALSE
    OBVIOUS
  <2> QED
    BY <2>1, <2>2, <2>3, <2>4 DEF ArePuts
<1>10. /\ IsWrites(ws)
       /\ \A j \in 0 .. k : PutsDone(y, Disks(y, ws)[j], "act", ids, rows, j, 0, L)
  <2>1. "act" \in Files /\ 0 \in 0 .. k /\ L = Len(y["act"])
    BY <1>3, <1>5, FilesIn
  <2> QED
    BY <1>2, <1>3, <1>7, <1>9, <2>1, PutsAre
<1>11. ASSUME NEW j \in 0 .. k, NEW z, z = Disks(y, ws)[j] PROVE Midway(z, y, e, g, j) /\ z.state = Replay(e)
  <2>1. /\ IsDisk(z) /\ \A h \in Files : h # "act" => z[h] = y[h]
        /\ Len(z["act"]) = (IF j > 0 THEN L + (j - 0) ELSE L)
        /\ \A i \in 1 .. j : z["act"][ids[i] + 1] = rows[i]
        /\ \A a \in 0 .. L - 1 : (\A i \in 1 .. j : ids[i] # a) => z["act"][a + 1] = y["act"][a + 1]
    BY <1>10, <1>11 DEF PutsDone
  <2>2. z.prev = y.prev /\ z.smart = y.smart /\ z.state = y.state /\ z.hash = y.hash
    BY <2>1, FilesIn
  <2>3. Len(z.act) = L + j
    <3>0. PICK n : n = Len(z["act"])
      OBVIOUS
    <3>1. n = IF j > 0 THEN L + (j - 0) ELSE L
      BY <2>1, <3>0
    <3>2. n = L + j
      BY <1>3, <3>1
    <3> QED
      BY <3>0, <3>2
  <2>4. ASSUME NEW i \in 1 .. j PROVE z.act[L + i] = g[i]
    <3>1. i \in 1 .. k /\ ids[i] + 1 = L + i
      BY <1>3, <1>7
    <3> QED
      BY <1>4, <2>1, <3>1
  <2>5. ASSUME NEW i \in 1 .. L PROVE z.act[i] = y.act[i]
    <3>1. PICK a \in 0 .. L - 1 : i = a + 1
      <4>1. i - 1 \in 0 .. L - 1 /\ i = (i - 1) + 1
        OBVIOUS
      <4> QED
        BY <4>1
    <3>2. ASSUME NEW l \in 1 .. j PROVE ids[l] # a
      <4>1. l \in 1 .. k
        BY <1>3
      <4>2. ids[l] = L + (l - 1)
        BY <1>7, <4>1
      <4> QED
        BY <4>2
    <3> QED
      BY <2>1, <3>1, <3>2
  <2>6. Extends(z.act, y.act, g, j)
    BY <1>5, <2>3, <2>4, <2>5 DEF Extends
  <2>7. HashesFit(z, e)
    BY <1>2, <2>2 DEF HashesFit
  <2>8. Covered(z.state, e, g, j)
    <3>1. AccountsOf(e) \in Nat /\ Len(Replay(e)) = AccountsOf(e)
      BY <1>2, ReplayIs
    <3> QED
      BY <1>2, <2>2, <3>1 DEF Covered
  <2> QED
    BY <1>2, <2>1, <2>2, <2>6, <2>7, <2>8 DEF Midway
<1>12. Len(ws) = k
  BY <1>9 DEF ArePuts
<1>13. ASSUME NEW z \in Passes(y, ws) PROVE Good(z, c, u)
  <2>1. PICK j \in 0 .. k : z = Disks(y, ws)[j]
    BY <1>2, <1>10, <1>12, PassesOfPuts
  <2>2. j \in 0 .. k + 1
    BY <1>3
  <2>3. Midway(z, y, e, g, j)
    BY <1>11, <2>1
  <2> QED
    BY <2>2, <2>3, MidGood
<1>14. Midway(After(y, ws), y, e, g, k) /\ After(y, ws).state = Replay(e)
  <2>1. k \in 0 .. k /\ After(y, ws) = Disks(y, ws)[k]
    BY <1>3, <1>12 DEF After
  <2> QED
    BY <1>11, <2>1
<1> QED
  BY <1>10, <1>13, <1>14 DEF AllGood
-----------------------------------------------------------------------------
(* Then the new values: an account that has one is in the log, and all of  *)
(* them together are the state after the block.                            *)
NewStates(z, ws, b, e, g, k) ==
  /\ IsWrites(ws)
  /\ \A x \in Passes(z, ws) :
       /\ IsDisk(x) /\ x.act = z.act /\ x.prev = z.prev /\ x.hash = z.hash /\ x.smart = z.smart
       /\ Covered(x.state, e, g, k)
  /\ After(z, ws).state = Replay(b)

LEMMA NewValuesAre ==
  ASSUME NEW b \in Block, Num[b] > 0, NEW e, e = Prev[b], NEW y, y.state = Replay(e),
         NEW rows, rows = LogRows(y, b), NEW g, WithSum(g, rows, b),
         NEW m, NEW k, k = Len(rows), Group(g, b, e, m, k),
         NEW z, IsDisk(z), z.state = Replay(e), NEW ws, ws = NewValues(y, b)
  PROVE  NewStates(z, ws, b, e, g, k)
<1>1. /\ k \in Nat /\ m \in 0 .. k /\ k = m + NewCount[b]
      /\ \A i \in 1 .. m :
           /\ g[i].mode = "old" /\ g[i].id \in Nat /\ g[i].id \in Changes[b] /\ g[i].id < AccountsOf(e)
           /\ g[i].val = Replay(e)[g[i].id + 1]
      /\ \A i \in m + 1 .. k : g[i].mode = "new" /\ g[i].id = AccountsOf(e) + (i - 1 - m)
      /\ \A i, j \in 1 .. m : i # j => g[i].id # g[j].id
      /\ \A a \in Changes[b] : a < AccountsOf(e) => \E i \in 1 .. m : g[i].id = a
  BY DEF Group
<1>2. /\ e \in Block /\ AccountsOf(e) \in Nat /\ NewCount[b] \in Nat /\ AccountsOf(b) = AccountsOf(e) + NewCount[b]
  BY AccountsNext, ChildIs
<1>3. PICK A \in Nat : A = AccountsOf(e) /\ Len(Replay(e)) = A
  BY <1>2, ReplayIs
<1>4. DOMAIN rows = 1 .. k
  <2>1. \E R : rows \in Seq(R)
    BY RowsAre
  <2> QED
    BY <2>1
<1>5. \A i \in 1 .. k : g[i] = rows[i]
  <2>1. g = [i \in 1 .. k + 1 |-> IF i =< k THEN rows[i] ELSE SumOf(b)]
    BY DEF WithSum
  <2>2. \A i \in 1 .. k : i \in 1 .. k + 1 /\ i =< k
    BY <1>1
  <2> QED
    BY <2>1, <2>2
<1>6. PICK ids : ids = [i \in 1 .. k |-> g[i].id]
  OBVIOUS
<1>7. ids \in [1 .. k -> Nat] /\ \A i \in 1 .. k : ids[i] = g[i].id
  <2>1. \A i \in 1 .. k : g[i].id \in Nat
    <3>1. RowsFit(g, b, k)
      BY GroupRows
    <3> QED
      BY <3>1 DEF RowsFit
  <2> QED
    BY <1>6, <2>1
<1>8. PICK vals : vals = [i \in 1 .. k |-> {b} \cup (IF g[i].mode = "old" THEN g[i].val ELSE {})]
  OBVIOUS
<1>9. ws = [i \in 1 .. k |-> Put("state", ids[i], vals[i])]
  <2>1. ws = [i \in 1 .. k |-> Put("state", rows[i].id, {b} \cup (IF rows[i].mode = "old" THEN rows[i].val ELSE {}))]
    BY <1>4 DEF NewValues
  <2>2. \A i \in 1 .. k : Put("state", rows[i].id, {b} \cup (IF rows[i].mode = "old" THEN rows[i].val ELSE {}))
                          = Put("state", ids[i], vals[i])
    BY <1>5, <1>7, <1>8
  <2> QED
    BY <2>1, <2>2
<1>10. \A i \in m + 1 .. k : i \in 1 .. k /\ ids[i] = A + (i - 1 - m)
  <2>1. \A i \in m + 1 .. k : i \in 1 .. k
    BY <1>1
  <2> QED
    BY <1>1, <1>3, <1>7, <2>1
<1>11. \A i \in 1 .. m : i \in 1 .. k /\ ids[i] < A /\ ids[i] = g[i].id
  <2>1. \A i \in 1 .. m : i \in 1 .. k
    BY <1>1
  <2> QED
    BY <1>1, <1>3, <1>7, <2>1
<1>12. ArePuts(ws, "state", ids, vals, k, m, A)
  <2>1. Len(ws) = k /\ \E W : ws \in Seq(W)
    <3>1. ws = [i \in 1 .. k |-> ws[i]]
      BY <1>9
    <3> QED
      BY ZenonT(60), <1>1, <3>1, MakeSeq
  <2>2. \A i \in 1 .. k : ws[i] = Put("state", ids[i], vals[i])
    BY <1>9
  <2>3. \A i, j \in 1 .. m : i # j => ids[i] # ids[j]
    BY <1>1, <1>11
  <2> QED
    BY <1>10, <1>11, <2>1, <2>2, <2>3 DEF ArePuts
<1>13. /\ IsWrites(ws)
       /\ \A j \in 0 .. k : PutsDone(z, Disks(z, ws)[j], "state", ids, vals, j, m, A)
  <2>1. "state" \in Files /\ A = Len(z["state"])
    BY <1>3, FilesIn
  <2> QED
    BY <1>1, <1>7, <1>12, <2>1, PutsAre
<1>14. Len(ws) = k
  BY <1>12 DEF ArePuts
<1>15. ASSUME NEW x \in Passes(z, ws)
       PROVE  /\ IsDisk(x) /\ x.act = z.act /\ x.prev = z.prev /\ x.hash = z.hash /\ x.smart = z.smart
              /\ Covered(x.state, e, g, k)
  <2>1. PICK j \in 0 .. k : x = Disks(z, ws)[j]
    BY <1>13, <1>14, PassesOfPuts
  <2>2. PutsDone(z, x, "state", ids, vals, j, m, A)
    BY <1>13, <2>1
  <2>3. /\ IsDisk(x) /\ \A h \in Files : h # "state" => x[h] = z[h]
        /\ Len(x["state"]) = (IF j > m THEN A + (j - m) ELSE A)
        /\ \A a \in 0 .. A - 1 : (\A i \in 1 .. j : ids[i] # a) => x["state"][a + 1] = z["state"][a + 1]
    BY <2>2 DEF PutsDone
  <2>4. x.act = z.act /\ x.prev = z.prev /\ x.hash = z.hash /\ x.smart = z.smart
    BY <2>3, FilesIn
  <2>5. PICK n : n = Len(x["state"]) /\ n = IF j > m THEN A + (j - m) ELSE A
    BY <2>3
  <2>6. A =< n /\ (A < n => j > m)
    BY <1>1, <2>5
  <2>7. ASSUME NEW a \in 0 .. A - 1
        PROVE  \/ x.state[a + 1] = Replay(e)[a + 1]
               \/ \E i \in 1 .. k : g[i].mode = "old" /\ g[i].id = a
    <3>1. CASE \A i \in 1 .. j : ids[i] # a
      BY <2>3, <3>1
    <3>2. CASE \E i \in 1 .. j : ids[i] = a
      <4>1. PICK i \in 1 .. j : ids[i] = a
        BY <3>2
      <4>2. i \in 1 .. k
        BY <1>1
      <4>3. i \in 1 .. m
        <5>1. CASE i \in m + 1 .. k
          <6>1. ids[i] = A + (i - 1 - m)
            BY <1>10, <5>1
          <6> QED
            BY <1>1, <4>1, <5>1, <6>1
        <5> QED
          BY <1>1, <4>2, <5>1
      <4> QED
        BY <1>1, <1>11, <4>1, <4>2, <4>3
    <3> QED
      BY <3>1, <3>2
  <2>8. ASSUME A < n PROVE \E i \in 1 .. k : g[i].mode = "new"
    <3>1. m + 1 \in m + 1 .. k /\ m + 1 \in 1 .. k
      BY <1>1, <2>6, <2>8
    <3> QED
      BY <1>1, <3>1
  <2>9. Covered(x.state, e, g, k)
    BY <1>3, <2>5, <2>6, <2>7, <2>8 DEF Covered
  <2> QED
    BY <2>3, <2>4, <2>9
<1>16. After(z, ws).state = Replay(b)
  <2>1. PICK x : x = After(z, ws)
    OBVIOUS
  <2>2. x = Disks(z, ws)[k] /\ k \in 0 .. k
    BY <1>1, <1>14, <2>1 DEF After
  <2>3. PutsDone(z, x, "state", ids, vals, k, m, A)
    BY <1>13, <2>2
  <2>4. /\ IsDisk(x)
        /\ Len(x["state"]) = (IF k > m THEN A + (k - m) ELSE A)
        /\ \A i \in 1 .. k : x["state"][ids[i] + 1] = vals[i]
        /\ \A a \in 0 .. A - 1 : (\A i \in 1 .. k : ids[i] # a) => x["state"][a + 1] = z["state"][a + 1]
    BY <2>3 DEF PutsDone
  <2>5. PICK n : n = Len(x["state"]) /\ n = IF k > m THEN A + (k - m) ELSE A
    BY <2>4
  <2>6. n = AccountsOf(b)
    BY <1>1, <1>2, <1>3, <2>5
  <2>7. /\ \A a \in 0 .. A - 1 :
             /\ a \in Changes[b] => Replay(b)[a + 1] = {b} \cup Replay(e)[a + 1]
             /\ a \notin Changes[b] => Replay(b)[a + 1] = Replay(e)[a + 1]
        /\ \A a \in A .. AccountsOf(b) - 1 : Replay(b)[a + 1] = {b}
    BY <1>3, ReplayNext
  <2>8. ASSUME NEW a \in 0 .. n - 1 PROVE x.state[a + 1] = Replay(b)[a + 1]
    <3>1. CASE a < A /\ a \in Changes[b]
      <4>1. a \in 0 .. A - 1
        BY <1>3, <3>1
      <4>2. PICK i \in 1 .. m : g[i].id = a
        BY <1>1, <1>3, <3>1
      <4>3. i \in 1 .. k /\ ids[i] = a /\ g[i].mode = "old" /\ g[i].val = Replay(e)[a + 1]
        BY <1>1, <1>11, <4>2
      <4>4. vals[i] = {b} \cup Replay(e)[a + 1]
        BY <1>8, <4>3
      <4>5. x["state"][ids[i] + 1] = vals[i]
        BY <2>4, <4>3
      <4> QED
        BY <2>7, <3>1, <4>1, <4>3, <4>4, <4>5
    <3>2. CASE a < A /\ a \notin Changes[b]
      <4>1. a \in 0 .. A - 1
        BY <1>3, <3>2
      <4>2. \A i \in 1 .. k : ids[i] # a
        <5>1. ASSUME NEW i \in 1 .. k, ids[i] = a PROVE FALSE
          <6>1. CASE i \in 1 .. m
            BY <1>1, <1>11, <3>2, <5>1, <6>1
          <6>2. CASE i \notin 1 .. m
            <7>1. i \in m + 1 .. k
              BY <1>1, <6>2
            <7>2. ids[i] = A + (i - 1 - m)
              BY <1>10, <7>1
            <7> QED
              BY <1>1, <3>2, <5>1, <7>1, <7>2
          <6> QED
            BY <6>1, <6>2
        <5> QED
          BY <5>1
      <4> QED
        BY <2>4, <2>7, <3>2, <4>1, <4>2
    <3>3. CASE a >= A
      <4>1. PICK i \in m + 1 .. k : i = m + 1 + (a - A)
        <5>1. m + 1 + (a - A) \in m + 1 .. k
          BY <1>1, <1>2, <1>3, <2>6, <3>3
        <5> QED
          BY <5>1
      <4>2. i \in 1 .. k /\ ids[i] = a
        <5>1. i \in 1 .. k /\ ids[i] = A + (i - 1 - m)
          BY <1>10
        <5> QED
          BY <1>1, <3>3, <4>1, <5>1
      <4>3. vals[i] = {b}
        BY <1>1, <1>8, <4>2
      <4>4. a \in A .. AccountsOf(b) - 1
        BY <1>2, <1>3, <2>6, <3>3
      <4>5. x["state"][ids[i] + 1] = vals[i]
        BY <2>4, <4>2
      <4> QED
        BY <2>7, <4>2, <4>3, <4>4, <4>5
    <3> QED
      BY <1>3, <3>1, <3>2, <3>3
  <2>9. ASSUME NEW i \in 1 .. n PROVE x.state[i] = Replay(b)[i]
    <3>1. PICK a \in 0 .. n - 1 : i = a + 1
      <4>1. i - 1 \in 0 .. n - 1 /\ i = (i - 1) + 1
        BY <1>2, <2>6
      <4> QED
        BY <4>1
    <3> QED
      BY <2>8, <3>1
  <2>10. (\E R : x.state \in Seq(R)) /\ (\E R : Replay(b) \in Seq(R)) /\ Len(Replay(b)) = n /\ Len(x.state) = n
    BY <2>4, <2>5, <2>6, FilesAre, ReplayIs
  <2> QED
    BY <2>1, <2>9, <2>10, SameSeq
<1> QED
  BY <1>13, <1>15, <1>16 DEF NewStates
-----------------------------------------------------------------------------
(* Then the hash of every Period-th block and the row of hashes.           *)
LEMMA MultipleIs ==
  ASSUME NEW n \in Nat, NEW q \in Nat, q > 0, NEW k \in Nat, k * q = n
  PROVE  n % q = 0 /\ n \div q = k
<1>1. /\ n \div q \in Nat /\ n % q \in 0 .. q - 1
      /\ n = q * (n \div q) + (n % q)
  OBVIOUS
<1>2. PICK m \in Nat, r \in 0 .. q - 1 : m = n \div q /\ r = n % q /\ n = q * m + r
  BY <1>1
<1>3. k =< m
  BY <1>2, DivideIs
<1>4. m = k
  <2>1. ASSUME m > k PROVE FALSE
    <3>1. PICK j \in Nat : m = k + 1 + j
      <4>1. m - k - 1 \in Nat /\ m = k + 1 + (m - k - 1)
        BY <2>1
      <4> QED
        BY <4>1
    <3>2. q * m = k * q + q + j * q /\ j * q \in Nat
      BY <3>1
    <3> QED
      BY <1>2, <3>2
  <2> QED
    BY <1>3, <2>1
<1>5. r = 0
  <2>1. q * m = n
    BY <1>4
  <2>2. q * m \in Nat
    OBVIOUS
  <2> QED
    BY <1>2, <2>1, <2>2
<1> QED
  BY <1>2, <1>4, <1>5

HashWrites(b, sum) ==
  IF Num[b] % Period = 0 THEN << Put("hash", Num[b] \div Period, sum), Cut("hash", Num[b] \div Period) >>
  ELSE << >>

(* The hashes of the blocks before stay, whatever is written for this one. *)
LEMMA HashPut ==
  ASSUME NEW x, IsDisk(x), NEW b \in Block, Num[b] > 0, NEW e, e = Prev[b], HashesFit(x, e),
         Num[b] % Period = 0, NEW q \in Nat, q = Num[b] \div Period,
         NEW row, NEW z, z = Write(x, Put("hash", q, row))
  PROVE  /\ IsDisk(z) /\ HashesFit(z, e)
         /\ z.state = x.state /\ z.act = x.act /\ z.prev = x.prev /\ z.smart = x.smart
         /\ q < Len(z.hash) /\ z.hash[q + 1] = row
<1>1. /\ Num[e] \in Nat /\ Num[b] = Num[e] + 1 /\ Num[b] \in Nat /\ Period \in Nat /\ Period > 0
  BY ChildIs, TxAssumption
<1>2. \A k \in Nat : k * Period < Num[b] => k < q
  BY <1>1, DivideIs
<1>3. PICK f \in Files : f = "hash"
  BY FilesIn
<1>4. /\ IsDisk(z)
      /\ \A g \in Files : g # f => z[g] = x[g]
      /\ Len(z[f]) = (IF q < Len(x[f]) THEN Len(x[f]) ELSE q + 1)
      /\ z[f][q + 1] = row
      /\ \A i \in 1 .. Len(z[f]) : i # q + 1 => z[f][i] = IF i =< Len(x[f]) THEN x[f][i] ELSE Zero
  <2>1. z = Write(x, Put(f, q, row))
    BY <1>3
  <2> QED
    BY <2>1, PutIs
<1>5. PICK H \in Nat : H = Len(x.hash)
  BY FilesAre
<1>6. PICK G : G = Len(z.hash) /\ G = IF q < H THEN H ELSE q + 1
  BY <1>3, <1>4, <1>5
<1>7. G \in Nat /\ q < G /\ H =< G
  BY <1>6
<1>8. ASSUME NEW k \in 1 .. MaxNum, k * Period =< Num[e]
      PROVE  k < Len(z.hash) /\ z.hash[k + 1] = [blk |-> Anc[e][k * Period], acc |-> Replay(Anc[e][k * Period])]
  <2>1. k \in Nat /\ k * Period \in Nat
    BY <1>1
  <2>2. k < q
    <3>1. k * Period < Num[b]
      BY <1>1, <1>8, <2>1
    <3> QED
      BY <1>2, <2>1, <3>1
  <2>3. k < H /\ x.hash[k + 1] = [blk |-> Anc[e][k * Period], acc |-> Replay(Anc[e][k * Period])]
    BY <1>5, <1>8 DEF HashesFit
  <2>4. k + 1 \in 1 .. G /\ k + 1 # q + 1 /\ k + 1 =< H
    BY <1>7, <2>1, <2>2, <2>3
  <2>5. z.hash[k + 1] = x.hash[k + 1]
    BY <1>3, <1>4, <1>5, <1>6, <2>4
  <2> QED
    BY <1>6, <1>7, <2>1, <2>3, <2>4, <2>5
<1>9. HashesFit(z, e)
  BY <1>8 DEF HashesFit
<1> QED
  BY <1>3, <1>4, <1>6, <1>7, <1>9, FilesIn

(* All hashes up to the block are there when its own is.                   *)
LEMMA HashesNext ==
  ASSUME NEW x, NEW b \in Block, Num[b] > 0, NEW e, e = Prev[b], HashesFit(x, e),
         Num[b] % Period = 0 => /\ Num[b] \div Period < Len(x.hash)
                                /\ x.hash[(Num[b] \div Period) + 1] = [blk |-> b, acc |-> Replay(b)]
  PROVE  HashesFit(x, b)
<1>1. /\ Num[e] \in Nat /\ Num[b] = Num[e] + 1 /\ Num[b] \in Nat /\ Period \in Nat /\ Period > 0
      /\ \A n \in 0 .. Num[e] : Anc[b][n] = Anc[e][n]
  BY ChildIs, TxAssumption
<1>2. Anc[b][Num[b]] = b
  BY ChainIs
<1>3. ASSUME NEW k \in 1 .. MaxNum, k * Period =< Num[b]
      PROVE  k < Len(x.hash) /\ x.hash[k + 1] = [blk |-> Anc[b][k * Period], acc |-> Replay(Anc[b][k * Period])]
  <2>1. k \in Nat
    OBVIOUS
  <2>2. PICK n \in Nat : n = k * Period
    BY <1>1, <2>1
  <2>3. CASE n = Num[b]
    <3>0. PICK q \in Nat : q = Period /\ q > 0 /\ n = k * q
      BY <1>1, <2>2
    <3>1. Num[b] % Period = 0 /\ Num[b] \div Period = k
      <4>1. k * q = n
        BY <3>0
      <4>2. n % q = 0 /\ n \div q = k
        BY <2>1, <3>0, <4>1, MultipleIs
      <4> QED
        BY <2>3, <3>0, <4>2
    <3> QED
      BY <1>2, <2>2, <2>3, <3>1
  <2>4. CASE n # Num[b]
    <3>1. n =< Num[e] /\ n \in 0 .. Num[e]
      BY <1>1, <1>3, <2>2, <2>4
    <3>2. Anc[b][n] = Anc[e][n]
      BY <1>1, <3>1
    <3> QED
      BY <2>2, <3>1, <3>2 DEF HashesFit
  <2> QED
    BY <2>3, <2>4
<1> QED
  BY <1>3 DEF HashesFit

(* Only the hashes change.                                                 *)
LEMMA MidSame ==
  ASSUME NEW z, NEW y, NEW e, NEW g, NEW j, Midway(z, y, e, g, j), NEW x, IsDisk(x), HashesFit(x, e),
         x.state = z.state, x.act = z.act, x.prev = z.prev, x.smart = z.smart
  PROVE  Midway(x, y, e, g, j)
BY DEF Midway

LEMMA HashesAre ==
  ASSUME NEW y, NEW b, NEW e, NEW c, NEW u, Ready(y, b, e, c, u), NEW g, NEW m, NEW k, Group(g, b, e, m, k),
         NEW z, Midway(z, y, e, g, k), z.state = Replay(b),
         NEW ws, ws = HashWrites(b, [blk |-> b, acc |-> Replay(b)])
  PROVE  /\ AllGood(z, ws, c, u)
         /\ Midway(After(z, ws), y, e, g, k) /\ After(z, ws).state = Replay(b)
         /\ HashesFit(After(z, ws), b)
<1>1. b \in Block /\ Num[b] > 0 /\ e = Prev[b]
  BY DEF Ready
<1>2. IsDisk(z) /\ HashesFit(z, e)
  BY DEF Midway
<1>3. k \in Nat /\ k \in 0 .. k + 1
  BY DEF Group
<1>4. \A x : Midway(x, y, e, g, k) => Good(x, c, u)
  BY <1>3, MidGood
<1>5. PICK row : row = [blk |-> b, acc |-> Replay(b)]
  OBVIOUS
<1>6. Num[b] \in Nat /\ Num[e] \in Nat /\ Num[b] = Num[e] + 1 /\ e \in Block
  BY <1>1, ChildIs
<1>7. CASE Num[b] % Period = 0
  <2>1. PICK q \in Nat : q = Num[b] \div Period
    BY <1>6, DivideIs, TxAssumption
  <2>2. ws = << Put("hash", q, row), Cut("hash", q) >>
    BY <1>5, <1>7, <2>1 DEF HashWrites
  <2>3. ws = << Put("hash", q, row) >> \o << Cut("hash", q) >>
    BY <2>2
  <2>4. IsWrite(Put("hash", q, row)) /\ IsWrite(Cut("hash", q))
    <3>1. "hash" \in Files /\ q \in Int /\ q >= -1
      BY FilesIn
    <3> QED
      BY <3>1, PutIsWrite, CutIsWrite
  <2>5. PICK x : x = Write(z, Put("hash", q, row))
    OBVIOUS
  <2>6. /\ IsDisk(x) /\ HashesFit(x, e)
        /\ x.state = z.state /\ x.act = z.act /\ x.prev = z.prev /\ x.smart = z.smart
        /\ q < Len(x.hash) /\ x.hash[q + 1] = row
    BY <1>1, <1>2, <1>7, <2>1, <2>5, HashPut
  <2>7. Midway(x, y, e, g, k)
    BY <2>6, MidSame
  <2>8. PICK v : v = Write(x, Cut("hash", q))
    OBVIOUS
  <2>9. /\ IsDisk(v) /\ HashesFit(v, e)
        /\ v.state = x.state /\ v.act = x.act /\ v.prev = x.prev /\ v.smart = x.smart
    <3>1. v = Write(x, Cut("hash", Num[b] \div Period))
      BY <2>1, <2>8
    <3> QED
      BY <1>6, <2>6, <3>1, HashCut
  <2>10. q < Len(v.hash) /\ v.hash[q + 1] = row
    <3>1. Len(x.hash) \in Nat
      BY <2>6, FilesAre
    <3>2. "hash" \in Files /\ q \in Int /\ q >= -1
      BY FilesIn
    <3>3. /\ Len(v["hash"]) = q + 1
          /\ \A i \in 1 .. q + 1 : v["hash"][i] = IF i =< Len(x["hash"]) THEN x["hash"][i] ELSE Zero
      BY <2>6, <2>8, <3>2, CutIs
    <3>4. q + 1 \in 1 .. q + 1 /\ q + 1 =< Len(x.hash)
      BY <2>6, <3>1
    <3>5. v.hash[q + 1] = x.hash[q + 1]
      BY <3>3, <3>4
    <3> QED
      BY <2>6, <3>3, <3>5
  <2>11. Midway(v, y, e, g, k) /\ v.state = Replay(b)
    BY <2>6, <2>7, <2>9, MidSame
  <2>12. HashesFit(v, b)
    BY <1>1, <1>5, <2>1, <2>9, <2>10, HashesNext
  <2>13. Good(z, c, u) /\ Good(x, c, u) /\ Good(v, c, u)
    BY <1>4, <2>7, <2>11
  <2>14. AllGood(z, << Put("hash", q, row) >>, c, u) /\ After(z, << Put("hash", q, row) >>) = x
    BY <2>4, <2>5, <2>13, OneGood
  <2>15. AllGood(x, << Cut("hash", q) >>, c, u) /\ After(x, << Cut("hash", q) >>) = v
    BY <2>4, <2>8, <2>13, OneGood
  <2>16. AllGood(z, ws, c, u) /\ After(z, ws) = v
    <3>1. PICK A : A = << Put("hash", q, row) >>
      OBVIOUS
    <3>2. PICK B : B = << Cut("hash", q) >>
      OBVIOUS
    <3>3. AllGood(z, A, c, u) /\ After(z, A) = x /\ AllGood(x, B, c, u) /\ After(x, B) = v /\ ws = A \o B
      BY <2>3, <2>14, <2>15, <3>1, <3>2
    <3>4. AllGood(z, A \o B, c, u) /\ After(z, A \o B) = After(After(z, A), B)
      BY <1>2, <3>3, GoodJoined
    <3> QED
      BY <3>3, <3>4
  <2> QED
    BY <2>11, <2>12, <2>16
<1>8. CASE Num[b] % Period # 0
  <2>1. ws = << >>
    BY <1>8 DEF HashWrites
  <2>2. Good(z, c, u)
    BY <1>4
  <2>3. AllGood(z, ws, c, u) /\ After(z, ws) = z
    BY <2>1, <2>2, NoneGood
  <2>4. HashesFit(z, b)
    BY <1>1, <1>2, <1>8, HashesNext
  <2> QED
    BY <2>3, <2>4
<1> QED
  BY <1>7, <1>8

(* What is on the disk when block b has been executed.                     *)
Committed(x, b, c, u) ==
  /\ At(x, b) /\ x.smart = Smarts(b) /\ Log(x) # << >> /\ Rem(x, c) /\ (u => Unrotated(x))

LEMMA LastRow ==
  ASSUME NEW y, NEW b, NEW e, NEW c, NEW u, Ready(y, b, e, c, u), NEW g, NEW m, NEW k, Group(g, b, e, m, k),
         g[k + 1] = SumOf(b),
         NEW z, Midway(z, y, e, g, k), z.state = Replay(b), HashesFit(z, b),
         NEW ws, ws = << Put("act", Len(y.act) + k, SumOf(b)) >>
  PROVE  AllGood(z, ws, c, u) /\ Committed(After(z, ws), b, c, u)
<1>1. /\ b \in Block /\ Num[b] > 0 /\ e = Prev[b] /\ At(y, e) /\ y.smart = Smarts(b)
  BY DEF Ready
<1>2. /\ IsDisk(z) /\ z.prev = y.prev /\ z.smart = y.smart /\ HashesFit(z, e)
      /\ Extends(z.act, y.act, g, k) /\ Covered(z.state, e, g, k)
  BY DEF Midway
<1>3. k \in Nat
  BY DEF Group
<1>4. PICK L \in Nat : L = Len(y.act)
  BY <1>1, FilesAre DEF At
<1>5. PICK w : w = Put("act", L + k, SumOf(b))
  OBVIOUS
<1>6. PICK x : x = Write(z, w)
  OBVIOUS
<1>7. "act" \in Files /\ L + k \in Nat
  BY <1>3, FilesIn
<1>8. /\ Len(z.act) = L + k
      /\ \A i \in 1 .. L : z.act[i] = y.act[i]
      /\ \A i \in 1 .. k : z.act[L + i] = g[i]
  BY <1>2, <1>4 DEF Extends
<1>9. /\ IsDisk(x)
      /\ \A h \in Files : h # "act" => x[h] = z[h]
      /\ Len(x["act"]) = (IF L + k < Len(z["act"]) THEN Len(z["act"]) ELSE L + k + 1)
      /\ x["act"][L + k + 1] = SumOf(b)
      /\ \A i \in 1 .. Len(x["act"]) : i # L + k + 1 => x["act"][i] = IF i =< Len(z["act"]) THEN z["act"][i] ELSE Zero
  BY <1>2, <1>5, <1>6, <1>7, PutIs
<1>10. Len(x.act) = L + k + 1
  BY <1>3, <1>8, <1>9
<1>11. \A i \in 1 .. L + k : x.act[i] = z.act[i]
  <2>1. ASSUME NEW i \in 1 .. L + k PROVE x.act[i] = z.act[i]
    <3>1. i \in 1 .. L + k + 1 /\ i # L + k + 1 /\ i =< L + k
      BY <1>3
    <3> QED
      BY <1>8, <1>9, <1>10, <3>1
  <2> QED
    BY <2>1
<1>12. Extends(x.act, y.act, g, k + 1)
  <2>1. ASSUME NEW i \in 1 .. L PROVE x.act[i] = y.act[i]
    <3>1. i \in 1 .. L + k
      BY <1>3
    <3> QED
      BY <1>8, <1>11, <3>1
  <2>2. ASSUME NEW i \in 1 .. k + 1 PROVE x.act[L + i] = g[i]
    <3>1. CASE i = k + 1
      <4>1. L + i = L + k + 1
        BY <1>3, <3>1
      <4> QED
        BY <1>9, <3>1, <4>1
    <3>2. CASE i # k + 1
      <4>1. i \in 1 .. k /\ L + i \in 1 .. L + k
        BY <1>3, <3>2
      <4> QED
        BY <1>8, <1>11, <4>1
    <3> QED
      BY <3>1, <3>2
  <2>3. Len(x.act) = L + (k + 1)
    BY <1>3, <1>10
  <2> QED
    BY <1>4, <2>1, <2>2, <2>3 DEF Extends
<1>13. x.prev = z.prev /\ x.smart = z.smart /\ x.state = z.state /\ x.hash = z.hash
  BY <1>9, FilesIn
<1>14. HashesFit(x, e) /\ HashesFit(x, b)
  BY <1>2, <1>13 DEF HashesFit
<1>15. Covered(x.state, e, g, k + 1)
  <2>1. \A i \in 1 .. k : i \in 1 .. k + 1
    BY <1>3
  <2> QED
    BY <1>2, <1>13, <2>1 DEF Covered
<1>16. Midway(x, y, e, g, k + 1)
  BY <1>2, <1>9, <1>12, <1>13, <1>14, <1>15 DEF Midway
<1>17. PICK j \in 1 .. k + 1 : j = k + 1
  BY <1>3
<1>18. Undoable(x, b) /\ Rem(x, c) /\ (u => Unrotated(x)) /\ Log(x) = x.act /\ x.act # << >>
  BY <1>16, <1>17, MidUndoable
<1>19. LogOk(x, b)
  BY <1>18 DEF Undoable
<1>20. Log(x)[Len(Log(x))].mode = "sum"
  BY <1>9, <1>10, <1>18 DEF SumOf
<1>21. SmartFits(x, b) /\ x.smart = Smarts(b)
  BY <1>1, <1>2, <1>13, SmartsFit
<1>22. At(x, b)
  BY <1>1, <1>9, <1>13, <1>14, <1>19, <1>20, <1>21 DEF At
<1>23. Good(z, c, u)
  <2>1. k \in 0 .. k + 1
    BY <1>3
  <2> QED
    BY <2>1, MidGood
<1>24. Good(x, c, u)
  BY <1>18, <1>22, AtGood
<1>25. IsWrite(w)
  BY <1>5, <1>7, PutIsWrite
<1>26. AllGood(z, << w >>, c, u) /\ After(z, << w >>) = x
  BY <1>6, <1>23, <1>24, <1>25, OneGood
<1>27. Committed(x, b, c, u)
  BY <1>18, <1>21, <1>22 DEF Committed
<1> QED
  BY <1>4, <1>5, <1>26, <1>27
-----------------------------------------------------------------------------
(* All of CommitBlock.                                                     *)
LEMMA CommitIs ==
  ASSUME NEW y, NEW b, NEW e, NEW c, NEW u, Ready(y, b, e, c, u), NEW ws, ws = Commit(y, b)
  PROVE  AllGood(y, ws, c, u) /\ Committed(After(y, ws), b, c, u)
<1>1. /\ b \in Block /\ Num[b] > 0 /\ e = Prev[b] /\ At(y, e)
  BY DEF Ready
<1>2. IsDisk(y) /\ y.state = Replay(e)
  BY <1>1 DEF At
<1>3. PICK rows : rows = LogRows(y, b)
  OBVIOUS
<1>4. PICK g : WithSum(g, rows, b)
  BY DEF WithSum
<1>5. PICK m : Group(g, b, e, m, Len(rows))
  BY <1>1, <1>2, <1>3, <1>4, RowsAre
<1>6. PICK k \in Nat : k = Len(rows) /\ Group(g, b, e, m, k)
  <2>1. Len(rows) \in Nat
    BY <1>5 DEF Group
  <2> QED
    BY <1>5, <2>1
<1>7. g[k + 1] = SumOf(b)
  <2>1. g = [i \in 1 .. k + 1 |-> IF i =< k THEN rows[i] ELSE SumOf(b)]
    BY <1>4, <1>6 DEF WithSum
  <2>2. k + 1 \in 1 .. k + 1 /\ ~(k + 1 =< k)
    OBVIOUS
  <2> QED
    BY <2>1, <2>2
<1>8. PICK A : A = LogWrites(y, b)
  OBVIOUS
<1>9. PICK B : B = NewValues(y, b)
  OBVIOUS
<1>10. PICK sum : sum = [blk |-> b, acc |-> Replay(b)]
  OBVIOUS
<1>11. PICK C : C = HashWrites(b, sum)
  OBVIOUS
<1>12. PICK D : D = << Put("act", Len(y.act) + k, SumOf(b)) >>
  OBVIOUS
<1>13. PICK z1 : z1 = After(y, A)
  OBVIOUS
<1>14. AllGood(y, A, c, u) /\ Midway(z1, y, e, g, k) /\ z1.state = Replay(e)
  BY <1>3, <1>4, <1>6, <1>8, <1>13, LogWritesAre
<1>15. IsDisk(z1)
  BY <1>14 DEF Midway
<1>16. NewStates(y, B, b, e, g, k) /\ NewStates(z1, B, b, e, g, k)
  <2>1. NewStates(y, B, b, e, g, k)
    BY <1>1, <1>2, <1>3, <1>4, <1>6, <1>9, NewValuesAre
  <2>2. NewStates(z1, B, b, e, g, k)
    BY <1>1, <1>2, <1>3, <1>4, <1>6, <1>9, <1>14, <1>15, NewValuesAre
  <2> QED
    BY <2>1, <2>2
<1>17. Hashes(y, b) = C \o D
  <2>1. After(y, NewValues(y, b)).state = Replay(b)
    BY <1>9, <1>16 DEF NewStates
  <2> QED
    BY <1>3, <1>6, <1>10, <1>11, <1>12, <2>1 DEF Hashes, HashWrites, SumOf
<1>18. ws = (A \o B) \o (C \o D)
  BY <1>8, <1>9, <1>17 DEF Commit
<1>19. PICK z2 : z2 = After(z1, B)
  OBVIOUS
<1>20. ASSUME NEW x \in Passes(z1, B) PROVE Midway(x, y, e, g, k)
  <2>1. /\ IsDisk(x) /\ x.act = z1.act /\ x.prev = z1.prev /\ x.hash = z1.hash /\ x.smart = z1.smart
        /\ Covered(x.state, e, g, k)
    BY <1>16 DEF NewStates
  <2>2. /\ z1.prev = y.prev /\ z1.smart = y.smart /\ HashesFit(z1, e)
        /\ Extends(z1.act, y.act, g, k)
    BY <1>14 DEF Midway
  <2>3. HashesFit(x, e)
    BY <2>1, <2>2 DEF HashesFit
  <2> QED
    BY <2>1, <2>2, <2>3 DEF Midway
<1>21. AllGood(z1, B, c, u) /\ Midway(z2, y, e, g, k) /\ z2.state = Replay(b)
  <2>1. IsWrites(B) /\ z2.state = Replay(b)
    BY <1>16, <1>19 DEF NewStates
  <2>2. k \in 0 .. k + 1
    OBVIOUS
  <2>3. \A x \in Passes(z1, B) : Good(x, c, u)
    BY <1>6, <1>20, <2>2, MidGood
  <2>4. z2 \in Passes(z1, B)
    BY <1>15, <1>19, <2>1, PassesAre
  <2> QED
    BY <1>20, <2>1, <2>3, <2>4 DEF AllGood
<1>22. IsDisk(z2)
  BY <1>21 DEF Midway
<1>23. PICK z3 : z3 = After(z2, C)
  OBVIOUS
<1>24. AllGood(z2, C, c, u) /\ Midway(z3, y, e, g, k) /\ z3.state = Replay(b) /\ HashesFit(z3, b)
  BY <1>6, <1>10, <1>11, <1>21, <1>23, HashesAre
<1>25. PICK z4 : z4 = After(z3, D)
  OBVIOUS
<1>26. AllGood(z3, D, c, u) /\ Committed(z4, b, c, u)
  BY <1>6, <1>7, <1>12, <1>24, <1>25, LastRow
<1>27. PICK E : E = C \o D
  OBVIOUS
<1>28. AllGood(z2, E, c, u) /\ After(z2, E) = z4
  BY <1>22, <1>23, <1>24, <1>25, <1>26, <1>27, GoodJoined
<1>29. PICK F : F = A \o B
  OBVIOUS
<1>30. AllGood(y, F, c, u) /\ After(y, F) = z2
  BY <1>2, <1>13, <1>14, <1>19, <1>21, <1>29, GoodJoined
<1>31. AllGood(y, F \o E, c, u) /\ After(y, F \o E) = z4
  BY <1>2, <1>28, <1>30, GoodJoined
<1> QED
  BY <1>18, <1>26, <1>27, <1>29, <1>31

(* A block can be executed on what its predecessor has left.               *)
Before(d, b, e, c, u) ==
  /\ b \in Block /\ Num[b] > 0 /\ e = Prev[b]
  /\ At(d, e) /\ d.smart = Smarts(e) /\ (Log(d) = << >> => Num[b] = 1)
  /\ Rem(d, c) /\ (u => Unrotated(d))

MakeWrites(d, b) == IF b \in Smart THEN << Put("smart", Len(d.smart), b) >> ELSE << >>

LEMMA MakeIs ==
  ASSUME NEW d, NEW b, NEW e, NEW c, NEW u, Before(d, b, e, c, u), NEW ws, ws = MakeWrites(d, b)
  PROVE  AllGood(d, ws, c, u) /\ Ready(After(d, ws), b, e, c, u)
<1>1. /\ b \in Block /\ Num[b] > 0 /\ e = Prev[b] /\ At(d, e) /\ d.smart = Smarts(e)
      /\ (Log(d) = << >> => Num[b] = 1) /\ Rem(d, c) /\ (u => Unrotated(d))
  BY DEF Before
<1>2. IsDisk(d) /\ e \in Block /\ HashesFit(d, e)
  BY <1>1 DEF At
<1>3. PICK s \in Nat : /\ s = Len(Smarts(e)) /\ s = Len(d.smart)
                       /\ \A i \in 1 .. s : Smarts(b)[i] = Smarts(e)[i]
                       /\ b \notin Smart => Len(Smarts(b)) = s
                       /\ b \in Smart => Len(Smarts(b)) = s + 1 /\ Smarts(b)[s + 1] = b
  BY <1>1, SmartsNext
<1>4. Good(d, c, u)
  BY <1>1, AtGood
<1>5. (\E R : Smarts(b) \in Seq(R)) /\ (\E R : d.smart \in Seq(R))
  BY <1>1, <1>2, SmartsIs, FilesAre
<1>6. CASE b \notin Smart
  <2>1. ws = << >>
    BY <1>6 DEF MakeWrites
  <2>2. AllGood(d, ws, c, u) /\ After(d, ws) = d
    BY <1>4, <2>1, NoneGood
  <2>3. d.smart = Smarts(b)
    <3>1. Len(d.smart) = Len(Smarts(b)) /\ \A i \in 1 .. Len(d.smart) : d.smart[i] = Smarts(b)[i]
      BY <1>1, <1>3, <1>6
    <3> QED
      BY <1>5, <3>1, SameSeq
  <2> QED
    BY <1>1, <2>2, <2>3 DEF Ready
<1>7. CASE b \in Smart
  <2>1. PICK w : w = Put("smart", s, b)
    OBVIOUS
  <2>2. ws = << w >>
    BY <1>3, <1>7, <2>1 DEF MakeWrites
  <2>3. PICK f \in Files : f = "smart"
    BY FilesIn
  <2>4. PICK x : x = Write(d, w)
    OBVIOUS
  <2>5. /\ IsDisk(x)
        /\ \A g \in Files : g # f => x[g] = d[g]
        /\ Len(x[f]) = (IF s < Len(d[f]) THEN Len(d[f]) ELSE s + 1)
        /\ x[f][s + 1] = b
        /\ \A i \in 1 .. Len(x[f]) : i # s + 1 => x[f][i] = IF i =< Len(d[f]) THEN d[f][i] ELSE Zero
    <3>1. x = Write(d, Put(f, s, b))
      BY <2>1, <2>3, <2>4
    <3> QED
      BY <1>2, <3>1, PutIs
  <2>6. x.state = d.state /\ x.act = d.act /\ x.prev = d.prev /\ x.hash = d.hash
    BY <2>3, <2>5, FilesIn
  <2>7. Len(x.smart) = s + 1 /\ x.smart[s + 1] = b /\ \A i \in 1 .. s : x.smart[i] = d.smart[i]
    <3>1. Len(x.smart) = s + 1
      BY <1>3, <2>3, <2>5
    <3>2. \A i \in 1 .. s : i \in 1 .. s + 1 /\ i # s + 1 /\ i =< s
      OBVIOUS
    <3> QED
      BY <1>3, <2>3, <2>5, <3>1, <3>2
  <2>8. x.smart = Smarts(b)
    <3>1. ASSUME NEW i \in 1 .. s + 1 PROVE x.smart[i] = Smarts(b)[i]
      <4>1. i = s + 1 \/ i \in 1 .. s
        OBVIOUS
      <4> QED
        BY <1>1, <1>3, <1>7, <2>7, <4>1
    <3>2. \E R : x.smart \in Seq(R)
      BY <2>5, FilesAre
    <3> QED
      BY <1>3, <1>5, <1>7, <2>7, <3>1, <3>2, SameSeq
  <2>9. SmartFits(x, e)
    <3>1. SmartFits(x, b) /\ Len(x.smart) \in Nat
      BY <1>1, <2>7, <2>8, SmartsFit
    <3> QED
      BY <1>1, <3>1, SmartsBack
  <2>10. HashesFit(x, e)
    BY <1>2, <2>6 DEF HashesFit
  <2>11. At(x, e)
    BY <1>1, <2>5, <2>6, <2>9, <2>10, AtSame
  <2>12. Rem(x, c) /\ (u => Unrotated(x)) /\ (Log(x) = << >> => Num[b] = 1)
    BY <1>1, <2>6 DEF Rem, Unrotated, Log
  <2>13. Good(x, c, u)
    BY <2>11, <2>12, AtGood
  <2>14. IsWrite(w)
    BY <2>1, <2>3, PutIsWrite
  <2>15. AllGood(d, ws, c, u) /\ After(d, ws) = x
    BY <1>4, <2>2, <2>4, <2>13, <2>14, OneGood
  <2>16. Ready(x, b, e, c, u)
    BY <1>1, <2>8, <2>11, <2>12 DEF Ready
  <2> QED
    BY <2>15, <2>16
<1> QED
  BY <1>6, <1>7

(* All of BlockProcessTX.                                                  *)
LEMMA ExecuteIs ==
  ASSUME NEW d, NEW b, NEW e, NEW c, NEW u, Before(d, b, e, c, u), NEW ws, ws = Execute(d, b)
  PROVE  AllGood(d, ws, c, u) /\ Committed(After(d, ws), b, c, u)
<1>1. /\ b \in Block /\ Num[b] > 0 /\ e = Prev[b] /\ At(d, e) /\ d.smart = Smarts(e)
      /\ (Log(d) = << >> => Num[b] = 1) /\ Rem(d, c) /\ (u => Unrotated(d))
  BY DEF Before
<1>2. IsDisk(d)
  BY <1>1 DEF At
<1>3. Num[b] = Num[e] + 1
  BY <1>1, ChildIs
<1>4. PICK A : A = DeleteBlock(d, Num[b])
  OBVIOUS
<1>5. PICK x : x = After(d, A)
  OBVIOUS
<1>6. /\ AllGood(d, A, c, u)
      /\ At(x, e) /\ x.smart = Smarts(e)
      /\ x.act = d.act /\ x.prev = d.prev /\ x.state = d.state
      /\ Rem(x, c) /\ (u => Unrotated(x))
  <2>1. A = DeleteBlock(d, Num[e] + 1)
    BY <1>3, <1>4
  <2> QED
    BY <1>1, <1>5, <2>1, DeleteNone
<1>7. Before(x, b, e, c, u)
  <2>1. Log(x) = Log(d)
    BY <1>6 DEF Log
  <2> QED
    BY <1>1, <1>6, <2>1 DEF Before
<1>8. PICK B : B = MakeWrites(x, b)
  OBVIOUS
<1>9. PICK y : y = After(x, B)
  OBVIOUS
<1>10. AllGood(x, B, c, u) /\ Ready(y, b, e, c, u)
  BY <1>7, <1>8, <1>9, MakeIs
<1>11. PICK F : F = A \o B
  OBVIOUS
<1>12. AllGood(d, F, c, u) /\ After(d, F) = y
  BY <1>2, <1>5, <1>6, <1>9, <1>10, <1>11, GoodJoined
<1>13. PICK C : C = Commit(y, b)
  OBVIOUS
<1>14. AllGood(y, C, c, u) /\ Committed(After(y, C), b, c, u)
  BY <1>10, <1>13, CommitIs
<1>15. ws = F \o C
  BY <1>4, <1>5, <1>8, <1>11, <1>12, <1>13 DEF Execute, MakeWrites
<1>16. AllGood(d, F \o C, c, u) /\ After(d, F \o C) = After(y, C)
  BY <1>2, <1>12, <1>14, GoodJoined
<1> QED
  BY <1>14, <1>15, <1>16
-----------------------------------------------------------------------------
(***************************************************************************)
(* Everything is cleared.                                                  *)
(***************************************************************************)
NoLog(x) == IsDisk(x) /\ x.act = << >> /\ x.prev = << >> /\ Len(x.state) =< GenesisCount

LEMMA NoLogIs ==
  ASSUME NEW x, NoLog(x), NEW c, NEW u
  PROVE  /\ Good(x, c, u) /\ Rem(x, c) /\ Unrotated(x) /\ Log(x) = << >>
<1>1. Log(x) = << >>
  BY DEF NoLog, Log
<1>2. Len(x.act) = 0 /\ Len(x.prev) = 0
  BY DEF NoLog
<1>3. Rem(x, c)
  BY <1>2 DEF Rem, Holds
<1>4. Unrotated(x)
  BY DEF NoLog, Unrotated
<1> QED
  BY <1>1, <1>3, <1>4 DEF Good, Dirty, NoLog

(* A file is emptied.                                                      *)
Emptied(d, x, f) == IsDisk(x) /\ x[f] = << >> /\ Len(x[f]) = 0 /\ \A g \in Files : g # f => x[g] = d[g]

LEMMA EmptyIs ==
  ASSUME NEW d, IsDisk(d), NEW f \in Files, NEW x, x = Write(d, Cut(f, -1))
  PROVE  Emptied(d, x, f) /\ IsWrite(Cut(f, -1))
<1>1. PICK n \in Int : n = -1 /\ n >= -1
  OBVIOUS
<1>2. x = Write(d, Cut(f, n))
  BY <1>1
<1>3. /\ IsDisk(x) /\ \A g \in Files : g # f => x[g] = d[g]
      /\ Len(x[f]) = n + 1
  BY <1>1, <1>2, CutIs
<1>4. Len(x[f]) = 0
  BY <1>1, <1>3
<1>5. x[f] = << >>
  BY <1>3, <1>4, FileIs
<1>6. IsWrite(Cut(f, n))
  BY <1>1, CutIsWrite
<1> QED
  BY <1>1, <1>3, <1>4, <1>5, <1>6 DEF Emptied

LEMMA EmptyGood ==
  ASSUME NEW d, NEW c, NEW u, Good(d, c, u), NEW f \in Files, NEW x, x = Write(d, Cut(f, -1)), Good(x, c, u),
         NEW ws, ws = << Cut(f, -1) >>
  PROVE  AllGood(d, ws, c, u) /\ After(d, ws) = x
<1>1. IsDisk(d)
  BY DEF Good
<1>2. PICK w : w = Cut(f, -1) /\ IsWrite(w)
  BY <1>1, EmptyIs
<1> QED
  BY <1>2, OneGood

LEMMA FourIs ==
  ASSUME NEW a, NEW b, NEW c, NEW d
  PROVE  ((<< a >> \o << b >>) \o << c >>) \o << d >> = << a, b, c, d >>
<1>1. PICK T : T = {a, b, c, d}
  OBVIOUS
<1>2. PICK s : s = << a >>
  OBVIOUS
<1>3. PICK t : t = << b >>
  OBVIOUS
<1>4. PICK v : v = << c >>
  OBVIOUS
<1>5. PICK w : w = << d >>
  OBVIOUS
<1>6. /\ s \in Seq(T) /\ Len(s) = 1 /\ s[1] = a
      /\ t \in Seq(T) /\ Len(t) = 1 /\ t[1] = b
      /\ v \in Seq(T) /\ Len(v) = 1 /\ v[1] = c
      /\ w \in Seq(T) /\ Len(w) = 1 /\ w[1] = d
  BY <1>1, <1>2, <1>3, <1>4, <1>5
<1>7. PICK p : p = s \o t
  OBVIOUS
<1>8. p \in Seq(T) /\ Len(p) = 2 /\ p[1] = a /\ p[2] = b
  <2>1. ConcatOf(p, s, t, T)
    BY <1>6, <1>7, ConcatIs
  <2> QED
    BY <1>6, <2>1 DEF ConcatOf
<1>9. PICK q : q = p \o v
  OBVIOUS
<1>10. q \in Seq(T) /\ Len(q) = 3 /\ q[1] = a /\ q[2] = b /\ q[3] = c
  <2>1. ConcatOf(q, p, v, T)
    BY <1>6, <1>8, <1>9, ConcatIs
  <2> QED
    BY <1>6, <1>8, <2>1 DEF ConcatOf
<1>11. PICK x : x = q \o w
  OBVIOUS
<1>12. x \in Seq(T) /\ Len(x) = 4 /\ x[1] = a /\ x[2] = b /\ x[3] = c /\ x[4] = d
  <2>1. ConcatOf(x, q, w, T)
    BY <1>6, <1>10, <1>11, ConcatIs
  <2> QED
    BY <1>6, <1>10, <2>1 DEF ConcatOf
<1>13. PICK y : y = << a, b, c, d >>
  OBVIOUS
<1>14. y \in Seq(T) /\ Len(y) = 4 /\ y[1] = a /\ y[2] = b /\ y[3] = c /\ y[4] = d
  BY <1>1, <1>13
<1>15. x = y
  <2>1. \A i \in 1 .. 4 : i = 1 \/ i = 2 \/ i = 3 \/ i = 4
    OBVIOUS
  <2>2. \A i \in 1 .. Len(x) : x[i] = y[i]
    BY <1>12, <1>14, <2>1
  <2> QED
    BY <1>12, <1>14, <2>2, SameSeq
<1> QED
  BY <1>2, <1>3, <1>4, <1>5, <1>7, <1>9, <1>11, <1>13, <1>15

FourCuts == << Cut("state", -1), Cut("act", -1), Cut("prev", -1), Cut("hash", -1) >>

LEMMA CutsAre ==
  ASSUME NEW d, NEW c, NEW u, Good(d, c, u)
  PROVE  /\ AllGood(d, FourCuts, c, u)
         /\ NoLog(After(d, FourCuts)) /\ After(d, FourCuts).state = << >> /\ Len(After(d, FourCuts).state) = 0
         /\ After(d, FourCuts).smart = d.smart
<1>1. IsDisk(d) /\ (u => Unrotated(d))
  BY DEF Good
<1>2. PICK f1 \in Files : f1 = "state"
  BY FilesIn
<1>3. PICK f2 \in Files : f2 = "act"
  BY FilesIn
<1>4. PICK f3 \in Files : f3 = "prev"
  BY FilesIn
<1>5. PICK f4 \in Files : f4 = "hash"
  BY FilesIn
<1>6. "smart" \in Files /\ GenesisCount \in Nat /\ GenesisCount > 0
  BY FilesIn, FirstIs
<1>7. PICK x1 : x1 = Write(d, Cut(f1, -1))
  OBVIOUS
<1>8. Emptied(d, x1, f1)
  BY <1>1, <1>7, EmptyIs
<1>9. IsDisk(x1) /\ x1.state = << >> /\ Len(x1.state) = 0 /\ x1.act = d.act /\ x1.prev = d.prev /\ x1.smart = d.smart
  BY <1>2, <1>3, <1>4, <1>6, <1>8 DEF Emptied
<1>10. Good(x1, c, u)
  <2>1. Len(x1.state) < GenesisCount /\ Len(x1.state) =< GenesisCount
    BY <1>6, <1>9
  <2>2. u => Unrotated(x1)
    BY <1>1, <1>9, <2>1 DEF Unrotated
  <2> QED
    BY <1>9, <2>1, <2>2 DEF Good, Dirty
<1>11. PICK x2 : x2 = Write(x1, Cut(f2, -1))
  OBVIOUS
<1>12. Emptied(x1, x2, f2)
  BY <1>9, <1>11, EmptyIs
<1>13. IsDisk(x2) /\ x2.state = << >> /\ Len(x2.state) = 0 /\ x2.act = << >> /\ x2.prev = d.prev /\ x2.smart = d.smart
  BY <1>2, <1>3, <1>4, <1>6, <1>9, <1>12 DEF Emptied
<1>14. Good(x2, c, u)
  <2>1. Len(x2.state) < GenesisCount /\ Len(x2.state) =< GenesisCount
    BY <1>6, <1>13
  <2>2. u => Unrotated(x2)
    BY <1>1, <1>13, <2>1 DEF Unrotated
  <2> QED
    BY <1>13, <2>1, <2>2 DEF Good, Dirty
<1>15. PICK x3 : x3 = Write(x2, Cut(f3, -1))
  OBVIOUS
<1>16. Emptied(x2, x3, f3)
  BY <1>13, <1>15, EmptyIs
<1>17. NoLog(x3) /\ x3.state = << >> /\ Len(x3.state) = 0 /\ x3.smart = d.smart
  BY <1>2, <1>3, <1>4, <1>6, <1>13, <1>16 DEF Emptied, NoLog
<1>18. Good(x3, c, u) /\ IsDisk(x3)
  BY <1>17, NoLogIs DEF NoLog
<1>19. PICK x4 : x4 = Write(x3, Cut(f4, -1))
  OBVIOUS
<1>20. Emptied(x3, x4, f4)
  BY <1>18, <1>19, EmptyIs
<1>21. NoLog(x4) /\ x4.state = << >> /\ Len(x4.state) = 0 /\ x4.smart = d.smart
  BY <1>2, <1>3, <1>4, <1>5, <1>6, <1>17, <1>20 DEF Emptied, NoLog
<1>22. Good(x4, c, u)
  BY <1>21, NoLogIs
<1>23. PICK A : A = << Cut(f1, -1) >>
  OBVIOUS
<1>24. PICK B : B = << Cut(f2, -1) >>
  OBVIOUS
<1>25. PICK C : C = << Cut(f3, -1) >>
  OBVIOUS
<1>26. PICK D : D = << Cut(f4, -1) >>
  OBVIOUS
<1>27. AllGood(d, A, c, u) /\ After(d, A) = x1
  BY <1>7, <1>10, <1>23, EmptyGood
<1>28. AllGood(x1, B, c, u) /\ After(x1, B) = x2
  BY <1>10, <1>11, <1>14, <1>24, EmptyGood
<1>29. AllGood(x2, C, c, u) /\ After(x2, C) = x3
  BY <1>14, <1>15, <1>18, <1>25, EmptyGood
<1>30. AllGood(x3, D, c, u) /\ After(x3, D) = x4
  BY <1>18, <1>19, <1>22, <1>26, EmptyGood
<1>31. PICK E : E = A \o B
  OBVIOUS
<1>32. AllGood(d, E, c, u) /\ After(d, E) = x2
  BY <1>1, <1>27, <1>28, <1>31, GoodJoined
<1>33. PICK F : F = E \o C
  OBVIOUS
<1>34. AllGood(d, F, c, u) /\ After(d, F) = x3
  BY <1>1, <1>29, <1>32, <1>33, GoodJoined
<1>35. AllGood(d, F \o D, c, u) /\ After(d, F \o D) = x4
  BY <1>1, <1>30, <1>34, GoodJoined
<1>36. FourCuts = F \o D
  <2>1. PICK a1 : a1 = Cut(f1, -1)
    OBVIOUS
  <2>2. PICK a2 : a2 = Cut(f2, -1)
    OBVIOUS
  <2>3. PICK a3 : a3 = Cut(f3, -1)
    OBVIOUS
  <2>4. PICK a4 : a4 = Cut(f4, -1)
    OBVIOUS
  <2>5. A = << a1 >> /\ B = << a2 >> /\ C = << a3 >> /\ D = << a4 >>
    BY <1>23, <1>24, <1>25, <1>26, <2>1, <2>2, <2>3, <2>4
  <2>6. F \o D = << a1, a2, a3, a4 >>
    BY <1>31, <1>33, <2>5, FourIs
  <2>7. FourCuts = << a1, a2, a3, a4 >>
    BY <1>2, <1>3, <1>4, <1>5, <2>1, <2>2, <2>3, <2>4 DEF FourCuts
  <2> QED
    BY <2>6, <2>7
<1> QED
  BY <1>21, <1>35, <1>36

(* The accounts there are before the first block.                          *)
FirstAccounts == [i \in 1 .. GenesisCount |-> Put("state", i - 1, {})]

LEMMA FirstAccountsAre ==
  ASSUME NEW d, NoLog(d), d.state = << >>, Len(d.state) = 0, NEW c, NEW u
  PROVE  /\ AllGood(d, FirstAccounts, c, u)
         /\ NoLog(After(d, FirstAccounts)) /\ After(d, FirstAccounts).state = Replay(GenesisBlock(0))
         /\ After(d, FirstAccounts).smart = d.smart
<1>1. IsDisk(d) /\ d.act = << >> /\ d.prev = << >>
  BY DEF NoLog
<1>2. PICK k \in Nat : k = GenesisCount
  BY FirstIs
<1>3. PICK ws : ws = FirstAccounts
  OBVIOUS
<1>4. PICK ids : ids = [i \in 1 .. k |-> i - 1]
  OBVIOUS
<1>5. PICK vals : vals = [i \in 1 .. k |-> {}]
  OBVIOUS
<1>6. ids \in [1 .. k -> Nat] /\ \A i \in 1 .. k : ids[i] = i - 1
  <2>1. \A i \in 1 .. k : i - 1 \in Nat
    OBVIOUS
  <2> QED
    BY <1>4, <2>1
<1>7. ws = [i \in 1 .. k |-> Put("state", i - 1, {})]
  BY <1>2, <1>3 DEF FirstAccounts
<1>8. ArePuts(ws, "state", ids, vals, k, 0, 0)
  <2>1. Len(ws) = k /\ \E W : ws \in Seq(W)
    <3>1. ws = [i \in 1 .. k |-> ws[i]]
      BY <1>7
    <3> QED
      BY <3>1, MakeSeq
  <2>2. \A i \in 1 .. k : ws[i] = Put("state", ids[i], vals[i])
    BY <1>5, <1>6, <1>7
  <2>3. \A i \in 0 + 1 .. k : ids[i] = 0 + (i - 1 - 0)
    BY <1>6
  <2>4. \A i \in 1 .. 0 : FALSE
    OBVIOUS
  <2> QED
    BY <2>1, <2>2, <2>3, <2>4 DEF ArePuts
<1>9. /\ IsWrites(ws)
      /\ \A j \in 0 .. k : PutsDone(d, Disks(d, ws)[j], "state", ids, vals, j, 0, 0)
  <2>1. "state" \in Files /\ 0 \in 0 .. k /\ 0 = Len(d["state"])
    BY FilesIn
  <2> QED
    BY <1>1, <1>6, <1>8, <2>1, PutsAre
<1>10. Len(ws) = k
  BY <1>8 DEF ArePuts
<1>11. ASSUME NEW j \in 0 .. k, NEW x, x = Disks(d, ws)[j]
       PROVE  /\ NoLog(x) /\ Len(x.state) = j /\ x.smart = d.smart
              /\ \A i \in 1 .. j : x.state[i] = {}
  <2>1. PutsDone(d, x, "state", ids, vals, j, 0, 0)
    BY <1>9, <1>11
  <2>2. /\ IsDisk(x) /\ \A h \in Files : h # "state" => x[h] = d[h]
        /\ Len(x["state"]) = (IF j > 0 THEN 0 + (j - 0) ELSE 0)
        /\ \A i \in 1 .. j : x["state"][ids[i] + 1] = vals[i]
    BY <2>1 DEF PutsDone
  <2>3. Len(x.state) = j
    BY <2>2
  <2>4. x.act = << >> /\ x.prev = << >> /\ x.smart = d.smart
    BY <1>1, <2>2, FilesIn
  <2>5. ASSUME NEW i \in 1 .. j PROVE x.state[i] = {}
    <3>1. i \in 1 .. k /\ ids[i] + 1 = i
      BY <1>6
    <3> QED
      BY <1>5, <2>2, <3>1
  <2> QED
    BY <1>2, <2>2, <2>3, <2>4, <2>5 DEF NoLog
<1>12. ASSUME NEW x \in Passes(d, ws) PROVE Good(x, c, u)
  <2>1. PICK j \in 0 .. k : x = Disks(d, ws)[j]
    BY <1>1, <1>9, <1>10, PassesOfPuts
  <2>2. NoLog(x)
    BY <1>11, <2>1
  <2> QED
    BY <2>2, NoLogIs
<1>13. PICK x : x = After(d, ws)
  OBVIOUS
<1>14. x = Disks(d, ws)[k] /\ k \in 0 .. k
  BY <1>10, <1>13 DEF After
<1>15. /\ NoLog(x) /\ Len(x.state) = k /\ x.smart = d.smart
       /\ \A i \in 1 .. k : x.state[i] = {}
  BY <1>11, <1>14
<1>16. x.state = Replay(GenesisBlock(0))
  <2>1. (\E R : x.state \in Seq(R)) /\ (\E R : Replay(GenesisBlock(0)) \in Seq(R))
    <3>1. IsDisk(x) /\ GenesisBlock(0) \in Block
      BY <1>15, FirstIs DEF NoLog
    <3> QED
      BY <3>1, FilesAre, ReplayIs
  <2> QED
    BY ZenonT(60), <1>2, <1>15, <2>1, ReplayFirst, SameSeq
<1> QED
  BY <1>3, <1>9, <1>12, <1>13, <1>15, <1>16 DEF AllGood

LEMMA ClearAccountsIs ==
  ASSUME NEW d, NEW c, NEW u, Good(d, c, u)
  PROVE  /\ AllGood(d, ClearAccounts, c, u)
         /\ NoLog(After(d, ClearAccounts)) /\ After(d, ClearAccounts).state = Replay(GenesisBlock(0))
         /\ After(d, ClearAccounts).smart = d.smart
<1>1. PICK x : x = After(d, FourCuts)
  OBVIOUS
<1>2. AllGood(d, FourCuts, c, u) /\ NoLog(x) /\ x.state = << >> /\ Len(x.state) = 0 /\ x.smart = d.smart
  BY <1>1, CutsAre
<1>3. PICK y : y = After(x, FirstAccounts)
  OBVIOUS
<1>4. AllGood(x, FirstAccounts, c, u) /\ NoLog(y) /\ y.state = Replay(GenesisBlock(0)) /\ y.smart = x.smart
  BY <1>2, <1>3, FirstAccountsAre
<1>5. IsDisk(d)
  BY DEF Good
<1>6. AllGood(d, FourCuts \o FirstAccounts, c, u) /\ After(d, FourCuts \o FirstAccounts) = y
  BY <1>1, <1>2, <1>3, <1>4, <1>5, GoodJoined
<1>7. ClearAccounts = FourCuts \o FirstAccounts
  BY DEF ClearAccounts, FourCuts, FirstAccounts
<1> QED
  BY <1>2, <1>4, <1>6, <1>7
-----------------------------------------------------------------------------
(* A log that is empty, and the smart contract there is before the first   *)
(* block.                                                                  *)
LEMMA FirstSmart ==
  ASSUME NEW d, NEW c, NEW u, Good(d, c, u), Log(d) = << >>, d.smart = << >>,
         NEW ws, ws = << Put("smart", 0, GenesisBlock(0)) >>
  PROVE  /\ AllGood(d, ws, c, u)
         /\ After(d, ws).state = d.state /\ After(d, ws).act = d.act /\ After(d, ws).prev = d.prev
         /\ After(d, ws).smart = Smarts(GenesisBlock(0))
<1>1. IsDisk(d) /\ (u => Unrotated(d))
  BY DEF Good
<1>2. Len(d.smart) = 0
  BY <1>1, FilesAre
<1>3. PICK f \in Files : f = "smart"
  BY FilesIn
<1>4. PICK g : g = GenesisBlock(0)
  OBVIOUS
<1>5. PICK n \in Nat : n = 0
  OBVIOUS
<1>6. PICK w : w = Put(f, n, g)
  OBVIOUS
<1>7. ws = << w >>
  BY <1>3, <1>4, <1>5, <1>6
<1>8. PICK x : x = Write(d, w)
  OBVIOUS
<1>9. /\ IsDisk(x)
      /\ \A h \in Files : h # f => x[h] = d[h]
      /\ Len(x[f]) = (IF n < Len(d[f]) THEN Len(d[f]) ELSE n + 1)
      /\ x[f][n + 1] = g
  BY <1>1, <1>6, <1>8, PutIs
<1>10. x.state = d.state /\ x.act = d.act /\ x.prev = d.prev
  BY <1>3, <1>9, FilesIn
<1>11. Len(x.smart) = 1 /\ x.smart[1] = g
  <2>1. Len(d[f]) = 0
    BY <1>2, <1>3
  <2>2. Len(x[f]) = 1 /\ x[f][1] = g
    BY <1>5, <1>9, <2>1
  <2> QED
    BY <1>3, <2>2
<1>12. x.smart = Smarts(g)
  <2>1. g \in Block
    BY <1>4, FirstIs
  <2>2. (\E R : x.smart \in Seq(R)) /\ (\E R : Smarts(g) \in Seq(R))
    BY <1>9, <2>1, FilesAre, SmartsIs
  <2>3. Len(Smarts(g)) = 1 /\ Smarts(g)[1] = g
    BY <1>4, SmartsFirst
  <2>4. \A i \in 1 .. Len(x.smart) : x.smart[i] = Smarts(g)[i]
    BY <1>11, <2>3
  <2> QED
    BY <1>11, <2>2, <2>3, <2>4, SameSeq
<1>13. Good(x, c, u)
  <2>1. Log(x) = << >>
    BY <1>10 DEF Log
  <2>2. u => Unrotated(x)
    BY <1>1, <1>10 DEF Unrotated
  <2> QED
    BY <1>9, <2>1, <2>2 DEF Good, Dirty
<1>14. IsWrite(w)
  BY <1>3, <1>5, <1>6, PutIsWrite
<1>15. AllGood(d, ws, c, u) /\ After(d, ws) = x
  BY <1>7, <1>8, <1>13, <1>14, OneGood
<1> QED
  BY <1>4, <1>10, <1>12, <1>15

LEMMA TwoIs ==
  ASSUME NEW a, NEW b
  PROVE  << a >> \o << b >> = << a, b >>
<1>1. PICK T : T = {a, b}
  OBVIOUS
<1>2. PICK s : s = << a >>
  OBVIOUS
<1>3. PICK t : t = << b >>
  OBVIOUS
<1>4. PICK y : y = << a, b >>
  OBVIOUS
<1>5. /\ s \in Seq(T) /\ Len(s) = 1 /\ s[1] = a
      /\ t \in Seq(T) /\ Len(t) = 1 /\ t[1] = b
      /\ y \in Seq(T) /\ Len(y) = 2 /\ y[1] = a /\ y[2] = b
  BY <1>1, <1>2, <1>3, <1>4
<1>6. PICK x : x = s \o t
  OBVIOUS
<1>7. x \in Seq(T) /\ Len(x) = 2 /\ x[1] = a /\ x[2] = b
  <2>1. ConcatOf(x, s, t, T)
    BY <1>5, <1>6, ConcatIs
  <2> QED
    BY <1>5, <2>1 DEF ConcatOf
<1>8. x = y
  <2>1. \A i \in 1 .. 2 : i = 1 \/ i = 2
    OBVIOUS
  <2>2. \A i \in 1 .. Len(x) : x[i] = y[i]
    BY <1>5, <1>7, <2>1
  <2> QED
    BY <1>5, <1>7, <2>2, SameSeq
<1> QED
  BY <1>2, <1>3, <1>4, <1>6, <1>8

(* What is on the disk between two operations, when e is the last block    *)
(* that was executed.                                                      *)
Clean(d, e) == At(d, e) /\ d.smart = Smarts(e) /\ (Log(d) = << >> => e = GenesisBlock(0))
Settled(d, c) == \E e : Clean(d, e) /\ Rem(d, c)

LEMMA NoLogAt ==
  ASSUME NEW x, NoLog(x), x.state = Replay(GenesisBlock(0)), x.smart = Smarts(GenesisBlock(0))
  PROVE  Clean(x, GenesisBlock(0))
<1>1. PICK g : g = GenesisBlock(0)
  OBVIOUS
<1>2. g \in Block /\ Num[g] = 0
  BY <1>1, FirstIs
<1>3. IsDisk(x) /\ Log(x) = << >>
  BY NoLogIs DEF NoLog
<1>4. SmartFits(x, g)
  BY <1>1, <1>2, <1>3, SmartsFit
<1>5. HashesFit(x, g)
  <2>1. Period \in Nat /\ Period > 0
    BY TxAssumption
  <2>2. ASSUME NEW k \in 1 .. MaxNum PROVE ~(k * Period =< Num[g])
    <3>1. k \in Nat /\ k >= 1
      BY <1>2, ChainIs
    <3>2. k * Period >= Period
      BY <2>1, <3>1, SMTT(30)
    <3>3. PICK q : q = k * Period
      OBVIOUS
    <3>4. q \in Nat
      BY <2>1, <3>1, <3>3
    <3> QED
      BY <1>2, <2>1, <3>2, <3>3, <3>4
  <2> QED
    BY <2>2 DEF HashesFit
<1>6. At(x, g)
  BY <1>1, <1>2, <1>3, <1>4, <1>5 DEF At
<1> QED
  BY <1>1, <1>6 DEF Clean

LEMMA ClearIs ==
  ASSUME NEW d, NEW c, NEW u, Good(d, c, u)
  PROVE  AllGood(d, ClearDataBase, c, u) /\ Settled(After(d, ClearDataBase), c)
<1>1. IsDisk(d)
  BY DEF Good
<1>2. PICK x : x = After(d, ClearAccounts)
  OBVIOUS
<1>3. /\ AllGood(d, ClearAccounts, c, u) /\ NoLog(x)
      /\ x.state = Replay(GenesisBlock(0))
  BY <1>2, ClearAccountsIs
<1>4. PICK f \in Files : f = "smart"
  BY FilesIn
<1>5. PICK y : y = Write(x, Cut(f, -1))
  OBVIOUS
<1>6. IsDisk(x)
  BY <1>3 DEF NoLog
<1>7. Emptied(x, y, f)
  BY <1>5, <1>6, EmptyIs
<1>8. NoLog(y) /\ y.state = x.state /\ y.smart = << >>
  BY <1>3, <1>4, <1>7, FilesIn DEF Emptied, NoLog
<1>9. Good(x, c, u) /\ Good(y, c, u) /\ Log(y) = << >> /\ IsDisk(y)
  BY <1>3, <1>8, NoLogIs DEF NoLog
<1>10. PICK A : A = << Cut(f, -1) >>
  OBVIOUS
<1>11. AllGood(x, A, c, u) /\ After(x, A) = y
  BY <1>5, <1>9, <1>10, EmptyGood
<1>12. PICK B : B = << Put("smart", 0, GenesisBlock(0)) >>
  OBVIOUS
<1>13. PICK z : z = After(y, B)
  OBVIOUS
<1>14. /\ AllGood(y, B, c, u)
       /\ z.state = y.state /\ z.act = y.act /\ z.prev = y.prev
       /\ z.smart = Smarts(GenesisBlock(0))
  BY <1>8, <1>9, <1>12, <1>13, FirstSmart
<1>15. PICK E : E = A \o B
  OBVIOUS
<1>16. AllGood(x, E, c, u) /\ After(x, E) = z
  BY <1>6, <1>11, <1>13, <1>14, <1>15, GoodJoined
<1>17. AllGood(d, ClearAccounts \o E, c, u) /\ After(d, ClearAccounts \o E) = z
  BY <1>1, <1>2, <1>3, <1>16, GoodJoined
<1>18. ClearDataBase = ClearAccounts \o E
  <2>1. PICK a : a = Cut(f, -1)
    OBVIOUS
  <2>2. PICK b : b = Put("smart", 0, GenesisBlock(0))
    OBVIOUS
  <2>3. E = << a, b >>
    <3>1. A = << a >> /\ B = << b >>
      BY <1>10, <1>12, <2>1, <2>2
    <3>2. << a >> \o << b >> = << a, b >>
      BY TwoIs
    <3> QED
      BY <1>15, <3>1, <3>2
  <2>4. a = Cut("smart", -1)
    BY <1>4, <2>1
  <2> QED
    BY <2>2, <2>3, <2>4 DEF ClearDataBase
<1>19. NoLog(z)
  <2>1. IsDisk(z)
    BY <1>9, <1>13, <1>14, PassesAre DEF AllGood
  <2> QED
    BY <1>8, <1>14, <2>1 DEF NoLog
<1>20. Clean(z, GenesisBlock(0)) /\ Rem(z, c)
  BY <1>3, <1>8, <1>14, <1>19, NoLogAt, NoLogIs
<1> QED
  BY <1>17, <1>18, <1>20 DEF Settled
-----------------------------------------------------------------------------
(***************************************************************************)
(* ReWriteDAppTransactions and the start.                                  *)
(***************************************************************************)
LEMMA MaxOne ==
  ASSUME NEW n \in Int, NEW m, m = Max({n, 1})
  PROVE  m \in Int /\ m >= 1 /\ m >= n /\ (m = n \/ m = 1)
<1>1. \E x \in {n, 1} : \A y \in {n, 1} : x >= y
  <2>1. CASE n >= 1
    BY <2>1
  <2>2. CASE ~(n >= 1)
    BY <2>2
  <2> QED
    BY <2>1, <2>2
<1>2. m \in {n, 1} /\ \A y \in {n, 1} : m >= y
  BY <1>1 DEF Max
<1> QED
  BY <1>2

(* What taking blocks back can begin with, and what it leaves.             *)
Fit(d, c, u) ==
  /\ IsDisk(d) /\ (u => Unrotated(d))
  /\ Log(d) # << >> => \E e : Undoable(d, e) /\ Rem(d, c)
Stepped(d, c, u) == \E e : At(d, e) /\ d.smart = Smarts(e) /\ Rem(d, c) /\ (u => Unrotated(d))

LEMMA FitNum ==
  ASSUME NEW d, NEW c, NEW u, Fit(d, c, u)
  PROVE  /\ LastNum(d) \in Int /\ LastNum(d) =< MaxNum /\ MaxNum \in Nat
         /\ (Log(d) = << >> <=> LastNum(d) =< 0)
<1>1. IsDisk(d)
  BY DEF Fit
<1>2. MaxNum \in Nat
  BY BlocksAssumption
<1>3. CASE Log(d) = << >>
  <2>1. LastNum(d) = -1
    BY <1>1, <1>3, LogIs
  <2> QED
    BY <1>2, <1>3, <2>1
<1>4. CASE Log(d) # << >>
  <2>1. PICK e : Undoable(d, e)
    BY <1>4 DEF Fit
  <2>2. LogOk(d, e)
    BY <2>1 DEF Undoable
  <2>3. e \in Block /\ Num[e] > 0 /\ LastNum(d) = Num[e]
    BY <1>1, <1>4, <2>2, LogOkIs, LogIs
  <2>4. Num[e] \in Nat /\ Num[e] =< MaxNum
    BY <2>3, ChainIs
  <2> QED
    BY <1>2, <1>4, <2>3, <2>4
<1> QED
  BY <1>3, <1>4

LEMMA SteppedFit ==
  ASSUME NEW d, NEW c, NEW u, Stepped(d, c, u)
  PROVE  Fit(d, c, u)
<1>1. PICK e : At(d, e) /\ Rem(d, c) /\ (u => Unrotated(d))
  BY DEF Stepped
<1>2. IsDisk(d) /\ (Log(d) # << >> => Undoable(d, e))
  BY <1>1, AtUndoable DEF At
<1> QED
  BY <1>1, <1>2 DEF Fit

LEMMA TakeBack ==
  ASSUME NEW d, NEW c, NEW u, Fit(d, c, u), Log(d) # << >>, NEW ws, ws = DeleteBlock(d, LastNum(d))
  PROVE  AllGood(d, ws, c, u) /\ Stepped(After(d, ws), c, u)
<1>1. PICK e : Undoable(d, e) /\ Rem(d, c)
  BY DEF Fit
<1>2. IsDisk(d) /\ (u => Unrotated(d))
  BY DEF Fit
<1>3. Num[e] = LastNum(d)
  BY <1>1 DEF Undoable, LogOk
<1>4. ws = DeleteBlock(d, Num[e])
  BY <1>3
<1>5. PICK x : x = After(d, ws)
  OBVIOUS
<1>6. AllGood(d, ws, c, u) /\ Undone(d, x, e, c, u) /\ x.smart = Smarts(Prev[e])
  BY <1>1, <1>2, <1>4, <1>5, DeleteLast
<1>7. Stepped(x, c, u)
  BY <1>6 DEF Undone, Stepped
<1> QED
  BY <1>5, <1>6, <1>7

(* One turn of the loop of ReWriteDAppTransactions.                        *)
More(d, n, w) ==
  IF LastNum(After(d, w)) < Max({n, 1}) THEN w
  ELSE w \o DeleteBlock(After(d, w), LastNum(After(d, w)))

Deleted(d, n, D) == D[0] = << >> /\ \A i \in 1 .. MaxNum : D[i] = More(d, n, D[i - 1])

LEMMA ReWriteIs ==
  ASSUME NEW d, NEW n
  PROVE  \E D : /\ Deleted(d, n, D)
                /\ ReWrite(d, n) = IF LastNum(After(d, D[MaxNum])) =< 0 THEN D[MaxNum] \o ClearDataBase
                                   ELSE D[MaxNum]
<1> DEFINE N == MaxNum
           S == {k \in 0 .. N : \E f : /\ f = [i \in 0 .. k |-> f[i]] /\ f[0] = << >>
                                       /\ \A i \in 1 .. k : f[i] = More(d, n, f[i - 1])}
           Is(f) == f = [i \in Heights |->
                           IF i = 0 THEN << >>
                           ELSE IF LastNum(After(d, f[i - 1])) < Max({n, 1}) THEN f[i - 1]
                                ELSE f[i - 1] \o DeleteBlock(After(d, f[i - 1]), LastNum(After(d, f[i - 1])))]
<1>1. N \in Nat
  BY BlocksAssumption
<1>2. 0 \in S
  <2>1. PICK f : f = [i \in 0 .. 0 |-> << >>]
    OBVIOUS
  <2>2. f = [i \in 0 .. 0 |-> f[i]] /\ f[0] = << >> /\ \A i \in 1 .. 0 : f[i] = More(d, n, f[i - 1])
    BY <2>1
  <2> QED
    BY <1>1, <2>2
<1>3. ASSUME NEW k \in 1 .. N, k - 1 \in S PROVE k \in S
  <2>1. PICK f : /\ f = [i \in 0 .. k - 1 |-> f[i]] /\ f[0] = << >>
                 /\ \A i \in 1 .. k - 1 : f[i] = More(d, n, f[i - 1])
    BY <1>3
  <2>2. PICK h : h = [i \in 0 .. k |-> IF i < k THEN f[i] ELSE More(d, n, f[k - 1])]
    OBVIOUS
  <2>3. h[0] = << >> /\ h = [i \in 0 .. k |-> h[i]]
    BY <2>1, <2>2
  <2>4. ASSUME NEW i \in 1 .. k PROVE h[i] = More(d, n, h[i - 1])
    <3>1. h[i - 1] = f[i - 1]
      BY <2>2
    <3>2. CASE i = k
      <4>1. h[k] = More(d, n, f[k - 1])
        BY <1>1, <2>2
      <4> QED
        BY <3>1, <3>2, <4>1
    <3>3. CASE i # k
      <4>1. i \in 1 .. k - 1 /\ h[i] = f[i]
        BY <2>2, <3>3
      <4> QED
        BY <2>1, <3>1, <4>1
    <3> QED
      BY <3>2, <3>3
  <2>5. \E f1 : /\ f1 = [i \in 0 .. k |-> f1[i]] /\ f1[0] = << >>
               /\ \A i \in 1 .. k : f1[i] = More(d, n, f1[i - 1])
    BY <2>3, <2>4
  <2>6. k \in 0 .. N
    BY <1>1
  <2> QED
    BY <2>5, <2>6
<1>4. \A k \in 0 .. N : k \in S
  <2> HIDE DEF S
  <2> QED
    BY <1>1, <1>2, <1>3, OneByOne
<1>5. \E f : Is(f)
  <2>1. N \in S
    BY <1>1, <1>4
  <2>2. PICK f : /\ f = [i \in 0 .. N |-> f[i]] /\ f[0] = << >>
                 /\ \A i \in 1 .. N : f[i] = More(d, n, f[i - 1])
    BY <2>1
  <2>3. ASSUME NEW i \in 0 .. N PROVE f[i] = IF i = 0 THEN << >> ELSE More(d, n, f[i - 1])
    BY <1>1, <2>2
  <2>4. [i \in 0 .. N |-> f[i]] = [i \in 0 .. N |-> IF i = 0 THEN << >> ELSE More(d, n, f[i - 1])]
    BY <2>3
  <2>5. f = [i \in 0 .. N |-> IF i = 0 THEN << >> ELSE More(d, n, f[i - 1])]
    BY <2>2, <2>4
  <2> QED
    BY <2>5 DEF More, Heights
<1>6. PICK D : D = CHOOSE f : Is(f)
  OBVIOUS
<1>7. ReWrite(d, n) = IF LastNum(After(d, D[MaxNum])) =< 0 THEN D[MaxNum] \o ClearDataBase ELSE D[MaxNum]
  BY <1>6 DEF ReWrite
<1>8. Is(D)
  BY <1>5, <1>6
<1>9. \A i \in 0 .. N : D[i] = IF i = 0 THEN << >> ELSE More(d, n, D[i - 1])
  BY <1>8 DEF More, Heights
<1>10. D[0] = << >> /\ \A i \in 1 .. N : D[i] = More(d, n, D[i - 1])
  <2> HIDE DEF Is
  <2>1. 0 \in 0 .. N /\ \A i \in 1 .. N : i \in 0 .. N /\ i # 0
    BY <1>1
  <2>2. D[0] = << >>
    BY <1>9, <2>1
  <2>3. ASSUME NEW i \in 1 .. N PROVE D[i] = More(d, n, D[i - 1])
    BY <1>9, <2>1
  <2> QED
    BY <2>2, <2>3
<1> QED
  BY <1>7, <1>10 DEF Deleted

(* The blocks from n on are taken back, or there is none.                  *)
LEMMA ReWriteGood ==
  ASSUME NEW d, NEW c, NEW u, Fit(d, c, u), Good(d, c, u), NEW n \in Int, NEW ws, ws = ReWrite(d, n)
  PROVE  /\ AllGood(d, ws, c, u)
         /\ \/ Settled(After(d, ws), c)
            \/ After(d, ws) = d /\ Log(d) # << >> /\ LastNum(d) < Max({n, 1})
<1>1. PICK D : /\ Deleted(d, n, D)
               /\ ws = IF LastNum(After(d, D[MaxNum])) =< 0 THEN D[MaxNum] \o ClearDataBase ELSE D[MaxNum]
  BY ReWriteIs
<1>2. PICK m : m = Max({n, 1})
  OBVIOUS
<1>3. m \in Int /\ m >= 1
  BY <1>2, MaxOne
<1>4. IsDisk(d)
  BY DEF Fit
<1>5. After(d, << >>) = d /\ AllGood(d, << >>, c, u)
  BY NoneGood
<1> DEFINE Turn(i, w) == /\ AllGood(d, w, c, u)
                         /\ \/ w = << >> /\ (i > 0 => LastNum(d) < m)
                            \/ Stepped(After(d, w), c, u)
           S == {i \in 0 .. MaxNum : Turn(i, D[i])}
<1>6. 0 \in S
  <2>1. D[0] = << >> /\ MaxNum \in Nat
    BY <1>1, BlocksAssumption DEF Deleted
  <2> QED
    BY <1>5, <2>1
<1>7. ASSUME NEW i \in 1 .. MaxNum, i - 1 \in S PROVE i \in S
  <2>1. PICK w : w = D[i - 1]
    OBVIOUS
  <2>2. PICK x : x = After(d, w)
    OBVIOUS
  <2>3. D[i] = IF LastNum(x) < m THEN w ELSE w \o DeleteBlock(x, LastNum(x))
    BY <1>1, <1>2, <2>1, <2>2 DEF Deleted, More
  <2>4. AllGood(d, w, c, u) /\ ((w = << >> /\ (i - 1 > 0 => LastNum(d) < m)) \/ Stepped(x, c, u))
    BY <1>7, <2>1, <2>2
  <2>5. Fit(x, c, u)
    BY <1>5, <2>2, <2>4, SteppedFit
  <2>6. LastNum(x) \in Int /\ (Log(x) = << >> <=> LastNum(x) =< 0)
    BY <2>5, FitNum
  <2>7. i \in 0 .. MaxNum
    OBVIOUS
  <2>8. CASE LastNum(x) < m
    <3>1. D[i] = w
      BY <2>3, <2>8
    <3>2. Turn(i, w)
      BY <1>5, <2>2, <2>4, <2>8
    <3> QED
      BY <2>7, <3>1, <3>2
  <2>9. CASE ~(LastNum(x) < m)
    <3>1. PICK v : v = DeleteBlock(x, LastNum(x))
      OBVIOUS
    <3>2. D[i] = w \o v
      BY <2>3, <2>9, <3>1
    <3>3. Log(x) # << >>
      BY <1>3, <2>6, <2>9
    <3>4. AllGood(x, v, c, u) /\ Stepped(After(x, v), c, u)
      BY <2>5, <3>1, <3>3, TakeBack
    <3>5. AllGood(d, w \o v, c, u) /\ After(d, w \o v) = After(x, v)
      BY <1>4, <2>2, <2>4, <3>4, GoodJoined
    <3>6. Turn(i, D[i])
      BY <3>2, <3>4, <3>5
    <3> QED
      BY <2>7, <3>6
  <2> QED
    BY <2>8, <2>9
<1>8. MaxNum \in S
  <2> HIDE DEF S
  <2>1. MaxNum \in Nat
    BY BlocksAssumption
  <2>2. \A i \in 0 .. MaxNum : i \in S
    BY <1>6, <1>7, <2>1, OneByOne
  <2> QED
    BY <2>1, <2>2
<1>9. PICK w : w = D[MaxNum]
  OBVIOUS
<1>10. PICK x : x = After(d, w)
  OBVIOUS
<1>11. AllGood(d, w, c, u) /\ ((w = << >> /\ (MaxNum > 0 => LastNum(d) < m)) \/ Stepped(x, c, u))
  BY <1>8, <1>9, <1>10
<1>12. Fit(x, c, u)
  BY <1>5, <1>10, <1>11, SteppedFit
<1>13. /\ LastNum(x) \in Int /\ LastNum(x) =< MaxNum /\ MaxNum \in Nat
       /\ (Log(x) = << >> <=> LastNum(x) =< 0)
  BY <1>12, FitNum
<1>14. CASE LastNum(x) =< 0
  <2>1. ws = w \o ClearDataBase
    BY <1>1, <1>9, <1>10, <1>14
  <2>2. Good(x, c, u)
    BY <1>4, <1>10, <1>11, PassesAre DEF AllGood
  <2>3. PICK v : v = ClearDataBase
    OBVIOUS
  <2>4. AllGood(x, v, c, u) /\ Settled(After(x, v), c)
    BY <2>2, <2>3, ClearIs
  <2>5. AllGood(d, w \o v, c, u) /\ After(d, w \o v) = After(x, v)
    BY <1>4, <1>10, <1>11, <2>4, GoodJoined
  <2> QED
    BY <2>1, <2>3, <2>4, <2>5
<1>15. CASE ~(LastNum(x) =< 0)
  <2>1. ws = w /\ Log(x) # << >> /\ MaxNum > 0
    BY <1>1, <1>9, <1>10, <1>13, <1>15
  <2>2. CASE Stepped(x, c, u)
    <3>1. PICK e : At(x, e) /\ x.smart = Smarts(e) /\ Rem(x, c)
      BY <2>2 DEF Stepped
    <3>2. Settled(x, c)
      BY <2>1, <3>1 DEF Settled, Clean
    <3> QED
      BY <1>10, <1>11, <2>1, <3>2
  <2>3. CASE w = << >> /\ (MaxNum > 0 => LastNum(d) < m)
    BY <1>2, <1>5, <1>10, <1>11, <2>1, <2>3
  <2> QED
    BY <1>11, <2>2, <2>3
<1> QED
  BY <1>14, <1>15

LEMMA StartAppsIs ==
  ASSUME NEW d, NEW c, NEW u, Good(d, c, u), NEW ws, ws = StartApps(d)
  PROVE  AllGood(d, ws, c, u) /\ Fit(After(d, ws), c, u) /\ Good(After(d, ws), c, u)
<1>1. IsDisk(d) /\ (u => Unrotated(d)) /\ Dirty(d, c)
  BY DEF Good
<1>2. PICK v : v = IF Len(d.state) < GenesisCount THEN ClearAccounts ELSE << >>
  OBVIOUS
<1>3. PICK w : w = IF d.smart = << >> THEN << Put("smart", 0, GenesisBlock(0)) >> ELSE << >>
  OBVIOUS
<1>4. ws = v \o w
  BY <1>2, <1>3 DEF StartApps
<1>5. PICK x : x = After(d, v)
  OBVIOUS
<1>6. AllGood(d, v, c, u) /\ Good(x, c, u) /\ x.smart = d.smart /\ Fit(x, c, u)
  <2>1. CASE Len(d.state) < GenesisCount
    <3>1. v = ClearAccounts
      BY <1>2, <2>1
    <3>2. AllGood(d, v, c, u) /\ NoLog(x) /\ x.smart = d.smart
      BY <1>5, <3>1, ClearAccountsIs
    <3>3. Good(x, c, u) /\ Log(x) = << >>
      BY <3>2, NoLogIs
    <3> QED
      BY <3>2, <3>3 DEF Fit, Good
  <2>2. CASE ~(Len(d.state) < GenesisCount)
    <3>1. v = << >>
      BY <1>2, <2>2
    <3>2. AllGood(d, v, c, u) /\ x = d
      BY <1>5, <3>1, NoneGood
    <3>3. Fit(d, c, u)
      BY <1>1, <2>2 DEF Fit, Dirty
    <3> QED
      BY <3>2, <3>3
  <2> QED
    BY <2>1, <2>2
<1>7. PICK y : y = After(x, w)
  OBVIOUS
<1>8. AllGood(x, w, c, u) /\ Fit(y, c, u)
  <2>1. CASE d.smart = << >>
    <3>1. w = << Put("smart", 0, GenesisBlock(0)) >>
      BY <1>3, <2>1
    <3>2. IsDisk(x)
      BY <1>6 DEF Good
    <3>3. Log(x) = << >>
      <4>1. SUFFICES ASSUME Log(x) # << >> PROVE FALSE
        OBVIOUS
      <4>2. PICK e : Undoable(x, e)
        BY <1>6, <4>1 DEF Fit
      <4>3. LogOk(x, e) /\ SmartFits(x, Prev[e])
        BY <4>2 DEF Undoable
      <4>4. PICK p \in Block : p = Prev[e]
        BY <3>2, <4>3, LogOkIs, ChainIs
      <4>5. Num[p] \in Nat /\ SmartNums(p) \subseteq 0 .. Num[p]
        BY <4>4, ChainIs DEF SmartNums
      <4>6. PICK k \in Nat : Len(Sorted(SmartNums(p))) = k
        BY <4>5, SortedIs
      <4>7. Len(Smarts(p)) = k + 1
        BY <4>4, <4>6, SmartsIs
      <4>8. Len(x.smart) = 0
        BY <1>6, <2>1, <3>2, FilesAre
      <4> QED
        BY <4>3, <4>4, <4>7, <4>8 DEF SmartFits
    <3>4. AllGood(x, w, c, u) /\ y.state = x.state /\ y.act = x.act /\ y.prev = x.prev
      BY <1>6, <1>7, <2>1, <3>1, <3>3, FirstSmart
    <3>5. Good(y, c, u)
      BY <1>7, <3>2, <3>4, PassesAre DEF AllGood
    <3>6. Log(y) = << >>
      BY <3>3, <3>4 DEF Log
    <3> QED
      BY <3>4, <3>5, <3>6 DEF Fit, Good
  <2>2. CASE d.smart # << >>
    <3>1. w = << >>
      BY <1>3, <2>2
    <3> QED
      BY <1>6, <1>7, <3>1, NoneGood
  <2> QED
    BY <2>1, <2>2
<1>9. AllGood(d, v \o w, c, u) /\ After(d, v \o w) = y
  BY <1>1, <1>5, <1>6, <1>7, <1>8, GoodJoined
<1>10. Good(y, c, u)
  BY <1>1, <1>9, PassesAre DEF AllGood
<1> QED
  BY <1>4, <1>8, <1>9, <1>10
-----------------------------------------------------------------------------
(***************************************************************************)
(* What the operations start from and leave.                               *)
(***************************************************************************)
LEMMA SettledIs ==
  ASSUME NEW d, NEW c, Settled(d, c)
  PROVE  \E e \in Block :
           /\ Clean(d, e) /\ Rem(d, c) /\ At(d, e) /\ d.smart = Smarts(e) /\ IsDisk(d)
           /\ d.state = Replay(e) /\ HashesFit(d, e)
           /\ Log(d) = << >> => e = GenesisBlock(0)
           /\ Log(d) # << >> => /\ LogOk(d, e) /\ Num[e] = LastNum(d) /\ Num[e] > 0 /\ Undoable(d, e)
                                /\ LastItem(d).mode = "sum" /\ LastItem(d).val = [blk |-> e, acc |-> Replay(e)]
<1>1. PICK e : Clean(d, e) /\ Rem(d, c)
  BY DEF Settled
<1>2. /\ e \in Block /\ At(d, e) /\ d.smart = Smarts(e) /\ IsDisk(d) /\ d.state = Replay(e) /\ HashesFit(d, e)
      /\ Log(d) = << >> => e = GenesisBlock(0)
      /\ Log(d) # << >> => LogOk(d, e) /\ Log(d)[Len(Log(d))].mode = "sum"
  BY <1>1 DEF Clean, At
<1>3. ASSUME Log(d) # << >>
      PROVE  /\ LogOk(d, e) /\ Num[e] = LastNum(d) /\ Num[e] > 0 /\ Undoable(d, e)
             /\ LastItem(d).mode = "sum" /\ LastItem(d).val = [blk |-> e, acc |-> Replay(e)]
  <2>1. LogOk(d, e) /\ Undoable(d, e) /\ Num[e] = LastNum(d)
    BY <1>2, <1>3, AtUndoable DEF LogOk
  <2>2. PICK r : r = LastItem(d) /\ r = Log(d)[Len(Log(d))]
    BY <1>2, <1>3, LogIs
  <2>3. /\ Num[e] > 0 /\ Anc[e][Num[e]] = e /\ r.num = Num[e]
        /\ Len(Log(d)) \in 1 .. Len(Log(d)) /\ RowFits(r, e)
    <3>1. Len(Log(d)) \in Nat /\ Len(Log(d)) > 0
      BY <1>2, <2>1, LogOkIs
    <3>2. Len(Log(d)) \in 1 .. Len(Log(d))
      BY <3>1
    <3> QED
      BY <1>2, <2>1, <2>2, <3>2, LogOkIs
  <2>4. r.mode = "sum"
    BY <1>2, <1>3, <2>2
  <2>5. r.val = [blk |-> e, acc |-> Replay(e)]
    BY <2>3, <2>4 DEF RowFits, OldRow, NewRow, SumRow
  <2> QED
    BY <2>1, <2>2, <2>3, <2>4, <2>5
<1> QED
  BY <1>1, <1>2, <1>3

LEMMA CommittedIs ==
  ASSUME NEW x, NEW b, NEW c, NEW u, Committed(x, b, c, u)
  PROVE  Settled(x, c)
BY DEF Committed, Settled, Clean

(* What the guards of Rotate and MainChange say of the files.              *)
LEMMA RemembersIs ==
  ASSUME NEW d, IsDisk(d), NEW b, Remembers(d, b)
  PROVE  Rem(d, b)
<1>1. PICK P : d.prev \in Seq(P)
  BY FilesAre
<1>2. PICK A : d.act \in Seq(A)
  BY FilesAre
<1>3. PICK T : T = P \cup A
  OBVIOUS
<1>4. PICK p \in Seq(T) : p = d.prev
  BY <1>1, <1>3
<1>5. PICK a \in Seq(T) : a = d.act
  BY <1>2, <1>3
<1>6. PICK rows : rows = p \o a
  OBVIOUS
<1>7. /\ rows \in Seq(T) /\ Len(rows) = Len(p) + Len(a)
      /\ \A i \in 1 .. Len(p) : rows[i] = p[i]
      /\ \A i \in 1 .. Len(a) : rows[Len(p) + i] = a[i]
  <2>1. ConcatOf(rows, p, a, T)
    BY <1>6, ConcatIs
  <2> QED
    BY <2>1 DEF ConcatOf
<1>8. Len(p) \in Nat /\ Len(a) \in Nat /\ DOMAIN rows = 1 .. Len(rows) /\ Len(rows) \in Nat
  BY <1>7
<1>9. PICK sums : sums = {i \in 1 .. Len(rows) : rows[i].mode = "sum"}
  OBVIOUS
<1>10. sums # {} => Held(rows[Min(sums)], b)
  <2>1. sums = {i \in DOMAIN rows : rows[i].mode = "sum"}
    BY <1>8, <1>9
  <2>2. rows = d.prev \o d.act
    BY <1>4, <1>5, <1>6
  <2> QED
    BY <2>1, <2>2 DEF Remembers, Held
<1>11. ASSUME NEW i, FirstSum(rows, i) PROVE Held(rows[i], b)
  <2>1. i \in sums
    BY <1>9, <1>11 DEF FirstSum
  <2>2. \A j \in sums : i =< j
    <3>1. ASSUME NEW j \in sums, ~(i =< j) PROVE FALSE
      <4>1. j \in 1 .. i - 1 /\ rows[j].mode = "sum"
        BY <1>8, <1>9, <2>1, <3>1
      <4> QED
        BY <1>11, <4>1 DEF FirstSum
    <3> QED
      BY <3>1
  <2>3. Min(sums) = i
    <3>1. i \in Int /\ \A j \in sums : j \in Int
      BY <1>8, <1>9, <2>1
    <3>2. \A k \in sums : (\A j \in sums : k =< j) => k = i
      BY <2>1, <2>2, <3>1
    <3> QED
      BY <2>1, <2>2, <3>2 DEF Min
  <2> QED
    BY <1>10, <2>1, <2>3
<1>12. Holds(p, b)
  <2>1. ASSUME NEW i \in 1 .. Len(p), FirstSum(p, i) PROVE Held(p[i], b)
    <3>1. i \in 1 .. Len(rows) /\ rows[i] = p[i] /\ p[i].mode = "sum"
      BY <1>7, <1>8, <2>1 DEF FirstSum
    <3>2. \A j \in 1 .. i - 1 : j \in 1 .. Len(p) /\ rows[j] = p[j] /\ p[j].mode # "sum"
      BY <1>7, <1>8, <2>1 DEF FirstSum
    <3>3. FirstSum(rows, i)
      BY <3>1, <3>2 DEF FirstSum
    <3> QED
      BY <1>11, <3>1, <3>3
  <2> QED
    BY <2>1 DEF Holds
<1>13. ASSUME p = << >> PROVE Holds(a, b)
  <2>1. Len(p) = 0
    BY <1>13
  <2>2. \A i \in 1 .. Len(a) : rows[i] = a[i]
    BY <1>7, <1>8, <2>1
  <2>3. Len(rows) = Len(a)
    BY <1>7, <1>8, <2>1
  <2>4. ASSUME NEW i \in 1 .. Len(a), FirstSum(a, i) PROVE Held(a[i], b)
    <3>1. \A j \in 1 .. i - 1 : j \in 1 .. Len(a)
      BY <1>8
    <3>2. FirstSum(rows, i)
      BY <2>2, <2>3, <2>4, <3>1 DEF FirstSum
    <3> QED
      BY <1>11, <2>2, <3>2
  <2> QED
    BY <2>4 DEF Holds
<1> QED
  BY <1>4, <1>5, <1>12, <1>13 DEF Rem

(* DoBlock takes the last block back when the next one does not follow it; *)
(* the first block in the log is never one of these.                       *)
LEMMA UndoIs ==
  ASSUME NEW d, NEW c \in Block, NEW u, Settled(d, c), u => Unrotated(d),
         Log(d) # << >>, LastNum(d) < Num[c],
         LET item == LastItem(d)
             next == Anc[c][LastNum(d) + 1] IN
           item.mode # "sum" \/ item.val.blk # Prev[next] \/ item.val.acc # d.state,
         NEW ws, ws = DeleteBlock(d, LastNum(d))
  PROVE  AllGood(d, ws, c, u) /\ Settled(After(d, ws), c)
<1>1. PICK e \in Block :
        /\ Rem(d, c) /\ IsDisk(d) /\ d.state = Replay(e)
        /\ LogOk(d, e) /\ Num[e] = LastNum(d) /\ Num[e] > 0 /\ Undoable(d, e)
        /\ LastItem(d).mode = "sum" /\ LastItem(d).val = [blk |-> e, acc |-> Replay(e)]
  BY SettledIs
<1>2. PICK x : x = After(d, ws)
  OBVIOUS
<1>3. AllGood(d, ws, c, u) /\ Undone(d, x, e, c, u) /\ x.smart = Smarts(Prev[e])
  <2>1. ws = DeleteBlock(d, Num[e])
    BY <1>1
  <2> QED
    BY <1>1, <1>2, <2>1, DeleteLast
<1>4. At(x, Prev[e]) /\ Rem(x, c)
  BY <1>3 DEF Undone
<1>5. PICK n \in Nat : n = Num[e]
  BY ChainIs
<1>6. ASSUME Log(x) = << >> PROVE Prev[e] = GenesisBlock(0)
  <2>1. d.act = << >> \/ d.prev = << >>
    BY <1>3, <1>6 DEF Undone
  <2>2. PICK rows : rows = Log(d)
    OBVIOUS
  <2>3. \A i \in 1 .. Len(rows) : rows[i].num = n
    BY <1>3, <1>5, <1>6, <2>2 DEF Undone
  <2>4. Holds(rows, c)
    BY <1>1, <2>1, <2>2 DEF Rem, Log
  <2>5. PICK L \in Nat : L = Len(rows) /\ L > 0
    BY <1>1, <2>2, LogOkIs
  <2>6. rows[L].mode = "sum"
    BY <1>1, <2>2, <2>5, LogIs
  <2>7. PICK i \in 1 .. L : rows[i].mode = "sum" /\ \A j \in 1 .. i - 1 : rows[j].mode # "sum"
    <3>1. PICK S : S = {j \in 1 .. L : rows[j].mode = "sum"}
      OBVIOUS
    <3>2. S \subseteq Nat /\ S # {}
      BY <2>5, <2>6, <3>1
    <3>3. PICK k \in S : \A j \in S : k =< j
      BY <3>2, LeastIn
    <3>4. k \in 1 .. L /\ rows[k].mode = "sum"
      BY <3>1
    <3>5. \A j \in 1 .. k - 1 : j \in 1 .. L /\ ~(k =< j)
      BY <2>5, <3>4
    <3>6. \A j \in 1 .. k - 1 : rows[j].mode # "sum"
      BY <3>1, <3>3, <3>5
    <3> QED
      BY <3>4, <3>6
  <2>8. Held(rows[i], c) /\ rows[i].num = n
    <3>1. FirstSum(rows, i)
      BY <2>5, <2>7 DEF FirstSum
    <3> QED
      BY <2>3, <2>4, <2>5, <3>1 DEF Holds
  <2>9. rows[i].val.blk = e
    <3>1. RowFits(rows[i], e) /\ Anc[e][Num[e]] = e
      BY <1>1, <2>2, <2>5, LogOkIs
    <3>2. rows[i].val = [blk |-> Anc[e][n], acc |-> Replay(Anc[e][n])]
      BY <1>5, <2>7, <2>8, <3>1 DEF RowFits, OldRow, NewRow, SumRow
    <3> QED
      BY <1>5, <3>1, <3>2
  <2>10. n = 1
    <3>1. SUFFICES ASSUME n > 1 PROVE FALSE
      BY <1>1, <1>5
    <3>2. Anc[c][n] = e
      BY <2>8, <2>9, <3>1 DEF Held
    <3>3. Num[c] \in Nat /\ n + 1 \in 1 .. Num[c] /\ (n + 1) - 1 = n
      BY <1>1, <1>5, ChainIs
    <3>4. Prev[Anc[c][n + 1]] = Anc[c][n]
      BY <3>3, ChainIs
    <3> QED
      BY <1>1, <1>5, <3>2, <3>4
  <2>11. Prev[e] \in Block /\ Num[Prev[e]] = 0
    BY <1>1, <1>5, <2>10, ChainIs
  <2> QED
    BY <2>11, FirstIs
<1>7. Clean(x, Prev[e])
  BY <1>3, <1>4, <1>6 DEF Clean
<1> QED
  BY <1>2, <1>3, <1>4, <1>7 DEF Settled

(* DoBlock executes the next block when it follows the last one.           *)
LEMMA NextIs ==
  ASSUME NEW d, NEW c \in Block, NEW u, Settled(d, c), u => Unrotated(d),
         Log(d) # << >>, LastNum(d) < Num[c], NEW b, b = Anc[c][LastNum(d) + 1],
         Num[b] < GenesisCount \/ LastItem(d).val.blk = Prev[b],
         NEW ws, ws = Execute(d, b)
  PROVE  AllGood(d, ws, c, u) /\ Settled(After(d, ws), c)
<1>1. PICK e \in Block :
        /\ Rem(d, c) /\ At(d, e) /\ d.smart = Smarts(e)
        /\ Num[e] = LastNum(d) /\ Num[e] > 0
        /\ LastItem(d).val = [blk |-> e, acc |-> Replay(e)]
  BY SettledIs
<1>2. PICK n \in Nat : n = Num[e]
  BY ChainIs
<1>3. b \in Block /\ Num[b] = n + 1
  <2>1. Num[c] \in Nat /\ n + 1 \in 0 .. Num[c]
    BY <1>1, <1>2, ChainIs
  <2> QED
    BY <1>1, <1>2, <2>1, ChainIs
<1>4. Prev[b] = e
  <2>1. Prev[b] \in Block /\ Num[Prev[b]] = n
    BY <1>2, <1>3, ChainIs
  <2>2. CASE Num[b] < GenesisCount
    <3>1. Num[Prev[b]] < GenesisCount
      BY <1>2, <1>3, <2>1, <2>2, FirstIs
    <3> QED
      BY <1>2, <2>1, <3>1, GenesisSame
  <2>3. CASE LastItem(d).val.blk = Prev[b]
    BY <1>1, <2>3
  <2> QED
    BY <2>2, <2>3
<1>5. Before(d, b, e, c, u)
  BY <1>1, <1>2, <1>3, <1>4 DEF Before
<1>6. AllGood(d, ws, c, u) /\ Committed(After(d, ws), b, c, u)
  BY <1>5, ExecuteIs
<1> QED
  BY <1>6, CommittedIs

(* RunItem executes block 1 when the log is empty.                         *)
LEMMA FirstBlockIs ==
  ASSUME NEW d, NEW c \in Block, NEW u, Settled(d, c), u => Unrotated(d),
         Log(d) = << >>, Num[c] >= GenesisCount, NEW ws, ws = Execute(d, Anc[c][1])
  PROVE  AllGood(d, ws, c, u) /\ Settled(After(d, ws), c)
<1>1. PICK e \in Block : Rem(d, c) /\ At(d, e) /\ d.smart = Smarts(e) /\ e = GenesisBlock(0)
  BY SettledIs
<1>2. PICK b : b = Anc[c][1]
  OBVIOUS
<1>3. b \in Block /\ Num[b] = 1
  <2>1. Num[c] \in Nat /\ 1 \in 0 .. Num[c]
    BY ChainIs, FirstIs
  <2> QED
    BY <1>2, <2>1, ChainIs
<1>4. Prev[b] = e
  <2>1. Prev[b] \in Block /\ Num[Prev[b]] = 0
    BY <1>3, ChainIs
  <2> QED
    BY <1>1, <2>1, FirstIs
<1>5. Before(d, b, e, c, u)
  BY <1>1, <1>3, <1>4 DEF Before
<1>6. AllGood(d, ws, c, u) /\ Committed(After(d, ws), b, c, u)
  BY <1>2, <1>5, ExecuteIs
<1> QED
  BY <1>6, CommittedIs
-----------------------------------------------------------------------------
(***************************************************************************)
(* The inductive invariant: what is on the disk can be repaired at any     *)
(* time, and while TX runs it is what a block of the universe has left.    *)
(* With u, the log goes back to the first block.                           *)
(***************************************************************************)
Holding(t, d, p, u) == t \in Block /\ Good(d, t, u) /\ (p => Settled(d, t))
IInv(u) == Holding(tip, disk, up, u)

LEMMA HoldingIs ==
  ASSUME NEW t, NEW d, NEW p, NEW u, Holding(t, d, p, u)
  PROVE  t \in Block /\ IsDisk(d) /\ Good(d, t, u) /\ (u => Unrotated(d)) /\ (p => Settled(d, t))
BY DEF Holding, Good

LEMMA PassGood ==
  ASSUME NEW d, IsDisk(d), NEW t, NEW u, NEW ws, AllGood(d, ws, t, u)
  PROVE  Good(After(d, ws), t, u) /\ \A x \in Part(d, ws) : Good(x, t, u)
BY PassesAre DEF AllGood

LEMMA DoKeeps ==
  ASSUME NEW u, IInv(u), NEW ws, AllGood(disk, ws, tip, u), Settled(After(disk, ws), tip), Do(ws, TRUE)
  PROVE  IInv(u)'
<1>1. PICK t : t = tip
  OBVIOUS
<1>2. PICK d : d = disk
  OBVIOUS
<1>3. t \in Block /\ IsDisk(d)
  BY <1>1, <1>2, HoldingIs DEF IInv
<1>4. Good(After(d, ws), t, u) /\ \A x \in Part(d, ws) : Good(x, t, u)
  BY <1>1, <1>2, <1>3, PassGood
<1>5. tip' = t /\ (disk' = After(d, ws) \/ (disk' \in Part(d, ws) /\ up' = FALSE))
  BY <1>1, <1>2 DEF Do
<1>6. Good(disk', tip', u) /\ (up' => Settled(disk', tip'))
  BY <1>1, <1>2, <1>4, <1>5
<1>7. Holding(tip', disk', up', u)
  BY <1>3, <1>5, <1>6 DEF Holding
<1> QED
  BY <1>7 DEF IInv

LEMMA DemandKeeps ==
  ASSUME NEW u, IInv(u), NEW ws, AllGood(disk, ws, tip, u), Settled(After(disk, ws), tip), OnDemand(ws)
  PROVE  IInv(u)'
<1>1. PICK t : t = tip
  OBVIOUS
<1>2. PICK d : d = disk
  OBVIOUS
<1>3. t \in Block /\ IsDisk(d)
  BY <1>1, <1>2, HoldingIs DEF IInv
<1>4. Good(After(d, ws), t, u) /\ \A x \in Part(d, ws) : Good(x, t, u)
  BY <1>1, <1>2, <1>3, PassGood
<1>5. tip' = t /\ (disk' = After(d, ws) \/ (disk' \in Part(d, ws) /\ up' = FALSE))
  BY <1>1, <1>2 DEF OnDemand
<1>6. Good(disk', tip', u) /\ (up' => Settled(disk', tip'))
  BY <1>1, <1>2, <1>4, <1>5
<1>7. Holding(tip', disk', up', u)
  BY <1>3, <1>5, <1>6 DEF Holding
<1> QED
  BY <1>7 DEF IInv

(* The start.                                                              *)
LEMMA StartIs ==
  ASSUME NEW d, NEW c, NEW u, Good(d, c, u), NEW x, x = After(d, StartApps(d)),
         NEW ws, ws = StartApps(d) \o ReWrite(x, LastNum(x) - Rollback)
  PROVE  AllGood(d, ws, c, u) /\ Settled(After(d, ws), c)
<1>1. PICK v : v = StartApps(d)
  OBVIOUS
<1>2. AllGood(d, v, c, u) /\ Fit(x, c, u) /\ Good(x, c, u) /\ x = After(d, v)
  BY <1>1, StartAppsIs
<1>3. LastNum(x) \in Int /\ (Log(x) = << >> <=> LastNum(x) =< 0)
  BY <1>2, FitNum
<1>4. PICK n \in Int : n = LastNum(x) - Rollback /\ n =< LastNum(x)
  BY <1>3, TxAssumption
<1>5. PICK w : w = ReWrite(x, n)
  OBVIOUS
<1>6. PICK m \in Int : m = Max({n, 1}) /\ (m = n \/ m = 1)
  BY MaxOne
<1>7. /\ AllGood(x, w, c, u)
      /\ Settled(After(x, w), c) \/ (After(x, w) = x /\ Log(x) # << >> /\ LastNum(x) < m)
  BY <1>2, <1>5, <1>6, ReWriteGood
<1>8. ~(Log(x) # << >> /\ LastNum(x) < m)
  BY <1>3, <1>4, <1>6
<1>9. IsDisk(d)
  BY DEF Good
<1>10. AllGood(d, v \o w, c, u) /\ After(d, v \o w) = After(x, w)
  BY <1>2, <1>7, <1>9, GoodJoined
<1>11. ws = v \o w
  BY <1>1, <1>4, <1>5
<1> QED
  BY <1>7, <1>8, <1>10, <1>11

LEMMA SettledFit ==
  ASSUME NEW d, NEW c, NEW u, u => Unrotated(d), Settled(d, c)
  PROVE  Fit(d, c, u) /\ Good(d, c, u)
<1>1. PICK e \in Block : /\ Rem(d, c) /\ At(d, e) /\ IsDisk(d)
                         /\ Log(d) # << >> => Undoable(d, e)
  BY SettledIs
<1>2. Good(d, c, u)
  BY <1>1, AtGood
<1> QED
  BY <1>1, <1>2 DEF Fit

LEMMA ReWriteSettled ==
  ASSUME NEW d, NEW c, NEW u, u => Unrotated(d), Settled(d, c), NEW n \in Int, NEW ws, ws = ReWrite(d, n)
  PROVE  AllGood(d, ws, c, u) /\ Settled(After(d, ws), c)
<1>1. Fit(d, c, u) /\ Good(d, c, u)
  BY SettledFit
<1> QED
  BY <1>1, ReWriteGood

(* A row of the log CheckActDB finds outside the main chain has a number.  *)
LEMMA OffMainIs ==
  ASSUME IsDisk(disk), Settled(disk, tip), OffMain # {}
  PROVE  disk.act[Min(OffMain)].num \in Int
<1>1. PICK L \in Nat : L = Len(disk.act)
  BY FilesAre
<1>2. PICK m \in Int : m = Max({1, L - CheckRows}) /\ m >= 1
  <2>1. L - CheckRows \in Int
    BY TxAssumption
  <2>2. {1, L - CheckRows} = {L - CheckRows, 1}
    OBVIOUS
  <2> QED
    BY <2>1, <2>2, MaxOne
<1>3. PICK S : S = OffMain
  OBVIOUS
<1>4. S \subseteq m .. L
  BY <1>1, <1>2, <1>3 DEF OffMain
<1>5. S \subseteq Nat /\ S # {} /\ S \subseteq 1 .. L
  BY <1>2, <1>3, <1>4
<1>6. \E k \in S : \A j \in S : k =< j
  BY <1>5, LeastIn
<1>7. Min(S) \in S
  BY <1>6 DEF Min
<1>8. PICK i \in 1 .. L : i = Min(OffMain)
  BY <1>3, <1>5, <1>7
<1>9. disk.act # << >> /\ Log(disk) = disk.act
  BY <1>1, FilesAre DEF Log
<1>10. PICK e \in Block : LogOk(disk, e)
  BY <1>9, SettledIs
<1>11. disk.act[i].num \in 1 .. Num[e] /\ Num[e] \in Nat
  BY <1>1, <1>9, <1>10, LogOkIs
<1> QED
  BY <1>8, <1>11

(* A full log becomes the previous one, or the previous one is lost.       *)
LEMMA RotateIs ==
  ASSUME NEW d, NEW c, Settled(d, c), d.act # << >>, NEW full, full = [d EXCEPT !.prev = d.act, !.act = << >>],
         Rem(full, c), NEW half, half = [d EXCEPT !.prev = << >>], NEW x \in {full, half}
  PROVE  Settled(x, c) /\ Good(x, c, FALSE)
<1>1. PICK e \in Block : /\ Clean(d, e) /\ At(d, e) /\ d.smart = Smarts(e) /\ IsDisk(d)
                         /\ d.state = Replay(e) /\ HashesFit(d, e)
                         /\ Log(d) # << >> => LogOk(d, e) /\ LastItem(d).mode = "sum"
  BY SettledIs
<1>2. PICK R : Zero \in R /\ d \in [Files -> Seq(R)]
  BY <1>1 DEF IsDisk
<1>3. PICK none \in Seq(R) : none = << >> /\ Len(none) = 0
  <2>1. << >> \in Seq(R) /\ Len(<< >>) = 0
    OBVIOUS
  <2> QED
    BY <2>1
<1>4. /\ full \in [Files -> Seq(R)] /\ full.prev = d.act /\ full.act = << >>
      /\ full.state = d.state /\ full.hash = d.hash /\ full.smart = d.smart
  <2>1. full = [f \in Files |-> IF f = "act" THEN none ELSE IF f = "prev" THEN d["act"] ELSE d[f]]
    BY <1>2, <1>3 DEF Files
  <2>2. d["act"] \in Seq(R)
    BY <1>2, FilesIn
  <2>3. full \in [Files -> Seq(R)]
    BY <1>2, <1>3, <2>1, <2>2
  <2> QED
    BY <1>3, <2>1, <2>3, FilesIn
<1>5. /\ half \in [Files -> Seq(R)] /\ half.prev = << >> /\ half.act = d.act
      /\ half.state = d.state /\ half.hash = d.hash /\ half.smart = d.smart
  <2>1. half = [f \in Files |-> IF f = "prev" THEN none ELSE d[f]]
    BY <1>2, <1>3 DEF Files
  <2>2. half \in [Files -> Seq(R)]
    BY <1>2, <1>3, <2>1
  <2> QED
    BY <1>3, <2>1, <2>2, FilesIn
<1>6. Log(d) = d.act /\ LogOk(d, e) /\ LastItem(d).mode = "sum"
  BY <1>1 DEF Log
<1>7. IsDisk(x) /\ Log(x) = d.act /\ x.state = d.state /\ x.hash = d.hash /\ x.smart = d.smart
  BY <1>2, <1>4, <1>5 DEF IsDisk, Log
<1>8. /\ LogFits(d.act, e) /\ Num[e] = LastNum(d) /\ d.act[Len(d.act)].mode = "sum"
  BY <1>1, <1>6, LogIs DEF LogOk
<1>9. LogFits(x.prev, e) /\ LogFits(x.act, e)
  <2>1. LogFits(none, e)
    BY <1>3, EmptyFits
  <2> QED
    BY <1>3, <1>4, <1>5, <1>8, <2>1
<1>10. LogOk(x, e)
  <2>1. LastNum(x) = LastNum(d)
    BY <1>6, <1>7 DEF LastNum, LastItem
  <2>2. x.prev # << >> => x.prev = d.act /\ x.act = << >>
    BY <1>4, <1>5
  <2> QED
    BY <1>7, <1>8, <1>9, <2>1, <2>2 DEF LogOk
<1>11. SmartFits(x, e) /\ HashesFit(x, e)
  <2>1. SmartFits(d, e)
    BY <1>1 DEF At
  <2> QED
    BY <1>1, <1>7, <2>1 DEF SmartFits, HashesFit
<1>12. At(x, e)
  BY <1>1, <1>7, <1>8, <1>10, <1>11 DEF At
<1>13. Rem(x, c)
  <2>1. Holds(d.act, c)
    BY <1>4 DEF Rem
  <2>2. Holds(none, c)
    BY <1>3 DEF Holds
  <2> QED
    BY <1>3, <1>4, <1>5, <2>1, <2>2 DEF Rem
<1>14. Clean(x, e)
  BY <1>1, <1>7, <1>12 DEF Clean
<1>15. Good(x, c, FALSE)
  BY <1>12, <1>13, AtGood
<1> QED
  BY <1>13, <1>14, <1>15 DEF Settled

(* A change of the main chain above what the log remembers.                *)
LEMMA TipIs ==
  ASSUME NEW d, NEW c, NEW u, Good(d, c, u), NEW b, Rem(d, b)
  PROVE  Good(d, b, u) /\ (Settled(d, c) => Settled(d, b))
BY DEF Good, Dirty, Settled

LEMMA InitHolds ==
  ASSUME NEW u, Init
  PROVE  IInv(u)
<1>1. PICK d : d = Empty
  OBVIOUS
<1>2. d \in [Files -> Seq({Zero})]
  <2>1. << >> \in Seq({Zero})
    OBVIOUS
  <2>2. d = [f \in Files |-> << >>]
    BY <1>1 DEF Empty, Files
  <2> QED
    BY <2>1, <2>2
<1>3. IsDisk(d)
  BY <1>2 DEF IsDisk
<1>4. d.state = << >> /\ d.act = << >> /\ d.prev = << >>
  BY <1>1 DEF Empty
<1>5. Len(d.state) = 0 /\ GenesisCount \in Nat /\ GenesisCount > 0
  BY <1>3, <1>4, FilesAre, FirstIs
<1>6. NoLog(d)
  BY <1>3, <1>4, <1>5 DEF NoLog
<1>7. tip \in Block
  <2>1. GenesisCount - 1 \in 0 .. GenesisCount - 1
    BY <1>5
  <2>2. \E b \in Block : Num[b] = GenesisCount - 1
    BY <2>1, BlocksAssumption
  <2>3. GenesisBlock(GenesisCount - 1) \in Block
    BY <2>2 DEF GenesisBlock
  <2> QED
    BY <2>3 DEF Init
<1>8. Good(d, tip, u)
  BY <1>6, NoLogIs
<1>9. disk = d /\ up = FALSE
  BY <1>1 DEF Init
<1> QED
  BY <1>7, <1>8, <1>9 DEF IInv, Holding

LEMMA NextHolds ==
  ASSUME NEW u \in BOOLEAN, IInv(u), [Next]_vars, u /\ up => ~(Len(disk.act) > maxActs), maxActs \in Nat
  PROVE  IInv(u)'
<1>1. PICK t : t = tip
  OBVIOUS
<1>2. PICK d : d = disk
  OBVIOUS
<1>3. t \in Block /\ IsDisk(d) /\ Good(d, t, u) /\ (u => Unrotated(d)) /\ (up => Settled(d, t))
  BY <1>1, <1>2, HoldingIs DEF IInv
<1>4. CASE Start
  <2>1. PICK x : x = After(d, StartApps(d))
    OBVIOUS
  <2>2. PICK ws : ws = StartApps(d) \o ReWrite(x, LastNum(x) - Rollback)
    OBVIOUS
  <2>3. AllGood(d, ws, t, u) /\ Settled(After(d, ws), t)
    BY <1>3, <2>1, <2>2, StartIs
  <2>4. Do(ws, TRUE)
    BY <1>2, <1>4, <2>1, <2>2 DEF Start
  <2> QED
    BY <1>1, <1>2, <2>3, <2>4, DoKeeps
<1>5. CASE TxFirst
  <2>1. up /\ Log(d) = << >> /\ Num[t] >= GenesisCount
    BY <1>1, <1>2, <1>5 DEF TxFirst, IsFirst
  <2>2. PICK ws : ws = Execute(d, Anc[t][1])
    OBVIOUS
  <2>3. AllGood(d, ws, t, u) /\ Settled(After(d, ws), t)
    BY <1>3, <2>1, <2>2, FirstBlockIs
  <2>4. Do(ws, TRUE)
    BY <1>1, <1>2, <1>5, <2>2 DEF TxFirst
  <2> QED
    BY <1>1, <1>2, <2>3, <2>4, DoKeeps
<1>6. CASE TxUndo
  <2>1. up /\ Log(d) # << >> /\ LastNum(d) < Num[t]
    BY <1>1, <1>2, <1>6 DEF TxUndo, HasNext
  <2>2. LET item == LastItem(d)
            next == Anc[t][LastNum(d) + 1] IN
          item.mode # "sum" \/ item.val.blk # Prev[next] \/ item.val.acc # d.state
    BY <1>1, <1>2, <1>6 DEF TxUndo, Broken, Next1
  <2>3. PICK ws : ws = DeleteBlock(d, LastNum(d))
    OBVIOUS
  <2>4. AllGood(d, ws, t, u) /\ Settled(After(d, ws), t)
    BY <1>3, <2>1, <2>2, <2>3, UndoIs
  <2>5. Do(ws, TRUE)
    BY <1>2, <1>6, <2>3 DEF TxUndo
  <2> QED
    BY <1>1, <1>2, <2>4, <2>5, DoKeeps
<1>7. CASE TxNext
  <2>1. up /\ Log(d) # << >> /\ LastNum(d) < Num[t]
    BY <1>1, <1>2, <1>7 DEF TxNext, HasNext
  <2>2. PICK b : b = Anc[t][LastNum(d) + 1]
    OBVIOUS
  <2>3. Num[b] < GenesisCount \/ LastItem(d).val.blk = Prev[b]
    <3>1. b = Next1 /\ ~Broken
      BY <1>1, <1>2, <1>7, <2>2 DEF TxNext, Next1
    <3>2. b \in Block
      <4>1. PICK e \in Block : Num[e] = LastNum(d)
        BY <1>3, <2>1, SettledIs
      <4>2. Num[t] \in Nat /\ Num[e] \in Nat /\ Num[e] + 1 \in 0 .. Num[t]
        BY <1>3, <2>1, <4>1, ChainIs
      <4> QED
        BY <1>3, <2>2, <4>1, <4>2, ChainIs
    <3>3. Num[b] \in Nat /\ GenesisCount \in Nat
      BY <3>2, ChainIs, FirstIs
    <3>4. Num[b] >= GenesisCount => LastItem(d).val.blk = Prev[b]
      BY <1>2, <3>1 DEF Broken
    <3> QED
      BY <3>3, <3>4
  <2>4. PICK ws : ws = Execute(d, b)
    OBVIOUS
  <2>5. AllGood(d, ws, t, u) /\ Settled(After(d, ws), t)
    BY <1>3, <2>1, <2>2, <2>3, <2>4, NextIs
  <2>6. Do(ws, TRUE)
    BY <1>1, <1>2, <1>7, <2>2, <2>4 DEF TxNext, Next1
  <2> QED
    BY <1>1, <1>2, <2>5, <2>6, DoKeeps
<1>8. CASE TxCheckAct
  <2>1. up /\ OffMain # {}
    BY <1>8 DEF TxCheckAct
  <2>2. PICK n : n = disk.act[Min(OffMain)].num
    OBVIOUS
  <2>3. n \in Int
    BY <1>1, <1>2, <1>3, <2>1, <2>2, OffMainIs
  <2>4. PICK ws : ws = ReWrite(d, n)
    OBVIOUS
  <2>5. AllGood(d, ws, t, u) /\ Settled(After(d, ws), t)
    BY <1>3, <2>1, <2>3, <2>4, ReWriteSettled
  <2>6. Do(ws, TRUE)
    BY <1>2, <1>8, <2>2, <2>4 DEF TxCheckAct
  <2> QED
    BY <1>1, <1>2, <2>5, <2>6, DoKeeps
<1>9. ASSUME NEW n \in Heights, TxRewrite(n) PROVE IInv(u)'
  <2>1. n \in Int /\ up
    BY <1>9 DEF TxRewrite, Heights
  <2>2. PICK ws : ws = ReWrite(d, n)
    OBVIOUS
  <2>3. AllGood(d, ws, t, u) /\ Settled(After(d, ws), t)
    BY <1>3, <2>1, <2>2, ReWriteSettled
  <2>4. OnDemand(ws)
    BY <1>2, <1>9, <2>2 DEF TxRewrite
  <2> QED
    BY <1>1, <1>2, <2>3, <2>4, DemandKeeps
<1>10. CASE TxRewriteAll
  <2>1. PICK ws : ws = ClearDataBase
    OBVIOUS
  <2>2. AllGood(d, ws, t, u) /\ Settled(After(d, ws), t)
    BY <1>3, <2>1, ClearIs
  <2>3. OnDemand(ws)
    BY <1>10, <2>1 DEF TxRewriteAll
  <2> QED
    BY <1>1, <1>2, <2>2, <2>3, DemandKeeps
<1>11. CASE Kill
  <2>1. up' = FALSE /\ tip' = tip /\ disk' = disk
    BY <1>11 DEF Kill
  <2> QED
    BY <1>1, <1>2, <1>3, <2>1 DEF IInv, Holding
<1>12. CASE Rotate
  <2>1. PICK full : full = [d EXCEPT !.prev = d.act, !.act = << >>]
    OBVIOUS
  <2>2. PICK half : half = [d EXCEPT !.prev = << >>]
    OBVIOUS
  <2>3. up /\ Len(d.act) > maxActs /\ Remembers(full, t) /\ disk' \in {full, half} /\ tip' = tip
    BY <1>1, <1>2, <1>12, <2>1, <2>2 DEF Rotate
  <2>4. u = FALSE
    BY <1>2, <2>3, u /\ up => ~(Len(disk.act) > maxActs)
  <2>5. d.act # << >>
    <3>1. Len(d.act) \in Nat /\ (d.act = << >> <=> Len(d.act) = 0)
      BY <1>3, FilesAre
    <3> QED
      BY <2>3, <3>1
  <2>6. IsDisk(full)
    <3>1. PICK R : Zero \in R /\ d \in [Files -> Seq(R)]
      BY <1>3 DEF IsDisk
    <3>2. PICK none \in Seq(R) : none = << >>
      <4>1. << >> \in Seq(R)
        OBVIOUS
      <4> QED
        BY <4>1
    <3>3. full = [f \in Files |-> IF f = "act" THEN none ELSE IF f = "prev" THEN d["act"] ELSE d[f]]
      BY <2>1, <3>1, <3>2 DEF Files
    <3>4. d["act"] \in Seq(R)
      BY <3>1, FilesIn
    <3>5. full \in [Files -> Seq(R)]
      BY <3>1, <3>2, <3>3, <3>4
    <3> QED
      BY <3>1, <3>5 DEF IsDisk
  <2>7. Rem(full, t)
    BY <2>3, <2>6, RemembersIs
  <2>8. Settled(disk', t) /\ Good(disk', t, FALSE)
    BY <1>3, <2>1, <2>2, <2>3, <2>5, <2>7, RotateIs
  <2> QED
    BY <1>1, <1>3, <2>3, <2>4, <2>8 DEF IInv, Holding
<1>13. CASE MainChange
  <2>1. tip' \in Block /\ Remembers(d, tip') /\ disk' = d /\ up' = up
    BY <1>2, <1>13 DEF MainChange
  <2>2. Rem(d, tip')
    BY <1>3, <2>1, RemembersIs
  <2>3. Good(d, tip', u) /\ (Settled(d, t) => Settled(d, tip'))
    BY <1>3, <2>2, TipIs
  <2> QED
    BY <1>3, <2>1, <2>3 DEF IInv, Holding
<1>14. CASE UNCHANGED vars
  <2>1. tip' = tip /\ disk' = disk /\ up' = up
    BY <1>14 DEF vars
  <2> QED
    BY <1>1, <1>2, <1>3, <2>1 DEF IInv, Holding
<1> QED
  BY <1>4, <1>5, <1>6, <1>7, <1>8, <1>9, <1>10, <1>11, <1>12, <1>13, <1>14 DEF Next, TxStep

-----------------------------------------------------------------------------
(***************************************************************************)
(* The properties.                                                         *)
(***************************************************************************)
LEMMA ExecutedIs ==
  ASSUME IsDisk(disk), Settled(disk, tip)
  PROVE  /\ Executed \in Block /\ disk.state = Replay(Executed) /\ disk.smart = Smarts(Executed)
         /\ HashesFit(disk, Executed)
<1>1. PICK e \in Block : /\ disk.smart = Smarts(e) /\ disk.state = Replay(e) /\ HashesFit(disk, e)
                         /\ Log(disk) = << >> => e = GenesisBlock(0)
                         /\ Log(disk) # << >> => LastItem(disk).val = [blk |-> e, acc |-> Replay(e)]
  BY SettledIs
<1>2. Executed = e
  BY <1>1 DEF Executed
<1> QED
  BY <1>1, <1>2

LEMMA NeverStuckIs ==
  ASSUME NEW d, NEW c, Good(d, c, TRUE)
  PROVE  ~ErrorInit(After(d, StartApps(d)))
<1>1. PICK x : x = After(d, StartApps(d))
  OBVIOUS
<1>2. Fit(x, c, TRUE)
  BY <1>1, StartAppsIs
<1>3. IsDisk(x) /\ Unrotated(x) /\ (Log(x) = << >> <=> LastNum(x) =< 0)
  BY <1>2, FitNum DEF Fit
<1>4. Len(x.state) \in Nat /\ GenesisCount \in Nat
  BY <1>3, FilesAre, FirstIs
<1>5. CASE Log(x) = << >>
  <2>1. x.act = << >>
    BY <1>3, <1>5, LogIs
  <2>2. Len(x.state) =< GenesisCount
    BY <1>3, <2>1 DEF Unrotated
  <2> QED
    BY <1>1, <1>4, <2>2 DEF ErrorInit
<1>6. CASE Log(x) # << >>
  BY <1>1, <1>3, <1>6 DEF ErrorInit
<1> QED
  BY <1>5, <1>6

(* A log that fits a chain has at most a row for every account and block,  *)
(* and one for every block.                                                *)
LEMMA LogBound ==
  ASSUME NEW e \in Block, NEW rows, \E R : rows \in Seq(R), LogFits(rows, e)
  PROVE  Len(rows) =< Num[e] * (AccountsOf(e) + 1)
<1>1. PICK n \in Nat : n = Len(rows)
  OBVIOUS
<1>2. PICK a \in Nat : a = AccountsOf(e)
  BY AccountsType
<1>3. PICK m \in Nat : m = Num[e]
  BY ChainIs
<1>4. PICK key : key = [i \in 1 .. n |-> << rows[i].num, IF rows[i].mode = "sum" THEN a ELSE rows[i].id >>]
  OBVIOUS
<1>5. ASSUME NEW i \in 1 .. n
      PROVE  rows[i].num \in 1 .. m /\ (rows[i].mode # "sum" => rows[i].id \in 0 .. a - 1)
  <2>1. PICK r : r = rows[i]
    OBVIOUS
  <2>2. RowFits(r, e)
    BY <1>1, <2>1 DEF LogFits
  <2>3. r.num \in 1 .. m
    BY <1>3, <2>2 DEF RowFits
  <2>4. PICK c : c = Anc[e][r.num]
    OBVIOUS
  <2>5. c \in Block /\ Num[c] = r.num /\ r.num \in 0 .. Num[e]
    BY <1>3, <2>3, <2>4, ChainIs
  <2>6. AccountsOf(c) =< a /\ AccountsOf(c) \in Nat
    BY <1>2, <2>4, <2>5, AccountsGrow, AccountsType
  <2>7. AccountsOf(Prev[c]) =< AccountsOf(c) /\ AccountsOf(Prev[c]) \in Nat
    BY <2>3, <2>5, <2>6, AccountsNext
  <2>8. OldRow(r, c) \/ NewRow(r, c) \/ SumRow(r, c)
    BY <2>2, <2>4 DEF RowFits
  <2>9. CASE OldRow(r, c)
    BY <2>1, <2>3, <2>6, <2>7, <2>9 DEF OldRow
  <2>10. CASE NewRow(r, c)
    BY <2>1, <2>3, <2>6, <2>7, <2>10 DEF NewRow
  <2>11. CASE SumRow(r, c)
    BY <2>1, <2>3, <2>11 DEF SumRow
  <2> QED
    BY <2>8, <2>9, <2>10, <2>11
<1>6. ASSUME NEW i \in 1 .. n, NEW j \in 1 .. n, i < j PROVE key[i] # key[j]
  <2>1. /\ rows[i].num \in Nat /\ rows[j].num \in Nat
        /\ rows[i].mode = "sum" => rows[i].num < rows[j].num
        /\ rows[i].num = rows[j].num /\ rows[j].mode # "sum" => rows[i].id # rows[j].id
    BY <1>1, <1>5, <1>6 DEF LogFits, Ordered
  <2>2. key[i] = << rows[i].num, IF rows[i].mode = "sum" THEN a ELSE rows[i].id >>
    BY <1>4
  <2>3. key[j] = << rows[j].num, IF rows[j].mode = "sum" THEN a ELSE rows[j].id >>
    BY <1>4
  <2>4. SUFFICES ASSUME key[i] = key[j] PROVE FALSE
    OBVIOUS
  <2>5. /\ rows[i].num = rows[j].num
        /\ (IF rows[i].mode = "sum" THEN a ELSE rows[i].id) = (IF rows[j].mode = "sum" THEN a ELSE rows[j].id)
    BY <2>2, <2>3, <2>4
  <2>6. rows[i].mode # "sum"
    BY <2>1, <2>5
  <2>7. CASE rows[j].mode = "sum"
    BY <1>5, <2>5, <2>6, <2>7
  <2>8. CASE rows[j].mode # "sum"
    BY <2>1, <2>5, <2>6, <2>8
  <2> QED
    BY <2>7, <2>8
<1>7. key \in Injection(1 .. n, (1 .. m) \X (0 .. a))
  <2>1. \A i \in 1 .. n : key[i] \in (1 .. m) \X (0 .. a)
    BY <1>2, <1>4, <1>5
  <2>2. key \in [1 .. n -> (1 .. m) \X (0 .. a)]
    BY <1>4, <2>1
  <2>3. \A i, j \in 1 .. n : key[i] = key[j] => i = j
    <3> SUFFICES ASSUME NEW i \in 1 .. n, NEW j \in 1 .. n, key[i] = key[j], i # j PROVE FALSE
      OBVIOUS
    <3>1. i < j \/ j < i
      OBVIOUS
    <3> QED
      BY <1>6, <3>1
  <2> QED
    BY <2>2, <2>3 DEF Injection, IsInjective
<1>8. /\ IsFiniteSet(1 .. n) /\ Cardinality(1 .. n) = n
      /\ IsFiniteSet(1 .. m) /\ Cardinality(1 .. m) = m
      /\ IsFiniteSet(0 .. a) /\ Cardinality(0 .. a) = a + 1
  <2>1. ASSUME NEW k \in Nat PROVE IsFiniteSet(1 .. k) /\ Cardinality(1 .. k) = k
    <3>1. IsFiniteSet(1 .. k) /\ Cardinality(1 .. k) = IF 1 > k THEN 0 ELSE k - 1 + 1
      BY FS_Interval
    <3> QED
      BY <3>1
  <2>2. IsFiniteSet(0 .. a) /\ Cardinality(0 .. a) = IF 0 > a THEN 0 ELSE a - 0 + 1
    BY FS_Interval
  <2> QED
    BY <2>1, <2>2
<1>9. IsFiniteSet((1 .. m) \X (0 .. a)) /\ Cardinality((1 .. m) \X (0 .. a)) = m * (a + 1)
  BY ZenonT(60), <1>8, FS_Product
<1>10. Cardinality(1 .. n) =< Cardinality((1 .. m) \X (0 .. a))
  BY <1>7, <1>9, FS_Injection
<1> QED
  BY <1>1, <1>2, <1>3, <1>8, <1>9, <1>10

(* A log of size WholeLog is not full between two operations.              *)
LEMMA NotFull ==
  ASSUME NEW d, NEW c, IsDisk(d), Settled(d, c), maxActs = WholeLog, maxActs \in Nat
  PROVE  ~(Len(d.act) > maxActs)
<1>1. PICK e : Clean(d, e)
  BY DEF Settled
<1>2. e \in Block /\ (Log(d) # << >> => LogOk(d, e))
  BY <1>1 DEF Clean, At
<1>3. Len(d.act) \in Nat /\ (d.act = << >> <=> Len(d.act) = 0) /\ \E R : d.act \in Seq(R)
  BY FileIs DEF Files
<1>4. CASE Log(d) = << >>
  <2>1. Len(d.act) = 0
    BY <1>3, <1>4, LogIs
  <2> QED
    BY <2>1
<1>5. CASE Log(d) # << >>
  <2>1. Len(d.act) =< Num[e] * (AccountsOf(e) + 1)
    BY <1>2, <1>3, <1>5, LogBound DEF LogOk
  <2>2. PICK k : k = Num[e] * (AccountsOf(e) + 1)
    OBVIOUS
  <2>3. k =< maxActs /\ k \in Int
    BY <1>2, <2>2, WholeAssumption, AccountsType, ChainIs
  <2> QED
    BY <1>3, <2>1, <2>2, <2>3
<1> QED
  BY <1>4, <1>5

(* What holds all the time, with rotations of the log and without.         *)
Size == maxActs \in LogSizes /\ maxActs \in Nat

LEMMA SizeAlways == Spec => []Size
<1>1. Init => Size
  BY TxAssumption DEF Init, Size
<1>2. Size /\ [Next]_vars => Size'
  BY DEF Size, Next, vars
<1> QED
  BY <1>1, <1>2, PTL DEF Spec

Invariant == IInv(FALSE)

LEMMA InvariantAlways == Spec => []Invariant
<1>1. Init => Invariant
  BY InitHolds DEF Invariant
<1>2. Invariant /\ Size /\ [Next]_vars => Invariant'
  <2> SUFFICES ASSUME Invariant, Size, [Next]_vars PROVE Invariant'
    OBVIOUS
  <2>1. IInv(FALSE) /\ maxActs \in Nat
    BY DEF Invariant, Size
  <2>2. IInv(FALSE)'
    BY <2>1, NextHolds
  <2> QED
    BY <2>2 DEF Invariant
<1> QED
  BY <1>1, <1>2, SizeAlways, PTL DEF Spec

(* Between two operations the accounts and the smart contracts are what    *)
(* the blocks of the executed chain lead to, for every tree of blocks and  *)
(* every change of the main chain, with kills between any two writes of    *)
(* BlockProcessTX, BlockDeleteTX, ClearDataBase and the start, and with    *)
(* failed rotations of the log.                                            *)
THEOREM StateIsReplayed == Spec => []StateIsReplay
<1>1. Invariant => StateIsReplay
  <2> SUFFICES ASSUME Invariant, up
               PROVE  disk.state = Replay(Executed) /\ disk.smart = Smarts(Executed)
    BY DEF StateIsReplay
  <2>1. IsDisk(disk) /\ Settled(disk, tip)
    BY HoldingIs DEF Invariant, IInv
  <2> QED
    BY <2>1, ExecutedIs
<1> QED
  BY <1>1, InvariantAlways, PTL

(* The hashes of the state that TX gives MAIN for the chain are those of   *)
(* the executed chain (CalcHash and DeleteAct on the file of hashes), in   *)
(* the same runs.                                                          *)
THEOREM HashesAreOfChain == Spec => []HashesOfChain
<1>1. Invariant => HashesOfChain
  <2> SUFFICES ASSUME Invariant, up, NEW k \in 1 .. MaxNum, k * Period =< Num[Executed]
               PROVE  LET b == Anc[Executed][k * Period] IN
                      k < Len(disk.hash) /\ disk.hash[k + 1] = [blk |-> b, acc |-> Replay(b)]
    BY DEF HashesOfChain
  <2>1. IsDisk(disk) /\ Settled(disk, tip)
    BY HoldingIs DEF Invariant, IInv
  <2>2. HashesFit(disk, Executed)
    BY <2>1, ExecutedIs
  <2> QED
    BY <2>2 DEF HashesFit
<1> QED
  BY <1>1, InvariantAlways, PTL

Whole == maxActs = WholeLog => IInv(TRUE)

(* As long as the log goes back to the first block, no kill leaves files   *)
(* the constructor of CTXProcess gives up on, wherever it falls            *)
(* (CommitBlock, DeleteAct, ReWriteDAppTransactions, ClearDataBase).       *)
THEOREM StartNeverStuck == Spec => []NeverStuck
<1>1. Init => Whole
  BY InitHolds DEF Whole
<1>2. Whole /\ Size /\ [Next]_vars => Whole'
  <2> SUFFICES ASSUME Whole, Size, [Next]_vars, (maxActs = WholeLog)' PROVE IInv(TRUE)'
    BY DEF Whole
  <2>1. maxActs' = maxActs
    BY DEF Next, vars
  <2>2. maxActs = WholeLog
    BY <2>1
  <2>3. IInv(TRUE) /\ maxActs \in Nat
    BY <2>2 DEF Whole, Size
  <2>4. up => ~(Len(disk.act) > maxActs)
    BY <2>2, <2>3, NotFull, HoldingIs DEF IInv
  <2> QED
    BY <2>3, <2>4, NextHolds
<1>3. Whole => NeverStuck
  <2> SUFFICES ASSUME Whole, maxActs = WholeLog PROVE ~ErrorInit(After(disk, StartApps(disk)))
    BY DEF NeverStuck
  <2>1. Good(disk, tip, TRUE)
    BY HoldingIs DEF Whole, IInv
  <2> QED
    BY <2>1, NeverStuckIs
<1> QED
  BY <1>1, <1>2, <1>3, SizeAlways, PTL DEF Spec
=============================================================================
