--------------------------- MODULE JinnNodeProofs ---------------------------
(***************************************************************************)
(* What the consensus of a node keeps, for every universe of blocks, every *)
(* size of its list and every behaviour of its peers and miners:           *)
(*                                                                         *)
(* NodeTypes    Spec => []TypeOK                                           *)
(* BodiesStored Spec => []MainHasBodies                                    *)
(* NeverAhead   Spec => MainNotAhead                                       *)
(* OrderKept    Spec => []AskedInOrder                                     *)
(* MovesOnly    Spec => MainMoves                                          *)
(***************************************************************************)
EXTENDS JinnNode, Loops, FiniteSetTheorems, SequenceTheorems, TLAPS

-----------------------------------------------------------------------------
(* Chains.                                                                 *)
LEMMA Sizes ==
  /\ GenesisCount \in Nat /\ 0 < GenesisCount /\ MaxNum \in Nat /\ GenesisCount =< MaxNum
  /\ StepNew \in Nat /\ StepSave \in Nat /\ StepLast \in Nat /\ StepNew < StepSave
  /\ CheckNums \in Nat /\ 0 < CheckNums /\ Depth \in Nat /\ 1 < Depth
  /\ ClearMem \in Nat /\ MaxUpset \in Nat /\ MaxCur \in Nat /\ MaxCur =< MaxNum + StepNew
BY BlocksAssumption, NodeAssumption

LEMMA NumIs == \A b \in Block : Num[b] \in 0 .. MaxNum /\ Num[b] \in Nat
<1>1. Num \in [Block -> 0 .. MaxNum] /\ MaxNum \in Nat
  BY BlocksAssumption DEF Heights
<1> QED
  BY <1>1

LEMMA AncIs ==
  ASSUME NEW b \in Block, NEW n \in 0 .. Num[b]
  PROVE  n \in Heights /\ Anc[b][n] \in Block /\ Num[Anc[b][n]] = n
<1>0. Num[b] \in 0 .. MaxNum /\ MaxNum \in Nat
  BY NumIs, Sizes
<1>1. Num[b] \in 0 .. MaxNum /\ n \in Heights /\ n \in Nat
  BY <1>0 DEF Heights
<1>2. Anc[b][n] \in Block
  BY <1>1, BlocksAssumption
<1>3. CASE n > 0
  BY <1>1, <1>2, <1>3, BlocksAssumption
<1>4. CASE n = 0 /\ Num[b] = 0
  BY <1>1, <1>2, <1>4, BlocksAssumption
<1>5. CASE n = 0 /\ Num[b] # 0
  <2> DEFINE x == Anc[b][1]
  <2>1. 1 \in 1 .. Num[b] /\ 1 \in Heights
    BY <1>0, <1>5 DEF Heights
  <2>2. x \in Block /\ Num[x] = 1 /\ Anc[b][0] = Prev[x]
    <3>1. Anc[b][1] \in Block
      BY <2>1, BlocksAssumption
    <3>2. Num[Anc[b][1]] = 1 /\ Anc[b][1 - 1] = Prev[Anc[b][1]]
      BY <2>1, BlocksAssumption
    <3> QED
      BY <3>1, <3>2
  <2> HIDE DEF x
  <2>3. Num[x] > 0 => Num[Prev[x]] = Num[x] - 1
    BY <2>2, BlocksAssumption
  <2> QED
    BY <1>1, <1>2, <1>5, <2>2, <2>3
<1> QED
  BY <1>1, <1>2, <1>3, <1>4, <1>5

LEMMA AncTop == \A b \in Block : Anc[b][Num[b]] = b
BY BlocksAssumption

LEMMA AncBelow ==
  ASSUME NEW b \in Block, NEW n \in 1 .. Num[b]
  PROVE  Anc[b][n - 1] = Prev[Anc[b][n]]
BY BlocksAssumption

(* The ancestors of an ancestor.                                           *)
LEMMA AncAnc ==
  ASSUME NEW b \in Block, NEW n \in 0 .. Num[b]
  PROVE  \A j \in 0 .. n : Anc[Anc[b][n]][j] = Anc[b][j]
<1> DEFINE x == Anc[b][n]
           S == {i \in 0 .. n : Anc[x][n - i] = Anc[b][n - i]}
<1>0. Num[b] \in Nat /\ n \in Nat
  BY NumIs
<1>1. x \in Block /\ Num[x] = n
  BY AncIs
<1>2. 0 \in S
  <2>1. Anc[x][Num[x]] = x
    BY <1>1, AncTop
  <2> HIDE DEF x
  <2> QED
    BY <1>0, <1>1, <2>1 DEF x
<1>3. ASSUME NEW i \in 1 .. n, i - 1 \in S PROVE i \in S
  <2>1. n - (i - 1) \in 1 .. n /\ n - (i - 1) - 1 = n - i /\ i \in 0 .. n
    BY <1>0
  <2>2. Anc[x][n - (i - 1)] = Anc[b][n - (i - 1)]
    BY <1>3
  <2>3. Anc[b][n - (i - 1) - 1] = Prev[Anc[b][n - (i - 1)]]
    BY <1>0, <2>1, AncBelow
  <2>4. Anc[x][n - (i - 1) - 1] = Prev[Anc[x][n - (i - 1)]]
    <3> HIDE DEF x
    <3> QED
      BY <1>0, <1>1, <2>1, AncBelow
  <2> HIDE DEF x
  <2>5. Anc[x][n - i] = Anc[b][n - i]
    BY <2>1, <2>2, <2>3, <2>4
  <2> QED
    BY <2>1, <2>5
<1> HIDE DEF S
<1>4. \A i \in 0 .. n : i \in S
  BY <1>0, <1>2, <1>3, OneByOne
<1>5. ASSUME NEW j \in 0 .. n PROVE Anc[x][j] = Anc[b][j]
  <2>1. n - j \in 0 .. n /\ n - (n - j) = j
    BY <1>0
  <2>2. n - j \in S
    BY <1>4, <2>1
  <2> QED
    BY <2>1, <2>2 DEF S
<1> QED
  BY <1>5

LEMMA OneGenesis ==
  ASSUME NEW a \in Block, NEW b \in Block, Num[a] = Num[b], Num[a] < GenesisCount
  PROVE  a = b
<1>1. Num[a] \in 0 .. GenesisCount - 1
  BY NumIs, Sizes
<1> QED
  BY <1>1, BlocksAssumption
-----------------------------------------------------------------------------
(* What is stored.                                                         *)
Disk == [tip : Block, known : SUBSET Block, full : SUBSET Block]

Grown(d, e) == d.known \subseteq e.known /\ d.full \subseteq e.full

ChainStored(d, b) == \A n \in 0 .. Num[b] : Anc[b][n] \in d.known /\ HasBody(d, Anc[b][n])

DiskOK(d) ==
  /\ d \in Disk /\ d.tip \in d.known /\ d.full \subseteq d.known
  /\ GenesisCount - 1 =< Num[d.tip]
  /\ ChainStored(d, d.tip)

(* The clock is past the blocks every node makes itself.                   *)
ClockOK(c) == c \in Nat /\ GenesisCount + StepSave - 1 =< c /\ c =< MaxCur

LEMMA TipMoved ==
  ASSUME NEW d, DiskOK(d), NEW x \in d.known, ChainStored(d, x), GenesisCount - 1 =< Num[x]
  PROVE  DiskOK([d EXCEPT !.tip = x]) /\ Grown(d, [d EXCEPT !.tip = x])
<1> DEFINE e == [d EXCEPT !.tip = x]
<1>1. e \in Disk /\ e.tip = x /\ e.known = d.known /\ e.full = d.full
  BY DEF DiskOK, Disk
<1> HIDE DEF e
<1>2. DiskOK(e)
  BY <1>1 DEF DiskOK, ChainStored, HasBody
<1>3. Grown(d, e)
  BY <1>1 DEF Grown
<1> QED
  BY <1>2, <1>3 DEF e

LEMMA MoreStored ==
  ASSUME NEW d, DiskOK(d), NEW e \in Disk, e.tip = d.tip, Grown(d, e), e.full \subseteq e.known
  PROVE  DiskOK(e)
BY DEF DiskOK, Grown, ChainStored, HasBody

LEMMA MeetsMain ==
  ASSUME NEW d, DiskOK(d), NEW b \in Block, NEW k \in 0 .. Num[b], OnMain(d, Anc[b][k])
  PROVE  k =< Num[d.tip] /\ \A j \in 0 .. k : Anc[b][j] = Anc[d.tip][j]
<1>1. d.tip \in Block /\ Num[d.tip] \in Nat
  BY NumIs DEF DiskOK, Disk
<1>2. Anc[b][k] \in Block /\ Num[Anc[b][k]] = k /\ \A j \in 0 .. k : Anc[Anc[b][k]][j] = Anc[b][j]
  BY AncIs, AncAnc
<1>3. k =< Num[d.tip] /\ Anc[d.tip][k] = Anc[b][k]
  BY <1>2 DEF OnMain
<1>4. k \in 0 .. Num[d.tip]
  BY <1>1, <1>3, NumIs
<1>5. \A j \in 0 .. k : Anc[Anc[d.tip][k]][j] = Anc[d.tip][j]
  BY <1>1, <1>4, AncAnc
<1> QED
  BY <1>2, <1>3, <1>5

LEMMA StoredAbove ==
  ASSUME NEW d, DiskOK(d), NEW b \in Block, NEW k \in 0 .. Num[b], OnMain(d, Anc[b][k]),
         NEW n \in k .. Num[b],
         \A j \in k + 1 .. n : Anc[b][j] \in d.known /\ HasBody(d, Anc[b][j])
  PROVE  ChainStored(d, Anc[b][n])
<1>0. Num[b] \in Nat /\ n \in 0 .. Num[b]
  BY NumIs
<1>1. Num[Anc[b][n]] = n /\ \A j \in 0 .. n : Anc[Anc[b][n]][j] = Anc[b][j]
  BY <1>0, AncIs, AncAnc
<1>2. ASSUME NEW j \in 0 .. n PROVE Anc[b][j] \in d.known /\ HasBody(d, Anc[b][j])
  <2>1. CASE j > k
    BY <1>0, <2>1
  <2>2. CASE j =< k
    <3>1. j \in 0 .. k /\ Num[d.tip] \in Nat
      BY <1>0, <2>2, NumIs DEF DiskOK, Disk
    <3>2. Anc[b][j] = Anc[d.tip][j] /\ j \in 0 .. Num[d.tip]
      BY <3>1, MeetsMain
    <3> QED
      BY <3>2 DEF DiskOK, ChainStored
  <2> QED
    BY <2>1, <2>2, <1>0
<1> QED
  BY <1>1, <1>2 DEF ChainStored

(* What the search down from a stored block finds.                         *)
LEMMA HeadIs ==
  ASSUME NEW d, DiskOK(d), NEW b \in d.known, NEW k, k = HeadNum(d, b)
  PROVE  /\ k \in 0 .. Num[b]
         /\ OnMain(d, Anc[b][k]) \/ k > 0
         /\ \A j \in k .. Num[b] : Anc[b][j] \in d.known
<1> DEFINE S == {j \in 0 .. Num[b] : OnMain(d, Anc[b][j]) \/ j = 0 \/ Anc[b][j - 1] \notin d.known}
<1>1. b \in Block /\ Num[b] \in Nat /\ d.tip \in Block /\ Num[d.tip] \in Nat
  BY NumIs DEF DiskOK, Disk
<1>2. S \subseteq 0 .. Num[b] /\ 0 \in S
  BY <1>1
<1>3. k = Max(S)
  BY DEF HeadNum
<1>4. k \in S /\ \A j \in S : j =< k
  <2> HIDE DEF S
  <2> QED
    BY <1>1, <1>2, <1>3, GreatestIn
<1>5. OnMain(d, Anc[b][0])
  <2>1. Anc[b][0] \in Block /\ Num[Anc[b][0]] = 0 /\ Anc[d.tip][0] \in Block /\ Num[Anc[d.tip][0]] = 0
    BY <1>1, AncIs
  <2>2. Anc[b][0] = Anc[d.tip][0]
    BY <2>1, OneGenesis, Sizes
  <2> QED
    BY <1>1, <2>1, <2>2 DEF OnMain
<1>6. ASSUME NEW j \in k .. Num[b] PROVE Anc[b][j] \in d.known
  <2>1. CASE j = Num[b]
    BY <1>1, <2>1, AncTop
  <2>2. CASE j # Num[b]
    <3>1. j + 1 \in 0 .. Num[b] /\ ~(j + 1 =< k) /\ j + 1 # 0 /\ j + 1 - 1 = j
      BY <1>1, <1>4, <2>2
    <3>2. j + 1 \notin S
      BY <1>4, <3>1
    <3> QED
      BY <3>1, <3>2
  <2> QED
    BY <2>1, <2>2
<1> QED
  BY <1>1, <1>4, <1>5, <1>6
-----------------------------------------------------------------------------
(* The loop of DoMaxStatus.                                                *)
Want == [head : Block \cup {None}, body : Block \cup {None}]

Level(n) == {b \in Block : Num[b] = n}

(* What an entry e of number n wants is in order.                          *)
AskOK(d, n, e, w) ==
  /\ w.head # None =>
       /\ OnMain([tip |-> e], w.head)
       /\ \A j \in Num[w.head] + 1 .. n : Anc[e][j] \in d.known
  /\ w.body # None =>
       /\ OnMain([tip |-> e], w.body)
       /\ \A j \in Num[w.body] .. n : Anc[e][j] \in d.known
       /\ \A j \in Num[w.body] + 1 .. n : HasBody(d, Anc[e][j])

LEMMA NoWantIs ==
  /\ NoWant \in Want /\ NoWant.head = None /\ NoWant.body = None
  /\ \A d, n, e : AskOK(d, n, e, NoWant)
BY DEF NoWant, Want, AskOK

LEMMA AskKept ==
  ASSUME NEW d, NEW e, Grown(d, e), NEW n, NEW b, NEW w, AskOK(d, n, b, w)
  PROVE  AskOK(e, n, b, w)
BY DEF AskOK, Grown, HasBody

LEMMA OwnChain ==
  ASSUME NEW b \in Block, NEW i \in 0 .. Num[b]
  PROVE  OnMain([tip |-> b], Anc[b][i]) /\ Num[Anc[b][i]] = i
<1>1. Num[Anc[b][i]] = i /\ i =< Num[b]
  BY AncIs, NumIs
<1> QED
  BY <1>1 DEF OnMain

LEMMA BetterOrder ==
  ASSUME NEW x \in Block, NEW y \in Block, NEW z \in Block
  PROVE  /\ Better(x, y) /\ Better(y, z) => Better(x, z)
         /\ x = y \/ Better(x, y) \/ Better(y, x)
BY WorkAssumption DEF Better

(* The end of the main chain moves to the number that is saved, and to a   *)
(* better block, or to any one when the node is far behind.                *)
Moved(c, d, e) ==
  \/ e.tip = d.tip
  \/ /\ Num[e.tip] = c - StepSave
     /\ Better(e.tip, d.tip) \/ c - StepSave - Num[d.tip] >= CheckNums

LEMMA MovedTwice ==
  ASSUME NEW c \in Nat, NEW d \in Disk, NEW e \in Disk, NEW f \in Disk, Moved(c, d, e), Moved(c, e, f)
  PROVE  Moved(c, d, f)
<1>1. d.tip \in Block /\ e.tip \in Block /\ f.tip \in Block
  BY DEF Disk
<1>2. Num[d.tip] \in Nat /\ Num[e.tip] \in Nat /\ Num[f.tip] \in Nat
  BY <1>1, NumIs
<1>3. Better(f.tip, e.tip) /\ Better(e.tip, d.tip) => Better(f.tip, d.tip)
  BY <1>1, BetterOrder
<1> QED
  BY <1>1, <1>2, <1>3, Sizes DEF Moved

LEMMA CheckAndSaveIs ==
  ASSUME NEW c, ClockOK(c), NEW d, DiskOK(d), NEW b \in Block,
         NEW k \in 0 .. Num[b], OnMain(d, Anc[b][k]),
         \A j \in k + 1 .. Num[b] : Anc[b][j] \in d.known /\ HasBody(d, Anc[b][j]),
         NEW e, e = CheckAndSave(c, d, k, b)
  PROVE  DiskOK(e) /\ Grown(d, e) /\ Moved(c, d, e)
<1> DEFINE n == c - StepSave
           x == Anc[b][n]
<1>0. n \in Nat /\ Num[b] \in Nat /\ GenesisCount - 1 =< n /\ c \in Nat
  BY NumIs, Sizes DEF ClockOK
<1>1. CASE e = d
  BY <1>1 DEF Grown, Moved
<1>2. CASE e # d
  <2>1. /\ k < n /\ n =< Num[b] /\ e = [d EXCEPT !.tip = x]
        /\ n - Num[d.tip] < CheckNums => Better(x, d.tip)
    BY <1>2 DEF CheckAndSave
  <2>2. n \in k + 1 .. Num[b] /\ n \in k .. Num[b] /\ n \in 0 .. Num[b]
        /\ \A j \in k + 1 .. n : j \in k + 1 .. Num[b]
    BY <1>0, <2>1
  <2> HIDE DEF n
  <2>3. x \in d.known /\ Num[x] = n /\ ChainStored(d, x)
    BY <2>2, AncIs, StoredAbove
  <2> HIDE DEF x
  <2>4. DiskOK(e) /\ Grown(d, e)
    BY <1>0, <2>1, <2>3, TipMoved DEF n
  <2>5. e.tip = x /\ Num[d.tip] \in Nat
    BY <2>1, NumIs DEF DiskOK, Disk
  <2>6. Moved(c, d, e)
    BY <1>0, <2>1, <2>3, <2>5, Sizes DEF Moved, n
  <2> QED
    BY <2>4, <2>6
<1> QED
  BY <1>1, <1>2

Loop(c, d, n, S) ==
  {s \in [disk : Disk, want : [S -> Want]] :
     /\ DiskOK(s.disk) /\ Grown(d, s.disk) /\ Moved(c, d, s.disk)
     /\ \A e \in S : AskOK(s.disk, n, e, s.want[e])}

(* One entry asks for something else, with what is stored growing.         *)
LEMMA AskChanged ==
  ASSUME NEW c \in Nat, NEW d \in Disk, NEW n, NEW S, NEW s \in Loop(c, d, n, S), NEW b \in S,
         NEW e \in Disk, DiskOK(e), Grown(s.disk, e), Moved(c, s.disk, e),
         NEW w \in Want, AskOK(e, n, b, w)
  PROVE  [disk |-> e, want |-> [s.want EXCEPT ![b] = w]] \in Loop(c, d, n, S)
<1> DEFINE z == [disk |-> e, want |-> [s.want EXCEPT ![b] = w]]
<1>1. /\ s \in [disk : Disk, want : [S -> Want]]
      /\ DiskOK(s.disk) /\ Grown(d, s.disk) /\ Moved(c, d, s.disk)
      /\ \A x \in S : AskOK(s.disk, n, x, s.want[x])
  BY DEF Loop
<1>2. z \in [disk : Disk, want : [S -> Want]] /\ z.disk = e
  BY <1>1
<1>3. Grown(d, e)
  BY <1>1 DEF Grown
<1>4. Moved(c, d, e)
  BY <1>1, MovedTwice
<1>5. ASSUME NEW x \in S PROVE AskOK(e, n, x, z.want[x])
  <2>1. CASE x = b
    <3>1. z.want[x] = w
      BY <1>1, <2>1
    <3> QED
      BY <3>1, <2>1
  <2>2. CASE x # b
    <3>1. z.want[x] = s.want[x] /\ AskOK(s.disk, n, x, s.want[x])
      BY <1>1, <2>2
    <3> HIDE DEF z
    <3> QED
      BY <3>1, AskKept
  <2> QED
    BY <2>1, <2>2
<1> HIDE DEF z
<1>6. z \in Loop(c, d, n, S)
  BY <1>2, <1>3, <1>4, <1>5 DEF Loop
<1> QED
  BY <1>6 DEF z

(* The header below the lowest stored block is asked for.                  *)
LEMMA AskBelow ==
  ASSUME NEW d, DiskOK(d), NEW b \in d.known, NEW k, k = HeadNum(d, b), ~OnMain(d, Anc[b][k]),
         NEW v \in Want, AskOK(d, Num[b], b, v), NEW w, w = [v EXCEPT !.head = Prev[Anc[b][k]]]
  PROVE  w \in Want /\ AskOK(d, Num[b], b, w)
<1>0. b \in Block /\ Num[b] \in Nat
  BY NumIs DEF DiskOK, Disk
<1>1. /\ k \in 0 .. Num[b] /\ k > 0
      /\ \A j \in k .. Num[b] : Anc[b][j] \in d.known
  BY HeadIs
<1>2. k \in 1 .. Num[b] /\ k - 1 \in 0 .. Num[b] /\ k - 1 + 1 = k
  BY <1>0, <1>1
<1>3. Prev[Anc[b][k]] = Anc[b][k - 1]
  BY <1>0, <1>2, AncBelow
<1>4. Anc[b][k - 1] \in Block /\ OnMain([tip |-> b], Anc[b][k - 1]) /\ Num[Anc[b][k - 1]] = k - 1
  BY <1>0, <1>2, AncIs, OwnChain
<1>5. w \in Want /\ w.head = Anc[b][k - 1] /\ w.body = v.body
  BY <1>3, <1>4 DEF Want
<1> QED
  BY <1>1, <1>2, <1>4, <1>5 DEF AskOK

(* The bodies in the cache are stored, down to the first that is absent.   *)
Absent(d, cached, k, b) == {j \in Empty(d, k, b) : Tree[Anc[b][j]] \notin cached}
WithCached(d, k, b, top) == [d EXCEPT !.full = @ \cup {Anc[b][j] : j \in {i \in Empty(d, k, b) : i > top}}]

LEMMA EmptyIs ==
  ASSUME NEW d, NEW b \in Block, NEW k \in 0 .. Num[b]
  PROVE  /\ Empty(d, k, b) \subseteq k + 1 .. Num[b]
         /\ \A j \in k + 1 .. Num[b] : j \notin Empty(d, k, b) => HasBody(d, Anc[b][j])
BY DEF Empty

LEMMA TopIs ==
  ASSUME NEW d, NEW b \in Block, NEW k \in 0 .. Num[b], NEW cached, NEW absent,
         absent = Absent(d, cached, k, b), NEW top, top = IF absent = {} THEN k ELSE Max(absent)
  PROVE  top \in k .. Num[b]
<1>0. Num[b] \in Nat /\ k \in Nat /\ k =< Num[b]
  BY NumIs
<1>1. absent \subseteq k + 1 .. Num[b]
  BY EmptyIs DEF Absent
<1>2. absent \subseteq 0 .. Num[b]
  BY <1>0, <1>1
<1>3. absent # {} => Max(absent) \in absent
  BY <1>0, <1>2, GreatestIn
<1>4. absent # {} => top \in k + 1 .. Num[b]
  BY <1>1, <1>3
<1> QED
  BY <1>0, <1>4

LEMMA CachedStored ==
  ASSUME NEW d, DiskOK(d), NEW b \in Block, NEW k \in 0 .. Num[b],
         \A j \in k .. Num[b] : Anc[b][j] \in d.known,
         NEW top \in k .. Num[b], NEW e, e = WithCached(d, k, b, top)
  PROVE  /\ e \in Disk /\ DiskOK(e) /\ Grown(d, e) /\ e.tip = d.tip /\ e.known = d.known
         /\ \A j \in top + 1 .. Num[b] : Anc[b][j] \in e.known /\ HasBody(e, Anc[b][j])
<1> DEFINE more == {Anc[b][j] : j \in {i \in Empty(d, k, b) : i > top}}
<1>0. Num[b] \in Nat /\ k \in Nat /\ top \in Nat /\ k =< top
  BY NumIs
<1>1. d \in Disk /\ d.known \subseteq Block /\ d.full \subseteq d.known
  BY DEF DiskOK, Disk
<1>2. \A j \in k + 1 .. Num[b] : j \in k .. Num[b]
  BY <1>0
<1>3. more \subseteq d.known
  BY <1>2, EmptyIs
<1>4. \A j \in Empty(d, k, b) : j > top => Anc[b][j] \in more
  OBVIOUS
<1>5. e = [d EXCEPT !.full = @ \cup more]
  BY DEF WithCached
<1> HIDE DEF more
<1>6. e \in Disk /\ e.tip = d.tip /\ e.known = d.known /\ e.full = d.full \cup more
  BY <1>1, <1>3, <1>5 DEF Disk
<1>7. DiskOK(e) /\ Grown(d, e)
  BY <1>1, <1>3, <1>6, MoreStored DEF Grown
<1>8. ASSUME NEW j \in top + 1 .. Num[b] PROVE Anc[b][j] \in e.known /\ HasBody(e, Anc[b][j])
  <2>1. j \in k + 1 .. Num[b] /\ j > top /\ j \in k .. Num[b]
    BY <1>0
  <2>2. CASE j \in Empty(d, k, b)
    BY <1>4, <1>6, <2>1, <2>2 DEF HasBody
  <2>3. CASE j \notin Empty(d, k, b)
    BY <1>6, <2>1, <2>3, EmptyIs DEF HasBody
  <2> QED
    BY <2>2, <2>3
<1> QED
  BY <1>6, <1>7, <1>8

LEMMA EntryStep ==
  ASSUME NEW c, ClockOK(c), NEW d \in Disk, NEW n, NEW S, S \subseteq Level(n), NEW cached,
         NEW s \in Loop(c, d, n, S), NEW b \in S
  PROVE  MaxStatusOf(c, cached, s, b) \in Loop(c, d, n, S)
<1>1. PICK D, v : D = s.disk /\ v = s.want[b]
  OBVIOUS
<1>2. /\ s \in [disk : Disk, want : [S -> Want]] /\ c \in Nat
      /\ DiskOK(D) /\ AskOK(D, n, b, v) /\ v \in Want /\ D \in Disk
      /\ b \in Block /\ Num[b] = n /\ n \in Nat /\ Anc[b][n] = b
  BY <1>1, NumIs, AncTop DEF Loop, Level, ClockOK
<1>3. Grown(D, D) /\ Moved(c, D, D)
  BY DEF Grown, Moved
<1>4. ASSUME NEW w \in Want, AskOK(D, n, b, w) PROVE [s EXCEPT !.want[b] = w] \in Loop(c, d, n, S)
  <2>1. [s EXCEPT !.want[b] = w] = [disk |-> D, want |-> [s.want EXCEPT ![b] = w]]
    BY <1>1, <1>2
  <2>2. [disk |-> D, want |-> [s.want EXCEPT ![b] = w]] \in Loop(c, d, n, S)
    BY <1>1, <1>2, <1>3, <1>4, AskChanged
  <2> QED
    BY <2>1, <2>2
<1>5. CASE b \notin D.known
  <2>1. PICK w : w = [v EXCEPT !.head = b]
    OBVIOUS
  <2>2. w \in Want /\ w.head = b /\ w.body = v.body
    BY <1>2, <2>1 DEF Want
  <2>3. OnMain([tip |-> b], b)
    BY <1>2 DEF OnMain
  <2>4. AskOK(D, n, b, w)
    BY <1>2, <2>2, <2>3 DEF AskOK
  <2>5. MaxStatusOf(c, cached, s, b) = [s EXCEPT !.want[b] = w]
    BY <1>1, <1>5, <2>1 DEF MaxStatusOf
  <2> QED
    BY <1>4, <2>2, <2>4, <2>5
<1>6. CASE b \in D.known
  <2>1. PICK k : k = HeadNum(D, b)
    OBVIOUS
  <2>2. /\ k \in 0 .. Num[b]
        /\ \A j \in k .. Num[b] : Anc[b][j] \in D.known
    BY <1>2, <1>6, <2>1, HeadIs
  <2>3. CASE ~OnMain(D, Anc[b][k])
    <3>1. PICK w : w = [v EXCEPT !.head = Prev[Anc[b][k]]]
      OBVIOUS
    <3>2. w \in Want /\ AskOK(D, n, b, w)
      BY <1>2, <1>6, <2>1, <2>3, <3>1, AskBelow
    <3>3. MaxStatusOf(c, cached, s, b) = [s EXCEPT !.want[b] = w]
      BY <1>1, <1>6, <2>1, <2>3, <3>1 DEF MaxStatusOf
    <3> QED
      BY <1>4, <3>2, <3>3
  <2>4. CASE OnMain(D, Anc[b][k])
    <3>1. PICK absent, top, e :
            /\ absent = Absent(D, cached, k, b)
            /\ top = IF absent = {} THEN k ELSE Max(absent)
            /\ e = WithCached(D, k, b, top)
      OBVIOUS
    <3>2. top \in k .. Num[b]
      BY <1>2, <2>2, <3>1, TopIs
    <3>3. /\ e \in Disk /\ DiskOK(e) /\ Grown(D, e) /\ e.tip = D.tip /\ e.known = D.known
          /\ \A j \in top + 1 .. Num[b] : Anc[b][j] \in e.known /\ HasBody(e, Anc[b][j])
      BY <1>2, <2>2, <3>1, <3>2, CachedStored
    <3>4. Moved(c, D, e)
      BY <3>3 DEF Moved
    <3>5. CASE absent # {}
      <4>1. PICK w : w = [head |-> None, body |-> Anc[b][top]]
        OBVIOUS
      <4>2. top \in 0 .. Num[b] /\ \A j \in top .. Num[b] : j \in k .. Num[b]
        BY <1>2, <2>2, <3>2
      <4>3. Anc[b][top] \in Block /\ OnMain([tip |-> b], Anc[b][top]) /\ Num[Anc[b][top]] = top
        BY <1>2, <4>2, AncIs, OwnChain
      <4>4. w \in Want /\ w.head = None /\ w.body = Anc[b][top]
        BY <4>1, <4>3 DEF Want
      <4>5. \A j \in top .. n : Anc[b][j] \in e.known
        BY <1>2, <2>2, <3>3, <4>2
      <4>6. AskOK(e, n, b, w)
        BY <1>2, <3>3, <4>3, <4>4, <4>5 DEF AskOK
      <4>7. MaxStatusOf(c, cached, s, b) = [disk |-> e, want |-> [s.want EXCEPT ![b] = w]]
        BY <1>1, <1>6, <2>1, <2>4, <3>1, <3>5, <4>1 DEF MaxStatusOf, Absent, WithCached
      <4>8. [disk |-> e, want |-> [s.want EXCEPT ![b] = w]] \in Loop(c, d, n, S)
        BY <1>1, <1>2, <3>3, <3>4, <4>4, <4>6, AskChanged
      <4> QED
        BY <4>7, <4>8
    <3>6. CASE absent = {}
      <4>1. PICK f : f = CheckAndSave(c, e, k, b)
        OBVIOUS
      <4>2. top = k /\ OnMain(e, Anc[b][k])
        BY <2>4, <3>1, <3>3, <3>6 DEF OnMain
      <4>3. DiskOK(f) /\ Grown(e, f) /\ Moved(c, e, f)
        BY <1>2, <2>2, <3>3, <4>1, <4>2, CheckAndSaveIs
      <4>4. f \in Disk /\ Grown(D, f)
        BY <3>3, <4>3 DEF DiskOK, Grown
      <4>5. Moved(c, D, f)
        BY <1>2, <3>3, <3>4, <4>3, <4>4, MovedTwice
      <4>6. MaxStatusOf(c, cached, s, b) = [disk |-> f, want |-> [s.want EXCEPT ![b] = NoWant]]
        BY <1>1, <1>6, <2>1, <2>4, <3>1, <3>6, <4>1 DEF MaxStatusOf, Absent, WithCached
      <4>7. [disk |-> f, want |-> [s.want EXCEPT ![b] = NoWant]] \in Loop(c, d, n, S)
        BY <1>1, <1>2, <4>3, <4>4, <4>5, NoWantIs, AskChanged
      <4> QED
        BY <4>6, <4>7
    <3> QED
      BY <3>5, <3>6
  <2> QED
    BY <2>3, <2>4
<1> QED
  BY <1>5, <1>6
-----------------------------------------------------------------------------
(* What is in memory.                                                      *)
Ram ==
  [lider : [Heights -> Seq(Block)], want : [Heights -> UNION {[S -> Want] : S \in SUBSET Block}],
   tree : [Heights -> Trees \cup {None}], prev : Block \cup {None}, mined : [Heights -> SUBSET Mined]]

NumberOK(d, r, n) ==
  /\ r.lider[n] \in Seq(Level(n))
  /\ r.want[n] \in [ToSet(r.lider[n]) -> Want]
  /\ \A e \in ToSet(r.lider[n]) : AskOK(d, n, e, r.want[n][e])
  /\ r.tree[n] \in TreesAt[n] \cup {NoTree, None}
  /\ r.mined[n] \subseteq {b \in Mined : Num[b] = n}

RamOK(d, r) == r \in Ram /\ \A n \in Heights : NumberOK(d, r, n)

LEMMA RamKept ==
  ASSUME NEW d, NEW e, Grown(d, e), NEW r, RamOK(d, r)
  PROVE  RamOK(e, r)
BY AskKept DEF RamOK, NumberOK

LEMMA ListItems ==
  ASSUME NEW S, NEW list \in Seq(S)
  PROVE  /\ ToSet(list) \subseteq S /\ Len(list) \in Nat /\ DOMAIN list = 1 .. Len(list)
         /\ \A i \in 1 .. Len(list) : list[i] \in ToSet(list)
BY DEF ToSet

LEMMA MaxStatusIs ==
  ASSUME NEW c, ClockOK(c), NEW d, DiskOK(d), NEW r, RamOK(d, r), NEW n \in Heights, NEW cached,
         NEW s, s = DoMaxStatus(c, d, r, n, cached)
  PROVE  s \in Loop(c, d, n, ToSet(r.lider[n]))
<1>1. PICK list, N, S, first :
        /\ list = r.lider[n] /\ N = Len(list) /\ S = ToSet(list)
        /\ first = [disk |-> d, want |-> r.want[n]]
  OBVIOUS
<1>2. PICK T : T = Loop(c, d, n, S)
  OBVIOUS
<1>3. /\ NumberOK(d, r, n) /\ N \in Nat /\ S \subseteq Level(n) /\ d \in Disk
      /\ \A i \in 1 .. N : list[i] \in S
  BY <1>1, ListItems DEF RamOK, NumberOK, DiskOK
<1>4. first \in T
  <2>1. first \in [disk : Disk, want : [S -> Want]]
    BY <1>1, <1>3 DEF NumberOK
  <2>2. Grown(d, d) /\ Moved(c, d, d)
    BY DEF Grown, Moved
  <2> QED
    BY <1>1, <1>2, <1>3, <2>1, <2>2 DEF Loop, NumberOK
<1> DEFINE Turn(x, i) == MaxStatusOf(c, cached, x, list[i])
           Is(h) == h = [i \in 0 .. N |-> IF i = 0 THEN first ELSE Turn(h[i - 1], i)]
           h == CHOOSE x : Is(x)
<1>5. ASSUME NEW i \in 1 .. N, NEW x \in T PROVE Turn(x, i) \in T
  BY <1>2, <1>3, EntryStep
<1> HIDE DEF Turn
<1>6. \E f : Is(f)
  <2>1. PICK G : G = [i \in 1 .. N |-> [x \in T |-> Turn(x, i)]]
    OBVIOUS
  <2>2. PICK f \in [0 .. N -> T] : f[0] = first /\ \A i \in 1 .. N : f[i] = G[i][f[i - 1]]
    <3>1. N \in Nat
      BY <1>3
    <3>2. G \in [1 .. N -> [T -> T]]
      BY <1>5, <2>1
    <3>3. Taken(N, T, first, G)
      BY <3>1, <3>2, <1>4, Turns
    <3> QED
      BY <3>3 DEF Taken
  <2>3. ASSUME NEW i \in 0 .. N PROVE f[i] = IF i = 0 THEN first ELSE Turn(f[i - 1], i)
    <3>1. CASE i # 0
      <4>1. i \in 1 .. N /\ i - 1 \in 0 .. N
        BY <1>3, <3>1
      <4>2. f[i - 1] \in T /\ f[i] = G[i][f[i - 1]]
        BY <2>2, <4>1
      <4> QED
        BY <2>1, <3>1, <4>1, <4>2
    <3> QED
      BY <2>2, <3>1
  <2> QED
    BY <2>3
<1>7. Is(h)
  BY <1>6
<1>8. s = h[N]
  BY <1>1 DEF DoMaxStatus, Turn
<1> HIDE DEF h
<1>9. h[N] \in T
  <2> DEFINE Q == {i \in 0 .. N : h[i] \in T}
  <2>1. 0 \in Q
    BY <1>3, <1>4, <1>7
  <2>2. ASSUME NEW i \in 1 .. N, i - 1 \in Q PROVE i \in Q
    <3>1. h[i] = Turn(h[i - 1], i) /\ h[i - 1] \in T /\ i \in 0 .. N
      BY <1>3, <1>7, <2>2
    <3> QED
      BY <1>5, <3>1
  <2> HIDE DEF Q
  <2>3. N \in 0 .. N /\ \A i \in 0 .. N : i \in Q
    BY <1>3, <2>1, <2>2, OneByOne
  <2> QED
    BY <2>3 DEF Q
<1> QED
  BY <1>1, <1>2, <1>8, <1>9

(* A handler that ends with DoMaxStatus, once what it has read is stored.  *)
LEMMA MaxStatusKeeps ==
  ASSUME NEW c, ClockOK(c), NEW d, DiskOK(d), NEW r, RamOK(d, r), NEW n \in Heights, NEW cached,
         NEW s, s = DoMaxStatus(c, d, r, n, cached),
         NEW q, q = [r EXCEPT !.want[n] = s.want]
  PROVE  DiskOK(s.disk) /\ RamOK(s.disk, q) /\ Moved(c, d, s.disk)
<1>1. s \in Loop(c, d, n, ToSet(r.lider[n]))
  BY MaxStatusIs
<1>2. /\ s.want \in [ToSet(r.lider[n]) -> Want]
      /\ DiskOK(s.disk) /\ Grown(d, s.disk) /\ Moved(c, d, s.disk)
      /\ \A e \in ToSet(r.lider[n]) : AskOK(s.disk, n, e, s.want[e])
  BY <1>1 DEF Loop
<1>3. RamOK(s.disk, r)
  BY <1>2, RamKept
<1>4. r \in Ram /\ ToSet(r.lider[n]) \subseteq Block
  <2>1. r \in Ram /\ r.lider[n] \in Seq(Block)
    BY DEF RamOK, Ram
  <2> QED
    BY <2>1, ListItems
<1>5. /\ q.lider = r.lider /\ q.tree = r.tree /\ q.mined = r.mined /\ q.prev = r.prev
      /\ q.want[n] = s.want /\ \A m \in Heights : m # n => q.want[m] = r.want[m]
      /\ q \in Ram
  <2>1. PICK want : want = [r.want EXCEPT ![n] = s.want]
    OBVIOUS
  <2>2. s.want \in UNION {[S -> Want] : S \in SUBSET Block}
    BY <1>2, <1>4
  <2>3. /\ want \in [Heights -> UNION {[S -> Want] : S \in SUBSET Block}]
        /\ want[n] = s.want /\ \A m \in Heights : m # n => want[m] = r.want[m]
    BY <1>4, <2>1, <2>2 DEF Ram
  <2>4. q = [r EXCEPT !.want = want]
    BY <2>1
  <2> QED
    BY <1>4, <2>3, <2>4 DEF Ram
<1>6. ASSUME NEW m \in Heights PROVE NumberOK(s.disk, q, m)
  <2>1. NumberOK(s.disk, r, m)
    BY <1>3 DEF RamOK
  <2>2. CASE m = n
    BY <1>2, <1>5, <2>1, <2>2 DEF NumberOK
  <2>3. CASE m # n
    BY <1>5, <2>1, <2>3 DEF NumberOK
  <2> QED
    BY <2>2, <2>3
<1> QED
  BY <1>2, <1>5, <1>6 DEF RamOK
-----------------------------------------------------------------------------
(* A hash gets a place in the list of its number.                          *)
LEMMA KeptItems ==
  ASSUME NEW S, NEW cut \in Seq(S), NEW stays, NEW s,
         s = LET kept[i \in 0 .. Len(cut)] ==
                   IF i = 0 THEN << >>
                   ELSE IF i \in stays THEN Append(kept[i - 1], cut[i]) ELSE kept[i - 1]
             IN  kept[Len(cut)]
  PROVE  s \in Seq(S)
<1>1. PICK N, T : N = Len(cut) /\ T = Seq(S)
  OBVIOUS
<1>2. N \in Nat /\ << >> \in T /\ \A i \in 1 .. N : cut[i] \in S
  BY <1>1
<1> DEFINE Turn(x, i) == IF i \in stays THEN Append(x, cut[i]) ELSE x
           Is(h) == h = [i \in 0 .. N |-> IF i = 0 THEN << >> ELSE Turn(h[i - 1], i)]
           h == CHOOSE x : Is(x)
<1>3. ASSUME NEW i \in 1 .. N, NEW x \in T PROVE Turn(x, i) \in T
  BY <1>1, <1>2
<1>4. s = h[N]
  BY <1>1
<1> HIDE DEF Turn
<1>5. \E f : Is(f)
  <2>1. PICK G : G = [i \in 1 .. N |-> [x \in T |-> Turn(x, i)]]
    OBVIOUS
  <2>2. G \in [1 .. N -> [T -> T]]
    BY <1>3, <2>1
  <2>3. Taken(N, T, << >>, G)
    BY <1>2, <2>2, Turns
  <2>4. PICK f \in [0 .. N -> T] : f[0] = << >> /\ \A i \in 1 .. N : f[i] = G[i][f[i - 1]]
    BY <2>3 DEF Taken
  <2>5. ASSUME NEW i \in 0 .. N PROVE f[i] = IF i = 0 THEN << >> ELSE Turn(f[i - 1], i)
    <3>1. CASE i # 0
      <4>1. i \in 1 .. N /\ i - 1 \in 0 .. N
        BY <1>2, <3>1
      <4>2. f[i - 1] \in T /\ f[i] = G[i][f[i - 1]]
        BY <2>4, <4>1
      <4> QED
        BY <2>1, <3>1, <4>1, <4>2
    <3> QED
      BY <2>4, <3>1
  <2> QED
    BY <2>5
<1>6. Is(h)
  BY <1>5
<1> HIDE DEF h
<1>7. h[N] \in T
  <2> DEFINE Q == {i \in 0 .. N : h[i] \in T}
  <2>1. 0 \in Q
    BY <1>2, <1>6
  <2>2. ASSUME NEW i \in 1 .. N, i - 1 \in Q PROVE i \in Q
    <3>1. h[i] = Turn(h[i - 1], i) /\ h[i - 1] \in T /\ i \in 0 .. N
      BY <1>2, <1>6, <2>2
    <3> QED
      BY <1>3, <3>1
  <2> HIDE DEF Q
  <2>3. N \in Nat
    BY <1>2
  <2>4. \A i \in 0 .. N : i \in Q
    BY <2>1, <2>2, <2>3, OneByOne
  <2> QED
    BY <2>3, <2>4 DEF Q
<1> QED
  BY <1>1, <1>4, <1>7

LEMMA PlaceIs ==
  ASSUME NEW S, NEW list \in Seq(S), NEW b
  PROVE  Place(list, b) \in 0 .. Len(list) + 1
<1>1. Stronger(list, b) \subseteq 1 .. Len(list) /\ Len(list) \in Nat
  BY DEF Stronger
<1>2. IsFiniteSet(1 .. Len(list)) /\ Cardinality(1 .. Len(list)) = Len(list)
  <2>1. 1 \in Int /\ Len(list) \in Int /\ Len(list) - 1 + 1 = Len(list) /\ (1 > Len(list) => Len(list) = 0)
    BY <1>1
  <2>2. /\ IsFiniteSet(1 .. Len(list))
        /\ Cardinality(1 .. Len(list)) = IF 1 > Len(list) THEN 0 ELSE Len(list) - 1 + 1
    BY <2>1, FS_Interval
  <2> QED
    BY <2>1, <2>2
<1>3. Cardinality(Stronger(list, b)) \in Nat /\ Cardinality(Stronger(list, b)) =< Len(list)
  BY <1>1, <1>2, FS_Subset, FS_CardinalityType
<1> QED
  BY <1>1, <1>3 DEF Place

LEMMA AddLiderIs ==
  ASSUME NEW S, NEW list \in Seq(S), NEW b \in S
  PROVE  AddLider(list, b) \in Seq(S)
<1> DEFINE at == Place(list, b)
           grown == IF at = 0 THEN list ELSE InsertAt(list, at, b)
           cut == SubSeq(grown, 1, IF Len(grown) > MaxLeader THEN MaxLeader ELSE Len(grown))
           stays == {n \in DOMAIN cut :
                       n > 1 => /\ Power[cut[1]] < Power[cut[n]] + MaxSpread
                                /\ ~(n > at /\ Miner[cut[n]] = Miner[b])}
<1>1. at \in 0 .. Len(list) + 1 /\ Len(list) \in Nat
  BY PlaceIs
<1>2. grown \in Seq(S)
  <2>1. CASE at # 0
    <3> HIDE DEF at
    <3>1. /\ SubSeq(list, 1, at - 1) \in Seq(S) /\ SubSeq(list, at, Len(list)) \in Seq(S)
          /\ << b >> \in Seq(S)
      BY <1>1, <2>1
    <3>2. InsertAt(list, at, b) \in Seq(S)
      BY <3>1 DEF InsertAt
    <3> QED
      BY <2>1, <3>2
  <2> QED
    BY <2>1
<1>3. cut \in Seq(S)
  <2> HIDE DEF grown
  <2> QED
    BY <1>2, WorkAssumption
<1>4. AddLider(list, b) =
        LET kept[i \in 0 .. Len(cut)] ==
              IF i = 0 THEN << >>
              ELSE IF i \in stays THEN Append(kept[i - 1], cut[i]) ELSE kept[i - 1]
        IN  kept[Len(cut)]
  BY DEF AddLider
<1> HIDE DEF cut, stays
<1> QED
  BY <1>3, <1>4, KeptItems

LEMMA AddHashKeeps ==
  ASSUME NEW d, NEW r, RamOK(d, r), NEW b \in Block, NEW q, q = AddHash(r, b)
  PROVE  /\ RamOK(d, q) /\ q.tree = r.tree /\ q.prev = r.prev /\ q.mined = r.mined
<1>1. CASE IsDouble(r.lider[Num[b]], b)
  BY <1>1 DEF AddHash
<1>2. CASE ~IsDouble(r.lider[Num[b]], b)
  <2>1. PICK n, list, want :
          /\ n = Num[b] /\ list = AddLider(r.lider[n], b)
          /\ want = [c \in ToSet(list) |-> IF c \in DOMAIN r.want[n] THEN r.want[n][c] ELSE NoWant]
    OBVIOUS
  <2>2. n \in Heights /\ b \in Level(n)
    BY <2>1, BlocksAssumption DEF Level
  <2>3. r \in Ram /\ NumberOK(d, r, n)
    BY <2>2 DEF RamOK
  <2>4. list \in Seq(Level(n)) /\ list \in Seq(Block)
    <3>1. list \in Seq(Level(n))
      BY <2>1, <2>2, <2>3, AddLiderIs DEF NumberOK
    <3>2. Level(n) \subseteq Block
      BY DEF Level
    <3> QED
      BY <3>1, <3>2
  <2>5. /\ want \in [ToSet(list) -> Want] /\ ToSet(list) \subseteq Block
        /\ \A e \in ToSet(list) : AskOK(d, n, e, want[e])
    <3>1. DOMAIN r.want[n] = ToSet(r.lider[n]) /\ \A e \in ToSet(r.lider[n]) : r.want[n][e] \in Want
      BY <2>3 DEF NumberOK
    <3>2. \A e \in ToSet(r.lider[n]) : AskOK(d, n, e, r.want[n][e])
      BY <2>3 DEF NumberOK
    <3> QED
      BY <2>1, <2>4, <3>1, <3>2, NoWantIs, ListItems
  <2>6. q = [r EXCEPT !.lider[n] = list, !.want[n] = want]
    BY <1>2, <2>1 DEF AddHash
  <2>7. PICK liders, wants : liders = [r.lider EXCEPT ![n] = list] /\ wants = [r.want EXCEPT ![n] = want]
    OBVIOUS
  <2>8. q = [r EXCEPT !.lider = liders, !.want = wants]
    BY <2>6, <2>7
  <2>9. /\ liders \in [Heights -> Seq(Block)] /\ wants \in [Heights -> UNION {[S -> Want] : S \in SUBSET Block}]
        /\ liders[n] = list /\ wants[n] = want
        /\ \A m \in Heights : m # n => liders[m] = r.lider[m] /\ wants[m] = r.want[m]
    BY <2>2, <2>3, <2>4, <2>5, <2>7 DEF Ram
  <2>10. /\ q \in Ram /\ q.lider = liders /\ q.want = wants
         /\ q.tree = r.tree /\ q.mined = r.mined /\ q.prev = r.prev
    BY <2>3, <2>8, <2>9 DEF Ram
  <2>11. ASSUME NEW m \in Heights PROVE NumberOK(d, q, m)
    <3>1. NumberOK(d, r, m)
      BY DEF RamOK
    <3>2. CASE m = n
      BY <2>4, <2>5, <2>9, <2>10, <3>1, <3>2 DEF NumberOK
    <3>3. CASE m # n
      BY <2>9, <2>10, <3>1, <3>3 DEF NumberOK
    <3> QED
      BY <3>2, <3>3
  <2> QED
    BY <2>10, <2>11 DEF RamOK
<1> QED
  BY <1>1, <1>2
-----------------------------------------------------------------------------
(* Trees of new blocks, and the other parts of the memory.                 *)
LEMMA NoTreeIs == NoTree \in Trees /\ None \notin Trees
<1>1. PICK b \in Block : Num[b] = 0
  <2>1. 0 \in 0 .. GenesisCount - 1
    BY Sizes
  <2> QED
    BY <2>1, BlocksAssumption
<1>2. b \in Genesis
  BY <1>1, Sizes DEF Genesis
<1>3. Tree[b] = NoTree
  BY <1>2, NodeAssumption
<1> QED
  BY <1>3, NodeAssumption DEF Trees

LEMMA TreesAtIs == \A n \in Heights : TreesAt[n] \subseteq Trees /\ \A t \in TreesAt[n] \cup {NoTree} : t \in Trees
BY NodeAssumption, NoTreeIs

LEMMA FillTreeIs ==
  ASSUME NEW d, NEW r, RamOK(d, r), NEW n \in Heights, NEW c, NEW t \in FillTree(c, r, n)
  PROVE  t \in TreesAt[n] \cup {NoTree} /\ t \in Trees
<1>1. t \in TreesAt[n] \cup {NoTree}
  BY DEF FillTree, RamOK, NumberOK
<1> QED
  BY <1>1, TreesAtIs

LEMMA KeepTreeIs ==
  ASSUME NEW d, NEW r, RamOK(d, r), NEW n \in Heights, NEW c, NEW t \in TreesAt[n] \cup {NoTree},
         NEW q, q = KeepTree(c, r, n, t)
  PROVE  RamOK(d, q) /\ q.prev = r.prev /\ q.mined = r.mined
<1>1. CASE q = r
  BY <1>1
<1>2. CASE q # r
  <2>1. PICK trees : trees = [r.tree EXCEPT ![n] = t]
    OBVIOUS
  <2>2. r \in Ram /\ t \in Trees
    BY TreesAtIs DEF RamOK
  <2>3. trees \in [Heights -> Trees \cup {None}] /\ trees[n] = t /\ \A m \in Heights : m # n => trees[m] = r.tree[m]
    BY <2>1, <2>2 DEF Ram
  <2>4. q = [r EXCEPT !.tree = trees]
    BY <1>2, <2>1 DEF KeepTree
  <2>5. /\ q \in Ram /\ q.tree = trees /\ q.lider = r.lider /\ q.want = r.want
        /\ q.prev = r.prev /\ q.mined = r.mined
    BY <2>2, <2>3, <2>4 DEF Ram
  <2>6. \A m \in Heights : NumberOK(d, q, m)
    BY <2>3, <2>5 DEF RamOK, NumberOK
  <2> QED
    BY <2>5, <2>6 DEF RamOK
<1> QED
  BY <1>1, <1>2

LEMMA PrevKept ==
  ASSUME NEW d, NEW r, RamOK(d, r), NEW p \in Block \cup {None}, NEW q, q = [r EXCEPT !.prev = p]
  PROVE  RamOK(d, q) /\ q.tree = r.tree /\ q.mined = r.mined /\ q.lider = r.lider
<1>1. /\ q \in Ram /\ q.tree = r.tree /\ q.lider = r.lider /\ q.want = r.want
      /\ q.mined = r.mined
  BY DEF RamOK, Ram
<1> QED
  BY <1>1 DEF RamOK, NumberOK

LEMMA MinedKept ==
  ASSUME NEW d, NEW r, RamOK(d, r), NEW n \in Heights, NEW b \in Mined, Num[b] = n,
         NEW q, q = [r EXCEPT !.mined[n] = @ \cup {b}]
  PROVE  RamOK(d, q)
<1>1. PICK mined : mined = [r.mined EXCEPT ![n] = @ \cup {b}]
  OBVIOUS
<1>2. r \in Ram
  BY DEF RamOK
<1>3. /\ mined \in [Heights -> SUBSET Mined] /\ mined[n] = r.mined[n] \cup {b}
      /\ \A m \in Heights : m # n => mined[m] = r.mined[m]
  BY <1>1, <1>2 DEF Ram
<1>4. q = [r EXCEPT !.mined = mined]
  BY <1>1
<1>5. /\ q \in Ram /\ q.tree = r.tree /\ q.lider = r.lider /\ q.want = r.want /\ q.mined = mined
  BY <1>2, <1>3, <1>4 DEF Ram
<1>6. ASSUME NEW m \in Heights PROVE NumberOK(d, q, m)
  <2>1. NumberOK(d, r, m)
    BY DEF RamOK
  <2> QED
    BY <1>3, <1>5, <2>1 DEF NumberOK
<1> QED
  BY <1>5, <1>6 DEF RamOK

(* Lists are emptied.                                                      *)
LEMMA EmptyNumber ==
  /\ << >> \in Seq(Block) /\ NoWants \in UNION {[S -> Want] : S \in SUBSET Block}
  /\ \A n \in Heights : << >> \in Seq(Level(n)) /\ NoWants \in [ToSet(<< >>) -> Want] /\ ToSet(<< >>) = {}
<1>1. ToSet(<< >>) = {} /\ NoWants \in [{} -> Want]
  BY DEF ToSet, NoWants
<1> QED
  BY <1>1

LEMMA FreshIs ==
  ASSUME NEW d
  PROVE  RamOK(d, FreshRam)
<1>1. FreshRam \in Ram
  BY EmptyNumber DEF FreshRam, Ram
<1>2. ASSUME NEW n \in Heights PROVE NumberOK(d, FreshRam, n)
  BY EmptyNumber DEF FreshRam, NumberOK
<1> QED
  BY <1>1, <1>2 DEF RamOK

LEMMA ClearIs ==
  ASSUME NEW d, NEW r, RamOK(d, r), NEW c, NEW q, q = ClearOld(c, r)
  PROVE  RamOK(d, q)
<1>1. PICK old : old = {n \in Heights : n =< c - ClearMem}
  OBVIOUS
<1>2. r \in Ram
  BY DEF RamOK
<1>3. /\ q.lider = [n \in Heights |-> IF n \in old THEN << >> ELSE r.lider[n]]
      /\ q.want = [n \in Heights |-> IF n \in old THEN NoWants ELSE r.want[n]]
      /\ q.tree = [n \in Heights |-> IF n \in old THEN None ELSE r.tree[n]]
      /\ q.mined = [n \in Heights |-> IF n \in old THEN {} ELSE r.mined[n]]
      /\ q.prev = r.prev
      /\ q = [lider |-> q.lider, want |-> q.want, tree |-> q.tree, prev |-> q.prev, mined |-> q.mined]
  BY <1>1, <1>2 DEF ClearOld, Ram
<1>4. /\ q.lider \in [Heights -> Seq(Block)] /\ q.want \in [Heights -> UNION {[S -> Want] : S \in SUBSET Block}]
      /\ q.tree \in [Heights -> Trees \cup {None}] /\ q.mined \in [Heights -> SUBSET Mined]
      /\ q.prev \in Block \cup {None}
  <2>1. q.lider \in [Heights -> Seq(Block)]
    BY <1>2, <1>3, EmptyNumber DEF Ram
  <2>2. q.want \in [Heights -> UNION {[S -> Want] : S \in SUBSET Block}]
    BY <1>2, <1>3, EmptyNumber DEF Ram
  <2> QED
    BY <1>2, <1>3, <2>1, <2>2 DEF Ram
<1>5. q \in Ram
  BY <1>3, <1>4 DEF Ram
<1>6. ASSUME NEW n \in Heights PROVE NumberOK(d, q, n)
  <2>1. NumberOK(d, r, n)
    BY DEF RamOK
  <2>2. CASE n \in old
    <3>1. q.lider[n] = << >> /\ q.want[n] = NoWants /\ q.tree[n] = None /\ q.mined[n] = {}
      BY <1>3, <2>2
    <3> QED
      BY <3>1, EmptyNumber DEF NumberOK
  <2>3. CASE n \notin old
    BY <1>3, <2>1, <2>3 DEF NumberOK
  <2> QED
    BY <2>2, <2>3
<1> QED
  BY <1>5, <1>6 DEF RamOK
-----------------------------------------------------------------------------
(* The timer.                                                              *)
BestOf(S, b) == b \in S /\ \A x \in S : x = b \/ Better(b, x)

LEMMA BestExists ==
  ASSUME NEW S, S \subseteq Block, S # {}
  PROVE  \E b : BestOf(S, b)
<1> DEFINE Bad(Z) == Z \in SUBSET Block /\ Z # {} /\ ~\E b : BestOf(Z, b)
           sizes == {Cardinality(Z) : Z \in {Y \in SUBSET Block : Bad(Y)}}
<1> SUFFICES ASSUME Bad(S) PROVE FALSE
  OBVIOUS
<1>1. \A Z \in SUBSET Block : IsFiniteSet(Z) /\ Cardinality(Z) \in Nat
  <2>1. IsFiniteSet(Block)
    BY NodeAssumption
  <2> QED
    BY <2>1, FS_Subset, FS_CardinalityType
<1>2. PICK N \in sizes : \A k \in sizes : N =< k
  <2>1. sizes \subseteq Nat /\ sizes # {}
    BY <1>1
  <2> HIDE DEF sizes
  <2> QED
    BY <2>1, LeastIn
<1>3. PICK Z \in SUBSET Block : Bad(Z) /\ N = Cardinality(Z)
  BY <1>2
<1>4. PICK x \in Z : TRUE
  BY <1>3
<1>5. ~Bad(Z \ {x})
  <2>1. Cardinality(Z \ {x}) = Cardinality(Z) - 1
    BY <1>1, <1>3, <1>4, FS_RemoveElement
  <2>2. Z \ {x} \in SUBSET Block /\ Cardinality(Z) \in Nat
    BY <1>1, <1>3
  <2>3. Bad(Z \ {x}) => Cardinality(Z \ {x}) \in sizes
    BY <2>2
  <2> HIDE DEF Bad, sizes
  <2> QED
    BY <1>2, <1>3, <2>1, <2>2, <2>3
<1>6. CASE Z \ {x} = {}
  <2>1. BestOf(Z, x)
    BY <1>4, <1>6 DEF BestOf
  <2> QED
    BY <1>3, <2>1
<1>7. CASE Z \ {x} # {}
  <2>1. PICK m : BestOf(Z \ {x}, m)
    BY <1>3, <1>5, <1>7
  <2>2. m \in Block /\ x \in Block /\ m # x
    BY <1>3, <1>4, <2>1 DEF BestOf
  <2>3. CASE Better(m, x)
    <3>1. BestOf(Z, m)
      BY <2>1, <2>3 DEF BestOf
    <3> QED
      BY <1>3, <3>1
  <2>4. CASE Better(x, m)
    <3>1. \A y \in Z : y = x \/ Better(x, y)
      <4> SUFFICES ASSUME NEW y \in Z, y # x, y # m PROVE Better(x, y)
        BY <2>4
      <4>1. Better(m, y) /\ y \in Block
        BY <1>3, <2>1 DEF BestOf
      <4> QED
        BY <2>2, <2>4, <4>1, BetterOrder
    <3>2. BestOf(Z, x)
      BY <1>4, <3>1 DEF BestOf
    <3> QED
      BY <1>3, <3>2
  <2> QED
    BY <2>2, <2>3, <2>4, BetterOrder
<1> QED
  BY <1>6, <1>7

LEMMA StoreIs ==
  ASSUME NEW d, DiskOK(d), NEW x \in Block, NEW e, e = Store(d, x)
  PROVE  /\ DiskOK(e) /\ e \in Disk /\ Grown(d, e) /\ e.tip = d.tip
         /\ x \in e.known /\ HasBody(e, x)
<1>1. d \in Disk /\ d.full \subseteq d.known
  BY DEF DiskOK
<1>2. /\ e \in Disk /\ e.tip = d.tip /\ e.known = d.known \cup {x}
      /\ e.full = IF Tree[x] = NoTree THEN d.full ELSE d.full \cup {x}
  BY <1>1 DEF Store, Disk
<1>3. Grown(d, e) /\ e.full \subseteq e.known
  BY <1>1, <1>2 DEF Grown
<1>4. DiskOK(e)
  BY <1>2, <1>3, MoreStored
<1> QED
  BY <1>2, <1>3, <1>4 DEF HasBody

LEMMA AddToChainIs ==
  ASSUME NEW d, DiskOK(d), NEW x \in Block, NEW e, e = AddToChain(d, x)
  PROVE  DiskOK(e) /\ Grown(d, e) /\ e.tip = d.tip
<1>1. Grown(d, d)
  BY DEF Grown
<1> QED
  BY <1>1, StoreIs DEF AddToChain

LEMMA AddHeaderIs ==
  ASSUME NEW d, DiskOK(d), NEW x \in Block, NEW e, e = AddHeader(d, x)
  PROVE  DiskOK(e) /\ Grown(d, e) /\ e.tip = d.tip
<1>1. d \in Disk /\ d.full \subseteq d.known
  BY DEF DiskOK
<1>2. e \in Disk /\ e.tip = d.tip /\ e.known = d.known \cup {x} /\ e.full = d.full
  BY <1>1 DEF AddHeader, Disk
<1>3. Grown(d, e) /\ e.full \subseteq e.known
  BY <1>1, <1>2 DEF Grown
<1> QED
  BY <1>2, <1>3, MoreStored

(* The timer extends the main chain by one, perhaps on a fork.             *)
NextTip(c, d, e) ==
  /\ Num[e.tip] = Num[d.tip] + 1 /\ Num[e.tip] =< c - StepSave
  /\ \E k \in Heights : k > Num[e.tip] - Depth /\ k =< Num[d.tip] /\ Anc[d.tip][k] = Anc[e.tip][k]

(* The stored block with most work.                                        *)
LEMMA TakeStored ==
  ASSUME NEW c, ClockOK(c), NEW d, DiskOK(d), NEW x \in d.known, Num[x] = Num[d.tip] + 1,
         Num[d.tip] < c - StepSave, FullyLoaded(d, x), NEW e, e = [d EXCEPT !.tip = x]
  PROVE  DiskOK(e) /\ Grown(d, e) /\ NextTip(c, d, e)
<1>1. x \in Block /\ d.tip \in Block /\ Num[x] \in Nat /\ Num[d.tip] \in Nat /\ d \in Disk /\ Num[x] =< MaxNum
  BY NumIs, Sizes DEF DiskOK, Disk
<1>2. PICK k : k = HeadNum(d, x)
  OBVIOUS
<1>3. OnMain(d, Anc[x][k]) /\ Num[x] - k < Depth /\ Empty(d, k, x) = {}
  BY <1>2 DEF FullyLoaded
<1>4. k \in 0 .. Num[x] /\ \A j \in k .. Num[x] : Anc[x][j] \in d.known
  BY <1>2, HeadIs
<1>5. \A j \in k + 1 .. Num[x] : Anc[x][j] \in d.known /\ HasBody(d, Anc[x][j])
  <2>1. \A j \in k + 1 .. Num[x] : j \in k .. Num[x]
    BY <1>1, <1>4
  <2> QED
    BY <1>1, <1>3, <1>4, <2>1, EmptyIs
<1>6. ChainStored(d, x)
  <2>1. Num[x] \in k .. Num[x] /\ Anc[x][Num[x]] = x
    BY <1>1, <1>4, AncTop
  <2>2. \A j \in k + 1 .. Num[x] : j \in k + 1 .. Num[x]
    OBVIOUS
  <2>3. ChainStored(d, Anc[x][Num[x]])
    BY <1>1, <1>3, <1>4, <1>5, <2>1, StoredAbove
  <2> QED
    BY <2>1, <2>3
<1>7. GenesisCount - 1 =< Num[x] /\ Num[x] =< c - StepSave
  BY <1>1, Sizes DEF DiskOK, ClockOK
<1>8. DiskOK(e) /\ Grown(d, e) /\ e.tip = x
  BY <1>1, <1>6, <1>7, TipMoved DEF Disk
<1>9. k =< Num[d.tip] /\ Anc[x][k] = Anc[d.tip][k] /\ k \in Heights /\ k > Num[x] - Depth
  <2>1. k =< Num[d.tip] /\ \A j \in 0 .. k : Anc[x][j] = Anc[d.tip][j]
    BY <1>1, <1>3, <1>4, MeetsMain
  <2>2. k \in 0 .. k /\ k \in Heights
    BY <1>1, <1>4, Sizes DEF Heights
  <2> QED
    BY <1>1, <1>3, <1>4, <2>1, <2>2, Sizes
<1> QED
  BY <1>7, <1>8, <1>9 DEF NextTip

(* A new block of the node's own.                                          *)
LEMMA TakeOwn ==
  ASSUME NEW c, ClockOK(c), NEW d, DiskOK(d), Num[d.tip] < c - StepSave,
         NEW t \in TreesAt[Num[d.tip] + 1] \cup {NoTree}, NEW x, x = Own[d.tip][t],
         NEW e, e = [Store(d, x) EXCEPT !.tip = x]
  PROVE  DiskOK(e) /\ Grown(d, e) /\ NextTip(c, d, e)
<1>1. d.tip \in Block /\ Num[d.tip] \in Nat /\ d \in Disk
  BY NumIs DEF DiskOK, Disk
<1>2. Num[d.tip] \in GenesisCount - 1 .. MaxNum - 1 /\ Num[d.tip] + 1 \in Heights /\ Num[d.tip] \in Heights
  BY <1>1, Sizes DEF DiskOK, ClockOK, Heights
<1>3. t \in Trees
  BY <1>2, TreesAtIs
<1>4. x \in Block
  BY <1>1, <1>2, NodeAssumption
<1>5. Prev[x] = d.tip /\ Num[x] = Num[d.tip] + 1
  BY <1>1, <1>3, <1>4, NodeAssumption
<1>6. PICK f : f = Store(d, x)
  OBVIOUS
<1>7. DiskOK(f) /\ f \in Disk /\ Grown(d, f) /\ f.tip = d.tip /\ x \in f.known /\ HasBody(f, x)
  BY <1>4, <1>6, StoreIs
<1>8. Num[x] \in 1 .. Num[x] /\ Num[x] - 1 = Num[d.tip] /\ Num[d.tip] \in 0 .. Num[x] /\ Num[x] \in Nat
  BY <1>1, <1>5
<1>9. Anc[x][Num[x]] = x /\ Anc[x][Num[d.tip]] = d.tip
  BY <1>4, <1>5, <1>8, AncTop, AncBelow
<1>10. \A j \in 0 .. Num[d.tip] : Anc[d.tip][j] = Anc[x][j]
  BY <1>4, <1>8, <1>9, AncAnc
<1>11. ChainStored(f, x)
  <2> SUFFICES ASSUME NEW j \in 0 .. Num[x] PROVE Anc[x][j] \in f.known /\ HasBody(f, Anc[x][j])
    BY DEF ChainStored
  <2>1. CASE j = Num[x]
    BY <1>7, <1>9, <2>1
  <2>2. CASE j # Num[x]
    <3>1. j \in 0 .. Num[d.tip]
      BY <1>1, <1>5, <1>8, <2>2
    <3> QED
      BY <1>7, <1>10, <3>1 DEF DiskOK, ChainStored
  <2> QED
    BY <2>1, <2>2
<1>12. GenesisCount - 1 =< Num[x] /\ Num[x] =< c - StepSave
  BY <1>1, <1>5, Sizes DEF DiskOK, ClockOK
<1>13. e = [f EXCEPT !.tip = x]
  BY <1>6
<1>14. DiskOK(e) /\ Grown(f, e)
  BY <1>7, <1>11, <1>12, <1>13, TipMoved
<1>15. e.tip = x /\ Grown(d, e)
  BY <1>7, <1>13, <1>14 DEF Grown, Disk
<1>16. NextTip(c, d, e)
  <2>1. Num[d.tip] \in 0 .. Num[d.tip] /\ Num[d.tip] > Num[e.tip] - Depth
    BY <1>1, <1>5, <1>15, Sizes
  <2>2. Anc[d.tip][Num[d.tip]] = Anc[e.tip][Num[d.tip]]
    BY <1>10, <1>15, <2>1
  <2> QED
    BY <1>1, <1>2, <1>5, <1>12, <1>15, <2>1, <2>2 DEF NextTip
<1> QED
  BY <1>14, <1>15, <1>16

LEMMA SaveMainIs ==
  ASSUME NEW c, ClockOK(c), NEW d, DiskOK(d), NEW r, RamOK(d, r),
         NEW s, s = [disk |-> d, ram |-> r], NEW e \in SaveMain(c, s)
  PROVE  /\ DiskOK(e.disk) /\ RamOK(e.disk, e.ram)
         /\ e.disk.tip = d.tip \/ NextTip(c, d, e.disk)
<1>0. s.disk = d /\ s.ram = r
  OBVIOUS
<1>1. CASE Num[d.tip] >= c - StepSave
  BY <1>0, <1>1 DEF SaveMain
<1>2. CASE ~(Num[d.tip] >= c - StepSave)
  <2>1. PICK n : n = Num[d.tip] + 1
    OBVIOUS
  <2>a. PICK t \in FillTree(c, r, n) :
          e = LET q    == KeepTree(c, r, n, t)
                  cand == {b \in d.known : Num[b] = n /\ Tree[b] = t /\ FullyLoaded(d, b)}
                  best == CHOOSE b \in cand : \A x \in cand : x = b \/ Better(b, x)
              IN IF cand # {} THEN [disk |-> [d EXCEPT !.tip = best], ram |-> q]
                 ELSE IF setup.mining
                        THEN [disk |-> [Store(d, Own[d.tip][t]) EXCEPT !.tip = Own[d.tip][t]], ram |-> q]
                 ELSE [disk |-> d, ram |-> q]
    BY <1>0, <1>2, <2>1 DEF SaveMain
  <2>2. PICK q, cand, best :
          /\ q = KeepTree(c, r, n, t)
          /\ cand = {b \in d.known : Num[b] = n /\ Tree[b] = t /\ FullyLoaded(d, b)}
          /\ best = CHOOSE b \in cand : \A x \in cand : x = b \/ Better(b, x)
          /\ e = IF cand # {} THEN [disk |-> [d EXCEPT !.tip = best], ram |-> q]
                 ELSE IF setup.mining
                        THEN [disk |-> [Store(d, Own[d.tip][t]) EXCEPT !.tip = Own[d.tip][t]], ram |-> q]
                 ELSE [disk |-> d, ram |-> q]
    BY <2>a
  <2>3. d.tip \in Block /\ Num[d.tip] \in Nat /\ d.known \subseteq Block /\ Num[d.tip] < c - StepSave
    <3>1. d.tip \in Block /\ d.known \subseteq Block
      BY DEF DiskOK, Disk
    <3> QED
      BY <1>2, <3>1, NumIs, Sizes DEF ClockOK
  <2>4. n \in Heights
    BY <2>1, <2>3, Sizes DEF ClockOK, Heights
  <2>5. t \in TreesAt[n] \cup {NoTree} /\ RamOK(d, q)
    BY <2>a, <2>2, <2>4, FillTreeIs, KeepTreeIs
  <2>6. CASE cand # {}
    <3>1. BestOf(cand, best)
      <4>1. \E b \in cand : \A x \in cand : x = b \/ Better(b, x)
        BY <2>2, <2>3, <2>6, BestExists DEF BestOf
      <4> QED
        BY <2>2, <4>1 DEF BestOf
    <3>2. best \in d.known /\ Num[best] = Num[d.tip] + 1 /\ FullyLoaded(d, best)
      BY <2>1, <2>2, <3>1 DEF BestOf
    <3>3. e.disk = [d EXCEPT !.tip = best] /\ e.ram = q
      BY <2>2, <2>6
    <3>4. DiskOK(e.disk) /\ Grown(d, e.disk) /\ NextTip(c, d, e.disk)
      BY <2>3, <3>2, <3>3, TakeStored
    <3> QED
      BY <2>5, <3>3, <3>4, RamKept
  <2>7. CASE cand = {} /\ setup.mining
    <3>1. e.disk = [Store(d, Own[d.tip][t]) EXCEPT !.tip = Own[d.tip][t]] /\ e.ram = q
      BY <2>2, <2>7
    <3>2. DiskOK(e.disk) /\ Grown(d, e.disk) /\ NextTip(c, d, e.disk)
      BY <2>1, <2>3, <2>5, <3>1, TakeOwn
    <3> QED
      BY <2>5, <3>1, <3>2, RamKept
  <2>8. CASE cand = {} /\ ~setup.mining
    BY <2>2, <2>5, <2>8
  <2> QED
    BY <2>6, <2>7, <2>8
<1> QED
  BY <1>1, <1>2

LEMMA CreateNewIs ==
  ASSUME NEW c, ClockOK(c), NEW d, DiskOK(d), NEW r, RamOK(d, r),
         NEW s, s.disk = d, s.ram = r, s = [disk |-> d, ram |-> r], NEW e \in CreateNew(c, s)
  PROVE  DiskOK(e.disk) /\ RamOK(e.disk, e.ram) /\ e.disk.tip = d.tip
<1>1. PICK n, p, was, r0 :
        /\ n = c - StepNew /\ p = Anc[d.tip][n - 1]
        /\ was = IF r.prev # None /\ Num[r.prev] = n - 1 THEN r.prev ELSE None
        /\ r0 = [r EXCEPT !.prev = was]
  OBVIOUS
<1>2. RamOK(d, r0)
  <2>1. was \in Block \cup {None}
    BY <1>1 DEF RamOK, Ram
  <2> QED
    BY <1>1, <2>1, PrevKept
<1>3. CASE e = s
  BY <1>3
<1>4. CASE e = [s EXCEPT !.ram = r0]
  BY <1>2, <1>4
<1>5. CASE ~(n - 1 > Num[d.tip]) /\ e # s /\ e # [s EXCEPT !.ram = r0]
  <2>a. PICK t \in FillTree(c, r0, n) :
          e = LET b == Own[p][t]
                  q == KeepTree(c, r0, n, t)
              IN [disk |-> AddToChain(d, b), ram |-> [AddHash(q, b) EXCEPT !.prev = p]]
    BY <1>1, <1>5 DEF CreateNew
  <2>1. PICK b, q :
          /\ b = Own[p][t] /\ q = KeepTree(c, r0, n, t)
          /\ e = [disk |-> AddToChain(d, b), ram |-> [AddHash(q, b) EXCEPT !.prev = p]]
    BY <2>a
  <2>2. d.tip \in Block /\ Num[d.tip] \in Nat
    BY NumIs DEF DiskOK, Disk
  <2>3. n - 1 \in 0 .. Num[d.tip] /\ n \in Heights /\ n - 1 \in GenesisCount - 1 .. MaxNum - 1 /\ n - 1 + 1 = n
    BY <1>1, <1>5, <2>2, Sizes DEF ClockOK, Heights
  <2>4. p \in Block /\ Num[p] = n - 1
    BY <1>1, <2>2, <2>3, AncIs
  <2>5. t \in TreesAt[n] \cup {NoTree} /\ RamOK(d, q)
    BY <1>2, <2>a, <2>1, <2>3, FillTreeIs, KeepTreeIs
  <2>6. b \in Block
    BY <2>1, <2>3, <2>4, <2>5, NodeAssumption
  <2>7. e.disk = AddToChain(d, b) /\ e.ram = [AddHash(q, b) EXCEPT !.prev = p]
    BY <2>1
  <2>8. DiskOK(e.disk) /\ Grown(d, e.disk) /\ e.disk.tip = d.tip
    BY <2>6, <2>7, AddToChainIs
  <2>9. RamOK(d, AddHash(q, b))
    BY <2>5, <2>6, AddHashKeeps
  <2>10. RamOK(d, e.ram)
    BY <2>4, <2>7, <2>9, PrevKept
  <2> QED
    BY <2>8, <2>10, RamKept
<1>6. n - 1 > Num[d.tip] => e = s
  BY <1>1 DEF CreateNew
<1> QED
  BY <1>3, <1>4, <1>5, <1>6

LEMMA TickedIs ==
  ASSUME NEW c, ClockOK(c), NEW d, DiskOK(d), d = disk, NEW r, RamOK(d, r), r = ram, NEW e \in Ticked(c)
  PROVE  /\ DiskOK(e.disk) /\ RamOK(e.disk, e.ram)
         /\ e.disk.tip = d.tip \/ NextTip(c, d, e.disk)
<1>1. PICK s \in SaveMain(c, [disk |-> d, ram |-> ClearOld(c, r)]) : e \in CreateNew(c, s)
  BY DEF Ticked
<1>2. RamOK(d, ClearOld(c, r))
  BY ClearIs
<1>3. /\ DiskOK(s.disk) /\ RamOK(s.disk, s.ram)
      /\ s.disk.tip = d.tip \/ NextTip(c, d, s.disk)
  BY <1>2, SaveMainIs
<1>4. s = [disk |-> s.disk, ram |-> s.ram]
  BY <1>1 DEF SaveMain
<1>5. DiskOK(e.disk) /\ RamOK(e.disk, e.ram) /\ e.disk.tip = s.disk.tip
  BY <1>1, <1>3, <1>4, CreateNewIs
<1> QED
  BY <1>3, <1>5 DEF NextTip
-----------------------------------------------------------------------------
(* The steps.                                                              *)
NodeInv ==
  /\ setup \in Setups /\ ClockOK(cur) /\ upsets \in 0 .. MaxUpset
  /\ DiskOK(disk) /\ RamOK(disk, ram)

Cutback == OnMain(disk, disk'.tip) /\ upsets' > upsets /\ cur' = cur

MoveOK == Moved(cur', disk, disk') \/ NextTip(cur', disk, disk') \/ Cutback

LEMMA NodeInit == Init => NodeInv
<1> SUFFICES ASSUME Init PROVE NodeInv
  OBVIOUS
<1>1. PICK g : g = GenesisBlock(GenesisCount - 1)
  OBVIOUS
<1>2. g \in Block /\ Num[g] = GenesisCount - 1 /\ g \in Genesis
  <2>1. GenesisCount - 1 \in 0 .. GenesisCount - 1 /\ GenesisCount - 1 < GenesisCount
    BY Sizes
  <2>2. g \in Block /\ Num[g] = GenesisCount - 1
    BY <1>1, <2>1, BlocksAssumption DEF GenesisBlock
  <2> QED
    BY <2>1, <2>2 DEF Genesis
<1>3. ClockOK(cur) /\ setup \in Setups /\ upsets \in 0 .. MaxUpset
  <2>1. cur \in GenesisCount + StepSave - 1 .. MaxCur
    BY NodeAssumption DEF Init, Clock
  <2> QED
    BY <2>1, Sizes DEF Init, ClockOK
<1>4. disk = [tip |-> g, known |-> Genesis, full |-> {}]
  BY <1>1 DEF Init
<1>5. disk \in Disk /\ disk.tip = g /\ disk.known = Genesis /\ disk.full = {}
  BY <1>2, <1>4 DEF Disk, Genesis
<1>6. ChainStored(disk, g)
  <2> SUFFICES ASSUME NEW n \in 0 .. Num[g] PROVE Anc[g][n] \in Genesis /\ Tree[Anc[g][n]] = NoTree
    BY <1>5 DEF ChainStored, HasBody
  <2>1. Anc[g][n] \in Block /\ Num[Anc[g][n]] = n /\ n < GenesisCount
    BY <1>2, AncIs, Sizes
  <2>2. Anc[g][n] \in Genesis
    BY <2>1 DEF Genesis
  <2> QED
    BY <2>2, NodeAssumption
<1>7. DiskOK(disk)
  BY <1>2, <1>5, <1>6, Sizes DEF DiskOK
<1>8. RamOK(disk, ram)
  BY FreshIs DEF Init
<1> QED
  BY <1>3, <1>7, <1>8 DEF NodeInv

(* A handler of a message ends with DoMaxStatus on what it has stored.     *)
LEMMA HandlerStep ==
  ASSUME NodeInv, UNCHANGED << setup, cur, upsets >>, NEW d, DiskOK(d), d.tip = disk.tip, Grown(disk, d),
         NEW r, RamOK(d, r), NEW n \in Heights, NEW cached, MaxStatusStep(d, r, n, cached)
  PROVE  NodeInv' /\ MoveOK
<1>1. PICK s : s = DoMaxStatus(cur, d, r, n, cached)
  OBVIOUS
<1>2. disk' = s.disk /\ ram' = [r EXCEPT !.want[n] = s.want]
  BY <1>1 DEF MaxStatusStep
<1>3. DiskOK(disk') /\ RamOK(disk', ram') /\ Moved(cur, d, disk')
  BY <1>1, <1>2, MaxStatusKeeps DEF NodeInv
<1>4. NodeInv'
  BY <1>3 DEF NodeInv
<1>5. MoveOK
  BY <1>3 DEF Moved, MoveOK
<1> QED
  BY <1>4, <1>5

LEMMA MaxHashStep ==
  ASSUME NodeInv, UNCHANGED setup, NEW b \in setup.peer, ReceiveMaxHash(b)
  PROVE  NodeInv' /\ MoveOK
<1>1. b \in Block /\ Num[b] \in Heights
  BY NodeAssumption, BlocksAssumption DEF NodeInv
<1>2. PICK r, cached : r = AddHash(ram, b) /\ MaxStatusStep(disk, r, Num[b], cached)
  BY DEF ReceiveMaxHash
<1>3. RamOK(disk, r)
  BY <1>1, <1>2, AddHashKeeps DEF NodeInv
<1>4. DiskOK(disk) /\ Grown(disk, disk) /\ UNCHANGED << setup, cur, upsets >>
  BY DEF NodeInv, Grown, ReceiveMaxHash
<1> QED
  BY <1>1, <1>2, <1>3, <1>4, HandlerStep

LEMMA HeaderStep ==
  ASSUME NodeInv, UNCHANGED setup, NEW n \in Heights, NEW b, ReceiveHeader(n, b)
  PROVE  NodeInv' /\ MoveOK
<1>1. b \in Block
  <2>1. PICK e \in DOMAIN ram.want[n] : b = ram.want[n][e].head /\ b # None
    BY DEF ReceiveHeader, AskedHeads
  <2>2. ram.want[n] \in [ToSet(ram.lider[n]) -> Want]
    BY DEF NodeInv, RamOK, NumberOK
  <2>3. ram.want[n][e] \in Want
    BY <2>1, <2>2
  <2> QED
    BY <2>1, <2>3 DEF Want
<1>2. PICK d, cached : d = [disk EXCEPT !.known = @ \cup {b}] /\ MaxStatusStep(d, ram, n, cached)
  BY DEF ReceiveHeader
<1>3. /\ d \in Disk /\ d.tip = disk.tip /\ d.known = disk.known \cup {b} /\ d.full = disk.full
      /\ disk.full \subseteq disk.known
  BY <1>1, <1>2 DEF NodeInv, DiskOK, Disk
<1>4. Grown(disk, d) /\ d.full \subseteq d.known
  BY <1>3 DEF Grown
<1>5. DiskOK(d) /\ RamOK(d, ram)
  BY <1>3, <1>4, MoreStored, RamKept DEF NodeInv
<1>6. UNCHANGED << setup, cur, upsets >>
  BY DEF ReceiveHeader
<1> QED
  BY <1>2, <1>3, <1>4, <1>5, <1>6, HandlerStep

LEMMA BodyStep ==
  ASSUME NodeInv, UNCHANGED setup, NEW n \in Heights, NEW b, ReceiveBody(n, b)
  PROVE  NodeInv' /\ MoveOK
<1>1. PICK same : same = {x \in disk.known : Num[x] = Num[b] /\ Tree[x] = Tree[b]}
  OBVIOUS
<1>2. PICK d, cached : d = [disk EXCEPT !.full = @ \cup same] /\ MaxStatusStep(d, ram, n, cached)
  BY <1>1 DEF ReceiveBody
<1>3. /\ d \in Disk /\ d.tip = disk.tip /\ d.known = disk.known /\ d.full = disk.full \cup same
      /\ disk.full \subseteq disk.known /\ same \subseteq disk.known
  BY <1>1, <1>2 DEF NodeInv, DiskOK, Disk
<1>4. Grown(disk, d) /\ d.full \subseteq d.known
  BY <1>3 DEF Grown
<1>5. DiskOK(d) /\ RamOK(d, ram)
  BY <1>3, <1>4, MoreStored, RamKept DEF NodeInv
<1>6. UNCHANGED << setup, cur, upsets >>
  BY DEF ReceiveBody
<1> QED
  BY <1>2, <1>3, <1>4, <1>5, <1>6, HandlerStep

LEMMA DoNodeStep ==
  ASSUME NodeInv, UNCHANGED setup, NEW c, DoNode(c)
  PROVE  NodeInv' /\ MoveOK
<1>1. c \in Clock /\ cur' = c /\ upsets' \in 0 .. MaxUpset
  BY Sizes DEF NodeInv, DoNode
<1>2. ClockOK(c)
  BY <1>1, Sizes DEF ClockOK, Clock
<1>3. DiskOK(disk)
  BY DEF NodeInv
<1>4. PICK e \in Ticked(c) : disk' = e.disk /\ ram' = e.ram
  BY DEF DoNode
<1>5. /\ DiskOK(e.disk) /\ RamOK(e.disk, e.ram)
      /\ e.disk.tip = disk.tip \/ NextTip(c, disk, e.disk)
  BY <1>2, <1>3, <1>4, TickedIs DEF NodeInv
<1>6. NodeInv'
  BY <1>1, <1>2, <1>4, <1>5 DEF NodeInv
<1>7. MoveOK
  BY <1>1, <1>4, <1>5 DEF MoveOK, Moved
<1> QED
  BY <1>6, <1>7

LEMMA MiningStep ==
  ASSUME NodeInv, UNCHANGED setup, NEW b \in Mined, FromMining(b)
  PROVE  NodeInv' /\ MoveOK
<1>1. b \in Block /\ Num[b] \in Heights
  BY NodeAssumption, BlocksAssumption
<1>2. RamOK(disk, ram) /\ DiskOK(disk)
  BY DEF NodeInv
<1>3. PICK r, new, z :
        /\ r = ram \/ (Tree[b] \in FillTree(cur, ram, Num[b]) /\ r = KeepTree(cur, ram, Num[b], Tree[b]))
        /\ z = IF new THEN AddHash(r, b) ELSE r
        /\ ram' = [z EXCEPT !.mined[Num[b]] = @ \cup {b}]
        /\ disk' = disk \/ disk' = AddToChain(disk, b) \/ disk' = AddHeader(disk, b)
  <2> DEFINE n == Num[b]
             more == \E m \in ram.mined[n] : Prev[m] = Prev[b] /\ Tree[m] = Tree[b]
             late == n >= cur - StepLast - 1
  <2>1. more \/ Tree[b] \in FillTree(cur, ram, n)
    BY DEF FromMining
  <2>2. PICK r \in {IF more THEN ram ELSE KeepTree(cur, ram, n, Tree[b])} :
          /\ ram' = [IF late THEN AddHash(r, b) ELSE r EXCEPT !.mined[n] = @ \cup {b}]
          /\ disk' = disk \/ disk' = AddToChain(disk, b) \/ disk' = AddHeader(disk, b)
    BY DEF FromMining
  <2>3. PICK z : z = IF late THEN AddHash(r, b) ELSE r
    OBVIOUS
  <2>4. r = ram \/ (Tree[b] \in FillTree(cur, ram, n) /\ r = KeepTree(cur, ram, n, Tree[b]))
    BY <2>1, <2>2
  <2>5. ram' = [z EXCEPT !.mined[n] = @ \cup {b}]
    BY <2>2, <2>3
  <2> QED
    BY <2>2, <2>3, <2>4, <2>5
<1>4. RamOK(disk, r)
  BY <1>1, <1>2, <1>3, FillTreeIs, KeepTreeIs
<1>5. RamOK(disk, z)
  BY <1>1, <1>3, <1>4, AddHashKeeps
<1>6. RamOK(disk, ram')
  BY <1>1, <1>3, <1>5, MinedKept
<1>7. DiskOK(disk') /\ Grown(disk, disk') /\ disk'.tip = disk.tip
  <2>1. Grown(disk, disk)
    BY DEF Grown
  <2> QED
    BY <1>1, <1>2, <1>3, <2>1, AddToChainIs, AddHeaderIs
<1>8. RamOK(disk', ram')
  BY <1>6, <1>7, RamKept
<1>9. UNCHANGED << cur, upsets >>
  BY DEF FromMining
<1> QED
  BY <1>7, <1>8, <1>9 DEF NodeInv, MoveOK, Moved

LEMMA TruncateStep ==
  ASSUME NodeInv, UNCHANGED setup, NEW n \in Heights, Truncate(n)
  PROVE  NodeInv' /\ MoveOK
<1>1. PICK t, x : t = disk.tip /\ x = Anc[t][n]
  OBVIOUS
<1>2. /\ n >= GenesisCount /\ n < Num[t] /\ UNCHANGED cur
      /\ disk' = [disk EXCEPT !.tip = x] /\ upsets < MaxUpset /\ upsets' = upsets + 1
      /\ ram' = [ram EXCEPT !.lider = FreshRam.lider, !.want = FreshRam.want]
  BY <1>1 DEF Truncate
<1>3. t \in Block /\ Num[t] \in Nat /\ n \in Nat /\ DiskOK(disk) /\ disk \in Disk /\ ClockOK(cur)
  BY <1>1, NumIs, Sizes DEF NodeInv, DiskOK, Disk, Heights
<1>4. n \in 0 .. Num[t] /\ n \in n .. Num[t]
  BY <1>2, <1>3
<1>5. x \in disk.known /\ Num[x] = n /\ OnMain(disk, x)
  <2>1. x \in disk.known
    BY <1>1, <1>3, <1>4 DEF DiskOK, ChainStored
  <2>2. Num[x] = n
    BY <1>1, <1>3, <1>4, AncIs
  <2> QED
    BY <1>1, <1>2, <1>3, <2>1, <2>2 DEF OnMain
<1>6. ChainStored(disk, x)
  <2>1. \A j \in n + 1 .. n : FALSE
    BY <1>3
  <2> QED
    BY <1>1, <1>3, <1>4, <1>5, <2>1, StoredAbove
<1>7. GenesisCount - 1 =< Num[x]
  BY <1>1, <1>2, <1>3, <1>5, Sizes DEF DiskOK
<1>8. DiskOK(disk') /\ Grown(disk, disk') /\ disk'.tip = x
  BY <1>2, <1>3, <1>5, <1>6, <1>7, TipMoved DEF Disk
<1>9. RamOK(disk, ram')
  <2>1. ram \in Ram /\ FreshRam \in Ram /\ RamOK(disk, ram) /\ RamOK(disk, FreshRam)
    BY FreshIs DEF NodeInv, RamOK
  <2>2. /\ ram' \in Ram /\ ram'.lider = FreshRam.lider /\ ram'.want = FreshRam.want
        /\ ram'.tree = ram.tree /\ ram'.mined = ram.mined
    BY <1>2, <2>1 DEF Ram
  <2>3. \A m \in Heights : NumberOK(disk, ram', m)
    BY <2>1, <2>2 DEF RamOK, NumberOK
  <2> QED
    BY <2>2, <2>3 DEF RamOK
<1>10. RamOK(disk', ram')
  BY <1>8, <1>9, RamKept
<1>11. upsets' \in 0 .. MaxUpset /\ upsets' > upsets
  BY <1>2, Sizes DEF NodeInv
<1>12. NodeInv'
  BY <1>2, <1>8, <1>10, <1>11 DEF NodeInv
<1>13. MoveOK
  BY <1>2, <1>5, <1>8, <1>11 DEF MoveOK, Cutback
<1> QED
  BY <1>12, <1>13

LEMMA RestartStep ==
  ASSUME NodeInv, UNCHANGED setup, Restart
  PROVE  NodeInv' /\ MoveOK
<1>1. RamOK(disk, FreshRam)
  BY FreshIs
<1>2. upsets' \in 0 .. MaxUpset /\ UNCHANGED << cur, disk >> /\ ram' = FreshRam
  BY Sizes DEF NodeInv, Restart
<1> QED
  BY <1>1, <1>2 DEF NodeInv, MoveOK, Moved

LEMMA NodeNext == NodeInv /\ [Next]_vars => NodeInv' /\ [MoveOK]_vars
<1> SUFFICES ASSUME NodeInv, [Next]_vars PROVE NodeInv' /\ [MoveOK]_vars
  OBVIOUS
<1>1. CASE UNCHANGED vars
  BY <1>1 DEF vars, NodeInv
<1>2. CASE Next
  <2>1. UNCHANGED setup
    BY <1>2 DEF Next
  <2>2. CASE \E b \in setup.peer : ReceiveMaxHash(b)
    BY <2>1, <2>2, MaxHashStep
  <2>3. CASE ReceiveReply
    BY <2>1, <2>3, HeaderStep, BodyStep DEF ReceiveReply
  <2>4. CASE \E c \in Clock : DoNode(c)
    BY <2>1, <2>4, DoNodeStep
  <2>5. CASE \E b \in Mined : FromMining(b)
    BY <2>1, <2>5, MiningStep
  <2>6. CASE \E n \in Heights : Truncate(n)
    BY <2>1, <2>6, TruncateStep
  <2>7. CASE Restart
    BY <2>1, <2>7, RestartStep
  <2> QED
    BY <1>2, <2>2, <2>3, <2>4, <2>5, <2>6, <2>7 DEF Next
<1> QED
  BY <1>1, <1>2
-----------------------------------------------------------------------------
LEMMA NodeAlways == Spec => []NodeInv
<1>1. NodeInv /\ [Next]_vars => NodeInv'
  BY NodeNext
<1> QED
  BY <1>1, NodeInit, PTL DEF Spec

(* The variables stay in their ranges.                                     *)
THEOREM NodeTypes == Spec => []TypeOK
<1>1. NodeInv => TypeOK
  <2> SUFFICES ASSUME NodeInv PROVE TypeOK
    OBVIOUS
  <2>1. cur \in 0 .. MaxCur
    BY Sizes DEF NodeInv, ClockOK
  <2>2. disk.tip \in disk.known /\ disk.known \subseteq Block /\ disk.full \subseteq disk.known
    BY DEF NodeInv, DiskOK, Disk
  <2>3. ASSUME NEW n \in Heights
        PROVE  /\ ToSet(ram.lider[n]) \subseteq {b \in Block : Num[b] = n}
               /\ ram.want[n] \in [ToSet(ram.lider[n]) -> [head : Block \cup {None}, body : Block \cup {None}]]
               /\ ram.tree[n] \in Trees \cup {None}
               /\ ram.mined[n] \subseteq {b \in Mined : Num[b] = n}
    <3>1. NumberOK(disk, ram, n)
      BY DEF NodeInv, RamOK
    <3>2. ToSet(ram.lider[n]) \subseteq Level(n)
      BY <3>1, ListItems DEF NumberOK
    <3>3. ram.tree[n] \in Trees \cup {None}
      BY <3>1, TreesAtIs DEF NumberOK
    <3> QED
      BY <3>1, <3>2, <3>3 DEF NumberOK, Level, Want
  <2>4. ram.prev \in Block \cup {None}
    BY DEF NodeInv, RamOK, Ram
  <2> QED
    BY <2>1, <2>2, <2>3, <2>4 DEF TypeOK, NodeInv
<1> QED
  BY <1>1, NodeAlways, PTL

(* Whatever brought a block into the main chain, its header and its body   *)
(* are stored, and those of all blocks below it (DoMaxStatus, DoSaveMain   *)
(* and TruncateChain in any order, restarts included).                     *)
THEOREM BodiesStored == Spec => []MainHasBodies
<1>1. NodeInv => MainHasBodies
  BY DEF NodeInv, DiskOK, ChainStored, MainHasBodies
<1> QED
  BY <1>1, NodeAlways, PTL

(* No handler lets the main chain end with a block number that the network *)
(* is still deciding on, whatever the clock has shown before: both ways it *)
(* grows, a reorganisation in a reply (CheckAndSaveChainToDB) and the      *)
(* timer (DoSaveMain), look at the number of that moment.                  *)
THEOREM NeverAhead == Spec => MainNotAhead
<1>1. NodeInv /\ [Next]_vars =>
        [\/ disk'.tip = disk.tip
         \/ Num[disk'.tip] =< cur' - StepSave
         \/ OnMain(disk, disk'.tip) /\ upsets' > upsets /\ cur' = cur]_vars
  <2> SUFFICES ASSUME NodeInv, [Next]_vars, disk'.tip # disk.tip, ~Cutback
               PROVE  Num[disk'.tip] =< cur' - StepSave
    BY DEF Cutback, vars
  <2>1. MoveOK /\ NodeInv'
    BY NodeNext DEF vars
  <2>2. Num[disk'.tip] = cur' - StepSave \/ NextTip(cur', disk, disk')
    BY <2>1 DEF MoveOK, Moved
  <2>3. disk'.tip \in Block /\ Num[disk'.tip] \in Nat /\ cur' \in Nat
    BY <2>1, NumIs DEF NodeInv, DiskOK, Disk, ClockOK
  <2> QED
    BY <2>2, <2>3, Sizes DEF NextTip
<1> QED
  BY <1>1, NodeAlways, PTL DEF Spec, MainNotAhead

(* An entry of the list asks for its chain from the top without a gap:     *)
(* headers until it meets what is stored, then bodies (DoMaxStatus after   *)
(* any replies, reorganisations, truncations and cached bodies).           *)
THEOREM OrderKept == Spec => []AskedInOrder
<1>1. NodeInv => AskedInOrder
  <2> SUFFICES ASSUME NodeInv, NEW n \in Heights, NEW e \in DOMAIN ram.want[n], NEW w, w = ram.want[n][e]
               PROVE  /\ w.head # None =>
                           /\ OnMain([tip |-> e], w.head)
                           /\ \A j \in Num[w.head] + 1 .. n : Anc[e][j] \in disk.known
                      /\ w.body # None =>
                           /\ OnMain([tip |-> e], w.body)
                           /\ \A j \in Num[w.body] .. n : Anc[e][j] \in disk.known
                           /\ \A j \in Num[w.body] + 1 .. n : HasBody(disk, Anc[e][j])
    BY DEF AskedInOrder
  <2>1. NumberOK(disk, ram, n)
    BY DEF NodeInv, RamOK
  <2>2. AskOK(disk, n, e, w)
    BY <2>1 DEF NumberOK
  <2> QED
    BY <2>2 DEF AskOK
<1> QED
  BY <1>1, NodeAlways, PTL

(* The main chain moves only to more work, by one number, back by a        *)
(* truncation, or anywhere when the node is far behind (DoMaxStatus and    *)
(* DoSaveMain, for any list of hashes met in one turn).                    *)
THEOREM MovesOnly == Spec => MainMoves
<1>1. NodeInv /\ [Next]_vars =>
        [\/ disk'.tip = disk.tip
         \/ Better(disk'.tip, disk.tip)
         \/ /\ Num[disk'.tip] = Num[disk.tip] + 1
            /\ \E k \in Heights : k > Num[disk'.tip] - Depth /\ k =< Num[disk.tip]
                                  /\ Anc[disk.tip][k] = Anc[disk'.tip][k]
         \/ OnMain(disk, disk'.tip) /\ upsets' > upsets /\ cur' = cur
         \/ cur' - StepSave - Num[disk.tip] >= CheckNums]_vars
  BY NodeNext DEF MoveOK, Moved, NextTip, Cutback
<1> QED
  BY <1>1, NodeAlways, PTL DEF Spec, MainMoves
=============================================================================
