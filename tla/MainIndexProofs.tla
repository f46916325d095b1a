-------------------------- MODULE MainIndexProofs --------------------------
(***************************************************************************)
(* Proofs about the main chain on disk and its readers.                    *)
(*                                                                         *)
(* TypeCorrect            every variable keeps its type                    *)
(* ReaderIsLinked         the blocks TX has executed are one chain         *)
(* and, as long as MAIN is not killed,                                     *)
(* UnkilledMainLinked     between calls the rows are one chain             *)
(* UnkilledCallNeverFails a call always finds the parent it checks         *)
(* UnkilledReaderNoHole   readers never meet a row not written yet         *)
(* and, if the start check can see what kills have left (FaultsInReach),   *)
(* RepairedMainLinked     from that check on the rows are one chain        *)
(* RepairedCallNeverFails and a call finds the parent it checks            *)
(***************************************************************************)
EXTENDS MainIndex, WellFoundedInduction, SequenceTheorems, TLAPS

(* A nonempty set of natural numbers has a least element.                  *)
LEMMA LeastNumber ==
  ASSUME NEW S, S \subseteq Nat, S # {}
  PROVE  \E n \in S : \A m \in S : n =< m
<1>1. IsWellFoundedOn(OpToRel(<, Nat), Nat)
  BY NatLessThanWellFounded
<1>2. PICK n \in S : \A m \in S : ~ (<< m, n >> \in OpToRel(<, Nat))
  BY <1>1, WFMin
<1>3. ASSUME NEW m \in S PROVE n =< m
  <2>1. m \in Nat /\ n \in Nat
    BY <1>2
  <2>2. ~ (m < n)
    BY <1>2, <2>1 DEF OpToRel
  <2> QED
    BY <2>1, <2>2
<1> QED
  BY <1>2, <1>3

(* The blocks every node makes itself exist.                               *)
LEMMA GenesisBlockNum ==
  ASSUME NEW n \in 0 .. GenesisCount - 1
  PROVE  GenesisBlock(n) \in Block /\ Num[GenesisBlock(n)] = n
  BY BlocksAssumption DEF GenesisBlock

LEMMA GenesisZero == GenesisBlock(0) \in Block /\ Num[GenesisBlock(0)] = 0
  BY GenesisBlockNum, BlocksAssumption

(* What the assumptions say of the numbers among the constants.            *)
LEMMA Sizes ==
  /\ GenesisCount \in Nat /\ 0 < GenesisCount /\ GenesisCount =< MaxNum
  /\ MaxNum \in Nat /\ HotDelta \in Nat /\ HotDelta < GenesisCount
  /\ Batch \in Nat /\ 0 < Batch /\ Rewind \in Nat
  /\ MaxCrash \in Nat /\ MaxEarly \in Nat
  BY BlocksAssumption, IndexAssumption

LEMMA NumType == \A b \in Block : Num[b] \in 0 .. MaxNum
  BY BlocksAssumption DEF Heights

LEMMA PrevNum ==
  ASSUME NEW b \in Block, Num[b] > 0
  PROVE  Prev[b] \in Block /\ Num[Prev[b]] = Num[b] - 1
  BY BlocksAssumption

LEMMA AncType ==
  ASSUME NEW b \in Block, NEW n \in Heights
  PROVE  Anc[b][n] \in Block /\ Anc[b][n] # Hole
  BY BlocksAssumption, IndexAssumption

(* The forward pass stops at a row of the file, or before the first one.   *)
LEMMA ForwardType ==
  ASSUME TypeOK, NEW from \in Int
  PROVE  Forward(from) \in Int /\ Forward(from) =< MaxNumDB
<1> DEFINE first == IF from < GenesisCount - 1 THEN GenesisCount - 1 ELSE from
           bad == {n \in first .. MaxNumDB : Row(n) = Hole \/ (n > first /\ ~GoodLink(n))}
<1>1. MaxNumDB \in Int
  BY DEF TypeOK, MaxNumDB
<1>2. first \in Nat
  BY BlocksAssumption
<1>3. bad \subseteq Nat /\ \A n \in bad : n =< MaxNumDB
  BY <1>1, <1>2
<1>4. CASE bad = {}
  BY <1>1, <1>4 DEF Forward
<1>5. CASE bad # {}
  <2> DEFINE f == CHOOSE n \in bad : \A m \in bad : n =< m
  <2>1. f \in bad
    <3> HIDE DEF bad
    <3> QED
      BY <1>3, <1>5, LeastNumber
  <2>2. Forward(from) = f - 1
    BY <1>5 DEF Forward
  <2> HIDE DEF bad, f
  <2> QED
    BY <2>1, <2>2, <1>1, <1>3
<1> QED
  BY <1>4, <1>5
-----------------------------------------------------------------------------
Running == pc \in {"put", "cut", "rec", "rows"}

(* What the locals of the running call are.                                *)
CallShape ==
  /\ Running => at =< last
  /\ pc = "put" \/ (Running /\ at < last) => last = Num[seed]
  /\ Pending =>
       /\ Running /\ last = Num[seed]
       /\ 0 < lo /\ hi =< Num[seed] - HotDelta - 1
  /\ pc = "rows" => lo =< at /\ at =< hi

TypeInv == TypeOK /\ CallShape

(* What every action that starts or ends a call keeps.                     *)
LEMMA BeginTypeOK ==
  ASSUME TypeOK, NEW p \in {"idle", "put", "cut", "rec", "rows", "down"}, NEW b \in Block,
         NEW from \in Heights, NEW upto \in Heights, NEW h \in -1 .. MaxNum,
         Begin(p, b, from, upto, h), lo' \in Int, hi' \in Int,
         UNCHANGED mainVars, UNCHANGED txVars,
         crashes' \in 0 .. MaxCrash, early' \in -1 .. MaxEarly
  PROVE  TypeOK'
  BY DEF TypeOK, Begin, mainVars, txVars

LEMMA ReturnInv ==
  ASSUME TypeOK, NEW p \in {"idle", "down"}, Return(p),
         UNCHANGED mainVars, UNCHANGED txVars,
         crashes' \in 0 .. MaxCrash, early' \in -1 .. MaxEarly
  PROVE  TypeInv'
<1>1. 0 \in Heights /\ -1 \in -1 .. MaxNum
  BY BlocksAssumption DEF Heights
<1>2. TypeOK'
  BY <1>1, GenesisZero, BeginTypeOK DEF Return
<1>3. CallShape'
  BY DEF Return, Begin, CallShape, Running, Pending
<1> QED
  BY <1>2, <1>3 DEF TypeInv

LEMMA EarlyType ==
  ASSUME TypeOK, Called
  PROVE  early' \in -1 .. MaxEarly
  BY IndexAssumption DEF TypeOK, Called

LEMMA TypeInit == Init => TypeInv
<1> SUFFICES ASSUME Init PROVE TypeInv
  OBVIOUS
<1>1. TypeOK
  BY BlocksAssumption, IndexAssumption, GenesisZero DEF Init, TypeOK, Heights
<1>2. CallShape
  BY DEF Init, CallShape, Running, Pending
<1> QED
  BY <1>1, <1>2 DEF TypeInv

LEMMA StartGenesisType == ASSUME TypeInv, StartGenesis PROVE TypeInv'
<1> DEFINE g == GenesisBlock(GenesisCount - 1)
<1>1. g \in Block /\ Num[g] = GenesisCount - 1
  BY GenesisBlockNum, Sizes
<1>2. TypeOK /\ CallShape
  BY DEF TypeInv
<1> HIDE DEF g
<1>3. Begin("put", g, 0, GenesisCount - 1, -1) /\ UNCHANGED << lo, hi, crashes >> /\ MayCall
  BY DEF StartGenesis, g
<1>4. UNCHANGED mainVars /\ UNCHANGED txVars /\ Called
  BY DEF StartGenesis
<1>5. lo' \in Int /\ hi' \in Int /\ crashes' \in 0 .. MaxCrash /\ early' \in -1 .. MaxEarly
  BY <1>2, <1>3, <1>4, EarlyType DEF TypeOK
<1>6. 0 \in Heights /\ GenesisCount - 1 \in Heights /\ -1 \in -1 .. MaxNum
  BY Sizes DEF Heights
<1>7. TypeOK'
  BY <1>1, <1>2, <1>3, <1>4, <1>5, <1>6, BeginTypeOK
<1>8. CallShape'
  BY <1>1, <1>2, <1>3, Sizes DEF MayCall, Begin, CallShape, Running, Pending
<1> QED
  BY <1>7, <1>8 DEF TypeInv

LEMMA StartSaveToDBType ==
  ASSUME TypeInv, NEW b \in Block, StartSaveToDB(b) PROVE TypeInv'
<1>1. TypeOK /\ CallShape
  BY DEF TypeInv
<1>2. PICK k \in 0 .. Num[b] : IsFork(b, k) /\ Begin("put", b, k + 1, Num[b], -1)
  BY DEF StartSaveToDB
<1>3. /\ UNCHANGED mainVars /\ UNCHANGED txVars /\ UNCHANGED << lo, hi, crashes >>
      /\ Called /\ MayCall /\ Num[b] = size
  BY DEF StartSaveToDB
<1>4. Anc[b][Num[b]] = b /\ b # Hole /\ Num[b] \in 0 .. MaxNum
  BY NumType, BlocksAssumption, IndexAssumption
<1>5. k # Num[b]
  BY <1>2, <1>3, <1>4 DEF IsFork, InMain, Row
<1>6. k + 1 \in Heights /\ k + 1 =< Num[b] /\ Num[b] \in Heights /\ -1 \in -1 .. MaxNum
  BY <1>2, <1>4, <1>5, Sizes DEF Heights
<1>7. lo' \in Int /\ hi' \in Int /\ crashes' \in 0 .. MaxCrash /\ early' \in -1 .. MaxEarly
  BY <1>1, <1>3, EarlyType DEF TypeOK
<1>8. TypeOK'
  BY <1>1, <1>2, <1>3, <1>6, <1>7, BeginTypeOK
<1>9. CallShape'
  BY <1>1, <1>2, <1>3, <1>6 DEF MayCall, Begin, CallShape, Running, Pending
<1> QED
  BY <1>8, <1>9 DEF TypeInv

LEMMA StartSaveChainType ==
  ASSUME TypeInv, NEW b \in Block, StartSaveChain(b) PROVE TypeInv'
<1> DEFINE hot == Num[b] - HotDelta
<1>1. TypeOK /\ CallShape
  BY DEF TypeInv
<1>2. PICK k \in 0 .. Num[b] - 1 :
        IF hot - 1 > k
          THEN Begin("put", b, k, Num[b], k) /\ lo' = k + 1 /\ hi' = hot - 1
          ELSE Begin("put", b, hot, Num[b], k) /\ lo' = 0 /\ hi' = -1
  BY DEF StartSaveChain
<1>3. /\ UNCHANGED mainVars /\ UNCHANGED txVars /\ UNCHANGED crashes
      /\ Called /\ MayCall /\ Num[b] >= GenesisCount
  BY DEF StartSaveChain
<1>4. Num[b] \in 0 .. MaxNum
  BY NumType
<1>5. hot \in 0 .. MaxNum /\ hot =< Num[b]
  BY <1>3, <1>4, Sizes
<1>6. k \in 0 .. MaxNum /\ k < Num[b]
  BY <1>2, <1>4, Sizes
<1>7. crashes' \in 0 .. MaxCrash /\ early' \in -1 .. MaxEarly
  BY <1>1, <1>3, EarlyType DEF TypeOK
<1>8. CASE hot - 1 > k
  <2>1. Begin("put", b, k, Num[b], k) /\ lo' = k + 1 /\ hi' = hot - 1
    BY <1>2, <1>8
  <2>2. k \in Heights /\ Num[b] \in Heights /\ k \in -1 .. MaxNum
        /\ lo' \in Int /\ hi' \in Int
    BY <1>4, <1>5, <1>6, <2>1, Sizes DEF Heights
  <2>3. TypeOK'
    BY <1>1, <1>3, <1>7, <2>1, <2>2, BeginTypeOK
  <2>4. CallShape'
    BY <1>4, <1>5, <1>6, <2>1 DEF Begin, CallShape, Running, Pending
  <2> QED
    BY <2>3, <2>4 DEF TypeInv
<1>9. CASE ~ (hot - 1 > k)
  <2>1. Begin("put", b, hot, Num[b], k) /\ lo' = 0 /\ hi' = -1
    BY <1>2, <1>9
  <2>2. hot \in Heights /\ Num[b] \in Heights /\ k \in -1 .. MaxNum
        /\ lo' \in Int /\ hi' \in Int
    BY <1>4, <1>5, <1>6, <2>1, Sizes DEF Heights
  <2>3. TypeOK'
    <3> HIDE DEF hot
    <3> QED
      BY <1>1, <1>3, <1>7, <2>1, <2>2, BeginTypeOK
  <2>4. CallShape'
    BY <1>4, <1>5, <2>1 DEF Begin, CallShape, Running, Pending
  <2> QED
    BY <2>3, <2>4 DEF TypeInv
<1> QED
  BY <1>8, <1>9

(* The whole file is deleted.                                              *)
LEMMA ClearType ==
  ASSUME TypeInv, index' = [m \in Heights |-> Hole], size' = 0,
         UNCHANGED << maxRec, pc, seed, at, last, head >>, UNCHANGED << lo, hi >>,
         UNCHANGED txVars, crashes' \in 0 .. MaxCrash, early' \in -1 .. MaxEarly
  PROVE  TypeInv'
<1>1. TypeOK /\ CallShape
  BY DEF TypeInv
<1>2. index' \in [Heights -> Block \cup {Hole}] /\ size' \in 0 .. MaxNum + 1
  BY Sizes
<1>3. TypeOK'
  BY <1>1, <1>2 DEF TypeOK, txVars
<1>4. CallShape'
  BY <1>1 DEF CallShape, Running, Pending
<1> QED
  BY <1>3, <1>4 DEF TypeInv

(* A TruncateMain of its own begins.                                       *)
LEMMA BeginCutType ==
  ASSUME TypeInv, pc = "idle", NEW n \in Heights, Begin("cut", GenesisBlock(0), n, n, -1),
         UNCHANGED << lo, hi >>, UNCHANGED mainVars, UNCHANGED txVars,
         crashes' \in 0 .. MaxCrash, early' \in -1 .. MaxEarly
  PROVE  TypeInv'
<1>1. TypeOK /\ CallShape
  BY DEF TypeInv
<1>2. lo' \in Int /\ hi' \in Int /\ -1 \in -1 .. MaxNum /\ n \in 0 .. MaxNum
  BY <1>1, Sizes DEF TypeOK, Heights
<1>3. TypeOK'
  BY <1>1, <1>2, GenesisZero, BeginTypeOK
<1>4. CallShape'
  BY <1>1, <1>2 DEF Begin, CallShape, Running, Pending
<1> QED
  BY <1>3, <1>4 DEF TypeInv

LEMMA StartTruncateType ==
  ASSUME TypeInv, NEW n \in Heights, StartTruncate(n) PROVE TypeInv'
<1>1. UNCHANGED txVars /\ UNCHANGED << lo, hi >> /\ pc = "idle"
  BY DEF StartTruncate, MayCall
<1>2. crashes' \in 0 .. MaxCrash /\ early' \in -1 .. MaxEarly
  BY EarlyType DEF StartTruncate, TypeInv, TypeOK
<1>3. CASE n < GenesisCount
  BY <1>1, <1>2, <1>3, ClearType DEF StartTruncate
<1>4. CASE ~ (n < GenesisCount)
  BY <1>1, <1>2, <1>4, BeginCutType DEF StartTruncate
<1> QED
  BY <1>3, <1>4
-----------------------------------------------------------------------------
LEMMA BatchLowType ==
  ASSUME lo \in Int, NEW top \in Int, lo =< top
  PROVE  BatchLow(top) \in Int /\ lo =< BatchLow(top) /\ BatchLow(top) =< top
  BY Sizes DEF BatchLow

LEMMA PutType == ASSUME TypeInv, Put PROVE TypeInv'
<1>1. TypeOK /\ CallShape
  BY DEF TypeInv
<1>2. UNCHANGED txVars /\ pc = "put" /\ maxRec' = maxRec /\ crashes' = crashes /\ early' = early
  BY DEF Put, upVars
<1>3. crashes' \in 0 .. MaxCrash /\ early' \in -1 .. MaxEarly
  BY <1>1, <1>2 DEF TypeOK
<1>4. CASE at > GenesisCount /\ Row(at - 1) # Anc[seed][at - 1]
  <2>1. UNCHANGED mainVars
    BY <1>2, <1>4 DEF Put, mainVars
  <2>2. CASE head = -1
    BY <1>1, <1>2, <1>3, <1>4, <2>1, <2>2, ReturnInv DEF Put
  <2>3. CASE head # -1
    <3>1. Begin("cut", seed, head, head, -1) /\ lo' = 0 /\ hi' = -1
      BY <1>4, <2>3 DEF Put
    <3>2. head \in Heights /\ -1 \in -1 .. MaxNum /\ seed \in Block
      BY <1>1, <2>3, Sizes DEF TypeOK, Heights
    <3>3. TypeOK'
      BY <1>1, <1>2, <1>3, <2>1, <3>1, <3>2, BeginTypeOK
    <3>4. CallShape'
      BY <3>1, <3>2 DEF Begin, CallShape, Running, Pending, Heights
    <3> QED
      BY <3>3, <3>4 DEF TypeInv
  <2> QED
    BY <2>2, <2>3
<1>5. CASE ~ (at > GenesisCount /\ Row(at - 1) # Anc[seed][at - 1])
  <2>1. /\ index' = [index EXCEPT ![at] = Anc[seed][at]]
        /\ size' = IF at < size THEN size ELSE at + 1
        /\ pc' = "cut"
        /\ UNCHANGED << seed, at, last, head, lo, hi >>
    BY <1>5 DEF Put
  <2>2. index' \in [Heights -> Block \cup {Hole}]
    BY <1>1, <2>1, AncType DEF TypeOK
  <2>3. size' \in 0 .. MaxNum + 1
    BY <1>1, <2>1, Sizes DEF TypeOK, Heights
  <2>4. TypeOK'
    BY <1>1, <1>2, <1>3, <2>1, <2>2, <2>3 DEF TypeOK, txVars
  <2>5. CallShape'
    BY <1>1, <1>2, <2>1 DEF CallShape, Running, Pending
  <2> QED
    BY <2>4, <2>5 DEF TypeInv
<1> QED
  BY <1>4, <1>5

LEMMA CutType == ASSUME TypeInv, Cut PROVE TypeInv'
<1>1. TypeOK /\ CallShape
  BY DEF TypeInv
<1>2. /\ UNCHANGED txVars /\ pc = "cut" /\ pc' = "rec" /\ size' = at + 1
      /\ index' = [n \in Heights |-> IF n =< at THEN index[n] ELSE Hole]
      /\ UNCHANGED << maxRec, seed, at, last, head, lo, hi >>
      /\ crashes' = crashes /\ early' = early
  BY DEF Cut, upVars
<1>3. index' \in [Heights -> Block \cup {Hole}]
  BY <1>1, <1>2 DEF TypeOK
<1>4. size' \in 0 .. MaxNum + 1
  BY <1>1, <1>2, Sizes DEF TypeOK, Heights
<1>5. TypeOK'
  BY <1>1, <1>2, <1>3, <1>4 DEF TypeOK, txVars
<1>6. CallShape'
  BY <1>1, <1>2 DEF CallShape, Running, Pending
<1> QED
  BY <1>5, <1>6 DEF TypeInv

LEMMA RecType == ASSUME TypeInv, Rec PROVE TypeInv'
<1>1. TypeOK /\ CallShape
  BY DEF TypeInv
<1>2. /\ pc = "rec" /\ maxRec' = at /\ UNCHANGED << index, size >> /\ UNCHANGED txVars
      /\ crashes' = crashes /\ early' = early
  BY DEF Rec, upVars
<1>3. at \in 0 .. MaxNum /\ last \in 0 .. MaxNum /\ lo \in Int /\ hi \in Int
      /\ seed \in Block /\ Num[seed] \in 0 .. MaxNum /\ at =< last
  BY <1>1, <1>2, NumType DEF TypeOK, Heights, CallShape, Running
<1>4. CASE Pending
  <2>1. pc' = "rows" /\ at' = BatchLow(hi) /\ UNCHANGED << seed, last, head, lo, hi >>
    BY <1>4 DEF Rec
  <2>2. /\ 0 < lo /\ lo =< at' /\ at' =< hi /\ at' \in Int
        /\ hi =< Num[seed] - HotDelta - 1 /\ last = Num[seed]
    BY <1>1, <1>3, <1>4, <2>1, BatchLowType DEF CallShape, Pending
  <2>3. at' \in Heights /\ at' =< last
    BY <1>3, <2>2, Sizes DEF Heights
  <2>4. maxRec' \in -1 .. MaxNum
    BY <1>2, <1>3
  <2>5. TypeOK'
    BY <1>1, <1>2, <2>1, <2>3, <2>4 DEF TypeOK, txVars
  <2>6. CallShape'
    BY <1>4, <2>1, <2>2, <2>3 DEF CallShape, Running, Pending
  <2> QED
    BY <2>5, <2>6 DEF TypeInv
<1>5. CASE ~ Pending /\ at < last
  <2>1. pc' = "put" /\ at' = at + 1 /\ UNCHANGED << seed, last, head, lo, hi >>
    BY <1>5 DEF Rec
  <2>2. at' \in Heights /\ maxRec' \in -1 .. MaxNum /\ at' =< last
    BY <1>2, <1>3, <1>5, <2>1, Sizes DEF Heights
  <2>3. TypeOK'
    BY <1>1, <1>2, <2>1, <2>2 DEF TypeOK, txVars
  <2>4. CallShape'
    BY <1>1, <1>2, <1>5, <2>1, <2>2 DEF CallShape, Running, Pending
  <2> QED
    BY <2>3, <2>4 DEF TypeInv
<1>6. CASE ~ Pending /\ ~ (at < last)
  <2>1. Return("idle")
    BY <1>6 DEF Rec
  <2>2. /\ maxRec' \in -1 .. MaxNum /\ crashes' \in 0 .. MaxCrash /\ early' \in -1 .. MaxEarly
    BY <1>1, <1>2, <1>3 DEF TypeOK
  <2>3. 0 \in Heights /\ -1 \in -1 .. MaxNum
    BY Sizes DEF Heights
  <2>4. TypeOK'
    BY <1>1, <1>2, <2>1, <2>2, <2>3, GenesisZero DEF TypeOK, txVars, Return, Begin
  <2>5. CallShape'
    BY <2>1 DEF Return, Begin, CallShape, Running, Pending
  <2> QED
    BY <2>4, <2>5 DEF TypeInv
<1> QED
  BY <1>4, <1>5, <1>6

LEMMA PutRowType == ASSUME TypeInv, PutRow PROVE TypeInv'
<1>1. TypeOK /\ CallShape
  BY DEF TypeInv
<1>2. /\ pc = "rows" /\ UNCHANGED << maxRec, seed, last, head, lo >> /\ UNCHANGED txVars
      /\ index' = [index EXCEPT ![at] = Anc[seed][at]]
      /\ size' = IF at < size THEN size ELSE at + 1
      /\ crashes' = crashes /\ early' = early
  BY DEF PutRow, upVars
<1>3. /\ at \in 0 .. MaxNum /\ last \in 0 .. MaxNum /\ lo \in Int /\ hi \in Int
      /\ seed \in Block /\ Num[seed] \in 0 .. MaxNum
  BY <1>1, <1>2, NumType DEF TypeOK, Heights
<1>4. /\ lo =< at /\ at =< hi /\ 0 < lo /\ last = Num[seed] /\ hi =< Num[seed] - HotDelta - 1
  BY <1>1, <1>2, <1>3 DEF CallShape, Pending
<1>5. index' \in [Heights -> Block \cup {Hole}]
  BY <1>1, <1>2, AncType DEF TypeOK
<1>6. size' \in 0 .. MaxNum + 1
  BY <1>1, <1>2, Sizes DEF TypeOK, Heights
<1>7. /\ at' \in Int /\ hi' \in Int /\ 0 < at' /\ at' =< last /\ pc' \in {"rows", "cut"}
      /\ lo =< hi' => hi' =< Num[seed] - HotDelta - 1
      /\ pc' = "rows" => lo =< at' /\ at' =< hi'
  <2>1. CASE at < hi
    BY <1>2, <1>3, <1>4, <2>1, Sizes DEF PutRow
  <2>2. CASE ~ (at < hi)
    <3>1. hi' = BatchLow(hi) - 1 /\ hi' \in Int /\ hi' < hi
      BY <1>3, <1>4, <2>2, BatchLowType DEF PutRow
    <3>2. CASE lo =< hi'
      <4>1. at' = BatchLow(hi') /\ pc' = "rows"
        BY <1>2, <2>2, <3>2 DEF PutRow
      <4>2. at' \in Int /\ lo =< at' /\ at' =< hi'
        BY <1>3, <3>1, <3>2, <4>1, BatchLowType
      <4> QED
        BY <1>3, <1>4, <3>1, <4>1, <4>2, Sizes
    <3>3. CASE ~ (lo =< hi')
      <4>1. at' = Num[seed] - HotDelta - 1 /\ pc' = "cut"
        BY <2>2, <3>3 DEF PutRow
      <4> QED
        BY <1>3, <1>4, <3>1, <3>3, <4>1, Sizes
    <3> QED
      BY <3>2, <3>3
  <2> QED
    BY <2>1, <2>2
<1>8. at' \in Heights
  BY <1>3, <1>7, Sizes DEF Heights
<1>9. TypeOK'
  BY <1>1, <1>2, <1>5, <1>6, <1>7, <1>8 DEF TypeOK, txVars
<1>10. CallShape'
  BY <1>2, <1>4, <1>7 DEF CallShape, Running, Pending
<1> QED
  BY <1>9, <1>10 DEF TypeInv
-----------------------------------------------------------------------------
LEMMA CrashType == ASSUME TypeInv, Crash PROVE TypeInv'
<1>1. TypeOK
  BY DEF TypeInv
<1>2. Return("down") /\ UNCHANGED mainVars /\ UNCHANGED txVars
  BY DEF Crash
<1>3. crashes' \in 0 .. MaxCrash /\ early' \in -1 .. MaxEarly
  BY <1>1, Sizes DEF Crash, TypeOK
<1> QED
  BY <1>1, <1>2, <1>3, ReturnInv

LEMMA RestartType == ASSUME TypeInv, Restart PROVE TypeInv'
<1>1. TypeOK /\ CallShape
  BY DEF TypeInv
<1>2. /\ pc = "down" /\ pc' = "idle" /\ early' = MaxEarly
      /\ UNCHANGED mainVars /\ UNCHANGED txVars
      /\ UNCHANGED << seed, at, last, head, lo, hi, crashes >>
  BY DEF Restart
<1>3. early' \in -1 .. MaxEarly
  BY <1>2, Sizes
<1>4. TypeOK'
  BY <1>1, <1>2, <1>3 DEF TypeOK, mainVars, txVars
<1>5. CallShape'
  BY <1>1, <1>2 DEF CallShape, Running, Pending
<1> QED
  BY <1>4, <1>5 DEF TypeInv

LEMMA CheckStartedType == ASSUME TypeInv, CheckStarted PROVE TypeInv'
<1>1. TypeOK
  BY DEF TypeInv
<1>2. UNCHANGED txVars /\ UNCHANGED << lo, hi, crashes >> /\ early' = -1 /\ pc = "idle"
  BY DEF CheckStarted
<1>3. crashes' \in 0 .. MaxCrash /\ early' \in -1 .. MaxEarly
  BY <1>1, <1>2, Sizes DEF TypeOK
<1>4. PICK r \in ReverseResults :
        LET once == Forward(IF r < CheckBack THEN 0 ELSE r - CheckBack)
            good == Forward(once - CheckAgain) IN
        IF good < MaxNumDB
          THEN IF good - 1 < GenesisCount
                 THEN /\ index' = [m \in Heights |-> Hole] /\ size' = 0
                      /\ UNCHANGED << maxRec, pc, seed, at, last, head >>
                 ELSE /\ Begin("cut", GenesisBlock(0), good - 1, good - 1, -1)
                      /\ UNCHANGED mainVars
          ELSE UNCHANGED << mainVars, pc, seed, at, last, head >>
  BY DEF CheckStarted
<1> DEFINE once == Forward(IF r < CheckBack THEN 0 ELSE r - CheckBack)
           good == Forward(once - CheckAgain)
<1>5. MaxNumDB \in Int /\ MaxNumDB =< MaxNum
  BY <1>1, Sizes DEF TypeOK, MaxNumDB
<1>6. r \in Int /\ CheckBack \in Int /\ CheckAgain \in Int
  BY <1>4, <1>5, Sizes, IndexAssumption DEF ReverseResults
<1>7. once \in Int
  BY <1>1, <1>6, ForwardType
<1> HIDE DEF once
<1>8. good \in Int
  BY <1>1, <1>6, <1>7, ForwardType
<1>9. CASE good < MaxNumDB /\ good - 1 < GenesisCount
  <2>1. /\ index' = [m \in Heights |-> Hole] /\ size' = 0
        /\ UNCHANGED << maxRec, pc, seed, at, last, head >>
    BY <1>4, <1>9 DEF once
  <2> QED
    BY <1>2, <1>3, <2>1, ClearType
<1>10. CASE good < MaxNumDB /\ ~ (good - 1 < GenesisCount)
  <2>1. Begin("cut", GenesisBlock(0), good - 1, good - 1, -1) /\ UNCHANGED mainVars
    BY <1>4, <1>10 DEF once
  <2>2. good - 1 \in Heights
    BY <1>5, <1>8, <1>10, Sizes DEF Heights
  <2> HIDE DEF good
  <2> QED
    BY <1>2, <1>3, <2>1, <2>2, BeginCutType
<1>11. CASE ~ (good < MaxNumDB)
  <2>1. UNCHANGED mainVars /\ UNCHANGED << pc, seed, at, last, head >>
    BY <1>4, <1>11 DEF once
  <2>2. TypeOK'
    BY <1>1, <1>2, <1>3, <2>1 DEF TypeOK, mainVars, txVars
  <2>3. CallShape'
    BY <1>2, <2>1 DEF TypeInv, CallShape, Running, Pending
  <2> QED
    BY <2>2, <2>3 DEF TypeInv
<1> QED
  BY <1>9, <1>10, <1>11
-----------------------------------------------------------------------------
LEMMA RowType ==
  ASSUME TypeOK, NEW n
  PROVE  Row(n) \in Block \cup {Hole} /\ ReaderRow(n) \in Block \cup {Hole}
  BY DEF TypeOK, Row, ReaderRow

(* A block is added to the executed ones, or the last of them are undone.  *)
LEMMA AppendType ==
  ASSUME TypeOK, NEW r \in Block
  PROVE  Append(applied, r) \in Seq(Block)
  BY DEF TypeOK

LEMMA PrefixType ==
  ASSUME TypeOK, NEW n \in Int
  PROVE  n =< Len(applied) => SubSeq(applied, 1, n) \in Seq(Block)
<1>1. applied \in Seq(Block)
  BY DEF TypeOK
<1> QED
  BY <1>1, SubSeqProperties

LEMMA TxTypes ==
  ASSUME TypeInv, applied' \in Seq(Block), seen' \in Block, rpc' \in {"idle", "read"},
         UNCHANGED mainVars, UNCHANGED callVars, UNCHANGED upVars
  PROVE  TypeInv'
<1>1. TypeOK'
  BY DEF TypeInv, TypeOK, mainVars, callVars, upVars
<1>2. CallShape'
  BY DEF TypeInv, CallShape, callVars, Running, Pending
<1> QED
  BY <1>1, <1>2 DEF TypeInv

LEMMA TxFirstType == ASSUME TypeInv, TxFirst PROVE TypeInv'
<1>1. TypeOK
  BY DEF TypeInv
<1>2. /\ applied' = << ReaderRow(1) >> /\ ReaderRow(1) # Hole
      /\ UNCHANGED << seen, rpc >>
      /\ UNCHANGED mainVars /\ UNCHANGED callVars /\ UNCHANGED upVars
  BY DEF TxFirst
<1>3. applied' \in Seq(Block)
  BY <1>1, <1>2, RowType
<1> QED
  BY <1>1, <1>2, <1>3, TxTypes DEF TypeOK

LEMMA TxPeekType == ASSUME TypeInv, TxPeek PROVE TypeInv'
<1> DEFINE r == ReaderRow(Len(applied) + 1)
<1>1. TypeOK
  BY DEF TypeInv
<1>2. /\ UNCHANGED mainVars /\ UNCHANGED callVars /\ UNCHANGED upVars /\ r # Hole
      /\ applied # << >>
      /\ \/ applied' = SubSeq(applied, 1, Len(applied) - 1) /\ UNCHANGED << seen, rpc >>
         \/ applied' = applied /\ seen' = Prev[r] /\ rpc' = "read"
  BY DEF TxPeek
<1>3. applied \in Seq(Block) /\ Len(applied) - 1 \in Int
  BY <1>1 DEF TypeOK
<1>4. applied' \in Seq(Block)
  BY <1>1, <1>2, <1>3, PrefixType
<1>5. r \in Block
  BY <1>1, <1>2, RowType
<1>6. Prev[r] \in Block
  BY <1>5, BlocksAssumption
<1> HIDE DEF r
<1>7. seen' \in Block /\ rpc' \in {"idle", "read"}
  BY <1>1, <1>2, <1>6 DEF TypeOK
<1> QED
  BY <1>2, <1>4, <1>7, TxTypes

LEMMA TxApplyType == ASSUME TypeInv, TxApply PROVE TypeInv'
<1> DEFINE r == ReaderRow(Len(applied) + 1)
<1>1. TypeOK
  BY DEF TypeInv
<1>2. /\ UNCHANGED mainVars /\ UNCHANGED callVars /\ UNCHANGED upVars
      /\ rpc' = "idle" /\ seen' = seen
      /\ \/ r # Hole /\ applied' = Append(applied, r)
         \/ applied' = applied
  BY DEF TxApply
<1>3. applied' \in Seq(Block)
  BY <1>1, <1>2, RowType, AppendType DEF TypeOK
<1> QED
  BY <1>1, <1>2, <1>3, TxTypes DEF TypeOK

LEMMA UndoType ==
  ASSUME TypeOK, NEW n \in Int, n =< Len(applied) + 1, Undo(n)
  PROVE  applied' \in Seq(Block)
<1>1. n - 1 \in Int /\ n - 1 =< Len(applied)
  BY DEF TypeOK
<1> QED
  BY <1>1, PrefixType DEF Undo

LEMMA TxRestartType == ASSUME TypeInv, TxRestart PROVE TypeInv'
<1>1. TypeOK
  BY DEF TypeInv
<1>2. Len(applied) \in Nat
  BY <1>1 DEF TypeOK
<1>3. applied' \in Seq(Block)
  <2>1. Len(applied) - Rewind + 1 \in Int /\ Len(applied) - Rewind + 1 =< Len(applied) + 1
    BY <1>2, Sizes
  <2>2. Undo(Len(applied) - Rewind + 1)
    BY DEF TxRestart
  <2> QED
    BY <1>1, <2>1, <2>2, UndoType
<1> QED
  BY <1>1, <1>3, TxTypes DEF TxRestart, TypeOK

LEMMA TxCheckActType == ASSUME TypeInv, TxCheckAct PROVE TypeInv'
<1>1. TypeOK
  BY DEF TypeInv
<1>3. PICK n \in 1 .. Len(applied) : Undo(n)
  BY DEF TxCheckAct
<1>4. Len(applied) \in Nat
  BY <1>1 DEF TypeOK
<1>5. applied' \in Seq(Block)
  BY <1>1, <1>3, <1>4, UndoType
<1> QED
  BY <1>1, <1>5, TxTypes DEF TxCheckAct, TypeOK

LEMMA StutterType == ASSUME TypeInv, UNCHANGED vars PROVE TypeInv'
<1>1. /\ UNCHANGED mainVars /\ UNCHANGED callVars /\ UNCHANGED upVars /\ UNCHANGED txVars
  BY DEF vars
<1> QED
  BY <1>1, TxTypes DEF txVars, TypeInv, TypeOK

LEMMA TypeNext == TypeInv /\ [Next]_vars => TypeInv'
  BY StartGenesisType, StartSaveToDBType, StartSaveChainType, StartTruncateType,
     PutType, CutType, RecType, PutRowType, CrashType, RestartType, CheckStartedType,
     TxFirstType, TxPeekType, TxApplyType, TxCheckActType, TxRestartType, StutterType
  DEF Next, MainStep, TxStep

(* Every variable keeps its type; the numbers MAIN writes at stay within   *)
(* the file, whichever call is running.                                    *)
THEOREM TypeCorrect == Spec => []TypeOK
<1>1. Init => TypeInv
  BY TypeInit
<1>2. TypeInv /\ [Next]_vars => TypeInv'
  BY TypeNext
<1>3. TypeInv => TypeOK
  BY DEF TypeInv
<1> QED
  BY <1>1, <1>2, <1>3, PTL DEF Spec
-----------------------------------------------------------------------------
(* A row of the file holds a block of that number, even in the middle of a *)
(* call and after a kill.                                                  *)
RowsNumbered == \A n \in Heights : index[n] # Hole => Num[index[n]] = n

(* Between the two reads of RunItem the header read first still links.     *)
SeenIsTip == rpc = "read" => applied # << >> /\ seen = Tip

ReaderInv == TypeInv /\ RowsNumbered /\ ReaderLinked /\ SeenIsTip

LEMMA AncNum ==
  ASSUME NEW b \in Block, NEW n \in 0 .. Num[b]
  PROVE  Num[Anc[b][n]] = n
<1>1. Num[b] \in 0 .. MaxNum /\ MaxNum \in Nat
  BY NumType, Sizes
<1>2. CASE n > 0
  BY <1>1, <1>2, BlocksAssumption
<1>3. CASE n = 0 /\ Num[b] > 0
  <2>1. 1 \in 1 .. Num[b] /\ 1 \in Heights
    BY <1>1, <1>3 DEF Heights
  <2>2. Num[Anc[b][1]] = 1 /\ Anc[b][1 - 1] = Prev[Anc[b][1]]
    BY <2>1, BlocksAssumption
  <2>3. Anc[b][1] \in Block
    BY <2>1, AncType
  <2>4. Num[Prev[Anc[b][1]]] = 0
    BY <2>2, <2>3, PrevNum
  <2> QED
    BY <1>3, <2>2, <2>4
<1>4. CASE n = 0 /\ Num[b] = 0
  BY <1>4, BlocksAssumption
<1> QED
  BY <1>1, <1>2, <1>3, <1>4

LEMMA RowNum ==
  ASSUME TypeOK, RowsNumbered, NEW n, ReaderRow(n) # Hole
  PROVE  n \in Heights /\ ReaderRow(n) \in Block /\ Num[ReaderRow(n)] = n
<1>1. n \in Heights /\ ReaderRow(n) = index[n]
  BY DEF ReaderRow, Row
<1> QED
  BY <1>1 DEF RowsNumbered, TypeOK

LEMMA RowsNumberedInit == Init => RowsNumbered
  BY DEF Init, RowsNumbered

LEMMA RowsNumberedNext ==
  ASSUME TypeInv, RowsNumbered, [Next]_vars PROVE RowsNumbered'
<1>1. TypeOK /\ CallShape
  BY DEF TypeInv
<1>2. CASE UNCHANGED index
  BY <1>2 DEF RowsNumbered
<1>3. CASE index' = [m \in Heights |-> Hole]
  BY <1>3 DEF RowsNumbered
<1>4. CASE Put \/ PutRow
  <2>1. index' = index \/ index' = [index EXCEPT ![at] = Anc[seed][at]]
    BY <1>4 DEF Put, PutRow
  <2>2. at \in 0 .. Num[seed] /\ seed \in Block
    <3>1. at \in 0 .. MaxNum /\ seed \in Block /\ last \in 0 .. MaxNum
          /\ Num[seed] \in 0 .. MaxNum /\ hi \in Int /\ lo \in Int
      BY <1>1, NumType DEF TypeOK, Heights
    <3>2. CASE Put
      BY <1>1, <3>1, <3>2 DEF Put, CallShape, Running
    <3>3. CASE PutRow
      BY <1>1, <3>1, <3>3, Sizes DEF PutRow, CallShape, Pending
    <3> QED
      BY <1>4, <3>2, <3>3
  <2>3. Num[Anc[seed][at]] = at
    BY <2>2, AncNum
  <2> QED
    BY <1>1, <2>1, <2>3 DEF TypeOK, RowsNumbered
<1>5. CASE Cut
  BY <1>5 DEF Cut, RowsNumbered
<1>6. \/ UNCHANGED index \/ index' = [m \in Heights |-> Hole] \/ Put \/ PutRow \/ Cut
  <2>1. CASE StartGenesis \/ (\E b \in Block : StartSaveToDB(b) \/ StartSaveChain(b))
             \/ (\E n \in Heights : StartTruncate(n))
    BY <2>1 DEF StartGenesis, StartSaveToDB, StartSaveChain, StartTruncate, mainVars
  <2>2. CASE Rec \/ Crash \/ Restart
    BY <2>2 DEF Rec, Crash, Restart, mainVars
  <2>3. CASE CheckStarted
    BY <2>3 DEF CheckStarted, mainVars
  <2>4. CASE TxStep \/ TxRestart \/ UNCHANGED vars
    BY <2>4 DEF TxStep, TxFirst, TxPeek, TxApply, TxCheckAct, TxRestart, vars, mainVars
  <2> QED
    BY <2>1, <2>2, <2>3, <2>4 DEF Next, MainStep
<1> QED
  BY <1>2, <1>3, <1>4, <1>5, <1>6

(* A linked sequence stays linked when its end is undone.                  *)
LEMMA PrefixLinked ==
  ASSUME TypeOK, ReaderLinked, NEW n \in Int, n =< Len(applied),
         applied' = SubSeq(applied, 1, n)
  PROVE  ReaderLinked'
<1>1. applied \in Seq(Block) /\ Len(applied) \in Nat
  BY DEF TypeOK
<1>2. /\ Len(applied') = IF 1 =< n THEN n ELSE 0
      /\ \A i \in 1 .. n : applied'[i] = applied[i]
  BY <1>1, SubSeqProperties
<1>3. \A i \in 1 .. Len(applied') : i \in 1 .. Len(applied) /\ i \in 1 .. n
  BY <1>1, <1>2
<1>4. \A i \in 1 .. Len(applied') : i > 1 => i - 1 \in 1 .. n
  BY <1>2
<1> QED
  BY <1>2, <1>3, <1>4 DEF ReaderLinked

LEMMA UndoLinked ==
  ASSUME TypeOK, ReaderLinked, NEW n \in Int, n =< Len(applied) + 1, Undo(n)
  PROVE  ReaderLinked'
<1>1. CASE n =< 1
  BY <1>1 DEF Undo, ReaderLinked
<1>2. CASE ~ (n =< 1)
  <2>1. n - 1 \in Int /\ n - 1 =< Len(applied)
    BY DEF TypeOK
  <2> QED
    BY <1>2, <2>1, PrefixLinked DEF Undo
<1> QED
  BY <1>1, <1>2

(* Two blocks below GenesisCount with the same number are the same.        *)
LEMMA GenesisUnique ==
  ASSUME NEW b \in Block, NEW c \in Block, Num[b] = Num[c], Num[b] < GenesisCount
  PROVE  b = c
<1>1. Num[b] \in 0 .. GenesisCount - 1
  BY NumType, Sizes
<1> QED
  BY <1>1, BlocksAssumption

LEMMA ReaderNext ==
  ASSUME ReaderInv, [Next]_vars PROVE ReaderLinked' /\ SeenIsTip'
<1>1. TypeOK /\ RowsNumbered /\ ReaderLinked /\ SeenIsTip
  BY DEF ReaderInv, TypeInv
<1>2. applied \in Seq(Block) /\ Len(applied) \in Nat
  BY <1>1 DEF TypeOK
<1>3. CASE UNCHANGED txVars
  BY <1>1, <1>3 DEF txVars, ReaderLinked, SeenIsTip, Tip
<1>4. CASE TxFirst
  <2>1. applied' = << ReaderRow(1) >> /\ ReaderRow(1) # Hole /\ rpc' = "idle"
    BY <1>4 DEF TxFirst
  <2>2. Num[ReaderRow(1)] = 1
    BY <1>1, <2>1, RowNum
  <2> QED
    BY <2>1, <2>2 DEF ReaderLinked, SeenIsTip
<1>5. CASE TxPeek
  <2> DEFINE n == Len(applied) + 1
             r == ReaderRow(n)
  <2>1. rpc = "idle" /\ applied # << >> /\ r # Hole
    BY <1>5 DEF TxPeek
  <2>2. r \in Block /\ Num[r] = n
    BY <1>1, <2>1, RowNum
  <2>3. CASE n >= GenesisCount /\ Prev[r] # Tip
    <3>1. applied' = SubSeq(applied, 1, Len(applied) - 1) /\ rpc' = "idle"
      BY <1>5, <2>1, <2>3 DEF TxPeek
    <3> QED
      BY <1>1, <1>2, <3>1, PrefixLinked DEF SeenIsTip
  <2>4. CASE ~ (n >= GenesisCount /\ Prev[r] # Tip)
    <3>1. applied' = applied /\ seen' = Prev[r]
      BY <1>5, <2>4 DEF TxPeek
    <3>2. Tip \in Block /\ Num[Tip] = n - 1
      <4>1. Len(applied) \in 1 .. Len(applied)
        BY <1>2, <2>1, EmptySeq
      <4> QED
        BY <1>1, <1>2, <4>1 DEF ReaderLinked, Tip
    <3>3. Prev[r] = Tip
      <4>1. CASE n < GenesisCount
        <5>1. Prev[r] \in Block /\ Num[Prev[r]] = n - 1
          BY <1>2, <2>2, PrevNum
        <5> HIDE DEF r
        <5>2. Num[Tip] < GenesisCount
          BY <1>2, <3>2, <4>1, Sizes
        <5> QED
          BY <3>2, <5>1, <5>2, GenesisUnique
      <4> QED
        BY <1>2, <2>4, <4>1, Sizes
    <3>4. SeenIsTip'
      BY <2>1, <3>1, <3>3 DEF SeenIsTip, Tip
    <3> QED
      BY <1>1, <3>1, <3>4 DEF ReaderLinked
  <2> QED
    BY <2>3, <2>4
<1>6. CASE TxApply
  <2> DEFINE r == ReaderRow(Len(applied) + 1)
  <2>1. rpc = "read" /\ rpc' = "idle"
    BY <1>6 DEF TxApply
  <2>2. CASE applied' = applied
    BY <1>1, <2>1, <2>2 DEF ReaderLinked, SeenIsTip
  <2>3. CASE r # Hole /\ Prev[r] = seen /\ applied' = Append(applied, r)
    <3>1. r \in Block /\ Num[r] = Len(applied) + 1
      BY <1>1, <2>3, RowNum
    <3>2. Prev[r] = applied[Len(applied)]
      BY <1>1, <2>1, <2>3 DEF SeenIsTip, Tip
    <3> HIDE DEF r
    <3>3. /\ Len(applied') = Len(applied) + 1
          /\ \A i \in 1 .. Len(applied) : applied'[i] = applied[i]
          /\ applied'[Len(applied) + 1] = r
      BY <1>2, <2>3, <3>1, AppendProperties
    <3>4. ASSUME NEW i \in 1 .. Len(applied')
          PROVE  Num[applied'[i]] = i /\ (i > 1 => Prev[applied'[i]] = applied'[i - 1])
      <4>1. CASE i =< Len(applied)
        <5>1. i \in 1 .. Len(applied) /\ (i > 1 => i - 1 \in 1 .. Len(applied))
          BY <1>2, <4>1
        <5> QED
          BY <1>1, <3>3, <5>1 DEF ReaderLinked
      <4>2. CASE i = Len(applied) + 1
        <5>1. i > 1 => i - 1 \in 1 .. Len(applied) /\ i - 1 = Len(applied)
          BY <1>2, <4>2
        <5> QED
          BY <3>1, <3>2, <3>3, <4>2, <5>1
      <4> QED
        BY <1>2, <3>3, <4>1, <4>2
    <3> QED
      BY <2>1, <3>4 DEF ReaderLinked, SeenIsTip
  <2> QED
    BY <1>6, <2>2, <2>3 DEF TxApply
<1>7. CASE TxRestart
  <2>1. Len(applied) - Rewind + 1 \in Int /\ Len(applied) - Rewind + 1 =< Len(applied) + 1
    BY <1>2, Sizes
  <2>2. Undo(Len(applied) - Rewind + 1) /\ rpc' = "idle"
    BY <1>7 DEF TxRestart
  <2> QED
    BY <1>1, <2>1, <2>2, UndoLinked DEF SeenIsTip
<1>8. CASE TxCheckAct
  <2>2. PICK n \in 1 .. Len(applied) : Undo(n)
    BY <1>8 DEF TxCheckAct
  <2>3. n \in Int /\ n =< Len(applied) + 1
    BY <1>2, <2>2
  <2>4. rpc' = "idle"
    BY <1>8 DEF TxCheckAct
  <2> QED
    BY <1>1, <2>2, <2>3, <2>4, UndoLinked DEF SeenIsTip
<1>9. TxStep \/ TxRestart \/ UNCHANGED txVars
  <2>1. CASE StartGenesis \/ (\E b \in Block : StartSaveToDB(b) \/ StartSaveChain(b))
             \/ (\E n \in Heights : StartTruncate(n))
    BY <2>1 DEF StartGenesis, StartSaveToDB, StartSaveChain, StartTruncate
  <2>2. CASE MainStep \/ Crash \/ Restart \/ CheckStarted \/ UNCHANGED vars
    BY <2>2 DEF MainStep, Put, Cut, Rec, PutRow, Crash, Restart, CheckStarted, vars
  <2> QED
    BY <2>1, <2>2 DEF Next
<1> QED
  BY <1>3, <1>4, <1>5, <1>6, <1>7, <1>8, <1>9 DEF TxStep

(* The blocks executed by the TX process are one chain in every reachable  *)
(* state, however the calls of MAIN, its kills and the kills of TX fall    *)
(* between the reads of TX.                                                *)
THEOREM ReaderIsLinked == Spec => []ReaderLinked
<1>1. Init => ReaderInv
  BY TypeInit, RowsNumberedInit DEF ReaderInv, Init, ReaderLinked, SeenIsTip
<1>2. ReaderInv /\ [Next]_vars => ReaderInv'
  BY TypeNext, RowsNumberedNext, ReaderNext DEF ReaderInv
<1>3. ReaderInv => ReaderLinked
  BY DEF ReaderInv
<1> QED
  BY <1>1, <1>2, <1>3, PTL DEF Spec
-----------------------------------------------------------------------------
(***************************************************************************)
(* The rows of the file as long as MAIN is not killed.                     *)
(***************************************************************************)
(* Rows low .. top are the ancestors of the block the call is saving.      *)
OnChain(low, top) == \A n \in low .. top : Row(n) = Anc[seed][n]

Whole == crashes = 0 => \A n \in 0 .. size - 1 : index[n] # Hole

InTruncate == pc \in {"cut", "rec"}

(* What the rows hold at each system call of a call that no kill cuts      *)
(* short.  While the bulk rows are written, those of the finished batches  *)
(* and those of the present one below at are in place.                     *)
CallInv ==
  /\ pc # "down"
  /\ pc = "idle" => LinkedTo(size - 1)
  /\ pc = "put" => OnChain(0, at - 1) /\ Whole
  /\ InTruncate => LinkedTo(at) /\ Whole /\ (at < last => OnChain(0, at))
  /\ pc = "rec" => size = at + 1
  /\ (pc = "put" \/ InTruncate) /\ Pending => at = lo - 1 /\ hi = Num[seed] - HotDelta - 1
  /\ pc = "rows" =>
       /\ OnChain(0, lo - 1) /\ OnChain(BatchLow(hi), at - 1)
       /\ OnChain(hi + 1, Num[seed] - HotDelta - 1)
       /\ BatchLow(hi) =< at /\ maxRec < lo /\ size =< Num[seed] - HotDelta
-----------------------------------------------------------------------------
(* The ancestors of a block are one chain.                                 *)
LEMMA OnChainLinked ==
  ASSUME TypeOK, NEW top \in Int, top =< Num[seed], OnChain(0, top)
  PROVE  LinkedTo(top)
<1>1. seed \in Block /\ Num[seed] \in 0 .. MaxNum /\ MaxNum \in Nat
  BY NumType, Sizes DEF TypeOK
<1> SUFFICES ASSUME NEW n \in 0 .. top
             PROVE  Row(n) # Hole /\ (n > 0 => GoodLink(n))
  BY DEF LinkedTo
<1>2. n \in Heights /\ Row(n) = Anc[seed][n] /\ Row(n) # Hole
  BY <1>1, AncType DEF OnChain, Heights
<1>3. ASSUME n > 0 PROVE GoodLink(n)
  <2>1. n - 1 \in Heights /\ n - 1 \in 0 .. top /\ n \in 1 .. Num[seed]
    BY <1>1, <1>3 DEF Heights
  <2>2. Row(n - 1) = Anc[seed][n - 1] /\ Row(n - 1) # Hole
    BY <1>1, <2>1, AncType DEF OnChain
  <2>3. Anc[seed][n - 1] = Prev[Anc[seed][n]]
    BY <1>1, <2>1, BlocksAssumption
  <2> QED
    BY <1>2, <2>2, <2>3 DEF GoodLink
<1> QED
  BY <1>2, <1>3

(* On a linked file everything below an ancestor of b is one too: the      *)
(* greatest row that were not would have a good link above it.             *)
LEMMA BelowFork ==
  ASSUME TypeOK, LinkedTo(size - 1), NEW b \in Block, NEW k \in 0 .. Num[b],
         InMain(Anc[b][k])
  PROVE  k < size /\ \A n \in 0 .. k : Row(n) = Anc[b][n]
<1>1. Num[b] \in 0 .. MaxNum /\ MaxNum \in Nat /\ size \in Nat
  BY NumType, Sizes DEF TypeOK
<1>2. k \in Heights /\ Row(k) = Anc[b][k]
  BY <1>1, AncNum DEF InMain, Heights
<1>3. k < size
  BY <1>1, <1>2, AncType DEF Row
<1> DEFINE bad == {j \in 0 .. k : Row(k - j) # Anc[b][k - j]}
<1>4. ASSUME bad = {}, NEW n \in 0 .. k PROVE Row(n) = Anc[b][n]
  <2>1. k - n \in 0 .. k /\ k - (k - n) = n
    BY <1>1
  <2> QED
    BY <1>4, <2>1
<1>5. ASSUME bad # {} PROVE FALSE
  <2>1. PICK j \in bad : \A i \in bad : j =< i
    <3>1. bad \subseteq Nat
      BY <1>1
    <3> HIDE DEF bad
    <3> QED
      BY <1>5, <3>1, LeastNumber
  <2>2. j \in 1 .. k
    BY <1>1, <1>2, <2>1
  <2> DEFINE n == k - j + 1
  <2>3. n \in 1 .. Num[b] /\ n =< size - 1 /\ n - 1 = k - j /\ n = k - (j - 1)
    BY <1>1, <1>3, <2>2
  <2>4. Row(n) = Anc[b][n]
    <3>1. j - 1 \notin bad /\ j - 1 \in 0 .. k
      BY <1>1, <2>1, <2>2
    <3> QED
      BY <2>3, <3>1
  <2>5. Prev[Row(n)] = Row(n - 1)
    BY <1>1, <2>3 DEF LinkedTo, GoodLink
  <2>6. Anc[b][n - 1] = Prev[Anc[b][n]]
    BY <2>3, BlocksAssumption
  <2>7. Row(k - j) = Anc[b][k - j]
    BY <2>3, <2>4, <2>5, <2>6
  <2> QED
    BY <2>1, <2>7
<1> QED
  BY <1>3, <1>4, <1>5

LEMMA LinkedWhole ==
  ASSUME TypeOK, LinkedTo(size - 1)
  PROVE  Whole
<1> SUFFICES ASSUME NEW n \in 0 .. size - 1 PROVE index[n] # Hole
  BY DEF Whole
<1> QED
  BY DEF LinkedTo, Row
-----------------------------------------------------------------------------
LEMMA CallInit == ASSUME Init PROVE CallInv
  BY DEF Init, CallInv, InTruncate, LinkedTo

LEMMA StartGenesisCall ==
  ASSUME TypeInv, CallInv, StartGenesis PROVE CallInv'
<1>1. /\ pc = "idle" /\ pc' = "put" /\ at' = 0 /\ lo' = lo /\ hi' = hi
      /\ UNCHANGED mainVars
  BY DEF StartGenesis, MayCall, Begin
<1>2. TypeOK /\ LinkedTo(size - 1) /\ ~Pending /\ size \in Nat
  BY <1>1 DEF TypeInv, TypeOK, CallInv, CallShape, Running
<1>3. Whole /\ Whole'
  BY <1>1, <1>2, LinkedWhole DEF mainVars, Whole, StartGenesis
<1>4. OnChain(0, at - 1)'
  BY <1>1 DEF OnChain
<1>5. ~Pending'
  BY <1>1, <1>2 DEF Pending
<1> QED
  BY <1>1, <1>3, <1>4, <1>5 DEF CallInv, InTruncate

(* A call that saves b and begins with row from, at most one above the     *)
(* row at which the chain of b is met.                                     *)
LEMMA BeginPutCall ==
  ASSUME TypeInv, CallInv, pc = "idle", UNCHANGED mainVars, UNCHANGED crashes,
         NEW b \in Block, NEW k \in 0 .. Num[b], InMain(Anc[b][k]),
         NEW from \in Int, from =< k + 1, NEW h,
         Begin("put", b, from, Num[b], h),
         lo' =< hi' => from = lo' - 1 /\ hi' = Num[b] - HotDelta - 1
  PROVE  CallInv'
<1>1. TypeOK /\ LinkedTo(size - 1)
  BY DEF TypeInv, CallInv
<1>2. pc' = "put" /\ at' = from /\ seed' = b
  BY DEF Begin
<1>3. k < size /\ \A n \in 0 .. k : Row(n) = Anc[b][n]
  BY <1>1, BelowFork
<1>4. Whole'
  BY <1>1, LinkedWhole DEF mainVars, Whole
<1>5. OnChain(0, at - 1)'
  <2>1. \A n \in 0 .. from - 1 : n \in 0 .. k
    BY NumType, Sizes
  <2>2. \A n : Row(n)' = Row(n)
    BY DEF mainVars, Row
  <2> QED
    BY <1>2, <1>3, <2>1, <2>2 DEF OnChain
<1>6. Pending' => at' = lo' - 1 /\ hi' = Num[seed'] - HotDelta - 1
  BY <1>2 DEF Pending
<1> QED
  BY <1>2, <1>4, <1>5, <1>6 DEF CallInv, InTruncate

LEMMA StartSaveToDBCall ==
  ASSUME TypeInv, CallInv, NEW b \in Block, StartSaveToDB(b) PROVE CallInv'
<1>1. PICK k \in 0 .. Num[b] : IsFork(b, k) /\ Begin("put", b, k + 1, Num[b], -1)
  BY DEF StartSaveToDB
<1>2. UNCHANGED mainVars /\ UNCHANGED << lo, hi, crashes >> /\ pc = "idle"
  BY DEF StartSaveToDB, MayCall
<1>3. ~ (lo' =< hi')
  BY <1>2 DEF TypeInv, CallShape, Pending, Running
<1>4. InMain(Anc[b][k]) /\ k + 1 \in Int /\ k + 1 =< k + 1
  BY <1>1 DEF IsFork
<1> QED
  BY <1>1, <1>2, <1>3, <1>4, BeginPutCall

LEMMA StartSaveChainCall ==
  ASSUME TypeInv, CallInv, NEW b \in Block, StartSaveChain(b) PROVE CallInv'
<1> DEFINE hot == Num[b] - HotDelta
<1>1. PICK k \in 0 .. Num[b] - 1 :
        /\ IsFork(b, k)
        /\ IF hot - 1 > k
             THEN Begin("put", b, k, Num[b], k) /\ lo' = k + 1 /\ hi' = hot - 1
             ELSE Begin("put", b, hot, Num[b], k) /\ lo' = 0 /\ hi' = -1
  BY DEF StartSaveChain
<1>2. UNCHANGED mainVars /\ UNCHANGED crashes /\ pc = "idle"
  BY DEF StartSaveChain, MayCall
<1>3. Num[b] \in Nat /\ HotDelta \in Nat /\ k \in 0 .. Num[b] /\ hot \in Int
  BY NumType, Sizes
<1>4. InMain(Anc[b][k])
  BY <1>1 DEF IsFork
<1>5. CASE hot - 1 > k
  <2>1. Begin("put", b, k, Num[b], k) /\ k = lo' - 1 /\ k \in Int /\ k =< k + 1
    BY <1>1, <1>3, <1>5
  <2>2. hi' = Num[b] - HotDelta - 1
    BY <1>1, <1>5
  <2> QED
    BY <1>2, <1>3, <1>4, <2>1, <2>2, BeginPutCall
<1>6. CASE ~ (hot - 1 > k)
  <2>1. Begin("put", b, hot, Num[b], k) /\ ~ (lo' =< hi') /\ hot =< k + 1
    BY <1>1, <1>3, <1>6
  <2> HIDE DEF hot
  <2> QED
    BY <1>2, <1>3, <1>4, <2>1, BeginPutCall
<1> QED
  BY <1>5, <1>6

(* The file is deleted, or a TruncateMain of a row of the file begins.     *)
LEMMA ClearCall ==
  ASSUME TypeInv, CallInv, pc = "idle", size' = 0, UNCHANGED << pc, lo, hi >>
  PROVE  CallInv'
<1>1. LinkedTo(size - 1)'
  BY DEF LinkedTo
<1> QED
  BY <1>1 DEF CallInv, InTruncate

LEMMA BeginCutCall ==
  ASSUME TypeInv, CallInv, pc = "idle", NEW n \in Int, n =< size - 1,
         Begin("cut", GenesisBlock(0), n, n, -1), UNCHANGED mainVars,
         UNCHANGED << lo, hi, crashes >>
  PROVE  CallInv'
<1>1. TypeOK /\ LinkedTo(size - 1) /\ ~Pending
  BY DEF TypeInv, CallInv, CallShape, Running
<1>2. pc' = "cut" /\ at' = n /\ last' = n
  BY DEF Begin
<1>3. size \in Nat /\ \A m \in 0 .. n : m \in 0 .. size - 1
  BY <1>1 DEF TypeOK
<1>4. LinkedTo(n)
  BY <1>1, <1>3 DEF LinkedTo
<1>5. LinkedTo(at)'
  BY <1>2, <1>4 DEF mainVars, LinkedTo, GoodLink, Row
<1>6. Whole'
  BY <1>1, LinkedWhole DEF mainVars, Whole
<1>7. ~Pending'
  BY <1>1 DEF Pending
<1> QED
  BY <1>2, <1>5, <1>6, <1>7 DEF CallInv, InTruncate

LEMMA StartTruncateCall ==
  ASSUME TypeInv, CallInv, NEW n \in Heights, StartTruncate(n) PROVE CallInv'
<1>1. pc = "idle" /\ UNCHANGED << lo, hi, crashes >> /\ n < MaxNumDB
  BY DEF StartTruncate, MayCall
<1>2. n \in Int /\ n =< size - 1
  BY <1>1 DEF TypeInv, TypeOK, MaxNumDB, Heights
<1>3. CASE n < GenesisCount
  BY <1>1, <1>3, ClearCall DEF StartTruncate
<1>4. CASE ~ (n < GenesisCount)
  BY <1>1, <1>2, <1>4, BeginCutCall DEF StartTruncate
<1> QED
  BY <1>3, <1>4
-----------------------------------------------------------------------------
ChainIsLinked ==
  \A top \in Int : TypeOK /\ top =< Num[seed] /\ OnChain(0, top) => LinkedTo(top)

LEMMA ChainIsLinkedNow == ChainIsLinked
  BY OnChainLinked DEF ChainIsLinked

LEMMA ChainIsLinkedNext == ChainIsLinked'
  BY ChainIsLinkedNow, PTL

(* Writing the row of number at leaves every other row as it is.           *)
LEMMA WriteRow ==
  ASSUME TypeOK, at =< Num[seed],
         index' = [index EXCEPT ![at] = Anc[seed][at]],
         size' = IF at < size THEN size ELSE at + 1
  PROVE  /\ \A n : n = at => Row(n)' = Anc[seed][n]
         /\ \A n : Row(n) # Hole /\ n # at => Row(n)' = Row(n)
<1>1. at \in Heights /\ at \in Nat /\ size \in Nat /\ index \in [Heights -> Block \cup {Hole}]
  BY Sizes DEF TypeOK, Heights
<1>2. at < size'
  BY <1>1
<1>3. ASSUME NEW n, Row(n) # Hole, n # at PROVE Row(n)' = Row(n)
  <2>1. n \in Heights /\ n < size /\ n \in Nat
    BY <1>3, Sizes DEF Row, Heights
  <2>2. n < size'
    BY <1>1, <2>1
  <2> QED
    BY <1>1, <1>3, <2>1, <2>2 DEF Row
<1>4. ASSUME NEW n, n = at PROVE Row(n)' = Anc[seed][n]
  BY <1>1, <1>2, <1>4 DEF Row
<1> QED
  BY <1>3, <1>4

(* The check of the parent succeeds, and the row joins the chain.          *)
LEMMA PutCall == ASSUME TypeInv, CallInv, Put PROVE CallInv'
<1>1. TypeOK /\ pc = "put" /\ OnChain(0, at - 1) /\ Whole
  BY DEF TypeInv, CallInv, Put
<1>2. /\ at \in Heights /\ at \in Nat /\ size \in Nat /\ seed \in Block
      /\ at =< Num[seed] /\ Num[seed] \in Nat
  <2>1. at \in Heights /\ size \in Nat /\ seed \in Block /\ last \in Heights
    BY <1>1, Sizes DEF TypeOK
  <2>2. at =< last /\ last = Num[seed]
    BY <1>1 DEF TypeInv, CallShape, Running
  <2> QED
    BY <2>1, <2>2, NumType, Sizes DEF Heights
<1>3. ~ (at > GenesisCount /\ Row(at - 1) # Anc[seed][at - 1])
  BY <1>1, <1>2, Sizes DEF OnChain
<1>4. /\ index' = [index EXCEPT ![at] = Anc[seed][at]]
      /\ size' = IF at < size THEN size ELSE at + 1
      /\ pc' = "cut" /\ UNCHANGED << seed, at, last, head, lo, hi >>
  BY <1>3 DEF Put
<1>5. OnChain(0, at)'
  <2>1. /\ \A n : n = at => Row(n)' = Anc[seed][n]
        /\ \A n : Row(n) # Hole /\ n # at => Row(n)' = Row(n)
    BY <1>1, <1>2, <1>4, WriteRow
  <2>2. ASSUME NEW n \in 0 .. at, n # at PROVE Row(n)' = Anc[seed][n]
    <3>1. n \in 0 .. at - 1 /\ n \in Heights
      BY <1>2, <2>2, Sizes DEF Heights
    <3>2. Row(n) = Anc[seed][n] /\ Row(n) # Hole
      BY <1>1, <1>2, <3>1, AncType DEF OnChain
    <3> QED
      BY <2>1, <2>2, <3>2
  <2> QED
    BY <1>4, <2>1, <2>2 DEF OnChain
<1>6. TypeOK'
  BY PutType DEF TypeInv
<1>7. LinkedTo(at)'
  BY <1>2, <1>4, <1>5, <1>6, ChainIsLinkedNext DEF ChainIsLinked
<1>8. Whole'
  <2> SUFFICES ASSUME crashes = 0, NEW n \in 0 .. size' - 1 PROVE index'[n] # Hole
    BY DEF Whole, Put, upVars
  <2>1. CASE n =< at
    <3>1. Row(n)' # Hole
      BY <1>2, <1>4, <1>7, <2>1 DEF LinkedTo
    <3> QED
      BY <3>1 DEF Row
  <2>2. CASE n > at
    <3>1. n \in 0 .. size - 1
      BY <1>2, <1>4, <2>2
    <3> QED
      BY <1>1, <1>2, <1>4, <2>2, <3>1 DEF Whole, TypeOK
  <2> QED
    BY <1>2, <2>1, <2>2
<1>9. Pending' => (at = lo - 1 /\ hi = Num[seed] - HotDelta - 1)'
  BY <1>1, <1>4 DEF CallInv, Pending
<1> QED
  BY <1>4, <1>5, <1>7, <1>8, <1>9 DEF CallInv, InTruncate

LEMMA CutCall == ASSUME TypeInv, CallInv, Cut PROVE CallInv'
<1>1. TypeOK /\ pc = "cut" /\ LinkedTo(at) /\ (at < last => OnChain(0, at))
  BY DEF TypeInv, CallInv, Cut, InTruncate
<1>2. /\ size' = at + 1 /\ pc' = "rec"
      /\ index' = [n \in Heights |-> IF n =< at THEN index[n] ELSE Hole]
      /\ UNCHANGED << seed, at, last, head, lo, hi >>
  BY DEF Cut
<1>3. at \in Nat /\ at =< MaxNum
  BY <1>1, Sizes DEF TypeOK, Heights
<1>4. ASSUME NEW n \in 0 .. at PROVE Row(n)' = Row(n)
  <2>1. Row(n) # Hole
    BY <1>1 DEF LinkedTo
  <2> QED
    BY <1>2, <1>3, <2>1 DEF Row
<1>5. LinkedTo(at)'
  <2> SUFFICES ASSUME NEW n \in 0 .. at PROVE (Row(n) # Hole /\ (n > 0 => GoodLink(n)))'
    BY <1>2 DEF LinkedTo
  <2>1. n > 0 => n - 1 \in 0 .. at
    BY <1>3
  <2> QED
    BY <1>1, <1>4, <2>1 DEF LinkedTo, GoodLink
<1>6. (at < last => OnChain(0, at))'
  BY <1>1, <1>2, <1>4 DEF OnChain
<1>7. Whole'
  <2> SUFFICES ASSUME NEW n \in 0 .. at PROVE index'[n] # Hole
    BY <1>2, <1>3 DEF Whole
  <2> QED
    BY <1>3, <1>5, <1>2 DEF LinkedTo, Row
<1>8. Pending' => (at = lo - 1 /\ hi = Num[seed] - HotDelta - 1)'
  BY <1>1, <1>2 DEF CallInv, InTruncate, Pending
<1> QED
  BY <1>2, <1>5, <1>6, <1>7, <1>8 DEF CallInv, InTruncate

LEMMA RecCall == ASSUME TypeInv, CallInv, Rec PROVE CallInv'
<1>1. /\ pc = "rec" /\ TypeOK /\ size = at + 1 /\ LinkedTo(at) /\ Whole
      /\ (at < last => OnChain(0, at))
  BY DEF TypeInv, CallInv, Rec, InTruncate
<1>2. UNCHANGED << index, size >> /\ maxRec' = at
  BY DEF Rec
<1>3. at \in Nat /\ lo \in Int /\ hi \in Int /\ last \in Nat /\ HotDelta \in Nat
  BY <1>1, Sizes DEF TypeOK, Heights
<1>4. \A n : Row(n)' = Row(n)
  BY <1>2 DEF Row
<1>5. CASE Pending
  <2>1. at = lo - 1 /\ hi = Num[seed] - HotDelta - 1 /\ lo =< hi /\ last = Num[seed]
    BY <1>1, <1>5 DEF TypeInv, CallInv, CallShape, InTruncate, Pending
  <2>2. pc' = "rows" /\ at' = BatchLow(hi) /\ UNCHANGED << seed, last, head, lo, hi >>
    BY <1>5 DEF Rec
  <2>3. OnChain(0, lo - 1)'
    BY <1>1, <1>3, <1>4, <2>1, <2>2 DEF OnChain
  <2>4. BatchLow(hi)' = BatchLow(hi) /\ BatchLow(hi) \in Int
    BY <1>3, <2>2, Sizes DEF BatchLow
  <2>5. OnChain(BatchLow(hi), at - 1)' /\ OnChain(hi + 1, Num[seed] - HotDelta - 1)'
    BY <1>3, <2>1, <2>2, <2>4 DEF OnChain
  <2>6. BatchLow(hi)' =< at' /\ maxRec' < lo' /\ size' =< Num[seed'] - HotDelta
    BY <1>1, <1>2, <1>3, <2>1, <2>2, <2>4
  <2> QED
    BY <2>2, <2>3, <2>5, <2>6 DEF CallInv, InTruncate
<1>6. CASE ~Pending /\ at < last
  <2>1. pc' = "put" /\ at' = at + 1 /\ UNCHANGED << seed, last, head, lo, hi >>
    BY <1>6 DEF Rec
  <2>2. OnChain(0, at - 1)' /\ Whole'
    BY <1>1, <1>2, <1>3, <1>4, <1>6, <2>1 DEF OnChain, Whole, Rec, upVars
  <2>3. ~Pending'
    BY <1>6, <2>1 DEF Pending
  <2> QED
    BY <2>1, <2>2, <2>3 DEF CallInv, InTruncate
<1>7. CASE ~Pending /\ ~ (at < last)
  <2>1. pc' = "idle"
    BY <1>7 DEF Rec, Return, Begin
  <2>2. size' - 1 = at
    BY <1>1, <1>2, <1>3
  <2>3. LinkedTo(size - 1)'
    BY <1>1, <1>4, <2>2 DEF LinkedTo, GoodLink
  <2> QED
    BY <2>1, <2>3 DEF CallInv, InTruncate
<1> QED
  BY <1>5, <1>6, <1>7

(* A bulk row joins the present batch; the last row of the last batch      *)
(* closes the gap between the head and the rows written before.            *)
LEMMA PutRowCall == ASSUME TypeInv, CallInv, PutRow PROVE CallInv'
<1> DEFINE top == Num[seed] - HotDelta - 1
<1>1. /\ pc = "rows" /\ TypeOK
      /\ OnChain(0, lo - 1) /\ OnChain(BatchLow(hi), at - 1) /\ OnChain(hi + 1, top)
      /\ BatchLow(hi) =< at /\ maxRec < lo /\ size =< Num[seed] - HotDelta
      /\ lo =< at /\ at =< hi
  BY DEF TypeInv, CallInv, CallShape, PutRow
<1>2. /\ at \in Nat /\ lo \in Int /\ hi \in Int /\ size \in Nat /\ maxRec \in Int
      /\ HotDelta \in Nat /\ seed \in Block /\ Num[seed] \in 0 .. MaxNum
      /\ Batch \in Nat /\ 0 < Batch /\ MaxNum \in Nat
  BY <1>1, NumType, Sizes DEF TypeOK, Heights
<1>3. Pending /\ hi =< top /\ 0 < lo
  BY <1>1, <1>2 DEF TypeInv, CallShape, Pending
<1>4. top \in Int /\ top =< Num[seed] /\ at =< Num[seed] /\ top =< MaxNum
  BY <1>1, <1>2, <1>3
<1>5. /\ index' = [index EXCEPT ![at] = Anc[seed][at]]
      /\ size' = IF at < size THEN size ELSE at + 1
      /\ UNCHANGED << maxRec, seed, last, head, lo >>
  BY DEF PutRow
<1>6. TypeOK'
  BY PutRowType DEF TypeInv
<1>7. ASSUME NEW n \in 0 .. top, n = at \/ Row(n) = Anc[seed][n]
      PROVE  Row(n)' = Anc[seed][n]
  <2>1. n \in Heights /\ Anc[seed][n] # Hole
    BY <1>2, <1>4, AncType DEF Heights
  <2> QED
    BY <1>1, <1>4, <1>5, <1>7, <2>1, WriteRow
<1>8. OnChain(0, lo - 1)'
  BY <1>1, <1>2, <1>3, <1>5, <1>7 DEF OnChain
<1>9. BatchLow(hi) \in Int /\ lo =< BatchLow(hi) /\ BatchLow(hi) =< hi
  BY <1>2, <1>3 DEF BatchLow, Pending
<1>10. size' =< Num[seed] - HotDelta /\ size' \in Int
  BY <1>1, <1>2, <1>3, <1>5
<1>11. CASE at < hi
  <2>1. pc' = "rows" /\ at' = at + 1 /\ hi' = hi
    BY <1>1, <1>11 DEF PutRow
  <2>2. BatchLow(hi)' = BatchLow(hi)
    BY <1>5, <2>1 DEF BatchLow
  <2>3. OnChain(BatchLow(hi), at - 1)'
    <3> SUFFICES ASSUME NEW n \in BatchLow(hi) .. at PROVE Row(n)' = Anc[seed][n]
      BY <1>2, <1>5, <2>1, <2>2 DEF OnChain
    <3>1. n \in 0 .. top /\ (n = at \/ n \in BatchLow(hi) .. at - 1)
      BY <1>1, <1>2, <1>3, <1>9
    <3> QED
      BY <1>1, <1>7, <3>1 DEF OnChain
  <2>4. OnChain(hi + 1, Num[seed] - HotDelta - 1)'
    BY <1>1, <1>2, <1>3, <1>5, <1>7, <2>1 DEF OnChain
  <2>5. BatchLow(hi)' =< at'
    BY <1>1, <1>2, <1>9, <2>1, <2>2
  <2> QED
    BY <1>1, <1>5, <1>8, <1>10, <2>1, <2>3, <2>4, <2>5 DEF CallInv, InTruncate
<1>12. ASSUME at = hi, NEW n \in BatchLow(hi) .. top PROVE Row(n)' = Anc[seed][n]
  <2>1. n \in 0 .. top /\ (n = at \/ n \in BatchLow(hi) .. at - 1 \/ n \in hi + 1 .. top)
    BY <1>2, <1>3, <1>9, <1>12
  <2> QED
    BY <1>1, <1>7, <2>1 DEF OnChain
<1>13. CASE at = hi /\ lo =< BatchLow(hi) - 1
  <2>1. pc' = "rows" /\ hi' = BatchLow(hi) - 1 /\ at' = BatchLow(hi')
    BY <1>1, <1>2, <1>13 DEF PutRow
  <2>2. BatchLow(hi)' = BatchLow(hi') /\ BatchLow(hi') \in Int
    BY <1>2, <1>5, <1>9, <2>1 DEF BatchLow
  <2>3. OnChain(BatchLow(hi), at - 1)'
    BY <2>1, <2>2 DEF OnChain
  <2>4. OnChain(hi + 1, Num[seed] - HotDelta - 1)'
    BY <1>5, <1>9, <1>12, <1>13, <2>1 DEF OnChain
  <2> QED
    BY <1>1, <1>5, <1>8, <1>10, <2>1, <2>2, <2>3, <2>4 DEF CallInv, InTruncate
<1>14. CASE at = hi /\ ~ (lo =< BatchLow(hi) - 1)
  <2>1. pc' = "cut" /\ hi' = BatchLow(hi) - 1 /\ at' = top
    BY <1>1, <1>2, <1>14 DEF PutRow
  <2>2. OnChain(0, at)'
    <3> SUFFICES ASSUME NEW n \in 0 .. top PROVE Row(n)' = Anc[seed][n]
      BY <1>5, <2>1 DEF OnChain
    <3>1. n \in 0 .. lo - 1 \/ n \in BatchLow(hi) .. top
      BY <1>2, <1>9, <1>14
    <3> QED
      BY <1>8, <1>5, <1>12, <1>14, <3>1 DEF OnChain
  <2>3. LinkedTo(at)'
    BY <1>4, <1>5, <1>6, <2>1, <2>2, ChainIsLinkedNext DEF ChainIsLinked
  <2>4. Whole'
    <3>1. \A n \in 0 .. top : index'[n] # Hole
      <4> SUFFICES ASSUME NEW n \in 0 .. top PROVE index'[n] # Hole
        OBVIOUS
      <4>1. Row(n)' # Hole
        BY <2>1, <2>3 DEF LinkedTo
      <4> QED
        BY <4>1 DEF Row
    <3>2. size' - 1 \in Int /\ size' - 1 =< top
      BY <1>2, <1>10
    <3>3. \A n \in 0 .. size' - 1 : n \in 0 .. top
      BY <1>4, <3>2
    <3> QED
      BY <3>1, <3>3 DEF Whole
  <2>5. ~Pending'
    BY <1>2, <1>5, <1>9, <1>14, <2>1 DEF Pending
  <2> QED
    BY <2>1, <2>2, <2>3, <2>4, <2>5 DEF CallInv, InTruncate
<1> QED
  BY <1>1, <1>2, <1>11, <1>13, <1>14
-----------------------------------------------------------------------------
(* The start check may find nothing, cut the file or delete it.            *)
LEMMA CheckStartedCall == ASSUME TypeInv, CallInv, CheckStarted PROVE CallInv'
<1>1. TypeOK /\ pc = "idle" /\ UNCHANGED << lo, hi, crashes >> /\ size \in Nat
  BY DEF TypeInv, TypeOK, CheckStarted
<1>2. PICK r \in ReverseResults :
        LET once == Forward(IF r < CheckBack THEN 0 ELSE r - CheckBack)
            good == Forward(once - CheckAgain) IN
        IF good < MaxNumDB
          THEN IF good - 1 < GenesisCount
                 THEN /\ index' = [m \in Heights |-> Hole] /\ size' = 0
                      /\ UNCHANGED << maxRec, pc, seed, at, last, head >>
                 ELSE /\ Begin("cut", GenesisBlock(0), good - 1, good - 1, -1)
                      /\ UNCHANGED mainVars
          ELSE UNCHANGED << mainVars, pc, seed, at, last, head >>
  BY DEF CheckStarted
<1> DEFINE once == Forward(IF r < CheckBack THEN 0 ELSE r - CheckBack)
           good == Forward(once - CheckAgain)
<1>3. r \in Int /\ CheckBack \in Int /\ CheckAgain \in Int /\ MaxNumDB \in Int
  BY <1>1, <1>2, Sizes, IndexAssumption DEF ReverseResults, MaxNumDB
<1>4. once \in Int
  BY <1>1, <1>3, ForwardType
<1> HIDE DEF once
<1>5. good \in Int /\ good =< MaxNumDB
  BY <1>1, <1>3, <1>4, ForwardType
<1>6. CASE good < MaxNumDB /\ good - 1 < GenesisCount
  <2>1. size' = 0 /\ UNCHANGED << pc, lo, hi >>
    BY <1>1, <1>2, <1>6 DEF once
  <2> QED
    BY <1>1, <2>1, ClearCall
<1>7. CASE good < MaxNumDB /\ ~ (good - 1 < GenesisCount)
  <2>1. Begin("cut", GenesisBlock(0), good - 1, good - 1, -1) /\ UNCHANGED mainVars
    BY <1>2, <1>7 DEF once
  <2>2. good - 1 \in Int /\ good - 1 =< size - 1
    BY <1>1, <1>5 DEF MaxNumDB
  <2> HIDE DEF good
  <2> QED
    BY <1>1, <2>1, <2>2, BeginCutCall
<1>8. CASE ~ (good < MaxNumDB)
  <2>1. UNCHANGED mainVars /\ pc' = "idle"
    BY <1>1, <1>2, <1>8 DEF once
  <2>2. LinkedTo(size - 1)'
    BY <1>1, <2>1 DEF CallInv, LinkedTo, GoodLink, Row, mainVars
  <2> QED
    BY <2>1, <2>2 DEF CallInv, InTruncate
<1> QED
  BY <1>6, <1>7, <1>8

LEMMA UnchangedCall ==
  ASSUME CallInv, UNCHANGED mainVars, UNCHANGED callVars, UNCHANGED crashes PROVE CallInv'
<1>1. \A n : Row(n)' = Row(n)
  BY DEF mainVars, Row
<1>2. \A top : LinkedTo(top)' = LinkedTo(top)
  BY <1>1 DEF LinkedTo, GoodLink
<1> QED
  BY <1>1 DEF CallInv, InTruncate, LinkedTo, GoodLink, OnChain, Whole, Pending, BatchLow,
              mainVars, callVars

UnkilledInv == TypeInv /\ (crashes = 0 => CallInv)

LEMMA UnkilledNext == ASSUME UnkilledInv, [Next]_vars PROVE UnkilledInv'
<1>1. TypeInv /\ TypeInv' /\ crashes \in Nat
  BY TypeNext, Sizes DEF UnkilledInv, TypeInv, TypeOK
<1>2. CASE Crash
  BY <1>1, <1>2 DEF Crash, UnkilledInv
<1>3. CASE ~Crash /\ crashes # 0
  <2>1. crashes' = crashes
    <3>1. CASE StartGenesis \/ (\E b \in Block : StartSaveToDB(b) \/ StartSaveChain(b))
               \/ (\E n \in Heights : StartTruncate(n))
      BY <3>1 DEF StartGenesis, StartSaveToDB, StartSaveChain, StartTruncate
    <3>2. CASE MainStep \/ Restart \/ CheckStarted
      BY <3>2 DEF MainStep, Put, Cut, Rec, PutRow, Restart, CheckStarted, upVars
    <3>3. CASE TxStep \/ TxRestart \/ UNCHANGED vars
      BY <3>3 DEF TxStep, TxFirst, TxPeek, TxApply, TxCheckAct, TxRestart, vars, upVars
    <3> QED
      BY <1>3, <3>1, <3>2, <3>3 DEF Next
  <2> QED
    BY <1>1, <1>3, <2>1 DEF UnkilledInv
<1>4. CASE ~Crash /\ crashes = 0
  <2>1. CallInv
    BY <1>4 DEF UnkilledInv
  <2>2. CASE StartGenesis \/ (\E b \in Block : StartSaveToDB(b) \/ StartSaveChain(b))
             \/ (\E n \in Heights : StartTruncate(n))
    BY <1>1, <2>1, <2>2, StartGenesisCall, StartSaveToDBCall, StartSaveChainCall,
       StartTruncateCall DEF UnkilledInv
  <2>3. CASE MainStep
    BY <1>1, <2>1, <2>3, PutCall, CutCall, RecCall, PutRowCall DEF MainStep, UnkilledInv
  <2>4. ~Restart
    BY <2>1 DEF CallInv, Restart
  <2>5. CASE CheckStarted
    BY <1>1, <2>1, <2>5, CheckStartedCall DEF UnkilledInv
  <2>6. CASE TxStep \/ TxRestart \/ UNCHANGED vars
    <3>1. UNCHANGED mainVars /\ UNCHANGED callVars /\ UNCHANGED crashes
      BY <2>6 DEF TxStep, TxFirst, TxPeek, TxApply, TxCheckAct, TxRestart, vars, upVars
    <3> QED
      BY <1>1, <2>1, <3>1, UnchangedCall DEF UnkilledInv
  <2> QED
    BY <1>4, <2>2, <2>3, <2>4, <2>5, <2>6 DEF Next
<1> QED
  BY <1>2, <1>3, <1>4

LEMMA Unkilled == Spec => []UnkilledInv
<1>1. Init => UnkilledInv
  BY TypeInit, CallInit DEF UnkilledInv
<1>2. UnkilledInv /\ [Next]_vars => UnkilledInv'
  BY UnkilledNext
<1> QED
  BY <1>1, <1>2, PTL DEF Spec

(* Whatever calls follow each other, in whatever order of numbers the bulk *)
(* rows are written, the rows are one chain whenever MAIN is between two   *)
(* calls: only a kill can leave work to the start check.                   *)
THEOREM UnkilledMainLinked == Spec => [](crashes = 0 => MainLinked)
<1>1. UnkilledInv => (crashes = 0 => MainLinked)
  BY DEF UnkilledInv, CallInv, MainLinked, MaxNumDB
<1> QED
  BY <1>1, Unkilled, PTL

(* WriteBlockMain's check of the parent never ends a call half done, so    *)
(* the recovery in SaveChainToDB's caller is needed after a kill only.     *)
THEOREM UnkilledCallNeverFails == Spec => [](crashes = 0 => CallNeverFails)
<1>1. UnkilledInv => (crashes = 0 => CallNeverFails)
  <2> SUFFICES ASSUME TypeInv, CallInv, pc = "put", at > GenesisCount
               PROVE  Row(at - 1) = Anc[seed][at - 1]
    BY DEF UnkilledInv, CallNeverFails
  <2>1. at - 1 \in 0 .. at - 1
    BY Sizes DEF TypeInv, TypeOK, Heights
  <2> QED
    BY <2>1 DEF CallInv, OnChain
<1> QED
  BY <1>1, Unkilled, PTL

(* A reader that looks between any two system calls of MAIN finds a block  *)
(* at every number the record at row -1 announces.                         *)
THEOREM UnkilledReaderNoHole == Spec => []ReaderNoHole
<1>1. UnkilledInv => ReaderNoHole
  <2> SUFFICES ASSUME TypeInv, CallInv PROVE ReaderNoHole
    BY DEF UnkilledInv, ReaderNoHole
  <2>1. size \in Nat /\ maxRec \in Int /\ lo \in Int /\ seed \in Block /\ TypeOK
    BY DEF TypeInv, TypeOK
  <2>2. CASE pc = "rows"
    <3> SUFFICES ASSUME NEW n \in 0 .. ReaderMax, n < size PROVE index[n] # Hole
      BY DEF ReaderNoHole
    <3>1. n \in 0 .. lo - 1 /\ n \in Heights
      <4>1. maxRec < lo
        BY <2>2 DEF CallInv
      <4>2. ReaderMax \in Int /\ (n =< ReaderMax => n < lo)
        BY <2>1, <4>1 DEF ReaderMax
      <4>3. size =< MaxNum + 1
        BY <2>1, Sizes DEF TypeOK
      <4> QED
        BY <2>1, <4>2, <4>3, Sizes DEF Heights
    <3>2. Row(n) = Anc[seed][n] /\ Row(n) # Hole
      BY <2>1, <2>2, <3>1, AncType DEF CallInv, OnChain
    <3> QED
      BY <3>2 DEF Row
  <2>3. CASE pc # "rows"
    <3>1. Whole
      BY <2>1, <2>3, LinkedWhole DEF CallInv, InTruncate, TypeInv, TypeOK
    <3> QED
      BY <2>1, <3>1 DEF Whole, ReaderNoHole, ReaderMax
  <2> QED
    BY <2>2, <2>3
<1> QED
  BY <1>1, Unkilled, PTL
-----------------------------------------------------------------------------
(***************************************************************************)
(* The rows of the file after kills and the start check.                   *)
(***************************************************************************)
(* The blocks every node makes itself are below everything else: once the  *)
(* file has as many rows, none of them is missing again.                   *)
GenesisRows ==
  /\ \A n \in 0 .. GenesisCount - 1 : n < size => index[n] # Hole
  /\ pc = "put" => at =< size
  /\ pc = "cut" => at < size \/ size >= GenesisCount
  /\ pc = "rec" => size = at + 1
  /\ pc = "rows" => size >= GenesisCount
  /\ Pending => lo >= GenesisCount /\ (pc # "rows" => at = lo - 1)

(* The chain of a block with a higher number meets a file that holds them  *)
(* not below the last of them.                                             *)
LEMMA ForkAboveGenesis ==
  ASSUME TypeOK, RowsNumbered, GenesisRows, size >= GenesisCount,
         NEW b \in Block, Num[b] >= GenesisCount, NEW k \in 0 .. Num[b], IsFork(b, k)
  PROVE  k >= GenesisCount - 1
<1> DEFINE g == GenesisCount - 1
<1>1. /\ GenesisCount \in Nat /\ 0 < GenesisCount /\ Num[b] \in 0 .. MaxNum /\ MaxNum \in Nat
      /\ size \in Nat /\ index \in [Heights -> Block \cup {Hole}]
  BY NumType, Sizes DEF TypeOK
<1>2. g \in 0 .. Num[b] /\ g \in Heights /\ g < size /\ g < GenesisCount
  BY <1>1 DEF Heights
<1>3. index[g] # Hole /\ index[g] \in Block /\ Num[index[g]] = g
  BY <1>1, <1>2 DEF GenesisRows, RowsNumbered
<1>4. Anc[b][g] \in Block /\ Num[Anc[b][g]] = g
  BY <1>2, AncNum, AncType
<1> HIDE DEF g
<1>5. index[g] = Anc[b][g]
  BY <1>2, <1>3, <1>4, GenesisUnique
<1>6. InMain(Anc[b][g])
  BY <1>2, <1>4, <1>5 DEF InMain, Row
<1>7. ~ (g \in k + 1 .. Num[b])
  BY <1>6 DEF IsFork
<1> QED
  BY <1>1, <1>2, <1>7 DEF g

LEMMA GenesisRowsInit == ASSUME Init PROVE GenesisRows
  BY Sizes DEF Init, GenesisRows, Pending

(* Calls begin.                                                            *)
LEMMA BeginGenesisRows ==
  ASSUME TypeInv, RowsNumbered, GenesisRows,
         StartGenesis \/ (\E b \in Block : StartSaveToDB(b) \/ StartSaveChain(b))
  PROVE  GenesisRows'
<1>1. TypeOK /\ size \in Nat /\ pc = "idle" /\ ~Pending /\ UNCHANGED mainVars
  BY DEF TypeInv, TypeOK, CallShape, Running, StartGenesis, StartSaveToDB, StartSaveChain, MayCall
<1>2. pc' = "put" /\ \A n \in 0 .. GenesisCount - 1 : n < size' => index'[n] # Hole
  BY <1>1 DEF StartGenesis, StartSaveToDB, StartSaveChain, Begin, GenesisRows, mainVars
<1>3. CASE StartGenesis
  BY <1>1, <1>2, <1>3 DEF StartGenesis, Begin, GenesisRows, Pending, mainVars
<1>4. ASSUME NEW b \in Block, StartSaveToDB(b) PROVE GenesisRows'
  <2>1. PICK k \in 0 .. Num[b] : IsFork(b, k) /\ Begin("put", b, k + 1, Num[b], -1)
    BY <1>4 DEF StartSaveToDB
  <2>2. InMain(Anc[b][k]) /\ Anc[b][k] # Hole /\ Num[Anc[b][k]] = k
    <3>1. k \in Heights
      BY NumType, Sizes DEF Heights
    <3> QED
      BY <2>1, <3>1, AncType, AncNum DEF IsFork
  <2>3. k < size /\ at' = k + 1 /\ size' = size
    BY <1>1, <2>1, <2>2 DEF InMain, Row, Begin, mainVars
  <2>4. ~Pending'
    BY <1>1, <1>4 DEF StartSaveToDB, Pending
  <2> QED
    BY <1>1, <1>2, <2>3, <2>4, NumType, Sizes DEF GenesisRows
<1>5. ASSUME NEW b \in Block, StartSaveChain(b) PROVE GenesisRows'
  <2> DEFINE hot == Num[b] - HotDelta
  <2>1. PICK k \in 0 .. Num[b] - 1 :
          /\ IsFork(b, k)
          /\ IF hot - 1 > k
               THEN Begin("put", b, k, Num[b], k) /\ lo' = k + 1 /\ hi' = hot - 1
               ELSE Begin("put", b, hot, Num[b], k) /\ lo' = 0 /\ hi' = -1
    BY <1>5 DEF StartSaveChain
  <2>2. /\ Num[b] \in 0 .. MaxNum /\ MaxNum \in Nat /\ HotDelta \in Nat /\ GenesisCount \in Nat
        /\ k \in 0 .. Num[b] /\ k \in Heights
        /\ size >= GenesisCount /\ Num[b] >= GenesisCount
    BY <1>5, NumType, Sizes DEF StartSaveChain, Heights
  <2>3. InMain(Anc[b][k]) /\ Anc[b][k] # Hole /\ Num[Anc[b][k]] = k
    BY <2>1, <2>2, AncType, AncNum DEF IsFork
  <2>4. k < size /\ size' = size
    BY <1>1, <2>3 DEF InMain, Row, mainVars
  <2>5. k >= GenesisCount - 1
    BY <1>1, <2>1, <2>2, ForkAboveGenesis
  <2>6. CASE hot - 1 > k
    <3>1. at' = k /\ lo' = k + 1
      BY <2>1, <2>6 DEF Begin
    <3> QED
      BY <1>1, <1>2, <2>2, <2>4, <2>5, <3>1 DEF GenesisRows
  <2>7. CASE ~ (hot - 1 > k)
    <3>1. at' = hot /\ hot =< k + 1 /\ lo' = 0 /\ hi' = -1
      BY <2>1, <2>2, <2>7 DEF Begin
    <3>2. hot \in Int
      BY <2>2
    <3> HIDE DEF hot
    <3> QED
      BY <1>1, <1>2, <2>2, <2>4, <3>1, <3>2 DEF GenesisRows, Pending
  <2> QED
    BY <2>6, <2>7
<1> QED
  BY <1>3, <1>4, <1>5

(* The system calls of a call.                                             *)
LEMMA PutGenesisRows == ASSUME TypeInv, GenesisRows, Put PROVE GenesisRows'
<1>1. /\ TypeOK /\ pc = "put" /\ at =< size /\ at \in 0 .. MaxNum /\ size \in Nat /\ seed \in Block
      /\ MaxNum \in Nat /\ GenesisCount \in Nat /\ GenesisCount =< MaxNum /\ at \in Heights
      /\ head \in -1 .. MaxNum /\ index \in [Heights -> Block \cup {Hole}]
  BY Sizes DEF TypeInv, TypeOK, GenesisRows, Put, Heights
<1>2. CASE at > GenesisCount /\ Row(at - 1) # Anc[seed][at - 1]
  <2>1. UNCHANGED << index, size >> /\ size >= GenesisCount
    BY <1>1, <1>2 DEF Put
  <2>2. lo' = 0 /\ hi' = -1 /\ pc' \in {"idle", "cut"}
    BY <1>2 DEF Put, Return, Begin
  <2> QED
    BY <2>1, <2>2 DEF GenesisRows, Pending
<1>3. CASE ~ (at > GenesisCount /\ Row(at - 1) # Anc[seed][at - 1])
  <2>1. /\ index' = [index EXCEPT ![at] = Anc[seed][at]]
        /\ size' = IF at < size THEN size ELSE at + 1
        /\ pc' = "cut" /\ UNCHANGED << seed, at, last, head, lo, hi >>
    BY <1>3 DEF Put
  <2>2. ASSUME NEW n \in 0 .. GenesisCount - 1, n < size' PROVE index'[n] # Hole
    <3>1. n \in Heights /\ (n = at \/ n < size)
      BY <1>1, <2>1, <2>2 DEF Heights
    <3> QED
      BY <1>1, <2>1, <2>2, <3>1, AncType DEF GenesisRows
  <2>3. Pending' = Pending
    BY <2>1 DEF Pending
  <2> QED
    BY <1>1, <2>1, <2>2, <2>3 DEF GenesisRows
<1> QED
  BY <1>2, <1>3

LEMMA CutGenesisRows == ASSUME TypeInv, GenesisRows, Cut PROVE GenesisRows'
<1>1. /\ pc = "cut" /\ pc' = "rec" /\ at \in 0 .. MaxNum /\ size \in Nat
      /\ MaxNum \in Nat /\ GenesisCount \in Nat /\ GenesisCount =< MaxNum
      /\ size' = at + 1 /\ UNCHANGED << at, lo, hi >>
      /\ index' = [n \in Heights |-> IF n =< at THEN index[n] ELSE Hole]
  BY Sizes DEF TypeInv, TypeOK, Cut, Heights
<1>2. ASSUME NEW n \in 0 .. GenesisCount - 1, n < size' PROVE index'[n] # Hole
  <2>1. n \in Heights /\ n =< at /\ n < size
    BY <1>1, <1>2 DEF Heights, GenesisRows
  <2> QED
    BY <1>1, <2>1 DEF GenesisRows
<1>3. Pending' = Pending
  BY <1>1 DEF Pending
<1> QED
  BY <1>1, <1>2, <1>3 DEF GenesisRows

LEMMA RecGenesisRows == ASSUME TypeInv, GenesisRows, Rec PROVE GenesisRows'
<1>1. /\ pc = "rec" /\ size = at + 1 /\ at \in Nat /\ UNCHANGED << index, size >>
      /\ GenesisCount \in Nat /\ lo \in Int /\ hi \in Int
  BY Sizes DEF TypeInv, TypeOK, Rec, GenesisRows, Heights
<1>2. CASE Pending
  <2>1. pc' = "rows" /\ lo' = lo /\ hi' = hi /\ lo >= GenesisCount /\ at = lo - 1
    BY <1>1, <1>2 DEF Rec, GenesisRows
  <2> QED
    BY <1>1, <2>1 DEF GenesisRows
<1>3. CASE ~Pending /\ at < last
  <2>1. pc' = "put" /\ at' = at + 1 /\ lo' = lo /\ hi' = hi
    BY <1>3 DEF Rec
  <2> QED
    BY <1>1, <1>3, <2>1 DEF GenesisRows, Pending
<1>4. CASE ~Pending /\ ~ (at < last)
  <2>1. pc' = "idle" /\ lo' = 0 /\ hi' = -1
    BY <1>4 DEF Rec, Return, Begin
  <2> QED
    BY <1>1, <2>1 DEF GenesisRows, Pending
<1> QED
  BY <1>2, <1>3, <1>4

LEMMA PutRowGenesisRows == ASSUME TypeInv, GenesisRows, PutRow PROVE GenesisRows'
<1>1. /\ TypeOK /\ pc = "rows" /\ size >= GenesisCount /\ size \in Nat /\ at \in 0 .. MaxNum
      /\ at \in Heights /\ seed \in Block /\ index \in [Heights -> Block \cup {Hole}]
      /\ lo \in Int /\ hi \in Int /\ lo =< at /\ at =< hi /\ lo >= GenesisCount
      /\ GenesisCount \in Nat /\ GenesisCount =< MaxNum /\ MaxNum \in Nat
  BY Sizes DEF TypeInv, TypeOK, CallShape, Pending, PutRow, GenesisRows, Heights
<1>2. /\ index' = [index EXCEPT ![at] = Anc[seed][at]]
      /\ size' = IF at < size THEN size ELSE at + 1
      /\ lo' = lo
  BY DEF PutRow
<1>3. size' \in Nat /\ size' >= GenesisCount
  BY <1>1, <1>2
<1>4. ASSUME NEW n \in 0 .. GenesisCount - 1 PROVE index'[n] # Hole
  <2>1. n \in Heights /\ n < size
    BY <1>1 DEF Heights
  <2> QED
    BY <1>1, <1>2, <2>1, AncType DEF GenesisRows
<1>5. pc' = "rows" \/ (pc' = "cut" /\ ~Pending')
  BY <1>1, <1>2 DEF PutRow, Pending
<1> QED
  BY <1>1, <1>2, <1>3, <1>4, <1>5 DEF GenesisRows

LEMMA GenesisRowsNext ==
  ASSUME TypeInv, RowsNumbered, GenesisRows, [Next]_vars PROVE GenesisRows'
<1>1. TypeOK /\ size \in Nat /\ (pc \in {"idle", "down"} => ~Pending)
  BY DEF TypeInv, TypeOK, CallShape, Running
<1>2. ASSUME UNCHANGED << index, size, lo, hi >>, pc \in {"idle", "down"}, pc' \in {"idle", "down"}
      PROVE  GenesisRows'
  BY <1>1, <1>2 DEF GenesisRows, Pending
<1>3. ASSUME size' = 0, UNCHANGED << pc, lo, hi >>, pc = "idle" PROVE GenesisRows'
  BY <1>1, <1>3 DEF GenesisRows, Pending
<1>4. ASSUME NEW n \in Int, n < size, pc = "idle", Begin("cut", GenesisBlock(0), n, n, -1),
             UNCHANGED mainVars, UNCHANGED << lo, hi >>
      PROVE  GenesisRows'
  BY <1>1, <1>4 DEF GenesisRows, Pending, Begin, mainVars
<1>5. ASSUME NEW n \in Heights, StartTruncate(n) PROVE GenesisRows'
  <2>1. n \in Int /\ n < size /\ pc = "idle" /\ UNCHANGED << lo, hi >>
    BY <1>1, <1>5, Sizes DEF StartTruncate, MayCall, MaxNumDB, Heights
  <2> QED
    BY <1>3, <1>4, <1>5, <2>1 DEF StartTruncate
<1>6. CASE Crash
  <2>1. pc' = "down" /\ lo' = 0 /\ hi' = -1 /\ UNCHANGED << index, size >>
    BY <1>6 DEF Crash, Return, Begin, mainVars
  <2> QED
    BY <2>1 DEF GenesisRows, Pending
<1>7. CASE Restart
  BY <1>2, <1>7 DEF Restart, mainVars
<1>8. CASE CheckStarted
  <2>1. pc = "idle" /\ UNCHANGED << lo, hi >>
    BY <1>8 DEF CheckStarted
  <2>2. \/ size' = 0 /\ pc' = pc
        \/ \E f \in Int : f =< MaxNumDB /\ Begin("cut", GenesisBlock(0), f - 1, f - 1, -1) /\ UNCHANGED mainVars
        \/ UNCHANGED << mainVars, pc >>
    <3>1. PICK r \in ReverseResults :
            LET once == Forward(IF r < CheckBack THEN 0 ELSE r - CheckBack)
                good == Forward(once - CheckAgain) IN
            IF good < MaxNumDB
              THEN IF good - 1 < GenesisCount
                     THEN /\ index' = [m \in Heights |-> Hole] /\ size' = 0
                          /\ UNCHANGED << maxRec, pc, seed, at, last, head >>
                     ELSE /\ Begin("cut", GenesisBlock(0), good - 1, good - 1, -1)
                          /\ UNCHANGED mainVars
              ELSE UNCHANGED << mainVars, pc, seed, at, last, head >>
      BY <1>8 DEF CheckStarted
    <3> DEFINE once == Forward(IF r < CheckBack THEN 0 ELSE r - CheckBack)
               good == Forward(once - CheckAgain)
    <3>2. r \in Int /\ CheckBack \in Int /\ CheckAgain \in Int
      BY <1>1, Sizes, IndexAssumption DEF ReverseResults, MaxNumDB
    <3>3. once \in Int
      BY <1>1, <3>2, ForwardType
    <3> HIDE DEF once
    <3>4. good \in Int /\ good =< MaxNumDB
      BY <1>1, <3>2, <3>3, ForwardType
    <3> HIDE DEF good
    <3> QED
      BY <3>1, <3>4 DEF once, good
  <2> QED
    <3>1. CASE size' = 0 /\ pc' = pc
      BY <1>3, <2>1, <3>1
    <3>2. ASSUME NEW f \in Int, f =< MaxNumDB, UNCHANGED mainVars,
                 Begin("cut", GenesisBlock(0), f - 1, f - 1, -1)
          PROVE  GenesisRows'
      <4>1. f - 1 \in Int /\ f - 1 < size
        BY <1>1, <3>2 DEF MaxNumDB
      <4> QED
        BY <1>4, <2>1, <3>2, <4>1
    <3>3. CASE UNCHANGED << mainVars, pc >>
      BY <1>2, <2>1, <3>3 DEF mainVars
    <3> QED
      BY <2>2, <3>1, <3>2, <3>3
<1>9. CASE TxStep \/ TxRestart \/ UNCHANGED vars
  <2>1. UNCHANGED << index, size, pc, at, lo, hi >>
    BY <1>9 DEF TxStep, TxFirst, TxPeek, TxApply, TxCheckAct, TxRestart, vars, mainVars, callVars
  <2> QED
    BY <2>1 DEF GenesisRows, Pending
<1> QED
  BY <1>5, <1>6, <1>7, <1>8, <1>9, BeginGenesisRows, PutGenesisRows, CutGenesisRows, RecGenesisRows,
     PutRowGenesisRows DEF Next, MainStep

(* The rows every node makes itself are one chain.                         *)
LEMMA GenesisLinked ==
  ASSUME TypeOK, RowsNumbered, GenesisRows, NEW top \in Int, top < GenesisCount, top < size
  PROVE  LinkedTo(top)
<1>1. size \in Nat /\ GenesisCount \in Nat /\ GenesisCount =< MaxNum /\ MaxNum \in Nat
  BY Sizes DEF TypeOK
<1>2. ASSUME NEW n \in 0 .. top
      PROVE  Row(n) # Hole /\ Row(n) \in Block /\ Num[Row(n)] = n
  <2>1. n \in 0 .. GenesisCount - 1 /\ n < size /\ n \in Heights
    BY <1>1 DEF Heights
  <2> QED
    BY <2>1 DEF GenesisRows, RowsNumbered, TypeOK, Row
<1>3. ASSUME NEW n \in 0 .. top, n > 0 PROVE GoodLink(n)
  <2>1. n - 1 \in 0 .. top
    BY <1>3
  <2>2. Prev[Row(n)] \in Block /\ Num[Prev[Row(n)]] = n - 1
    BY <1>2, <1>3, PrevNum
  <2>3. Num[Prev[Row(n)]] < GenesisCount /\ Num[Prev[Row(n)]] = Num[Row(n - 1)]
    BY <1>1, <1>2, <2>1, <2>2
  <2>4. Prev[Row(n)] = Row(n - 1)
    BY <1>2, <2>1, <2>2, <2>3, GenesisUnique
  <2> QED
    BY <1>2, <2>1, <2>4 DEF GoodLink
<1> QED
  BY <1>2, <1>3 DEF LinkedTo

(* What the forward pass has passed: rows that are there and, but for the  *)
(* first, linked to the row below.                                         *)
LEMMA ForwardPassed ==
  ASSUME TypeOK, NEW from \in Int, NEW first \in Int, NEW n \in first .. Forward(from),
         first = IF from < GenesisCount - 1 THEN GenesisCount - 1 ELSE from
  PROVE  Row(n) # Hole /\ (n > first => GoodLink(n))
<1> DEFINE bad == {m \in first .. MaxNumDB : Row(m) = Hole \/ (m > first /\ ~GoodLink(m))}
<1>1. MaxNumDB \in Int /\ first \in Nat
  BY BlocksAssumption DEF TypeOK, MaxNumDB
<1>2. bad \subseteq Nat
  BY <1>1
<1>3. Forward(from) = IF bad = {} THEN MaxNumDB ELSE (CHOOSE f \in bad : \A m \in bad : f =< m) - 1
  BY DEF Forward
<1>4. n =< MaxNumDB /\ n \notin bad
  <2>1. CASE bad = {}
    BY <1>1, <1>3, <2>1
  <2>2. CASE bad # {}
    <3>1. PICK f \in bad : f = (CHOOSE g \in bad : \A m \in bad : g =< m) /\ \A m \in bad : f =< m
      <4> HIDE DEF bad
      <4> QED
        BY <1>2, <2>2, LeastNumber
    <3>2. Forward(from) = f - 1 /\ f =< MaxNumDB /\ f \in Nat
      BY <1>1, <1>2, <1>3, <2>2, <3>1
    <3> HIDE DEF bad
    <3> QED
      BY <1>1, <3>1, <3>2
  <2> QED
    BY <2>1, <2>2
<1> QED
  BY <1>1, <1>4

(* The pass leaves one chain if what lies below its first row is one and   *)
(* the first row belongs to it.                                            *)
LEMMA ForwardLinks ==
  ASSUME TypeOK, NEW from \in Int, NEW first \in Int,
         first = IF from < GenesisCount - 1 THEN GenesisCount - 1 ELSE from,
         first =< Forward(from) => LinkedTo(first),
         LinkedTo(first - 1) \/ LinkedTo(Forward(from))
  PROVE  LinkedTo(Forward(from))
<1>1. PICK f \in Int : f = Forward(from)
  BY ForwardType
<1>2. \A n \in first .. f : Row(n) # Hole /\ (n > first => GoodLink(n))
  BY <1>1, ForwardPassed
<1>3. CASE f < first
  BY <1>1, <1>3 DEF LinkedTo
<1>4. CASE first =< f
  <2>1. LinkedTo(first)
    BY <1>1, <1>4
  <2>2. ASSUME NEW n \in 0 .. f PROVE Row(n) # Hole /\ (n > 0 => GoodLink(n))
    BY <1>2, <2>1 DEF LinkedTo
  <2>3. LinkedTo(f)
    BY <2>2 DEF LinkedTo
  <2> QED
    BY <1>1, <2>3
<1> QED
  BY <1>1, <1>3, <1>4

(* What kills have left wrong is among the rows the start check looks at:  *)
(* the lowest wrong row is at most CheckRun + CheckBack rows below the     *)
(* last one, or one more if the row is missing.                            *)
FaultsInReach ==
  LET top == MaxNumDB - CheckRun - CheckBack
  IN  pc = "idle" /\ early >= 0 /\ crashes > 0 =>
        LinkedTo(top - 1) /\ (Row(top) # Hole => LinkedTo(top))

(* Then the two passes of the check find the lowest wrong row.             *)
LEMMA CheckFinds ==
  ASSUME TypeOK, RowsNumbered, GenesisRows, NEW r \in ReverseResults,
         LET top == MaxNumDB - CheckRun - CheckBack
         IN  LinkedTo(top - 1) /\ (Row(top) # Hole => LinkedTo(top)),
         NEW once \in Int, once = Forward(IF r < CheckBack THEN 0 ELSE r - CheckBack)
  PROVE  LinkedTo(Forward(once - CheckAgain))
<1> DEFINE top == MaxNumDB - CheckRun - CheckBack
<1>1. /\ MaxNumDB \in Int /\ CheckRun \in Nat /\ CheckBack \in Nat /\ CheckAgain \in Nat
      /\ GenesisCount \in Nat /\ 0 < GenesisCount /\ r \in Int /\ MaxNumDB = size - 1 /\ size \in Nat
      /\ r = 0 \/ r =< MaxNumDB - CheckRun
  BY Sizes, IndexAssumption DEF TypeOK, MaxNumDB, ReverseResults
<1>2. PICK from \in Int : from = IF r < CheckBack THEN 0 ELSE r - CheckBack
  <2>1. (IF r < CheckBack THEN 0 ELSE r - CheckBack) \in Int
    BY <1>1
  <2> QED
    BY <2>1
<1>3. PICK first \in Int : first = IF from < GenesisCount - 1 THEN GenesisCount - 1 ELSE from
  BY <1>1
<1>4. once = Forward(from) /\ once =< MaxNumDB
  BY <1>2, ForwardType
<1>5. LinkedTo(first - 1) \/ LinkedTo(once)
  <2>1. CASE first = GenesisCount - 1
    <3>1. CASE first - 1 =< MaxNumDB
      <4>1. first - 1 < GenesisCount /\ first - 1 < size /\ first - 1 \in Int
        BY <1>1, <2>1, <3>1
      <4> QED
        BY <4>1, GenesisLinked
    <3>2. CASE ~ (first - 1 =< MaxNumDB)
      <4>1. once < GenesisCount /\ once < size
        BY <1>1, <1>4, <2>1, <3>2
      <4> QED
        BY <4>1, GenesisLinked
    <3> QED
      BY <3>1, <3>2
  <2>2. CASE first # GenesisCount - 1
    <3>1. first =< top /\ top \in Int
      BY <1>1, <1>2, <1>3, <2>2
    <3> HIDE DEF top
    <3>2. \A n \in 0 .. first - 1 : n \in 0 .. top - 1
      BY <3>1
    <3> QED
      BY <3>2 DEF LinkedTo, top
  <2> QED
    BY <2>1, <2>2
<1>6. first =< once => LinkedTo(first)
  <2> SUFFICES ASSUME first =< once PROVE LinkedTo(first)
    OBVIOUS
  <2>1. CASE first = GenesisCount - 1
    <3>1. first < GenesisCount /\ first < size
      BY <1>1, <1>4, <2>1
    <3> QED
      BY <3>1, GenesisLinked
  <2>2. CASE first # GenesisCount - 1
    <3>1. first =< top /\ top \in Int
      BY <1>1, <1>2, <1>3, <2>2
    <3>2. Row(first) # Hole
      BY <1>3, <1>4, ForwardPassed
    <3> HIDE DEF top
    <3>3. CASE first = top
      BY <3>2, <3>3 DEF top
    <3>4. CASE first < top
      <4>1. \A n \in 0 .. first : n \in 0 .. top - 1
        BY <3>1, <3>4
      <4> QED
        BY <4>1 DEF LinkedTo, top
    <3> QED
      BY <3>1, <3>3, <3>4
  <2> QED
    BY <2>1, <2>2
<1>7. LinkedTo(once)
  BY <1>3, <1>4, <1>5, <1>6, ForwardLinks
<1>8. PICK back \in Int : back = once - CheckAgain
  BY <1>1
<1>9. PICK again \in Int : again = IF back < GenesisCount - 1 THEN GenesisCount - 1 ELSE back
  BY <1>1
<1>10. PICK good \in Int : good = Forward(back) /\ good =< MaxNumDB
  BY ForwardType
<1>11. CASE again =< once
  <2>1. LinkedTo(again) /\ LinkedTo(again - 1)
    BY <1>7, <1>11 DEF LinkedTo
  <2> QED
    BY <1>8, <1>9, <2>1, ForwardLinks
<1>12. CASE ~ (again =< once)
  <2>1. again = GenesisCount - 1
    BY <1>1, <1>8, <1>9, <1>12
  <2>2. again =< good => LinkedTo(again)
    <3> SUFFICES ASSUME again =< good PROVE LinkedTo(again)
      OBVIOUS
    <3>1. again < GenesisCount /\ again < size
      BY <1>1, <1>10, <2>1
    <3> QED
      BY <3>1, GenesisLinked
  <2>3. LinkedTo(again - 1) \/ LinkedTo(good)
    <3>1. CASE again - 1 =< MaxNumDB
      <4>1. again - 1 < GenesisCount /\ again - 1 < size /\ again - 1 \in Int
        BY <1>1, <2>1, <3>1
      <4> QED
        BY <4>1, GenesisLinked
    <3>2. CASE ~ (again - 1 =< MaxNumDB)
      <4>1. good < GenesisCount /\ good < size
        BY <1>1, <1>10, <2>1, <3>2
      <4> QED
        BY <4>1, GenesisLinked
    <3> QED
      BY <3>1, <3>2
  <2> QED
    BY <1>8, <1>9, <1>10, <2>2, <2>3, ForwardLinks
<1> QED
  BY <1>11, <1>12

LEMMA RepairCall ==
  ASSUME TypeInv, RowsNumbered, GenesisRows, FaultsInReach, crashes > 0, CheckStarted
  PROVE  CallInv'
<1>1. /\ TypeOK /\ pc = "idle" /\ early >= 0 /\ UNCHANGED << lo, hi, crashes >> /\ size \in Nat
      /\ ~Pending
  BY DEF TypeInv, TypeOK, CheckStarted, CallShape, Running
<1>2. PICK r \in ReverseResults :
        LET once == Forward(IF r < CheckBack THEN 0 ELSE r - CheckBack)
            good == Forward(once - CheckAgain) IN
        IF good < MaxNumDB
          THEN IF good - 1 < GenesisCount
                 THEN /\ index' = [m \in Heights |-> Hole] /\ size' = 0
                      /\ UNCHANGED << maxRec, pc, seed, at, last, head >>
                 ELSE /\ Begin("cut", GenesisBlock(0), good - 1, good - 1, -1)
                      /\ UNCHANGED mainVars
          ELSE UNCHANGED << mainVars, pc, seed, at, last, head >>
  BY DEF CheckStarted
<1>3. r \in Int /\ CheckBack \in Int /\ CheckAgain \in Int /\ MaxNumDB = size - 1
  BY <1>1, <1>2, Sizes, IndexAssumption DEF ReverseResults, MaxNumDB
<1>4. PICK once \in Int : once = Forward(IF r < CheckBack THEN 0 ELSE r - CheckBack)
  BY <1>1, <1>3, ForwardType
<1>5. PICK good \in Int : good = Forward(once - CheckAgain) /\ good =< MaxNumDB
  BY <1>1, <1>3, ForwardType
<1>6. LinkedTo(good)
  BY <1>1, <1>2, <1>4, <1>5, CheckFinds DEF FaultsInReach
<1>7. CASE good < MaxNumDB /\ good - 1 < GenesisCount
  <2>1. size' = 0 /\ UNCHANGED << pc, lo, hi >>
    BY <1>1, <1>2, <1>4, <1>5, <1>7
  <2> QED
    BY <1>1, <2>1 DEF CallInv, InTruncate, LinkedTo
<1>8. CASE good < MaxNumDB /\ ~ (good - 1 < GenesisCount)
  <2>1. Begin("cut", GenesisBlock(0), good - 1, good - 1, -1) /\ UNCHANGED mainVars
    BY <1>2, <1>4, <1>5, <1>8
  <2>2. pc' = "cut" /\ at' = good - 1 /\ last' = good - 1 /\ ~Pending'
    BY <1>1, <2>1 DEF Begin, Pending
  <2>3. LinkedTo(at)'
    BY <1>6, <2>1, <2>2 DEF mainVars, LinkedTo, GoodLink, Row
  <2>4. Whole'
    BY <1>1 DEF Whole
  <2> QED
    BY <2>2, <2>3, <2>4 DEF CallInv, InTruncate
<1>9. CASE ~ (good < MaxNumDB)
  <2>1. UNCHANGED mainVars /\ pc' = "idle"
    BY <1>1, <1>2, <1>4, <1>5, <1>9
  <2>2. LinkedTo(size - 1)'
    BY <1>3, <1>5, <1>6, <1>9, <2>1 DEF LinkedTo, GoodLink, Row, mainVars
  <2> QED
    BY <2>1, <2>2 DEF CallInv, InTruncate
<1> QED
  BY <1>7, <1>8, <1>9

(* Before the first kill and from the start check on the rows are what the *)
(* running call may expect.                                                *)
RepairedInv ==
  /\ TypeInv /\ RowsNumbered /\ GenesisRows
  /\ crashes = 0 \/ (early = -1 /\ pc # "down") => CallInv

LEMMA RepairedNext ==
  ASSUME RepairedInv, FaultsInReach, [Next]_vars PROVE RepairedInv'
<1>1. /\ TypeInv /\ TypeInv' /\ RowsNumbered' /\ GenesisRows'
      /\ crashes \in Nat /\ early \in -1 .. MaxEarly /\ MaxEarly \in Nat
  BY TypeNext, RowsNumberedNext, GenesisRowsNext, Sizes DEF RepairedInv, TypeInv, TypeOK
<1>2. CASE Crash
  <2>1. pc' = "down" /\ crashes' = crashes + 1
    BY <1>2 DEF Crash, Return, Begin
  <2> QED
    BY <1>1, <2>1 DEF RepairedInv
<1>3. CASE Restart
  <2>1. crashes > 0
    BY <1>1, <1>3 DEF Restart, RepairedInv, CallInv
  <2>2. crashes' = crashes /\ early' >= 0
    BY <1>1, <1>3 DEF Restart
  <2> QED
    BY <1>1, <2>1, <2>2 DEF RepairedInv
<1>4. CASE CheckStarted
  <2>1. CASE crashes = 0
    BY <1>1, <1>4, <2>1, CheckStartedCall DEF RepairedInv
  <2>2. CASE crashes > 0
    BY <1>1, <1>4, <2>2, RepairCall DEF RepairedInv
  <2> QED
    BY <1>1, <2>1, <2>2
<1>5. CASE StartGenesis \/ (\E b \in Block : StartSaveToDB(b) \/ StartSaveChain(b))
           \/ (\E n \in Heights : StartTruncate(n))
  <2>1. crashes' = crashes /\ (early' = -1 => early = -1) /\ pc = "idle"
    BY <1>1, <1>5
    DEF StartGenesis, StartSaveToDB, StartSaveChain, StartTruncate, Called, MayCall
  <2>2. CallInv => CallInv'
    BY <1>1, <1>5, StartGenesisCall, StartSaveToDBCall, StartSaveChainCall, StartTruncateCall
  <2> QED
    BY <1>1, <2>1, <2>2 DEF RepairedInv
<1>6. CASE MainStep
  <2>1. crashes' = crashes /\ early' = early /\ pc # "down"
    BY <1>6 DEF MainStep, Put, Cut, Rec, PutRow, upVars
  <2>2. CallInv => CallInv'
    BY <1>1, <1>6, PutCall, CutCall, RecCall, PutRowCall DEF MainStep
  <2> QED
    BY <1>1, <2>1, <2>2 DEF RepairedInv
<1>7. CASE TxStep \/ TxRestart \/ UNCHANGED vars
  <2>1. UNCHANGED mainVars /\ UNCHANGED callVars /\ UNCHANGED upVars
    BY <1>7 DEF TxStep, TxFirst, TxPeek, TxApply, TxCheckAct, TxRestart, vars
  <2>2. pc' = pc /\ crashes' = crashes /\ early' = early
    BY <2>1 DEF callVars, upVars
  <2>3. CallInv => CallInv'
    BY <2>1, <2>2, UnchangedCall
  <2> QED
    BY <1>1, <2>2, <2>3 DEF RepairedInv
<1> QED
  BY <1>2, <1>3, <1>4, <1>5, <1>6, <1>7 DEF Next

LEMMA Repaired == Spec /\ []FaultsInReach => []RepairedInv
<1>1. Init => RepairedInv
  BY TypeInit, CallInit, RowsNumberedInit, GenesisRowsInit DEF RepairedInv
<1>2. RepairedInv /\ FaultsInReach /\ [Next]_vars => RepairedInv'
  BY RepairedNext
<1> QED
  BY <1>1, <1>2, PTL DEF Spec

(* However often MAIN is killed and at whatever system calls: if what the  *)
(* kills leave wrong is within reach of the start check, the rows are one  *)
(* chain between any two calls after it.                                   *)
THEOREM RepairedMainLinked == Spec /\ []FaultsInReach => []MainLinked
<1>1. RepairedInv => MainLinked
  BY DEF RepairedInv, CallInv, MainLinked, MaxNumDB
<1> QED
  BY <1>1, Repaired, PTL

(* And no call after the check finds a parent missing.                     *)
THEOREM RepairedCallNeverFails == Spec /\ []FaultsInReach => []CallNeverFails
<1>1. RepairedInv => CallNeverFails
  <2> SUFFICES ASSUME TypeInv, CallInv, pc = "put", at > GenesisCount
               PROVE  Row(at - 1) = Anc[seed][at - 1]
    BY DEF RepairedInv, CallNeverFails
  <2>1. at - 1 \in 0 .. at - 1
    BY Sizes DEF TypeInv, TypeOK, Heights
  <2> QED
    BY <2>1 DEF CallInv, OnChain
<1> QED
  BY <1>1, Repaired, PTL

=============================================================================
