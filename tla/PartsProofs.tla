----------------------------- MODULE PartsProofs ----------------------------
(*****************************************************************************)
(* The parts of the system that keep a structure of their own: the search    *)
(* for the rows of a block (RowSearch), the time of the node (NodeTime), the *)
(* index of the main chain behind its cache (CachedRows), the leader list    *)
(* (LiderList), the pointers over the block tree (JumpIndex), the            *)
(* connections two nodes make to each other (DoubleConnect) and the old      *)
(* balances of an account (RestTable).                                       *)
(*****************************************************************************)
EXTENDS RowSearch, NodeTime, CachedRows, LiderList, JumpIndex, DoubleConnect, RestTable, Loops, SequenceTheorems, FiniteSetTheorems, TLAPS

(* RowSearch: the search is right for every log, whatever its length and     *)
(* the gaps between its block numbers.                                       *)

Sorted == \A i, j \in DOMAIN rows : i =< j => rows[i] =< rows[j]

(* The interval of the first loop.  It stays one whatever TX does; that it *)
(* holds all rows of the block needs a log that does not change.           *)
Interval == pc = "halve" => low =< cur /\ cur =< high
Inside ==
  pc = "halve" /\ still =>
    high =< MaxRow /\ \A i \in DOMAIN rows : rows[i] = block => low + 1 =< i /\ i =< high + 1
OnBlock == pc = "back" /\ still => cur =< MaxRow /\ Row(cur) = block

SearchInv == TypeOK /\ Sorted /\ Interval /\ Inside /\ OnBlock /\ FindsFirst

(* Half of a positive distance, rounded up, is positive and no more than   *)
(* the distance.                                                           *)
LEMMA HalfOf == ASSUME NEW d \in Nat, d > 0 PROVE Half(d) \in Nat /\ 1 =< Half(d) /\ Half(d) =< d
BY DEF Half

LEMMA InitInv == Init => SearchInv
BY DEF Init, SearchInv, TypeOK, Sorted, Interval, Inside, OnBlock, FindsFirst, Undefined, NoHistory, NoPresent

LEMMA WriteInv == ASSUME SearchInv, NEW n \in 0 .. MaxBlockNum, Write(n) PROVE SearchInv'
<1> USE RowSearchAssumption DEF SearchInv
<1>1. rows \in Seq(Nat) /\ n \in Nat /\ rows' = Append(rows, n) /\ still' = FALSE /\ UNCHANGED call
  BY DEF Write, TypeOK
<1>2. /\ Len(rows') = Len(rows) + 1 /\ DOMAIN rows' = 1 .. Len(rows) + 1 /\ rows' \in Seq(Nat)
      /\ \A i \in 1 .. Len(rows) : rows'[i] = rows[i]
      /\ rows'[Len(rows) + 1] = n
  BY <1>1
<1>3. TypeOK' BY <1>1, <1>2 DEF TypeOK, call
<1>4. Sorted'
  <2>1. \A i \in DOMAIN rows : rows[i] =< n BY DEF Write
  <2> QED BY <1>1, <1>2, <2>1 DEF Sorted
<1>5. Interval' BY <1>1 DEF Interval, call
<1>6. Inside' /\ OnBlock' /\ FindsFirst' BY <1>1 DEF Inside, OnBlock, FindsFirst
<1> QED BY <1>3, <1>4, <1>5, <1>6

LEMMA DeleteInv == ASSUME SearchInv, NEW n \in 0 .. MaxBlockNum, DeleteHistory(n) PROVE SearchInv'
<1> USE RowSearchAssumption DEF SearchInv
<1>1. PICK m \in 0 .. Len(rows) - 1 : rows' = SubSeq(rows, 1, m)
  BY DEF DeleteHistory
<1>2. rows \in Seq(Nat) /\ still' = FALSE /\ UNCHANGED call
  BY DEF DeleteHistory, TypeOK
<1>3. /\ rows' \in Seq(Nat) /\ Len(rows') = m /\ DOMAIN rows' = 1 .. m
      /\ \A i \in 1 .. m : rows'[i] = rows[i]
  BY <1>1, <1>2
<1>4. TypeOK' BY <1>2, <1>3 DEF TypeOK, call
<1>5. Sorted'
  <2>1. SUFFICES ASSUME NEW i \in 1 .. m, NEW j \in 1 .. m, i =< j PROVE rows'[i] =< rows'[j]
    BY <1>3 DEF Sorted
  <2>2. i \in DOMAIN rows /\ j \in DOMAIN rows BY <1>2, <1>1
  <2> QED BY <1>3, <2>1, <2>2 DEF Sorted
<1>6. Interval' BY <1>2 DEF Interval, call
<1>7. Inside' /\ OnBlock' /\ FindsFirst' BY <1>2 DEF Inside, OnBlock, FindsFirst
<1> QED BY <1>4, <1>5, <1>6, <1>7

LEMMA BeginInv == ASSUME SearchInv, NEW n \in 0 .. MaxBlockNum, FastFindBlockNum(n) PROVE SearchInv'
<1> USE RowSearchAssumption DEF SearchInv
<1>1. rows' = rows /\ rows \in Seq(Nat) /\ block' = n /\ still' = TRUE
  BY DEF FastFindBlockNum, TypeOK
<1>2. CASE MaxRow = -1
  <2>1. Len(rows) = 0 /\ pc' = "idle" /\ result' = Undefined /\ UNCHANGED << low, high, cur >>
    BY <1>1, <1>2 DEF FastFindBlockNum, MaxRow
  <2> QED BY <1>1, <2>1
       DEF TypeOK, Sorted, Interval, Inside, OnBlock, FindsFirst, Undefined, NoHistory, NoPresent
<1>3. CASE MaxRow # -1
  <2>1. /\ pc' = "halve" /\ low' = 0 /\ high' = Len(rows) - 1 /\ cur' = (Len(rows) - 1) \div 2
        /\ result' = result /\ Len(rows) - 1 \in Nat
    BY <1>1, <1>3 DEF FastFindBlockNum, MaxRow
  <2>2. cur' \in Nat /\ cur' =< high' BY <2>1
  <2>3. TypeOK' BY <1>1, <2>1, <2>2 DEF TypeOK
  <2>4. Sorted' BY <1>1 DEF Sorted
  <2>5. Interval' /\ Inside' BY <1>1, <2>1, <2>2 DEF Interval, Inside, MaxRow
  <2>6. OnBlock' /\ FindsFirst' BY <2>1 DEF OnBlock, FindsFirst
  <2> QED BY <2>3, <2>4, <2>5, <2>6
<1> QED BY <1>2, <1>3

LEMMA ReturnInv ==
  ASSUME SearchInv, NEW r \in Int, Return(r), UNCHANGED << rows, block, still >>,
         still => IF \E i \in DOMAIN rows : rows[i] = block
                    THEN r \in 0 .. MaxRow /\ Row(r) = block /\ \A i \in 1 .. r : rows[i] # block
                    ELSE r \in {NoHistory, NoPresent, Undefined}
  PROVE  SearchInv'
BY DEF SearchInv, Return, TypeOK, Sorted, Interval, Inside, OnBlock, FindsFirst, MaxRow, Row

(* Rows on the wrong side of the middle cannot be of the block.            *)
LEMMA HalveInv == ASSUME SearchInv, Halve PROVE SearchInv'
<1> USE RowSearchAssumption
<1>1. /\ rows \in Seq(Nat) /\ low \in Nat /\ high \in Nat /\ cur \in Nat /\ block \in Nat
      /\ low =< cur /\ cur =< high /\ pc = "halve" /\ UNCHANGED << rows, block, still >>
  BY DEF SearchInv, TypeOK, Interval, Halve
<1>2. still => /\ cur =< MaxRow /\ high =< MaxRow
               /\ \A i \in DOMAIN rows : rows[i] = block => low + 1 =< i /\ i =< high + 1
  BY <1>1 DEF SearchInv, Inside, MaxRow
<1>3. \A i, j \in DOMAIN rows : i =< j => rows[i] =< rows[j]
  BY DEF SearchInv, Sorted
<1>4. CASE Missing
  BY <1>1, <1>2, <1>4, ReturnInv DEF Missing, Throw, MaxRow
<1>5. CASE cur =< MaxRow /\ TooHigh
  <2>1. Row(cur) > block /\ cur + 1 \in DOMAIN rows BY <1>1, <1>5 DEF TooHigh, MaxRow
  <2>2. \A i \in DOMAIN rows : cur + 1 =< i => rows[i] # block BY <1>1, <1>3, <2>1 DEF Row
  <2>3. CASE cur = low
    <3>1. Return(NoHistory) BY <1>5, <2>3 DEF TooHigh
    <3>2. still => ~ \E i \in DOMAIN rows : rows[i] = block BY <1>1, <1>2, <2>2, <2>3
    <3> QED BY <1>1, <3>1, <3>2, ReturnInv DEF NoHistory
  <2>4. CASE cur # low
    <3>1. high' = cur - 1 /\ cur' = cur - Half(cur - low) /\ UNCHANGED << pc, low, result >>
      BY <1>5, <2>4 DEF TooHigh
    <3>2. Half(cur - low) \in Nat /\ 1 =< Half(cur - low) /\ Half(cur - low) =< cur - low
      BY <1>1, <2>4, HalfOf
    <3>3. cur' \in Nat /\ high' \in Nat /\ low' =< cur' /\ cur' =< high' /\ high' =< high
      BY <1>1, <2>4, <3>1, <3>2
    <3>4. still => /\ high' =< MaxRow
                   /\ \A i \in DOMAIN rows : rows[i] = block => low' + 1 =< i /\ i =< high' + 1
      <4>1. still => high' =< MaxRow
        BY <1>1, <1>2, <3>1, <3>3 DEF MaxRow
      <4>2. still => \A i \in DOMAIN rows : rows[i] = block => low' + 1 =< i /\ i =< high' + 1
        BY <1>1, <1>2, <2>2, <3>1, <3>3 DEF MaxRow
      <4> QED
        BY <4>1, <4>2
    <3>5. TypeOK' /\ Sorted' /\ OnBlock' /\ FindsFirst'
      BY <1>1, <3>1, <3>3 DEF SearchInv, TypeOK, Sorted, OnBlock, FindsFirst
    <3>6. Interval' /\ Inside'
      BY <1>1, <3>1, <3>3, <3>4 DEF Interval, Inside, MaxRow
    <3> QED BY <3>5, <3>6 DEF SearchInv
  <2> QED BY <2>3, <2>4
<1>6. CASE cur =< MaxRow /\ TooLow
  <2>1. Row(cur) < block /\ cur + 1 \in DOMAIN rows BY <1>1, <1>6 DEF TooLow, MaxRow
  <2>2. \A i \in DOMAIN rows : i =< cur + 1 => rows[i] # block BY <1>1, <1>3, <2>1 DEF Row
  <2>3. CASE cur = high
    <3>1. Return(NoPresent) BY <1>6, <2>3 DEF TooLow
    <3>2. still => ~ \E i \in DOMAIN rows : rows[i] = block BY <1>1, <1>2, <2>2, <2>3
    <3> QED BY <1>1, <3>1, <3>2, ReturnInv DEF NoPresent
  <2>4. CASE cur # high
    <3>1. low' = cur + 1 /\ cur' = cur + Half(high - cur) /\ UNCHANGED << pc, high, result >>
      BY <1>6, <2>4 DEF TooLow
    <3>2. Half(high - cur) \in Nat /\ 1 =< Half(high - cur) /\ Half(high - cur) =< high - cur
      BY <1>1, <2>4, HalfOf
    <3>3. cur' \in Nat /\ low' \in Nat /\ low' =< cur' /\ cur' =< high'
      BY <1>1, <2>4, <3>1, <3>2
    <3>4. still => /\ high' =< MaxRow
                   /\ \A i \in DOMAIN rows : rows[i] = block => low' + 1 =< i /\ i =< high' + 1
      <4>1. still => high' =< MaxRow
        BY <1>1, <1>2, <3>1, <3>3 DEF MaxRow
      <4>2. still => \A i \in DOMAIN rows : rows[i] = block => low' + 1 =< i /\ i =< high' + 1
        BY <1>1, <1>2, <2>2, <3>1, <3>3, SMTT(30) DEF MaxRow
      <4> QED
        BY <4>1, <4>2
    <3>5. TypeOK' /\ Sorted' /\ OnBlock' /\ FindsFirst'
      BY <1>1, <3>1, <3>3 DEF SearchInv, TypeOK, Sorted, OnBlock, FindsFirst
    <3>6. Interval' /\ Inside'
      BY <1>1, <3>1, <3>3, <3>4 DEF Interval, Inside, MaxRow
    <3> QED BY <3>5, <3>6 DEF SearchInv
  <2> QED BY <2>3, <2>4
<1>7. CASE cur =< MaxRow /\ Found
  BY <1>1, <1>7 DEF Found, SearchInv, TypeOK, Sorted, Interval, Inside, OnBlock, FindsFirst, MaxRow, Row
<1> QED BY <1>4, <1>5, <1>6, <1>7 DEF Halve

(* The row before the first row of the block is of a lower block, and so   *)
(* are all before that one.                                                *)
LEMMA BackInv == ASSUME SearchInv, Back PROVE SearchInv'
<1> USE RowSearchAssumption
<1>1. /\ rows \in Seq(Nat) /\ cur \in Nat /\ block \in Nat
      /\ pc = "back" /\ UNCHANGED << rows, block, still >>
  BY DEF SearchInv, TypeOK, Back
<1>2. still => cur =< MaxRow /\ Row(cur) = block /\ cur + 1 \in DOMAIN rows
  BY <1>1 DEF SearchInv, OnBlock, MaxRow
<1>3. \A i, j \in DOMAIN rows : i =< j => rows[i] =< rows[j]
  BY DEF SearchInv, Sorted
<1>4. CASE cur = 0
  <2>1. Return(0) BY <1>4 DEF Back
  <2> QED BY <1>1, <1>2, <1>4, <2>1, ReturnInv DEF Row, MaxRow
<1>5. CASE cur # 0 /\ cur - 1 > MaxRow
  <2>1. Return(Throw) BY <1>5 DEF Back
  <2> QED BY <1>1, <1>2, <1>5, <2>1, ReturnInv DEF Throw, MaxRow
<1>6. CASE cur # 0 /\ cur - 1 =< MaxRow /\ Row(cur - 1) # block
  <2>1. Return(cur) BY <1>6, <1>1 DEF Back, MaxRow
  <2>2. still => \A i \in 1 .. cur : rows[i] # block
    <3>1. SUFFICES ASSUME still PROVE \A i \in 1 .. cur : rows[i] # block OBVIOUS
    <3>2. cur \in DOMAIN rows /\ rows[cur] # block /\ rows[cur + 1] = block /\ cur + 1 \in DOMAIN rows
      BY <1>1, <1>2, <1>6, <3>1 DEF Row, MaxRow
    <3>3. \A i \in DOMAIN rows : rows[i] \in Nat BY <1>1
    <3>4. rows[cur] < block BY <1>1, <1>3, <3>2, <3>3
    <3>5. \A i \in 1 .. cur : i \in DOMAIN rows /\ rows[i] =< rows[cur] BY <1>1, <1>3, <3>2
    <3> QED BY <1>1, <3>2, <3>3, <3>4, <3>5
  <2>3. still => cur \in 0 .. MaxRow /\ Row(cur) = block /\ \E i \in DOMAIN rows : rows[i] = block
    BY <1>1, <1>2 DEF MaxRow, Row
  <2>4. cur \in Int BY <1>1
  <2> QED BY <1>1, <2>1, <2>2, <2>3, <2>4, ReturnInv
<1>7. CASE cur # 0 /\ cur - 1 =< MaxRow /\ Row(cur - 1) = block
  <2>1. cur' = cur - 1 /\ UNCHANGED << pc, low, high, result >> BY <1>1, <1>7 DEF Back, MaxRow
  <2>2. TypeOK' BY <1>1, <1>7, <2>1 DEF SearchInv, TypeOK
  <2>3. Sorted' BY <1>1, <1>3 DEF Sorted
  <2>4. Interval' /\ Inside' /\ FindsFirst' BY <1>1, <2>1 DEF Interval, Inside, FindsFirst
  <2>5. OnBlock' BY <1>1, <1>7, <2>1 DEF OnBlock, MaxRow, Row
  <2> QED BY <2>2, <2>3, <2>4, <2>5 DEF SearchInv
<1> QED
  <2>1. cur - 1 > MaxRow \/ cur - 1 =< MaxRow BY <1>1 DEF MaxRow
  <2> QED BY <2>1, <1>4, <1>5, <1>6, <1>7, Zenon

LEMMA StepInv == SearchInv /\ [Next]_vars => SearchInv'
<1> SUFFICES ASSUME SearchInv, [Next]_vars PROVE SearchInv' OBVIOUS
<1>1. ASSUME NEW n \in 0 .. MaxBlockNum, Write(n) \/ DeleteHistory(n) \/ FastFindBlockNum(n) PROVE SearchInv'
  BY <1>1, WriteInv, DeleteInv, BeginInv
<1>2. CASE UNCHANGED vars
  BY <1>2 DEF vars, SearchInv, TypeOK, Sorted, Interval, Inside, OnBlock, FindsFirst, MaxRow, Row
<1> QED BY <1>1, <1>2, HalveInv, BackInv DEF Next

(* FastFindBlockNum finds the first row of the block, or that there is     *)
(* none, in every log ordered by block number.                             *)
THEOREM SearchFindsFirst == Spec => []FindsFirst
<1>1. SearchInv => FindsFirst BY DEF SearchInv
<1> QED BY InitInv, StepInv, <1>1, PTL DEF Spec

(* No turn of a loop leaves the call where it was.                         *)
THEOREM SearchShrinks == Spec => Shrinks
<1> DEFINE Less == /\ Halve /\ pc' = "halve" => high' - low' < high - low /\ cur' \in low' .. high'
                   /\ Back /\ pc' = "back" => cur' < cur
<1>1. ASSUME SearchInv, [Next]_vars PROVE [Less]_vars
  <2>1. /\ low \in Nat /\ high \in Nat /\ cur \in Nat /\ (pc = "halve" => low =< cur /\ cur =< high)
        /\ rows \in Seq(Nat)
    BY <1>1 DEF SearchInv, TypeOK, Interval
  <2>2. ASSUME Halve, pc' = "halve" PROVE high' - low' < high - low /\ cur' \in low' .. high'
    <3>1. pc = "halve" /\ (TooHigh \/ TooLow)
      BY <2>2 DEF Halve, Missing, Found, Return
    <3>2. CASE TooHigh
      <4>1. cur # low /\ high' = cur - 1 /\ low' = low /\ cur' = cur - Half(cur - low)
        BY <2>2, <3>2 DEF TooHigh, Return
      <4> QED BY <2>1, <3>1, <4>1, HalfOf
    <3>3. CASE TooLow
      <4>1. cur # high /\ low' = cur + 1 /\ high' = high /\ cur' = cur + Half(high - cur)
        BY <2>2, <3>3 DEF TooLow, Return
      <4> QED BY <2>1, <3>1, <4>1, HalfOf
    <3> QED BY <3>1, <3>2, <3>3
  <2>3. ASSUME Back, pc' = "back" PROVE cur' < cur
    BY <2>1, <2>3 DEF Back, Return
  <2> QED BY <2>2, <2>3
<1>2. Spec => [][Less]_vars
  BY InitInv, StepInv, <1>1, PTL DEF Spec
<1> QED BY <1>2 DEF Shrinks
-----------------------------------------------------------------------------
(* NodeTime: the node's time comes to the network's and stays there, for     *)
(* any errors of the clock, any lag of the network and any sizes of the      *)
(* steps for which half a step is more than what fades.                      *)
TimesOK == clock \in Int /\ delta \in Int /\ was \in {0, 1}

(* A limited step is none, or one towards the measured time that is no     *)
(* larger than CORRECT_TIME_VALUE.                                         *)
LEMMA LimitedStep ==
  ASSUME Constants, NEW new \in Int
  PROVE /\ Limited(new) \in Int
        /\ new < CORRECT_TIME_TRIGGER /\ new > -CORRECT_TIME_TRIGGER => Limited(new) = 0
        /\ new >= CORRECT_TIME_TRIGGER => Limited(new) = CORRECT_TIME_VALUE
        /\ new =< -CORRECT_TIME_TRIGGER => Limited(new) = -CORRECT_TIME_VALUE
BY DEF Constants, Limited, Magnitude

(* A step made carefully keeps its direction and at least half its size.   *)
LEMMA CarefulStep ==
  ASSUME Constants, NEW d \in Int, NEW new \in {0, CORRECT_TIME_VALUE, -CORRECT_TIME_VALUE}
  PROVE /\ Careful(d, new) \in Int
        /\ new = 0 => Careful(d, new) = 0
        /\ new = CORRECT_TIME_VALUE =>
             Careful(d, new) > INFLATION_TIME_VALUE /\ Careful(d, new) =< CORRECT_TIME_VALUE
        /\ new = -CORRECT_TIME_VALUE =>
             Careful(d, new) < -INFLATION_TIME_VALUE /\ Careful(d, new) >= -CORRECT_TIME_VALUE
<1> DEFINE V == CORRECT_TIME_VALUE
<1>1. V \in Nat /\ INFLATION_TIME_VALUE \in Nat /\ INFLATION_TIME_VALUE < V \div 2
  BY DEF Constants
<1>2. /\ V \div 2 \in Int /\ V \div 2 =< V
      /\ (-V) \div 2 \in Int /\ (-V) \div 2 >= -V /\ (-V) \div 2 =< -(V \div 2)
      /\ 0 \div 2 = 0
  BY <1>1
<1>3. Careful(d, new) \in {new, new \div 2}
  BY DEF Careful
<1> QED
  BY <1>1, <1>2, <1>3

(* Fading changes a step by no more than INFLATION_TIME_VALUE.             *)
LEMMA FadedStep ==
  ASSUME Constants, NEW d \in Int, NEW new \in Int
  PROVE /\ Faded(d, new) \in Int
        /\ Faded(d, new) >= new - INFLATION_TIME_VALUE
        /\ Faded(d, new) =< new + INFLATION_TIME_VALUE
BY DEF Constants, Faded
-----------------------------------------------------------------------------
LEMMA StepIsInt ==
  ASSUME Constants, NEW measured \in Int, TimesOK
  PROVE Step(measured) \in Int
<1> DEFINE new == IF Magnitude(measured) > Absurd THEN 0 ELSE -measured
           made == IF was = 1 THEN Careful(delta, Limited(new)) ELSE new
<1>1. new \in Int
  BY DEF Constants
<1>2. Limited(new) \in Int
  BY <1>1, LimitedStep
<1>3. Careful(delta, Limited(new)) \in Int
  BY <1>2 DEF Careful, TimesOK
<1>4. made \in Int
  BY <1>1, <1>3
<1>5. Step(measured) = Faded(delta, made)
  BY DEF Step
<1> HIDE DEF made
<1> QED
  BY <1>4, <1>5, FadedStep DEF TimesOK

(* The type invariant: all times are numbers of milliseconds.              *)
THEOREM TimesAreNumbers == TimeSpec => []TimesOK
<1> USE TimeAssumption
<1>1. TimeInit => TimesOK
  BY DEF TimeInit, TimesOK, Constants
<1>2. TimesOK /\ [TimeNext]_timeVars => TimesOK'
  <2> SUFFICES ASSUME TimesOK, [TimeNext]_timeVars PROVE TimesOK'
    OBVIOUS
  <2>1. CASE Correct
    <3>1. PICK lag \in 0 .. MaxLag : CorrectTimeByDelta(Error + lag)
      BY <2>1 DEF Correct
    <3>2. Error + lag \in Int
      BY DEF Error, TimesOK, Constants
    <3>3. Step(Error + lag) \in Int
      BY <3>2, StepIsInt
    <3> QED
      BY <3>1, <3>3 DEF CorrectTimeByDelta, TimesOK
  <2>2. CASE SetClock
    BY <2>2 DEF SetClock, TimesOK, Constants
  <2>3. CASE Restart
    BY <2>3 DEF Restart, TimesOK
  <2>4. CASE UNCHANGED timeVars
    BY <2>4 DEF timeVars, TimesOK
  <2> QED
    BY <2>1, <2>2, <2>3, <2>4 DEF TimeNext
<1> QED
  BY <1>1, <1>2, PTL DEF TimeSpec
-----------------------------------------------------------------------------
(* Between a number and its opposite everything is nearer to zero.         *)
LEMMA Between ==
  ASSUME NEW x \in Int, NEW y \in Int, (x < y /\ x > -y) \/ (x > y /\ x < -y)
  PROVE Magnitude(x) < Magnitude(y)
BY DEF Magnitude

(* One correction of a believable time.                                    *)
LEMMA OneCorrection ==
  ASSUME Constants, TimesOK, Correct, Believed
  PROVE Good(Error') \/ (was = 1 /\ ~Good(Error) /\ Magnitude(Error') < Magnitude(Error))
<1> DEFINE T == CORRECT_TIME_TRIGGER
           V == CORRECT_TIME_VALUE
           I == INFLATION_TIME_VALUE
           e == Error
<1>1. /\ T \in Nat /\ V \in Nat /\ I \in Nat /\ MaxLag \in Nat /\ Absurd \in Nat
      /\ V =< T /\ I < V /\ e \in Int
  BY DEF Constants, Error, TimesOK
<1>2. PICK lag \in 0 .. MaxLag : CorrectTimeByDelta(e + lag)
  BY DEF Correct
<1> DEFINE m == e + lag
           made == IF was = 1 THEN Careful(delta, Limited(-m)) ELSE -m
<1>3. lag \in Int /\ 0 =< lag /\ lag =< MaxLag /\ m \in Int /\ -m \in Int
  BY <1>1
<1>4. Magnitude(m) =< Absurd
  BY <1>1, <1>3 DEF Believed, Magnitude
<1>5. Step(m) = Faded(delta, made)
  BY <1>1, <1>3, <1>4 DEF Step, Magnitude
<1>6. Error' = e + Faded(delta, made)
  <2>1. clock' = clock /\ delta' = delta + Step(m)
    BY <1>2 DEF CorrectTimeByDelta
  <2>2. Step(m) \in Int
    BY <1>3, StepIsInt
  <2> QED
    BY <1>5, <2>1, <2>2 DEF Error, TimesOK
<1>7. delta \in Int
  BY DEF TimesOK
<1>8. CASE was = 0
  <2>1. made = -m
    BY <1>8
  <2>2. Faded(delta, made) \in Int /\ Faded(delta, made) >= -m - I /\ Faded(delta, made) =< -m + I
    BY <1>3, <1>7, <2>1, FadedStep
  <2>3. Error' >= -lag - I /\ Error' =< -lag + I
    BY <1>1, <1>3, <1>6, <2>2
  <2> QED
    BY <1>1, <1>3, <1>6, <2>2, <2>3 DEF Good
<1>9. CASE was = 1
  <2>1. made = Careful(delta, Limited(-m))
    BY <1>9
  <2> HIDE DEF m, made, e
  <2>2. CASE m < T /\ m > -T
    <3>1. Limited(-m) = 0
      BY <1>1, <1>3, <2>2, LimitedStep
    <3>2. made = 0
      BY <1>7, <2>1, <3>1, CarefulStep
    <3>3. Faded(delta, made) \in Int /\ Faded(delta, made) >= -I /\ Faded(delta, made) =< I
      BY <1>1, <1>7, <3>2, FadedStep
    <3>4. e = m - lag
      BY <1>1, <1>3 DEF m
    <3> QED
      BY <1>1, <1>3, <1>6, <2>2, <3>3, <3>4 DEF Good
  <2>3. CASE m >= T
    <3>1. Limited(-m) = -V
      BY <1>1, <1>3, <2>3, LimitedStep
    <3>2. made \in Int /\ made < -I /\ made >= -V
      BY <1>7, <2>1, <3>1, CarefulStep
    <3>3. Faded(delta, made) \in Int /\ Faded(delta, made) >= made - I /\ Faded(delta, made) =< made + I
      BY <1>7, <3>2, FadedStep
    <3>4. Faded(delta, made) < 0 /\ Faded(delta, made) >= -V - I
      BY <1>1, <3>2, <3>3
    <3>5. e = m - lag /\ e >= T - MaxLag
      BY <1>1, <1>3, <2>3 DEF m
    <3>6. CASE e =< T + I
      BY <1>1, <1>6, <3>3, <3>4, <3>5, <3>6 DEF Good
    <3>7. CASE e > T + I
      <4>1. Error' \in Int /\ Error' < e /\ Error' > -e
        BY <1>1, <1>6, <3>3, <3>4, <3>7
      <4>2. ~Good(Error)
        BY <1>1, <3>7 DEF Good, e
      <4>3. Magnitude(Error') < Magnitude(Error)
        BY <1>1, <4>1, Between DEF e
      <4> QED
        BY <1>9, <4>2, <4>3
    <3> QED
      BY <1>1, <3>6, <3>7 DEF e
  <2>4. CASE m =< -T
    <3>1. Limited(-m) = V
      BY <1>1, <1>3, <2>4, LimitedStep
    <3>2. made \in Int /\ made > I /\ made =< V
      BY <1>7, <2>1, <3>1, CarefulStep
    <3>3. Faded(delta, made) \in Int /\ Faded(delta, made) >= made - I /\ Faded(delta, made) =< made + I
      BY <1>7, <3>2, FadedStep
    <3>4. Faded(delta, made) > 0 /\ Faded(delta, made) =< V + I
      BY <1>1, <3>2, <3>3
    <3>5. e = m - lag /\ e =< -T
      BY <1>1, <1>3, <2>4 DEF m
    <3>6. CASE e >= -(T + I + MaxLag)
      BY <1>1, <1>6, <3>3, <3>4, <3>5, <3>6 DEF Good
    <3>7. CASE e < -(T + I + MaxLag)
      <4>1. Error' \in Int /\ Error' > e /\ Error' < -e
        BY <1>1, <1>6, <3>3, <3>4, <3>7
      <4>2. ~Good(Error)
        BY <1>1, <3>7 DEF Good, e
      <4>3. Magnitude(Error') < Magnitude(Error)
        BY <1>1, <4>1, Between DEF e
      <4> QED
        BY <1>9, <4>2, <4>3
    <3> QED
      BY <1>1, <3>6, <3>7 DEF e
  <2> QED
    BY <1>1, <1>3, <2>2, <2>3, <2>4
<1> QED
  BY <1>8, <1>9 DEF TimesOK

(* Converges, for every clock and lag and for all steps that suffice: the  *)
(* corrections of CorrectTimeByDelta bring the node's time to the          *)
(* network's, and once it is good they keep it good.                       *)
THEOREM TimeConverges == TimeSpec => Converges
<1> USE TimeAssumption
<1>1. TimesOK /\ [TimeNext]_timeVars =>
        [Correct /\ Believed =>
           Good(Error') \/ (was = 1 /\ ~Good(Error) /\ Magnitude(Error') < Magnitude(Error))]_timeVars
  BY OneCorrection
<1>2. TimeSpec => []TimesOK
  BY TimesAreNumbers
<1> QED
  BY <1>1, <1>2, PTL DEF TimeSpec, Converges
-----------------------------------------------------------------------------
(* CachedRows: the index behind its cache implements a file of rows, for     *)
(* any positions, any size of the cache and any number of rows.              *)
(* The items of r are items of c.                                          *)
Within(r, c) == \A j \in DOMAIN r : j \in DOMAIN c /\ r[j] = c[j]

-----------------------------------------------------------------------------
LEMMA KeptWithin == ASSUME NEW index, NEW numbers PROVE Within(Kept(index, numbers), index)
BY DEF Kept, Within

LEMMA SizeWithin ==
  ASSUME NEW c, NEW size PROVE Within(CheckDBBlockCacheSize(c, size).index, c.index)
<1> DEFINE gone == IF Len(c.age) > size THEN Len(c.age) - size ELSE 0
           old  == {c.age[k] : k \in 1 .. gone}
<1>1. CheckDBBlockCacheSize(c, size).index = Kept(c.index, DOMAIN c.index \ old)
  BY DEF CheckDBBlockCacheSize
<1> QED
  BY <1>1, KeptWithin

LEMMA ClearWithin ==
  ASSUME NEW c, NEW num \in Int, DOMAIN c.index \subseteq Nat
  PROVE LET r == ClearCacheDBTree(c, num).index IN Within(r, c.index) /\ \A j \in DOMAIN r : j =< num
<1> DEFINE kept == DOMAIN c.index \ {i \in DOMAIN c.index : i > num}
<1>1. ClearCacheDBTree(c, num).index = Kept(c.index, kept)
  BY DEF ClearCacheDBTree
<1>2. \A j \in DOMAIN Kept(c.index, kept) : j =< num
  BY DEF Kept
<1> QED
  BY <1>1, <1>2, KeptWithin

(* A new item takes its place, and the others are as they were.            *)
LEMMA AddWithin ==
  ASSUME NEW c, NEW i, NEW value, NEW scarce, NEW r, r = AddItemToCache(c, i, value, scarce).index
  PROVE \A j \in DOMAIN r : IF j = i THEN r[j] = value ELSE j \in DOMAIN c.index /\ r[j] = c.index[j]
<1> DEFINE found == IF i \in DOMAIN c.index THEN RemoveItem(c, i) ELSE c
           with  == [j \in DOMAIN found.index \cup {i} |-> IF j = i THEN value ELSE found.index[j]]
           added == [index |-> with, age |-> Append(found.age, i)]
           kept  == CheckDBBlockCacheSize(added, MaxCacheSize)
           half  == CheckDBBlockCacheSize(kept, Len(kept.age) \div 2)
<1>1. Within(found.index, c.index)
  <2>1. RemoveItem(c, i).index = Kept(c.index, DOMAIN c.index \ {i})
    BY DEF RemoveItem
  <2> QED
    BY <2>1, KeptWithin DEF Within
<1>2. \A j \in DOMAIN with :
        IF j = i THEN with[j] = value ELSE j \in DOMAIN c.index /\ with[j] = c.index[j]
  BY <1>1 DEF Within
<1>3. added.index = with
  OBVIOUS
<1>4. r = half.index \/ r = kept.index
  BY DEF AddItemToCache
<1> HIDE DEF with, added
<1>5. Within(kept.index, with)
  BY <1>3, SizeWithin
<1>6. Within(half.index, kept.index)
  BY SizeWithin
<1> HIDE DEF kept, half
<1>7. Within(r, with)
  BY <1>4, <1>5, <1>6 DEF Within
<1> QED
  BY <1>2, <1>7 DEF Within
-----------------------------------------------------------------------------
(* The two trees hold the same numbers, each once.                         *)
Once(age) == \A j, k \in DOMAIN age : age[j] = age[k] => j = k
Agree(index, age) ==
  age \in Seq(Nat) /\ DOMAIN index \subseteq Nat /\ Numbers(age) = DOMAIN index /\ Once(age)

(* What Without leaves of the first k numbers.                             *)
Left(age, gone, k, x) ==
  /\ x \in Seq(Nat) /\ Len(x) =< k
  /\ Numbers(x) = {age[j] : j \in 1 .. k} \ gone
  /\ Once(age) => Once(x)
  /\ (\E j \in 1 .. k : age[j] \in gone) => Len(x) < k

LEMMA WithoutIs ==
  ASSUME NEW age \in Seq(Nat), NEW gone
  PROVE  Left(age, gone, Len(age), Without(age, gone))
<1> DEFINE N == Len(age)
           Is(h) == h = [k \in 0 .. N |->
                           IF k = 0 THEN << >> ELSE IF age[k] \in gone THEN h[k - 1] ELSE Append(h[k - 1], age[k])]
           h == CHOOSE x : Is(x)
<1>1. Without(age, gone) = h[N]
  BY DEF Without
<1> HIDE DEF h
<1>2. N \in Nat /\ \A k \in 1 .. N : age[k] \in Nat
  OBVIOUS
<1>3. \E f : Is(f)
  <2>1. PICK T, G : /\ T = Seq(Nat)
                    /\ G = [k \in 1 .. N |-> [x \in T |-> IF age[k] \in gone THEN x ELSE Append(x, age[k])]]
    OBVIOUS
  <2>2. << >> \in T /\ G \in [1 .. N -> [T -> T]]
    BY <1>2, <2>1
  <2> HIDE DEF N
  <2>3. Taken(N, T, << >>, G)
    BY <1>2, <2>2, Turns
  <2>4. PICK f \in [0 .. N -> T] : f[0] = << >> /\ \A k \in 1 .. N : f[k] = G[k][f[k - 1]]
    BY <2>3 DEF Taken
  <2>5. ASSUME NEW k \in 0 .. N
        PROVE  f[k] = IF k = 0 THEN << >> ELSE IF age[k] \in gone THEN f[k - 1] ELSE Append(f[k - 1], age[k])
    <3>1. CASE k = 0
      BY <2>4, <3>1
    <3>2. CASE k # 0
      <4>1. k \in 1 .. N /\ k - 1 \in 0 .. N
        BY <1>2, <3>2
      <4>2. f[k - 1] \in T
        BY <2>4, <4>1
      <4> QED
        BY <2>1, <2>4, <3>2, <4>1, <4>2
    <3> QED
      BY <3>1, <3>2
  <2> QED
    BY <2>4, <2>5
<1>4. Is(h)
  BY <1>3 DEF h
<1>5. h[0] = << >> /\ \A k \in 1 .. N : h[k] = IF age[k] \in gone THEN h[k - 1] ELSE Append(h[k - 1], age[k])
  <2>1. \A k \in 0 .. N :
          h[k] = IF k = 0 THEN << >> ELSE IF age[k] \in gone THEN h[k - 1] ELSE Append(h[k - 1], age[k])
    BY <1>4
  <2>2. 0 \in 0 .. N /\ \A k \in 1 .. N : k \in 0 .. N /\ k # 0
    BY <1>2
  <2> HIDE DEF N
  <2> QED
    BY <2>1, <2>2
<1> HIDE DEF N, Is
<1> DEFINE S == {k \in 0 .. N : Left(age, gone, k, h[k])}
<1>6. 0 \in S
  <2>1. PICK x : x = << >>
    OBVIOUS
  <2>2. x \in Seq(Nat) /\ Len(x) = 0 /\ DOMAIN x = {}
    BY <2>1
  <2>3. Numbers(x) = {} /\ Once(x) /\ 1 .. 0 = {}
    BY <2>2 DEF Once, Numbers
  <2>4. Left(age, gone, 0, x)
    BY <2>2, <2>3 DEF Left
  <2> QED
    BY <1>2, <1>5, <2>1, <2>4
<1>7. ASSUME NEW k \in 1 .. N, k - 1 \in S PROVE k \in S
  <2>1. PICK x : x = h[k - 1]
    OBVIOUS
  <2>2. Left(age, gone, k - 1, x)
    BY <1>7, <2>1
  <2>3. /\ x \in Seq(Nat) /\ Len(x) =< k - 1 /\ Len(x) \in Nat /\ k \in Nat /\ DOMAIN x = 1 .. Len(x)
        /\ Numbers(x) = {age[j] : j \in 1 .. k - 1} \ gone
        /\ Once(age) => Once(x)
        /\ (\E j \in 1 .. k - 1 : age[j] \in gone) => Len(x) < k - 1
    BY <1>2, <2>2 DEF Left
  <2>4. 1 .. k = 1 .. (k - 1) \cup {k} /\ k \in DOMAIN age /\ \A j \in 1 .. k - 1 : j \in DOMAIN age /\ j # k
    BY <1>2, <2>3 DEF N
  <2>5. CASE age[k] \in gone
    <3>1. h[k] = x
      BY <1>5, <2>1, <2>5
    <3>2. Len(x) < k /\ Len(x) =< k
      BY <2>3
    <3>3. {age[j] : j \in 1 .. k} \ gone = {age[j] : j \in 1 .. k - 1} \ gone
      BY <2>4, <2>5
    <3>4. Left(age, gone, k, x)
      BY <2>3, <3>2, <3>3 DEF Left
    <3> QED
      BY <1>2, <3>1, <3>4
  <2>6. CASE age[k] \notin gone
    <3>1. PICK y, b : y = Append(x, b) /\ b = age[k]
      OBVIOUS
    <3>2. /\ h[k] = y /\ b \in Nat /\ y \in Seq(Nat) /\ Len(y) = Len(x) + 1 /\ DOMAIN y = 1 .. Len(x) + 1
          /\ \A j \in 1 .. Len(x) : y[j] = x[j]
          /\ y[Len(x) + 1] = b
      <4>1. h[k] = y /\ b \in Nat
        BY <1>2, <1>5, <2>1, <2>6, <3>1
      <4>2. /\ y \in Seq(Nat) /\ Len(y) = Len(x) + 1 /\ DOMAIN y = 1 .. Len(x) + 1
            /\ \A j \in 1 .. Len(x) : y[j] = x[j]
            /\ y[Len(x) + 1] = b
        BY <2>3, <3>1, <4>1
      <4> QED
        BY <4>1, <4>2
    <3>3. Numbers(y) = Numbers(x) \cup {b}
      <4>1. DOMAIN y = DOMAIN x \cup {Len(x) + 1}
        BY <2>3, <3>2
      <4>2. \A j \in DOMAIN x : y[j] = x[j]
        BY <2>3, <3>2
      <4>3. y[Len(x) + 1] = b
        BY <3>2
      <4> QED
        BY <4>1, <4>2, <4>3 DEF Numbers
    <3>4. Numbers(y) = {age[j] : j \in 1 .. k} \ gone
      BY <2>3, <2>4, <2>6, <3>1, <3>3
    <3>5. ASSUME Once(age) PROVE Once(y)
      <4>1. b \notin Numbers(x)
        BY <2>3, <2>4, <3>1, <3>5 DEF Once
      <4>2. \A j \in 1 .. Len(x) : y[j] # b
        BY <2>3, <3>2, <4>1 DEF Numbers
      <4>3. ASSUME NEW i \in DOMAIN y, NEW j \in DOMAIN y, y[i] = y[j] PROVE i = j
        <5>1. i \in DOMAIN x \/ i = Len(x) + 1
          BY <2>3, <3>2
        <5>2. j \in DOMAIN x \/ j = Len(x) + 1
          BY <2>3, <3>2
        <5>3. CASE i \in DOMAIN x /\ j \in DOMAIN x
          BY <2>3, <3>2, <3>5, <4>3, <5>3 DEF Once
        <5> QED
          BY <2>3, <3>2, <4>2, <4>3, <5>1, <5>2, <5>3
      <4> QED
        BY <4>3 DEF Once
    <3>6. Len(y) =< k
      BY <2>3, <3>2
    <3>7. (\E j \in 1 .. k : age[j] \in gone) => Len(y) < k
      BY <2>3, <2>4, <2>6, <3>2
    <3>8. Left(age, gone, k, y)
      BY <3>2, <3>4, <3>5, <3>6, <3>7 DEF Left
    <3> QED
      BY <1>2, <3>2, <3>8
  <2> QED
    BY <2>5, <2>6
<1> HIDE DEF S
<1>8. N \in S
  <2>1. \A k \in 0 .. N : k \in S
    BY <1>2, <1>6, <1>7, OneByOne
  <2> QED
    BY <1>2, <2>1
<1> QED
  BY <1>1, <1>8 DEF S, N

(* The trees hold the same after an item, or the oldest, or those above a  *)
(* row, are taken out of both, and after one is put into both.             *)
LEMMA KeptAgree ==
  ASSUME NEW index, NEW age, Agree(index, age), NEW gone,
         NEW r, r = Kept(index, DOMAIN index \ gone)
  PROVE  Agree(r, Without(age, gone)) /\ Len(Without(age, gone)) =< Len(age)
<1>1. age \in Seq(Nat) /\ Numbers(age) = {age[j] : j \in 1 .. Len(age)} /\ Numbers(age) = DOMAIN index
  BY DEF Agree, Numbers
<1>2. Left(age, gone, Len(age), Without(age, gone))
  BY <1>1, WithoutIs
<1>3. DOMAIN r = DOMAIN index \ gone
  BY DEF Kept
<1> QED
  BY <1>1, <1>2, <1>3 DEF Left, Agree

LEMMA SizeAgree ==
  ASSUME NEW c, NEW size \in Nat, Agree(c.index, c.age), NEW r, r = CheckDBBlockCacheSize(c, size)
  PROVE  Agree(r.index, r.age) /\ Len(r.age) =< size /\ Len(r.age) =< Len(c.age)
<1>1. PICK age, gone, old, y :
        /\ age = c.age /\ gone = IF Len(age) > size THEN Len(age) - size ELSE 0
        /\ old = {age[k] : k \in 1 .. gone}
        /\ y = SubSeq(age, gone + 1, Len(age))
  OBVIOUS
<1>2. r.index = Kept(c.index, DOMAIN c.index \ old) /\ r.age = y
  BY <1>1 DEF CheckDBBlockCacheSize
<1>3. /\ age \in Seq(Nat) /\ Len(age) \in Nat /\ DOMAIN age = 1 .. Len(age)
      /\ Once(age) /\ Numbers(age) = DOMAIN c.index /\ DOMAIN c.index \subseteq Nat
  BY <1>1 DEF Agree
<1>4. gone \in 0 .. Len(age) /\ Len(age) - gone =< size
  BY <1>1, <1>3
<1>5. /\ y \in Seq(Nat) /\ Len(y) = Len(age) - gone /\ DOMAIN y = 1 .. Len(age) - gone
      /\ \A k \in 1 .. Len(age) - gone : y[k] = age[k + gone]
  <2>1. PICK from, to : from = gone + 1 /\ to = Len(age)
    OBVIOUS
  <2>2. from \in 1 .. Len(age) + 1 /\ to \in from - 1 .. Len(age) /\ to - from + 1 = Len(age) - gone
    BY <1>3, <1>4, <2>1
  <2>3. y = SubSeq(age, from, to)
    BY <1>1, <2>1
  <2>4. y \in Seq(Nat) /\ Len(y) = Len(age) - gone /\ DOMAIN y = 1 .. Len(age) - gone
    BY <1>3, <2>2, <2>3, SubSeqProperties
  <2>5. ASSUME NEW k \in 1 .. Len(age) - gone PROVE y[k] = age[k + gone]
    <3>1. y[k] = age[from + k - 1]
      BY <1>3, <2>2, <2>3, SubSeqProperties
    <3>2. from + k - 1 = k + gone
      BY <1>4, <2>1
    <3> QED
      BY <3>1, <3>2
  <2> QED
    BY <2>4, <2>5
<1>6. \A k \in DOMAIN y : k + gone \in DOMAIN age /\ k + gone > gone /\ k \in Nat
  BY <1>3, <1>4, <1>5, SMTT(30)
<1>7. Once(y)
  BY <1>3, <1>4, <1>5, <1>6 DEF Once
<1>8. DOMAIN r.index = DOMAIN c.index \ old
  BY <1>2 DEF Kept
<1>9. ASSUME NEW v PROVE v \in Numbers(y) <=> v \in Numbers(age) \ old
  <2>1. ASSUME NEW k \in DOMAIN y, v = y[k] PROVE v \in Numbers(age) \ old
    <3>1. v = age[k + gone] /\ k + gone \in DOMAIN age /\ k + gone > gone
      BY <1>5, <1>6, <2>1
    <3>2. \A j \in 1 .. gone : j \in DOMAIN age /\ j # k + gone
      BY <1>3, <1>4, <3>1
    <3> QED
      BY <1>1, <1>3, <3>1, <3>2 DEF Numbers, Once
  <2>2. ASSUME NEW j \in DOMAIN age, v = age[j], v \notin old PROVE v \in Numbers(y)
    <3>1. j \notin 1 .. gone
      BY <1>1, <2>2
    <3>2. j - gone \in DOMAIN y /\ j - gone + gone = j
      BY <1>3, <1>4, <1>5, <3>1
    <3>3. y[j - gone] = v
      BY <1>5, <2>2, <3>2
    <3> QED
      BY <3>2, <3>3 DEF Numbers
  <2> QED
    BY <2>1, <2>2 DEF Numbers
<1>10. Agree(r.index, r.age)
  <2>1. Numbers(y) = DOMAIN r.index
    BY <1>3, <1>8, <1>9
  <2> QED
    BY <1>2, <1>3, <1>5, <1>7, <1>8, <2>1 DEF Agree
<1>11. Len(y) =< size /\ Len(y) =< Len(age)
  BY <1>3, <1>4, <1>5
<1> QED
  BY <1>1, <1>2, <1>10, <1>11

LEMMA PutAgree ==
  ASSUME NEW index, NEW age, Agree(index, age), NEW i \in Nat, i \notin DOMAIN index,
         NEW r, DOMAIN r = DOMAIN index \cup {i}
  PROVE  Agree(r, Append(age, i)) /\ Len(Append(age, i)) = Len(age) + 1
<1>1. PICK y : y = Append(age, i)
  OBVIOUS
<1>2. age \in Seq(Nat) /\ Numbers(age) = DOMAIN index /\ Once(age) /\ DOMAIN age = 1 .. Len(age) /\ Len(age) \in Nat
  BY DEF Agree
<1>3. /\ y \in Seq(Nat) /\ Len(y) = Len(age) + 1 /\ DOMAIN y = 1 .. Len(age) + 1
      /\ \A j \in 1 .. Len(age) : y[j] = age[j]
      /\ y[Len(age) + 1] = i
  BY <1>1, <1>2
<1>4. DOMAIN y = DOMAIN age \cup {Len(age) + 1} /\ \A j \in DOMAIN age : y[j] = age[j] /\ y[j] # i
  BY <1>2, <1>3 DEF Numbers
<1>5. Numbers(y) = Numbers(age) \cup {i}
  BY <1>3, <1>4 DEF Numbers
<1>6. Once(y)
  BY <1>2, <1>3, <1>4 DEF Once
<1> QED
  BY <1>1, <1>2, <1>3, <1>5, <1>6 DEF Agree

LEMMA AddAgree ==
  ASSUME NEW c, NEW i \in Nat, NEW value, NEW scarce, Agree(c.index, c.age),
         NEW r, r = AddItemToCache(c, i, value, scarce)
  PROVE  Agree(r.index, r.age) /\ Len(r.age) =< MaxCacheSize
<1>1. PICK found, added, kept :
        /\ found = IF i \in DOMAIN c.index THEN RemoveItem(c, i) ELSE c
        /\ added = [index |-> [j \in DOMAIN found.index \cup {i} |-> IF j = i THEN value ELSE found.index[j]],
                    age |-> Append(found.age, i)]
        /\ kept = CheckDBBlockCacheSize(added, MaxCacheSize)
        /\ r = IF scarce THEN CheckDBBlockCacheSize(kept, Len(kept.age) \div 2) ELSE kept
  BY DEF AddItemToCache
<1>2. Agree(found.index, found.age) /\ i \notin DOMAIN found.index
  <2>1. CASE i \in DOMAIN c.index
    <3>1. found.index = Kept(c.index, DOMAIN c.index \ {i}) /\ found.age = Without(c.age, {i})
      BY <1>1, <2>1 DEF RemoveItem
    <3>2. i \notin DOMAIN found.index
      BY <3>1 DEF Kept
    <3> QED
      BY <3>1, <3>2, KeptAgree
  <2>2. CASE i \notin DOMAIN c.index
    BY <1>1, <2>2
  <2> QED
    BY <2>1, <2>2
<1>3. DOMAIN added.index = DOMAIN found.index \cup {i} /\ added.age = Append(found.age, i)
  BY <1>1
<1>4. Agree(added.index, added.age)
  BY <1>2, <1>3, PutAgree
<1>5. Agree(kept.index, kept.age) /\ Len(kept.age) =< MaxCacheSize /\ Len(kept.age) \in Nat
  <2>1. Agree(kept.index, kept.age) /\ Len(kept.age) =< MaxCacheSize
    BY <1>1, <1>4, CacheAssumption, SizeAgree
  <2> QED
    BY <2>1 DEF Agree
<1>6. CASE scarce
  <2>1. PICK half : half = Len(kept.age) \div 2
    OBVIOUS
  <2>2. half \in Nat /\ r = CheckDBBlockCacheSize(kept, half)
    <3>1. half \in Nat
      <4>1. PICK n \in Nat : n = Len(kept.age)
        BY <1>5
      <4>2. n \div 2 \in Nat
        OBVIOUS
      <4> QED
        BY <2>1, <4>1, <4>2
    <3> QED
      BY <1>1, <1>6, <2>1, <3>1
  <2>3. Agree(r.index, r.age) /\ Len(r.age) =< Len(kept.age)
    BY <1>5, <2>2, SizeAgree
  <2>4. Len(r.age) \in Nat
    BY <2>3 DEF Agree
  <2> QED
    BY <1>5, <2>3, <2>4, CacheAssumption
<1>7. CASE ~scarce
  BY <1>1, <1>5, <1>7
<1> QED
  BY <1>6, <1>7

LEMMA UsedAgree ==
  ASSUME NEW c, NEW i \in DOMAIN c.index, Agree(c.index, c.age)
  PROVE  Agree(c.index, Append(Without(c.age, {i}), i)) /\ Len(Append(Without(c.age, {i}), i)) =< Len(c.age)
<1>1. PICK r, x : r = Kept(c.index, DOMAIN c.index \ {i}) /\ x = Without(c.age, {i})
  OBVIOUS
<1>2. DOMAIN r = DOMAIN c.index \ {i} /\ i \in Nat
  BY <1>1 DEF Kept, Agree
<1>3. Agree(r, x)
  BY <1>1, KeptAgree
<1>4. Agree(c.index, Append(x, i)) /\ Len(Append(x, i)) = Len(x) + 1
  <2>1. DOMAIN c.index = DOMAIN r \cup {i} /\ i \notin DOMAIN r
    BY <1>2
  <2> QED
    BY <1>2, <1>3, <2>1, PutAgree
<1>5. Len(x) < Len(c.age) /\ Len(x) \in Nat /\ Len(c.age) \in Nat
  <2>1. c.age \in Seq(Nat) /\ i \in Numbers(c.age)
    BY DEF Agree
  <2>2. PICK j \in 1 .. Len(c.age) : c.age[j] = i
    BY <2>1 DEF Numbers
  <2>3. Left(c.age, {i}, Len(c.age), x)
    BY <1>1, <2>1, WithoutIs
  <2>4. Len(x) < Len(c.age)
    BY <2>2, <2>3 DEF Left
  <2> QED
    BY <1>3, <2>1, <2>4 DEF Agree
<1> QED
  BY <1>1, <1>4, <1>5
-----------------------------------------------------------------------------
(* What is in the cache is what is in the file, and in both trees.         *)
Cached ==
  /\ file \in Seq(Position \cup {Hole})
  /\ DOMAIN byIndex \subseteq Nat
  /\ \A j \in DOMAIN byIndex : j < Len(file) /\ byIndex[j] = file[j + 1]

Trees == Agree(byIndex, byAge) /\ Len(byAge) =< MaxCacheSize

LEMMA CachedInit == CacheInit => Cached /\ Trees
<1> SUFFICES ASSUME CacheInit PROVE Cached /\ Trees
  OBVIOUS
<1>1. file = << >> /\ byIndex = << >> /\ byAge = << >>
  BY DEF CacheInit
<1>2. DOMAIN byIndex = {} /\ DOMAIN byAge = {} /\ Len(byAge) = 0 /\ byAge \in Seq(Nat)
  BY <1>1
<1> QED
  BY <1>1, <1>2, CacheAssumption DEF Cached, Trees, Agree, Once, Numbers

LEMMA TreesStep == ASSUME Cached, Trees, [CacheNext]_cacheVars PROVE Trees'
<1>1. Cache.index = byIndex /\ Cache.age = byAge /\ Agree(Cache.index, Cache.age)
  BY DEF Cache, Trees
<1>2. ASSUME NEW num \in 0 .. MaxRowNum, NEW scarce \in BOOLEAN, ReadMainIndex(num, scarce) PROVE Trees'
  <2>1. num \in Nat
    OBVIOUS
  <2>2. CASE num > GetMaxMainIndex
    BY <1>2, <2>2 DEF ReadMainIndex, Trees
  <2>3. CASE ~(num > GetMaxMainIndex) /\ num \in DOMAIN byIndex
    <3>1. byIndex' = Used(Cache, num).index /\ byAge' = Used(Cache, num).age
      BY <1>2, <2>3 DEF ReadMainIndex, SetCache
    <3>2. byIndex' = byIndex /\ byAge' = Append(Without(byAge, {num}), num)
      BY <3>1 DEF Used, Cache
    <3>3. Agree(byIndex, byAge') /\ Len(byAge') =< Len(byAge)
      BY <1>1, <2>3, <3>2, UsedAgree
    <3>4. Len(byAge') \in Nat /\ Len(byAge) \in Nat
      BY <3>3 DEF Agree, Trees
    <3> QED
      BY <3>2, <3>3, <3>4, CacheAssumption DEF Trees
  <2>4. CASE ~(num > GetMaxMainIndex) /\ num \notin DOMAIN byIndex
    <3>1. PICK r : r = AddItemToCache(Cache, num, file[num + 1], scarce)
      OBVIOUS
    <3>2. byIndex' = r.index /\ byAge' = r.age
      BY <1>2, <2>4, <3>1 DEF ReadMainIndex, SetCache
    <3> QED
      BY <1>1, <2>1, <3>1, <3>2, AddAgree DEF Trees
  <2> QED
    BY <2>2, <2>3, <2>4
<1>3. ASSUME NEW num \in 0 .. MaxRowNum, NEW scarce \in BOOLEAN, NEW position \in Position,
             WriteMainIndex(num, position, scarce)
      PROVE  Trees'
  <2>1. PICK r : r = AddItemToCache(Cache, num, position, scarce)
    OBVIOUS
  <2>2. byIndex' = r.index /\ byAge' = r.age /\ num \in Nat
    BY <1>3, <2>1 DEF WriteMainIndex, SetCache
  <2> QED
    BY <1>1, <2>1, <2>2, AddAgree DEF Trees
<1>4. ASSUME NEW num \in -1 .. GetMaxMainIndex, TruncateMain(num) PROVE Trees'
  <2>1. PICK gone : gone = {i \in DOMAIN byIndex : i > num}
    OBVIOUS
  <2>2. byIndex' = Kept(byIndex, DOMAIN byIndex \ gone) /\ byAge' = Without(byAge, gone)
    BY <1>1, <1>4, <2>1 DEF TruncateMain, SetCache, ClearCacheDBTree
  <2>3. Agree(byIndex', byAge') /\ Len(byAge') =< Len(byAge)
    BY <1>1, <2>2, KeptAgree
  <2>4. Len(byAge') \in Nat /\ Len(byAge) \in Nat
    BY <2>3 DEF Agree, Trees
  <2> QED
    BY <2>3, <2>4, CacheAssumption DEF Trees
<1>5. CASE Clear
  <2>1. byIndex' = << >> /\ byAge' = << >>
    BY <1>5 DEF Clear
  <2>2. DOMAIN byIndex' = {} /\ DOMAIN byAge' = {} /\ Len(byAge') = 0 /\ byAge' \in Seq(Nat)
    BY <2>1
  <2> QED
    BY <2>2, CacheAssumption DEF Trees, Agree, Once, Numbers
<1>6. CASE UNCHANGED cacheVars
  BY <1>6 DEF cacheVars, Trees
<1> QED
  BY <1>2, <1>3, <1>4, <1>5, <1>6 DEF CacheNext

(* Reading: the item read comes from the file, or was in the cache.        *)
LEMMA ReadStep ==
  ASSUME Cached, NEW num \in 0 .. MaxRowNum, NEW scarce, ReadMainIndex(num, scarce)
  PROVE Cached' /\ Rows!Read(num)
<1>1. file' = file /\ num \in Nat /\ Len(file) \in Nat
  BY DEF ReadMainIndex, Cached
<1>2. CASE num > GetMaxMainIndex
  <2>1. answer' = Nothing /\ byIndex' = byIndex
    BY <1>2 DEF ReadMainIndex
  <2>2. ~(num < Len(file))
    BY <1>1, <1>2 DEF GetMaxMainIndex
  <2> QED
    BY <1>1, <2>1, <2>2 DEF Cached, Rows!Read, Rows!Nothing, Nothing
<1>3. CASE ~(num > GetMaxMainIndex) /\ num \in DOMAIN byIndex
  <2>1. answer' = [row |-> byIndex[num]] /\ byIndex' = Used(Cache, num).index
    BY <1>3 DEF ReadMainIndex, SetCache
  <2>2. byIndex' = byIndex
    BY <2>1 DEF Used, Cache
  <2>3. num < Len(file) /\ byIndex[num] = file[num + 1]
    BY <1>3 DEF Cached
  <2> QED
    BY <1>1, <2>1, <2>2, <2>3 DEF Cached, Rows!Read
<1>4. CASE ~(num > GetMaxMainIndex) /\ num \notin DOMAIN byIndex
  <2>1. /\ answer' = [row |-> file[num + 1]]
        /\ byIndex' = AddItemToCache(Cache, num, file[num + 1], scarce).index
    BY <1>4 DEF ReadMainIndex, SetCache
  <2>2. num < Len(file)
    BY <1>1, <1>4 DEF GetMaxMainIndex
  <2>3. Cache.index = byIndex
    BY DEF Cache
  <2>4. \A j \in DOMAIN byIndex' :
          IF j = num THEN byIndex'[j] = file[num + 1]
          ELSE j \in DOMAIN byIndex /\ byIndex'[j] = byIndex[j]
    BY <2>1, <2>3, AddWithin
  <2>5. Cached'
    BY <1>1, <2>2, <2>4 DEF Cached
  <2> QED
    BY <1>1, <2>1, <2>2, <2>5 DEF Rows!Read
<1> QED
  BY <1>2, <1>3, <1>4

(* Writing: the row that is written is the item that is put in the cache.  *)
LEMMA WriteStep ==
  ASSUME Cached, NEW num \in 0 .. MaxRowNum, NEW position \in Position, NEW scarce,
         WriteMainIndex(num, position, scarce)
  PROVE Cached' /\ Rows!Write(num, position)
<1> DEFINE len == IF num < Len(file) THEN Len(file) ELSE num + 1
<1>1. /\ file' = [i \in 1 .. len |->
                    IF i = num + 1 THEN position ELSE IF i =< Len(file) THEN file[i] ELSE Hole]
      /\ byIndex' = AddItemToCache(Cache, num, position, scarce).index /\ answer' = answer
  BY DEF WriteMainIndex, SetCache
<1>2. num \in Nat /\ Len(file) \in Nat /\ len \in Nat /\ num < len /\ Len(file) =< len
  BY DEF Cached
<1>3. file' \in Seq(Position \cup {Hole}) /\ Len(file') = len
  <2>1. \A i \in 1 .. Len(file) : file[i] \in Position \cup {Hole}
    BY DEF Cached
  <2> QED
    BY <1>1, <1>2, <2>1
<1>4. Cache.index = byIndex
  BY DEF Cache
<1>5. \A j \in DOMAIN byIndex' :
        IF j = num THEN byIndex'[j] = position
        ELSE j \in DOMAIN byIndex /\ byIndex'[j] = byIndex[j]
  <2>1. byIndex' = AddItemToCache(Cache, num, position, scarce).index
    BY <1>1
  <2> QED
    BY <1>4, <2>1, AddWithin
<1>6. ASSUME NEW j \in DOMAIN byIndex' PROVE j \in Nat /\ j < len /\ byIndex'[j] = file'[j + 1]
  <2>1. CASE j = num
    <3>1. byIndex'[j] = position
      BY <1>5, <2>1
    <3> QED
      BY <1>1, <1>2, <2>1, <3>1
  <2>2. CASE j # num
    <3>1. j \in DOMAIN byIndex /\ byIndex'[j] = byIndex[j]
      BY <1>5, <2>2
    <3>2. j \in Nat /\ j < Len(file) /\ byIndex[j] = file[j + 1]
      BY <3>1 DEF Cached
    <3>3. j + 1 \in 1 .. len /\ j + 1 # num + 1 /\ j + 1 =< Len(file)
      BY <1>2, <2>2, <3>2
    <3> QED
      BY <1>1, <1>2, <3>1, <3>2, <3>3
  <2> QED
    BY <2>1, <2>2
<1>7. Cached'
  BY <1>2, <1>3, <1>6 DEF Cached
<1>8. Rows!Write(num, position)
  BY <1>1 DEF Rows!Write, Rows!Written
<1> QED
  BY <1>7, <1>8

(* Cutting off: the items of the rows that are gone are gone.              *)
LEMMA TruncateStep ==
  ASSUME Cached, NEW num \in -1 .. GetMaxMainIndex, TruncateMain(num)
  PROVE Cached' /\ Rows!Truncate(num)
<1>1. /\ file' = SubSeq(file, 1, num + 1) /\ answer' = answer
      /\ byIndex' = ClearCacheDBTree(Cache, num).index
  BY DEF TruncateMain, SetCache
<1>2. num \in Int /\ num + 1 \in 0 .. Len(file) /\ Len(file) \in Nat
  BY DEF GetMaxMainIndex, Cached
<1>3. Cache.index = byIndex
  BY DEF Cache
<1>4. DOMAIN byIndex \subseteq Nat
  BY DEF Cached
<1>5. Within(byIndex', byIndex) /\ \A j \in DOMAIN byIndex' : j =< num
  BY <1>1, <1>2, <1>3, <1>4, ClearWithin
<1>6. /\ file' \in Seq(Position \cup {Hole}) /\ Len(file') = num + 1
      /\ \A i \in 1 .. num + 1 : file'[i] = file[i]
  BY <1>1, <1>2 DEF Cached
<1>7. ASSUME NEW j \in DOMAIN byIndex' PROVE j \in Nat /\ j < Len(file') /\ byIndex'[j] = file'[j + 1]
  <2>1. j \in Nat /\ j =< num /\ byIndex'[j] = byIndex[j] /\ byIndex[j] = file[j + 1]
    BY <1>4, <1>5 DEF Within, Cached
  <2>2. j + 1 \in 1 .. num + 1 /\ j < num + 1
    BY <1>2, <2>1
  <2> QED
    BY <1>6, <2>1, <2>2
<1>8. Cached'
  BY <1>6, <1>7 DEF Cached
<1> QED
  BY <1>1, <1>8 DEF Rows!Truncate

LEMMA ClearStep ==
  ASSUME Cached, Clear PROVE Cached' /\ Rows!Truncate(-1) /\ -1 \in -1 .. Len(file) - 1
<1>1. file' = << >> /\ byIndex' = << >> /\ answer' = answer
  BY DEF Clear
<1>2. Cached'
  BY <1>1 DEF Cached
<1>3. SubSeq(file, 1, -1 + 1) = << >> /\ Len(file) \in Nat
  BY DEF Cached
<1> QED
  BY <1>1, <1>2, <1>3 DEF Rows!Truncate
-----------------------------------------------------------------------------
(* The cached index implements the file of rows: whatever is dropped from  *)
(* the cache, cut off and written again, ReadMainIndex returns what was    *)
(* written last, and the two trees of CCache hold the same items, no more  *)
(* than the cache may (IsRowFile), for every size of the cache.            *)
THEOREM CachedIsRowFile == CacheSpec => IsRowFile
<1>1. CacheInit => Rows!Init
  BY DEF CacheInit, Rows!Init, Nothing, Rows!Nothing
<1>2. Cached /\ [CacheNext]_cacheVars => Cached' /\ [Rows!Next]_<< file, answer >>
  <2> SUFFICES ASSUME Cached, [CacheNext]_cacheVars PROVE Cached' /\ [Rows!Next]_<< file, answer >>
    OBVIOUS
  <2>1. ASSUME NEW num \in 0 .. MaxRowNum, NEW scarce \in BOOLEAN, ReadMainIndex(num, scarce)
        PROVE Cached' /\ Rows!Next
    BY <2>1, ReadStep DEF Rows!Next
  <2>2. ASSUME NEW num \in 0 .. MaxRowNum, NEW scarce \in BOOLEAN, NEW position \in Position,
               WriteMainIndex(num, position, scarce)
        PROVE Cached' /\ Rows!Next
    BY <2>2, WriteStep DEF Rows!Next
  <2>3. ASSUME NEW num \in -1 .. GetMaxMainIndex, TruncateMain(num) PROVE Cached' /\ Rows!Next
    BY <2>3, TruncateStep DEF Rows!Next, GetMaxMainIndex
  <2>4. CASE Clear
    BY <2>4, ClearStep DEF Rows!Next
  <2>5. CASE UNCHANGED cacheVars
    BY <2>5 DEF cacheVars, Cached
  <2> QED
    BY <2>1, <2>2, <2>3, <2>4, <2>5 DEF CacheNext
<1>3. Cached /\ Trees /\ [CacheNext]_cacheVars => Trees'
  BY TreesStep
<1>4. Trees => TreesAgree
  BY DEF Trees, TreesAgree, Agree, Once
<1> QED
  BY <1>1, <1>2, <1>3, <1>4, CachedInit, PTL DEF CacheSpec, IsRowFile, Rows!Spec
-----------------------------------------------------------------------------
(* LiderList: the strongest hash stays the first of the list, for any      *)
(* hashes, powers and miners and any length of the list.                   *)
LiderOK == list \in Seq(Block) /\ offered \subseteq Block /\ HeadIsBest

(* Sorted: stronger hashes first.                                          *)
Falls(s) == \A i, j \in DOMAIN s : i < j => Weaker(s[j], s[i])

(* Of two hashes one is weaker.                                            *)
LEMMA WeakerIs ==
  /\ \A a, b \in Block : ~(Weaker(a, b) /\ Weaker(b, a)) /\ (a # b => Weaker(a, b) \/ Weaker(b, a))
  /\ \A a \in Block : ~Weaker(a, a)
  /\ \A a, b, c \in Block : Weaker(a, b) /\ Weaker(b, c) => Weaker(a, c)
<1>1. \A a \in Block : Power[a] \in Nat /\ Rank[a] \in Nat
  BY WorkAssumption
<1>2. \A a, b \in Block : Rank[a] = Rank[b] => a = b
  BY WorkAssumption
<1> QED
  BY <1>1, <1>2 DEF Weaker

(* The hashes before which b does not come are the first ones.             *)
LEMMA StrongerIs ==
  ASSUME NEW s \in Seq(Block), NEW b \in Block
  PROVE  \E k \in 0 .. Len(s) :
           /\ Stronger(s, b) = 1 .. k /\ Cardinality(Stronger(s, b)) = k
           /\ k < Len(s) => Weaker(s[k + 1], b)
<1> DEFINE D == Stronger(s, b)
<1>1. Len(s) \in Nat /\ D \subseteq 1 .. Len(s) /\ \A n \in D : \A m \in 1 .. n : m \in D
  BY DEF Stronger
<1>2. \E k \in 0 .. Len(s) : D = 1 .. k
  <2>1. CASE D = {}
    <3>1. 0 \in 0 .. Len(s) /\ 1 .. 0 = {}
      BY <1>1
    <3> HIDE DEF D
    <3> QED
      BY <2>1, <3>1
  <2>2. CASE D # {}
    <3>1. D \subseteq 0 .. Len(s)
      BY <1>1
    <3>2. Max(D) \in D /\ \A m \in D : m =< Max(D)
      BY <1>1, <2>2, <3>1, GreatestIn
    <3>3. PICK k : k = Max(D)
      OBVIOUS
    <3> HIDE DEF D
    <3>4. k \in D /\ \A m \in D : m =< k
      BY <3>2, <3>3
    <3>5. k \in 0 .. Len(s) /\ k \in Nat
      BY <1>1, <3>4
    <3>6. D \subseteq 1 .. k
      BY <1>1, <3>4
    <3>7. 1 .. k \subseteq D
      BY <1>1, <3>4
    <3> QED
      BY <3>5, <3>6, <3>7
  <2> QED
    BY <2>1, <2>2
<1>3. PICK k \in 0 .. Len(s) : D = 1 .. k
  BY <1>2
<1>4. Cardinality(D) = k
  <2>1. 1 \in Int /\ k \in Int /\ k - 1 + 1 = k /\ (1 > k => k = 0)
    BY <1>1, <1>3
  <2>2. Cardinality(1 .. k) = IF 1 > k THEN 0 ELSE k - 1 + 1
    BY <2>1, FS_Interval
  <2> QED
    BY <1>3, <2>1, <2>2
<1>5. ASSUME k < Len(s) PROVE Weaker(s[k + 1], b)
  <2>1. k + 1 \in DOMAIN s /\ k + 1 \notin D
    BY <1>1, <1>3, <1>5
  <2>2. PICK m \in 1 .. k + 1 : Weaker(s[m], b)
    BY <2>1 DEF Stronger
  <2>3. ~(m \in 1 .. k)
    <3>1. SUFFICES ASSUME m \in 1 .. k PROVE FALSE
      OBVIOUS
    <3>2. m \in D
      BY <1>3, <3>1
    <3>3. m \in 1 .. m
      BY <1>3, <3>1
    <3> QED
      BY <2>2, <3>2, <3>3 DEF Stronger
  <2> QED
    BY <1>1, <1>3, <2>2, <2>3
<1> QED
  BY <1>3, <1>4, <1>5

(* A sorted list of hashes that are not b with b at its place is sorted.   *)
LEMMA GrownFalls ==
  ASSUME NEW s \in Seq(Block), Falls(s), NEW b \in Block, ~IsDouble(s, b),
         NEW at, at = Place(s, b),
         NEW r, r = IF at = 0 THEN s ELSE InsertAt(s, at, b)
  PROVE  /\ r \in Seq(Block) /\ Falls(r) /\ Len(r) \in Nat /\ Len(r) > 0
         /\ \A i \in DOMAIN r : r[i] = b \/ \E j \in DOMAIN s : r[i] = s[j]
         /\ r[1] = b \/ (s # << >> /\ r[1] = s[1])
         /\ ~Weaker(r[1], b) /\ (s # << >> => ~Weaker(r[1], s[1]))
<1>1. PICK k \in 0 .. Len(s) :
        /\ Stronger(s, b) = 1 .. k /\ Cardinality(Stronger(s, b)) = k
        /\ k < Len(s) => Weaker(s[k + 1], b)
  BY StrongerIs
<1>2. Len(s) \in Nat /\ MaxLeader \in Nat /\ MaxLeader > 0 /\ k \in Nat /\ k =< Len(s)
  BY WorkAssumption
<1>3. \A i \in 1 .. Len(s) : s[i] \in Block
  OBVIOUS
<1>4. ASSUME NEW i \in 1 .. Len(s), i =< k PROVE Weaker(b, s[i])
  <2>1. i \in Stronger(s, b) /\ i \in 1 .. i
    BY <1>1, <1>2, <1>4
  <2>2. ~Weaker(s[i], b)
    BY <2>1 DEF Stronger
  <2>3. s[i] # b
    BY <2>1 DEF IsDouble
  <2> QED
    BY <1>3, <2>2, <2>3, WeakerIs
<1>5. ASSUME NEW i \in 1 .. Len(s), k < i PROVE Weaker(s[i], b)
  <2>1. k + 1 \in 1 .. Len(s) /\ Weaker(s[k + 1], b) /\ (k + 1 = i \/ k + 1 < i)
    BY <1>1, <1>2, <1>5
  <2>2. k + 1 < i => Weaker(s[i], s[k + 1])
    BY <2>1 DEF Falls
  <2> QED
    BY <1>3, <2>1, <2>2, WeakerIs
<1>6. at = IF k + 1 =< Len(s) \/ Len(s) < MaxLeader THEN k + 1 ELSE 0
  BY <1>1 DEF Place
<1>7. CASE at = 0
  <2>1. r = s /\ k = Len(s) /\ Len(s) > 0
    BY <1>2, <1>6, <1>7
  <2>2. 1 \in 1 .. Len(s) /\ 1 =< k
    BY <1>2, <2>1
  <2>3. Weaker(b, s[1]) /\ s[1] \in Block
    BY <1>3, <1>4, <2>2
  <2> QED
    BY <1>2, <2>1, <2>2, <2>3, WeakerIs
<1>8. CASE at # 0
  <2>1. at = k + 1
    BY <1>6, <1>8
  <2>2. PICK left, right : left = SubSeq(s, 1, k) /\ right = SubSeq(s, k + 1, Len(s))
    OBVIOUS
  <2>3. /\ left \in Seq(Block) /\ Len(left) = k /\ \A i \in 1 .. k : left[i] = s[i]
        /\ right \in Seq(Block) /\ Len(right) = Len(s) - k /\ \A i \in 1 .. Len(s) - k : right[i] = s[k + i]
    <3>1. left \in Seq(Block) /\ Len(left) = k /\ \A i \in 1 .. k : left[i] = s[i]
      BY <1>2, <2>2
    <3>2. right \in Seq(Block) /\ Len(right) = Len(s) - k
      BY <1>2, <2>2
    <3>3. \A i \in 1 .. Len(s) - k : right[i] = s[k + i]
      BY <1>2, <2>2
    <3> QED
      BY <3>1, <3>2, <3>3
  <2>4. r = (left \o << b >>) \o right
    <3>1. r = InsertAt(s, k + 1, b) /\ (k + 1) - 1 = k
      BY <1>2, <1>8, <2>1
    <3> QED
      BY <2>2, <3>1 DEF InsertAt
  <2>5. PICK first : first = left \o << b >>
    OBVIOUS
  <2>6. /\ first \in Seq(Block) /\ Len(first) = k + 1
        /\ \A i \in 1 .. k : first[i] = s[i]
        /\ first[k + 1] = b
    <3>1. << b >> \in Seq(Block) /\ Len(<< b >>) = 1 /\ << b >>[1] = b
      OBVIOUS
    <3>2. /\ first \in Seq(Block) /\ Len(first) = k + 1
          /\ \A i \in 1 .. k + 1 : first[i] = IF i =< k THEN left[i] ELSE << b >>[i - k]
      BY <2>3, <2>5, <3>1, ConcatProperties
    <3>3. k + 1 \in 1 .. k + 1 /\ ~(k + 1 =< k) /\ (k + 1) - k = 1
      BY <1>2
    <3>4. \A i \in 1 .. k : i \in 1 .. k + 1 /\ i =< k
      BY <1>2
    <3> QED
      BY <2>3, <3>1, <3>2, <3>3, <3>4
  <2>7. /\ r \in Seq(Block) /\ Len(r) = Len(s) + 1
        /\ \A i \in 1 .. k + 1 : r[i] = first[i]
        /\ \A i \in 1 .. Len(s) - k : r[k + 1 + i] = s[k + i]
    <3>0. /\ r \in Seq(Block) /\ Len(r) = Len(first) + Len(right)
          /\ \A i \in 1 .. Len(first) + Len(right) :
               r[i] = IF i =< Len(first) THEN first[i] ELSE right[i - Len(first)]
      <4>1. r = first \o right /\ first \in Seq(Block) /\ right \in Seq(Block)
        BY <2>3, <2>4, <2>5, <2>6
      <4>2. r \in Seq(Block) /\ Len(r) = Len(first) + Len(right)
        BY <4>1, ConcatProperties
      <4> QED
        BY <4>1, <4>2, ConcatProperties
    <3>1. r \in Seq(Block) /\ Len(r) = Len(s) + 1
      BY <1>2, <2>3, <2>6, <3>0
    <3>2. \A i \in 1 .. Len(r) : r[i] = IF i =< Len(first) THEN first[i] ELSE right[i - Len(first)]
      BY <3>0
    <3>3. ASSUME NEW i \in 1 .. Len(s) - k PROVE r[k + 1 + i] = s[k + i]
      <4>1. k + 1 + i \in 1 .. Len(r) /\ ~(k + 1 + i =< Len(first)) /\ (k + 1 + i) - Len(first) = i
        BY <1>2, <2>6, <3>1
      <4> QED
        BY <2>3, <3>2, <4>1
    <3> QED
      BY <1>2, <2>6, <3>1, <3>2, <3>3
  <2>8. /\ \A i \in 1 .. k : r[i] = s[i]
        /\ r[k + 1] = b
        /\ \A i \in 1 .. Len(r) : i > k + 1 => i - 1 \in 1 .. Len(s) /\ k < i - 1 /\ r[i] = s[i - 1]
    <3>1. ASSUME NEW i \in 1 .. Len(r), i > k + 1 PROVE i - 1 \in 1 .. Len(s) /\ k < i - 1 /\ r[i] = s[i - 1]
      <4>0. i \in Nat /\ i =< Len(s) + 1
        BY <1>2, <2>7
      <4>1. i - (k + 1) \in 1 .. Len(s) - k /\ k + 1 + (i - (k + 1)) = i /\ k + (i - (k + 1)) = i - 1
        BY <1>2, <3>1, <4>0
      <4>2. r[i] = s[i - 1]
        BY <2>7, <4>1
      <4> QED
        BY <1>2, <3>1, <4>0, <4>2
    <3> QED
      BY <1>2, <2>6, <2>7, <3>1
  <2>9. Falls(r)
    <3>1. SUFFICES ASSUME NEW i \in 1 .. Len(r), NEW j \in 1 .. Len(r), i < j PROVE Weaker(r[j], r[i])
      BY <2>7 DEF Falls
    <3>2. CASE j =< k
      <4>1. i \in DOMAIN s /\ j \in DOMAIN s /\ r[i] = s[i] /\ r[j] = s[j]
        BY <1>2, <2>8, <3>1, <3>2
      <4> QED
        BY <3>1, <4>1 DEF Falls
    <3>3. CASE j = k + 1
      <4>1. i \in 1 .. Len(s) /\ i =< k /\ r[i] = s[i] /\ r[j] = b
        BY <1>2, <2>8, <3>1, <3>3
      <4> QED
        BY <1>4, <4>1
    <3>4. CASE j > k + 1 /\ i = k + 1
      <4>1. j - 1 \in 1 .. Len(s) /\ k < j - 1 /\ r[j] = s[j - 1] /\ r[i] = b
        BY <2>8, <3>4
      <4> QED
        BY <1>5, <4>1
    <3>5. CASE j > k + 1 /\ i > k + 1
      <4>1. /\ j - 1 \in DOMAIN s /\ r[j] = s[j - 1]
            /\ i - 1 \in DOMAIN s /\ r[i] = s[i - 1] /\ i - 1 < j - 1
        BY <2>8, <3>1, <3>5
      <4> QED
        BY <4>1 DEF Falls
    <3>6. CASE j > k + 1 /\ i =< k
      <4>1. /\ j - 1 \in 1 .. Len(s) /\ k < j - 1 /\ r[j] = s[j - 1]
            /\ i \in 1 .. Len(s) /\ r[i] = s[i] /\ i < j - 1
        BY <1>2, <2>8, <3>1, <3>6
      <4> QED
        BY <4>1 DEF Falls
    <3> QED
      BY <1>2, <2>7, <3>2, <3>3, <3>4, <3>5, <3>6
  <2>10. ASSUME NEW i \in DOMAIN r PROVE r[i] = b \/ \E j \in DOMAIN s : r[i] = s[j]
    <3>0. i \in 1 .. Len(r) /\ Len(r) = Len(s) + 1
      BY <2>7
    <3>1. CASE i =< k
      <4>1. i \in 1 .. k /\ i \in DOMAIN s
        BY <1>2, <3>0, <3>1
      <4> QED
        BY <2>8, <4>1
    <3>2. CASE i = k + 1
      BY <2>8, <3>2
    <3>3. CASE i > k + 1
      <4>1. i - 1 \in DOMAIN s /\ r[i] = s[i - 1]
        BY <2>8, <3>0, <3>3
      <4> QED
        BY <4>1
    <3> QED
      BY <1>2, <3>0, <3>1, <3>2, <3>3
  <2>11. CASE k = 0
    <3>1. r[1] = b
      BY <2>8, <2>11
    <3>2. s # << >> => Weaker(s[1], b) /\ s[1] \in Block
      BY <1>1, <1>2, <1>3, <2>11
    <3> QED
      BY <1>2, <2>7, <2>9, <2>10, <3>1, <3>2, WeakerIs
  <2>12. CASE k # 0
    <3>1. 1 \in 1 .. Len(s) /\ 1 =< k /\ r[1] = s[1]
      BY <1>2, <2>8, <2>12
    <3>2. Weaker(b, s[1]) /\ s[1] \in Block /\ s # << >>
      BY <1>3, <1>4, <3>1
    <3> QED
      BY <1>2, <2>7, <2>9, <2>10, <3>1, <3>2, WeakerIs
  <2> QED
    BY <2>11, <2>12
<1> QED
  BY <1>7, <1>8

(* What the removals leave of a sorted list: the first hash and, in their  *)
(* order, those that stay.                                                 *)
KeptOf(cut, stays, i, x) ==
  /\ x \in Seq(Block) /\ Len(x) \in Nat /\ Len(x) =< i /\ Falls(x)
  /\ i > 0 => Len(x) > 0 /\ x[1] = cut[1]
  /\ \A j \in DOMAIN x : \E m \in 1 .. i : m \in stays /\ x[j] = cut[m]

LEMMA KeptFalls ==
  ASSUME NEW cut \in Seq(Block), Falls(cut), NEW stays, Len(cut) > 0 => 1 \in stays, NEW s,
         s = LET kept[i \in 0 .. Len(cut)] ==
                   IF i = 0 THEN << >>
                   ELSE IF i \in stays THEN Append(kept[i - 1], cut[i]) ELSE kept[i - 1]
             IN  kept[Len(cut)]
  PROVE  KeptOf(cut, stays, Len(cut), s)
<1>1. PICK N, T : N = Len(cut) /\ T = Seq(Block)
  OBVIOUS
<1>2. N \in Nat /\ << >> \in T /\ \A i \in 1 .. N : cut[i] \in Block
  BY <1>1
<1> DEFINE Turn(x, i) == IF i \in stays THEN Append(x, cut[i]) ELSE x
           Is(h) == h = [i \in 0 .. N |-> IF i = 0 THEN << >> ELSE Turn(h[i - 1], i)]
           h == CHOOSE x : Is(x)
<1>3. ASSUME NEW i \in 1 .. N, NEW x \in T PROVE Turn(x, i) \in T
  BY <1>1, <1>2
<1>4. KeptOf(cut, stays, 0, << >>)
  BY DEF KeptOf, Falls
<1>5. ASSUME NEW i \in 1 .. N, NEW x, KeptOf(cut, stays, i - 1, x) PROVE KeptOf(cut, stays, i, Turn(x, i))
  <2>1. x \in Seq(Block) /\ Len(x) \in Nat /\ Len(x) =< i - 1 /\ i \in Nat /\ cut[i] \in Block /\ i =< Len(cut)
    BY <1>1, <1>2, <1>5 DEF KeptOf
  <2>2. \A j \in DOMAIN x : \E m \in 1 .. i - 1 : m \in stays /\ x[j] = cut[m]
    BY <1>5 DEF KeptOf
  <2>3. i > 1 => Len(x) > 0 /\ x[1] = cut[1]
    BY <1>5, <2>1 DEF KeptOf
  <2>4. Falls(x)
    BY <1>5 DEF KeptOf
  <2>5. CASE i \notin stays
    <3>1. Turn(x, i) = x /\ i > 1
      BY <1>1, <1>2, <2>1, <2>5
    <3>2. 1 .. i - 1 \subseteq 1 .. i
      BY <2>1
    <3> HIDE DEF Turn
    <3> QED
      BY <2>1, <2>2, <2>3, <2>4, <3>1, <3>2 DEF KeptOf
  <2>6. CASE i \in stays
    <3>1. PICK y : y = Append(x, cut[i])
      OBVIOUS
    <3>2. /\ y \in Seq(Block) /\ Len(y) = Len(x) + 1 /\ DOMAIN y = 1 .. Len(x) + 1
          /\ \A j \in 1 .. Len(x) : y[j] = x[j]
          /\ y[Len(x) + 1] = cut[i]
      BY <2>1, <3>1
    <3>3. Falls(y)
      <4>1. SUFFICES ASSUME NEW j \in 1 .. Len(x) + 1, NEW l \in 1 .. Len(x) + 1, j < l PROVE Weaker(y[l], y[j])
        BY <3>2 DEF Falls
      <4>2. j \in DOMAIN x /\ y[j] = x[j]
        BY <2>1, <3>2, <4>1
      <4>3. CASE l \in 1 .. Len(x)
        BY <2>1, <2>4, <3>2, <4>1, <4>2, <4>3 DEF Falls
      <4>4. CASE l = Len(x) + 1
        <5>1. PICK m \in 1 .. i - 1 : x[j] = cut[m]
          BY <2>2, <4>2
        <5>2. m \in DOMAIN cut /\ i \in DOMAIN cut /\ m < i
          BY <2>1
        <5>3. Weaker(cut[i], cut[m])
          BY <5>2 DEF Falls
        <5> QED
          BY <3>2, <4>2, <4>4, <5>1, <5>3
      <4> QED
        BY <2>1, <4>3, <4>4
    <3>4. Len(y) > 0 /\ y[1] = cut[1]
      <4>1. CASE i = 1
        <5>1. Len(x) = 0
          BY <2>1, <4>1
        <5> QED
          BY <3>2, <4>1, <5>1
      <4>2. CASE i > 1
        BY <2>1, <2>3, <3>2, <4>2
      <4> QED
        BY <2>1, <4>1, <4>2
    <3>5. ASSUME NEW j \in DOMAIN y PROVE \E m \in 1 .. i : m \in stays /\ y[j] = cut[m]
      <4>1. CASE j \in 1 .. Len(x)
        <5>1. PICK m \in 1 .. i - 1 : m \in stays /\ x[j] = cut[m]
          BY <2>1, <2>2, <4>1
        <5>2. m \in 1 .. i
          BY <2>1
        <5> QED
          BY <3>2, <4>1, <5>1, <5>2
      <4>2. CASE j = Len(x) + 1
        <5>1. i \in 1 .. i
          BY <1>2
        <5> QED
          BY <2>6, <3>2, <4>2, <5>1
      <4> QED
        BY <2>1, <3>2, <4>1, <4>2
    <3>6. Turn(x, i) = y
      BY <2>6, <3>1
    <3> HIDE DEF Turn
    <3> QED
      BY <2>1, <3>2, <3>3, <3>4, <3>5, <3>6 DEF KeptOf
  <2> QED
    BY <2>5, <2>6
<1>6. s = h[N]
  BY <1>1
<1> HIDE DEF Turn
<1>7. \E f : Is(f)
  <2>1. PICK G : G = [i \in 1 .. N |-> [x \in T |-> Turn(x, i)]]
    OBVIOUS
  <2>2. G \in [1 .. N -> [T -> T]]
    BY <1>3, <2>1
  <2>3. Taken(N, T, << >>, G)
    BY <1>2, <2>2, Turns
  <2>4. PICK f \in [0 .. N -> T] : f[0] = << >> /\ \A i \in 1 .. N : f[i] = G[i][f[i - 1]]
    BY <2>3 DEF Taken
  <2>5. ASSUME NEW i \in 0 .. N PROVE f[i] = IF i = 0 THEN << >> ELSE Turn(f[i - 1], i)
    <3>1. CASE i # 0
      <4>1. i \in 1 .. N /\ i - 1 \in 0 .. N
        BY <1>2, <3>1
      <4>2. f[i - 1] \in T /\ f[i] = G[i][f[i - 1]]
        BY <2>4, <4>1
      <4> QED
        BY <2>1, <3>1, <4>1, <4>2
    <3> QED
      BY <2>4, <3>1
  <2> QED
    BY <2>5
<1>8. Is(h)
  BY <1>7
<1> HIDE DEF h
<1>9. KeptOf(cut, stays, N, h[N])
  <2> DEFINE Q == {i \in 0 .. N : KeptOf(cut, stays, i, h[i])}
  <2>1. 0 \in Q
    BY <1>2, <1>4, <1>8
  <2>2. ASSUME NEW i \in 1 .. N, i - 1 \in Q PROVE i \in Q
    <3>1. h[i] = Turn(h[i - 1], i) /\ KeptOf(cut, stays, i - 1, h[i - 1]) /\ i \in 0 .. N
      BY <1>2, <1>8, <2>2
    <3> QED
      BY <1>5, <3>1
  <2> HIDE DEF Q
  <2>3. \A i \in 0 .. N : i \in Q
    BY <1>2, <2>1, <2>2, OneByOne
  <2> QED
    BY <1>2, <2>3 DEF Q
<1> QED
  BY <1>1, <1>6, <1>9

LEMMA AddLiderKeeps ==
  ASSUME LiderOK, NEW b \in Block, ~IsDouble(list, b), NEW r, r = AddLider(list, b)
  PROVE  /\ r \in Seq(Block) /\ r # << >> /\ Len(r) =< MaxLeader /\ Falls(r)
         /\ r[1] = b \/ r[1] \in offered
         /\ \A c \in offered \cup {b} : ~Weaker(r[1], c)
         /\ \A i \in DOMAIN r : Power[r[1]] < Power[r[i]] + MaxSpread
<1>1. PICK at, grown : at = Place(list, b) /\ grown = IF at = 0 THEN list ELSE InsertAt(list, at, b)
  OBVIOUS
<1>2. list \in Seq(Block) /\ Falls(list) /\ offered \subseteq Block
  BY DEF LiderOK, HeadIsBest, Falls
<1>3. /\ grown \in Seq(Block) /\ Falls(grown) /\ Len(grown) \in Nat /\ Len(grown) > 0
      /\ grown[1] = b \/ (list # << >> /\ grown[1] = list[1])
      /\ ~Weaker(grown[1], b) /\ (list # << >> => ~Weaker(grown[1], list[1]))
  BY <1>1, <1>2, GrownFalls
<1>4. PICK len : len = IF Len(grown) > MaxLeader THEN MaxLeader ELSE Len(grown)
  OBVIOUS
<1>5. MaxLeader \in Nat /\ MaxLeader > 0 /\ len \in Nat /\ len > 0 /\ len =< Len(grown) /\ len =< MaxLeader
  BY <1>3, <1>4, WorkAssumption
<1>6. PICK cut : cut = SubSeq(grown, 1, len)
  OBVIOUS
<1>7. cut \in Seq(Block) /\ Len(cut) = len /\ \A i \in 1 .. len : cut[i] = grown[i]
  BY <1>3, <1>5, <1>6
<1>8. Falls(cut)
  <2>1. \A i \in 1 .. len : i \in DOMAIN grown
    BY <1>3, <1>5
  <2> QED
    BY <1>3, <1>7, <2>1 DEF Falls
<1>9. PICK stays : stays = {n \in DOMAIN cut :
                              n > 1 => /\ Power[cut[1]] < Power[cut[n]] + MaxSpread
                                       /\ ~(n > at /\ Miner[cut[n]] = Miner[b])}
  OBVIOUS
<1>10. 1 \in stays
  BY <1>5, <1>7, <1>9
<1>11. r = LET kept[i \in 0 .. Len(cut)] ==
                 IF i = 0 THEN << >>
                 ELSE IF i \in stays THEN Append(kept[i - 1], cut[i]) ELSE kept[i - 1]
           IN  kept[Len(cut)]
  BY <1>1, <1>4, <1>6, <1>9 DEF AddLider
<1>12. KeptOf(cut, stays, Len(cut), r)
  BY <1>7, <1>8, <1>10, <1>11, KeptFalls, SMTT(30)
<1>13. r \in Seq(Block) /\ Len(r) \in Nat /\ Len(r) > 0 /\ Len(r) =< MaxLeader /\ Falls(r) /\ r[1] = grown[1]
  <2>1. 1 \in 1 .. len
    BY <1>5
  <2> QED
    BY <1>5, <1>7, <1>12, <2>1 DEF KeptOf
<1>14. grown[1] \in Block
  BY <1>3
<1>15. grown[1] = b \/ grown[1] \in offered
  BY <1>3 DEF LiderOK, HeadIsBest
<1>16. ASSUME NEW c \in offered \cup {b} PROVE ~Weaker(r[1], c)
  <2>1. CASE c = b
    BY <1>3, <1>13, <2>1
  <2>2. CASE c \in offered
    <3>1. list # << >> /\ ~Weaker(list[1], c) /\ list[1] \in Block /\ c \in Block
      BY <1>2, <2>2 DEF LiderOK, HeadIsBest
    <3> QED
      BY <1>3, <1>13, <1>14, <3>1, WeakerIs
  <2> QED
    BY <1>16, <2>1, <2>2
<1>17. ASSUME NEW i \in DOMAIN r PROVE Power[r[1]] < Power[r[i]] + MaxSpread
  <2>1. PICK m \in 1 .. Len(cut) : m \in stays /\ r[i] = cut[m]
    BY <1>12 DEF KeptOf
  <2>2. r[1] = cut[1] /\ cut[1] \in Block /\ Power[cut[1]] \in Nat
    <3>1. r[1] = cut[1] /\ cut[1] \in Block
      BY <1>5, <1>7, <1>13, <1>14
    <3> QED
      BY <3>1, WorkAssumption
  <2>3. CASE m = 1
    BY <2>1, <2>2, <2>3 DEF MaxSpread
  <2>4. CASE m # 1
    BY <1>5, <1>7, <1>9, <2>1, <2>2, <2>4
  <2> QED
    BY <2>3, <2>4
<1> QED
  BY <1>13, <1>15, <1>16, <1>17

(* The first hash of the leader list is the best that has ever arrived,    *)
(* and the list is sorted, short and not too deep (HeadIsBest): no cut and *)
(* no removal of AddHashToMaxLider loses the best, whatever arrives again. *)
THEOREM HeadStaysBest == LiderSpec => []HeadIsBest
<1>1. LiderInit => LiderOK
  <2> SUFFICES ASSUME LiderInit PROVE LiderOK
    OBVIOUS
  <2>1. list = << >> /\ list \in Seq(Block) /\ Len(list) = 0 /\ DOMAIN list = {} /\ offered = {}
    BY DEF LiderInit
  <2>2. 0 =< MaxLeader
    BY WorkAssumption
  <2> QED
    BY <2>1, <2>2 DEF LiderOK, HeadIsBest
<1>2. ASSUME LiderOK, [LiderNext]_liderVars PROVE LiderOK'
  <2>1. CASE UNCHANGED liderVars
    BY <1>2, <2>1 DEF liderVars, LiderOK, HeadIsBest
  <2>2. CASE LiderNext
    <3>1. PICK b \in Block : Offer(b)
      BY <2>2 DEF LiderNext
    <3>2. offered' = offered \cup {b} /\ offered \subseteq Block
      BY <1>2, <3>1 DEF Offer, LiderOK
    <3>3. CASE IsDouble(list, b)
      <4>1. list' = list
        BY <3>1, <3>3 DEF Offer
      <4>2. PICK n \in Stronger(list, b) : list[n] = b
        BY <3>3 DEF IsDouble
      <4>3. n \in DOMAIN list /\ list # << >> /\ 1 \in 1 .. n /\ list \in Seq(Block)
        BY <1>2, <4>2 DEF Stronger, LiderOK
      <4>4. ~Weaker(list[1], b)
        BY <4>2, <4>3 DEF Stronger
      <4> QED
        BY <1>2, <3>2, <4>1, <4>3, <4>4 DEF LiderOK, HeadIsBest
    <3>4. CASE ~IsDouble(list, b)
      <4>1. list' = AddLider(list, b)
        BY <3>1, <3>4 DEF Offer
      <4>2. /\ list' \in Seq(Block) /\ list' # << >> /\ Len(list') =< MaxLeader /\ Falls(list')
            /\ list'[1] = b \/ list'[1] \in offered
            /\ \A c \in offered \cup {b} : ~Weaker(list'[1], c)
            /\ \A i \in DOMAIN list' : Power[list'[1]] < Power[list'[i]] + MaxSpread
        BY <1>2, <3>4, <4>1, AddLiderKeeps
      <4> QED
        BY <3>2, <4>2 DEF LiderOK, HeadIsBest, Falls
    <3> QED
      BY <3>3, <3>4
  <2> QED
    BY <1>2, <2>1, <2>2
<1>3. LiderOK => HeadIsBest
  BY DEF LiderOK
<1> QED
  BY <1>1, <1>2, <1>3, PTL DEF LiderSpec
-----------------------------------------------------------------------------
(* JumpIndex: the searches through the jump pointers find what the walks   *)
(* without them find, for every universe of blocks and every order in      *)
(* which headers and bodies arrive and the main chain moves.               *)

(* A pointer leads down the chain, and never past what a search looks for: *)
(* a block without its parent, or a block without its body.                *)
Leads(b, to) == to \in known /\ Num[to] < Num[b] /\ Anc[b][Num[to]] = to
LinksH(b, to) == Leads(b, to) /\ \A n \in Num[to] + 1 .. Num[b] : HasPrev(Anc[b][n])
LinksB(b, to) == Leads(b, to) /\ \A n \in Num[to] + 1 .. Num[b] : ~NeedBody(Anc[b][n])

JumpOK ==
  /\ now \in Nat /\ tip \in known /\ known \subseteq Block /\ full \subseteq known
  /\ DOMAIN toH = Block /\ DOMAIN toB = Block
  /\ \A b \in Block : (toH[b] # NoJump => LinksH(b, toH[b])) /\ (toB[b] # NoJump => LinksB(b, toB[b]))
  /\ \A n \in 0 .. Num[tip] : Anc[tip][n] \in known /\ ~NeedBody(Anc[tip][n])

LEMMA NumIs == MaxNum \in Nat /\ \A b \in Block : Num[b] \in Nat /\ Num[b] =< MaxNum
<1>1. Num \in [Block -> 0 .. MaxNum] /\ MaxNum \in Nat
  BY BlocksAssumption DEF Heights
<1> QED
  BY <1>1

LEMMA AncIs ==
  ASSUME NEW b \in Block, NEW n \in 0 .. Num[b]
  PROVE  n \in Nat /\ Anc[b][n] \in Block /\ Num[Anc[b][n]] = n
<1>1. Num[b] \in Nat /\ Num[b] =< MaxNum /\ MaxNum \in Nat
  BY NumIs
<1>2. n \in Heights /\ n \in Nat
  BY <1>1 DEF Heights
<1>3. Anc[b][n] \in Block
  BY <1>2, BlocksAssumption
<1>4. CASE n > 0
  <2>1. n \in 1 .. Num[b]
    BY <1>1, <1>2, <1>4
  <2> QED
    BY <1>2, <1>3, <2>1, BlocksAssumption
<1>5. CASE n = 0 /\ Num[b] = 0
  BY <1>3, <1>5, BlocksAssumption
<1>6. CASE n = 0 /\ Num[b] # 0
  <2>1. 1 \in 1 .. Num[b] /\ 1 \in Heights /\ 1 - 1 = 0
    BY <1>1, <1>6 DEF Heights
  <2>2. PICK x : x = Anc[b][1]
    OBVIOUS
  <2>3. x \in Block /\ Num[x] = 1 /\ Anc[b][0] = Prev[x]
    <3>1. x \in Block /\ Num[x] = 1
      BY <2>1, <2>2, BlocksAssumption
    <3>2. Anc[b][1 - 1] = Prev[x]
      BY <2>1, <2>2, BlocksAssumption
    <3> QED
      BY <2>1, <3>1, <3>2
  <2>4. Num[x] > 0
    BY <2>3
  <2>5. Num[Prev[x]] = Num[x] - 1
    BY <2>3, <2>4, BlocksAssumption
  <2> QED
    BY <1>2, <1>3, <1>6, <2>3, <2>5
<1> QED
  BY <1>1, <1>2, <1>4, <1>5, <1>6

(* The ancestors of an ancestor, and of the block itself.                  *)
LEMMA AncAnc ==
  ASSUME NEW b \in Block, NEW n \in 0 .. Num[b]
  PROVE  \A k \in 0 .. n : Anc[Anc[b][n]][k] = Anc[b][k]
<1>1. PICK x : x = Anc[b][n]
  OBVIOUS
<1>2. x \in Block /\ Num[x] = n /\ n \in Nat /\ Num[b] \in Nat /\ Anc[x][n] = Anc[b][n]
  <2>1. x \in Block /\ Num[x] = n /\ n \in Nat
    BY <1>1, AncIs
  <2>2. Anc[x][Num[x]] = x
    BY <2>1, BlocksAssumption
  <2> QED
    BY <1>1, <2>1, <2>2, NumIs
<1>3. \A k \in 1 .. n : Anc[x][k - 1] = Prev[Anc[x][k]] /\ Anc[b][k - 1] = Prev[Anc[b][k]]
  <2>1. \A k \in 1 .. Num[x] : Anc[x][k - 1] = Prev[Anc[x][k]]
    BY <1>2, BlocksAssumption
  <2>2. \A k \in 1 .. Num[b] : Anc[b][k - 1] = Prev[Anc[b][k]]
    BY BlocksAssumption
  <2>3. \A k \in 1 .. n : k \in 1 .. Num[b]
    BY <1>2
  <2> QED
    BY <1>2, <2>1, <2>2, <2>3
<1>4. PICK f, g, back : f = Anc[x] /\ g = Anc[b] /\ back = Prev
  OBVIOUS
<1>5. n \in Nat /\ f[n] = g[n]
  BY <1>2, <1>4
<1>6. BothBack(n, f, g, back)
  BY <1>3, <1>4 DEF BothBack
<1>7. \A k \in 0 .. n : f[k] = g[k]
  BY <1>5, <1>6, SameBelow
<1> QED
  BY <1>1, <1>4, <1>7

(* Below a block of the main chain all are of the main chain.              *)
LEMMA MainBelow ==
  ASSUME tip \in Block, NEW s \in Block, NEW n \in 0 .. Num[s], InMain(Anc[s][n]), NEW m \in 0 .. n
  PROVE  InMain(Anc[s][m])
<1>1. PICK x : x = Anc[s][n]
  OBVIOUS
<1>2. /\ x \in Block /\ Num[x] = n /\ n \in Nat /\ n =< Num[tip] /\ Anc[tip][n] = x
      /\ m \in Nat /\ m =< n /\ Num[tip] \in Nat /\ Num[s] \in Nat /\ n =< Num[s]
  BY <1>1, AncIs, NumIs DEF InMain
<1>3. n \in 0 .. Num[tip] /\ m \in 0 .. Num[s]
  BY <1>2
<1>4. Anc[x][m] = Anc[tip][m] /\ Anc[x][m] = Anc[s][m]
  BY <1>1, <1>2, <1>3, AncAnc
<1>5. PICK y : y = Anc[s][m]
  OBVIOUS
<1>6. Num[y] = m /\ m =< Num[tip] /\ Anc[tip][m] = y
  <2>1. Num[y] = m
    BY <1>3, <1>5, AncIs
  <2> QED
    BY <1>2, <1>4, <1>5, <2>1
<1> QED
  BY <1>5, <1>6 DEF InMain
-----------------------------------------------------------------------------
(* What a search visits that goes back by next until stop, from each n.    *)
Visits(h, N, stop, next) ==
  h = [n \in 0 .. N |-> IF n \in stop THEN {n} ELSE {n} \cup h[next[n]]]

LEMMA WalkExists ==
  ASSUME NEW N \in Nat, NEW stop, NEW next, 0 \in stop,
         \A i \in 0 .. N : i \notin stop => next[i] \in 0 .. N /\ next[i] < i
  PROVE  \E h : Visits(h, N, stop, next)
<1>1. PICK T, to, G :
        /\ T = SUBSET (0 .. N)
        /\ to = [i \in 1 .. N |-> IF i \in stop THEN 0 ELSE next[i]]
        /\ G = [i \in 1 .. N |-> [x \in T |-> IF i \in stop THEN {i} ELSE {i} \cup x]]
  OBVIOUS
<1>2. {0} \in T /\ to \in [1 .. N -> 0 .. N] /\ \A i \in 1 .. N : to[i] < i
  BY <1>1
<1>3. G \in [1 .. N -> [T -> T]]
  <2>1. \A i \in 1 .. N : i \in 0 .. N
    OBVIOUS
  <2> QED
    BY <1>1, <2>1
<1>4. Unwound(N, T, {0}, to, G)
  BY <1>2, <1>3, Unwind
<1>5. PICK f \in [0 .. N -> T] : f[0] = {0} /\ \A i \in 1 .. N : f[i] = G[i][f[to[i]]]
  BY <1>4 DEF Unwound
<1>6. ASSUME NEW n \in 0 .. N PROVE f[n] = IF n \in stop THEN {n} ELSE {n} \cup f[next[n]]
  <2>1. CASE n = 0
    BY <1>5, <2>1
  <2>2. CASE n # 0
    <3>1. n \in 1 .. N
      BY <2>2
    <3>2. to[n] \in 0 .. N /\ f[to[n]] \in T
      BY <1>2, <1>5, <3>1
    <3> QED
      BY <1>1, <1>5, <3>1, <3>2
  <2> QED
    BY <2>1, <2>2
<1> QED
  BY <1>5, <1>6 DEF Visits

(* The lowest number it visits is where it stops, and what holds between a *)
(* number and the next one holds all the way.                              *)
Goes(N, stop, next, seen, good) ==
  \A i \in 0 .. N : i \notin stop =>
    next[i] \in 0 .. N /\ next[i] < i /\ next[i] \in seen /\ \A k \in next[i] + 1 .. i : k \in good

Lands(N, V, stop, seen, good) ==
  /\ V \subseteq 0 .. N /\ N \in V
  /\ Min(V) \in V /\ \A v \in V : Min(V) =< v
  /\ Min(V) \in stop /\ (Min(V) = N \/ Min(V) \in seen)
  /\ \A k \in Min(V) + 1 .. N : k \in good

LEMMA WalkIs ==
  ASSUME NEW N \in Nat, NEW stop, NEW next, NEW seen, NEW good, Goes(N, stop, next, seen, good),
         NEW h, Visits(h, N, stop, next)
  PROVE  Lands(N, h[N], stop, seen, good)
<1> USE DEF Goes
<1>1. \A n \in 0 .. N : h[n] = IF n \in stop THEN {n} ELSE {n} \cup h[next[n]]
  BY DEF Visits
<1> DEFINE P(i) == /\ h[i] \subseteq 0 .. i /\ i \in h[i] /\ \A v \in h[i] : v = i \/ v \in seen
                   /\ \E e \in h[i] : /\ e \in stop /\ \A v \in h[i] : e =< v
                                      /\ \A k \in e + 1 .. i : k \in good
           bad == {i \in 0 .. N : ~P(i)}
<1>4. bad = {}
  <2>1. SUFFICES ASSUME bad # {} PROVE FALSE
    OBVIOUS
  <2>2. bad \subseteq Nat
    OBVIOUS
  <2>3. PICK i \in bad : \A j \in bad : i =< j
    BY <2>1, <2>2, LeastIn
  <2>4. i \in 0 .. N /\ i \in Nat /\ ~P(i)
    OBVIOUS
  <2>5. CASE i \in stop
    <3>1. h[i] = {i}
      BY <1>1, <2>4, <2>5
    <3>2. i \in 0 .. i /\ i + 1 .. i = {}
      BY <2>4
    <3> QED
      BY <2>4, <2>5, <3>1, <3>2
  <2>6. CASE i \notin stop
    <3>1. PICK j : j = next[i]
      OBVIOUS
    <3>2. /\ j \in 0 .. N /\ j < i /\ j \in Nat /\ j \in seen
          /\ \A k \in j + 1 .. i : k \in good
          /\ h[i] = {i} \cup h[j]
      <4>1. j \in 0 .. N /\ j < i /\ j \in seen
        BY <2>4, <2>6, <3>1
      <4>2. \A k \in j + 1 .. i : k \in good
        BY <2>4, <2>6, <3>1
      <4>3. h[i] = {i} \cup h[j]
        BY <1>1, <2>4, <2>6, <3>1
      <4> QED
        BY <4>1, <4>2, <4>3
    <3>3. P(j)
      BY <2>3, <3>2
    <3>4. PICK e \in h[j] : /\ e \in stop /\ \A v \in h[j] : e =< v
                            /\ \A k \in e + 1 .. j : k \in good
      BY <3>3
    <3>5. h[j] \subseteq 0 .. j
      BY <3>3
    <3>6. e \in Nat /\ e =< j
      BY <3>2, <3>4, <3>5
    <3>7. /\ h[i] \subseteq 0 .. i /\ i \in h[i] /\ \A v \in h[i] : v = i \/ v \in seen
      BY <2>4, <3>2, <3>3, <3>5
    <3>8. e \in h[i] /\ \A v \in h[i] : e =< v
      BY <2>4, <3>2, <3>4, <3>6
    <3>9. \A k \in e + 1 .. i : k \in good
      <4>1. \A k \in e + 1 .. i : k \in e + 1 .. j \/ k \in j + 1 .. i
        BY <2>4, <3>2, <3>6
      <4> QED
        BY <3>2, <3>4, <4>1
    <3> QED
      BY <2>4, <3>4, <3>7, <3>8, <3>9
  <2> QED
    BY <2>5, <2>6
<1> HIDE DEF P
<1>5. P(N)
  <2>1. N \in 0 .. N /\ N \notin bad
    BY <1>4
  <2> QED
    BY <2>1
<1> USE DEF P
<1>6. PICK V : V = h[N]
  OBVIOUS
<1>7. PICK e \in V : /\ e \in stop /\ \A v \in V : e =< v
                     /\ \A k \in e + 1 .. N : k \in good
  BY <1>5, <1>6
<1>8. V \subseteq 0 .. N /\ N \in V /\ \A v \in V : v = N \/ v \in seen
  BY <1>5, <1>6
<1>9. Min(V) = e
  <2>1. PICK m : m = Min(V)
    OBVIOUS
  <2>2. m \in V /\ \A v \in V : m =< v
    BY <1>7, <2>1 DEF Min
  <2>3. m =< e /\ e =< m /\ m \in Nat /\ e \in Nat
    BY <1>7, <1>8, <2>2
  <2> QED
    BY <2>1, <2>3
<1> QED
  BY <1>6, <1>7, <1>8, <1>9 DEF Lands

LEMMA WalkHIs ==
  ASSUME JumpOK, NEW s \in known
  PROVE  /\ WalkH(s) \subseteq 0 .. Num[s] /\ Num[s] \in WalkH(s)
         /\ FirstHead(s) \in WalkH(s) /\ \A v \in WalkH(s) : FirstHead(s) =< v
         /\ InMain(Anc[s][FirstHead(s)]) \/ ~HasPrev(Anc[s][FirstHead(s)])
         /\ \A k \in FirstHead(s) + 1 .. Num[s] : HasPrev(Anc[s][k])
<1> DEFINE Ends(n) == InMain(Anc[s][n]) \/ (~HasPrev(Anc[s][n]) /\ NextH(s, n) = n - 1)
           Is(h) == h = [n \in 0 .. Num[s] |->
                           IF Ends(n) THEN {n} ELSE {n} \cup h[NextH(s, n)]]
           h == CHOOSE x : Is(x)
<1>1. WalkH(s) = h[Num[s]]
  BY DEF WalkH
<1> HIDE DEF h, Is
<1>2. PICK N, stop, next, good : 
        /\ N = Num[s] /\ stop = {n \in 0 .. N : Ends(n)} /\ next = [n \in 0 .. N |-> NextH(s, n)]
        /\ good = {k \in 0 .. N : HasPrev(Anc[s][k])}
  OBVIOUS
<1>3. s \in Block /\ N \in Nat
  BY <1>2, NumIs DEF JumpOK
<1>4. ASSUME NEW i \in 0 .. N
      PROVE  /\ i = 0 => Ends(i)
             /\ ~Ends(i) => /\ NextH(s, i) \in 0 .. N /\ NextH(s, i) < i
                            /\ \A k \in NextH(s, i) + 1 .. i : HasPrev(Anc[s][k])
  <2>1. PICK x : x = Anc[s][i]
    OBVIOUS
  <2>2. x \in Block /\ Num[x] = i /\ i \in Nat
    BY <1>2, <1>3, <2>1, AncIs
  <2>3. CASE i < Num[s] /\ toH[x] # NoJump
    <3>1. PICK to : to = toH[x]
      OBVIOUS
    <3>2. LinksH(x, to) /\ to \in Block
      BY <2>2, <2>3, <3>1 DEF JumpOK, LinksH, Leads
    <3>3. Num[to] < i /\ \A k \in Num[to] + 1 .. i : HasPrev(Anc[x][k])
      BY <2>2, <3>2 DEF LinksH, Leads
    <3>4. Num[to] \in Nat /\ NextH(s, i) = Num[to]
      BY <2>1, <2>3, <3>1, <3>2, NumIs DEF NextH
    <3>5. \A k \in 0 .. i : Anc[x][k] = Anc[s][k]
      BY <1>2, <1>3, <2>1, AncAnc
    <3>6. \A k \in Num[to] + 1 .. i : k \in 0 .. i
      BY <2>2, <3>4
    <3>7. NextH(s, i) \in 0 .. N /\ NextH(s, i) < i /\ i # 0
      BY <1>2, <1>3, <2>2, <3>3, <3>4
    <3> QED
      BY <3>3, <3>4, <3>5, <3>6, <3>7
  <2>4. CASE ~(i < Num[s] /\ toH[x] # NoJump)
    <3>1. NextH(s, i) = i - 1
      BY <2>1, <2>4 DEF NextH
    <3>2. HasPrev(x) => i > 0
      BY <2>2 DEF HasPrev
    <3>3. \A k \in i - 1 + 1 .. i : k = i
      BY <2>2
    <3>4. i = 0 => ~HasPrev(x)
      BY <3>2
    <3>5. ~Ends(i) => HasPrev(x)
      BY <2>1, <3>1
    <3>6. i > 0 => i - 1 \in 0 .. N /\ i - 1 < i
      BY <1>3, <2>2
    <3> QED
      <4>1. i = 0 => Ends(i)
        BY <2>1, <3>1, <3>4
      <4>2. ASSUME ~Ends(i)
            PROVE  /\ NextH(s, i) \in 0 .. N /\ NextH(s, i) < i
                   /\ \A k \in NextH(s, i) + 1 .. i : HasPrev(Anc[s][k])
        <5>1. HasPrev(x) /\ i > 0
          BY <3>2, <3>5, <4>2
        <5> QED
          BY <2>1, <3>1, <3>3, <3>6, <5>1
      <4> QED
        BY <4>1, <4>2
  <2> QED
    BY <2>3, <2>4
<1> HIDE DEF Ends
<1>5. /\ 0 \in stop
      /\ \A i \in 0 .. N : i \notin stop => next[i] \in 0 .. N /\ next[i] < i
      /\ \A i \in 0 .. N : i \notin stop => \A k \in next[i] + 1 .. i : k \in good
  <2>1. 0 \in 0 .. N
    BY <1>3
  <2>2. ASSUME NEW i \in 0 .. N, i \notin stop
        PROVE  next[i] \in 0 .. N /\ next[i] < i /\ \A k \in next[i] + 1 .. i : k \in good
    <3>1. ~Ends(i) /\ next[i] = NextH(s, i)
      BY <1>2, <2>2
    <3>2. next[i] \in 0 .. N /\ next[i] < i /\ \A k \in next[i] + 1 .. i : HasPrev(Anc[s][k])
      BY <1>4, <3>1
    <3>3. \A k \in next[i] + 1 .. i : k \in 0 .. N
      BY <1>3, <3>2
    <3> QED
      BY <1>2, <3>2, <3>3
  <2> QED
    BY <1>2, <1>4, <2>1, <2>2
<1>6. \E f : Visits(f, N, stop, next)
  BY <1>3, <1>5, WalkExists
<1>7. ASSUME NEW f
      PROVE  Is(f) <=> Visits(f, N, stop, next)
  BY <1>2 DEF Is, Visits
<1>8. Is(h)
  <2>1. \E f : Is(f)
    BY <1>6, <1>7
  <2> QED
    BY <2>1 DEF h
<1>9. Visits(h, N, stop, next)
  BY <1>7, <1>8
<1>10. PICK V, f : V = f[N] /\ V = WalkH(s) /\ f = h
  BY <1>1, <1>2
<1>11. PICK seen : seen = 0 .. N
  OBVIOUS
<1>12. Lands(N, V, stop, seen, good)
  <2>1. Goes(N, stop, next, seen, good)
    BY <1>5, <1>11 DEF Goes
  <2>2. N \in Nat /\ V = f[N] /\ Visits(f, N, stop, next)
    BY <1>3, <1>9, <1>10
  <2> QED
    BY <2>1, <2>2, WalkIs
<1>13. Min(V) = FirstHead(s)
  BY <1>10 DEF FirstHead
<1> QED
  BY <1>2, <1>10, <1>12, <1>13 DEF Ends, Lands

LEMMA HeadsAgree == ASSUME JumpOK PROVE HeadNotAbove
<1> SUFFICES ASSUME NEW s \in known
             PROVE  /\ FirstHead(s) =< Head0(s)
                    /\ InMain(Anc[s][FirstHead(s)]) <=> InMain(Anc[s][Head0(s)])
                    /\ ~InMain(Anc[s][Head0(s)]) => FirstHead(s) = Head0(s)
  BY DEF HeadNotAbove
<1>1. PICK G, e, N : /\ G = {n \in 0 .. Num[s] : InMain(Anc[s][n]) \/ ~HasPrev(Anc[s][n])}
                     /\ e = FirstHead(s) /\ N = Num[s]
  OBVIOUS
<1>2. /\ e \in 0 .. N /\ N \in Nat /\ tip \in Block /\ s \in Block
      /\ InMain(Anc[s][e]) \/ ~HasPrev(Anc[s][e])
      /\ \A k \in e + 1 .. N : HasPrev(Anc[s][k])
  BY <1>1, WalkHIs, NumIs DEF JumpOK
<1>3. G \subseteq 0 .. N /\ e \in G
  BY <1>1, <1>2
<1>4. PICK g : g = Head0(s)
  OBVIOUS
<1>5. g \in G /\ \A n \in G : n =< g
  <2>1. g = Max(G)
    BY <1>1, <1>4 DEF Head0
  <2>2. G # {}
    BY <1>3
  <2> QED
    BY <1>2, <1>3, <2>1, <2>2, GreatestIn
<1>6. g \in 0 .. N /\ e =< g /\ (e < g => InMain(Anc[s][g]))
  BY <1>1, <1>2, <1>3, <1>5
<1>7. InMain(Anc[s][g]) => InMain(Anc[s][e])
  <2>1. e \in 0 .. g /\ g \in 0 .. Num[s]
    BY <1>1, <1>2, <1>6
  <2> QED
    BY <1>2, <2>1, MainBelow
<1> QED
  BY <1>1, <1>2, <1>4, <1>6, <1>7

LEMMA WalkBIs ==
  ASSUME JumpOK, NEW s \in known, NEW first \in 0 .. Num[s], InMain(Anc[s][first]),
         \A k \in first + 1 .. Num[s] : HasPrev(Anc[s][k])
  PROVE  /\ Min(WalkB(first, s)) \in 0 .. Num[s]
         /\ Anc[s][Min(WalkB(first, s))] \in known
         /\ \/ Min(WalkB(first, s)) < first
            \/ InMain(Anc[s][Min(WalkB(first, s))])
            \/ NeedBody(Anc[s][Min(WalkB(first, s))])
         /\ \A k \in Min(WalkB(first, s)) + 1 .. Num[s] : ~NeedBody(Anc[s][k])
<1> DEFINE Ends(n) == \/ n < first \/ InMain(Anc[s][n])
                      \/ NeedBody(Anc[s][n]) \/ (n = 0 /\ toB[Anc[s][n]] = NoJump)
           To(n) == IF toB[Anc[s][n]] # NoJump THEN Num[toB[Anc[s][n]]] ELSE n - 1
           Is(h) == h = [n \in 0 .. Num[s] |-> IF Ends(n) THEN {n} ELSE {n} \cup h[To(n)]]
           h == CHOOSE x : Is(x)
<1>1. WalkB(first, s) = h[Num[s]]
  BY DEF WalkB
<1> HIDE DEF h, Is
<1>2. PICK N, stop, next, good, seen :
        /\ N = Num[s] /\ stop = {n \in 0 .. N : Ends(n)} /\ next = [n \in 0 .. N |-> To(n)]
        /\ good = {k \in 0 .. N : ~NeedBody(Anc[s][k])}
        /\ seen = {k \in 0 .. N : Anc[s][k] \in known}
  OBVIOUS
<1>3. s \in Block /\ N \in Nat /\ tip \in Block /\ first \in Nat
  BY <1>2, NumIs DEF JumpOK
<1>4. ASSUME NEW i \in 0 .. N, ~Ends(i)
      PROVE  /\ To(i) \in 0 .. N /\ To(i) < i /\ Anc[s][To(i)] \in known
             /\ \A k \in To(i) + 1 .. i : ~NeedBody(Anc[s][k])
  <2>1. PICK x : x = Anc[s][i]
    OBVIOUS
  <2>2. x \in Block /\ Num[x] = i /\ i \in Nat
    BY <1>2, <1>3, <2>1, AncIs
  <2>3. \A k \in 0 .. i : Anc[x][k] = Anc[s][k]
    BY <1>2, <1>3, <2>1, AncAnc
  <2>4. CASE toB[x] # NoJump
    <3>1. PICK to : to = toB[x]
      OBVIOUS
    <3>2. LinksB(x, to) /\ to \in Block
      BY <2>2, <2>4, <3>1 DEF JumpOK, LinksB, Leads
    <3>3. /\ to \in known /\ Num[to] < i /\ Anc[x][Num[to]] = to
          /\ \A k \in Num[to] + 1 .. i : ~NeedBody(Anc[x][k])
      BY <2>2, <3>2 DEF LinksB, Leads
    <3>4. Num[to] \in Nat /\ To(i) = Num[to]
      BY <2>1, <2>4, <3>1, <3>2, NumIs
    <3>5. To(i) \in 0 .. N /\ To(i) \in 0 .. i /\ To(i) < i
      BY <1>3, <2>2, <3>3, <3>4
    <3>6. \A k \in To(i) + 1 .. i : k \in 0 .. i
      BY <2>2, <3>5
    <3>7. Anc[s][To(i)] \in known
      BY <2>3, <3>3, <3>4, <3>5
    <3>8. ASSUME NEW k \in To(i) + 1 .. i PROVE ~NeedBody(Anc[s][k])
      <4>1. ~NeedBody(Anc[x][k])
        BY <3>3, <3>4
      <4> QED
        BY <2>3, <3>6, <4>1
    <3> HIDE DEF To
    <3> QED
      BY <3>5, <3>7, <3>8
  <2>5. CASE toB[x] = NoJump
    <3>1. To(i) = i - 1 /\ i # 0 /\ i >= first /\ ~NeedBody(x) /\ ~InMain(x)
      <4>1. To(i) = i - 1
        BY <2>1, <2>5
      <4>2. i # 0 /\ ~NeedBody(x) /\ ~InMain(x) /\ ~(i < first)
        BY <1>4, <2>1, <2>5
      <4> HIDE DEF To, Ends
      <4> QED
        BY <1>3, <2>2, <4>1, <4>2
    <3>2. i # first
      BY <2>1, <3>1
    <3>3. i \in first + 1 .. N /\ i \in 1 .. Num[s] /\ i - 1 \in 0 .. N
      BY <1>2, <1>3, <2>2, <3>1, <3>2
    <3>4. HasPrev(x)
      BY <1>2, <2>1, <3>3
    <3>5. Anc[s][i - 1] = Prev[x]
      BY <1>3, <2>1, <3>3, BlocksAssumption
    <3>6. Anc[s][i - 1] \in known
      BY <3>4, <3>5 DEF HasPrev
    <3>7. \A k \in i - 1 + 1 .. i : k = i
      BY <2>2
    <3> HIDE DEF To
    <3> QED
      BY <2>1, <2>2, <3>1, <3>3, <3>6, <3>7
  <2> QED
    BY <2>4, <2>5
<1>5. Ends(0)
  BY <1>3, <1>4, <1>2
<1> HIDE DEF Ends, To
<1>6. /\ 0 \in stop
      /\ \A i \in 0 .. N : i \notin stop => next[i] \in 0 .. N /\ next[i] < i
      /\ \A i \in 0 .. N : i \notin stop => next[i] \in seen
      /\ \A i \in 0 .. N : i \notin stop => \A k \in next[i] + 1 .. i : k \in good
  <2>1. 0 \in 0 .. N
    BY <1>3
  <2>2. ASSUME NEW i \in 0 .. N, i \notin stop
        PROVE  /\ next[i] \in 0 .. N /\ next[i] < i /\ next[i] \in seen
               /\ \A k \in next[i] + 1 .. i : k \in good
    <3>1. ~Ends(i) /\ next[i] = To(i)
      BY <1>2, <2>2
    <3>2. /\ next[i] \in 0 .. N /\ next[i] < i /\ Anc[s][next[i]] \in known
          /\ \A k \in next[i] + 1 .. i : ~NeedBody(Anc[s][k])
      BY <1>4, <3>1
    <3>3. \A k \in next[i] + 1 .. i : k \in 0 .. N
      BY <1>3, <3>2
    <3> QED
      BY <1>2, <3>2, <3>3
  <2> QED
    BY <1>2, <1>5, <2>1, <2>2
<1>7. \E f : Visits(f, N, stop, next)
  BY <1>3, <1>6, WalkExists
<1>8. ASSUME NEW f PROVE Is(f) <=> Visits(f, N, stop, next)
  BY <1>2 DEF Is, Visits
<1>9. PICK f : f = h /\ Visits(f, N, stop, next)
  <2>1. \E f : Is(f)
    BY <1>7, <1>8
  <2>2. Is(h)
    BY <2>1 DEF h
  <2> QED
    BY <1>8, <2>2
<1>10. Lands(N, f[N], stop, seen, good)
  <2>1. Goes(N, stop, next, seen, good)
    BY <1>6 DEF Goes
  <2> QED
    BY <1>3, <1>9, <2>1, WalkIs
<1>11. PICK m : m = Min(WalkB(first, s)) /\ m = Min(f[N])
  BY <1>1, <1>2, <1>9
<1>12. m \in 0 .. N /\ m \in stop /\ (m = N \/ m \in seen) /\ \A k \in m + 1 .. N : k \in good
  BY <1>10, <1>11 DEF Lands
<1>13. Anc[s][N] = s
  BY <1>2, <1>3, BlocksAssumption
<1>14. Anc[s][m] \in known
  BY <1>2, <1>12, <1>13
<1>15. Ends(m)
  BY <1>2, <1>12
<1>16. m = 0 => m < first \/ InMain(Anc[s][m])
  BY <1>3
<1>17. m < first \/ InMain(Anc[s][m]) \/ NeedBody(Anc[s][m])
  BY <1>15, <1>16 DEF Ends
<1> QED
  BY <1>2, <1>11, <1>12, <1>14, <1>17

LEMMA BodyAgrees == ASSUME JumpOK PROVE EmptyAgrees
<1> SUFFICES ASSUME NEW s \in known, InMain(Anc[s][Head0(s)]),
                    NEW need, need = Empty0(FirstHead(s), s)
             PROVE  Empty(FirstHead(s), s) = {n \in need : \A m \in need : m =< n}
  BY DEF EmptyAgrees
<1>1. PICK e, N : e = FirstHead(s) /\ N = Num[s]
  OBVIOUS
<1>2. /\ e \in 0 .. N /\ N \in Nat /\ tip \in Block /\ s \in Block
      /\ \A k \in e + 1 .. N : HasPrev(Anc[s][k])
  BY <1>1, WalkHIs, NumIs DEF JumpOK
<1>3. InMain(Anc[s][e])
  BY <1>1, HeadsAgree DEF HeadNotAbove
<1>4. PICK m : m = Min(WalkB(e, s))
  OBVIOUS
<1>5. /\ m \in 0 .. N
      /\ m < e \/ InMain(Anc[s][m]) \/ NeedBody(Anc[s][m])
      /\ \A k \in m + 1 .. N : ~NeedBody(Anc[s][k])
  BY <1>1, <1>2, <1>3, <1>4, WalkBIs
<1>6. need = {n \in e .. N : NeedBody(Anc[s][n])}
  BY <1>1 DEF Empty0
<1>7. ASSUME NEW n \in need PROVE n \in Nat /\ n =< m /\ e =< n /\ n =< N /\ NeedBody(Anc[s][n])
  <2>1. n \in e .. N /\ NeedBody(Anc[s][n])
    BY <1>6
  <2>2. n \notin m + 1 .. N
    BY <1>5, <2>1
  <2> QED
    BY <1>2, <1>5, <2>1, <2>2
<1>8. Empty(e, s) = {n \in {m} : n >= e /\ ~InMain(Anc[s][n]) /\ NeedBody(Anc[s][n])}
  BY <1>4 DEF Empty
<1>9. CASE m >= e /\ ~InMain(Anc[s][m]) /\ NeedBody(Anc[s][m])
  <2>1. m \in need
    <3>1. m \in e .. N
      BY <1>2, <1>5, <1>9
    <3> QED
      BY <1>6, <1>9, <3>1
  <2>2. ASSUME NEW n \in need PROVE (\A k \in need : k =< n) <=> n = m
    <3>1. n \in Nat /\ m \in Nat /\ \A k \in need : k =< m
      BY <1>2, <1>5, <1>7
    <3> QED
      BY <2>1, <3>1
  <2>3. {n \in need : \A k \in need : k =< n} = {m}
    BY <2>1, <2>2
  <2> QED
    BY <1>1, <1>8, <1>9, <2>3
<1>10. CASE ~(m >= e /\ ~InMain(Anc[s][m]) /\ NeedBody(Anc[s][m]))
  <2>1. ASSUME NEW n \in need PROVE FALSE
    <3>1. n \in 0 .. m /\ e =< m /\ m \in 0 .. Num[s]
      <4>1. n \in Nat /\ n =< m /\ e =< n
        BY <1>7
      <4> QED
        BY <1>1, <1>2, <1>5, <4>1
    <3>2. InMain(Anc[s][m])
      BY <1>2, <1>5, <1>10, <3>1
    <3>3. InMain(Anc[s][n])
      BY <1>2, <3>1, <3>2, MainBelow
    <3>4. PICK y : y = Anc[s][n]
      OBVIOUS
    <3>5. y = Anc[tip][n] /\ n \in 0 .. Num[tip]
      <4>1. Num[y] = n
        BY <1>1, <1>2, <1>7, <3>1, <3>4, AncIs
      <4> QED
        BY <1>2, <1>7, <3>3, <3>4, <4>1, NumIs DEF InMain
    <3>6. ~NeedBody(y)
      BY <3>5 DEF JumpOK
    <3> QED
      BY <1>7, <3>4, <3>6
  <2> QED
    BY <1>1, <1>8, <1>10, <2>1
<1> QED
  BY <1>9, <1>10

LEMMA FirstJump == JumpInit => JumpOK
<1> SUFFICES ASSUME JumpInit PROVE JumpOK
  OBVIOUS
<1>1. /\ now = MaxNum /\ tip = GenesisBlock(GenesisCount - 1) /\ known = Genesis /\ full = {}
      /\ toH = [b \in Block |-> NoJump] /\ toB = [b \in Block |-> NoJump]
  BY DEF JumpInit
<1>2. GenesisCount - 1 \in 0 .. GenesisCount - 1 /\ GenesisCount \in Nat
  BY BlocksAssumption
<1>3. tip \in Block /\ Num[tip] = GenesisCount - 1
  <2>1. \E b \in Block : Num[b] = GenesisCount - 1
    BY <1>2, BlocksAssumption
  <2> QED
    BY <1>1, <2>1 DEF GenesisBlock
<1>4. tip \in Genesis /\ Genesis \subseteq Block
  BY <1>2, <1>3 DEF Genesis
<1>5. ASSUME NEW n \in 0 .. Num[tip] PROVE Anc[tip][n] \in Genesis
  <2>1. Anc[tip][n] \in Block /\ Num[Anc[tip][n]] = n /\ n < GenesisCount
    BY <1>2, <1>3, AncIs
  <2> QED
    BY <2>1 DEF Genesis
<1>6. \A b \in Genesis : ~NeedBody(b)
  BY DEF NeedBody
<1>7. now \in Nat
  BY <1>1, NumIs
<1> QED
  BY <1>1, <1>4, <1>5, <1>6, <1>7 DEF JumpOK

(* The pointers survive new headers and bodies.                            *)
LEMMA LinksLast ==
  ASSUME known \subseteq known', full \subseteq full', NEW b, NEW to
  PROVE  (LinksH(b, to) => LinksH(b, to)') /\ (LinksB(b, to) => LinksB(b, to)')
BY DEF LinksH, LinksB, Leads, HasPrev, NeedBody

LEMMA KeepJump ==
  ASSUME JumpOK, now' \in Nat, tip' \in known', known \subseteq known', known' \subseteq Block,
         full \subseteq full', full' \subseteq known', DOMAIN toH' = Block, DOMAIN toB' = Block,
         \A b \in Block : toH'[b] # NoJump => toH'[b] = toH[b] \/ LinksH(b, toH'[b]),
         \A b \in Block : toB'[b] # NoJump => toB'[b] = toB[b] \/ LinksB(b, toB'[b]),
         (\A n \in 0 .. Num[tip] : Anc[tip][n] \in known /\ ~NeedBody(Anc[tip][n]))'
  PROVE  JumpOK'
<1>1. ASSUME NEW b \in Block
      PROVE  (toH[b] # NoJump => LinksH(b, toH[b]))' /\ (toB[b] # NoJump => LinksB(b, toB[b]))'
  <2>1. PICK x, y : x = toH'[b] /\ y = toB'[b]
    OBVIOUS
  <2>2. x # NoJump => LinksH(b, x)
    <3>1. x # NoJump => x = toH[b] \/ LinksH(b, x)
      BY <2>1
    <3> QED
      BY <3>1 DEF JumpOK
  <2>3. y # NoJump => LinksB(b, y)
    <3>1. y # NoJump => y = toB[b] \/ LinksB(b, y)
      BY <2>1
    <3> QED
      BY <3>1 DEF JumpOK
  <2>4. (LinksH(b, x) => LinksH(b, x)') /\ (LinksB(b, y) => LinksB(b, y)')
    BY LinksLast
  <2>5. LinksH(b, x)' => LinksH(b, toH[b])'
    BY <2>1 DEF LinksH, Leads
  <2>6. LinksB(b, y)' => LinksB(b, toB[b])'
    BY <2>1 DEF LinksB, Leads
  <2> QED
    BY <2>1, <2>2, <2>3, <2>4, <2>5, <2>6
<1> QED
  BY <1>1 DEF JumpOK

LEMMA NewHIs ==
  ASSUME JumpOK, NEW s \in known, NEW b \in Block
  PROVE  NewH(s)[b] # NoJump => NewH(s)[b] = toH[b] \/ LinksH(b, NewH(s)[b])
<1>1. PICK from, n, N, e : /\ from = Stops(s) \cup {Num[s]} /\ n = Num[b]
                           /\ N = Num[s] /\ e = FirstHead(s)
  OBVIOUS
<1>2. /\ s \in Block /\ N \in Nat /\ n \in Nat /\ e \in 0 .. N
      /\ \A k \in e + 1 .. N : HasPrev(Anc[s][k])
      /\ WalkH(s) \subseteq 0 .. N /\ \A v \in WalkH(s) : e =< v
      /\ N \in WalkH(s)
  BY <1>1, WalkHIs, NumIs DEF JumpOK
<1>3. from \subseteq 0 .. N /\ \A m \in from : m \in Nat /\ e =< m /\ m =< N
  <2>1. Stops(s) \subseteq WalkH(s)
    BY DEF Stops
  <2>2. from \subseteq WalkH(s)
    BY <1>1, <1>2, <2>1
  <2> QED
    BY <1>2, <2>2
<1>4. CASE ~(n \in from /\ n =< N /\ Anc[s][n] = b /\ n # Min(from) /\ n =< now - HotDelta)
  BY <1>1, <1>4 DEF NewH
<1>5. CASE n \in from /\ n =< N /\ Anc[s][n] = b /\ n # Min(from) /\ n =< now - HotDelta
  <2>1. PICK under, p : under = {m \in from : m < n} /\ p = Max(under)
    OBVIOUS
  <2>2. NewH(s)[b] = Anc[s][p]
    BY <1>1, <1>5, <2>1 DEF NewH
  <2>3. under # {}
    <3>1. SUFFICES ASSUME under = {} PROVE FALSE
      OBVIOUS
    <3>2. \A m \in from : n =< m
      BY <1>2, <1>3, <2>1, <3>1
    <3>3. PICK x : x = Min(from)
      OBVIOUS
    <3>4. x \in from /\ \A m \in from : x =< m
      BY <1>5, <3>2, <3>3 DEF Min
    <3>5. x =< n /\ n =< x /\ x \in Nat
      BY <1>3, <1>5, <3>2, <3>4
    <3> QED
      BY <1>2, <1>5, <3>3, <3>5
  <2>4. under \subseteq 0 .. N
    BY <1>3, <2>1
  <2>5. p \in under
    BY <1>2, <2>1, <2>3, <2>4, GreatestIn
  <2>6. p \in Nat /\ p < n /\ e =< p /\ p =< N /\ n =< N
    BY <1>3, <1>5, <2>1, <2>5
  <2>7. PICK to : to = Anc[s][p]
    OBVIOUS
  <2>8. to \in Block /\ Num[to] = p
    BY <1>1, <1>2, <2>6, <2>7, AncIs
  <2>9. to \in known
    <3>1. PICK q : q = p + 1
      OBVIOUS
    <3>2. q \in e + 1 .. N /\ q \in 1 .. Num[s] /\ q - 1 = p
      BY <1>1, <1>2, <2>6, <3>1
    <3>3. HasPrev(Anc[s][q])
      BY <1>2, <3>2
    <3>4. Anc[s][q - 1] = Prev[Anc[s][q]]
      BY <1>2, <3>2, BlocksAssumption
    <3> QED
      BY <2>7, <3>2, <3>3, <3>4 DEF HasPrev
  <2>10. \A k \in 0 .. n : Anc[b][k] = Anc[s][k]
    <3>1. n \in 0 .. Num[s] /\ b = Anc[s][n]
      BY <1>1, <1>2, <1>5
    <3> QED
      BY <1>2, <3>1, AncAnc
  <2>11. Leads(b, to)
    <3>1. p \in 0 .. n
      BY <1>2, <2>6
    <3> QED
      BY <1>1, <2>6, <2>7, <2>8, <2>9, <2>10, <3>1 DEF Leads
  <2>12. ASSUME NEW k \in p + 1 .. n PROVE HasPrev(Anc[b][k])
    <3>1. k \in 0 .. n /\ k \in e + 1 .. N
      BY <1>2, <2>6
    <3> QED
      BY <1>2, <2>10, <3>1
  <2> QED
    BY <1>1, <2>2, <2>7, <2>8, <2>11, <2>12 DEF LinksH
<1> QED
  BY <1>4, <1>5

LEMMA NewBIs ==
  ASSUME JumpOK, NEW s \in known, InMain(Anc[s][FirstHead(s)]), NEW b \in Block
  PROVE  LET new == NewB(FirstHead(s), s) IN
         new[b] # NoJump => new[b] = toB[b] \/ LinksB(b, new[b])
<1>1. PICK first, m, new : /\ first = FirstHead(s) /\ m = Min(WalkB(first, s))
                           /\ new = NewB(first, s)
  OBVIOUS
<1>2. /\ s \in Block /\ Num[s] \in Nat /\ first \in 0 .. Num[s]
      /\ \A k \in first + 1 .. Num[s] : HasPrev(Anc[s][k])
  BY <1>1, WalkHIs, NumIs DEF JumpOK
<1>3. /\ m \in 0 .. Num[s] /\ Anc[s][m] \in known
      /\ \A k \in m + 1 .. Num[s] : ~NeedBody(Anc[s][k])
  BY <1>1, <1>2, WalkBIs
<1>4. CASE b = s /\ m < Num[s]
  <2>1. new[b] = Anc[s][m]
    BY <1>1, <1>2, <1>4 DEF NewB, JumpOK
  <2>2. Num[Anc[s][m]] = m
    BY <1>2, <1>3, AncIs
  <2>3. PICK to : to = Anc[s][m]
    OBVIOUS
  <2>4. LinksB(b, to)
    BY <1>3, <1>4, <2>2, <2>3 DEF LinksB, Leads
  <2> QED
    BY <1>1, <2>1, <2>3, <2>4
<1>5. CASE ~(b = s /\ m < Num[s])
  <2>1. new[b] = toB[b]
    BY <1>1, <1>5 DEF NewB, JumpOK
  <2> QED
    BY <1>1, <2>1
<1> QED
  BY <1>4, <1>5

LEMMA StepJump == ASSUME JumpOK, [JumpNext]_jumpVars PROVE JumpOK'
<1>1. /\ now \in Nat /\ tip \in known /\ known \subseteq Block /\ full \subseteq known
      /\ DOMAIN toH = Block /\ DOMAIN toB = Block
  BY DEF JumpOK
<1>2. ASSUME tip' = tip, known \subseteq known', full \subseteq full'
      PROVE  (\A n \in 0 .. Num[tip] : Anc[tip][n] \in known /\ ~NeedBody(Anc[tip][n]))'
  BY <1>2 DEF JumpOK, NeedBody
<1>3. CASE UNCHANGED jumpVars
  <2>1. UNCHANGED << now, tip, known, full, toH, toB >>
    BY <1>3 DEF jumpVars
  <2> QED
    BY <1>1, <1>2, <2>1, KeepJump
<1>4. ASSUME NEW b \in Block, Header(b) PROVE JumpOK'
  <2>1. known' = known \cup {b} /\ UNCHANGED << now, tip, full, toH, toB >>
    BY <1>4 DEF Header
  <2>2. known \subseteq known' /\ known' \subseteq Block /\ tip' \in known' /\ full' \subseteq known'
    BY <1>1, <2>1
  <2> QED
    BY <1>1, <1>2, <2>1, <2>2, KeepJump
<1>5. ASSUME NEW b \in Block, Body(b) PROVE JumpOK'
  <2>1. b \in known /\ full' = full \cup {b} /\ UNCHANGED << now, tip, known, toH, toB >>
    BY <1>5 DEF Body
  <2>2. full \subseteq full' /\ full' \subseteq known'
    BY <1>1, <2>1
  <2> QED
    BY <1>1, <1>2, <2>1, <2>2, KeepJump
<1>6. ASSUME NEW b \in Block, SetMain(b) PROVE JumpOK'
  <2>1. tip' = b /\ UNCHANGED << now, known, full, toH, toB >>
    BY <1>6 DEF SetMain
  <2>2. \A n \in 0 .. Num[b] : Anc[b][n] \in known /\ ~NeedBody(Anc[b][n])
    BY <1>6 DEF SetMain
  <2>3. Num[b] \in 0 .. Num[b] /\ Anc[b][Num[b]] = b
    BY NumIs, BlocksAssumption
  <2>4. tip' \in known'
    BY <2>1, <2>2, <2>3
  <2>5. (\A n \in 0 .. Num[tip] : Anc[tip][n] \in known /\ ~NeedBody(Anc[tip][n]))'
    BY <2>1, <2>2 DEF NeedBody
  <2> QED
    BY <1>1, <2>1, <2>4, <2>5, KeepJump
<1>7. ASSUME NEW s \in Block, DoMaxStatus(s) PROVE JumpOK'
  <2>1. /\ s \in known /\ UNCHANGED << now, tip, known, full >>
        /\ toH' = toH \/ toH' = NewH(s)
        /\ toB' = toB \/ (InMain(Anc[s][FirstHead(s)]) /\ toB' = NewB(FirstHead(s), s))
    BY <1>7 DEF DoMaxStatus
  <2>2. DOMAIN toH' = Block
    BY <1>1, <2>1 DEF NewH
  <2>3. DOMAIN toB' = Block
    BY <1>1, <2>1 DEF NewB
  <2>4. ASSUME NEW b \in Block
        PROVE  toH'[b] # NoJump => toH'[b] = toH[b] \/ LinksH(b, toH'[b])
    BY <2>1, NewHIs
  <2>5. ASSUME NEW b \in Block
        PROVE  toB'[b] # NoJump => toB'[b] = toB[b] \/ LinksB(b, toB'[b])
    BY <2>1, NewBIs
  <2> QED
    BY <1>1, <1>2, <2>1, <2>2, <2>3, <2>4, <2>5, KeepJump
<1>8. ASSUME Tick PROVE JumpOK'
  <2>1. now' = now + 1 /\ UNCHANGED << tip, known, full, toH, toB >>
    BY <1>8 DEF Tick
  <2> QED
    BY <1>1, <1>2, <2>1, KeepJump
<1> QED
  BY <1>3, <1>4, <1>5, <1>6, <1>7, <1>8 DEF JumpNext

(* No step changes the chains a pointer stands for: JumpOK is inductive.   *)
LEMMA JumpAlwaysOK == JumpSpec => []JumpOK
BY FirstJump, StepJump, PTL DEF JumpSpec

(* Every pointer leads to a stored block further down the same chain: no   *)
(* search through pointers goes round in circles, and none leaves the      *)
(* chain (the checks of SetBlockJump).                                     *)
THEOREM PointersLead == JumpSpec => []PointersOK
<1>1. JumpOK => PointersOK
  BY DEF JumpOK, PointersOK, LinksH, LinksB, Leads
<1> QED
  BY <1>1, JumpAlwaysOK, PTL

(* Whatever reorganisations lie between the writing of a pointer and its   *)
(* use, a chain never looks better connected than it is (GetFirstHeadBlock *)
(* against GetFirstHeadBlock0): a pointer passes over no block without its *)
(* parent, and below a block of the main chain all are of the main chain.  *)
THEOREM HeadsNotAbove == JumpSpec => []HeadNotAbove
BY HeadsAgree, JumpAlwaysOK, PTL

(* The search for the next body to load skips none, though bodies arrive   *)
(* and the main chain moves after its pointers are written: a pointer      *)
(* passes over no block without its body, and no body is ever dropped.     *)
THEOREM BodiesFound == JumpSpec => []EmptyAgrees
BY BodyAgrees, JumpAlwaysOK, PTL
-----------------------------------------------------------------------------
(* DoubleConnect: what both ends have of a connection and what is on its   *)
(* way between them go together, whatever the order of handshakes, ticks   *)
(* and breaks.                                                             *)

DoubleTypes ==
  /\ by \in [Conn -> Node \cup {None}]
  /\ child \in [Conn -> [Node -> {None, "wait", "open", "known", "gone"}]]
  /\ wire \in [Conn -> [Node -> Seq({"HANDSHAKE", "RET", "FIND_IN_CONNECT", "close"})]]

(* The end that has made a connection, the other end, and what is on its   *)
(* way to the one and to the other.                                        *)
Met(maker, other, in, out) ==
  \/ maker \in {"wait", "gone"} /\ other = None /\ in = << >> /\ out = << >>
  \/ /\ maker = "open" /\ other = "open"
     /\ \/ in = << >> /\ out = << "HANDSHAKE" >>
        \/ in = << "FIND_IN_CONNECT" >> /\ out = << >>
  \/ maker = "open" /\ other = "known" /\ in = << "RET" >> /\ out = << >>
  \/ maker = "known" /\ other = "known" /\ in = << >> /\ out = << >>
  \/ /\ maker = "open" /\ other = "gone"
     /\ \/ in = << "close" >> /\ out \in {<< >>, << "HANDSHAKE" >>}
        \/ in \in {<< "RET", "close" >>, << "FIND_IN_CONNECT", "close" >>} /\ out = << >>
  \/ maker = "known" /\ other = "gone" /\ in = << "close" >> /\ out = << >>
  \/ /\ maker = "gone" /\ other = "open"
     /\ \/ in = << >> /\ out = << "HANDSHAKE", "close" >>
        \/ in \in {<< >>, << "FIND_IN_CONNECT" >>} /\ out = << "close" >>
  \/ maker = "gone" /\ other = "known" /\ in \in {<< >>, << "RET" >>} /\ out = << "close" >>
  \/ maker = "gone" /\ other = "gone"

EndsMeet(c) ==
  IF by[c] = None THEN \A n \in Node : child[c][n] = None /\ wire[c][n] = << >>
  ELSE Met(child[c][by[c]], child[c][Peer(by[c])], wire[c][by[c]], wire[c][Peer(by[c])])

(* A node has one connection it has made, and knows one it has not.        *)
OneMade ==
  \A c, d \in Conn : by[c] = by[d] /\ by[c] # None /\ c # d => "gone" \in {child[c][by[c]], child[d][by[c]]}
OneKnown ==
  \A n \in Node : \A c, d \in Known(n) : by[c] # n /\ by[d] # n => c = d

DoubleInv == DoubleTypes /\ (\A c \in Conn : EndsMeet(c)) /\ OneMade /\ OneKnown

LEMMA PeerIs ==
  ASSUME NEW n \in Node
  PROVE  Peer(n) \in Node /\ Peer(n) # n /\ Peer(Peer(n)) = n /\ Node = {n, Peer(n)}
BY DoubleAssumption DEF Node, Peer

(* Sequences of one and of two messages.                                   *)
LEMMA OneMessage ==
  ASSUME NEW x, NEW y
  PROVE  /\ Head(<< x >>) = x /\ Tail(<< x >>) = << >>
         /\ Head(<< x, y >>) = x /\ Tail(<< x, y >>) = << y >>
         /\ Append(<< >>, x) = << x >> /\ Append(<< x >>, y) = << x, y >>
<1>1. Head(<< x >>) = x /\ Head(<< x, y >>) = x
  OBVIOUS
<1>2. Tail(<< x >>) = << >>
  OBVIOUS
<1>3. Tail(<< x, y >>) = << y >>
  <2>1. << x, y >> \in Seq({x, y}) /\ << x, y >> # << >> /\ Len(<< x, y >>) = 2
    OBVIOUS
  <2>2. Tail(<< x, y >>) \in Seq({x, y}) /\ Len(Tail(<< x, y >>)) = 1 /\ Tail(<< x, y >>)[1] = y
    BY <2>1, HeadTailProperties
  <2> QED
    BY <2>2
<1>4. Append(<< >>, x) = << x >>
  OBVIOUS
<1>5. PICK s, t : s = << x >> /\ t = << x, y >>
  OBVIOUS
<1>6. /\ s \in Seq({x, y}) /\ Len(s) = 1 /\ s[1] = x
      /\ t \in Seq({x, y}) /\ Len(t) = 2 /\ t[1] = x /\ t[2] = y
  BY <1>5
<1>7. Append(s, y) \in Seq({x, y}) /\ Len(Append(s, y)) = 2 /\ \A i \in 1 .. 2 : Append(s, y)[i] = t[i]
  <2>1. PICK S : S = {x, y}
    OBVIOUS
  <2>2. s \in Seq(S) /\ y \in S
    BY <1>6, <2>1
  <2>3. /\ Append(s, y) \in Seq(S) /\ Len(Append(s, y)) = Len(s) + 1
        /\ Append(s, y)[1] = s[1] /\ Append(s, y)[Len(s) + 1] = y
    BY <1>6, <2>2, AppendProperties, SMTT(30)
  <2> QED
    BY <1>6, <2>1, <2>3
<1>8. Append(s, y) = t
  BY <1>6, <1>7, SeqEqual
<1> QED
  BY <1>1, <1>2, <1>3, <1>4, <1>5, <1>8

(* The end n leaves.                                                       *)
Leaves(c, n) ==
  /\ child'[c] = [child[c] EXCEPT ![n] = "gone"]
  /\ wire'[c] = [wire[c] EXCEPT ![Peer(n)] = Append(@, "close")]

LEMMA LeavesMeets ==
  ASSUME DoubleTypes, NEW c \in Conn, NEW n \in Node, EndsMeet(c), child[c][n] \in {"open", "known"},
         by'[c] = by[c], Leaves(c, n)
  PROVE  EndsMeet(c)'
<1>1. by[c] # None /\ by[c] \in Node
  BY DEF EndsMeet, DoubleTypes, None
<1>2. /\ Peer(n) \in Node /\ Peer(n) # n /\ Peer(Peer(n)) = n /\ Node = {n, Peer(n)}
      /\ child'[c][n] = "gone" /\ child'[c][Peer(n)] = child[c][Peer(n)]
      /\ wire'[c][n] = wire[c][n] /\ wire'[c][Peer(n)] = Append(wire[c][Peer(n)], "close")
  BY PeerIs DEF DoubleTypes, Leaves
<1>3. CASE by[c] = n
  <2>1. Met(child[c][n], child[c][Peer(n)], wire[c][n], wire[c][Peer(n)])
    BY <1>1, <1>3 DEF EndsMeet
  <2>2. Met("gone", child[c][Peer(n)], wire[c][n], Append(wire[c][Peer(n)], "close"))
    BY <2>1, OneMessage, ZenonT(60) DEF Met, None
  <2> QED
    BY <1>1, <1>2, <1>3, <2>2 DEF EndsMeet
<1>4. CASE by[c] = Peer(n)
  <2>1. Met(child[c][Peer(n)], child[c][n], wire[c][Peer(n)], wire[c][n])
    BY <1>1, <1>2, <1>4 DEF EndsMeet
  <2>2. Met(child[c][Peer(n)], "gone", Append(wire[c][Peer(n)], "close"), wire[c][n])
    <3> DEFINE maker == child[c][Peer(n)]
               in == wire[c][Peer(n)]
               out == wire[c][n]
    <3>1. \/ maker = "gone"
          \/ maker = "open" /\ in = << >> /\ out = << "HANDSHAKE" >>
          \/ maker = "open" /\ in \in {<< "RET" >>, << "FIND_IN_CONNECT" >>} /\ out = << >>
          \/ maker = "known" /\ in = << >> /\ out = << >>
      BY <2>1 DEF Met, None
    <3>2. /\ Append(<< >>, "close") = << "close" >>
          /\ Append(<< "RET" >>, "close") = << "RET", "close" >>
          /\ Append(<< "FIND_IN_CONNECT" >>, "close") = << "FIND_IN_CONNECT", "close" >>
      BY OneMessage
    <3> HIDE DEF maker, in, out
    <3>3. Met(maker, "gone", Append(in, "close"), out)
      BY <3>1, <3>2 DEF Met
    <3> QED
      BY <3>3 DEF maker, in, out
  <2> QED
    BY <1>1, <1>2, <1>4, <2>2 DEF EndsMeet
<1> QED
  BY <1>1, <1>2, <1>3, <1>4

LEMMA LeaveKeeps ==
  ASSUME DoubleInv, NEW n \in Node, NEW cs, cs \subseteq Open(n),
         child' = Removed(cs, n), wire' = Closed(wire, cs, n), by' = by
  PROVE  DoubleInv'
<1>1. /\ Peer(n) \in Node /\ Peer(n) # n /\ Peer(Peer(n)) = n /\ Node = {n, Peer(n)}
      /\ DoubleTypes /\ \A c \in Conn : EndsMeet(c)
  BY PeerIs DEF DoubleInv
<1>2. ASSUME NEW c \in Conn, c \in cs
      PROVE  child[c][n] \in {"open", "known"} /\ Leaves(c, n)
  <2>1. child[c][n] \in {"open", "known"}
    BY <1>2 DEF Open
  <2>2. by[c] \in Node
    BY <1>1, <2>1 DEF EndsMeet, DoubleTypes, None
  <2>3. child[c][Peer(n)] # None
    <3>1. CASE by[c] = n
      BY <1>1, <2>1, <2>2, <3>1 DEF EndsMeet, Met, None, DoubleTypes
    <3>2. CASE by[c] = Peer(n)
      BY <1>1, <2>1, <2>2, <3>2 DEF EndsMeet, Met, None, DoubleTypes
    <3> QED
      BY <1>1, <2>2, <3>1, <3>2
  <2> QED
    BY <1>2, <2>1, <2>3 DEF Leaves, Removed, Closed
<1>3. ASSUME NEW c \in Conn, c \notin cs PROVE child'[c] = child[c] /\ wire'[c] = wire[c]
  <2>1. child'[c] = child[c]
    BY <1>3 DEF Removed
  <2>2. wire'[c] = wire[c]
    BY <1>3 DEF Closed
  <2> QED
    BY <2>1, <2>2
<1>4. DoubleTypes'
  <2>1. child' \in [Conn -> [Node -> {None, "wait", "open", "known", "gone"}]]
    BY <1>1 DEF DoubleTypes, Removed
  <2>2. ASSUME NEW c \in Conn PROVE wire'[c] \in [Node -> Seq({"HANDSHAKE", "RET", "FIND_IN_CONNECT", "close"})]
    <3>1. wire[c] \in [Node -> Seq({"HANDSHAKE", "RET", "FIND_IN_CONNECT", "close"})]
      BY <1>1 DEF DoubleTypes
    <3>2. CASE c \in cs
      <4>1. wire'[c] = [wire[c] EXCEPT ![Peer(n)] = Append(@, "close")]
        BY <1>2, <3>2 DEF Leaves
      <4> QED
        BY <1>1, <3>1, <4>1
    <3>3. CASE c \notin cs
      BY <1>3, <3>1, <3>3
    <3> QED
      BY <3>2, <3>3
  <2>3. wire' \in [Conn -> [Node -> Seq({"HANDSHAKE", "RET", "FIND_IN_CONNECT", "close"})]]
    BY <2>2 DEF Closed
  <2> QED
    BY <1>1, <2>1, <2>3 DEF DoubleTypes
<1>5. ASSUME NEW c \in Conn PROVE EndsMeet(c)'
  <2>1. CASE c \in cs
    BY <1>1, <1>2, <2>1, LeavesMeets
  <2>2. CASE c \notin cs
    BY <1>1, <1>3, <2>2 DEF EndsMeet
  <2> QED
    BY <2>1, <2>2
<1>6. \A c \in Conn : \A m \in Node : child'[c][m] = child[c][m] \/ child'[c][m] = "gone"
  <2> SUFFICES ASSUME NEW c \in Conn, NEW m \in Node PROVE child'[c][m] = child[c][m] \/ child'[c][m] = "gone"
    OBVIOUS
  <2>1. CASE c \in cs
    <3>1. child'[c] = [child[c] EXCEPT ![n] = "gone"]
      BY <1>2, <2>1 DEF Leaves
    <3> QED
      BY <1>1, <3>1 DEF DoubleTypes
  <2>2. CASE c \notin cs
    BY <1>3, <2>2
  <2> QED
    BY <2>1, <2>2
<1>7. OneMade'
  BY <1>1, <1>6, ZenonT(60) DEF DoubleInv, OneMade, DoubleTypes
<1>8. \A m \in Node : Known(m)' \subseteq Known(m)
  BY <1>6 DEF Known
<1>9. OneKnown'
  BY <1>8 DEF DoubleInv, OneKnown
<1> QED
  BY <1>4, <1>5, <1>7, <1>9 DEF DoubleInv

(* A step of one connection that makes no end of it one that counts more.  *)
LEMMA OtherStay ==
  ASSUME DoubleInv, NEW c \in Conn, by' = by, DoubleTypes', EndsMeet(c)',
         \A d \in Conn \ {c} : child'[d] = child[d] /\ wire'[d] = wire[d],
         by[c] \in Node, child[c][by[c]] = "gone" => child'[c][by[c]] = "gone",
         \/ child'[c][Peer(by[c])] # "known"
         \/ child[c][Peer(by[c])] = "known"
         \/ Known(Peer(by[c])) = {}
  PROVE  DoubleInv'
<1>1. \A d \in Conn : EndsMeet(d)'
  BY DEF DoubleInv, EndsMeet
<1>2. OneMade'
  BY DEF DoubleInv, OneMade
<1>3. OneKnown'
  <2> SUFFICES ASSUME NEW n \in Node, NEW d \in Known(n)', NEW e \in Known(n)', by[d] # n, by[e] # n, d # e PROVE FALSE
    BY DEF OneKnown
  <2>1. d \in Conn /\ e \in Conn /\ \A f \in Conn \ {c} : f \in Known(n)' => f \in Known(n)
    BY DEF Known
  <2>2. PICK f \in {d, e} : f # c /\ f \in Known(n)
    BY <2>1
  <2>3. {d, e} \subseteq Known(n) => FALSE
    BY DEF DoubleInv, OneKnown
  <2>4. c \in {d, e} /\ c \in Known(n)' /\ c \notin Known(n)
    BY <2>1, <2>2, <2>3
  <2>5. Peer(by[c]) = n
    BY <2>4, PeerIs
  <2>6. child'[c][n] = "known" /\ child[c][n] # "known"
    BY <2>4 DEF Known
  <2> QED
    BY <2>2, <2>5, <2>6
<1> QED
  BY <1>1, <1>2, <1>3 DEF DoubleInv

LEMMA ConnectKeeps ==
  ASSUME DoubleInv, NEW n \in Node, Connect(n), wire' = wire
  PROVE  DoubleInv'
<1>1. PICK c \in Conn :
        /\ by[c] = None /\ Neighbours(n) = {}
        /\ \/ UNCHANGED << by, child >>
           \/ by' = [by EXCEPT ![c] = n] /\ child' = [child EXCEPT ![c][n] = "wait"]
  BY DEF Connect
<1>2. CASE UNCHANGED << by, child >>
  BY <1>2 DEF DoubleInv, DoubleTypes, EndsMeet, OneMade, OneKnown, Known
<1>3. CASE by' = [by EXCEPT ![c] = n] /\ child' = [child EXCEPT ![c][n] = "wait"]
  <2>1. /\ Peer(n) \in Node /\ Peer(n) # n /\ Node = {n, Peer(n)} /\ n # None
        /\ DoubleTypes /\ \A d \in Conn : EndsMeet(d)
    BY PeerIs, DoubleAssumption DEF DoubleInv
  <2>2. DoubleTypes'
    BY <1>3, <2>1 DEF DoubleTypes
  <2>3. \A d \in Conn \ {c} : by'[d] = by[d] /\ child'[d] = child[d]
    BY <1>3, <2>1 DEF DoubleTypes
  <2>4. /\ by'[c] = n /\ child'[c][n] = "wait" /\ child'[c][Peer(n)] = None
        /\ wire'[c][n] = << >> /\ wire'[c][Peer(n)] = << >>
    BY <1>1, <1>3, <2>1 DEF DoubleTypes, EndsMeet
  <2>5. ASSUME NEW d \in Conn PROVE EndsMeet(d)'
    <3>1. CASE d = c
      <4>1. Met("wait", None, << >>, << >>)
        BY DEF Met
      <4> QED
        BY <2>1, <2>4, <3>1, <4>1 DEF EndsMeet
    <3>2. CASE d # c
      BY <2>1, <2>3, <3>2 DEF EndsMeet
    <3> QED
      BY <3>1, <3>2
  <2>6. ASSUME NEW d \in Conn, by[d] = n PROVE child[d][n] = "gone"
    <3>1. Met(child[d][n], child[d][Peer(n)], wire[d][n], wire[d][Peer(n)])
      BY <2>1, <2>6 DEF EndsMeet
    <3>2. child[d][n] \in {"wait", "open", "known", "gone"}
      BY <3>1 DEF Met
    <3>3. child[d][n] \notin {"wait", "open", "known"}
      BY <1>1, <2>6 DEF Neighbours
    <3> QED
      BY <3>2, <3>3
  <2>7. OneMade'
    <3> SUFFICES ASSUME NEW d \in Conn, NEW e \in Conn, by'[d] = by'[e], by'[d] # None, d # e
                 PROVE  "gone" \in {child'[d][by'[d]], child'[e][by'[d]]}
      BY DEF OneMade
    <3>1. CASE c \notin {d, e}
      BY <2>3, <3>1 DEF DoubleInv, OneMade
    <3>2. CASE c \in {d, e}
      BY <2>3, <2>4, <2>6, <3>2
    <3> QED
      BY <3>1, <3>2
  <2>8. OneKnown'
    <3>1. \A m \in Node : \A d \in Known(m)' : d # c /\ d \in Known(m) /\ by'[d] = by[d]
      BY <2>1, <2>3, <2>4 DEF Known, None
    <3> QED
      BY <3>1 DEF DoubleInv, OneKnown
  <2> QED
    BY <2>2, <2>5, <2>7, <2>8 DEF DoubleInv
<1> QED
  BY <1>1, <1>2, <1>3

LEMMA SocketKeeps ==
  ASSUME DoubleInv, NEW c \in Conn, Connected(c) \/ NotConnected(c)
  PROVE  DoubleInv'
<1> DEFINE n == by[c]
<1>1. /\ DoubleTypes /\ EndsMeet(c) /\ n # None /\ child[c][n] = "wait" /\ by' = by
  BY DEF DoubleInv, Connected, NotConnected
<1>2. n \in Node /\ Peer(n) \in Node /\ Peer(n) # n /\ Node = {n, Peer(n)}
  BY <1>1, PeerIs DEF DoubleTypes
<1>3. child[c][Peer(n)] = None /\ wire[c][n] = << >> /\ wire[c][Peer(n)] = << >>
  BY <1>1, <1>2 DEF EndsMeet, Met, None
<1>4. CASE Connected(c)
  <2>1. /\ child'[c] = [m \in Node |-> "open"] /\ wire'[c] = [wire[c] EXCEPT ![Peer(n)] = Append(@, "HANDSHAKE")]
        /\ \A d \in Conn \ {c} : child'[d] = child[d] /\ wire'[d] = wire[d]
    BY <1>1, <1>2, <1>4 DEF Connected, DoubleTypes, Send
  <2>2. DoubleTypes'
    <3>1. child' \in [Conn -> [Node -> {None, "wait", "open", "known", "gone"}]]
      BY <1>1, <1>4 DEF Connected, DoubleTypes
    <3>2. wire' \in [Conn -> [Node -> Seq({"HANDSHAKE", "RET", "FIND_IN_CONNECT", "close"})]]
      BY <1>1, <1>2, <1>4 DEF Connected, DoubleTypes, Send
    <3> QED
      BY <1>1, <3>1, <3>2 DEF DoubleTypes
  <2>3. wire[c] \in [Node -> Seq({"HANDSHAKE", "RET", "FIND_IN_CONNECT", "close"})]
    BY <1>1 DEF DoubleTypes
  <2>4. child'[c][n] = "open" /\ child'[c][Peer(n)] = "open" /\ wire'[c][n] = << >> /\ wire'[c][Peer(n)] = << "HANDSHAKE" >>
    BY <1>2, <1>3, <2>1, <2>3
  <2>5. Met("open", "open", << >>, << "HANDSHAKE" >>)
    BY DEF Met
  <2>6. EndsMeet(c)'
    BY <1>1, <2>4, <2>5 DEF EndsMeet
  <2> QED
    BY <1>1, <1>2, <2>1, <2>2, <2>4, <2>6, OtherStay
<1>5. CASE NotConnected(c)
  <2>1. /\ child'[c] = [child[c] EXCEPT ![n] = "gone"] /\ wire' = wire
        /\ \A d \in Conn \ {c} : child'[d] = child[d]
    BY <1>1, <1>2, <1>5 DEF NotConnected, DoubleTypes, Removed
  <2>2. DoubleTypes'
    BY <1>1, <1>5 DEF NotConnected, DoubleTypes, Removed
  <2>3. child'[c][n] = "gone" /\ child'[c][Peer(n)] = None
    BY <1>1, <1>2, <1>3, <2>1 DEF DoubleTypes
  <2>4. Met("gone", None, << >>, << >>)
    BY DEF Met
  <2>5. EndsMeet(c)'
    BY <1>1, <1>3, <2>1, <2>3, <2>4 DEF EndsMeet
  <2> QED
    BY <1>1, <1>2, <2>1, <2>2, <2>3, <2>5, OtherStay DEF None
<1> QED
  BY <1>4, <1>5

(* A message that arrives at the end that has made the connection.         *)
LEMMA MakerReceives ==
  ASSUME DoubleInv, NEW c \in Conn, NEW n \in Node, by[c] = n, Receive(c, n)
  PROVE  DoubleInv'
<1>1. /\ Peer(n) \in Node /\ Peer(n) # n /\ Peer(Peer(n)) = n /\ Node = {n, Peer(n)} /\ n # None
      /\ DoubleTypes /\ EndsMeet(c) /\ by' = by
  BY PeerIs, DoubleAssumption DEF DoubleInv, Receive
<1> DEFINE rest == [wire EXCEPT ![c][n] = Tail(@)]
           maker == child[c][n]
           other == child[c][Peer(n)]
           in == wire[c][n]
           out == wire[c][Peer(n)]
<1>2. Met(maker, other, in, out) /\ in # << >>
  BY <1>1 DEF EndsMeet, Receive
<1>3. rest \in [Conn -> [Node -> Seq({"HANDSHAKE", "RET", "FIND_IN_CONNECT", "close"})]]
  <2>1. in \in Seq({"HANDSHAKE", "RET", "FIND_IN_CONNECT", "close"})
    BY <1>1 DEF DoubleTypes
  <2>2. Tail(in) \in Seq({"HANDSHAKE", "RET", "FIND_IN_CONNECT", "close"})
    BY <1>2, <2>1
  <2> QED
    BY <1>1, <2>2 DEF DoubleTypes
<1>4. rest[c][n] = Tail(in) /\ rest[c][Peer(n)] = out /\ \A d \in Conn \ {c} : rest[d] = wire[d]
  BY <1>1 DEF DoubleTypes
<1> HIDE DEF rest
<1>5. \/ maker = "gone" /\ wire' = rest /\ child' = child
      \/ maker # "gone" /\ Head(in) = "close" /\ child' = Removed({c}, n) /\ wire' = rest
      \/ maker # "gone" /\ Head(in) = "RET" /\ child' = [child EXCEPT ![c][n] = "known"] /\ wire' = rest
      \/ /\ maker # "gone" /\ Head(in) = "FIND_IN_CONNECT"
         /\ child' = Removed({c}, n) /\ wire' = Closed(rest, {c}, n)
  <2>1. maker # "gone" => Head(in) \in {"close", "RET", "FIND_IN_CONNECT"}
    BY <1>2, OneMessage DEF Met
  <2> QED
    BY <2>1 DEF Receive, OnHandShakeReturn, rest
<1>6. CASE maker = "gone" /\ wire' = rest /\ child' = child
  <2>1. Met(maker, other, Tail(in), out)
    BY <1>2, <1>6, OneMessage DEF Met
  <2>2. EndsMeet(c)'
    BY <1>1, <1>4, <1>6, <2>1 DEF EndsMeet
  <2>3. DoubleTypes'
    BY <1>1, <1>3, <1>6 DEF DoubleTypes
  <2> QED
    BY <1>1, <1>4, <1>6, <2>2, <2>3, OtherStay
<1>7. CASE maker # "gone" /\ Head(in) = "close" /\ child' = Removed({c}, n) /\ wire' = rest
  <2>1. child'[c] = [child[c] EXCEPT ![n] = "gone"] /\ \A d \in Conn \ {c} : child'[d] = child[d]
    BY <1>7 DEF Removed
  <2>2. child'[c][n] = "gone" /\ child'[c][Peer(n)] = other
    BY <1>1, <2>1 DEF DoubleTypes
  <2>3. DoubleTypes'
    <3>1. child' \in [Conn -> [Node -> {None, "wait", "open", "known", "gone"}]]
      BY <1>1, <1>7 DEF DoubleTypes, Removed
    <3> QED
      BY <1>1, <1>3, <1>7, <3>1 DEF DoubleTypes
  <2>4. Met("gone", other, Tail(in), out)
    BY <1>2, <1>7, OneMessage DEF Met
  <2>5. EndsMeet(c)'
    BY <1>1, <1>4, <1>7, <2>2, <2>4 DEF EndsMeet
  <2> QED
    BY <1>1, <1>4, <1>7, <2>1, <2>2, <2>3, <2>5, OtherStay
<1>8. CASE maker # "gone" /\ Head(in) = "RET" /\ child' = [child EXCEPT ![c][n] = "known"] /\ wire' = rest
  <2>1. child'[c][n] = "known" /\ child'[c][Peer(n)] = other /\ \A d \in Conn \ {c} : child'[d] = child[d]
    BY <1>1, <1>8 DEF DoubleTypes
  <2>2. DoubleTypes'
    <3>1. child' \in [Conn -> [Node -> {None, "wait", "open", "known", "gone"}]]
      BY <1>1, <1>8 DEF DoubleTypes
    <3> QED
      BY <1>1, <1>3, <1>8, <3>1 DEF DoubleTypes
  <2>3. Met("known", other, Tail(in), out)
    <3>1. \/ other = "known" /\ in = << "RET" >> /\ out = << >>
          \/ other = "gone" /\ in = << "RET", "close" >> /\ out = << >>
      BY <1>2, <1>8, OneMessage DEF Met
    <3>2. Tail(<< "RET" >>) = << >> /\ Tail(<< "RET", "close" >>) = << "close" >>
      BY OneMessage
    <3> HIDE DEF other, in, out
    <3> QED
      BY <3>1, <3>2 DEF Met
  <2>4. EndsMeet(c)'
    BY <1>1, <1>4, <1>8, <2>1, <2>3 DEF EndsMeet
  <2>5. other = "known" => child'[c][Peer(n)] = "known"
    BY <2>1
  <2> QED
    BY <1>1, <1>4, <1>8, <2>1, <2>2, <2>4, <2>5, OtherStay
<1>9. CASE /\ maker # "gone" /\ Head(in) = "FIND_IN_CONNECT"
           /\ child' = Removed({c}, n) /\ wire' = Closed(rest, {c}, n)
  <2>1. child'[c] = [child[c] EXCEPT ![n] = "gone"] /\ \A d \in Conn \ {c} : child'[d] = child[d]
    BY <1>9 DEF Removed
  <2>2. child'[c][n] = "gone" /\ child'[c][Peer(n)] = other
    BY <1>1, <2>1 DEF DoubleTypes
  <2>3. other # None
    BY <1>2, <1>9, OneMessage DEF Met, None
  <2>4. wire'[c] = [rest[c] EXCEPT ![Peer(n)] = Append(@, "close")] /\ \A d \in Conn \ {c} : wire'[d] = rest[d]
    BY <1>9, <2>3 DEF Closed
  <2>5. rest[c] \in [Node -> Seq({"HANDSHAKE", "RET", "FIND_IN_CONNECT", "close"})]
    BY <1>3
  <2>6. wire'[c][n] = Tail(in) /\ wire'[c][Peer(n)] = Append(out, "close")
    BY <1>1, <1>4, <2>4, <2>5
  <2>7. DoubleTypes'
    <3>1. child' \in [Conn -> [Node -> {None, "wait", "open", "known", "gone"}]]
      BY <1>1, <1>9 DEF DoubleTypes, Removed
    <3>2. ASSUME NEW d \in Conn PROVE wire'[d] \in [Node -> Seq({"HANDSHAKE", "RET", "FIND_IN_CONNECT", "close"})]
      <4>1. CASE d = c
        BY <1>1, <2>4, <2>5, <4>1, SMTT(30)
      <4>2. CASE d # c
        BY <1>3, <2>4, <4>2
      <4> QED
        BY <4>1, <4>2
    <3>3. wire' \in [Conn -> [Node -> Seq({"HANDSHAKE", "RET", "FIND_IN_CONNECT", "close"})]]
      BY <1>9, <3>2 DEF Closed
    <3> QED
      BY <1>1, <3>1, <3>3 DEF DoubleTypes
  <2>8. Met("gone", other, Tail(in), Append(out, "close"))
    BY <1>2, <1>9, OneMessage DEF Met
  <2>9. EndsMeet(c)'
    BY <1>1, <2>2, <2>6, <2>8 DEF EndsMeet
  <2> QED
    BY <1>1, <1>4, <2>1, <2>2, <2>4, <2>7, <2>9, OtherStay, ZenonT(60)
<1> QED
  BY <1>5, <1>6, <1>7, <1>8, <1>9

(* A message that arrives at the other end.                                *)
LEMMA OtherReceives ==
  ASSUME DoubleInv, NEW c \in Conn, NEW n \in Node, by[c] \in Node, by[c] # n, Receive(c, n)
  PROVE  DoubleInv'
<1> DEFINE m == by[c]
           rest == [wire EXCEPT ![c][n] = Tail(@)]
           maker == child[c][m]
           other == child[c][n]
           in == wire[c][m]
           out == wire[c][n]
<1>1. /\ m \in Node /\ Peer(m) = n /\ Node = {n, m} /\ m # n /\ m # None
      /\ DoubleTypes /\ EndsMeet(c) /\ by' = by
  BY PeerIs, DoubleAssumption DEF DoubleInv, Receive
<1>2. Met(maker, other, in, out) /\ out # << >>
  BY <1>1 DEF EndsMeet, Receive
<1>3. rest \in [Conn -> [Node -> Seq({"HANDSHAKE", "RET", "FIND_IN_CONNECT", "close"})]]
  <2>1. out \in Seq({"HANDSHAKE", "RET", "FIND_IN_CONNECT", "close"})
    BY <1>1 DEF DoubleTypes
  <2>2. Tail(out) \in Seq({"HANDSHAKE", "RET", "FIND_IN_CONNECT", "close"})
    BY <1>2, <2>1
  <2> QED
    BY <1>1, <2>2 DEF DoubleTypes
<1>4. rest[c][n] = Tail(out) /\ rest[c][m] = in /\ \A d \in Conn \ {c} : rest[d] = wire[d]
  BY <1>1 DEF DoubleTypes
<1> HIDE DEF rest
<1>5. \/ other = "gone" /\ wire' = rest /\ child' = child
      \/ other # "gone" /\ Head(out) = "close" /\ child' = Removed({c}, n) /\ wire' = rest
      \/ other # "gone" /\ Head(out) = "HANDSHAKE" /\ HANDSHAKE(c, n, rest)
  <2>1. other # "gone" => Head(out) \in {"close", "HANDSHAKE"}
    BY <1>2, OneMessage DEF Met
  <2> QED
    BY <2>1 DEF Receive, rest
<1>6. CASE other = "gone" /\ wire' = rest /\ child' = child
  <2>1. Met(maker, other, in, Tail(out))
    BY <1>2, <1>6, OneMessage DEF Met
  <2>2. EndsMeet(c)'
    BY <1>1, <1>4, <1>6, <2>1 DEF EndsMeet
  <2>3. DoubleTypes'
    BY <1>1, <1>3, <1>6 DEF DoubleTypes
  <2> QED
    BY <1>1, <1>4, <1>6, <2>2, <2>3, OtherStay
<1>7. CASE other # "gone" /\ Head(out) = "close" /\ child' = Removed({c}, n) /\ wire' = rest
  <2>1. child'[c] = [child[c] EXCEPT ![n] = "gone"] /\ \A d \in Conn \ {c} : child'[d] = child[d]
    BY <1>7 DEF Removed
  <2>2. child'[c][n] = "gone" /\ child'[c][m] = maker
    BY <1>1, <2>1 DEF DoubleTypes
  <2>3. DoubleTypes'
    <3>1. child' \in [Conn -> [Node -> {None, "wait", "open", "known", "gone"}]]
      BY <1>1, <1>7 DEF DoubleTypes, Removed
    <3> QED
      BY <1>1, <1>3, <1>7, <3>1 DEF DoubleTypes
  <2>4. maker = "gone"
    BY <1>2, <1>7, OneMessage DEF Met
  <2>5. Met("gone", "gone", in, Tail(out))
    BY DEF Met
  <2>6. EndsMeet(c)'
    BY <1>1, <1>4, <1>7, <2>2, <2>4, <2>5 DEF EndsMeet
  <2> QED
    BY <1>1, <1>4, <1>7, <2>1, <2>2, <2>3, <2>6, OtherStay
<1>8. CASE other # "gone" /\ Head(out) = "HANDSHAKE" /\ HANDSHAKE(c, n, rest)
  <2>1. /\ other = "open"
        /\ \/ maker = "open" /\ in = << >> /\ out = << "HANDSHAKE" >>
           \/ maker = "gone" /\ in = << >> /\ out = << "HANDSHAKE", "close" >>
    BY <1>2, <1>8, OneMessage DEF Met
  <2>2. /\ Tail(<< "HANDSHAKE" >>) = << >> /\ Tail(<< "HANDSHAKE", "close" >>) = << "close" >>
        /\ Append(<< >>, "RET") = << "RET" >> /\ Append(<< >>, "FIND_IN_CONNECT") = << "FIND_IN_CONNECT" >>
    BY OneMessage
  <2>3. ASSUME NEW message \in {"RET", "FIND_IN_CONNECT"}, wire' = Send(rest, c, m, message)
        PROVE  /\ wire' \in [Conn -> [Node -> Seq({"HANDSHAKE", "RET", "FIND_IN_CONNECT", "close"})]]
               /\ wire'[c][m] = Append(in, message) /\ wire'[c][n] = Tail(out)
               /\ \A d \in Conn \ {c} : wire'[d] = wire[d]
    <3>1. wire' \in [Conn -> [Node -> Seq({"HANDSHAKE", "RET", "FIND_IN_CONNECT", "close"})]]
      <4>1. in \in Seq({"HANDSHAKE", "RET", "FIND_IN_CONNECT", "close"})
        BY <1>1 DEF DoubleTypes
      <4>2. Append(in, message) \in Seq({"HANDSHAKE", "RET", "FIND_IN_CONNECT", "close"})
        BY <4>1, AppendProperties
      <4>3. wire' = [rest EXCEPT ![c][m] = Append(in, message)]
        BY <1>4, <2>3 DEF Send
      <4> HIDE DEF in
      <4> QED
        BY <1>1, <1>3, <4>2, <4>3
    <3>2. wire'[c][m] = Append(in, message) /\ wire'[c][n] = Tail(out)
      BY <1>1, <1>3, <1>4, <2>3 DEF Send
    <3>3. \A d \in Conn \ {c} : wire'[d] = wire[d]
      BY <1>3, <1>4, <2>3 DEF Send
    <3> QED
      BY <3>1, <3>2, <3>3
  <2>4. CASE FindConnectByHash(n)
    <3>1. wire' = Send(rest, c, m, "FIND_IN_CONNECT") /\ child' = child
      BY <1>8, <2>4 DEF HANDSHAKE
    <3>2. DoubleTypes'
      BY <1>1, <2>3, <3>1 DEF DoubleTypes
    <3>3. Met(maker, other, Append(in, "FIND_IN_CONNECT"), Tail(out))
      <4> HIDE DEF maker, other, in, out
      <4> QED
        BY <2>1, <2>2 DEF Met
    <3>4. EndsMeet(c)'
      BY <1>1, <2>3, <3>1, <3>3 DEF EndsMeet
    <3> QED
      BY <1>1, <2>1, <2>3, <3>1, <3>2, <3>4, OtherStay
  <2>5. CASE ~FindConnectByHash(n)
    <3>1. wire' = Send(rest, c, m, "RET") /\ child' = [child EXCEPT ![c][n] = "known"] /\ Known(n) = {}
      BY <1>8, <2>5 DEF HANDSHAKE, FindConnectByHash
    <3>2. /\ child' \in [Conn -> [Node -> {None, "wait", "open", "known", "gone"}]]
          /\ child'[c][n] = "known" /\ child'[c][m] = maker /\ \A d \in Conn \ {c} : child'[d] = child[d]
      BY <1>1, <3>1 DEF DoubleTypes
    <3>3. DoubleTypes'
      BY <1>1, <2>3, <3>1, <3>2 DEF DoubleTypes
    <3>4. Met(maker, "known", Append(in, "RET"), Tail(out))
      <4> HIDE DEF maker, other, in, out
      <4> QED
        BY <2>1, <2>2 DEF Met
    <3>5. EndsMeet(c)'
      BY <1>1, <2>3, <3>1, <3>2, <3>4 DEF EndsMeet
    <3> QED
      BY <1>1, <2>1, <2>3, <3>1, <3>2, <3>3, <3>5, OtherStay
  <2> QED
    BY <2>4, <2>5
<1> QED
  BY <1>5, <1>6, <1>7, <1>8

LEMMA DoubleStep == ASSUME DoubleInv, [DoubleNext]_doubleVars PROVE DoubleInv'
<1>1. ASSUME NEW n \in Node, DoNode(n) PROVE DoubleInv'
  <2>1. CASE /\ child' = Removed(Doubles(n), n) /\ wire' = Closed(wire, Doubles(n), n) /\ UNCHANGED << by, checked >>
    <3>1. Doubles(n) \subseteq Open(n)
      BY DEF Doubles
    <3> QED
      BY <2>1, <3>1, LeaveKeeps
  <2>2. CASE Connect(n) /\ UNCHANGED wire
    BY <2>2, ConnectKeeps
  <2> QED
    BY <1>1, <2>1, <2>2 DEF DoNode
<1>2. ASSUME NEW c \in Conn, Connected(c) \/ NotConnected(c) PROVE DoubleInv'
  BY <1>2, SocketKeeps
<1>3. ASSUME NEW c \in Conn, NEW n \in Node, Receive(c, n) PROVE DoubleInv'
  <2>1. by[c] \in Node
    <3>1. wire[c][n] # << >> /\ by[c] \in Node \cup {None} /\ EndsMeet(c)
      BY <1>3 DEF Receive, DoubleInv, DoubleTypes
    <3> QED
      BY <3>1 DEF EndsMeet
  <2> QED
    BY <1>3, <2>1, MakerReceives, OtherReceives
<1>4. ASSUME NEW c \in Conn, NEW n \in Node, Break(c, n) PROVE DoubleInv'
  <2>1. {c} \subseteq Open(n) /\ child' = Removed({c}, n) /\ wire' = Closed(wire, {c}, n) /\ by' = by
    BY <1>4 DEF Break
  <2> QED
    BY <2>1, LeaveKeeps
<1>5. CASE UNCHANGED doubleVars
  BY <1>5 DEF doubleVars, DoubleInv, DoubleTypes, EndsMeet, OneMade, OneKnown, Known
<1> QED
  BY <1>1, <1>2, <1>3, <1>4, <1>5 DEF DoubleNext

LEMMA DoubleAlways == DoubleSpec => []DoubleInv
<1>1. DoubleInit => DoubleInv
  <2> SUFFICES ASSUME DoubleInit PROVE DoubleInv
    OBVIOUS
  <2>1. DoubleTypes
    <3>1. << >> \in Seq({"HANDSHAKE", "RET", "FIND_IN_CONNECT", "close"})
      BY EmptySeq
    <3> QED
      BY <3>1 DEF DoubleInit, DoubleTypes
  <2>2. \A c \in Conn : EndsMeet(c)
    BY DEF DoubleInit, EndsMeet
  <2>3. OneMade
    BY DEF DoubleInit, OneMade
  <2>4. OneKnown
    BY DEF DoubleInit, OneKnown, Known, None
  <2> QED
    BY <2>1, <2>2, <2>3, <2>4 DEF DoubleInv
<1> QED
  BY <1>1, DoubleStep, PTL DEF DoubleSpec

(* How many connections there are is asked for only to know whether there  *)
(* are two.                                                                *)
LEMMA AreTwo ==
  ASSUME NEW S, S \subseteq Conn
  PROVE  Cardinality(S) =< 1 <=> \A c, d \in S : c = d
<1>1. IsFiniteSet(S) /\ Cardinality(S) \in Nat
  BY DoubleAssumption, FS_Subset, FS_CardinalityType
<1>2. ASSUME NEW c \in S, NEW d \in S, c # d PROVE Cardinality(S) > 1
  <2>1. IsFiniteSet(S \ {c}) /\ Cardinality(S \ {c}) = Cardinality(S) - 1
    BY <1>1, FS_RemoveElement
  <2>2. Cardinality(S \ {c}) # 0 /\ Cardinality(S \ {c}) \in Nat
    BY <1>2, <2>1, FS_EmptySet, FS_CardinalityType
  <2> QED
    BY <1>1, <2>1, <2>2
<1>3. ASSUME \A c, d \in S : c = d PROVE Cardinality(S) =< 1
  <2>1. CASE S = {}
    BY <2>1, FS_EmptySet
  <2>2. CASE S # {}
    <3>1. PICK c \in S : S = {c}
      BY <1>3, <2>2
    <3> QED
      BY <3>1, FS_Singleton
  <2> QED
    BY <2>1, <2>2
<1> QED
  BY <1>1, <1>2, <1>3

(* When all is delivered and no tick has anything to close, there is at    *)
(* most one connection and both nodes have it, for any number of           *)
(* connections that were made and broken (the handshake and DoNode).       *)
THEOREM DoublesSettle == DoubleSpec => []Settled
<1>1. ASSUME DoubleInv PROVE Settled
  <2> SUFFICES ASSUME \A n \in Node : Doubles(n) = {} /\ \A c \in Conn : wire[c][n] = << >>
               PROVE  \A n, m \in Node : Cardinality(Known(n)) =< 1 /\ Known(n) = Known(m)
    BY DEF Settled
  <2>1. ASSUME NEW c \in Conn, NEW n \in Node, NEW m \in Node, child[c][n] = "known" PROVE child[c][m] = "known"
    <3>1. EndsMeet(c) /\ by[c] \in Node \cup {None} /\ wire[c][n] = << >> /\ wire[c][m] = << >>
      BY <1>1 DEF DoubleInv, DoubleTypes
    <3>2. by[c] \in Node
      BY <2>1, <3>1 DEF EndsMeet, None
    <3>3. Node = {by[c], Peer(by[c])} /\ Met(child[c][by[c]], child[c][Peer(by[c])], << >>, << >>)
      BY <3>1, <3>2, PeerIs, DoubleAssumption DEF EndsMeet
    <3>4. child[c][by[c]] = "known" <=> child[c][Peer(by[c])] = "known"
      BY <3>3 DEF Met, None
    <3> QED
      BY <2>1, <3>3, <3>4
  <2>2. \A n, m \in Node : Known(n) = Known(m)
    BY <2>1 DEF Known
  <2>3. ASSUME NEW c \in Known(Lesser), NEW d \in Known(Lesser), c # d PROVE FALSE
    <3>1. /\ Lesser \in Node /\ Greater \in Node /\ Greater # Lesser /\ {c, d} \subseteq Conn
          /\ by[c] \in Node \cup {None} /\ by[d] \in Node \cup {None} /\ EndsMeet(c) /\ EndsMeet(d)
          /\ child[c][Lesser] = "known" /\ child[d][Lesser] = "known"
          /\ child[c][Greater] = "known" /\ child[d][Greater] = "known"
      BY <1>1, <2>2, DoubleAssumption DEF Node, Known, DoubleInv, DoubleTypes
    <3>2. by[c] \in Node /\ by[d] \in Node
      BY <3>1 DEF EndsMeet, None
    <3>3. {c, d} \subseteq Neighbours(Lesser) /\ {c, d} \subseteq Open(Lesser) /\ Neighbours(Lesser) \subseteq Conn
      BY <3>1 DEF Neighbours, Known, Open
    <3>4. ~(Cardinality(Neighbours(Lesser)) =< 1)
      BY <2>3, <3>3, AreTwo
    <3>5. by[c] # Lesser /\ by[d] # Lesser
      BY <3>1, <3>3, <3>4 DEF Doubles
    <3>6. by[c] = Greater /\ by[d] = Greater
      BY <3>2, <3>5 DEF Node
    <3> QED
      BY <1>1, <2>3, <3>1, <3>6, DoubleAssumption DEF DoubleInv, OneMade, Node
  <2>4. Known(Lesser) \subseteq Conn
    BY DEF Known
  <2>5. Cardinality(Known(Lesser)) =< 1
    BY <2>3, <2>4, AreTwo
  <2> QED
    BY <2>2, <2>5 DEF Node
<1> QED
  BY <1>1, DoubleAlways, PTL

(* A tick never closes the last connection to the neighbour: of two that   *)
(* the node counts it has made one and not the other, and its rule closes  *)
(* one kind only (DoNode).                                                 *)
THEOREM TickKeepsOne == DoubleSpec => KeepsOne
<1>1. ASSUME DoubleInv, NEW n \in Node, DoNode(n), Neighbours(n) # {} PROVE Neighbours(n)' # {}
  <2>1. Doubles(n) # {} /\ child' = Removed(Doubles(n), n) /\ by' = by
    BY <1>1 DEF DoNode, Connect
  <2>2. Neighbours(n) \subseteq Conn /\ ~(Cardinality(Neighbours(n)) =< 1)
    BY <2>1 DEF Neighbours, Known, Doubles
  <2>3. PICK c \in Neighbours(n), d \in Neighbours(n) : c # d
    BY <2>2, AreTwo
  <2>4. ~(by[c] = n /\ by[d] = n)
    BY <1>1, <2>2, <2>3, DoubleAssumption DEF DoubleInv, OneMade, Neighbours, Node
  <2>5. ~(by[c] # n /\ by[d] # n)
    <3>1. ASSUME by[c] # n, by[d] # n PROVE c \in Known(n) /\ d \in Known(n)
      BY <3>1 DEF Neighbours
    <3> QED
      BY <1>1, <2>3, <3>1 DEF DoubleInv, OneKnown
  <2>6. PICK e \in {c, d} : e \notin Doubles(n)
    BY <2>3, <2>4, <2>5 DEF Doubles
  <2>7. e \in Conn /\ child'[e] = child[e] /\ by'[e] = by[e]
    BY <2>1, <2>2, <2>6 DEF Removed
  <2>8. e \in Neighbours(n)'
    BY <2>3, <2>6, <2>7 DEF Neighbours, Known
  <2> QED
    BY <2>8
<1>2. ASSUME DoubleInv, [DoubleNext]_doubleVars
      PROVE  [\A n \in Node : DoNode(n) /\ Neighbours(n) # {} => Neighbours(n)' # {}]_doubleVars
  BY <1>1, <1>2
<1> QED
  BY <1>2, DoubleAlways, PTL DEF KeepsOne, DoubleSpec
-----------------------------------------------------------------------------
(* RestTable: the rows of an account that are kept tell its balance after  *)
(* every rest number, whatever the number of rows, the rest numbers and    *)
(* the blocks that change it.                                              *)

LEMMA PeriodIs ==
  ASSUME NEW n \in Int, NEW q \in Nat \ {0}
  PROVE  /\ n \div q \in Int /\ q * (n \div q) =< n /\ n < q * (n \div q) + q
         /\ n >= 0 => n \div q \in Nat
<1>1. n % q \in 0 .. q - 1 /\ n \div q \in Int
  OBVIOUS
<1>2. n = q * (n \div q) + (n % q)
  OBVIOUS
<1>3. PICK m \in Int, r \in 0 .. q - 1 : m = n \div q /\ n = q * m + r
  BY <1>1, <1>2
<1>4. q * m =< n /\ n < q * m + q
  BY <1>3
<1>5. ASSUME n >= 0, m < 0 PROVE FALSE
  <2>1. m + 1 =< 0
    BY <1>5
  <2>2. q * (m + 1) =< 0
    BY <2>1
  <2>3. q * m + q =< 0
    BY <2>2
  <2> QED
    BY <1>4, <1>5, <2>3
<1> QED
  BY <1>3, <1>4, <1>5

(* The equation of GetRestArr.                                             *)
Moved(old, num) ==
  Min({k \in 1 .. RestLength : num % RestBase ^ k = 0 \/ old[RestLength + 1 - k] % RestBase ^ k # 0}
      \cup {RestLength})
Advance(old, num) ==
  [i \in 1 .. RestLength |->
     IF i = RestLength THEN num ELSE IF i > RestLength - Moved(old, num) THEN old[i + 1] ELSE old[i]]

LEMMA RestArrStep ==
  /\ RestArr[0] = [i \in 1 .. RestLength |-> 0]
  /\ \A num \in 1 .. MaxRest \div RestScale : RestArr[num] = Advance(RestArr[num - 1], num)
<1>1. PICK M \in Nat : M = MaxRest \div RestScale
  BY RestAssumption, PeriodIs
<1>2. PICK T : T = [1 .. RestLength -> Nat]
  OBVIOUS
<1>3. PICK first : first = [i \in 1 .. RestLength |-> 0]
  OBVIOUS
<1> DEFINE Is(f) == f = [num \in 0 .. M |-> IF num = 0 THEN first ELSE Advance(f[num - 1], num)]
<1>4. first \in T
  BY <1>2, <1>3
<1>5. ASSUME NEW old \in T, NEW num \in 1 .. M PROVE Advance(old, num) \in T
  <2>1. PICK m : m = Moved(old, num)
    OBVIOUS
  <2>2. PICK g : g = [i \in 1 .. RestLength |-> IF i = RestLength THEN num ELSE IF i > RestLength - m THEN old[i + 1] ELSE old[i]]
    OBVIOUS
  <2>3. ASSUME NEW i \in 1 .. RestLength
        PROVE  (IF i = RestLength THEN num ELSE IF i > RestLength - m THEN old[i + 1] ELSE old[i]) \in Nat
    <3>1. CASE i = RestLength
      BY <3>1, <1>1
    <3>2. CASE i # RestLength
      <4>1. i + 1 \in 1 .. RestLength
        BY <3>2, RestAssumption
      <4>2. old[i] \in Nat /\ old[i + 1] \in Nat
        BY <1>2, <4>1
      <4> QED
        BY <3>2, <4>2
    <3> QED
      BY <3>1, <3>2
  <2>4. g \in T
    BY <1>2, <2>2, <2>3
  <2> QED
    BY <2>1, <2>2, <2>4 DEF Advance
<1>6. PICK G : G = [num \in 1 .. M |-> [old \in T |-> Advance(old, num)]]
  OBVIOUS
<1>7. G \in [1 .. M -> [T -> T]] /\ \A num \in 1 .. M : \A old \in T : G[num][old] = Advance(old, num)
  BY <1>5, <1>6
<1>8. PICK f \in [0 .. M -> T] : f[0] = first /\ \A num \in 1 .. M : f[num] = G[num][f[num - 1]]
  <2>1. Taken(M, T, first, G)
    BY <1>1, <1>4, <1>7, Turns
  <2> QED
    BY <2>1 DEF Taken
<1>9. Is(f)
  <2>1. ASSUME NEW num \in 0 .. M PROVE f[num] = IF num = 0 THEN first ELSE Advance(f[num - 1], num)
    <3>1. CASE num = 0
      BY <1>8, <3>1
    <3>2. CASE num # 0
      <4>1. num \in 1 .. M /\ num - 1 \in 0 .. M
        BY <1>1, <3>2
      <4>2. f[num - 1] \in T /\ f[num] = G[num][f[num - 1]]
        BY <1>8, <4>1
      <4> QED
        BY <1>7, <3>2, <4>1, <4>2
    <3> QED
      BY <3>1, <3>2
  <2>2. f = [num \in 0 .. M |-> f[num]]
    BY <1>8
  <2> QED
    BY <2>1, <2>2
<1>10. RestArr = CHOOSE g : Is(g)
  BY <1>1, <1>3 DEF RestArr, Advance, Moved
<1>11. Is(RestArr)
  BY <1>9, <1>10
<1>12. \A num \in 0 .. M : RestArr[num] = IF num = 0 THEN first ELSE Advance(RestArr[num - 1], num)
  BY <1>11
<1> HIDE DEF Is
<1>13. 0 \in 0 .. M /\ \A num \in 1 .. M : num \in 0 .. M /\ num # 0
  BY <1>1
<1> QED
  BY <1>1, <1>3, <1>12, <1>13

LEMMA MovedIs ==
  ASSUME NEW old, NEW num
  PROVE  Moved(old, num) \in 1 .. RestLength
<1>1. PICK S : S = {k \in 1 .. RestLength : num % RestBase ^ k = 0 \/ old[RestLength + 1 - k] % RestBase ^ k # 0}
                   \cup {RestLength}
  OBVIOUS
<1>2. S \subseteq 1 .. RestLength /\ S \subseteq Nat /\ S # {}
  BY <1>1, RestAssumption
<1>3. PICK n \in S : \A m \in S : n =< m
  BY <1>2, LeastIn
<1>4. Min(S) \in S
  BY <1>3 DEF Min
<1> QED
  BY <1>1, <1>2, <1>4 DEF Moved

(* The rest numbers, the last being the newest.                            *)
Rising(a, num) ==
  /\ a \in [1 .. RestLength -> Nat] /\ a[RestLength] = num
  /\ \A i, j \in 1 .. RestLength : i < j => a[i] =< a[j]

LEMMA AdvanceIs ==
  ASSUME NEW num \in Nat, num > 0, NEW old, Rising(old, num - 1), NEW a, a = Advance(old, num)
  PROVE  /\ Rising(a, num)
         /\ \A i \in 1 .. RestLength - 1 : a[i] = old[i] \/ a[i] = old[i + 1]
<1>0. PICK L \in Nat : L = RestLength /\ L >= 2
  BY RestAssumption
<1>1. PICK m \in 1 .. L : m = Moved(old, num)
  BY <1>0, MovedIs
<1>2. a = [i \in 1 .. L |-> IF i = L THEN num ELSE IF i > L - m THEN old[i + 1] ELSE old[i]]
  BY <1>0, <1>1 DEF Advance
<1>3. old \in [1 .. L -> Nat] /\ old[L] = num - 1 /\ \A i, j \in 1 .. L : i < j => old[i] =< old[j]
  BY <1>0 DEF Rising
<1>4. ASSUME NEW i \in 1 .. L - 1
      PROVE  /\ i \in 1 .. L /\ i + 1 \in 1 .. L /\ old[i] \in Nat /\ old[i + 1] \in Nat
             /\ a[i] = IF i > L - m THEN old[i + 1] ELSE old[i]
  BY <1>0, <1>2, <1>3
<1>5. a[L] = num
  BY <1>0, <1>2
<1>6. a \in [1 .. L -> Nat]
  <2>1. ASSUME NEW i \in 1 .. L PROVE a[i] \in Nat
    <3>1. CASE i = L
      BY <1>5, <3>1
    <3>2. CASE i # L
      <4>1. i \in 1 .. L - 1
        BY <3>2
      <4> QED
        BY <1>4, <4>1
    <3> QED
      BY <3>1, <3>2
  <2> QED
    BY <1>2, <2>1
<1>7. ASSUME NEW i \in 1 .. L, NEW j \in 1 .. L, i < j PROVE a[i] =< a[j]
  <2>1. i \in 1 .. L - 1
    BY <1>7
  <2>2. CASE j = L
    <3>1. \A k \in 1 .. L : old[k] =< num - 1
      <4>1. ASSUME NEW k \in 1 .. L PROVE old[k] =< num - 1
        <5>1. k = L \/ k < L
          OBVIOUS
        <5> QED
          BY <1>0, <1>3, <5>1
      <4> QED
        BY <4>1
    <3>2. old[i] =< num - 1 /\ old[i + 1] =< num - 1
      BY <1>4, <2>1, <3>1
    <3> QED
      BY <1>4, <1>5, <2>1, <2>2, <3>2
  <2>3. CASE j # L
    <3>1. j \in 1 .. L - 1
      BY <2>3
    <3>2. old[i] =< old[j] /\ old[i] =< old[j + 1] /\ old[i + 1] =< old[j + 1]
      <4>1. i < j + 1 /\ i + 1 < j + 1 /\ j + 1 \in 1 .. L /\ i + 1 \in 1 .. L
        BY <1>7, <2>1, <3>1
      <4> QED
        BY <1>3, <1>7, <4>1
    <3>3. i > L - m => j > L - m
      BY <1>7
    <3> QED
      BY <1>4, <2>1, <3>1, <3>2, <3>3
  <2> QED
    BY <2>2, <2>3
<1>8. ASSUME NEW i \in 1 .. L - 1 PROVE a[i] = old[i] \/ a[i] = old[i + 1]
  BY <1>4
<1>9. Rising(a, num)
  BY <1>0, <1>5, <1>6, <1>7 DEF Rising
<1> QED
  BY <1>0, <1>8, <1>9

LEMMA RestArrIs ==
  /\ \A num \in 0 .. MaxRest \div RestScale : Rising(RestArr[num], num)
  /\ \A num \in 1 .. MaxRest \div RestScale : \A i \in 1 .. RestLength - 1 :
       RestArr[num][i] \in {RestArr[num - 1][i], RestArr[num - 1][i + 1]}
<1>1. PICK M \in Nat : M = MaxRest \div RestScale
  BY RestAssumption, PeriodIs
<1>2. PICK A : A = RestArr
  OBVIOUS
<1>3. A[0] = [i \in 1 .. RestLength |-> 0] /\ \A num \in 1 .. M : A[num] = Advance(A[num - 1], num)
  BY <1>1, <1>2, RestArrStep
<1> DEFINE S == {num \in 0 .. M : Rising(A[num], num)}
<1>4. 0 \in S
  <2>1. Rising(A[0], 0)
    BY <1>3, RestAssumption DEF Rising
  <2> QED
    BY <1>1, <2>1
<1>5. ASSUME NEW num \in 1 .. M, num - 1 \in S PROVE num \in S
  <2>1. Rising(A[num - 1], num - 1) /\ num \in Nat /\ num > 0 /\ num \in 0 .. M /\ A[num] = Advance(A[num - 1], num)
    BY <1>1, <1>3, <1>5
  <2>2. Rising(A[num], num)
    BY <2>1, AdvanceIs
  <2> QED
    BY <2>1, <2>2
<1> HIDE DEF S
<1>6. \A num \in 0 .. M : num \in S
  BY <1>1, <1>4, <1>5, OneByOne
<1>7. \A num \in 0 .. M : Rising(A[num], num)
  BY <1>6 DEF S
<1>8. ASSUME NEW num \in 1 .. M, NEW i \in 1 .. RestLength - 1
      PROVE  A[num][i] \in {A[num - 1][i], A[num - 1][i + 1]}
  <2>1. num - 1 \in 0 .. M /\ num \in Nat /\ num > 0
    BY <1>1
  <2>2. Rising(A[num - 1], num - 1) /\ A[num] = Advance(A[num - 1], num)
    BY <1>3, <1>7, <2>1
  <2>3. A[num][i] = A[num - 1][i] \/ A[num][i] = A[num - 1][i + 1]
    BY <2>1, <2>2, AdvanceIs
  <2> QED
    BY <2>3
<1> QED
  BY <1>1, <1>2, <1>7, <1>8

LEMMA TimesIs ==
  ASSUME NEW a \in Int, NEW b \in Int, NEW q \in Nat \ {0}
  PROVE  /\ a =< b => a * q =< b * q
         /\ a * q < b * q => a < b
         /\ a < b => a * q + q =< b * q
<1>1. ASSUME NEW x \in Int, NEW y \in Int, x =< y PROVE x * q =< y * q
  <2>1. PICK d \in Nat : y = x + d
    <3>1. y - x \in Nat /\ y = x + (y - x)
      BY <1>1
    <3> QED
      BY <3>1
  <2>2. y * q = x * q + d * q
    BY <2>1
  <2>3. d * q \in Nat /\ x * q \in Int
    OBVIOUS
  <2> QED
    BY <2>2, <2>3
<1>2. a * q \in Int /\ b * q \in Int
  OBVIOUS
<1>3. ASSUME a * q < b * q PROVE a < b
  <2>1. b =< a => b * q =< a * q
    BY <1>1
  <2> QED
    BY <1>2, <1>3, <2>1
<1>4. ASSUME a < b PROVE a * q + q =< b * q
  <2>1. (a + 1) * q =< b * q
    BY <1>1, <1>4
  <2>2. (a + 1) * q = a * q + q
    OBVIOUS
  <2> QED
    BY <2>1, <2>2
<1> QED
  BY <1>1, <1>3, <1>4

LEMMA DivTimes ==
  ASSUME NEW n \in Int
  PROVE  /\ n \div RestScale \in Int /\ (n \div RestScale) * RestScale \in Int
         /\ (n \div RestScale) * RestScale =< n /\ n < (n \div RestScale) * RestScale + RestScale
         /\ n >= 0 => n \div RestScale \in Nat
<1>1. PICK q \in Nat \ {0} : q = RestScale
  BY RestAssumption
<1>2. PICK m \in Int : m = n \div q /\ q * m =< n /\ n < q * m + q /\ (n >= 0 => m \in Nat)
  BY PeriodIs
<1>3. q * m = m * q /\ m * q \in Int
  OBVIOUS
<1> QED
  BY <1>1, <1>2, <1>3

LEMMA DivGrows ==
  ASSUME NEW a \in Int, NEW b \in Int, a =< b
  PROVE  a \div RestScale =< b \div RestScale
<1>1. PICK q \in Nat \ {0} : q = RestScale
  BY RestAssumption
<1>2. PICK k \in Int, m \in Int : k = a \div q /\ m = b \div q /\ k * q =< a /\ b < m * q + q
  BY <1>1, DivTimes
<1>3. k * q < (m + 1) * q
  <2>1. (m + 1) * q = m * q + q /\ k * q \in Int /\ m * q \in Int
    OBVIOUS
  <2> QED
    BY <1>2, <2>1
<1>4. k < m + 1
  BY <1>3, TimesIs
<1> QED
  BY <1>1, <1>2, <1>4

(* The places of the rest numbers rows are kept for, and the newest.       *)
RestPlace == RestLength + 2 - CountState .. RestLength

(* With time rest numbers move to older places, or are forgotten.          *)
LEMMA RestsLater ==
  ASSUME NEW k \in 0 .. MaxRest \div RestScale, NEW m \in k .. MaxRest \div RestScale, NEW i \in RestPlace
  PROVE  RestArr[m][i] > k \/ \E j \in RestPlace : RestArr[m][i] = RestArr[k][j]
<1>1. PICK M \in Nat : M = MaxRest \div RestScale
  BY RestAssumption, PeriodIs
<1>2. PICK A : A = RestArr
  OBVIOUS
<1>3. PICK p, L \in Nat : p = L + 2 - CountState /\ L = RestLength /\ p \in 2 .. L /\ RestPlace = p .. L
  BY RestAssumption DEF RestPlace
<1>4. /\ \A num \in 0 .. M : A[num] \in [1 .. L -> Nat] /\ A[num][L] = num
      /\ \A num \in 1 .. M : \A n \in 1 .. L - 1 : A[num][n] \in {A[num - 1][n], A[num - 1][n + 1]}
  BY <1>1, <1>2, <1>3, RestArrIs DEF Rising
<1>5. k \in 0 .. M /\ m \in k .. M /\ k \in Nat /\ i \in p .. L
  BY <1>1, <1>3
<1> DEFINE From(num) == \A n \in p .. L : A[num][n] > k \/ \E j \in p .. L : A[num][n] = A[k][j]
           S == {d \in 0 .. M - k : From(k + d)}
<1>6. 0 \in S
  <2>1. From(k)
    OBVIOUS
  <2> HIDE DEF From
  <2>2. k + 0 = k /\ 0 \in 0 .. M - k
    BY <1>5
  <2> QED
    BY <2>1, <2>2
<1>7. ASSUME NEW d \in 1 .. M - k, d - 1 \in S PROVE d \in S
  <2>1. PICK num : num = k + d
    OBVIOUS
  <2>2. num \in 1 .. M /\ num > k /\ num \in 0 .. M /\ k + (d - 1) = num - 1 /\ d \in 0 .. M - k
    BY <1>5, <2>1
  <2>3. From(num - 1)
    BY <1>7, <2>2
  <2>4. ASSUME NEW n \in p .. L PROVE A[num][n] > k \/ \E j \in p .. L : A[num][n] = A[k][j]
    <3>1. CASE n = L
      BY <1>3, <1>4, <2>2, <3>1
    <3>2. CASE n # L
      <4>1. n \in 1 .. L - 1 /\ n + 1 \in p .. L
        BY <1>3, <3>2
      <4>2. PICK o \in p .. L : A[num][n] = A[num - 1][o]
        BY <1>4, <2>2, <4>1
      <4> QED
        BY <2>3, <4>2
    <3> QED
      BY <3>1, <3>2
  <2>5. From(num)
    BY <2>4
  <2> HIDE DEF From
  <2> QED
    BY <2>1, <2>2, <2>5
<1> HIDE DEF S
<1>8. \A d \in 0 .. M - k : d \in S
  <2>1. M - k \in Nat
    BY <1>5
  <2> QED
    BY <1>6, <1>7, <2>1, OneByOne
<1>9. m - k \in 0 .. M - k /\ k + (m - k) = m
  BY <1>5
<1>10. From(m)
  BY <1>8, <1>9 DEF S
<1> QED
  BY <1>2, <1>3, <1>5, <1>10

(* The last of the blocks C up to number r is that of a row.               *)
Held(rs, r, C) == \A c \in C : c =< r => \E i \in 0 .. CountState - 1 : c =< rs[i].num /\ rs[i].num =< r

(* The rows of an account that the blocks C have changed.                  *)
RowsOk(rs, C) ==
  /\ rs \in [0 .. CountState - 1 -> [num : Nat, value : Nat]]
  /\ C \subseteq Nat \ {0} /\ \A c \in C : c =< rs[0].num
  /\ \A i \in 0 .. CountState - 1 : rs[i].value = rs[i].num /\ (rs[i].num = 0 \/ rs[i].num \in C)
  /\ \A i, j \in 0 .. CountState - 1 : i < j /\ rs[j].num > 0 => rs[j].num < rs[i].num
  /\ \A i \in RestPlace : Held(rs, RestArr[rs[0].num \div RestScale][i] * RestScale, C)

LEMMA RestIs ==
  ASSUME NEW n \in 0 .. MaxRest, NEW m, m = n \div RestScale
  PROVE  /\ m \in 0 .. MaxRest \div RestScale /\ MaxRest \div RestScale \in Nat
         /\ Rising(RestArr[m], m)
         /\ \A i \in RestPlace : i \in 1 .. RestLength /\ RestArr[m][i] \in 0 .. m
<1>1. MaxRest \in Nat /\ n \in Nat /\ n =< MaxRest
  BY RestAssumption
<1>2. m \in Nat /\ MaxRest \div RestScale \in Nat /\ m =< MaxRest \div RestScale
  BY <1>1, DivTimes, DivGrows
<1>3. Rising(RestArr[m], m)
  BY <1>2, RestArrIs
<1>4. ASSUME NEW i \in RestPlace PROVE i \in 1 .. RestLength /\ RestArr[m][i] \in 0 .. m
  <2>1. RestLength \in Nat /\ i \in 1 .. RestLength /\ RestLength \in 1 .. RestLength
    BY RestAssumption DEF RestPlace
  <2>2. RestArr[m][i] \in Nat /\ (i < RestLength => RestArr[m][i] =< m) /\ (i = RestLength => RestArr[m][i] = m)
    BY <1>3, <2>1 DEF Rising
  <2> QED
    BY <1>2, <2>1, <2>2
<1> QED
  BY <1>2, <1>3, <1>4

LEMMA HeldLater ==
  ASSUME NEW rs, NEW C, RowsOk(rs, C), NEW n \in rs[0].num .. MaxRest, NEW i \in RestPlace,
         NEW r, r = RestArr[n \div RestScale][i] * RestScale
  PROVE  Held(rs, r, C) /\ r \in Nat
<1>1. PICK s \in Nat : s = rs[0].num
  <2>1. 0 \in 0 .. CountState - 1
    BY RestAssumption
  <2> QED
    BY <2>1 DEF RowsOk
<1>2. /\ s \in 0 .. MaxRest /\ n \in 0 .. MaxRest /\ n \in Nat /\ s =< n
      /\ \A c \in C : c =< s /\ c \in Nat
      /\ \A j \in RestPlace : Held(rs, RestArr[s \div RestScale][j] * RestScale, C)
  BY <1>1, RestAssumption DEF RowsOk
<1>3. PICK k, m : k = s \div RestScale /\ m = n \div RestScale
  OBVIOUS
<1>4. /\ k \in 0 .. MaxRest \div RestScale /\ m \in k .. MaxRest \div RestScale
      /\ RestArr[m][i] \in 0 .. m /\ k \in Nat /\ m \in Nat
  <2>1. MaxRest \div RestScale \in Nat /\ k \in 0 .. MaxRest \div RestScale /\ m \in 0 .. MaxRest \div RestScale
    BY <1>2, <1>3, RestIs
  <2>2. k =< m
    BY <1>2, <1>3, DivGrows
  <2>3. RestArr[m][i] \in 0 .. m
    BY <1>2, <1>3, RestIs
  <2> QED
    BY <2>1, <2>2, <2>3
<1>5. PICK x \in Nat : x = RestArr[m][i]
  BY <1>4
<1>6. PICK q \in Nat \ {0} : q = RestScale
  BY RestAssumption
<1>7. r = x * q /\ r \in Nat
  BY <1>3, <1>5, <1>6
<1>8. CASE x > k
  <2>1. k * q + q =< x * q
    BY <1>4, <1>8, TimesIs
  <2>2. s < k * q + q /\ k * q \in Int
    BY <1>2, <1>3, <1>6, DivTimes
  <2>3. s =< r
    BY <1>7, <2>1, <2>2
  <2>4. 0 \in 0 .. CountState - 1
    BY RestAssumption
  <2>5. \A c \in C : c =< rs[0].num /\ rs[0].num =< r
    BY <1>1, <1>2, <2>3
  <2> QED
    BY <1>7, <2>4, <2>5 DEF Held
<1>9. CASE ~(x > k)
  <2>1. PICK j \in RestPlace : x = RestArr[k][j]
    BY <1>4, <1>5, <1>9, RestsLater
  <2> QED
    BY <1>2, <1>3, <1>6, <1>7, <2>1
<1> QED
  BY <1>8, <1>9

(* RestPush, for rows below n.                                             *)
Newer(rs, n, i) == i > 1 /\ rs[i - 1].num > RestArr[n \div RestScale][RestLength + 1 - i] * RestScale
Reached(rs, n, i) == \A j \in 1 .. i - 1 : ~Newer(rs, n, j) /\ rs[j].num # 0
Stays(rs, n, i) == ~Reached(rs, n, i) \/ Newer(rs, n, i)

LEMMA PushIs ==
  ASSUME NEW rs, NEW C, RowsOk(rs, C), NEW n \in Nat, rs[0].num < n, NEW new, new = RestPush(rs, n)
  PROVE  /\ new = [i \in 0 .. CountState - 1 |-> new[i]]
         /\ \A i \in 1 .. CountState - 1 : new[i] = IF Stays(rs, n, i) THEN rs[i] ELSE rs[i - 1]
<1>1. /\ rs \in [0 .. CountState - 1 -> [num : Nat, value : Nat]]
      /\ \A i, j \in 0 .. CountState - 1 : i < j /\ rs[j].num > 0 => rs[j].num < rs[i].num
  BY DEF RowsOk
<1>2. CountState \in Nat /\ CountState >= 2
  BY RestAssumption
<1>3. ASSUME NEW i \in 0 .. CountState - 1 PROVE rs[i].num \in Nat /\ rs[i].num < n
  <2>1. 0 \in 0 .. CountState - 1
    BY <1>2
  <2>2. rs[i].num \in Nat /\ rs[0].num \in Nat
    BY <1>1, <2>1
  <2>3. i = 0 \/ 0 < i
    BY <1>2
  <2>4. i = 0 \/ rs[i].num = 0 \/ rs[i].num < rs[0].num
    BY <1>1, <2>1, <2>2, <2>3
  <2> QED
    BY <2>2, <2>4
<1> DEFINE Too(i) == rs[i].num >= n \/ rs[i - 1].num >= n
<1>4. ASSUME NEW i \in 1 .. CountState - 1 PROVE ~Too(i)
  <2>1. i \in 0 .. CountState - 1 /\ i - 1 \in 0 .. CountState - 1
    BY <1>2
  <2>2. rs[i].num \in Nat /\ rs[i].num < n /\ rs[i - 1].num \in Nat /\ rs[i - 1].num < n
    BY <1>3, <2>1
  <2> QED
    BY <2>2
<1> DEFINE Come(i) == \A j \in 1 .. i - 1 : ~Newer(rs, n, j) /\ ~Too(j) /\ rs[j].num # 0
<1>5. new = [i \in 0 .. CountState - 1 |->
               IF i = 0 \/ ~Come(i) \/ Newer(rs, n, i) THEN rs[i] ELSE IF Too(i) THEN NoRow ELSE rs[i - 1]]
  BY DEF RestPush, Newer
<1>6. ASSUME NEW i \in 1 .. CountState - 1 PROVE Come(i) <=> Reached(rs, n, i)
  <2>1. \A j \in 1 .. i - 1 : j \in 1 .. CountState - 1
    BY <1>2
  <2> HIDE DEF Too
  <2> QED
    BY <1>4, <2>1 DEF Reached
<1>7. ASSUME NEW i \in 1 .. CountState - 1 PROVE new[i] = IF Stays(rs, n, i) THEN rs[i] ELSE rs[i - 1]
  <2>1. i \in 0 .. CountState - 1 /\ i # 0
    BY <1>2
  <2> HIDE DEF Too, Come
  <2>2. new[i] = IF i = 0 \/ ~Come(i) \/ Newer(rs, n, i) THEN rs[i] ELSE IF Too(i) THEN NoRow ELSE rs[i - 1]
    BY <1>5, <2>1
  <2> QED
    BY <1>4, <1>6, <2>1, <2>2 DEF Stays
<1> HIDE DEF Too, Come
<1>8. new = [i \in 0 .. CountState - 1 |-> new[i]]
  BY <1>5
<1> QED
  BY <1>7, <1>8

(* What is behind the row of the present block.                            *)
Behind(next, C) ==
  /\ next \in [0 .. CountState - 1 -> [num : Nat, value : Nat]]
  /\ \A i \in 1 .. CountState - 1 : next[i].value = next[i].num /\ (next[i].num = 0 \/ next[i].num \in C)
  /\ \A i, j \in 1 .. CountState - 1 : i < j /\ next[j].num > 0 => next[j].num < next[i].num

LEMMA RowIs ==
  ASSUME NEW rs, NEW C, RowsOk(rs, C), NEW i \in 0 .. CountState - 1
  PROVE  /\ rs[i] \in [num : Nat, value : Nat] /\ rs[i].num \in Nat
         /\ rs[i].value = rs[i].num /\ (rs[i].num = 0 \/ rs[i].num \in C)
         /\ \A j \in 0 .. CountState - 1 : i < j /\ rs[j].num > 0 => rs[j].num < rs[i].num
BY DEF RowsOk

LEMMA PushBehind ==
  ASSUME NEW rs, NEW C, RowsOk(rs, C), NEW n \in Nat, rs[0].num < n, NEW new, new = RestPush(rs, n)
  PROVE  Behind(new, C)
<1>1. PICK k \in Nat : k = CountState /\ k >= 2
  BY RestAssumption
<1>2. /\ new = [i \in 0 .. k - 1 |-> new[i]]
      /\ \A i \in 1 .. k - 1 : new[i] = IF Stays(rs, n, i) THEN rs[i] ELSE rs[i - 1]
  BY <1>1, PushIs
<1>3. ASSUME NEW i \in 1 .. k - 1 PROVE i \in 0 .. k - 1 /\ i - 1 \in 0 .. k - 1 /\ 0 \in 0 .. k - 1
  BY <1>1
<1>4. \A i \in 0 .. k - 1 :
        /\ rs[i] \in [num : Nat, value : Nat] /\ rs[i].num \in Nat
        /\ rs[i].value = rs[i].num /\ (rs[i].num = 0 \/ rs[i].num \in C)
        /\ \A j \in 0 .. k - 1 : i < j /\ rs[j].num > 0 => rs[j].num < rs[i].num
  BY <1>1, RowIs
<1>5. new[0] = rs[0]
  <2>1. 0 \in 0 .. k - 1
    BY <1>1
  <2> QED
    BY <1>1, <2>1 DEF RestPush
<1>6. new \in [0 .. k - 1 -> [num : Nat, value : Nat]]
  <2>1. ASSUME NEW i \in 0 .. k - 1 PROVE new[i] \in [num : Nat, value : Nat]
    <3>1. CASE i = 0
      BY <1>4, <1>5, <3>1
    <3>2. CASE i # 0
      <4>1. i \in 1 .. k - 1
        BY <3>2
      <4> QED
        BY <1>2, <1>3, <1>4, <4>1
    <3> QED
      BY <3>1, <3>2
  <2> QED
    BY <1>2, <2>1
<1>7. ASSUME NEW i \in 1 .. k - 1
      PROVE  new[i].value = new[i].num /\ (new[i].num = 0 \/ new[i].num \in C)
  BY <1>2, <1>3, <1>4
<1>8. ASSUME NEW i \in 1 .. k - 1, NEW j \in 1 .. k - 1, i < j, new[j].num > 0 PROVE new[j].num < new[i].num
  <2>1. PICK a \in 0 .. k - 1 : new[i] = rs[a] /\ a = IF Stays(rs, n, i) THEN i ELSE i - 1
    BY <1>2, <1>3
  <2>2. PICK b \in 0 .. k - 1 : new[j] = rs[b] /\ b = IF Stays(rs, n, j) THEN j ELSE j - 1
    BY <1>2, <1>3
  <2>3. a < b
    <3>1. CASE j - 1 = i /\ Stays(rs, n, i) /\ ~Stays(rs, n, j)
      <4>1. Reached(rs, n, j)
        BY <3>1 DEF Stays
      <4>2. i \in 1 .. j - 1 /\ \A l \in 1 .. i - 1 : l \in 1 .. j - 1
        BY <1>8, <3>1
      <4>3. ~Newer(rs, n, i) /\ Reached(rs, n, i)
        BY <4>1, <4>2 DEF Reached
      <4> QED
        BY <3>1, <4>3 DEF Stays
    <3>2. CASE ~(j - 1 = i /\ Stays(rs, n, i) /\ ~Stays(rs, n, j))
      BY <1>8, <2>1, <2>2, <3>2
    <3> QED
      BY <3>1, <3>2
  <2> QED
    BY <1>4, <1>8, <2>1, <2>2, <2>3
<1> QED
  BY <1>1, <1>6, <1>7, <1>8 DEF Behind

(* A row that answers for a rest number is still there after RestPush: it  *)
(* is dropped only when the row before it answers for that number too.     *)
LEMMA PushHeld ==
  ASSUME NEW rs, NEW C, RowsOk(rs, C), NEW n \in 1 .. MaxRest, rs[0].num < n,
         n \div RestScale # (rs[0].num - 1) \div RestScale, NEW new, new = RestPush(rs, n),
         NEW p \in RestPlace, NEW r, r = RestArr[n \div RestScale][p] * RestScale, NEW c \in C, c =< r
  PROVE  \E j \in 1 .. CountState - 1 : c =< new[j].num /\ new[j].num =< r
<1>1. PICK k \in Nat : k = CountState /\ k >= 2
  BY RestAssumption
<1>2. \A i \in 0 .. k - 1 :
        /\ rs[i].num \in Nat
        /\ \A j \in 0 .. k - 1 : i < j /\ rs[j].num > 0 => rs[j].num < rs[i].num
  BY <1>1, RowIs
<1>3. \A i \in 1 .. k - 1 : new[i] = IF Stays(rs, n, i) THEN rs[i] ELSE rs[i - 1]
  BY <1>1, PushIs
<1>4. 0 \in 0 .. k - 1 /\ \A i \in 1 .. k - 1 : i \in 0 .. k - 1 /\ i - 1 \in 0 .. k - 1
  BY <1>1
<1>5. c \in Nat /\ c > 0 /\ r \in Nat /\ Held(rs, r, C)
  <2>1. n \in rs[0].num .. MaxRest
    BY <1>2, <1>4
  <2>2. c \in Nat \ {0}
    BY DEF RowsOk
  <2> QED
    BY <2>1, <2>2, HeldLater
<1> DEFINE S == {j \in 0 .. k - 1 : c =< rs[j].num /\ rs[j].num =< r}
<1>6. PICK i \in S : \A j \in S : i =< j
  <2>1. S # {}
    BY <1>1, <1>5 DEF Held
  <2>2. S \subseteq Nat
    BY <1>1
  <2> HIDE DEF S
  <2> QED
    BY <2>1, <2>2, LeastIn
<1>7. i \in 0 .. k - 1 /\ c =< rs[i].num /\ rs[i].num =< r /\ rs[i].num > 0
  BY <1>2, <1>5
<1>8. \A j \in 0 .. k - 1 : j < i => rs[j].num > r
  <2> SUFFICES ASSUME NEW j \in 0 .. k - 1, j < i PROVE rs[j].num > r
    OBVIOUS
  <2>1. rs[i].num < rs[j].num
    BY <1>2, <1>7
  <2>2. c =< rs[j].num
    BY <1>2, <1>5, <1>7, <2>1
  <2>3. j \notin S
    BY <1>6
  <2> QED
    BY <1>2, <1>5, <2>2, <2>3
<1> HIDE DEF S
<1>9. SUFFICES \E j \in 1 .. k - 1 : new[j] = rs[i]
  BY <1>1, <1>7
<1>10. PICK L, m, x : L = RestLength /\ m = n \div RestScale /\ x = RestArr[m]
  OBVIOUS
<1>11. /\ L \in Nat /\ k =< L /\ p \in L + 2 - k .. L /\ p \in 1 .. L /\ m \in Nat
       /\ x \in [1 .. L -> Nat] /\ x[L] = m /\ \A a, b \in 1 .. L : a < b => x[a] =< x[b]
  <2>1. n \in 0 .. MaxRest
    OBVIOUS
  <2>2. Rising(x, m) /\ m \in Nat
    BY <1>10, <2>1, RestIs
  <2>3. L \in Nat /\ k =< L /\ p \in L + 2 - k .. L /\ p \in 1 .. L
    BY <1>1, <1>10, RestAssumption DEF RestPlace
  <2>4. x \in [1 .. L -> Nat] /\ x[L] = m /\ \A a, b \in 1 .. L : a < b => x[a] =< x[b]
    BY <1>10, <2>2 DEF Rising
  <2> QED
    BY <2>2, <2>3, <2>4
<1>12. PICK q \in Nat \ {0} : q = RestScale
  BY RestAssumption
<1>13. r = x[p] * q
  BY <1>10, <1>12
(* The row before i, if the rest number of its place lies below r.         *)
<1>14. ASSUME i > 0, L + 1 - i =< p, ~Newer(rs, n, i) PROVE FALSE
  <2>1. i - 1 \in 0 .. k - 1 /\ rs[i - 1].num > r /\ rs[i - 1].num \in Nat
    BY <1>2, <1>7, <1>8, <1>14
  <2>2. CASE i = 1
    <3>1. p = L
      BY <1>11, <1>14, <2>2
    <3>2. r = m * q
      BY <1>11, <1>13, <3>1
    <3>3. PICK z \in Int : z = rs[0].num - 1 /\ m * q =< z /\ z < n
      BY <1>2, <1>4, <2>1, <2>2, <1>5, <3>2
    <3>4. z \div RestScale \in Int /\ m =< z \div RestScale /\ z \div RestScale =< m
      <4>1. PICK y \in Int : y = z \div RestScale /\ z < y * q + q
        BY <1>12, <3>3, DivTimes
      <4>2. y =< m
        BY <1>10, <3>3, <4>1, DivGrows
      <4>3. m * q < (y + 1) * q
        <5>1. (y + 1) * q = y * q + q /\ m * q \in Int /\ y * q \in Int
          BY <1>11
        <5> QED
          BY <3>3, <4>1, <5>1
      <4>4. m < y + 1
        BY <1>11, <4>3, TimesIs
      <4> QED
        BY <1>11, <4>1, <4>2, <4>4
    <3>5. z \div RestScale = m
      BY <1>11, <3>4
    <3> QED
      BY <1>10, <3>3, <3>5
  <2>3. CASE i # 1
    <3>1. i > 1 /\ L + 1 - i \in 1 .. L
      BY <1>7, <1>11, <1>14, <2>3
    <3>2. x[L + 1 - i] =< x[p] /\ x[L + 1 - i] \in Nat /\ x[p] \in Nat
      <4>1. L + 1 - i = p \/ L + 1 - i < p
        BY <1>11, <1>14, <3>1
      <4> QED
        BY <1>11, <3>1, <4>1
    <3>3. x[L + 1 - i] * q =< x[p] * q /\ x[L + 1 - i] * q \in Nat
      BY <3>2, TimesIs
    <3>4. ~(rs[i - 1].num > x[L + 1 - i] * q)
      BY <1>10, <1>12, <1>14, <3>1 DEF Newer
    <3> QED
      BY <1>5, <1>13, <2>1, <3>3, <3>4
  <2> QED
    BY <2>2, <2>3
<1>15. CASE i > 0 /\ Stays(rs, n, i)
  BY <1>3, <1>7, <1>15
<1>16. CASE i > 0 /\ ~Stays(rs, n, i)
  <2>1. Reached(rs, n, i) /\ ~Newer(rs, n, i)
    BY <1>16 DEF Stays
  <2>2. ~(L + 1 - i =< p)
    BY <1>14, <1>16, <2>1
  <2>3. i + 1 \in 1 .. k - 1
    BY <1>7, <1>11, <2>2
  <2>4. Reached(rs, n, i + 1)
    <3> SUFFICES ASSUME NEW j \in 1 .. i PROVE ~Newer(rs, n, j) /\ rs[j].num # 0
      BY <1>7 DEF Reached
    <3>1. j = i \/ j \in 1 .. i - 1
      BY <1>7
    <3> QED
      BY <1>7, <2>1, <3>1 DEF Reached
  <2>5. ~Newer(rs, n, i + 1)
    <3>1. L + 1 - (i + 1) = L - i /\ (i + 1) - 1 = i /\ L - i \in 1 .. L /\ p =< L - i
      <4>1. i \in 1 .. k - 1 /\ L \in Nat /\ k =< L /\ p \in 1 .. L
        BY <1>7, <1>11, <1>16
      <4>2. p < L + 1 - i
        BY <2>2, <4>1
      <4> QED
        BY <4>1, <4>2
    <3>2. x[p] =< x[L - i] /\ x[p] \in Nat /\ x[L - i] \in Nat
      <4>1. p = L - i \/ p < L - i
        BY <1>11, <3>1
      <4> QED
        BY <1>11, <3>1, <4>1
    <3>3. x[p] * q =< x[L - i] * q /\ x[p] * q \in Nat /\ x[L - i] * q \in Nat
      BY <3>2, TimesIs
    <3>4. ~(rs[i].num > x[L - i] * q)
      BY <1>2, <1>7, <1>13, <3>3
    <3> QED
      BY <1>10, <1>12, <3>1, <3>4 DEF Newer
  <2>6. new[i + 1] = rs[(i + 1) - 1] /\ (i + 1) - 1 = i
    BY <1>3, <1>7, <2>3, <2>4, <2>5 DEF Stays
  <2> QED
    BY <2>3, <2>6
<1>17. CASE i = 0
  <2>1. 1 \in 1 .. k - 1 /\ Reached(rs, n, 1) /\ ~Newer(rs, n, 1)
    BY <1>1 DEF Reached, Newer
  <2>2. new[1] = rs[1 - 1]
    BY <1>3, <2>1 DEF Stays
  <2> QED
    BY <1>17, <2>1, <2>2
<1> QED
  BY <1>7, <1>15, <1>16, <1>17

LEMMA StayHeld ==
  ASSUME NEW rs, NEW C, RowsOk(rs, C), NEW n \in 1 .. MaxRest, rs[0].num < n,
         n \div RestScale = (rs[0].num - 1) \div RestScale,
         NEW p \in RestPlace, NEW r, r = RestArr[n \div RestScale][p] * RestScale, NEW c \in C, c =< r
  PROVE  \E j \in 1 .. CountState - 1 : c =< rs[j].num /\ rs[j].num =< r
<1>1. 0 \in 0 .. CountState - 1 /\ CountState \in Nat
  BY RestAssumption
<1>2. PICK s \in Nat : s = rs[0].num
  BY <1>1, RowIs
<1>3. Held(rs, r, C) /\ r \in Nat
  <2>1. n \in rs[0].num .. MaxRest
    BY <1>2
  <2> QED
    BY <2>1, HeldLater
<1>4. PICK q \in Nat \ {0} : q = RestScale
  BY RestAssumption
<1>5. PICK m \in Nat : m = n \div RestScale /\ m = (s - 1) \div RestScale
  BY <1>2, DivTimes
<1>6. m * q =< s - 1
  BY <1>2, <1>4, <1>5, DivTimes
<1>7. PICK x \in 0 .. m : x = RestArr[m][p]
  <2>1. n \in 0 .. MaxRest
    OBVIOUS
  <2> QED
    BY <1>5, <2>1, RestIs
<1>8. r =< m * q /\ m * q \in Nat
  <2>1. x * q =< m * q
    BY <1>5, <1>7, TimesIs
  <2> QED
    BY <1>4, <1>5, <1>7, <2>1
<1>9. PICK j \in 0 .. CountState - 1 : c =< rs[j].num /\ rs[j].num =< r
  BY <1>3 DEF Held
<1>10. j # 0
  BY <1>2, <1>3, <1>6, <1>8, <1>9
<1> QED
  BY <1>1, <1>9, <1>10

LEMMA WroteOk ==
  ASSUME NEW rs, NEW C, RowsOk(rs, C), NEW n \in 1 .. MaxRest, \A c \in C : c < n,
         NEW next, next = IF n \div RestScale # (rs[0].num - 1) \div RestScale THEN RestPush(rs, n) ELSE rs,
         NEW new, new = [next EXCEPT ![0] = [num |-> n, value |-> n]]
  PROVE  RowsOk(new, C \cup {n})
<1>1. 0 \in 0 .. CountState - 1 /\ CountState \in Nat /\ CountState >= 2 /\ MaxRest \in Nat
  BY RestAssumption
<1>2. n \in Nat /\ n > 0 /\ rs[0].num \in Nat /\ rs[0].num < n
  <2>1. rs[0].num \in Nat /\ (rs[0].num = 0 \/ rs[0].num \in C)
    BY <1>1, RowIs
  <2> QED
    BY <2>1
<1>3. /\ C \subseteq Nat \ {0}
      /\ rs \in [0 .. CountState - 1 -> [num : Nat, value : Nat]]
  BY DEF RowsOk
<1>4. Behind(next, C)
  <2>1. CASE n \div RestScale # (rs[0].num - 1) \div RestScale
    BY <1>2, <2>1, PushBehind
  <2>2. CASE n \div RestScale = (rs[0].num - 1) \div RestScale
    <3>1. \A i \in 1 .. CountState - 1 : i \in 0 .. CountState - 1
      BY <1>1
    <3>2. \A i \in 1 .. CountState - 1 :
            /\ rs[i].value = rs[i].num /\ (rs[i].num = 0 \/ rs[i].num \in C)
            /\ \A j \in 1 .. CountState - 1 : i < j /\ rs[j].num > 0 => rs[j].num < rs[i].num
      BY <3>1, RowIs
    <3> QED
      BY <1>3, <2>2, <3>2 DEF Behind
  <2> QED
    BY <2>1, <2>2
<1>5. ASSUME NEW p \in RestPlace, NEW r, r = RestArr[n \div RestScale][p] * RestScale, NEW c \in C, c =< r
      PROVE  \E j \in 1 .. CountState - 1 : c =< next[j].num /\ next[j].num =< r
  <2>1. CASE n \div RestScale # (rs[0].num - 1) \div RestScale
    BY <1>2, <1>5, <2>1, PushHeld
  <2>2. CASE n \div RestScale = (rs[0].num - 1) \div RestScale
    BY <1>2, <1>5, <2>2, StayHeld
  <2> QED
    BY <2>1, <2>2
<1>6. next \in [0 .. CountState - 1 -> [num : Nat, value : Nat]]
  BY <1>4 DEF Behind
<1>7. /\ new \in [0 .. CountState - 1 -> [num : Nat, value : Nat]]
      /\ new[0].num = n /\ new[0].value = n
      /\ \A i \in 1 .. CountState - 1 : new[i] = next[i]
  <2>1. [num |-> n, value |-> n] \in [num : Nat, value : Nat]
    BY <1>2
  <2>2. new = [next EXCEPT ![0] = [num |-> n, value |-> n]]
    OBVIOUS
  <2>3. new[0] = [num |-> n, value |-> n]
    BY <1>1, <1>6, <2>2
  <2>4. \A i \in 1 .. CountState - 1 : new[i] = next[i]
    BY <1>1, <1>6, <2>2
  <2>5. new \in [0 .. CountState - 1 -> [num : Nat, value : Nat]]
    BY <1>6, <2>1, <2>2
  <2> QED
    BY <2>3, <2>4, <2>5
<1>8. \A i \in 0 .. CountState - 1 : i = 0 \/ i \in 1 .. CountState - 1
  BY <1>1
<1>9. \A i \in 0 .. CountState - 1 : new[i].value = new[i].num /\ (new[i].num = 0 \/ new[i].num \in C \cup {n})
  BY <1>4, <1>7, <1>8 DEF Behind
<1>10. ASSUME NEW i \in 0 .. CountState - 1, NEW j \in 0 .. CountState - 1, i < j, new[j].num > 0
       PROVE  new[j].num < new[i].num
  <2>1. j \in 1 .. CountState - 1 /\ new[j] = next[j]
    BY <1>1, <1>7, <1>10
  <2>2. CASE i = 0
    <3>1. next[j].num = 0 \/ next[j].num \in C
      BY <1>4, <2>1 DEF Behind
    <3> QED
      BY <1>7, <1>10, <2>1, <2>2, <3>1
  <2>3. CASE i # 0
    <3>1. i \in 1 .. CountState - 1 /\ new[i] = next[i]
      BY <1>7, <1>8, <2>3
    <3> QED
      BY <1>4, <1>10, <2>1, <3>1 DEF Behind
  <2> QED
    BY <2>2, <2>3
<1>11. ASSUME NEW p \in RestPlace PROVE Held(new, RestArr[new[0].num \div RestScale][p] * RestScale, C \cup {n})
  <2>1. PICK r : r = RestArr[n \div RestScale][p] * RestScale
    OBVIOUS
  <2>2. ASSUME NEW c \in C \cup {n}, c =< r
        PROVE  \E j \in 0 .. CountState - 1 : c =< new[j].num /\ new[j].num =< r
    <3>1. CASE c = n
      BY <1>1, <1>2, <1>7, <2>2, <3>1
    <3>2. CASE c # n
      <4>1. PICK j \in 1 .. CountState - 1 : c =< next[j].num /\ next[j].num =< r
        BY <1>5, <2>1, <2>2, <3>2
      <4>2. j \in 0 .. CountState - 1 /\ new[j] = next[j]
        BY <1>7, <4>1
      <4> QED
        BY <4>1, <4>2
    <3> QED
      BY <3>1, <3>2
  <2> QED
    BY <1>7, <2>1, <2>2 DEF Held
<1>12. C \cup {n} \subseteq Nat \ {0} /\ \A c \in C \cup {n} : c =< new[0].num
  <2>1. \A c \in C : c \in Nat /\ c > 0 /\ c < n
    BY <1>3
  <2> QED
    BY <1>2, <1>7, <2>1
<1> QED
  BY <1>7, <1>9, <1>10, <1>11, <1>12 DEF RowsOk

(* As long as no block was taken back.                                     *)
RestInv ==
  /\ block_num \in 0 .. MaxRest
  /\ ~undone => RowsOk(arr, changes) /\ \A c \in changes : c =< block_num

LEMMA RestFirst == RestInit => RestInv
<1> SUFFICES ASSUME RestInit PROVE RestInv
  OBVIOUS
<1>1. block_num = 0 /\ changes = {} /\ arr = [i \in 0 .. CountState - 1 |-> NoRow]
  BY DEF RestInit
<1>2. block_num \in 0 .. MaxRest
  BY <1>1, RestAssumption
<1>3. NoRow \in [num : Nat, value : Nat] /\ NoRow.num = 0
  BY DEF NoRow
<1>4. RowsOk(arr, {})
  <2>1. 0 \in 0 .. CountState - 1 /\ CountState \in Nat
    BY RestAssumption
  <2>2. arr \in [0 .. CountState - 1 -> [num : Nat, value : Nat]]
    BY <1>1, <1>3
  <2>3. \A i \in 0 .. CountState - 1 : arr[i] = NoRow
    BY <1>1
  <2>4. \A i \in 0 .. CountState - 1 : arr[i].num = 0 /\ arr[i].value = 0
    BY <2>3 DEF NoRow
  <2>5. 0 \in 0 .. MaxRest
    BY RestAssumption
  <2> QED
    BY <2>1, <2>2, <2>4, <2>5 DEF RowsOk, Held
<1> QED
  BY <1>1, <1>2, <1>4 DEF RestInv

LEMMA RestStep == RestInv /\ [RestNext]_restVars => RestInv'
<1> SUFFICES ASSUME RestInv, [RestNext]_restVars PROVE RestInv'
  OBVIOUS
<1>1. block_num \in 0 .. MaxRest /\ MaxRest \in Nat /\ block_num \in Nat
  BY RestAssumption DEF RestInv
<1>2. ~undone => RowsOk(arr, changes) /\ \A c \in changes : c =< block_num
  BY DEF RestInv
<1>3. CASE UNCHANGED restVars
  BY <1>1, <1>2, <1>3 DEF restVars, RestInv
<1>4. CASE Execute
  <2>1. /\ block_num < MaxRest /\ block_num' = block_num + 1 /\ undone' = undone
        /\ block_num' \in 1 .. MaxRest /\ block_num' \in 0 .. MaxRest
    BY <1>1, <1>4 DEF Execute
  <2>2. CASE UNCHANGED << changes, arr >>
    <3>1. ASSUME ~undone' PROVE RowsOk(arr, changes)' /\ (\A c \in changes : c =< block_num)'
      <4>1. RowsOk(arr, changes) /\ \A c \in changes : c =< block_num
        BY <1>2, <2>1, <3>1
      <4>2. \A c \in changes : c \in Nat
        BY <4>1 DEF RowsOk
      <4> QED
        BY <1>1, <2>1, <2>2, <4>1, <4>2
    <3> QED
      BY <2>1, <3>1 DEF RestInv
  <2>3. CASE changes' = changes \cup {block_num + 1} /\ DoRest(block_num + 1, block_num + 1)
    <3>1. ASSUME ~undone PROVE RowsOk(arr', changes') /\ \A c \in changes' : c =< block_num'
      <4>1. RowsOk(arr, changes) /\ \A c \in changes : c =< block_num /\ c \in Nat
        BY <1>2, <3>1 DEF RowsOk
      <4>2. PICK n \in 1 .. MaxRest : n = block_num + 1
        BY <1>1, <2>1
      <4>3. PICK next : next = IF n \div RestScale # (arr[0].num - 1) \div RestScale THEN RestPush(arr, n) ELSE arr
        OBVIOUS
      <4>4. arr' = [next EXCEPT ![0] = [num |-> n, value |-> n]]
        BY <2>3, <4>2, <4>3 DEF DoRest
      <4>5. \A c \in changes : c < n
        BY <1>1, <4>1, <4>2
      <4>6. RowsOk(arr', changes \cup {n})
        BY <4>1, <4>3, <4>4, <4>5, WroteOk
      <4>7. \A c \in changes \cup {n} : c =< n
        BY <4>1, <4>5
      <4> QED
        BY <2>1, <2>3, <4>2, <4>6, <4>7
    <3>2. RowsOk(arr, changes)' <=> RowsOk(arr', changes')
      BY DEF RowsOk, Held
    <3> QED
      BY <2>1, <3>1, <3>2 DEF RestInv
  <2> QED
    BY <1>4, <2>2, <2>3 DEF Execute
<1>5. CASE Undo
  <2>1. block_num' = block_num - 1 /\ changes' = changes \ {block_num} /\ ~undone /\ block_num > 0
    BY <1>5 DEF Undo
  <2>2. block_num' \in 0 .. MaxRest
    BY <1>1, <2>1
  <2>3. CASE undone'
    BY <2>2, <2>3 DEF RestInv
  <2>4. CASE ~undone'
    <3>1. block_num \notin changes /\ arr' = arr /\ changes' = changes
      BY <1>5, <2>1, <2>4 DEF Undo
    <3>2. RowsOk(arr, changes) /\ \A c \in changes : c =< block_num /\ c \in Nat
      BY <1>2, <2>1 DEF RowsOk
    <3>3. \A c \in changes : c =< block_num - 1
      BY <1>1, <3>1, <3>2
    <3>4. RowsOk(arr, changes)'
      BY <3>1, <3>2 DEF RowsOk, Held
    <3> QED
      BY <2>1, <2>2, <3>1, <3>3, <3>4 DEF RestInv
  <2> QED
    BY <2>3, <2>4
<1> QED
  BY <1>3, <1>4, <1>5 DEF RestNext

LEMMA HeldTells ==
  ASSUME RowsOk(arr, changes), NEW r \in Nat, Held(arr, r, changes)
  PROVE  Tells(r)
<1>1. /\ arr \in [0 .. CountState - 1 -> [num : Nat, value : Nat]]
      /\ changes \subseteq Nat \ {0}
      /\ \A i \in 0 .. CountState - 1 : arr[i].value = arr[i].num /\ (arr[i].num = 0 \/ arr[i].num \in changes)
  BY DEF RowsOk
<1>2. \A i \in 0 .. CountState - 1 : arr[i].num \in Nat
  BY <1>1
<1>3. PICK S : S = RestRows(r)
  OBVIOUS
<1>4. S = {i \in 0 .. CountState - 1 : arr[i].num > 0 /\ arr[i].num =< r}
  BY <1>1, <1>3 DEF RestRows
<1>5. PICK C : C = {c \in changes : c =< r} \cup {0}
  OBVIOUS
<1>6. C \subseteq 0 .. r /\ C # {} /\ Value(r) = Max(C)
  <2>1. \A c \in changes : c \in Nat
    BY <1>1
  <2> QED
    BY <1>5, <2>1 DEF Value
<1>7. PICK v : v = Value(r) /\ v \in C /\ \A c \in C : c =< v
  BY <1>6, GreatestIn
<1>8. CASE S = {}
  <2>1. \A c \in changes : ~(c =< r)
    <3> SUFFICES ASSUME NEW c \in changes, c =< r PROVE FALSE
      OBVIOUS
    <3>1. PICK i \in 0 .. CountState - 1 : c =< arr[i].num /\ arr[i].num =< r
      BY DEF Held
    <3>2. arr[i].num > 0
      BY <1>1, <1>2, <3>1
    <3> QED
      BY <1>4, <1>8, <3>1, <3>2
  <2>2. v = 0
    BY <1>5, <1>7, <2>1
  <2> QED
    BY <1>3, <1>7, <1>8, <2>2 DEF Tells
<1>9. CASE S # {}
  <2>1. PICK nums : nums = {arr[i].num : i \in S}
    OBVIOUS
  <2>2. nums \subseteq 0 .. r /\ nums # {}
    BY <1>2, <1>4, <1>9, <2>1
  <2>3. Max(nums) \in nums /\ \A m \in nums : m =< Max(nums)
    BY <2>2, GreatestIn
  <2>4. \E i \in S : \A j \in S : arr[j].num =< arr[i].num
    BY <2>1, <2>3
  <2>5. PICK i : i = CHOOSE k \in S : \A j \in S : arr[j].num =< arr[k].num
    OBVIOUS
  <2>6. i \in S /\ \A j \in S : arr[j].num =< arr[i].num
    BY <2>4, <2>5
  <2>7. arr[i].num \in changes /\ arr[i].value = arr[i].num /\ arr[i].num =< r /\ arr[i].num \in Nat /\ arr[i].num > 0
    BY <1>1, <1>2, <1>4, <2>6
  <2>8. arr[i].num =< v /\ v \in Nat
    BY <1>5, <1>6, <1>7, <2>7
  <2>9. v =< arr[i].num
    <3>1. v \in changes /\ v =< r
      BY <1>5, <1>7, <2>7, <2>8
    <3>2. PICK j \in 0 .. CountState - 1 : v =< arr[j].num /\ arr[j].num =< r
      BY <3>1 DEF Held
    <3>3. j \in S
      BY <1>1, <1>2, <1>4, <3>1, <3>2
    <3> QED
      BY <1>2, <2>6, <2>7, <2>8, <3>2, <3>3
  <2>10. arr[i].value = v
    BY <2>7, <2>8, <2>9
  <2>11. Rest(r) = arr[i].value
    BY <1>3, <2>5 DEF Rest
  <2> QED
    BY <1>3, <1>7, <1>9, <2>10, <2>11 DEF Tells
<1> QED
  BY <1>8, <1>9

LEMMA RestAlways == RestSpec => []RestInv
BY RestFirst, RestStep, PTL DEF RestSpec

LEMMA PlaceTells ==
  ASSUME RestInv, ~undone, NEW i \in RestPlace
  PROVE  Tells(RestArr[block_num \div RestScale][i] * RestScale)
<1>1. RowsOk(arr, changes) /\ (\A c \in changes : c =< block_num) /\ block_num \in 0 .. MaxRest
  BY DEF RestInv
<1>2. block_num \in arr[0].num .. MaxRest
  <2>1. 0 \in 0 .. CountState - 1
    BY RestAssumption
  <2>2. arr[0].num \in Nat /\ (arr[0].num = 0 \/ arr[0].num \in changes)
    BY <1>1, <2>1, RowIs
  <2> QED
    BY <1>1, <2>2
<1>3. PICK r \in Nat : r = RestArr[block_num \div RestScale][i] * RestScale /\ Held(arr, r, changes)
  BY <1>1, <1>2, HeldLater
<1> QED
  BY <1>1, <1>3, HeldTells

(* However many blocks there are: the newest CountState - 2 rest numbers   *)
(* can be told, from rows RestPush has moved and dropped any number of     *)
(* times.                                                                  *)
NewestTold ==
  ~undone => \A i \in RestLength + 2 - CountState .. RestLength - 1 :
               Tells(RestArr[block_num \div RestScale][i] * RestScale)

THEOREM NewestRestsTold == RestSpec => []NewestTold
<1>1. RestInv => NewestTold
  <2> SUFFICES ASSUME RestInv, ~undone, NEW i \in RestLength + 2 - CountState .. RestLength - 1
               PROVE  Tells(RestArr[block_num \div RestScale][i] * RestScale)
    BY DEF NewestTold
  <2>1. i \in RestPlace
    BY RestAssumption DEF RestPlace
  <2> QED
    BY <2>1, PlaceTells
<1> QED
  BY <1>1, RestAlways, PTL

(* As long as there are no more rest numbers than rows for them            *)
(* (RowsAssumption), the balance after each of them can be told            *)
(* (GetArrRest), and an account is left out only if no block had changed   *)
(* it.                                                                     *)
THEOREM RestsAreFound == RestSpec => []RestFound
<1>1. RestInv => RestFound
  <2> SUFFICES ASSUME RestInv, ~undone, NEW rest \in RestNums(block_num) \ {0}
               PROVE  Tells(rest)
    BY DEF RestFound
  <2>1. PICK i \in 1 .. RestLength - 1 : rest = RestArr[block_num \div RestScale][i] * RestScale
    BY DEF RestNums
  <2>2. block_num \div RestScale \in 0 .. MaxRest \div RestScale
    BY RestIs DEF RestInv
  <2>3. RestScale \in Nat /\ 0 * RestScale = 0
    BY RestAssumption
  <2>4. ~(i \in 1 .. RestLength + 1 - CountState)
    BY <2>1, <2>2, <2>3, RowsAssumption
  <2>5. i \in RestPlace
    BY <2>4, RestAssumption DEF RestPlace
  <2> QED
    BY <2>1, <2>5, PlaceTells
<1> QED
  BY <1>1, RestAlways, PTL
=============================================================================
