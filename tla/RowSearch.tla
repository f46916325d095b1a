----------------------------- MODULE RowSearch -----------------------------
(***************************************************************************)
(* The search for the rows of a block in a log that is ordered by block    *)
(* number (FastFindBlockNum), step by step: WEB searches the undo log      *)
(* while TX appends to it and takes rows back.                             *)
(*                                                                         *)
(* A row is represented by its BlockNum.  A block has any number of rows,  *)
(* also none.                                                              *)
(***************************************************************************)
EXTENDS Integers, Sequences

CONSTANTS
  MaxBlockNum,   \* bound: block numbers
  MaxRows        \* bound: rows of the log

ASSUME RowSearchAssumption == MaxBlockNum \in Nat /\ MaxRows \in Nat

VARIABLES
  rows,       \* the log
  pc,         \* "idle", or what the running call does next
  block,      \* BlockNum, what the call looks for
  low, high,  \* StartNum and EndNum
  cur,        \* CurNum
  result,     \* what the last call has returned
  still       \* the log has not changed since the last call began

vars == << rows, pc, block, low, high, cur, result, still >>
call == << pc, block, low, high, cur, result >>

Row(num) == rows[num + 1]
MaxRow == Len(rows) - 1

\* The answers that are not a number of a row.
NoHistory == -1
NoPresent == -2
Undefined == -3
Throw == -4
-----------------------------------------------------------------------------
(* TX writes rows of the present block, or takes blocks back               *)
(* (DeleteHistory, ProcessingDeleteAct).                                   *)
Write(n) ==
  /\ Len(rows) < MaxRows
  /\ \A i \in DOMAIN rows : rows[i] =< n
  /\ rows' = Append(rows, n)
  /\ still' = FALSE /\ UNCHANGED call

DeleteHistory(n) ==
  /\ \E kept \in 0 .. Len(rows) - 1 :
       /\ kept > 0 => rows[kept] < n
       /\ \A i \in DOMAIN rows : i > kept => rows[i] >= n
       /\ rows' = SubSeq(rows, 1, kept)
  /\ still' = FALSE /\ UNCHANGED call
-----------------------------------------------------------------------------
Return(r) ==
  /\ pc' = "idle" /\ result' = r
  /\ UNCHANGED << low, high, cur >>

FastFindBlockNum(n) ==
  /\ pc = "idle"
  /\ block' = n /\ still' = TRUE
  /\ IF MaxRow = -1
       THEN pc' = "idle" /\ result' = Undefined /\ UNCHANGED << low, high, cur >>
       ELSE pc' = "halve" /\ low' = 0 /\ high' = MaxRow /\ cur' = MaxRow \div 2 /\ UNCHANGED result
  /\ UNCHANGED rows

Half(delta) == (1 + delta) \div 2

(* One turn of the first loop.                                             *)
TooHigh ==
  /\ Row(cur) > block
  /\ IF cur = low THEN Return(NoHistory)
     ELSE high' = cur - 1 /\ cur' = cur - Half(cur - low) /\ UNCHANGED << pc, low, result >>

TooLow ==
  /\ Row(cur) < block
  /\ IF cur = high THEN Return(NoPresent)
     ELSE low' = cur + 1 /\ cur' = cur + Half(high - cur) /\ UNCHANGED << pc, high, result >>

Found ==
  /\ Row(cur) = block
  /\ pc' = "back" /\ UNCHANGED << low, high, cur, result >>

Missing == cur > MaxRow /\ Return(Throw)

Halve ==
  /\ pc = "halve"
  /\ \/ Missing
     \/ cur =< MaxRow /\ (TooHigh \/ TooLow \/ Found)
  /\ UNCHANGED << rows, block, still >>

(* Mutant: the row found is taken for the first of its block.              *)
Back_No ==
  /\ pc = "back"
  /\ Return(cur)
  /\ UNCHANGED << rows, block, still >>

(* One turn of the second loop, back to the first row of the block.        *)
Back ==
  /\ pc = "back"
  /\ IF cur = 0 THEN Return(0)
     ELSE IF cur - 1 > MaxRow THEN Return(Throw)
     ELSE IF Row(cur - 1) # block THEN Return(cur)
     ELSE cur' = cur - 1 /\ UNCHANGED << pc, low, high, result >>
  /\ UNCHANGED << rows, block, still >>
-----------------------------------------------------------------------------
Init ==
  /\ rows = << >> /\ pc = "idle" /\ block = 0
  /\ low = 0 /\ high = 0 /\ cur = 0 /\ result = Undefined /\ still = TRUE

Next ==
  \/ \E n \in 0 .. MaxBlockNum : Write(n) \/ DeleteHistory(n) \/ FastFindBlockNum(n)
  \/ Halve
  \/ Back

Spec == Init /\ [][Next]_vars
-----------------------------------------------------------------------------
TypeOK ==
  /\ rows \in Seq(Nat) /\ pc \in {"idle", "halve", "back"} /\ block \in Nat
  /\ low \in Nat /\ high \in Nat /\ cur \in Nat /\ result \in Int /\ still \in BOOLEAN

(* What FastFindBlockNum returns is the first row of the block, and it     *)
(* returns no number only when the block has no row, also for a block      *)
(* between two others, one before the first and one after the last - unless *)
(* the log has changed since the call began.                               *)
FindsFirst ==
  pc = "idle" /\ still =>
    IF \E i \in DOMAIN rows : rows[i] = block
      THEN /\ result \in Nat /\ Row(result) = block /\ result =< MaxRow
           /\ \A i \in 1 .. result : rows[i] # block
      ELSE result \in {NoHistory, NoPresent, Undefined}

(* Every turn of a loop leaves less to search, whatever TX does to the log *)
(* in between: no call runs for ever.                                      *)
Shrinks ==
  [][/\ Halve /\ pc' = "halve" => high' - low' < high - low /\ cur' \in low' .. high'
     /\ Back /\ pc' = "back" => cur' < cur]_vars
=============================================================================
