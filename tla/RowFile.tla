------------------------------ MODULE RowFile ------------------------------
(***************************************************************************)
(* What the index of the main chain promises to its one writer: a file of  *)
(* numbered rows, in which a read finds what was written last.             *)
(***************************************************************************)
EXTENDS Integers, Sequences

CONSTANTS
  Position,   \* what a row can hold: positions of blocks
  Hole,       \* the row of a number that was passed over
  MaxRowNum   \* bound: numbers of rows

Nothing == [none |-> TRUE]

VARIABLES
  rows,   \* the rows from number 0 on
  got     \* what the last read has returned

\* A row can be written above the last one; those between are holes.
Written(r, num, position) ==
  [i \in 1 .. (IF num < Len(r) THEN Len(r) ELSE num + 1) |->
     IF i = num + 1 THEN position ELSE IF i =< Len(r) THEN r[i] ELSE Hole]

Read(num) ==
  /\ got' = IF num < Len(rows) THEN [row |-> rows[num + 1]] ELSE Nothing
  /\ UNCHANGED rows

Write(num, position) == rows' = Written(rows, num, position) /\ UNCHANGED got

Truncate(num) == rows' = SubSeq(rows, 1, num + 1) /\ UNCHANGED got

Init == rows = << >> /\ got = Nothing

Next ==
  \/ \E num \in 0 .. MaxRowNum : Read(num) \/ (\E position \in Position : Write(num, position))
  \/ \E num \in -1 .. Len(rows) - 1 : Truncate(num)

Spec == Init /\ [][Next]_<< rows, got >>
=============================================================================
