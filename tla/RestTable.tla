----------------------------- MODULE RestTable -----------------------------
(***************************************************************************)
(* The old balances of an account (accounts-rest): few rows with its value *)
(* after some earlier blocks, from which the balance after each of the     *)
(* rest numbers can be told, which lie the further apart the older they    *)
(* are.                                                                    *)
(*                                                                         *)
(* A value is represented by the block that has written it, 0 for the      *)
(* account as it was made.                                                 *)
(***************************************************************************)
EXTENDS Integers, FiniteSets, FiniteSetsExt

CONSTANTS
  RestScale,   \* REST_BLOCK_SCALE (1000)
  RestBase,    \* 16, the masks of GetRestArr are of four bits a level
  RestLength,  \* rest numbers (10)
  CountState,  \* COUNT_STATE, rows of an account (5)
  MaxRest      \* bound: block numbers

ASSUME RestAssumption ==
  /\ RestScale \in Nat \ {0} /\ RestBase \in Nat \ {0} /\ MaxRest \in Nat
  /\ RestLength \in Nat /\ CountState \in 2 .. RestLength

VARIABLES
  block_num,  \* the last block executed
  changes,    \* the blocks of the chain that change the account
  arr,        \* RestData.Arr
  undone      \* a block that changed the account was taken back

restVars == << block_num, changes, arr, undone >>

NoRow == [num |-> 0, value |-> 0]

\* The account after block n.
Value(n) == Max({c \in changes : c =< n} \cup {0})
-----------------------------------------------------------------------------
(* GetRestArr: at every number the last place takes it, and its old number *)
(* moves on as long as it is a multiple of the place's power of RestBase.  *)
RestArr[num \in 0 .. MaxRest \div RestScale] ==
  IF num = 0 THEN [i \in 1 .. RestLength |-> 0]
  ELSE LET old   == RestArr[num - 1]
           moved == Min({k \in 1 .. RestLength :
                           num % RestBase ^ k = 0 \/ old[RestLength + 1 - k] % RestBase ^ k # 0}
                        \cup {RestLength})
       IN [i \in 1 .. RestLength |->
             IF i = RestLength THEN num ELSE IF i > RestLength - moved THEN old[i + 1] ELSE old[i]]

RestNums(n) == {RestArr[n \div RestScale][i] * RestScale : i \in 1 .. RestLength - 1}

(* There is a row for every rest number: those in the places that no row   *)
(* is kept for are 0, as in the program below block 69 905 000.            *)
ASSUME RowsAssumption ==
  \A num \in 0 .. MaxRest \div RestScale : \A i \in 1 .. RestLength + 1 - CountState : RestArr[num][i] = 0

(* Mutant: a row moves on whether or not a rest number lies above it.      *)
RestPush_All(rows, n) ==
  [i \in 0 .. CountState - 1 |->
     IF i > 0 /\ \A j \in 1 .. i - 1 : rows[j].num # 0 THEN rows[i - 1] ELSE rows[i]]

(* The rows move on by one place, up to one that is free or one that is    *)
(* newer than the rest number of its next place.                           *)
RestPush(rows, n) ==
  LET Newer(i)   == i > 1 /\ rows[i - 1].num > RestArr[n \div RestScale][RestLength + 1 - i] * RestScale
      TooNew(i)  == rows[i].num >= n \/ rows[i - 1].num >= n
      Reached(i) == \A j \in 1 .. i - 1 : ~Newer(j) /\ ~TooNew(j) /\ rows[j].num # 0
  IN [i \in 0 .. CountState - 1 |->
        IF i = 0 \/ ~Reached(i) \/ Newer(i) THEN rows[i]
        ELSE IF TooNew(i) THEN NoRow
        ELSE rows[i - 1]]

DoRest(n, value) ==
  LET rows == IF n \div RestScale # (arr[0].num - 1) \div RestScale THEN RestPush(arr, n) ELSE arr
  IN arr' = [rows EXCEPT ![0] = [num |-> n, value |-> value]]
-----------------------------------------------------------------------------
(* DBStateWriteInner: a block changes the account, or does not.            *)
Execute ==
  /\ block_num < MaxRest /\ block_num' = block_num + 1
  /\ \/ changes' = changes \cup {block_num + 1} /\ DoRest(block_num + 1, block_num + 1)
     \/ UNCHANGED << changes, arr >>
  /\ UNCHANGED undone

(* ProcessingDeleteAct: the value before is written for the block that is  *)
(* taken back.  One block that changed the account is enough, as RestFound *)
(* says nothing after it.                                                  *)
Undo ==
  /\ block_num > 0 /\ ~undone
  /\ block_num' = block_num - 1 /\ changes' = changes \ {block_num}
  /\ IF block_num \in changes
       THEN DoRest(block_num, Value(block_num - 1)) /\ undone' = TRUE
       ELSE UNCHANGED << arr, undone >>

RestInit == block_num = 0 /\ changes = {} /\ arr = [i \in 0 .. CountState - 1 |-> NoRow] /\ undone = FALSE

RestNext == Execute \/ Undo

RestSpec == RestInit /\ [][RestNext]_restVars
-----------------------------------------------------------------------------
(* GetArrRest: the newest row that is not above the number; an account     *)
(* without rows is as it is now, one with newer rows only is left out.     *)
RestRows(rest) == {i \in DOMAIN arr : arr[i].num > 0 /\ arr[i].num =< rest}
Rest(rest) == arr[CHOOSE i \in RestRows(rest) : \A j \in RestRows(rest) : arr[j].num =< arr[i].num].value
Tells(rest) == IF RestRows(rest) # {} THEN Rest(rest) = Value(rest) ELSE Value(rest) = 0

(* For every rest number of the present block the rows tell the balance    *)
(* after that block, and an account is left out only if it was not changed *)
(* yet: no row that is dropped on the way is needed for a number that      *)
(* stays - as long as no block was taken back.                             *)
RestFound == ~undone => \A rest \in RestNums(block_num) \ {0} : Tells(rest)
=============================================================================
