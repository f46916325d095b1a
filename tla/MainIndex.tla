----------------------------- MODULE MainIndex -----------------------------
(***************************************************************************)
(* The main chain on disk and the two processes that use it.               *)
(*                                                                         *)
(* The MAIN process keeps the main chain as a file of rows, main-index,    *)
(* row n holding the position of the block with number n, and one record   *)
(* more, at row -1, holding the number of the last block.  It updates them *)
(* with one system call after another (write a row, cut the file, write    *)
(* the record), and it may be killed between any two of them.  The TX      *)
(* process, which executes the transactions of the main chain, reads the   *)
(* same file between any two of them, and may itself be killed.            *)
(*                                                                         *)
(* A row is modelled by the block it points at; blocks are never removed   *)
(* from block-data, so the pointer determines the block.                   *)
(***************************************************************************)
EXTENDS Blocks, Sequences

CONSTANTS
  Hole,        \* a row of the file that holds no position (zero bytes)
  HotDelta,    \* JINN_CONST.HOT_BLOCK_DELTA
  Batch,       \* the 100000 rows SaveChainToDBInner collects before a write
  Depth,       \* MAX_BLOCK_RECALC_DEPTH
  CheckRun,    \* consecutive good links CheckBlocksOnStartReverse asks for
  CheckBack,   \* the 5000 blocks CheckStartedBlocks steps back from there
  CheckAgain,  \* the 100 blocks its second pass steps back
  Rewind,      \* blocks the TX process undoes when it starts
  Newest,      \* the 5 newest blocks CheckActDB leaves alone
  LogRows,     \* LogRows[b]: rows of TX's log when b is the last one executed
  CheckRows,   \* the 100 rows CheckActDB looks back in that log
  MaxCrash,    \* bound: how often MAIN is killed
  MaxEarly     \* bound: calls MAIN makes in the 800 ms before its start check

ASSUME IndexAssumption ==
  /\ Hole \notin Block
  /\ HotDelta \in Nat /\ HotDelta < GenesisCount
  /\ Batch \in Nat \ {0}
  /\ Depth \in Nat
  /\ CheckRun \in Nat /\ CheckBack \in Nat /\ CheckAgain \in Nat
  /\ Rewind \in Nat /\ Newest \in Nat /\ CheckRows \in Nat
  /\ LogRows \in [Block -> Nat]
  /\ \A b \in Block : Num[b] > 0 => LogRows[b] > LogRows[Prev[b]]
  /\ MaxCrash \in Nat /\ MaxEarly \in Nat

VARIABLES
  index,    \* main-index rows: index[n] is a block or Hole
  size,     \* number of rows of the file (rows >= size do not exist)
  maxRec,   \* the record at row -1, NUM_FOR_MAX_BLOCK
  pc,       \* next system call of MAIN's running call, or "idle" or "down"
  seed,     \* the block the running call makes the end of the main chain
  at,       \* number WriteBlockMain or the bulk write is working on
  last,     \* number of the last block the running call writes
  head,     \* number of the block the running SaveChainToDB starts from,
            \*   -1 for the other calls
  lo, hi,   \* rows lo .. hi of SaveChainToDBInner are not yet written
  crashes,  \* how often MAIN was killed (bounded by MaxCrash)
  early,    \* calls left before the start check, or -1 when it has run
  applied,  \* TX: the blocks whose transactions are executed, by number from 1
  seen,     \* TX: PrevSumHash of the header RunItem has read
  rpc       \* TX: "idle", or "read" between the two reads of RunItem

mainVars == << index, size, maxRec >>
callVars == << pc, seed, at, last, head, lo, hi >>
upVars   == << crashes, early >>
txVars   == << applied, seen, rpc >>
vars     == << mainVars, callVars, upVars, txVars >>
-----------------------------------------------------------------------------
Row(n) == IF n \in Heights /\ n < size THEN index[n] ELSE Hole

(* IsExistBlockMain: the row of b's number holds b.                        *)
InMain(b) == Row(Num[b]) = b

(* GetMaxNumBlockDBInner: MAIN trusts the length of the file, a reader the *)
(* record at row -1, once the file has rows at all.                        *)
MaxNumDB == size - 1
ReaderMax == IF size = 0 THEN -1 ELSE maxRec

(* GetBlockHeaderDB in a reader process.                                   *)
ReaderRow(n) == IF n > ReaderMax THEN Hole ELSE Row(n)

(* k is the greatest number at which the chain of b is in the main chain.  *)
IsFork(b, k) ==
  /\ InMain(Anc[b][k])
  /\ \A j \in k + 1 .. Num[b] : ~InMain(Anc[b][j])
-----------------------------------------------------------------------------
MayCall == pc = "idle" /\ early # 0

Called == early' = IF early > 0 THEN early - 1 ELSE early

Begin(firstPc, b, from, upto, headNum) ==
  /\ pc' = firstPc /\ seed' = b /\ at' = from /\ last' = upto /\ head' = headNum

(* The locals of a call are gone when it returns.                          *)
Return(nextPc) ==
  Begin(nextPc, GenesisBlock(0), 0, 0, -1) /\ lo' = 0 /\ hi' = -1

(* WriteGenesisDB, called by DoSaveMain while the genesis blocks are not   *)
(* all in the main chain.                                                  *)
StartGenesis ==
  /\ MayCall /\ size < GenesisCount
  /\ Begin("put", GenesisBlock(GenesisCount - 1), 0, GenesisCount - 1, -1)
  /\ Called /\ UNCHANGED << lo, hi, crashes, mainVars, txVars >>

(* Mutant: only the block itself is written, not its missing ancestors.    *)
StartSaveToDB_NoPrevs(b) ==
  /\ MayCall /\ size >= GenesisCount
  /\ Num[b] = size
  /\ \E k \in 0 .. Num[b] : IsFork(b, k) /\ Num[b] - k < Depth
  /\ Begin("put", b, Num[b], Num[b], -1)
  /\ Called /\ UNCHANGED << lo, hi, crashes, mainVars, txVars >>

(* SaveToDBWithPrevs(b): writes b and the ancestors of b down to the first *)
(* one that is in the main chain, which must be found within Depth blocks. *)
StartSaveToDB(b) ==
  /\ MayCall /\ size >= GenesisCount
  /\ Num[b] = size
  /\ \E k \in 0 .. Num[b] :
       /\ IsFork(b, k) /\ Num[b] - k < Depth
       /\ Begin("put", b, k + 1, Num[b], -1)
  /\ Called /\ UNCHANGED << lo, hi, crashes, mainVars, txVars >>

(* SaveChainToDB(head, b), called by CheckAndSaveChainToDB.  The HotDelta  *)
(* blocks below b and b itself are written one by one, even those already  *)
(* in the main chain; what lies between head and them is written in bulk.  *)
StartSaveChain(b) ==
  LET hot == Num[b] - HotDelta IN
  /\ MayCall /\ size >= GenesisCount /\ Num[b] >= GenesisCount
  /\ \E k \in 0 .. Num[b] - 1 :
       /\ IsFork(b, k)
       /\ IF hot - 1 > k
            THEN /\ Begin("put", b, k, Num[b], k)
                 /\ lo' = k + 1 /\ hi' = hot - 1
            ELSE /\ Begin("put", b, hot, Num[b], k)
                 /\ lo' = 0 /\ hi' = -1
  /\ Called /\ UNCHANGED << crashes, mainVars, txVars >>

(* TruncateChain(n) from the control panel or after a clock change.        *)
StartTruncate(n) ==
  /\ MayCall /\ n < MaxNumDB
  /\ IF n < GenesisCount
       THEN /\ index' = [m \in Heights |-> Hole] /\ size' = 0
            /\ UNCHANGED << maxRec, pc, seed, at, last, head >>
       ELSE /\ Begin("cut", GenesisBlock(0), n, n, -1)
            /\ UNCHANGED mainVars
  /\ Called /\ UNCHANGED << lo, hi, crashes, txVars >>
-----------------------------------------------------------------------------
Pending == lo =< hi

(* The lowest row of the batch that ends with row top.                     *)
BatchLow(top) == IF top - lo >= Batch THEN top - Batch + 1 ELSE lo

(* WriteBlockMain, first system call: the check of the parent, then the    *)
(* row.  A failed check ends the call; SaveChainToDB's caller then cuts    *)
(* the main chain back to the head.                                        *)
Put ==
  /\ pc = "put"
  /\ IF at > GenesisCount /\ Row(at - 1) # Anc[seed][at - 1]
       THEN /\ IF head = -1
                 THEN Return("idle")
                 ELSE Begin("cut", seed, head, head, -1) /\ lo' = 0 /\ hi' = -1
            /\ UNCHANGED << index, size >>
       ELSE /\ index' = [index EXCEPT ![at] = Anc[seed][at]]
            /\ size' = IF at < size THEN size ELSE at + 1
            /\ pc' = "cut"
            /\ UNCHANGED << seed, at, last, head, lo, hi >>
  /\ UNCHANGED << maxRec, upVars, txVars >>

(* TruncateMain, first system call.                                        *)
Cut ==
  /\ pc = "cut"
  /\ size' = at + 1
  /\ index' = [n \in Heights |-> IF n =< at THEN index[n] ELSE Hole]
  /\ pc' = "rec"
  /\ UNCHANGED << maxRec, seed, at, last, head, lo, hi, upVars, txVars >>

(* Mutant: the record announces the end of the call at once.               *)
Rec_Early ==
  /\ pc = "rec"
  /\ maxRec' = last
  /\ IF Pending
       THEN pc' = "rows" /\ at' = BatchLow(hi) /\ UNCHANGED << seed, last, head, lo, hi >>
       ELSE IF at < last
              THEN pc' = "put" /\ at' = at + 1 /\ UNCHANGED << seed, last, head, lo, hi >>
              ELSE Return("idle")
  /\ UNCHANGED << index, size, upVars, txVars >>

(* TruncateMain, second system call: the record at row -1.  The call then  *)
(* goes on with the bulk rows, with the next block, or ends.               *)
Rec ==
  /\ pc = "rec"
  /\ maxRec' = at
  /\ IF Pending
       THEN /\ pc' = "rows"
            /\ at' = BatchLow(hi)
            /\ UNCHANGED << seed, last, head, lo, hi >>
       ELSE IF at < last
              THEN /\ pc' = "put" /\ at' = at + 1
                   /\ UNCHANGED << seed, last, head, lo, hi >>
              ELSE Return("idle")
  /\ UNCHANGED << index, size, upVars, txVars >>

(* WriteArrNumPos: one row.  The walk from the seed down hands over the    *)
(* highest Batch rows first, each batch being written from low to high;    *)
(* after the last batch SaveChainToDBInner calls TruncateMain.             *)
PutRow ==
  /\ pc = "rows"
  /\ index' = [index EXCEPT ![at] = Anc[seed][at]]
  /\ size' = IF at < size THEN size ELSE at + 1
  /\ IF at < hi
       THEN at' = at + 1 /\ UNCHANGED << pc, hi >>
       ELSE /\ hi' = BatchLow(hi) - 1
            /\ IF lo =< hi'
                 THEN at' = BatchLow(hi') /\ UNCHANGED pc
                 ELSE at' = Num[seed] - HotDelta - 1 /\ pc' = "cut"
  /\ UNCHANGED << maxRec, seed, last, head, lo, upVars, txVars >>
-----------------------------------------------------------------------------
(* MAIN is killed between two system calls.                                *)
Crash ==
  /\ pc # "down" /\ crashes < MaxCrash
  /\ crashes' = crashes + 1 /\ Return("down")
  /\ UNCHANGED << mainVars, early, txVars >>

Restart ==
  /\ pc = "down"
  /\ pc' = "idle" /\ early' = MaxEarly
  /\ UNCHANGED << mainVars, seed, at, last, head, lo, hi, crashes, txVars >>

(* CalcSumHash of row n-1 and row n agrees with row n.                     *)
GoodLink(n) ==
  /\ Row(n) # Hole /\ Row(n - 1) # Hole
  /\ Prev[Row(n)] = Row(n - 1)

(* CheckBlocksOnStartReverse returns 0, or the low end of a run of more    *)
(* than CheckRun consecutive good links: which one depends on the stride   *)
(* the scan has after bad rows.                                            *)
ReverseResults ==
  {0} \cup {n \in GenesisCount .. MaxNumDB - CheckRun :
              \A m \in n .. n + CheckRun : GoodLink(m)}

(* Mutant: the pass only looks for missing rows.                           *)
Forward_NoLinks(from) ==
  LET bad == {n \in 0 .. MaxNumDB : n >= from /\ Row(n) = Hole}
  IN IF bad = {} THEN MaxNumDB
     ELSE (CHOOSE n \in bad : \A m \in bad : n =< m) - 1

(* CheckBlocksOnStartFoward(from): the last number below the first bad     *)
(* row, or the last number of all.  The first row visited has no           *)
(* predecessor to be checked against.                                      *)
Forward(from) ==
  LET first == IF from < GenesisCount - 1 THEN GenesisCount - 1 ELSE from
      bad == {n \in first .. MaxNumDB :
                Row(n) = Hole \/ (n > first /\ ~GoodLink(n))}
  IN IF bad = {} THEN MaxNumDB
     ELSE (CHOOSE n \in bad : \A m \in bad : n =< m) - 1

(* CheckStartedBlocks, 800 ms after the start.                             *)
CheckStarted ==
  /\ pc = "idle" /\ early >= 0
  /\ \E r \in ReverseResults :
       LET once == Forward(IF r < CheckBack THEN 0 ELSE r - CheckBack)
           good == Forward(once - CheckAgain) IN
       IF good < MaxNumDB
         THEN IF good - 1 < GenesisCount
                THEN /\ index' = [m \in Heights |-> Hole] /\ size' = 0
                     /\ UNCHANGED << maxRec, pc, seed, at, last, head >>
                ELSE /\ Begin("cut", GenesisBlock(0), good - 1, good - 1, -1)
                     /\ UNCHANGED mainVars
         ELSE UNCHANGED << mainVars, pc, seed, at, last, head >>
  /\ early' = -1
  /\ UNCHANGED << lo, hi, crashes, txVars >>
-----------------------------------------------------------------------------
Tip == applied[Len(applied)]

(* DoBlock(1): the TX process starts from an empty action log.             *)
TxFirst ==
  /\ rpc = "idle" /\ applied = << >>
  /\ ReaderMax >= GenesisCount
  /\ ReaderRow(1) # Hole
  /\ applied' = << ReaderRow(1) >>
  /\ UNCHANGED << seen, rpc, mainVars, callVars, upVars >>

(* RunItem: reads the header after the last executed block and undoes that *)
(* block when the header does not link to it (DoBlock, the SumHash test).  *)
TxPeek ==
  LET n == Len(applied) + 1
      r == ReaderRow(n) IN
  /\ rpc = "idle" /\ applied # << >>
  /\ n \in Heights /\ r # Hole
  /\ IF n >= GenesisCount /\ Prev[r] # Tip
       THEN /\ applied' = SubSeq(applied, 1, Len(applied) - 1)
            /\ UNCHANGED << seen, rpc >>
       ELSE /\ seen' = Prev[r] /\ rpc' = "read"
            /\ UNCHANGED applied
  /\ UNCHANGED << mainVars, callVars, upVars >>

(* Mutant: the block read second is executed without a second test.        *)
TxApply_NoRecheck ==
  LET r == ReaderRow(Len(applied) + 1) IN
  /\ rpc = "read" /\ rpc' = "idle"
  /\ applied' = IF r # Hole THEN Append(applied, r) ELSE applied
  /\ UNCHANGED << seen, mainVars, callVars, upVars >>

(* DoBlock, second half: reads the block itself and executes it, unless    *)
(* the row was rewritten meanwhile ("DB was rewrited").                    *)
TxApply ==
  LET n == Len(applied) + 1
      r == ReaderRow(n) IN
  /\ rpc = "read"
  /\ rpc' = "idle"
  /\ IF r # Hole /\ Prev[r] = seen
       THEN applied' = Append(applied, r)
       ELSE UNCHANGED applied
  /\ UNCHANGED << seen, mainVars, callVars, upVars >>

Undo(n) == applied' = IF n =< 1 THEN << >> ELSE SubSeq(applied, 1, n - 1)

(* The TX process is killed and started: CTXProcess undoes the last blocks *)
(* (ReWriteDAppTransactions from LastBlockNum - 10).                       *)
TxRestart ==
  /\ applied # << >>
  /\ Undo(Len(applied) - Rewind + 1)
  /\ rpc' = "idle"
  /\ UNCHANGED << seen, mainVars, callVars, upVars >>

(* The row of hashes that ends block n in the log is among its last rows.  *)
InLog(n) == LogRows[Tip] - LogRows[applied[n]] =< CheckRows

(* Mutant: an off-by-one leaves one more block alone.                      *)
TxCheckAct_LeavesOneMore ==
  /\ rpc = "idle"
  /\ \E n \in 1 .. Len(applied) :
       /\ InLog(n) /\ n < ReaderMax - Newest
       /\ ReaderRow(n) # Hole /\ ReaderRow(n) # applied[n]
       /\ \A m \in 1 .. n - 1 : InLog(m) => ReaderRow(m) = applied[m]
       /\ Undo(n)
  /\ UNCHANGED << seen, rpc, mainVars, callVars, upVars >>

(* CheckActDB, once a minute: it reads the last rows of the log and undoes *)
(* the first block found there that is not in the main chain, with all     *)
(* after it.  The Newest last blocks of the main chain are left alone; a   *)
(* few busy blocks fill the rows, and then it finds nothing.               *)
TxCheckAct ==
  /\ rpc = "idle"
  /\ \E n \in 1 .. Len(applied) :
       /\ InLog(n) /\ n =< ReaderMax - Newest
       /\ ReaderRow(n) # Hole /\ ReaderRow(n) # applied[n]
       /\ \A m \in 1 .. n - 1 : InLog(m) => ReaderRow(m) = applied[m]
       /\ Undo(n)
  /\ UNCHANGED << seen, rpc, mainVars, callVars, upVars >>
-----------------------------------------------------------------------------
Init ==
  /\ index = [n \in Heights |-> Hole] /\ size = 0 /\ maxRec = -1
  /\ pc = "idle" /\ seed = GenesisBlock(0)
  /\ at = 0 /\ last = 0 /\ head = -1 /\ lo = 0 /\ hi = -1
  /\ crashes = 0 /\ early = MaxEarly
  /\ applied = << >> /\ seen = seed /\ rpc = "idle"

MainStep == Put \/ Cut \/ Rec \/ PutRow
TxStep == TxFirst \/ TxPeek \/ TxApply \/ TxCheckAct

Next ==
  \/ StartGenesis
  \/ \E b \in Block : StartSaveToDB(b) \/ StartSaveChain(b)
  \/ \E n \in Heights : StartTruncate(n)
  \/ MainStep
  \/ Crash \/ Restart \/ CheckStarted
  \/ TxStep \/ TxRestart

Spec == Init /\ [][Next]_vars
-----------------------------------------------------------------------------
(* Types of the variables.                                                 *)
TypeOK ==
  /\ index \in [Heights -> Block \cup {Hole}]
  /\ size \in 0 .. MaxNum + 1
  /\ maxRec \in -1 .. MaxNum
  /\ pc \in {"idle", "put", "cut", "rec", "rows", "down"}
  /\ seed \in Block /\ at \in Heights /\ last \in Heights
  /\ head \in -1 .. MaxNum
  /\ lo \in Int /\ hi \in Int
  /\ crashes \in 0 .. MaxCrash /\ early \in -1 .. MaxEarly
  /\ applied \in Seq(Block) /\ seen \in Block
  /\ rpc \in {"idle", "read"}

LinkedTo(top) == \A n \in 0 .. top : Row(n) # Hole /\ (n > 0 => GoodLink(n))

(* The check CheckStartedBlocks makes 800 ms after a start repairs what a   *)
(* kill in the middle of a call left (as far down as it looks): from then   *)
(* on, whenever MAIN is between calls, the rows of the file are one chain.  *)
MainLinked == pc = "idle" /\ early = -1 => LinkedTo(MaxNumDB)

(* On a file that is one chain, a call never finds at its next WriteBlock-  *)
(* Main that the block below is not the parent: the rewriting of blocks     *)
(* that are already there and the bulk rows leave the parent in place.      *)
CallNeverFails ==
  pc = "put" /\ early = -1 /\ at > GenesisCount => Row(at - 1) = Anc[seed][at - 1]

(* The blocks executed by the TX process are always one chain, whatever     *)
(* MAIN does to the file between two reads.                                 *)
ReaderLinked ==
  \A i \in 1 .. Len(applied) :
    /\ Num[applied[i]] = i
    /\ i > 1 => Prev[applied[i]] = applied[i - 1]

(* The record at row -1 hides from the readers what SaveChainToDBInner has  *)
(* not written yet: below it a reader never meets an empty row, as long as  *)
(* MAIN has not been killed between two batches.                            *)
ReaderNoHole == crashes = 0 => \A n \in 0 .. ReaderMax : n < size => index[n] # Hole

(* TX follows: if MAIN stops changing the main chain, the record at row -1  *)
(* is that of the file (a kill of MAIN right before it writes the record    *)
(* leaves it behind until the next write) and TX is not killed forever, TX  *)
(* executes as many blocks as there are.  Apart from the newest blocks      *)
(* CheckActDB leaves alone they are exactly those of the main chain, if one *)
(* of these others is in the rows of the log that it reads.  If none is, TX *)
(* stays where it is until the main chain grows above what it has executed. *)
CaughtUp ==
  LET old == {n \in 1 .. Len(applied) : n =< MaxNumDB - Newest} IN
  /\ Len(applied) >= MaxNumDB
  /\ (\E n \in old : InLog(n)) => \A n \in old : applied[n] = Row(n)

Fairness == WF_vars(MainStep) /\ WF_vars(TxFirst \/ TxPeek \/ TxApply) /\ WF_vars(TxCheckAct)
FairSpec == Spec /\ Fairness

TxFollows ==
  (<>[](pc = "idle" /\ early = -1 /\ MaxNumDB >= GenesisCount /\ maxRec = MaxNumDB)
     /\ ~([]<><<TxRestart>>_vars)) => <>[]CaughtUp
=============================================================================
