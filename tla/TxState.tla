------------------------------ MODULE TxState ------------------------------
(***************************************************************************)
(* The account state of the TX process and the log that can undo it.       *)
(*                                                                         *)
(* TX executes the blocks of the main chain one after the other.  Each     *)
(* execution leaves rows in a log (DBAct): the previous value of every     *)
(* account it changed, the number of every account it made, and last a row *)
(* with the hashes of the block and of the state.  When MAIN reorganises   *)
(* the chain, and after every start, TX takes its last blocks back with    *)
(* this log.  A log that is full becomes the previous log (DBActPrev).     *)
(*                                                                         *)
(* The files are written one row after the other, so a kill leaves any     *)
(* prefix of the writes of an operation on the disk.  An operation is      *)
(* therefore a sequence of writes here, and an action either makes all of  *)
(* them or is killed after some.                                           *)
(*                                                                         *)
(* The main chain is its last block: what TX sees while MAIN rewrites the  *)
(* file of the main chain is the subject of MainIndex.  The value of an    *)
(* account is the set of the blocks that changed it; hashes are injective. *)
(***************************************************************************)
EXTENDS Blocks, SequencesExt

CONSTANTS
  Changes,    \* Changes[b]: the accounts block b changes, if they exist
  NewCount,   \* NewCount[b]: how many accounts block b makes
  Smart,      \* the blocks that make a smart contract
  Period,     \* PERIOD_ACCOUNT_HASH
  Rollback,   \* blocks taken back at a start (10 in CTXProcess)
  CheckRows,  \* rows CheckActDB looks back (100)
  CheckLag,   \* blocks below the top CheckActDB leaves alone (5)
  LogSizes,   \* the sizes of a full log looked at
  WholeLog,   \* a size no log of a chain of Block reaches (WholeAssumption)
  MaxUpset,   \* bound: kills, failed renames and rewritings
  Zero        \* a row of zeros

ASSUME TxAssumption ==
  /\ Changes \in [Block -> SUBSET Nat] /\ NewCount \in [Block -> Nat]
  /\ Smart \subseteq Block
  /\ \A b \in Genesis : Changes[b] = {} /\ NewCount[b] = 0 /\ b \notin Smart
  /\ Period \in Nat \ {0} /\ Rollback \in Nat /\ CheckRows \in Nat /\ CheckLag \in Nat
  /\ LogSizes \subseteq Nat \ {0} /\ MaxUpset \in Nat

VARIABLES
  maxActs,  \* MAX_ACTS_LENGTH, the rows of a full log, chosen at the start
  tip,      \* the last block of the main chain
  disk,     \* state: DBState, act: DBAct, prev: DBActPrev, hash: DBAccountsHash,
            \*   smart: DBSmart; the sequence of the rows of each
  up,       \* a CTXProcess exists
  upsets    \* upsets so far (bounded by MaxUpset)

vars == << maxActs, tip, disk, up, upsets >>
-----------------------------------------------------------------------------
(* Writing a row, and truncating a file to the rows 0 .. n; rows that were *)
(* not there are zero.                                                     *)
Put(file, n, row) == [file |-> file, num |-> n, row |-> row, cut |-> FALSE]
Cut(file, n) == [file |-> file, num |-> n, row |-> Zero, cut |-> TRUE]

Resize(s, len) == [i \in 1 .. len |-> IF i =< Len(s) THEN s[i] ELSE Zero]

Write(d, w) ==
  [d EXCEPT ![w.file] =
     IF w.cut THEN Resize(@, w.num + 1)
     ELSE [Resize(@, Max({Len(@), w.num + 1})) EXCEPT ![w.num + 1] = w.row]]

(* The files after each of the writes, after all of them, and what a kill  *)
(* during the writes may leave.                                            *)
Disks(d, writes) ==
  LET disks[i \in 0 .. Len(writes)] == IF i = 0 THEN d ELSE Write(disks[i - 1], writes[i])
  IN  disks
After(d, writes) == Disks(d, writes)[Len(writes)]
Part(d, writes) == {Disks(d, writes)[i] : i \in 0 .. Len(writes) - 1}

(* All writes of an operation, with the process up or not afterwards, or   *)
(* those before a kill.                                                    *)
Do(writes, stays) ==
  \/ /\ disk' = After(disk, writes) /\ up' = stays
     /\ UNCHANGED << tip, upsets >>
  \/ /\ upsets < MaxUpset /\ upsets' = upsets + 1
     /\ disk' \in Part(disk, writes)
     /\ up' = FALSE
     /\ UNCHANGED tip

Sorted(S) == CHOOSE s \in [1 .. Cardinality(S) -> S] : \A i, j \in DOMAIN s : i < j => s[i] < s[j]
-----------------------------------------------------------------------------
(* GetLastBlockNumItem: the last row of the log.                           *)
Log(d) == IF d.act = << >> THEN d.prev ELSE d.act
LastItem(d) == Last(Log(d))
LastNum(d) == IF Log(d) = << >> THEN -1 ELSE LastItem(d).num

(* Of the rows of an account the first one decides; it has the oldest      *)
(* value.  The row of hashes counts as one of account 0.                   *)
Decides(rows, first, i) == \A j \in first .. i - 1 : rows[j].id # rows[i].id

(* DeleteActOneDB and ProcessingDeleteAct: the rows from block number n on *)
(* are undone, then the new accounts are cut off, then the rows.           *)
UndoLog(d, file, n) ==
  LET rows  == d[file]
      first == Max({0} \cup {i \in DOMAIN rows : rows[i].num < n}) + 1
      mine  == {i \in first .. Len(rows) : Decides(rows, first, i)}
      new   == {i \in mine : rows[i].mode = "new"}
      back  == Sorted({i \in mine : rows[i].mode = "old" /\ rows[i].id < Len(d.state)})
  IN [k \in DOMAIN back |-> Put("state", rows[back[k]].id, rows[back[k]].val)]
     \o (IF new = {} THEN << >> ELSE << Cut("state", rows[Min(new)].id - 1) >>)
     \o (IF mine = {} THEN << >> ELSE << Cut(file, first - 2) >>)

(* DBSmart.DeleteHistory.                                                  *)
DeleteHistory(d, n) ==
  LET keep == Max({0} \cup {i \in DOMAIN d.smart : Num[d.smart[i]] < n}) IN
  IF keep < Len(d.smart) THEN << Cut("smart", keep - 1) >> ELSE << >>

(* Mutant: the hash before the block goes with it.                         *)
DeleteBlock_HashToo(d, n) ==
  UndoLog(d, "act", n) \o UndoLog(d, "prev", n)
  \o << Cut("hash", (n \div Period) - 1) >> \o DeleteHistory(d, n)

(* BlockDeleteTX: OnDeleteBlock of the accounts, then of the smarts.       *)
DeleteBlock(d, n) ==
  UndoLog(d, "act", n) \o UndoLog(d, "prev", n)
  \o << Cut("hash", n \div Period) >> \o DeleteHistory(d, n)

(* The rows of the log for the accounts block b changes and makes.         *)
LogRows(d, b) ==
  LET len == Len(d.state)
      old == Sorted({a \in Changes[b] : a < len}) IN
  [i \in DOMAIN old |-> [id |-> old[i], num |-> Num[b], mode |-> "old", val |-> d.state[old[i] + 1]]]
  \o [i \in 1 .. NewCount[b] |-> [id |-> len + i - 1, num |-> Num[b], mode |-> "new", val |-> Zero]]

(* The new values of these accounts.                                       *)
NewValues(d, b) ==
  LET rows == LogRows(d, b) IN
  [i \in DOMAIN rows |->
     Put("state", rows[i].id, {b} \cup (IF rows[i].mode = "old" THEN rows[i].val ELSE {}))]

(* The hash of every Period-th block, and the row of hashes that ends the  *)
(* block in the log.                                                       *)
Hashes(d, b) ==
  LET n   == Num[b]
      sum == [blk |-> b, acc |-> After(d, NewValues(d, b)).state] IN
  (IF n % Period = 0 THEN << Put("hash", n \div Period, sum), Cut("hash", n \div Period) >>
   ELSE << >>)
  \o << Put("act", Len(d.act) + Len(LogRows(d, b)), [id |-> 0, num |-> n, mode |-> "sum", val |-> sum]) >>

LogWrites(d, b) ==
  LET rows == LogRows(d, b) IN [i \in DOMAIN rows |-> Put("act", Len(d.act) + i - 1, rows[i])]

(* Mutant: the new values are written before the old ones are logged.      *)
Commit_LogLast(d, b) == NewValues(d, b) \o LogWrites(d, b) \o Hashes(d, b)

(* CommitBlock.                                                            *)
Commit(d, b) == LogWrites(d, b) \o NewValues(d, b) \o Hashes(d, b)

(* BlockProcessTX: what is left of an earlier execution is taken back; a   *)
(* smart contract is written when its transaction is executed, the         *)
(* accounts are when all are.                                              *)
Execute(d, b) ==
  LET undo == DeleteBlock(d, Num[b])
      make == IF b \in Smart THEN << Put("smart", Len(After(d, undo).smart), b) >> ELSE << >>
  IN undo \o make \o Commit(After(d, undo \o make), b)

(* Mutant: the logs are emptied before the accounts.                       *)
ClearAccounts_LogFirst ==
  << Cut("act", -1), Cut("prev", -1), Cut("state", -1), Cut("hash", -1) >>
  \o [i \in 1 .. GenesisCount |-> Put("state", i - 1, {})]

(* Accounts.ClearDataBase, then Smart.ClearDataBase: as before the first   *)
(* block, with GenesisCount accounts.                                      *)
ClearAccounts ==
  << Cut("state", -1), Cut("act", -1), Cut("prev", -1), Cut("hash", -1) >>
  \o [i \in 1 .. GenesisCount |-> Put("state", i - 1, {})]
ClearDataBase == ClearAccounts \o << Cut("smart", -1), Put("smart", 0, GenesisBlock(0)) >>

(* ReWriteDAppTransactions: the blocks from number n on are taken back one *)
(* by one; when the log has no more, everything starts again.              *)
ReWrite(d, n) ==
  LET deleted[i \in Heights] ==
        IF i = 0 THEN << >>
        ELSE LET writes == deleted[i - 1]
                 x      == After(d, writes) IN
             IF LastNum(x) < Max({n, 1}) THEN writes ELSE writes \o DeleteBlock(x, LastNum(x))
      all == deleted[MaxNum]
  IN IF LastNum(After(d, all)) =< 0 THEN all \o ClearDataBase ELSE all
-----------------------------------------------------------------------------
(* The process starts: what a kill has left of the first files is cleared. *)
StartApps(d) ==
  (IF Len(d.state) < GenesisCount THEN ClearAccounts ELSE << >>)
  \o (IF d.smart = << >> THEN << Put("smart", 0, GenesisBlock(0)) >> ELSE << >>)

(* The constructor gives up: accounts, but no log.                         *)
ErrorInit(d) == LastNum(d) =< 0 /\ Len(d.state) - 1 > GenesisCount

(* Mutant: the last blocks are not taken back.                             *)
Start_NoRollback ==
  /\ ~up /\ ~ErrorInit(After(disk, StartApps(disk)))
  /\ Do(StartApps(disk), TRUE)

(* CTXProcess is constructed: the last blocks are taken back.              *)
CanStart == ~up /\ ~ErrorInit(After(disk, StartApps(disk)))
Start ==
  LET apps == StartApps(disk)
      d    == After(disk, apps) IN
  /\ CanStart
  /\ Do(apps \o ReWrite(d, LastNum(d) - Rollback), TRUE)

(* RunItem with an empty log: block 1, without checks.                     *)
IsFirst == up /\ Log(disk) = << >> /\ Num[tip] >= GenesisCount
TxFirst ==
  /\ IsFirst
  /\ Do(Execute(disk, Anc[tip][1]), TRUE)

(* The block after the last one executed does not follow it, or the state  *)
(* is not the one the last block has left.                                 *)
Next1 == Anc[tip][LastNum(disk) + 1]
Broken ==
  LET item == LastItem(disk) IN
  /\ Num[Next1] >= GenesisCount
  /\ item.mode # "sum" \/ item.val.blk # Prev[Next1] \/ item.val.acc # disk.state

HasNext == up /\ Log(disk) # << >> /\ LastNum(disk) < Num[tip]

(* DoBlock takes the last block back, or executes the next one.            *)
TxUndo == HasNext /\ Broken /\ Do(DeleteBlock(disk, LastNum(disk)), TRUE)
TxNext == HasNext /\ ~Broken /\ Do(Execute(disk, Next1), TRUE)

(* Mutant: only the last block is looked at.                               *)
OffMain_TopOnly ==
  {i \in {Len(disk.act)} \ {0} :
     LET row == disk.act[i] IN
     row.mode = "sum" /\ row.num =< Num[tip] - CheckLag /\ Anc[tip][row.num] # row.val.blk}

(* CheckActDB, every minute: the lowest block whose row of hashes is among *)
(* the last rows and that is not in the main chain is taken back with all  *)
(* above it.  The rows of one busy block can be all it looks at.           *)
OffMain ==
  {i \in Max({1, Len(disk.act) - CheckRows}) .. Len(disk.act) :
     LET row == disk.act[i] IN
     row.mode = "sum" /\ row.num =< Num[tip] - CheckLag /\ Anc[tip][row.num] # row.val.blk}
TxCheckAct ==
  /\ up /\ OffMain # {}
  /\ Do(ReWrite(disk, disk.act[Min(OffMain)].num), TRUE)

(* A wish from outside: it counts as an upset, whether it is killed or not. *)
OnDemand(writes) ==
  /\ upsets < MaxUpset /\ upsets' = upsets + 1
  /\ \/ disk' = After(disk, writes) /\ UNCHANGED up
     \/ disk' \in Part(disk, writes) /\ up' = FALSE
  /\ UNCHANGED tip

(* CheckBadsBlock and ReWriteDAppTransactions from the control panel: the  *)
(* blocks from n on are executed again.                                    *)
TxRewrite(n) == up /\ OnDemand(ReWrite(disk, n))

(* RewriteAllTransactions from the control panel.                          *)
TxRewriteAll == OnDemand(ClearDataBase)

(* TX is killed between two operations.                                    *)
Kill ==
  /\ up /\ upsets < MaxUpset /\ upsets' = upsets + 1
  /\ up' = FALSE
  /\ UNCHANGED << tip, disk >>

(* What the log has forgotten of the executed chain is in the chain of b,  *)
(* and so is the first block it remembers.                                 *)
Remembers(d, b) ==
  LET rows == d.prev \o d.act
      sums == {i \in DOMAIN rows : rows[i].mode = "sum"} IN
  sums # {} =>
    LET low == rows[Min(sums)] IN low.num > 1 => Anc[b][low.num] = low.val.blk /\ Num[b] >= low.num

(* ControlActSize: a full log becomes the previous log.  After a kill or   *)
(* an error between the two renames there is no previous log.              *)
Rotate ==
  LET full == [disk EXCEPT !.prev = disk.act, !.act = << >>]
      half == [disk EXCEPT !.prev = << >>] IN
  /\ up /\ Len(disk.act) > maxActs
  /\ Remembers(full, tip)
  /\ \/ disk' = full /\ UNCHANGED << up, upsets >>
     \/ /\ upsets < MaxUpset /\ upsets' = upsets + 1
        /\ disk' = half /\ up' \in BOOLEAN
  /\ UNCHANGED tip

(* MAIN extends, truncates or reorganises the main chain; not below what   *)
(* the log remembers, which is millions of rows in the code.               *)
MainChange ==
  /\ tip' \in Block \ {tip} /\ Num[tip'] >= GenesisCount
  /\ Remembers(disk, tip')
  /\ UNCHANGED << disk, up, upsets >>
-----------------------------------------------------------------------------
Empty == [state |-> << >>, act |-> << >>, prev |-> << >>, hash |-> << >>, smart |-> << >>]

Init ==
  /\ maxActs \in LogSizes
  /\ tip = GenesisBlock(GenesisCount - 1)
  /\ disk = Empty
  /\ up = FALSE
  /\ upsets = 0

TxStep == TxFirst \/ TxUndo \/ TxNext

Next ==
  /\ UNCHANGED maxActs
  /\ \/ Start \/ TxStep \/ TxCheckAct
     \/ \E n \in Heights : TxRewrite(n)
     \/ TxRewriteAll
     \/ Kill \/ Rotate \/ MainChange

Spec == Init /\ [][Next]_vars

(* MAIN restarts a child process that has ended and its timers keep        *)
(* running: weak fairness of Start, TxStep and TxCheckAct, with their      *)
(* guards spelled out.                                                     *)
Fairness ==
  /\ []<>~CanStart \/ []<><<Start>>_vars
  /\ []<>~(IsFirst \/ HasNext) \/ []<><<TxStep>>_vars
  /\ []<>~(up /\ OffMain # {}) \/ []<><<TxCheckAct>>_vars

FairSpec == Spec /\ Fairness
-----------------------------------------------------------------------------
(* The state the blocks of the chain of b lead to, from its definition.    *)
Chain(b) == {Anc[b][n] : n \in 1 .. Num[b]}
AccountsOf(b) ==
  LET count[n \in Heights] == IF n = 0 THEN GenesisCount ELSE count[n - 1] + NewCount[Anc[b][n]]
  IN  count[Num[b]]

(* A block leaves at most a row for every account there is, and the row of *)
(* hashes.                                                                 *)
ASSUME WholeAssumption == \A b \in Block : Num[b] * (AccountsOf(b) + 1) =< WholeLog

Touches(c, a) == IF a < AccountsOf(Prev[c]) THEN a \in Changes[c] ELSE a < AccountsOf(c)
Replay(b) == [i \in 1 .. AccountsOf(b) |-> {c \in Chain(b) : Touches(c, i - 1)}]
Smarts(b) ==
  LET nums == Sorted({n \in 1 .. Num[b] : Anc[b][n] \in Smart})
  IN << GenesisBlock(0) >> \o [i \in DOMAIN nums |-> Anc[b][nums[i]]]

Executed == IF Log(disk) = << >> THEN GenesisBlock(0) ELSE LastItem(disk).val.blk

(* The rows of a log are what CommitBlock writes.                          *)
Rows == [id : Nat, num : Heights \ {0}, mode : {"old"}, val : SUBSET Block]
        \cup [id : Nat, num : Heights \ {0}, mode : {"new"}, val : {Zero}]
IsSum(r) == r.id = 0 /\ r.mode = "sum" /\ r.val.blk \in Block /\ r.num = Num[r.val.blk]
TypeOK ==
  /\ maxActs \in LogSizes
  /\ tip \in Block /\ up \in BOOLEAN /\ upsets \in 0 .. MaxUpset
  /\ \A f \in {"act", "prev"} : \A i \in DOMAIN disk[f] : disk[f][i] \in Rows \/ IsSum(disk[f][i])
  /\ \A i \in DOMAIN disk.state : disk.state[i] \subseteq Block
  /\ \A i \in DOMAIN disk.smart : disk.smart[i] \in Block

(* Between two operations the accounts and the smart contracts are what    *)
(* the chain of the last executed block leads to from the initial state,   *)
(* whatever was taken back, in which order, from which of the two logs,    *)
(* and wherever the process was killed while it executed or took back      *)
(* (CommitBlock, DeleteAct, ClearDataBase).                                *)
StateIsReplay ==
  up => disk.state = Replay(Executed) /\ disk.smart = Smarts(Executed)

(* The hashes of the state that go into the chain (GetDAppTransactions)    *)
(* are those of the executed chain: row k is the state after block         *)
(* k * Period, for every such block that is executed.                      *)
HashesOfChain ==
  up => \A k \in 1 .. MaxNum : k * Period =< Num[Executed] =>
          LET b == Anc[Executed][k * Period] IN
          k < Len(disk.hash) /\ disk.hash[k + 1] = [blk |-> b, acc |-> Replay(b)]

(* As long as the log goes back to the first block, no kill leaves files   *)
(* from which a start cannot go on: CTXProcess gives up only when there    *)
(* are accounts and no log, and it would for ever.                         *)
NeverStuck == maxActs = WholeLog => up \/ ~ErrorInit(After(disk, StartApps(disk)))

(* TX has executed as much as MAIN has, and may only differ in the last    *)
(* CheckLag blocks, which the next block of the main chain will show.  If  *)
(* no older block ends in the rows CheckActDB looks at, it may differ in   *)
(* more, until the main chain grows above what TX has executed.            *)
EndsInLastRows(n) ==
  \E back \in 0 .. CheckRows :
    LET rows == disk.act IN
    /\ back < Len(rows)
    /\ rows[Len(rows) - back].mode = "sum" /\ rows[Len(rows) - back].num =< n

CaughtUp ==
  Num[tip] >= GenesisCount =>
    /\ up /\ Num[Executed] >= Num[tip]
    /\ EndsInLastRows(Num[tip] - CheckLag) =>
         Anc[Executed][Num[tip] - CheckLag] = Anc[tip][Num[tip] - CheckLag]

(* Once MAIN leaves the chain alone TX catches up with it, wherever it was *)
(* killed, as long as the log goes back to the first block: no rollback    *)
(* runs for ever or stops half way.                                        *)
TxCatchesUp == maxActs = WholeLog /\ <>[][FALSE]_tip => <>[]CaughtUp
=============================================================================
