------------------------------ MODULE Accounts ------------------------------
(***************************************************************************)
(* What a block does to the accounts: its transactions one after the       *)
(* other, each of which may fail in the middle, then the reward, then the  *)
(* writing of all that has changed, and how a block is taken back.         *)
(*                                                                         *)
(* A transaction works on copies of the accounts (TRMap).  They replace    *)
(* those of the block (BlockMap) when the transaction succeeds, and these  *)
(* go to the file when the block ends.  The log gets the previous value of *)
(* every account that has changed; the history of each account is a list   *)
(* of its payments, from the last one back.                                *)
(*                                                                         *)
(* All this runs in one process without interruption; what a kill between  *)
(* two writes leaves is the subject of TxState.                            *)
(***************************************************************************)
EXTENDS Coins, Sequences, FiniteSetsExt

CONSTANTS
  Tx,             \* the transactions blocks can contain
  GenesisRows,    \* the accounts before the first block
  GenesisSmarts,  \* and the smart contracts
  FirstOwned,     \* the first account that can be rewarded (8)
  Developer,      \* the account that gets a part of each reward (9)
  Share,          \* that part is one Share-th (100)
  Reward,         \* a reward
  Price,          \* what a new account costs, in coins
  TokenPrice,     \* what a new token costs, in coins
  StartValue,     \* how many coins of it there are
  StartHistory,   \* accounts from this one on have a history
  MaxAhead,       \* how far a transaction number may be ahead
  Sink,           \* the account a forwarding contract sends to
  Miners,         \* the accounts the blocks of the chain name
  Key,            \* public keys
  NoKey,          \* none of them
  MaxNum,         \* bound: numbers of blocks
  MaxTx,          \* bound: transactions of a block
  MaxUndo         \* bound: blocks taken back

(* A row of an account, a transaction, a payment of a history, a contract. *)
AnyKey == Key \cup {NoKey}
Row == [cur : Nat, key : AnyKey, smart : Nat, born : Nat, coin : Coin, op : Nat, pos : Nat]
Receiver == [id : Nat, sum : [coin : Nat, cent : Nat], key : AnyKey]
Transaction ==
  [type : {"transfer", "create"}, ver : Nat, from : Nat, op : Nat, to : Seq(Receiver), signer : AnyKey,
   cur : Nat, key : AnyKey, smart : Nat, body : {"none", "account", "token"}]
Paying == [id : Nat, amount : Int]
Contract == [kind : {"plain", "token", "forward", "refuse"}, num : Nat, account : Nat]

ASSUME AccountsAssumption ==
  /\ Tx \subseteq Transaction
  /\ GenesisRows \in Seq(Row) /\ GenesisSmarts \in Seq(Contract) /\ GenesisSmarts # << >>
  /\ \A i \in DOMAIN GenesisRows : GenesisRows[i].pos = 0 /\ GenesisRows[i].smart < Len(GenesisSmarts)
  /\ \A i \in DOMAIN GenesisSmarts : GenesisSmarts[i].num = 0
  /\ {FirstOwned, StartHistory} \subseteq 0 .. Len(GenesisRows)
  /\ {Developer, Sink} \subseteq 0 .. Len(GenesisRows) - 1
  /\ GenesisRows[1].cur = 0 /\ GenesisRows[Developer + 1].cur = 0 /\ Miners \subseteq Nat
  /\ Reward \in Coin /\ Share \in Nat \ {0} /\ {Price, TokenPrice, StartValue} \subseteq Nat
  /\ MaxAhead \in Nat /\ {MaxNum, MaxTx, MaxUndo} \subseteq Nat

VARIABLES
  state,   \* DBState and DBStateHistory: the row of each account
  hist,    \* the file of payments
  log,     \* DBAct
  smarts,  \* DBSmart
  chg,     \* DBChanges, CreateTrCount and the block being executed
  done,    \* the transactions the executed blocks contain and that succeeded
  undos,   \* blocks taken back so far (bounded by MaxUndo)
  remade   \* a block has changed an account that an earlier transaction of it made

vars == << state, hist, log, smarts, chg, done, undos, remade >>

Idle == [on |-> FALSE, num |-> 0, map |-> << >>, max |-> 0, hist |-> << >>, made |-> FALSE, count |-> 0]
Blank == [cur |-> 0, key |-> NoKey, smart |-> 0, born |-> 0, coin |-> NoCoin, op |-> 0, pos |-> 0]
-----------------------------------------------------------------------------
(* A transaction at work: TRMap, TRMaxAccount, TRHistory, and whether it   *)
(* has gone well so far.                                                   *)
BeginTransaction ==
  [map |-> << >>, max |-> chg.max, hist |-> << >>, smarts |-> smarts, made |-> chg.made, ok |-> TRUE]
Fail(tr) == [tr EXCEPT !.ok = FALSE]

Exists(tr, id) == id \in DOMAIN tr.map \cup DOMAIN chg.map \/ id < Len(state)

(* ReadStateTR copies what the block has, but not that it made the account. *)
Entry(tr, id) ==
  IF id \in DOMAIN tr.map THEN tr.map[id]
  ELSE IF id \in DOMAIN chg.map THEN [chg.map[id] EXCEPT !.new = FALSE, !.changed = FALSE]
  ELSE [row |-> state[id + 1], back |-> state[id + 1], new |-> FALSE, changed |-> FALSE]
ReadStateTR(tr, id) == Entry(tr, id).row

With(map, id, entry) == [i \in DOMAIN map \cup {id} |-> IF i = id THEN entry ELSE map[i]]
Keep(tr, id, row) == [tr EXCEPT !.map = With(@, id, [Entry(tr, id) EXCEPT !.row = row])]
WriteStateTR(tr, id, row) ==
  [tr EXCEPT !.map = With(@, id, [Entry(tr, id) EXCEPT !.row = row, !.changed = TRUE])]

NewAccountTR(tr, row) ==
  [tr EXCEPT !.max = @ + 1,
             !.map = With(@, tr.max + 1, [row |-> row, back |-> Blank, new |-> TRUE, changed |-> TRUE])]

Payment(tr, id, amount) ==
  IF id < StartHistory THEN tr ELSE [tr EXCEPT !.hist = Append(@, [id |-> id, amount |-> amount])]

(* SendMoneyTR up to the calls of contracts.                               *)
Move(tr, from, to, sum, ops) ==
  LET rest == SUB(ReadStateTR(tr, from).coin, sum)
      t1   == Payment(WriteStateTR(tr, from, [ReadStateTR(tr, from) EXCEPT !.coin = rest]),
                      from, -Worth(sum))
      t2   == Payment(WriteStateTR(t1, to, [ReadStateTR(t1, to) EXCEPT !.coin = ADD(@, sum)]),
                      to, Worth(sum))
  IN IF Exists(tr, from) /\ Exists(tr, to) /\ IsEnough(rest)
       THEN Keep(t2, from, [ReadStateTR(t2, from) EXCEPT !.op = @ + ops])
       ELSE Fail(tr)

(* The method OnGet of the contract of the receiver: one that sends on     *)
(* what it gets ($Send), one that throws, or none.                         *)
OnGet(tr, to, sum) ==
  LET kind == tr.smarts[ReadStateTR(tr, to).smart + 1].kind IN
  IF kind = "refuse" THEN Fail(tr)
  ELSE IF kind # "forward" THEN tr
  ELSE IF ReadStateTR(tr, to).cur # ReadStateTR(tr, Sink).cur THEN Fail(tr)
  ELSE Move(tr, to, Sink, sum, 1)

SendMoneyTR(tr, from, to, sum, ops) ==
  LET t == IF tr.ok THEN Move(tr, from, to, sum, ops) ELSE tr
  IN IF t.ok THEN OnGet(t, to, sum) ELSE t
-----------------------------------------------------------------------------
(* TRTransferMoney.  Before version 3 a transaction pays each receiver     *)
(* once, and not its sender.                                               *)
Skips(tx, i) ==
  tx.ver < 3 /\ (tx.to[i].id = tx.from \/ \E j \in 1 .. i - 1 : tx.to[j].id = tx.to[i].id)
Paid(tx) == {i \in DOMAIN tx.to : ~Skips(tx, i)}
Total(tx) ==
  LET sum[i \in 0 .. Len(tx.to)] ==
        IF i = 0 THEN NoCoin ELSE IF i \in Paid(tx) THEN ADD(sum[i - 1], tx.to[i].sum) ELSE sum[i - 1]
  IN sum[Len(tx.to)]

RightNumber(tx, data) ==
  IF tx.ver < 3 THEN tx.op = data.op ELSE tx.op \in data.op .. data.op + MaxAhead

CanPay(tr, tx) ==
  LET data == ReadStateTR(tr, tx.from) IN
  /\ Exists(tr, tx.from)
  /\ tx.ver < 3 => tx.cur = data.cur
  /\ RightNumber(tx, data)
  /\ tx.body = "none" \/ Len(tx.to) =< 1
  /\ \A i \in DOMAIN tx.to : tx.to[i].sum \in Coin
  /\ tx.ver < 3 => Paid(tx) # {} /\ Total(tx) # NoCoin
  /\ ~LessThan(data.coin, Total(tx))

(* A payment to account 0 with a key makes an account.                     *)
MakesAccount(tx, i) == tx.ver = 3 /\ tx.to[i].id = 0 /\ tx.to[i].key # NoKey

PayNew(tr, tx, i) ==
  LET t == NewAccountTR(tr, [Blank EXCEPT !.key = tx.to[i].key])
      s == SendMoneyTR(t, tx.from, t.max, tx.to[i].sum, 1)
  IN IF tx.to[i].sum.coin < Price THEN Fail(tr)
     ELSE SendMoneyTR(s, t.max, 0, [NoCoin EXCEPT !.coin = Price], 1)

(* One receiver.                                                           *)
Pay(tr, tx, i) ==
  LET to == tx.to[i].id IN
  IF ~tr.ok \/ ~Exists(tr, to) THEN Fail(tr)
  ELSE IF Total(tx) # NoCoin /\ ReadStateTR(tr, tx.from).cur # ReadStateTR(tr, to).cur THEN Fail(tr)
  ELSE IF ReadStateTR(tr, to).smart # 0 /\ Len(tx.to) > 1 THEN Fail(tr)
  ELSE IF MakesAccount(tx, i) THEN PayNew(tr, tx, i)
  ELSE IF Skips(tx, i) THEN tr
  ELSE SendMoneyTR(tr, tx.from, to, tx.to[i].sum, 0)

(* TRCreateAccount: once in a block, unless it is paid for.                *)
PaidFor(tx, price) == Len(tx.to) = 1 /\ tx.to[1].id = 0 /\ ~MakesAccount(tx, 1) /\ tx.to[1].sum.coin >= price

TRCreateAccount(tr, tx, isPaid) ==
  IF tr.made /\ ~isPaid THEN Fail(tr)
  ELSE [NewAccountTR(tr, [Blank EXCEPT !.key = tx.key, !.cur = tx.cur, !.smart = tx.smart])
          EXCEPT !.made = TRUE]

(* TRCreateSmart of a token: the contract goes to its file at once.        *)
TRCreateSmart(tr, tx) ==
  IF ~PaidFor(tx, TokenPrice) THEN Fail(tr)
  ELSE LET num == Len(tr.smarts) IN
    [NewAccountTR(tr, [Blank EXCEPT !.key = ReadStateTR(tr, tx.from).key, !.cur = num, !.smart = num,
                                    !.coin = [NoCoin EXCEPT !.coin = StartValue]])
       EXCEPT !.smarts = Append(@, [kind |-> "token", num |-> chg.num, account |-> tr.max + 1])]

(* The transaction in the body of a transfer.                              *)
InBody(tr, tx) ==
  CASE tx.body = "none" -> tr
    [] tx.body = "account" -> TRCreateAccount(tr, tx, PaidFor(tx, Price))
    [] tx.body = "token" -> TRCreateSmart(tr, tx)

(* The sender gets the number op, and the receivers are paid one after the *)
(* other.                                                                  *)
PayAll(tr, tx, op) ==
  LET paid[i \in 0 .. Len(tx.to)] ==
        IF i = 0 THEN Keep(tr, tx.from, [ReadStateTR(tr, tx.from) EXCEPT !.op = op])
        ELSE Pay(paid[i - 1], tx, i)
  IN paid[Len(tx.to)]

(* Mutant: the number of the sender grows by one only.                     *)
TRTransferMoney_NextOp(tr, tx) ==
  LET data == ReadStateTR(tr, tx.from)
      paid == PayAll(tr, tx, data.op + 1)
  IN IF ~CanPay(tr, tx) THEN Fail(tr)
     ELSE IF ~paid.ok \/ data.key = NoKey \/ tx.signer # data.key THEN Fail(paid)
     ELSE InBody(paid, tx)

(* The number of the sender becomes that of the transaction plus one.  The *)
(* signature is looked at last.                                            *)
TRTransferMoney(tr, tx) ==
  LET data == ReadStateTR(tr, tx.from)
      paid == PayAll(tr, tx, tx.op + 1)
  IN IF ~CanPay(tr, tx) THEN Fail(tr)
     ELSE IF ~paid.ok \/ data.key = NoKey \/ tx.signer # data.key THEN Fail(paid)
     ELSE InBody(paid, tx)

OnProcessTransaction(tx) ==
  IF tx.type = "create" THEN TRCreateAccount(BeginTransaction, tx, FALSE)
  ELSE TRTransferMoney(BeginTransaction, tx)
-----------------------------------------------------------------------------
(* OnWriteNewAccountTR: a contract or a currency that does not exist is 0. *)
Registered(tr, row) ==
  LET number(k) == IF k < Len(tr.smarts) THEN k ELSE 0
      cur       == number(row.cur)
  IN [row EXCEPT !.born = chg.num, !.smart = number(@),
                 !.cur = IF tr.smarts[cur + 1].kind = "token" THEN cur ELSE 0]

Changed(tr) == {id \in DOMAIN tr.map : tr.map[id].changed}
Merged(tr) ==
  [id \in DOMAIN chg.map \cup Changed(tr) |->
     IF id \notin Changed(tr) THEN chg.map[id]
     ELSE IF tr.map[id].new THEN [tr.map[id] EXCEPT !.row = Registered(tr, @)] ELSE tr.map[id]]

(* Mutant: a transaction that fails has used its account numbers up.       *)
CommitTransaction_KeepMax(tr) ==
  IF ~tr.ok THEN [chg EXCEPT !.made = tr.made, !.max = tr.max]
  ELSE [chg EXCEPT !.map = Merged(tr), !.max = tr.max, !.hist = @ \o tr.hist, !.made = tr.made]

(* CommitTransaction; after RollBackTransaction nothing is kept but the    *)
(* count of created accounts.                                              *)
CommitTransaction(tr) ==
  IF ~tr.ok THEN [chg EXCEPT !.made = tr.made]
  ELSE [chg EXCEPT !.map = Merged(tr), !.max = tr.max, !.hist = @ \o tr.hist, !.made = tr.made]

(* DoCoinBaseTR.                                                           *)
CoinBase(miner) ==
  LET tr  == BeginTransaction
      t   == SendMoneyTR(tr, 0, miner, Reward, 1)
      dev == DIV(Reward, Share)
  IN IF miner < FirstOwned \/ ~Exists(tr, miner) THEN tr
     ELSE IF \/ ReadStateTR(tr, miner).cur # 0 \/ ReadStateTR(tr, miner).born >= chg.num
             \/ ReadStateTR(tr, 0).coin.coin = 0 THEN tr
     ELSE IF dev = NoCoin THEN t
     ELSE SendMoneyTR(t, 0, Developer, dev, 1)

(* Mutant: the list of an account starts again in every block.             *)
SaveHistory_NoLink(x, p) ==
  [hist |-> Append(x.hist, [id |-> p.id, amount |-> p.amount, next |-> state[1].pos]),
   map  |-> [x.map EXCEPT ![p.id].row.pos = Len(x.hist) + 1]]

(* SaveHistory of a payment: it is put in front of the list of its account. *)
SaveHistory(x, p) ==
  [hist |-> Append(x.hist, [id |-> p.id, amount |-> p.amount, next |-> x.map[p.id].row.pos]),
   map  |-> [x.map EXCEPT ![p.id].row.pos = Len(x.hist) + 1]]

WithHistory(c) ==
  LET saved[k \in 0 .. Len(c.hist)] ==
        IF k = 0 THEN [hist |-> hist, map |-> c.map] ELSE SaveHistory(saved[k - 1], c.hist[k])
  IN saved[Len(c.hist)]

(* What GetCalcHash commits to: all rows, but not where the history is.    *)
CalcHash(rows) == [i \in DOMAIN rows |-> [rows[i] EXCEPT !.pos = 0]]

(* The rows of the log for the accounts the block has changed, in order.   *)
LogRows(c) ==
  LET rows[i \in 0 .. c.max + 1] ==
        IF i = 0 THEN << >>
        ELSE IF i - 1 \notin DOMAIN c.map THEN rows[i - 1]
        ELSE Append(rows[i - 1], [num |-> c.num, id |-> i - 1, mode |-> IF c.map[i - 1].new THEN "new" ELSE "old",
                                  val |-> c.map[i - 1].back, hash |-> << >>])
  IN rows[c.max + 1]

(* CommitBlock.                                                            *)
CommitBlock(c) ==
  LET saved == WithHistory(c)
      rows  == [i \in 1 .. c.max + 1 |->
                  IF i - 1 \in DOMAIN c.map THEN saved.map[i - 1].row ELSE state[i]]
  IN /\ hist' = saved.hist
     /\ state' = rows
     /\ log' = log \o LogRows(c)
               \o << [num |-> c.num, id |-> 0, mode |-> "sum", val |-> Blank, hash |-> CalcHash(rows)] >>
     /\ chg' = Idle
-----------------------------------------------------------------------------
LastNum == IF log = << >> THEN 0 ELSE log[Len(log)].num

(* OnProcessBlockStart of the next block.                                  *)
BlockStart ==
  /\ ~chg.on /\ LastNum < MaxNum
  /\ chg' = [Idle EXCEPT !.on = TRUE, !.num = LastNum + 1, !.max = Len(state) - 1]
  /\ UNCHANGED << state, hist, log, smarts, done, undos, remade >>

(* One transaction of the block (BlockProcessTX).                          *)
RunTx(tx) ==
  LET tr == OnProcessTransaction(tx) IN
  /\ chg.on /\ chg.count < MaxTx
  /\ chg' = [CommitTransaction(tr) EXCEPT !.count = @ + 1]
  /\ smarts' = tr.smarts
  /\ done' = IF tr.ok THEN Append(done, [num |-> chg.num, tx |-> tx]) ELSE done
  /\ remade' = \/ remade
               \/ tr.ok /\ \E id \in Changed(tr) \cap DOMAIN chg.map : chg.map[id].new
  /\ UNCHANGED << state, hist, log, undos >>

(* OnProcessBlockFinish of a block of this miner.                          *)
BlockFinish(miner) ==
  /\ chg.on
  /\ CommitBlock(CommitTransaction(CoinBase(miner)))
  /\ UNCHANGED << smarts, done, undos, remade >>

(* Mutant: one account too few is cut off.                                 *)
Undone_CutLess(rows) ==
  LET first == Min({i \in DOMAIN log : log[i].num = LastNum})
      mine  == first .. Len(log) - 1
      new   == {log[i].id : i \in {j \in mine : log[j].mode = "new"}}
      old   == {j \in mine : log[j].mode = "old"}
      Back(id, row) ==
        LET v == log[CHOOSE j \in old : log[j].id = id].val IN
        [row EXCEPT !.coin = v.coin, !.op = v.op, !.smart = v.smart, !.pos = v.pos]
  IN [i \in 1 .. (IF new = {} THEN Len(rows) ELSE Min(new) + 1) |->
        IF \E j \in old : log[j].id = i - 1 THEN Back(i - 1, rows[i]) ELSE rows[i]]

(* ProcessingDeleteAct of the last block: previous values are put back,    *)
(* then the accounts from the first new one on are cut off.                *)
Undone(rows) ==
  LET first == Min({i \in DOMAIN log : log[i].num = LastNum})
      mine  == first .. Len(log) - 1
      new   == {log[i].id : i \in {j \in mine : log[j].mode = "new"}}
      old   == {j \in mine : log[j].mode = "old"}
      Back(id, row) ==
        LET v == log[CHOOSE j \in old : log[j].id = id].val IN
        [row EXCEPT !.coin = v.coin, !.op = v.op, !.smart = v.smart, !.pos = v.pos]
  IN [i \in 1 .. (IF new = {} THEN Len(rows) ELSE Min(new)) |->
        IF \E j \in old : log[j].id = i - 1 THEN Back(i - 1, rows[i]) ELSE rows[i]]

(* What a file has of the blocks before the last one.                      *)
Before(rows) == SubSeq(rows, 1, Max({0} \cup {i \in DOMAIN rows : rows[i].num < LastNum}))

(* BlockDeleteTX of the last block.                                        *)
DeleteBlock ==
  /\ ~chg.on /\ log # << >> /\ undos < MaxUndo
  /\ undos' = undos + 1
  /\ state' = Undone(state)
  /\ log' = Before(log) /\ smarts' = Before(smarts) /\ done' = Before(done)
  /\ UNCHANGED << hist, chg, remade >>
-----------------------------------------------------------------------------
Init ==
  /\ state = GenesisRows /\ smarts = GenesisSmarts
  /\ hist = << >> /\ log = << >> /\ done = << >>
  /\ chg = Idle
  /\ undos = 0 /\ remade = FALSE

Next ==
  \/ BlockStart
  \/ \E tx \in Tx : RunTx(tx)
  \/ \E miner \in Miners : BlockFinish(miner)
  \/ DeleteBlock

Spec == Init /\ [][Next]_vars
-----------------------------------------------------------------------------
(* The accounts as the transactions of the block being executed see them.  *)
Top == IF chg.on THEN chg.max ELSE Len(state) - 1
Account(id) == IF id \in DOMAIN chg.map THEN chg.map[id].row ELSE state[id + 1]

Rows == [i \in 1 .. Top + 1 |-> Account(i - 1)]

Item == [row : Row, back : Row, new : BOOLEAN, changed : BOOLEAN]
LogRow == [num : Nat, id : Nat, mode : {"old", "new", "sum"}, val : Row, hash : Seq(Row)]
TypeOK ==
  /\ state \in Seq(Row) /\ log \in Seq(LogRow) /\ smarts \in Seq(Contract)
  /\ hist \in Seq([id : Nat, amount : Int, next : Nat])
  /\ chg.on \in BOOLEAN /\ chg.made \in BOOLEAN /\ {chg.num, chg.max, chg.count} \subseteq Nat
  /\ chg.map \in [DOMAIN chg.map -> Item] /\ chg.hist \in Seq(Paying)
  /\ done \in Seq([num : Nat, tx : Tx]) /\ undos \in 0 .. MaxUndo /\ remade \in BOOLEAN

(* What the accounts of a currency hold together, and what was issued.     *)
SumOf(list) ==
  LET sum[i \in 0 .. Len(list)] == IF i = 0 THEN 0 ELSE sum[i - 1] + list[i] IN sum[Len(list)]
Held(rows, cur) == SumOf([i \in 1 .. Len(rows) |-> IF rows[i].cur = cur THEN Worth(rows[i].coin) ELSE 0])
Issued(cur) ==
  Held(GenesisRows, cur)
    + (IF cur + 1 \in DOMAIN smarts /\ smarts[cur + 1].num > 0 THEN StartValue * Cents ELSE 0)

(* No transaction, failed in the middle or not, no contract that sends     *)
(* money on, no reward and no block taken back makes or loses money: the   *)
(* accounts of a currency hold together what was issued of it.             *)
SupplyKept == \A cur \in 0 .. Len(smarts) - 1 : Held(Rows, cur) = Issued(cur)

(* No account is ever overdrawn, and its cents are less than a coin: the   *)
(* test of TRTransferMoney covers everything the transaction then pays,    *)
(* fees, receivers that are the sender, and receivers named twice.         *)
NoOverdraft == \A id \in 0 .. Top : Account(id).coin \in Coin

(* A transfer that pays somebody is executed at most once in a chain,      *)
(* whatever numbers were left out between those of its sender.             *)
OnceOnly ==
  \A i, j \in DOMAIN done :
    i < j /\ done[i].tx = done[j].tx => done[i].tx.type = "create" \/ done[i].tx.to = << >>

(* Accounts are numbered without a gap, whatever transactions made         *)
(* accounts and failed (NewAccountTR, TRMaxAccount).                       *)
NumbersDense == chg.on => 0 .. chg.max \subseteq (0 .. Len(state) - 1) \cup DOMAIN chg.map

Start(id) ==
  IF id < Len(GenesisRows) THEN Worth(GenesisRows[id + 1].coin)
  ELSE IF \E i \in DOMAIN smarts : smarts[i].num > 0 /\ smarts[i].account = id THEN StartValue * Cents ELSE 0
Listed(pays, pos) ==
  LET sum[p \in 0 .. Len(pays)] == IF p = 0 THEN 0 ELSE pays[p].amount + sum[pays[p].next] IN sum[pos]
OwnList(pays, id, pos) ==
  LET own[p \in 0 .. Len(pays)] == p = 0 \/ (pays[p].id = id /\ own[pays[p].next]) IN own[pos]

(* The history of an account (GetHistory) explains its balance: its list   *)
(* has payments of this account only, and they add up to what it holds,    *)
(* also after blocks were taken back and others executed in their place.   *)
HistoryExplains ==
  \A id \in StartHistory .. Len(state) - 1 :
    LET row == state[id + 1] IN
    ~chg.on => OwnList(hist, id, row.pos) /\ Worth(row.coin) = Start(id) + Listed(hist, row.pos)

(* The accounts are those the last block of the log has left: the hash     *)
(* DoBlock computes before it executes the next block is the one in the    *)
(* log ("AccHash:DeleteTX"), after any number of blocks taken back.        *)
HashAgrees ==
  ~chg.on => CalcHash(state) = IF log = << >> THEN CalcHash(GenesisRows) ELSE log[Len(log)].hash

(* It is, unless a block has changed an account that an earlier            *)
(* transaction of the same block had made.                                 *)
UndoRestores == ~remade => HashAgrees
=============================================================================
