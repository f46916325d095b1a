# TERA node on the JINN engine: TLA+ models, checks and proofs

The repository is the TERA blockchain node (`Source/`), which runs on the JINN consensus and network engine
(`Source/jinn`). This directory holds TLA+ models of the node's core, the TLC configurations that check them and TLAPS
proofs about them. Paths below are relative to `src/Source`.

## 1. The system

A node is a set of operating-system processes started by `process/main-process.js`:

* **MAIN** runs the JINN engine (`jinn/src/*.js`), glued to the application by `jinn/tera/*.js`. It keeps connections to
  other nodes, exchanges transactions, headers and block bodies with them, creates and mines blocks, chooses the best
  chain, and writes the chain to disk (`jinn/src/db/*.js`). All of it runs on one event loop: a handler runs to its end,
  but the order of handlers is open, and a file is written by one system call after another.
* **TX** (`process/tx-process.js`) executes the transactions of the main chain: it reads the block files MAIN writes and
  keeps the accounts and smart contracts (`system/accounts.js`, `system/smart.js`) with an undo log.
* **WEB** (`process/web-process.js`) serves HTTP from the same files, read-only.
* mining workers (`process/pow-process.js`) look for better hashes of the blocks MAIN has made.

The processes are supervised and restarted (`process/childs-run.js`); any of them can be killed between two system calls.
They share no memory, only the files, and no lock protects these.

### Components

| Component | State it keeps | Operations | What is hard | What makes it correct |
|---|---|---|---|---|
| Main chain index (`jinn-db-chain.js`) | `main-index` rows, record -1 with the last number, block rows | WriteBlockMain, SaveChainToDB (batched), TruncateMain, TruncateChain, start check | kills between calls; readers in other processes | after the start check the rows are one chain; readers never execute something that is no chain |
| Jump pointers (`jinn-consensus-chain.js`) | two pointers in every block row | GetFirstHeadBlock, GetFirstEmptyBodyBlock, SetBlockJump | pointers written before a reorganisation or before a body came | searches with pointers agree with the slow ones |
| Leader list (`jinn-consensus.js`) | MaxLiderList per block number | AddHashToMaxLider | cut, spread and miner pruning in any order | sorted; the best hash ever offered is first |
| Consensus node (`jinn-consensus.js`, `jinn-block-mining.js`, `jinn-consensus-boost.js`) | stored headers and bodies, main tip, leader lists, own transactions | DoNode, MAXHASH, AddBlockHeader, AddBlockBody, DoMaxStatus, CheckAndSaveChainToDB, DoSaveMain, DoCreateNewBlock, AddFromMining, TruncateChain | any order of replies, ticks, mined blocks, restarts | a complete main chain, never too young, which moves for more work only (or as documented below), and grows |
| Transaction state (`accounts.js`, `smart.js`, `tx-process.js`) | accounts, contracts, state hashes, two undo logs | CommitBlock, DeleteAct, ControlActSize, ClearDataBase, RunItem, CheckActDB, rewriting | kills between writes; undo across rotated logs | the state is the replay of the executed chain; TX catches up |
| Hot connections (`jinn-connect-hot.js`, `jinn-connect*.js`) | LevelArr, Level, HotReady, HotItem times | CONNECTLEVEL and its answer, DISCONNECTLEVEL, MAXHASH, CheckHotConnections, connect, disconnect, SetOwnIP | crossing requests, evictions, broken connections | a slot holds a child that belongs there, the sides agree, slots are freed |
| Double connections (`jinn-connect.js`, `jinn-connect-handshake.js`) | children of a neighbour, ConnectCount, RndHash | DoNode, HANDSHAKE and its answer, disconnects | both sides connect, greet and close at the same time | one connection stays, the same one at both ends |
| Packets and calls (`jinn-net*.js`) | receive buffer, packet counters, call contexts | Send, TweakOneMethod, CallMethodOnReceive, DoNode | a stream cut anywhere; answers late or never; closing in the middle of a buffer | a channel of packets; an answer reaches its own call; calls end |
| Tickets and transactions (`jinn-ticket.js`, `jinn-tx*.js`, `jinn-net-cache.js`) | per number: items with a bit mask of neighbours for each kind of knowledge, the list of transactions | TRANSFERTT, TRANSFERTX and its answer, the steps of the timer, block bodies with tickets in place of transactions | crossing tickets, bodies held back, clocks that differ, so that a number is refused as too early or too late | nothing twice; who is marked as having something has it or has refused its number; what one has its neighbours get |
| Money (`accounts.js`, `smart.js`, `coinlib.js`) | copies of accounts per transaction and per block, histories, undo rows | TRTransferMoney, TRCreateAccount, TRCreateSmart, contract reactions, rewards, roll-back, ProcessingDeleteAct | failing halfway, accounts made and changed in one block, repetitions | no money made or lost, nobody overdrawn, once only, undo restores |
| Node time (`jinn-timing.js`) | DELTA_CURRENT_TIME | CorrectTimeByDelta | limits, halving, fading and rounding at once | every correction brings the time nearer or leaves it good |
| Caches (`cache-db.js`, `jinn-db-cache-block.js`) | two trees of the same items | add, find, evict, cut | an item in one of the trees only | the cached index is still a file of rows |
| Old balances (`core/rest_tables.js`) | five rows of earlier values per account | DoRest, RestPush, GetRestArr | which row may be dropped | the balance after every rest number can be told |
| Rows by block number (`core/db/db-row.js`) | a log in the order of block numbers | FastFindBlockNum, DeleteHistory | ends of intervals; blocks with no or many rows; a log that changes | the first row of the block is found, no call runs for ever |

`PROJECT.json` lists every component, also those outside the plan with the reason, and every hazard at its line.

### How they interact

Peers' MAXHASH messages bring hashes into the leader lists; DoMaxStatus asks for headers and bodies of their chains; when
a chain is complete, old enough and better, CheckAndSaveChainToDB moves the main chain to it (SaveChainToDB, a sequence
of system calls on `main-index`). DoSaveMain, in every tick, extends the main chain by the next number. TX polls the
files, notices that the block it read does not extend what it has executed, takes blocks back with its undo log and
executes the new ones; the hash of its state at every 50th block goes back into the chain. Hot connections decide which
neighbours take part in the exchange of tickets, transactions, headers and bodies at all; all of it goes through packets and
calls on sockets. The height of every exchange is a function of the node's time, which is corrected by when hashes arrive.

## 2. Modules

| Module | Models | State and actions against the code |
|---|---|---|
| `Blocks` | the universe of headers | a block is its SumHash (it commits to its whole chain); `Num`, `Prev`, `Anc` are parameters tied together by `BlocksAssumption`, so that no module recurses over a chain |
| `MainIndex` | `main-index` under MAIN's writes, kills, and TX's reads | `index`, `size`, `maxRec` are the rows, the length and record -1. Each `Start*` action is a call of MAIN up to its first system call; `Put`, `Cut`, `Rec`, `PutRow` are its system calls one by one; `Crash`, `Restart`, `CheckStarted` a kill, a start and the check 800 ms later; `TxFirst`, `TxPeek`, `TxApply`, `TxCheckAct`, `TxRestart` the reads of TX |
| `MainIndexProofs` | theorems about `MainIndex`: with kills of MAIN, until the first one, and after the start check | see section 5 |
| `Work` | power, comparison of chains, one leader list | pure operators used by the next two |
| `LiderList` | one leader list under any order of offers | `Offer` is AddHashToMaxLider. Proved in `PartsProofs` |
| `JinnNode` | one node against an environment of honest peers | `disk` (tip, headers, bodies), `ram` (leader lists, wants, own trees, mined), `cur` the number the clock shows. One action per handler: `ReceiveMaxHash`, `ReceiveHeader`, `ReceiveBody`, `DoNode(c)` (a tick with the clock at c), `FromMining`, `Truncate`, `Restart`. Proved in `JinnNodeProofs` |
| `JumpIndex` | the pointers in block rows | `toH`, `toB` the two pointers; headers, bodies, moves of the main chain, and searches that write pointers. Proved in `PartsProofs` |
| `TxState` | the state of TX on disk | `disk` is a record of files (sequences of rows); an operation is a sequence of writes, any prefix of which may be all that happens (a kill). MAIN's side is `MainChange`: the chain just changes. Proved in `TxStateProofs` |
| `Coins` | coinlib.js: sums and differences of coins and cents | `ADD`, `SUB`, `DIV` on records; `AccountsProofs` holds the theorems about it |
| `Accounts` | what a block does to accounts, histories, contracts and the undo log | `state`, `hist`, `log`, `smarts` are the files, `chg` is DBChanges (BlockMap and the block being executed). A transaction is a record `tr` (TRMap, TRHistory) that an operator per handler transforms; `RunTx` keeps it or rolls it back; `BlockStart`, `RunTx`, `BlockFinish`, `DeleteBlock` are the actions. Proved in `AccountsProofs` |
| `Loops` | lemmas the proofs share: least and greatest numbers, what a loop keeps, functions defined by recursion on numbers | used by all modules of proofs but `MainIndexProofs` and `TicketExchangeProofs` |
| `HotConnect` | the slots of hot connections of several nodes | `node[n]` is the part of Engine and of its children the hot connections use; `node[n].out[m]` what is in flight from n to m. All nodes run the same handlers. Proved in `ConnectionProofs` |
| `PacketStream` | one connection: bytes, packets, calls | `pipe` are the bytes under way, `child[e].buf` the receive buffer, `child[e].calls` the contexts. `Receive` takes a piece of any length and runs TweakOneMethod to its end, with every choice of what the handlers do; one pass is `Tweaked`, and a recursive function on numbers stands for the call of itself with which the code goes on. Proved in `ConnectionProofs` |
| `MessageChannel` | what the connection promises | whole packets, in order, once, none after closing; `PacketStream!IsChannel` shows the stream implements it (checked and proved) |
| `TicketExchange` | one block number among several nodes | `item[n][t]` the TTSend, TXSend and other masks of an item, `arr` the list a block is made of, `step` the task flags, `out` the messages, `past` how far each node's clock is past the number (which decides what it sends and takes), `session` that it has noted its neighbours, `refused` the bodies whose number was not taken; one action per message and timer step, `ClockGoes` and `ClockIsSet` for the clocks. Proved in `TicketExchangeProofs` |
| `DoubleConnect` | two nodes and the connections between them | `child[c][n]` what n has of connection c, `wire` the handshake messages and closings under way; `DoNode(n)` is one tick. Proved in `PartsProofs` |
| `NodeTime` | the correction of time | `clock` the error of the system's clock, `delta` DELTA_CURRENT_TIME; `Step` is CorrectTimeByDelta. Proved in `PartsProofs` |
| `CachedRows`, `RowFile` | the index of the main chain behind CCache, and the file of rows it must be | `byIndex` and `byAge` the two trees; the refinement is checked and proved (`PartsProofs`) |
| `RowSearch` | FastFindBlockNum while the log changes | one action per turn of its loops. Proved in `PartsProofs` |
| `RestTable` | old balances of one account | `arr` its rows; a value is the block that wrote it, which makes every value distinct. Proved in `PartsProofs` |
| `MCParts` | the seven parts that keep a structure of their own | `part` says which of `RowSearch`, `LiderList`, `JumpIndex`, `CachedRows`, `NodeTime`, `DoubleConnect`, `RestTable` takes the steps of a behaviour: its state space is the sum of theirs, and each keeps its own definitions. All are extended; `LiderList` and `JumpIndex` share a tree of blocks, whose eight blocks number 5 are the hashes offered to the list |

`MainIndex` composes MAIN's writer with TX's reader; `JinnNode` builds on `Work`, and its main chain is an atomic pointer
because `MainIndex` is about how that pointer is written. `TxState` is what TX does with the blocks `MainIndex` shows it.

### Abstractions

* Hashes are injective: a block, a tree of transactions and an account state are identified with what they commit to.
* Blocks come from a fixed finite universe with forks; what is created, mined or received is a member of it.
* `JinnNode`: peers answer with true headers and bodies of the universe but in any order, late or never. The packing of
  MAXHASH and the per-child caches are left out. A stale search for a chain is repeated at the next tick. The clock goes on by
  one number or is set to any other, back or ahead (CorrectTimeByDelta, whose first correction has no limit). A block of the
  node's own miners that improves an earlier one is stored as a header only, as AddToChain is not called for it.
* CheckActDB reads the last 100 rows of TX's log and leaves the last five blocks alone (`tx-process.js:315`). When the rows of
  those blocks fill the hundred, it compares nothing, and TX stays on the wrong side of a fork until the main chain grows above what
  it has executed. `MainIndex` and `TxState` both have this window (`CheckRows`), and `TxFollows` and `TxCatchesUp` promise the
  blocks of the main chain only if one that may be compared ends in it; PROJECT.json lists the gap as a hazard. `MainIndex`
  counts the rows of a log that is not rotated (`LogRows`), rotation is a matter of `TxState`.
* `TxState`: a row of accounts is the set of blocks that changed it, enough to tell two histories apart.
  `Remembers` guards rotation and reorganisation: no reorganisation goes below what both logs hold, as with the logs of at
  least 10 million rows of the program. Without it `NeverStuck` fails: a rewrite deeper than both logs, killed between the
  last undo and ClearDataBase, leaves accounts and no log, and a start then sets ErrorInit for ever
  (`tx-process.js:136`; the repair returns at once when both logs are empty).
* `Accounts`: a signature is valid or it is not, a key is a model value, and contracts forward what they get to one account,
  refuse it, or do nothing. A failed transaction is always rolled back whole. All heights at which the rules changed
  (UPDATE_CODE) are passed. Rewards of advisers, AMID tables, SetValue and the change of a contract by its owner are left
  out. A kill between two writes is the subject of `TxState`.
* `TicketExchange`: one number; hot connections do not change during it, sorting by priority, a full list,
  error signs and the validity of transactions are left out. A body of a transaction is the transaction. CanProcessBlock is the
  two-sided test of the code: a number is refused before it begins and from three numbers after it, without an answer, while the
  sender has set its mark. So `SentIsKnown` allows for a refused body; that near clocks (`Near`: never more than one number apart
  and not set) refuse only what is too late is part of it. `Spreads` is about nodes that have both noted their neighbours (one whose
  clock is set over the number does not), and with clocks further apart or set it allows for a refused body too, which
  nothing sends again: without that allowance TLC finds it violated.
* `PacketStream`: a byte is known by its packet and its place in it. Compression, the formats of methods and the ban of a
  neighbour that sends nonsense are left out. `Delivered` and `NoBadNum` have the premise `AllFit`: behind a packet above
  MAX_PACKET_SIZE the receiver never parses another one, because TweakOneMethod returns without emptying its buffer.
* `DoubleConnect`: connections that are not hot and not older than MAX_CONNECT_TIMEOUT, nodes that know their IDs (a node at
  address 0.0.0.0 has a random one and may compare differently on the two sides). In the program a doubled connection may
  also be closed while the other one is refused; both are then gone until one of the nodes connects again, and so it is in
  the model.
* `NodeTime`: what a correction measures is the error of the node's time plus a delay; that the mean is one of enough
  hashes, without outliers, is left out. `TimeAssumption` asks that half a step exceeds what fades and that no step exceeds the
  trigger: true of 1000, 100 and 20, not of the values for local networks (5, 50, 20), where the time settles some tens of
  milliseconds off.
* `CachedRows`: row -1 is written through the cache and read past it and is left out, and so is the limit on how many items
  one call evicts. `RowSearch`: a row is its BlockNum.
* `RestTable`: `RestFound` is stated for chains without an undo. Undoing even one block that changed the account may leave
  wrong rows (DBStateWriteInner takes no notice of its argument bDeleteAct): a hazard in `PROJECT.json`. And it is stated for
  chains on which the rest numbers that have no row to move into are 0 (`RowsAssumption`): with five rows, ten numbers and
  periods of 1000 blocks a fourth number appears behind block 1000 * (1 + 16 + 256 + 4096 + 65536) = 69 905 000. From there on
  GetArrRest is still asked for that number, but RestPush keeps no row for it: an account changed before it and often enough
  after it has newer rows only and is left out. With two in the place of sixteen and periods of two blocks this happens from block 62 on; the
  run stays below.
* `HotConnect`: scores are given, the speed test, bans and clusters are open or left out, and two connections between the
  same two nodes do not occur (`DoubleConnect`). Timeouts of seconds (`DenyPasses`, `ConnectTimeout`, reopening) wait until nothing is in
  flight between the two nodes; the two-second limit of a request (`StartPasses`) and the 500 ms check do not.

## 3. What is checked

| Run | Configuration | Shows |
|---|---|---|
| `main_index` | `MainIndex.cfg` | `MainLinked`, `CallNeverFails`, `ReaderLinked`: one kill of MAIN at any system call, forks, bulk writes in batches of two, TX reading and being killed anywhere; `ReaderNoHole` as long as there was no kill; `TxFollows` under fairness, for chains that end at the number record -1 names and a log whose last rows CheckActDB can use |
| `node` | `JinnNode.cfg` | `MainHasBodies`, `MainNotAhead`, `AskedInOrder`, `MainMoves` on a listening node among peers with forks and on a mining node, with clocks that go on or are set; `MainNotAhead` and `MainMoves` are about steps: what is never done is to put a block younger than STEP_SAVE numbers on the main chain, while a clock set back may leave one there; `MainGrows` of the mining node under fairness |
| `node_work` | `JinnNode_work.cfg` | violation, see section 4 |
| `tx` | `TxState.cfg` | `StateIsReplay`, `HashesOfChain` with small rotated logs and two kills at any write; `NeverStuck`, `TxCatchesUp` with a log to the first block |
| `accounts` | `Accounts.cfg` | `SupplyKept`, `NoOverdraft`, `OnceOnly`, `NumbersDense`, `HistoryExplains`, `UndoRestores` over every block of two out of thirteen transactions, chosen so that they fail halfway, repeat each other, pay accounts made before them, call contracts |
| `accounts_undo` | `Accounts_undo.cfg` | violation, see section 4 |
| `hot` | `HotConnect.cfg` | `NormalSlots` on three nodes, one of which learns its address; `MutualHot`, `NormalFreed` under fairness, connections that break and open again |
| `hot_freed` | `HotConnect_freed.cfg` | violation, see section 4 |
| `packets` | `PacketStream.cfg` | `IsChannel` (refinement), `OwnAnswer`, `NoBadNum`; `Delivered` and `CallsEnd` under fairness |
| `tickets` | `TicketExchange.cfg` | `ArrOnce`, `SentIsKnown`; `Spreads` under fairness, in six small networks, two of them with clocks that are far apart or set |
| `tickets_body` | `TicketExchange_body.cfg` | violation, see section 4 |
| `parts` | `Parts.cfg` | `HeadIsBest` of the leader list, `HeadNotAbove` and `EmptyAgrees` of the jump pointers (against the slow searches the code itself has), `FindsFirst`, `IsRowFile` (refinement), `Converges`, `KeepsOne` and `Settled` of double connections, `RestFound` |

`TypeOK` in a module documents the range of each variable; those of `MainIndex`, `JinnNode`, `NodeTime`,
`TicketExchange`, `Accounts`, `HotConnect` and `PacketStream`, and `PointersOK` of `JumpIndex`, are proved. Each passing
property has a mutant of the code in its module
(`X_Something` before `X`) which violates it under the same configuration.

### Bounds, and why they are enough

* `MainIndex`: numbers 0 to 6, two of them genesis blocks, and two chains that part above number 2; a recalculation depth of
  3, batches of 2 rows, so that a bulk write has several and a kill can leave a hole: every call can rewrite, extend,
  shorten and be cut in the middle, and TX can be one to four blocks on the wrong side. A block leaves one row in the log of TX
  and b4 leaves three, while `CheckRows` looks back two rows: CheckActDB
  reaches a block it may compare from most tips, and none from b4 when the main chain is no longer than that. One kill (`MaxCrash`) meets every system call; a second one after a restart meets the
  same states, as the check at the start rewrites what the first one left. `MaxEarly` bounds the calls in the 800 ms
  before that check.
* `JinnNode`: numbers up to 4 with clocks 4 to 6, so that two numbers are open at a time and the oldest is saved; chains
  of peers and of the node that differ at two heights and with and without transactions. `Depth = 2` stands for
  MAX_BLOCK_RECALC_DEPTH, 10 (`jinn-block-mining.js:13`), and `CheckNums = 2` for MAX_BLOCKNUM_FOR_CHECK_SAVE, 20
  (`jinn-consensus.js:23`); both sides of each occur. `MaxUpset` bounds restarts, truncations and settings of the clock together.
* `JumpIndex`: two chains that part, all orders of headers, bodies and moves.
* `TxState`: two forks, state hashes every `Period` blocks instead of 50; `LogSizes` are the lengths at which the log is rotated, one of them
  chosen at the start (`maxActs`): 3 rows instead of millions, or `WholeLog`, which is never reached. `CheckRows = 3` rows may
  reach a block that may be compared or, behind b4 or b5, may not. `MaxUpset` bounds kills and rewrites on demand; changes of the main chain are not bounded.
* `HotConnect`: one or two normal slots and one extra slot for two neighbours, so that slots are contended, evicted and
  full. `MaxOut` bounds what is in flight between two nodes when a request or a MAXHASH is sent (answers are not bounded),
  `MaxOpen` the connections opened again.

* `Accounts`: blocks of two transactions, two numbers, one block taken back: a transaction sees what an earlier one of its
  block and of an earlier block did, and another block is executed in the place of the one taken back. `Cents = 3` cents make
  a coin, so that carries and borrows occur in both directions.
* `PacketStream`: bodies of one and three bytes (the latter above MAX_PACKET_SIZE) behind headers of eight, two calls of one
  end: pieces are cut in the header, in the body and across packets. `AliveTicks = 0` makes an answer late at once.
* `TicketExchange`: rows of two and three nodes: more nodes repeat what the middle one does. Six setups: tickets that meet in the
  middle, a miner whose neighbour gets too old, two neighbours with the same transaction, two transactions between two nodes with
  messages of one (`MaxTT`, `MaxTX`: the second must wait for the first), clocks two numbers apart, and a clock that is set once.
  `start`, `last` and `apart` bound each node's clock: where it begins, how far it is looked at, and how far neighbours' clocks
  may differ; `upset` says whose clock may be set. Two transactions on three nodes, or in every setup, are beyond the limits set here.
* `parts`: `HeadIsBest` with eight hashes of three miners and three places; `RowSearch` with all logs of up to four rows
  and four numbers (the proof takes the rest); two positions, four rows and a cache of two; clock errors on both sides and
  steps that end in both directions; three connections, one of which breaks; twelve blocks in six periods, so that rest
  numbers of two levels and all five rows occur.

`CHECK_DEADLOCK FALSE` stands where the bounds, or a node nobody asks anything of, really end a behaviour.

### Fairness

* `MainIndex`: MAIN's running call goes on (its event loop does not stop inside a synchronous call); the timers of TX
  (RunItem every few milliseconds, CheckActDB once a minute) keep firing. `TxFollows` asks that MAIN is idle from some
  point on and that TX is not restarted for ever.
* `JinnNode`: the 100 ms timer keeps calling DoNode. Nothing is asked of peers or miners.
* `TxState`: TX's timers and the start of a killed process (supervision restarts it).
* `HotConnect`: the 500 ms check, delivery on an open connection, the ticks that send MAXHASH, and time passing.
  Nothing is asked of new requests, connections or timeouts.
* `PacketStream`: bytes arrive as long as the connection is open, and the timer that ages the calls of hot children goes on.
* `TicketExchange`: every clock reaches the number after the one looked at, and again and again the timer has nothing left to
  do and everything sent to a noted neighbour has arrived: the timer's steps are much shorter than the exchange.

Some fairness is written as `[]<>~can \/ []<><<A>>_vars` with the enabling condition spelled out: the meaning of `WF_vars(A)`,
which TLC evaluates much more slowly through ENABLED.

## 4. Where the code and its own words differ

* **`node_work`** (`jinn-block-mining.js:91`). `jinn-consensus.js:12` calls the algorithm "the maximal chain of blocks for
  the amount of PoW". DoSaveMain takes for the next number the best stored block with the node's own tree, whatever it
  extends: after a reorganisation to a chain with more work the timer of a node that does not mine can put an older chain
  back. `MaximalChain` is violated; `MainMoves` states what does hold (such a step is by one number and shallow).
* **`hot_freed`** (`jinn-connect-hot.js:424`). CheckHotConnections goes over all slots to remove children of which "The
  connection was broken, but the hot sign remained". It clears only the slot the child's Level names. RecreateLevelsArray
  gives children in extra slots their normal Level back and leaves them there; when such a child is gone, nothing clears
  the slot, and every pass denies that neighbour again. For the normal slots the intention holds (`NormalSlots`,
  `NormalFreed`).

* **`tickets_body`** (`jinn-net-cache.js:75`). A miner leaves a transaction out of the body it sends when the receiver is
  marked TTTXReceive. TRANSFERTX sets that mark for "I have it", TRANSFERTT for "I know the ticket". A receiver of the
  latter kind cannot put the body together, which `jinn-net-cache.js:138` reports as an error. `BodyIsBuilt` is violated.
* **`accounts_undo`** (`accounts.js:1756`). The copy of an account a transaction works on loses the mark of an account made
  in this block, so the undo row of an account that is made and then paid in one block is that of an old account. Taking
  the block back leaves an account that was never made, and the hash differs from the one in the log, which
  `tx-process.js:249` asserts. `HashAgrees` is violated; `UndoRestores` states what holds for all other blocks.

Further observations are hazards in `PROJECT.json` without a run of their own: the ErrorInit state described in section 2,
the oversized packet, old balances after an undo, the key under which hashes of old balances are kept, and the loop over
connections that skips the child after one it removes. One more has its property proved under a premise: the start check
looks 5000 blocks below the first 100 good links (`tera-link-server.js:179`), a bulk write puts batches of 100 000 rows from
the top down (`jinn-db-chain.js:543`).
In a save of more missing blocks than that, a kill between two batches leaves a hole the check does not reach. In
`main_index` a batch (2) is smaller than `CheckBack` (3), so what a kill leaves is within reach; with a `Batch` above
`CheckRun + CheckBack` TLC finds `MainLinked` violated.

## 5. What is proved

`MainIndexProofs`, for every universe of blocks, every batch size, depth and number of kills that satisfies
`BlocksAssumption` and `IndexAssumption`:

* `TypeCorrect`: `Spec => []TypeOK`. `TypeOK` is not inductive: the bulk write computes rows from `lo`, `hi`, `at` and
  `last`, and an ancestor is only defined up to the number of `seed`. `TypeInv` adds how these relate at each `pc` (the
  rows still to be written lie below the seed and above the fork, the file is long enough for the next row). One lemma per
  action preserves it.
* `ReaderIsLinked`: `Spec => []ReaderLinked`. The strengthening is `RowsNumbered`: whatever MAIN does, row n holds a block
  with number n or nothing, also after a kill in the middle of a batch. A block TX executes is then the one with the next
  number, and TX has compared its parent with the last executed block after its last read of the file; taking blocks back
  keeps a prefix, and a prefix of a chain is a chain (`PrefixLinked`, `UndoLinked`).

And, from the same assumptions, for the time before the first kill of MAIN:

* `UnkilledMainLinked`, `UnkilledCallNeverFails`, `UnkilledReaderNoHole`: `Spec => [](crashes = 0 => P)` for `MainLinked`,
  `CallNeverFails` and `ReaderNoHole`. The common invariant `CallInv` says what the rows hold at each system call: before a
  row is put, the rows below it are ancestors of the seed; before a cut, the rows that stay are one chain; and during the
  bulk write, that the rows up to the fork, the finished batches and the written part of the present batch are ancestors,
  so that the last row of the last batch, which is not the highest one, closes the gap. `BelowFork` is the reason a call
  may start at all: on a file that is one chain, everything below a row that holds an ancestor of b is an ancestor of b
  (the greatest counterexample would have a good link above it). Two of the three properties are stated with the start
  check behind (`early = -1`); without a kill they hold before it too.

The condition is needed for `ReaderNoHole`: a kill between two batches leaves a hole below the rows already written, and
a TruncateChain in the 800 ms before the start check then sets the record above it.

With kills, from the same assumptions and one premise about the behaviour:

* `RepairedMainLinked`, `RepairedCallNeverFails`: `Spec /\ []FaultsInReach => []P` for `MainLinked` and `CallNeverFails` as
  the runs check them. `FaultsInReach` speaks of the time between a start after a kill and the check 800 ms later: the lowest
  wrong row is at most `CheckRun + CheckBack` rows below the last one (one more if it is missing). The premise is needed: the
  check stops at the first good links it meets going down, steps `CheckBack` back and goes up from there, so a hole below
  is never looked at. It says nothing of the time after the check, nor of what the calls and the check itself do.
  `GenesisRows` (once the rows of the genesis blocks are written, none of them is missing again) gives both passes a floor;
  `CheckFinds` shows that the pass down and the two passes up end below the lowest wrong row whichever good run the pass
  down took; `RepairCall` that the truncation or the bulk write that follows starts from a linked prefix; from there on
  `CallInv` holds as if MAIN had not been killed (`RepairedInv`).

`AccountsProofs`, for every set of transactions, every beginning, every number of cents in a coin above one and every sequence of
blocks executed, refused and taken back (`AccountsAssumption`, `CentsAssumption`): `Types` (`Spec => []TypeOK`), `SupplyIsKept`
(`[]SupplyKept`), `NeverOverdrawn` (`[]NoOverdraft`), `PaysOnce` (`[]OnceOnly`), `Dense` (`[]NumbersDense`), `HistoryIsTrue`
(`[]HistoryExplains`) and `UndoIsExact` (`[]UndoRestores`). Only `TypeOK` and `OnceOnly` say enough of themselves; the others
need what is under way. The invariant `Inv` follows money through the layers in which the code keeps it:

* The copies of a transaction (TRMap, TRHistory): `TrOK` says that the rows it would leave hold, currency by currency, what the
  accounts of the block hold (`Balanced`), that what an account gained or lost is the sum of the payments entered for it
  (`Paired`), and that every row it has copied remembers the row of the file (`TrBase`). `Sent` and the lemmas after it carry this through a
  transfer, a list of receivers and the calls of contracts, each of which may fail halfway: a failed one only has to be dropped.
* The copies of the block (BlockMap): `BlockOK`. A transaction that succeeded adds its changes (`Commits`), its entry in `done`
  (`Adds`) and the mark of an account written after it was made (`Remakes`).
* The files: `Chained` says that the undo log is divided into blocks, and that the accounts after each of them, which the hash
  in its last entry stands for, hold together what was issued until then (`LogOK`); the file of accounts is that of the last
  block but for the places in the history (`FileOK`). `Wrote` says what one block has put into the log: one entry for each
  account, with the row the block before had left, and none is missing for an account that differs. This is what makes an undo
  the inverse of a block. `Expl` says that a balance is the sum of its own list of payments: a payment points at an earlier
  one only, and all on the list are of this account. It holds for the rows of the file and for every row the log would put back.

The condition of `UndoRestores` cannot be left out: `remade` says that a block has changed an account an earlier transaction of the
same block had made, and for those `accounts_undo` shows that the undo does not restore the accounts.

`AddExact` and `SubExact`, in the same module, are about `Coins`: a sum or difference of two amounts is worth what it must be
and keeps its cents below a coin, the sign telling whether there was enough.

`Loops` holds what several proofs need of numbers: that a set of them has a least and, if bounded, a greatest member
(`LeastIn`, `GreatestIn`), that what a turn of a loop keeps holds after all turns (`OneByOne`, `Turns`), that a function
defined by recursion on `0 .. N` satisfies its equation (`Unwind`), and that two chains that meet are the same below
(`SameBelow`). The last one is why sums over sequences, the payments of
one transaction and the list of a history are recursive functions: what follows about them for every length is
proved by a least counterexample.

`PartsProofs` is about all seven of the modules `MCParts` composes:

* `RowSearch`, for every log: `SearchFindsFirst` (`Spec => []FindsFirst`). The invariant of the first loop is that the rows
  below `low` belong to earlier and those above `high` to later blocks, and that `low <= cur <= high`, the half of the distance
  being at least one and at most the distance; of the second loop, that `cur` is a row of the block. All of it is claimed only
  as long as the log has not changed. `SearchShrinks` needs no such condition.
* `NodeTime`, for all constants that satisfy `TimeAssumption`: `TimesAreNumbers` (`TimeSpec => []TimesOK`) and `TimeConverges`
  (`TimeSpec => Converges`). One lemma bounds the step for a measured error on each side (`Limited`, `Careful`, `Faded` one after
  the other); the theorem is then a distinction by the sign of the error and of the correction.
* `CachedRows`, for every size of the cache (`CacheAssumption`): `CachedIsRowFile` (`CacheSpec => IsRowFile`), that is
  `Rows!Spec` and `[]TreesAgree`. The invariants are `Cached`, that there are items only for rows of the file and that each is
  what its row holds, and `Trees`, that both trees hold the same items, each once. A read is a read of the file, a write and a
  cut are those of the file; evictions stutter. What CCache takes out of one tree it takes out of the other (`KeptAgree`,
  `SizeAgree`), and an item found again becomes the youngest without a second place (`UsedAgree`); `WithoutIs` says by `Turns`
  what is left of the order of use when items are taken out.
* `LiderList`, for every universe of hashes with any powers, miners and length of the list (`WorkAssumption`): `HeadStaysBest`
  (`LiderSpec => []HeadIsBest`). `HeadIsBest` is inductive, but a step is a whole AddHashToMaxLider. `StrongerIs` says that in a
  sorted list the stronger entries are a prefix, so that the place is behind it (`GrownFalls`: the list is sorted with
  the new hash in it); `KeptFalls`, that what the removals by spread and by miner leave after any number of turns (`KeptOf`) is the
  first entry and a sorted selection of the others, `Turns` carrying it through the loop.
* `JumpIndex`, for every tree of blocks, any `Base`, `HotDelta`, seeds and blocks without transactions: `PointersLead`
  (`JumpSpec => []PointersOK`), `HeadsNotAbove` (`[]HeadNotAbove`) and `BodiesFound` (`[]EmptyAgrees`). The invariant is `JumpOK`:
  a pointer H passes over no block without its parent and a pointer B over none without its body, which nothing that happens
  later can spoil, as headers and bodies stay (`LinksLast`). `WalkIs` is about any search that goes back until a stop: it ends
  at its lowest number, and what holds over each of its steps holds over all of the way; `WalkHIs` and `WalkBIs` apply it to
  the two searches. That a block of the main chain has only such blocks below it (`MainBelow`) decides the rest. Where pointers
  are written, only their targets matter: the blocks AddJumpToArr is offered, those a search steps down from and those it jumps to
  (`Offered`), are blocks it has visited.

* `DoubleConnect`, for any number of connections and breaks (`DoubleAssumption`: two nodes): `DoublesSettle` (`DoubleSpec =>
  []Settled`) and `TickKeepsOne` (`DoubleSpec => KeepsOne`). `Met` lists what the maker of a connection has of it, what the other
  end has and what is on its way to each, for one connection; every message, tick and break leads from one line of it to another, and
  without messages only lines are left on which both ends agree. `OneMade` and `OneKnown` say why two connections are
  enough to tell which one a tick closes: a node connects only to a neighbour it has no connection with, and greets only one it does not
  know, so that of two connections it has made exactly one.

* `RestTable`, for any number of rows and rest numbers, any periods and any choice of the blocks that change the account:
  `NewestRestsTold` (`RestSpec => []NewestTold`) and `RestsAreFound` (`RestSpec => []RestFound`). `RestArrIs` says of the rest
  numbers that they rise from place to place, and `RestsLater` that a later rest number is one of the earlier ones or newer than the
  newest of them: nothing is asked for again once it was given up. The invariant `RowsOk` has the rows in falling order,
  each with the value of a block that changed the account, and for each rest number with a row the last change up to it among the rows (`Held`).
  A push keeps it because of `PushHeld`: the row that holds a number r is the first that is not above r, so it stays, or it
  moves on into the next place, whose rest number is not below r and stops nothing. It is never the row that drops out
  at the end, as the row before it, newer than r, would have ended the push.
  That holds for the newest `CountState - 2` numbers on every chain; that there are no others to ask for is `RowsAssumption`
  (above, 69 905 000 blocks), which TLC evaluates for the constants of the run.

`ConnectionProofs` on `HotConnect`, for any nodes and links, any number of normal and extra slots, any distances and scores (`LevelAssumption`):
`SlotTypes` (`Spec => []TypeOK`) and `SlotsHold` (`Spec => []NormalSlots`). `NormalSlots` is inductive only with what the handlers rely
on (`AllOK`): the Level of a child is its normal slot or an extra one, and a slot of a removed child is an extra one. The
argument is about the order inside each handler: a child leaves its normal slot before its Level becomes that of an extra slot,
and before it is removed (`DisconnectLevel` in OnDeleteConnect, which the mutant of the run drops). One lemma per handler on the
state of one node, and one per action that puts the node's state back. CheckHotConnections and RecreateLevelsArray are loops over the slots:
`Turns` carries the invariant to the last turn; for the second loop it is that every Level is the new distance (`Fresh`) and that
the slots passed so far agree with it (`Placed`).

`TicketExchangeProofs`, for any nodes, links, transactions, order and caps of a message: `ListsHaveTxOnce` (`Spec => []ArrOnce`) and
`BitsAreTrue` (`Spec => []SentIsKnown`). Neither is inductive alone, as what a node does with a message depends on what the sender
put in it: `Wire` says that every message under way is sound (the sender has the bodies it sends, a list names a transaction
once, the tree of a block covers its bodies), and `HaveFull` that a node has the transactions of the blocks it has. `Grow`,
that no step loses a transaction, keeps both across the steps of other nodes; `KnownKept` is what a step owes to the bits.
`BitsAreTrue` includes the refusals: `InTime` says that near clocks stay near, and that a body is under way only to a node whose
clock has begun the number (its sender sends from the next number on, so a near neighbour cannot be further behind); what such a
neighbour refuses is too late (`Late`). Without that premise a mark may stay for a body
that was refused, and the theorem says no more than that.
One lemma per action. `Only` and `FirstOf`, which choose what is sent, are characterised by lemmas with a least
counterexample, not by induction.

`ConnectionProofs` on `PacketStream`, for any methods, lengths of bodies, limit of a packet, bounds on calls and either end hot or not
(`EndsAssumption`: two ends; `SizesAssumption`): `StreamTypeOK` (`Spec => []TypeOK`), `CountersAgree` (`Spec => []NoBadNum`),
`CallbacksGetTheirAnswer` (`Spec => []OwnAnswer`) and `StreamIsChannel` (`Spec => IsChannel`). The invariant is `StreamInv`, and
it says for each end as the writer and as the reader:

* `Sends`, of what an end has written: the packets carry the numbers 0, 1, 2, ...; a context stands for one call only, also
  after it was forgotten; the callbacks that have run had the answers to their calls, each call one; and an answer in the stream points at the
  call of the other end it belongs to.
* The bytes in the reader's buffer and under way, together, are the end of the writer's stream and begin with a whole
  packet (`Aligned`): nothing is lost at a cut or parsed from the middle of a packet. `Parses` is the number of that
  packet. `Reads` says that what was handled are the packets before it (as long as the end is open), and that the counter is its number
  as long as all packets fit. Behind a packet above the limit only the counter is given up; the rest holds on.

A turn of Receive is a loop of passes, each of which may write answers and change the contexts. `TweakedReads` is one pass: a header that is cut, a
packet that is cut (`Numbered` and `Uncounted` must cancel out: `UncountIs`), one above the limit, the last one in the buffer, and one with more behind
it. `TurnReads` carries it to the last pass by `Turns`, and `FinishKeeps` joins the two ends again and shows the step to be one
of `MessageChannel` or a stutter. The bytes themselves are dealt with by five lemmas (`WholeFirst`, `CutFirst`, `GrowLast`, `PieceMoves`,
`CutMoves`).

`TxStateProofs`, for every tree of blocks, what its blocks change and make, every `Period`, `Rollback`, `CheckRows`, `CheckLag`,
all sizes of a log and any number of kills: `StateIsReplayed` (`Spec => []StateIsReplay`), `HashesAreOfChain`
(`Spec => []HashesOfChain`) and `StartNeverStuck` (`Spec => []NeverStuck`). They follow from `IInv(u)`, where u says that the log
was never rotated. It has two levels:

* `Settled`, while TX is up: for some block e, which is the one in the last row of the log, the accounts are `Replay(e)`, the
  contracts `Smarts(e)`, the file of hashes is that of e (`HashesFit`), and every row of both logs is one that a block of the
  chain of e left (`LogOk`, `LogFits`): the value before it, an account it made, or the hashes after it, a block's row of hashes
  coming last and only behind a row for all the block changed. This says what an undo puts back, of every block the log still
  has, which the three properties do not; they are not inductive without it.
* `Good`, at all times: a kill leaves any prefix of the writes of an operation, so this is what each prefix leaves. Either the
  next start clears everything (fewer accounts than `GenesisCount`), or there is no log, or some block e is `Undoable`: the
  accounts are those before e where the log has no row of e, no account is new unless the log says so, and contracts and hashes
  up to e's parent are there. A block half executed and a block half taken back are the same to `Undoable`.

The files after i writes are a function by recursion on i (`Disks`), and `AllGood(d, ws, b, u)` says that all of them are
`Good`; it is shown for one operation after the other: what a block is taken back with (`DeleteBlock`; by the first row of an
account only, `Decides`), a block's execution, ClearDataBase, the start, ReWriteDAppTransactions as a loop of undos
(`OneByOne`). Sequences of operations compose by `ConcatOf`. `Rem` (the log's first block is one of the main chain) is
what `Remembers` grants, and lets an undo that goes on past a rotated log end in a state of this chain.
`LogBound` counts the rows of a log by block and account, so that `WholeAssumption`, that `WholeLog` exceeds every such count,
replaces a premise that the log is never rotated. The inductive invariant was checked on the run's instance before it was proved.

`JinnNodeProofs`, for every finite universe of blocks, every `MaxLeader`, every setup of peers and miners and all constants that
satisfy `BlocksAssumption`, `WorkAssumption` and `NodeAssumption`: `NodeTypes` (`Spec => []TypeOK`), `BodiesStored` (`Spec =>
[]MainHasBodies`), `NeverAhead` (`Spec => MainNotAhead`), `OrderKept` (`Spec => []AskedInOrder`) and `MovesOnly` (`Spec =>
MainMoves`). None is inductive alone. `NodeInv` adds what the handlers rely on: the chain of the tip is stored with its bodies
down to genesis (`ChainStored`), a leader list of number n holds blocks of number n, what an entry still wants is a block of its
own chain whose descendants are stored (`AskOK`), and the trees remembered for a number are ones a body of that number can have.

* DoMaxStatus is a loop over the entries in which each may move the tip that the next one sees. `EntryStep` shows that one turn
  keeps the invariant and moves the tip in an allowed way (`Moved`); `Turns` carries this to the last turn by the least turn
  that would break it, and `MovedTwice` joins the moves.
* DoSaveMain moves the tip by one number (`NextTip`), from blocks with the node's own tree or an empty block of its own;
  `BestExists` (a finite set of blocks has a best one) says that its choice is defined.
* The assumptions beyond the shape of the universe are those the constants of the code meet: a depth above one
  (`jinn-block-mining.js:13`), some numbers to check (`jinn-consensus.js:23`), a number is closed after it is opened
  (`StepNew < StepSave`), and a clock that starts when the genesis blocks are past.

Lemmas about helpers (`LeastNumber`, `ForwardType`, `BatchLowType`, `AncNum`, `RowNum`) are stated once and cited.

Only model-checked: the other properties of section 3, and of `MainIndex` that `FaultsInReach` holds when a batch is small
against `CheckBack` (section 4). Liveness under fairness and ENABLED are outside the prover's reach, so
`TxFollows`, `MainGrows`, `TxCatchesUp`, `MutualHot`, `NormalFreed`, `Delivered`, `CallsEnd` and `Spreads` stay with TLC.

## 6. Plan

Order of modules, the most important behaviour first: main chain index and its proofs; leader list and node; jump
pointers; TX state; hot connections; tickets, packets, money; search, caches, time, double connections, old balances (all
present). Next:

1. Theorems: `FaultsInReach` of `MainIndex` from an assumption on the batches.
2. A composition of `JinnNode`'s tip with `MainIndex` (the atomic move of the tip as the abstract specification of
   SaveChainToDB and its system calls).
3. What is handed out of the block cache is the cached object, which its users change: a model of a shared object.
4. Addresses, ratings and bans of neighbours.

## 7. Not modelled, and why

The contract engine's interpreter, serialisation and cryptography (data the properties do not tell apart); the web server
and wallet apart from their reads (no shared state of their own); code update, start-up migrations and exports (file
input and output, rarely run); supervision apart from its effect, a kill and a restart; the earlier generation of the
node under `core/`, which the JINN mode does not load; browser pages and vendored scripts.
