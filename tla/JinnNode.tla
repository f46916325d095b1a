------------------------------ MODULE JinnNode ------------------------------
(***************************************************************************)
(* The consensus of one node (MAIN process) against arbitrary peers.       *)
(*                                                                         *)
(* Every second has a block number; cur is the current one.  Block numbers *)
(* cur-3 .. cur-1 are open: peers send the hashes of their best blocks     *)
(* (MAXHASH), the node keeps the strongest few (MaxLiderList), asks the    *)
(* peers for the headers and then the bodies below them until the chain    *)
(* meets its main chain, and makes the chain its main chain if it has more *)
(* work.  On every tick of the engine the node also creates a block of its *)
(* own for number cur-2 and extends the main chain up to cur-3.            *)
(*                                                                         *)
(* The main chain is the block it ends with: that the file main-index      *)
(* really holds one chain between two calls is what MainIndex is about.    *)
(* A peer may know any block, so a reply is any header or body asked for;  *)
(* replies are lost, delayed and repeated by not happening, happening late *)
(* and happening again.                                                    *)
(***************************************************************************)
EXTENDS Work

CONSTANTS
  Tree,        \* Tree[b]: TreeHash of b, the root of its transactions
  NoTree,      \* the zero TreeHash of a block without transactions
  Own,         \* Own[p][t]: the unmined block this node makes on p with tree t
  Mined,       \* blocks this node's miners may find
  Setups,      \* the kinds of node and of peers looked at
  TreesAt,     \* TreesAt[n]: what the transactions of number n may add up to
  StepNew, StepSave, StepLast,   \* JINN_CONST.STEP_NEW_BLOCK, _SAVE, _LAST
  Depth,       \* MAX_BLOCK_RECALC_DEPTH
  CheckNums,   \* MAX_BLOCKNUM_FOR_CHECK_SAVE
  ClearMem,    \* JINN_CONST.STEP_CLEAR_MEM
  None,        \* no block, or no tree chosen yet
  StartCur,    \* bound: block numbers the clock may show at the start
  MaxCur,      \* bound: the last block number of the clock
  MaxUpset     \* bound: restarts, truncations and times the clock is set

Trees == {Tree[b] : b \in Block}

(* The block numbers the clock may show.                                   *)
Clock == GenesisCount + StepSave - 1 .. MaxCur

ASSUME NodeAssumption ==
  /\ None \notin Block /\ None \notin Trees
  /\ \A b \in Genesis : Tree[b] = NoTree
  /\ \A p \in Block : \A t \in Trees :
       Own[p][t] \in Block =>
         Prev[Own[p][t]] = p /\ Num[Own[p][t]] = Num[p] + 1 /\ Tree[Own[p][t]] = t
  /\ TreesAt \in [Heights -> SUBSET Trees]
  /\ \A p \in Block : Num[p] \in GenesisCount - 1 .. MaxNum - 1 =>
       \A t \in TreesAt[Num[p] + 1] \cup {NoTree} : Own[p][t] \in Block
  /\ Mined \subseteq Block /\ IsFiniteSet(Block)
  /\ Setups \subseteq [mining : BOOLEAN, peer : SUBSET Block]
  /\ StepNew \in Nat /\ StepSave \in Nat /\ StepLast \in Nat /\ StepNew < StepSave
  /\ ClearMem \in Nat /\ MaxUpset \in Nat
  /\ CheckNums \in Nat \ {0} /\ Depth \in Nat \ {0, 1}
  /\ MaxCur \in Nat /\ MaxCur =< MaxNum + StepNew
  /\ StartCur \subseteq Clock

VARIABLES
  setup,   \* mining: USE_MINING; peer: blocks whose hashes peers may send;
           \*   chosen at the start
  cur,     \* CurrentBlockNum
  disk,    \* tip: last block of the main chain; known: headers stored;
           \*   full: blocks whose body is stored (TxPosition set)
  ram,     \* lider: MaxLiderList, by number; want: what each entry asks for;
           \*   tree: CurrentBodyTx, by number; prev: LastPrevMiningBlock;
           \*   mined: MiningBlockArr, by number
  upsets   \* restarts, truncations and times the clock was set so far
           \*   (bounded by MaxUpset)

vars == << setup, cur, disk, ram, upsets >>

(* LoadHash and LoadTreeHash of an entry: the header or body asked for.    *)
NoWant == [head |-> None, body |-> None]
NoWants == [b \in {} |-> NoWant]

FreshRam ==
  [lider |-> [n \in Heights |-> << >>], want |-> [n \in Heights |-> NoWants],
   tree |-> [n \in Heights |-> None], prev |-> None, mined |-> [n \in Heights |-> {}]]
-----------------------------------------------------------------------------
OnMain(d, b) == Num[b] =< Num[d.tip] /\ Anc[d.tip][Num[b]] = b

(* NeedLoadBodyFromNet is false.                                           *)
HasBody(d, b) == Tree[b] = NoTree \/ b \in d.full

(* Mutant: the chain is taken to be stored down to the lowest stored block. *)
HeadNum_Lowest(d, b) ==
  Max({k \in 0 .. Num[b] : OnMain(d, Anc[b][k]) \/ \A j \in 0 .. k - 1 : Anc[b][j] \notin d.known})

(* GetFirstHeadBlock: going down from a stored block b, the number of the  *)
(* first block in the main chain, or of the last one stored.               *)
HeadNum(d, b) ==
  Max({k \in 0 .. Num[b] :
         OnMain(d, Anc[b][k]) \/ k = 0 \/ Anc[b][k - 1] \notin d.known})

(* Mutant: only the body of the block itself is looked for.                *)
Empty_SeedOnly(d, k, b) == {j \in {Num[b]} : j > k /\ ~HasBody(d, b)}

(* GetFirstEmptyBodyBlock, for a b whose chain meets the main chain at k:  *)
(* the numbers above k of the blocks without a body.                       *)
Empty(d, k, b) == {j \in k + 1 .. Num[b] : ~HasBody(d, Anc[b][j])}

(* Mutant: the block itself is saved, ahead of its time.                   *)
CheckAndSave_Seed(c, d, k, b) ==
  IF k < Num[b] /\ c - StepSave =< Num[b] /\ Better(b, d.tip)
    THEN [d EXCEPT !.tip = b] ELSE d

(* Mutant: a chain with as much work, or with less, is saved too.          *)
CheckAndSave_AnyWork(c, d, k, b) ==
  LET n == c - StepSave IN
  IF k < n /\ n =< Num[b] /\ Power[Anc[b][n]] # 0 THEN [d EXCEPT !.tip = Anc[b][n]] ELSE d

(* CheckAndSaveChainToDB: the ancestor of b with number c - StepSave       *)
(* becomes the end of the main chain if it has more work than the present  *)
(* one; the work is not compared by a node that is far behind.             *)
CheckAndSave(c, d, k, b) ==
  LET n == c - StepSave
      s == Anc[b][n] IN
  IF /\ k < n /\ n =< Num[b]
     /\ Power[s] # 0
     /\ n - Num[d.tip] < CheckNums => Better(s, d.tip)
  THEN [d EXCEPT !.tip = s]
  ELSE d

(* One turn of the loop of DoMaxStatus, for the entry b: it asks for the   *)
(* header of b or below b, or for a body, or the chain is complete.        *)
(* Bodies found in the cache are stored on the way.                        *)
MaxStatusOf(c, cached, s, b) ==
  LET d == s.disk
      k == HeadNum(d, b)
      Ask(w) == [s EXCEPT !.want[b] = w] IN
  IF b \notin d.known THEN Ask([s.want[b] EXCEPT !.head = b])
  ELSE IF ~OnMain(d, Anc[b][k]) THEN Ask([s.want[b] EXCEPT !.head = Prev[Anc[b][k]]])
  ELSE LET empty  == Empty(d, k, b)
           absent == {j \in empty : Tree[Anc[b][j]] \notin cached}
           top    == IF absent = {} THEN k ELSE Max(absent)
           d1     == [d EXCEPT !.full = @ \cup {Anc[b][j] : j \in {i \in empty : i > top}}]
       IN IF absent # {}
            THEN [disk |-> d1, want |-> [s.want EXCEPT ![b] = [head |-> None, body |-> Anc[b][top]]]]
            ELSE [disk |-> CheckAndSave(c, d1, k, b), want |-> [s.want EXCEPT ![b] = NoWant]]

(* DoMaxStatus(Store of number n), with the bodies of some trees cached.   *)
DoMaxStatus(c, d, r, n, cached) ==
  LET list == r.lider[n]
      turn[i \in 0 .. Len(list)] ==
        IF i = 0 THEN [disk |-> d, want |-> r.want[n]]
        ELSE MaxStatusOf(c, cached, turn[i - 1], list[i])
  IN turn[Len(list)]

(* A handler ends with it.                                                 *)
MaxStatusStep(d, r, n, cached) ==
  \E s \in {DoMaxStatus(cur, d, r, n, cached)} :
    disk' = s.disk /\ ram' = [r EXCEPT !.want[n] = s.want]

(* AddHashToMaxLider without DoMaxStatus.  An entry that leaves the list   *)
(* takes its request along.                                                *)
AddHash(r, b) ==
  LET n    == Num[b]
      list == AddLider(r.lider[n], b)
      old  == DOMAIN r.want[n] IN
  IF IsDouble(r.lider[n], b) THEN r
  ELSE [r EXCEPT !.lider[n] = list,
                 !.want[n] = [c \in ToSet(list) |-> IF c \in old THEN @[c] ELSE NoWant]]

(* The result of AddHashToMaxLider is not -1.                              *)
GotPlace(r, b) == ~IsDouble(r.lider[Num[b]], b) /\ Place(r.lider[Num[b]], b) # 0

(* The bodies the cache may still hold.                                    *)
Cached(d) == SUBSET {Tree[b] : b \in d.full}

(* DB.WriteBlock of a block with its transactions.                         *)
Store(d, b) ==
  [d EXCEPT !.known = @ \cup {b}, !.full = IF Tree[b] = NoTree THEN @ ELSE @ \cup {b}]

(* AddBlockToChain writes only what FindBlockByHash does not find: when    *)
(* the header is stored already, the body at hand is not.                  *)
AddToChain(d, b) == IF b \in d.known THEN d ELSE Store(d, b)

(* The same for a block without its transactions (GetCopyBlock).           *)
AddHeader(d, b) == [d EXCEPT !.known = @ \cup {b}]
-----------------------------------------------------------------------------
(* MAXHASH from a peer, while the number is open.                          *)
ReceiveMaxHash(b) ==
  LET n == Num[b] IN
  /\ n \in cur - StepNew - 1 .. cur - StepNew + 1
  /\ ~IsDouble(ram.lider[n], b)
  /\ \E r \in {AddHash(ram, b)}, cached \in Cached(disk) : MaxStatusStep(disk, r, n, cached)
  /\ UNCHANGED << cur, upsets >>

(* FindHashInStore: the headers and bodies the entries of number n want.   *)
AskedHeads(n) == {ram.want[n][e].head : e \in DOMAIN ram.want[n]} \ {None}
AskedBodies(n) == {ram.want[n][e].body : e \in DOMAIN ram.want[n]} \ {None}

(* AddBlockHeader: the reply brings the header an entry of number n asks   *)
(* for.  One that is stored already changes nothing.                       *)
ReceiveHeader(n, b) ==
  /\ b \in AskedHeads(n)
  /\ b \notin disk.known
  /\ \E cached \in Cached(disk) :
       MaxStatusStep([disk EXCEPT !.known = @ \cup {b}], ram, n, cached)
  /\ UNCHANGED << cur, upsets >>

(* AddBlockBody: the reply brings the transactions an entry of number n    *)
(* asks for, for all stored blocks of that number with their TreeHash.  A  *)
(* body that is in the cache changes nothing.                              *)
ReceiveBody(n, b) ==
  LET same == {x \in disk.known : Num[x] = Num[b] /\ Tree[x] = Tree[b]} IN
  /\ b \in AskedBodies(n)
  /\ \E cached \in Cached(disk) :
       /\ Tree[b] \notin cached
       /\ MaxStatusStep([disk EXCEPT !.full = @ \cup same], ram, n, cached \cup {Tree[b]})
  /\ UNCHANGED << cur, upsets >>
-----------------------------------------------------------------------------
(* FillBodyFromTransfer: the tree of a new block with number n, once       *)
(* chosen, stays; outside of the open numbers the block is empty.          *)
InTransfer(c, n) == n \in c - StepLast .. c - StepNew
FillTree(c, r, n) ==
  IF r.tree[n] # None THEN {r.tree[n]}
  ELSE IF InTransfer(c, n) THEN TreesAt[n] ELSE {NoTree}
KeepTree(c, r, n, t) == IF InTransfer(c, n) THEN [r EXCEPT !.tree[n] = t] ELSE r

(* Mutant: bodies are not looked at.                                       *)
FullyLoaded_NoBodies(d, b) ==
  LET k == HeadNum(d, b) IN OnMain(d, Anc[b][k]) /\ Num[b] - k < Depth

(* IsFullLoadedBlock(b, Depth): b and its ancestors down to the main chain *)
(* are stored with their bodies, and are less than Depth many.             *)
FullyLoaded(d, b) ==
  LET k == HeadNum(d, b) IN
  /\ OnMain(d, Anc[b][k]) /\ Num[b] - k < Depth
  /\ Empty(d, k, b) = {}

(* Mutant: the main chain is extended one number too far.                  *)
SaveMain_OneMore(c, s) ==
  {[disk |-> [Store(s.disk, Own[s.disk.tip][t]) EXCEPT !.tip = Own[s.disk.tip][t]], ram |-> s.ram]
   : t \in {u \in Trees : Num[s.disk.tip] =< c - StepSave /\ Own[s.disk.tip][u] \in Block}} \cup {s}

(* Mutant: a mining node waits for a stored block as well.                 *)
SaveMain_NoOwn(c, s) ==
  LET n == Num[s.disk.tip] + 1 IN
  IF n > c - StepSave THEN {s}
  ELSE {LET cand == {b \in s.disk.known : Num[b] = n /\ Tree[b] = t /\ FullyLoaded(s.disk, b)}
        IN [disk |-> IF cand = {} THEN s.disk
                     ELSE [s.disk EXCEPT !.tip = CHOOSE b \in cand : \A x \in cand : x = b \/ Better(b, x)],
            ram |-> KeepTree(c, s.ram, n, t)]
        : t \in FillTree(c, s.ram, n)}

(* DoSaveMain: the next block of the main chain is the stored block with   *)
(* most work among those with the node's own transactions, whatever it     *)
(* extends; if there is none, a mining node takes a new block of its own.  *)
SaveMain(c, s) ==
  LET tip == s.disk.tip
      n   == Num[tip] + 1 IN
  IF Num[tip] >= c - StepSave THEN {s}
  ELSE {LET r    == KeepTree(c, s.ram, n, t)
            cand == {b \in s.disk.known : Num[b] = n /\ Tree[b] = t /\ FullyLoaded(s.disk, b)}
            best == CHOOSE b \in cand : \A x \in cand : x = b \/ Better(b, x)
        IN IF cand # {} THEN [disk |-> [s.disk EXCEPT !.tip = best], ram |-> r]
           ELSE IF setup.mining THEN [disk |-> [Store(s.disk, Own[tip][t]) EXCEPT !.tip = Own[tip][t]],
                                   ram |-> r]
           ELSE [disk |-> s.disk, ram |-> r]
        : t \in FillTree(c, s.ram, n)}

(* DoCreateNewBlock: a block of its own for number c - StepNew; a second   *)
(* one only by a mining node whose main chain got better below it.         *)
CreateNew(c, s) ==
  LET n   == c - StepNew
      p   == Anc[s.disk.tip][n - 1]
      was == IF s.ram.prev # None /\ Num[s.ram.prev] = n - 1 THEN s.ram.prev ELSE None
      r0  == [s.ram EXCEPT !.prev = was] IN
  IF n - 1 > Num[s.disk.tip] THEN {s}
  ELSE IF was # None /\ (~setup.mining \/ ~Better(p, was)) THEN {[s EXCEPT !.ram = r0]}
  ELSE {LET b == Own[p][t]
            r == KeepTree(c, r0, n, t)
        IN [disk |-> AddToChain(s.disk, b), ram |-> [AddHash(r, b) EXCEPT !.prev = p]]
        : t \in FillTree(c, r0, n)}

(* NetCacheClear and the clearing of old numbers.                          *)
ClearOld(c, r) ==
  LET old == {n \in Heights : n =< c - ClearMem} IN
  [r EXCEPT !.lider = [n \in Heights |-> IF n \in old THEN << >> ELSE @[n]],
            !.want  = [n \in Heights |-> IF n \in old THEN NoWants ELSE @[n]],
            !.tree  = [n \in Heights |-> IF n \in old THEN None ELSE @[n]],
            !.mined = [n \in Heights |-> IF n \in old THEN {} ELSE @[n]]]

(* A tick of the engine, every 100 ms.  The clock shows the same or the    *)
(* next block number, or it has been set, back or ahead: by a correction   *)
(* of the node's time (CorrectTimeByDelta, without limit the first time)   *)
(* or of the computer's, or because the process did not run for a while.   *)
Ticked(c) == UNION {CreateNew(c, s) : s \in SaveMain(c, [disk |-> disk, ram |-> ClearOld(c, ram)])}
DoNode(c) ==
  /\ c \in Clock
  /\ \/ c \in cur .. cur + 1 /\ UNCHANGED upsets
     \/ c \notin cur .. cur + 1 /\ upsets < MaxUpset /\ upsets' = upsets + 1
  /\ \E s \in Ticked(c) : disk' = s.disk /\ ram' = s.ram
  /\ cur' = c

(* AddFromMining: a miner found b for a block this node made.  The first   *)
(* block found for a number is stored, the others only when they get a     *)
(* place among the strongest hashes; one that is better than a block found *)
(* before for the same parent and transactions is stored without these.    *)
FromMining(b) ==
  LET n    == Num[b]
      more == \E m \in ram.mined[n] : Prev[m] = Prev[b] /\ Tree[m] = Tree[b]
      new  == n >= cur - StepLast - 1 IN
  /\ setup.mining
  /\ Own[Prev[b]][Tree[b]] \in disk.known
  /\ b \notin ram.mined[n]
  /\ more \/ Tree[b] \in FillTree(cur, ram, n)
  /\ \E r \in {IF more THEN ram ELSE KeepTree(cur, ram, n, Tree[b])} :
       /\ ram' = [IF new THEN AddHash(r, b) ELSE r EXCEPT !.mined[n] = @ \cup {b}]
       /\ disk' = IF ram.mined[n] # {} /\ ~(new /\ GotPlace(r, b)) THEN disk
                  ELSE IF more THEN AddHeader(disk, b) ELSE AddToChain(disk, b)
  /\ UNCHANGED << cur, upsets >>

(* TruncateChain(n) from the control panel.                                *)
Truncate(n) ==
  /\ n >= GenesisCount /\ n < Num[disk.tip]
  /\ upsets < MaxUpset /\ upsets' = upsets + 1
  /\ disk' = [disk EXCEPT !.tip = Anc[@][n]]
  /\ ram' = [ram EXCEPT !.lider = FreshRam.lider, !.want = FreshRam.want]
  /\ UNCHANGED cur

(* The process is killed and started again: what is in memory is lost.     *)
Restart ==
  /\ upsets < MaxUpset /\ upsets' = upsets + 1
  /\ ram' = FreshRam
  /\ UNCHANGED << cur, disk >>
-----------------------------------------------------------------------------
Init ==
  /\ setup \in Setups
  /\ cur \in StartCur
  /\ disk = [tip |-> GenesisBlock(GenesisCount - 1), known |-> Genesis, full |-> {}]
  /\ ram = FreshRam
  /\ upsets = 0

ReceiveReply ==
  \E n \in Heights :
    \/ \E b \in AskedHeads(n) : ReceiveHeader(n, b)
    \/ \E b \in AskedBodies(n) : ReceiveBody(n, b)

Next ==
  /\ UNCHANGED setup
  /\ \/ \E b \in setup.peer : ReceiveMaxHash(b)
     \/ ReceiveReply
     \/ \E c \in Clock : DoNode(c)
     \/ \E b \in Mined : FromMining(b)
     \/ \E n \in Heights : Truncate(n)
     \/ Restart

Spec == Init /\ [][Next]_vars

(* The engine's timer keeps ticking: weak fairness of a tick, written      *)
(* without ENABLED (what TLC evaluates slowly).                            *)
NothingToDo == Ticked(cur) \subseteq {[disk |-> disk, ram |-> ram]}
FairSpec == Spec /\ ([]<>NothingToDo \/ []<><<DoNode(cur)>>_vars)
-----------------------------------------------------------------------------
TypeOK ==
  /\ setup \in Setups
  /\ cur \in 0 .. MaxCur
  /\ disk.tip \in disk.known /\ disk.known \subseteq Block /\ disk.full \subseteq disk.known
  /\ \A n \in Heights :
       /\ ToSet(ram.lider[n]) \subseteq {b \in Block : Num[b] = n}
       /\ ram.want[n] \in [ToSet(ram.lider[n]) -> [head : Block \cup {None}, body : Block \cup {None}]]
       /\ ram.tree[n] \in Trees \cup {None}
       /\ ram.mined[n] \subseteq {b \in Mined : Num[b] = n}
  /\ ram.prev \in Block \cup {None}
  /\ upsets \in 0 .. MaxUpset

(* Whatever brought a block into the main chain - a reorganisation, the    *)
(* timer or a truncation - its header and its transactions are stored, and *)
(* those of every block below it (the body check of DoMaxStatus,           *)
(* IsFullLoadedBlock).                                                     *)
MainHasBodies ==
  \A n \in 0 .. Num[disk.tip] :
    Anc[disk.tip][n] \in disk.known /\ HasBody(disk, Anc[disk.tip][n])

(* No handler makes the main chain end with a block that is younger than   *)
(* STEP_SAVE block numbers, while the network still decides on it (Block-  *)
(* NumSave in CheckAndSaveChainToDB and DoSaveMain): such a block is there *)
(* only when the clock has been set back since, or when a truncation has   *)
(* cut back such a chain.                                                  *)
MainNotAhead ==
  [][\/ disk'.tip = disk.tip
     \/ Num[disk'.tip] =< cur' - StepSave
     \/ OnMain(disk, disk'.tip) /\ upsets' > upsets /\ cur' = cur]_vars

(* A chain is asked for from the top without leaving a gap: what an entry  *)
(* of the list wants lies in its own chain, every header above a wanted    *)
(* header is stored, and every body above a wanted body (DoMaxStatus after *)
(* any mix of replies, reorganisations, truncations and cached bodies).    *)
AskedInOrder ==
  \A n \in Heights : \A e \in DOMAIN ram.want[n] :
    LET w == ram.want[n][e] IN
    /\ w.head # None =>
         /\ OnMain([tip |-> e], w.head)
         /\ \A j \in Num[w.head] + 1 .. n : Anc[e][j] \in disk.known
    /\ w.body # None =>
         /\ OnMain([tip |-> e], w.body)
         /\ \A j \in Num[w.body] .. n : Anc[e][j] \in disk.known
         /\ \A j \in Num[w.body] + 1 .. n : HasBody(disk, Anc[e][j])

(* How the main chain may move, over all handlers: to a chain with more    *)
(* work; by one block number, leaving fewer than MAX_BLOCK_RECALC_DEPTH    *)
(* blocks of it behind (DoSaveMain); by a truncation; or anywhere when the *)
(* node is MAX_BLOCKNUM_FOR_CHECK_SAVE behind the clock.                   *)
MainMoves ==
  [][\/ disk'.tip = disk.tip
     \/ Better(disk'.tip, disk.tip)
     \/ /\ Num[disk'.tip] = Num[disk.tip] + 1
        /\ \E k \in Heights : k > Num[disk'.tip] - Depth /\ k =< Num[disk.tip]
                              /\ Anc[disk.tip][k] = Anc[disk'.tip][k]
     \/ OnMain(disk, disk'.tip) /\ upsets' > upsets /\ cur' = cur
     \/ cur' - StepSave - Num[disk.tip] >= CheckNums]_vars

(* The main chain of a mining node catches up with the clock whatever the  *)
(* peers send: DoSaveMain falls back on a block of its own, also after a   *)
(* truncation and after a restart has lost the transactions it had chosen. *)
MainGrows == (setup.mining /\ Num[disk.tip] < cur - StepSave) ~> (Num[disk.tip] >= cur - StepSave)

(* "The maximal chain of blocks for the amount of PoW" (jinn-consensus.js, *)
(* the comment at its head): except for a truncation the main chain never  *)
(* loses work.                                                             *)
MaximalChain ==
  [][SumPow[disk'.tip] >= SumPow[disk.tip] \/ (upsets' > upsets /\ cur' = cur)]_vars
=============================================================================
