----------------------------- MODULE JumpIndex -----------------------------
(***************************************************************************)
(* The jump pointers in the stored headers (HeadPosH, HeadPosB), with      *)
(* which DoMaxStatus finds where a downloaded chain leaves the main chain  *)
(* and which body it lacks without walking it block by block.              *)
(*                                                                         *)
(* A pointer is written once a walk was made and is followed for ever      *)
(* after, while the main chain is reorganised and truncated and bodies     *)
(* arrive.  GetFirstHeadBlock0 and GetFirstEmptyBodyBlock0 are the walks   *)
(* without pointers, the references the code compares itself with under    *)
(* TEST_BLOCK_LIST.                                                        *)
(***************************************************************************)
EXTENDS Blocks, FiniteSetsExt

CONSTANTS
  Seed,       \* blocks whose hashes get into the list of the strongest
  Bodyless,   \* blocks without transactions: no body to load (genesis blocks have none)
  Base,       \* pointers spread over distances Base^0, Base^1, ... (10)
  HotDelta,   \* JINN_CONST.HOT_BLOCK_DELTA
  NoJump

VARIABLES
  now,     \* GetCurrentBlockNumByTime
  tip,     \* last block of the main chain
  known,   \* headers stored
  full,    \* blocks whose body is stored
  toH,     \* toH[b]: the block HeadPosH of b points to
  toB      \* toB[b]: the block HeadPosB of b points to

jumpVars == << now, tip, known, full, toH, toB >>
-----------------------------------------------------------------------------
InMain(b) == Num[b] =< Num[tip] /\ Anc[tip][Num[b]] = b

HasPrev(b) == Num[b] > 0 /\ Prev[b] \in known

NeedBody(b) == b \notin Bodyless \cup Genesis \cup full

(* GetFirstHeadBlock0 and GetFirstEmptyBodyBlock0: the number they end at. *)
Head0(s) == Max({n \in 0 .. Num[s] : InMain(Anc[s][n]) \/ ~HasPrev(Anc[s][n])})

Empty0(first, s) == {n \in first .. Num[s] : NeedBody(Anc[s][n])}
-----------------------------------------------------------------------------
(* The block a walk of GetFirstHeadBlock from s goes to after number n; a  *)
(* pointer of s itself is not used.                                        *)
NextH(s, n) ==
  IF n < Num[s] /\ toH[Anc[s][n]] # NoJump THEN Num[toH[Anc[s][n]]] ELSE n - 1

(* Mutant: the walk ends at the first number the main chain has.           *)
WalkH_ByNumber(s) ==
  LET Visited[n \in 0 .. Num[s]] ==
        IF n =< Num[tip] \/ ~HasPrev(Anc[s][n]) THEN {n} ELSE {n} \cup Visited[NextH(s, n)]
  IN Visited[Num[s]]

(* The numbers GetFirstHeadBlock visits; it ends at the lowest.            *)
WalkH(s) ==
  LET Visited[n \in 0 .. Num[s]] ==
        IF InMain(Anc[s][n]) \/ (~HasPrev(Anc[s][n]) /\ NextH(s, n) = n - 1) THEN {n}
        ELSE {n} \cup Visited[NextH(s, n)]
  IN Visited[Num[s]]

FirstHead(s) == Min(WalkH(s))

(* A walk offers AddJumpToArr the blocks it steps down from, and those it  *)
(* jumps to; not a block it stepped down to and jumps away from.           *)
Offered(s) ==
  LET seen == WalkH(s) \ {Num[s]}
      jumps == {n \in seen : toH[Anc[s][n]] # NoJump} IN
  (seen \ jumps) \cup {n \in jumps : \E m \in jumps : NextH(s, m) = n}

(* AddJumpToArr: of the offered numbers at a distance of Base^l up to      *)
(* Base^(l+1) from s the first one, and the number where the walk ends.    *)
Stops(s) ==
  LET Level(n) == CHOOSE l \in 0 .. MaxNum : Base ^ l =< Num[s] - n /\ Num[s] - n < Base ^ (l + 1)
      Taken(n) == \A m \in Offered(s) : m > n => Level(m) # Level(n)
  IN {n \in WalkH(s) \ {Num[s]} : n = FirstHead(s) \/ (n \in Offered(s) /\ Taken(n))}

(* SetBlockJump "H" from s to the first stop, from there to the next, ...; *)
(* not from hot blocks.                                                    *)
NewH(s) ==
  LET from == Stops(s) \cup {Num[s]} IN
  [b \in Block |->
     IF /\ Num[b] \in from /\ Num[b] =< Num[s] /\ Anc[s][Num[b]] = b
        /\ Num[b] # Min(from) /\ Num[b] =< now - HotDelta
     THEN Anc[s][Max({n \in from : n < Num[b]})]
     ELSE toH[b]]
-----------------------------------------------------------------------------
(* The numbers GetFirstEmptyBodyBlock visits above the number first.       *)
WalkB(first, s) ==
  LET Over(n) == n < first \/ InMain(Anc[s][n])
      Visited[n \in 0 .. Num[s]] ==
        IF Over(n) \/ NeedBody(Anc[s][n]) \/ (n = 0 /\ toB[Anc[s][n]] = NoJump) THEN {n}
        ELSE {n} \cup Visited[IF toB[Anc[s][n]] # NoJump THEN Num[toB[Anc[s][n]]] ELSE n - 1]
  IN Visited[Num[s]]

(* The block GetFirstEmptyBodyBlock returns, as the set of its number.     *)
Empty(first, s) ==
  {n \in {Min(WalkB(first, s))} : n >= first /\ ~InMain(Anc[s][n]) /\ NeedBody(Anc[s][n])}

(* Mutant: the pointer leads past the block whose body is missing.         *)
NewB_PastEmpty(first, s) ==
  LET last == Min(WalkB(first, s)) IN
  IF last > 0 THEN [toB EXCEPT ![s] = Anc[s][last - 1]] ELSE toB

(* SetBlockJump "B" from s to the last block visited.                      *)
NewB(first, s) ==
  LET last == Min(WalkB(first, s)) IN
  IF last < Num[s] THEN [toB EXCEPT ![s] = Anc[s][last]] ELSE toB
-----------------------------------------------------------------------------
(* A header arrives: of an entry of the list, or the one below a stored    *)
(* one.                                                                    *)
Header(b) ==
  /\ b \notin known
  /\ b \in Seed \/ \E c \in known : Num[c] > 0 /\ Prev[c] = b
  /\ known' = known \cup {b}
  /\ UNCHANGED << now, tip, full, toH, toB >>

(* SetTxData: the body of a stored block arrives.                          *)
Body(b) ==
  /\ b \in known /\ NeedBody(b)
  /\ full' = full \cup {b}
  /\ UNCHANGED << now, tip, known, toH, toB >>

(* The main chain comes to end with any complete stored chain.             *)
SetMain(b) ==
  /\ b # tip /\ Num[b] >= GenesisCount - 1
  /\ \A n \in 0 .. Num[b] : Anc[b][n] \in known /\ ~NeedBody(Anc[b][n])
  /\ tip' = b
  /\ UNCHANGED << now, known, full, toH, toB >>

(* DoMaxStatus for the entry s: it looks for the head, and when that is in *)
(* the main chain for a missing body.                                      *)
DoMaxStatus(s) ==
  /\ s \in known \cap Seed
  /\ toH' = IF FirstHead(s) < Num[s] THEN NewH(s) ELSE toH
  /\ toB' = IF InMain(Anc[s][FirstHead(s)]) THEN NewB(FirstHead(s), s) ELSE toB
  /\ UNCHANGED << now, tip, known, full >>

Tick == now < MaxNum + HotDelta /\ now' = now + 1 /\ UNCHANGED << tip, known, full, toH, toB >>

JumpInit ==
  /\ now = MaxNum
  /\ tip = GenesisBlock(GenesisCount - 1)
  /\ known = Genesis /\ full = {}
  /\ toH = [b \in Block |-> NoJump] /\ toB = [b \in Block |-> NoJump]

JumpNext ==
  \/ \E b \in Block : Header(b) \/ Body(b) \/ SetMain(b) \/ DoMaxStatus(b)
  \/ Tick

JumpSpec == JumpInit /\ [][JumpNext]_jumpVars
-----------------------------------------------------------------------------
(* Pointers lead to stored blocks further down in the same chain: no walk  *)
(* goes round in circles (the checks of SetBlockJump).                     *)
PointersOK ==
  /\ now \in Nat /\ tip \in known /\ known \subseteq Block /\ full \subseteq known
  /\ DOMAIN toH = Block /\ DOMAIN toB = Block
  /\ \A b \in Block : \A to \in {toH[b], toB[b]} \ {NoJump} :
       to \in known /\ Num[to] < Num[b] /\ Anc[b][Num[to]] = to

(* Stale pointers never make a chain look better connected than it is: the *)
(* head found is at most the one the walk without pointers finds, it is in *)
(* the main chain if and only if that one is, and when headers are missing *)
(* both find the same gap (the check at the end of GetFirstHeadBlock).     *)
HeadNotAbove ==
  \A s \in known :
    /\ FirstHead(s) =< Head0(s)
    /\ InMain(Anc[s][FirstHead(s)]) <=> InMain(Anc[s][Head0(s)])
    /\ ~InMain(Anc[s][Head0(s)]) => FirstHead(s) = Head0(s)

(* For a chain that meets the main chain, the body asked for next is the   *)
(* highest one missing, whatever was pointed past before and however the   *)
(* main chain has moved since (the check in GetFirstEmptyBodyBlock).       *)
EmptyAgrees ==
  \A s \in known :
    InMain(Anc[s][Head0(s)]) =>
      LET need == Empty0(FirstHead(s), s) IN
      Empty(FirstHead(s), s) = {n \in need : \A m \in need : m =< n}
=============================================================================
