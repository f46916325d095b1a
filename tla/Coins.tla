------------------------------- MODULE Coins -------------------------------
(***************************************************************************)
(* Sums of money: whole coins and cents, of which a coin has Cents (a      *)
(* thousand million).  The cents of a sum are below that at all times, so  *)
(* a sum has one form, and two of them are added and subtracted with a     *)
(* carry.                                                                  *)
(***************************************************************************)
EXTENDS Integers

CONSTANT Cents    \* MAX_SUM_CENT

ASSUME CentsAssumption == Cents \in Nat \ {0, 1}

Coin == [coin : Nat, cent : 0 .. Cents - 1]
NoCoin == [coin |-> 0, cent |-> 0]

(* What a sum is worth, in cents.                                          *)
Worth(c) == c.coin * Cents + c.cent

(* Mutant: a full coin of cents is not carried.                            *)
ADD_LateCarry(a, b) ==
  IF a.cent + b.cent > Cents
    THEN [coin |-> a.coin + b.coin + 1, cent |-> a.cent + b.cent - Cents]
    ELSE [coin |-> a.coin + b.coin, cent |-> a.cent + b.cent]

ADD(a, b) ==
  IF a.cent + b.cent >= Cents
    THEN [coin |-> a.coin + b.coin + 1, cent |-> a.cent + b.cent - Cents]
    ELSE [coin |-> a.coin + b.coin, cent |-> a.cent + b.cent]

(* Mutant: nothing is borrowed from the coins.                             *)
SUB_NoBorrow(a, b) ==
  IF a.cent >= b.cent
    THEN [coin |-> a.coin - b.coin, cent |-> a.cent - b.cent]
    ELSE [coin |-> a.coin - b.coin, cent |-> Cents + a.cent - b.cent]

(* SUB changes its first argument and tells by the sign of the coins that  *)
(* there was not enough.                                                   *)
SUB(a, b) ==
  IF a.cent >= b.cent
    THEN [coin |-> a.coin - b.coin, cent |-> a.cent - b.cent]
    ELSE [coin |-> a.coin - b.coin - 1, cent |-> Cents + a.cent - b.cent]
IsEnough(rest) == rest.coin >= 0

(* The test TRTransferMoney makes before it pays.                          *)
LessThan(a, b) == a.coin < b.coin \/ (a.coin = b.coin /\ a.cent < b.cent)

(* DIV: the coins that do not divide become cents.                         *)
DIV(c, k) ==
  LET cents == c.cent \div k + ((c.coin % k) * Cents) \div k IN
  IF cents >= Cents THEN [coin |-> c.coin \div k + 1, cent |-> cents - Cents]
  ELSE [coin |-> c.coin \div k, cent |-> cents]
=============================================================================
