---------------------------- MODULE MCAccounts ----------------------------
EXTENDS Accounts
CONSTANTS a, b

MCKey == {a, b}

C(n, m) == [coin |-> n, cent |-> m]
To(id, sum) == [id |-> id, sum |-> sum, key |-> NoKey]
Rw(key, smart, sum) == [Blank EXCEPT !.key = key, !.smart = smart, !.coin = sum]

\* The system, the developer, an owner, a contract that sends on, one that refuses.
MCGenesisRows == << Rw(NoKey, 0, C(9, 0)), Rw(b, 0, C(0, 0)), Rw(a, 0, C(6, 1)), Rw(b, 1, C(0, 1)), Rw(b, 2, C(0, 0)) >>
MCGenesisSmarts == [i \in 1 .. 3 |-> [kind |-> << "token", "forward", "refuse" >>[i], num |-> 0, account |-> 0]]
MCReward == C(0, 2)

T(ver, from, op, to, signer) ==
  [type |-> "transfer", ver |-> ver, from |-> from, op |-> op, to |-> to, signer |-> signer,
   cur |-> 0, key |-> b, smart |-> 0, body |-> "none"]
MCTx == {
  T(4, 2, 1, << To(1, C(1, 2)) >>, a),
  T(3, 2, 0, << [To(0, C(2, 1)) EXCEPT !.key = b] >>, b),
  T(3, 2, 2, << [To(0, C(2, 1)) EXCEPT !.key = b] >>, a),
  T(4, 2, 3, << To(5, C(0, 2)) >>, a),
  T(3, 5, 0, << To(2, C(0, 2)), To(2, C(0, 2)) >>, b),
  T(4, 2, 1, << To(3, C(1, 1)) >>, a),
  T(4, 2, 2, << To(4, C(0, 1)) >>, a),
  T(2, 2, 0, << To(1, C(0, 2)), To(2, C(3, 0)), To(1, C(3, 0)) >>, a),
  T(4, 2, 2, << To(1, C(0, 2)), To(2, C(3, 0)), To(5, C(3, 0)) >>, a),
  [T(4, 2, 1, << To(0, C(2, 0)) >>, a) EXCEPT !.body = "token"],
  [T(4, 2, 2, << To(0, C(1, 0)) >>, a) EXCEPT !.body = "account"],
  [T(4, 2, 0, << >>, a) EXCEPT !.type = "create", !.cur = 3, !.smart = 1],
  T(4, 5, 1, << To(6, C(1, 1)) >>, a) }
=============================================================================
