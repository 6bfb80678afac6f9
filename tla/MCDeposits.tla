----------------------------- MODULE MCDeposits -----------------------------
(* An instance of Deposits for TLC. *)
EXTENDS Deposits, TLC

CONSTANTS x, u1, n1, n2, n3, n4, n5, n6, n7, s1, s2, usdt, doge

\* All requests come through one proxy, and carry the token of one user.
MCIPOf == [r \in Requests |-> x]
MCUserOf == [r \in Requests |-> u1]

Good == [nonce |-> n1, sysNo |-> s1, uid |-> u1, pair |-> usdt, amount |-> 2,
         confirmed |-> TRUE, signed |-> TRUE, ahead |-> 0]

\* A deposit, the same deposit signed again by a clock that is ahead, and before its
\* confirmation by one that is too far ahead; one webhook each that fails a check; and
\* two deposits without a number.
MCDeliveries ==
    {Good, [Good EXCEPT !.nonce = n2, !.ahead = 1],
     [Good EXCEPT !.nonce = n3, !.confirmed = FALSE, !.ahead = 2],
     [Good EXCEPT !.sysNo = s2, !.signed = FALSE],
     [Good EXCEPT !.nonce = n4, !.sysNo = s2, !.amount = 1],
     [Good EXCEPT !.nonce = n5, !.sysNo = s2, !.pair = doge],
     [Good EXCEPT !.nonce = n6, !.sysNo = NoSysNo],
     [Good EXCEPT !.nonce = n7, !.sysNo = NoSysNo, !.amount = 3]}

RequestSymmetry == Permutations(Requests)
=============================================================================
