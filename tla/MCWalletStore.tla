---------------------------- MODULE MCWalletStore ----------------------------
(* Instances of WalletStore for TLC.  Amounts are in sub-units. *)
EXTENDS WalletStore, TLC

CONSTANTS w1, r1, r2, q1

Money(kind, w, a, r) == [kind |-> kind, wallet |-> w, amount |-> a, ref |-> r]
Withdraw(w, a) == [kind |-> "request", wallet |-> w, amount |-> a]
Review(kind, q) == [kind |-> kind, id |-> q]
Ensure(w) == [kind |-> "ensure", wallet |-> w]

\* A deposit, a debit that the deposit covers once, calls without reference id, and
\* the creation of the wallet by a balance query; odd amounts have more decimals
\* than a column stores when Scale = 2.
MoneyMix == {Money("credit", w1, 7, r1), Money("debit", w1, 5, r2),
             Money("debit", w1, 1, NoRef), Ensure(w1)}

\* A withdrawal, its two reviews, and money calls that race with them.
WithdrawalMix == {Money("credit", w1, 3, r1), Withdraw(w1, 1),
                  Review("approve", q1), Review("reject", q1)}

ProcSymmetry == Permutations(Procs)
==============================================================================
