----------------------------- MODULE MCSportsbook -----------------------------
(* Instances of Sportsbook for TLC. *)
EXTENDS Sportsbook

CONSTANTS u1, r1, r2, o1, h1, h2

MCRefs ==
    BetRefs \cup {SettleRef(r) : r \in BetRefs} \cup {CancelRef(r) : r \in BetRefs}
      \cup {DepositRef(u) : u \in Wallets}

Place(u, r, a) == [user |-> u, ref |-> r, pick |-> o1, stake |-> a]

\* A bet, and the same reference id with another stake.
OneBet == {Place(u1, r1, 2), Place(u1, r1, 1)}

\* Two bets, only one of which the deposit covers.
TwoBets == {Place(u1, r1, 2), Place(u1, r2, 2)}
===============================================================================
