------------------------------ MODULE Sportsbook ------------------------------
(***************************************************************************)
(* The sportsbook service (internal/sportsbook): PlaceBet and SettleBet    *)
(* requests and the settlement scheduler, run concurrently over the bets   *)
(* table, the odds feed and the wallet service.                            *)
(*                                                                         *)
(* Every database statement and every remote call of a handler is a step   *)
(* of its own.  The wallet service is WalletLedger: a debit or credit that *)
(* reaches it is one atomic step, repeated with the same reference id it   *)
(* returns the transaction of the first.  A call whose reply does not      *)
(* arrive may still reach the wallet later, or never (lateCalls).          *)
(*                                                                         *)
(* A handler returns to "idle" with its reply; the replies themselves are  *)
(* left out.  Amounts are whole stored units (Scale = 1 in the instances). *)
(***************************************************************************)
EXTENDS WalletLedger

CONSTANTS
    Handlers,      \* gRPC request handlers
    Schedulers,    \* settlement schedulers, one per running service
    BetRefs,       \* reference ids clients choose for their bets
    Outcomes,      \* outcomes that bets are placed on
    Odds,          \* decimal odds
    BetCalls,      \* PlaceBet requests that clients make, and repeat
    AdminResults,  \* results that administrators settle with
    FinalResults,  \* whether the feed keeps an outcome once decided
    Deposit,       \* amount each user deposits once
    MaxFaults      \* bound on lost calls and abandoned requests

Procs == Handlers \cup Schedulers

\* Reference ids of wallet calls other than the stake's.
SettleRef(r) == <<"settle", r>>
CancelRef(r) == <<"cancel", r>>
DepositRef(u) == <<"deposit", u>>

\* A bet is known by its user and reference id: UNIQUE(user_id, reference_id).
BetIds == Wallets \X BetRefs

Results == {"won", "lost", "cancelled"}

BetStatus == {"none", "debit_pending", "pending"} \cup Results

OutcomeStatus == {"active", "suspended"} \cup Results

ASSUME BetRefsAssumption ==
    Refs = BetRefs \cup {SettleRef(r) : r \in BetRefs} \cup {CancelRef(r) : r \in BetRefs}
             \cup {DepositRef(u) : u \in Wallets}
ASSUME BetCallsAssumption ==
    BetCalls \subseteq [user : Wallets, ref : BetRefs, pick : Outcomes, stake : Nat \ {0}]
ASSUME BettingAssumption ==
    /\ Odds \subseteq Nat \ {0}
    /\ AdminResults \subseteq Results
    /\ FinalResults \in BOOLEAN
    /\ Deposit \in Nat \ {0}
    /\ MaxFaults \in Nat

VARIABLES
    feed,       \* what the odds feed service answers about an outcome and its market
    bets,       \* the bets table
    calls,      \* the request each handler is working on
    lateCalls,  \* wallet calls given up by their handler
    faults      \* lost calls and abandoned requests so far

vars == <<wallets, ledger, withdrawals, feed, bets, calls, lateCalls, faults>>

Quote == [market : {"active", "suspended"}, status : OutcomeStatus, odds : Odds]

\* debit, credit: whether the transaction id is recorded.
Bet == [status : BetStatus, pick : Outcomes \cup {NoRef}, stake : Nat, payout : Nat,
        debit : BOOLEAN, credit : BOOLEAN]

NoBet == [status |-> "none", pick |-> NoRef, stake |-> 0, payout |-> 0,
          debit |-> FALSE, credit |-> FALSE]

BetSteps == {"idle", "check", "market", "outcome", "create", "debit", "cancel", "finalize",
          "load", "mark", "credit", "record"}

Call == [step : BetSteps, bet : BetIds \cup {NoRef}, pick : Outcomes \cup {NoRef},
         stake : Nat, payout : Nat, result : Results \cup {"none"}]

NoCall == [step |-> "idle", bet |-> NoRef, pick |-> NoRef, stake |-> 0, payout |-> 0,
           result |-> "none"]

WalletCall == [kind : {"debit", "credit"}, user : Wallets, amount : Nat, ref : Refs]

TypeOK ==
    /\ LedgerTypeOK
    /\ feed \in [Outcomes -> Quote]
    /\ bets \in [BetIds -> Bet]
    /\ calls \in [Procs -> Call]
    /\ lateCalls \subseteq WalletCall
    /\ faults \in 0 .. MaxFaults

Init ==
    /\ LedgerInit
    /\ feed \in [Outcomes -> [market : {"active"}, status : {"active"}, odds : Odds]]
    /\ bets = [b \in BetIds |-> NoBet]
    /\ calls = [p \in Procs |-> NoCall]
    /\ lateCalls = {}
    /\ faults = 0

-----------------------------------------------------------------------------
(* The odds feed and the users, as the sportsbook meets them. *)

\* A sync or a pushed update changes an outcome or its market.
FeedUpdate(o) ==
    /\ FinalResults => feed[o].status \notin Results
    /\ \E q \in Quote : q # feed[o] /\ feed' = [feed EXCEPT ![o] = q]
    /\ UNCHANGED <<ledgerVars, bets, calls, lateCalls, faults>>

\* The one deposit of a user.
FundWallet(u) ==
    /\ Credit(u, Deposit, DepositRef(u))
    /\ UNCHANGED <<feed, bets, calls, lateCalls, faults>>

-----------------------------------------------------------------------------
(* Common to the steps of a handler. *)

At(p, s) == calls[p].step = s

Goto(p, s) == calls' = [calls EXCEPT ![p].step = s]

Finish(p) == calls' = [calls EXCEPT ![p] = NoCall]

\* The bets, the wallet and the feed are only read.
OnlyReads == UNCHANGED <<ledgerVars, feed, bets, lateCalls, faults>>

SetBet(b, new) ==
    /\ bets' = [bets EXCEPT ![b] = new]
    /\ UNCHANGED <<ledgerVars, feed, lateCalls, faults>>

User(p) == calls[p].bet[1]
RefOf(p) == calls[p].bet[2]

\* Faulty variant: a cancelled bet gets its payout back.
CallOfPayout(p) ==
    IF At(p, "debit")
    THEN [kind |-> "debit", user |-> User(p), amount |-> calls[p].stake, ref |-> RefOf(p)]
    ELSE [kind |-> "credit", user |-> User(p), amount |-> bets[calls[p].bet].payout,
          ref |-> IF calls[p].result = "won" THEN SettleRef(RefOf(p)) ELSE CancelRef(RefOf(p))]

\* The wallet call that handler p is making.
CallOf(p) ==
    IF At(p, "debit")
    THEN [kind |-> "debit", user |-> User(p), amount |-> calls[p].stake, ref |-> RefOf(p)]
    ELSE [kind |-> "credit", user |-> User(p),
          amount |-> IF calls[p].result = "won" THEN bets[calls[p].bet].payout
                     ELSE bets[calls[p].bet].stake,
          ref |-> IF calls[p].result = "won" THEN SettleRef(RefOf(p)) ELSE CancelRef(RefOf(p))]

\* The wallet serves call c: it returns the transaction that already has the
\* reference id, or posts a new one.
Succeeds(c) == Posted(c.ref) \/ c.kind = "credit" \/ Covers(c.user, c.amount)

Apply(c) ==
    IF Posted(c.ref) THEN UNCHANGED ledgerVars
    ELSE IF c.kind = "credit" THEN Credit(c.user, c.amount, c.ref)
    ELSE Debit(c.user, c.amount, c.ref)

Serve(c) ==
    \/ Succeeds(c) /\ Apply(c)
    \/ ~Succeeds(c) /\ UNCHANGED ledgerVars

-----------------------------------------------------------------------------
(* PlaceBet *)

BeginPlace(p, c) ==
    /\ p \in Handlers
    /\ At(p, "idle")
    /\ calls' = [calls EXCEPT ![p] = [NoCall EXCEPT !.step = "check",
                                        !.bet = <<c.user, c.ref>>, !.pick = c.pick,
                                        !.stake = c.stake]]
    /\ OnlyReads

\* GetBetByReference: a bet already placed is returned as it is.
CheckReference(p) ==
    /\ At(p, "check")
    /\ IF bets[calls[p].bet].status = "none" THEN Goto(p, "market") ELSE Finish(p)
    /\ OnlyReads

\* GetEvent and ListMarkets: the market must be active.
ReadMarket(p) ==
    /\ At(p, "market")
    /\ IF feed[calls[p].pick].market = "active" THEN Goto(p, "outcome") ELSE Finish(p)
    /\ OnlyReads

\* ListOutcomes: the outcome must be active; its odds are captured.
ReadOutcome(p) ==
    /\ At(p, "outcome")
    /\ IF feed[calls[p].pick].status = "active"
       THEN calls' = [calls EXCEPT ![p].step = "create",
                                   ![p].payout = calls[p].stake * feed[calls[p].pick].odds]
       ELSE Finish(p)
    /\ OnlyReads

\* Faulty variant: an existing bet is overwritten.
CreateBetAnyway(p) ==
    /\ At(p, "create")
    /\ Goto(p, "debit")
    /\ SetBet(calls[p].bet, [NoBet EXCEPT !.status = "debit_pending", !.pick = calls[p].pick,
                                          !.stake = calls[p].stake, !.payout = calls[p].payout])

\* CreateBet: INSERT; the bet that already has the key is returned instead.
CreateBet(p) ==
    LET b == calls[p].bet IN
    /\ At(p, "create")
    /\ IF bets[b].status # "none"
       THEN Finish(p) /\ OnlyReads
       ELSE /\ Goto(p, "debit")
            /\ SetBet(b, [NoBet EXCEPT !.status = "debit_pending", !.pick = calls[p].pick,
                                       !.stake = calls[p].stake, !.payout = calls[p].payout])

\* Faulty variant: the error of DebitWallet is ignored.
DebitStakeIgnored(p) ==
    /\ At(p, "debit")
    /\ Serve(CallOf(p))
    /\ Goto(p, "finalize")
    /\ UNCHANGED <<feed, bets, lateCalls, faults>>

\* DebitWallet with the bet's reference id, answered.
DebitStake(p) ==
    /\ At(p, "debit")
    /\ Serve(CallOf(p))
    /\ Goto(p, IF Succeeds(CallOf(p)) THEN "finalize" ELSE "cancel")
    /\ UNCHANGED <<feed, bets, lateCalls, faults>>

\* Faulty variant: the bet is left as it is.
CancelUnpaidNothing(p) ==
    /\ At(p, "cancel")
    /\ Finish(p)
    /\ OnlyReads

\* UpdateBetStatus to cancelled after DebitWallet returned an error.
CancelUnpaid(p) ==
    /\ At(p, "cancel")
    /\ Finish(p)
    /\ SetBet(calls[p].bet, [bets[calls[p].bet] EXCEPT !.status = "cancelled"])

\* UpdateBetStatusAndDebitTx
FinalizeBet(p) ==
    /\ At(p, "finalize")
    /\ Finish(p)
    /\ SetBet(calls[p].bet, [bets[calls[p].bet] EXCEPT !.status = "pending", !.debit = TRUE])

-----------------------------------------------------------------------------
(* SettleBet *)

BeginSettle(p, b, result) ==
    /\ At(p, "idle")
    /\ calls' = [calls EXCEPT ![p] = [NoCall EXCEPT !.step = "load", !.bet = b,
                                                    !.result = result]]
    /\ OnlyReads

\* An administrator settles a bet.
AdminSettle(p, b) ==
    /\ p \in Handlers
    /\ bets[b].status # "none"
    /\ \E result \in AdminResults : BeginSettle(p, b, result)

\* ListPendingBets returns the bet.
Listed(b) == bets[b].status = "pending"

\* Faulty variant: whatever the status of the outcome is becomes the result.
ResolveOutcomeRaw(o) == feed[o].status

\* resolveOutcomeStatus; "none" when the outcome is not decided.
ResolveOutcome(o) ==
    IF feed[o].status \in Results THEN feed[o].status ELSE "none"

\* The scheduler reads a pending bet and the status of its outcome.
AutoSettle(p, b) ==
    /\ p \in Schedulers
    /\ Listed(b)
    /\ ResolveOutcome(bets[b].pick) # "none"
    /\ BeginSettle(p, b, ResolveOutcome(bets[b].pick))

\* Faulty variant: the status is not checked.
LoadBetAny(p) ==
    /\ At(p, "load")
    /\ Goto(p, "mark")
    /\ OnlyReads

\* GetBet: only a pending bet is settled.
LoadBet(p) ==
    /\ At(p, "load")
    /\ IF bets[calls[p].bet].status = "pending" THEN Goto(p, "mark") ELSE Finish(p)
    /\ OnlyReads

\* Faulty variant: the bet keeps its status until the credit is recorded.
MarkSettledLater(p) ==
    /\ At(p, "mark")
    /\ Goto(p, "credit")
    /\ OnlyReads

\* UpdateBetStatusAndOutcome, whatever the status is by now.
MarkSettled(p) ==
    LET b == calls[p].bet IN
    /\ At(p, "mark")
    /\ IF calls[p].result = "lost" THEN Finish(p) ELSE Goto(p, "credit")
    /\ SetBet(b, [bets[b] EXCEPT !.status = calls[p].result])

\* CreditWallet with the payout or the stake, answered.
CreditUser(p) ==
    /\ At(p, "credit")
    /\ Serve(CallOf(p))
    /\ Goto(p, "record")
    /\ UNCHANGED <<feed, bets, lateCalls, faults>>

\* Faulty variant: the transaction id is not written.
RecordCreditNothing(p) ==
    /\ At(p, "record")
    /\ Finish(p)
    /\ OnlyReads

\* SetCreditTransactionID
RecordCredit(p) ==
    /\ At(p, "record")
    /\ Finish(p)
    /\ SetBet(calls[p].bet, [bets[calls[p].bet] EXCEPT !.credit = TRUE])

-----------------------------------------------------------------------------
(* Failures. *)

Fault == faults < MaxFaults /\ faults' = faults + 1

\* A wallet call returns an error other than the wallet's own: PlaceBet goes on to
\* cancel the bet, SettleBet returns.  The call may still arrive.
LoseReply(p) ==
    /\ Fault
    /\ calls[p].step \in {"debit", "credit"}
    /\ lateCalls' = lateCalls \cup {CallOf(p)}
    /\ IF At(p, "debit") THEN Goto(p, "cancel") ELSE Finish(p)
    /\ UNCHANGED <<ledgerVars, feed, bets>>

\* The request ends where it is: a statement fails, its context is cancelled or
\* the service stops.  A wallet call under way may still arrive.
Abandon(p) ==
    /\ Fault
    /\ ~At(p, "idle")
    /\ lateCalls' = lateCalls \cup
                      (IF calls[p].step \in {"debit", "credit"} THEN {CallOf(p)} ELSE {})
    /\ Finish(p)
    /\ UNCHANGED <<ledgerVars, feed, bets>>

ServeLate(c) ==
    /\ Serve(c)
    /\ lateCalls' = lateCalls \ {c}
    /\ UNCHANGED <<feed, bets, calls, faults>>

DropLate(c) ==
    /\ lateCalls' = lateCalls \ {c}
    /\ UNCHANGED <<ledgerVars, feed, bets, calls, faults>>

-----------------------------------------------------------------------------
HandlerStep(p) ==
    \/ CheckReference(p) \/ ReadMarket(p) \/ ReadOutcome(p) \/ CreateBet(p)
    \/ DebitStake(p) \/ CancelUnpaid(p) \/ FinalizeBet(p)
    \/ LoadBet(p) \/ MarkSettled(p) \/ CreditUser(p) \/ RecordCredit(p)

Next ==
    \/ \E o \in Outcomes : FeedUpdate(o)
    \/ \E u \in Wallets : FundWallet(u)
    \/ \E p \in Procs : HandlerStep(p) \/ LoseReply(p) \/ Abandon(p)
    \/ \E p \in Procs, c \in BetCalls : BeginPlace(p, c)
    \/ \E p \in Procs, b \in BetIds : AdminSettle(p, b) \/ AutoSettle(p, b)
    \/ \E c \in lateCalls : ServeLate(c) \/ DropLate(c)

Spec == Init /\ [][Next]_vars

\* Handlers go on, and the scheduler keeps sweeping (Scheduler.Start ticks).
FairSpec ==
    /\ Spec
    /\ \A p \in Procs : WF_vars(HandlerStep(p))
    /\ \A p \in Schedulers : WF_vars(\E b \in BetIds : AutoSettle(p, b))

\* Administrators, too, keep asking for every bet to be settled.
RetrySpec ==
    FairSpec /\ \A b \in BetIds : SF_vars(\E p \in Handlers : AdminSettle(p, b))

-----------------------------------------------------------------------------
\* The wallet of user u has a row with this reference id.
PostedTo(u, r) == \E i \in DOMAIN ledger[u] : ledger[u][i].ref = r

StakeRow(b) == RowWith(b[1], b[2], "withdrawal", bets[b].stake, "completed")

\* A bet that counts (pending, won or lost) holds exactly its own stake, taken
\* from its own user's wallet, whatever was lost, repeated or abandoned on the
\* way.  It needs reference ids that no two users share.
StakeBacked ==
    \A b \in BetIds : bets[b].status \in {"pending", "won", "lost"} => StakeRow(b)

\* Nothing is paid out or given back for a stake that was not taken.
PayoutBacked ==
    \A b \in BetIds :
        (PostedTo(b[1], SettleRef(b[2])) \/ PostedTo(b[1], CancelRef(b[2]))) => StakeRow(b)

\* What is paid agrees with the record of the bet, in result and amount: the
\* payout fixed when it was placed for a won bet, the stake for a cancelled one,
\* nothing for any other.  It needs a single source of results that never
\* changes its mind: FinalResults, and no administrators.
PaidAsRecorded ==
    \A b \in BetIds :
        /\ PostedTo(b[1], SettleRef(b[2])) =>
              /\ bets[b].status = "won"
              /\ RowWith(b[1], SettleRef(b[2]), "deposit", bets[b].payout, "completed")
        /\ PostedTo(b[1], CancelRef(b[2])) =>
              /\ bets[b].status = "cancelled"
              /\ RowWith(b[1], CancelRef(b[2]), "deposit", bets[b].stake, "completed")

\* Marking the bet before crediting it, SettleBet never pays both the winnings
\* and the refund of one bet.
PaidOnce ==
    \A b \in BetIds : ~(Posted(SettleRef(b[2])) /\ Posted(CancelRef(b[2])))

\* A bet only moves forward, and what was agreed when it was placed never changes:
\* retries, late replies and repeated sweeps neither reopen nor re-decide it.
StatusForward ==
    [][\A b \in BetIds :
          bets[b].status # "none" =>
              /\ bets'[b].pick = bets[b].pick
              /\ bets'[b].stake = bets[b].stake
              /\ bets'[b].payout = bets[b].payout
              /\ \/ bets'[b].status = bets[b].status
                 \/ bets[b].status = "debit_pending" /\ bets'[b].status \in {"pending", "cancelled"}
                 \/ bets[b].status = "pending" /\ bets'[b].status \in Results
      ]_vars

\* As long as nothing fails every bet is accepted or cancelled in the end.
EveryBetAnswered ==
    \A b \in BetIds :
        bets[b].status = "debit_pending" ~> bets[b].status # "debit_pending" \/ faults > 0

\* As long as nothing fails every accepted bet whose outcome is decided is settled
\* with that result, and paid, in the end.
DecidedBetsPaid ==
    \A b \in BetIds, result \in Results :
        (bets[b].status = "pending" /\ feed[bets[b].pick].status = result) ~>
            \/ faults > 0
            \/ /\ bets[b].status = result
               /\ result # "lost" => bets[b].credit
               /\ result = "won" => Posted(SettleRef(b[2]))
               /\ result = "cancelled" => Posted(CancelRef(b[2]))

\* A won bet is credited in the end, if only someone keeps asking.
WinningsCredited ==
    \A b \in BetIds : bets[b].status = "won" ~> bets[b].credit
===============================================================================
