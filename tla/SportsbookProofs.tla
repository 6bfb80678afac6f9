-------------------------- MODULE SportsbookProofs --------------------------
(***************************************************************************)
(* What the sportsbook guarantees about stakes and payments, for any       *)
(* number of users, bets, handlers and schedulers, any interleaving of     *)
(* their statements, and any lost, late or abandoned wallet calls.         *)
(*                                                                         *)
(* TypesInv is inductive without any hypothesis.  BetsInv is what the      *)
(* stakes need: the request that creates a bet is the only one to move it  *)
(* until it is accepted (Apart, CallOK), and every row of the ledger and   *)
(* every wallet call still on its way belongs to one bet (RowOK, LateOK).  *)
(* PaidInv adds what is paid: a request that credits a bet finds the       *)
(* result it was given (Agrees), and so do the rows and the late calls.    *)
(***************************************************************************)
EXTENDS Sportsbook, WalletLedgerProofs

-----------------------------------------------------------------------------
(* The hypotheses. *)

\* No two users choose the same reference id: the wallet knows a stake by the
\* reference id alone, whoever's it is.
OwnRefs == \A c, d \in BetCalls : c.ref = d.ref => c.user = d.user

\* No client chooses an id of the form the services build for their own calls.
ApartRefs ==
    \A r \in BetRefs :
        /\ \A x \in BetRefs : r # SettleRef(x) /\ r # CancelRef(x)
        /\ \A u \in Wallets : r # DepositRef(u)

\* Amounts are whole stored units.
WholeUnits == Scale = 1

\* Results have one source, the feed, which never changes its mind.
OneSource == FinalResults /\ AdminResults = {}

\* One request at a time.
OneProc == \A p, o \in Procs : p = o

-----------------------------------------------------------------------------
(* The inductive invariant. *)

Placing == {"check", "market", "outcome", "create"}
Creating == {"debit", "cancel", "finalize"}
Settling == {"load", "mark", "credit", "record"}
Accepted == {"pending"} \cup Results

\* Some client asks for this bet.
Wanted(b) == \E c \in BetCalls : c.user = b[1] /\ c.ref = b[2]

Placed(b) == bets[b].status # "none"

BetsPlaced == \A b \in BetIds : Placed(b) => Wanted(b) /\ bets[b].pick \in Outcomes

\* What a handler relies on at each of its steps.  A bet is created, debited and
\* accepted by one request, which alone moves it while it is "debit_pending"; the
\* stake of an accepted bet is in the ledger.
CallOK(c) ==
    /\ c.step # "idle" => c.bet \in BetIds
    /\ c.step \in Placing => Wanted(c.bet) /\ c.pick \in Outcomes
    /\ c.step \in Creating =>
          bets[c.bet].status = "debit_pending" /\ bets[c.bet].stake = c.stake
    /\ c.step = "finalize" => StakeRow(c.bet)
    /\ c.step \in Settling => Placed(c.bet) /\ c.result \in Results
    /\ c.step \in {"mark", "credit", "record"} =>
          bets[c.bet].status \in Accepted /\ StakeRow(c.bet)
    /\ c.step \in {"credit", "record"} => c.result # "lost"

\* No two requests create the same bet.
Apart(c, d) == (c.step \in Creating /\ d.step \in Creating) => c.bet # d.bet

\* A wallet call made for bet b.
CallFor(c, b) ==
    /\ Placed(b)
    /\ c.user = b[1]
    /\ \/ c.kind = "debit" /\ c.ref = b[2] /\ c.amount = bets[b].stake
       \/ c.kind = "credit" /\ c.ref \in {SettleRef(b[2]), CancelRef(b[2])} /\ StakeRow(b)

LateOK(c) == \E b \in BetIds : CallFor(c, b)

\* A row of wallet w written for bet b.
RowFor(row, w, b) ==
    /\ Placed(b)
    /\ b[1] = w
    /\ \/ /\ row.ref = b[2] /\ row.type = "withdrawal"
          /\ row.amount = bets[b].stake /\ row.status = "completed"
       \/ row.ref \in {SettleRef(b[2]), CancelRef(b[2])} /\ StakeRow(b)

\* Every row is the user's deposit or was written for one of the user's bets.
RowOK(row, w) == row.ref = DepositRef(w) \/ \E b \in BetIds : RowFor(row, w, b)

BetsInv ==
    /\ LedgerInv
    /\ TypeOK
    /\ BetsPlaced
    /\ StakeBacked
    /\ \A p \in Procs : CallOK(calls[p])
    /\ \A p, o \in Procs : p # o => Apart(calls[p], calls[o])
    /\ \A c \in lateCalls : LateOK(c)
    /\ \A w \in Wallets : \A i \in DOMAIN ledger[w] : RowOK(ledger[w][i], w)

-----------------------------------------------------------------------------
(* What is paid. *)

\* Requests that settle the same bet agree, and a request credits what the bet
\* says by then.
Agrees(c) ==
    /\ c.step = "mark" =>
          /\ bets[c.bet].status \in {"pending", c.result}
          /\ OneProc => bets[c.bet].status = "pending"
    /\ c.step \in {"credit", "record"} => bets[c.bet].status = c.result
    /\ (OneSource /\ c.step \in Settling) => c.result = feed[bets[c.bet].pick].status

\* The result and the amount of a payment for bet b.
PaidFor(ref, amount, b) ==
    \/ ref = SettleRef(b[2]) /\ bets[b].status = "won" /\ amount = bets[b].payout
    \/ ref = CancelRef(b[2]) /\ bets[b].status = "cancelled" /\ amount = bets[b].stake

LatePaid(c) ==
    c.kind = "credit" => \E b \in BetIds : Placed(b) /\ c.user = b[1] /\ PaidFor(c.ref, c.amount, b)

RowPaid(row, w) ==
    row.ref \in {SettleRef(r) : r \in BetRefs} \cup {CancelRef(r) : r \in BetRefs} =>
        \E b \in BetIds :
            /\ Placed(b) /\ b[1] = w
            /\ PaidFor(row.ref, row.amount, b)
            /\ row.type = "deposit" /\ row.status = "completed"

PaidInv ==
    /\ \A p \in Procs : Agrees(calls[p])
    /\ \A c \in lateCalls : LatePaid(c)
    /\ \A w \in Wallets : \A i \in DOMAIN ledger[w] : RowPaid(ledger[w][i], w)

-----------------------------------------------------------------------------
(* Rows are only added. *)

RowsGrow ==
    \A w \in Wallets : \A i \in DOMAIN ledger[w] :
        i \in DOMAIN ledger'[w] /\ ledger'[w][i] = ledger[w][i]

\* The rows that a step adds are those of call c.
RowsFrom(c) ==
    \A w \in Wallets : \A i \in DOMAIN ledger'[w] :
        \/ i \in DOMAIN ledger[w]
        \/ /\ w = c.user
           /\ ledger'[w][i].ref = c.ref
           /\ ledger'[w][i].type = IF c.kind = "credit" THEN "deposit" ELSE "withdrawal"
           /\ ledger'[w][i].amount = Stored(c.amount)
           /\ ledger'[w][i].status = "completed"

\* A credit or a debit adds its row, and only that.
LEMMA MoneyRows ==
    ASSUME LedgerInv, NEW c, c.user \in Wallets, c.amount \in Nat, c.ref \in Refs,
           \/ c.kind = "credit" /\ Credit(c.user, c.amount, c.ref)
           \/ c.kind = "debit" /\ Debit(c.user, c.amount, c.ref)
    PROVE  LedgerInv' /\ RowsGrow /\ RowsFrom(c) /\ Posted(c.ref)'
  <1>a. PICK w \in Wallets : w = c.user
    OBVIOUS
  <1>b. PICK a \in Nat : a = c.amount
    OBVIOUS
  <1>c. PICK r \in Refs : r = c.ref
    OBVIOUS
  <1>d. PICK k : k = c.kind
    OBVIOUS
  <1>1. LedgerInv'
    BY <1>a, <1>b, <1>c, MoneyStep DEF RefIds
  <1>2. PICK type, after :
           /\ type = IF k = "credit" THEN "deposit" ELSE "withdrawal"
           /\ Post(w, ledger[w], r, type, Stored(a), after, "completed")
    BY <1>a, <1>b, <1>c, <1>d DEF Credit, Debit
  <1> DEFINE n == Len(ledger[w])
             row == NewRow(r, type, Stored(a), wallets[w].balance, after, "completed")
  <1>3. /\ n \in Nat
        /\ DOMAIN ledger[w] = 1 .. n
        /\ DOMAIN ledger'[w] = 1 .. n + 1
        /\ ledger'[w][n + 1] = row
        /\ \A i \in 1 .. n : ledger'[w][i] = ledger[w][i]
        /\ \A v \in Wallets \ {w} : ledger'[v] = ledger[v]
    BY <1>2, SameRows, PostRows DEF LedgerInv
  <1>4. /\ row.ref = r /\ row.type = type /\ row.amount = Stored(a)
        /\ row.status = "completed"
    BY DEF NewRow
  <1> HIDE DEF row
  <1>5. RowsGrow
    BY <1>3 DEF RowsGrow
  <1>6. ASSUME NEW v \in Wallets, NEW i \in DOMAIN ledger'[v]
        PROVE  \/ i \in DOMAIN ledger[v]
               \/ /\ v = w
                  /\ ledger'[v][i].ref = r
                  /\ ledger'[v][i].type = type
                  /\ ledger'[v][i].amount = Stored(a)
                  /\ ledger'[v][i].status = "completed"
    <2>1. CASE v # w
      BY <1>3, <2>1
    <2>2. CASE v = w /\ i \in 1 .. n
      BY <1>3, <2>2
    <2>3. CASE v = w /\ i = n + 1
      BY <1>3, <1>4, <2>3
    <2> QED  BY <1>3, <2>1, <2>2, <2>3
  <1>7. RowsFrom(c)
    BY <1>2, <1>6, <1>a, <1>b, <1>c, <1>d DEF RowsFrom
  <1>8. Posted(r)'
    <2>1. n + 1 \in DOMAIN ledger'[w]
      BY <1>3
    <2> QED  BY <1>3, <1>4, <2>1 DEF Posted
  <1>9. Posted(c.ref)'
    BY <1>8, <1>c DEF Posted
  <1> QED  BY <1>1, <1>5, <1>7, <1>9

\* A step that leaves the wallet's tables alone adds no row.
LEMMA NoRowsAdded ==
    ASSUME LedgerInv, UNCHANGED ledgerVars, NEW c
    PROVE  LedgerInv' /\ RowsGrow /\ RowsFrom(c)
  <1>1. LedgerInv'
    BY LedgerStepInv
  <1> QED  BY <1>1 DEF ledgerVars, RowsGrow, RowsFrom

\* The wallet serves a call: at most its row is added, and it is there if the call
\* succeeds.
LEMMA ServeRows ==
    ASSUME LedgerInv, NEW c \in WalletCall, Serve(c)
    PROVE  LedgerInv' /\ RowsGrow /\ RowsFrom(c) /\ (Succeeds(c) => Posted(c.ref)')
  <1>1. c.user \in Wallets /\ c.amount \in Nat /\ c.ref \in Refs /\ c.kind \in {"debit", "credit"}
    BY DEF WalletCall
  <1>2. CASE UNCHANGED ledgerVars /\ (Succeeds(c) => Posted(c.ref))
    <2>1. Posted(c.ref) => Posted(c.ref)'
      BY <1>2 DEF Posted, ledgerVars
    <2> QED  BY <1>2, <2>1, NoRowsAdded
  <1>3. CASE \/ c.kind = "credit" /\ Credit(c.user, c.amount, c.ref)
             \/ c.kind = "debit" /\ Debit(c.user, c.amount, c.ref)
    BY <1>1, <1>3, MoneyRows
  <1> QED  BY <1>1, <1>2, <1>3 DEF Serve, Apply

\* A row stays.
LEMMA RowStays ==
    ASSUME RowsGrow, NEW w \in Wallets, NEW r, NEW t, NEW a, NEW s, RowWith(w, r, t, a, s)
    PROVE  RowWith(w, r, t, a, s)'
  BY DEF RowsGrow, RowWith

-----------------------------------------------------------------------------
(* Bets only move forward. *)

\* What was agreed stays, a bet is not deleted, an accepted bet stays accepted.
BetsGrow ==
    \A b \in BetIds : Placed(b) =>
        /\ bets'[b].pick = bets[b].pick
        /\ bets'[b].stake = bets[b].stake
        /\ bets'[b].payout = bets[b].payout
        /\ bets'[b].status # "none"
        /\ bets[b].status \in Accepted => bets'[b].status \in Accepted

\* A bet is a pair of a user and a reference id.
LEMMA BetIdPair ==
    ASSUME NEW b \in BetIds
    PROVE  b[1] \in Wallets /\ b[2] \in BetRefs /\ b = <<b[1], b[2]>>
  BY DEF BetIds

\* Two bets of one user with one reference id are the same.
LEMMA BetIdSame ==
    ASSUME NEW b \in BetIds, NEW d \in BetIds, b[1] = d[1], b[2] = d[2]
    PROVE  b = d
  BY DEF BetIds

\* The reference ids of services' own calls tell what they are for.
LEMMA OwnIds ==
    /\ \A r, x : SettleRef(r) = SettleRef(x) => r = x
    /\ \A r, x : CancelRef(r) = CancelRef(x) => r = x
    /\ \A r, x : SettleRef(r) # CancelRef(x)
    /\ \A r, u : SettleRef(r) # DepositRef(u) /\ CancelRef(r) # DepositRef(u)
  BY DEF SettleRef, CancelRef, DepositRef

\* The stake of a bet stays in the ledger.
LEMMA StakeStays ==
    ASSUME RowsGrow, BetsGrow, NEW b \in BetIds, Placed(b), StakeRow(b)
    PROVE  StakeRow(b)'
  <1>a. PICK a : a = bets[b].stake
    OBVIOUS
  <1>1. RowWith(b[1], b[2], "withdrawal", a, "completed")
    BY <1>a DEF StakeRow
  <1>2. RowWith(b[1], b[2], "withdrawal", a, "completed")'
    BY <1>1, BetIdPair, RowStays
  <1>3. bets'[b].stake = a
    BY <1>a DEF BetsGrow
  <1> QED  BY <1>2, <1>3 DEF StakeRow, RowWith

\* A bet once placed stays so.
LEMMA PlacedStays ==
    ASSUME BetsGrow, NEW b \in BetIds, Placed(b)
    PROVE  Placed(b)'
  BY DEF BetsGrow, Placed

\* What is known of a wallet call on its way stays true.
LEMMA LateStays ==
    ASSUME RowsGrow, BetsGrow, NEW c, LateOK(c)
    PROVE  LateOK(c)'
  <1>1. PICK b \in BetIds : CallFor(c, b)
    BY DEF LateOK
  <1>2. Placed(b)' /\ bets'[b].stake = bets[b].stake
    BY <1>1, PlacedStays DEF CallFor, BetsGrow
  <1>3. StakeRow(b) => StakeRow(b)'
    BY <1>1, StakeStays DEF CallFor
  <1>4. CallFor(c, b)'
    BY <1>1, <1>2, <1>3 DEF CallFor
  <1> QED  BY <1>4 DEF LateOK

\* What is known of a row stays true.
LEMMA RowOKStays ==
    ASSUME RowsGrow, BetsGrow, NEW row, NEW w, RowOK(row, w)
    PROVE  RowOK(row, w)'
  <1>1. CASE row.ref = DepositRef(w)
    BY <1>1 DEF RowOK
  <1>2. CASE \E b \in BetIds : RowFor(row, w, b)
    <2>1. PICK b \in BetIds : RowFor(row, w, b)
      BY <1>2
    <2>2. Placed(b)' /\ bets'[b].stake = bets[b].stake
      BY <2>1, PlacedStays DEF RowFor, BetsGrow
    <2>3. StakeRow(b) => StakeRow(b)'
      BY <2>1, StakeStays DEF RowFor
    <2>4. RowFor(row, w, b)'
      BY <2>1, <2>2, <2>3 DEF RowFor
    <2> QED  BY <2>4 DEF RowOK
  <1> QED  BY <1>1, <1>2 DEF RowOK

\* What a request relies on stays true whatever the others do, as long as nobody
\* else moves the bet it is creating.
LEMMA CallStays ==
    ASSUME RowsGrow, BetsGrow, NEW c, CallOK(c),
           c.step \in Creating => bets'[c.bet].status = bets[c.bet].status
    PROVE  CallOK(c)'
  <1>a. PICK b : b = c.bet
    OBVIOUS
  <1>1. CASE c.step \in Creating
    <2>1. b \in BetIds /\ Placed(b)
      BY <1>1, <1>a DEF CallOK, Creating, Placed
    <2>2. bets'[b].stake = bets[b].stake
      BY <2>1 DEF BetsGrow
    <2>3. StakeRow(b) => StakeRow(b)'
      BY <2>1, StakeStays
    <2> QED  BY <1>1, <1>a, <2>1, <2>2, <2>3 DEF CallOK, Creating, Placing, Settling
  <1>2. CASE c.step \in Settling
    <2>1. b \in BetIds /\ Placed(b)
      BY <1>2, <1>a DEF CallOK, Settling
    <2>2. Placed(b)' /\ (bets[b].status \in Accepted => bets'[b].status \in Accepted)
      BY <2>1, PlacedStays DEF BetsGrow
    <2>3. StakeRow(b) => StakeRow(b)'
      BY <2>1, StakeStays
    <2> QED  BY <1>2, <1>a, <2>1, <2>2, <2>3 DEF CallOK, Creating, Placing, Settling
  <1>3. CASE c.step \notin Creating \cup Settling
    BY <1>3 DEF CallOK, Creating, Settling, Wanted
  <1> QED  BY <1>1, <1>2, <1>3

-----------------------------------------------------------------------------
(* Types, and the ledger under the sportsbook: no hypotheses. *)

\* What a request carries at each of its steps.
TypedCall(c) ==
    /\ c.step # "idle" => c.bet \in BetIds
    /\ c.step \in Placing => c.pick \in Outcomes
    /\ c.step \in Settling => c.result \in Results

TypesInv ==
    /\ LedgerInv
    /\ TypeOK
    /\ \A p \in Procs : TypedCall(calls[p])

\* A step that moves at most request p keeps the types if what it writes has them.
LEMMA TypesMove ==
    ASSUME TypesInv, NEW p \in Procs, NEW c \in Call, TypedCall(c),
           calls' = [calls EXCEPT ![p] = c], LedgerInv',
           feed' \in [Outcomes -> Quote], bets' \in [BetIds -> Bet],
           lateCalls' \subseteq WalletCall, faults' \in 0 .. MaxFaults
    PROVE  TypesInv'
  <1>1. calls \in [Procs -> Call] /\ \A o \in Procs : TypedCall(calls[o])
    BY DEF TypesInv, TypeOK
  <1>2. /\ calls' \in [Procs -> Call] /\ calls'[p] = c
        /\ \A o \in Procs : o # p => calls'[o] = calls[o]
    BY <1>1
  <1>3. \A o \in Procs : TypedCall(calls[o])'
    BY <1>1, <1>2 DEF TypedCall
  <1> QED  BY <1>2, <1>3 DEF TypesInv, TypeOK, LedgerInv

\* A request that has ended.
LEMMA NoCallTyped ==
    NoCall \in Call /\ NoCall.step = "idle" /\ TypedCall(NoCall)
  BY DEF NoCall, Call, BetSteps, TypedCall, Placing, Settling

\* A request goes on to another step and keeps the rest.
LEMMA GotoTyped ==
    ASSUME NEW p \in Procs, calls[p] \in Call, NEW s \in BetSteps, Goto(p, s)
    PROVE  \E c \in Call :
              /\ calls' = [calls EXCEPT ![p] = c]
              /\ c.step = s /\ c.bet = calls[p].bet /\ c.pick = calls[p].pick
              /\ c.stake = calls[p].stake /\ c.payout = calls[p].payout
              /\ c.result = calls[p].result
  <1> DEFINE c == [calls[p] EXCEPT !.step = s]
  <1>1. c \in Call
    BY DEF Call
  <1>2. /\ c.step = s /\ c.bet = calls[p].bet /\ c.pick = calls[p].pick
        /\ c.stake = calls[p].stake /\ c.payout = calls[p].payout
        /\ c.result = calls[p].result
    BY DEF Call
  <1>3. calls' = [calls EXCEPT ![p] = c]
    BY DEF Goto
  <1> QED  BY <1>1, <1>2, <1>3

\* The wallet call of a request has its type.
LEMMA CallOfTyped ==
    ASSUME TypesInv, NEW p \in Procs, calls[p].step \in {"debit", "credit"}
    PROVE  CallOf(p) \in WalletCall
  <1>1. calls[p] \in Call /\ TypedCall(calls[p]) /\ bets \in [BetIds -> Bet]
    BY DEF TypesInv, TypeOK
  <1>a. PICK b : b = calls[p].bet
    OBVIOUS
  <1>2. b \in BetIds
    BY <1>1, <1>a DEF TypedCall
  <1>3. b[1] \in Wallets /\ b[2] \in BetRefs
    BY <1>2 DEF BetIds
  <1>4. bets[b].stake \in Nat /\ bets[b].payout \in Nat /\ calls[p].stake \in Nat
    BY <1>1, <1>2 DEF Bet, Call
  <1>5. {b[2], SettleRef(b[2]), CancelRef(b[2])} \subseteq Refs
    BY <1>3, BetRefsAssumption
  <1>6. CASE calls[p].step = "debit"
    BY <1>3, <1>4, <1>5, <1>6, <1>a DEF CallOf, At, User, RefOf, WalletCall
  <1>7. CASE calls[p].step = "credit"
    BY <1>3, <1>4, <1>5, <1>7, <1>a DEF CallOf, At, User, RefOf, WalletCall
  <1> QED  BY <1>6, <1>7

\* The step of a request.
LEMMA TypesRequest ==
    ASSUME TypesInv, NEW p \in Procs, HandlerStep(p)
    PROVE  TypesInv'
  <1>1. /\ LedgerInv /\ feed \in [Outcomes -> Quote] /\ bets \in [BetIds -> Bet]
        /\ calls[p] \in Call /\ TypedCall(calls[p])
        /\ lateCalls \subseteq WalletCall /\ faults \in 0 .. MaxFaults
    BY DEF TypesInv, TypeOK
  <1>a. PICK b : b = calls[p].bet
    OBVIOUS
  <1>2. /\ calls[p].step # "idle" /\ b \in BetIds
        /\ feed' = feed /\ lateCalls' = lateCalls /\ faults' = faults
    <2>1. calls[p].step # "idle" /\ feed' = feed /\ lateCalls' = lateCalls /\ faults' = faults
      BY DEF HandlerStep, CheckReference, ReadMarket, ReadOutcome, CreateBet, DebitStake,
             CancelUnpaid, FinalizeBet, LoadBet, MarkSettled, CreditUser, RecordCredit, At,
             OnlyReads, SetBet
    <2> QED  BY <1>1, <1>a, <2>1 DEF TypedCall
  <1>3. LedgerInv'
    <2>1. CASE UNCHANGED ledgerVars
      BY <1>1, <2>1, LedgerStepInv
    <2>2. CASE DebitStake(p) \/ CreditUser(p)
      <3>1. CallOf(p) \in WalletCall /\ Serve(CallOf(p))
        BY <2>2, CallOfTyped DEF DebitStake, CreditUser, At
      <3> QED  BY <1>1, <3>1, ServeRows
    <2> QED
      BY <2>1, <2>2 DEF HandlerStep, CheckReference, ReadMarket, ReadOutcome, CreateBet,
            CancelUnpaid, FinalizeBet, LoadBet, MarkSettled, RecordCredit, OnlyReads, SetBet
  <1>4. bets' \in [BetIds -> Bet]
    <2>1. CASE bets' = bets
      BY <1>1, <2>1
    <2>2. ASSUME NEW new \in Bet, SetBet(b, new)  PROVE bets' \in [BetIds -> Bet]
      BY <1>1, <1>2, <2>2 DEF SetBet
    <2>3. CASE CreateBet(p)
      <3>a. PICK new : new = [NoBet EXCEPT !.status = "debit_pending", !.pick = calls[p].pick,
                                           !.stake = calls[p].stake, !.payout = calls[p].payout]
        OBVIOUS
      <3>1. new \in Bet
        BY <1>1, <3>a DEF Call, NoBet, Bet, BetStatus
      <3>2. bets' = bets \/ SetBet(b, new)
        BY <2>3, <1>a, <3>a DEF CreateBet, OnlyReads
      <3> QED  BY <2>1, <2>2, <3>1, <3>2
    <2>4. CASE CancelUnpaid(p)
      <3>a. PICK new : new = [bets[b] EXCEPT !.status = "cancelled"]
        OBVIOUS
      <3>1. new \in Bet
        BY <1>1, <1>2, <3>a DEF Bet, BetStatus, Results
      <3> QED  BY <2>2, <2>4, <1>a, <3>a, <3>1 DEF CancelUnpaid
    <2>5. CASE FinalizeBet(p)
      <3>a. PICK new : new = [bets[b] EXCEPT !.status = "pending", !.debit = TRUE]
        OBVIOUS
      <3>1. new \in Bet
        BY <1>1, <1>2, <3>a DEF Bet, BetStatus
      <3> QED  BY <2>2, <2>5, <1>a, <3>a, <3>1 DEF FinalizeBet
    <2>6. CASE MarkSettled(p)
      <3>a. PICK new : new = [bets[b] EXCEPT !.status = calls[p].result]
        OBVIOUS
      <3>1. calls[p].result \in Results
        BY <1>1, <2>6 DEF MarkSettled, At, TypedCall, Settling
      <3>2. new \in Bet
        BY <1>1, <1>2, <3>1, <3>a DEF Bet, BetStatus
      <3> QED  BY <2>2, <2>6, <1>a, <3>a, <3>2 DEF MarkSettled
    <2>7. CASE RecordCredit(p)
      <3>a. PICK new : new = [bets[b] EXCEPT !.credit = TRUE]
        OBVIOUS
      <3>1. new \in Bet
        BY <1>1, <1>2, <3>a DEF Bet
      <3> QED  BY <2>2, <2>7, <1>a, <3>a, <3>1 DEF RecordCredit
    <2> QED
      BY <2>1, <2>3, <2>4, <2>5, <2>6, <2>7
         DEF HandlerStep, CheckReference, ReadMarket, ReadOutcome, DebitStake, LoadBet,
             CreditUser, OnlyReads
  <1>5. PICK c \in Call : TypedCall(c) /\ calls' = [calls EXCEPT ![p] = c]
    <2>1. CASE Finish(p)
      BY <2>1, NoCallTyped DEF Finish
    <2>2. ASSUME NEW s \in BetSteps, Goto(p, s),
                 s \in Placing => calls[p].step \in Placing,
                 s \in Settling => calls[p].step \in Settling
          PROVE  \E c \in Call : TypedCall(c) /\ calls' = [calls EXCEPT ![p] = c]
      <3>1. PICK c \in Call : /\ calls' = [calls EXCEPT ![p] = c]
                              /\ c.step = s /\ c.bet = calls[p].bet /\ c.pick = calls[p].pick
                              /\ c.result = calls[p].result
        BY <1>1, <2>2, GotoTyped
      <3>2. TypedCall(c)
        BY <1>1, <1>2, <1>a, <2>2, <3>1 DEF TypedCall
      <3> QED  BY <3>1, <3>2
    <2>3. CASE ReadOutcome(p) /\ ~Finish(p)
      <3>a. PICK pay : pay = calls[p].stake * feed[calls[p].pick].odds
        OBVIOUS
      <3>b. PICK c : c = [calls[p] EXCEPT !.step = "create", !.payout = pay]
        OBVIOUS
      <3>1. calls[p].step = "outcome" /\ calls' = [calls EXCEPT ![p] = c]
        BY <2>3, <3>a, <3>b DEF ReadOutcome, At
      <3>2. calls[p].pick \in Outcomes /\ calls[p].stake \in Nat
        BY <1>1, <3>1 DEF TypedCall, Placing, Call
      <3>3. feed[calls[p].pick].odds \in Nat
        BY <1>1, <3>2, BettingAssumption DEF Quote
      <3>4. pay \in Nat
        BY <3>a, <3>2, <3>3
      <3>5. c \in Call /\ c.step = "create" /\ c.bet = calls[p].bet /\ c.pick = calls[p].pick
        BY <1>1, <3>4, <3>b DEF Call, BetSteps
      <3>6. TypedCall(c)
        BY <1>2, <1>a, <3>2, <3>5 DEF TypedCall, Settling
      <3> QED  BY <3>1, <3>5, <3>6
    <2>4. CASE \E s \in {"market", "outcome"} : Goto(p, s) /\ calls[p].step \in Placing
      BY <2>2, <2>4 DEF BetSteps, Placing, Settling
    <2>5. CASE \E s \in {"debit", "finalize", "cancel"} : Goto(p, s)
      BY <2>2, <2>5 DEF BetSteps, Placing, Settling
    <2>6. CASE \E s \in {"mark", "credit", "record"} : Goto(p, s) /\ calls[p].step \in Settling
      BY <2>2, <2>6 DEF BetSteps, Placing, Settling
    <2> QED
      BY <2>1, <2>3, <2>4, <2>5, <2>6
         DEF HandlerStep, CheckReference, ReadMarket, CreateBet, DebitStake, CancelUnpaid,
             FinalizeBet, LoadBet, MarkSettled, CreditUser, RecordCredit, At, Placing, Settling
  <1> QED  BY <1>1, <1>2, <1>3, <1>4, <1>5, TypesMove

\* Requests that arrive, and requests that fail.
LEMMA TypesArrive ==
    ASSUME TypesInv, NEW p \in Procs,
           \/ \E d \in BetCalls : BeginPlace(p, d)
           \/ \E b \in BetIds : AdminSettle(p, b) \/ AutoSettle(p, b)
           \/ LoseReply(p) \/ Abandon(p)
    PROVE  TypesInv'
  <1>1. /\ LedgerInv /\ feed \in [Outcomes -> Quote] /\ bets \in [BetIds -> Bet]
        /\ calls[p] \in Call /\ TypedCall(calls[p])
        /\ lateCalls \subseteq WalletCall /\ faults \in 0 .. MaxFaults
    BY DEF TypesInv, TypeOK
  <1>b. OnlyReads \/ LoseReply(p) \/ Abandon(p)
    BY DEF BeginPlace, AdminSettle, AutoSettle, BeginSettle
  <1>2. UNCHANGED ledgerVars /\ feed' = feed /\ bets' = bets
    BY <1>b DEF LoseReply, Abandon, OnlyReads
  <1>3. LedgerInv'
    BY <1>1, <1>2, LedgerStepInv
  <1>4. faults' \in 0 .. MaxFaults
    BY <1>1, <1>b, BettingAssumption DEF LoseReply, Abandon, OnlyReads, Fault
  <1>5. lateCalls' \subseteq WalletCall
    <2>1. \A d \in lateCalls' :
             d \in lateCalls \/ (calls[p].step \in {"debit", "credit"} /\ d = CallOf(p))
      BY <1>b DEF LoseReply, Abandon, OnlyReads
    <2> QED  BY <1>1, <2>1, CallOfTyped
  <1>6. PICK c \in Call : TypedCall(c) /\ calls' = [calls EXCEPT ![p] = c]
    <2>1. ASSUME NEW d \in BetCalls, BeginPlace(p, d)
          PROVE  \E c \in Call : TypedCall(c) /\ calls' = [calls EXCEPT ![p] = c]
      <3>a. PICK c : c = [NoCall EXCEPT !.step = "check", !.bet = <<d.user, d.ref>>,
                                        !.pick = d.pick, !.stake = d.stake]
        OBVIOUS
      <3>1. /\ d.user \in Wallets /\ d.ref \in BetRefs /\ d.pick \in Outcomes /\ d.stake \in Nat
        BY BetCallsAssumption
      <3>2. c \in Call /\ c.step = "check" /\ c.bet \in BetIds /\ c.pick \in Outcomes
        BY <3>1, <3>a DEF Call, NoCall, BetSteps, BetIds
      <3>3. TypedCall(c)
        BY <3>2 DEF TypedCall, Settling
      <3> QED  BY <2>1, <3>a, <3>2, <3>3 DEF BeginPlace
    <2>2. ASSUME NEW b \in BetIds, AdminSettle(p, b) \/ AutoSettle(p, b)
          PROVE  \E c \in Call : TypedCall(c) /\ calls' = [calls EXCEPT ![p] = c]
      <3>1. PICK result \in Results : BeginSettle(p, b, result)
        BY <2>2, BettingAssumption DEF AdminSettle, AutoSettle, ResolveOutcome
      <3>a. PICK c : c = [NoCall EXCEPT !.step = "load", !.bet = b, !.result = result]
        OBVIOUS
      <3>2. c \in Call /\ c.step = "load" /\ c.bet = b /\ c.result = result
        BY <3>a DEF Call, NoCall, BetSteps
      <3>3. TypedCall(c)
        BY <3>2 DEF TypedCall, Placing
      <3> QED  BY <3>1, <3>a, <3>2, <3>3 DEF BeginSettle
    <2>3. CASE Finish(p)
      BY <2>3, NoCallTyped DEF Finish
    <2>4. CASE calls[p].step = "debit" /\ Goto(p, "cancel")
      <3>1. "cancel" \in BetSteps
        BY DEF BetSteps
      <3>2. PICK c \in Call : /\ calls' = [calls EXCEPT ![p] = c]
                              /\ c.step = "cancel" /\ c.bet = calls[p].bet
        BY <1>1, <2>4, <3>1, GotoTyped
      <3>3. TypedCall(c)
        BY <1>1, <2>4, <3>2 DEF TypedCall, Placing, Settling
      <3> QED  BY <3>2, <3>3
    <2> QED  BY <2>1, <2>2, <2>3, <2>4 DEF LoseReply, Abandon, At
  <1> QED  BY <1>1, <1>2, <1>3, <1>4, <1>5, <1>6, TypesMove

\* Late calls, the feed, deposits, and nothing at all.
LEMMA TypesOthers ==
    ASSUME TypesInv,
           \/ \E c \in lateCalls : ServeLate(c) \/ DropLate(c)
           \/ \E o \in Outcomes : FeedUpdate(o)
           \/ \E u \in Wallets : FundWallet(u)
           \/ UNCHANGED vars
    PROVE  TypesInv'
  <1>1. /\ LedgerInv /\ feed \in [Outcomes -> Quote] /\ bets \in [BetIds -> Bet]
        /\ calls \in [Procs -> Call] /\ lateCalls \subseteq WalletCall
        /\ faults \in 0 .. MaxFaults /\ \A p \in Procs : TypedCall(calls[p])
    BY DEF TypesInv, TypeOK
  <1>2. bets' = bets /\ calls' = calls /\ faults' = faults /\ lateCalls' \subseteq lateCalls
    BY DEF ServeLate, DropLate, FeedUpdate, FundWallet, vars
  <1>3. feed' \in [Outcomes -> Quote]
    BY <1>1 DEF ServeLate, DropLate, FeedUpdate, FundWallet, vars
  <1>4. LedgerInv'
    <2>1. CASE UNCHANGED ledgerVars
      BY <1>1, <2>1, LedgerStepInv
    <2>2. ASSUME NEW c \in lateCalls, ServeLate(c)  PROVE LedgerInv'
      BY <1>1, <2>2, ServeRows DEF ServeLate
    <2>3. ASSUME NEW u \in Wallets, FundWallet(u)  PROVE LedgerInv'
      <3>1. Deposit \in Nat /\ DepositRef(u) \in RefIds
        BY BettingAssumption, BetRefsAssumption DEF RefIds
      <3> QED  BY <1>1, <2>3, <3>1, MoneyStep DEF FundWallet
    <2> QED  BY <2>1, <2>2, <2>3 DEF DropLate, FeedUpdate, vars, ledgerVars
  <1>5. \A p \in Procs : TypedCall(calls[p])'
    BY <1>1, <1>2 DEF TypedCall
  <1> QED  BY <1>1, <1>2, <1>3, <1>4, <1>5 DEF TypesInv, TypeOK, LedgerInv

\* Types hold at first.
LEMMA TypesInitially ==
    ASSUME Init
    PROVE  TypesInv
  <1>1. LedgerInv /\ LedgerTypeOK
    BY LedgerInitInv DEF Init, LedgerInv
  <1>2. feed \in [Outcomes -> Quote]
    BY DEF Init, Quote, OutcomeStatus
  <1>3. bets \in [BetIds -> Bet]
    <2>1. NoBet \in Bet
      BY DEF NoBet, Bet, BetStatus
    <2> QED  BY <2>1 DEF Init
  <1>4. calls \in [Procs -> Call] /\ \A p \in Procs : TypedCall(calls[p])
    BY NoCallTyped DEF Init
  <1> QED  BY <1>1, <1>2, <1>3, <1>4, BettingAssumption DEF Init, TypeOK, TypesInv

\* The invariant holds throughout.
LEMMA TypesInvariant == Spec => []TypesInv
  <1>1. Init => TypesInv
    BY TypesInitially
  <1>2. TypesInv /\ [Next]_vars => TypesInv'
    BY TypesRequest, TypesArrive, TypesOthers DEF Next
  <1> QED  BY <1>1, <1>2, PTL DEF Spec

\* Bets, requests and wallet calls keep their types, whatever ids clients choose and
\* whoever settles.
THEOREM BetsTypeOK == Spec => []TypeOK
  <1>1. TypesInv => TypeOK
    BY DEF TypesInv
  <1> QED  BY <1>1, TypesInvariant, PTL

\* The sportsbook, its retries and its late calls included, leaves the wallet's promises
\* intact: no overdraft, every reference id posted once, rows that chain.
THEOREM BetsKeepLedger == Spec => []LedgerInv
  <1>1. TypesInv => LedgerInv
    BY DEF TypesInv
  <1> QED  BY <1>1, TypesInvariant, PTL

-----------------------------------------------------------------------------
(* What has to be shown of a step. *)

\* A bet that a step writes is wanted, and backed if it counts.
Sound(b) ==
    /\ Placed(b) => Wanted(b) /\ bets[b].pick \in Outcomes
    /\ bets[b].status \in {"pending", "won", "lost"} => StakeRow(b)

\* It is enough to look at the requests P that a step moves, at the bets it writes
\* and at the rows and late calls it adds.
LEMMA FrameStep ==
    ASSUME BetsInv, RowsGrow, BetsGrow, LedgerInv', TypeOK', NEW P,
           \A o \in Procs \ P :
              /\ calls'[o] = calls[o]
              /\ calls[o].step \in Creating =>
                    bets'[calls[o].bet].status = bets[calls[o].bet].status,
           \A p \in Procs \cap P : CallOK(calls[p])',
           \A p \in Procs \cap P, o \in Procs : p # o => Apart(calls[p], calls[o])',
           \A b \in BetIds : bets'[b] # bets[b] => Sound(b)',
           \A c \in lateCalls' : c \in lateCalls \/ LateOK(c)',
           \A w \in Wallets : \A i \in DOMAIN ledger'[w] :
              i \in DOMAIN ledger[w] \/ RowOK(ledger[w][i], w)'
    PROVE  BetsInv'
  <1>1. ASSUME NEW b \in BetIds  PROVE Sound(b)'
    <2>1. CASE bets'[b] = bets[b]
      <3>1. Sound(b)
        BY DEF BetsInv, BetsPlaced, StakeBacked, Sound
      <3>2. Placed(b) /\ StakeRow(b) => StakeRow(b)'
        BY StakeStays
      <3> QED  BY <2>1, <3>1, <3>2 DEF Sound, Placed, Wanted
    <2>2. CASE bets'[b] # bets[b]
      BY <2>2
    <2> QED  BY <2>1, <2>2
  <1>2. BetsPlaced' /\ StakeBacked'
    BY <1>1 DEF BetsPlaced, StakeBacked, Sound
  <1>3. ASSUME NEW o \in Procs  PROVE CallOK(calls[o])'
    <2>1. CASE o \in P
      BY <2>1
    <2>2. CASE o \notin P
      <3>a. PICK c : c = calls[o]
        OBVIOUS
      <3>1. CallOK(c) /\ calls'[o] = c
              /\ (c.step \in Creating => bets'[c.bet].status = bets[c.bet].status)
        BY <2>2, <3>a DEF BetsInv
      <3>2. CallOK(c)'
        BY <3>1, CallStays
      <3> QED  BY <3>1, <3>2 DEF CallOK, StakeRow, RowWith, Placed, Wanted
    <2> QED  BY <2>1, <2>2
  <1>4. ASSUME NEW p \in Procs, NEW o \in Procs, p # o  PROVE Apart(calls[p], calls[o])'
    <2>1. CASE p \in P
      BY <1>4, <2>1
    <2>2. CASE o \in P
      <3>1. Apart(calls[o], calls[p])'
        BY <1>4, <2>2
      <3> QED  BY <3>1 DEF Apart
    <2>3. CASE p \notin P /\ o \notin P
      BY <1>4, <2>3 DEF BetsInv, Apart
    <2> QED  BY <2>1, <2>2, <2>3
  <1>5. ASSUME NEW c \in lateCalls'  PROVE LateOK(c)'
    BY LateStays DEF BetsInv
  <1>6. ASSUME NEW w \in Wallets, NEW i \in DOMAIN ledger'[w]  PROVE RowOK(ledger[w][i], w)'
    <2>1. CASE i \in DOMAIN ledger[w]
      <3>a. PICK row : row = ledger[w][i]
        OBVIOUS
      <3>1. RowOK(row, w) /\ ledger'[w][i] = row
        BY <2>1, <3>a DEF BetsInv, RowsGrow
      <3>2. RowOK(row, w)'
        BY <3>1, RowOKStays
      <3> QED  BY <3>1, <3>2 DEF RowOK, RowFor, StakeRow, RowWith, Placed
    <2>2. CASE i \notin DOMAIN ledger[w]
      BY <2>2
    <2> QED  BY <2>1, <2>2
  <1> QED  BY <1>2, <1>3, <1>4, <1>5, <1>6 DEF BetsInv

\* No bet is written.
LEMMA SameBets ==
    ASSUME bets' = bets
    PROVE  BetsGrow
  BY DEF BetsGrow, Placed

\* The facts about a request that every step starts from.
LEMMA CallFacts ==
    ASSUME BetsInv, NEW p \in Procs
    PROVE  /\ calls[p] \in Call /\ CallOK(calls[p]) /\ LedgerInv /\ LedgerTypeOK
           /\ feed \in [Outcomes -> Quote] /\ bets \in [BetIds -> Bet]
           /\ calls \in [Procs -> Call] /\ lateCalls \subseteq WalletCall
           /\ faults \in 0 .. MaxFaults
           /\ \A o \in Procs : p # o => Apart(calls[p], calls[o])
  BY DEF BetsInv, TypeOK

\* A step of one request that writes neither bets nor rows.
LEMMA MoveStep ==
    ASSUME BetsInv, NEW p \in Procs, NEW c \in Call, calls' = [calls EXCEPT ![p] = c],
           UNCHANGED <<ledgerVars, feed, bets>>,
           faults' \in 0 .. MaxFaults, lateCalls' \subseteq WalletCall,
           \A d \in lateCalls' : d \in lateCalls \/ LateOK(d),
           CallOK(c),
           c.step \in Creating => calls[p].step \in Creating /\ c.bet = calls[p].bet
    PROVE  BetsInv'
  <1>1. /\ calls \in [Procs -> Call] /\ feed \in [Outcomes -> Quote] /\ bets \in [BetIds -> Bet]
        /\ LedgerInv /\ \A o \in Procs : p # o => Apart(calls[p], calls[o])
    BY CallFacts
  <1>2. /\ calls' \in [Procs -> Call] /\ calls'[p] = c
        /\ \A o \in Procs \ {p} : calls'[o] = calls[o]
    BY <1>1
  <1>3. LedgerInv' /\ RowsGrow /\ RowsFrom(c)
    BY <1>1, NoRowsAdded
  <1>4. BetsGrow /\ bets' = bets /\ ledger' = ledger /\ feed' = feed
    BY SameBets DEF ledgerVars
  <1>5. TypeOK'
    BY <1>1, <1>2, <1>3, <1>4 DEF TypeOK, LedgerInv
  <1>6. CallOK(calls[p])'
    <2>1. CallOK(c)'
      BY <1>3, <1>4, CallStays
    <2> QED  BY <1>2, <2>1 DEF CallOK, StakeRow, RowWith, Placed, Wanted
  <1>7. \A o \in Procs : p # o => Apart(calls[p], calls[o])'
    BY <1>1, <1>2 DEF Apart
  <1>8. \A d \in lateCalls' : d \in lateCalls \/ LateOK(d)'
    BY <1>3, <1>4, LateStays
  <1>a. PICK P : P = {p}
    OBVIOUS
  <1>9. \A o \in Procs \ P :
           /\ calls'[o] = calls[o]
           /\ calls[o].step \in Creating =>
                 bets'[calls[o].bet].status = bets[calls[o].bet].status
    BY <1>2, <1>4, <1>a
  <1>10. /\ \A q \in Procs \cap P : CallOK(calls[q])'
         /\ \A q \in Procs \cap P, o \in Procs : q # o => Apart(calls[q], calls[o])'
    BY <1>6, <1>7, <1>a
  <1>11. /\ \A b \in BetIds : bets'[b] # bets[b] => Sound(b)'
         /\ \A w \in Wallets : \A i \in DOMAIN ledger'[w] :
               i \in DOMAIN ledger[w] \/ RowOK(ledger[w][i], w)'
    BY <1>4
  <1> QED  BY <1>3, <1>4, <1>5, <1>8, <1>9, <1>10, <1>11, FrameStep

\* A request ends.
LEMMA NoCallOK ==
    NoCall \in Call /\ CallOK(NoCall) /\ NoCall.step \notin Creating
  BY DEF NoCall, Call, BetSteps, CallOK, Creating, Placing, Settling

\* A request that ends changes nothing else.
LEMMA FinishStep ==
    ASSUME BetsInv, NEW p \in Procs, Finish(p), OnlyReads
    PROVE  BetsInv'
  <1>1. calls' = [calls EXCEPT ![p] = NoCall] /\ UNCHANGED <<ledgerVars, feed, bets>>
    BY DEF Finish, OnlyReads
  <1>2. faults' \in 0 .. MaxFaults /\ lateCalls' = lateCalls /\ lateCalls \subseteq WalletCall
    BY CallFacts DEF OnlyReads
  <1> QED  BY <1>1, <1>2, NoCallOK, MoveStep

\* A request goes on to another step and keeps the rest.
LEMMA GotoCall ==
    ASSUME BetsInv, NEW p \in Procs, NEW s \in BetSteps, Goto(p, s)
    PROVE  \E c \in Call :
              /\ calls' = [calls EXCEPT ![p] = c]
              /\ c.step = s /\ c.bet = calls[p].bet /\ c.pick = calls[p].pick
              /\ c.stake = calls[p].stake /\ c.payout = calls[p].payout
              /\ c.result = calls[p].result
  <1>1. calls[p] \in Call
    BY CallFacts
  <1> QED  BY <1>1, GotoTyped

\* Going on without having written anything.
LEMMA GotoStep ==
    ASSUME BetsInv, NEW p \in Procs, NEW s \in BetSteps \ Creating, Goto(p, s), OnlyReads,
           \A c \in Call :
              (/\ c.step = s /\ c.bet = calls[p].bet /\ c.pick = calls[p].pick
               /\ c.stake = calls[p].stake /\ c.payout = calls[p].payout
               /\ c.result = calls[p].result) => CallOK(c)
    PROVE  BetsInv'
  <1>1. PICK c \in Call :
           /\ calls' = [calls EXCEPT ![p] = c]
           /\ c.step = s /\ c.bet = calls[p].bet /\ c.pick = calls[p].pick
           /\ c.stake = calls[p].stake /\ c.payout = calls[p].payout
           /\ c.result = calls[p].result
    BY GotoCall
  <1>2. UNCHANGED <<ledgerVars, feed, bets>>
    BY DEF OnlyReads
  <1>3. faults' \in 0 .. MaxFaults /\ lateCalls' = lateCalls /\ lateCalls \subseteq WalletCall
    BY CallFacts DEF OnlyReads
  <1> QED  BY <1>1, <1>2, <1>3, MoveStep

-----------------------------------------------------------------------------
(* Requests that only read. *)

\* PlaceBet arrives.
LEMMA BeginPlaceStep ==
    ASSUME BetsInv, NEW p \in Procs, NEW d \in BetCalls, BeginPlace(p, d)
    PROVE  BetsInv'
  <1> DEFINE c == [NoCall EXCEPT !.step = "check", !.bet = <<d.user, d.ref>>, !.pick = d.pick,
                                 !.stake = d.stake]
  <1>1. /\ d.user \in Wallets /\ d.ref \in BetRefs /\ d.pick \in Outcomes
        /\ d.stake \in Nat
    BY BetCallsAssumption
  <1>2. /\ c.step = "check" /\ c.bet = <<d.user, d.ref>> /\ c.pick = d.pick /\ c.stake = d.stake
        /\ c.payout = 0 /\ c.result = "none"
    BY DEF NoCall
  <1>3. c \in Call
    BY <1>1 DEF Call, NoCall, BetSteps, BetIds
  <1>4. CallOK(c)
    <2>1. <<d.user, d.ref>> \in BetIds /\ Wanted(<<d.user, d.ref>>)
      BY <1>1 DEF BetIds, Wanted
    <2> HIDE DEF c
    <2> QED  BY <1>1, <1>2, <2>1 DEF CallOK, Creating, Settling
  <1>5. calls' = [calls EXCEPT ![p] = c] /\ UNCHANGED <<ledgerVars, feed, bets>>
    BY DEF BeginPlace, OnlyReads
  <1>6. faults' \in 0 .. MaxFaults /\ lateCalls' = lateCalls /\ lateCalls \subseteq WalletCall
    BY CallFacts DEF BeginPlace, OnlyReads
  <1>7. c.step \notin Creating
    BY <1>2 DEF Creating
  <1> HIDE DEF c
  <1> QED  BY <1>3, <1>4, <1>5, <1>6, <1>7, MoveStep

\* GetBetByReference, GetEvent and ListMarkets.
LEMMA CheckStep ==
    ASSUME BetsInv, NEW p \in Procs, CheckReference(p) \/ ReadMarket(p)
    PROVE  BetsInv'
  <1>1. calls[p] \in Call /\ CallOK(calls[p])
    BY CallFacts
  <1>2. OnlyReads /\ (Finish(p) \/ (calls[p].step \in {"check", "market"}
                                      /\ \E s \in {"market", "outcome"} : Goto(p, s)))
    BY DEF CheckReference, ReadMarket, At
  <1>3. CASE Finish(p)
    BY <1>2, <1>3, FinishStep
  <1>4. ASSUME calls[p].step \in {"check", "market"}, NEW s \in {"market", "outcome"}, Goto(p, s)
        PROVE  BetsInv'
    <2>1. s \in BetSteps \ Creating
      BY DEF BetSteps, Creating
    <2>2. ASSUME NEW c \in Call, c.step = s, c.bet = calls[p].bet, c.pick = calls[p].pick
          PROVE  CallOK(c)
      BY <1>1, <1>4, <2>2 DEF CallOK, Placing, Creating, Settling
    <2> QED  BY <1>2, <1>4, <2>1, <2>2, GotoStep
  <1> QED  BY <1>2, <1>3, <1>4

\* ListOutcomes: the payout is the stake times the odds read.
LEMMA OutcomeStep ==
    ASSUME BetsInv, NEW p \in Procs, ReadOutcome(p)
    PROVE  BetsInv'
  <1>1. calls[p] \in Call /\ CallOK(calls[p]) /\ feed \in [Outcomes -> Quote]
    BY CallFacts
  <1>2. OnlyReads /\ calls[p].step = "outcome"
    BY DEF ReadOutcome, At
  <1>3. CASE Finish(p)
    BY <1>2, <1>3, FinishStep
  <1>4. CASE ~Finish(p)
    <2>a. PICK pay : pay = calls[p].stake * feed[calls[p].pick].odds
      OBVIOUS
    <2> DEFINE c == [calls[p] EXCEPT !.step = "create", !.payout = pay]
    <2>1. pay \in Nat
      <3>1. calls[p].pick \in Outcomes /\ calls[p].stake \in Nat
        BY <1>1, <1>2 DEF CallOK, Placing, Call
      <3>2. feed[calls[p].pick].odds \in Nat
        BY <1>1, <3>1, BettingAssumption DEF Quote
      <3> QED  BY <2>a, <3>1, <3>2
    <2>2. calls' = [calls EXCEPT ![p] = c]
      BY <1>4, <2>a DEF ReadOutcome
    <2>3. c \in Call /\ c.step = "create" /\ c.bet = calls[p].bet /\ c.pick = calls[p].pick
      BY <1>1, <2>1 DEF Call, BetSteps
    <2> HIDE DEF c
    <2>4. CallOK(c) /\ c.step \notin Creating
      BY <1>1, <1>2, <2>3 DEF CallOK, Placing, Creating, Settling
    <2>5. UNCHANGED <<ledgerVars, feed, bets>>
      BY <1>2 DEF OnlyReads
    <2>6. faults' \in 0 .. MaxFaults /\ lateCalls' = lateCalls /\ lateCalls \subseteq WalletCall
      BY <1>2, CallFacts DEF OnlyReads
    <2> QED  BY <2>2, <2>3, <2>4, <2>5, <2>6, MoveStep
  <1> QED  BY <1>3, <1>4

\* SettleBet arrives, from an administrator or from the scheduler.
LEMMA BeginSettleStep ==
    ASSUME BetsInv, NEW p \in Procs, NEW b \in BetIds, AdminSettle(p, b) \/ AutoSettle(p, b)
    PROVE  BetsInv'
  <1>1. PICK result \in Results : Placed(b) /\ BeginSettle(p, b, result)
    BY BettingAssumption DEF AdminSettle, AutoSettle, Listed, ResolveOutcome, Results, Placed
  <1> DEFINE c == [NoCall EXCEPT !.step = "load", !.bet = b, !.result = result]
  <1>2. c \in Call /\ c.step = "load" /\ c.bet = b /\ c.result = result
    BY DEF NoCall, Call, BetSteps
  <1>3. calls' = [calls EXCEPT ![p] = c] /\ UNCHANGED <<ledgerVars, feed, bets>>
    BY <1>1 DEF BeginSettle, OnlyReads
  <1> HIDE DEF c
  <1>4. CallOK(c) /\ c.step \notin Creating
    BY <1>1, <1>2 DEF CallOK, Placing, Creating, Settling
  <1>5. faults' \in 0 .. MaxFaults /\ lateCalls' = lateCalls /\ lateCalls \subseteq WalletCall
    BY <1>1, CallFacts DEF BeginSettle, OnlyReads
  <1> QED  BY <1>2, <1>3, <1>4, <1>5, MoveStep

\* GetBet: a pending bet has its stake in the ledger.
LEMMA LoadStep ==
    ASSUME BetsInv, NEW p \in Procs, LoadBet(p)
    PROVE  BetsInv'
  <1>1. calls[p] \in Call /\ CallOK(calls[p]) /\ StakeBacked
    BY CallFacts DEF BetsInv
  <1>2. OnlyReads /\ calls[p].step = "load"
    BY DEF LoadBet, At
  <1>3. CASE Finish(p)
    BY <1>2, <1>3, FinishStep
  <1>4. CASE ~Finish(p)
    <2>1. Goto(p, "mark") /\ bets[calls[p].bet].status = "pending"
      BY <1>4 DEF LoadBet
    <2>2. calls[p].bet \in BetIds /\ calls[p].result \in Results /\ Placed(calls[p].bet)
      BY <1>1, <1>2 DEF CallOK, Settling
    <2>3. StakeRow(calls[p].bet)
      BY <1>1, <2>1, <2>2 DEF StakeBacked
    <2>4. ASSUME NEW c \in Call, c.step = "mark", c.bet = calls[p].bet,
                 c.result = calls[p].result
          PROVE  CallOK(c)
      BY <2>1, <2>2, <2>3, <2>4 DEF CallOK, Placing, Creating, Settling, Accepted
    <2>5. "mark" \in BetSteps \ Creating
      BY DEF BetSteps, Creating
    <2> QED  BY <1>2, <2>1, <2>4, <2>5, GotoStep
  <1> QED  BY <1>3, <1>4

-----------------------------------------------------------------------------
(* Requests that write a bet. *)

\* A request writes the record of bet b.
LEMMA WriteStep ==
    ASSUME BetsInv, NEW p \in Procs, NEW b \in BetIds, NEW new \in Bet, NEW c \in Call,
           calls' = [calls EXCEPT ![p] = c], SetBet(b, new),
           new.status # "none",
           Placed(b) => /\ new.pick = bets[b].pick /\ new.stake = bets[b].stake
                        /\ new.payout = bets[b].payout,
           bets[b].status \in Accepted => new.status \in Accepted,
           bets[b].status = "debit_pending" => calls[p].step \in Creating /\ calls[p].bet = b,
           Wanted(b), new.pick \in Outcomes,
           new.status \in {"pending", "won", "lost"} =>
              RowWith(b[1], b[2], "withdrawal", new.stake, "completed"),
           CallOK(c)',
           c.step \in Creating => c.bet = b /\ bets[b].status = "none"
    PROVE  BetsInv'
  <1>1. /\ calls \in [Procs -> Call] /\ feed \in [Outcomes -> Quote] /\ bets \in [BetIds -> Bet]
        /\ LedgerInv /\ \A o \in Procs : p # o => Apart(calls[p], calls[o])
        /\ lateCalls \subseteq WalletCall /\ faults \in 0 .. MaxFaults
    BY CallFacts
  <1>2. /\ calls' \in [Procs -> Call] /\ calls'[p] = c
        /\ \A o \in Procs \ {p} : calls'[o] = calls[o]
    BY <1>1
  <1>3. /\ bets' \in [BetIds -> Bet] /\ bets'[b] = new
        /\ \A d \in BetIds \ {b} : bets'[d] = bets[d]
        /\ UNCHANGED ledgerVars /\ ledger' = ledger /\ feed' = feed
        /\ lateCalls' = lateCalls /\ faults' = faults
    BY <1>1 DEF SetBet, ledgerVars
  <1>4. LedgerInv' /\ RowsGrow
    BY <1>1, <1>3, NoRowsAdded
  <1>5. BetsGrow
    BY <1>3 DEF BetsGrow, Placed
  <1>6. TypeOK'
    BY <1>1, <1>2, <1>3, <1>4 DEF TypeOK, LedgerInv
  <1>a. PICK P : P = {p}
    OBVIOUS
  <1>7. ASSUME NEW o \in Procs \ P
        PROVE  /\ calls'[o] = calls[o]
               /\ calls[o].step \in Creating =>
                     bets'[calls[o].bet].status = bets[calls[o].bet].status
    <2>1. o # p /\ calls'[o] = calls[o] /\ CallOK(calls[o]) /\ Apart(calls[p], calls[o])
      BY <1>1, <1>2, <1>a DEF BetsInv
    <2>2. ASSUME calls[o].step \in Creating
          PROVE  bets'[calls[o].bet].status = bets[calls[o].bet].status
      <3>1. calls[o].bet \in BetIds /\ bets[calls[o].bet].status = "debit_pending"
        BY <2>1, <2>2 DEF CallOK, Creating
      <3>2. calls[o].bet # b
        BY <2>1, <2>2, <3>1 DEF Apart
      <3> QED  BY <1>3, <3>1, <3>2
    <2> QED  BY <2>1, <2>2
  <1>8. CallOK(calls[p])'
    BY <1>2 DEF CallOK, StakeRow, RowWith, Placed, Wanted
  <1>9. ASSUME NEW o \in Procs, p # o  PROVE Apart(calls[p], calls[o])'
    <2>1. calls'[o] = calls[o] /\ CallOK(calls[o]) /\ calls'[p] = c
      BY <1>2, <1>9 DEF BetsInv
    <2>2. calls[o].step \in Creating => bets[calls[o].bet].status = "debit_pending"
      BY <2>1 DEF CallOK, Creating
    <2> QED  BY <2>1, <2>2 DEF Apart
  <1>10. /\ \A q \in Procs \cap P : CallOK(calls[q])'
         /\ \A q \in Procs \cap P, o \in Procs : q # o => Apart(calls[q], calls[o])'
    BY <1>8, <1>9, <1>a
  <1>11. \A d \in BetIds : bets'[d] # bets[d] => Sound(d)'
    <2>1. new.status \in {"pending", "won", "lost"} => StakeRow(b)'
      BY <1>3 DEF StakeRow, RowWith
    <2>2. Sound(b)'
      BY <1>3, <2>1 DEF Sound, Wanted
    <2> QED  BY <1>3, <2>2
  <1>12. \A w \in Wallets : \A i \in DOMAIN ledger'[w] :
            i \in DOMAIN ledger[w] \/ RowOK(ledger[w][i], w)'
    BY <1>3
  <1> QED  BY <1>3, <1>4, <1>5, <1>6, <1>7, <1>10, <1>11, <1>12, FrameStep

\* CreateBet: INSERT, or the bet that has the key is returned.
LEMMA CreateBetStep ==
    ASSUME BetsInv, NEW p \in Procs, CreateBet(p)
    PROVE  BetsInv'
  <1>1. calls[p] \in Call /\ CallOK(calls[p])
    BY CallFacts
  <1>a. PICK b : b = calls[p].bet
    OBVIOUS
  <1>2. b \in BetIds /\ Wanted(b) /\ calls[p].pick \in Outcomes /\ calls[p].stake \in Nat
          /\ calls[p].payout \in Nat /\ calls[p].step = "create"
    BY <1>1, <1>a DEF CallOK, Placing, CreateBet, At, Call
  <1>3. CASE bets[b].status # "none"
    BY <1>3, <1>a, FinishStep DEF CreateBet
  <1>4. CASE bets[b].status = "none"
    <2> DEFINE new == [NoBet EXCEPT !.status = "debit_pending", !.pick = calls[p].pick,
                                    !.stake = calls[p].stake, !.payout = calls[p].payout]
    <2>1. Goto(p, "debit") /\ SetBet(b, new)
      BY <1>4, <1>a DEF CreateBet
    <2>2. new \in Bet /\ new.status = "debit_pending" /\ new.pick = calls[p].pick
            /\ new.stake = calls[p].stake
      BY <1>2 DEF NoBet, Bet, BetStatus
    <2> HIDE DEF new
    <2>3. "debit" \in BetSteps
      BY DEF BetSteps
    <2>4. PICK c \in Call : /\ calls' = [calls EXCEPT ![p] = c]
                            /\ c.step = "debit" /\ c.bet = b /\ c.stake = calls[p].stake
      BY <1>a, <2>1, <2>3, GotoCall
    <2>5. bets'[b] = new
      BY <1>2, <2>1, CallFacts DEF SetBet
    <2>6. CallOK(c)'
      BY <1>2, <2>2, <2>4, <2>5 DEF CallOK, Creating, Placing, Settling
    <2>7. /\ ~Placed(b) /\ bets[b].status \notin Accepted /\ bets[b].status # "debit_pending"
          /\ new.status # "none" /\ new.status \notin {"pending", "won", "lost"}
      BY <1>4, <2>2 DEF Placed, Accepted, Results
    <2>8. new.pick \in Outcomes
      BY <1>2, <2>2
    <2> QED  BY <1>2, <1>4, <2>1, <2>2, <2>4, <2>6, <2>7, <2>8, WriteStep
  <1> QED  BY <1>3, <1>4

\* A record keeps what was agreed when its status changes.
LEMMA StatusOnly ==
    ASSUME NEW old \in Bet, NEW s \in BetStatus
    PROVE  LET new == [old EXCEPT !.status = s]
               paid == [old EXCEPT !.status = s, !.debit = TRUE]
           IN  /\ new \in Bet /\ new.status = s /\ new.pick = old.pick
               /\ new.stake = old.stake /\ new.payout = old.payout
               /\ paid \in Bet /\ paid.status = s /\ paid.pick = old.pick
               /\ paid.stake = old.stake /\ paid.payout = old.payout
  BY DEF Bet

\* UpdateBetStatus after a failed debit, UpdateBetStatusAndDebitTx after one done.
LEMMA CloseStep ==
    ASSUME BetsInv, NEW p \in Procs, CancelUnpaid(p) \/ FinalizeBet(p)
    PROVE  BetsInv'
  <1>1. calls[p] \in Call /\ CallOK(calls[p]) /\ bets \in [BetIds -> Bet] /\ BetsPlaced
    BY CallFacts DEF BetsInv
  <1>a. PICK b : b = calls[p].bet
    OBVIOUS
  <1>2. calls[p].step \in {"cancel", "finalize"} /\ calls' = [calls EXCEPT ![p] = NoCall]
    BY DEF CancelUnpaid, FinalizeBet, At, Finish
  <1>3. /\ b \in BetIds /\ bets[b].status = "debit_pending" /\ calls[p].step \in Creating
        /\ (calls[p].step = "finalize" => StakeRow(b))
    BY <1>1, <1>2, <1>a DEF CallOK, Creating
  <1>4. Wanted(b) /\ bets[b].pick \in Outcomes /\ bets[b] \in Bet
    BY <1>1, <1>3 DEF BetsPlaced, Placed
  <1>5. PICK new \in Bet :
           /\ SetBet(b, new) /\ new.pick = bets[b].pick /\ new.stake = bets[b].stake
           /\ new.payout = bets[b].payout
           /\ \/ new.status = "cancelled"
              \/ new.status = "pending" /\ calls[p].step = "finalize"
    <2>1. CASE CancelUnpaid(p)
      <3>a. PICK new : new = [bets[b] EXCEPT !.status = "cancelled"]
        OBVIOUS
      <3>1. SetBet(b, new)
        BY <2>1, <1>a, <3>a DEF CancelUnpaid
      <3>2. "cancelled" \in BetStatus
        BY DEF BetStatus, Results
      <3> QED  BY <1>4, <3>1, <3>2, <3>a, StatusOnly
    <2>2. CASE FinalizeBet(p)
      <3>a. PICK new : new = [bets[b] EXCEPT !.status = "pending", !.debit = TRUE]
        OBVIOUS
      <3>1. SetBet(b, new) /\ calls[p].step = "finalize"
        BY <2>2, <1>a, <3>a DEF FinalizeBet, At
      <3>2. "pending" \in BetStatus
        BY DEF BetStatus
      <3> QED  BY <1>4, <3>1, <3>2, <3>a, StatusOnly
    <2> QED  BY <2>1, <2>2
  <1>6. /\ new.status \in Accepted /\ new.status # "none"
        /\ new.status \in {"pending", "won", "lost"} =>
              RowWith(b[1], b[2], "withdrawal", new.stake, "completed")
    BY <1>3, <1>5 DEF Accepted, Results, StakeRow
  <1>7. NoCall \in Call /\ CallOK(NoCall)' /\ NoCall.step \notin Creating
    <2>1. NoCall.step = "idle"
      BY DEF NoCall
    <2> QED  BY <2>1, NoCallOK DEF CallOK, Creating, Placing, Settling
  <1> QED  BY <1>2, <1>3, <1>4, <1>5, <1>6, <1>7, <1>a, WriteStep

\* UpdateBetStatusAndOutcome, whatever the status is by now.
LEMMA MarkStep ==
    ASSUME BetsInv, NEW p \in Procs, MarkSettled(p)
    PROVE  BetsInv'
  <1>1. calls[p] \in Call /\ CallOK(calls[p]) /\ bets \in [BetIds -> Bet] /\ BetsPlaced
    BY CallFacts DEF BetsInv
  <1>a. PICK b : b = calls[p].bet
    OBVIOUS
  <1>b. PICK result : result = calls[p].result
    OBVIOUS
  <1>c. PICK new : new = [bets[b] EXCEPT !.status = result]
    OBVIOUS
  <1>2. calls[p].step = "mark" /\ SetBet(b, new)
    BY <1>a, <1>b, <1>c DEF MarkSettled, At
  <1>3. /\ b \in BetIds /\ bets[b].status \in Accepted /\ StakeRow(b) /\ result \in Results
    BY <1>1, <1>2, <1>a, <1>b DEF CallOK, Settling
  <1>4. Placed(b) /\ Wanted(b) /\ bets[b].pick \in Outcomes /\ bets[b] \in Bet
    BY <1>1, <1>3 DEF BetsPlaced, Placed, Accepted, Results
  <1>5. /\ new \in Bet /\ new.status = result /\ new.pick = bets[b].pick
        /\ new.stake = bets[b].stake /\ new.payout = bets[b].payout
    <2>1. result \in BetStatus
      BY <1>3 DEF BetStatus
    <2> QED  BY <1>4, <1>c, <2>1, StatusOnly
  <1>6. /\ new.status \in Accepted /\ new.status # "none" /\ bets[b].status # "debit_pending"
        /\ RowWith(b[1], b[2], "withdrawal", new.stake, "completed")
    BY <1>3, <1>5 DEF Accepted, Results, StakeRow
  <1>7. bets'[b] = new /\ ledger' = ledger
    BY <1>1, <1>2, <1>3 DEF SetBet, ledgerVars
  <1>8. PICK c \in Call : /\ calls' = [calls EXCEPT ![p] = c] /\ CallOK(c)'
                          /\ c.step \notin Creating
    <2>1. CASE result = "lost"
      <3>1. calls' = [calls EXCEPT ![p] = NoCall]
        BY <1>b, <2>1 DEF MarkSettled, Finish
      <3>2. NoCall.step = "idle"
        BY DEF NoCall
      <3>3. CallOK(NoCall)'
        BY <3>2 DEF CallOK, Creating, Placing, Settling
      <3> QED  BY <3>1, <3>3, NoCallOK
    <2>2. CASE result # "lost"
      <3>1. Goto(p, "credit") /\ "credit" \in BetSteps
        BY <1>b, <2>2 DEF MarkSettled, BetSteps
      <3>2. PICK c \in Call : /\ calls' = [calls EXCEPT ![p] = c] /\ c.step = "credit"
                              /\ c.bet = b /\ c.result = result
        BY <1>a, <1>b, <3>1, GotoCall
      <3>3. StakeRow(b)' /\ Placed(b)'
        BY <1>6, <1>7 DEF StakeRow, RowWith, Placed
      <3>4. CallOK(c)'
        BY <1>3, <1>6, <1>7, <2>2, <3>2, <3>3 DEF CallOK, Creating, Placing, Settling
      <3> QED  BY <3>2, <3>4 DEF Creating
    <2> QED  BY <2>1, <2>2
  <1> QED  BY <1>2, <1>3, <1>4, <1>5, <1>6, <1>8, WriteStep

\* SetCreditTransactionID
LEMMA RecordStep ==
    ASSUME BetsInv, NEW p \in Procs, RecordCredit(p)
    PROVE  BetsInv'
  <1>1. calls[p] \in Call /\ CallOK(calls[p]) /\ bets \in [BetIds -> Bet] /\ BetsPlaced
    BY CallFacts DEF BetsInv
  <1>a. PICK b : b = calls[p].bet
    OBVIOUS
  <1>c. PICK new : new = [bets[b] EXCEPT !.credit = TRUE]
    OBVIOUS
  <1>2. /\ calls[p].step = "record" /\ SetBet(b, new)
        /\ calls' = [calls EXCEPT ![p] = NoCall]
    BY <1>a, <1>c DEF RecordCredit, At, Finish
  <1>3. b \in BetIds /\ bets[b].status \in Accepted /\ StakeRow(b)
    BY <1>1, <1>2, <1>a DEF CallOK
  <1>4. Placed(b) /\ Wanted(b) /\ bets[b].pick \in Outcomes /\ bets[b] \in Bet
    BY <1>1, <1>3 DEF BetsPlaced, Placed, Accepted, Results
  <1>5. /\ new \in Bet /\ new.status = bets[b].status /\ new.pick = bets[b].pick
        /\ new.stake = bets[b].stake /\ new.payout = bets[b].payout
    BY <1>4, <1>c DEF Bet
  <1>6. /\ new.status \in Accepted /\ new.status # "none" /\ bets[b].status # "debit_pending"
        /\ RowWith(b[1], b[2], "withdrawal", new.stake, "completed")
    BY <1>3, <1>5 DEF Accepted, Results, StakeRow
  <1>7. NoCall \in Call /\ CallOK(NoCall)' /\ NoCall.step \notin Creating
    <2>1. NoCall.step = "idle"
      BY DEF NoCall
    <2> QED  BY <2>1, NoCallOK DEF CallOK, Creating, Placing, Settling
  <1> QED  BY <1>2, <1>3, <1>4, <1>5, <1>6, <1>7, WriteStep

-----------------------------------------------------------------------------
(* Steps of the wallet. *)

\* The wallet call of a request is made for its bet.
LEMMA CallOfFacts ==
    ASSUME BetsInv, NEW p \in Procs, calls[p].step \in {"debit", "credit"}
    PROVE  /\ calls[p].bet \in BetIds /\ CallOf(p) \in WalletCall
           /\ CallFor(CallOf(p), calls[p].bet)
           /\ (CallOf(p).kind = "debit" <=> calls[p].step = "debit")
  <1>1. calls[p] \in Call /\ CallOK(calls[p]) /\ bets \in [BetIds -> Bet]
    BY CallFacts
  <1>a. PICK b : b = calls[p].bet
    OBVIOUS
  <1>2. b \in BetIds
    BY <1>1, <1>a DEF CallOK
  <1>3. b[1] \in Wallets /\ b[2] \in BetRefs
    BY <1>2, BetIdPair
  <1>4. bets[b].stake \in Nat /\ bets[b].payout \in Nat
    BY <1>1, <1>2 DEF Bet
  <1>5. {b[2], SettleRef(b[2]), CancelRef(b[2])} \subseteq Refs
    BY <1>3, BetRefsAssumption
  <1>6. CASE calls[p].step = "debit"
    <2>1. bets[b].status = "debit_pending" /\ bets[b].stake = calls[p].stake
      BY <1>1, <1>6, <1>a DEF CallOK, Creating
    <2>a. PICK d : d = [kind |-> "debit", user |-> b[1], amount |-> calls[p].stake, ref |-> b[2]]
      OBVIOUS
    <2>2. CallOf(p) = d
      BY <1>6, <1>a, <2>a DEF CallOf, At, User, RefOf
    <2>3. d \in WalletCall
      BY <1>3, <1>4, <1>5, <2>1, <2>a DEF WalletCall
    <2>4. CallFor(d, b) /\ d.kind = "debit"
      BY <2>1, <2>a DEF CallFor, Placed
    <2> QED  BY <1>2, <1>6, <1>a, <2>2, <2>3, <2>4
  <1>7. CASE calls[p].step = "credit"
    <2>1. Placed(b) /\ StakeRow(b)
      BY <1>1, <1>7, <1>a DEF CallOK, Settling
    <2>b. PICK r : r = IF calls[p].result = "won" THEN SettleRef(b[2]) ELSE CancelRef(b[2])
      OBVIOUS
    <2>c. PICK a : a = IF calls[p].result = "won" THEN bets[b].payout ELSE bets[b].stake
      OBVIOUS
    <2>a. PICK d : d = [kind |-> "credit", user |-> b[1], amount |-> a, ref |-> r]
      OBVIOUS
    <2>2. CallOf(p) = d
      BY <1>7, <1>a, <2>a, <2>b, <2>c DEF CallOf, At, User, RefOf
    <2>3. d \in WalletCall
      BY <1>3, <1>4, <1>5, <2>a, <2>b, <2>c DEF WalletCall
    <2>4. CallFor(d, b) /\ d.kind = "credit"
      BY <2>1, <2>a, <2>b DEF CallFor
    <2> QED  BY <1>2, <1>7, <1>a, <2>2, <2>3, <2>4
  <1> QED  BY <1>6, <1>7

\* Serving a call made for a bet adds at most a row for that bet.
LEMMA ServeBet ==
    ASSUME BetsInv, WholeUnits, NEW c \in WalletCall, LateOK(c), Serve(c), bets' = bets
    PROVE  /\ LedgerInv' /\ RowsGrow /\ RowsFrom(c) /\ (Succeeds(c) => Posted(c.ref)')
           /\ \A w \in Wallets : \A i \in DOMAIN ledger'[w] :
                 i \in DOMAIN ledger[w] \/ RowOK(ledger[w][i], w)'
  <1>1. LedgerInv' /\ RowsGrow /\ RowsFrom(c) /\ (Succeeds(c) => Posted(c.ref)')
    BY ServeRows DEF BetsInv
  <1>2. BetsGrow
    BY SameBets
  <1>3. PICK b \in BetIds : CallFor(c, b)'
    BY <1>1, <1>2, LateStays DEF LateOK
  <1>4. Stored(c.amount) = c.amount
    BY UnitScale DEF WalletCall, WholeUnits
  <1>5. ASSUME NEW w \in Wallets, NEW i \in DOMAIN ledger'[w], i \notin DOMAIN ledger[w]
        PROVE  RowOK(ledger[w][i], w)'
    <2>a. PICK row : row = ledger'[w][i]
      OBVIOUS
    <2>1. /\ w = c.user /\ row.ref = c.ref /\ row.amount = c.amount /\ row.status = "completed"
          /\ row.type = IF c.kind = "credit" THEN "deposit" ELSE "withdrawal"
      BY <1>1, <1>4, <1>5, <2>a DEF RowsFrom
    <2>2. /\ Placed(b)' /\ b[1] = w
          /\ \/ /\ row.ref = b[2] /\ row.type = "withdrawal"
                /\ row.amount = bets'[b].stake /\ row.status = "completed"
             \/ row.ref \in {SettleRef(b[2]), CancelRef(b[2])} /\ StakeRow(b)'
      BY <1>3, <2>1 DEF CallFor
    <2> QED  BY <2>2, <2>a DEF RowOK, RowFor
  <1> QED  BY <1>1, <1>5

\* A row with the reference id of a bet is the stake of that bet: no other user
\* chooses the id, and no service builds it.
LEMMA StakeFound ==
    ASSUME BetsInv, OwnRefs, ApartRefs, NEW b \in BetIds, Placed(b), Posted(b[2])
    PROVE  StakeRow(b)
  <1>1. PICK w \in Wallets : \E i \in DOMAIN ledger[w] : ledger[w][i].ref = b[2]
    BY DEF Posted
  <1>2. PICK i \in DOMAIN ledger[w] : ledger[w][i].ref = b[2]
    BY <1>1
  <1>3. RowOK(ledger[w][i], w)
    BY DEF BetsInv
  <1>4. b[2] \in BetRefs
    BY BetIdPair
  <1>5. PICK d \in BetIds : RowFor(ledger[w][i], w, d)
    BY <1>2, <1>3, <1>4 DEF RowOK, ApartRefs
  <1>6. d[2] \in BetRefs
    BY BetIdPair
  <1>7. /\ Placed(d) /\ d[1] = w /\ d[2] = b[2] /\ ledger[w][i].type = "withdrawal"
        /\ ledger[w][i].amount = bets[d].stake /\ ledger[w][i].status = "completed"
    BY <1>2, <1>4, <1>5, <1>6 DEF RowFor, ApartRefs
  <1>8. d[1] = b[1]
    BY <1>7 DEF BetsInv, BetsPlaced, Wanted, OwnRefs
  <1>9. d = b
    BY <1>7, <1>8, BetIdSame
  <1> QED  BY <1>2, <1>7, <1>9 DEF StakeRow, RowWith

\* A debit that succeeds leaves the stake in the ledger, whether it was taken now
\* or by an earlier call of the same bet.
LEMMA StakeTaken ==
    ASSUME BetsInv, OwnRefs, ApartRefs, WholeUnits, NEW b \in BetIds, NEW c \in WalletCall,
           CallFor(c, b), c.kind = "debit", bets' = bets, RowsGrow, RowsFrom(c), Posted(c.ref)'
    PROVE  StakeRow(b)'
  <1>1. Placed(b) /\ c.user = b[1] /\ c.ref = b[2] /\ c.amount = bets[b].stake
    BY DEF CallFor
  <1>2. CASE Posted(b[2])
    BY <1>1, <1>2, StakeFound, SameBets, StakeStays
  <1>3. CASE ~Posted(b[2])
    <2>1. PICK w \in Wallets : \E i \in DOMAIN ledger'[w] : ledger'[w][i].ref = b[2]
      BY <1>1 DEF Posted
    <2>2. PICK i \in DOMAIN ledger'[w] : ledger'[w][i].ref = b[2]
      BY <2>1
    <2>3. i \notin DOMAIN ledger[w]
      BY <1>3, <2>2 DEF Posted, RowsGrow
    <2>4. Stored(c.amount) = c.amount
      BY UnitScale DEF WalletCall, WholeUnits
    <2>5. /\ w = b[1] /\ ledger'[w][i].type = "withdrawal"
          /\ ledger'[w][i].amount = bets'[b].stake /\ ledger'[w][i].status = "completed"
      BY <1>1, <2>3, <2>4 DEF RowsFrom
    <2> QED  BY <2>2, <2>5 DEF StakeRow, RowWith
  <1> QED  BY <1>2, <1>3

\* The wallet answers a request.
LEMMA ServeStep ==
    ASSUME BetsInv, WholeUnits, NEW p \in Procs, NEW d \in WalletCall, LateOK(d), Serve(d),
           UNCHANGED <<feed, bets, lateCalls, faults>>,
           NEW c \in Call, calls' = [calls EXCEPT ![p] = c], CallOK(c)',
           c.step \in Creating => calls[p].step \in Creating /\ c.bet = calls[p].bet
    PROVE  BetsInv'
  <1>1. /\ calls \in [Procs -> Call] /\ feed \in [Outcomes -> Quote] /\ bets \in [BetIds -> Bet]
        /\ lateCalls \subseteq WalletCall /\ faults \in 0 .. MaxFaults
        /\ \A o \in Procs : p # o => Apart(calls[p], calls[o])
    BY CallFacts
  <1>2. /\ calls' \in [Procs -> Call] /\ calls'[p] = c
        /\ \A o \in Procs \ {p} : calls'[o] = calls[o]
    BY <1>1
  <1>3. /\ LedgerInv' /\ RowsGrow
        /\ \A w \in Wallets : \A i \in DOMAIN ledger'[w] :
              i \in DOMAIN ledger[w] \/ RowOK(ledger[w][i], w)'
    BY ServeBet
  <1>4. BetsGrow /\ bets' = bets /\ feed' = feed /\ lateCalls' = lateCalls /\ faults' = faults
    BY SameBets
  <1>5. TypeOK'
    BY <1>1, <1>2, <1>3, <1>4 DEF TypeOK, LedgerInv
  <1>6. CallOK(calls[p])'
    BY <1>2 DEF CallOK, StakeRow, RowWith, Placed, Wanted
  <1>7. \A o \in Procs : p # o => Apart(calls[p], calls[o])'
    BY <1>1, <1>2 DEF Apart
  <1>a. PICK P : P = {p}
    OBVIOUS
  <1>8. \A o \in Procs \ P :
           /\ calls'[o] = calls[o]
           /\ calls[o].step \in Creating =>
                 bets'[calls[o].bet].status = bets[calls[o].bet].status
    BY <1>2, <1>4, <1>a
  <1>9. /\ \A q \in Procs \cap P : CallOK(calls[q])'
        /\ \A q \in Procs \cap P, o \in Procs : q # o => Apart(calls[q], calls[o])'
    BY <1>6, <1>7, <1>a
  <1>10. /\ \A b \in BetIds : bets'[b] # bets[b] => Sound(b)'
         /\ \A e \in lateCalls' : e \in lateCalls \/ LateOK(e)'
    BY <1>4
  <1> QED  BY <1>3, <1>4, <1>5, <1>8, <1>9, <1>10, FrameStep

\* DebitWallet: PlaceBet goes on to accept the bet only with the stake in the ledger.
LEMMA DebitStep ==
    ASSUME BetsInv, OwnRefs, ApartRefs, WholeUnits, NEW p \in Procs, DebitStake(p)
    PROVE  BetsInv'
  <1>1. CallOK(calls[p]) /\ calls[p].step = "debit"
    BY CallFacts DEF DebitStake, At
  <1>a. PICK b : b = calls[p].bet
    OBVIOUS
  <1>b. PICK d : d = CallOf(p)
    OBVIOUS
  <1>2. b \in BetIds /\ d \in WalletCall /\ CallFor(d, b) /\ d.kind = "debit" /\ LateOK(d)
    BY <1>1, <1>a, <1>b, CallOfFacts DEF LateOK
  <1>3. Serve(d) /\ UNCHANGED <<feed, bets, lateCalls, faults>>
    BY <1>b DEF DebitStake
  <1>4. PICK s \in {"finalize", "cancel"} : Goto(p, s) /\ (s = "finalize" => Succeeds(d))
    BY <1>b DEF DebitStake
  <1>5. s \in BetSteps
    BY <1>4 DEF BetSteps
  <1>6. PICK c \in Call : /\ calls' = [calls EXCEPT ![p] = c]
                          /\ c.step = s /\ c.bet = b /\ c.stake = calls[p].stake
    BY <1>4, <1>5, <1>a, GotoCall
  <1>7. RowsGrow /\ RowsFrom(d) /\ (Succeeds(d) => Posted(d.ref)')
    BY <1>2, <1>3, ServeBet
  <1>8. ASSUME s = "finalize"  PROVE StakeRow(b)'
    <2>1. Posted(d.ref)'
      BY <1>4, <1>7, <1>8
    <2> QED  BY <1>2, <1>3, <1>7, <2>1, StakeTaken
  <1>9. bets'[b].status = "debit_pending" /\ bets'[b].stake = calls[p].stake
    BY <1>1, <1>3, <1>a DEF CallOK, Creating
  <1>10. CallOK(c)'
    BY <1>2, <1>4, <1>6, <1>8, <1>9 DEF CallOK, Placing, Creating, Settling
  <1>11. calls[p].step \in Creating
    BY <1>1 DEF Creating
  <1> QED  BY <1>2, <1>3, <1>6, <1>10, <1>11, <1>a, ServeStep

\* CreditWallet
LEMMA CreditStep ==
    ASSUME BetsInv, WholeUnits, NEW p \in Procs, CreditUser(p)
    PROVE  BetsInv'
  <1>1. CallOK(calls[p]) /\ calls[p].step = "credit"
    BY CallFacts DEF CreditUser, At
  <1>a. PICK b : b = calls[p].bet
    OBVIOUS
  <1>b. PICK d : d = CallOf(p)
    OBVIOUS
  <1>2. b \in BetIds /\ d \in WalletCall /\ CallFor(d, b) /\ LateOK(d)
    BY <1>1, <1>a, <1>b, CallOfFacts DEF LateOK
  <1>3. Serve(d) /\ UNCHANGED <<feed, bets, lateCalls, faults>> /\ Goto(p, "record")
    BY <1>b DEF CreditUser
  <1>5. "record" \in BetSteps /\ "record" \notin Creating
    BY DEF BetSteps, Creating
  <1>6. PICK c \in Call : /\ calls' = [calls EXCEPT ![p] = c]
                          /\ c.step = "record" /\ c.bet = b /\ c.result = calls[p].result
    BY <1>3, <1>5, <1>a, GotoCall
  <1>7. RowsGrow /\ BetsGrow
    BY <1>2, <1>3, ServeBet, SameBets
  <1>8. CallOK(c)
    BY <1>1, <1>6, <1>a DEF CallOK, Placing, Creating, Settling
  <1>9. CallOK(c)'
    BY <1>5, <1>6, <1>7, <1>8, CallStays
  <1> QED  BY <1>2, <1>3, <1>5, <1>6, <1>9, ServeStep

-----------------------------------------------------------------------------
(* Failures, and what is not a request of the sportsbook. *)

\* A wallet call whose reply is lost, and a request that ends where it is.
LEMMA FaultStep ==
    ASSUME BetsInv, NEW p \in Procs, LoseReply(p) \/ Abandon(p)
    PROVE  BetsInv'
  <1>1. /\ calls[p] \in Call /\ CallOK(calls[p]) /\ lateCalls \subseteq WalletCall
        /\ faults \in 0 .. MaxFaults
    BY CallFacts
  <1>2. faults' \in 0 .. MaxFaults /\ UNCHANGED <<ledgerVars, feed, bets>>
    BY <1>1, BettingAssumption DEF LoseReply, Abandon, Fault
  <1>3. \A c \in lateCalls' :
           c \in lateCalls \/ (calls[p].step \in {"debit", "credit"} /\ c = CallOf(p))
    BY DEF LoseReply, Abandon
  <1>4. ASSUME calls[p].step \in {"debit", "credit"}
        PROVE  CallOf(p) \in WalletCall /\ LateOK(CallOf(p))
    BY <1>4, CallOfFacts DEF LateOK
  <1>5. lateCalls' \subseteq WalletCall /\ \A c \in lateCalls' : c \in lateCalls \/ LateOK(c)
    BY <1>1, <1>3, <1>4
  <1>6. CASE Finish(p)
    BY <1>2, <1>5, <1>6, NoCallOK, MoveStep DEF Finish
  <1>7. CASE calls[p].step = "debit" /\ Goto(p, "cancel")
    <2>1. "cancel" \in BetSteps
      BY DEF BetSteps
    <2>2. PICK c \in Call : /\ calls' = [calls EXCEPT ![p] = c] /\ c.step = "cancel"
                            /\ c.bet = calls[p].bet /\ c.stake = calls[p].stake
      BY <1>7, <2>1, GotoCall
    <2>3. CallOK(c)
      BY <1>1, <1>7, <2>2 DEF CallOK, Placing, Creating, Settling
    <2>4. calls[p].step \in Creating
      BY <1>7 DEF Creating
    <2> QED  BY <1>2, <1>5, <2>2, <2>3, <2>4, MoveStep
  <1> QED  BY <1>6, <1>7 DEF LoseReply, Abandon, At

\* A step of no request.
LEMMA WorldStep ==
    ASSUME BetsInv, LedgerInv', RowsGrow, feed' \in [Outcomes -> Quote],
           UNCHANGED <<bets, calls, faults>>, lateCalls' \subseteq lateCalls,
           \A w \in Wallets : \A i \in DOMAIN ledger'[w] :
              i \in DOMAIN ledger[w] \/ RowOK(ledger[w][i], w)'
    PROVE  BetsInv'
  <1>1. BetsGrow
    BY SameBets
  <1>2. TypeOK'
    BY DEF BetsInv, TypeOK, LedgerInv
  <1>a. PICK P : P = {}
    OBVIOUS
  <1>3. \A o \in Procs \ P :
           /\ calls'[o] = calls[o]
           /\ calls[o].step \in Creating =>
                 bets'[calls[o].bet].status = bets[calls[o].bet].status
    OBVIOUS
  <1>4. /\ \A q \in Procs \cap P : CallOK(calls[q])'
        /\ \A q \in Procs \cap P, o \in Procs : q # o => Apart(calls[q], calls[o])'
    BY <1>a
  <1>5. /\ \A b \in BetIds : bets'[b] # bets[b] => Sound(b)'
        /\ \A c \in lateCalls' : c \in lateCalls \/ LateOK(c)'
    OBVIOUS
  <1> QED  BY <1>1, <1>2, <1>3, <1>4, <1>5, FrameStep

\* A late call arrives, or never does.
LEMMA LateStep ==
    ASSUME BetsInv, WholeUnits, NEW c \in lateCalls, ServeLate(c) \/ DropLate(c)
    PROVE  BetsInv'
  <1>1. c \in WalletCall /\ LateOK(c) /\ feed \in [Outcomes -> Quote] /\ LedgerInv
    BY DEF BetsInv, TypeOK
  <1>2. UNCHANGED <<feed, bets, calls, faults>> /\ lateCalls' \subseteq lateCalls
    BY DEF ServeLate, DropLate
  <1>3. CASE ServeLate(c)
    <2>1. Serve(c)
      BY <1>3 DEF ServeLate
    <2>2. /\ LedgerInv' /\ RowsGrow
          /\ \A w \in Wallets : \A i \in DOMAIN ledger'[w] :
                i \in DOMAIN ledger[w] \/ RowOK(ledger[w][i], w)'
      BY <1>1, <1>2, <2>1, ServeBet
    <2> QED  BY <1>1, <1>2, <2>2, WorldStep
  <1>4. CASE DropLate(c)
    <2>1. UNCHANGED ledgerVars /\ ledger' = ledger
      BY <1>4 DEF DropLate, ledgerVars
    <2>2. LedgerInv' /\ RowsGrow
      BY <1>1, <2>1, NoRowsAdded
    <2> QED  BY <1>1, <1>2, <2>1, <2>2, WorldStep
  <1> QED  BY <1>3, <1>4

\* The feed changes, or nothing does.
LEMMA FeedStep ==
    ASSUME BetsInv, UNCHANGED <<ledgerVars, bets, calls, lateCalls, faults>>,
           feed' \in [Outcomes -> Quote]
    PROVE  BetsInv'
  <1>1. LedgerInv' /\ RowsGrow /\ ledger' = ledger
    BY NoRowsAdded DEF BetsInv, ledgerVars
  <1> QED  BY <1>1, WorldStep

\* A user's deposit.
LEMMA FundStep ==
    ASSUME BetsInv, NEW u \in Wallets, FundWallet(u)
    PROVE  BetsInv'
  <1>a. PICK c : c = [kind |-> "credit", user |-> u, amount |-> Deposit, ref |-> DepositRef(u)]
    OBVIOUS
  <1>1. /\ c.kind = "credit" /\ c.user = u /\ c.amount = Deposit /\ c.ref = DepositRef(u)
    BY <1>a
  <1>2. c.user \in Wallets /\ c.amount \in Nat /\ c.ref \in Refs
    BY <1>1, BettingAssumption, BetRefsAssumption
  <1>3. Credit(c.user, c.amount, c.ref)
    BY <1>1 DEF FundWallet
  <1>4. LedgerInv' /\ RowsGrow /\ RowsFrom(c)
    BY <1>1, <1>2, <1>3, MoneyRows DEF BetsInv
  <1>5. \A w \in Wallets : \A i \in DOMAIN ledger'[w] :
           i \in DOMAIN ledger[w] \/ RowOK(ledger[w][i], w)'
    BY <1>1, <1>4 DEF RowsFrom, RowOK
  <1>6. UNCHANGED <<feed, bets, calls, lateCalls, faults>> /\ feed \in [Outcomes -> Quote]
    BY DEF FundWallet, BetsInv, TypeOK
  <1> QED  BY <1>4, <1>5, <1>6, WorldStep

-----------------------------------------------------------------------------
(* The theorems about stakes. *)

\* No bets, no rows, no requests at first.
LEMMA BetsInitially ==
    ASSUME Init
    PROVE  BetsInv
  <1>1. LedgerInv /\ TypeOK
    BY TypesInitially DEF TypesInv
  <1>3. ASSUME NEW b \in BetIds  PROVE bets[b].status = "none"
    BY DEF Init, NoBet
  <1>4. BetsPlaced /\ StakeBacked
    BY <1>3 DEF BetsPlaced, StakeBacked, Placed
  <1>5. \A p \in Procs : calls[p] = NoCall
    BY DEF Init
  <1>6. /\ \A p \in Procs : CallOK(calls[p])
        /\ \A p, o \in Procs : p # o => Apart(calls[p], calls[o])
    BY <1>5, NoCallOK DEF Apart
  <1>7. \A w \in Wallets : DOMAIN ledger[w] = {}
    <2>1. DOMAIN <<>> = {}
      OBVIOUS
    <2>2. ledger = [w \in Wallets |-> <<>>]
      BY DEF Init, LedgerInit
    <2> QED  BY <2>1, <2>2
  <1> QED  BY <1>1, <1>4, <1>6, <1>7 DEF BetsInv, Init

\* Every step keeps the invariant.
LEMMA BetsStepInv ==
    ASSUME OwnRefs, ApartRefs, WholeUnits, BetsInv, [Next]_vars
    PROVE  BetsInv'
  <1>1. feed \in [Outcomes -> Quote]
    BY DEF BetsInv, TypeOK
  <1>2. ASSUME NEW o \in Outcomes, FeedUpdate(o)  PROVE BetsInv'
    <2>1. feed' \in [Outcomes -> Quote]
      BY <1>1, <1>2 DEF FeedUpdate
    <2> QED  BY <1>2, <2>1, FeedStep DEF FeedUpdate
  <1>3. ASSUME NEW u \in Wallets, FundWallet(u)  PROVE BetsInv'
    BY <1>3, FundStep
  <1>4. ASSUME NEW p \in Procs, HandlerStep(p)  PROVE BetsInv'
    <2>1. CASE CheckReference(p) \/ ReadMarket(p)
      BY <2>1, CheckStep
    <2>2. CASE ReadOutcome(p)
      BY <2>2, OutcomeStep
    <2>3. CASE CreateBet(p)
      BY <2>3, CreateBetStep
    <2>4. CASE DebitStake(p)
      BY <2>4, DebitStep
    <2>5. CASE CancelUnpaid(p) \/ FinalizeBet(p)
      BY <2>5, CloseStep
    <2>6. CASE LoadBet(p)
      BY <2>6, LoadStep
    <2>7. CASE MarkSettled(p)
      BY <2>7, MarkStep
    <2>8. CASE CreditUser(p)
      BY <2>8, CreditStep
    <2>9. CASE RecordCredit(p)
      BY <2>9, RecordStep
    <2> QED  BY <1>4, <2>1, <2>2, <2>3, <2>4, <2>5, <2>6, <2>7, <2>8, <2>9 DEF HandlerStep
  <1>5. ASSUME NEW p \in Procs, LoseReply(p) \/ Abandon(p)  PROVE BetsInv'
    BY <1>5, FaultStep
  <1>6. ASSUME NEW p \in Procs, NEW c \in BetCalls, BeginPlace(p, c)  PROVE BetsInv'
    BY <1>6, BeginPlaceStep
  <1>7. ASSUME NEW p \in Procs, NEW b \in BetIds, AdminSettle(p, b) \/ AutoSettle(p, b)
        PROVE  BetsInv'
    BY <1>7, BeginSettleStep
  <1>8. ASSUME NEW c \in lateCalls, ServeLate(c) \/ DropLate(c)  PROVE BetsInv'
    BY <1>8, LateStep
  <1>9. CASE UNCHANGED vars
    <2>1. UNCHANGED <<ledgerVars, bets, calls, lateCalls, faults>> /\ feed' = feed
      BY <1>9 DEF vars, ledgerVars
    <2> QED  BY <1>1, <2>1, FeedStep
  <1> QED  BY <1>2, <1>3, <1>4, <1>5, <1>6, <1>7, <1>8, <1>9 DEF Next

\* The inductive invariant holds throughout.
LEMMA BetsInvariant ==
    ASSUME OwnRefs, ApartRefs, WholeUnits
    PROVE  Spec => []BetsInv
  <1>1. Init => BetsInv
    BY BetsInitially
  <1>2. BetsInv /\ [Next]_vars => BetsInv'
    BY BetsStepInv
  <1> QED  BY <1>1, <1>2, PTL DEF Spec

\* Every bet that counts (pending, won or lost) holds exactly its own stake, taken from
\* its own user's wallet: PlaceBet accepts a bet only after DebitWallet answered with
\* a transaction, and that transaction is the bet's, whatever was lost, repeated,
\* late or abandoned.
THEOREM BetsStakeBacked ==
    ASSUME OwnRefs, ApartRefs, WholeUnits
    PROVE  Spec => []StakeBacked
  <1>1. BetsInv => StakeBacked
    BY DEF BetsInv
  <1> QED  BY <1>1, BetsInvariant, PTL

\* SettleBet pays out or gives back only stakes that were taken.
THEOREM BetsPayoutBacked ==
    ASSUME OwnRefs, ApartRefs, WholeUnits
    PROVE  Spec => []PayoutBacked
  <1>1. ASSUME BetsInv, NEW b \in BetIds,
               PostedTo(b[1], SettleRef(b[2])) \/ PostedTo(b[1], CancelRef(b[2]))
        PROVE  StakeRow(b)
    <2>1. b[1] \in Wallets /\ b[2] \in BetRefs
      BY BetIdPair
    <2>2. PICK i \in DOMAIN ledger[b[1]] :
             ledger[b[1]][i].ref \in {SettleRef(b[2]), CancelRef(b[2])}
      BY <1>1 DEF PostedTo
    <2>3. RowOK(ledger[b[1]][i], b[1])
      BY <1>1, <2>1 DEF BetsInv
    <2>4. PICK d \in BetIds : RowFor(ledger[b[1]][i], b[1], d)
      BY <2>2, <2>3, OwnIds DEF RowOK
    <2>5. d[2] \in BetRefs
      BY BetIdPair
    <2>6. d[1] = b[1] /\ ledger[b[1]][i].ref \in {SettleRef(d[2]), CancelRef(d[2])} /\ StakeRow(d)
      BY <2>1, <2>2, <2>4, <2>5 DEF RowFor, ApartRefs
    <2>7. d[2] = b[2]
      BY <2>2, <2>6, OwnIds
    <2>8. d = b
      BY <2>6, <2>7, BetIdSame
    <2> QED  BY <2>6, <2>8
  <1>2. BetsInv => PayoutBacked
    BY <1>1 DEF PayoutBacked
  <1> QED  BY <1>2, BetsInvariant, PTL

-----------------------------------------------------------------------------
(* What a step does to the payments. *)

\* The step of StatusForward.
Forward ==
    \A b \in BetIds : Placed(b) =>
        /\ bets'[b].pick = bets[b].pick
        /\ bets'[b].stake = bets[b].stake
        /\ bets'[b].payout = bets[b].payout
        /\ \/ bets'[b].status = bets[b].status
           \/ bets[b].status = "debit_pending" /\ bets'[b].status \in {"pending", "cancelled"}
           \/ bets[b].status = "pending" /\ bets'[b].status \in Results

\* The feed, if it is the one source of results, keeps them.
FeedKept ==
    OneSource => \A o \in Outcomes : feed[o].status \in Results => feed'[o] = feed[o]

\* The bet that request c is about to mark is still pending, or was given c's result
\* by another request.
MarkKept(c) ==
    c.step = "mark" =>
        \/ bets'[c.bet].status = bets[c.bet].status
        \/ ~OneProc /\ bets'[c.bet].status = c.result

\* No bet is written.
LEMMA SameForward ==
    ASSUME bets' = bets
    PROVE  Forward /\ \A c : MarkKept(c)
  BY DEF Forward, MarkKept

\* A request that does not settle has nothing to agree with.
LEMMA Quiet ==
    ASSUME NEW c, c.step \notin Settling
    PROVE  Agrees(c) /\ Agrees(c)'
  BY DEF Agrees, Settling

\* What a settling request relies on stays true.
LEMMA AgreesStays ==
    ASSUME BetsInv, Forward, FeedKept, NEW c, CallOK(c), Agrees(c), MarkKept(c)
    PROVE  Agrees(c)'
  <1>a. PICK b : b = c.bet
    OBVIOUS
  <1>1. CASE c.step \notin Settling
    BY <1>1, Quiet
  <1>2. CASE c.step \in Settling
    <2>1. b \in BetIds /\ Placed(b) /\ c.result \in Results
      BY <1>2, <1>a DEF CallOK, Settling
    <2>2. bets[b].pick \in Outcomes /\ bets'[b].pick = bets[b].pick
      BY <2>1 DEF BetsInv, BetsPlaced, Forward
    <2>3. OneSource => c.result = feed'[bets'[b].pick].status
      <3>1. OneSource => c.result = feed[bets[b].pick].status
        BY <1>2, <1>a DEF Agrees
      <3> QED  BY <2>1, <2>2, <3>1 DEF FeedKept
    <2>4. CASE c.step \in {"credit", "record"}
      <3>1. bets[b].status = c.result
        BY <2>4, <1>a DEF Agrees
      <3>2. bets'[b].status = c.result
        BY <2>1, <3>1 DEF Forward, Results
      <3> QED  BY <2>3, <2>4, <3>2, <1>a DEF Agrees, Settling
    <2>5. CASE c.step = "mark"
      BY <2>3, <2>5, <1>a DEF Agrees, MarkKept
    <2>6. CASE c.step = "load"
      BY <2>3, <2>6, <1>a DEF Agrees
    <2> QED  BY <1>2, <2>4, <2>5, <2>6 DEF Settling
  <1> QED  BY <1>1, <1>2

\* A payment keeps agreeing with its bet: a bet won or cancelled stays so.
LEMMA PaidForStays ==
    ASSUME Forward, NEW b \in BetIds, Placed(b), NEW ref, NEW amount, PaidFor(ref, amount, b)
    PROVE  Placed(b)' /\ PaidFor(ref, amount, b)'
  <1>1. bets[b].status \in {"won", "cancelled"} /\ bets'[b].status = bets[b].status
    BY DEF PaidFor, Forward
  <1> QED  BY <1>1 DEF PaidFor, Forward, Placed

\* The same for a call on its way.
LEMMA LatePaidStays ==
    ASSUME Forward, NEW c, LatePaid(c)
    PROVE  LatePaid(c)'
  <1>1. CASE c.kind = "credit"
    <2>1. PICK b \in BetIds : Placed(b) /\ c.user = b[1] /\ PaidFor(c.ref, c.amount, b)
      BY <1>1 DEF LatePaid
    <2>2. Placed(b)' /\ PaidFor(c.ref, c.amount, b)'
      BY <2>1, PaidForStays
    <2> QED  BY <2>1, <2>2 DEF LatePaid
  <1>2. CASE c.kind # "credit"
    BY <1>2 DEF LatePaid
  <1> QED  BY <1>1, <1>2

\* The same for a row.
LEMMA RowPaidStays ==
    ASSUME Forward, NEW row, NEW w, RowPaid(row, w)
    PROVE  RowPaid(row, w)'
  <1>1. CASE row.ref \in {SettleRef(r) : r \in BetRefs} \cup {CancelRef(r) : r \in BetRefs}
    <2>1. PICK b \in BetIds :
             /\ Placed(b) /\ b[1] = w
             /\ PaidFor(row.ref, row.amount, b)
             /\ row.type = "deposit" /\ row.status = "completed"
      BY <1>1 DEF RowPaid
    <2>2. Placed(b)' /\ PaidFor(row.ref, row.amount, b)'
      BY <2>1, PaidForStays
    <2> QED  BY <2>1, <2>2 DEF RowPaid
  <1>2. CASE row.ref \notin {SettleRef(r) : r \in BetRefs} \cup {CancelRef(r) : r \in BetRefs}
    BY <1>2 DEF RowPaid
  <1> QED  BY <1>1, <1>2

\* It is enough to look at the requests P that a step moves and at the rows and late
\* calls it adds.
LEMMA PaidFrame ==
    ASSUME BetsInv, PaidInv, RowsGrow, Forward, FeedKept, NEW P,
           \A o \in Procs \ P : calls'[o] = calls[o] /\ MarkKept(calls[o]),
           \A p \in Procs \cap P : Agrees(calls[p])',
           \A c \in lateCalls' : c \in lateCalls \/ LatePaid(c)',
           \A w \in Wallets : \A i \in DOMAIN ledger'[w] :
              i \in DOMAIN ledger[w] \/ RowPaid(ledger[w][i], w)'
    PROVE  PaidInv'
  <1>1. ASSUME NEW o \in Procs  PROVE Agrees(calls[o])'
    <2>1. CASE o \in P
      BY <2>1
    <2>2. CASE o \notin P
      <3>a. PICK c : c = calls[o]
        OBVIOUS
      <3>1. CallOK(c) /\ Agrees(c) /\ MarkKept(c) /\ calls'[o] = c
        BY <2>2, <3>a DEF BetsInv, PaidInv
      <3>2. Agrees(c)'
        BY <3>1, AgreesStays
      <3> QED  BY <3>1, <3>2 DEF Agrees
    <2> QED  BY <2>1, <2>2
  <1>2. ASSUME NEW c \in lateCalls'  PROVE LatePaid(c)'
    BY LatePaidStays DEF PaidInv
  <1>3. ASSUME NEW w \in Wallets, NEW i \in DOMAIN ledger'[w]  PROVE RowPaid(ledger[w][i], w)'
    <2>1. CASE i \in DOMAIN ledger[w]
      <3>a. PICK row : row = ledger[w][i]
        OBVIOUS
      <3>1. RowPaid(row, w) /\ ledger'[w][i] = row
        BY <2>1, <3>a DEF PaidInv, RowsGrow
      <3>2. RowPaid(row, w)'
        BY <3>1, RowPaidStays
      <3> QED  BY <3>1, <3>2 DEF RowPaid, PaidFor, Placed
    <2>2. CASE i \notin DOMAIN ledger[w]
      BY <2>2
    <2> QED  BY <2>1, <2>2
  <1> QED  BY <1>1, <1>2, <1>3 DEF PaidInv

\* A step of request p, which is c afterwards.
LEMMA PaidMove ==
    ASSUME BetsInv, PaidInv, RowsGrow, Forward, feed' = feed,
           NEW p \in Procs, NEW c, calls' = [calls EXCEPT ![p] = c], Agrees(c)',
           \A o \in Procs : o # p => MarkKept(calls[o]),
           \A d \in lateCalls' : d \in lateCalls \/ LatePaid(d)',
           \A w \in Wallets : \A i \in DOMAIN ledger'[w] :
              i \in DOMAIN ledger[w] \/ RowPaid(ledger[w][i], w)'
    PROVE  PaidInv' /\ Forward
  <1>1. calls'[p] = c /\ \A o \in Procs : o # p => calls'[o] = calls[o]
    BY CallFacts
  <1>2. FeedKept
    BY DEF FeedKept
  <1>a. PICK P : P = {p}
    OBVIOUS
  <1>3. \A o \in Procs \ P : calls'[o] = calls[o] /\ MarkKept(calls[o])
    BY <1>1, <1>a
  <1>4. \A q \in Procs \cap P : Agrees(calls[q])'
    <2>1. Agrees(calls[p])'
      BY <1>1 DEF Agrees
    <2> QED  BY <2>1, <1>a
  <1> QED  BY <1>2, <1>3, <1>4, PaidFrame

\* Request p reads, or gives a wallet call up.
LEMMA PaidRead ==
    ASSUME BetsInv, PaidInv, UNCHANGED <<ledgerVars, feed, bets>>,
           NEW p \in Procs, NEW c, calls' = [calls EXCEPT ![p] = c], Agrees(c),
           \A d \in lateCalls' : d \in lateCalls \/ LatePaid(d)
    PROVE  PaidInv' /\ Forward
  <1>1. RowsGrow /\ ledger' = ledger
    BY DEF RowsGrow, ledgerVars
  <1>2. Forward /\ \A o \in Procs : o # p => MarkKept(calls[o])
    BY SameForward
  <1>3. Agrees(c)'
    BY DEF Agrees
  <1>4. \A d \in lateCalls' : d \in lateCalls \/ LatePaid(d)'
    BY <1>2, LatePaidStays
  <1> QED  BY <1>1, <1>2, <1>3, <1>4, PaidMove

\* The record new moves bet b forward.
ForwardTo(b, new) ==
    Placed(b) =>
        /\ new.pick = bets[b].pick /\ new.stake = bets[b].stake
        /\ new.payout = bets[b].payout
        /\ \/ new.status = bets[b].status
           \/ bets[b].status = "debit_pending" /\ new.status \in {"pending", "cancelled"}
           \/ bets[b].status = "pending" /\ new.status \in Results

\* It suits the requests other than p that are about to mark the bet.
MarksAllow(p, b, new) ==
    \A o \in Procs : (o # p /\ calls[o].step = "mark" /\ calls[o].bet = b) =>
        new.status = bets[b].status \/ (~OneProc /\ new.status = calls[o].result)

\* Request p writes bet b.
LEMMA PaidWrite ==
    ASSUME BetsInv, PaidInv, NEW b \in BetIds, NEW new, SetBet(b, new),
           NEW p \in Procs, NEW c, calls' = [calls EXCEPT ![p] = c], Agrees(c)',
           ForwardTo(b, new), MarksAllow(p, b, new)
    PROVE  PaidInv' /\ Forward
  <1>1. RowsGrow /\ ledger' = ledger /\ feed' = feed /\ lateCalls' = lateCalls
    BY DEF RowsGrow, SetBet, ledgerVars
  <1>2. bets'[b] = new /\ \A d \in BetIds : d # b => bets'[d] = bets[d]
    BY CallFacts DEF SetBet
  <1>3. Forward
    BY <1>2 DEF Forward, ForwardTo
  <1>4. ASSUME NEW o \in Procs, o # p  PROVE MarkKept(calls[o])
    <2>1. calls[o].step = "mark" => calls[o].bet \in BetIds
      BY CallFacts DEF CallOK
    <2> QED  BY <1>2, <1>4, <2>1 DEF MarkKept, MarksAllow
  <1> QED  BY <1>1, <1>3, <1>4, PaidMove

\* A request that ends, with its wallet call given up or not.
LEMMA PaidFinish ==
    ASSUME BetsInv, PaidInv, NEW p \in Procs, Finish(p), UNCHANGED <<ledgerVars, feed, bets>>,
           \A d \in lateCalls' : d \in lateCalls \/ LatePaid(d)
    PROVE  PaidInv' /\ Forward
  <1>1. Agrees(NoCall)
    <2>1. NoCall.step \notin Settling
      BY DEF NoCall, Settling
    <2> QED  BY <2>1, Quiet
  <1> QED  BY <1>1, PaidRead DEF Finish

\* A request that goes on to a step of PlaceBet.
LEMMA PaidGoto ==
    ASSUME BetsInv, PaidInv, NEW p \in Procs, NEW s \in BetSteps \ Settling, Goto(p, s),
           UNCHANGED <<ledgerVars, feed, bets>>,
           \A d \in lateCalls' : d \in lateCalls \/ LatePaid(d)
    PROVE  PaidInv' /\ Forward
  <1>1. PICK c \in Call : calls' = [calls EXCEPT ![p] = c] /\ c.step = s
    BY GotoCall
  <1>2. Agrees(c)
    BY <1>1, Quiet
  <1> QED  BY <1>1, <1>2, PaidRead

\* The steps of PlaceBet that only read.
LEMMA PaidPlace ==
    ASSUME BetsInv, PaidInv, NEW p \in Procs,
           \/ CheckReference(p) \/ ReadMarket(p) \/ ReadOutcome(p)
           \/ \E d \in BetCalls : BeginPlace(p, d)
    PROVE  PaidInv' /\ Forward
  <1>1. UNCHANGED <<ledgerVars, feed, bets>> /\ lateCalls' = lateCalls
    BY DEF CheckReference, ReadMarket, ReadOutcome, BeginPlace, OnlyReads
  <1>2. CASE Finish(p)
    BY <1>1, <1>2, PaidFinish
  <1>3. CASE \E s \in {"market", "outcome"} : Goto(p, s)
    <2>1. PICK s \in {"market", "outcome"} : Goto(p, s)
      BY <1>3
    <2>2. s \in BetSteps \ Settling
      BY DEF BetSteps, Settling
    <2> QED  BY <1>1, <2>1, <2>2, PaidGoto
  <1>4. CASE ReadOutcome(p) /\ ~Finish(p)
    <2>a. PICK c : c = [calls[p] EXCEPT !.step = "create",
                                        !.payout = calls[p].stake * feed[calls[p].pick].odds]
      OBVIOUS
    <2>1. calls' = [calls EXCEPT ![p] = c]
      BY <1>4, <2>a DEF ReadOutcome
    <2>2. c.step = "create"
      BY <2>a, CallFacts DEF Call
    <2>3. Agrees(c)
      BY <2>2, Quiet DEF Settling
    <2> QED  BY <1>1, <2>1, <2>3, PaidRead
  <1>5. ASSUME NEW d \in BetCalls, BeginPlace(p, d)  PROVE PaidInv' /\ Forward
    <2>a. PICK c : c = [NoCall EXCEPT !.step = "check", !.bet = <<d.user, d.ref>>,
                                      !.pick = d.pick, !.stake = d.stake]
      OBVIOUS
    <2>1. calls' = [calls EXCEPT ![p] = c]
      BY <1>5, <2>a DEF BeginPlace
    <2>2. c.step = "check"
      BY <2>a DEF NoCall
    <2>3. Agrees(c)
      BY <2>2, Quiet DEF Settling
    <2> QED  BY <1>1, <2>1, <2>3, PaidRead
  <1> QED  BY <1>2, <1>3, <1>4, <1>5 DEF CheckReference, ReadMarket

\* The scheduler asks for the result that the feed has.
LEMMA PaidBegin ==
    ASSUME BetsInv, PaidInv, NEW p \in Procs, NEW b \in BetIds,
           AdminSettle(p, b) \/ AutoSettle(p, b)
    PROVE  PaidInv' /\ Forward
  <1>1. PICK result : /\ BeginSettle(p, b, result)
                      /\ OneSource => result = feed[bets[b].pick].status
    BY DEF AdminSettle, AutoSettle, ResolveOutcome, OneSource
  <1>a. PICK c : c = [NoCall EXCEPT !.step = "load", !.bet = b, !.result = result]
    OBVIOUS
  <1>2. c.step = "load" /\ c.bet = b /\ c.result = result
    BY <1>a DEF NoCall
  <1>3. calls' = [calls EXCEPT ![p] = c]
    BY <1>1, <1>a DEF BeginSettle
  <1>4. Agrees(c)
    BY <1>1, <1>2 DEF Agrees
  <1>5. UNCHANGED <<ledgerVars, feed, bets>> /\ lateCalls' = lateCalls
    BY <1>1 DEF BeginSettle, OnlyReads
  <1> QED  BY <1>3, <1>4, <1>5, PaidRead

\* GetBet: the bet is pending.
LEMMA PaidLoad ==
    ASSUME BetsInv, PaidInv, NEW p \in Procs, LoadBet(p)
    PROVE  PaidInv' /\ Forward
  <1>1. UNCHANGED <<ledgerVars, feed, bets>> /\ lateCalls' = lateCalls
    BY DEF LoadBet, OnlyReads
  <1>2. CASE Finish(p)
    BY <1>1, <1>2, PaidFinish
  <1>3. CASE ~Finish(p)
    <2>1. calls[p].step = "load" /\ Goto(p, "mark") /\ bets[calls[p].bet].status = "pending"
      BY <1>3 DEF LoadBet, At
    <2>2. "mark" \in BetSteps
      BY DEF BetSteps
    <2>3. PICK c \in Call : /\ calls' = [calls EXCEPT ![p] = c] /\ c.step = "mark"
                            /\ c.bet = calls[p].bet /\ c.result = calls[p].result
      BY <2>1, <2>2, GotoCall
    <2>4. Agrees(calls[p])
      BY DEF PaidInv
    <2>5. Agrees(c)
      BY <2>1, <2>3, <2>4 DEF Agrees, Settling
    <2> QED  BY <1>1, <2>3, <2>5, PaidRead
  <1> QED  BY <1>2, <1>3

\* CreateBet, CancelUnpaid, FinalizeBet and SetCreditTransactionID decide no bet that
\* was accepted.
LEMMA PaidClose ==
    ASSUME BetsInv, PaidInv, NEW p \in Procs,
           CreateBet(p) \/ CancelUnpaid(p) \/ FinalizeBet(p) \/ RecordCredit(p)
    PROVE  PaidInv' /\ Forward
  <1>1. calls[p] \in Call /\ CallOK(calls[p]) /\ bets \in [BetIds -> Bet]
    BY CallFacts
  <1>a. PICK b : b = calls[p].bet
    OBVIOUS
  <1>2. calls[p].step \in {"create", "cancel", "finalize", "record"} /\ b \in BetIds
    BY <1>1, <1>a DEF CreateBet, CancelUnpaid, FinalizeBet, RecordCredit, At, CallOK
  <1>3. bets[b] \in Bet
    BY <1>1, <1>2
  <1>4. CASE Finish(p) /\ OnlyReads
    BY <1>4, PaidFinish DEF OnlyReads
  <1>5. CASE ~(Finish(p) /\ OnlyReads)
    <2>1. PICK new :
             /\ SetBet(b, new)
             /\ Placed(b) =>
                   /\ new.pick = bets[b].pick /\ new.stake = bets[b].stake
                   /\ new.payout = bets[b].payout
                   /\ \/ new.status = bets[b].status
                      \/ bets[b].status = "debit_pending" /\ new.status \in {"pending", "cancelled"}
             /\ new.status = bets[b].status \/ bets[b].status \in {"none", "debit_pending"}
      <3>1. CASE CreateBet(p)
        BY <1>5, <3>1, <1>a DEF CreateBet, Placed
      <3>2. CASE CancelUnpaid(p)
        <4>a. PICK new : new = [bets[b] EXCEPT !.status = "cancelled"]
          OBVIOUS
        <4>1. "cancelled" \in BetStatus
          BY DEF BetStatus, Results
        <4>2. SetBet(b, new) /\ bets[b].status = "debit_pending"
          BY <1>1, <3>2, <1>a, <4>a DEF CancelUnpaid, At, CallOK, Creating
        <4>3. /\ new.status = "cancelled" /\ new.pick = bets[b].pick
              /\ new.stake = bets[b].stake /\ new.payout = bets[b].payout
          BY <1>3, <4>1, <4>a, StatusOnly
        <4> QED  BY <4>2, <4>3
      <3>3. CASE FinalizeBet(p)
        <4>a. PICK new : new = [bets[b] EXCEPT !.status = "pending", !.debit = TRUE]
          OBVIOUS
        <4>1. "pending" \in BetStatus
          BY DEF BetStatus
        <4>2. SetBet(b, new) /\ bets[b].status = "debit_pending"
          BY <1>1, <3>3, <1>a, <4>a DEF FinalizeBet, At, CallOK, Creating
        <4>3. /\ new.status = "pending" /\ new.pick = bets[b].pick
              /\ new.stake = bets[b].stake /\ new.payout = bets[b].payout
          BY <1>3, <4>1, <4>a, StatusOnly
        <4> QED  BY <4>2, <4>3
      <3>4. CASE RecordCredit(p)
        <4>a. PICK new : new = [bets[b] EXCEPT !.credit = TRUE]
          OBVIOUS
        <4>1. SetBet(b, new)
          BY <3>4, <1>a, <4>a DEF RecordCredit
        <4>2. /\ new.status = bets[b].status /\ new.pick = bets[b].pick
              /\ new.stake = bets[b].stake /\ new.payout = bets[b].payout
          BY <1>3, <4>a DEF Bet
        <4> QED  BY <4>1, <4>2
      <3> QED  BY <3>1, <3>2, <3>3, <3>4
    <2>2. PICK c : calls' = [calls EXCEPT ![p] = c] /\ c.step \in {"idle", "debit"}
      <3>1. CASE Finish(p)
        <4>1. NoCall.step = "idle"
          BY DEF NoCall
        <4> QED  BY <3>1, <4>1 DEF Finish
      <3>2. CASE Goto(p, "debit")
        BY <3>2, GotoCall DEF BetSteps
      <3> QED  BY <3>1, <3>2 DEF CreateBet, CancelUnpaid, FinalizeBet, RecordCredit
    <2>3. Agrees(c)'
      BY <2>2, Quiet DEF Settling
    <2>4. ASSUME NEW o \in Procs, calls[o].step = "mark", calls[o].bet = b
          PROVE  new.status = bets[b].status
      <3>1. bets[b].status \in Accepted
        BY <2>4, CallFacts DEF CallOK
      <3> QED  BY <2>1, <3>1 DEF Accepted, Results
    <2>5. ForwardTo(b, new)
      BY <2>1 DEF ForwardTo
    <2>6. MarksAllow(p, b, new)
      BY <2>4 DEF MarksAllow
    <2>7. SetBet(b, new) /\ calls' = [calls EXCEPT ![p] = c]
      BY <2>1, <2>2
    <2> QED  BY <1>2, <2>3, <2>5, <2>6, <2>7, PaidWrite
  <1> QED  BY <1>4, <1>5

\* UpdateBetStatusAndOutcome: a bet already decided is given the result it has.
LEMMA PaidMark ==
    ASSUME BetsInv, PaidInv, OneSource \/ OneProc, NEW p \in Procs, MarkSettled(p)
    PROVE  PaidInv' /\ Forward
  <1>1. /\ calls[p] \in Call /\ CallOK(calls[p]) /\ bets \in [BetIds -> Bet]
        /\ Agrees(calls[p])
    BY CallFacts DEF PaidInv
  <1>a. PICK b : b = calls[p].bet
    OBVIOUS
  <1>b. PICK result : result = calls[p].result
    OBVIOUS
  <1>c. PICK new : new = [bets[b] EXCEPT !.status = result]
    OBVIOUS
  <1>2. calls[p].step = "mark" /\ SetBet(b, new)
    BY <1>a, <1>b, <1>c DEF MarkSettled, At
  <1>3. b \in BetIds /\ result \in Results /\ bets[b] \in Bet
    BY <1>1, <1>2, <1>a, <1>b DEF CallOK, Settling
  <1>4. /\ bets[b].status \in {"pending", result}
        /\ OneSource => result = feed[bets[b].pick].status
    BY <1>1, <1>2, <1>a, <1>b DEF Agrees, Settling
  <1>5. /\ new.status = result /\ new.pick = bets[b].pick
        /\ new.stake = bets[b].stake /\ new.payout = bets[b].payout
    <2>1. result \in BetStatus
      BY <1>3 DEF BetStatus
    <2> QED  BY <1>3, <1>c, <2>1, StatusOnly
  <1>6. bets'[b] = new /\ feed' = feed
    BY <1>1, <1>2, <1>3 DEF SetBet
  <1>7. PICK c : calls' = [calls EXCEPT ![p] = c] /\ Agrees(c)'
    <2>1. CASE Finish(p)
      <3>1. NoCall.step \notin Settling
        BY DEF NoCall, Settling
      <3> QED  BY <2>1, <3>1, Quiet DEF Finish
    <2>2. CASE Goto(p, "credit")
      <3>1. "credit" \in BetSteps
        BY DEF BetSteps
      <3>2. PICK c \in Call : /\ calls' = [calls EXCEPT ![p] = c] /\ c.step = "credit"
                              /\ c.bet = b /\ c.result = result
        BY <1>a, <1>b, <2>2, <3>1, GotoCall
      <3>3. Agrees(c)'
        BY <1>4, <1>5, <1>6, <3>2 DEF Agrees
      <3> QED  BY <3>2, <3>3
    <2> QED  BY <2>1, <2>2 DEF MarkSettled
  <1>8. ASSUME NEW o \in Procs, o # p, calls[o].step = "mark", calls[o].bet = b
        PROVE  ~OneProc /\ new.status = calls[o].result
    <2>1. ~OneProc
      BY <1>8 DEF OneProc
    <2>2. OneSource /\ Agrees(calls[o])
      BY <2>1 DEF PaidInv
    <2>3. calls[o].result = feed[bets[b].pick].status
      BY <1>8, <2>2 DEF Agrees, Settling
    <2> QED  BY <1>4, <1>5, <2>1, <2>2, <2>3
  <1>9. ForwardTo(b, new)
    BY <1>3, <1>4, <1>5 DEF ForwardTo
  <1>10. MarksAllow(p, b, new)
    BY <1>8 DEF MarksAllow
  <1> QED  BY <1>2, <1>3, <1>7, <1>9, <1>10, PaidWrite

\* A request credits what the record of its bet says.
LEMMA CallPaid ==
    ASSUME BetsInv, PaidInv, NEW p \in Procs, calls[p].step \in {"debit", "credit"}
    PROVE  LatePaid(CallOf(p))
  <1>a. PICK b : b = calls[p].bet
    OBVIOUS
  <1>1. CASE calls[p].step = "debit"
    BY <1>1, CallOfFacts DEF LatePaid
  <1>2. CASE calls[p].step = "credit"
    <2>1. /\ b \in BetIds /\ Placed(b) /\ calls[p].result \in {"won", "cancelled"}
          /\ bets[b].status = calls[p].result
      BY <1>2, <1>a, CallFacts DEF CallOK, Settling, PaidInv, Agrees, Results
    <2>2. CallOf(p) = [kind |-> "credit", user |-> b[1],
                       amount |-> IF calls[p].result = "won" THEN bets[b].payout
                                  ELSE bets[b].stake,
                       ref |-> IF calls[p].result = "won" THEN SettleRef(b[2])
                               ELSE CancelRef(b[2])]
      BY <1>2, <1>a DEF CallOf, At, User, RefOf
    <2>3. CallOf(p).user = b[1] /\ PaidFor(CallOf(p).ref, CallOf(p).amount, b)
      BY <2>1, <2>2 DEF PaidFor
    <2> QED  BY <2>1, <2>3 DEF LatePaid
  <1> QED  BY <1>1, <1>2

\* Serving such a call adds at most that payment.
LEMMA ServePaid ==
    ASSUME BetsInv, WholeUnits, ApartRefs, NEW c \in WalletCall, LateOK(c), LatePaid(c),
           Serve(c), bets' = bets
    PROVE  /\ RowsGrow
           /\ \A w \in Wallets : \A i \in DOMAIN ledger'[w] :
                 i \in DOMAIN ledger[w] \/ RowPaid(ledger[w][i], w)'
  <1>1. RowsGrow /\ RowsFrom(c)
    BY ServeBet
  <1>2. LatePaid(c)'
    BY SameForward, LatePaidStays
  <1>3. Stored(c.amount) = c.amount
    BY UnitScale DEF WalletCall, WholeUnits
  <1>4. ASSUME NEW w \in Wallets, NEW i \in DOMAIN ledger'[w], i \notin DOMAIN ledger[w]
        PROVE  RowPaid(ledger[w][i], w)'
    <2>a. PICK row : row = ledger'[w][i]
      OBVIOUS
    <2>1. /\ w = c.user /\ row.ref = c.ref /\ row.amount = c.amount /\ row.status = "completed"
          /\ row.type = IF c.kind = "credit" THEN "deposit" ELSE "withdrawal"
      BY <1>1, <1>3, <1>4, <2>a DEF RowsFrom
    <2>2. CASE c.kind = "credit"
      <3>1. PICK b \in BetIds : Placed(b)' /\ c.user = b[1] /\ PaidFor(c.ref, c.amount, b)'
        BY <1>2, <2>2 DEF LatePaid
      <3>2. PaidFor(row.ref, row.amount, b)'
        BY <2>1, <2>a, <3>1 DEF PaidFor
      <3> QED  BY <2>1, <2>2, <2>a, <3>1, <3>2 DEF RowPaid, PaidFor
    <2>3. CASE c.kind # "credit"
      <3>1. PICK b \in BetIds : c.ref = b[2]
        BY <2>3 DEF LateOK, CallFor
      <3>2. b[2] \in BetRefs
        BY BetIdPair
      <3>3. \A r \in BetRefs : row.ref # SettleRef(r) /\ row.ref # CancelRef(r)
        BY <2>1, <3>1, <3>2 DEF ApartRefs
      <3> QED  BY <2>a, <3>3 DEF RowPaid
    <2> QED  BY <2>2, <2>3
  <1> QED  BY <1>1, <1>4

\* DebitWallet and CreditWallet, answered.
LEMMA PaidServe ==
    ASSUME BetsInv, PaidInv, WholeUnits, ApartRefs, NEW p \in Procs,
           DebitStake(p) \/ CreditUser(p)
    PROVE  PaidInv' /\ Forward
  <1>1. calls[p].step \in {"debit", "credit"} /\ CallOK(calls[p])
    BY CallFacts DEF DebitStake, CreditUser, At
  <1>a. PICK d : d = CallOf(p)
    OBVIOUS
  <1>2. d \in WalletCall /\ LateOK(d) /\ LatePaid(d)
    BY <1>1, <1>a, CallOfFacts, CallPaid DEF LateOK
  <1>3. Serve(d) /\ UNCHANGED <<feed, bets, lateCalls>>
    BY <1>a DEF DebitStake, CreditUser
  <1>4. /\ RowsGrow
        /\ \A w \in Wallets : \A i \in DOMAIN ledger'[w] :
              i \in DOMAIN ledger[w] \/ RowPaid(ledger[w][i], w)'
    BY <1>2, <1>3, ServePaid
  <1>5. Forward /\ \A o \in Procs : o # p => MarkKept(calls[o])
    BY <1>3, SameForward
  <1>6. PICK c : calls' = [calls EXCEPT ![p] = c] /\ Agrees(c)'
    <2>1. CASE DebitStake(p)
      <3>1. PICK s \in {"finalize", "cancel"} : Goto(p, s)
        BY <2>1 DEF DebitStake
      <3>2. s \in BetSteps \ Settling
        BY DEF BetSteps, Settling
      <3>3. PICK c \in Call : calls' = [calls EXCEPT ![p] = c] /\ c.step = s
        BY <3>1, <3>2, GotoCall
      <3> QED  BY <3>2, <3>3, Quiet
    <2>2. CASE CreditUser(p)
      <3>1. Goto(p, "record") /\ "record" \in BetSteps /\ calls[p].step = "credit"
        BY <2>2 DEF CreditUser, BetSteps, At
      <3>2. PICK c \in Call : /\ calls' = [calls EXCEPT ![p] = c] /\ c.step = "record"
                              /\ c.bet = calls[p].bet /\ c.result = calls[p].result
        BY <3>1, GotoCall
      <3>3. Agrees(calls[p])
        BY DEF PaidInv
      <3>4. Agrees(c)'
        BY <1>3, <3>1, <3>2, <3>3 DEF Agrees, Settling
      <3> QED  BY <3>2, <3>4
    <2> QED  BY <2>1, <2>2
  <1>7. \A e \in lateCalls' : e \in lateCalls \/ LatePaid(e)'
    BY <1>3
  <1> QED  BY <1>3, <1>4, <1>5, <1>6, <1>7, PaidMove

\* A wallet call given up is the one the request was making.
LEMMA PaidFault ==
    ASSUME BetsInv, PaidInv, NEW p \in Procs, LoseReply(p) \/ Abandon(p)
    PROVE  PaidInv' /\ Forward
  <1>1. UNCHANGED <<ledgerVars, feed, bets>>
    BY DEF LoseReply, Abandon
  <1>2. \A d \in lateCalls' :
           d \in lateCalls \/ (calls[p].step \in {"debit", "credit"} /\ d = CallOf(p))
    BY DEF LoseReply, Abandon
  <1>3. \A d \in lateCalls' : d \in lateCalls \/ LatePaid(d)
    BY <1>2, CallPaid
  <1>4. CASE Finish(p)
    BY <1>1, <1>3, <1>4, PaidFinish
  <1>5. CASE Goto(p, "cancel")
    <2>1. "cancel" \in BetSteps \ Settling
      BY DEF BetSteps, Settling
    <2> QED  BY <1>1, <1>3, <1>5, <2>1, PaidGoto
  <1> QED  BY <1>4, <1>5 DEF LoseReply, Abandon

\* A step of no request.
LEMMA PaidWorld ==
    ASSUME BetsInv, PaidInv, RowsGrow, FeedKept, UNCHANGED <<bets, calls>>,
           lateCalls' \subseteq lateCalls,
           \A w \in Wallets : \A i \in DOMAIN ledger'[w] :
              i \in DOMAIN ledger[w] \/ RowPaid(ledger[w][i], w)'
    PROVE  PaidInv' /\ Forward
  <1>1. Forward /\ \A c : MarkKept(c)
    BY SameForward
  <1>a. PICK P : P = {}
    OBVIOUS
  <1>2. /\ \A o \in Procs \ P : calls'[o] = calls[o] /\ MarkKept(calls[o])
        /\ \A p \in Procs \cap P : Agrees(calls[p])'
    BY <1>1, <1>a
  <1>3. \A c \in lateCalls' : c \in lateCalls \/ LatePaid(c)'
    OBVIOUS
  <1> QED  BY <1>1, <1>2, <1>3, PaidFrame

\* Late calls, the feed, deposits, and nothing at all.
LEMMA PaidOthers ==
    ASSUME BetsInv, PaidInv, WholeUnits, ApartRefs,
           \/ \E c \in lateCalls : ServeLate(c) \/ DropLate(c)
           \/ \E o \in Outcomes : FeedUpdate(o)
           \/ \E u \in Wallets : FundWallet(u)
           \/ UNCHANGED vars
    PROVE  PaidInv' /\ Forward
  <1>1. FeedKept
    <2>1. ASSUME NEW o \in Outcomes, FeedUpdate(o)  PROVE FeedKept
      <3>1. feed \in [Outcomes -> Quote]
        BY DEF BetsInv, TypeOK
      <3> QED  BY <2>1, <3>1 DEF FeedUpdate, FeedKept, OneSource
    <2>2. CASE feed' = feed
      BY <2>2 DEF FeedKept
    <2> QED  BY <2>1, <2>2 DEF ServeLate, DropLate, FundWallet, vars
  <1>2. UNCHANGED <<bets, calls>> /\ lateCalls' \subseteq lateCalls
    BY DEF ServeLate, DropLate, FundWallet, FeedUpdate, vars
  <1>3. CASE UNCHANGED ledgerVars
    <2>1. RowsGrow /\ ledger' = ledger
      BY <1>3 DEF ledgerVars, RowsGrow
    <2> QED  BY <1>1, <1>2, <2>1, PaidWorld
  <1>4. ASSUME NEW c \in lateCalls, ServeLate(c)  PROVE PaidInv' /\ Forward
    <2>1. c \in WalletCall /\ LateOK(c) /\ LatePaid(c) /\ Serve(c)
      BY <1>4 DEF BetsInv, TypeOK, PaidInv, ServeLate
    <2>2. /\ RowsGrow
          /\ \A w \in Wallets : \A i \in DOMAIN ledger'[w] :
                i \in DOMAIN ledger[w] \/ RowPaid(ledger[w][i], w)'
      BY <1>2, <2>1, ServePaid
    <2> QED  BY <1>1, <1>2, <2>2, PaidWorld
  <1>5. ASSUME NEW u \in Wallets, FundWallet(u)  PROVE PaidInv' /\ Forward
    <2>a. PICK c : c = [kind |-> "credit", user |-> u, amount |-> Deposit, ref |-> DepositRef(u)]
      OBVIOUS
    <2>1. /\ c.kind = "credit" /\ c.user = u /\ c.amount = Deposit /\ c.ref = DepositRef(u)
      BY <2>a
    <2>2. c.user \in Wallets /\ c.amount \in Nat /\ c.ref \in Refs
      BY <2>1, BettingAssumption, BetRefsAssumption
    <2>3. Credit(c.user, c.amount, c.ref)
      BY <1>5, <2>1 DEF FundWallet
    <2>4. RowsGrow /\ RowsFrom(c)
      BY <2>1, <2>2, <2>3, MoneyRows DEF BetsInv
    <2>5. \A w \in Wallets : \A i \in DOMAIN ledger'[w] :
             i \in DOMAIN ledger[w] \/ RowPaid(ledger[w][i], w)'
      BY <2>1, <2>4, OwnIds DEF RowsFrom, RowPaid
    <2> QED  BY <1>1, <1>2, <2>4, <2>5, PaidWorld
  <1> QED  BY <1>3, <1>4, <1>5 DEF DropLate, FeedUpdate, vars, ledgerVars

\* Every step keeps the payments in agreement, and moves bets only forward.
LEMMA PaidStepInv ==
    ASSUME ApartRefs, WholeUnits, OneSource \/ OneProc, BetsInv, PaidInv, [Next]_vars
    PROVE  PaidInv' /\ Forward
  <1>1. ASSUME NEW p \in Procs, HandlerStep(p)  PROVE PaidInv' /\ Forward
    <2>1. CASE CheckReference(p) \/ ReadMarket(p) \/ ReadOutcome(p)
      BY <2>1, PaidPlace
    <2>2. CASE CreateBet(p) \/ CancelUnpaid(p) \/ FinalizeBet(p) \/ RecordCredit(p)
      BY <2>2, PaidClose
    <2>3. CASE DebitStake(p) \/ CreditUser(p)
      BY <2>3, PaidServe
    <2>4. CASE LoadBet(p)
      BY <2>4, PaidLoad
    <2>5. CASE MarkSettled(p)
      BY <2>5, PaidMark
    <2> QED  BY <1>1, <2>1, <2>2, <2>3, <2>4, <2>5 DEF HandlerStep
  <1>2. ASSUME NEW p \in Procs, LoseReply(p) \/ Abandon(p)  PROVE PaidInv' /\ Forward
    BY <1>2, PaidFault
  <1>3. ASSUME NEW p \in Procs, NEW c \in BetCalls, BeginPlace(p, c)
        PROVE  PaidInv' /\ Forward
    BY <1>3, PaidPlace
  <1>4. ASSUME NEW p \in Procs, NEW b \in BetIds, AdminSettle(p, b) \/ AutoSettle(p, b)
        PROVE  PaidInv' /\ Forward
    BY <1>4, PaidBegin
  <1> QED  BY <1>1, <1>2, <1>3, <1>4, PaidOthers DEF Next

\* Nothing is paid at first.
LEMMA PaidInitially ==
    ASSUME Init
    PROVE  PaidInv
  <1>1. \A w \in Wallets : DOMAIN ledger[w] = {}
    <2>1. DOMAIN <<>> = {}
      OBVIOUS
    <2>2. ledger = [w \in Wallets |-> <<>>]
      BY DEF Init, LedgerInit
    <2> QED  BY <2>1, <2>2
  <1>2. \A p \in Procs : Agrees(calls[p])
    <2>1. NoCall.step \notin Settling
      BY DEF NoCall, Settling
    <2>2. \A p \in Procs : calls[p] = NoCall
      BY DEF Init
    <2> QED  BY <2>1, <2>2, Quiet
  <1> QED  BY <1>1, <1>2 DEF PaidInv, Init

-----------------------------------------------------------------------------
(* The theorems about payments. *)

\* The invariant of the payments holds throughout.
LEMMA PaidInvariant ==
    ASSUME OwnRefs, ApartRefs, WholeUnits, OneSource \/ OneProc
    PROVE  Spec => [](BetsInv /\ PaidInv)
  <1>1. Init => BetsInv /\ PaidInv
    BY BetsInitially, PaidInitially
  <1>2. (BetsInv /\ PaidInv) /\ [Next]_vars => (BetsInv /\ PaidInv)'
    BY BetsStepInv, PaidStepInv
  <1> QED  BY <1>1, <1>2, PTL DEF Spec

\* A row of a payment belongs to a bet that has the result and the amount of it.
LEMMA PaymentFound ==
    ASSUME BetsInv, PaidInv, NEW w \in Wallets, NEW i \in DOMAIN ledger[w], NEW r \in BetRefs,
           ledger[w][i].ref \in {SettleRef(r), CancelRef(r)}
    PROVE  \E b \in BetIds :
              /\ Placed(b) /\ b[1] = w /\ b[2] = r
              /\ PaidFor(ledger[w][i].ref, ledger[w][i].amount, b)
              /\ ledger[w][i].type = "deposit" /\ ledger[w][i].status = "completed"
  <1>1. RowPaid(ledger[w][i], w)
    BY DEF PaidInv
  <1>2. PICK b \in BetIds :
           /\ Placed(b) /\ b[1] = w
           /\ PaidFor(ledger[w][i].ref, ledger[w][i].amount, b)
           /\ ledger[w][i].type = "deposit" /\ ledger[w][i].status = "completed"
    BY <1>1 DEF RowPaid
  <1>3. b[2] = r
    BY <1>2, OwnIds DEF PaidFor
  <1> QED  BY <1>2, <1>3

\* What SettleBet paid for a bet agrees with the record of the bet, in result and in
\* amount.  It holds with one source of final results, however many requests and
\* schedulers run, and with any results as long as one request runs at a time.
THEOREM BetsPaidAsRecorded ==
    ASSUME OwnRefs, ApartRefs, WholeUnits, OneSource \/ OneProc
    PROVE  Spec => []PaidAsRecorded
  <1>1. ASSUME BetsInv, PaidInv, NEW b \in BetIds, NEW r \in {SettleRef(b[2]), CancelRef(b[2])},
               PostedTo(b[1], r)
        PROVE  \E a : PaidFor(r, a, b) /\ RowWith(b[1], r, "deposit", a, "completed")
    <2>1. b[1] \in Wallets /\ b[2] \in BetRefs
      BY BetIdPair
    <2>2. PICK i \in DOMAIN ledger[b[1]] : ledger[b[1]][i].ref = r
      BY <1>1 DEF PostedTo
    <2>3. PICK d \in BetIds :
             /\ d[1] = b[1] /\ d[2] = b[2] /\ PaidFor(r, ledger[b[1]][i].amount, d)
             /\ ledger[b[1]][i].type = "deposit" /\ ledger[b[1]][i].status = "completed"
      BY <1>1, <2>1, <2>2, PaymentFound
    <2>4. d = b
      BY <2>3, BetIdSame
    <2> QED  BY <2>2, <2>3, <2>4 DEF RowWith
  <1>2. BetsInv /\ PaidInv => PaidAsRecorded
    BY <1>1, OwnIds DEF PaidAsRecorded, PaidFor
  <1> QED  BY <1>2, PaidInvariant, PTL

\* SettleBet never pays both the winnings and the refund of a bet.
THEOREM BetsPaidOnce ==
    ASSUME OwnRefs, ApartRefs, WholeUnits, OneSource \/ OneProc
    PROVE  Spec => []PaidOnce
  <1>1. ASSUME BetsInv, PaidInv, NEW b \in BetIds, NEW r \in {SettleRef(b[2]), CancelRef(b[2])},
               Posted(r)
        PROVE  \E d \in BetIds : Placed(d) /\ d[2] = b[2] /\ \E a : PaidFor(r, a, d)
    <2>1. b[2] \in BetRefs
      BY BetIdPair
    <2>2. PICK w \in Wallets : \E i \in DOMAIN ledger[w] : ledger[w][i].ref = r
      BY <1>1 DEF Posted
    <2>3. PICK i \in DOMAIN ledger[w] : ledger[w][i].ref = r
      BY <2>2
    <2> QED  BY <1>1, <2>1, <2>3, PaymentFound
  <1>2. ASSUME BetsInv, PaidInv, NEW b \in BetIds, Posted(SettleRef(b[2])), Posted(CancelRef(b[2]))
        PROVE  FALSE
    <2>1. PICK d \in BetIds : Placed(d) /\ d[2] = b[2] /\ \E a : PaidFor(SettleRef(b[2]), a, d)
      BY <1>1, <1>2
    <2>2. PICK e \in BetIds : Placed(e) /\ e[2] = b[2] /\ \E a : PaidFor(CancelRef(b[2]), a, e)
      BY <1>1, <1>2
    <2>3. d[1] = e[1]
      BY <1>2, <2>1, <2>2 DEF BetsInv, BetsPlaced, Wanted, OwnRefs
    <2>4. d = e
      BY <2>1, <2>2, <2>3, BetIdSame
    <2> QED  BY <2>1, <2>2, <2>4, OwnIds DEF PaidFor
  <1>3. BetsInv /\ PaidInv => PaidOnce
    BY <1>2 DEF PaidOnce
  <1> QED  BY <1>3, PaidInvariant, PTL

\* A bet only moves forward and what was agreed when it was placed never changes: no
\* retry, late reply or repeated sweep reopens or re-decides it.
THEOREM BetsStatusForward ==
    ASSUME OwnRefs, ApartRefs, WholeUnits, OneSource \/ OneProc
    PROVE  Spec => StatusForward
  <1>1. BetsInv /\ PaidInv /\ [Next]_vars =>
           [\A b \in BetIds :
              bets[b].status # "none" =>
                  /\ bets'[b].pick = bets[b].pick
                  /\ bets'[b].stake = bets[b].stake
                  /\ bets'[b].payout = bets[b].payout
                  /\ \/ bets'[b].status = bets[b].status
                     \/ bets[b].status = "debit_pending"
                          /\ bets'[b].status \in {"pending", "cancelled"}
                     \/ bets[b].status = "pending" /\ bets'[b].status \in Results]_vars
    BY PaidStepInv DEF Forward, Placed
  <1> QED  BY <1>1, PaidInvariant, PTL DEF Spec, StatusForward
=============================================================================
