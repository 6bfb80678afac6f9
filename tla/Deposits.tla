------------------------------ MODULE Deposits ------------------------------
(***************************************************************************)
(* Deposits, from the gateway's routes to the wallet: the webhook by which *)
(* the payment provider (xcash) reports a deposit, and the request of a    *)
(* user for the address to deposit to.  Both pass the rate limiter first.  *)
(*                                                                         *)
(* Every call to Redis, to the provider and to the database is a step of   *)
(* its own.  The provider repeats a webhook as it is, or signs a new one   *)
(* for the same deposit (another delivery with the same sysNo).  An answer *)
(* that is lost on the way is an answer nobody acts upon.                  *)
(*                                                                         *)
(* Deposits share the transactions table, and the references in it, with   *)
(* the bets: a user names the reference under which a stake is debited,    *)
(* and may name what is, or will be, the number of a deposit.              *)
(***************************************************************************)
EXTENDS RateLimiter

CONSTANTS
    UserOf,           \* the user whose token a request carries
    Deliveries,       \* webhooks the provider has signed, or somebody else has made up
    Nonces, SysNos,   \* XC-Nonce headers and deposits' numbers
    NoSysNo,          \* the empty number
    BetRefs,          \* numbers that users name as references of their bets
    Pairs,            \* pairs of a supported currency and a supported chain
    SupportedPairs,   \* SUPPORTED_PAIRS, the same for gateway and wallet, or none
    Addresses,        \* deposit addresses the provider hands out
    MinDeposit, MaxDeposit, DailyDeposit,  \* limits, or None
    Window,           \* seconds a webhook and its nonce are remembered
    FutureTolerance   \* seconds a webhook may be ahead of the wallet's clock

Limit == Nat \cup {None}

Delivery == [nonce : Nonces, sysNo : SysNos, uid : Users, pair : Pairs, amount : Int,
             confirmed : BOOLEAN, signed : BOOLEAN, ahead : Nat]

ASSUME CallsAssumption == UserOf \in [Requests -> Users]
ASSUME DeliveriesAssumption ==
    /\ Deliveries \subseteq Delivery
    /\ \A d, e \in Deliveries : d.signed /\ e.signed /\ d.nonce = e.nonce => d = e
ASSUME ReferencesAssumption == BetRefs \subseteq SysNos \ {NoSysNo}
ASSUME NothingAssumption == None \notin Nat \cup Deliveries \cup Pairs \cup Addresses
ASSUME DepositsAssumption ==
    /\ SupportedPairs \subseteq Pairs
    /\ {MinDeposit, MaxDeposit, DailyDeposit} \subseteq Limit
    /\ Window \in Nat /\ FutureTolerance \in Nat

VARIABLES
    sent,       \* the XC-Timestamp of each delivery, once sent
    nonces,     \* Redis: when each nonce expires
    rows,       \* the wallet's transactions under deposits' numbers, in order
    addresses,  \* the deposit_addresses table
    calls,      \* what each request is doing
    answers     \* the status each request was answered with

depositVars == <<sent, nonces, rows, addresses, calls, answers>>

vars == <<limiterVars, depositVars>>

Steps == {"limiter", "verify", "nonce", "credit", "lookup", "insert", "done"}

Call == [step : Steps, delivery : Deliveries \cup {None}, pair : Pairs \cup {None},
         address : Addresses \cup {None}]

\* deposit: posted for a webhook, not for a bet.
Row == [ref : SysNos, user : Users, amount : Int, deposit : BOOLEAN]

AddressRow == [user : Users, pair : Pairs, address : Addresses]

Statuses == {200, 400, 401, 429, 500}

TypeOK ==
    /\ LimiterTypeOK
    /\ sent \in [Deliveries -> Nat \cup {None}]
    /\ nonces \in [Nonces -> Nat \cup {None}]
    /\ rows \in Seq(Row)
    /\ addresses \subseteq AddressRow
    /\ calls \in [Requests -> Call]
    /\ answers \in [Requests -> Statuses \cup {None}]

NoCall == [step |-> "limiter", delivery |-> None, pair |-> None, address |-> None]

Init ==
    /\ LimiterInit
    /\ sent = [d \in Deliveries |-> None]
    /\ nonces = [n \in Nonces |-> None]
    /\ rows = <<>>
    /\ addresses = {}
    /\ calls = [r \in Requests |-> NoCall]
    /\ answers = [r \in Requests |-> None]

At(r, s) == calls[r].step = s

\* /webhooks/xcash/deposit, not /api/wallet/deposit-address
IsWebhook(r) == calls[r].delivery # None

Goto(r, s) == calls' = [calls EXCEPT ![r].step = s] /\ UNCHANGED answers

Reply(r, status) ==
    /\ calls' = [calls EXCEPT ![r].step = "done"]
    /\ answers' = [answers EXCEPT ![r] = status]

\* The tables and Redis are only read.
OnlyReads == UNCHANGED <<limiterVars, sent, nonces, rows, addresses>>

-----------------------------------------------------------------------------
(* Arrival, and the way through the limiter to the routes. *)

\* A webhook arrives, or arrives again as it was; the provider's clock may be ahead.
SendWebhook(r) ==
    /\ Middleware(r)
    /\ \E d \in Deliveries :
        /\ calls' = [calls EXCEPT ![r].delivery = d]
        /\ sent' = IF sent[d] = None THEN [sent EXCEPT ![d] = clock + d.ahead] ELSE sent
    /\ UNCHANGED <<nonces, rows, addresses, answers>>

\* A user asks for an address.
AskAddress(r) ==
    /\ Middleware(r)
    /\ \E p \in Pairs : calls' = [calls EXCEPT ![r].pair = p]
    /\ UNCHANGED <<sent, nonces, rows, addresses, answers>>

\* The other steps of the limiter.
Limited(r) == LimiterStep(r) /\ UNCHANGED depositVars

\* The limiter has refused a request, or could not reach Redis.
Refuse(r) ==
    /\ At(r, "limiter") /\ In(r, "refused")
    /\ Reply(r, 429)
    /\ OnlyReads

\* Limits.validate; daily limits are applied to each deposit.
WithinLimits(amount) ==
    /\ amount > 0
    /\ MinDeposit # None => amount >= MinDeposit
    /\ MaxDeposit # None => amount <= MaxDeposit
    /\ DailyDeposit # None => amount <= DailyDeposit

\* The gateway checks the amount of a webhook and calls the wallet.
HandleWebhook(r) ==
    /\ At(r, "limiter") /\ In(r, "served") /\ IsWebhook(r)
    /\ IF WithinLimits(calls[r].delivery.amount) THEN Goto(r, "verify") ELSE Reply(r, 400)
    /\ OnlyReads

\* Without configured pairs the gateway allows all, the wallet none.
GatewaySupports(p) == SupportedPairs # {} => p \in SupportedPairs
WalletSupports(p) == p \in SupportedPairs

\* The token is verified, its user put into the context, and the pair checked by
\* gateway and wallet.
HandleDepositAddress(r) ==
    /\ At(r, "limiter") /\ In(r, "served") /\ ~IsWebhook(r)
    /\ \/ /\ Authenticate(r, UserOf[r])
          /\ IF ~GatewaySupports(calls[r].pair) THEN Reply(r, 400)
             ELSE IF ~WalletSupports(calls[r].pair) THEN Reply(r, 500) ELSE Goto(r, "lookup")
       \/ Reply(r, 401) /\ UNCHANGED limiterVars
    /\ UNCHANGED <<sent, nonces, rows, addresses>>

-----------------------------------------------------------------------------
(* The webhook in the wallet. *)

TimestampOK(d) ==
    /\ sent[d] >= clock - Window
    /\ sent[d] <= clock + FutureTolerance

\* The signature covers nonce, timestamp and body.
Verify(r) ==
    /\ At(r, "verify")
    /\ LET d == calls[r].delivery IN
       IF d.signed /\ TimestampOK(d) THEN Goto(r, "nonce") ELSE Reply(r, 400)
    /\ OnlyReads

\* Redis keeps a key up to and including the instant of its expiry.
Remembered(n) == nonces[n] # None /\ clock <= nonces[n]

SetNonce(n) == nonces' = [nonces EXCEPT ![n] = clock + Window]

\* Faulty variant: deposits that are not confirmed are credited.
ProcessAny(r) ==
    IF WalletSupports(calls[r].delivery.pair) THEN Goto(r, "credit") ELSE Reply(r, 400)

\* A valid webhook: deposits the chain has not confirmed are only acknowledged, and
\* only supported pairs are credited.
Process(r) ==
    LET d == calls[r].delivery IN
    \/ ~d.confirmed /\ Reply(r, 200)
    \/ d.confirmed /\ ~WalletSupports(d.pair) /\ Reply(r, 400)
    \/ d.confirmed /\ WalletSupports(d.pair) /\ Goto(r, "credit")

\* Faulty variant: a webhook seen before is answered as processed.
CheckNonceSeen(r) ==
    /\ At(r, "nonce")
    /\ LET n == calls[r].delivery.nonce IN
       \/ ~Remembered(n) /\ SetNonce(n) /\ Process(r)
       \/ Remembered(n) /\ Reply(r, 200) /\ UNCHANGED nonces
    /\ UNCHANGED <<limiterVars, sent, rows, addresses>>

\* checkNonce: SetNX finds the nonce, or sets it, or fails with the nonce set or not.
CheckNonce(r) ==
    /\ At(r, "nonce")
    /\ LET n == calls[r].delivery.nonce IN
       \/ ~Remembered(n) /\ SetNonce(n) /\ Process(r)
       \/ ~Remembered(n) /\ SetNonce(n) /\ Reply(r, 400)
       \/ UNCHANGED nonces /\ Reply(r, 400)
    /\ UNCHANGED <<limiterVars, sent, rows, addresses>>

RowOf(d) == [ref |-> d.sysNo, user |-> d.uid, amount |-> d.amount, deposit |-> TRUE]

\* The lookup of a reference, over all transactions; an empty one is not looked up.
Referenced(n) == n # NoSysNo /\ \E i \in DOMAIN rows : rows[i].ref = n

\* Faulty variant: credits are not looked up by their reference.
CreditWalletAnyway(r) ==
    /\ At(r, "credit")
    /\ rows' = Append(rows, RowOf(calls[r].delivery))
    /\ Reply(r, 200)
    /\ UNCHANGED <<limiterVars, sent, nonces, addresses>>

\* WalletLedger's Credit with the deposit's number as reference; it may fail before or
\* after its commit.  A transaction under that reference, of whatever kind, is taken for
\* the credit.
CreditWallet(r) ==
    /\ At(r, "credit")
    /\ LET d == calls[r].delivery IN
       \/ /\ rows' = IF Referenced(d.sysNo) THEN rows ELSE Append(rows, RowOf(d))
          /\ \E status \in {200, 400} : Reply(r, status)
       \/ rows' = rows /\ Reply(r, 400)
    /\ UNCHANGED <<limiterVars, sent, nonces, addresses>>

\* The stake of a bet is debited under a reference of the user's choice, unless there is
\* a transaction under it; the amount does not matter here.
DebitStake ==
    /\ \E n \in BetRefs, u \in Users :
        /\ ~Referenced(n)
        /\ rows' = Append(rows, [ref |-> n, user |-> u, amount |-> 0, deposit |-> FALSE])
    /\ UNCHANGED <<limiterVars, sent, nonces, addresses, calls, answers>>

-----------------------------------------------------------------------------
(* The deposit address. *)

RowsOf(u, p) == {a \in addresses : a.user = u /\ a.pair = p}

\* Faulty variant: a failure of the provider is ignored.
GetDepositAddressEmpty(r) ==
    /\ At(r, "lookup")
    /\ \/ \E a \in RowsOf(user[r], calls[r].pair) :
            /\ calls' = [calls EXCEPT ![r] = [@ EXCEPT !.step = "done", !.address = a.address]]
            /\ answers' = [answers EXCEPT ![r] = 200]
       \/ \E a \in Addresses \cup {None} :
            /\ calls' = [calls EXCEPT ![r] = [@ EXCEPT !.step = "insert", !.address = a]]
            /\ UNCHANGED answers
    /\ OnlyReads

\* The stored address, or, when it is missing or cannot be read, a new one of the
\* provider, which may fail as well.
GetDepositAddress(r) ==
    /\ At(r, "lookup")
    /\ \/ \E a \in RowsOf(user[r], calls[r].pair) :
            /\ calls' = [calls EXCEPT ![r] = [@ EXCEPT !.step = "done", !.address = a.address]]
            /\ answers' = [answers EXCEPT ![r] = 200]
       \/ \E a \in Addresses :
            /\ calls' = [calls EXCEPT ![r] = [@ EXCEPT !.step = "insert", !.address = a]]
            /\ UNCHANGED answers
       \/ Reply(r, 500)
    /\ OnlyReads

NewAddress(r) == [user |-> user[r], pair |-> calls[r].pair, address |-> calls[r].address]

\* Faulty variant: a row of another request is taken for one's own.
CreateDepositAddressAgain(r) ==
    /\ At(r, "insert")
    /\ addresses' = IF RowsOf(user[r], calls[r].pair) = {}
                    THEN addresses \cup {NewAddress(r)} ELSE addresses
    /\ Reply(r, 200)
    /\ UNCHANGED <<limiterVars, sent, nonces, rows>>

\* One active address per user, currency and chain: the index refuses a second one.
CreateDepositAddress(r) ==
    /\ At(r, "insert")
    /\ \/ /\ RowsOf(user[r], calls[r].pair) = {}
          /\ addresses' = addresses \cup {NewAddress(r)}
          /\ \E status \in {200, 500} : Reply(r, status)
       \/ addresses' = addresses /\ Reply(r, 500)
    /\ UNCHANGED <<limiterVars, sent, nonces, rows>>

-----------------------------------------------------------------------------

DepositStep(r) ==
    \/ Refuse(r) \/ HandleWebhook(r) \/ HandleDepositAddress(r)
    \/ Verify(r) \/ CheckNonce(r) \/ CreditWallet(r)
    \/ GetDepositAddress(r) \/ CreateDepositAddress(r)

Next ==
    \/ Tick /\ UNCHANGED depositVars
    \/ RestartGateway /\ UNCHANGED depositVars
    \/ DebitStake
    \/ \E r \in Requests : SendWebhook(r) \/ AskAddress(r) \/ Limited(r) \/ DepositStep(r)

Spec == Init /\ [][Next]_vars

-----------------------------------------------------------------------------
(* A deposit is credited at most once, however often and under however many nonces *)
(* its webhook is delivered, and concurrently (Service.ProcessDepositWebhook); one  *)
(* without a number is credited for every webhook, as its number is not looked up.  *)
CreditedOnce ==
    \A i, j \in DOMAIN rows : rows[i].ref = rows[j].ref /\ rows[i].ref # NoSysNo => i = j

(* Every credit is the amount, to the user, of a webhook the provider has signed and *)
(* sent, for a confirmed deposit of a supported pair within the gateway's limits     *)
(* (Server.handleXcashWebhook, WebhookValidator.Validate).                           *)
CreditsJustified ==
    \A i \in DOMAIN rows : rows[i].deposit =>
        \E d \in Deliveries :
            /\ rows[i] = RowOf(d)
            /\ sent[d] # None
            /\ d.signed /\ d.confirmed
            /\ WalletSupports(d.pair)
            /\ WithinLimits(d.amount)

\* A credit for deposit d, or for one of that number, if it has one.
Credited(d) ==
    \E i \in DOMAIN rows :
        /\ rows[i].deposit /\ rows[i].ref = d.sysNo
        /\ d.sysNo = NoSysNo => rows[i] = RowOf(d)

\* A bet's debit under the deposit's number.
Taken(d) == \E i \in DOMAIN rows : ~rows[i].deposit /\ rows[i].ref = d.sysNo

(* A webhook of a confirmed deposit that is answered with 200, upon which the     *)
(* provider stops repeating it, has been credited: a repetition that meets the    *)
(* nonce of an attempt that failed is not taken for a success.  A deposit whose   *)
(* number a bet has as its reference is excepted: PGStore.CreditWallet finds that *)
(* row and the deposit is acknowledged without a credit.                          *)
AckedIsCredited ==
    \A r \in Requests :
        IsWebhook(r) /\ answers[r] = 200 /\ calls[r].delivery.confirmed =>
            Credited(calls[r].delivery) \/ Taken(calls[r].delivery)

(* The address a user is told is the address stored for that user, so that every *)
(* later request tells the same one, also when first requests of the user race   *)
(* (Service.GetDepositAddress).                                                  *)
ToldIsStored ==
    \A r \in Requests :
        ~IsWebhook(r) /\ answers[r] = 200 =>
            RowsOf(user[r], calls[r].pair) = {NewAddress(r)}
=============================================================================
