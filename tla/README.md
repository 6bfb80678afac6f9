# Betmonster: a TLA+ model

Betmonster is a betting platform: a wallet service that holds users' money, a
sportsbook service that takes and settles bets, an odds feed service that follows
events and their results, and an HTTP gateway in front of them. This directory
models the parts that decide over money, and the routes, keys, limits and rates around
them, checks them with TLC on small instances and proves the central results with TLAPS
for all instances.

`PROJECT.json` lists the runs, which definition models which source lines, the
faulty variants each property is tested against, the hazards and the findings.

## 1. The system

| component | state | operations | talks to |
|---|---|---|---|
| wallet service (`internal/wallet`) | tables `wallets`, `transactions`, `withdrawal_requests`, `deposit_addresses` | `CreditWallet`, `DebitWallet`, `RequestWithdrawal`, `ReviewWithdrawal`, `GetBalance`, `GetDepositAddress`, `ProcessDepositWebhook` | PostgreSQL; xcash (deposit addresses, webhooks); called by gateway and sportsbook |
| webhook validator (`wallet/xcash`) | nonces in Redis | `Validate` | in front of `CreditWallet` |
| rates (`wallet/rates`) | a cache of rates with times | `GetRate`, `SupportedRates` | rate providers |
| sportsbook service (`internal/sportsbook`) | table `bets` | `PlaceBet`, `SettleBet`, listings | PostgreSQL; wallet and odds feed over gRPC |
| settlement scheduler (`sportsbook/scheduler.go`) | none | a sweep of the pending bets per tick | sportsbook service, odds feed |
| odds feed service (`internal/oddsfeed`) | tables `sports`, `leagues`, `events`, `markets`, `outcomes`; Redis cache | `SyncProvider`, `SyncLiveProvider`, `ApplyUpdate`, listings | providers over HTTP and websocket; NATS |
| gateway (`internal/gateway`) | none of its own | HTTP routes, checks of limits and pairs | all services over gRPC |
| rate limiter (`gateway/ratelimit.go`) | token buckets, in memory or in Redis | `Middleware`, before every route | Redis |
| authentication (`internal/auth`) | the key set and its age | `UserFromRequest` | the identity provider |

**Interactions.** A user's request goes through the gateway to one service.
`PlaceBet` asks the odds feed about event, market and outcome, writes the bet, debits
the wallet and updates the bet: two databases and two remote services, and no
transaction around them. `SettleBet`, called by administrators or by the scheduler,
does the same in the other direction. What ties the steps together is the
*reference id*: the wallet posts one transaction per reference id and answers a
repeated call with the first transaction.

**What is hard.** Requests run concurrently, in several processes. Each statement
and each remote call may fail, and a call whose reply is lost may have happened.
Clients repeat requests. The feed changes while a bet is being placed. Amounts are
exact decimals in Go and `NUMERIC(28,8)` in the tables.

**What makes each part correct.**

* Wallet: concurrent operations are equivalent to atomic ones; no overdraft; no lost
  update; a reference id is posted once; an acknowledged operation is in the ledger;
  a withdrawal is reviewed once and a rejection gives back what was taken; nobody
  waits for ever for a lock.
* Sportsbook: a bet that counts holds its stake; a bet is paid once, as recorded; a
  bet only moves forward; what failed leaves no money behind; every bet is answered,
  and every decided bet is settled and paid.
* Odds feed: a result in the tables is the provider's, and stays; events do not go
  back; a live game ends up as the provider has it, whatever was lost, late or out of
  order on the way; every new game can be bet on: market and outcome are listed as
  active. Section 3 has what the code does with states that it or its schema does not know.
* Deposits: a deposit with a number is credited at most once, however often its webhook is
  delivered and whatever failed before; a credit has a webhook that passed every check; an
  acknowledgement means a credit, unless a bet's debit holds the deposit's number; an address
  told is the address stored.
* Rate limiter: no more than burst plus rate times time, for every key and every span
  of time.
* Authentication: a token is judged by keys that are not older than a refresh interval and a
  fetch, whatever requests fetch at once; a request whose own fetch fails uses the old keys,
  however old, and is excepted.
* Gateway: nobody changes or sees what is another user's, but for administrators on their
  routes and the provider by a signed webhook; an answer that blames the client (4xx) means that
  nothing has changed. Two answers are excepted: 400 to a webhook, and 404 when the row of a bet
  is gone by the time it is updated.
* Settlement sweeps: no decided bet is passed over for ever, although the sweep moves the
  pages it reads.
* Rates: no rate is shown that is older than a bound, however often quotes are stored again;
  one `GetRate` is answered within the timeouts of its providers. (`ListTransactions`,
  `gateway/server.go:147`, and `SupportedRates`, `aggregator.go:127`, make several in a row.)

## 2. The modules

| module | models |
|---|---|
| `WalletLedger` | what the wallet promises: one atomic action per operation (the in-memory store, one mutex around each operation) |
| `WalletStore` | the PostgreSQL store: handlers that run SQL transactions statement by statement |
| `Sportsbook` | `PlaceBet`, `SettleBet` and the scheduler over the bets table, with the wallet (`WalletLedger`) and the feed |
| `OddsFeed` | the odds feed: syncs that poll the provider, the websocket worker beside them |
| `RateLimiter` | the gateway's rate limiter, in memory and in Redis |
| `Deposits` | the deposit webhook and the deposit address, from the gateway's routes to the wallet's tables, behind `RateLimiter` |
| `SettlementQueue` | what the automatic settlement promises: a bet waits, is closed once, and is closed in the end if the feed has decided and shows it |
| `SettlementSweep` | the scheduler's sweeps, page by page, beside new bets and administrators |
| `KeySet` | the signing keys that tokens are verified with, and their refreshes |
| `Gateway` | the routes of the gateway behind `KeySet`, with the services' checks of their callers |
| `Rates` | the exchange rates: aggregator, cache, chains of providers |
| `MCWalletStore`, `MCSportsbook`, `MCOddsFeed`, `MCDeposits`, `MCSettlementSweep`, `MCGateway`, `MCRates` | the instances that TLC checks |
| `WalletLedgerProofs`, `WalletStoreProofs`, `SportsbookProofs`, `OddsFeedProofs`, `DepositsProofs` (with the rate limiter), `SettlementSweepProofs`, `GatewayProofs`, `RatesProofs` | the theorems and their proofs |

`WalletStore` implements `WalletLedger` and `SettlementSweep` implements `SettlementQueue`
(`INSTANCE ... WITH`: the pending bets are the queue's waiting ones). `Sportsbook` composes
`WalletLedger` with the bets, `Deposits` is built on `RateLimiter`, `Gateway` on `KeySet`.

### WalletLedger

`wallets`, `ledger` and `withdrawals` are the three tables; `ledger` keeps, for each
wallet, the transaction rows in the order of commit. Each operation is one action:
`CreateWallet`, `Credit`, `Debit`, `RequestWithdrawal`, `ApproveWithdrawal` and
`RejectWithdrawal`. Two numeric domains are kept apart: amounts of calls count
*sub-units*, stored numbers count *stored units*, `Scale` sub-units each. `Stored` is
the rounding of a `NUMERIC(28,8)` column. `Scale = 1` says that amounts have at most
eight decimals; `Scale = 2` is enough to meet halves, the case in which two separate
roundings disagree.

### WalletStore

A handler's transaction is a record: its program counter, its call, the wallet row it
read under the lock, whether it inserted that row. The tables hold what is committed.
What is uncommitted (row locks, keys in unique indexes) follows from the program
counters: `HoldsWallet`, `HoldsRequest` and `HoldsRef`. Under READ COMMITTED a
statement that meets such a lock or key waits; in the model the action is disabled.

| action | statement |
|---|---|
| `Lookup` | `SELECT id FROM transactions WHERE reference_id` |
| `Claim` | `UPDATE withdrawal_requests ... AND status = 'pending'` |
| `LockWallet` | `SELECT ... FROM wallets ... FOR UPDATE`; does not see or wait for an uncommitted row |
| `InsertWallet` | `INSERT INTO wallets` of a first credit |
| `UpdateWallet` | the balance check and `UPDATE wallets ... AND version = $3` |
| `InsertRow` | `INSERT INTO transactions`, waiting for an uncommitted equal reference id |
| `Commit` | `COMMIT`, whose reply may be lost |
| `Fail` | any statement fails, the client leaves or the service stops: rollback |

After a failed `INSERT` PostgreSQL refuses every further statement of the
transaction. The second lookup that `CreditWallet` and `DebitWallet` attempt at that
point therefore fails, and the call is answered with an error (`"duplicate"`).

### Sportsbook

`bets` is the table by user and reference id, `calls` what each handler and each
scheduler is doing, `feed` what the odds feed answers, `lateCalls` the wallet calls
whose handler gave up on them and that may still arrive. Every statement and every
remote call is an action: `CheckReference`, `ReadMarket`, `ReadOutcome`, `CreateBet`,
`DebitStake`, `CancelUnpaid`, `FinalizeBet` for `PlaceBet`; `LoadBet`, `MarkSettled`,
`CreditUser`, `RecordCredit` for `SettleBet`. `LoseReply` lets a wallet call return an
error while it may still be served (`ServeLate`) or not (`DropLate`); `Abandon` ends a
request anywhere. The wallet's part of a call is one step of `WalletLedger`, which the
wallet's store is proved to implement. The feed is external here: it may change any
outcome at any time (`FinalResults` says whether it keeps a result; that the feed's
tables do is `NoStepBack` of `OddsFeed`).

A payout is an integer product: the decimal formatting of stakes, odds and payouts is
left out, since no property depends on it.

### OddsFeed

`src` is the provider: for each game the listing that has it (`list`), its state, the state of
its one condition, of the outcome, and the odds. `events`, `markets` and `outcomes` are the tables, by game. `sync`
is what each caller of `SyncProvider` and `SyncLiveProvider` is doing, `stream` and `updates`
the websocket subscription and the updates on their way.

| action | code |
|---|---|
| `BeginSync` | `syncMu.Lock`; the scheduler alternates full and live syncs |
| `FetchHierarchy` | `/market-manager/sports` for games before the start (full) or live games |
| `ReadStatuses` | `GetEventStatusesByProvider` and `changedEventIDs`, of a full sync |
| `WriteEvent`, `EventsDone` | `applyHierarchy`, a row at a time; a status that the schema refuses ends the sync |
| `FetchConditions` | `/market-manager/conditions-by-game-ids`; a live sync calls it before it writes its events |
| `WriteMarket`, `WriteOutcome` | `applyMarkets`, a row at a time |
| `Subscribe`, `Dial` | `SubscribeLive`: the live conditions, then the connection; with none it waits for shutdown (`"parked"`) |
| `ApplyUpdate` | the worker's `ApplyUpdate`, without the lock |
| `FailSync`, `LoseUpdate`, `BreakStream`, `Restart` | an error anywhere in a sync; a failed statement of an update; the end of a subscription with its channel; a restart |

The provider (`GameStarts`, `GameEnds`, `GameInterrupted`, `Requote`, `Pause`, `Resolve`) is external:
games go from before the start to live to finished, a decided condition stays decided, and a
subscriber is sent each change of a condition. A game of `Fragile` may also be paused or called
off while it is listed, and `Vocabulary` has the states that each condition and outcome is given,
`"Other"` among them: a state that the adapter has no name for, or none. `known` remembers whether
an outcome ever had it.

The two translations of states meet two vocabularies. `normalizeGameState` turns `Canceled` into
`canceled` and any state without an arm of its own into lower case, and the `CHECK` of
`events.status` (`20260706120000_create_feeds_schema.up.sql:33`) has `paused` but not `canceled`: such an event is
refused, and the sync ends there for all games (`Blocked`). `normalizeOutcomeState` and
`normalizeConditionState` take a state they do not know for a cancellation.

The service has one caller of the
syncs, the scheduler, after one initial sync; `Syncers` is a parameter because the
lock is there for more, and the proofs cover any number.

### RateLimiter

`pass` is where each request is in the limiter, `limiters` and `memory` are the map of limiters
by key and their buckets, `redis` the buckets in Redis, `user` the user in each request's
context. `grants` is history: for each key the times that the requests let through had
read, in the order in which they were charged. Time is in whole seconds, as the script
has it.

| action | code |
|---|---|
| `Middleware` | `key`, then `allow`; with Redis the clock is read here |
| `LookLimiter`, `MakeLimiter` | `getLimiter` under the read lock and under the write lock |
| `AllowMemory` | `Limiter.Allow`, which reads the clock and charges under the limiter's lock |
| `EvalRedis` | the script and its reply |
| `EvalError` | a call that fails with the script run or not; the client repeats it or the request is refused |
| `Authenticate` | `Server.auth`, inside the limiter |
| `Tick`, `RestartGateway` | time; the loss of everything in memory |

A bucket in memory starts at the time of its creation: golang.org/x/time/rate starts it
full at its first use. `Stored` is what the script finds: Redis drops a bucket `Expiry`
seconds after its last use. `MaxDelay` is how long a call to Redis can last with its
timeouts and retries. A restart of the gateway forgets the buckets in memory, so what
was granted before it is not counted after it.

The key has the user only if the context has one, and authentication is inside the
limiter: every key is an address alone, although the type's comment says "per-IP and
per-user rate limits".

### Deposits

`calls` is what each request is doing, `answers` the status it was answered with, `sent` the
timestamp of each webhook, `nonces` the nonces in Redis with their expiry, `rows` the wallet's
transactions under deposits' numbers, `addresses` the table `deposit_addresses`. A webhook is a record of what the
checks look at; several may be about one deposit (`sysNo`), one may arrive often, and the number
may be empty (`NoSysNo`). The wallet looks a reference up over all transactions and does not look
up an empty one (`Referenced`); users choose the references of their bets, and `BetRefs` are those that
are deposits' numbers.

| action | code |
|---|---|
| `SendWebhook`, `AskAddress` | a request arrives at the limiter |
| `Limited`, `Refuse` | the limiter's steps, and its answer 429 |
| `HandleWebhook` | `handleXcashWebhook` with `Limits.validate` |
| `Verify` | signature and time window |
| `CheckNonce` | `SetNX`, and what `ProcessDepositWebhook` decides after it |
| `CreditWallet` | the wallet's credit, one step as `WalletLedger` has it; a transaction with the number is taken for it; its reply may be lost |
| `DebitStake` | `DebitWallet` for a bet whose reference is a deposit's number |
| `HandleDepositAddress` | `auth` and `handleDepositAddress`, with the check of the pair by gateway and wallet |
| `GetDepositAddress`, `CreateDepositAddress` | lookup and provider, then the insert under the unique index |

A webhook whose credit failed has used its nonce, and is too old for the time window by the
time the nonce is forgotten: only a webhook signed again with another nonce can still
bring the deposit. The model shows that such a webhook is never acknowledged; that the
provider signs again is outside of the repository.

### SettlementSweep

A bet is its position in the order of `created_at`; `status` is its status, with
`debit_pending` as `"held"`; `decided` and `shown` are what the feed says of it: its outcome has a
result, and market and outcome are among the first 100 by name, the only ones that
`resolveOutcomeStatus` looks at. `sweeps` is where each scheduler is; `due` and `left` of a sweep are
history: what it could have settled when it began, and what has left the queue since.

| action | code |
|---|---|
| `PlaceBet`, `FinishBet` | `CreateBet`; the bet is accepted or cancelled |
| `StartSweep` | the ticker of `Scheduler.Start` |
| `ListPage` | `ListPendingBets`: the pending bets at the offset of the page, oldest first |
| `ResolveOutcome` | `resolveOutcomeStatus` for the next bet of the page |
| `LoadBet`, `MarkSettled` | `SettleBet`: the status is read, later written whatever it is by then |
| `SweepFault` | a listing fails or the service stops: the sweep ends; a call about a bet fails: the bet is passed over |
| `AdminLoad`, `AdminMark` | `SettleBet` of an administrator |
| `Decide`, `Crowd` | the feed: a result arrives; a market falls off the first page |

Settling a bet moves all later ones up by a place, so the first bets of the next page are on
the page just done and this sweep does not see them. `SweepProgress` says that this is the
only way to miss one; since it takes an older bet that leaves for good, a bet is missed
at most once for each older one, which is why the queue's promise holds.

### KeySet and Gateway

`published` is what the identity service publishes, `changed` the time since each key was
published or withdrawn, `keyset` the stored copy, `lookups` where each request is in
`currentKeyset`. `ReadStored` is the check under the read lock, `SendKeys`, `FetchFails` and
`StoreKeys` the fetch and the store under the write lock, whatever was stored meanwhile;
`Reread` is the return of `c.keyset` without the lock (a data race: the field is a pointer, and
what is read is one of the sets stored); `Fallback` the old copy after a failed fetch,
however old.

Once a request is authenticated it reads nothing that requests share, so the rest is one
step: `ServePublic`, `ServeAuthenticated` or `RefuseUnverified`. `Handle` is the chain of a route: the
check for administrators, of the method, of the body (`wellFormed`), then `CallOutcomes`: the
identity that the client sends (`Caller`, `CallUser`, `AdminScope`), the `AuthInterceptor` of the
service, what its method may answer, and a call that is lost before or after it is
served. `PlaceBet` and `SettleBet` are here the lists of their statements, each with whether it
writes and the errors it may fail with, by the words of their messages; `Failure` says what was
written by then, and `MapServiceError` turns the error into a code as `mapServiceError` does: by the
wrapped `ErrBetNotFound`, or by the first word. `ErrorStatus` is `grpcStatusToHTTP`. The webhook is a
route without a user whose signature names the provider (`Sender`); what it does to the ledger
is in `Deposits`. An answer has `acts` and `shows`, the users whose
money or bets it changed or shows. One of the users of the instance is called "gateway",
the name that the gateway itself uses as a caller. The feed's listings are one route, and
so are `/health` and `/supported`.

### Rates

`cache` has for each pair of currencies the age of the quote and the time since it was stored;
`calls` is where each `GetRate` is; a route that shows several rates makes several calls. An action is a call to the cache or a provider: `Lookup`,
`Direct` (the chain of crypto providers), `ToUSD`, `UsdDirect`, `UsdStore` (`cryptoToUSD`), `Convert` (the
forex chain and the product), `Stale`, `Store`. A provider of either chain answers with a
price, with an empty price that only Binance's adapter refuses, or fails, at any moment up to
its timeout (`Tick`). A product needs two numbers; an empty price is stored and shown as it
is.

A quote that is read from the cache is stored again with a new time in two places: a
dollar rate that another request has stored meanwhile, and a dollar rate converted to
another currency. `StoredAge` is what this can add up to: with the program's settings
30 s to live, 25 s for a round of crypto providers and a call, 20 s for the forex
providers. So a rate that is served stale may be up to 5 minutes and 75 seconds old, where
`docs/superpowers/specs/2026-07-05-fiat-display-and-zero-balance-hiding.md` speaks of "less
than 5 minutes".

## 3. What is checked

All bounds are constants of the instances in the `.cfg` files.

| run | instance | shows |
|---|---|---|
| `wallet_money` | 3 handlers, 1 wallet, 5 calls out of a deposit, a debit, a debit without reference id and a balance query; failures; `Scale = 2` | `NoWalletConflict`, `AckedIsPosted`, `ChainedRows`, `PostedOnce`, `NoOverdraft`, `RowsExplainBalances` |
| `wallet_withdrawals` | 3 handlers, 5 calls out of a deposit, a withdrawal and its two reviews; failures; fair | `WithdrawalsBalanced`, `RejectionRestores`, `RowsPermanent`, `ImplementsLedger` (refinement of `WalletLedger`), and `EveryCallAnswered` |
| `sportsbook_bets` | 2 handlers, 1 scheduler, one bet requested with two stakes, odds that move, one failure; fair | `StakeBacked`, `PaidAsRecorded`, `StatusForward`, `EveryBetAnswered`, `DecidedBetsPaid` |
| `sportsbook_retry` | 1 handler, 2 bets of which one is covered, administrators with every result, 2 failures | `PaidOnce`, `PayoutBacked` |
| `gateway_deposits` | 2 requests, each one of 8 webhooks (three of one deposit, two without a number) or a request for an address; a bet whose reference is a deposit's number; both backends; burst 1, 4 seconds; failures of Redis, provider, database and gateway anywhere | `WindowBound`, `CreditedOnce`, `CreditsJustified`, `AckedIsCredited`, `ToldIsStored` |
| `oddsfeed_sync` | 2 games, the scheduler, 3 changes of the provider, 1 failure or restart; one condition is paused and resumed, the other game has an outcome state without a name and may be paused or called off; fair | `ResultsTrue`, `RowsLinked`, `NoStepBack`, `LiveConverges`, `EveryGameOffered` |
| `sportsbook_sweep` | 3 bets in pages of 2, one scheduler, one administrator, 1 failure; fair | `SweepProgress`, `ImplementsQueue` (refinement of `SettlementQueue`, with its liveness) |
| `gateway_routes` | 2 requests, 1 signing key, 2 users of whom one is an administrator, every route (the webhook too), method, body, signature and outcome; refresh interval 2, fetch timeout 1 | `KeysCurrent`, `OwnOnly`, `StatusTrue` |
| `rates_age` | 2 requests, 1 currency, dollar and one more, 2 crypto providers, 1 forex provider; 2 units to live, 3 stale, timeout 1; any stablecoins and manual rates | `TypeOK`, `RateAge`, `AnswerInTime` |

Why the bounds are enough. Conflicts in the wallet are between two transactions on
one wallet, one reference id or one request; the third handler adds the one that waits
or retries. Five calls suffice for a deposit, two racing operations on it and a retry of
each. A bet is a matter of two requests and a scheduler, and `StakeBacked` and
`PaidAsRecorded` speak of one bet at a time; the two stakes for one reference id make a
repeated request differ from the first. In the feed, three changes are a start and two
changes of the live game, enough for two updates in the queue while a sync holds an older
snapshot; two games give loops that stop half-way. Each property of the deposits relates
two requests, and four seconds are enough for a nonce and a bucket to expire between
them. Three bets in pages of two give a sweep a second page, and a bet that moves from it to
the first. Keys do not affect each other, so one that comes and goes is enough; two
requests let one fetch overtake another. Two requests for rates let one store what the
other has missed; two providers let the first fail. What these instances leave open is
proved: the wallet's results do not depend on the bounds at all, nor do the safety
properties of the feed and of the sweeps and everything about limiter, deposits, gateway and
rates (section 4).

`CHECK_DEADLOCK` is off for wallet, sportsbook bets and deposits because they may stop: clients stop
calling, and the bound on calls is used up. That nobody waits for ever is what `EveryCallAnswered` and
`EveryBetAnswered` say.

**Fairness.** `WalletStore!FairSpec`: a statement that can run is run (weak fairness of
each handler's `Step`); PostgreSQL grants a lock once it is free, and in the instance
the calls are finitely many, so a waiting statement is not overtaken for ever.
`Sportsbook!FairSpec`: handlers go on, and a scheduler keeps finding a pending bet that is
decided, because `Scheduler.Start` sweeps on every tick and each sweep starts from the
first page. No fairness is assumed of clients, administrators, the feed or late
calls. `OddsFeed!FairSpec`: some sync goes on or begins (the ticker never stops), and the
worker takes the next update; nothing is assumed of the provider or of the
subscription, which may never be made. `SettlementSweep!Spec`: each scheduler goes on with its
sweep or starts the next (the ticker); nothing of users, administrators or the feed. The liveness properties of the sportsbook and
`EveryGameOffered` are about executions without failures (`faults > 0` discharges them);
`LiveConverges` is not: failures may come at any time, but stop coming. `EveryGameOffered` also excepts
games whose condition is not active when its conditions are fetched, and both except syncs that are
blocked by a game whose status the schema refuses. `RetrySpec` adds administrators that keep settling
every bet; it is used only to show that even that does not help (`sportsbook_unpaid`).

### Where code and documents disagree

| run | what TLC shows |
|---|---|
| `sportsbook_double_payout` | Two overlapping settlements with different results both see a pending bet; one pays the winnings and the other the refund, under different reference ids. |
| `sportsbook_unpaid` | The credit of a won bet fails: the record says won, and every later settlement is refused because the bet is no longer pending. |
| `oddsfeed_finished` | A game that has ended is in no snapshot, since both syncs ask for games in one state only: its event stays live and its outcomes undecided. The design document lists `live` → `finished` among the changes that are followed. |

Other behaviours that a reader should know of; no run is about them:

* A withdrawal of an amount with more than eight decimals: request and rejection round
  different numbers, so a rejection does not restore the balance. `RejectionRestores` is
  checked for amounts that the columns store exactly.
* Two debits race with one reference id: the loser's `INSERT` fails, its second lookup runs in
  an aborted transaction and it is answered with an error (`pgstore.go:251`), where
  `pgstore_integration_test.go:228` expects none. Nothing is posted twice.
* The reply to a stake's debit is lost (`sportsbook/service.go:152`): the bet is cancelled and the
  stake stays debited.
* Two users use one reference id (`wallet/pgstore.go:176`): the second debit is answered with the
  first user's transaction, and the second bet is accepted without a stake.
* A bet is placed under a reference id that is, or will be, the `sys_no` of a deposit
  (`gateway/server.go:593`, `wallet/pgstore.go:69`): the webhook finds the bet's debit, is answered with 200
  and credits nothing. `AckedIsCredited` excepts it.
* A webhook with an empty `sys_no` is credited each time it is signed again with another nonce, since an
  empty reference is not looked up (`wallet/pgstore.go:67`). `CreditedOnce` excepts it.
* Any error of the wallet about a webhook is answered with 400 (`gateway/server.go:454`), also when the credit
  is committed and only the reply is lost. `StatusTrue` excepts it. A repetition is harmless.
* `mapServiceError` looks for `ErrBetNotFound` before anything else, so a bet whose row is gone by the time
  it is updated (`sportsbook/service.go:159`, `218`, `238`) gives 404 after money has moved. Nothing in the
  repository deletes bets. `StatusTrue` excepts it.
* A listed game that is called off (`azuro.go:554`) has a status that the schema refuses, as has a game in any
  state that is no word of the schema: the sync ends with an error, and so does every later one while
  the game is listed; other games' rows are written or not depending on their order.
* An outcome state that the adapter does not know, or that is absent, is stored as a cancellation
  (`azuro.go:588`): the scheduler refunds bets on an outcome that is still open, and a later sync takes the
  status back. `ResultsTrue` and `NoStepBack` except it.
* A condition that is paused when the conditions of its new event are fetched stays suspended until the
  start: an unchanged event's conditions are not fetched again, and only live conditions are subscribed to.
* `PlaceBet` reads market and outcome in two calls and writes the bet later (`sportsbook/service.go:72`, `87`): the
  outcome may be suspended or decided and its odds changed meanwhile. No document says what must
  hold then; `Sportsbook` lets the feed change between the reads.
* `POST /withdraw` carries no reference id: a client that repeats it after a lost reply makes a
  second request, which an administrator has to notice.

`StakeBacked` and `PaidAsRecorded` hold for reference ids that no two users share;
`PaidAsRecorded`, `PaidOnce` and `StatusForward` also need one source of results that stay, or
one request at a time. Section 4 states this for every instance.

## 4. What is proved

For every set of wallets, reference ids, requests and handlers, every scale, every
set of calls and every bound. The assumptions are those of `WalletLedger` and
`WalletStore`: `Scale` is positive, amounts are positive, and callers' reference ids,
request ids and reversal ids are different things (request ids are random UUIDs, and
a reversal id is the request's id with a suffix).

* `LedgerInvariant`: the ledger keeps `LedgerInv`: its types, `NoOverdraft`,
  `ChainedRows`, `PostedOnce`, `WithdrawalsBalanced`, and that a request in use names
  a wallet. These are proved together since they need each other: that a
  reversal's reference id is new follows from `WithdrawalsBalanced`, which in turn
  needs `PostedOnce` to know which row a review changes.
* `StoreInvariant`: the store keeps `StoreInv`, and from it `StoreTypeOK`,
  `StoreNoConflict`, `StoreNoOverdraft`, `StoreChainedRows`, `StorePostedOnce` and
  `StoreWithdrawalsBalanced`.
* `StoreImplementsLedger`: `WalletStore` implements `WalletLedger`. Proved of the ledger and
  carried to the store by it: `StoreRowsExplainBalances`, for every scale;
  `StoreRowsPermanent`; and `StoreRejectionRestores` under `ExactAmounts`, which says that the
  columns store every amount exactly (with more than eight decimals it is false, see section 3).
* `StoreAckedIsPosted`: a call answered with success has its own row, under `OneCallPerRef`:
  callers never use one reference id for two different calls. Without it the second caller is
  answered with the first one's transaction.
* `BetsTypeOK` and `BetsKeepLedger`: whatever ids clients choose and whoever settles, the
  sportsbook keeps its types and leaves `LedgerInv` intact, late wallet calls included.
* `BetsStakeBacked` and `BetsPayoutBacked`, for any number of users, bets, handlers, schedulers,
  faults and any results asked for. Hypotheses: `OwnRefs` (no two users choose one reference
  id; the list in section 3 says what happens if they do), `ApartRefs` (no client
  chooses an id of the form `settle-...`, `cancel-...` that the services build: the model keeps
  these ids apart, the code joins strings) and `WholeUnits` (amounts are whole stored units).
* `BetsPaidAsRecorded`, `BetsPaidOnce` and `BetsStatusForward`, under `OneSource \/ OneProc` in
  addition: results come from the feed alone and stay, with any number of handlers and
  schedulers; or requests do not overlap, with any results from anyone.
  `sportsbook_double_payout` is the counterexample when neither holds. Every passing run of
  `Sportsbook` satisfies the hypotheses of the theorems about its properties.
* `FeedInvariant`: the feed keeps `IInv`, for every set of games and of callers, and from
  it `FeedTypeOK`, `FeedResultsTrue`, `FeedRowsLinked` and `FeedNoStepBack`, whatever states games,
  conditions and outcomes are given. Assumed: the bounds are numbers and odds are positive.
* `LimiterBound`: the rate limiter keeps `WindowBound`, for all settings, keys, requests and
  retries. Assumed (`ExpiryAssumption`): a bucket that Redis drops would have been full,
  `Burst <= Rate * (Expiry - MaxDelay)`. With the script's 120 seconds this is a burst of
  almost two minutes' refill, far above the defaults; with a burst that takes longer than
  121 seconds to refill the bound fails, since a client that waits gets it whole.
* `DepositsKeepLimiter`: `Deposits` implements `RateLimiter`'s specification, so that
  `WindowBound` holds of it (`DepositsBound`). `DepositsInvariant`: it keeps `DInv`, and from it
  follow `DepositsTypeOK`, `DepositsCreditedOnce`, `DepositsCreditsJustified`,
  `DepositsAckedIsCredited` and `DepositsToldIsStored`, for any number of requests, webhooks, users,
  pairs and addresses, and any of the deposits' numbers used as references of bets. Assumed: no two
  signed webhooks have one nonce, the reference of a bet is not empty (`PlaceBet` refuses that),
  and `None` is none of the values it stands beside.
* `SettlementSweepProofs`: for any number of bets, page size, schedulers and administrators,
  `TypeCorrect`, `ProgressHolds` (`SweepProgress`) and `QueueRefined`: every step is a step of
  `SettlementQueue` or leaves it alone. Assumed: a page has room for a bet.
* `GatewayProofs`: `KeysCurrentHolds`, `OwnOnlyHolds` and `StatusTrueHolds`, for any requests, keys, users,
  administrators, refresh interval and timeout. Assumed: the interval is positive, no user has
  the empty name or one of the two names that stand for nobody and for the provider, administrators
  are users (`NewServer` drops the empty name).
* `RatesProofs`: `TypeCorrect`, `RateAgeHolds` and `AnswerInTimeHolds`, for any requests, currencies, chains
  of providers, time to live, stale limit and timeout. Assumed: the chains are not empty.

**The argument.** None of the properties is inductive over the statements of
concurrent transactions: a handler about to commit must still be right about what it
read some statements ago. `StoreInv` adds, for each handler, what it relies on:
the wallet row is the one it read (`Snapshot`), the request it claimed is still pending
(`ClaimHeld`), the balance covers what it takes (`FundsHeld`), its reference id is still
free (`RefFree`), its new request id is unused (`RequestFresh`); and for each two handlers
that they do not hold the same wallet row, request or key (`Exclusive`). Statements that
commit nothing change one handler's record, so one lemma (`LocalStep`) reduces them to
that handler. `CommitRefines` shows that a commit is a step of `WalletLedger`, which
gives `LedgerInv` after it from the proof about the ledger and the refinement theorem
at the same time; `CommitFrame` shows that the other handlers' `Sound` survives, because
`Exclusive` says that they rely on other rows. TLC confirmed `StoreInv` as an invariant of
both wallet instances before it was proved.

`AckedIsPosted` is about calls that are over, so `AckInv` says where their rows come from: a
handler works on a call that was made (`Called`), a row with a reference id was written for such a
call (`RowsCalled`), and a call answered with success has a row with its id (`Acked`); then
`OneCallPerRef` makes the two calls one. `RowsExplainBalances` and `RejectionRestores` are both
statements about what a row adds to a balance beyond its amount (`Drift`): `DriftsIn(D)`, that every
row's drift is in `D`, is kept by every operation that posts a drift of `D` (`DriftsStep`), and the
arithmetic of rounding twice is in `StoredPlus` and `StoredMinus`.

For the sportsbook, `StakeBacked` says nothing of a bet that is about to be accepted, of a wallet
call that may still arrive, or of the row that a repeated call would find. `BetsInv` does:
each step of a request relies on facts about its bet (`CallOK`), a bet that is `debit_pending` is
moved by one request only (`Apart`, which holds because the `INSERT` creates it once), every late
call (`LateOK`) and every row (`RowOK`) was made for one bet, a payment only for one whose stake is
in the ledger. `StakeFound` is the crux: a debit answered with an existing transaction is
answered with the stake of this very bet, since a row with its reference id can only be that.
`FrameStep` reduces every step to the request it moves, the bet it writes and the rows it adds.
`PaidInv` adds that requests about to mark a bet agree with each other and with what it says
(`Agrees`), and that late credits and rows carry the bet's result and amount (`LatePaid`, `RowPaid`);
then a bet changes only forward (`Forward`), so that payments stay in agreement. Both were
checked by TLC on the instances of the runs and on one with two users before they were proved.

For the feed, `NoStepBack` and `ResultsTrue` depend on what a running sync holds. `IInv` says
of each that it is alone (`Alone`), that the status it holds of a game is between the stored one
and the game's own (`InOrder`, `GamesHeld`), that the rows it will refer to exist (`RowsHeld`),
and that its quotes are true and repeat the results already stored (`QuotesHeld`); and of the
tables that no event is further than its game (`EventsTrue`). The provider only moves forward
(`ProviderForward`), which keeps these (`FrameSteps`); a pushed update writes no result and makes no row (`UpdateInvariant`); and no
other sync writes meanwhile (`SyncInvariant`).

For the limiter, the grants alone do not tell whether the next one is allowed. `IInv` of `DepositsProofs`
adds an account per bucket (`Sound`): the grants from any one on, plus the tokens
left, are at most the burst plus the refill since that grant (`Paid`), and tokens are
missing at most for the time by which the last use was late (`Sane`). Since the refill is
linear in time, a charge keeps the account whatever time the request has read
(`ChargeKeeps`), also when a script that is repeated charges without a grant; `Sane` says how
long after its last use a bucket is full, so that dropping it keeps the account
(`DropKeeps`). In memory, `OwnLimiters` and `Phases` say that a key has one limiter and that
requests hold it, which is what the second look under the write lock is for.

For the deposits, `DInv` says of each request which checks it has passed (`Checked`, `Asking`),
how far it is (`Stage`) and what its answer promises (`Kept`), beside the two unique keys.
`OneRequest` shows once that a step of one request keeps what is said of the others,
because webhooks, rows and addresses are only ever added. What an acknowledgement promises is
`Accounted`: a credit, or a bet's debit under the number; `AppendRow` shows that a new row, of either
kind, keeps it for the others.

For the sweeps, `SweepProgress` speaks of a finished sweep; the invariant says what a running
one still will do: a bet that was due and could not have been moved is pending and ahead of the
sweep (`Hopes`, `Ahead`), on the rest of the page or at a place not before the offset of the next
one. That a page which is not the last is full (`PageFull`) follows from places being
taken without gaps (`RankOnto`), which rests on the least element of a set of numbers and
not on induction.

For the keys, `KeysInv` bounds the age of every copy, stored or in hand, and says that a copy
differs from what is published only by keys changed since it was sent (`Agree`). A copy stored by a
slow fetch is at most a timeout older than its time stamp, which is where the bound comes
from. For the routes, `OutcomeOK` says of each outcome of a call whose it is, route by route
(`Rightful`), and `AnswerOK` of each answer. `StatusTrue` comes from `LateErrors`: no message that `PlaceBet`
or `SettleBet` returns after its first write begins with a word by which `mapServiceError` tells a
validation. `PlaceBetErrors` and `SettleBetErrors` show it of the two lists of statements.

For the rates, `Timely` and `Aged` bound the time spent and the age in hand step by step, and
`EntryOK` the age of an entry by the time since it was stored. That alone lets a dollar rate
be restored again and again, each time a little older. `FoundLater` excludes it: a call that has
missed the cache finds there only what was quoted since, give or take one call to a
provider; and since one call may be about to restore what another will find, `StoredLater` says
the same of rates in hand.

**Only model-checked.** The liveness properties, that of `ImplementsQueue` included: every
invariant and every action property of a passing run has its theorem. Liveness
under fairness, `ENABLED`, and what a recursive definition computes for every input
are out of the prover's reach; the modules have no recursive definitions.

## 5. What is not modelled

* Listings: of a user's bets and transactions, of the feed; reading and display.
* Of the routes: what they show beyond whose it is; headers and pages.
* Of the rates: the numbers themselves and the time a provider's own quote is old.
* Of the limiter: fractions of seconds and of tokens in memory, and the growth of the map
  of limiters, which nothing prunes.
* Of the deposits: the computation of signatures (a webhook is signed or not).
* Of the odds feed: sports and leagues (written before the events that refer to them),
  scores (the adapter has none), several providers (each has its own rows), the text of
  odds (four decimals from the stream, the provider's digits from a snapshot), the limit
  of 100 games in a response.
* The odds feed's Redis cache and NATS messages: written best-effort and read by nothing in the
  repository.
* Generated protocol code, configuration, logging, metrics, mains, the web application: no
  state that a property is about.
* Overflow of `NUMERIC(28,8)`: twenty digits before the point are not reached.

## 6. Plan

In this order, with what is done marked.

1. (done) `WalletLedger`, `WalletStore`: money and withdrawals, refinement, locks.
2. (done) `WalletLedgerProofs`, `WalletStoreProofs`.
3. (done) `Sportsbook`: bets over the wallet and the feed, failures, findings.
4. (done) `OddsFeed`, `OddsFeedProofs`: syncs, pushed updates, failures.
5. (done) `RateLimiter`, `Deposits` and their proofs.
6. (done) `SettlementQueue`, `SettlementSweep`: the paging of a sweep, refinement, proofs.
7. (done) `KeySet`, `Gateway`, `Rates` and their proofs.
8. (done) `SportsbookProofs`; the rest of the wallet's properties in `WalletLedgerProofs` and
   `WalletStoreProofs`.
9. The withdrawal routes of the gateway in front of `WalletStore`, with clients that repeat them.
