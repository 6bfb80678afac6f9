-------------------------------- MODULE Rates --------------------------------
(***************************************************************************)
(* The exchange rates of the wallet service (internal/wallet/rates): the   *)
(* aggregator that every balance, transaction and rate query goes through, *)
(* its cache, the chain of providers of crypto rates and the chain of      *)
(* providers of forex rates.                                               *)
(*                                                                         *)
(* A rate is kept as the age of its quote, counted from the call to the    *)
(* provider, and whether it is a number at all.  Times are kept as the     *)
(* time passed since: a call to a provider takes up to the timeout of its  *)
(* HTTP client, everything else takes no time.                             *)
(***************************************************************************)
EXTENDS Integers, Sequences

CONSTANTS
    Procs,            \* requests in progress at the wallet service
    Cryptos,          \* currencies of the wallets
    Fiats,            \* supported fiat currencies other than the dollar
    CryptoProviders,  \* names of the providers of crypto rates, in order
    ForexProviders,   \* names of the providers of forex rates, in order
    Ttl,              \* how long a cached rate is fresh
    StaleLimit,       \* how long it is served when nothing else can be had
    Timeout           \* of a call to a provider

USD == "USD"

\* What the adapters make of an answer: an error, a price, or an empty price,
\* which Binance's alone refuses.
BinanceGetRate == {"fail", "price"}
CoinbaseGetRate == {"fail", "price", "blank"}
KrakenGetRate == {"fail", "price", "blank"}
KuCoinGetRate == {"fail", "price", "blank"}
OpenExchangeGetRate == {"fail", "price", "blank"}
CoinbaseForexGetRate == {"fail", "price", "blank"}
FawazAhmed0GetRate == {"fail", "price", "blank"}
MoneyConvertGetRate == {"fail", "price", "blank"}

GetRate ==
    [binance |-> BinanceGetRate, coinbase |-> CoinbaseGetRate, kraken |-> KrakenGetRate,
     kucoin |-> KuCoinGetRate, open_er_api |-> OpenExchangeGetRate,
     coinbase_forex |-> CoinbaseForexGetRate, fawazahmed0 |-> FawazAhmed0GetRate,
     moneyconvert |-> MoneyConvertGetRate]

ASSUME RatesAssumption ==
    /\ USD \notin Fiats
    /\ CryptoProviders \in Seq(DOMAIN GetRate) /\ Len(CryptoProviders) > 0
    /\ ForexProviders \in Seq(DOMAIN GetRate) /\ Len(ForexProviders) > 0
    /\ Ttl \in Nat /\ StaleLimit \in Nat /\ Timeout \in Nat

Keys == Cryptos \X (Fiats \cup {USD})

VARIABLES
    settings,  \* which currencies are stablecoins, and which have a rate in
               \* MANUAL_RATES or MANUAL_USD_RATES; fixed at startup
    cache,     \* Cache.values: the entry of each key
    calls      \* the GetRate call of each request

vars == <<settings, cache, calls>>

Settings == [stable : SUBSET Cryptos, manual : SUBSET Cryptos, manualUSD : SUBSET Fiats]

Values == {"price", "blank"}

\* age: of its (crypto) quote; stored: time since it was stored.
Entry == [present : BOOLEAN, value : Values, age : Nat, stored : Nat]

NoEntry == [present |-> FALSE, value |-> "blank", age |-> 0, stored |-> 0]

RateSteps == {"idle", "lookup", "direct", "usd", "usdDirect", "usdStore", "forex",
              "stale", "store", "done"}

\* n, waited: the provider being asked, and how long it has taken; spent: time
\* since the request; value, age: the rate in hand; reply: "rate", the constant
\* "1.00", or the error that is shown as "0".
RateCall ==
    [step : RateSteps, key : Keys \cup {<<>>}, n : Nat, waited : Nat, spent : Nat,
     value : Values, age : Nat, reply : {"none", "rate", "one", "zero"}]

NoRateCall ==
    [step |-> "idle", key |-> <<>>, n |-> 0, waited |-> 0, spent |-> 0,
     value |-> "blank", age |-> 0, reply |-> "none"]

TypeOK ==
    /\ settings \in Settings
    /\ cache \in [Keys -> Entry]
    /\ calls \in [Procs -> RateCall]
    /\ \A p \in Procs :
          /\ calls[p].step # "idle" => calls[p].key \in Keys
          /\ calls[p].step \in {"direct", "usdDirect"} => calls[p].n \in 1 .. Len(CryptoProviders)
          /\ calls[p].step = "forex" => calls[p].n \in 1 .. Len(ForexProviders)

Init ==
    /\ settings \in Settings
    /\ cache = [k \in Keys |-> NoEntry]
    /\ calls = [p \in Procs |-> NoRateCall]

-----------------------------------------------------------------------------
(* The cache. *)

\* Faulty variant: an entry is fresh for ever.
FreshAlways(k) == cache[k].present

\* Cache.Get finds an entry.
Fresh(k) == cache[k].present /\ cache[k].stored <= Ttl

\* Cache.StaleValue finds one.
Usable(k) == cache[k].present /\ cache[k].stored <= StaleLimit

\* Cache.Set
Set(k, value, age) ==
    cache' = [cache EXCEPT ![k] = [present |-> TRUE, value |-> value, age |-> age,
                                   stored |-> 0]]

-----------------------------------------------------------------------------
At(p, s) == calls[p].step = s

Crypto(p) == calls[p].key[1]
Fiat(p) == calls[p].key[2]
UsdKey(p) == <<Crypto(p), USD>>

\* The call goes on at step s.
Goto(p, s) ==
    calls' = [calls EXCEPT ![p] = [@ EXCEPT !.step = s, !.n = 0, !.waited = 0]]

\* It asks provider n of a chain.
Ask(p, s, n) == calls' = [calls EXCEPT ![p] = [@ EXCEPT !.step = s, !.n = n, !.waited = 0]]

\* It goes on with a rate in hand.
Take(p, s, value, age) ==
    calls' = [calls EXCEPT ![p] = [@ EXCEPT !.step = s, !.n = 0, !.waited = 0,
                                            !.value = value, !.age = age]]

\* ... by asking the first forex provider.
TakeToForex(p, value, age) ==
    calls' = [calls EXCEPT ![p] = [@ EXCEPT !.step = "forex", !.n = 1, !.waited = 0,
                                            !.value = value, !.age = age]]

\* It returns.
Answer(p, reply, value, age) ==
    calls' = [calls EXCEPT ![p] = [@ EXCEPT !.step = "done", !.n = 0, !.waited = 0,
                                            !.reply = reply, !.value = value, !.age = age]]

\* defaultFiat: an unknown currency becomes the dollar.
DefaultFiat(f) == IF f \in Fiats THEN f ELSE USD

\* GetRate is called for a balance, a transaction or a list of rates.  A
\* stablecoin is worth a dollar.
Request(p, c, f) ==
    LET fiat == DefaultFiat(f)
        fixed == fiat = USD /\ c \in settings.stable
    IN  /\ At(p, "idle")
        /\ calls' = [calls EXCEPT ![p] =
                       [NoRateCall EXCEPT !.step = IF fixed THEN "done" ELSE "lookup",
                                          !.reply = IF fixed THEN "one" ELSE "none",
                                          !.key = <<c, fiat>>]]
        /\ UNCHANGED <<settings, cache>>

\* cache.Get; on a miss the manual rate, which overrides the providers.
Lookup(p) ==
    LET k == calls[p].key IN
    /\ At(p, "lookup")
    /\ \/ Fresh(k) /\ Answer(p, "rate", cache[k].value, cache[k].age)
       \/ ~Fresh(k) /\ Crypto(p) \notin settings.manual /\ Ask(p, "direct", 1)
       \/ ~Fresh(k) /\ Crypto(p) \in settings.manual /\ Fiat(p) = USD /\ Take(p, "store", "price", 0)
       \/ ~Fresh(k) /\ Crypto(p) \in settings.manual /\ Fiat(p) # USD /\ TakeToForex(p, "price", 0)
    /\ UNCHANGED <<settings, cache>>

\* Faulty variants: a provider that failed is asked again; one is asked after the
\* last.
ProviderFailsAgain(p, s) ==
    Ask(p, calls[p].step, calls[p].n)

ProviderFailsBeyond(p, s) ==
    IF calls[p].n <= Len(CryptoProviders) THEN Ask(p, calls[p].step, calls[p].n + 1)
    ELSE Goto(p, s)

\* A provider failed: the next one is asked, after the last the call goes to s.
ProviderFails(p, s) ==
    IF calls[p].n < Len(CryptoProviders) THEN Ask(p, calls[p].step, calls[p].n + 1)
    ELSE Goto(p, s)

\* The providers in order, for the currency asked for.
Direct(p) ==
    /\ At(p, "direct")
    /\ \E r \in GetRate[CryptoProviders[calls[p].n]] :
          IF r = "fail" THEN ProviderFails(p, "usd")
          ELSE Take(p, "store", r, calls[p].waited)
    /\ UNCHANGED <<settings, cache>>

\* cryptoToUSD
ToUSD(p) ==
    LET k == UsdKey(p) IN
    /\ At(p, "usd")
    /\ \/ Crypto(p) \in settings.stable /\ TakeToForex(p, "price", 0)
       \/ /\ Crypto(p) \notin settings.stable
          /\ Fresh(k)
          /\ IF Fiat(p) = USD THEN Take(p, "store", cache[k].value, cache[k].age)
             ELSE TakeToForex(p, cache[k].value, cache[k].age)
       \/ Crypto(p) \notin settings.stable /\ ~Fresh(k) /\ Ask(p, "usdDirect", 1)
    /\ UNCHANGED <<settings, cache>>

UsdDirect(p) ==
    /\ At(p, "usdDirect")
    /\ \E r \in GetRate[CryptoProviders[calls[p].n]] :
          IF r = "fail" THEN ProviderFails(p, "stale")
          ELSE Take(p, "usdStore", r, calls[p].waited)
    /\ UNCHANGED <<settings, cache>>

UsdStore(p) ==
    /\ At(p, "usdStore")
    /\ Set(UsdKey(p), calls[p].value, calls[p].age)
    /\ UNCHANGED settings
    /\ IF Fiat(p) = USD THEN Goto(p, "store") ELSE Ask(p, "forex", 1)

\* convertUSDToFiat failed; the value of a manual rate has no stale copy to go to.
ConvertFails(p) ==
    IF Crypto(p) \in settings.manual THEN Answer(p, "zero", "blank", 0) ELSE Goto(p, "stale")

\* ForexChain.GetRate and MulDecimalStrings, which needs two numbers.
Convert(p) ==
    /\ At(p, "forex")
    /\ \/ /\ Fiat(p) \in settings.manualUSD
          /\ IF calls[p].value = "price" THEN Goto(p, "store") ELSE ConvertFails(p)
       \/ /\ Fiat(p) \notin settings.manualUSD
          /\ \E r \in GetRate[ForexProviders[calls[p].n]] :
                IF r # "fail"
                THEN IF r = "price" /\ calls[p].value = "price" THEN Goto(p, "store")
                     ELSE ConvertFails(p)
                ELSE IF calls[p].n < Len(ForexProviders) THEN Ask(p, "forex", calls[p].n + 1)
                     ELSE ConvertFails(p)
    /\ UNCHANGED <<settings, cache>>

\* The last resort: an entry that is no longer fresh.
Stale(p) ==
    LET k == calls[p].key IN
    /\ At(p, "stale")
    /\ IF Usable(k) THEN Answer(p, "rate", cache[k].value, cache[k].age)
       ELSE Answer(p, "zero", "blank", 0)
    /\ UNCHANGED <<settings, cache>>

Store(p) ==
    /\ At(p, "store")
    /\ Set(calls[p].key, calls[p].value, calls[p].age)
    /\ UNCHANGED settings
    /\ Answer(p, "rate", calls[p].value, calls[p].age)

Return(p) ==
    /\ At(p, "done")
    /\ calls' = [calls EXCEPT ![p] = NoRateCall]
    /\ UNCHANGED <<settings, cache>>

-----------------------------------------------------------------------------
Asking == {"direct", "usdDirect", "forex"}

KeepLimit == IF Ttl > StaleLimit THEN Ttl ELSE StaleLimit

\* An entry past both limits is never found again and counts as none.
Older(e) ==
    IF e.present /\ e.stored < KeepLimit
    THEN [e EXCEPT !.age = e.age + 1, !.stored = e.stored + 1]
    ELSE NoEntry

\* Time passes while every request waits for a provider, or there is none; the
\* HTTP client gives up after Timeout.
Tick ==
    /\ \A p \in Procs :
          \/ At(p, "idle")
          \/ calls[p].step \in Asking /\ calls[p].waited < Timeout
    /\ cache' = [k \in Keys |-> Older(cache[k])]
    /\ calls' = [p \in Procs |->
                   IF At(p, "idle") THEN calls[p]
                   ELSE [calls[p] EXCEPT !.waited = calls[p].waited + 1,
                                         !.spent = calls[p].spent + 1,
                                         !.age = IF At(p, "forex") THEN calls[p].age + 1
                                                 ELSE 0]]
    /\ UNCHANGED settings

CallStep(p) ==
    \/ Lookup(p) \/ Direct(p) \/ ToUSD(p) \/ UsdDirect(p) \/ UsdStore(p)
    \/ Convert(p) \/ Stale(p) \/ Store(p) \/ Return(p)

Next ==
    \/ \E p \in Procs : CallStep(p)
    \/ \E p \in Procs, c \in Cryptos, f \in Fiats \cup {USD} : Request(p, c, f)
    \/ Tick

Spec == Init /\ [][Next]_vars

-----------------------------------------------------------------------------
\* The time that n calls to providers may take.
Span(n) == n * Timeout

\* The age that a quote may have when it is stored: as a dollar rate, because a
\* request that missed the cache may store again what another one has stored
\* while its own providers failed; and in another currency, because a cached
\* dollar rate is converted and stored with a new time.
UsdAge == Span(Len(CryptoProviders)) + Timeout
StoredAge == Ttl + UsdAge + Span(Len(ForexProviders))

\* No rate is shown whose quote is older than this, whatever fails and however
\* requests overlap: one time to live, the calls to the providers, and the time
\* an entry is served after it was stored.
RateAge ==
    \A p \in Procs :
        At(p, "done") /\ calls[p].reply = "rate" =>
            calls[p].age <= StoredAge + KeepLimit

\* A request is answered after at most two rounds of the crypto providers and one
\* of the forex providers, each call within its timeout.
AnswerInTime ==
    \A p \in Procs :
        ~At(p, "idle") =>
            calls[p].spent <= 2 * Span(Len(CryptoProviders)) + Span(Len(ForexProviders))
===============================================================================
