----------------------------- MODULE RatesProofs -----------------------------
(***************************************************************************)
(* Proofs about the exchange rates for any number of requests, currencies  *)
(* and providers, any time to live, stale limit and timeout: no rate is    *)
(* shown that is older than RateAge says, and no request takes longer than *)
(* AnswerInTime says.                                                      *)
(***************************************************************************)
EXTENDS Rates, TLAPS

-----------------------------------------------------------------------------
(* Time. *)

\* The rounds of the providers, and the time before provider n is asked in one.
Round == Span(Len(CryptoProviders))
ForexRound == Span(Len(ForexProviders))
Before(n) == Span(n - 1)

\* The products, said once: from here on a span is only a number.
LEMMA SpanFacts ==
    ASSUME NEW m \in Nat, NEW n \in 1 .. m
    PROVE  /\ Before(n) \in Nat /\ Span(m) \in Nat
           /\ Before(1) = 0
           /\ Before(n + 1) = Before(n) + Timeout
           /\ Before(n) + Timeout <= Span(m)
<1>1. Timeout \in Nat
  BY RatesAssumption
<1>2. Before(n) \in Nat /\ Span(m) \in Nat
  BY <1>1, SMT DEF Before, Span
<1>3. Before(1) = 0 /\ Before(n + 1) = Before(n) + Timeout
  BY <1>1, SMT DEF Before, Span
<1>4. Before(n) + Timeout <= Span(m)
  <2>1. PICK d \in Nat : m = n + d
    <3>1. m - n \in Nat /\ m = n + (m - n)
      OBVIOUS
    <3> QED BY <3>1
  <2>2. d * Timeout \in Nat
    BY <1>1, SMT
  <2>3. m * Timeout = n * Timeout + d * Timeout
    BY <1>1, <2>1, SMT
  <2>4. (n - 1) * Timeout + Timeout = n * Timeout
    BY <1>1, SMT
  <2>5. n * Timeout \in Nat
    BY <1>1, SMT
  <2> QED BY <1>1, <2>2, <2>3, <2>4, <2>5 DEF Before, Span
<1> QED BY <1>2, <1>3, <1>4

\* The constants.
LEMMA Bounds ==
    /\ Timeout \in Nat /\ Ttl \in Nat /\ StaleLimit \in Nat /\ KeepLimit \in Nat
    /\ Ttl <= KeepLimit /\ StaleLimit <= KeepLimit
    /\ Round \in Nat /\ ForexRound \in Nat
    /\ UsdAge = Round + Timeout /\ StoredAge = Ttl + UsdAge + ForexRound
    /\ UsdAge \in Nat /\ StoredAge \in Nat
    /\ Before(1) = 0
    /\ 1 \in 1 .. Len(CryptoProviders) /\ 1 \in 1 .. Len(ForexProviders)
    /\ Len(CryptoProviders) \in Nat /\ Len(ForexProviders) \in Nat
<1>1. /\ Timeout \in Nat /\ Ttl \in Nat /\ StaleLimit \in Nat /\ KeepLimit \in Nat
      /\ Ttl <= KeepLimit /\ StaleLimit <= KeepLimit
  BY RatesAssumption DEF KeepLimit
<1>2. /\ Len(CryptoProviders) \in Nat /\ Len(ForexProviders) \in Nat
      /\ 1 \in 1 .. Len(CryptoProviders) /\ 1 \in 1 .. Len(ForexProviders)
  BY RatesAssumption
<1>3. Round \in Nat /\ ForexRound \in Nat /\ Before(1) = 0
  BY <1>2, SpanFacts DEF Round, ForexRound
<1>4. UsdAge = Round + Timeout /\ StoredAge = Ttl + UsdAge + ForexRound
  BY DEF UsdAge, StoredAge, Round, ForexRound
<1> QED BY <1>1, <1>2, <1>3, <1>4

\* The chain of crypto providers.
LEMMA CryptoSpan ==
    ASSUME NEW n \in 1 .. Len(CryptoProviders)
    PROVE  /\ Before(n) \in Nat /\ Before(n + 1) = Before(n) + Timeout
           /\ Before(n) + Timeout <= Round
  BY Bounds, SpanFacts DEF Round

\* The same of the forex providers.
LEMMA ForexSpan ==
    ASSUME NEW n \in 1 .. Len(ForexProviders)
    PROVE  /\ Before(n) \in Nat /\ Before(n + 1) = Before(n) + Timeout
           /\ Before(n) + Timeout <= ForexRound
  BY Bounds, SpanFacts DEF ForexRound

\* What is within a part of the bound is within the bound.
LEMMA Within ==
    ASSUME NEW x \in Nat
    PROVE  /\ x <= Round + Round => x <= Round + Round + ForexRound
           /\ x <= UsdAge => x <= StoredAge
           /\ x <= StoredAge => x <= StoredAge + KeepLimit
<1>1. Round \in Nat /\ ForexRound \in Nat /\ UsdAge \in Nat /\ Ttl \in Nat /\ KeepLimit \in Nat
        /\ StoredAge \in Nat /\ StoredAge = Ttl + UsdAge + ForexRound
  BY Bounds
<1> QED BY <1>1

\* A quote that is not older than a round of the crypto providers and a call.
LEMMA RoundAge ==
    ASSUME NEW x \in Nat, NEW y \in Nat, x <= y + Timeout, y <= Round
    PROVE  x <= UsdAge
<1>1. Round \in Nat /\ Timeout \in Nat /\ UsdAge = Round + Timeout
  BY Bounds
<1> QED BY <1>1

\* The end of a call to a forex provider, for the time spent and for the age of a quote.
LEMMA ForexEnd ==
    ASSUME NEW x \in Nat, NEW b \in Nat, NEW w \in Nat, w <= Timeout, b + Timeout <= ForexRound
    PROVE  /\ x <= Round + Round + b + w =>
                 x <= Round + Round + b + Timeout /\ x <= Round + Round + ForexRound
           /\ x <= Ttl + UsdAge + b + w =>
                 x <= Ttl + UsdAge + b + Timeout /\ x <= StoredAge
<1>1. Round \in Nat /\ ForexRound \in Nat /\ UsdAge \in Nat /\ Ttl \in Nat /\ Timeout \in Nat
        /\ StoredAge = Ttl + UsdAge + ForexRound
  BY Bounds
<1> QED BY <1>1

\* Time passes on both sides.
LEMMA Grow ==
    ASSUME NEW x \in Nat, NEW y \in Nat, NEW w \in Nat, x <= y + w
    PROVE  x + 1 <= y + (w + 1)
  OBVIOUS

-----------------------------------------------------------------------------
(* The inductive invariant. *)

Typed(c) ==
    /\ c \in RateCall
    /\ c.step # "idle" => c.key \in Keys
    /\ c.step \in {"direct", "usdDirect"} => c.n \in 1 .. Len(CryptoProviders)
    /\ c.step = "forex" => c.n \in 1 .. Len(ForexProviders)

\* A dollar rate of a stablecoin is never looked for, and a dollar rate never converted.
Routed(st, c) ==
    /\ c.step \in {"lookup", "direct", "usd"} /\ c.key[2] = USD => c.key[1] \notin st.stable
    /\ c.step = "forex" => c.key[2] # USD

\* How long a call may have taken by now.
Timely(c) ==
    /\ c.step = "lookup" => c.spent = 0
    /\ c.step \in Asking => c.waited <= Timeout
    /\ c.step = "direct" => c.spent <= Before(c.n) + c.waited
    /\ c.step = "usd" => c.spent <= Round
    /\ c.step = "usdDirect" => c.spent <= Round + Before(c.n) + c.waited
    /\ c.step = "usdStore" => c.spent <= Round + Round
    /\ c.step = "forex" => c.spent <= Round + Round + Before(c.n) + c.waited
    /\ c.step \in {"stale", "store", "done"} => c.spent <= Round + Round + ForexRound

\* How old the quote in hand may be.
Aged(c) ==
    /\ c.step = "usdStore" => c.age <= Timeout
    /\ c.step = "forex" => c.age <= Ttl + UsdAge + Before(c.n) + c.waited
    /\ c.step = "store" => c.age <= (IF c.key[2] = USD THEN UsdAge ELSE StoredAge)
    /\ c.step = "done" /\ c.reply = "rate" => c.age <= StoredAge + KeepLimit

\* How old the quote of the entry of key k may be.
EntryOK(k, e) ==
    e.present => e.age <= e.stored + (IF k[2] = USD THEN UsdAge ELSE StoredAge)

FreshEntry(e) == e.present /\ e.stored <= Ttl

\* The call missed the cache for dollar key k and may still come back to it.
Missed(c, k) == c.step \in {"direct", "usd"} /\ c.key = k /\ k[2] = USD

\* What a call finds that had missed it was quoted since: its quote is not older than
\* the call, and the time a provider took.
FoundLater(ca, c) ==
    \A k \in Keys : Missed(c, k) /\ FreshEntry(ca[k]) => ca[k].age <= c.spent + Timeout

\* The same of what call c is about to store again, for every call d that missed it; and
\* while c is about to, the entry is fresh, so that no other call misses it.
StoredLater(ca, c, d) ==
    c.step = "store" /\ c.key[2] = USD =>
        \/ c.age <= Timeout
        \/ FreshEntry(ca[c.key]) /\ (Missed(d, c.key) => c.age <= d.spent + Timeout)

Inv ==
    /\ settings \in Settings
    /\ cache \in [Keys -> Entry]
    /\ calls \in [Procs -> RateCall]
    /\ \A k \in Keys : EntryOK(k, cache[k])
    /\ \A p \in Procs : Typed(calls[p]) /\ Timely(calls[p]) /\ Aged(calls[p])
    /\ \A p \in Procs : Routed(settings, calls[p])
    /\ \A p \in Procs : FoundLater(cache, calls[p])
    /\ \A p, q \in Procs : StoredLater(cache, calls[p], calls[q])

-----------------------------------------------------------------------------
(* Steps of one call. *)

\* What is to be shown of a step of the call of p that leaves the cache alone.
LEMMA CallFrame ==
    ASSUME Inv, NEW p \in Procs, NEW c, calls' = [calls EXCEPT ![p] = c],
           UNCHANGED <<settings, cache>>,
           Typed(c), Timely(c), Aged(c), Routed(settings, c), FoundLater(cache, c),
           \A q \in Procs : StoredLater(cache, c, calls[q]) /\ StoredLater(cache, calls[q], c)
    PROVE  Inv'
<1>1. c \in RateCall
  BY DEF Typed
<1>2. calls' \in [Procs -> RateCall] /\ calls'[p] = c
          /\ \A q \in Procs : q # p => calls'[q] = calls[q]
  BY <1>1 DEF Inv
<1>3. \A q \in Procs : Typed(calls'[q]) /\ Timely(calls'[q]) /\ Aged(calls'[q])
                         /\ Routed(settings, calls'[q]) /\ FoundLater(cache, calls'[q])
  BY <1>2 DEF Inv
<1>4. StoredLater(cache, c, c)
  <2>1. \A k : c.step = "store" => ~Missed(c, k)
    BY DEF Missed
  <2> QED BY <2>1 DEF StoredLater
<1>5. \A q, r \in Procs : StoredLater(cache, calls'[q], calls'[r])
  BY <1>2, <1>4 DEF Inv
<1> QED BY <1>2, <1>3, <1>5 DEF Inv

\* Most steps are to none of the steps that the last two parts speak of.
LEMMA PlainStep ==
    ASSUME Inv, NEW p \in Procs, NEW c, calls' = [calls EXCEPT ![p] = c],
           UNCHANGED <<settings, cache>>,
           Typed(c), Timely(c), Aged(c), Routed(settings, c),
           c.step \notin {"direct", "usd", "store"}
    PROVE  Inv'
<1>1. \A k : ~Missed(c, k)
  BY DEF Missed
<1>2. FoundLater(cache, c)
  BY <1>1 DEF FoundLater
<1>3. \A q \in Procs : StoredLater(cache, c, calls[q]) /\ StoredLater(cache, calls[q], c)
  <2>1. \A q \in Procs : StoredLater(cache, calls[q], calls[p])
    BY DEF Inv
  <2> QED BY <1>1, <2>1 DEF StoredLater
<1> QED BY <1>2, <1>3, CallFrame

\* The call of p goes on as c.
Moved(p, c, s, n, a, r) ==
    /\ calls' = [calls EXCEPT ![p] = c]
    /\ c \in RateCall
    /\ c.step = s /\ c.key = calls[p].key /\ c.n = n /\ c.waited = 0
    /\ c.spent = calls[p].spent /\ c.age = a /\ c.reply = r

\* The call in hand, with its types.
LEMMA CallFacts ==
    ASSUME Inv, NEW p \in Procs
    PROVE  /\ calls[p] \in RateCall /\ Typed(calls[p]) /\ Timely(calls[p]) /\ Aged(calls[p])
           /\ calls[p].value \in Values /\ calls[p].age \in Nat /\ calls[p].spent \in Nat
           /\ calls[p].waited \in Nat /\ calls[p].n \in Nat
           /\ calls[p].reply \in {"none", "rate", "one", "zero"}
  BY DEF Inv, RateCall

\* The ways to go on: at another step.
LEMMA GotoMoves ==
    ASSUME Inv, NEW p \in Procs, NEW s \in RateSteps, Goto(p, s)
    PROVE  \E c : Moved(p, c, s, 0, calls[p].age, calls[p].reply)
<1>1. PICK c : c = [calls[p] EXCEPT !.step = s, !.n = 0, !.waited = 0]
  OBVIOUS
<1>2. c \in RateCall
  BY <1>1, CallFacts DEF RateCall
<1>3. calls' = [calls EXCEPT ![p] = c]
  BY <1>1 DEF Goto
<1>4. /\ c.step = s /\ c.key = calls[p].key /\ c.n = 0 /\ c.waited = 0
      /\ c.spent = calls[p].spent /\ c.age = calls[p].age /\ c.reply = calls[p].reply
  BY <1>1, CallFacts DEF RateCall
<1> QED BY <1>2, <1>3, <1>4 DEF Moved

\* A provider is asked.
LEMMA AskMoves ==
    ASSUME Inv, NEW p \in Procs, NEW s \in RateSteps, NEW n \in Nat, Ask(p, s, n)
    PROVE  \E c : Moved(p, c, s, n, calls[p].age, calls[p].reply)
<1>1. PICK c : c = [calls[p] EXCEPT !.step = s, !.n = n, !.waited = 0]
  OBVIOUS
<1>2. c \in RateCall
  BY <1>1, CallFacts DEF RateCall
<1>3. calls' = [calls EXCEPT ![p] = c]
  BY <1>1 DEF Ask
<1>4. /\ c.step = s /\ c.key = calls[p].key /\ c.n = n /\ c.waited = 0
      /\ c.spent = calls[p].spent /\ c.age = calls[p].age /\ c.reply = calls[p].reply
  BY <1>1, CallFacts DEF RateCall
<1> QED BY <1>2, <1>3, <1>4 DEF Moved

\* A rate is in hand.
LEMMA TakeMoves ==
    ASSUME Inv, NEW p \in Procs, NEW s \in RateSteps, NEW v \in Values, NEW a \in Nat,
           Take(p, s, v, a)
    PROVE  \E c : Moved(p, c, s, 0, a, calls[p].reply)
<1>1. PICK c : c = [calls[p] EXCEPT !.step = s, !.n = 0, !.waited = 0, !.value = v, !.age = a]
  OBVIOUS
<1>2. c \in RateCall
  BY <1>1, CallFacts DEF RateCall
<1>3. calls' = [calls EXCEPT ![p] = c]
  BY <1>1 DEF Take
<1>4. /\ c.step = s /\ c.key = calls[p].key /\ c.n = 0 /\ c.waited = 0
      /\ c.spent = calls[p].spent /\ c.age = a /\ c.reply = calls[p].reply
  BY <1>1, CallFacts DEF RateCall
<1> QED BY <1>2, <1>3, <1>4 DEF Moved

\* A rate is in hand and the first forex provider is asked.
LEMMA ForexMoves ==
    ASSUME Inv, NEW p \in Procs, NEW v \in Values, NEW a \in Nat, TakeToForex(p, v, a)
    PROVE  \E c : Moved(p, c, "forex", 1, a, calls[p].reply)
<1>1. PICK c : c = [calls[p] EXCEPT !.step = "forex", !.n = 1, !.waited = 0, !.value = v,
                                    !.age = a]
  OBVIOUS
<1>2. c \in RateCall
  BY <1>1, CallFacts DEF RateCall, RateSteps
<1>3. calls' = [calls EXCEPT ![p] = c]
  BY <1>1 DEF TakeToForex
<1>4. /\ c.step = "forex" /\ c.key = calls[p].key /\ c.n = 1 /\ c.waited = 0
      /\ c.spent = calls[p].spent /\ c.age = a /\ c.reply = calls[p].reply
  BY <1>1, CallFacts DEF RateCall
<1> QED BY <1>2, <1>3, <1>4 DEF Moved

\* The call is answered.
LEMMA AnswerMoves ==
    ASSUME Inv, NEW p \in Procs, NEW v \in Values, NEW a \in Nat,
           NEW r \in {"none", "rate", "one", "zero"}, Answer(p, r, v, a)
    PROVE  \E c : Moved(p, c, "done", 0, a, r)
<1>1. PICK c : c = [calls[p] EXCEPT !.step = "done", !.n = 0, !.waited = 0, !.reply = r,
                                    !.value = v, !.age = a]
  OBVIOUS
<1>2. c \in RateCall
  BY <1>1, CallFacts DEF RateCall, RateSteps
<1>3. calls' = [calls EXCEPT ![p] = c]
  BY <1>1 DEF Answer
<1>4. /\ c.step = "done" /\ c.key = calls[p].key /\ c.n = 0 /\ c.waited = 0
      /\ c.spent = calls[p].spent /\ c.age = a /\ c.reply = r
  BY <1>1, CallFacts DEF RateCall
<1> QED BY <1>2, <1>3, <1>4 DEF Moved

\* A rate in hand that was quoted while this call asked for it.
LEMMA NewRateStep ==
    ASSUME Inv, NEW p \in Procs, UNCHANGED <<settings, cache>>, calls[p].step # "idle",
           NEW a \in Nat, a <= Timeout, calls[p].spent <= Round + Round + ForexRound,
           NEW r, NEW c, Moved(p, c, "store", 0, a, r)
    PROVE  Inv'
<1>2. Typed(c) /\ c.step = "store" /\ c.spent = calls[p].spent /\ c.age = a
  BY CallFacts DEF Typed, Moved
<1>3. Timely(c) /\ Routed(settings, c)
  BY <1>2 DEF Timely, Asking, Routed
<1>4. Aged(c)
  BY <1>2, Bounds DEF Aged
<1>5. FoundLater(cache, c)
  BY <1>2 DEF FoundLater, Missed
<1>6. \A q \in Procs : StoredLater(cache, c, calls[q])
  BY <1>2 DEF StoredLater
<1>7. \A q \in Procs : StoredLater(cache, calls[q], c)
  <2>1. \A k : ~Missed(c, k)
    BY <1>2 DEF Missed
  <2>2. \A q \in Procs : StoredLater(cache, calls[q], calls[p])
    BY DEF Inv
  <2> QED BY <2>1, <2>2 DEF StoredLater
<1> QED BY <1>2, <1>3, <1>4, <1>5, <1>6, <1>7, CallFrame DEF Moved

\* A call that has missed the cache goes on, its key and its time unchanged.
LEMMA StillMissedStep ==
    ASSUME Inv, NEW p \in Procs, UNCHANGED <<settings, cache>>, calls[p].step = "direct",
           NEW s \in {"direct", "usd"}, NEW n, NEW a, NEW r, NEW c, Moved(p, c, s, n, a, r),
           s = "direct" => n \in 1 .. Len(CryptoProviders), Timely(c)
    PROVE  Inv'
<1>0. Typed(c) /\ c.step = s /\ c.key = calls[p].key /\ c.spent = calls[p].spent
  BY CallFacts DEF Typed, Moved
<1>1. \A k : Missed(c, k) <=> Missed(calls[p], k)
  BY <1>0 DEF Missed
<1>2. Aged(c) /\ Routed(settings, c)
  BY <1>0 DEF Aged, Routed, Inv
<1>3. FoundLater(cache, c)
  BY <1>0, <1>1 DEF FoundLater, Inv
<1>4. \A q \in Procs : StoredLater(cache, c, calls[q])
  BY <1>0 DEF StoredLater
<1>5. \A q \in Procs : StoredLater(cache, calls[q], c)
  <2>1. \A q \in Procs : StoredLater(cache, calls[q], calls[p])
    BY DEF Inv
  <2> QED BY <1>0, <1>1, <2>1 DEF StoredLater
<1> QED BY <1>0, <1>2, <1>3, <1>4, <1>5, CallFrame DEF Moved

\* A step of the call of p that stores a quote of age a under key k.
LEMMA SetFrame ==
    ASSUME Inv, NEW p \in Procs, NEW k \in Keys, NEW v \in Values, NEW a \in Nat, Set(k, v, a),
           settings' = settings, NEW c, calls' = [calls EXCEPT ![p] = c],
           Typed(c), Timely(c), Aged(c), Routed(settings, c),
           a <= (IF k[2] = USD THEN UsdAge ELSE StoredAge),
           \A q \in Procs : q # p /\ Missed(calls[q], k) => a <= calls[q].spent + Timeout,
           c.step \notin {"direct", "usd"},
           c.step = "store" => c.key[2] # USD \/ c.age <= Timeout
    PROVE  Inv'
<1>1. PICK e : e = [present |-> TRUE, value |-> v, age |-> a, stored |-> 0]
  OBVIOUS
<1>2. e \in Entry /\ e.present = TRUE /\ e.age = a /\ e.stored = 0
  BY <1>1 DEF Entry
<1>3. cache' \in [Keys -> Entry] /\ cache'[k] = e /\ \A j \in Keys : j # k => cache'[j] = cache[j]
  BY <1>1, <1>2 DEF Set, Inv
<1>4. FreshEntry(e)
  BY <1>2, Bounds DEF FreshEntry
<1>5. \A j \in Keys : EntryOK(j, cache'[j])
  <2>1. EntryOK(k, e)
    BY <1>2, Bounds DEF EntryOK
  <2> QED BY <1>3, <2>1 DEF Inv
<1>6. calls' \in [Procs -> RateCall] /\ calls'[p] = c
          /\ \A q \in Procs : q # p => calls'[q] = calls[q]
  BY DEF Inv, Typed
<1>7. \A q \in Procs : Typed(calls'[q]) /\ Timely(calls'[q]) /\ Aged(calls'[q])
                         /\ Routed(settings, calls'[q])
  BY <1>6 DEF Inv
<1>8. \A j : ~Missed(c, j)
  BY DEF Missed
<1>9. ASSUME NEW q \in Procs PROVE FoundLater(cache', calls'[q])
  <2>1. CASE q = p
    BY <2>1, <1>6, <1>8 DEF FoundLater
  <2>2. CASE q # p
    <3> SUFFICES ASSUME NEW j \in Keys, Missed(calls[q], j), FreshEntry(cache'[j])
                 PROVE  cache'[j].age <= calls[q].spent + Timeout
      BY <2>2, <1>6 DEF FoundLater
    <3>1. CASE j = k
      BY <3>1, <2>2, <1>2, <1>3
    <3>2. CASE j # k
      BY <3>2, <1>3 DEF Inv, FoundLater
    <3> QED BY <3>1, <3>2
  <2> QED BY <2>1, <2>2
<1>10. ASSUME NEW q \in Procs, NEW r \in Procs PROVE StoredLater(cache', calls'[q], calls'[r])
  <2>1. CASE q = p
    BY <2>1, <1>6 DEF StoredLater
  <2>2. CASE q # p
    <3> SUFFICES ASSUME calls[q].step = "store", calls[q].key[2] = USD, ~(calls[q].age <= Timeout)
                 PROVE  /\ FreshEntry(cache'[calls[q].key])
                        /\ Missed(calls'[r], calls[q].key) => calls[q].age <= calls'[r].spent + Timeout
      BY <2>2, <1>6 DEF StoredLater
    <3>1. /\ FreshEntry(cache[calls[q].key])
          /\ Missed(calls[r], calls[q].key) => calls[q].age <= calls[r].spent + Timeout
      BY DEF Inv, StoredLater
    <3>2. calls[q].key \in Keys
      BY DEF Inv, Typed
    <3>3. FreshEntry(cache'[calls[q].key])
      BY <3>1, <3>2, <1>3, <1>4
    <3> QED BY <3>1, <3>3, <1>6, <1>8
  <2> QED BY <2>1, <2>2
<1> QED BY <1>3, <1>5, <1>6, <1>7, <1>9, <1>10 DEF Inv

-----------------------------------------------------------------------------
(* The actions. *)

\* What providers answer.
LEMMA QuoteTypes ==
    ASSUME NEW x \in DOMAIN GetRate, NEW r \in GetRate[x], r # "fail"
    PROVE  r \in Values
  BY DEF GetRate, Values, BinanceGetRate, CoinbaseGetRate, KrakenGetRate, KuCoinGetRate,
         OpenExchangeGetRate, CoinbaseForexGetRate, FawazAhmed0GetRate, MoneyConvertGetRate

\* A provider of the crypto chain that does not fail gives a rate.
LEMMA CryptoQuote ==
    ASSUME NEW n \in 1 .. Len(CryptoProviders), NEW r \in GetRate[CryptoProviders[n]], r # "fail"
    PROVE  r \in Values
<1>1. CryptoProviders[n] \in DOMAIN GetRate
  BY RatesAssumption
<1> QED BY <1>1, QuoteTypes

\* Entries of the cache.
LEMMA EntryFacts ==
    ASSUME Inv, NEW k \in Keys, cache[k].present
    PROVE  /\ cache[k].value \in Values /\ cache[k].age \in Nat /\ cache[k].stored \in Nat
           /\ cache[k].age <= cache[k].stored + StoredAge
           /\ k[2] = USD => cache[k].age <= cache[k].stored + UsdAge
<1>1. cache[k] \in Entry /\ EntryOK(k, cache[k])
  BY DEF Inv
<1>2. cache[k].value \in Values /\ cache[k].age \in Nat /\ cache[k].stored \in Nat
  BY <1>1 DEF Entry
<1>3. cache[k].age <= cache[k].stored + (IF k[2] = USD THEN UsdAge ELSE StoredAge)
  BY <1>1 DEF EntryOK
<1> QED BY <1>2, <1>3, Bounds

\* A call goes on to ask the first forex provider.
LEMMA ToForexStep ==
    ASSUME Inv, NEW p \in Procs, UNCHANGED <<settings, cache>>, calls[p].step # "idle",
           calls[p].key[2] # USD, calls[p].spent <= Round + Round,
           NEW a \in Nat, a <= Ttl + UsdAge, NEW r, NEW c, Moved(p, c, "forex", 1, a, r)
    PROVE  Inv'
<1>1. /\ c.step = "forex" /\ c.n = 1 /\ c.waited = 0 /\ c.age = a /\ c.spent = calls[p].spent
      /\ c.key = calls[p].key /\ c \in RateCall
  BY DEF Moved
<1>2. Typed(c)
  BY <1>1, CallFacts, Bounds DEF Typed
<1>3. Timely(c) /\ Aged(c) /\ Routed(settings, c)
  BY <1>1, CallFacts, Bounds DEF Timely, Aged, Routed, Asking
<1> QED BY <1>1, <1>2, <1>3, PlainStep DEF Moved

\* A call is answered.
LEMMA DoneStep ==
    ASSUME Inv, NEW p \in Procs, UNCHANGED <<settings, cache>>, calls[p].step # "idle",
           calls[p].spent <= Round + Round + ForexRound,
           NEW a \in Nat, NEW r, r = "rate" => a <= StoredAge + KeepLimit,
           NEW c, Moved(p, c, "done", 0, a, r)
    PROVE  Inv'
<1>1. /\ c.step = "done" /\ c.age = a /\ c.spent = calls[p].spent /\ c.reply = r
      /\ c.key = calls[p].key /\ c \in RateCall
  BY DEF Moved
<1>2. Typed(c)
  BY <1>1, CallFacts DEF Typed
<1>3. Timely(c) /\ Aged(c) /\ Routed(settings, c)
  BY <1>1 DEF Timely, Aged, Routed, Asking
<1> QED BY <1>1, <1>2, <1>3, PlainStep DEF Moved

\* A call goes on without a rate, after its providers have failed.
LEMMA StaleStep ==
    ASSUME Inv, NEW p \in Procs, UNCHANGED <<settings, cache>>, calls[p].step # "idle",
           calls[p].spent <= Round + Round + ForexRound, Goto(p, "stale")
    PROVE  Inv'
<1>0. PICK c : Moved(p, c, "stale", 0, calls[p].age, calls[p].reply)
  BY GotoMoves DEF RateSteps
<1>1. c.step = "stale" /\ c.spent = calls[p].spent /\ c.key = calls[p].key /\ c \in RateCall
  BY <1>0 DEF Moved
<1>2. Typed(c)
  BY <1>1, CallFacts DEF Typed
<1>3. Timely(c) /\ Aged(c) /\ Routed(settings, c)
  BY <1>1 DEF Timely, Aged, Routed, Asking
<1> QED BY <1>0, <1>1, <1>2, <1>3, PlainStep DEF Moved

\* A new call knows nothing.
LEMMA RequestInv ==
    ASSUME Inv, NEW p \in Procs, NEW x \in Cryptos, NEW f \in Fiats \cup {USD}, Request(p, x, f)
    PROVE  Inv'
<1>1. PICK fiat : fiat = DefaultFiat(f)
  OBVIOUS
<1>2. PICK fixed : fixed = (fiat = USD /\ x \in settings.stable)
  OBVIOUS
<1>3. PICK c : c = [NoRateCall EXCEPT !.step = IF fixed THEN "done" ELSE "lookup",
                                      !.reply = IF fixed THEN "one" ELSE "none",
                                      !.key = <<x, fiat>>]
  OBVIOUS
<1>4. <<x, fiat>> \in Keys
  BY <1>1 DEF DefaultFiat, Keys
<1>5. c \in RateCall /\ c.key = <<x, fiat>> /\ c.spent = 0
        /\ c.step \in {"done", "lookup"} /\ c.reply # "rate" /\ (c.step = "lookup" => ~fixed)
  BY <1>3, <1>4 DEF NoRateCall, RateCall, RateSteps, Values
<1>6. Typed(c)
  BY <1>4, <1>5 DEF Typed
<1>7. Timely(c) /\ Aged(c) /\ Routed(settings, c)
  <2>1. Timely(c)
    BY <1>5, Bounds DEF Timely, Asking
  <2>2. Aged(c)
    BY <1>5 DEF Aged
  <2>3. c.key[1] = x /\ c.key[2] = fiat
    BY <1>5
  <2>4. Routed(settings, c)
    BY <1>2, <1>5, <2>3 DEF Routed
  <2> QED BY <2>1, <2>2, <2>4
<1>8. calls' = [calls EXCEPT ![p] = c]
  BY <1>1, <1>2, <1>3 DEF Request
<1> QED BY <1>5, <1>6, <1>7, <1>8, PlainStep DEF Request

\* cache.Get: a hit is fresh, and a call that begins to ask has missed.
LEMMA LookupInv ==
    ASSUME Inv, NEW p \in Procs, Lookup(p)
    PROVE  Inv'
<1> DEFINE k == calls[p].key
<1>0. calls[p].step = "lookup" /\ k \in Keys /\ calls[p].spent = 0
  BY CallFacts DEF Lookup, At, Typed, Timely
<1>1. UNCHANGED <<settings, cache>> /\ calls[p].spent <= Round + Round
        /\ calls[p].spent <= Round + Round + ForexRound
  BY <1>0, Bounds DEF Lookup
<1>2. CASE Fresh(k) /\ Answer(p, "rate", cache[k].value, cache[k].age)
  <2>1. cache[k].present /\ cache[k].stored <= Ttl
    BY <1>2 DEF Fresh
  <2>2. /\ cache[k].value \in Values /\ cache[k].age \in Nat
        /\ cache[k].age <= StoredAge + KeepLimit
    <3> HIDE DEF k
    <3>1. /\ cache[k].value \in Values /\ cache[k].age \in Nat /\ cache[k].stored \in Nat
          /\ cache[k].age <= cache[k].stored + StoredAge
      BY <1>0, <2>1, EntryFacts
    <3> QED BY <2>1, <3>1, Bounds
  <2>3. PICK c : Moved(p, c, "done", 0, cache[k].age, "rate")
    BY <1>2, <2>2, AnswerMoves
  <2> QED BY <1>0, <1>1, <2>2, <2>3, DoneStep
<1>3. CASE ~Fresh(k) /\ Ask(p, "direct", 1)
  <2>1. PICK c : Moved(p, c, "direct", 1, calls[p].age, calls[p].reply)
    BY <1>3, AskMoves DEF RateSteps
  <2>2. /\ c.step = "direct" /\ c.n = 1 /\ c.waited = 0 /\ c.spent = 0 /\ c.key = k
        /\ c \in RateCall
    BY <1>0, <2>1 DEF Moved
  <2>3. Typed(c) /\ Timely(c) /\ Aged(c)
    BY <1>0, <2>2, Bounds DEF Typed, Timely, Aged, Asking
  <2>4. Routed(settings, c)
    BY <1>0, <2>2 DEF Inv, Routed
  <2>5. \A j \in Keys : Missed(c, j) => ~FreshEntry(cache[j])
    BY <1>3, <2>2 DEF Missed, FreshEntry, Fresh
  <2>6. FoundLater(cache, c)
    BY <2>5 DEF FoundLater
  <2>7. \A q \in Procs : StoredLater(cache, c, calls[q])
    BY <2>2 DEF StoredLater
  <2>8. ASSUME NEW q \in Procs PROVE StoredLater(cache, calls[q], c)
    <3>1. StoredLater(cache, calls[q], calls[p])
      BY DEF Inv
    <3>2. calls[q].step = "store" => calls[q].key \in Keys
      BY DEF Inv, Typed
    <3> QED BY <2>5, <3>1, <3>2 DEF StoredLater
  <2> QED BY <1>1, <2>1, <2>3, <2>4, <2>6, <2>7, <2>8, CallFrame DEF Moved
<1>4. CASE Take(p, "store", "price", 0)
  <2>1. PICK c : Moved(p, c, "store", 0, 0, calls[p].reply)
    BY <1>4, TakeMoves DEF RateSteps, Values
  <2> QED BY <1>0, <1>1, <2>1, NewRateStep, Bounds
<1>5. CASE Fiat(p) # USD /\ TakeToForex(p, "price", 0)
  <2>1. PICK c : Moved(p, c, "forex", 1, 0, calls[p].reply)
    BY <1>5, ForexMoves DEF Values
  <2>2. calls[p].key[2] # USD
    BY <1>5 DEF Fiat
  <2> QED BY <1>0, <1>1, <2>1, <2>2, ToForexStep, Bounds
<1> QED BY <1>2, <1>3, <1>4, <1>5 DEF Lookup

\* The crypto providers in order, for the currency asked for.
LEMMA DirectInv ==
    ASSUME Inv, NEW p \in Procs, Direct(p)
    PROVE  Inv'
<1> DEFINE n == calls[p].n
<1>0. /\ calls[p].step = "direct" /\ n \in 1 .. Len(CryptoProviders)
      /\ calls[p].waited \in Nat /\ calls[p].waited <= Timeout
      /\ calls[p].spent \in Nat /\ calls[p].spent <= Before(n) + calls[p].waited
  BY CallFacts DEF Direct, At, Typed, Timely, Asking
<1>1. UNCHANGED <<settings, cache>>
  BY DEF Direct
<1>2. /\ Before(n) \in Nat /\ Before(n + 1) = Before(n) + Timeout
      /\ Before(n) + Timeout <= Round
  <2> HIDE DEF n
  <2> QED BY <1>0, CryptoSpan
<1>3. calls[p].spent <= Before(n) + Timeout /\ calls[p].spent <= Round
  BY <1>0, <1>2, Bounds
<1>4. CASE n < Len(CryptoProviders) /\ Ask(p, "direct", n + 1)
  <2>1. n + 1 \in Nat /\ n + 1 \in 1 .. Len(CryptoProviders)
    <3> HIDE DEF n
    <3> QED BY <1>0, <1>4, Bounds
  <2>2. PICK c : Moved(p, c, "direct", n + 1, calls[p].age, calls[p].reply)
    BY <1>4, <2>1, AskMoves DEF RateSteps
  <2>3. c.step = "direct" /\ c.n = n + 1 /\ c.waited = 0 /\ c.spent = calls[p].spent
    BY <2>2 DEF Moved
  <2>4. Timely(c)
    <3>1. Before(c.n) = Before(n) + Timeout
      BY <2>3, <1>2
    <3>2. c.spent <= Before(c.n) + c.waited /\ c.waited <= Timeout
      <4> HIDE DEF n
      <4> QED BY <2>3, <3>1, <1>0, <1>2, <1>3, Bounds
    <3> QED BY <2>3, <3>2 DEF Timely, Asking
  <2> QED BY <1>0, <1>1, <2>1, <2>2, <2>4, StillMissedStep
<1>5. CASE Goto(p, "usd")
  <2>2. PICK c : Moved(p, c, "usd", 0, calls[p].age, calls[p].reply)
    BY <1>5, GotoMoves DEF RateSteps
  <2>3. c.step = "usd" /\ c.spent = calls[p].spent
    BY <2>2 DEF Moved
  <2>4. Timely(c)
    BY <2>3, <1>3 DEF Timely, Asking
  <2> QED BY <1>0, <1>1, <2>2, <2>4, StillMissedStep
<1>6. CASE \E r \in GetRate[CryptoProviders[n]] : r # "fail" /\ Take(p, "store", r, calls[p].waited)
  <2>1. PICK r \in GetRate[CryptoProviders[n]] : r # "fail" /\ Take(p, "store", r, calls[p].waited)
    BY <1>6
  <2>2. r \in Values
    <3> HIDE DEF n
    <3> QED BY <1>0, <2>1, CryptoQuote
  <2>3. PICK c : Moved(p, c, "store", 0, calls[p].waited, calls[p].reply)
    BY <1>0, <2>1, <2>2, TakeMoves DEF RateSteps
  <2>4. calls[p].spent <= Round + Round + ForexRound
    BY <1>0, <1>3, Bounds
  <2> QED BY <1>0, <1>1, <2>3, <2>4, NewRateStep
<1> QED BY <1>0, <1>4, <1>5, <1>6 DEF Direct, ProviderFails

\* cryptoToUSD: a cached dollar rate that the call had missed is young enough to be
\* stored again.
LEMMA ToUSDInv ==
    ASSUME Inv, NEW p \in Procs, ToUSD(p)
    PROVE  Inv'
<1> DEFINE k == UsdKey(p)
<1>0. /\ calls[p].step = "usd" /\ calls[p].key \in Keys /\ Routed(settings, calls[p])
      /\ calls[p].spent \in Nat /\ calls[p].spent <= Round
  BY CallFacts DEF ToUSD, At, Typed, Timely, Inv
<1>1. UNCHANGED <<settings, cache>>
  BY DEF ToUSD
<1>2. calls[p].spent <= Round + Round /\ calls[p].spent <= Round + Round + ForexRound
  BY <1>0, Bounds
<1>3. k \in Keys /\ k[2] = USD /\ (Fiat(p) = USD => k = calls[p].key)
  BY <1>0 DEF UsdKey, Crypto, Fiat, Keys
<1>4. CASE Crypto(p) \in settings.stable /\ TakeToForex(p, "price", 0)
  <2>1. PICK c : Moved(p, c, "forex", 1, 0, calls[p].reply)
    BY <1>4, ForexMoves DEF Values
  <2>2. calls[p].key[2] # USD
    BY <1>0, <1>4 DEF Routed, Crypto
  <2> QED BY <1>0, <1>1, <1>2, <2>1, <2>2, ToForexStep, Bounds
<1>5. CASE Ask(p, "usdDirect", 1)
  <2>1. PICK c : Moved(p, c, "usdDirect", 1, calls[p].age, calls[p].reply)
    BY <1>5, AskMoves DEF RateSteps
  <2>2. /\ c.step = "usdDirect" /\ c.n = 1 /\ c.waited = 0 /\ c.spent = calls[p].spent
        /\ c.key = calls[p].key /\ c \in RateCall
    BY <2>1 DEF Moved
  <2>3. Typed(c) /\ Timely(c) /\ Aged(c) /\ Routed(settings, c)
    BY <1>0, <2>2, Bounds DEF Typed, Timely, Aged, Routed, Asking
  <2> QED BY <1>1, <2>1, <2>2, <2>3, PlainStep DEF Moved
<1>6. ASSUME Fresh(k)
      PROVE  /\ cache[k].value \in Values /\ cache[k].age \in Nat
             /\ cache[k].age <= Ttl + UsdAge /\ FreshEntry(cache[k])
  <2> HIDE DEF k
  <2>1. cache[k].present /\ cache[k].stored <= Ttl
    BY <1>6 DEF Fresh
  <2>2. /\ cache[k].value \in Values /\ cache[k].age \in Nat /\ cache[k].stored \in Nat
        /\ cache[k].age <= cache[k].stored + UsdAge
    BY <1>3, <2>1, EntryFacts
  <2> QED BY <2>1, <2>2, Bounds DEF FreshEntry
<1>7. CASE Fresh(k) /\ Fiat(p) # USD /\ TakeToForex(p, cache[k].value, cache[k].age)
  <2>1. PICK c : Moved(p, c, "forex", 1, cache[k].age, calls[p].reply)
    BY <1>6, <1>7, ForexMoves
  <2>2. calls[p].key[2] # USD
    BY <1>7 DEF Fiat
  <2> QED BY <1>0, <1>1, <1>2, <1>6, <1>7, <2>1, <2>2, ToForexStep
<1>8. CASE Fresh(k) /\ Fiat(p) = USD /\ Take(p, "store", cache[k].value, cache[k].age)
  <2>1. PICK c : Moved(p, c, "store", 0, cache[k].age, calls[p].reply)
    BY <1>6, <1>8, TakeMoves DEF RateSteps
  <2>2. /\ c.step = "store" /\ c.age = cache[k].age /\ c.spent = calls[p].spent
        /\ c.key = k /\ c \in RateCall
    BY <1>3, <1>8, <2>1 DEF Moved
  <2> HIDE DEF k
  <2>3. Missed(calls[p], k)
    BY <1>0, <1>3, <1>8 DEF Missed
  <2>4. cache[k].age <= calls[p].spent + Timeout
    BY <1>3, <1>6, <1>8, <2>3 DEF Inv, FoundLater
  <2>5. c.age <= UsdAge
    <3>1. c.age \in Nat /\ c.age <= calls[p].spent + Timeout
      BY <1>6, <1>8, <2>2, <2>4
    <3> QED BY <3>1, <1>0, RoundAge
  <2>6. Typed(c) /\ Timely(c) /\ Aged(c) /\ Routed(settings, c)
    BY <1>2, <1>3, <2>2, <2>5 DEF Typed, Timely, Aged, Routed, Asking
  <2>7. \A j : ~Missed(c, j)
    BY <2>2 DEF Missed
  <2>8. FoundLater(cache, c)
    BY <2>7 DEF FoundLater
  <2>9. ASSUME NEW q \in Procs PROVE StoredLater(cache, c, calls[q])
    <3>1. Missed(calls[q], k) => cache[k].age <= calls[q].spent + Timeout
      BY <1>3, <1>6, <1>8 DEF Inv, FoundLater
    <3> QED BY <1>6, <1>8, <2>2, <3>1 DEF StoredLater
  <2>10. ASSUME NEW q \in Procs PROVE StoredLater(cache, calls[q], c)
    <3>1. StoredLater(cache, calls[q], calls[p])
      BY DEF Inv
    <3> QED BY <2>7, <3>1 DEF StoredLater
  <2> QED BY <1>1, <2>1, <2>6, <2>8, <2>9, <2>10, CallFrame DEF Moved
<1> QED BY <1>4, <1>5, <1>7, <1>8 DEF ToUSD

\* The crypto providers in order, for the dollar.
LEMMA UsdDirectInv ==
    ASSUME Inv, NEW p \in Procs, UsdDirect(p)
    PROVE  Inv'
<1> DEFINE n == calls[p].n
<1>0. /\ calls[p].step = "usdDirect" /\ n \in 1 .. Len(CryptoProviders)
      /\ calls[p].waited \in Nat /\ calls[p].waited <= Timeout /\ calls[p].key \in Keys
      /\ calls[p].spent \in Nat /\ calls[p].spent <= Round + Before(n) + calls[p].waited
  BY CallFacts DEF UsdDirect, At, Typed, Timely, Asking
<1>1. UNCHANGED <<settings, cache>>
  BY DEF UsdDirect
<1>2. /\ Before(n) \in Nat /\ Before(n + 1) = Before(n) + Timeout
      /\ Before(n) + Timeout <= Round
  <2> HIDE DEF n
  <2> QED BY <1>0, CryptoSpan
<1>3. /\ calls[p].spent <= Round + Before(n) + Timeout /\ calls[p].spent <= Round + Round
      /\ calls[p].spent <= Round + Round + ForexRound
  BY <1>0, <1>2, Bounds
<1>4. CASE n < Len(CryptoProviders) /\ Ask(p, "usdDirect", n + 1)
  <2>1. n + 1 \in Nat /\ n + 1 \in 1 .. Len(CryptoProviders)
    <3> HIDE DEF n
    <3> QED BY <1>0, <1>4, Bounds
  <2>2. PICK c : Moved(p, c, "usdDirect", n + 1, calls[p].age, calls[p].reply)
    BY <1>4, <2>1, AskMoves DEF RateSteps
  <2>3. /\ c.step = "usdDirect" /\ c.n = n + 1 /\ c.waited = 0 /\ c.spent = calls[p].spent
        /\ c.key = calls[p].key /\ c \in RateCall
    BY <2>2 DEF Moved
  <2>4. Timely(c)
    <3>1. Before(c.n) = Before(n) + Timeout
      BY <2>3, <1>2
    <3>2. c.spent <= Round + Before(c.n) + c.waited /\ c.waited <= Timeout
      <4> HIDE DEF n
      <4> QED BY <2>3, <3>1, <1>0, <1>2, <1>3, Bounds
    <3> QED BY <2>3, <3>2 DEF Timely, Asking
  <2>5. Typed(c)
    <3> HIDE DEF n
    <3> QED BY <2>1, <2>3, <1>0 DEF Typed
  <2>6. Aged(c) /\ Routed(settings, c)
    BY <2>3 DEF Aged, Routed
  <2> QED BY <1>1, <2>2, <2>3, <2>4, <2>5, <2>6, PlainStep DEF Moved
<1>5. CASE Goto(p, "stale")
  BY <1>0, <1>1, <1>3, <1>5, StaleStep
<1>6. CASE \E r \in GetRate[CryptoProviders[n]] : r # "fail" /\ Take(p, "usdStore", r, calls[p].waited)
  <2>1. PICK r \in GetRate[CryptoProviders[n]] : r # "fail" /\ Take(p, "usdStore", r, calls[p].waited)
    BY <1>6
  <2>2. r \in Values
    <3> HIDE DEF n
    <3> QED BY <1>0, <2>1, CryptoQuote
  <2>3. PICK c : Moved(p, c, "usdStore", 0, calls[p].waited, calls[p].reply)
    BY <1>0, <2>1, <2>2, TakeMoves DEF RateSteps
  <2>4. /\ c.step = "usdStore" /\ c.age = calls[p].waited /\ c.spent = calls[p].spent
        /\ c.key = calls[p].key /\ c \in RateCall
    BY <2>3 DEF Moved
  <2>5. Typed(c) /\ Timely(c) /\ Aged(c) /\ Routed(settings, c)
    BY <2>4, <1>0, <1>3 DEF Typed, Timely, Aged, Routed, Asking
  <2> QED BY <1>1, <2>3, <2>4, <2>5, PlainStep DEF Moved
<1> QED BY <1>0, <1>4, <1>5, <1>6 DEF UsdDirect, ProviderFails

\* The dollar rate is stored while the request goes on.
LEMMA UsdStoreInv ==
    ASSUME Inv, NEW p \in Procs, UsdStore(p)
    PROVE  Inv'
<1>0. /\ calls[p].step = "usdStore" /\ calls[p].key \in Keys /\ calls[p].value \in Values
      /\ calls[p].age \in Nat /\ calls[p].age <= Timeout
      /\ calls[p].spent \in Nat /\ calls[p].spent <= Round + Round
  BY CallFacts DEF UsdStore, At, Typed, Timely, Aged
<1>1. settings' = settings /\ Set(UsdKey(p), calls[p].value, calls[p].age)
  BY DEF UsdStore
<1>2. UsdKey(p) \in Keys /\ UsdKey(p)[2] = USD
  BY <1>0 DEF UsdKey, Crypto, Keys
<1>3. calls[p].age <= (IF UsdKey(p)[2] = USD THEN UsdAge ELSE StoredAge)
  BY <1>0, <1>2, Bounds
<1>4. \A q \in Procs : calls[p].age <= calls[q].spent + Timeout
  <2> TAKE q \in Procs
  <2>1. calls[q].spent \in Nat
    BY CallFacts
  <2> QED BY <1>0, <2>1, Bounds
<1>5. CASE Goto(p, "store")
  <2>1. PICK c : Moved(p, c, "store", 0, calls[p].age, calls[p].reply)
    BY <1>5, GotoMoves DEF RateSteps
  <2>2. /\ c.step = "store" /\ c.age = calls[p].age /\ c.spent = calls[p].spent
        /\ c.key = calls[p].key /\ c \in RateCall /\ calls' = [calls EXCEPT ![p] = c]
    BY <2>1 DEF Moved
  <2>3. Typed(c) /\ Routed(settings, c)
    BY <1>0, <2>2 DEF Typed, Routed
  <2>4. Timely(c)
    <3>1. calls[p].spent <= Round + Round + ForexRound
      BY <1>0, Within
    <3> QED BY <2>2, <3>1 DEF Timely, Asking
  <2>5. Aged(c)
    <3>1. calls[p].age <= UsdAge /\ calls[p].age <= StoredAge
      BY <1>0, Bounds
    <3> QED BY <2>2, <3>1 DEF Aged
  <2> QED BY <1>0, <1>1, <1>2, <1>3, <1>4, <2>2, <2>3, <2>4, <2>5, SetFrame
<1>6. CASE Fiat(p) # USD /\ Ask(p, "forex", 1)
  <2>1. PICK c : Moved(p, c, "forex", 1, calls[p].age, calls[p].reply)
    BY <1>6, AskMoves DEF RateSteps
  <2>2. /\ c.step = "forex" /\ c.n = 1 /\ c.waited = 0
        /\ c.age = calls[p].age /\ c.spent = calls[p].spent
        /\ c.key = calls[p].key /\ c \in RateCall /\ calls' = [calls EXCEPT ![p] = c]
    BY <2>1 DEF Moved
  <2>3. Typed(c) /\ Routed(settings, c)
    BY <1>0, <1>6, <2>2, Bounds DEF Typed, Routed, Fiat
  <2>4. Timely(c)
    <3>1. c.spent <= Round + Round + Before(c.n) + c.waited /\ c.waited <= Timeout
      BY <1>0, <2>2, Bounds
    <3> QED BY <2>2, <3>1 DEF Timely, Asking
  <2>5. Aged(c)
    <3>1. c.age <= Ttl + UsdAge + Before(c.n) + c.waited
      BY <1>0, <2>2, Bounds
    <3> QED BY <2>2, <3>1 DEF Aged
  <2> QED BY <1>0, <1>1, <1>2, <1>3, <1>4, <2>2, <2>3, <2>4, <2>5, SetFrame
<1> QED BY <1>5, <1>6 DEF UsdStore

\* convertUSDToFiat: the quote grows older while the forex providers are asked.
LEMMA ConvertInv ==
    ASSUME Inv, NEW p \in Procs, Convert(p)
    PROVE  Inv'
<1>1. PICK n : n = calls[p].n
  OBVIOUS
<1>2. /\ calls[p].step = "forex" /\ n \in 1 .. Len(ForexProviders) /\ calls[p].key \in Keys
      /\ calls[p].key[2] # USD /\ calls[p].waited \in Nat /\ calls[p].waited <= Timeout
      /\ calls[p].spent \in Nat /\ calls[p].spent <= Round + Round + Before(n) + calls[p].waited
      /\ calls[p].age \in Nat /\ calls[p].age <= Ttl + UsdAge + Before(n) + calls[p].waited
  <2>1. Routed(settings, calls[p])
    BY DEF Inv
  <2> QED BY <1>1, <2>1, CallFacts DEF Convert, At, Typed, Timely, Aged, Routed, Asking
<1>3. UNCHANGED <<settings, cache>>
  BY DEF Convert
<1>4. /\ Before(n) \in Nat /\ Before(n + 1) = Before(n) + Timeout
      /\ Before(n) + Timeout <= ForexRound
  BY <1>2, ForexSpan
<1>5. /\ calls[p].spent <= Round + Round + Before(n) + Timeout
      /\ calls[p].spent <= Round + Round + ForexRound
      /\ calls[p].age <= Ttl + UsdAge + Before(n) + Timeout
      /\ calls[p].age <= StoredAge
  BY <1>2, <1>4, ForexEnd
<1>6. CASE Goto(p, "store")
  <2>1. PICK c : Moved(p, c, "store", 0, calls[p].age, calls[p].reply)
    BY <1>6, GotoMoves DEF RateSteps
  <2>2. /\ c.step = "store" /\ c.age = calls[p].age /\ c.spent = calls[p].spent
        /\ c.key = calls[p].key /\ c \in RateCall /\ calls' = [calls EXCEPT ![p] = c]
    BY <2>1 DEF Moved
  <2>3. Typed(c) /\ Routed(settings, c)
    BY <1>2, <2>2 DEF Typed, Routed
  <2>4. Timely(c) /\ Aged(c)
    BY <1>2, <1>5, <2>2 DEF Timely, Aged, Asking
  <2>5. \A k : ~Missed(c, k)
    BY <2>2 DEF Missed
  <2>6. FoundLater(cache, c)
    BY <2>5 DEF FoundLater
  <2>7. ASSUME NEW q \in Procs PROVE StoredLater(cache, c, calls[q]) /\ StoredLater(cache, calls[q], c)
    <3>1. StoredLater(cache, calls[q], calls[p])
      BY DEF Inv
    <3>2. StoredLater(cache, c, calls[q])
      BY <1>2, <2>2 DEF StoredLater
    <3>3. StoredLater(cache, calls[q], c)
      BY <2>5, <3>1 DEF StoredLater
    <3> QED BY <3>2, <3>3
  <2> QED BY <1>3, <2>2, <2>3, <2>4, <2>6, <2>7, CallFrame
<1>7. CASE n < Len(ForexProviders) /\ Ask(p, "forex", n + 1)
  <2>1. n + 1 \in Nat /\ n + 1 \in 1 .. Len(ForexProviders)
    BY <1>2, <1>7, Bounds
  <2>2. PICK c : Moved(p, c, "forex", n + 1, calls[p].age, calls[p].reply)
    BY <1>7, <2>1, AskMoves DEF RateSteps
  <2>3. /\ c.step = "forex" /\ c.n = n + 1 /\ c.waited = 0
        /\ c.age = calls[p].age /\ c.spent = calls[p].spent
        /\ c.key = calls[p].key /\ c \in RateCall /\ calls' = [calls EXCEPT ![p] = c]
    BY <2>2 DEF Moved
  <2>4. Before(c.n) = Before(n) + Timeout
    BY <2>3, <1>4
  <2>5. Typed(c) /\ Routed(settings, c)
    BY <1>2, <2>1, <2>3 DEF Typed, Routed
  <2>6. Timely(c)
    <3>1. c.spent <= Round + Round + Before(c.n) + c.waited /\ c.waited <= Timeout
      BY <1>2, <1>4, <1>5, <2>3, <2>4, Bounds
    <3> QED BY <2>3, <3>1 DEF Timely, Asking
  <2>7. Aged(c)
    <3>1. c.age <= Ttl + UsdAge + Before(c.n) + c.waited
      BY <1>2, <1>4, <1>5, <2>3, <2>4, Bounds
    <3> QED BY <2>3, <3>1 DEF Aged
  <2> QED BY <1>3, <2>3, <2>5, <2>6, <2>7, PlainStep
<1>8. CASE ConvertFails(p)
  <2>1. CASE Answer(p, "zero", "blank", 0)
    <3>1. PICK c : Moved(p, c, "done", 0, 0, "zero")
      BY <2>1, AnswerMoves DEF Values
    <3> QED BY <1>2, <1>3, <1>5, <3>1, DoneStep
  <2>2. CASE Goto(p, "stale")
    BY <1>2, <1>3, <1>5, <2>2, StaleStep
  <2> QED BY <1>8, <2>1, <2>2 DEF ConvertFails
<1> QED BY <1>1, <1>6, <1>7, <1>8 DEF Convert

\* An entry that is no longer fresh is served up to StaleLimit after it was stored.
LEMMA StaleInv ==
    ASSUME Inv, NEW p \in Procs, Stale(p)
    PROVE  Inv'
<1>1. PICK k : k = calls[p].key
  OBVIOUS
<1>2. calls[p].step = "stale" /\ k \in Keys /\ calls[p].spent <= Round + Round + ForexRound
  BY <1>1, CallFacts DEF Stale, At, Typed, Timely
<1>3. UNCHANGED <<settings, cache>>
  BY DEF Stale
<1>4. CASE Usable(k) /\ Answer(p, "rate", cache[k].value, cache[k].age)
  <2>1. cache[k].present /\ cache[k].stored <= StaleLimit
    BY <1>4 DEF Usable
  <2>2. /\ cache[k].value \in Values /\ cache[k].age \in Nat /\ cache[k].stored \in Nat
        /\ cache[k].age <= cache[k].stored + StoredAge
    BY <1>2, <2>1, EntryFacts
  <2>3. cache[k].age <= StoredAge + KeepLimit
    BY <2>1, <2>2, Bounds
  <2>4. PICK c : Moved(p, c, "done", 0, cache[k].age, "rate")
    BY <1>4, <2>2, AnswerMoves
  <2> QED BY <1>2, <1>3, <2>2, <2>3, <2>4, DoneStep
<1>5. CASE Answer(p, "zero", "blank", 0)
  <2>1. PICK c : Moved(p, c, "done", 0, 0, "zero")
    BY <1>5, AnswerMoves DEF Values
  <2> QED BY <1>2, <1>3, <2>1, DoneStep
<1> QED BY <1>1, <1>4, <1>5 DEF Stale

\* The rate in hand is stored and shown: no call that missed its key finds it too old.
LEMMA StoreInv ==
    ASSUME Inv, NEW p \in Procs, Store(p)
    PROVE  Inv'
<1>0. /\ calls[p].step = "store" /\ calls[p].key \in Keys /\ calls[p].value \in Values
      /\ calls[p].age \in Nat /\ calls[p].spent <= Round + Round + ForexRound
      /\ calls[p].age <= (IF calls[p].key[2] = USD THEN UsdAge ELSE StoredAge)
  BY CallFacts DEF Store, At, Typed, Timely, Aged
<1>1. /\ settings' = settings /\ Set(calls[p].key, calls[p].value, calls[p].age)
      /\ Answer(p, "rate", calls[p].value, calls[p].age)
  BY DEF Store
<1>2. ASSUME NEW q \in Procs, Missed(calls[q], calls[p].key)
      PROVE  calls[p].age <= calls[q].spent + Timeout
  <2>1. StoredLater(cache, calls[p], calls[q]) /\ calls[q].spent \in Nat
    BY CallFacts DEF Inv
  <2>2. calls[p].key[2] = USD
    BY <1>2 DEF Missed
  <2>3. calls[p].age <= Timeout \/ calls[p].age <= calls[q].spent + Timeout
    BY <1>0, <1>2, <2>1, <2>2 DEF StoredLater
  <2> QED BY <1>0, <2>1, <2>3, Bounds
<1>3. PICK c : Moved(p, c, "done", 0, calls[p].age, "rate")
  BY <1>0, <1>1, AnswerMoves
<1>4. /\ c.step = "done" /\ c.age = calls[p].age /\ c.spent = calls[p].spent
      /\ c.key = calls[p].key /\ c \in RateCall /\ calls' = [calls EXCEPT ![p] = c]
  BY <1>3 DEF Moved
<1>5. Typed(c) /\ Routed(settings, c)
  BY <1>0, <1>4 DEF Typed, Routed
<1>6. Timely(c)
  BY <1>0, <1>4 DEF Timely, Asking
<1>7. Aged(c)
  <2>1. calls[p].age <= UsdAge \/ calls[p].age <= StoredAge
    BY <1>0
  <2>2. calls[p].age <= StoredAge + KeepLimit
    BY <1>0, <2>1, Within
  <2> QED BY <1>4, <2>2 DEF Aged
<1> QED BY <1>0, <1>1, <1>2, <1>4, <1>5, <1>6, <1>7, SetFrame

\* The call is over.
LEMMA ReturnInv ==
    ASSUME Inv, NEW p \in Procs, Return(p)
    PROVE  Inv'
<1>1. NoRateCall \in RateCall /\ NoRateCall.step = "idle"
  BY DEF NoRateCall, RateCall, RateSteps, Values
<1>2. Typed(NoRateCall) /\ Routed(settings, NoRateCall)
  BY <1>1 DEF Typed, Routed
<1>3. Timely(NoRateCall) /\ Aged(NoRateCall)
  BY <1>1 DEF Timely, Aged, Asking
<1> QED BY <1>1, <1>2, <1>3, PlainStep DEF Return

\* Time passes for the entries, and for the calls that wait for a provider.
LEMMA TickInv ==
    ASSUME Inv, Tick
    PROVE  Inv'
<1>1. settings' = settings /\ settings \in Settings
  BY DEF Inv, Tick
<1>2. ASSUME NEW k \in Keys
      PROVE  /\ cache'[k] \in Entry
             /\ cache'[k].present => /\ cache[k].present
                                     /\ cache'[k].age = cache[k].age + 1
                                     /\ cache'[k].stored = cache[k].stored + 1
  <2>1. cache[k] \in Entry /\ cache'[k] = Older(cache[k])
    BY DEF Inv, Tick
  <2>2. CASE cache[k].present /\ cache[k].stored < KeepLimit
    <3>1. PICK a \in Nat : a = cache[k].age + 1
      BY <2>1 DEF Entry
    <3>2. PICK b \in Nat : b = cache[k].stored + 1
      BY <2>1 DEF Entry
    <3>3. cache'[k] = [cache[k] EXCEPT !.age = a, !.stored = b]
      BY <2>1, <2>2, <3>1, <3>2 DEF Older
    <3>4. cache'[k] \in Entry /\ cache'[k].age = a /\ cache'[k].stored = b
      BY <2>1, <3>3 DEF Entry
    <3> QED BY <2>2, <3>1, <3>2, <3>4
  <2>3. CASE ~(cache[k].present /\ cache[k].stored < KeepLimit)
    BY <2>1, <2>3 DEF Older, Entry, NoEntry, Values
  <2> QED BY <2>2, <2>3
<1>3. cache' \in [Keys -> Entry]
  BY <1>2 DEF Tick
<1>4. ASSUME NEW k \in Keys PROVE EntryOK(k, cache'[k])
  <2> SUFFICES ASSUME cache'[k].present
               PROVE  cache'[k].age <= cache'[k].stored + (IF k[2] = USD THEN UsdAge ELSE StoredAge)
    BY DEF EntryOK
  <2>1. EntryOK(k, cache[k]) /\ cache[k].age \in Nat /\ cache[k].stored \in Nat
    BY DEF Inv, Entry
  <2>2. PICK y \in Nat : y = IF k[2] = USD THEN UsdAge ELSE StoredAge
    BY Bounds
  <2>3. cache[k].age <= y + cache[k].stored
    BY <1>2, <2>1, <2>2, Bounds DEF EntryOK
  <2>4. cache[k].age + 1 <= y + (cache[k].stored + 1)
    BY <2>1, <2>2, <2>3, Grow
  <2>5. y + (cache[k].stored + 1) = (cache[k].stored + 1) + y
    BY <2>1
  <2> QED BY <1>2, <2>2, <2>4, <2>5
<1>5. ASSUME NEW p \in Procs
      PROVE  \/ calls[p].step = "idle" /\ calls'[p] = calls[p]
             \/ /\ calls[p].step \in Asking /\ calls[p].waited < Timeout
                /\ calls'[p] \in RateCall /\ calls'[p].step = calls[p].step
                /\ calls'[p].key = calls[p].key /\ calls'[p].n = calls[p].n
                /\ calls'[p].waited = calls[p].waited + 1
                /\ calls'[p].spent = calls[p].spent + 1
                /\ calls[p].step = "forex" => calls'[p].age = calls[p].age + 1
  <2>0. calls[p] \in RateCall
    BY DEF Inv
  <2>1. CASE calls[p].step = "idle"
    BY <2>1 DEF Tick, At
  <2>2. CASE calls[p].step # "idle"
    <3>1. PICK a : a = IF calls[p].step = "forex" THEN calls[p].age + 1 ELSE 0
      OBVIOUS
    <3>2. a \in Nat /\ (calls[p].step = "forex" => a = calls[p].age + 1)
      BY <2>0, <3>1 DEF RateCall
    <3>3. PICK w \in Nat : w = calls[p].waited + 1
      BY <2>0 DEF RateCall
    <3>4. PICK x \in Nat : x = calls[p].spent + 1
      BY <2>0 DEF RateCall
    <3>5. calls'[p] = [calls[p] EXCEPT !.waited = w, !.spent = x, !.age = a]
      BY <2>2, <3>1, <3>3, <3>4 DEF Tick, At
    <3>6. calls[p].step \in Asking /\ calls[p].waited < Timeout
      BY <2>2 DEF Tick, At
    <3>7. calls'[p] \in RateCall /\ calls'[p].step = calls[p].step
            /\ calls'[p].key = calls[p].key /\ calls'[p].n = calls[p].n
            /\ calls'[p].waited = w /\ calls'[p].spent = x /\ calls'[p].age = a
      BY <2>0, <3>2, <3>5 DEF RateCall
    <3> QED BY <3>2, <3>3, <3>4, <3>6, <3>7
  <2> QED BY <2>1, <2>2
<1>6. calls' \in [Procs -> RateCall]
  <2>1. \A p \in Procs : calls'[p] \in RateCall
    BY <1>5 DEF Inv
  <2> QED BY <2>1 DEF Tick
<1>7. ASSUME NEW p \in Procs
      PROVE  /\ Typed(calls'[p]) /\ Timely(calls'[p]) /\ Aged(calls'[p])
             /\ Routed(settings, calls'[p])
  <2>0. Routed(settings, calls[p])
    BY DEF Inv
  <2>1. CASE calls'[p] = calls[p]
    BY <2>0, <2>1, CallFacts
  <2>2. CASE /\ calls[p].step \in Asking /\ calls[p].waited < Timeout
             /\ calls'[p] \in RateCall /\ calls'[p].step = calls[p].step
             /\ calls'[p].key = calls[p].key /\ calls'[p].n = calls[p].n
             /\ calls'[p].waited = calls[p].waited + 1
             /\ calls'[p].spent = calls[p].spent + 1
             /\ calls[p].step = "forex" => calls'[p].age = calls[p].age + 1
    <3>1. Typed(calls'[p]) /\ Routed(settings, calls'[p])
      BY <2>0, <2>2, CallFacts DEF Typed, Routed
    <3>2. /\ calls[p].spent \in Nat /\ calls[p].waited \in Nat /\ calls[p].age \in Nat
      BY CallFacts
    <3>3. calls[p].step \in {"direct", "usdDirect"} => Before(calls[p].n) \in Nat
      BY CallFacts, CryptoSpan DEF Typed
    <3>4. calls[p].step = "forex" => Before(calls[p].n) \in Nat
      BY CallFacts, ForexSpan DEF Typed
    <3>5. calls[p].waited + 1 <= Timeout
      BY <2>2, <3>2, Bounds
    <3>6. calls[p].step = "direct" => calls[p].spent + 1 <= Before(calls[p].n) + (calls[p].waited + 1)
      BY <3>2, <3>3, CallFacts DEF Timely
    <3>7. calls[p].step = "usdDirect" =>
              calls[p].spent + 1 <= Round + Before(calls[p].n) + (calls[p].waited + 1)
      <4> SUFFICES ASSUME calls[p].step = "usdDirect"
                   PROVE  calls[p].spent + 1 <= Round + Before(calls[p].n) + (calls[p].waited + 1)
        OBVIOUS
      <4>1. PICK y \in Nat : y = Round + Before(calls[p].n)
        BY <3>3, Bounds
      <4>2. calls[p].spent <= y + calls[p].waited
        BY <4>1, CallFacts DEF Timely
      <4>3. calls[p].spent + 1 <= y + (calls[p].waited + 1)
        BY <3>2, <4>2, Grow
      <4> QED BY <4>1, <4>3
    <3>8. calls[p].step = "forex" =>
              /\ calls[p].spent + 1 <= Round + Round + Before(calls[p].n) + (calls[p].waited + 1)
              /\ calls[p].age + 1 <= Ttl + UsdAge + Before(calls[p].n) + (calls[p].waited + 1)
      <4> SUFFICES ASSUME calls[p].step = "forex"
                   PROVE  /\ calls[p].spent + 1 <= Round + Round + Before(calls[p].n) + (calls[p].waited + 1)
                          /\ calls[p].age + 1 <= Ttl + UsdAge + Before(calls[p].n) + (calls[p].waited + 1)
        OBVIOUS
      <4>1. PICK y \in Nat : y = Round + Round + Before(calls[p].n)
        BY <3>4, Bounds
      <4>2. PICK z \in Nat : z = Ttl + UsdAge + Before(calls[p].n)
        BY <3>4, Bounds
      <4>3. calls[p].spent <= y + calls[p].waited /\ calls[p].age <= z + calls[p].waited
        BY <4>1, <4>2, CallFacts DEF Timely, Aged
      <4>4. calls[p].spent + 1 <= y + (calls[p].waited + 1)
        BY <3>2, <4>3, Grow
      <4>5. calls[p].age + 1 <= z + (calls[p].waited + 1)
        BY <3>2, <4>3, Grow
      <4> QED BY <4>1, <4>2, <4>4, <4>5
    <3>9. Timely(calls'[p])
      BY <2>2, <3>5, <3>6, <3>7, <3>8 DEF Timely, Asking
    <3>10. Aged(calls'[p])
      BY <2>2, <3>8 DEF Aged, Asking
    <3> QED BY <3>1, <3>9, <3>10
  <2> QED BY <1>5, <2>1, <2>2
<1>8. ASSUME NEW p \in Procs PROVE FoundLater(cache', calls'[p])
  <2> SUFFICES ASSUME NEW k \in Keys, Missed(calls'[p], k), FreshEntry(cache'[k])
               PROVE  cache'[k].age <= calls'[p].spent + Timeout
    BY DEF FoundLater
  <2>1. Missed(calls[p], k) /\ calls'[p].spent = calls[p].spent + 1
    BY <1>5 DEF Missed
  <2>2. /\ cache[k].present /\ cache'[k].age = cache[k].age + 1
        /\ cache'[k].stored = cache[k].stored + 1 /\ cache'[k].stored <= Ttl
    BY <1>2 DEF FreshEntry
  <2>3. cache[k].age \in Nat /\ cache[k].stored \in Nat /\ calls[p].spent \in Nat
    BY CallFacts DEF Inv, Entry
  <2>4. FreshEntry(cache[k])
    <3>1. cache[k].stored + 1 <= Ttl
      BY <2>2
    <3>2. cache[k].stored <= Ttl
      BY <2>3, <3>1, RatesAssumption
    <3> QED BY <2>2, <3>2 DEF FreshEntry
  <2>5. cache[k].age <= calls[p].spent + Timeout
    BY <2>1, <2>4 DEF Inv, FoundLater
  <2> QED BY <2>1, <2>2, <2>3, <2>5, Bounds
<1>9. \A p, q \in Procs : StoredLater(cache', calls'[p], calls'[q])
  BY <1>5 DEF StoredLater, Asking
<1> QED BY <1>1, <1>3, <1>4, <1>6, <1>7, <1>8, <1>9 DEF Inv

-----------------------------------------------------------------------------
(* The theorems. *)

\* At first there are no entries and no calls.
LEMMA InvInit ==
    ASSUME Init
    PROVE  Inv
<1>1. NoEntry \in Entry /\ NoEntry.present = FALSE
  BY DEF NoEntry, Entry, Values
<1>2. NoRateCall \in RateCall /\ NoRateCall.step = "idle"
  BY DEF NoRateCall, RateCall, RateSteps, Values
<1>3. settings \in Settings /\ cache \in [Keys -> Entry] /\ calls \in [Procs -> RateCall]
  BY <1>1, <1>2 DEF Init
<1>4. \A k \in Keys : EntryOK(k, cache[k])
  BY <1>1 DEF Init, EntryOK
<1>5. \A p \in Procs : calls[p] = NoRateCall
  BY DEF Init
<1>6. Typed(NoRateCall) /\ Timely(NoRateCall) /\ Aged(NoRateCall) /\ Routed(settings, NoRateCall)
  <2>1. Typed(NoRateCall) /\ Routed(settings, NoRateCall)
    BY <1>2 DEF Typed, Routed
  <2>2. Timely(NoRateCall) /\ Aged(NoRateCall)
    BY <1>2 DEF Timely, Aged, Asking
  <2> QED BY <2>1, <2>2
<1>7. FoundLater(cache, NoRateCall) /\ StoredLater(cache, NoRateCall, NoRateCall)
  BY <1>2 DEF FoundLater, Missed, StoredLater
<1> QED BY <1>3, <1>4, <1>5, <1>6, <1>7 DEF Inv

\* Every step keeps the invariant.
LEMMA InvStep ==
    ASSUME Inv, [Next]_vars
    PROVE  Inv'
<1>1. CASE UNCHANGED vars
  <2>1. settings' = settings /\ cache' = cache /\ calls' = calls
    BY <1>1 DEF vars
  <2> QED BY <2>1 DEF Inv
<1>2. ASSUME NEW p \in Procs, CallStep(p) PROVE Inv'
  BY <1>2, LookupInv, DirectInv, ToUSDInv, UsdDirectInv, UsdStoreInv, ConvertInv, StaleInv,
     StoreInv, ReturnInv DEF CallStep
<1>3. ASSUME NEW p \in Procs, NEW c \in Cryptos, NEW f \in Fiats \cup {USD}, Request(p, c, f)
      PROVE  Inv'
  BY <1>3, RequestInv
<1>4. CASE Tick
  BY <1>4, TickInv
<1> QED BY <1>1, <1>2, <1>3, <1>4 DEF Next

\* The inductive invariant holds in every state of the aggregator (aggregator.go GetRate
\* and what it calls).
THEOREM Invariance == Spec => []Inv
  BY InvInit, InvStep, PTL DEF Spec

\* Types: a call has a key, and its provider is one of the chain it asks.
THEOREM TypeCorrect == Spec => []TypeOK
<1>1. Inv => TypeOK
  BY DEF Inv, TypeOK, Typed
<1> QED BY <1>1, Invariance, PTL

\* No rate that GetRate returns is older than a time to live, the calls to the providers
\* and the time that an entry is kept, for any number of overlapping requests.
THEOREM RateAgeHolds == Spec => []RateAge
<1>1. Inv => RateAge
  BY DEF Inv, RateAge, Aged, At
<1> QED BY <1>1, Invariance, PTL

\* GetRate answers within two rounds of the crypto providers and one of the forex
\* providers: the timeouts of the HTTP clients bound the request.
THEOREM AnswerInTimeHolds == Spec => []AnswerInTime
<1>1. ASSUME Inv, NEW p \in Procs, ~At(p, "idle")
      PROVE  calls[p].spent <= Round + Round + ForexRound
  <2>1. /\ calls[p].step \in RateSteps /\ calls[p].step # "idle" /\ calls[p].spent \in Nat
        /\ calls[p].waited \in Nat /\ Typed(calls[p]) /\ Timely(calls[p])
    BY <1>1, CallFacts DEF At, RateCall
  <2>2. Round \in Nat /\ ForexRound \in Nat /\ Timeout \in Nat
    BY Bounds
  <2>3. CASE calls[p].step \in {"stale", "store", "done"}
    BY <2>1, <2>3 DEF Timely
  <2>4. CASE calls[p].step \in {"lookup", "usd", "usdStore"}
    <3>1. calls[p].spent = 0 \/ calls[p].spent <= Round \/ calls[p].spent <= Round + Round
      BY <2>1, <2>4 DEF Timely
    <3>2. calls[p].spent <= Round + Round
      BY <2>1, <2>2, <3>1
    <3> QED BY <2>1, <3>2, Within
  <2>5. CASE calls[p].step \in {"direct", "usdDirect"}
    <3>1. PICK n : n = calls[p].n
      OBVIOUS
    <3>2. n \in 1 .. Len(CryptoProviders) /\ calls[p].waited <= Timeout
            /\ (\/ calls[p].spent <= Before(n) + calls[p].waited
                \/ calls[p].spent <= Round + Before(n) + calls[p].waited)
      BY <2>1, <2>5, <3>1 DEF Typed, Timely, Asking
    <3>3. Before(n) \in Nat /\ Before(n) + Timeout <= Round
      BY <3>2, CryptoSpan
    <3>4. calls[p].spent <= Round + Round
      BY <2>1, <2>2, <3>2, <3>3
    <3> QED BY <2>1, <3>4, Within
  <2>6. CASE calls[p].step = "forex"
    <3>1. PICK n : n = calls[p].n
      OBVIOUS
    <3>2. n \in 1 .. Len(ForexProviders) /\ calls[p].waited <= Timeout
            /\ calls[p].spent <= Round + Round + Before(n) + calls[p].waited
      BY <2>1, <2>6, <3>1 DEF Typed, Timely, Asking
    <3>3. Before(n) \in Nat /\ Before(n) + Timeout <= ForexRound
      BY <3>2, ForexSpan
    <3> QED BY <2>1, <3>2, <3>3, ForexEnd
  <2> QED BY <2>1, <2>3, <2>4, <2>5, <2>6 DEF RateSteps
<1>2. Round + Round + ForexRound = 2 * Span(Len(CryptoProviders)) + Span(Len(ForexProviders))
  <2>1. Span(Len(CryptoProviders)) \in Nat
    BY Bounds DEF Round
  <2> QED BY <2>1 DEF Round, ForexRound
<1>3. Inv => AnswerInTime
  BY <1>1, <1>2 DEF AnswerInTime
<1> QED BY <1>3, Invariance, PTL
==============================================================================
