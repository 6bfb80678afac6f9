--------------------------- MODULE DepositsProofs ---------------------------
(***************************************************************************)
(* Proofs about the gateway's limiter and the deposits behind it, for any  *)
(* number of requests, users, webhooks and addresses and any settings.     *)
(*                                                                         *)
(* First the rate limiter on its own.  A bucket remembers enough: the      *)
(* grants from any one on, and the tokens left, are together paid for by   *)
(* the burst and by the refill since.  A charge keeps this for whatever    *)
(* time the request has read, because the refill is linear; dropping the   *)
(* bucket keeps it because the bucket would have been full.                *)
(*                                                                         *)
(* Then the routes: they keep to the limiter, a deposit is credited once,  *)
(* for a reason, before it is acknowledged, and an address that is told is *)
(* the one that is stored.                                                 *)
(***************************************************************************)
EXTENDS Deposits, TLAPS

\* The tokens that a span of time brings.
Refill(t) == Rate * t

\* The grants g of a key, and what is left in its bucket b, are paid for.
Paid(g, b) == \A i \in 1 .. Len(g) : Len(g) - i + 1 + b.tokens <= Burst + Refill(b.ts - g[i])

\* Tokens are missing at most for the time by which the last use was late.
Sane(b) ==
    /\ b.tokens <= Burst
    /\ b.ts <= b.used
    /\ b.tokens >= Refill(b.ts - b.used)

Bounded(g) ==
    \A i, j \in 1 .. Len(g) : i <= j => j - i + 1 <= Burst + Refill(g[j] - g[i])

Sound(g, b, t) == Paid(g, b) /\ Sane(b) /\ b.used <= t

-----------------------------------------------------------------------------
(* Arithmetic *)

\* Settings are replaced by positive ones.
LEMMA Positive == Rate \in Nat /\ Rate >= 1 /\ Burst \in Nat /\ Burst >= 1
  BY SettingsAssumption DEF Rate, Burst, DefaultRPS

\* Refills are linear.
LEMMA Linear ==
    ASSUME NEW a \in Int, NEW b \in Int
    PROVE  /\ Refill(a) \in Int
           /\ Refill(a - b) = Refill(a) - Refill(b)
           /\ (a - b) * Rate = Refill(a) - Refill(b)
  BY Positive DEF Refill

\* Refills grow with time.
LEMMA Monotone ==
    ASSUME NEW a \in Int, NEW b \in Int, a <= b
    PROVE  Refill(a) <= Refill(b)
<1>1. PICK n \in Nat : b = a + n
  <2>1. b - a \in Nat /\ b = a + (b - a)
    OBVIOUS
  <2> QED BY <2>1
<1>2. Rate * n \in Nat
  BY Positive
<1>3. Rate * b = Rate * a + Rate * n
  BY <1>1, Positive
<1>4. Rate * a \in Int
  BY Positive
<1> QED BY <1>2, <1>3, <1>4 DEF Refill

\* Spans of time add up.
LEMMA Chain ==
    ASSUME NEW n \in Int, NEW k \in Int, NEW t \in Int, NEW u \in Int,
           NEW p \in Int, NEW q \in Int, NEW w \in Int,
           n + u <= k + (q - w), t <= u + (p - q)
    PROVE  n + t <= k + (p - w)
  OBVIOUS

\* A bucket that was last used long enough ago pays for what was granted.
LEMMA PaidOff ==
    ASSUME NEW n \in Int, NEW k \in Int, NEW t \in Int, NEW p \in Int,
           NEW q \in Int, NEW v \in Int, NEW w \in Int,
           n + t <= k + (q - w), k <= p - v, t >= q - v
    PROVE  n <= p - w
  OBVIOUS

-----------------------------------------------------------------------------
(* Buckets *)

\* What the refill of a bucket comes to.
LEMMA RefillBound ==
    ASSUME NEW b \in Bucket, NEW now \in Int
    PROVE  /\ Refilled(b, now) \in Int
           /\ Refilled(b, now) <= Burst
           /\ Refilled(b, now) <= b.tokens + (Refill(now) - Refill(b.ts))
           /\ Refilled(b, now) < Burst => Refilled(b, now) = b.tokens + (Refill(now) - Refill(b.ts))
<1>1. b.tokens \in Int /\ b.ts \in Int
  BY DEF Bucket
<1>2. (now - b.ts) * Rate = Refill(now) - Refill(b.ts) /\ Refill(now) \in Int /\ Refill(b.ts) \in Int
  BY <1>1, Linear
<1>3. Burst \in Int
  BY Positive
<1>. DEFINE sum == b.tokens + (now - b.ts) * Rate
<1>4. sum = b.tokens + (Refill(now) - Refill(b.ts)) /\ sum \in Int
  BY <1>1, <1>2
<1>5. Refilled(b, now) = IF sum > Burst THEN Burst ELSE sum
  BY DEF Refilled
<1>. HIDE DEF sum
<1> QED BY <1>1, <1>2, <1>3, <1>4, <1>5

\* A charged bucket is a bucket.
LEMMA ChargedType ==
    ASSUME NEW b \in Bucket, NEW now \in Int, clock \in Int
    PROVE  Charged(b, now) \in Bucket
  BY RefillBound DEF Charged, Bucket

\* A full bucket is a bucket, and pays for grants that are older than its refill.
LEMMA FullType ==
    ASSUME NEW now \in Int
    PROVE  /\ FullBucket(now) \in Bucket
           /\ Sane(FullBucket(now))
           /\ Paid(<<>>, FullBucket(now))
<1>1. FullBucket(now) \in Bucket
  BY Positive DEF FullBucket, Bucket
<1>2. Refill(now - now) = 0
  BY Positive DEF Refill
<1>3. Sane(FullBucket(now))
  BY <1>2, Positive DEF Sane, FullBucket
<1> QED BY <1>1, <1>3 DEF Paid

\* Charging a bucket keeps its account, whatever time the request has read.
LEMMA ChargeKeeps ==
    ASSUME NEW g \in Seq(Int), NEW b \in Bucket, NEW now \in Int, clock \in Int, now <= clock,
           Sound(g, b, clock), Bounded(g)
    PROVE  LET h == IF Allows(b, now) THEN Append(g, now) ELSE g
           IN  Sound(h, Charged(b, now), clock) /\ Bounded(h)
<1>. DEFINE t == Refilled(b, now)
            c == Charged(b, now)
            h == IF Allows(b, now) THEN Append(g, now) ELSE g
<1>1. b.tokens \in Int /\ b.ts \in Int /\ b.used \in Int
  BY DEF Bucket
<1>2. /\ t \in Int /\ t <= Burst /\ t <= b.tokens + (Refill(now) - Refill(b.ts))
      /\ t < Burst => t = b.tokens + (Refill(now) - Refill(b.ts))
  BY RefillBound
<1>3. Burst \in Int /\ Burst >= 1
  BY Positive
<1>4. c.ts = now /\ c.used = clock /\ c.tokens = IF t >= 1 THEN t - 1 ELSE t
  BY DEF Charged, Allows
<1>5. Allows(b, now) <=> t >= 1
  BY DEF Allows
<1>6. /\ Refill(now) \in Int /\ Refill(clock) \in Int /\ Refill(b.ts) \in Int /\ Refill(b.used) \in Int
      /\ Refill(now - clock) = Refill(now) - Refill(clock)
      /\ Refill(b.ts - b.used) = Refill(b.ts) - Refill(b.used)
      /\ Refill(now) <= Refill(clock)
      /\ Refill(b.used) <= Refill(clock)
  BY <1>1, Linear, Monotone DEF Sound
<1>. HIDE DEF t, c, h
<1>7. Sane(c)
  <2>1. c.tokens <= Burst
    BY <1>2, <1>3, <1>4
  <2>2. c.ts <= c.used
    BY <1>4
  <2>3. c.tokens >= Refill(c.ts - c.used)
    <3>1. CASE t >= 1
      BY <3>1, <1>2, <1>4, <1>6
    <3>2. CASE t < 1
      <4>1. t = b.tokens + (Refill(now) - Refill(b.ts))
        BY <3>2, <1>2, <1>3
      <4>2. b.tokens >= Refill(b.ts) - Refill(b.used)
        BY <1>6 DEF Sound, Sane
      <4>3. c.tokens = t
        BY <3>2, <1>2, <1>4
      <4>4. Refill(c.ts - c.used) = Refill(now) - Refill(clock)
        BY <1>4, <1>6
      <4> QED BY <4>1, <4>2, <4>3, <4>4, <1>1, <1>6
    <3> QED BY <3>1, <3>2, <1>2
  <2> QED BY <2>1, <2>2, <2>3 DEF Sane
<1>8. ASSUME NEW i \in 1 .. Len(g)
      PROVE  /\ g[i] \in Int /\ Refill(g[i]) \in Int
             /\ Refill(now - g[i]) = Refill(now) - Refill(g[i])
             /\ Len(g) - i + 1 + t <= Burst + (Refill(now) - Refill(g[i]))
  <2>1. g[i] \in Int
    OBVIOUS
  <2>2. /\ Refill(g[i]) \in Int
        /\ Refill(now - g[i]) = Refill(now) - Refill(g[i])
        /\ Refill(b.ts - g[i]) = Refill(b.ts) - Refill(g[i])
    BY <2>1, <1>1, Linear
  <2>3. Len(g) - i + 1 + b.tokens <= Burst + Refill(b.ts - g[i])
    BY DEF Sound, Paid
  <2>4. Len(g) \in Int /\ i \in Int
    OBVIOUS
  <2>5. /\ Len(g) - i + 1 + b.tokens <= Burst + (Refill(b.ts) - Refill(g[i]))
        /\ Len(g) - i + 1 \in Int
    BY <2>2, <2>3, <2>4
  <2>6. Len(g) - i + 1 + t <= Burst + (Refill(now) - Refill(g[i]))
    <3>1. t <= b.tokens + (Refill(now) - Refill(b.ts))
      BY <1>2
    <3>2. /\ t \in Int /\ b.tokens \in Int /\ Burst \in Int
          /\ Refill(now) \in Int /\ Refill(b.ts) \in Int /\ Refill(g[i]) \in Int
      BY <2>2, <1>1, <1>2, <1>3, <1>6
    <3> QED BY <3>1, <3>2, <2>5, Chain
  <2> QED BY <2>1, <2>2, <2>6
<1>9. CASE t >= 1
  <2>1. h = Append(g, now) /\ c.tokens = t - 1
    BY <1>9, <1>4, <1>5 DEF h
  <2>2. /\ h \in Seq(Int) /\ Len(h) = Len(g) + 1 /\ Len(g) \in Nat
        /\ h[Len(g) + 1] = now
        /\ \A i \in 1 .. Len(g) : h[i] = g[i]
    BY <2>1
  <2>3. Refill(now - now) = 0
    BY Positive DEF Refill
  <2>4. ASSUME NEW i \in 1 .. Len(h)
        PROVE  Len(h) - i + 1 + c.tokens <= Burst + Refill(now - h[i])
    <3>1. CASE i \in 1 .. Len(g)
      <4>1. /\ Refill(now - g[i]) = Refill(now) - Refill(g[i])
            /\ Len(g) - i + 1 + t <= Burst + (Refill(now) - Refill(g[i]))
        BY <3>1, <1>8
      <4>2. Len(h) - i + 1 + c.tokens = Len(g) - i + 1 + t
        BY <3>1, <2>1, <2>2, <1>2
      <4> QED BY <4>1, <4>2, <2>2, <3>1
    <3>2. CASE i = Len(g) + 1
      BY <3>2, <2>1, <2>2, <2>3, <1>2, <1>3
    <3> QED BY <3>1, <3>2, <2>2
  <2>5. Paid(h, c)
    BY <2>4, <1>4 DEF Paid
  <2>6. ASSUME NEW i \in 1 .. Len(h), NEW j \in 1 .. Len(h), i <= j
        PROVE  j - i + 1 <= Burst + Refill(h[j] - h[i])
    <3>1. CASE j \in 1 .. Len(g)
      <4>1. i \in 1 .. Len(g)
        BY <2>6, <3>1, <2>2
      <4>2. j - i + 1 <= Burst + Refill(g[j] - g[i])
        BY <2>6, <4>1, <3>1 DEF Bounded
      <4> QED BY <4>1, <4>2, <3>1, <2>2
    <3>2. CASE j = Len(g) + 1
      <4>1. Len(h) - i + 1 + c.tokens <= Burst + Refill(now - h[i])
        BY <2>4
      <4>2. h[j] = now /\ j = Len(h) /\ c.tokens >= 0 /\ c.tokens \in Int
        BY <3>2, <2>1, <2>2, <1>9, <1>2
      <4>3. h[i] \in Int /\ Refill(now - h[i]) \in Int
        BY <2>2, Positive DEF Refill
      <4> QED BY <4>1, <4>2, <4>3, <1>3, <2>2
    <3> QED BY <3>1, <3>2, <2>2
  <2>7. Bounded(h)
    BY <2>6 DEF Bounded
  <2>8. c.used <= clock
    BY <1>4
  <2> QED BY <2>5, <2>7, <2>8, <1>7 DEF Sound, c, h
<1>10. CASE ~(t >= 1)
  <2>1. h = g /\ c.tokens = t
    BY <1>10, <1>4, <1>5 DEF h
  <2>2. Paid(h, c)
    BY <2>1, <1>8, <1>4 DEF Paid
  <2>3. c.used <= clock
    BY <1>4
  <2> QED BY <2>1, <2>2, <2>3, <1>7 DEF Sound, c, h
<1> QED BY <1>9, <1>10

\* What pays for a grant more pays for the others.
LEMMA FewerPaid ==
    ASSUME NEW g \in Seq(Int), NEW b \in Bucket, NEW now \in Int, Paid(Append(g, now), b)
    PROVE  Paid(g, b)
<1> SUFFICES ASSUME NEW i \in 1 .. Len(g)
             PROVE  Len(g) - i + 1 + b.tokens <= Burst + Refill(b.ts - g[i])
  BY DEF Paid
<1>1. b.tokens \in Int /\ b.ts \in Int /\ g[i] \in Int /\ Burst \in Int
  BY Positive DEF Bucket
<1>2. Refill(b.ts - g[i]) \in Int
  BY <1>1, Positive DEF Refill
<1>3. Len(Append(g, now)) = Len(g) + 1 /\ Append(g, now)[i] = g[i] /\ i \in 1 .. Len(g) + 1
  OBVIOUS
<1>4. Len(g) + 1 - i + 1 + b.tokens <= Burst + Refill(b.ts - g[i])
  BY <1>3 DEF Paid
<1> QED BY <1>1, <1>2, <1>4

\* A bucket that Redis drops would have been full.
LEMMA DropKeeps ==
    ASSUME NEW g \in Seq(Int), NEW b \in Bucket, NEW now \in Int, clock \in Int,
           now <= clock, clock <= now + MaxDelay, clock > b.used + Expiry, Sound(g, b, clock)
    PROVE  Sound(g, FullBucket(now), clock)
<1>1. b.tokens \in Int /\ b.ts \in Int /\ b.used \in Int
  BY DEF Bucket
<1>2. Burst \in Int /\ MaxDelay \in Int /\ Expiry \in Int
  BY Positive, LimitsAssumption, ExpiryAssumption
<1>3. /\ Refill(now) \in Int /\ Refill(b.ts) \in Int /\ Refill(b.used) \in Int
      /\ Refill(now - b.used) = Refill(now) - Refill(b.used)
      /\ Refill(b.ts - b.used) = Refill(b.ts) - Refill(b.used)
  BY <1>1, Linear
<1>4. Burst <= Refill(now) - Refill(b.used)
  <2>1. Expiry - MaxDelay <= now - b.used
    BY <1>1, <1>2
  <2>2. Refill(Expiry - MaxDelay) <= Refill(now - b.used)
    BY <2>1, <1>1, <1>2, Monotone
  <2>3. Burst <= Refill(Expiry - MaxDelay) /\ Refill(Expiry - MaxDelay) \in Int
    BY <1>2, ExpiryAssumption, Positive DEF Refill
  <2> QED BY <2>2, <2>3, <1>2, <1>3
<1>5. b.tokens >= Refill(b.ts) - Refill(b.used)
  BY <1>3 DEF Sound, Sane
<1>6. ASSUME NEW i \in 1 .. Len(g)
      PROVE  Len(g) - i + 1 + Burst <= Burst + Refill(now - g[i])
  <2>1. g[i] \in Int /\ Len(g) - i + 1 \in Int
    OBVIOUS
  <2>2. /\ Refill(g[i]) \in Int
        /\ Refill(now - g[i]) = Refill(now) - Refill(g[i])
        /\ Refill(b.ts - g[i]) = Refill(b.ts) - Refill(g[i])
    BY <2>1, <1>1, Linear
  <2>3. Len(g) - i + 1 + b.tokens <= Burst + (Refill(b.ts) - Refill(g[i]))
    BY <2>2 DEF Sound, Paid
  <2>4. Len(g) - i + 1 <= Refill(now) - Refill(g[i])
    BY <2>1, <2>2, <2>3, <1>1, <1>2, <1>3, <1>4, <1>5, PaidOff
  <2> QED BY <2>1, <2>2, <2>4, <1>2, <1>3
<1>7. Paid(g, FullBucket(now))
  BY <1>6 DEF Paid, FullBucket
<1>8. FullBucket(now).used <= clock
  BY DEF FullBucket
<1> QED BY <1>7, <1>8, FullType DEF Sound

-----------------------------------------------------------------------------
(* The inductive invariant *)

\* Requests to Redis are not older than its timeouts; a request that is about to use a
\* limiter holds the one of its key; and one that has none yet has made none.
Phase(r) ==
    /\ In(r, "eval") => /\ backend = "redis"
                        /\ pass[r].now <= clock /\ clock <= pass[r].now + MaxDelay
    /\ pass[r].step \in {"look", "make", "allow"} => backend = "memory"
    /\ In(r, "allow") => pass[r].lim \in Requests /\ limiters[pass[r].key] = pass[r].lim
    /\ pass[r].step \in {"new", "look", "make"} => \A k \in Keys : limiters[k] # r

Phases == \A r \in Requests : Phase(r)

\* No limiter serves two keys.
OwnLimiters == \A k, l \in Keys : limiters[k] = limiters[l] /\ limiters[k] # None => k = l

InMemory ==
    backend = "memory" =>
        \A k \in Keys : IF limiters[k] = None THEN grants[k] = <<>>
                        ELSE Sound(grants[k], memory[limiters[k]], clock)

InRedis ==
    backend = "redis" =>
        \A k \in Keys : IF redis[k] = None THEN grants[k] = <<>>
                        ELSE Sound(grants[k], redis[k], clock)

AllBounded == \A k \in Keys : Bounded(grants[k])

IInv == LimiterTypeOK /\ Phases /\ OwnLimiters /\ InMemory /\ InRedis /\ AllBounded

\* Initially nothing has been granted.
LEMMA InitIInv == LimiterInit => IInv
<1> SUFFICES ASSUME LimiterInit PROVE IInv
  OBVIOUS
<1>1. LimiterTypeOK
  BY IPAssumption DEF LimiterInit, LimiterTypeOK, Outside, Pass, PassSteps, Keys, NoBucket, Bucket, Backends
<1>2. Phases /\ OwnLimiters
  BY NoneAssumption DEF LimiterInit, Phases, Phase, OwnLimiters, In, Outside
<1>3. InMemory /\ InRedis
  BY DEF LimiterInit, InMemory, InRedis
<1>4. AllBounded
  BY DEF LimiterInit, AllBounded, Bounded
<1> QED BY <1>1, <1>2, <1>3, <1>4 DEF IInv

\* The key of a request is a key.
LEMMA KeyType ==
    ASSUME LimiterTypeOK, NEW r \in Requests
    PROVE  Key(r) \in Keys /\ <<IPOf[r], None>> \in Keys
  BY IPAssumption DEF LimiterTypeOK, Key, Keys

\* The bucket a script finds.
LEMMA StoredSound ==
    ASSUME IInv, backend = "redis", NEW k \in Keys, NEW now \in Int,
           now <= clock, clock <= now + MaxDelay
    PROVE  Stored(k, now) \in Bucket /\ Sound(grants[k], Stored(k, now), clock)
<1>1. clock \in Int /\ grants[k] \in Seq(Int) /\ redis[k] \in Bucket \cup {None}
  BY DEF IInv, LimiterTypeOK
<1>2. CASE redis[k] = None
  <2>1. Stored(k, now) = FullBucket(now) /\ grants[k] = <<>>
    BY <1>2 DEF Stored, IInv, InRedis
  <2>2. FullBucket(now).used <= clock
    BY DEF FullBucket
  <2> QED BY <2>1, <2>2, FullType DEF Sound
<1>3. CASE redis[k] # None
  <2>1. redis[k] \in Bucket /\ Sound(grants[k], redis[k], clock)
    BY <1>1, <1>3 DEF IInv, InRedis
  <2>2. CASE clock > redis[k].used + Expiry
    BY <2>1, <2>2, <1>1, DropKeeps, FullType DEF Stored
  <2>3. CASE ~(clock > redis[k].used + Expiry)
    BY <2>1, <2>3, <1>3 DEF Stored
  <2> QED BY <2>2, <2>3
<1> QED BY <1>2, <1>3
-----------------------------------------------------------------------------
(* Steps *)

\* What a bucket has paid for stays paid for.
LEMMA Later ==
    ASSUME NEW g, NEW b \in Bucket, NEW t \in Int, NEW u \in Int, t <= u, Sound(g, b, t)
    PROVE  Sound(g, b, u)
  BY DEF Sound, Bucket

\* A request that leaves the limiter is a request outside of it.
LEMMA OutsideType ==
    ASSUME NEW r \in Requests, NEW s \in PassSteps
    PROVE  Outside(r, s) \in Pass /\ Outside(r, s).step = s
  BY IPAssumption DEF Outside, Pass, Keys

\* The clock moves on: no call to Redis gets too old, and accounts stay sound.
LEMMA TickKeeps == IInv /\ Tick => IInv'
<1> SUFFICES ASSUME IInv, Tick PROVE IInv'
  OBVIOUS
<1>0. clock \in Int /\ clock' = clock + 1 /\ MaxDelay \in Int
  BY LimitsAssumption DEF IInv, LimiterTypeOK, Tick
<1>1. LimiterTypeOK'
  BY DEF IInv, LimiterTypeOK, Tick
<1>2. Phases'
  <2> SUFFICES ASSUME NEW r \in Requests PROVE Phase(r)'
    BY DEF Phases
  <2>1. pass[r].now \in Int /\ pass' = pass /\ backend' = backend /\ limiters' = limiters
    BY DEF IInv, LimiterTypeOK, Pass, Tick
  <2>2. Phase(r) /\ (In(r, "eval") => clock < pass[r].now + MaxDelay)
    BY DEF IInv, Phases, Tick
  <2> QED BY <2>1, <2>2, <1>0 DEF Phase, In
<1>3. OwnLimiters'
  BY DEF IInv, OwnLimiters, Tick
<1>4. InMemory'
  <2> SUFFICES ASSUME backend = "memory", NEW k \in Keys, limiters[k] # None
               PROVE  Sound(grants[k], memory[limiters[k]], clock')
    BY DEF IInv, InMemory, Tick
  <2>1. memory[limiters[k]] \in Bucket /\ Sound(grants[k], memory[limiters[k]], clock)
    BY DEF IInv, InMemory, LimiterTypeOK
  <2> QED BY <2>1, <1>0, Later
<1>5. InRedis'
  <2> SUFFICES ASSUME backend = "redis", NEW k \in Keys, redis[k] # None
               PROVE  Sound(grants[k], redis[k], clock')
    BY DEF IInv, InRedis, Tick
  <2>1. redis[k] \in Bucket /\ Sound(grants[k], redis[k], clock)
    BY DEF IInv, InRedis, LimiterTypeOK
  <2> QED BY <2>1, <1>0, Later
<1>6. AllBounded'
  BY DEF IInv, AllBounded, Tick
<1> QED BY <1>1, <1>2, <1>3, <1>4, <1>5, <1>6 DEF IInv

\* A restart drops the limiters in memory together with what they had granted.
LEMMA RestartKeeps == IInv /\ RestartGateway => IInv'
<1> SUFFICES ASSUME IInv, RestartGateway PROVE IInv'
  OBVIOUS
<1>1. \A r \in Requests : /\ pass'[r] = pass[r] \/ pass'[r] = Outside(r, "lost")
                          /\ pass'[r].step \notin {"look", "make", "allow", "eval"}
                          /\ pass'[r] \in Pass
  BY OutsideType DEF IInv, LimiterTypeOK, RestartGateway, Inside, PassSteps
<1>2. LimiterTypeOK'
  <2>1. pass' \in [Requests -> Pass]
    BY <1>1 DEF RestartGateway
  <2>2. limiters' \in [Keys -> Requests \cup {None}]
    BY DEF RestartGateway
  <2>3. grants' \in [Keys -> Seq(Int)]
    BY DEF IInv, LimiterTypeOK, RestartGateway
  <2> QED BY <2>1, <2>2, <2>3 DEF IInv, LimiterTypeOK, RestartGateway
<1>3. \A k \in Keys : limiters'[k] = None
  BY DEF RestartGateway
<1>4. Phases'
  BY <1>1, <1>3, NoneAssumption DEF Phases, Phase, In
<1>5. OwnLimiters'
  BY <1>3 DEF OwnLimiters
<1>6. InMemory'
  BY <1>3 DEF InMemory, RestartGateway
<1>7. InRedis'
  BY DEF IInv, InRedis, RestartGateway
<1>8. AllBounded'
  BY DEF IInv, AllBounded, Bounded, RestartGateway
<1> QED BY <1>2, <1>4, <1>5, <1>6, <1>7, <1>8 DEF IInv

\* Steps that only move a request, and touch no limiter and no bucket.
LEMMA MoveKeeps ==
    ASSUME IInv, NEW r \in Requests, NEW p \in Pass,
           pass' = [pass EXCEPT ![r] = p],
           UNCHANGED <<backend, clock, user, limiters, memory, redis, grants>>,
           Phase(r)'
    PROVE  IInv'
<1>1. LimiterTypeOK'
  BY DEF IInv, LimiterTypeOK
<1>2. Phases'
  <2> SUFFICES ASSUME NEW q \in Requests, q # r PROVE Phase(q)'
    BY DEF Phases
  <2>1. pass'[q] = pass[q] /\ Phase(q)
    BY DEF IInv, LimiterTypeOK, Phases
  <2> QED BY <2>1 DEF Phase, In
<1>3. OwnLimiters' /\ InMemory' /\ InRedis' /\ AllBounded'
  BY DEF IInv, OwnLimiters, InMemory, InRedis, AllBounded
<1> QED BY <1>1, <1>2, <1>3 DEF IInv
\* The middleware takes the key and, for Redis, the time.
LEMMA MiddlewareKeeps == ASSUME IInv, NEW r \in Requests, Middleware(r) PROVE IInv'
<1>1. /\ pass[r] \in Pass /\ backend \in Backends /\ clock \in Int
      /\ Phase(r) /\ In(r, "new") /\ MaxDelay \in Nat
  BY LimitsAssumption DEF IInv, LimiterTypeOK, Middleware, Phases
<1>0. Key(r) \in Keys
  BY KeyType DEF IInv
<1>2. /\ pass' = [pass EXCEPT ![r] = pass'[r]] /\ pass'[r] \in Pass
      /\ pass'[r].step = IF backend = "redis" THEN "eval" ELSE "look"
      /\ backend = "redis" => pass'[r].now = clock
  BY <1>0, <1>1 DEF IInv, LimiterTypeOK, Middleware, Pass, PassSteps
<1>3. Phase(r)'
  BY <1>1, <1>2 DEF Phase, In, Middleware, Backends
<1> QED BY <1>2, <1>3, MoveKeeps DEF Middleware

\* A request that has found a limiter holds the one of its key.
LEMMA LookKeeps == ASSUME IInv, NEW r \in Requests, LookLimiter(r) PROVE IInv'
<1>1. /\ pass[r] \in Pass /\ limiters[pass[r].key] \in Requests \cup {None}
      /\ Phase(r) /\ In(r, "look")
  BY DEF IInv, LimiterTypeOK, LookLimiter, Phases, Pass
<1>2. /\ pass' = [pass EXCEPT ![r] = pass'[r]] /\ pass'[r] \in Pass
      /\ pass'[r].key = pass[r].key /\ pass'[r].lim = limiters[pass[r].key]
      /\ pass'[r].step = IF pass'[r].lim = None THEN "make" ELSE "allow"
  BY <1>1 DEF IInv, LimiterTypeOK, LookLimiter, Pass, PassSteps
<1>3. Phase(r)'
  BY <1>1, <1>2 DEF Phase, In, LookLimiter
<1> QED BY <1>2, <1>3, MoveKeeps DEF LookLimiter

\* A limiter is made for a key that has none, by a request that has made none.
LEMMA MakeKeeps == ASSUME IInv, NEW r \in Requests, MakeLimiter(r) PROVE IInv'
<1>1. /\ pass[r] \in Pass /\ pass[r].key \in Keys /\ Phase(r) /\ In(r, "make")
      /\ backend = "memory" /\ clock \in Int /\ limiters[pass[r].key] \in Requests \cup {None}
      /\ UNCHANGED <<backend, clock, user, redis, grants>>
  BY DEF IInv, LimiterTypeOK, MakeLimiter, Phases, Pass, Phase, In
<1>. DEFINE kr == pass[r].key
<1>2. CASE limiters[kr] = None
  <2>1. /\ limiters' = [limiters EXCEPT ![kr] = r]
        /\ memory' = [memory EXCEPT ![r] = FullBucket(clock)]
        /\ pass' = [pass EXCEPT ![r] = [@ EXCEPT !.lim = r, !.step = "allow"]]
    BY <1>2 DEF MakeLimiter, NewLimiter
  <2>2. /\ pass'[r] \in Pass /\ pass'[r].key = kr /\ pass'[r].lim = r /\ pass'[r].step = "allow"
        /\ pass' \in [Requests -> Pass]
        /\ \A q \in Requests \ {r} : pass'[q] = pass[q]
    BY <2>1, <1>1 DEF IInv, LimiterTypeOK, Pass, PassSteps
  <2>3. LimiterTypeOK'
    BY <2>1, <2>2, <1>1, FullType DEF IInv, LimiterTypeOK
  <2>4. limiters'[kr] = r /\ \A k \in Keys \ {kr} : limiters'[k] = limiters[k] /\ limiters[k] # r
    BY <2>1, <1>1 DEF IInv, LimiterTypeOK, Phase, In
  <2>5. Phases'
    <3> SUFFICES ASSUME NEW q \in Requests PROVE Phase(q)'
      BY DEF Phases
    <3>1. CASE q = r
      BY <3>1, <2>2, <2>4, <1>1 DEF Phase, In
    <3>2. CASE q # r
      <4>1. Phase(q) /\ pass'[q] = pass[q] /\ pass[q].key \in Keys
        BY <3>2, <2>2 DEF IInv, Phases, LimiterTypeOK, Pass
      <4>2. In(q, "allow") => pass[q].key # kr
        BY <4>1, <1>2, NoneAssumption DEF Phase
      <4> QED BY <4>1, <4>2, <3>2, <2>4, <1>1 DEF Phase, In
    <3> QED BY <3>1, <3>2
  <2>6. OwnLimiters'
    BY <2>4 DEF IInv, OwnLimiters
  <2>7. InMemory'
    <3> SUFFICES ASSUME NEW k \in Keys
                 PROVE  IF limiters'[k] = None THEN grants[k] = <<>>
                        ELSE Sound(grants[k], memory'[limiters'[k]], clock)
      BY <1>1 DEF InMemory
    <3>1. CASE k = kr
      <4>1. memory'[limiters'[k]] = FullBucket(clock)
        BY <3>1, <2>1, <2>4 DEF IInv, LimiterTypeOK
      <4>2. grants[k] = <<>>
        BY <3>1, <1>1, <1>2 DEF IInv, InMemory
      <4>3. FullBucket(clock).used <= clock
        BY <1>1 DEF FullBucket
      <4>4. limiters'[k] # None
        BY <3>1, <2>4, NoneAssumption
      <4> QED BY <4>1, <4>2, <4>3, <4>4, <1>1, FullType DEF Sound
    <3>2. CASE k # kr
      <4>1. limiters'[k] = limiters[k] /\ limiters[k] # r
        BY <3>2, <2>4
      <4>2. limiters[k] # None => memory'[limiters[k]] = memory[limiters[k]]
        BY <4>1, <2>1 DEF IInv, LimiterTypeOK
      <4> QED BY <4>1, <4>2, <1>1 DEF IInv, InMemory
    <3> QED BY <3>1, <3>2
  <2>8. InRedis' /\ AllBounded'
    BY <1>1 DEF IInv, InRedis, AllBounded
  <2> QED BY <2>3, <2>5, <2>6, <2>7, <2>8 DEF IInv
<1>3. CASE limiters[kr] # None
  <2>1. /\ pass' = [pass EXCEPT ![r] = [@ EXCEPT !.lim = limiters[kr], !.step = "allow"]]
        /\ UNCHANGED <<limiters, memory>>
    BY <1>3 DEF MakeLimiter
  <2>2. /\ pass' = [pass EXCEPT ![r] = pass'[r]] /\ pass'[r] \in Pass
        /\ pass'[r].key = kr /\ pass'[r].lim = limiters[kr] /\ pass'[r].step = "allow"
    BY <2>1, <1>1 DEF IInv, LimiterTypeOK, Pass, PassSteps
  <2>3. Phase(r)'
    BY <2>1, <2>2, <1>1, <1>3 DEF Phase, In
  <2> QED BY <2>1, <2>2, <2>3, <1>1, MoveKeeps
<1> QED BY <1>2, <1>3
\* Charging the bucket in memory.
LEMMA AllowKeeps == ASSUME IInv, NEW r \in Requests, AllowMemory(r) PROVE IInv'
<1>. DEFINE kr == pass[r].key
            l == pass[r].lim
            b == memory[l]
            ok == Allows(b, clock)
<1>1. /\ backend = "memory" /\ clock \in Int /\ kr \in Keys /\ l \in Requests
      /\ limiters[kr] = l /\ b \in Bucket /\ grants[kr] \in Seq(Int) /\ Bounded(grants[kr])
  BY DEF IInv, LimiterTypeOK, AllowMemory, Phases, Pass, Phase, In, AllBounded
<1>2. Sound(grants[kr], b, clock)
  BY <1>1, NoneAssumption DEF IInv, InMemory
<1>3. /\ memory' = [memory EXCEPT ![l] = Charged(b, clock)]
      /\ pass' = [pass EXCEPT ![r] = Outside(r, IF ok THEN "served" ELSE "refused")]
      /\ grants' = IF ok THEN [grants EXCEPT ![kr] = Append(@, clock)] ELSE grants
      /\ UNCHANGED <<backend, clock, user, limiters, redis>>
  BY DEF AllowMemory, Answer
<1>4. Charged(b, clock) \in Bucket
  BY <1>1, ChargedType
<1>5. /\ grants' \in [Keys -> Seq(Int)]
      /\ grants'[kr] = IF ok THEN Append(grants[kr], clock) ELSE grants[kr]
      /\ \A k \in Keys \ {kr} : grants'[k] = grants[k]
  BY <1>1, <1>3 DEF IInv, LimiterTypeOK
<1>6. Sound(grants'[kr], Charged(b, clock), clock) /\ Bounded(grants'[kr])
  BY <1>1, <1>2, <1>5, ChargeKeeps
<1>. HIDE DEF ok
<1>7. /\ pass' \in [Requests -> Pass]
      /\ pass'[r].step \in {"served", "refused"}
      /\ \A q \in Requests \ {r} : pass'[q] = pass[q]
  BY <1>3, OutsideType DEF IInv, LimiterTypeOK, PassSteps
<1>8. LimiterTypeOK'
  BY <1>3, <1>4, <1>5, <1>7 DEF IInv, LimiterTypeOK
<1>9. Phases'
  <2> SUFFICES ASSUME NEW q \in Requests PROVE Phase(q)'
    BY DEF Phases
  <2>1. CASE q = r
    BY <2>1, <1>7 DEF Phase, In
  <2>2. CASE q # r
    BY <2>2, <1>3, <1>7 DEF IInv, Phases, Phase, In
  <2> QED BY <2>1, <2>2
<1>10. OwnLimiters' /\ InRedis'
  BY <1>1, <1>3 DEF IInv, OwnLimiters, InRedis
<1>11. InMemory'
  <2> SUFFICES ASSUME NEW k \in Keys
               PROVE  IF limiters[k] = None THEN grants'[k] = <<>>
                      ELSE Sound(grants'[k], memory'[limiters[k]], clock)
    BY <1>3 DEF InMemory
  <2>1. CASE k = kr
    BY <2>1, <1>1, <1>3, <1>6, NoneAssumption DEF IInv, LimiterTypeOK
  <2>2. CASE k # kr
    <3>1. limiters[k] # l
      BY <2>2, <1>1, NoneAssumption DEF IInv, OwnLimiters
    <3>2. memory'[limiters[k]] = memory[limiters[k]] \/ limiters[k] = None
      BY <3>1, <1>3 DEF IInv, LimiterTypeOK
    <3> QED BY <3>2, <2>2, <1>1, <1>5 DEF IInv, InMemory
  <2> QED BY <2>1, <2>2
<1>12. AllBounded'
  BY <1>5, <1>6 DEF IInv, AllBounded
<1> QED BY <1>8, <1>9, <1>10, <1>11, <1>12 DEF IInv

\* Charging the bucket in Redis, with the request let through, refused or kept waiting.
LEMMA ChargeRedisKeeps ==
    ASSUME IInv, NEW r \in Requests, In(r, "eval"),
           NEW b, b = Stored(pass[r].key, pass[r].now),
           redis' = [redis EXCEPT ![pass[r].key] = Charged(b, pass[r].now)],
           UNCHANGED <<backend, clock, user, limiters, memory>>,
           \/ /\ Allows(b, pass[r].now)
              /\ grants' = [grants EXCEPT ![pass[r].key] = Append(@, pass[r].now)]
           \/ grants' = grants,
           pass' \in [Requests -> Pass],
           \A q \in Requests \ {r} : pass'[q] = pass[q],
           Phase(r)'
    PROVE  IInv'
<1>. DEFINE kr == pass[r].key
            now == pass[r].now
            c == Charged(b, now)
<1>1. /\ backend = "redis" /\ clock \in Int /\ kr \in Keys /\ now \in Int
      /\ now <= clock /\ clock <= now + MaxDelay
      /\ grants[kr] \in Seq(Int) /\ Bounded(grants[kr])
  BY DEF IInv, LimiterTypeOK, Phases, Pass, Phase, AllBounded
<1>2. b \in Bucket /\ Sound(grants[kr], b, clock)
  BY <1>1, StoredSound
<1>3. c \in Bucket /\ c # None
  BY <1>1, <1>2, ChargedType, BucketAssumption
<1>4. /\ grants' \in [Keys -> Seq(Int)]
      /\ \/ Allows(b, now) /\ grants'[kr] = Append(grants[kr], now)
         \/ grants'[kr] = grants[kr]
      /\ \A k \in Keys \ {kr} : grants'[k] = grants[k]
  <2>1. grants \in [Keys -> Seq(Int)]
    BY DEF IInv, LimiterTypeOK
  <2>2. CASE grants' = grants
    BY <2>1, <2>2
  <2>3. CASE Allows(b, now) /\ grants' = [grants EXCEPT ![kr] = Append(@, now)]
    <3>1. Append(grants[kr], now) \in Seq(Int)
      BY <1>1
    <3>2. Allows(b, now)
      BY <2>3
    <3>3. /\ grants' \in [Keys -> Seq(Int)]
          /\ grants'[kr] = Append(grants[kr], now)
          /\ \A k \in Keys \ {kr} : grants'[k] = grants[k]
      BY <3>1, <2>1, <2>3, <1>1
    <3> QED BY <3>2, <3>3
  <2> QED BY <2>2, <2>3
<1>5. Sound(grants'[kr], c, clock) /\ Bounded(grants'[kr])
  <2>. DEFINE h == IF Allows(b, now) THEN Append(grants[kr], now) ELSE grants[kr]
  <2>1. Sound(h, c, clock) /\ Bounded(h)
    BY <1>1, <1>2, ChargeKeeps
  <2>2. CASE grants'[kr] = h
    BY <2>1, <2>2
  <2>3. CASE grants'[kr] # h
    <3>1. grants'[kr] = grants[kr] /\ h = Append(grants[kr], now)
      BY <2>3, <1>4
    <3>2. Paid(grants[kr], c)
      BY <3>1, <2>1, <1>1, <1>3, FewerPaid DEF Sound
    <3> QED BY <3>1, <3>2, <2>1, <1>1 DEF Sound
  <2> QED BY <2>2, <2>3
<1>. HIDE DEF c
<1>6. LimiterTypeOK'
  BY <1>1, <1>3, <1>4 DEF IInv, LimiterTypeOK, c
<1>7. Phases'
  <2> SUFFICES ASSUME NEW q \in Requests, q # r PROVE Phase(q)'
    BY DEF Phases
  <2> QED BY DEF IInv, Phases, Phase, In
<1>8. OwnLimiters' /\ InMemory'
  BY <1>1 DEF IInv, OwnLimiters, InMemory
<1>9. InRedis'
  <2> SUFFICES ASSUME NEW k \in Keys
               PROVE  IF redis'[k] = None THEN grants'[k] = <<>>
                      ELSE Sound(grants'[k], redis'[k], clock)
    BY DEF InRedis
  <2>1. CASE k = kr
    <3>1. redis'[k] = c
      BY <2>1, <1>1 DEF IInv, LimiterTypeOK, c
    <3> QED BY <3>1, <2>1, <1>3, <1>5
  <2>2. CASE k # kr
    <3>1. redis'[k] = redis[k] /\ grants'[k] = grants[k]
      BY <2>2, <1>1, <1>4 DEF IInv, LimiterTypeOK
    <3> QED BY <3>1, <1>1 DEF IInv, InRedis
  <2> QED BY <2>1, <2>2
<1>10. AllBounded'
  BY <1>4, <1>5 DEF IInv, AllBounded
<1> QED BY <1>6, <1>7, <1>8, <1>9, <1>10 DEF IInv
\* The script's reply arrives.
LEMMA EvalKeeps == ASSUME IInv, NEW r \in Requests, EvalRedis(r) PROVE IInv'
<1>. DEFINE b == Stored(pass[r].key, pass[r].now)
            s == IF Allows(b, pass[r].now) THEN "served" ELSE "refused"
<1>1. /\ In(r, "eval")
      /\ redis' = [redis EXCEPT ![pass[r].key] = Charged(b, pass[r].now)]
      /\ pass' = [pass EXCEPT ![r] = Outside(r, s)]
      /\ UNCHANGED <<backend, clock, user, limiters, memory>>
  BY DEF EvalRedis, Answer
<1>2. \/ /\ Allows(b, pass[r].now)
         /\ grants' = [grants EXCEPT ![pass[r].key] = Append(@, pass[r].now)]
      \/ grants' = grants
  BY DEF EvalRedis, Answer
<1>3. s \in {"served", "refused"}
  OBVIOUS
<1>. HIDE DEF b, s
<1>4. /\ pass' \in [Requests -> Pass]
      /\ pass'[r].step = s
      /\ \A q \in Requests \ {r} : pass'[q] = pass[q]
  BY <1>1, <1>3, OutsideType DEF IInv, LimiterTypeOK, PassSteps
<1>5. Phase(r)'
  BY <1>3, <1>4 DEF Phase, In
<1> QED BY <1>1, <1>2, <1>4, <1>5, ChargeRedisKeeps DEF b

\* A call fails, with the script run or not.
LEMMA ErrorKeeps == ASSUME IInv, NEW r \in Requests, EvalError(r) PROVE IInv'
<1>. DEFINE b == Stored(pass[r].key, pass[r].now)
<1>1. In(r, "eval") /\ UNCHANGED <<backend, clock, user, limiters, memory, grants>>
  BY DEF EvalError
<1>2. redis' = [redis EXCEPT ![pass[r].key] = Charged(b, pass[r].now)] \/ redis' = redis
  BY DEF EvalError
<1>3. /\ pass' = [pass EXCEPT ![r] = pass'[r]] /\ pass'[r] \in Pass
      /\ pass' \in [Requests -> Pass]
      /\ \A q \in Requests \ {r} : pass'[q] = pass[q]
      /\ \/ pass'[r].step = "refused"
         \/ pass'[r].step = "eval" /\ pass'[r].now = pass[r].now
  <2>1. pass \in [Requests -> Pass] /\ pass[r] \in Pass /\ pass[r].tries \in Int /\ pass[r].step = "eval"
    BY <1>1 DEF IInv, LimiterTypeOK, Pass, In
  <2>2. CASE pass[r].tries < MaxRetries
    <3>1. pass' = [pass EXCEPT ![r].tries = @ + 1]
      BY <2>2 DEF EvalError
    <3> QED BY <3>1, <2>1 DEF Pass
  <2>3. CASE ~(pass[r].tries < MaxRetries)
    <3>1. pass' = [pass EXCEPT ![r] = Outside(r, "refused")]
      BY <2>3 DEF EvalError
    <3>2. Outside(r, "refused") \in Pass /\ Outside(r, "refused").step = "refused"
      BY OutsideType DEF PassSteps
    <3> QED BY <3>1, <3>2, <2>1
  <2> QED BY <2>2, <2>3
<1>4. Phase(r)'
  <2>1. Phase(r)
    BY DEF IInv, Phases
  <2> QED BY <2>1, <1>1, <1>3 DEF Phase, In
<1>5. CASE redis' = redis
  BY <1>5, <1>1, <1>3, <1>4, MoveKeeps
<1>6. CASE redis' = [redis EXCEPT ![pass[r].key] = Charged(b, pass[r].now)]
  BY <1>6, <1>1, <1>3, <1>4, ChargeRedisKeeps
<1> QED BY <1>2, <1>5, <1>6

\* The user of a request matters to its next pass only.
LEMMA AuthenticateKeeps ==
    ASSUME IInv, NEW r \in Requests, NEW u \in Users, Authenticate(r, u)
    PROVE  IInv'
<1>1. LimiterTypeOK'
  BY DEF IInv, LimiterTypeOK, Authenticate
<1>2. Phases' /\ OwnLimiters' /\ InMemory' /\ InRedis' /\ AllBounded'
  BY DEF IInv, Phases, Phase, In, OwnLimiters, InMemory, InRedis, AllBounded, Authenticate
<1> QED BY <1>1, <1>2 DEF IInv

\* Every step of the limiter keeps the invariant.
LEMMA NextIInv == IInv /\ [LimiterNext]_limiterVars => IInv'
<1> SUFFICES ASSUME IInv, [LimiterNext]_limiterVars PROVE IInv'
  OBVIOUS
<1>1. CASE Tick
  BY <1>1, TickKeeps
<1>2. CASE RestartGateway
  BY <1>2, RestartKeeps
<1>3. ASSUME NEW r \in Requests, Middleware(r) PROVE IInv'
  BY <1>3, MiddlewareKeeps
<1>4. ASSUME NEW r \in Requests, LimiterStep(r) PROVE IInv'
  BY <1>4, LookKeeps, MakeKeeps, AllowKeeps, EvalKeeps, ErrorKeeps DEF LimiterStep
<1>5. ASSUME NEW r \in Requests, NEW u \in Users, Authenticate(r, u) PROVE IInv'
  BY <1>5, AuthenticateKeeps
<1>6. CASE UNCHANGED limiterVars
  <2>1. LimiterTypeOK'
    BY <1>6 DEF IInv, LimiterTypeOK, limiterVars
  <2>2. Phases' /\ OwnLimiters' /\ InMemory' /\ InRedis' /\ AllBounded'
    BY <1>6 DEF IInv, Phases, Phase, In, OwnLimiters, InMemory, InRedis, AllBounded, limiterVars
  <2> QED BY <2>1, <2>2 DEF IInv
<1> QED BY <1>1, <1>2, <1>3, <1>4, <1>5, <1>6 DEF LimiterNext

\* The invariant bounds the grants of every span of time.
LEMMA IInvBound == IInv => WindowBound
<1> SUFFICES ASSUME IInv, NEW k \in Keys, NEW i \in DOMAIN grants[k], NEW j \in DOMAIN grants[k], i <= j
             PROVE  j - i + 1 <= Burst + Rate * (grants[k][j] - grants[k][i])
  BY DEF WindowBound
<1>1. grants[k] \in Seq(Int) /\ Bounded(grants[k])
  BY DEF IInv, LimiterTypeOK, AllBounded
<1>2. DOMAIN grants[k] = 1 .. Len(grants[k])
  BY <1>1
<1>3. j - i + 1 <= Burst + Refill(grants[k][j] - grants[k][i])
  BY <1>1, <1>2 DEF Bounded
<1> QED BY <1>3 DEF Refill

-----------------------------------------------------------------------------
(* Theorems *)

(* The limiter's state keeps its type: in particular a request that is about to be   *)
(* charged always has a limiter, and the script always finds a bucket with integers. *)
THEOREM LimiterTypes == LimiterSpec => []LimiterTypeOK
<1>1. IInv => LimiterTypeOK
  BY DEF IInv
<1> QED BY <1>1, InitIInv, NextIInv, PTL DEF LimiterSpec

(* In any span of time a key is let through at most Burst + Rate * span times, for   *)
(* any number of requests, keys and retries, with buckets in memory or in Redis, for *)
(* any order in which requests reach their bucket, and with buckets that Redis drops *)
(* (RateLimiter.allow).                                                              *)
THEOREM LimiterBound == LimiterSpec => []WindowBound
  BY InitIInv, NextIInv, IInvBound, PTL DEF LimiterSpec

-----------------------------------------------------------------------------
(* The limiter in front of the routes *)

\* Every step is a step of the limiter, or leaves its state alone.
LEMMA LimiterSteps == [Next]_vars => [LimiterNext]_limiterVars
<1> SUFFICES ASSUME [Next]_vars PROVE [LimiterNext]_limiterVars
  OBVIOUS
<1>1. ASSUME NEW r \in Requests, SendWebhook(r) \/ AskAddress(r) PROVE LimiterNext
  BY <1>1 DEF SendWebhook, AskAddress, LimiterNext
<1>2. ASSUME NEW r \in Requests, Limited(r) PROVE LimiterNext
  BY <1>2 DEF Limited, LimiterNext
<1>3. ASSUME NEW r \in Requests, HandleDepositAddress(r) PROVE [LimiterNext]_limiterVars
  <2>1. UserOf[r] \in Users
    BY CallsAssumption
  <2>2. Authenticate(r, UserOf[r]) \/ UNCHANGED limiterVars
    BY <1>3 DEF HandleDepositAddress
  <2> QED BY <2>1, <2>2 DEF LimiterNext
<1>4. ASSUME NEW r \in Requests,
             \/ Refuse(r) \/ HandleWebhook(r) \/ Verify(r) \/ CheckNonce(r) \/ CreditWallet(r)
             \/ GetDepositAddress(r) \/ CreateDepositAddress(r)
      PROVE  UNCHANGED limiterVars
  BY <1>4 DEF Refuse, HandleWebhook, Verify, CheckNonce, CreditWallet, GetDepositAddress,
              CreateDepositAddress, OnlyReads
<1>5. ASSUME NEW r \in Requests, DepositStep(r) PROVE [LimiterNext]_limiterVars
  BY <1>3, <1>4, <1>5 DEF DepositStep
<1>6. CASE UNCHANGED vars
  BY <1>6 DEF vars
<1>7. CASE Next
  <2>1. CASE Tick \/ RestartGateway
    BY <2>1 DEF LimiterNext
  <2>3. CASE DebitStake
    BY <2>3 DEF DebitStake
  <2>2. CASE ~(Tick \/ RestartGateway \/ DebitStake)
    <3>1. PICK r \in Requests : SendWebhook(r) \/ AskAddress(r) \/ Limited(r) \/ DepositStep(r)
      BY <1>7, <2>2 DEF Next
    <3> QED BY <3>1, <1>1, <1>2, <1>5
  <2> QED BY <2>1, <2>2, <2>3
<1> QED BY <1>6, <1>7

(* The routes implement the rate limiter: no route changes a bucket or lets a request *)
(* through on its own (Server.Router, RateLimiter.Middleware).                        *)
THEOREM DepositsKeepLimiter == Spec => LimiterSpec
<1>1. Init => LimiterInit
  BY DEF Init
<1> QED BY <1>1, LimiterSteps, PTL DEF Spec, LimiterSpec

(* The limiter's bound holds for the requests of the routes. *)
THEOREM DepositsBound == Spec => []WindowBound
  BY DepositsKeepLimiter, LimiterBound, PTL
-----------------------------------------------------------------------------
(* The inductive invariant *)

DepositTypes ==
    /\ sent \in [Deliveries -> Nat \cup {None}]
    /\ nonces \in [Nonces -> Nat \cup {None}]
    /\ rows \in Seq(Row)
    /\ addresses \subseteq AddressRow
    /\ calls \in [Requests -> Call]
    /\ answers \in [Requests -> Statuses \cup {None}]

\* What a webhook on its way to the wallet has passed already.
Checked(r) ==
    LET d == calls[r].delivery IN
    /\ calls[r].step \in {"verify", "nonce", "credit"} =>
         d \in Deliveries /\ sent[d] # None /\ WithinLimits(d.amount)
    /\ calls[r].step \in {"nonce", "credit"} => d.signed
    /\ At(r, "credit") => d.confirmed /\ WalletSupports(d.pair)

\* What a request for an address is about.
Asking(r) ==
    /\ calls[r].step \in {"lookup", "insert"} =>
         calls[r].delivery = None /\ user[r] \in Users /\ calls[r].pair \in Pairs
    /\ At(r, "insert") => calls[r].address \in Addresses

\* How far a request is.
Stage(r) ==
    /\ In(r, "new") => calls[r] = NoCall
    /\ ~At(r, "done") => answers[r] = None
    /\ At(r, "limiter") => IF IsWebhook(r) THEN sent[calls[r].delivery] # None
                           ELSE In(r, "new") \/ calls[r].pair \in Pairs

\* There is a transaction that stands for deposit d, or was taken for it.
Accounted(d) == Credited(d) \/ Taken(d)

\* What the answer 200 means.
Kept(r) ==
    answers[r] = 200 =>
        IF IsWebhook(r) THEN calls[r].delivery.confirmed => Accounted(calls[r].delivery)
        ELSE NewAddress(r) \in addresses

RequestInv(r) == Checked(r) /\ Asking(r) /\ Stage(r) /\ Kept(r)

\* The unique index of deposit_addresses.
OneAddress == \A a, b \in addresses : a.user = b.user /\ a.pair = b.pair => a = b

DInv ==
    /\ DepositTypes
    /\ \A r \in Requests : RequestInv(r)
    /\ CreditedOnce /\ CreditsJustified /\ OneAddress

\* Nothing is a number.
LEMMA NoneIsNothing == None \notin Deliveries /\ None \notin Pairs /\ None \notin Addresses /\ None # 200
  BY NothingAssumption

\* Initially nothing has been asked.
LEMMA InitDInv == Init => DInv
<1> SUFFICES ASSUME Init PROVE DInv
  OBVIOUS
<1>1. DepositTypes
  BY DEF Init, DepositTypes, NoCall, Call, Steps
<1>2. ASSUME NEW r \in Requests PROVE RequestInv(r)
  <2>1. calls[r] = NoCall /\ answers[r] = None /\ In(r, "new")
    BY DEF Init, LimiterInit, In, Outside
  <2> QED BY <2>1, NoneIsNothing DEF RequestInv, Checked, Asking, Stage, Kept, At, IsWebhook, NoCall
<1>3. CreditedOnce /\ CreditsJustified /\ OneAddress
  BY DEF Init, CreditedOnce, CreditsJustified, OneAddress
<1> QED BY <1>1, <1>2, <1>3 DEF DInv

\* A step of one request is about that request, its rows and its deliveries: the others
\* only see that more has been sent, credited and stored.
LEMMA OneRequest ==
    ASSUME DInv, NEW r \in Requests,
           \A q \in Requests \ {r} :
               /\ calls'[q] = calls[q] /\ answers'[q] = answers[q]
               /\ user'[q] = user[q] /\ pass'[q] = pass[q],
           \A d \in Deliveries : sent[d] # None => sent'[d] # None,
           \A d \in Deliveries : Accounted(d) => Accounted(d)',
           addresses \subseteq addresses',
           DepositTypes', RequestInv(r)', CreditedOnce', CreditsJustified', OneAddress'
    PROVE  DInv'
<1> SUFFICES ASSUME NEW q \in Requests \ {r} PROVE RequestInv(q)'
  BY DEF DInv
<1>1. /\ calls'[q] = calls[q] /\ answers'[q] = answers[q]
      /\ user'[q] = user[q] /\ pass'[q] = pass[q] /\ RequestInv(q)
      /\ calls[q] \in Call
  BY DEF DInv, DepositTypes
<1>2. calls[q].delivery \in Deliveries \cup {None}
  BY <1>1 DEF Call
<1>3. Checked(q)'
  BY <1>1 DEF RequestInv, Checked, At
<1>4. Asking(q)'
  BY <1>1 DEF RequestInv, Asking, At
<1>5. Stage(q)'
  BY <1>1, <1>2 DEF RequestInv, Stage, At, In, IsWebhook
<1>6. Kept(q)'
  <2> SUFFICES ASSUME answers[q] = 200
               PROVE  IF IsWebhook(q) THEN calls[q].delivery.confirmed => Accounted(calls[q].delivery)'
                      ELSE NewAddress(q) \in addresses'
    BY <1>1 DEF Kept, IsWebhook, NewAddress, Accounted, Credited, Taken, RowOf
  <2>1. CASE IsWebhook(q)
    <3>1. calls[q].delivery \in Deliveries
      BY <2>1, <1>2 DEF IsWebhook
    <3> QED BY <3>1, <2>1, <1>1 DEF RequestInv, Kept
  <2>2. CASE ~IsWebhook(q)
    BY <2>2, <1>1 DEF RequestInv, Kept
  <2> QED BY <2>1, <2>2
<1> QED BY <1>3, <1>4, <1>5, <1>6 DEF RequestInv

\* Inside the limiter nothing happens to a call.
LEMMA LimiterFrame ==
    ASSUME DInv, UNCHANGED <<depositVars, user>>,
           \A q \in Requests : pass'[q].step = "new" <=> pass[q].step = "new"
    PROVE  DInv'
<1>1. DepositTypes' /\ OneAddress' /\ CreditedOnce'
  BY DEF DInv, DepositTypes, OneAddress, CreditedOnce, depositVars
<1>2. CreditsJustified'
  BY DEF DInv, CreditsJustified, depositVars
<1>3. ASSUME NEW q \in Requests PROVE RequestInv(q)'
  <2>1. RequestInv(q)
    BY DEF DInv
  <2>2. Checked(q)' /\ Asking(q)'
    BY <2>1 DEF RequestInv, Checked, Asking, At, depositVars
  <2>3. Stage(q)'
    BY <2>1 DEF RequestInv, Stage, At, In, IsWebhook, depositVars
  <2>4. Kept(q)'
    BY <2>1 DEF RequestInv, Kept, IsWebhook, Accounted, Credited, Taken, RowOf, NewAddress, depositVars
  <2> QED BY <2>2, <2>3, <2>4 DEF RequestInv
<1> QED BY <1>1, <1>2, <1>3 DEF DInv

\* Ticks, restarts and the steps inside the limiter.
LEMMA LimiterDInv ==
    ASSUME DInv, LimiterTypeOK, UNCHANGED depositVars,
           Tick \/ RestartGateway \/ \E r \in Requests : LimiterStep(r)
    PROVE  DInv'
<1>1. CASE Tick
  BY <1>1, LimiterFrame DEF Tick
<1>2. CASE RestartGateway
  <2>1. \A q \in Requests : pass'[q].step = "new" <=> pass[q].step = "new"
    BY <1>2 DEF RestartGateway, Inside, Outside
  <2> QED BY <2>1, <1>2, LimiterFrame DEF RestartGateway
<1>3. ASSUME NEW r \in Requests, LimiterStep(r) PROVE DInv'
  <2>1. pass \in [Requests -> Pass] /\ pass[r] \in Pass
    BY DEF LimiterTypeOK
  <2>2. user' = user /\ pass[r].step # "new"
    BY <1>3 DEF LimiterStep, LookLimiter, MakeLimiter, AllowMemory, EvalRedis, EvalError, In
  <2>3. /\ pass'[r].step # "new"
        /\ \A q \in Requests \ {r} : pass'[q] = pass[q]
    <3>1. CASE LookLimiter(r)
      BY <3>1, <2>1 DEF LookLimiter, Pass
    <3>2. CASE MakeLimiter(r)
      BY <3>2, <2>1 DEF MakeLimiter, NewLimiter, Pass
    <3>3. CASE AllowMemory(r)
      BY <3>3, <2>1 DEF AllowMemory, Answer, Outside
    <3>4. CASE EvalRedis(r)
      BY <3>4, <2>1 DEF EvalRedis, Answer, Outside
    <3>5. CASE EvalError(r)
      <4>1. CASE pass' = [pass EXCEPT ![r].tries = @ + 1]
        BY <4>1, <2>1, <2>2 DEF Pass
      <4>2. CASE pass' = [pass EXCEPT ![r] = Outside(r, "refused")]
        BY <4>2, <2>1 DEF Outside
      <4> QED BY <4>1, <4>2, <3>5 DEF EvalError
    <3> QED BY <3>1, <3>2, <3>3, <3>4, <3>5, <1>3 DEF LimiterStep
  <2>4. \A q \in Requests : pass'[q].step = "new" <=> pass[q].step = "new"
    BY <2>2, <2>3
  <2> QED BY <2>2, <2>4, LimiterFrame
<1> QED BY <1>1, <1>2, <1>3
-----------------------------------------------------------------------------
(* Steps of a call *)

\* A call that moves to another step is otherwise the same.
LEMMA Moved ==
    ASSUME DepositTypes, NEW r \in Requests, NEW s \in Steps,
           calls' = [calls EXCEPT ![r].step = s]
    PROVE  /\ calls' \in [Requests -> Call]
           /\ calls'[r].step = s
           /\ calls'[r].delivery = calls[r].delivery
           /\ calls'[r].pair = calls[r].pair
           /\ calls'[r].address = calls[r].address
           /\ \A q \in Requests \ {r} : calls'[q] = calls[q]
  BY DEF DepositTypes, Call

\* An answer is given to one request.
LEMMA Replied ==
    ASSUME DepositTypes, NEW r \in Requests, NEW status \in Statuses, Reply(r, status)
    PROVE  /\ calls' \in [Requests -> Call]
           /\ calls'[r].step = "done"
           /\ calls'[r].delivery = calls[r].delivery
           /\ calls'[r].pair = calls[r].pair
           /\ calls'[r].address = calls[r].address
           /\ answers' \in [Requests -> Statuses \cup {None}]
           /\ answers'[r] = status
           /\ \A q \in Requests \ {r} : calls'[q] = calls[q] /\ answers'[q] = answers[q]
<1>1. calls' = [calls EXCEPT ![r].step = "done"] /\ "done" \in Steps
  BY DEF Reply, Steps
<1>2. answers' = [answers EXCEPT ![r] = status]
  BY DEF Reply
<1> QED BY <1>1, <1>2, Moved DEF DepositTypes

\* A request past the limiter is not new.
LEMMA NotNew ==
    ASSUME DInv, NEW r \in Requests, ~At(r, "limiter")
    PROVE  pass[r].step # "new"
  BY DEF DInv, RequestInv, Stage, At, In, NoCall

\* Steps that send, credit and store nothing.
LEMMA QuietStep ==
    ASSUME DInv, NEW r \in Requests,
           UNCHANGED <<sent, rows, addresses, pass>>,
           nonces' \in [Nonces -> Nat \cup {None}],
           calls' \in [Requests -> Call],
           answers' \in [Requests -> Statuses \cup {None}],
           \A q \in Requests \ {r} :
               calls'[q] = calls[q] /\ answers'[q] = answers[q] /\ user'[q] = user[q],
           RequestInv(r)'
    PROVE  DInv'
<1>1. DepositTypes' /\ CreditedOnce' /\ OneAddress'
  BY DEF DInv, DepositTypes, CreditedOnce, OneAddress
<1>2. CreditsJustified'
  BY DEF DInv, CreditsJustified
<1>3. \A d \in Deliveries : Accounted(d) => Accounted(d)'
  BY DEF Accounted, Credited, Taken, RowOf
<1>4. \A d \in Deliveries : sent[d] # None => sent'[d] # None
  OBVIOUS
<1>5. \A q \in Requests \ {r} :
        /\ calls'[q] = calls[q] /\ answers'[q] = answers[q]
        /\ user'[q] = user[q] /\ pass'[q] = pass[q]
  OBVIOUS
<1>6. addresses \subseteq addresses'
  OBVIOUS
<1> QED BY <1>1, <1>2, <1>3, <1>4, <1>5, <1>6, OneRequest

\* An answer that promises nothing.
LEMMA Declined ==
    ASSUME DInv, NEW r \in Requests, pass[r].step # "new",
           NEW status \in Statuses \ {200}, Reply(r, status),
           UNCHANGED <<sent, rows, addresses, pass>>,
           nonces' \in [Nonces -> Nat \cup {None}],
           \A q \in Requests \ {r} : user'[q] = user[q]
    PROVE  DInv'
<1>1. DepositTypes
  BY DEF DInv
<1>2. /\ calls' \in [Requests -> Call]
      /\ calls'[r].step = "done"
      /\ answers' \in [Requests -> Statuses \cup {None}]
      /\ answers'[r] = status
      /\ \A q \in Requests \ {r} : calls'[q] = calls[q] /\ answers'[q] = answers[q]
  BY <1>1, Replied
<1>3. RequestInv(r)'
  BY <1>2 DEF RequestInv, Checked, Asking, Stage, Kept, At, In
<1> QED BY <1>2, <1>3, QuietStep

\* A webhook is acknowledged.
LEMMA Acknowledged ==
    ASSUME DInv, NEW r \in Requests, ~At(r, "limiter"), IsWebhook(r), Reply(r, 200),
           calls[r].delivery.confirmed => Accounted(calls[r].delivery)'
    PROVE  UNCHANGED pass => RequestInv(r)'
<1> SUFFICES ASSUME UNCHANGED pass PROVE RequestInv(r)'
  OBVIOUS
<1>1. DepositTypes /\ 200 \in Statuses
  BY DEF DInv, Statuses
<1>2. /\ calls'[r].step = "done"
      /\ calls'[r].delivery = calls[r].delivery
      /\ answers'[r] = 200
  BY <1>1, Replied
<1>3. Checked(r)' /\ Asking(r)'
  BY <1>2 DEF Checked, Asking, At
<1>4. Stage(r)'
  BY <1>2, NotNew DEF Stage, At, In
<1>5. Kept(r)'
  BY <1>2 DEF Kept, IsWebhook, Accounted, Credited, Taken, RowOf
<1> QED BY <1>3, <1>4, <1>5 DEF RequestInv

\* A call goes on to its next step.
LEMMA WentOn ==
    ASSUME DInv, NEW r \in Requests, NEW s \in Steps \ {"limiter", "done"}, pass[r].step # "new",
           ~At(r, "done"), Goto(r, s), UNCHANGED <<sent, rows, addresses, pass>>,
           nonces' \in [Nonces -> Nat \cup {None}],
           \A q \in Requests \ {r} : user'[q] = user[q],
           Checked(r)', Asking(r)'
    PROVE  DInv'
<1>1. DepositTypes /\ answers[r] = None /\ answers' = answers
  BY DEF DInv, RequestInv, Stage, Goto
<1>2. /\ calls' \in [Requests -> Call]
      /\ calls'[r].step = s
      /\ \A q \in Requests \ {r} : calls'[q] = calls[q]
  BY <1>1, Moved DEF Goto
<1>3. RequestInv(r)'
  BY <1>1, <1>2, NoneIsNothing DEF RequestInv, Stage, Kept, At, In
<1> QED BY <1>1, <1>2, <1>3, QuietStep DEF DepositTypes
\* A webhook arrives.
LEMMA SendKeeps == ASSUME DInv, LimiterTypeOK, NEW r \in Requests, SendWebhook(r) PROVE DInv'
<1>1. PICK d \in Deliveries :
        /\ calls' = [calls EXCEPT ![r].delivery = d]
        /\ sent' = IF sent[d] = None THEN [sent EXCEPT ![d] = clock + d.ahead] ELSE sent
  BY DEF SendWebhook
<1>2. /\ calls[r] = NoCall /\ answers[r] = None /\ DepositTypes
      /\ pass' = [pass EXCEPT ![r] = pass'[r]] /\ pass'[r].step # "new"
  <2>1. pass[r].step = "new"
    BY DEF SendWebhook, Middleware, In
  <2>2. calls[r] = NoCall /\ answers[r] = None /\ DepositTypes
    BY <2>1 DEF DInv, RequestInv, Stage, In, At, NoCall
  <2>3. pass' = [pass EXCEPT ![r] = pass'[r]] /\ pass'[r].step # "new"
    BY DEF SendWebhook, Middleware, LimiterTypeOK
  <2> QED BY <2>2, <2>3
<1>3. clock + d.ahead \in Nat /\ clock + d.ahead # None
  BY DeliveriesAssumption, NothingAssumption DEF LimiterTypeOK, Delivery
<1>4. /\ sent' \in [Deliveries -> Nat \cup {None}] /\ sent'[d] # None
      /\ \A e \in Deliveries : sent[e] # None => sent'[e] # None
  BY <1>1, <1>2, <1>3 DEF DepositTypes
<1>5. /\ calls' \in [Requests -> Call]
      /\ calls'[r].delivery = d /\ calls'[r].step = "limiter"
      /\ \A q \in Requests \ {r} : calls'[q] = calls[q]
  BY <1>1, <1>2 DEF DepositTypes, Call, NoCall
<1>6. UNCHANGED <<nonces, rows, addresses, answers, user>>
  BY DEF SendWebhook, Middleware
<1>7. DepositTypes' /\ CreditedOnce' /\ OneAddress'
  BY <1>4, <1>5, <1>6 DEF DInv, DepositTypes, CreditedOnce, OneAddress
<1>8. CreditsJustified'
  BY <1>4, <1>6 DEF DInv, CreditsJustified
<1>9. RequestInv(r)'
  BY <1>2, <1>4, <1>5, <1>6, NoneIsNothing DEF RequestInv, Checked, Asking, Stage, Kept, At, In, IsWebhook
<1>10. \A e \in Deliveries : Accounted(e) => Accounted(e)'
  BY <1>6 DEF Accounted, Credited, Taken, RowOf
<1>11. /\ addresses \subseteq addresses'
       /\ \A q \in Requests \ {r} :
            /\ calls'[q] = calls[q] /\ answers'[q] = answers[q]
            /\ user'[q] = user[q] /\ pass'[q] = pass[q]
  BY <1>2, <1>5, <1>6 DEF LimiterTypeOK
<1> QED BY <1>4, <1>7, <1>8, <1>9, <1>10, <1>11, OneRequest

\* A user asks for an address.
LEMMA AskKeeps == ASSUME DInv, LimiterTypeOK, NEW r \in Requests, AskAddress(r) PROVE DInv'
<1>1. PICK p \in Pairs : calls' = [calls EXCEPT ![r].pair = p]
  BY DEF AskAddress
<1>2. /\ calls[r] = NoCall /\ answers[r] = None /\ DepositTypes
  BY DEF DInv, RequestInv, Stage, In, At, NoCall, AskAddress, Middleware
<1>3. pass' = [pass EXCEPT ![r] = pass'[r]] /\ pass'[r].step # "new"
  BY DEF AskAddress, Middleware, LimiterTypeOK
<1>4. /\ calls' \in [Requests -> Call]
      /\ calls'[r].delivery = None /\ calls'[r].step = "limiter" /\ calls'[r].pair = p
      /\ \A q \in Requests \ {r} : calls'[q] = calls[q]
  BY <1>1, <1>2 DEF DepositTypes, Call, NoCall
<1>5. UNCHANGED <<sent, nonces, rows, addresses, answers, user>>
  BY DEF AskAddress, Middleware
<1>6. DepositTypes' /\ CreditedOnce' /\ OneAddress'
  BY <1>4, <1>5 DEF DInv, DepositTypes, CreditedOnce, OneAddress
<1>7. CreditsJustified'
  BY <1>5 DEF DInv, CreditsJustified
<1>8. RequestInv(r)'
  BY <1>2, <1>3, <1>4, <1>5, NoneIsNothing DEF RequestInv, Checked, Asking, Stage, Kept, At, In, IsWebhook
<1>9. \A d \in Deliveries : Accounted(d) => Accounted(d)'
  BY <1>5 DEF Accounted, Credited, Taken, RowOf
<1>10. /\ addresses \subseteq addresses'
       /\ \A d \in Deliveries : sent[d] # None => sent'[d] # None
       /\ \A q \in Requests \ {r} :
            /\ calls'[q] = calls[q] /\ answers'[q] = answers[q]
            /\ user'[q] = user[q] /\ pass'[q] = pass[q]
  BY <1>3, <1>4, <1>5 DEF LimiterTypeOK
<1> QED BY <1>6, <1>7, <1>8, <1>9, <1>10, OneRequest

\* The limiter has refused a request.
LEMMA RefuseKeeps == ASSUME DInv, NEW r \in Requests, Refuse(r) PROVE DInv'
<1>1. pass[r].step # "new" /\ Reply(r, 429) /\ 429 \in Statuses \ {200}
  BY DEF Refuse, In, Statuses
<1>2. UNCHANGED <<sent, nonces, rows, addresses, pass, user>> /\ nonces \in [Nonces -> Nat \cup {None}]
  BY DEF Refuse, OnlyReads, limiterVars, DInv, DepositTypes
<1> QED BY <1>1, <1>2, Declined

\* The gateway has checked a webhook's amount.
LEMMA WebhookKeeps == ASSUME DInv, NEW r \in Requests, HandleWebhook(r) PROVE DInv'
<1>1. pass[r].step # "new" /\ At(r, "limiter") /\ IsWebhook(r)
  BY DEF HandleWebhook, In
<1>2. UNCHANGED <<sent, nonces, rows, addresses, pass, user>> /\ nonces \in [Nonces -> Nat \cup {None}]
  BY DEF HandleWebhook, OnlyReads, limiterVars, DInv, DepositTypes
<1>3. CASE WithinLimits(calls[r].delivery.amount)
  <2>1. Goto(r, "verify") /\ "verify" \in Steps \ {"limiter", "done"}
    BY <1>3 DEF HandleWebhook, Steps
  <2>2. calls'[r].step = "verify" /\ calls'[r].delivery = calls[r].delivery
    BY <2>1, Moved DEF DInv, Goto
  <2>3. calls[r].delivery \in Deliveries /\ sent[calls[r].delivery] # None
    BY <1>1 DEF DInv, DepositTypes, Call, IsWebhook, RequestInv, Stage
  <2>4. Checked(r)' /\ Asking(r)'
    BY <2>2, <2>3, <1>2, <1>3 DEF Checked, Asking, At
  <2> QED BY <2>1, <2>4, <1>1, <1>2, WentOn DEF At
<1>4. CASE ~WithinLimits(calls[r].delivery.amount)
  <2>1. Reply(r, 400) /\ 400 \in Statuses \ {200}
    BY <1>4 DEF HandleWebhook, Statuses
  <2> QED BY <2>1, <1>1, <1>2, Declined
<1> QED BY <1>3, <1>4

\* The token of a user is verified, or not.
LEMMA AddressRouteKeeps ==
    ASSUME DInv, LimiterTypeOK, NEW r \in Requests, HandleDepositAddress(r)
    PROVE  DInv'
<1>1. pass[r].step # "new" /\ At(r, "limiter") /\ ~IsWebhook(r) /\ calls[r].pair \in Pairs
  <2>1. pass[r].step # "new" /\ At(r, "limiter") /\ ~IsWebhook(r)
    BY DEF HandleDepositAddress, In
  <2> QED BY <2>1 DEF DInv, RequestInv, Stage, In
<1>2. UNCHANGED <<sent, nonces, rows, addresses>> /\ nonces \in [Nonces -> Nat \cup {None}]
  BY DEF HandleDepositAddress, DInv, DepositTypes
<1>3. /\ pass' = pass
      /\ \A q \in Requests \ {r} : user'[q] = user[q]
  BY DEF HandleDepositAddress, Authenticate, limiterVars, LimiterTypeOK
<1>4. {400, 401, 500} \subseteq Statuses \ {200}
  BY DEF Statuses
<1>5. ASSUME NEW status \in {400, 401, 500}, Reply(r, status) PROVE DInv'
  BY <1>1, <1>2, <1>3, <1>4, <1>5, Declined
<1>6. ASSUME Authenticate(r, UserOf[r]), Goto(r, "lookup") PROVE DInv'
  <2>0. "lookup" \in Steps \ {"limiter", "done"}
    BY DEF Steps
  <2>1. calls'[r].step = "lookup" /\ calls'[r].delivery = calls[r].delivery /\ calls'[r].pair = calls[r].pair
    BY <2>0, <1>6, Moved DEF DInv, Goto
  <2>2. Checked(r)'
    BY <2>1 DEF Checked, At
  <2>3. Asking(r)'
    <3>1. user'[r] = UserOf[r] /\ UserOf[r] \in Users
      BY <1>6, CallsAssumption DEF Authenticate, LimiterTypeOK
    <3> QED BY <3>1, <2>1, <1>1 DEF Asking, At, IsWebhook
  <2> QED BY <2>0, <2>2, <2>3, <1>1, <1>2, <1>3, <1>6, WentOn DEF At
<1> QED BY <1>5, <1>6 DEF HandleDepositAddress
\* The webhook's signature and time are checked.
LEMMA VerifyKeeps == ASSUME DInv, NEW r \in Requests, Verify(r) PROVE DInv'
<1>1. At(r, "verify") /\ ~At(r, "done") /\ ~At(r, "limiter") /\ pass[r].step # "new"
  BY NotNew DEF Verify, At
<1>2. UNCHANGED <<sent, nonces, rows, addresses, pass, user>> /\ nonces \in [Nonces -> Nat \cup {None}]
  BY DEF Verify, OnlyReads, limiterVars, DInv, DepositTypes
<1>3. ASSUME Reply(r, 400) PROVE DInv'
  BY <1>1, <1>2, <1>3, Declined DEF Statuses
<1>4. ASSUME Goto(r, "nonce"), calls[r].delivery.signed PROVE DInv'
  <2>1. "nonce" \in Steps \ {"limiter", "done"}
    BY DEF Steps
  <2>2. calls'[r].step = "nonce" /\ calls'[r].delivery = calls[r].delivery
    BY <2>1, <1>4, Moved DEF DInv, Goto
  <2>3. Checked(r)' /\ Asking(r)'
    BY <2>2, <1>1, <1>2, <1>4 DEF DInv, RequestInv, Checked, Asking, At
  <2> QED BY <2>1, <2>3, <1>1, <1>2, <1>4, WentOn
<1> QED BY <1>3, <1>4 DEF Verify

\* The nonce is consumed, and the webhook looked at.
LEMMA NonceKeeps == ASSUME DInv, LimiterTypeOK, NEW r \in Requests, CheckNonce(r) PROVE DInv'
<1>. DEFINE d == calls[r].delivery
<1>1. At(r, "nonce") /\ ~At(r, "done") /\ ~At(r, "limiter") /\ pass[r].step # "new"
  BY NotNew DEF CheckNonce, At
<1>2. d \in Deliveries /\ d.nonce \in Nonces /\ sent[d] # None /\ WithinLimits(d.amount) /\ d.signed
  BY <1>1, DeliveriesAssumption DEF DInv, RequestInv, Checked, At, Delivery
<1>3. UNCHANGED <<sent, rows, addresses, pass, user>>
  BY DEF CheckNonce, limiterVars
<1>4. nonces' \in [Nonces -> Nat \cup {None}]
  <2>1. clock + Window \in Nat /\ nonces \in [Nonces -> Nat \cup {None}]
    BY DepositsAssumption DEF LimiterTypeOK, DInv, DepositTypes
  <2>2. SetNonce(d.nonce) \/ nonces' = nonces
    BY DEF CheckNonce
  <2> QED BY <2>1, <2>2, <1>2 DEF SetNonce
<1>5. ASSUME Reply(r, 400) PROVE DInv'
  BY <1>1, <1>3, <1>4, <1>5, Declined DEF Statuses
<1>6. ASSUME Reply(r, 200), ~d.confirmed PROVE DInv'
  <2>1. IsWebhook(r)
    BY <1>2, NoneIsNothing DEF IsWebhook
  <2>2. RequestInv(r)'
    BY <2>1, <1>1, <1>3, <1>6, Acknowledged
  <2>3. /\ calls' \in [Requests -> Call]
        /\ answers' \in [Requests -> Statuses \cup {None}]
        /\ \A q \in Requests \ {r} : calls'[q] = calls[q] /\ answers'[q] = answers[q]
    BY <1>6, Replied DEF DInv, Statuses
  <2> QED BY <2>2, <2>3, <1>3, <1>4, QuietStep
<1>7. ASSUME Goto(r, "credit"), d.confirmed, WalletSupports(d.pair) PROVE DInv'
  <2>1. "credit" \in Steps \ {"limiter", "done"}
    BY DEF Steps
  <2>2. calls'[r].step = "credit" /\ calls'[r].delivery = d
    BY <2>1, <1>7, Moved DEF DInv, Goto
  <2>3. Checked(r)' /\ Asking(r)'
    BY <2>2, <1>2, <1>3, <1>7 DEF Checked, Asking, At
  <2> QED BY <2>1, <2>3, <1>1, <1>3, <1>4, <1>7, WentOn
<1> QED BY <1>5, <1>6, <1>7 DEF CheckNonce, Process

\* One transaction more, under a reference that is not in use or empty; a credit has its
\* webhook.
LEMMA AppendRow ==
    ASSUME DInv, NEW row \in Row, rows' = Append(rows, row), ~Referenced(row.ref), sent' = sent,
           row.deposit => \E e \in Deliveries :
                            /\ row = RowOf(e)
                            /\ sent[e] # None
                            /\ e.signed /\ e.confirmed
                            /\ WalletSupports(e.pair)
                            /\ WithinLimits(e.amount)
    PROVE  /\ rows' \in Seq(Row) /\ CreditedOnce' /\ CreditsJustified'
           /\ \A d \in Deliveries : Accounted(d) => Accounted(d)'
           /\ \E i \in DOMAIN rows' : rows'[i] = row
<1>0. rows \in Seq(Row)
  BY DEF DInv, DepositTypes
<1>1. /\ rows' \in Seq(Row) /\ DOMAIN rows' = 1 .. Len(rows) + 1 /\ DOMAIN rows = 1 .. Len(rows)
      /\ Len(rows) \in Nat
      /\ rows'[Len(rows) + 1] = row
      /\ \A i \in 1 .. Len(rows) : rows'[i] = rows[i]
  BY <1>0
<1>2. CreditedOnce'
  BY <1>1 DEF DInv, CreditedOnce, Referenced
<1>3. CreditsJustified'
  <2> SUFFICES ASSUME NEW i \in DOMAIN rows', rows'[i].deposit
               PROVE  \E e \in Deliveries :
                        /\ rows'[i] = RowOf(e)
                        /\ sent[e] # None
                        /\ e.signed /\ e.confirmed
                        /\ WalletSupports(e.pair)
                        /\ WithinLimits(e.amount)
    BY DEF CreditsJustified
  <2>1. CASE i \in 1 .. Len(rows)
    BY <2>1, <1>1 DEF DInv, CreditsJustified
  <2>2. CASE i = Len(rows) + 1
    BY <2>2, <1>1
  <2> QED BY <2>1, <2>2, <1>1
<1>4. ASSUME NEW d \in Deliveries, Accounted(d) PROVE Accounted(d)'
  <2>0. DOMAIN rows \subseteq DOMAIN rows' /\ \A i \in DOMAIN rows : rows'[i] = rows[i]
    BY <1>1
  <2>1. Credited(d) => Credited(d)'
    BY <2>0 DEF Credited, RowOf
  <2>2. Taken(d) => Taken(d)'
    BY <2>0 DEF Taken
  <2> QED BY <1>4, <2>1, <2>2 DEF Accounted
<1>5. \E i \in DOMAIN rows' : rows'[i] = row
  BY <1>1
<1> QED BY <1>1, <1>2, <1>3, <1>4, <1>5

\* The wallet credits a deposit, or has credited it before.
LEMMA CreditKeeps == ASSUME DInv, NEW r \in Requests, CreditWallet(r) PROVE DInv'
<1>. DEFINE d == calls[r].delivery
<1>1. At(r, "credit") /\ ~At(r, "limiter") /\ pass[r].step # "new"
  BY NotNew DEF CreditWallet, At
<1>2. /\ d \in Deliveries /\ d \in Delivery /\ sent[d] # None /\ WithinLimits(d.amount)
      /\ d.signed /\ d.confirmed /\ WalletSupports(d.pair)
  BY <1>1, DeliveriesAssumption DEF DInv, RequestInv, Checked, At
<1>3. UNCHANGED <<sent, nonces, addresses, pass, user>> /\ DepositTypes
  BY DEF CreditWallet, limiterVars, DInv
<1>4. PICK status \in {200, 400} : Reply(r, status)
  BY DEF CreditWallet
<1>5. /\ calls' \in [Requests -> Call]
      /\ answers' \in [Requests -> Statuses \cup {None}]
      /\ \A q \in Requests \ {r} : calls'[q] = calls[q] /\ answers'[q] = answers[q]
      /\ calls'[r].step = "done" /\ calls'[r].delivery = d /\ answers'[r] = status
  BY <1>3, <1>4, Replied DEF Statuses
<1>6. rows \in Seq(Row) /\ RowOf(d) \in Row /\ RowOf(d).ref = d.sysNo /\ RowOf(d).deposit
  BY <1>2, <1>3 DEF DepositTypes, RowOf, Row, Delivery
<1>a. rows' = rows \/ (~Referenced(d.sysNo) /\ rows' = Append(rows, RowOf(d)))
  BY DEF CreditWallet
<1>b. ASSUME ~Referenced(d.sysNo), rows' = Append(rows, RowOf(d))
      PROVE  /\ rows' \in Seq(Row) /\ CreditedOnce' /\ CreditsJustified'
             /\ \A e \in Deliveries : Accounted(e) => Accounted(e)'
             /\ \E i \in DOMAIN rows' : rows'[i] = RowOf(d)
  <2>1. PICK row : row = RowOf(d)
    OBVIOUS
  <2>2. \E e \in Deliveries : /\ row = RowOf(e)
                              /\ sent[e] # None
                              /\ e.signed /\ e.confirmed
                              /\ WalletSupports(e.pair)
                              /\ WithinLimits(e.amount)
    BY <1>2, <2>1
  <2>3. row \in Row /\ rows' = Append(rows, row) /\ ~Referenced(row.ref) /\ sent' = sent
    BY <1>b, <1>3, <1>6, <2>1
  <2> HIDE DEF d
  <2>4. /\ rows' \in Seq(Row) /\ CreditedOnce' /\ CreditsJustified'
        /\ \A e \in Deliveries : Accounted(e) => Accounted(e)'
        /\ \E i \in DOMAIN rows' : rows'[i] = row
    BY <2>2, <2>3, AppendRow
  <2> QED BY <2>1, <2>4
<1>7. /\ rows' \in Seq(Row) /\ CreditedOnce' /\ CreditsJustified'
      /\ \A e \in Deliveries : Accounted(e) => Accounted(e)'
  <2>1. CASE rows' = rows
    BY <2>1, <1>3, <1>6
    DEF DInv, CreditedOnce, CreditsJustified, Accounted, Credited, Taken, RowOf
  <2> QED BY <2>1, <1>a, <1>b
<1>8. DepositTypes' /\ OneAddress'
  BY <1>3, <1>5, <1>7 DEF DInv, DepositTypes, OneAddress
<1>9. RequestInv(r)'
  <2>1. CASE status = 200
    <3>1. ~Reply(r, 400)
      BY <2>1, <1>3, <1>5 DEF Reply, DepositTypes
    <3>2. rows' = IF Referenced(d.sysNo) THEN rows ELSE Append(rows, RowOf(d))
      BY <3>1 DEF CreditWallet
    <3>3. \E i \in DOMAIN rows' :
             rows'[i].ref = d.sysNo /\ (d.sysNo = NoSysNo => rows'[i] = RowOf(d))
      <4>1. CASE Referenced(d.sysNo)
        BY <4>1, <3>2 DEF Referenced
      <4>2. CASE ~Referenced(d.sysNo)
        <5>1. PICK i \in DOMAIN rows' : rows'[i] = RowOf(d)
          BY <4>2, <3>2, <1>b
        <5> QED BY <5>1, <1>6
      <4> QED BY <4>1, <4>2
    <3>4. Accounted(calls[r].delivery)'
      <4>1. PICK i \in DOMAIN rows' :
               rows'[i].ref = d.sysNo /\ (d.sysNo = NoSysNo => rows'[i] = RowOf(d))
        BY <3>3
      <4>2. calls'[r].delivery = d
        BY <1>5
      <4>3. CASE rows'[i].deposit
        BY <4>1, <4>2, <4>3 DEF Accounted, Credited, RowOf
      <4>4. CASE ~rows'[i].deposit
        BY <4>1, <4>2, <4>4 DEF Accounted, Taken
      <4> QED BY <4>3, <4>4
    <3>5. IsWebhook(r) /\ Reply(r, 200)
      BY <2>1, <1>2, <1>4, NoneIsNothing DEF IsWebhook
    <3> QED BY <3>4, <3>5, <1>1, <1>3, Acknowledged
  <2>2. CASE status = 400
    BY <2>2, <1>1, <1>3, <1>5 DEF RequestInv, Checked, Asking, Stage, Kept, At, In
  <2> QED BY <2>1, <2>2
<1>10. /\ addresses \subseteq addresses'
       /\ \A e \in Deliveries : sent[e] # None => sent'[e] # None
       /\ \A q \in Requests \ {r} :
            /\ calls'[q] = calls[q] /\ answers'[q] = answers[q]
            /\ user'[q] = user[q] /\ pass'[q] = pass[q]
  BY <1>3, <1>5
<1> QED BY <1>7, <1>8, <1>9, <1>10, OneRequest

\* A stake that is debited under the number of a deposit is no credit, and the only
\* transaction under it.
LEMMA DebitKeeps == ASSUME DInv, DebitStake PROVE DInv'
<1>1. PICK n \in BetRefs : \E u \in Users :
        /\ ~Referenced(n)
        /\ rows' = Append(rows, [ref |-> n, user |-> u, amount |-> 0, deposit |-> FALSE])
  BY DEF DebitStake
<1>2. PICK u \in Users :
        /\ ~Referenced(n)
        /\ rows' = Append(rows, [ref |-> n, user |-> u, amount |-> 0, deposit |-> FALSE])
  BY <1>1
<1>3. PICK row : row = [ref |-> n, user |-> u, amount |-> 0, deposit |-> FALSE]
  OBVIOUS
<1>4. row \in Row /\ row.ref = n /\ ~row.deposit /\ rows' = Append(rows, row)
  BY <1>2, <1>3, ReferencesAssumption DEF Row
<1>5. UNCHANGED <<sent, nonces, addresses, calls, answers, user, pass>>
  BY DEF DebitStake, limiterVars
<1>6. /\ rows' \in Seq(Row) /\ CreditedOnce' /\ CreditsJustified'
      /\ \A d \in Deliveries : Accounted(d) => Accounted(d)'
  BY <1>2, <1>4, <1>5, AppendRow
<1>7. DepositTypes' /\ OneAddress'
  BY <1>5, <1>6 DEF DInv, DepositTypes, OneAddress
<1>8. ASSUME NEW q \in Requests PROVE RequestInv(q)'
  <2>1. RequestInv(q) /\ calls[q] \in Call
    BY DEF DInv, DepositTypes
  <2>2. Checked(q)' /\ Asking(q)' /\ Stage(q)'
    BY <2>1, <1>5 DEF RequestInv, Checked, Asking, Stage, At, In, IsWebhook
  <2>3. CASE IsWebhook(q)
    <3>1. calls[q].delivery \in Deliveries
      BY <2>1, <2>3 DEF IsWebhook, Call
    <3>3. Accounted(calls[q].delivery) => Accounted(calls[q].delivery)'
      BY <1>5, <1>6, <3>1 DEF Accounted, Credited, Taken, RowOf
    <3> QED BY <2>1, <2>2, <2>3, <3>3, <1>5 DEF RequestInv, Kept, IsWebhook
  <2>4. CASE ~IsWebhook(q)
    BY <2>1, <2>2, <2>4, <1>5 DEF RequestInv, Kept, IsWebhook, NewAddress
  <2> QED BY <2>3, <2>4
<1> QED BY <1>6, <1>7, <1>8 DEF DInv

\* The stored address is told, or the provider asked for one.
LEMMA LookupKeeps == ASSUME DInv, NEW r \in Requests, GetDepositAddress(r) PROVE DInv'
<1>1. At(r, "lookup") /\ ~At(r, "limiter") /\ pass[r].step # "new"
  BY NotNew DEF GetDepositAddress, At
<1>2. /\ UNCHANGED <<sent, nonces, rows, addresses, pass, user>> /\ DepositTypes
      /\ nonces \in [Nonces -> Nat \cup {None}]
  BY DEF GetDepositAddress, OnlyReads, limiterVars, DInv, DepositTypes
<1>3. calls[r].delivery = None /\ user[r] \in Users /\ calls[r].pair \in Pairs /\ answers[r] = None
  BY <1>1 DEF DInv, RequestInv, Asking, Stage, At
<1>4. ASSUME NEW a \in RowsOf(user[r], calls[r].pair),
             calls' = [calls EXCEPT ![r] = [@ EXCEPT !.step = "done", !.address = a.address]],
             answers' = [answers EXCEPT ![r] = 200]
      PROVE  DInv'
  <2>1. /\ a \in addresses /\ a \in AddressRow /\ a.address \in Addresses
        /\ a.user = user[r] /\ a.pair = calls[r].pair
    BY <1>2 DEF RowsOf, DepositTypes, AddressRow
  <2>2. /\ calls' \in [Requests -> Call] /\ answers' \in [Requests -> Statuses \cup {None}]
        /\ calls'[r].step = "done" /\ calls'[r].address = a.address
        /\ calls'[r].delivery = None /\ calls'[r].pair = calls[r].pair
        /\ answers'[r] = 200
        /\ \A q \in Requests \ {r} : calls'[q] = calls[q] /\ answers'[q] = answers[q]
    <3>1. PICK x \in Addresses : x = a.address
      BY <2>1
    <3>2. calls' = [calls EXCEPT ![r] = [@ EXCEPT !.step = "done", !.address = x]]
      BY <3>1, <1>4
    <3>3. /\ calls' \in [Requests -> Call]
          /\ calls'[r].step = "done" /\ calls'[r].address = x
          /\ calls'[r].delivery = None /\ calls'[r].pair = calls[r].pair
          /\ \A q \in Requests \ {r} : calls'[q] = calls[q]
      BY <3>2, <1>2, <1>3 DEF DepositTypes, Call, Steps
    <3>4. /\ answers' \in [Requests -> Statuses \cup {None}]
          /\ answers'[r] = 200
          /\ \A q \in Requests \ {r} : answers'[q] = answers[q]
      BY <1>2, <1>4 DEF DepositTypes, Statuses
    <3> QED BY <3>1, <3>3, <3>4
  <2>3. NewAddress(r)' = a
    <3>1. a = [user |-> a.user, pair |-> a.pair, address |-> a.address]
      BY <2>1 DEF AddressRow
    <3>2. NewAddress(r)' = [user |-> a.user, pair |-> a.pair, address |-> a.address]
      BY <2>1, <2>2, <1>2 DEF NewAddress
    <3> QED BY <3>1, <3>2
  <2>4. Kept(r)'
    BY <2>1, <2>2, <2>3, <1>2 DEF Kept, IsWebhook
  <2>5. Checked(r)' /\ Asking(r)' /\ Stage(r)'
    BY <2>2, <1>1, <1>2 DEF Checked, Asking, Stage, At, In
  <2> QED BY <2>2, <2>4, <2>5, <1>2, QuietStep DEF RequestInv
<1>5. ASSUME NEW a \in Addresses,
             calls' = [calls EXCEPT ![r] = [@ EXCEPT !.step = "insert", !.address = a]],
             UNCHANGED answers
      PROVE  DInv'
  <2>1. /\ calls' \in [Requests -> Call] /\ answers' \in [Requests -> Statuses \cup {None}]
        /\ calls'[r].step = "insert" /\ calls'[r].address = a
        /\ calls'[r].delivery = None /\ calls'[r].pair = calls[r].pair
        /\ answers'[r] = None
        /\ \A q \in Requests \ {r} : calls'[q] = calls[q] /\ answers'[q] = answers[q]
    BY <1>2, <1>3, <1>5 DEF DepositTypes, Call, Steps
  <2>2. Checked(r)' /\ Asking(r)' /\ Stage(r)' /\ Kept(r)'
    BY <2>1, <1>1, <1>2, <1>3, NoneIsNothing DEF Checked, Asking, Stage, Kept, At, In
  <2> QED BY <2>1, <2>2, <1>2, QuietStep DEF RequestInv
<1>6. ASSUME Reply(r, 500) PROVE DInv'
  <2>1. 500 \in Statuses \ {200}
    BY DEF Statuses
  <2> QED BY <2>1, <1>1, <1>2, <1>6, Declined
<1> QED BY <1>4, <1>5, <1>6 DEF GetDepositAddress

\* A new address is stored, or refused by the index.
LEMMA InsertKeeps == ASSUME DInv, NEW r \in Requests, CreateDepositAddress(r) PROVE DInv'
<1>1. At(r, "insert") /\ ~At(r, "limiter") /\ pass[r].step # "new"
  BY NotNew DEF CreateDepositAddress, At
<1>2. /\ UNCHANGED <<sent, nonces, rows, pass, user>> /\ DepositTypes
      /\ nonces \in [Nonces -> Nat \cup {None}]
  BY DEF CreateDepositAddress, limiterVars, DInv, DepositTypes
<1>3. /\ calls[r].delivery = None /\ user[r] \in Users /\ calls[r].pair \in Pairs
      /\ calls[r].address \in Addresses
  BY <1>1 DEF DInv, RequestInv, Asking, At
<1>4. ASSUME addresses' = addresses, Reply(r, 500) PROVE DInv'
  <2>1. 500 \in Statuses \ {200}
    BY DEF Statuses
  <2> QED BY <2>1, <1>1, <1>2, <1>4, Declined
<1>5. ASSUME RowsOf(user[r], calls[r].pair) = {},
             addresses' = addresses \cup {NewAddress(r)},
             NEW status \in {200, 500}, Reply(r, status)
      PROVE  DInv'
  <2>1. /\ NewAddress(r) \in AddressRow
        /\ NewAddress(r).user = user[r] /\ NewAddress(r).pair = calls[r].pair
    BY <1>3 DEF NewAddress, AddressRow
  <2>2. /\ calls' \in [Requests -> Call] /\ answers' \in [Requests -> Statuses \cup {None}]
        /\ calls'[r].step = "done" /\ calls'[r].address = calls[r].address
        /\ calls'[r].delivery = None /\ calls'[r].pair = calls[r].pair
        /\ answers'[r] = status
        /\ \A q \in Requests \ {r} : calls'[q] = calls[q] /\ answers'[q] = answers[q]
    <3>1. status \in Statuses
      BY DEF Statuses
    <3> QED BY <3>1, <1>2, <1>3, <1>5, Replied
  <2>3. OneAddress'
    <3>1. \A a \in addresses : ~(a.user = user[r] /\ a.pair = calls[r].pair)
      BY <1>5 DEF RowsOf
    <3> QED BY <3>1, <2>1, <1>5 DEF DInv, OneAddress
  <2>4. DepositTypes'
    BY <2>1, <2>2, <1>2, <1>5 DEF DepositTypes
  <2>5. NewAddress(r)' = NewAddress(r)
    BY <2>2, <1>2 DEF NewAddress
  <2>6. RequestInv(r)'
    <3>1. Kept(r)'
      BY <2>2, <2>5, <1>5 DEF Kept, IsWebhook
    <3>2. Checked(r)' /\ Asking(r)' /\ Stage(r)'
      BY <2>2, <1>1, <1>2 DEF Checked, Asking, Stage, At, In
    <3> QED BY <3>1, <3>2 DEF RequestInv
  <2>7. CreditedOnce' /\ CreditsJustified' /\ \A d \in Deliveries : Accounted(d) => Accounted(d)'
    BY <1>2 DEF DInv, CreditedOnce, CreditsJustified, Accounted, Credited, Taken, RowOf
  <2>8. /\ addresses \subseteq addresses'
        /\ \A e \in Deliveries : sent[e] # None => sent'[e] # None
        /\ \A q \in Requests \ {r} :
             /\ calls'[q] = calls[q] /\ answers'[q] = answers[q]
             /\ user'[q] = user[q] /\ pass'[q] = pass[q]
    BY <2>2, <1>2, <1>5
  <2> QED BY <2>3, <2>4, <2>6, <2>7, <2>8, OneRequest
<1> QED BY <1>4, <1>5 DEF CreateDepositAddress

\* Every step keeps the invariant.
LEMMA NextDInv == DInv /\ LimiterTypeOK /\ [Next]_vars => DInv'
<1> SUFFICES ASSUME DInv, LimiterTypeOK, [Next]_vars PROVE DInv'
  OBVIOUS
<1>1. CASE (Tick \/ RestartGateway) /\ UNCHANGED depositVars
  BY <1>1, LimiterDInv
<1>2. ASSUME NEW r \in Requests, SendWebhook(r) \/ AskAddress(r) PROVE DInv'
  BY <1>2, SendKeeps, AskKeeps
<1>3. ASSUME NEW r \in Requests, Limited(r) PROVE DInv'
  BY <1>3, LimiterDInv DEF Limited
<1>4. ASSUME NEW r \in Requests, DepositStep(r) PROVE DInv'
  BY <1>4, RefuseKeeps, WebhookKeeps, AddressRouteKeeps, VerifyKeeps, NonceKeeps, CreditKeeps,
     LookupKeeps, InsertKeeps DEF DepositStep
<1>6. CASE DebitStake
  BY <1>6, DebitKeeps
<1>5. CASE UNCHANGED vars
  <2>1. UNCHANGED <<depositVars, user, pass>>
    BY <1>5 DEF vars, limiterVars
  <2> QED BY <2>1, LimiterFrame
<1> QED BY <1>1, <1>2, <1>3, <1>4, <1>5, <1>6 DEF Next

-----------------------------------------------------------------------------
(* Theorems *)

(* What a request has passed and what its answer means hold throughout, for any number *)
(* of requests and webhooks, and failures anywhere.                                    *)
THEOREM DepositsInvariant == Spec => [](LimiterTypeOK /\ DInv)
<1>1. Spec => []LimiterTypeOK
  BY DepositsKeepLimiter, LimiterTypes, PTL
<1> QED BY <1>1, InitDInv, NextDInv, PTL DEF Spec

(* Every state of gateway and wallet has the declared types: in particular an address *)
(* that is stored is one the provider has handed out (Service.GetDepositAddress).     *)
THEOREM DepositsTypeOK == Spec => []TypeOK
<1>1. LimiterTypeOK /\ DInv => TypeOK
  BY DEF DInv, DepositTypes, TypeOK
<1> QED BY <1>1, DepositsInvariant, PTL

(* A deposit with a number is credited at most once, whatever the provider repeats or *)
(* signs again and whatever bets use as references.                                   *)
THEOREM DepositsCreditedOnce == Spec => []CreditedOnce
<1>1. LimiterTypeOK /\ DInv => CreditedOnce
  BY DEF DInv
<1> QED BY <1>1, DepositsInvariant, PTL

(* Every credit has a signed webhook that passed every check of gateway and wallet. *)
THEOREM DepositsCreditsJustified == Spec => []CreditsJustified
<1>1. LimiterTypeOK /\ DInv => CreditsJustified
  BY DEF DInv
<1> QED BY <1>1, DepositsInvariant, PTL

(* A webhook of a confirmed deposit is acknowledged only once it is credited, unless *)
(* a bet's debit holds its number (PGStore.CreditWallet's lookup).                   *)
THEOREM DepositsAckedIsCredited == Spec => []AckedIsCredited
<1>1. LimiterTypeOK /\ DInv => AckedIsCredited
  BY DEF DInv, RequestInv, Kept, AckedIsCredited, Accounted
<1> QED BY <1>1, DepositsInvariant, PTL

(* The address a user is told is the one and only address stored for the user. *)
THEOREM DepositsToldIsStored == Spec => []ToldIsStored
<1>1. LimiterTypeOK /\ DInv => ToldIsStored
  <2> SUFFICES ASSUME DInv, NEW r \in Requests, ~IsWebhook(r), answers[r] = 200
               PROVE  RowsOf(user[r], calls[r].pair) = {NewAddress(r)}
    BY DEF ToldIsStored
  <2>1. NewAddress(r) \in addresses
    BY DEF DInv, RequestInv, Kept
  <2>2. NewAddress(r).user = user[r] /\ NewAddress(r).pair = calls[r].pair
    BY DEF NewAddress
  <2>3. \A a \in RowsOf(user[r], calls[r].pair) : a = NewAddress(r)
    BY <2>1, <2>2 DEF DInv, OneAddress, RowsOf
  <2>4. NewAddress(r) \in RowsOf(user[r], calls[r].pair)
    BY <2>1, <2>2 DEF RowsOf
  <2> QED BY <2>3, <2>4
<1> QED BY <1>1, DepositsInvariant, PTL
=============================================================================
