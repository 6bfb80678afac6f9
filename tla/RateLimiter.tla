----------------------------- MODULE RateLimiter -----------------------------
(***************************************************************************)
(* The gateway's rate limiter (internal/gateway/ratelimit.go), which every *)
(* HTTP request passes before anything else.  A token bucket per key is    *)
(* kept in the memory of the gateway or in Redis, as configured.           *)
(*                                                                         *)
(* A request makes one pass: it reads the clock and finds its bucket in    *)
(* steps of its own, so the bucket may have moved on when it is charged.   *)
(* Time is in whole seconds, tokens are whole because both rates are.      *)
(***************************************************************************)
EXTENDS Integers, Sequences

CONSTANTS
    Requests,     \* HTTP requests
    IPs, Users,   \* client addresses and user identities
    IPOf,         \* the address each request comes from
    None,         \* no user, no limiter, no bucket
    RPS,          \* RATE_LIMIT_RPS
    ConfBurst,    \* RATE_LIMIT_BURST
    Expiry,       \* seconds after its last use that Redis drops a bucket
    MaxRetries,   \* times the Redis client repeats a call
    MaxDelay,     \* seconds a call to Redis lasts at most, by its timeouts
    MaxClock      \* bound on the clock

DefaultRPS == 100

\* NewRateLimiter replaces settings that are not positive.
Rate == IF RPS <= 0 THEN DefaultRPS ELSE RPS
Burst == IF ConfBurst <= 0 THEN Rate ELSE ConfBurst

ASSUME SettingsAssumption == RPS \in Int /\ ConfBurst \in Int
ASSUME LimitsAssumption == MaxRetries \in Nat /\ MaxDelay \in Nat /\ MaxClock \in Nat
ASSUME IPAssumption == IPOf \in [Requests -> IPs]
ASSUME NoneAssumption == None \notin Requests \cup Users

\* A bucket dropped by Redis would have been full again.
ASSUME ExpiryAssumption == Expiry \in Nat /\ Burst <= Rate * (Expiry - MaxDelay)

Backends == {"memory", "redis"}

Keys == (IPs \X {None}) \cup (IPs \X Users)

VARIABLES
    backend,   \* RATE_LIMIT_BACKEND
    clock,     \* seconds
    pass,      \* where each request is in the limiter
    user,      \* the user in the context of each request
    limiters,  \* memory: the limiter of each key, named by the request that made it
    memory,    \* memory: the buckets of the limiters
    redis,     \* redis: the bucket of each key
    grants     \* history: when the requests let through had read the clock, by key

limiterVars == <<backend, clock, pass, user, limiters, memory, redis, grants>>

Bucket == [tokens : Int, ts : Int, used : Int]

ASSUME BucketAssumption == None \notin Bucket

NoBucket == [tokens |-> 0, ts |-> 0, used |-> 0]

PassSteps == {"new", "look", "make", "allow", "eval", "served", "refused", "lost"}

\* now: the clock as the request read it; lim: the limiter it will use.
Pass == [step : PassSteps, key : Keys, now : Int, tries : Int, lim : Requests \cup {None}]

LimiterTypeOK ==
    /\ backend \in Backends
    /\ clock \in Nat
    /\ pass \in [Requests -> Pass]
    /\ user \in [Requests -> Users \cup {None}]
    /\ limiters \in [Keys -> Requests \cup {None}]
    /\ memory \in [Requests -> Bucket]
    /\ redis \in [Keys -> Bucket \cup {None}]
    /\ grants \in [Keys -> Seq(Int)]

\* A request outside the limiter.
Outside(r, s) == [step |-> s, key |-> <<IPOf[r], None>>, now |-> 0, tries |-> 0, lim |-> None]

\* The key of a request: its address, with its user when the context has one.
Key(r) == <<IPOf[r], user[r]>>

LimiterInit ==
    /\ backend \in Backends
    /\ clock = 0
    /\ user = [r \in Requests |-> None]
    /\ pass = [r \in Requests |-> Outside(r, "new")]
    /\ limiters = [k \in Keys |-> None]
    /\ memory = [r \in Requests |-> NoBucket]
    /\ redis = [k \in Keys |-> None]
    /\ grants = [k \in Keys |-> <<>>]

-----------------------------------------------------------------------------
(* Token buckets. *)

FullBucket(now) == [tokens |-> Burst, ts |-> now, used |-> now]

\* Tokens at time now; a clock read earlier than the last use takes tokens back.
Refilled(b, now) ==
    LET sum == b.tokens + (now - b.ts) * Rate IN IF sum > Burst THEN Burst ELSE sum

Allows(b, now) == Refilled(b, now) >= 1

\* The bucket after a request at time now, let through or not.
Charged(b, now) ==
    [tokens |-> IF Allows(b, now) THEN Refilled(b, now) - 1 ELSE Refilled(b, now),
     ts |-> now, used |-> clock]

-----------------------------------------------------------------------------
(* Steps of a request. *)

In(r, s) == pass[r].step = s

Inside(r) == pass[r].step \in {"look", "make", "allow", "eval"}

\* The answer to a request whose bucket allows it or not.
Answer(r, ok, now) ==
    /\ pass' = [pass EXCEPT ![r] = Outside(r, IF ok THEN "served" ELSE "refused")]
    /\ grants' = IF ok THEN [grants EXCEPT ![pass[r].key] = Append(@, now)] ELSE grants

\* The middleware takes the key of the request and asks the configured backend.
Middleware(r) ==
    /\ In(r, "new")
    /\ pass' = [pass EXCEPT ![r] =
                  [step |-> IF backend = "redis" THEN "eval" ELSE "look", key |-> Key(r),
                   now |-> IF backend = "redis" THEN clock ELSE 0, tries |-> 0, lim |-> None]]
    /\ UNCHANGED <<backend, clock, user, limiters, memory, redis, grants>>

\* getLimiter, under the read lock.
LookLimiter(r) ==
    /\ In(r, "look")
    /\ LET l == limiters[pass[r].key] IN
       pass' = [pass EXCEPT ![r] =
                  [@ EXCEPT !.lim = l, !.step = IF l = None THEN "make" ELSE "allow"]]
    /\ UNCHANGED <<backend, clock, user, limiters, memory, redis, grants>>

NewLimiter(r) ==
    /\ limiters' = [limiters EXCEPT ![pass[r].key] = r]
    /\ memory' = [memory EXCEPT ![r] = FullBucket(clock)]
    /\ pass' = [pass EXCEPT ![r] = [@ EXCEPT !.lim = r, !.step = "allow"]]

\* Faulty variant: the write lock is taken without looking again.
MakeLimiterBlind(r) ==
    /\ In(r, "make")
    /\ NewLimiter(r)
    /\ UNCHANGED <<backend, clock, user, redis, grants>>

\* getLimiter, under the write lock.
MakeLimiter(r) ==
    /\ In(r, "make")
    /\ LET l == limiters[pass[r].key] IN
       \/ /\ l = None
          /\ NewLimiter(r)
       \/ /\ l # None
          /\ pass' = [pass EXCEPT ![r] = [@ EXCEPT !.lim = l, !.step = "allow"]]
          /\ UNCHANGED <<limiters, memory>>
    /\ UNCHANGED <<backend, clock, user, redis, grants>>

\* Limiter.Allow of golang.org/x/time/rate reads the clock and charges the bucket.
AllowMemory(r) ==
    /\ In(r, "allow")
    /\ LET b == memory[pass[r].lim] IN
       /\ memory' = [memory EXCEPT ![pass[r].lim] = Charged(b, clock)]
       /\ Answer(r, Allows(b, clock), clock)
    /\ UNCHANGED <<backend, clock, user, limiters, redis>>

\* The bucket the script finds: Redis drops it once its expiry has passed.
Stored(k, now) ==
    IF redis[k] = None \/ clock > redis[k].used + Expiry THEN FullBucket(now) ELSE redis[k]

\* The script runs and its reply arrives.
EvalRedis(r) ==
    /\ In(r, "eval")
    /\ LET k == pass[r].key  now == pass[r].now  b == Stored(k, now) IN
       /\ redis' = [redis EXCEPT ![k] = Charged(b, now)]
       /\ Answer(r, Allows(b, now), now)
    /\ UNCHANGED <<backend, clock, user, limiters, memory>>

\* A call to Redis fails, before or after the script has run; the client repeats it
\* with the same arguments, or the request is refused.
EvalError(r) ==
    /\ In(r, "eval")
    /\ LET k == pass[r].key  now == pass[r].now IN
       \/ redis' = [redis EXCEPT ![k] = Charged(Stored(k, now), now)]
       \/ redis' = redis
    /\ pass' = IF pass[r].tries < MaxRetries THEN [pass EXCEPT ![r].tries = @ + 1]
               ELSE [pass EXCEPT ![r] = Outside(r, "refused")]
    /\ UNCHANGED <<backend, clock, user, limiters, memory, grants>>

\* Authentication, which comes after the limiter, puts the user into the context.
Authenticate(r, u) ==
    /\ In(r, "served")
    /\ user' = [user EXCEPT ![r] = u]
    /\ UNCHANGED <<backend, clock, pass, limiters, memory, redis, grants>>

\* Time passes, but a call to Redis does not outlast its timeouts.
Tick ==
    /\ clock < MaxClock
    /\ \A r \in Requests : In(r, "eval") => clock < pass[r].now + MaxDelay
    /\ clock' = clock + 1
    /\ UNCHANGED <<backend, pass, user, limiters, memory, redis, grants>>

\* The gateway stops and starts again: requests inside the limiter are lost, and
\* so are the buckets in memory.
RestartGateway ==
    /\ \E r \in Requests : Inside(r)
    /\ pass' = [r \in Requests |->
                  IF Inside(r) THEN Outside(r, "lost") ELSE pass[r]]
    /\ limiters' = [k \in Keys |-> None]
    /\ grants' = IF backend = "memory" THEN [k \in Keys |-> <<>>] ELSE grants
    /\ UNCHANGED <<backend, clock, user, memory, redis>>

LimiterStep(r) ==
    LookLimiter(r) \/ MakeLimiter(r) \/ AllowMemory(r) \/ EvalRedis(r) \/ EvalError(r)

LimiterNext ==
    \/ Tick
    \/ RestartGateway
    \/ \E r \in Requests :
        Middleware(r) \/ LimiterStep(r) \/ \E u \in Users : Authenticate(r, u)

LimiterSpec == LimiterInit /\ [][LimiterNext]_limiterVars

-----------------------------------------------------------------------------
(* In any span of time a key is let through at most Burst times, and Rate times *)
(* more per second of the span: whatever the order in which requests that have  *)
(* read the clock reach their bucket, with scripts that run more than once, and *)
(* with buckets that Redis drops (RateLimiter.allow).                           *)
WindowBound ==
    \A k \in Keys : \A i, j \in DOMAIN grants[k] :
        i <= j => j - i + 1 <= Burst + Rate * (grants[k][j] - grants[k][i])
=============================================================================
