------------------------------- MODULE Gateway -------------------------------
(***************************************************************************)
(* The routes of the gateway (internal/gateway/server.go and its clients)  *)
(* with the checks that the services behind it make on the calls they get  *)
(* (AuthInterceptor of the wallet and of the sportsbook) and the statuses  *)
(* their errors become.                                                    *)
(*                                                                         *)
(* A request is authenticated with the keys of KeySet, step by step beside *)
(* other requests.  From then on it reads no state that the gateway        *)
(* shares, so the rest is one step: what it does and shows depends on the  *)
(* request and on what the service answers.  What a webhook does to the    *)
(* ledger is in Deposits, the rate limiter in RateLimiter.                 *)
(***************************************************************************)
EXTENDS KeySet

CONSTANTS
    Users,   \* subjects of tokens
    Admins   \* ADMIN_USER_IDS

\* Blank: an empty subject; Nobody: none; Provider: the sender of a signed webhook.
ServiceCaller == "gateway"
Blank == ""
Nobody == "nobody"
Provider == "xcash"

\* NewServer drops an empty name from the list of administrators.
ASSUME UsersAssumption == {Blank, Nobody, Provider} \cap Users = {} /\ Admins \subseteq Users

\* Routes by the service they call, and by what they need.
WalletRoutes == {"rates", "balance", "transactions", "depositAddress", "withdraw",
                 "listPendingWithdrawals", "reviewWithdrawal", "webhook"}
FeedRoutes == {"feedListing", "event"}
SportsbookRoutes == {"placeBet", "listBets", "getBet", "settleBet"}
LocalRoutes == {"supported"}

PublicRoutes == LocalRoutes \cup FeedRoutes \cup {"rates", "webhook"}
AdminRoutes == {"listPendingWithdrawals", "reviewWithdrawal", "settleBet"}
Routes == WalletRoutes \cup FeedRoutes \cup SportsbookRoutes \cup LocalRoutes

\* method: of the HTTP request, as far as it matters; target: the user whose bet,
\* withdrawal or deposit the request names; wellFormed: its body, amount, currency and
\* chain pass the gateway's checks; signed: a webhook with the provider's signature.
Requests == [route : Routes, method : {"expected", "other", "OPTIONS"}, target : Users,
             wellFormed : BOOLEAN, signed : BOOLEAN]

\* current: neither expired nor malformed.
Tokens == [key : SigningKeys, sub : Users \cup {Blank, Nobody}, current : BOOLEAN]

\* by: the user authenticated, or the provider; acts, shows: whose money or bets the
\* request changed, and whose it shows.
Answers == [status : Nat, route : Routes, by : Users \cup {Blank, Nobody, Provider},
            acts : SUBSET Users, shows : SUBSET Users]

VARIABLES
    answer,   \* the response being written, if any
    verdict   \* what was decided about the token of that request, if it had one

vars == <<keyVars, answer, verdict>>

NoAnswer == [status |-> 0, route |-> "supported", by |-> Nobody, acts |-> {}, shows |-> {}]
NoVerdict == [key |-> Nobody, accepted |-> FALSE, failed |-> FALSE]

Verdicts == [key : SigningKeys \cup {Nobody}, accepted : BOOLEAN, failed : BOOLEAN]

TypeOK ==
    /\ KeysTypeOK
    /\ answer \in Answers
    /\ verdict \in Verdicts

Init == KeysInit /\ answer = NoAnswer /\ verdict = NoVerdict

-----------------------------------------------------------------------------
(* The calls to the services. *)

\* The identity and the scope that the gateway's clients put into the metadata.
Caller(route, user) ==
    IF route \in {"balance", "transactions", "depositAddress", "withdraw", "reviewWithdrawal"}
    THEN user ELSE ServiceCaller

AdminScope(route) == route \in AdminRoutes

\* The user id in the body of the call; Nobody where the message has none.
CallUser(route, user) ==
    IF route \in {"balance", "transactions", "depositAddress", "withdraw", "placeBet", "listBets"}
    THEN user ELSE Nobody

\* AuthInterceptor of the wallet service.
WalletAdmits(route, user) ==
    CASE route \in {"listPendingWithdrawals", "reviewWithdrawal"} -> AdminScope(route)
      [] route \in {"rates", "webhook"} -> TRUE
      [] OTHER -> CallUser(route, user) \in {Nobody, Caller(route, user)}

\* AuthInterceptor of the sportsbook service.
SportsbookAdmits(route, user) ==
    /\ Caller(route, user) = ServiceCaller
    /\ route = "settleBet" => AdminScope(route)

\* The odds feed service admits every call.
Admitted(route, user) ==
    CASE route \in WalletRoutes -> WalletAdmits(route, user)
      [] route \in SportsbookRoutes -> SportsbookAdmits(route, user)
      [] OTHER -> TRUE

Outcome(code, acts, shows) == [code |-> code, acts |-> acts, shows |-> shows]

\* What the methods of the wallet service may answer; its errors carry no code, and
\* may come after something was done.
WalletOutcomes(q, user) ==
    LET done == CASE q.route = "rates" -> Outcome("OK", {}, {})
                  [] q.route \in {"balance", "depositAddress", "withdraw"} ->
                         Outcome("OK", {user}, {user})
                  [] q.route = "transactions" -> Outcome("OK", {}, {user})
                  [] q.route = "listPendingWithdrawals" -> Outcome("OK", {}, Users)
                  [] q.route = "reviewWithdrawal" -> Outcome("OK", {q.target}, {q.target})
                  [] q.route = "webhook" -> Outcome("OK", {q.target}, {})
        failed == {Outcome("Unknown", {}, {}), Outcome("Unknown", done.acts, {})}
    IN  CASE q.route = "webhook" /\ ~q.signed -> {Outcome("Unknown", {}, {})}
          [] q.route = "webhook" /\ q.signed -> failed \cup {done, Outcome("OK", {}, {})}
          [] OTHER -> failed \cup {done}

\* An error of the sportsbook service, by the words of its message; ErrBetNotFound is
\* among them when it is wrapped.
Err(first, rest) == [first |-> first, rest |-> rest]
ErrBetNotFound == "ErrBetNotFound"

\* Faulty variant: the words that tell a validation are looked for anywhere in the message.
MapServiceErrorAnywhere(err) ==
    IF ErrBetNotFound \in err.rest THEN "NotFound"
    ELSE IF ({err.first} \cup err.rest) \cap {"missing", "invalid", "stake"} # {}
         THEN "InvalidArgument" ELSE "Internal"

\* mapServiceError
MapServiceError(err) ==
    IF ErrBetNotFound \in err.rest THEN "NotFound"
    ELSE IF err.first \in {"missing", "invalid", "stake"} THEN "InvalidArgument" ELSE "Internal"

\* One statement of a method: whether it writes, and the errors the method returns if it
\* fails.  An update that finds no row wraps ErrBetNotFound.
Statement(writes, errs) == [writes |-> writes, errs |-> errs]

MissingField == Err("missing", {"required", "bet", "field"})

\* The statements of PlaceBet: what it reads, then CreateBet, DebitWallet with the bet's
\* cancellation, and UpdateBetStatusAndDebitTx.
PlaceBet ==
    <<Statement(FALSE, {MissingField, Err("invalid", {"stake"}), Err("stake", {"must", "be"}),
                        Err("check", {"existing", "bet"}), Err("validate", {"event"}),
                        Err("event", {"not", "found"}), Err("list", {"markets"}),
                        Err("market", {"not", "found"}), Err("list", {"outcomes"}),
                        Err("outcome", {"not", "found"}), Err("invalid", {"outcome", "odds"}),
                        Err("calculate", {"payout"})}),
      Statement(TRUE, {Err("create", {"bet"}), Err("create", {"bet", "conflict"}),
                       Err("create", {"bet", "conflict", ErrBetNotFound})}),
      Statement(TRUE, {Err("debit", {"stake"})}),
      Statement(TRUE, {Err("finalize", {"bet", "after", "debit"}),
                       Err("finalize", {"bet", "after", "debit", ErrBetNotFound})})>>

\* The statements of SettleBet; a lost bet ends with the second.
SettleBet ==
    <<Statement(FALSE, {Err("bet", {"id", "required"}), Err("invalid", {"settlement", "outcome"}),
                        Err("get", {"bet"}), Err("get", {"bet", ErrBetNotFound}),
                        Err("bet", {"cannot", "be", "settled"})}),
      Statement(TRUE, {Err("mark", {"bet"}), Err("mark", {"bet", ErrBetNotFound})}),
      Statement(TRUE, {Err("credit", {"winnings"}), Err("credit", {"refund"})}),
      Statement(TRUE, {Err("record", {"tx"}), Err("record", {"tx", ErrBetNotFound})})>>

\* Statement i of a method for the given user failed with err: what was written before
\* stays, and its own write may be there too, unless it found no row.
Failure(method, i, err, user) ==
    LET before == \E j \in 1 .. i - 1 : method[j].writes
        perhaps == method[i].writes /\ ErrBetNotFound \notin err.rest
    IN  {Outcome(MapServiceError(err), acts, {}) :
            acts \in (IF before THEN {} ELSE {{}}) \cup (IF before \/ perhaps THEN {{user}} ELSE {})}

Failures(method, user) ==
    UNION {UNION {Failure(method, i, err, user) : err \in method[i].errs} : i \in DOMAIN method}

\* What the methods of the sportsbook service may answer.
SportsbookOutcomes(q, user) ==
    CASE q.route = "placeBet" /\ user = Blank -> {Outcome(MapServiceError(MissingField), {}, {})}
      [] q.route = "placeBet" /\ user # Blank ->
             Failures(PlaceBet, user) \cup {Outcome("OK", {user}, {user}), Outcome("OK", {}, {user})}
      [] q.route = "listBets" ->
             {Outcome("Internal", {}, {})}
               \cup (IF user = Blank THEN {} ELSE {Outcome("OK", {}, {user})})
      [] q.route = "getBet" ->
             {Outcome("OK", {}, {q.target}), Outcome(MapServiceError(Err("bet", {"id", "required"})), {}, {}),
              Outcome(MapServiceError(Err("bet", {ErrBetNotFound})), {}, {})}
      [] q.route = "settleBet" ->
             Failures(SettleBet, q.target) \cup {Outcome("OK", {q.target}, {q.target})}

\* What the methods of the odds feed service may answer.
FeedOutcomes(q) ==
    {Outcome("OK", {}, {}), Outcome("Unknown", {}, {})}
      \cup (IF q.route = "event" THEN {Outcome("NoEvent", {}, {})} ELSE {})

\* A call without the name of its caller is refused, and one that is not admitted.
ServiceOutcomes(q, user) ==
    IF Caller(q.route, user) = Blank THEN {Outcome("Unauthenticated", {}, {})}
    ELSE IF ~Admitted(q.route, user) THEN {Outcome("PermissionDenied", {}, {})}
    ELSE CASE q.route \in WalletRoutes -> WalletOutcomes(q, user)
           [] q.route \in SportsbookRoutes -> SportsbookOutcomes(q, user)
           [] q.route \in FeedRoutes -> FeedOutcomes(q)

\* The call may also be lost, before or after it is served.
CallOutcomes(q, user) ==
    ServiceOutcomes(q, user)
      \cup {Outcome("Unavailable", o.acts, {}) : o \in ServiceOutcomes(q, user)}
      \cup {Outcome("Unavailable", {}, {})}

-----------------------------------------------------------------------------
(* The answers of the gateway. *)

\* grpcStatusToHTTP
ErrorStatus(code) ==
    CASE code = "InvalidArgument" -> 400
      [] code = "NotFound" -> 404
      [] code \in {"AlreadyExists", "FailedPrecondition"} -> 409
      [] code = "Unauthenticated" -> 401
      [] code = "PermissionDenied" -> 403
      [] OTHER -> 500

\* Faulty variant: handleGetBet shows what it is given.
ShownAny(q, user, o) == TRUE

\* handleGetBet hides the bet of another user.
Shown(q, user, o) == q.route = "getBet" => o.shows \subseteq {user}

\* A webhook has no user; its signature tells that the provider sent it.
Sender(q, user) == IF q.route = "webhook" /\ q.signed THEN Provider ELSE user

Response(q, user, status, acts, shows) ==
    [status |-> status, route |-> q.route, by |-> Sender(q, user), acts |-> acts, shows |-> shows]

\* handleRates, handleBalance, handleTransactions, handleDepositAddress, handleWithdraw,
\* handleListPendingWithdrawals, handleReviewWithdrawal, handleXcashWebhook: any error of
\* the call is answered with 500, and with 400 to a webhook.
HandleWallet(q, user) ==
    IF ~q.wellFormed /\ q.route \in {"balance", "depositAddress", "withdraw", "reviewWithdrawal",
                                     "webhook"}
    THEN {Response(q, user, 400, {}, {})}
    ELSE {IF o.code = "OK" THEN Response(q, user, 200, o.acts, o.shows)
          ELSE Response(q, user, IF q.route = "webhook" THEN 400 ELSE 500, o.acts, {})
            : o \in CallOutcomes(q, user)}

\* The listings of the feed, and handleGetEvent, which is told of no event without an error.
HandleFeed(q, user) ==
    {Response(q, user, CASE o.code = "OK" -> 200 [] o.code = "NoEvent" -> 404 [] OTHER -> 500,
              o.acts, {}) : o \in CallOutcomes(q, user)}

\* handleBets, which alone looks at the method, handlePlaceBet, handleListBets,
\* handleGetBet, handleSettleBet.
HandleBets(q, user) ==
    IF q.route \in {"placeBet", "listBets"} /\ q.method = "other"
    THEN {Response(q, user, 405, {}, {})}
    ELSE IF ~q.wellFormed /\ q.route \in {"placeBet", "settleBet"}
    THEN {Response(q, user, 400, {}, {})}
    ELSE {IF o.code # "OK" THEN Response(q, user, ErrorStatus(o.code), o.acts, {})
          ELSE IF ~Shown(q, user, o) THEN Response(q, user, 404, o.acts, {})
          ELSE Response(q, user, IF q.route = "placeBet" THEN 201 ELSE 200, o.acts, o.shows)
            : o \in CallOutcomes(q, user)}

\* The answers to request q of user, behind the check for administrators.
Handle(q, user) ==
    IF q.route \in AdminRoutes /\ user \notin Admins THEN {Response(q, user, 403, {}, {})}
    ELSE CASE q.route \in WalletRoutes -> HandleWallet(q, user)
           [] q.route \in FeedRoutes -> HandleFeed(q, user)
           [] q.route \in SportsbookRoutes -> HandleBets(q, user)
           [] q.route \in LocalRoutes -> {Response(q, user, 200, {}, {})}

\* The preflight of any route, and a public route, need no token.
PublicAnswers ==
    {Response(q, Nobody, 204, {}, {}) : q \in {r \in Requests : r.method = "OPTIONS"}}
      \cup UNION {Handle(q, Nobody) :
                    q \in {r \in Requests : r.method # "OPTIONS" /\ r.route \in PublicRoutes}}

\* The requests that auth wraps, and what they may be answered once it let them pass.
PrivateRequests == {r \in Requests : r.method # "OPTIONS" /\ r.route \notin PublicRoutes}

AnswersFor == [u \in Users \cup {Blank} |-> UNION {Handle(q, u) : q \in PrivateRequests}]

\* auth refuses the token.
Refusals == {Response(q, Nobody, 401, {}, {}) : q \in PrivateRequests}

ServePublic ==
    /\ answer' \in PublicAnswers
    /\ verdict' = NoVerdict
    /\ UNCHANGED keyVars

\* UserFromRequest accepts token t.
Verifies(h, t) == t.key \in lookups[h].keys /\ t.current /\ t.sub # Nobody

\* auth: the token is verified with the keys in hand.
ServeAuthenticated(h) ==
    /\ LookupAt(h, "verify")
    /\ \E t \in Tokens :
          /\ answer' \in IF Verifies(h, t) THEN AnswersFor[t.sub] ELSE Refusals
          /\ verdict' = IF t.current /\ t.sub # Nobody
                        THEN [key |-> t.key, accepted |-> Verifies(h, t),
                              failed |-> lookups[h].failed]
                        ELSE NoVerdict
    /\ lookups' = [lookups EXCEPT ![h] = NoLookup]
    /\ UNCHANGED <<published, changed, keyset>>

\* No key set could be had.
RefuseUnverified(h) ==
    /\ LookupAt(h, "refuse")
    /\ answer' \in Refusals
    /\ verdict' = NoVerdict
    /\ lookups' = [lookups EXCEPT ![h] = NoLookup]
    /\ UNCHANGED <<published, changed, keyset>>

-----------------------------------------------------------------------------
\* The response has been written.
Silent == answer' = NoAnswer /\ verdict' = NoVerdict

Next ==
    \/ \E h \in Handlers : LookupStep(h) /\ Silent
    \/ \E k \in SigningKeys : Rotate(k) /\ Silent
    \/ Tick /\ Silent
    \/ ServePublic
    \/ \E h \in Handlers : ServeAuthenticated(h) \/ RefuseUnverified(h)

Spec == Init /\ [][Next]_vars

-----------------------------------------------------------------------------
\* What is decided about a token agrees with what the identity service publishes, up
\* to a refresh interval and one fetch ago, unless this request's fetch failed: a
\* withdrawn key is refused and a new one accepted from then on, however fetches of
\* other requests overlap, overtake each other or replace the copy while it is read.
KeysCurrent ==
    verdict # NoVerdict /\ ~verdict.failed
        /\ (verdict.accepted # (verdict.key \in published)) =>
      changed[verdict.key] < RefreshInterval + FetchTimeout

\* Nobody changes or sees what is another user's, unless an administrator by a route
\* that is theirs, and the provider, who changes by a signed webhook and sees nothing;
\* without a token or a signature nobody does at all.
OwnOnly ==
    \/ answer.acts \cup answer.shows \subseteq {answer.by} \ {Nobody}
    \/ answer.by \in Admins /\ answer.route \in AdminRoutes
    \/ answer.by = Provider /\ answer.route = "webhook" /\ answer.shows = {}

\* An answer that puts the error down to the client (mapServiceError, grpcStatusToHTTP)
\* means that nothing has changed, though PlaceBet and SettleBet fail between writes of
\* two services.  Two answers are excepted because the code gives them after a write: 400
\* to a webhook, for every error of the wallet, and 404 when the row of a bet is gone by
\* the time PlaceBet or SettleBet updates it.
StatusTrue ==
    answer.status \in 400 .. 499 =>
        \/ answer.acts = {}
        \/ answer.route = "webhook"
        \/ answer.status = 404 /\ answer.route \in {"placeBet", "settleBet"}
===============================================================================
