---------------------------- MODULE GatewayProofs ----------------------------
(***************************************************************************)
(* Proofs about the gateway for any number of requests, keys and users and *)
(* any refresh interval and timeout: what is decided about a token is no   *)
(* older than KeysCurrent says, and no route changes or shows what is      *)
(* another user's.                                                         *)
(***************************************************************************)
EXTENDS Gateway, TLAPS

-----------------------------------------------------------------------------
(* The keys. *)

\* Keys that were sent that long ago differ from the published ones only by a later
\* change.
Agree(pub, ch, keys, age) ==
    \A k \in SigningKeys : (k \in keys <=> k \in pub) \/ ch[k] <= age

StoredOK(pub, ch, ks) ==
    ks.present => Agree(pub, ch, ks.keys, ks.age) /\ ks.age <= ks.fetched + FetchTimeout

\* How old the keys are that one request has in hand.
LookupOK(pub, ch, ks, l) ==
    /\ l.waited <= FetchTimeout
    /\ l.step = "answered" => Agree(pub, ch, l.keys, l.age) /\ l.age <= l.waited
    /\ l.step = "reread" => ks.present /\ ks.age <= FetchTimeout
    /\ l.step = "fallback" => l.failed
    /\ l.step = "verify" => Agree(pub, ch, l.keys, l.age)
                              /\ (l.failed \/ l.age < RefreshInterval + FetchTimeout)

KeysInv ==
    /\ KeysTypeOK
    /\ StoredOK(published, changed, keyset)
    /\ \A h \in Handlers : LookupOK(published, changed, keyset, lookups[h])

\* What passes in one unit of time, up to the horizon.
LEMMA LaterFacts ==
    /\ Horizon \in Nat
    /\ \A t \in 0 .. Horizon : Later(t) \in 0 .. Horizon /\ Later(t) <= t + 1 /\ t <= Later(t)
    /\ \A t, u \in 0 .. Horizon : t <= u => Later(t) <= Later(u)
    /\ \A t, u \in 0 .. Horizon : t <= u + FetchTimeout => Later(t) <= Later(u) + FetchTimeout
    /\ \A t \in 0 .. Horizon : t < FetchTimeout => Later(t) = t + 1
  BY KeySetAssumption DEF Horizon, Later

\* The least and the greatest time.
LEMMA Ends == 0 \in 0 .. Horizon /\ Horizon \in 0 .. Horizon /\ 0 <= FetchTimeout
  BY LaterFacts, KeySetAssumption

\* Keys just fetched, or none, and no request.
LEMMA KeysInitInv ==
    ASSUME KeysInit
    PROVE  KeysInv
<1> USE Ends DEF KeysInit
<1>1. KeysTypeOK
  <2>1. NoCopy \in Copy
    BY DEF Copy, NoCopy
  <2>2. [present |-> TRUE, keys |-> published, age |-> 0, fetched |-> 0] \in Copy
    BY DEF Copy
  <2>3. NoLookup \in Lookup
    BY DEF Lookup, LookupSteps, NoLookup
  <2> QED BY <2>1, <2>2, <2>3 DEF KeysTypeOK
<1>2. StoredOK(published, changed, keyset)
  <2>1. keyset.present => keyset.keys = published /\ keyset.age = 0 /\ keyset.fetched = 0
    BY DEF NoCopy
  <2> QED BY <2>1, KeySetAssumption DEF StoredOK, Agree
<1>3. ASSUME NEW h \in Handlers PROVE LookupOK(published, changed, keyset, lookups[h])
  <2>1. lookups[h].waited = 0 /\ lookups[h].step = "idle"
    BY DEF NoLookup
  <2> QED BY <2>1 DEF LookupOK
<1> QED BY <1>1, <1>2, <1>3 DEF KeysInv

\* A step of one request, which the keys and the other requests do not see.
LEMMA LookupFrame ==
    ASSUME KeysInv, NEW h \in Handlers, NEW l \in Lookup,
           lookups' = [lookups EXCEPT ![h] = l], UNCHANGED <<published, changed, keyset>>,
           LookupOK(published, changed, keyset, l)
    PROVE  KeysInv'
<1>1. KeysTypeOK'
  BY DEF KeysInv, KeysTypeOK
<1>2. \A i \in Handlers : LookupOK(published, changed, keyset, lookups'[i])
  BY DEF KeysInv, KeysTypeOK
<1> QED BY <1>1, <1>2 DEF KeysInv

\* The stored copy in hand, as old as it is.
LEMMA UseStoredStep ==
    ASSUME KeysInv, NEW h \in Handlers, UseStored(h), UNCHANGED <<published, changed, keyset>>,
           keyset.present,
           lookups[h].failed \/ keyset.age < RefreshInterval + FetchTimeout
    PROVE  KeysInv'
<1>1. PICK l : l = [lookups[h] EXCEPT !.step = "verify", !.keys = keyset.keys, !.age = keyset.age]
  OBVIOUS
<1>2. lookups[h] \in Lookup /\ keyset \in Copy
  BY DEF KeysInv, KeysTypeOK
<1>3. /\ l \in Lookup /\ l.step = "verify" /\ l.keys = keyset.keys /\ l.age = keyset.age
      /\ l.waited = lookups[h].waited /\ l.failed = lookups[h].failed
  BY <1>1, <1>2 DEF Lookup, LookupSteps, Copy
<1>4. lookups' = [lookups EXCEPT ![h] = l]
  BY <1>1 DEF UseStored
<1>5. LookupOK(published, changed, keyset, l)
  BY <1>3 DEF KeysInv, LookupOK, StoredOK
<1> QED BY <1>3, <1>4, <1>5, LookupFrame

\* The call goes to a step at which it holds no keys.
LEMMA GotoStep ==
    ASSUME KeysInv, NEW h \in Handlers, NEW s \in {"read", "ask", "refuse"}, LookupGoto(h, s),
           UNCHANGED <<published, changed, keyset>>
    PROVE  KeysInv'
<1>1. PICK l : l = [lookups[h] EXCEPT !.step = s]
  OBVIOUS
<1>2. lookups[h] \in Lookup
  BY DEF KeysInv, KeysTypeOK
<1>3. l \in Lookup /\ l.step = s /\ l.waited = lookups[h].waited
  BY <1>1, <1>2 DEF Lookup, LookupSteps
<1>4. lookups' = [lookups EXCEPT ![h] = l]
  BY <1>1 DEF LookupGoto
<1>5. LookupOK(published, changed, keyset, l)
  BY <1>3 DEF KeysInv, LookupOK
<1> QED BY <1>3, <1>4, <1>5, LookupFrame

\* currentKeyset, one step of it at a time.
LEMMA LookupStepInv ==
    ASSUME KeysInv, NEW h \in Handlers, LookupStep(h)
    PROVE  KeysInv'
<1>0. /\ lookups[h] \in Lookup /\ keyset \in Copy
      /\ LookupOK(published, changed, keyset, lookups[h])
      /\ StoredOK(published, changed, keyset)
  BY DEF KeysInv, KeysTypeOK
<1>1. CASE BeginLookup(h)
  BY <1>1, GotoStep DEF BeginLookup
<1>2. CASE ReadStored(h)
  <2>1. CASE keyset.present /\ keyset.fetched < RefreshInterval
    <3>1. keyset.age < RefreshInterval + FetchTimeout
      BY <1>0, <2>1, LaterFacts, KeySetAssumption DEF StoredOK, Copy
    <3> QED BY <2>1, <3>1, <1>2, UseStoredStep DEF ReadStored
  <2>2. CASE ~(keyset.present /\ keyset.fetched < RefreshInterval)
    BY <2>2, <1>2, GotoStep DEF ReadStored
  <2> QED BY <2>1, <2>2
<1>3. CASE SendKeys(h)
  <2>1. PICK l : l = [lookups[h] EXCEPT !.step = "answered", !.keys = published, !.age = 0]
    OBVIOUS
  <2>2. /\ l \in Lookup /\ l.step = "answered" /\ l.keys = published /\ l.age = 0
        /\ l.waited = lookups[h].waited
    <3>1. published \in SUBSET SigningKeys
      BY DEF KeysInv, KeysTypeOK
    <3> QED BY <2>1, <1>0, <3>1, Ends DEF Lookup, LookupSteps
  <2>3. LookupOK(published, changed, keyset, l)
    BY <2>2, <1>0, LaterFacts DEF Lookup, LookupOK, Agree
  <2> QED BY <2>1, <2>2, <2>3, <1>3, LookupFrame DEF SendKeys
<1>4. CASE FetchFails(h)
  <2>1. PICK l : l = [NoLookup EXCEPT !.step = "fallback", !.failed = TRUE]
    OBVIOUS
  <2>2. l \in Lookup /\ l.step = "fallback" /\ l.failed = TRUE /\ l.waited = 0
    BY <2>1, Ends DEF Lookup, LookupSteps, NoLookup
  <2>3. LookupOK(published, changed, keyset, l)
    BY <2>2, KeySetAssumption DEF LookupOK
  <2> QED BY <2>1, <2>2, <2>3, <1>4, LookupFrame DEF FetchFails
<1>5. CASE StoreKeys(h)
  <2>1. PICK ks : ks = [present |-> TRUE, keys |-> lookups[h].keys, age |-> lookups[h].age,
                        fetched |-> 0]
    OBVIOUS
  <2>2. PICK l : l = [NoLookup EXCEPT !.step = "reread"]
    OBVIOUS
  <2>3. /\ ks \in Copy /\ ks.present = TRUE /\ ks.keys = lookups[h].keys
        /\ ks.age = lookups[h].age /\ ks.fetched = 0
    BY <2>1, <1>0, LaterFacts DEF Lookup, Copy
  <2>4. l \in Lookup /\ l.step = "reread" /\ l.waited = 0
    BY <2>2, Ends DEF Lookup, LookupSteps, NoLookup
  <2>5. keyset' = ks /\ lookups' = [lookups EXCEPT ![h] = l] /\ UNCHANGED <<published, changed>>
    BY <1>5, <2>1, <2>2 DEF StoreKeys
  <2>6. Agree(published, changed, ks.keys, ks.age) /\ ks.age <= FetchTimeout
    BY <2>3, <1>0, <1>5, LaterFacts, KeySetAssumption DEF LookupOK, StoreKeys, LookupAt, Lookup
  <2>7. StoredOK(published, changed, ks)
    BY <2>3, <2>6, KeySetAssumption DEF StoredOK
  <2>8. LookupOK(published, changed, ks, l)
    BY <2>3, <2>4, <2>6, KeySetAssumption DEF LookupOK
  <2>9. ASSUME NEW i \in Handlers PROVE LookupOK(published, changed, ks, lookups[i])
    BY <2>3, <2>6 DEF KeysInv, LookupOK
  <2>10. KeysTypeOK'
    BY <2>3, <2>4, <2>5 DEF KeysInv, KeysTypeOK
  <2>11. \A i \in Handlers : LookupOK(published, changed, ks, lookups'[i])
    BY <2>5, <2>8, <2>9 DEF KeysInv, KeysTypeOK
  <2> QED BY <2>5, <2>7, <2>10, <2>11 DEF KeysInv
<1>6. CASE Reread(h)
  <2>1. keyset.present /\ keyset.age < RefreshInterval + FetchTimeout
    BY <1>0, <1>6, KeySetAssumption, LaterFacts DEF Reread, LookupAt, LookupOK, Copy
  <2> QED BY <2>1, <1>6, UseStoredStep DEF Reread
<1>7. CASE Fallback(h)
  <2>1. lookups[h].failed
    BY <1>0, <1>7 DEF Fallback, LookupAt, LookupOK
  <2> QED BY <2>1, <1>7, UseStoredStep, GotoStep DEF Fallback
<1> QED BY <1>1, <1>2, <1>3, <1>4, <1>5, <1>6, <1>7 DEF LookupStep

\* A change of a key is younger than any copy.
LEMMA RotateInv ==
    ASSUME KeysInv, NEW k \in SigningKeys, Rotate(k)
    PROVE  KeysInv'
<1>1. KeysTypeOK'
  BY Ends DEF KeysInv, KeysTypeOK, Rotate
<1>2. ASSUME NEW keys, NEW age \in 0 .. Horizon, Agree(published, changed, keys, age)
      PROVE  Agree(published', changed', keys, age)
  <2> SUFFICES ASSUME NEW j \in SigningKeys
               PROVE  (j \in keys <=> j \in published') \/ changed'[j] <= age
    BY DEF Agree
  <2>1. CASE j = k
    <3>1. changed'[j] = 0
      BY <2>1 DEF Rotate, KeysInv, KeysTypeOK
    <3> QED BY <3>1
  <2>2. CASE j # k
    <3>1. changed'[j] = changed[j] /\ (j \in published' <=> j \in published)
      BY <2>2 DEF Rotate, KeysInv, KeysTypeOK
    <3> QED BY <3>1, <1>2 DEF Agree
  <2> QED BY <2>1, <2>2
<1>3. keyset' = keyset /\ lookups' = lookups /\ keyset.age \in 0 .. Horizon
  BY DEF Rotate, KeysInv, KeysTypeOK, Copy
<1>4. StoredOK(published', changed', keyset)
  BY <1>2, <1>3 DEF KeysInv, StoredOK
<1>5. ASSUME NEW h \in Handlers PROVE LookupOK(published', changed', keyset, lookups[h])
  <2>1. lookups[h].age \in 0 .. Horizon
    BY DEF KeysInv, KeysTypeOK, Lookup
  <2> QED BY <2>1, <1>2 DEF KeysInv, LookupOK
<1> QED BY <1>1, <1>3, <1>4, <1>5 DEF KeysInv

\* Copies and changes get older together, and time does not pass at the steps that
\* have no age to compare with.
LEMMA TickInv ==
    ASSUME KeysInv, Tick
    PROVE  KeysInv'
<1>1. ASSUME NEW keys, NEW age \in 0 .. Horizon, Agree(published, changed, keys, age)
      PROVE  Agree(published', changed', keys, Later(age))
  <2> SUFFICES ASSUME NEW j \in SigningKeys, ~(j \in keys <=> j \in published')
               PROVE  changed'[j] <= Later(age)
    BY DEF Agree
  <2>1. changed[j] \in 0 .. Horizon /\ changed[j] <= age /\ changed'[j] = Later(changed[j])
    BY <1>1 DEF Tick, Agree, KeysInv, KeysTypeOK
  <2> QED BY <2>1, LaterFacts
<1>2. keyset \in Copy /\ keyset.age \in 0 .. Horizon /\ keyset.fetched \in 0 .. Horizon
  BY DEF KeysInv, KeysTypeOK, Copy
<1>3. /\ keyset' \in Copy /\ keyset'.keys = keyset.keys /\ keyset'.present = keyset.present
      /\ keyset.present => keyset'.age = Later(keyset.age) /\ keyset'.fetched = Later(keyset.fetched)
  <2>1. Later(keyset.age) \in 0 .. Horizon /\ Later(keyset.fetched) \in 0 .. Horizon
    BY <1>2, LaterFacts
  <2> QED BY <1>2, <2>1 DEF Tick, Copy
<1>4. StoredOK(published', changed', keyset')
  <2> SUFFICES ASSUME keyset.present
               PROVE  /\ Agree(published', changed', keyset.keys, Later(keyset.age))
                      /\ Later(keyset.age) <= Later(keyset.fetched) + FetchTimeout
    BY <1>3 DEF StoredOK
  <2>1. Agree(published, changed, keyset.keys, keyset.age)
          /\ keyset.age <= keyset.fetched + FetchTimeout
    BY DEF KeysInv, StoredOK
  <2> QED BY <2>1, <1>1, <1>2, LaterFacts
<1>5. ASSUME NEW h \in Handlers
      PROVE  lookups'[h] \in Lookup /\ LookupOK(published', changed', keyset', lookups'[h])
  <2> DEFINE l == lookups[h]
  <2>0. /\ l \in Lookup /\ l.waited \in 0 .. Horizon /\ l.age \in 0 .. Horizon
        /\ LookupOK(published, changed, keyset, l)
    BY DEF KeysInv, KeysTypeOK, Lookup
  <2>1. CASE l.step = "idle"
    <3>1. lookups'[h] = l
      BY <2>1 DEF Tick, LookupAt
    <3> QED BY <3>1, <2>0, <2>1 DEF LookupOK
  <2>2. CASE l.step # "idle"
    <3>1. l.step \in {"ask", "answered"} /\ l.waited < FetchTimeout
      BY <2>2 DEF Tick, LookupAt
    <3>2. PICK age : age = IF l.step = "answered" THEN Later(l.age) ELSE 0
      OBVIOUS
    <3>3. PICK waited : waited = Later(l.waited)
      OBVIOUS
    <3>4. lookups'[h] = [l EXCEPT !.waited = waited, !.age = age]
      BY <2>2, <3>2, <3>3 DEF Tick, LookupAt
    <3>5. /\ age \in 0 .. Horizon /\ waited \in 0 .. Horizon /\ waited = l.waited + 1
      BY <2>0, <3>1, <3>2, <3>3, LaterFacts, Ends
    <3>6. lookups'[h] \in Lookup
      BY <2>0, <3>4, <3>5 DEF Lookup
    <3>7. /\ lookups'[h].waited = waited /\ lookups'[h].age = age /\ lookups'[h].keys = l.keys
          /\ lookups'[h].step = l.step
      BY <2>0, <3>4 DEF Lookup
    <3>8. waited <= FetchTimeout
      BY <2>0, <3>1, <3>5, KeySetAssumption
    <3>9. ASSUME l.step = "answered"
          PROVE  Agree(published', changed', l.keys, age) /\ age <= waited
      <4>1. age = Later(l.age) /\ Agree(published, changed, l.keys, l.age) /\ l.age <= l.waited
        BY <2>0, <3>2, <3>9 DEF LookupOK
      <4> QED BY <4>1, <1>1, <2>0, <3>3, LaterFacts
    <3>10. LookupOK(published', changed', keyset', lookups'[h])
      BY <3>1, <3>7, <3>8, <3>9 DEF LookupOK
    <3> QED BY <3>6, <3>10
  <2> QED BY <2>1, <2>2
<1>6. KeysTypeOK'
  <2>1. changed' \in [SigningKeys -> 0 .. Horizon]
    BY LaterFacts DEF KeysInv, KeysTypeOK, Tick
  <2>2. lookups' \in [Handlers -> Lookup]
    BY <1>5 DEF Tick
  <2> QED BY <2>1, <2>2, <1>3 DEF KeysInv, KeysTypeOK, Tick
<1> QED BY <1>4, <1>5, <1>6 DEF KeysInv

\* A request that has been answered holds nothing.
LEMMA AnsweredInv ==
    ASSUME KeysInv, NEW h \in Handlers, lookups' = [lookups EXCEPT ![h] = NoLookup],
           UNCHANGED <<published, changed, keyset>>
    PROVE  KeysInv'
<1>1. NoLookup \in Lookup /\ NoLookup.step = "idle" /\ NoLookup.waited = 0
  BY Ends DEF NoLookup, Lookup, LookupSteps
<1>2. LookupOK(published, changed, keyset, NoLookup)
  BY <1>1, Ends DEF LookupOK
<1> QED BY <1>1, <1>2, LookupFrame

\* Every step of the gateway keeps the invariant of the keys.
LEMMA KeysStep ==
    ASSUME KeysInv, [Next]_vars
    PROVE  KeysInv'
<1>1. ASSUME UNCHANGED keyVars PROVE KeysInv'
  BY <1>1 DEF keyVars, KeysInv, KeysTypeOK
<1> QED BY <1>1, LookupStepInv, RotateInv, TickInv, AnsweredInv
        DEF Next, vars, ServePublic, ServeAuthenticated, RefuseUnverified

\* What is decided about a token is true of keys published no longer ago than that.
LEMMA VerdictStep ==
    ASSUME KeysInv, KeysCurrent, [Next]_vars
    PROVE  KeysCurrent'
<1>1. ASSUME verdict' = NoVerdict PROVE KeysCurrent'
  BY <1>1 DEF KeysCurrent
<1>2. ASSUME UNCHANGED vars PROVE KeysCurrent'
  BY <1>2 DEF vars, keyVars, KeysCurrent
<1>3. ASSUME NEW h \in Handlers, ServeAuthenticated(h) PROVE KeysCurrent'
  <2>1. PICK t \in Tokens :
            \/ verdict' = NoVerdict
            \/ /\ t.current /\ t.sub # Nobody
               /\ verdict' = [key |-> t.key, accepted |-> Verifies(h, t), failed |-> lookups[h].failed]
    BY <1>3 DEF ServeAuthenticated
  <2>2. CASE verdict' = NoVerdict
    BY <2>2, <1>1
  <2>3. CASE /\ t.current /\ t.sub # Nobody
             /\ verdict' = [key |-> t.key, accepted |-> Verifies(h, t), failed |-> lookups[h].failed]
    <3>1. t.key \in SigningKeys
      BY DEF Tokens
    <3>2. verdict'.accepted = (t.key \in lookups[h].keys)
      <4>1. Verifies(h, t) = (t.key \in lookups[h].keys)
        BY <2>3 DEF Verifies
      <4> QED BY <2>3, <4>1
    <3>3. verdict'.key = t.key /\ verdict'.failed = lookups[h].failed
      BY <2>3
    <3>4. Agree(published, changed, lookups[h].keys, lookups[h].age)
            /\ (lookups[h].failed \/ lookups[h].age < RefreshInterval + FetchTimeout)
      BY <1>3 DEF ServeAuthenticated, LookupAt, KeysInv, LookupOK
    <3>5. lookups[h].age \in Nat /\ changed[t.key] \in Nat
      BY <3>1, LaterFacts DEF KeysInv, KeysTypeOK, Lookup
    <3>6. published' = published /\ changed' = changed
      BY <1>3 DEF ServeAuthenticated
    <3> SUFFICES ASSUME ~verdict'.failed, verdict'.accepted # (verdict'.key \in published')
                 PROVE  changed'[verdict'.key] < RefreshInterval + FetchTimeout
      BY DEF KeysCurrent
    <3>7. ~(t.key \in lookups[h].keys <=> t.key \in published)
      BY <3>2, <3>3, <3>6
    <3>8. changed[t.key] <= lookups[h].age
      BY <3>1, <3>4, <3>7 DEF Agree
    <3>9. lookups[h].age < RefreshInterval + FetchTimeout
      BY <3>3, <3>4
    <3> QED BY <3>3, <3>5, <3>6, <3>8, <3>9, KeySetAssumption
  <2> QED BY <2>1, <2>2, <2>3
<1> QED BY <1>1, <1>2, <1>3 DEF Next, Silent, ServePublic, RefuseUnverified

\* A token is judged by keys that were published at most a refresh interval and one
\* fetch ago (currentKeyset and refresh), unless the fetch of that request failed.
THEOREM KeysCurrentHolds == Spec => []KeysCurrent
<1>1. Init => KeysInv /\ KeysCurrent
  BY KeysInitInv DEF Init, KeysCurrent
<1>2. KeysInv /\ KeysCurrent /\ [Next]_vars => KeysInv' /\ KeysCurrent'
  BY KeysStep, VerdictStep
<1> QED BY <1>1, <1>2, PTL DEF Spec

-----------------------------------------------------------------------------
(* The routes. *)

\* Who may be asking for what: a user, or nobody on a public route.
Asks(q, user) ==
    /\ q \in Requests
    /\ user \in Users \cup {Blank, Nobody}
    /\ user = Nobody => q.route \in PublicRoutes

Own(user, whose) == whose \subseteq {user} \ {Nobody}

ClientCodes == {"InvalidArgument", "NotFound", "AlreadyExists", "FailedPrecondition",
                "Unauthenticated", "PermissionDenied"}

Reading == FeedRoutes \cup {"getBet"}

\* Methods that may find the row of a bet gone after they wrote.
Updating == {"placeBet", "settleBet"}

\* Whose things a call or an answer may be about.
Rightful(q, user, acts, shows) ==
    /\ q.route \notin AdminRoutes \cup {"webhook"} => Own(user, acts) /\ Own(user, shows)
    /\ q.route = "webhook" => shows = {} /\ (q.signed \/ acts = {})

\* What an answer of a service may be like.
OutcomeOK(q, user, o) ==
    /\ Rightful(q, user, o.acts, IF q.route = "getBet" THEN {} ELSE o.shows)
    /\ o.code # "OK" => o.shows = {}
    /\ o.code \in ClientCodes =>
          o.acts = {} \/ (o.code = "NotFound" /\ q.route \in Updating)

AnswerOK(a) ==
    /\ \/ Own(a.by, a.acts \cup a.shows)
       \/ a.by \in Admins /\ a.route \in AdminRoutes
       \/ a.by = Provider /\ a.route = "webhook" /\ a.shows = {}
    /\ a.status \in 400 .. 499 =>
          \/ a.acts = {}
          \/ a.route = "webhook"
          \/ a.status = 404 /\ a.route \in Updating

\* An error after which nothing was done.
LEMMA NothingDone ==
    ASSUME NEW q, NEW user, NEW code, code # "OK"
    PROVE  OutcomeOK(q, user, Outcome(code, {}, {}))
  BY DEF OutcomeOK, Outcome, Own, Rightful

\* A failure of the service or of the call, after which the user's own may have changed.
LEMMA SomethingDone ==
    ASSUME NEW q, NEW user, NEW o, OutcomeOK(q, user, o),
           NEW code \in {"Unknown", "Internal", "Unavailable"}
    PROVE  OutcomeOK(q, user, Outcome(code, o.acts, {}))
  BY DEF OutcomeOK, Outcome, Own, Rightful, ClientCodes

\* The wallet service does nothing for one user that is another's, and nothing for a
\* webhook that is not signed.
LEMMA WalletOK ==
    ASSUME NEW q, NEW user, Asks(q, user), q.route \in WalletRoutes, NEW o \in WalletOutcomes(q, user)
    PROVE  OutcomeOK(q, user, o)
<1> DEFINE done == CASE q.route = "rates" -> Outcome("OK", {}, {})
                  [] q.route \in {"balance", "depositAddress", "withdraw"} ->
                         Outcome("OK", {user}, {user})
                  [] q.route = "transactions" -> Outcome("OK", {}, {user})
                  [] q.route = "listPendingWithdrawals" -> Outcome("OK", {}, Users)
                  [] q.route = "reviewWithdrawal" -> Outcome("OK", {q.target}, {q.target})
                  [] q.route = "webhook" -> Outcome("OK", {q.target}, {})
<1>0. q.route \in {"rates", "balance", "transactions", "depositAddress", "withdraw",
                   "listPendingWithdrawals", "reviewWithdrawal", "webhook"}
  BY DEF WalletRoutes
<1>1. user = Nobody => q.route \in {"rates", "webhook"}
  BY <1>0 DEF Asks, PublicRoutes, LocalRoutes, FeedRoutes
<1>2. ASSUME q.route = "webhook" => q.signed
      PROVE  OutcomeOK(q, user, done)
  <2> USE DEF OutcomeOK, Outcome, Own, Rightful, ClientCodes
  <2>1. CASE q.route = "rates"
    BY <2>1
  <2>2. CASE q.route \in {"balance", "depositAddress", "withdraw"}
    BY <2>2, <1>1
  <2>3. CASE q.route = "transactions"
    BY <2>3, <1>1
  <2>4. CASE q.route = "listPendingWithdrawals"
    BY <2>4 DEF AdminRoutes
  <2>5. CASE q.route = "reviewWithdrawal"
    BY <2>5 DEF AdminRoutes
  <2>6. CASE q.route = "webhook"
    BY <2>6, <1>2
  <2> QED BY <1>0, <2>1, <2>2, <2>3, <2>4, <2>5, <2>6
<1>3. \/ o = Outcome("Unknown", {}, {})
      \/ /\ q.route = "webhook" => q.signed
         /\ \/ o = done \/ o = Outcome("Unknown", done.acts, {})
            \/ q.route = "webhook" /\ o = Outcome("OK", {}, {})
  BY DEF WalletOutcomes
<1> HIDE DEF done
<1>4. ASSUME q.route = "webhook" => q.signed
      PROVE  OutcomeOK(q, user, Outcome("Unknown", done.acts, {}))
  BY <1>2, <1>4, SomethingDone
<1>5. OutcomeOK(q, user, Outcome("Unknown", {}, {}))
  BY NothingDone
<1>6. q.route = "webhook" => OutcomeOK(q, user, Outcome("OK", {}, {}))
  BY DEF OutcomeOK, Outcome, Rightful, ClientCodes
<1> QED BY <1>2, <1>3, <1>4, <1>5, <1>6

\* The errors of a statement that are returned after a write are not taken for the
\* client's, but for that of a row that is gone.
LateErrors(method) ==
    \A i \in DOMAIN method : \A err \in method[i].errs :
        (\E j \in 1 .. i : method[j].writes) => MapServiceError(err) \in {"NotFound", "Internal"}

\* PlaceBet validates before it writes, and no message after that begins like a validation's.
LEMMA PlaceBetErrors == LateErrors(PlaceBet)
<1>1. DOMAIN PlaceBet = {1, 2, 3, 4}
  BY DEF PlaceBet
<1>2. ~PlaceBet[1].writes
  BY DEF PlaceBet, Statement
<1>3. \A err \in PlaceBet[2].errs \cup PlaceBet[3].errs \cup PlaceBet[4].errs :
         err.first \in {"create", "debit", "finalize"}
  BY DEF PlaceBet, Statement, Err
<1>4. \A err : err.first \in {"create", "debit", "finalize"} =>
                 MapServiceError(err) \in {"NotFound", "Internal"}
  BY DEF MapServiceError
<1>5. ASSUME NEW i \in DOMAIN PlaceBet, NEW err \in PlaceBet[i].errs,
             \E j \in 1 .. i : PlaceBet[j].writes
      PROVE  MapServiceError(err) \in {"NotFound", "Internal"}
  <2>1. i # 1
    BY <1>2, <1>5
  <2>2. i \in {2, 3, 4}
    BY <1>1, <2>1
  <2> QED BY <1>3, <1>4, <2>2
<1> QED BY <1>5 DEF LateErrors

\* So does SettleBet.
LEMMA SettleBetErrors == LateErrors(SettleBet)
<1>1. DOMAIN SettleBet = {1, 2, 3, 4}
  BY DEF SettleBet
<1>2. ~SettleBet[1].writes
  BY DEF SettleBet, Statement
<1>3. \A err \in SettleBet[2].errs \cup SettleBet[3].errs \cup SettleBet[4].errs :
         err.first \in {"mark", "credit", "record"}
  BY DEF SettleBet, Statement, Err
<1>4. \A err : err.first \in {"mark", "credit", "record"} =>
                 MapServiceError(err) \in {"NotFound", "Internal"}
  BY DEF MapServiceError
<1>5. ASSUME NEW i \in DOMAIN SettleBet, NEW err \in SettleBet[i].errs,
             \E j \in 1 .. i : SettleBet[j].writes
      PROVE  MapServiceError(err) \in {"NotFound", "Internal"}
  <2>1. i # 1
    BY <1>2, <1>5
  <2>2. i \in {2, 3, 4}
    BY <1>1, <2>1
  <2> QED BY <1>3, <1>4, <2>2
<1> QED BY <1>5 DEF LateErrors

\* How a method of several statements may fail.
LEMMA FailuresOK ==
    ASSUME NEW method, NEW whose, LateErrors(method), DOMAIN method = {1, 2, 3, 4},
           NEW o \in Failures(method, whose)
    PROVE  /\ o.shows = {} /\ o.code # "OK"
           /\ o.acts = {} \/ (o.acts = {whose} /\ o.code \in {"NotFound", "Internal"})
<1>1. PICK i \in DOMAIN method : \E err \in method[i].errs : o \in Failure(method, i, err, whose)
  BY DEF Failures
<1>2. PICK err \in method[i].errs : o \in Failure(method, i, err, whose)
  BY <1>1
<1>3. PICK acts \in {{}, {whose}} :
        /\ o = Outcome(MapServiceError(err), acts, {})
        /\ acts = {} \/ (\E j \in 1 .. i - 1 : method[j].writes) \/ method[i].writes
  BY <1>2 DEF Failure
<1>4. o.shows = {} /\ o.code = MapServiceError(err) /\ o.acts = acts
  BY <1>3 DEF Outcome
<1>5. o.code # "OK"
  BY <1>4 DEF MapServiceError
<1>6. CASE acts = {}
  BY <1>4, <1>5, <1>6
<1>7. CASE acts # {}
  <2>1. i \in Nat /\ i \in 1 .. i /\ \A j \in 1 .. i - 1 : j \in 1 .. i
    BY <1>1
  <2>2. \E j \in 1 .. i : method[j].writes
    BY <1>3, <1>7, <2>1
  <2>3. o.code \in {"NotFound", "Internal"}
    BY <1>4, <2>2 DEF LateErrors
  <2> QED BY <1>3, <1>4, <1>5, <1>7, <2>3
<1> QED BY <1>6, <1>7

\* The sportsbook service answers anybody about any bet, changes only the user's own, and
\* does not blame the client after a write.
LEMMA SportsbookOK ==
    ASSUME NEW q, NEW user, Asks(q, user), q.route \in SportsbookRoutes,
           NEW o \in SportsbookOutcomes(q, user)
    PROVE  OutcomeOK(q, user, o) /\ (q.route = "getBet" => o.acts = {})
<1>0. q.route \in {"placeBet", "listBets", "getBet", "settleBet"} /\ user # Nobody
  BY DEF SportsbookRoutes, Asks, PublicRoutes, LocalRoutes, FeedRoutes
<1>1. \A err : MapServiceError(err) # "OK"
  BY DEF MapServiceError
<1>2. CASE q.route = "placeBet"
  <2>1. CASE user = Blank
    <3>1. o = Outcome(MapServiceError(MissingField), {}, {})
      BY <1>2, <2>1 DEF SportsbookOutcomes
    <3> QED BY <1>1, <1>2, <3>1, NothingDone
  <2>2. CASE user # Blank /\ o \in Failures(PlaceBet, user)
    <3>1. DOMAIN PlaceBet = {1, 2, 3, 4}
      BY DEF PlaceBet
    <3>2. /\ o.shows = {} /\ o.code # "OK"
          /\ o.acts = {} \/ (o.acts = {user} /\ o.code \in {"NotFound", "Internal"})
      BY <2>2, <3>1, PlaceBetErrors, FailuresOK
    <3> QED BY <1>0, <1>2, <3>2 DEF OutcomeOK, Rightful, Own, ClientCodes, Updating
  <2>3. CASE o = Outcome("OK", {user}, {user}) \/ o = Outcome("OK", {}, {user})
    BY <1>0, <1>2, <2>3 DEF OutcomeOK, Outcome, Rightful, Own, ClientCodes
  <2> QED BY <1>2, <2>1, <2>2, <2>3 DEF SportsbookOutcomes
<1>3. CASE q.route = "listBets"
  <2>1. o = Outcome("Internal", {}, {}) \/ o = Outcome("OK", {}, {user})
    BY <1>3 DEF SportsbookOutcomes
  <2> QED BY <1>0, <1>3, <2>1 DEF OutcomeOK, Outcome, Rightful, Own, ClientCodes
<1>4. CASE q.route = "getBet"
  <2>1. o = Outcome("OK", {}, {q.target}) \/ \E err : o = Outcome(MapServiceError(err), {}, {})
    BY <1>4 DEF SportsbookOutcomes
  <2>2. o.acts = {}
    BY <2>1 DEF Outcome
  <2>3. ASSUME o = Outcome("OK", {}, {q.target}) PROVE OutcomeOK(q, user, o)
    BY <1>4, <2>3 DEF OutcomeOK, Outcome, Rightful, Own, ClientCodes
  <2> QED BY <1>1, <2>1, <2>2, <2>3, NothingDone
<1>5. CASE q.route = "settleBet"
  <2>1. CASE o \in Failures(SettleBet, q.target)
    <3>1. DOMAIN SettleBet = {1, 2, 3, 4}
      BY DEF SettleBet
    <3>2. /\ o.shows = {} /\ o.code # "OK"
          /\ o.acts = {} \/ o.code \in {"NotFound", "Internal"}
      BY <2>1, <3>1, SettleBetErrors, FailuresOK
    <3> QED BY <1>5, <3>2 DEF OutcomeOK, Rightful, ClientCodes, Updating, AdminRoutes
  <2>2. CASE o = Outcome("OK", {q.target}, {q.target})
    BY <1>5, <2>2 DEF OutcomeOK, Outcome, Rightful, ClientCodes, AdminRoutes
  <2> QED BY <1>5, <2>1, <2>2 DEF SportsbookOutcomes
<1> QED BY <1>0, <1>2, <1>3, <1>4, <1>5

\* Every call, served, refused or lost.
LEMMA CallsOK ==
    ASSUME NEW q, NEW user, Asks(q, user), q.route \notin LocalRoutes,
           NEW o \in CallOutcomes(q, user)
    PROVE  OutcomeOK(q, user, o) /\ (q.route \in Reading => o.acts = {})
<1>1. ASSUME NEW u \in ServiceOutcomes(q, user)
      PROVE  OutcomeOK(q, user, u) /\ (q.route \in Reading => u.acts = {})
  <2>0. \A code : Outcome(code, {}, {}).acts = {}
    BY DEF Outcome
  <2>1. CASE Caller(q.route, user) = Blank
    <3>1. u = Outcome("Unauthenticated", {}, {})
      BY <1>1, <2>1 DEF ServiceOutcomes
    <3> QED BY <3>1, <2>0, NothingDone
  <2>2. CASE Caller(q.route, user) # Blank /\ ~Admitted(q.route, user)
    <3>1. u = Outcome("PermissionDenied", {}, {})
      BY <1>1, <2>2 DEF ServiceOutcomes
    <3> QED BY <3>1, <2>0, NothingDone
  <2>3. CASE Caller(q.route, user) # Blank /\ Admitted(q.route, user)
    <3>1. CASE q.route \in WalletRoutes
      <4>1. u \in WalletOutcomes(q, user) /\ q.route \notin Reading
        BY <1>1, <2>3, <3>1 DEF Reading, ServiceOutcomes, WalletRoutes, SportsbookRoutes, FeedRoutes
      <4> QED BY <3>1, <4>1, WalletOK
    <3>2. CASE q.route \in SportsbookRoutes
      <4>1. u \in SportsbookOutcomes(q, user)
        BY <1>1, <2>3, <3>2 DEF ServiceOutcomes, WalletRoutes, SportsbookRoutes, FeedRoutes
      <4>2. q.route \in Reading => q.route = "getBet"
        BY <3>2 DEF Reading, FeedRoutes, SportsbookRoutes
      <4> QED BY <3>2, <4>1, <4>2, SportsbookOK
    <3>3. CASE q.route \in FeedRoutes
      <4>1. u \in FeedOutcomes(q)
        BY <1>1, <2>3, <3>3 DEF ServiceOutcomes, WalletRoutes, SportsbookRoutes, FeedRoutes
      <4>2. u = Outcome("OK", {}, {}) \/ u = Outcome("Unknown", {}, {})
              \/ u = Outcome("NoEvent", {}, {})
        BY <4>1 DEF FeedOutcomes
      <4>4. OutcomeOK(q, user, Outcome("OK", {}, {}))
        BY DEF OutcomeOK, Outcome, Rightful, Own, ClientCodes
      <4> QED BY <4>2, <4>4, <2>0, NothingDone
    <3> QED BY <3>1, <3>2, <3>3 DEF Asks, Requests, Routes
  <2> QED BY <2>1, <2>2, <2>3
<1>2. \/ o \in ServiceOutcomes(q, user)
      \/ \E u \in ServiceOutcomes(q, user) : o = Outcome("Unavailable", u.acts, {})
      \/ o = Outcome("Unavailable", {}, {})
  BY DEF CallOutcomes
<1>3. CASE o \in ServiceOutcomes(q, user)
  BY <1>1, <1>3
<1>4. CASE \E u \in ServiceOutcomes(q, user) : o = Outcome("Unavailable", u.acts, {})
  <2>1. PICK u \in ServiceOutcomes(q, user) : o = Outcome("Unavailable", u.acts, {})
    BY <1>4
  <2>2. o.acts = u.acts
    BY <2>1 DEF Outcome
  <2> QED BY <2>1, <2>2, <1>1, SomethingDone
<1>5. CASE o = Outcome("Unavailable", {}, {})
  <2>1. o.acts = {}
    BY <1>5 DEF Outcome
  <2> QED BY <1>5, <2>1, NothingDone
<1> QED BY <1>2, <1>3, <1>4, <1>5

\* An answer of the gateway that says of the service's what it may.
LEMMA ResponseOK ==
    ASSUME NEW q, NEW user, Asks(q, user), q.route \in AdminRoutes => user \in Admins,
           NEW status \in Nat, NEW acts, NEW shows, Rightful(q, user, acts, shows),
           status \in 400 .. 499 =>
              \/ acts = {}
              \/ q.route = "webhook"
              \/ status = 404 /\ q.route \in Updating
    PROVE  AnswerOK(Response(q, user, status, acts, shows))
<1>1. PICK a : a = Response(q, user, status, acts, shows)
  OBVIOUS
<1>2. /\ a.status = status /\ a.by = Sender(q, user) /\ a.acts = acts /\ a.shows = shows
      /\ a.route = q.route
  BY <1>1 DEF Response
<1>3. \/ Own(a.by, a.acts \cup a.shows)
      \/ a.by \in Admins /\ a.route \in AdminRoutes
      \/ a.by = Provider /\ a.route = "webhook" /\ a.shows = {}
  BY <1>2 DEF Own, Rightful, Sender, AdminRoutes
<1>4. AnswerOK(a)
  BY <1>2, <1>3 DEF AnswerOK
<1> QED BY <1>1, <1>4

\* One that was refused before anything was called.
LEMMA RefusalOK ==
    ASSUME NEW q, NEW user, NEW status
    PROVE  AnswerOK(Response(q, user, status, {}, {}))
  BY DEF AnswerOK, Response, Own

\* The status of an error.
LEMMA ErrorStatusFacts ==
    ASSUME NEW code
    PROVE  /\ ErrorStatus(code) \in Nat
           /\ ErrorStatus(code) \in 400 .. 499 => code \in ClientCodes
           /\ code = "NotFound" => ErrorStatus(code) = 404
<1>1. CASE code \in ClientCodes
  <2>1. ErrorStatus(code) \in {400, 404, 409, 401, 403}
    BY <1>1 DEF ErrorStatus, ClientCodes
  <2>2. code = "NotFound" => ErrorStatus(code) = 404
    BY DEF ErrorStatus
  <2> QED BY <1>1, <2>1, <2>2
<1>2. CASE code \notin ClientCodes
  <2>1. ErrorStatus(code) = 500
    BY <1>2 DEF ErrorStatus, ClientCodes
  <2>2. code # "NotFound"
    BY <1>2 DEF ClientCodes
  <2> QED BY <2>1, <2>2, <1>2
<1> QED BY <1>1, <1>2

\* The handlers of the wallet's routes.
LEMMA HandleWalletOK ==
    ASSUME NEW q, NEW user, Asks(q, user), q.route \in AdminRoutes => user \in Admins,
           q.route \in WalletRoutes, NEW a \in HandleWallet(q, user)
    PROVE  AnswerOK(a)
<1>0. q.route \notin LocalRoutes /\ q.route # "getBet"
  BY DEF WalletRoutes, LocalRoutes
<1>1. CASE a = Response(q, user, 400, {}, {})
  BY <1>1, RefusalOK
<1>2. CASE \E o \in CallOutcomes(q, user) :
              a = IF o.code = "OK" THEN Response(q, user, 200, o.acts, o.shows)
                  ELSE Response(q, user, IF q.route = "webhook" THEN 400 ELSE 500, o.acts, {})
  <2>1. PICK o \in CallOutcomes(q, user) :
              a = IF o.code = "OK" THEN Response(q, user, 200, o.acts, o.shows)
                  ELSE Response(q, user, IF q.route = "webhook" THEN 400 ELSE 500, o.acts, {})
    BY <1>2
  <2>2. Rightful(q, user, o.acts, o.shows) /\ (o.code # "OK" => o.shows = {})
    BY <1>0, CallsOK DEF OutcomeOK
  <2>3. CASE o.code = "OK"
    <3>1. a = Response(q, user, 200, o.acts, o.shows)
      BY <2>1, <2>3
    <3> QED BY <3>1, <2>2, ResponseOK
  <2>4. CASE o.code # "OK"
    <3>1. PICK status \in {400, 500} : /\ a = Response(q, user, status, o.acts, {})
                                       /\ status = 400 => q.route = "webhook"
      BY <2>1, <2>4
    <3>2. status \in Nat /\ (status \in 400 .. 499 => q.route = "webhook")
      BY <3>1
    <3>3. Rightful(q, user, o.acts, {})
      BY <2>2, <2>4
    <3> QED BY <3>1, <3>2, <3>3, ResponseOK
  <2> QED BY <2>3, <2>4
<1> QED BY <1>1, <1>2 DEF HandleWallet

\* The handlers of the feed's routes.
LEMMA HandleFeedOK ==
    ASSUME NEW q, NEW user, Asks(q, user), q.route \in FeedRoutes, NEW a \in HandleFeed(q, user)
    PROVE  AnswerOK(a)
<1>0. q.route \notin LocalRoutes
  BY DEF FeedRoutes, LocalRoutes
<1>1. PICK o \in CallOutcomes(q, user) :
        a = Response(q, user, CASE o.code = "OK" -> 200 [] o.code = "NoEvent" -> 404 [] OTHER -> 500,
                     o.acts, {})
  BY DEF HandleFeed
<1>2. PICK status : status = CASE o.code = "OK" -> 200 [] o.code = "NoEvent" -> 404 [] OTHER -> 500
  OBVIOUS
<1>3. status \in {200, 404, 500}
  BY <1>2
<1>4. o.acts = {}
  BY <1>0, CallsOK DEF Reading
<1>5. a = Response(q, user, status, {}, {})
  BY <1>1, <1>2, <1>4
<1> QED BY <1>3, <1>5, RefusalOK

\* The handlers of the sportsbook's routes: the bet of another user is not shown, and
\* an error is the client's only if nothing was done, or the row is gone.
LEMMA HandleBetsOK ==
    ASSUME NEW q, NEW user, Asks(q, user), q.route \in AdminRoutes => user \in Admins,
           q.route \in SportsbookRoutes, NEW a \in HandleBets(q, user)
    PROVE  AnswerOK(a)
<1> DEFINE Bad(o) == Response(q, user, ErrorStatus(o.code), o.acts, {})
<1> DEFINE Hidden(o) == Response(q, user, 404, o.acts, {})
<1> DEFINE Fine(o) == Response(q, user, IF q.route = "placeBet" THEN 201 ELSE 200, o.acts, o.shows)
<1>0. q.route \notin LocalRoutes /\ user # Nobody /\ q.route # "webhook"
  BY DEF SportsbookRoutes, LocalRoutes, Asks, PublicRoutes, FeedRoutes
<1>1. \/ \E status \in {400, 405} : a = Response(q, user, status, {}, {})
      \/ \E o \in CallOutcomes(q, user) :
            \/ o.code # "OK" /\ a = Bad(o)
            \/ o.code = "OK" /\ ~Shown(q, user, o) /\ a = Hidden(o)
            \/ o.code = "OK" /\ Shown(q, user, o) /\ a = Fine(o)
  BY DEF HandleBets
<1>2. CASE \E status \in {400, 405} : a = Response(q, user, status, {}, {})
  BY <1>2, RefusalOK
<1>3. ASSUME NEW o \in CallOutcomes(q, user), o.code # "OK", a = Bad(o) PROVE AnswerOK(a)
  <2>1. OutcomeOK(q, user, o)
    BY <1>0, CallsOK
  <2>2. Rightful(q, user, o.acts, {})
    BY <2>1, <1>0 DEF OutcomeOK, Own, Rightful
  <2>3. PICK status : status = ErrorStatus(o.code)
    OBVIOUS
  <2>4. status \in Nat
          /\ (status \in 400 .. 499 => o.acts = {} \/ (status = 404 /\ q.route \in Updating))
    BY <2>1, <2>3, ErrorStatusFacts DEF OutcomeOK
  <2> QED BY <1>3, <2>2, <2>3, <2>4, ResponseOK
<1>4. ASSUME NEW o \in CallOutcomes(q, user), o.code = "OK", ~Shown(q, user, o), a = Hidden(o)
      PROVE  AnswerOK(a)
  <2>1. q.route = "getBet"
    BY <1>4 DEF Shown
  <2>2. o.acts = {}
    BY <1>0, <2>1, CallsOK DEF Reading
  <2> QED BY <1>4, <2>2, RefusalOK
<1>5. ASSUME NEW o \in CallOutcomes(q, user), o.code = "OK", Shown(q, user, o), a = Fine(o)
      PROVE  AnswerOK(a)
  <2>1. OutcomeOK(q, user, o)
    BY <1>0, CallsOK
  <2>2. Rightful(q, user, o.acts, o.shows)
    BY <2>1, <1>0, <1>5 DEF OutcomeOK, Own, Shown, Rightful
  <2>3. PICK status \in {200, 201} : status = IF q.route = "placeBet" THEN 201 ELSE 200
    OBVIOUS
  <2>5. a = Response(q, user, status, o.acts, o.shows)
    BY <1>5, <2>3
  <2>6. status \in Nat /\ status \notin 400 .. 499
    BY <2>3
  <2> HIDE DEF Fine, Bad, Hidden
  <2> QED BY <2>2, <2>5, <2>6, ResponseOK
<1> QED BY <1>1, <1>2, <1>3, <1>4, <1>5

\* Every route, behind the check for administrators.
LEMMA HandleOK ==
    ASSUME NEW q, NEW user, Asks(q, user), NEW a \in Handle(q, user)
    PROVE  AnswerOK(a)
<1>1. CASE q.route \in AdminRoutes /\ user \notin Admins
  <2>1. a = Response(q, user, 403, {}, {})
    BY <1>1 DEF Handle
  <2> QED BY <2>1, RefusalOK
<1>2. CASE ~(q.route \in AdminRoutes /\ user \notin Admins)
  <2>0. /\ WalletRoutes \cap FeedRoutes = {} /\ WalletRoutes \cap SportsbookRoutes = {}
        /\ WalletRoutes \cap LocalRoutes = {} /\ FeedRoutes \cap SportsbookRoutes = {}
        /\ FeedRoutes \cap LocalRoutes = {} /\ SportsbookRoutes \cap LocalRoutes = {}
    BY DEF WalletRoutes, FeedRoutes, SportsbookRoutes, LocalRoutes
  <2>1. CASE q.route \in WalletRoutes
    <3>1. a \in HandleWallet(q, user)
      BY <1>2, <2>0, <2>1 DEF Handle
    <3> QED BY <1>2, <2>1, <3>1, HandleWalletOK
  <2>2. CASE q.route \in FeedRoutes
    <3>1. a \in HandleFeed(q, user)
      BY <1>2, <2>0, <2>2 DEF Handle
    <3> QED BY <2>2, <3>1, HandleFeedOK
  <2>3. CASE q.route \in SportsbookRoutes
    <3>1. a \in HandleBets(q, user)
      BY <1>2, <2>0, <2>3 DEF Handle
    <3> QED BY <1>2, <2>3, <3>1, HandleBetsOK
  <2>4. CASE q.route \in LocalRoutes
    <3>1. a = Response(q, user, 200, {}, {})
      BY <1>2, <2>0, <2>4 DEF Handle
    <3> QED BY <3>1, RefusalOK
  <2> QED BY <2>1, <2>2, <2>3, <2>4 DEF Asks, Requests, Routes
<1> QED BY <1>1, <1>2

\* Every answer written by a step.
LEMMA AnswerStep ==
    ASSUME AnswerOK(answer), [Next]_vars
    PROVE  AnswerOK(answer')
<1>0. AnswerOK(NoAnswer)
  BY DEF AnswerOK, NoAnswer, Own
<1>1. ASSUME answer' \in Refusals PROVE AnswerOK(answer')
  BY <1>1, RefusalOK DEF Refusals
<1>2. CASE ServePublic
  <2>1. CASE \E q \in Requests : answer' = Response(q, Nobody, 204, {}, {})
    BY <2>1, RefusalOK
  <2>2. CASE \E q \in Requests : q.route \in PublicRoutes /\ answer' \in Handle(q, Nobody)
    BY <2>2, HandleOK DEF Asks
  <2> QED BY <1>2, <2>1, <2>2 DEF ServePublic, PublicAnswers
<1>3. ASSUME NEW h \in Handlers, ServeAuthenticated(h) PROVE AnswerOK(answer')
  <2>1. PICK t \in Tokens : answer' \in IF Verifies(h, t) THEN AnswersFor[t.sub] ELSE Refusals
    BY <1>3 DEF ServeAuthenticated
  <2>2. CASE ~Verifies(h, t)
    BY <2>1, <2>2, <1>1
  <2>3. CASE Verifies(h, t)
    <3>1. t.sub \in Users \cup {Blank}
      BY <2>3 DEF Verifies, Tokens
    <3>2. PICK q \in PrivateRequests : answer' \in Handle(q, t.sub)
      BY <2>1, <2>3, <3>1 DEF AnswersFor
    <3>3. t.sub # Nobody
      BY <2>3 DEF Verifies
    <3> QED BY <3>1, <3>2, <3>3, HandleOK DEF Asks, PrivateRequests
  <2> QED BY <2>2, <2>3
<1>4. ASSUME answer' = answer PROVE AnswerOK(answer')
  BY <1>4
<1> QED BY <1>0, <1>1, <1>2, <1>3, <1>4 DEF Next, Silent, RefuseUnverified, vars

\* The answers of the gateway are its users' own, and their status is true.
THEOREM AnswersHold == Spec => []AnswerOK(answer)
<1>1. Init => AnswerOK(answer)
  BY DEF Init, AnswerOK, NoAnswer, Own
<1>2. AnswerOK(answer) /\ [Next]_vars => AnswerOK(answer)'
  BY AnswerStep
<1> QED BY <1>1, <1>2, PTL DEF Spec

\* No route of server.go changes or shows what is another user's, whatever the services
\* answer, except for an administrator on an administrators' route and for the provider
\* by a signed webhook.
THEOREM OwnOnlyHolds == Spec => []OwnOnly
<1>1. AnswerOK(answer) => OwnOnly
  BY DEF AnswerOK, OwnOnly, Own
<1> QED BY <1>1, AnswersHold, PTL

\* After an answer that puts the error down to the client nothing has changed, except by
\* a webhook or under a bet whose row is gone (mapServiceError, grpcStatusToHTTP).
THEOREM StatusTrueHolds == Spec => []StatusTrue
<1>1. AnswerOK(answer) => StatusTrue
  BY DEF AnswerOK, StatusTrue, Updating
<1> QED BY <1>1, AnswersHold, PTL
==============================================================================
