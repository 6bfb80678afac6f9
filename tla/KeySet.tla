-------------------------------- MODULE KeySet --------------------------------
(***************************************************************************)
(* The signing keys that the gateway verifies tokens with                  *)
(* (internal/auth/jwks.go): a copy of the keys published by the identity   *)
(* service, refreshed by the requests themselves when it is too old.       *)
(*                                                                         *)
(* Times are kept as the time passed since, up to a horizon beyond which   *)
(* nothing depends on them.  A fetch takes up to the timeout of the HTTP   *)
(* client; the answer may be under way while keys change and other         *)
(* requests fetch and store theirs.                                        *)
(***************************************************************************)
EXTENDS Integers

CONSTANTS
    Handlers,         \* requests being authenticated
    SigningKeys,      \* keys of the identity service
    RefreshInterval,  \* how long a stored copy is used without a fetch
    FetchTimeout      \* of the HTTP client

ASSUME KeySetAssumption == RefreshInterval \in Nat \ {0} /\ FetchTimeout \in Nat

VARIABLES
    published,  \* the keys the identity service publishes
    changed,    \* time since a key was last published or withdrawn
    keyset,     \* JWKSClient.keyset and fetched
    lookups     \* the currentKeyset call of each request

keyVars == <<published, changed, keyset, lookups>>

\* Longer than any age a property speaks of.
Horizon == RefreshInterval + FetchTimeout + 1

Later(t) == IF t < Horizon THEN t + 1 ELSE t

\* age: time since the identity service sent the keys; fetched: since they were stored.
Copy == [present : BOOLEAN, keys : SUBSET SigningKeys, age : 0 .. Horizon, fetched : 0 .. Horizon]

NoCopy == [present |-> FALSE, keys |-> {}, age |-> 0, fetched |-> 0]

LookupSteps == {"idle", "read", "ask", "answered", "fallback", "reread", "verify", "refuse"}

\* waited: time since the fetch began; keys, age: the copy in hand; failed: the
\* fetch of this request failed.
Lookup == [step : LookupSteps, waited : 0 .. Horizon, keys : SUBSET SigningKeys,
           age : 0 .. Horizon, failed : BOOLEAN]

NoLookup == [step |-> "idle", waited |-> 0, keys |-> {}, age |-> 0, failed |-> FALSE]

KeysTypeOK ==
    /\ published \subseteq SigningKeys
    /\ changed \in [SigningKeys -> 0 .. Horizon]
    /\ keyset \in Copy
    /\ lookups \in [Handlers -> Lookup]

\* NewJWKSClient: the first fetch may fail and is then left to the first request.
KeysInit ==
    /\ published \in SUBSET SigningKeys
    /\ changed = [k \in SigningKeys |-> Horizon]
    /\ lookups = [h \in Handlers |-> NoLookup]
    /\ \/ keyset = NoCopy
       \/ keyset = [present |-> TRUE, keys |-> published, age |-> 0, fetched |-> 0]

-----------------------------------------------------------------------------
LookupAt(h, s) == lookups[h].step = s

LookupGoto(h, s) == lookups' = [lookups EXCEPT ![h] = [@ EXCEPT !.step = s]]

\* The stored copy is the one to verify with.
UseStored(h) ==
    lookups' = [lookups EXCEPT ![h] = [@ EXCEPT !.step = "verify", !.keys = keyset.keys,
                                                !.age = keyset.age]]

\* The identity service rotates its keys.
Rotate(k) ==
    /\ published' = IF k \in published THEN published \ {k} ELSE published \cup {k}
    /\ changed' = [changed EXCEPT ![k] = 0]
    /\ UNCHANGED <<keyset, lookups>>

BeginLookup(h) ==
    /\ LookupAt(h, "idle")
    /\ LookupGoto(h, "read")
    /\ UNCHANGED <<published, changed, keyset>>

\* Faulty variant: a copy never gets too old.
ReadStoredAlways(h) ==
    /\ LookupAt(h, "read")
    /\ IF keyset.present THEN UseStored(h) ELSE LookupGoto(h, "ask")
    /\ UNCHANGED <<published, changed, keyset>>

\* currentKeyset, under the read lock.
ReadStored(h) ==
    /\ LookupAt(h, "read")
    /\ IF keyset.present /\ keyset.fetched < RefreshInterval THEN UseStored(h)
       ELSE LookupGoto(h, "ask")
    /\ UNCHANGED <<published, changed, keyset>>

\* The identity service answers with the keys it publishes now.
SendKeys(h) ==
    /\ LookupAt(h, "ask")
    /\ lookups' = [lookups EXCEPT ![h] = [@ EXCEPT !.step = "answered", !.keys = published,
                                                   !.age = 0]]
    /\ UNCHANGED <<published, changed, keyset>>

\* The fetch fails: no answer in time, or one that is no key set.
FetchFails(h) ==
    /\ lookups[h].step \in {"ask", "answered"}
    /\ lookups' = [lookups EXCEPT ![h] = [NoLookup EXCEPT !.step = "fallback", !.failed = TRUE]]
    /\ UNCHANGED <<published, changed, keyset>>

\* refresh stores the answer, whatever has been stored since it was asked for.
StoreKeys(h) ==
    /\ LookupAt(h, "answered")
    /\ keyset' = [present |-> TRUE, keys |-> lookups[h].keys, age |-> lookups[h].age,
                  fetched |-> 0]
    /\ lookups' = [lookups EXCEPT ![h] = [NoLookup EXCEPT !.step = "reread"]]
    /\ UNCHANGED <<published, changed>>

\* The return after a refresh reads the field again without the lock: it finds this
\* request's copy or one that another request has stored in the meantime.
Reread(h) ==
    /\ LookupAt(h, "reread")
    /\ UseStored(h)
    /\ UNCHANGED <<published, changed, keyset>>

\* After a failed fetch the old copy is used, however old.
Fallback(h) ==
    /\ LookupAt(h, "fallback")
    /\ IF keyset.present THEN UseStored(h) ELSE LookupGoto(h, "refuse")
    /\ UNCHANGED <<published, changed, keyset>>

\* Time passes; only a fetch takes time.
Tick ==
    /\ \A h \in Handlers :
          \/ LookupAt(h, "idle")
          \/ lookups[h].step \in {"ask", "answered"} /\ lookups[h].waited < FetchTimeout
    /\ changed' = [k \in SigningKeys |-> Later(changed[k])]
    /\ keyset' = IF keyset.present
                 THEN [keyset EXCEPT !.age = Later(keyset.age), !.fetched = Later(keyset.fetched)]
                 ELSE keyset
    /\ lookups' = [h \in Handlers |->
                     IF LookupAt(h, "idle") THEN lookups[h]
                     ELSE [lookups[h] EXCEPT !.waited = Later(lookups[h].waited),
                                             !.age = IF LookupAt(h, "answered")
                                                     THEN Later(lookups[h].age) ELSE 0]]
    /\ UNCHANGED published

LookupStep(h) ==
    \/ BeginLookup(h) \/ ReadStored(h) \/ SendKeys(h) \/ FetchFails(h)
    \/ StoreKeys(h) \/ Reread(h) \/ Fallback(h)
===============================================================================
