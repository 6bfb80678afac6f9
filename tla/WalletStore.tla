----------------------------- MODULE WalletStore -----------------------------
(***************************************************************************)
(* The PostgreSQL store of the wallet service                              *)
(* (internal/wallet/pgstore.go): concurrent handlers, each running one SQL *)
(* transaction statement by statement under READ COMMITTED.                *)
(*                                                                         *)
(* The variables of WalletLedger hold the committed tables.  What a        *)
(* handler has written and not yet committed is visible to nobody else and *)
(* is determined by its request, the wallet row it has read and its        *)
(* program counter; so are the row locks and index entries it holds.       *)
(* A statement that needs a row or a unique key held by another open       *)
(* transaction waits (the action is disabled) and looks again afterwards.  *)
(***************************************************************************)
EXTENDS WalletLedger, FiniteSets

CONSTANTS
    Procs,      \* request handlers
    Calls,      \* calls the clients of the store may make, and repeat
    MaxCalls,   \* bound on the calls made, for model checking
    Faults      \* whether statements may fail and replies may be lost

MoneyCalls == [kind : {"credit", "debit"}, wallet : Wallets, amount : Amounts, ref : RefIds]
RequestCalls == [kind : {"request"}, wallet : Wallets, amount : Amounts]
ReviewCalls == [kind : {"approve", "reject"}, id : Requests]
EnsureCalls == [kind : {"ensure"}, wallet : Wallets]

ASSUME CallsAssumption ==
    Calls \subseteq MoneyCalls \cup RequestCalls \cup ReviewCalls \cup EnsureCalls
ASSUME BoundsAssumption == MaxCalls \in Nat /\ Faults \in BOOLEAN

VARIABLES
    tx,     \* the transaction of each handler
    made    \* number of calls made

vars == <<wallets, ledger, withdrawals, tx, made>>

Steps == {"idle", "lookup", "claim", "lock", "insertWallet", "update",
          "insertRow", "commit", "replied"}

Replies == {"none", "ok", "existing", "notFound", "insufficient", "conflict",
            "duplicate", "walletExists", "notPending", "failed"}

Kinds == {"none", "credit", "debit", "request", "approve", "reject"}

\* kind, wallet, amount (in sub-units), ref: the call, with the reference id its
\* row will carry; id: the withdrawal request; fresh: the wallet row was inserted
\* by this transaction; balance, version: the wallet row as read under the lock.
Transaction ==
    [step : Steps, reply : Replies, kind : Kinds, wallet : Wallets \cup {NoWallet},
     amount : Nat, ref : RowRefs, id : Requests \cup {NoRef}, fresh : BOOLEAN,
     balance : Int, version : Nat]

Idle == [step |-> "idle", reply |-> "none", kind |-> "none", wallet |-> NoWallet,
         amount |-> 0, ref |-> NoRef, id |-> NoRef, fresh |-> FALSE,
         balance |-> 0, version |-> 0]

TypeOK ==
    /\ LedgerTypeOK
    /\ tx \in [Procs -> Transaction]
    /\ made \in 0 .. MaxCalls

Init ==
    /\ LedgerInit
    /\ tx = [p \in Procs |-> Idle]
    /\ made = 0

-----------------------------------------------------------------------------
(* Locks and uncommitted keys, read off the state of the transactions. *)

Open(p) == tx[p].step \notin {"idle", "replied"}

\* The row lock of an existing wallet, or the key of one inserted and not committed.
HoldsWallet(p, w) ==
    tx[p].wallet = w /\ tx[p].step \in {"update", "insertRow", "commit"}
                     /\ tx[p].kind # "approve"

HoldsRequest(p, q) ==
    /\ tx[p].kind \in {"approve", "reject"}
    /\ tx[p].id = q
    /\ tx[p].step \in {"lock", "update", "insertRow", "commit"}

\* Faulty variant: the key is taken before the wallet lock.
HoldsRefEarly(p, r) ==
    tx[p].step \in {"lock", "update", "insertRow", "commit"} /\ tx[p].ref = r

\* A transaction row with this reference id, inserted and not committed.
HoldsRef(p, r) ==
    tx[p].step = "commit" /\ tx[p].kind # "approve" /\ tx[p].ref = r

OthersFree(p, Holds(_, _), x) == \A o \in Procs \ {p} : ~Holds(o, x)

Reply(p, r) ==
    /\ tx' = [tx EXCEPT ![p].step = "replied", ![p].reply = r]
    /\ UNCHANGED <<ledgerVars, made>>

Goto(p, s) ==
    /\ tx' = [tx EXCEPT ![p].step = s]
    /\ UNCHANGED <<ledgerVars, made>>

-----------------------------------------------------------------------------
(* The arrival of a call at a handler. *)

Begin(p, t) ==
    /\ tx[p].step \in {"idle", "replied"}
    /\ made < MaxCalls
    /\ made' = made + 1
    /\ tx' = [tx EXCEPT ![p] = t]
    /\ UNCHANGED ledgerVars

\* CreditWallet and DebitWallet look up a non-empty reference id first.
BeginMoney(p, c) ==
    Begin(p, [Idle EXCEPT !.kind = c.kind, !.wallet = c.wallet, !.amount = c.amount,
                          !.ref = c.ref,
                          !.step = IF c.ref = NoRef THEN "lock" ELSE "lookup"])

\* RequestWithdrawal; its id is a random UUID, one never used before.
BeginRequest(p, c) ==
    \E q \in Requests :
        /\ withdrawals[q].status = "none"
        /\ \A o \in Procs : tx[o].id # q
        /\ Begin(p, [Idle EXCEPT !.kind = "request", !.wallet = c.wallet,
                                 !.amount = c.amount, !.ref = q, !.id = q,
                                 !.step = "lock"])

\* ApproveWithdrawal and RejectWithdrawal, called by ReviewWithdrawal.
BeginReview(p, c) ==
    Begin(p, [Idle EXCEPT !.kind = c.kind, !.id = c.id, !.step = "claim"])

\* CreateWallet, called by GetBalance when there is no wallet: one upsert, which
\* waits for the key or the row lock.
EnsureWallet(w) ==
    /\ made < MaxCalls
    /\ made' = made + 1
    /\ \A o \in Procs : ~HoldsWallet(o, w)
    /\ wallets' = [wallets EXCEPT ![w].exists = TRUE]
    /\ UNCHANGED <<ledger, withdrawals, tx>>

-----------------------------------------------------------------------------
(* The statements of a transaction. *)

\* SELECT id FROM transactions WHERE reference_id = $1
Lookup(p) ==
    /\ tx[p].step = "lookup"
    /\ IF Posted(tx[p].ref) THEN Reply(p, "existing") ELSE Goto(p, "lock")

\* Faulty variant: the request is claimed whatever its status.
ClaimReviewed(p) ==
    LET q == tx[p].id IN
    /\ tx[p].step = "claim"
    /\ OthersFree(p, HoldsRequest, q)
    /\ IF withdrawals[q].status = "none"
       THEN Reply(p, "notPending")
       ELSE /\ tx' = [tx EXCEPT
                        ![p].step = IF tx[p].kind = "approve" THEN "commit" ELSE "lock",
                        ![p].wallet = withdrawals[q].wallet,
                        ![p].amount = withdrawals[q].amount * Scale,
                        ![p].ref = IF tx[p].kind = "approve" THEN q ELSE Reversal(q)]
            /\ UNCHANGED <<ledgerVars, made>>

\* UPDATE withdrawal_requests SET status = ... WHERE id = $1 AND status = 'pending'
\* and, for an approval, the update of the transaction row.
Claim(p) ==
    LET q == tx[p].id IN
    /\ tx[p].step = "claim"
    /\ OthersFree(p, HoldsRequest, q)
    /\ IF withdrawals[q].status # "pending"
       THEN Reply(p, "notPending")
       ELSE /\ tx' = [tx EXCEPT
                        ![p].step = IF tx[p].kind = "approve" THEN "commit" ELSE "lock",
                        ![p].wallet = withdrawals[q].wallet,
                        ![p].amount = withdrawals[q].amount * Scale,
                        ![p].ref = IF tx[p].kind = "approve" THEN q ELSE Reversal(q)]
            /\ UNCHANGED <<ledgerVars, made>>

\* Faulty variant: a plain SELECT, which takes no lock and does not wait.
LockWalletPlain(p) ==
    LET w == tx[p].wallet IN
    /\ tx[p].step = "lock"
    /\ IF wallets[w].exists
       THEN /\ tx' = [tx EXCEPT ![p].step = "update",
                                ![p].balance = wallets[w].balance,
                                ![p].version = wallets[w].version]
            /\ UNCHANGED <<ledgerVars, made>>
       ELSE IF tx[p].kind = "credit"
            THEN Goto(p, "insertWallet")
            ELSE Reply(p, "notFound")

\* SELECT ... FROM wallets WHERE ... FOR UPDATE; a wallet inserted by an open
\* transaction is not seen and not waited for.
LockWallet(p) ==
    LET w == tx[p].wallet IN
    /\ tx[p].step = "lock"
    /\ IF wallets[w].exists
       THEN /\ OthersFree(p, HoldsWallet, w)
            /\ tx' = [tx EXCEPT ![p].step = "update",
                                ![p].balance = wallets[w].balance,
                                ![p].version = wallets[w].version]
            /\ UNCHANGED <<ledgerVars, made>>
       ELSE IF tx[p].kind = "credit"
            THEN Goto(p, "insertWallet")
            ELSE Reply(p, "notFound")

\* INSERT INTO wallets: waits for the same key in an open transaction, and fails
\* if the key is committed.
InsertWallet(p) ==
    LET w == tx[p].wallet IN
    /\ tx[p].step = "insertWallet"
    /\ OthersFree(p, HoldsWallet, w)
    /\ IF wallets[w].exists
       THEN Reply(p, "walletExists")
       ELSE /\ tx' = [tx EXCEPT ![p].step = "update", ![p].fresh = TRUE]
            /\ UNCHANGED <<ledgerVars, made>>

\* Faulty variant: a rejection takes the amount a second time.
TakesAgain(p) == tx[p].kind \in {"debit", "request", "reject"}

Takes(p) == tx[p].kind \in {"debit", "request"}

\* Faulty variant: the balance is not checked.
UpdateWalletUnchecked(p) ==
    /\ tx[p].step = "update"
    /\ IF ~tx[p].fresh /\ wallets[tx[p].wallet].version # tx[p].version
       THEN Reply(p, "conflict")
       ELSE Goto(p, "insertRow")

\* The balance check, then UPDATE wallets ... WHERE id = $2 AND version = $3
UpdateWallet(p) ==
    /\ tx[p].step = "update"
    /\ IF Takes(p) /\ tx[p].balance * Scale < tx[p].amount
       THEN Reply(p, "insufficient")
       ELSE IF ~tx[p].fresh /\ wallets[tx[p].wallet].version # tx[p].version
            THEN Reply(p, "conflict")
            ELSE Goto(p, "insertRow")

\* Faulty variant: reference_id is not unique.
InsertRowAnyway(p) == tx[p].step = "insertRow" /\ Goto(p, "commit")

\* INSERT INTO transactions (for a request after the withdrawal request, for a
\* rejection after the status change of the original row): waits for the same
\* reference id in an open transaction.  If it is committed the statement fails,
\* and with it the transaction: the second lookup cannot run in it.
InsertRow(p) ==
    LET r == tx[p].ref IN
    /\ tx[p].step = "insertRow"
    /\ r # NoRef => OthersFree(p, HoldsRef, r)
    /\ IF NotPosted(r) THEN Goto(p, "commit") ELSE Reply(p, "duplicate")

\* Faulty variant: the rounded amount is taken for the exact one.
NewBalanceRounded(p) ==
    LET old == tx[p].balance * Scale
        a == Stored(tx[p].amount)
    IN  Stored(IF Takes(p) THEN old - a ELSE old + a)

\* The balance the transaction computed from the row it read.
NewBalance(p) ==
    LET old == tx[p].balance * Scale
    IN  Stored(IF Takes(p) THEN old - tx[p].amount ELSE old + tx[p].amount)

\* Faulty variant: the kind of the call is written as the type of the row.
RowTypeKind(kind) == kind

RowType(kind) ==
    CASE kind = "credit" -> "deposit"
      [] kind = "reject" -> "adjustment"
      [] OTHER -> "withdrawal"

\* Faulty variant: the rows of the wallet are updated, not the row of the request.
ReviewedRowsAll(p, w) ==
    CASE tx[p].kind = "approve" ->
            [i \in DOMAIN ledger[w] |-> [ledger[w][i] EXCEPT !.status = "completed"]]
      [] tx[p].kind = "reject" ->
            [i \in DOMAIN ledger[w] |-> [ledger[w][i] EXCEPT !.status = "reversed"]]
      [] OTHER -> ledger[w]

\* The rows of the wallet after the updates of existing rows.
ReviewedRows(p, w) ==
    CASE tx[p].kind = "approve" -> WithStatus(ledger[w], tx[p].id, "completed")
      [] tx[p].kind = "reject" -> WithStatus(ledger[w], tx[p].id, "reversed")
      [] OTHER -> ledger[w]

\* COMMIT makes the writes of the transaction visible, all at once.  The reply may
\* be lost after that.
Commit(p) ==
    LET w == tx[p].wallet
        row == NewRow(tx[p].ref, RowType(tx[p].kind), Stored(tx[p].amount),
                      tx[p].balance, NewBalance(p),
                      IF tx[p].kind = "request" THEN "pending" ELSE "completed")
    IN  /\ tx[p].step = "commit"
        /\ IF tx[p].kind = "approve"
           THEN /\ ledger' = [ledger EXCEPT ![w] = ReviewedRows(p, w)]
                /\ UNCHANGED wallets
           ELSE /\ ledger' = [ledger EXCEPT ![w] = Append(ReviewedRows(p, w), row)]
                /\ wallets' = [wallets EXCEPT ![w] =
                                 [exists |-> TRUE, balance |-> NewBalance(p),
                                  version |-> wallets[w].version + 1]]
        /\ withdrawals' =
             CASE tx[p].kind = "request" ->
                    [withdrawals EXCEPT ![tx[p].id] =
                       [wallet |-> w, amount |-> Stored(tx[p].amount),
                        status |-> "pending"]]
               [] tx[p].kind = "approve" ->
                    [withdrawals EXCEPT ![tx[p].id].status = "approved"]
               [] tx[p].kind = "reject" ->
                    [withdrawals EXCEPT ![tx[p].id].status = "rejected"]
               [] OTHER -> withdrawals
        /\ \E r \in IF Faults THEN {"ok", "failed"} ELSE {"ok"} :
              tx' = [tx EXCEPT ![p].step = "replied", ![p].reply = r]
        /\ UNCHANGED made

\* Faulty variant: the error is swallowed.
FailSilently(p) ==
    /\ Faults
    /\ Open(p)
    /\ Reply(p, "ok")

\* A statement fails, the caller goes away or the service stops: the transaction
\* is rolled back (defer tx.Rollback()) and its locks are released.
Fail(p) ==
    /\ Faults
    /\ Open(p)
    /\ Reply(p, "failed")

-----------------------------------------------------------------------------
Arrive(p) ==
    \/ \E c \in Calls \cap MoneyCalls : BeginMoney(p, c)
    \/ \E c \in Calls \cap RequestCalls : BeginRequest(p, c)
    \/ \E c \in Calls \cap ReviewCalls : BeginReview(p, c)

Step(p) ==
    \/ Lookup(p) \/ Claim(p) \/ LockWallet(p) \/ InsertWallet(p)
    \/ UpdateWallet(p) \/ InsertRow(p) \/ Commit(p)

Next ==
    \/ \E p \in Procs : Arrive(p) \/ Step(p) \/ Fail(p)
    \/ \E c \in Calls \cap EnsureCalls : EnsureWallet(c.wallet)

Spec == Init /\ [][Next]_vars

\* A handler whose next statement can run runs it.
FairSpec == Spec /\ \A p \in Procs : WF_vars(Step(p))

-----------------------------------------------------------------------------
\* The version test of UPDATE wallets never fails, and a wallet inserted by an
\* open transaction is not committed by another: the row lock already excludes
\* the conflict that ErrWalletConflict reports.
NoWalletConflict ==
    \A p \in Procs :
        /\ tx[p].reply # "conflict"
        /\ tx[p].step \in {"update", "insertRow", "commit"} /\ tx[p].kind # "approve" =>
              /\ wallets[tx[p].wallet].balance = tx[p].balance
              /\ wallets[tx[p].wallet].version = tx[p].version
              /\ wallets[tx[p].wallet].exists = ~tx[p].fresh

\* A client that is told its credit or debit is done finds it in the ledger: on
\* its wallet, in its direction and for its amount, whatever failed, was retried
\* or ran concurrently.  It needs callers that never use one reference id for
\* two different calls.
AckedIsPosted ==
    \A p \in Procs :
        (tx[p].kind \in {"credit", "debit"} /\ tx[p].reply \in {"ok", "existing"}) =>
            RowWith(tx[p].wallet, tx[p].ref, RowType(tx[p].kind),
                    Stored(tx[p].amount), "completed")
              \/ tx[p].ref = NoRef

\* Waiting for row locks and for unique keys always ends: no two transactions wait
\* for each other, and every call is answered.
EveryCallAnswered ==
    \A p \in Procs : Open(p) ~> ~Open(p)

\* The committed tables change only by atomic steps of the ledger, each allowed
\* by the balance, the references and the requests as they are at that moment:
\* concurrent SQL transactions are serialised by their locks.
ImplementsLedger == LedgerSpec
=============================================================================
