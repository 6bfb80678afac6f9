---------------------------- MODULE WalletLedger ----------------------------
(***************************************************************************)
(* What the wallet service promises: every operation that moves money is   *)
(* one atomic step on the wallets, the transaction rows and the withdrawal *)
(* requests.  The actions are those of the in-memory store, which runs     *)
(* every operation under one mutex (internal/wallet/memory_store.go);      *)
(* WalletStore, the PostgreSQL store, is shown to implement this module.   *)
(*                                                                         *)
(* Money.  Amounts arrive as exact decimals and are stored in              *)
(* NUMERIC(28,8) columns.  A stored number counts stored units; an amount  *)
(* counts sub-units, Scale of which make one stored unit.  Scale = 1 means *)
(* that every amount has at most eight decimals, and is the in-memory      *)
(* store, which rounds nothing.                                            *)
(***************************************************************************)
EXTENDS Integers, Sequences

CONSTANTS
    Wallets,    \* (user, currency) pairs
    Refs,       \* reference ids chosen by callers
    NoRef,      \* the empty reference id, stored as NULL
    Requests,   \* ids of withdrawal requests
    Amounts,    \* amounts of calls, in sub-units
    Scale,      \* sub-units in one stored unit
    NoWallet    \* the wallet of a request id not yet used

\* The reference id of the row that gives a rejected withdrawal back.
Reversal(q) == <<"reversal", q>>

RefIds == Refs \cup {NoRef}
RowRefs == RefIds \cup Requests \cup {Reversal(q) : q \in Requests}

ASSUME ScaleAssumption == Scale \in Nat \ {0}
ASSUME AmountsAssumption == Amounts \subseteq Nat \ {0}
ASSUME RefAssumption ==
    /\ NoRef \notin Refs
    /\ RefIds \cap Requests = {}
    /\ \A q \in Requests : Reversal(q) \notin RefIds \cup Requests
ASSUME NoWalletAssumption == NoWallet \notin Wallets

\* Rounding of a non-negative number of sub-units to stored units, half away
\* from zero, as PostgreSQL does on assignment to a NUMERIC(28,8) column.
Stored(x) == (2 * x + Scale) \div (2 * Scale)

WalletRow == [exists : BOOLEAN, balance : Int, version : Nat]

Row == [ref : RowRefs, type : {"deposit", "withdrawal", "adjustment"},
        amount : Nat, before : Int, after : Int,
        status : {"pending", "completed", "reversed"}]

Request == [wallet : Wallets \cup {NoWallet}, amount : Nat,
            status : {"none", "pending", "approved", "rejected"}]

VARIABLES
    wallets,      \* the wallets table
    ledger,       \* the transactions table: per wallet, in the order of commit
    withdrawals   \* the withdrawal_requests table

ledgerVars == <<wallets, ledger, withdrawals>>

AbsentWallet == [exists |-> FALSE, balance |-> 0, version |-> 0]

UnusedRequest == [wallet |-> NoWallet, amount |-> 0, status |-> "none"]

LedgerTypeOK ==
    /\ wallets \in [Wallets -> WalletRow]
    /\ ledger \in [Wallets -> Seq(Row)]
    /\ withdrawals \in [Requests -> Request]

LedgerInit ==
    /\ wallets = [w \in Wallets |-> AbsentWallet]
    /\ ledger = [w \in Wallets |-> <<>>]
    /\ withdrawals = [q \in Requests |-> UnusedRequest]

-----------------------------------------------------------------------------
\* A transaction row carries this reference id.
Posted(r) ==
    \E w \in Wallets : \E i \in DOMAIN ledger[w] : ledger[w][i].ref = r

\* The existing-transaction lookup lets a call through.
NotPosted(r) == r = NoRef \/ ~Posted(r)

NewRow(r, type, amount, before, after, status) ==
    [ref |-> r, type |-> type, amount |-> amount, before |-> before,
     after |-> after, status |-> status]

\* The balance of wallet w becomes "after" and a row records it; "rows" are
\* the rows of w before, with the status changes made by the same operation.
Post(w, rows, r, type, amount, after, status) ==
    /\ wallets' = [wallets EXCEPT ![w] =
                     [exists |-> TRUE, balance |-> after,
                      version |-> wallets[w].version + 1]]
    /\ ledger' = [ledger EXCEPT ![w] =
                    Append(rows, NewRow(r, type, amount, wallets[w].balance,
                                        after, status))]

\* The rows with the status of the row with reference id r replaced.
WithStatus(rows, r, s) ==
    [i \in DOMAIN rows |->
        IF rows[i].ref = r THEN [rows[i] EXCEPT !.status = s] ELSE rows[i]]

Added(w, a) == Stored(wallets[w].balance * Scale + a)

Subtracted(w, a) == Stored(wallets[w].balance * Scale - a)

Covers(w, a) == wallets[w].exists /\ wallets[w].balance * Scale >= a

CreateWallet(w) ==
    /\ ~wallets[w].exists
    /\ wallets' = [wallets EXCEPT ![w].exists = TRUE]
    /\ UNCHANGED <<ledger, withdrawals>>

Credit(w, a, r) ==
    /\ NotPosted(r)
    /\ Post(w, ledger[w], r, "deposit", Stored(a), Added(w, a), "completed")
    /\ UNCHANGED withdrawals

Debit(w, a, r) ==
    /\ NotPosted(r)
    /\ Covers(w, a)
    /\ Post(w, ledger[w], r, "withdrawal", Stored(a), Subtracted(w, a), "completed")
    /\ UNCHANGED withdrawals

RequestWithdrawal(w, a, q) ==
    /\ withdrawals[q].status = "none"
    /\ Covers(w, a)
    /\ Post(w, ledger[w], q, "withdrawal", Stored(a), Subtracted(w, a), "pending")
    /\ withdrawals' = [withdrawals EXCEPT ![q] =
                         [wallet |-> w, amount |-> Stored(a), status |-> "pending"]]

ApproveWithdrawal(q) ==
    /\ withdrawals[q].status = "pending"
    /\ withdrawals' = [withdrawals EXCEPT ![q].status = "approved"]
    /\ ledger' = [ledger EXCEPT ![withdrawals[q].wallet] =
                    WithStatus(@, q, "completed")]
    /\ UNCHANGED wallets

RejectWithdrawal(q) ==
    LET w == withdrawals[q].wallet
        a == withdrawals[q].amount
    IN  /\ withdrawals[q].status = "pending"
        /\ withdrawals' = [withdrawals EXCEPT ![q].status = "rejected"]
        /\ Post(w, WithStatus(ledger[w], q, "reversed"), Reversal(q),
                "adjustment", a, wallets[w].balance + a, "completed")

LedgerNext ==
    \/ \E w \in Wallets : CreateWallet(w)
    \/ \E w \in Wallets, a \in Amounts, r \in RefIds :
          Credit(w, a, r) \/ Debit(w, a, r)
    \/ \E w \in Wallets, a \in Amounts, q \in Requests : RequestWithdrawal(w, a, q)
    \/ \E q \in Requests : ApproveWithdrawal(q) \/ RejectWithdrawal(q)

LedgerSpec == LedgerInit /\ [][LedgerNext]_ledgerVars

-----------------------------------------------------------------------------
\* No interleaving of debits and withdrawal requests overdraws a wallet: the
\* balance that DebitWallet and RequestWithdrawal check is the one they subtract
\* from, and rounding does not take the result below zero.
NoOverdraft ==
    \A w \in Wallets : wallets[w].balance >= 0

\* The rows of a wallet form one chain: the first starts from zero, each starts
\* from the balance its predecessor left, the last one left the wallet's present
\* balance, and the optimistic-lock version counts them.  No update is lost, and
\* none is made without its row.
ChainedRows ==
    \A w \in Wallets :
        LET rows == ledger[w] IN
        /\ Len(rows) = wallets[w].version
        /\ \A i \in 1 .. Len(rows) :
              rows[i].before = IF i = 1 THEN 0 ELSE rows[i - 1].after
        /\ wallets[w].balance =
              IF rows = <<>> THEN 0 ELSE rows[Len(rows)].after

\* Each row explains its change of balance to within one stored unit, and
\* exactly when Scale = 1: amount and balance are rounded separately.
RowsExplainBalances ==
    \A w \in Wallets : \A i \in DOMAIN ledger[w] :
        LET row == ledger[w][i]
            drift == IF row.type = "withdrawal"
                     THEN row.before - row.after - row.amount
                     ELSE row.after - row.before - row.amount
        IN  IF Scale = 1 THEN drift = 0 ELSE drift \in -1 .. 1

\* A reference id is posted at most once in the whole table, whatever the
\* wallet: repeated deliveries and retries move money once.
PostedOnce ==
    \A w1, w2 \in Wallets :
        \A i \in DOMAIN ledger[w1], j \in DOMAIN ledger[w2] :
            (ledger[w1][i].ref = ledger[w2][j].ref /\ ledger[w1][i].ref # NoRef)
                => (w1 = w2 /\ i = j)

RowWith(w, r, type, amount, status) ==
    \E i \in DOMAIN ledger[w] :
        /\ ledger[w][i].ref = r
        /\ ledger[w][i].type = type
        /\ ledger[w][i].amount = amount
        /\ ledger[w][i].status = status

RequestBalanced(q) ==
    LET req == withdrawals[q] IN
    /\ req.status = "none" => ~Posted(q)
    /\ Posted(Reversal(q)) => req.status = "rejected"
    /\ req.status = "pending" =>
          RowWith(req.wallet, q, "withdrawal", req.amount, "pending")
    /\ req.status = "approved" =>
          RowWith(req.wallet, q, "withdrawal", req.amount, "completed")
    /\ req.status = "rejected" =>
          /\ RowWith(req.wallet, q, "withdrawal", req.amount, "reversed")
          /\ RowWith(req.wallet, Reversal(q), "adjustment", req.amount, "completed")

\* A withdrawal request and the ledger tell the same story: a held amount while
\* pending, a completed one once approved, and exactly one giving back of the
\* same amount once, and only once, rejected.
WithdrawalsBalanced == \A q \in Requests : RequestBalanced(q)

\* Rejecting a withdrawal gives back what requesting it took.
RejectionRestores ==
    \A w \in Wallets : \A i, j \in DOMAIN ledger[w] :
        (\E q \in Requests : ledger[w][i].ref = q /\ ledger[w][j].ref = Reversal(q))
            => ledger[w][j].after - ledger[w][j].before
                 = ledger[w][i].before - ledger[w][i].after

\* A row, once written, is never removed and never changes but for the status of
\* a withdrawal that is reviewed: pending becomes completed or reversed, once.
RowsPermanent ==
    [][\A w \in Wallets :
          /\ Len(ledger'[w]) >= Len(ledger[w])
          /\ \A i \in DOMAIN ledger[w] :
                \/ ledger'[w][i] = ledger[w][i]
                \/ /\ ledger[w][i].status = "pending"
                   /\ ledger'[w][i] = [ledger[w][i] EXCEPT
                                         !.status = ledger'[w][i].status]
      ]_ledgerVars
=============================================================================
