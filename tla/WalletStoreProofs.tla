-------------------------- MODULE WalletStoreProofs --------------------------
(***************************************************************************)
(* The PostgreSQL store implements the atomic ledger, for every number of  *)
(* handlers, wallets, references and requests, every scale and every       *)
(* interleaving of statements, failures and lost replies.                  *)
(*                                                                         *)
(* StoreInv is the inductive invariant.  A commit is an atomic step of the *)
(* ledger because what its transaction read still holds: the locks it      *)
(* holds are held by nobody else (Exclusive), so the wallet row is the one *)
(* it read (NoWalletConflict), the claimed request is still pending        *)
(* (ClaimHeld), the reference id is still free (RefFree) and the balance   *)
(* still covers the amount (FundsHeld).                                    *)
(***************************************************************************)
EXTENDS WalletStore, WalletLedgerProofs

\* What the kind of a call says about the fields of its transaction.
Shape(p) ==
    LET t == tx[p] IN
    /\ Open(p) => t.kind # "none"
    /\ t.kind \in {"credit", "debit", "request"} => t.wallet \in Wallets /\ t.amount \in Amounts
    /\ t.kind \in {"credit", "debit"} => t.ref \in RefIds
    /\ t.kind = "request" => t.id \in Requests /\ t.ref = t.id
    /\ t.kind \in {"approve", "reject"} => t.id \in Requests
    /\ t.step = "lookup" => t.kind \in {"credit", "debit"}
    /\ t.step = "claim" => t.kind \in {"approve", "reject"}
    /\ t.step \in {"lock", "update", "insertRow"} => t.kind # "approve"
    /\ t.step = "insertWallet" \/ t.fresh => t.kind = "credit"
    /\ t.step \in {"lookup", "claim", "lock", "insertWallet"} =>
          t.fresh = FALSE /\ t.balance = 0 /\ t.version = 0

\* The request that a review has claimed is as it was claimed.
ClaimHeld(p) ==
    LET t == tx[p] IN
    HoldsRequest(p, t.id) =>
        /\ withdrawals[t.id].status = "pending"
        /\ t.wallet = withdrawals[t.id].wallet
        /\ t.amount = withdrawals[t.id].amount * Scale
        /\ t.kind = "reject" => t.ref = Reversal(t.id)

\* The id of a withdrawal request under way is used by no other request.
RequestFresh(p) ==
    (Open(p) /\ tx[p].kind = "request") => withdrawals[tx[p].id].status = "none"

\* The balance that was read covers what is taken.
FundsHeld(p) ==
    (tx[p].step \in {"insertRow", "commit"} /\ Takes(p)) =>
        tx[p].balance * Scale >= tx[p].amount

\* The reference id of an inserted row is not committed by another transaction.
RefFree(p) ==
    (tx[p].step = "commit" /\ tx[p].kind # "approve") => NotPosted(tx[p].ref)

\* Wallet rows, requests and reference ids are held by one transaction at a time.
Exclusive(p, o) ==
    /\ HoldsWallet(p, tx[o].wallet) => ~HoldsWallet(o, tx[o].wallet)
    /\ HoldsRequest(p, tx[o].id) => ~HoldsRequest(o, tx[o].id)
    /\ (HoldsRef(p, tx[o].ref) /\ tx[o].ref # NoRef) => ~HoldsRef(o, tx[o].ref)
    /\ (Open(p) /\ Open(o) /\ tx[p].kind = "request" /\ tx[o].kind = "request")
          => tx[p].id # tx[o].id

\* The wallet row is the one that was read (the body of NoWalletConflict).
Snapshot(p) ==
    /\ tx[p].reply # "conflict"
    /\ tx[p].step \in {"update", "insertRow", "commit"} /\ tx[p].kind # "approve" =>
          /\ wallets[tx[p].wallet].balance = tx[p].balance
          /\ wallets[tx[p].wallet].version = tx[p].version
          /\ wallets[tx[p].wallet].exists = ~tx[p].fresh

\* What holds of the transaction of each handler, taken alone.
Sound(p) ==
    /\ Shape(p)
    /\ Snapshot(p)
    /\ ClaimHeld(p)
    /\ RequestFresh(p)
    /\ FundsHeld(p)
    /\ RefFree(p)

\* A wallet that does not exist has never been posted to.
AbsentEmpty ==
    \A w \in Wallets :
        ~wallets[w].exists => wallets[w].balance = 0 /\ wallets[w].version = 0

\* What holds of the tables and of the transactions under way.
StoreInv ==
    /\ LedgerInv
    /\ AbsentEmpty
    /\ TypeOK
    /\ \A p \in Procs : Sound(p)
    /\ \A p, o \in Procs : p # o => Exclusive(p, o)

-----------------------------------------------------------------------------
(* Steps that change one transaction and no table. *)

\* A statement that only reads or writes uncommitted rows: it is enough to look at
\* the transaction of its own handler.
LEMMA LocalStep ==
    ASSUME StoreInv, NEW p \in Procs, NEW t \in Transaction,
           tx' = [tx EXCEPT ![p] = t],
           wallets' = wallets, ledger' = ledger, withdrawals' = withdrawals,
           made' \in 0 .. MaxCalls,
           Sound(p)',
           \A o \in Procs \ {p} : Exclusive(p, o)'
    PROVE  StoreInv'
  <1>1. /\ tx'[p] = t
        /\ \A o \in Procs \ {p} : tx'[o] = tx[o]
        /\ tx' \in [Procs -> Transaction]
    BY DEF StoreInv, TypeOK
  <1>2. LedgerInv' /\ AbsentEmpty'
    BY DEF StoreInv, LedgerInv, LedgerTypeOK, RequestsPlaced, NoOverdraft, ChainedRows,
           PostedOnce, WithdrawalsBalanced, RequestBalanced, Posted, RowWith, AbsentEmpty
  <1>3. TypeOK'
    BY <1>1, <1>2 DEF TypeOK, LedgerInv
  <1>4. ASSUME NEW o \in Procs \ {p}  PROVE Sound(o)'
    <2>1. tx'[o] = tx[o] /\ Sound(o)
      BY <1>1 DEF StoreInv
    <2> QED  BY <2>1 DEF Sound, Shape, Snapshot, ClaimHeld, RequestFresh, FundsHeld, RefFree,
                        Open, HoldsRequest, Takes, NotPosted, Posted
  <1>5. ASSUME NEW x \in Procs, NEW o \in Procs, x # o  PROVE Exclusive(x, o)'
    <2>1. CASE x = p
      BY <1>5, <2>1
    <2>2. CASE o = p
      <3>1. Exclusive(p, x)'
        BY <1>5, <2>2
      <3> QED  BY <2>2, <3>1 DEF Exclusive, HoldsWallet, HoldsRequest, HoldsRef, Open
    <2>3. CASE x # p /\ o # p
      <3>1. tx'[x] = tx[x] /\ tx'[o] = tx[o] /\ Exclusive(x, o)
        BY <1>1, <1>5, <2>3 DEF StoreInv
      <3> QED  BY <3>1 DEF Exclusive, HoldsWallet, HoldsRequest, HoldsRef, Open
    <2> QED  BY <2>1, <2>2, <2>3
  <1> QED  BY <1>2, <1>3, <1>4, <1>5 DEF StoreInv

\* The facts about one handler that every step starts from.
LEMMA SoundFacts ==
    ASSUME StoreInv, NEW p \in Procs
    PROVE  /\ tx[p] \in Transaction /\ Sound(p) /\ made \in 0 .. MaxCalls /\ MaxCalls \in Nat
           /\ \A o \in Procs \ {p} : Exclusive(p, o) /\ tx[o] \in Transaction
  BY BoundsAssumption DEF StoreInv, TypeOK

\* Ending a transaction without committing it (a reply of an error, or Fail).
LEMMA ReplyStep ==
    ASSUME StoreInv, NEW p \in Procs, NEW r \in Replies \ {"conflict"}, Reply(p, r)
    PROVE  StoreInv'
  <1> DEFINE t == [tx[p] EXCEPT !.step = "replied", !.reply = r]
  <1>1. tx[p] \in Transaction /\ Sound(p)
    BY SoundFacts
  <1>2. t \in Transaction /\ tx' = [tx EXCEPT ![p] = t]
    BY <1>1 DEF Reply, Transaction, Steps
  <1>3. /\ wallets' = wallets /\ ledger' = ledger /\ withdrawals' = withdrawals
        /\ made' \in 0 .. MaxCalls
    BY SoundFacts DEF Reply, ledgerVars
  <1>4. tx'[p] = t
    BY <1>2 DEF StoreInv, TypeOK
  <1>5. /\ tx'[p].step = "replied" /\ tx'[p].reply = r /\ tx'[p].kind = tx[p].kind
        /\ tx'[p].wallet = tx[p].wallet /\ tx'[p].amount = tx[p].amount
        /\ tx'[p].ref = tx[p].ref /\ tx'[p].id = tx[p].id /\ tx'[p].fresh = tx[p].fresh
    BY <1>1, <1>4 DEF Transaction
  <1>6. Sound(p)'
    BY <1>1, <1>5 DEF Sound, Shape, Snapshot, ClaimHeld, RequestFresh, FundsHeld, RefFree,
                      Open, HoldsRequest
  <1>7. \A o \in Procs \ {p} : Exclusive(p, o)'
    BY <1>5 DEF Exclusive, HoldsWallet, HoldsRequest, HoldsRef, Open
  <1> HIDE DEF t
  <1> QED  BY <1>2, <1>3, <1>6, <1>7, LocalStep

\* Running the next statement of the same transaction, when what the step adds
\* to the invariant is known.
LEMMA GotoStep ==
    ASSUME StoreInv, NEW p \in Procs, NEW s \in Steps, Goto(p, s),
           Sound(p)', \A o \in Procs \ {p} : Exclusive(p, o)'
    PROVE  StoreInv'
  <1> DEFINE t == [tx[p] EXCEPT !.step = s]
  <1>1. tx[p] \in Transaction
    BY SoundFacts
  <1>2. t \in Transaction /\ tx' = [tx EXCEPT ![p] = t]
    BY <1>1 DEF Goto, Transaction
  <1>3. /\ wallets' = wallets /\ ledger' = ledger /\ withdrawals' = withdrawals
        /\ made' \in 0 .. MaxCalls
    BY SoundFacts DEF Goto, ledgerVars
  <1> HIDE DEF t
  <1> QED  BY <1>2, <1>3, LocalStep

\* What a step of one transaction leaves alone.
LEMMA GotoFacts ==
    ASSUME StoreInv, NEW p \in Procs, NEW s \in Steps, Goto(p, s)
    PROVE  /\ tx'[p].step = s /\ tx'[p].reply = tx[p].reply /\ tx'[p].kind = tx[p].kind
           /\ tx'[p].wallet = tx[p].wallet /\ tx'[p].amount = tx[p].amount
           /\ tx'[p].ref = tx[p].ref /\ tx'[p].id = tx[p].id /\ tx'[p].fresh = tx[p].fresh
           /\ tx'[p].balance = tx[p].balance /\ tx'[p].version = tx[p].version
           /\ \A o \in Procs \ {p} : tx'[o] = tx[o]
           /\ wallets' = wallets /\ ledger' = ledger /\ withdrawals' = withdrawals
  <1>1. tx[p] \in Transaction
    BY SoundFacts
  <1>2. tx'[p] = [tx[p] EXCEPT !.step = s] /\ \A o \in Procs \ {p} : tx'[o] = tx[o]
    BY DEF Goto, StoreInv, TypeOK
  <1>3. wallets' = wallets /\ ledger' = ledger /\ withdrawals' = withdrawals
    BY DEF Goto, ledgerVars
  <1> QED  BY <1>1, <1>2, <1>3 DEF Transaction

\* A new call replaces the transaction of an idle handler.
LEMMA BeginStep ==
    ASSUME StoreInv, NEW p \in Procs, NEW t \in Transaction, Begin(p, t),
           Sound(p)', \A o \in Procs \ {p} : Exclusive(p, o)'
    PROVE  StoreInv'
  <1>1. /\ tx' = [tx EXCEPT ![p] = t]
        /\ wallets' = wallets /\ ledger' = ledger /\ withdrawals' = withdrawals
    BY DEF Begin, ledgerVars
  <1>2. made' \in 0 .. MaxCalls
    BY SoundFacts DEF Begin
  <1> QED  BY <1>1, <1>2, LocalStep

\* The record of a handler before its first statement is well typed.
LEMMA IdleType ==
    /\ Idle \in Transaction
    /\ RefIds \subseteq RowRefs /\ Requests \subseteq RowRefs
  <1>1. RefIds \subseteq RowRefs /\ Requests \subseteq RowRefs /\ NoRef \in RowRefs
    BY DEF RowRefs, RefIds
  <1>2. Idle \in Transaction
    BY <1>1 DEF Idle, Transaction, Steps, Replies, Kinds
  <1> QED  BY <1>1, <1>2

\* CreditWallet and DebitWallet begin.
LEMMA BeginMoneyStep ==
    ASSUME StoreInv, NEW p \in Procs, NEW c \in Calls \cap MoneyCalls, BeginMoney(p, c)
    PROVE  StoreInv'
  <1> DEFINE t == [Idle EXCEPT !.kind = c.kind, !.wallet = c.wallet, !.amount = c.amount,
                               !.ref = c.ref,
                               !.step = IF c.ref = NoRef THEN "lock" ELSE "lookup"]
  <1>1. /\ c.kind \in {"credit", "debit"} /\ c.wallet \in Wallets
        /\ c.amount \in Amounts /\ c.amount \in Nat /\ c.ref \in RefIds
    BY AmountsAssumption DEF MoneyCalls
  <1>2. t \in Transaction
    <2>1. c.ref \in RowRefs /\ c.kind \in Kinds
            /\ (IF c.ref = NoRef THEN "lock" ELSE "lookup") \in Steps
      BY <1>1, IdleType DEF Kinds, Steps
    <2> QED  BY <1>1, <2>1, IdleType DEF Transaction
  <1>3. Begin(p, t)
    BY DEF BeginMoney
  <1>4. tx'[p] = t /\ \A o \in Procs \ {p} : tx'[o] = tx[o]
    BY <1>3 DEF Begin, StoreInv, TypeOK
  <1>5. /\ tx'[p].step \in {"lock", "lookup"} /\ tx'[p].reply = "none"
        /\ tx'[p].kind \in {"credit", "debit"}
        /\ tx'[p].wallet \in Wallets /\ tx'[p].amount \in Amounts /\ tx'[p].ref \in RefIds
        /\ tx'[p].fresh = FALSE /\ tx'[p].balance = 0 /\ tx'[p].version = 0
    BY <1>1, <1>4 DEF Idle
  <1> HIDE DEF t
  <1>6. Sound(p)'
    BY <1>5 DEF Sound, Shape, Snapshot, ClaimHeld, RequestFresh, FundsHeld, RefFree,
                Open, HoldsRequest
  <1>7. \A o \in Procs \ {p} : Exclusive(p, o)'
    BY <1>5 DEF Exclusive, HoldsWallet, HoldsRequest, HoldsRef
  <1> QED  BY <1>2, <1>3, <1>6, <1>7, BeginStep

\* RequestWithdrawal begins, with an id never used before.
LEMMA BeginRequestStep ==
    ASSUME StoreInv, NEW p \in Procs, NEW c \in Calls \cap RequestCalls, BeginRequest(p, c)
    PROVE  StoreInv'
  <1>1. PICK q \in Requests :
           /\ withdrawals[q].status = "none"
           /\ \A o \in Procs : tx[o].id # q
           /\ Begin(p, [Idle EXCEPT !.kind = "request", !.wallet = c.wallet,
                                    !.amount = c.amount, !.ref = q, !.id = q,
                                    !.step = "lock"])
    BY DEF BeginRequest
  <1> DEFINE t == [Idle EXCEPT !.kind = "request", !.wallet = c.wallet,
                               !.amount = c.amount, !.ref = q, !.id = q, !.step = "lock"]
  <1>2. c.wallet \in Wallets /\ c.amount \in Amounts /\ c.amount \in Nat
    BY AmountsAssumption DEF RequestCalls
  <1>3. t \in Transaction
    <2>1. q \in RowRefs /\ "request" \in Kinds /\ "lock" \in Steps
      BY IdleType DEF Kinds, Steps
    <2> QED  BY <1>2, <2>1, IdleType DEF Transaction
  <1>4. tx'[p] = t /\ \A o \in Procs \ {p} : tx'[o] = tx[o]
    BY <1>1 DEF Begin, StoreInv, TypeOK
  <1>5. /\ tx'[p].step = "lock" /\ tx'[p].reply = "none" /\ tx'[p].kind = "request"
        /\ tx'[p].wallet \in Wallets /\ tx'[p].amount \in Amounts
        /\ tx'[p].ref = q /\ tx'[p].id = q
        /\ tx'[p].fresh = FALSE /\ tx'[p].balance = 0 /\ tx'[p].version = 0
    BY <1>2, <1>4 DEF Idle
  <1>6. withdrawals' = withdrawals
    BY <1>1 DEF Begin, ledgerVars
  <1>7. Begin(p, t)
    BY <1>1
  <1> HIDE DEF t
  <1>8. Sound(p)'
    BY <1>1, <1>5, <1>6 DEF Sound, Shape, Snapshot, ClaimHeld, RequestFresh, FundsHeld,
                            RefFree, Open, HoldsRequest
  <1>9. \A o \in Procs \ {p} : Exclusive(p, o)'
    BY <1>1, <1>4, <1>5 DEF Exclusive, HoldsWallet, HoldsRequest, HoldsRef
  <1> QED  BY <1>3, <1>7, <1>8, <1>9, BeginStep

\* ReviewWithdrawal begins.
LEMMA BeginReviewStep ==
    ASSUME StoreInv, NEW p \in Procs, NEW c \in Calls \cap ReviewCalls, BeginReview(p, c)
    PROVE  StoreInv'
  <1> DEFINE t == [Idle EXCEPT !.kind = c.kind, !.id = c.id, !.step = "claim"]
  <1>1. c.kind \in {"approve", "reject"} /\ c.id \in Requests
    BY DEF ReviewCalls
  <1>2. t \in Transaction
    <2>1. c.kind \in Kinds /\ "claim" \in Steps
      BY <1>1 DEF Kinds, Steps
    <2> QED  BY <1>1, <2>1, IdleType DEF Transaction
  <1>3. Begin(p, t)
    BY DEF BeginReview
  <1>4. tx'[p] = t
    BY <1>3 DEF Begin, StoreInv, TypeOK
  <1>5. /\ tx'[p].step = "claim" /\ tx'[p].reply = "none"
        /\ tx'[p].kind \in {"approve", "reject"} /\ tx'[p].id \in Requests
        /\ tx'[p].fresh = FALSE /\ tx'[p].balance = 0 /\ tx'[p].version = 0
    BY <1>1, <1>4 DEF Idle
  <1> HIDE DEF t
  <1>6. Sound(p)'
    BY <1>5 DEF Sound, Shape, Snapshot, ClaimHeld, RequestFresh, FundsHeld, RefFree,
                Open, HoldsRequest
  <1>7. \A o \in Procs \ {p} : Exclusive(p, o)'
    BY <1>5 DEF Exclusive, HoldsWallet, HoldsRequest, HoldsRef
  <1> QED  BY <1>2, <1>3, <1>6, <1>7, BeginStep

-----------------------------------------------------------------------------
(* The statements before the commit. *)

\* The lookup of the reference id.
LEMMA LookupStep ==
    ASSUME StoreInv, NEW p \in Procs, Lookup(p)
    PROVE  StoreInv'
  <1>1. CASE Reply(p, "existing")
    BY <1>1, ReplyStep DEF Replies
  <1>2. CASE Goto(p, "lock")
    <2>1. "lock" \in Steps /\ tx[p].step = "lookup" /\ Sound(p)
      BY SoundFacts DEF Lookup, Steps
    <2>2. /\ tx'[p].step = "lock" /\ tx'[p].reply = tx[p].reply /\ tx'[p].kind = tx[p].kind
          /\ tx'[p].wallet = tx[p].wallet /\ tx'[p].amount = tx[p].amount
          /\ tx'[p].ref = tx[p].ref /\ tx'[p].fresh = tx[p].fresh
          /\ tx'[p].balance = tx[p].balance /\ tx'[p].version = tx[p].version
      BY <1>2, <2>1, GotoFacts
    <2>3. Sound(p)'
      BY <2>1, <2>2 DEF Sound, Shape, Snapshot, ClaimHeld, RequestFresh, FundsHeld, RefFree,
                        Open, HoldsRequest
    <2>4. \A o \in Procs \ {p} : Exclusive(p, o)'
      BY <2>1, <2>2 DEF Sound, Shape, Exclusive, HoldsWallet, HoldsRequest, HoldsRef
    <2> QED  BY <1>2, <2>1, <2>3, <2>4, GotoStep
  <1> QED  BY <1>1, <1>2 DEF Lookup

\* The status change that claims a request, under its row lock.
LEMMA ClaimStep ==
    ASSUME StoreInv, NEW p \in Procs, Claim(p)
    PROVE  StoreInv'
  <1>1. CASE Reply(p, "notPending")
    BY <1>1, ReplyStep DEF Replies
  <1>2. CASE ~Reply(p, "notPending")
    <2>a. PICK q : q = tx[p].id
      OBVIOUS
    <2> DEFINE approve == tx[p].kind = "approve"
               t == [tx[p] EXCEPT !.step = IF approve THEN "commit" ELSE "lock",
                                  !.wallet = withdrawals[q].wallet,
                                  !.amount = withdrawals[q].amount * Scale,
                                  !.ref = IF approve THEN q ELSE Reversal(q)]
    <2>1. /\ tx[p].step = "claim" /\ withdrawals[q].status = "pending"
          /\ OthersFree(p, HoldsRequest, q)
          /\ tx' = [tx EXCEPT ![p] = t]
          /\ wallets' = wallets /\ ledger' = ledger /\ withdrawals' = withdrawals /\ made' = made
      BY <1>2, <2>a DEF Claim, ledgerVars
    <2>2. tx[p] \in Transaction /\ Sound(p) /\ made \in 0 .. MaxCalls
      BY SoundFacts
    <2>3. q \in Requests /\ tx[p].kind \in {"approve", "reject"}
      BY <2>1, <2>2, <2>a DEF Sound, Shape
    <2>4. withdrawals[q].wallet \in Wallets /\ withdrawals[q].amount \in Nat
      BY <2>1, <2>3 DEF StoreInv, LedgerInv, LedgerTypeOK, RequestsPlaced, Request
    <2>5. q \in RowRefs /\ Reversal(q) \in RowRefs /\ withdrawals[q].amount * Scale \in Nat
      <3>1. withdrawals[q].amount * Scale \in Nat
        BY <2>4, ScaleAssumption
      <3> QED  BY <2>3, <3>1, RefsApart
    <2>6. t \in Transaction
      <3>1. (IF approve THEN "commit" ELSE "lock") \in Steps
        BY DEF Steps
      <3>2. (IF approve THEN q ELSE Reversal(q)) \in RowRefs
        BY <2>5
      <3> QED  BY <2>2, <2>4, <2>5, <3>1, <3>2 DEF Transaction
    <2>7. tx'[p] = t /\ \A o \in Procs \ {p} : tx'[o] = tx[o]
      BY <2>1 DEF StoreInv, TypeOK
    <2>8. /\ tx'[p].step = (IF tx[p].kind = "approve" THEN "commit" ELSE "lock")
          /\ tx'[p].reply = tx[p].reply /\ tx'[p].kind = tx[p].kind
          /\ tx'[p].wallet = withdrawals[q].wallet
          /\ tx'[p].amount = withdrawals[q].amount * Scale
          /\ tx'[p].ref = (IF tx[p].kind = "approve" THEN q ELSE Reversal(q))
          /\ tx'[p].id = q /\ tx'[p].fresh = tx[p].fresh
          /\ tx'[p].balance = tx[p].balance /\ tx'[p].version = tx[p].version
      BY <2>2, <2>7, <2>a DEF Transaction
    <2> HIDE DEF t
    <2>9. Sound(p)'
      <3>1. Shape(p)'
        BY <2>1, <2>2, <2>3, <2>8 DEF Sound, Shape, Open
      <3>2. Snapshot(p)' /\ RequestFresh(p)' /\ FundsHeld(p)' /\ RefFree(p)'
        BY <2>2, <2>3, <2>8 DEF Sound, Snapshot, RequestFresh, FundsHeld, RefFree, Takes
      <3>3. ClaimHeld(p)'
        BY <2>1, <2>3, <2>8 DEF ClaimHeld
      <3> QED  BY <3>1, <3>2, <3>3 DEF Sound
    <2>10. \A o \in Procs \ {p} : Exclusive(p, o)'
      BY <2>1, <2>3, <2>7, <2>8 DEF Exclusive, HoldsWallet, HoldsRequest, HoldsRef, OthersFree
    <2> QED  BY <2>1, <2>2, <2>6, <2>9, <2>10, LocalStep
  <1> QED  BY <1>1, <1>2

\* The wallet row is locked and read.
LEMMA LockWalletStep ==
    ASSUME StoreInv, NEW p \in Procs, LockWallet(p)
    PROVE  StoreInv'
  <1>1. CASE Reply(p, "notFound")
    BY <1>1, ReplyStep DEF Replies
  <1>2. tx[p] \in Transaction /\ Sound(p) /\ made \in 0 .. MaxCalls /\ tx[p].step = "lock"
    BY SoundFacts DEF LockWallet
  <1>3. CASE tx[p].kind = "credit" /\ Goto(p, "insertWallet")
    <2>1. "insertWallet" \in Steps
      BY DEF Steps
    <2>2. /\ tx'[p].step = "insertWallet" /\ tx'[p].reply = tx[p].reply
          /\ tx'[p].kind = tx[p].kind
          /\ tx'[p].wallet = tx[p].wallet /\ tx'[p].amount = tx[p].amount
          /\ tx'[p].ref = tx[p].ref /\ tx'[p].fresh = tx[p].fresh
          /\ tx'[p].balance = tx[p].balance /\ tx'[p].version = tx[p].version
      BY <1>3, <2>1, GotoFacts
    <2>3. Sound(p)'
      BY <1>2, <1>3, <2>2 DEF Sound, Shape, Snapshot, ClaimHeld, RequestFresh, FundsHeld,
                              RefFree, Open, HoldsRequest
    <2>4. \A o \in Procs \ {p} : Exclusive(p, o)'
      BY <1>3, <2>2 DEF Exclusive, HoldsWallet, HoldsRequest, HoldsRef
    <2> QED  BY <1>3, <2>1, <2>3, <2>4, GotoStep
  <1>4. CASE wallets[tx[p].wallet].exists
    <2>a. PICK w : w = tx[p].wallet
      OBVIOUS
    <2> DEFINE t == [tx[p] EXCEPT !.step = "update", !.balance = wallets[w].balance,
                                  !.version = wallets[w].version]
    <2>1. /\ OthersFree(p, HoldsWallet, w)
          /\ tx' = [tx EXCEPT ![p] = t]
          /\ wallets' = wallets /\ ledger' = ledger /\ withdrawals' = withdrawals /\ made' = made
      BY <1>4, <2>a DEF LockWallet, ledgerVars
    <2>2. w \in Wallets
      <3>1. tx[p].kind \in {"credit", "debit", "request", "reject"}
        BY <1>2 DEF Sound, Shape, Open, Transaction, Kinds
      <3>2. CASE tx[p].kind = "reject"
        BY <1>2, <2>a, <3>2 DEF Sound, Shape, ClaimHeld, HoldsRequest, StoreInv, LedgerInv,
                                RequestsPlaced
      <3> QED  BY <1>2, <2>a, <3>1, <3>2 DEF Sound, Shape
    <2>3. wallets[w].balance \in Int /\ wallets[w].version \in Nat
      BY <2>2 DEF StoreInv, LedgerInv, LedgerTypeOK, WalletRow
    <2>4. t \in Transaction
      BY <1>2, <2>3 DEF Transaction, Steps
    <2>5. tx'[p] = t /\ \A o \in Procs \ {p} : tx'[o] = tx[o]
      BY <2>1 DEF StoreInv, TypeOK
    <2>6. /\ tx'[p].step = "update" /\ tx'[p].reply = tx[p].reply /\ tx'[p].kind = tx[p].kind
          /\ tx'[p].wallet = w /\ tx'[p].amount = tx[p].amount
          /\ tx'[p].ref = tx[p].ref /\ tx'[p].id = tx[p].id /\ tx'[p].fresh = tx[p].fresh
          /\ tx'[p].balance = wallets[w].balance /\ tx'[p].version = wallets[w].version
      BY <1>2, <2>5, <2>a DEF Transaction
    <2> HIDE DEF t
    <2>7. Sound(p)'
      <3>1. Shape(p)'
        BY <1>2, <2>6, <2>a DEF Sound, Shape, Open
      <3>2. Snapshot(p)'
        <4>1. tx'[p].fresh = FALSE /\ tx'[p].reply # "conflict"
          BY <1>2, <2>6 DEF Sound, Shape, Snapshot
        <4>2. wallets[w].exists = TRUE
          BY <1>4, <2>2, <2>a DEF StoreInv, LedgerInv, LedgerTypeOK, WalletRow
        <4>3. wallets'[tx'[p].wallet] = wallets[w]
          BY <2>1, <2>6
        <4> QED  BY <2>6, <4>1, <4>2, <4>3 DEF Snapshot
      <3>3. ClaimHeld(p)' /\ RequestFresh(p)' /\ FundsHeld(p)' /\ RefFree(p)'
        BY <1>2, <2>1, <2>6, <2>a DEF Sound, ClaimHeld, RequestFresh, FundsHeld, RefFree, Open,
                                      HoldsRequest
      <3> QED  BY <3>1, <3>2, <3>3 DEF Sound
    <2>8. ASSUME NEW o \in Procs \ {p}  PROVE Exclusive(p, o)'
      <3>1. Exclusive(p, o) /\ tx'[o] = tx[o]
        BY <2>5, SoundFacts
      <3> QED  BY <1>2, <2>1, <2>6, <3>1 DEF Exclusive, HoldsWallet, HoldsRequest, HoldsRef,
                                             OthersFree, Open
    <2> QED  BY <1>2, <2>1, <2>4, <2>7, <2>8, LocalStep
  <1> QED  BY <1>1, <1>3, <1>4 DEF LockWallet

\* The wallet row is inserted, under its unique key.
LEMMA InsertWalletStep ==
    ASSUME StoreInv, NEW p \in Procs, InsertWallet(p)
    PROVE  StoreInv'
  <1>1. CASE Reply(p, "walletExists")
    BY <1>1, ReplyStep DEF Replies
  <1>2. tx[p] \in Transaction /\ Sound(p) /\ made \in 0 .. MaxCalls
          /\ tx[p].step = "insertWallet"
    BY SoundFacts DEF InsertWallet
  <1>3. CASE ~wallets[tx[p].wallet].exists
    <2>a. PICK w : w = tx[p].wallet
      OBVIOUS
    <2> DEFINE t == [tx[p] EXCEPT !.step = "update", !.fresh = TRUE]
    <2>1. /\ OthersFree(p, HoldsWallet, w)
          /\ tx' = [tx EXCEPT ![p] = t]
          /\ wallets' = wallets /\ ledger' = ledger /\ withdrawals' = withdrawals /\ made' = made
      BY <1>3, <2>a DEF InsertWallet, ledgerVars
    <2>2. /\ w \in Wallets /\ tx[p].kind = "credit"
          /\ tx[p].balance = 0 /\ tx[p].version = 0
      BY <1>2, <2>a DEF Sound, Shape
    <2>3. wallets[w].balance = 0 /\ wallets[w].version = 0
      BY <1>3, <2>2, <2>a DEF StoreInv, AbsentEmpty
    <2>4. wallets[w].exists = FALSE
      BY <1>3, <2>2, <2>a DEF StoreInv, LedgerInv, LedgerTypeOK, WalletRow
    <2>5. t \in Transaction
      BY <1>2 DEF Transaction, Steps
    <2>6. tx'[p] = t /\ \A o \in Procs \ {p} : tx'[o] = tx[o]
      BY <2>1 DEF StoreInv, TypeOK
    <2>7. /\ tx'[p].step = "update" /\ tx'[p].reply = tx[p].reply /\ tx'[p].kind = "credit"
          /\ tx'[p].wallet = w /\ tx'[p].amount = tx[p].amount
          /\ tx'[p].ref = tx[p].ref /\ tx'[p].fresh = TRUE
          /\ tx'[p].balance = 0 /\ tx'[p].version = 0
      BY <1>2, <2>2, <2>6, <2>a DEF Transaction
    <2> HIDE DEF t
    <2>8. Sound(p)'
      <3>1. Shape(p)'
        BY <1>2, <2>2, <2>7, <2>a DEF Sound, Shape, Open
      <3>2. Snapshot(p)'
        <4>1. wallets'[tx'[p].wallet] = wallets[w] /\ tx'[p].reply # "conflict"
          BY <1>2, <2>1, <2>7 DEF Sound, Snapshot
        <4> QED  BY <2>3, <2>4, <2>7, <4>1 DEF Snapshot
      <3>3. ClaimHeld(p)' /\ RequestFresh(p)' /\ FundsHeld(p)' /\ RefFree(p)'
        BY <2>7 DEF ClaimHeld, RequestFresh, FundsHeld, RefFree, HoldsRequest
      <3> QED  BY <3>1, <3>2, <3>3 DEF Sound
    <2>9. \A o \in Procs \ {p} : Exclusive(p, o)'
      BY <2>1, <2>6, <2>7 DEF Exclusive, HoldsWallet, HoldsRequest, HoldsRef, OthersFree
    <2> QED  BY <1>2, <2>1, <2>5, <2>8, <2>9, LocalStep
  <1> QED  BY <1>1, <1>3 DEF InsertWallet

\* The balance check and the update of the wallet row: its version never differs.
LEMMA UpdateWalletStep ==
    ASSUME StoreInv, NEW p \in Procs, UpdateWallet(p)
    PROVE  StoreInv'
  <1>1. CASE Reply(p, "insufficient")
    BY <1>1, ReplyStep DEF Replies
  <1>2. tx[p] \in Transaction /\ Sound(p) /\ tx[p].step = "update" /\ tx[p].kind # "approve"
    BY SoundFacts DEF UpdateWallet, Sound, Shape
  <1>3. wallets[tx[p].wallet].version = tx[p].version
    BY <1>2 DEF Sound, Snapshot
  <1>4. CASE Goto(p, "insertRow") /\ ~(Takes(p) /\ tx[p].balance * Scale < tx[p].amount)
    <2>1. "insertRow" \in Steps
      BY DEF Steps
    <2>2. /\ tx'[p].step = "insertRow" /\ tx'[p].reply = tx[p].reply
          /\ tx'[p].kind = tx[p].kind
          /\ tx'[p].wallet = tx[p].wallet /\ tx'[p].amount = tx[p].amount
          /\ tx'[p].ref = tx[p].ref /\ tx'[p].id = tx[p].id /\ tx'[p].fresh = tx[p].fresh
          /\ tx'[p].balance = tx[p].balance /\ tx'[p].version = tx[p].version
          /\ \A o \in Procs \ {p} : tx'[o] = tx[o]
          /\ wallets' = wallets /\ withdrawals' = withdrawals
      BY <1>4, <2>1, GotoFacts
    <2>3. Sound(p)'
      <3>1. Shape(p)' /\ Snapshot(p)'
        BY <1>2, <2>2 DEF Sound, Shape, Snapshot, Open
      <3>2. FundsHeld(p)'
        <4>1. tx[p].balance * Scale \in Int /\ tx[p].amount \in Nat
          BY <1>2, ScaleAssumption DEF Transaction
        <4> QED  BY <1>4, <2>2, <4>1 DEF FundsHeld, Takes
      <3>3. ClaimHeld(p)' /\ RequestFresh(p)' /\ RefFree(p)'
        BY <1>2, <2>2 DEF Sound, ClaimHeld, RequestFresh, RefFree, HoldsRequest, Open
      <3> QED  BY <3>1, <3>2, <3>3 DEF Sound
    <2>4. ASSUME NEW o \in Procs \ {p}  PROVE Exclusive(p, o)'
      <3>1. Exclusive(p, o) /\ tx'[o] = tx[o]
        BY <2>2, SoundFacts
      <3> QED  BY <1>2, <2>2, <3>1 DEF Exclusive, HoldsWallet, HoldsRequest, HoldsRef, Open
    <2> QED  BY <1>4, <2>1, <2>3, <2>4, GotoStep
  <1> QED  BY <1>1, <1>3, <1>4 DEF UpdateWallet

\* The transaction row is inserted, under the unique key of its reference id.
LEMMA InsertRowStep ==
    ASSUME StoreInv, NEW p \in Procs, InsertRow(p)
    PROVE  StoreInv'
  <1>1. CASE Reply(p, "duplicate")
    BY <1>1, ReplyStep DEF Replies
  <1>2. tx[p] \in Transaction /\ Sound(p) /\ tx[p].step = "insertRow" /\ tx[p].kind # "approve"
    BY SoundFacts DEF InsertRow, Sound, Shape
  <1>3. CASE NotPosted(tx[p].ref) /\ Goto(p, "commit")
    <2>1. "commit" \in Steps /\ (tx[p].ref # NoRef => OthersFree(p, HoldsRef, tx[p].ref))
      BY DEF Steps, InsertRow
    <2>2. /\ tx'[p].step = "commit" /\ tx'[p].reply = tx[p].reply
          /\ tx'[p].kind = tx[p].kind
          /\ tx'[p].wallet = tx[p].wallet /\ tx'[p].amount = tx[p].amount
          /\ tx'[p].ref = tx[p].ref /\ tx'[p].id = tx[p].id /\ tx'[p].fresh = tx[p].fresh
          /\ tx'[p].balance = tx[p].balance /\ tx'[p].version = tx[p].version
          /\ \A o \in Procs \ {p} : tx'[o] = tx[o]
          /\ wallets' = wallets /\ ledger' = ledger /\ withdrawals' = withdrawals
      BY <1>3, <2>1, GotoFacts
    <2>3. Sound(p)'
      <3>1. Shape(p)' /\ Snapshot(p)'
        BY <1>2, <2>2 DEF Sound, Shape, Snapshot, Open
      <3>2. FundsHeld(p)' /\ ClaimHeld(p)' /\ RequestFresh(p)'
        BY <1>2, <2>2 DEF Sound, FundsHeld, ClaimHeld, RequestFresh, HoldsRequest, Open, Takes
      <3>3. RefFree(p)'
        BY <1>3, <2>2 DEF RefFree, NotPosted, Posted
      <3> QED  BY <3>1, <3>2, <3>3 DEF Sound
    <2>4. ASSUME NEW o \in Procs \ {p}  PROVE Exclusive(p, o)'
      <3>1. Exclusive(p, o) /\ tx'[o] = tx[o]
        BY <2>2, SoundFacts
      <3> QED  BY <1>2, <2>1, <2>2, <3>1 DEF Exclusive, HoldsWallet, HoldsRequest, HoldsRef,
                                             OthersFree, Open
    <2> QED  BY <1>3, <2>1, <2>3, <2>4, GotoStep
  <1> QED  BY <1>1, <1>3 DEF InsertRow

-----------------------------------------------------------------------------
(* The commit. *)

\* The atomic step of the ledger that the commit of p amounts to.
Committed(p) ==
    LET t == tx[p] IN
    /\ t.kind = "credit" => Credit(t.wallet, t.amount, t.ref)
    /\ t.kind = "debit" => Debit(t.wallet, t.amount, t.ref)
    /\ t.kind = "request" => RequestWithdrawal(t.wallet, t.amount, t.id)
    /\ t.kind = "approve" => ApproveWithdrawal(t.id)
    /\ t.kind = "reject" => RejectWithdrawal(t.id)

\* A transaction at its commit: its kind, its wallet and what it read.
LEMMA CommitFacts ==
    ASSUME StoreInv, NEW p \in Procs, tx[p].step = "commit"
    PROVE  /\ tx[p].kind \in {"credit", "debit", "request", "approve", "reject"}
           /\ tx[p].wallet \in Wallets
           /\ tx[p].kind # "approve" => wallets[tx[p].wallet].balance = tx[p].balance
           /\ tx[p].kind \in {"debit", "request"} => wallets[tx[p].wallet].exists
  <1>1. tx[p] \in Transaction /\ Sound(p)
    BY SoundFacts
  <1>2. tx[p].kind \in {"credit", "debit", "request", "approve", "reject"}
    BY <1>1 DEF Sound, Shape, Open, Transaction, Kinds
  <1>3. tx[p].kind \in {"approve", "reject"} => tx[p].wallet \in Wallets
    BY <1>1 DEF Sound, Shape, ClaimHeld, HoldsRequest, StoreInv, LedgerInv, RequestsPlaced
  <1>4. tx[p].wallet \in Wallets
    BY <1>1, <1>2, <1>3 DEF Sound, Shape
  <1>5. tx[p].kind # "approve" =>
           /\ wallets[tx[p].wallet].balance = tx[p].balance
           /\ wallets[tx[p].wallet].exists = ~tx[p].fresh
    BY <1>1 DEF Sound, Snapshot
  <1>6. tx[p].kind \in {"debit", "request"} => ~tx[p].fresh
    BY <1>1 DEF Sound, Shape
  <1> QED  BY <1>2, <1>4, <1>5, <1>6

\* A commit is a step of the ledger: the transaction read what is still there.
LEMMA CommitRefines ==
    ASSUME StoreInv, NEW p \in Procs, Commit(p)
    PROVE  Committed(p)
  <1> DEFINE w == tx[p].wallet
             a == tx[p].amount
             q == tx[p].id
  <1>1. /\ tx[p].step = "commit" /\ tx[p] \in Transaction /\ Sound(p)
        /\ tx[p].kind \in {"credit", "debit", "request", "approve", "reject"}
        /\ w \in Wallets
    BY SoundFacts, CommitFacts DEF Commit
  <1>2. CASE tx[p].kind \in {"credit", "debit", "request"}
    <2>1. wallets[w].balance = tx[p].balance /\ NotPosted(tx[p].ref)
      BY <1>1, <1>2, CommitFacts DEF Sound, RefFree
    <2>2. ReviewedRows(p, w) = ledger[w]
      BY <1>2 DEF ReviewedRows
    <2>3. NewBalance(p) = IF tx[p].kind = "credit" THEN Added(w, a) ELSE Subtracted(w, a)
      BY <1>2, <2>1 DEF NewBalance, Takes, Added, Subtracted
    <2>4. tx[p].kind \in {"debit", "request"} => Covers(w, a)
      BY <1>1, <2>1, CommitFacts DEF Sound, FundsHeld, Takes, Covers
    <2>5. Post(w, ledger[w], tx[p].ref, RowType(tx[p].kind), Stored(a), NewBalance(p),
               IF tx[p].kind = "request" THEN "pending" ELSE "completed")
      BY <1>2, <2>1, <2>2 DEF Commit, Post
    <2>6. CASE tx[p].kind = "credit"
      <3>1. withdrawals' = withdrawals
        BY <2>6 DEF Commit
      <3>2. Post(w, ledger[w], tx[p].ref, "deposit", Stored(a), Added(w, a), "completed")
        BY <2>3, <2>5, <2>6 DEF RowType
      <3> QED  BY <2>1, <2>6, <3>1, <3>2 DEF Committed, Credit
    <2>7. CASE tx[p].kind = "debit"
      <3>1. withdrawals' = withdrawals
        BY <2>7 DEF Commit
      <3>2. Post(w, ledger[w], tx[p].ref, "withdrawal", Stored(a), Subtracted(w, a), "completed")
        BY <2>3, <2>5, <2>7 DEF RowType
      <3> QED  BY <2>1, <2>4, <2>7, <3>1, <3>2 DEF Committed, Debit
    <2>8. CASE tx[p].kind = "request"
      <3>1. withdrawals' = [withdrawals EXCEPT ![q] =
                              [wallet |-> w, amount |-> Stored(a), status |-> "pending"]]
        BY <2>8 DEF Commit
      <3>2. tx[p].ref = q /\ withdrawals[q].status = "none"
        BY <1>1, <2>8 DEF Sound, Shape, RequestFresh, Open
      <3>3. Post(w, ledger[w], q, "withdrawal", Stored(a), Subtracted(w, a), "pending")
        BY <2>3, <2>5, <2>8, <3>2 DEF RowType
      <3> QED  BY <2>4, <2>8, <3>1, <3>2, <3>3 DEF Committed, RequestWithdrawal
    <2> QED  BY <1>2, <2>6, <2>7, <2>8
  <1>3. CASE tx[p].kind = "approve"
    <2>1. withdrawals[q].status = "pending" /\ w = withdrawals[q].wallet
      BY <1>1, <1>3 DEF Sound, ClaimHeld, HoldsRequest
    <2>2. /\ withdrawals' = [withdrawals EXCEPT ![q].status = "approved"]
          /\ ledger' = [ledger EXCEPT ![w] = WithStatus(ledger[w], q, "completed")]
          /\ wallets' = wallets
      BY <1>3 DEF Commit, ReviewedRows
    <2> QED  BY <1>3, <2>1, <2>2 DEF Committed, ApproveWithdrawal
  <1>4. CASE tx[p].kind = "reject"
    <2>1. /\ withdrawals[q].status = "pending" /\ w = withdrawals[q].wallet
          /\ a = withdrawals[q].amount * Scale /\ tx[p].ref = Reversal(q)
          /\ q \in Requests
      BY <1>1, <1>4 DEF Sound, Shape, ClaimHeld, HoldsRequest
    <2>2. withdrawals[q].amount \in Nat /\ wallets[w].balance \in Int
      BY <1>1, <2>1 DEF StoreInv, LedgerInv, LedgerTypeOK, Request, WalletRow
    <2>3. wallets[w].balance = tx[p].balance
      BY <1>1, <1>4, CommitFacts
    <2>4. Stored(a) = withdrawals[q].amount
      BY <2>1, <2>2, StoredExact
    <2>5. NewBalance(p) = wallets[w].balance + withdrawals[q].amount
      <3>1. NewBalance(p) = Stored(wallets[w].balance * Scale + withdrawals[q].amount * Scale)
        BY <1>4, <2>1, <2>3 DEF NewBalance, Takes
      <3>2. wallets[w].balance * Scale + withdrawals[q].amount * Scale
              = (wallets[w].balance + withdrawals[q].amount) * Scale
        BY <2>2, ScaleAssumption
      <3> QED  BY <2>2, <3>1, <3>2, StoredExact
    <2>6. ReviewedRows(p, w) = WithStatus(ledger[w], q, "reversed")
      BY <1>4 DEF ReviewedRows
    <2>7. Post(w, WithStatus(ledger[w], q, "reversed"), Reversal(q), "adjustment",
               withdrawals[q].amount, wallets[w].balance + withdrawals[q].amount, "completed")
      BY <1>4, <2>1, <2>3, <2>4, <2>5, <2>6 DEF Commit, Post, RowType
    <2>8. withdrawals' = [withdrawals EXCEPT ![q].status = "rejected"]
      BY <1>4 DEF Commit
    <2> QED  BY <1>4, <2>1, <2>7, <2>8 DEF Committed, RejectWithdrawal
  <1> QED  BY <1>1, <1>2, <1>3, <1>4

\* ... and one that LedgerNext allows.
LEMMA CommitNext ==
    ASSUME StoreInv, NEW p \in Procs, Commit(p)
    PROVE  LedgerNext
  <1>1. Committed(p)
    BY CommitRefines
  <1>2. tx[p] \in Transaction /\ Sound(p) /\ tx[p].wallet \in Wallets
          /\ tx[p].kind \in {"credit", "debit", "request", "approve", "reject"}
    BY SoundFacts, CommitFacts DEF Commit
  <1>3. CASE tx[p].kind \in {"credit", "debit"}
    <2>1. tx[p].amount \in Amounts /\ tx[p].ref \in RefIds
      BY <1>2, <1>3 DEF Sound, Shape
    <2> QED  BY <1>1, <1>2, <1>3, <2>1 DEF Committed, LedgerNext
  <1>4. CASE tx[p].kind = "request"
    <2>1. tx[p].amount \in Amounts /\ tx[p].id \in Requests
      BY <1>2, <1>4 DEF Sound, Shape
    <2> QED  BY <1>1, <1>2, <1>4, <2>1 DEF Committed, LedgerNext
  <1>5. CASE tx[p].kind \in {"approve", "reject"}
    <2>1. tx[p].id \in Requests
      BY <1>2, <1>5 DEF Sound, Shape
    <2> QED  BY <1>1, <1>5, <2>1 DEF Committed, LedgerNext
  <1> QED  BY <1>2, <1>3, <1>4, <1>5

\* What a commit changes: one wallet, the row of one reference id, one request.
LEMMA CommitFrame ==
    ASSUME StoreInv, NEW p \in Procs, Commit(p)
    PROVE  /\ \A v \in Wallets \ {tx[p].wallet} : wallets'[v] = wallets[v]
           /\ tx[p].kind = "approve" => wallets' = wallets
           /\ tx[p].kind # "approve" => wallets'[tx[p].wallet].exists
           /\ \A q \in Requests \ {tx[p].id} : withdrawals'[q] = withdrawals[q]
           /\ tx[p].kind \in {"credit", "debit"} => withdrawals' = withdrawals
           /\ \A x : (Posted(x)' /\ ~Posted(x)) => (tx[p].kind # "approve" /\ x = tx[p].ref)
  <1>a. PICK w : w = tx[p].wallet
    OBVIOUS
  <1>b. PICK r : r = tx[p].ref
    OBVIOUS
  <1>c. PICK q : q = tx[p].id
    OBVIOUS
  <1>1. Committed(p) /\ LedgerTypeOK /\ w \in Wallets
          /\ tx[p].kind \in {"credit", "debit", "request", "approve", "reject"}
    BY <1>a, CommitRefines, CommitFacts DEF Commit, StoreInv, LedgerInv
  <1>2. SameButStatus(ledger[w], ledger[w]) /\ ledger[w] \in Seq(Row)
    BY <1>1, SameRows DEF LedgerTypeOK
  <1>3. ASSUME NEW rows, NEW type, NEW amount, NEW after, NEW status,
               SameButStatus(rows, ledger[w]),
               Post(w, rows, r, type, amount, after, status)
        PROVE  /\ \A v \in Wallets \ {w} : wallets'[v] = wallets[v]
               /\ wallets'[w].exists
               /\ \A x : (Posted(x)' /\ ~Posted(x)) => x = r
    <2>1. /\ \A v \in Wallets \ {w} : wallets'[v] = wallets[v]
          /\ wallets'[w].exists
      BY <1>1, <1>3 DEF Post, LedgerTypeOK
    <2>2. \A x : Posted(x)' => (Posted(x) \/ x = r)
      BY <1>1, <1>3, PostPosted
    <2> QED  BY <2>1, <2>2
  <1>4. CASE tx[p].kind \in {"credit", "debit"}
    <2>1. withdrawals' = withdrawals
      BY <1>1, <1>4 DEF Committed, Credit, Debit
    <2>2. \E type, amount, after, status : Post(w, ledger[w], r, type, amount, after, status)
      BY <1>1, <1>4, <1>a, <1>b DEF Committed, Credit, Debit
    <2> QED  BY <1>2, <1>3, <1>4, <1>a, <1>b, <2>1, <2>2
  <1>5. CASE tx[p].kind = "request"
    <2>1. \A x \in Requests \ {q} : withdrawals'[x] = withdrawals[x]
      BY <1>1, <1>5, <1>c DEF Committed, RequestWithdrawal, LedgerTypeOK
    <2>2. r = q
      BY <1>5, <1>b, <1>c, SoundFacts DEF Sound, Shape
    <2>3. \E type, amount, after, status : Post(w, ledger[w], r, type, amount, after, status)
      BY <1>1, <1>5, <1>a, <1>c, <2>2 DEF Committed, RequestWithdrawal
    <2> QED  BY <1>2, <1>3, <1>5, <1>a, <1>b, <1>c, <2>1, <2>3
  <1>6. CASE tx[p].kind = "reject"
    <2>1. /\ r = Reversal(q) /\ w = withdrawals[q].wallet
      BY <1>6, <1>a, <1>b, <1>c, SoundFacts DEF Sound, ClaimHeld, HoldsRequest, Commit
    <2>2. \A x \in Requests \ {q} : withdrawals'[x] = withdrawals[x]
      BY <1>1, <1>6, <1>c DEF Committed, RejectWithdrawal, LedgerTypeOK
    <2>3. SameButStatus(WithStatus(ledger[w], q, "reversed"), ledger[w])
      BY <1>2, WithStatusSame
    <2>4. \E type, amount, after, status :
             Post(w, WithStatus(ledger[w], q, "reversed"), r, type, amount, after, status)
      BY <1>1, <1>6, <1>c, <2>1 DEF Committed, RejectWithdrawal
    <2> QED  BY <1>3, <1>6, <1>a, <1>b, <1>c, <2>2, <2>3, <2>4
  <1>7. CASE tx[p].kind = "approve"
    <2>1. /\ wallets' = wallets
          /\ w = withdrawals[q].wallet
          /\ ledger' = [ledger EXCEPT ![w] = WithStatus(ledger[w], q, "completed")]
          /\ withdrawals' = [withdrawals EXCEPT ![q].status = "approved"]
      BY <1>1, <1>7, <1>a, <1>c, SoundFacts
         DEF Committed, ApproveWithdrawal, Sound, ClaimHeld, HoldsRequest, Commit
    <2>2. \A x \in Requests \ {q} : withdrawals'[x] = withdrawals[x]
      BY <1>1, <2>1 DEF LedgerTypeOK
    <2>3. SameButStatus(WithStatus(ledger[w], q, "completed"), ledger[w])
      BY <1>2, WithStatusSame
    <2>4. \A v \in Wallets : /\ DOMAIN ledger'[v] = DOMAIN ledger[v]
                             /\ \A i \in DOMAIN ledger[v] : ledger'[v][i].ref = ledger[v][i].ref
      <3>1. ledger'[w] = WithStatus(ledger[w], q, "completed")
              /\ \A v \in Wallets \ {w} : ledger'[v] = ledger[v]
        BY <1>1, <2>1 DEF LedgerTypeOK
      <3>2. /\ DOMAIN ledger'[w] = DOMAIN ledger[w]
            /\ \A i \in DOMAIN ledger[w] : ledger'[w][i].ref = ledger[w][i].ref
        BY <1>2, <2>3, <3>1 DEF SameButStatus
      <3> QED  BY <3>1, <3>2
    <2>5. \A x : Posted(x)' => Posted(x)
      BY <2>4 DEF Posted
    <2> QED  BY <1>7, <1>c, <2>1, <2>2, <2>5
  <1> QED  BY <1>1, <1>4, <1>5, <1>6, <1>7

\* The commit preserves the invariant: nobody else depended on what it changed.
LEMMA CommitStep ==
    ASSUME StoreInv, NEW p \in Procs, Commit(p)
    PROVE  StoreInv'
  <1>1. tx[p] \in Transaction /\ Sound(p) /\ tx[p].step = "commit" /\ tx[p].wallet \in Wallets
    BY SoundFacts, CommitFacts DEF Commit
  <1>2. LedgerInv'
    BY CommitNext, LedgerStepInv DEF StoreInv
  <1>3. AbsentEmpty'
    BY <1>1, CommitFrame DEF StoreInv, AbsentEmpty
  <1>4. PICK r \in {"ok", "failed"} :
           tx' = [tx EXCEPT ![p].step = "replied", ![p].reply = r]
    BY DEF Commit
  <1>5. /\ tx'[p] = [tx[p] EXCEPT !.step = "replied", !.reply = r]
        /\ \A o \in Procs \ {p} : tx'[o] = tx[o]
    BY <1>4 DEF StoreInv, TypeOK
  <1>6. /\ tx'[p].step = "replied" /\ tx'[p].reply = r /\ tx'[p].kind = tx[p].kind
        /\ tx'[p].wallet = tx[p].wallet /\ tx'[p].amount = tx[p].amount
        /\ tx'[p].ref = tx[p].ref /\ tx'[p].id = tx[p].id /\ tx'[p].fresh = tx[p].fresh
    BY <1>1, <1>5 DEF Transaction
  <1>7. TypeOK'
    <2>1. [tx[p] EXCEPT !.step = "replied", !.reply = r] \in Transaction
      BY <1>1 DEF Transaction, Steps, Replies
    <2>2. tx' \in [Procs -> Transaction]
      BY <1>4, <2>1 DEF StoreInv, TypeOK
    <2>3. made' = made
      BY DEF Commit
    <2> QED  BY <1>2, <2>2, <2>3 DEF TypeOK, LedgerInv, StoreInv
  <1>8. Sound(p)'
    BY <1>1, <1>6 DEF Sound, Shape, Snapshot, ClaimHeld, RequestFresh, FundsHeld, RefFree,
                      Open, HoldsRequest
  <1>9. ASSUME NEW o \in Procs \ {p}  PROVE Sound(o)'
    <2>1. tx'[o] = tx[o] /\ tx[o] \in Transaction /\ Sound(o) /\ Exclusive(p, o)
      BY <1>5, SoundFacts
    <2>2. Shape(o)' /\ FundsHeld(o)'
      BY <2>1 DEF Sound, Shape, FundsHeld, Open, Takes
    <2>3. Snapshot(o)'
      <3>1. CASE tx[o].step \in {"update", "insertRow", "commit"} /\ tx[o].kind # "approve"
        <4>1. tx[p].kind = "approve" \/ tx[o].wallet # tx[p].wallet
          BY <1>1, <2>1, <3>1 DEF Exclusive, HoldsWallet
        <4>2. tx[o].wallet \in Wallets
          <5>1. tx[o].kind \in {"credit", "debit", "request", "reject"}
            BY <2>1, <3>1 DEF Sound, Shape, Open, Transaction, Kinds
          <5>2. tx[o].kind = "reject" => tx[o].wallet \in Wallets
            BY <2>1, <3>1 DEF Sound, Shape, ClaimHeld, HoldsRequest, StoreInv, LedgerInv,
                              RequestsPlaced
          <5> QED  BY <2>1, <5>1, <5>2 DEF Sound, Shape
        <4>3. wallets'[tx[o].wallet] = wallets[tx[o].wallet]
          BY <4>1, <4>2, CommitFrame
        <4> QED  BY <2>1, <4>3 DEF Sound, Snapshot
      <3>2. CASE ~(tx[o].step \in {"update", "insertRow", "commit"} /\ tx[o].kind # "approve")
        BY <2>1, <3>2 DEF Sound, Snapshot
      <3> QED  BY <3>1, <3>2
    <2>4. ClaimHeld(o)'
      <3>1. CASE HoldsRequest(o, tx[o].id)
        <4>1. withdrawals[tx[o].id].status = "pending" /\ tx[o].id \in Requests
          BY <2>1, <3>1 DEF Sound, ClaimHeld, Shape, HoldsRequest
        <4>2. tx[p].kind \in {"approve", "reject"} => tx[p].id # tx[o].id
          BY <1>1, <2>1, <3>1 DEF Exclusive, HoldsRequest
        <4>3. tx[p].kind = "request" => tx[p].id # tx[o].id
          BY <1>1, <4>1 DEF Sound, RequestFresh, Open
        <4>4. withdrawals'[tx[o].id] = withdrawals[tx[o].id]
          <5>1. tx[p].kind \in {"credit", "debit", "request", "approve", "reject"}
            BY <1>1, CommitFacts
          <5> QED  BY <4>1, <4>2, <4>3, <5>1, CommitFrame
        <4> QED  BY <2>1, <4>4 DEF Sound, ClaimHeld, HoldsRequest
      <3>2. CASE ~HoldsRequest(o, tx[o].id)
        BY <2>1, <3>2 DEF ClaimHeld, HoldsRequest
      <3> QED  BY <3>1, <3>2
    <2>5. RequestFresh(o)'
      <3>1. CASE Open(o) /\ tx[o].kind = "request"
        <4>1. withdrawals[tx[o].id].status = "none" /\ tx[o].id \in Requests
          BY <2>1, <3>1 DEF Sound, RequestFresh, Shape
        <4>2. tx[p].kind \in {"approve", "reject"} => tx[p].id # tx[o].id
          BY <1>1, <4>1 DEF Sound, ClaimHeld, HoldsRequest
        <4>3. tx[p].kind = "request" => tx[p].id # tx[o].id
          BY <1>1, <2>1, <3>1 DEF Exclusive, Open
        <4>4. withdrawals'[tx[o].id] = withdrawals[tx[o].id]
          <5>1. tx[p].kind \in {"credit", "debit", "request", "approve", "reject"}
            BY <1>1, CommitFacts
          <5> QED  BY <4>1, <4>2, <4>3, <5>1, CommitFrame
        <4> QED  BY <2>1, <4>1, <4>4 DEF RequestFresh
      <3>2. CASE ~(Open(o) /\ tx[o].kind = "request")
        BY <2>1, <3>2 DEF RequestFresh, Open
      <3> QED  BY <3>1, <3>2
    <2>6. RefFree(o)'
      <3>1. CASE tx[o].step = "commit" /\ tx[o].kind # "approve" /\ tx[o].ref # NoRef
        <4>1. ~Posted(tx[o].ref)
          BY <2>1, <3>1 DEF Sound, RefFree, NotPosted
        <4>2. tx[p].kind = "approve" \/ tx[o].ref # tx[p].ref
          BY <1>1, <2>1, <3>1 DEF Exclusive, HoldsRef
        <4>a. PICK x : x = tx[o].ref
          OBVIOUS
        <4>3. ~Posted(x)'
          BY <4>1, <4>2, <4>a, CommitFrame
        <4> QED  BY <2>1, <4>3, <4>a DEF RefFree, NotPosted, Posted
      <3>2. CASE ~(tx[o].step = "commit" /\ tx[o].kind # "approve" /\ tx[o].ref # NoRef)
        BY <2>1, <3>2 DEF RefFree, NotPosted
      <3> QED  BY <3>1, <3>2
    <2> QED  BY <2>2, <2>3, <2>4, <2>5, <2>6 DEF Sound
  <1>10. ASSUME NEW x \in Procs, NEW o \in Procs, x # o  PROVE Exclusive(x, o)'
    <2>1. CASE x = p \/ o = p
      BY <1>6, <2>1 DEF Exclusive, HoldsWallet, HoldsRequest, HoldsRef, Open
    <2>2. CASE x # p /\ o # p
      <3>1. tx'[x] = tx[x] /\ tx'[o] = tx[o] /\ Exclusive(x, o)
        BY <1>5, <1>10, <2>2 DEF StoreInv
      <3> QED  BY <3>1 DEF Exclusive, HoldsWallet, HoldsRequest, HoldsRef, Open
    <2> QED  BY <2>1, <2>2
  <1> QED  BY <1>2, <1>3, <1>7, <1>8, <1>9, <1>10 DEF StoreInv

-----------------------------------------------------------------------------
(* The whole specification. *)

\* The upsert of GetBalance creates the wallet or changes nothing.
LEMMA EnsureRefines ==
    ASSUME StoreInv, NEW w \in Wallets, EnsureWallet(w)
    PROVE  CreateWallet(w) \/ UNCHANGED ledgerVars
  <1>1. /\ wallets' = [wallets EXCEPT ![w].exists = TRUE]
        /\ ledger' = ledger /\ withdrawals' = withdrawals
    BY DEF EnsureWallet
  <1>2. wallets \in [Wallets -> WalletRow]
    BY DEF StoreInv, LedgerInv, LedgerTypeOK
  <1>3. CASE wallets[w].exists
    <2>1. [wallets[w] EXCEPT !.exists = TRUE] = wallets[w]
      BY <1>2, <1>3 DEF WalletRow
    <2>2. wallets' = wallets
      BY <1>1, <1>2, <2>1
    <2> QED  BY <1>1, <2>2 DEF ledgerVars
  <1>4. CASE ~wallets[w].exists
    BY <1>1, <1>4 DEF CreateWallet
  <1> QED  BY <1>3, <1>4

\* The upsert waits for open transactions on the wallet, and so disturbs none.
LEMMA EnsureStep ==
    ASSUME StoreInv, NEW w \in Wallets, EnsureWallet(w)
    PROVE  StoreInv'
  <1>1. /\ wallets' = [wallets EXCEPT ![w].exists = TRUE]
        /\ ledger' = ledger /\ withdrawals' = withdrawals /\ tx' = tx
        /\ made' = made + 1 /\ made < MaxCalls
        /\ \A o \in Procs : ~HoldsWallet(o, w)
    BY DEF EnsureWallet
  <1>2. LedgerInv'
    <2>1. LedgerInv /\ [LedgerNext]_ledgerVars
      BY EnsureRefines DEF StoreInv, LedgerNext
    <2> QED  BY <2>1, LedgerStepInv
  <1>3. \A v \in Wallets : /\ v # w => wallets'[v] = wallets[v]
                           /\ wallets'[v].balance = wallets[v].balance
                           /\ wallets'[v].version = wallets[v].version
                           /\ wallets[v].exists => wallets'[v].exists
    BY <1>1 DEF StoreInv, LedgerInv, LedgerTypeOK, WalletRow
  <1>4. AbsentEmpty'
    BY <1>3 DEF StoreInv, AbsentEmpty
  <1>5. TypeOK'
    BY <1>1, <1>2, BoundsAssumption DEF StoreInv, TypeOK, LedgerInv
  <1>6. ASSUME NEW o \in Procs  PROVE Sound(o)'
    <2>1. Sound(o) /\ tx[o] \in Transaction
      BY SoundFacts
    <2>2. Snapshot(o)'
      <3>1. CASE tx[o].step \in {"update", "insertRow", "commit"} /\ tx[o].kind # "approve"
        <4>1. tx[o].wallet # w
          BY <1>1, <3>1 DEF HoldsWallet
        <4>2. tx[o].wallet \in Wallets
          <5>1. tx[o].kind \in {"credit", "debit", "request", "reject"}
            BY <2>1, <3>1 DEF Sound, Shape, Open, Transaction, Kinds
          <5>2. tx[o].kind = "reject" => tx[o].wallet \in Wallets
            BY <2>1, <3>1 DEF Sound, Shape, ClaimHeld, HoldsRequest, StoreInv, LedgerInv,
                              RequestsPlaced
          <5> QED  BY <2>1, <5>1, <5>2 DEF Sound, Shape
        <4> QED  BY <1>1, <1>3, <2>1, <4>1, <4>2 DEF Sound, Snapshot
      <3>2. CASE ~(tx[o].step \in {"update", "insertRow", "commit"} /\ tx[o].kind # "approve")
        BY <1>1, <2>1, <3>2 DEF Sound, Snapshot
      <3> QED  BY <3>1, <3>2
    <2>3. /\ Shape(o)' /\ ClaimHeld(o)' /\ RequestFresh(o)' /\ FundsHeld(o)' /\ RefFree(o)'
      BY <1>1, <2>1 DEF Sound, Shape, ClaimHeld, RequestFresh, FundsHeld, RefFree, Open,
                        HoldsRequest, Takes, NotPosted, Posted
    <2> QED  BY <2>2, <2>3 DEF Sound
  <1>7. ASSUME NEW x \in Procs, NEW o \in Procs, x # o  PROVE Exclusive(x, o)'
    BY <1>1, <1>7 DEF StoreInv, Exclusive, HoldsWallet, HoldsRequest, HoldsRef, Open
  <1> QED  BY <1>2, <1>4, <1>5, <1>6, <1>7 DEF StoreInv

\* The store starts with empty tables and idle handlers.
LEMMA StoreInit ==
    Init => StoreInv
  <1> SUFFICES ASSUME Init PROVE StoreInv
    OBVIOUS
  <1>1. LedgerInv
    BY LedgerInitInv DEF Init
  <1>2. AbsentEmpty
    BY DEF Init, LedgerInit, AbsentWallet, AbsentEmpty
  <1>3. TypeOK
    BY <1>1, IdleType, BoundsAssumption DEF Init, TypeOK, LedgerInv
  <1>4. \A p \in Procs : /\ tx[p].step = "idle" /\ tx[p].kind = "none"
                         /\ tx[p].reply = "none" /\ tx[p].fresh = FALSE
    BY DEF Init, Idle
  <1>5. \A p \in Procs : Sound(p)
    BY <1>4 DEF Sound, Shape, Snapshot, ClaimHeld, RequestFresh, FundsHeld, RefFree, Open,
                HoldsRequest
  <1>6. \A p, o \in Procs : Exclusive(p, o)
    BY <1>4 DEF Exclusive, HoldsWallet, HoldsRequest, HoldsRef, Open
  <1> QED  BY <1>1, <1>2, <1>3, <1>5, <1>6 DEF StoreInv

\* A statement fails or the caller goes away.
LEMMA FailStep ==
    ASSUME StoreInv, NEW p \in Procs, Fail(p)
    PROVE  StoreInv'
  BY ReplyStep DEF Fail, Replies

\* Every step of the store preserves the invariant.
LEMMA StoreStep ==
    StoreInv /\ [Next]_vars => StoreInv'
  <1> SUFFICES ASSUME StoreInv, [Next]_vars PROVE StoreInv'
    OBVIOUS
  <1>1. ASSUME NEW p \in Procs, Arrive(p)  PROVE StoreInv'
    BY <1>1, BeginMoneyStep, BeginRequestStep, BeginReviewStep DEF Arrive
  <1>2. ASSUME NEW p \in Procs, Step(p)  PROVE StoreInv'
    BY <1>2, LookupStep, ClaimStep, LockWalletStep, InsertWalletStep, UpdateWalletStep,
       InsertRowStep, CommitStep DEF Step
  <1>3. ASSUME NEW p \in Procs, Fail(p)  PROVE StoreInv'
    BY <1>3, FailStep
  <1>4. ASSUME NEW c \in Calls \cap EnsureCalls, EnsureWallet(c.wallet)  PROVE StoreInv'
    <2>1. c.wallet \in Wallets
      BY DEF EnsureCalls
    <2> QED  BY <1>4, <2>1, EnsureStep
  <1>5. CASE UNCHANGED vars
    BY <1>5 DEF vars, StoreInv, LedgerInv, LedgerTypeOK, RequestsPlaced, NoOverdraft,
                ChainedRows, PostedOnce, WithdrawalsBalanced, RequestBalanced, Posted, RowWith,
                AbsentEmpty, TypeOK, Sound, Shape, Snapshot, ClaimHeld, RequestFresh, FundsHeld,
                RefFree, NotPosted, Exclusive, HoldsWallet, HoldsRequest, HoldsRef, Open, Takes
  <1> QED  BY <1>1, <1>2, <1>3, <1>4, <1>5 DEF Next

\* Every step of the store is a step of the ledger, or changes no table.
LEMMA StoreRefines ==
    StoreInv /\ [Next]_vars => [LedgerNext]_ledgerVars
  <1> SUFFICES ASSUME StoreInv, [Next]_vars PROVE [LedgerNext]_ledgerVars
    OBVIOUS
  <1>1. ASSUME NEW p \in Procs, Arrive(p)  PROVE UNCHANGED ledgerVars
    BY <1>1 DEF Arrive, BeginMoney, BeginRequest, BeginReview, Begin
  <1>2. ASSUME NEW p \in Procs, Commit(p)  PROVE LedgerNext
    BY <1>2, CommitNext
  <1>3. ASSUME NEW p \in Procs,
               Lookup(p) \/ Claim(p) \/ LockWallet(p) \/ InsertWallet(p) \/ UpdateWallet(p)
                 \/ InsertRow(p) \/ Fail(p)
        PROVE  UNCHANGED ledgerVars
    BY <1>3 DEF Lookup, Claim, LockWallet, InsertWallet, UpdateWallet, InsertRow, Fail,
                Reply, Goto
  <1>4. ASSUME NEW c \in Calls \cap EnsureCalls, EnsureWallet(c.wallet)
        PROVE  LedgerNext \/ UNCHANGED ledgerVars
    <2>1. c.wallet \in Wallets
      BY DEF EnsureCalls
    <2> QED  BY <1>4, <2>1, EnsureRefines DEF LedgerNext
  <1>5. CASE UNCHANGED vars
    BY <1>5 DEF vars, ledgerVars
  <1> QED  BY <1>1, <1>2, <1>3, <1>4, <1>5 DEF Next, Step

\* The inductive invariant holds of every behaviour of the store.
THEOREM StoreInvariant ==
    Spec => []StoreInv
  BY StoreInit, StoreStep, PTL DEF Spec

\* The tables and the transactions under way are well typed.
THEOREM StoreTypeOK ==
    Spec => []TypeOK
  <1>1. StoreInv => TypeOK
    BY DEF StoreInv
  <1> QED  BY <1>1, StoreInvariant, PTL

\* The version test of UPDATE wallets never fails: SELECT ... FOR UPDATE and the
\* unique key of a new wallet exclude every conflict.
THEOREM StoreNoConflict ==
    Spec => []NoWalletConflict
  <1>1. StoreInv => NoWalletConflict
    BY DEF StoreInv, Sound, Snapshot, NoWalletConflict
  <1> QED  BY <1>1, StoreInvariant, PTL

\* The PostgreSQL store implements the atomic ledger.
THEOREM StoreImplementsLedger ==
    Spec => ImplementsLedger
  <1>1. Init => LedgerInit
    BY DEF Init
  <1> QED  BY <1>1, StoreInvariant, StoreRefines, PTL DEF Spec, LedgerSpec, ImplementsLedger

\* No interleaving of SQL transactions overdraws a wallet.
THEOREM StoreNoOverdraft ==
    Spec => []NoOverdraft
  <1>1. StoreInv => NoOverdraft
    BY DEF StoreInv, LedgerInv
  <1> QED  BY <1>1, StoreInvariant, PTL

\* No update of a balance is lost, and none is made without its row.
THEOREM StoreChainedRows ==
    Spec => []ChainedRows
  <1>1. StoreInv => ChainedRows
    BY DEF StoreInv, LedgerInv
  <1> QED  BY <1>1, StoreInvariant, PTL

\* A reference id moves money once, however often its call is repeated.
THEOREM StorePostedOnce ==
    Spec => []PostedOnce
  <1>1. StoreInv => PostedOnce
    BY DEF StoreInv, LedgerInv
  <1> QED  BY <1>1, StoreInvariant, PTL

\* A withdrawal is held, completed or given back exactly as its request says.
THEOREM StoreWithdrawalsBalanced ==
    Spec => []WithdrawalsBalanced
  <1>1. StoreInv => WithdrawalsBalanced
    BY DEF StoreInv, LedgerInv
  <1> QED  BY <1>1, StoreInvariant, PTL

-----------------------------------------------------------------------------
(* What a client is told. *)

\* Callers never use one reference id for two different calls.
OneCallPerRef ==
    \A c, d \in Calls \cap MoneyCalls : c.ref = d.ref /\ c.ref # NoRef => c = d

\* A handler works on the call it was given.
Called(p) ==
    tx[p].kind \in {"credit", "debit"} =>
        \E c \in Calls \cap MoneyCalls :
            /\ c.kind = tx[p].kind
            /\ c.wallet = tx[p].wallet
            /\ c.amount = tx[p].amount
            /\ c.ref = tx[p].ref

\* A reply of success is given for a reference id that is posted.
Acked(p) ==
    (tx[p].kind \in {"credit", "debit"} /\ tx[p].reply \in {"ok", "existing"}) =>
        tx[p].ref = NoRef \/ Posted(tx[p].ref)

\* A row with a caller's reference id was written for a call with that id.
RowCalled(row, w) ==
    row.ref \in Refs =>
        \E c \in Calls \cap MoneyCalls :
            /\ c.wallet = w
            /\ c.ref = row.ref
            /\ row.type = RowType(c.kind)
            /\ row.amount = Stored(c.amount)
            /\ row.status = "completed"

RowsCalled == \A w \in Wallets : \A i \in DOMAIN ledger[w] : RowCalled(ledger[w][i], w)

AckInv ==
    /\ \A p \in Procs : Called(p) /\ Acked(p)
    /\ RowsCalled

\* A statement that leaves the tables alone keeps the call of its handler, and tells
\* the client of success only where the reference id is posted.
LEMMA AckLocal ==
    ASSUME StoreInv, AckInv, NEW p \in Procs, NEW t, tx' = [tx EXCEPT ![p] = t],
           ledger' = ledger,
           t.kind \in {"credit", "debit"} =>
              /\ t.kind = tx[p].kind /\ t.wallet = tx[p].wallet
              /\ t.amount = tx[p].amount /\ t.ref = tx[p].ref
              /\ t.reply \in {"ok", "existing"} =>
                    t.reply = tx[p].reply \/ Posted(tx[p].ref)
    PROVE  AckInv'
  <1>1. tx'[p] = t /\ \A o \in Procs \ {p} : tx'[o] = tx[o]
    BY DEF StoreInv, TypeOK
  <1>2. RowsCalled'
    BY DEF AckInv, RowsCalled
  <1>3. \A o \in Procs \ {p} : Called(o)' /\ Acked(o)'
    BY <1>1 DEF AckInv, Called, Acked, Posted
  <1>4. Called(p)'
    BY <1>1 DEF AckInv, Called
  <1>5. Acked(p)'
    BY <1>1 DEF AckInv, Acked, Posted
  <1> QED  BY <1>2, <1>3, <1>4, <1>5 DEF AckInv

\* The arrival of a call.
LEMMA AckArrive ==
    ASSUME StoreInv, AckInv, NEW p \in Procs, Arrive(p)
    PROVE  AckInv'
  <1>1. PICK t : /\ tx' = [tx EXCEPT ![p] = t] /\ ledger' = ledger
                 /\ t.reply = "none"
                 /\ t.kind \in {"credit", "debit"} =>
                      \E c \in Calls \cap MoneyCalls :
                          /\ c.kind = t.kind /\ c.wallet = t.wallet
                          /\ c.amount = t.amount /\ c.ref = t.ref
    <2>1. CASE \E c \in Calls \cap MoneyCalls : BeginMoney(p, c)
      <3>1. PICK c \in Calls \cap MoneyCalls : BeginMoney(p, c)
        BY <2>1
      <3> DEFINE t == [Idle EXCEPT !.kind = c.kind, !.wallet = c.wallet, !.amount = c.amount,
                                   !.ref = c.ref,
                                   !.step = IF c.ref = NoRef THEN "lock" ELSE "lookup"]
      <3>2. tx' = [tx EXCEPT ![p] = t] /\ ledger' = ledger
        BY <3>1 DEF BeginMoney, Begin, ledgerVars
      <3>3. /\ t.reply = "none" /\ t.kind = c.kind /\ t.wallet = c.wallet
            /\ t.amount = c.amount /\ t.ref = c.ref
        BY DEF Idle
      <3> QED  BY <3>2, <3>3
    <2>2. CASE \E c \in Calls \cap RequestCalls : BeginRequest(p, c)
      <3>1. PICK c \in Calls \cap RequestCalls, q \in Requests :
               Begin(p, [Idle EXCEPT !.kind = "request", !.wallet = c.wallet,
                                     !.amount = c.amount, !.ref = q, !.id = q,
                                     !.step = "lock"])
        BY <2>2 DEF BeginRequest
      <3> DEFINE t == [Idle EXCEPT !.kind = "request", !.wallet = c.wallet,
                                   !.amount = c.amount, !.ref = q, !.id = q,
                                   !.step = "lock"]
      <3>2. tx' = [tx EXCEPT ![p] = t] /\ ledger' = ledger
        BY <3>1 DEF Begin, ledgerVars
      <3>3. t.reply = "none" /\ t.kind = "request"
        BY DEF Idle
      <3> QED  BY <3>2, <3>3
    <2>3. CASE \E c \in Calls \cap ReviewCalls : BeginReview(p, c)
      <3>1. PICK c \in Calls \cap ReviewCalls : BeginReview(p, c)
        BY <2>3
      <3> DEFINE t == [Idle EXCEPT !.kind = c.kind, !.id = c.id, !.step = "claim"]
      <3>2. tx' = [tx EXCEPT ![p] = t] /\ ledger' = ledger
        BY <3>1 DEF BeginReview, Begin, ledgerVars
      <3>3. t.reply = "none" /\ t.kind \in {"approve", "reject"}
        BY DEF Idle, ReviewCalls
      <3> QED  BY <3>2, <3>3
    <2> QED  BY <2>1, <2>2, <2>3 DEF Arrive
  <1>2. tx'[p] = t /\ \A o \in Procs \ {p} : tx'[o] = tx[o]
    BY <1>1 DEF StoreInv, TypeOK
  <1>3. \A o \in Procs \ {p} : Called(o)' /\ Acked(o)'
    BY <1>1, <1>2 DEF AckInv, Called, Acked, Posted
  <1>4. Called(p)' /\ Acked(p)'
    BY <1>1, <1>2 DEF Called, Acked
  <1>5. RowsCalled'
    BY <1>1 DEF AckInv, RowsCalled
  <1> QED  BY <1>3, <1>4, <1>5 DEF AckInv

\* The statements before the commit, and failures.
LEMMA AckStatement ==
    ASSUME StoreInv, AckInv, NEW p \in Procs,
           Lookup(p) \/ Claim(p) \/ LockWallet(p) \/ InsertWallet(p) \/ UpdateWallet(p)
             \/ InsertRow(p) \/ Fail(p)
    PROVE  AckInv'
  <1>1. tx[p] \in Transaction /\ Sound(p)
    BY SoundFacts
  <1>2. ASSUME NEW r \in Replies, Reply(p, r), r \notin {"ok", "existing"} \/ Posted(tx[p].ref)
        PROVE  AckInv'
    <2> DEFINE t == [tx[p] EXCEPT !.step = "replied", !.reply = r]
    <2>1. tx' = [tx EXCEPT ![p] = t] /\ ledger' = ledger
      BY <1>2 DEF Reply, ledgerVars
    <2>2. /\ t.kind = tx[p].kind /\ t.wallet = tx[p].wallet /\ t.amount = tx[p].amount
          /\ t.ref = tx[p].ref /\ t.reply = r
      BY <1>1 DEF Transaction
    <2> HIDE DEF t
    <2> QED  BY <1>2, <2>1, <2>2, AckLocal
  <1>3. ASSUME NEW s, Goto(p, s)  PROVE AckInv'
    <2> DEFINE t == [tx[p] EXCEPT !.step = s]
    <2>1. tx' = [tx EXCEPT ![p] = t] /\ ledger' = ledger
      BY <1>3 DEF Goto, ledgerVars
    <2>2. /\ t.kind = tx[p].kind /\ t.wallet = tx[p].wallet /\ t.amount = tx[p].amount
          /\ t.ref = tx[p].ref /\ t.reply = tx[p].reply
      BY <1>1 DEF Transaction
    <2> HIDE DEF t
    <2> QED  BY <2>1, <2>2, AckLocal
  <1>4. CASE Lookup(p)
    BY <1>2, <1>3, <1>4 DEF Lookup, Replies
  <1>5. CASE Claim(p)
    <2>1. CASE withdrawals[tx[p].id].status # "pending"
      BY <1>2, <1>5, <2>1 DEF Claim, Replies
    <2>2. CASE withdrawals[tx[p].id].status = "pending"
      <3> DEFINE q == tx[p].id
                 t == [tx[p] EXCEPT !.step = IF tx[p].kind = "approve" THEN "commit" ELSE "lock",
                                    !.wallet = withdrawals[q].wallet,
                                    !.amount = withdrawals[q].amount * Scale,
                                    !.ref = IF tx[p].kind = "approve" THEN q ELSE Reversal(q)]
      <3>1. tx' = [tx EXCEPT ![p] = t] /\ ledger' = ledger
        BY <1>5, <2>2 DEF Claim, ledgerVars
      <3>2. t.kind = tx[p].kind /\ tx[p].kind \in {"approve", "reject"}
        BY <1>1, <1>5 DEF Transaction, Claim, Sound, Shape
      <3> HIDE DEF t
      <3> QED  BY <3>1, <3>2, AckLocal
    <2> QED  BY <2>1, <2>2
  <1>6. CASE LockWallet(p)
    <2>1. CASE ~wallets[tx[p].wallet].exists
      BY <1>2, <1>3, <1>6, <2>1 DEF LockWallet, Replies
    <2>2. CASE wallets[tx[p].wallet].exists
      <3> DEFINE w == tx[p].wallet
                 t == [tx[p] EXCEPT !.step = "update", !.balance = wallets[w].balance,
                                    !.version = wallets[w].version]
      <3>1. tx' = [tx EXCEPT ![p] = t] /\ ledger' = ledger
        BY <1>6, <2>2 DEF LockWallet, ledgerVars
      <3>2. /\ t.kind = tx[p].kind /\ t.wallet = tx[p].wallet /\ t.amount = tx[p].amount
            /\ t.ref = tx[p].ref /\ t.reply = tx[p].reply
        BY <1>1 DEF Transaction
      <3> HIDE DEF t
      <3> QED  BY <3>1, <3>2, AckLocal
    <2> QED  BY <2>1, <2>2
  <1>7. CASE InsertWallet(p)
    <2>1. CASE wallets[tx[p].wallet].exists
      BY <1>2, <1>7, <2>1 DEF InsertWallet, Replies
    <2>2. CASE ~wallets[tx[p].wallet].exists
      <3> DEFINE t == [tx[p] EXCEPT !.step = "update", !.fresh = TRUE]
      <3>1. tx' = [tx EXCEPT ![p] = t] /\ ledger' = ledger
        BY <1>7, <2>2 DEF InsertWallet, ledgerVars
      <3>2. /\ t.kind = tx[p].kind /\ t.wallet = tx[p].wallet /\ t.amount = tx[p].amount
            /\ t.ref = tx[p].ref /\ t.reply = tx[p].reply
        BY <1>1 DEF Transaction
      <3> HIDE DEF t
      <3> QED  BY <3>1, <3>2, AckLocal
    <2> QED  BY <2>1, <2>2
  <1>8. CASE UpdateWallet(p)
    BY <1>2, <1>3, <1>8 DEF UpdateWallet, Replies
  <1>9. CASE InsertRow(p)
    BY <1>2, <1>3, <1>9 DEF InsertRow, Replies
  <1>10. CASE Fail(p)
    BY <1>2, <1>10 DEF Fail, Replies
  <1> QED  BY <1>4, <1>5, <1>6, <1>7, <1>8, <1>9, <1>10

\* Rows that a review leaves alone, and the row of a commit, were called for.
LEMMA AckCommitRows ==
    ASSUME StoreInv, AckInv, NEW p \in Procs, Commit(p)
    PROVE  RowsCalled'
  <1>1. LedgerInv /\ LedgerTypeOK /\ RequestsPlaced
    BY DEF StoreInv, LedgerInv
  <1>2. tx[p].step = "commit" /\ tx[p] \in Transaction /\ Sound(p) /\ Called(p) /\ RowsCalled
    BY SoundFacts DEF Commit, AckInv
  <1>3. /\ tx[p].kind \in {"credit", "debit", "request", "approve", "reject"}
        /\ tx[p].wallet \in Wallets
    BY <1>2, CommitFacts
  <1>4. Committed(p)
    BY CommitRefines
  <1>a. PICK w \in Wallets : w = tx[p].wallet
    BY <1>3
  <1>5. ledger[w] \in Seq(Row)
    BY <1>1 DEF LedgerTypeOK
  <1>6. ASSUME NEW rows, SameButStatus(rows, ledger[w]),
               \A i \in 1 .. Len(ledger[w]) :
                  ledger[w][i].ref \in Refs => rows[i].status = ledger[w][i].status,
               NEW i \in 1 .. Len(ledger[w])
        PROVE  RowCalled(rows[i], w)
    <2>1. i \in DOMAIN ledger[w]
      BY <1>5
    <2>2. RowCalled(ledger[w][i], w)
      BY <1>2, <2>1 DEF RowsCalled
    <2>3. /\ rows[i].ref = ledger[w][i].ref /\ rows[i].type = ledger[w][i].type
          /\ rows[i].amount = ledger[w][i].amount
      BY <1>6 DEF SameButStatus
    <2>4. rows[i].ref \in Refs => rows[i].status = ledger[w][i].status
      BY <1>6, <2>3
    <2> QED  BY <2>2, <2>3, <2>4 DEF RowCalled
  <1>7. ASSUME NEW rows, SameButStatus(rows, ledger[w]),
               \A i \in 1 .. Len(ledger[w]) :
                  ledger[w][i].ref \in Refs => rows[i].status = ledger[w][i].status,
               NEW r, NEW type, NEW amount, NEW after, NEW status,
               Post(w, rows, r, type, amount, after, status),
               r \in Refs =>
                 \E c \in Calls \cap MoneyCalls :
                    /\ c.wallet = w /\ c.ref = r /\ type = RowType(c.kind)
                    /\ amount = Stored(c.amount) /\ status = "completed"
        PROVE  RowsCalled'
    <2> DEFINE n == Len(ledger[w])
               row == NewRow(r, type, amount, wallets[w].balance, after, status)
    <2>1. /\ n \in Nat
          /\ DOMAIN ledger'[w] = 1 .. n + 1
          /\ ledger'[w][n + 1] = row
          /\ \A i \in 1 .. n : ledger'[w][i] = rows[i]
          /\ \A v \in Wallets \ {w} : ledger'[v] = ledger[v]
      BY <1>1, <1>7, PostRows
    <2>2. RowCalled(row, w)
      <3>1. row.ref = r /\ row.type = type /\ row.amount = amount /\ row.status = status
        BY DEF NewRow
      <3> HIDE DEF row
      <3> QED  BY <1>7, <3>1 DEF RowCalled
    <2> HIDE DEF row
    <2>3. \A i \in 1 .. n : RowCalled(rows[i], w)
      BY <1>6, <1>7
    <2>4. ASSUME NEW v \in Wallets, NEW i \in DOMAIN ledger'[v]  PROVE RowCalled(ledger'[v][i], v)
      <3>1. CASE v # w
        BY <1>2, <2>1, <3>1 DEF RowsCalled
      <3>2. CASE v = w /\ i \in 1 .. n
        BY <2>1, <2>3, <3>2
      <3>3. CASE v = w /\ i = n + 1
        BY <2>1, <2>2, <3>3
      <3> QED  BY <2>1, <3>1, <3>2, <3>3
    <2> QED  BY <2>4 DEF RowsCalled
  <1>8. CASE tx[p].kind \in {"credit", "debit"}
    <2>a. PICK c \in Calls \cap MoneyCalls : /\ c.kind = tx[p].kind /\ c.wallet = tx[p].wallet
                                             /\ c.amount = tx[p].amount /\ c.ref = tx[p].ref
      BY <1>2, <1>8 DEF Called
    <2>b. PICK r : r = tx[p].ref
      OBVIOUS
    <2>1. PICK after : Post(w, ledger[w], r, RowType(c.kind), Stored(c.amount), after, "completed")
      BY <1>4, <1>8, <1>a, <2>a, <2>b DEF Committed, Credit, Debit, RowType
    <2>2. SameButStatus(ledger[w], ledger[w])
      BY <1>1, SameRows
    <2> QED  BY <1>7, <1>a, <2>1, <2>2, <2>a, <2>b
  <1>9. CASE tx[p].kind = "request"
    <2>1. PICK q \in Requests : q = tx[p].id
      BY <1>2, <1>9 DEF Sound, Shape
    <2>2. PICK amount, after : Post(w, ledger[w], q, "withdrawal", amount, after, "pending")
      BY <1>4, <1>9, <1>a, <2>1 DEF Committed, RequestWithdrawal
    <2>3. q \notin Refs /\ SameButStatus(ledger[w], ledger[w])
      BY <1>1, SameRows, RefsApart DEF RefIds
    <2> QED  BY <1>7, <2>2, <2>3
  <1>10. CASE tx[p].kind \in {"approve", "reject"}
    <2>1. PICK q \in Requests : q = tx[p].id
      BY <1>2, <1>10 DEF Sound, Shape
    <2>2. w = withdrawals[q].wallet
      BY <1>2, <1>10, <1>a, <2>1 DEF Sound, ClaimHeld, HoldsRequest
    <2>3. q \notin Refs /\ Reversal(q) \notin Refs
      BY RefsApart DEF RefIds
    <2>4. CASE tx[p].kind = "reject"
      <3>a. PICK rows : rows = WithStatus(ledger[w], q, "reversed")
        OBVIOUS
      <3>1. PICK amount, after : Post(w, rows, Reversal(q), "adjustment", amount, after, "completed")
        BY <1>4, <2>1, <2>2, <2>4, <3>a DEF Committed, RejectWithdrawal
      <3>2. /\ SameButStatus(rows, ledger[w])
            /\ \A i \in 1 .. Len(ledger[w]) :
                  ledger[w][i].ref \in Refs => rows[i].status = ledger[w][i].status
        BY <1>5, <2>3, <3>a, WithStatusSame
      <3> QED  BY <1>7, <2>3, <3>1, <3>2
    <2>5. CASE tx[p].kind = "approve"
      <3>a. PICK rows : rows = WithStatus(ledger[w], q, "completed")
        OBVIOUS
      <3>1. ledger' = [ledger EXCEPT ![w] = rows]
        BY <1>4, <2>1, <2>2, <2>5, <3>a DEF Committed, ApproveWithdrawal
      <3>2. /\ SameButStatus(rows, ledger[w])
            /\ \A i \in 1 .. Len(ledger[w]) :
                  ledger[w][i].ref \in Refs => rows[i].status = ledger[w][i].status
        BY <1>5, <2>3, <3>a, WithStatusSame
      <3>3. /\ ledger'[w] = rows /\ DOMAIN rows = 1 .. Len(ledger[w])
            /\ \A v \in Wallets \ {w} : ledger'[v] = ledger[v]
        BY <1>1, <3>1, <3>2 DEF LedgerTypeOK, SameButStatus
      <3>4. \A i \in 1 .. Len(ledger[w]) : RowCalled(rows[i], w)
        BY <1>6, <3>2
      <3> QED  BY <1>2, <3>3, <3>4 DEF RowsCalled
    <2> QED  BY <1>10, <2>4, <2>5
  <1> QED  BY <1>3, <1>8, <1>9, <1>10

\* COMMIT makes the row of its transaction visible before the client is told.
LEMMA AckCommit ==
    ASSUME StoreInv, AckInv, NEW p \in Procs, Commit(p)
    PROVE  AckInv'
  <1>1. tx[p].step = "commit" /\ tx[p] \in Transaction
    BY SoundFacts DEF Commit
  <1>2. PICK s \in {"ok", "failed"} :
           tx' = [tx EXCEPT ![p] = [tx[p] EXCEPT !.step = "replied", !.reply = s]]
    BY DEF Commit
  <1>3. /\ tx'[p] = [tx[p] EXCEPT !.step = "replied", !.reply = s]
        /\ \A o \in Procs \ {p} : tx'[o] = tx[o]
    BY <1>2 DEF StoreInv, TypeOK
  <1>4. /\ tx'[p].kind = tx[p].kind /\ tx'[p].wallet = tx[p].wallet
        /\ tx'[p].amount = tx[p].amount /\ tx'[p].ref = tx[p].ref
    BY <1>1, <1>3 DEF Transaction
  <1>5. \A x : Posted(x) => Posted(x)'
    <2> SUFFICES ASSUME NEW x, Posted(x)  PROVE Posted(x)'
      OBVIOUS
    <2> QED  BY CommitNext, PostedStays DEF StoreInv
  <1>6. tx[p].kind \in {"credit", "debit"} => Posted(tx[p].ref)'
    <2>1. tx[p].kind \in {"credit", "debit"} =>
             \E rows, type, amount, after, status :
                /\ rows = ledger[tx[p].wallet]
                /\ Post(tx[p].wallet, rows, tx[p].ref, type, amount, after, status)
      BY CommitRefines DEF Committed, Credit, Debit
    <2>2. tx[p].wallet \in Wallets /\ LedgerTypeOK
      BY <1>1, CommitFacts DEF StoreInv, LedgerInv
    <2>a. PICK x : x = tx[p].ref
      OBVIOUS
    <2>3. tx[p].kind \in {"credit", "debit"} => Posted(x)'
      BY <2>1, <2>2, <2>a, SameRows, PostPosted
    <2> QED  BY <1>4, <2>3, <2>a DEF Posted
  <1>7. Called(p)' /\ Acked(p)'
    <2>1. Called(p)'
      BY <1>4 DEF AckInv, Called
    <2>2. Acked(p)'
      BY <1>4, <1>6 DEF Acked
    <2> QED  BY <2>1, <2>2
  <1>8. ASSUME NEW o \in Procs \ {p}  PROVE Called(o)' /\ Acked(o)'
    <2>1. tx'[o] = tx[o] /\ Called(o) /\ Acked(o)
      BY <1>3 DEF AckInv
    <2>a. PICK x : x = tx[o].ref
      OBVIOUS
    <2>2. Posted(x) => Posted(x)'
      BY <1>5
    <2> QED  BY <2>1, <2>2, <2>a DEF Called, Acked, Posted
  <1>9. RowsCalled'
    BY AckCommitRows
  <1> QED  BY <1>7, <1>8, <1>9 DEF AckInv

\* Every step keeps what clients are told in agreement with the ledger.
LEMMA AckStep ==
    StoreInv /\ AckInv /\ [Next]_vars => AckInv'
  <1> SUFFICES ASSUME StoreInv, AckInv, [Next]_vars PROVE AckInv'
    OBVIOUS
  <1>1. ASSUME NEW p \in Procs, Arrive(p) \/ Step(p) \/ Fail(p)  PROVE AckInv'
    BY <1>1, AckArrive, AckStatement, AckCommit DEF Step
  <1>2. ASSUME tx' = tx, ledger' = ledger  PROVE AckInv'
    BY <1>2 DEF AckInv, Called, Acked, RowsCalled, Posted
  <1>3. ASSUME NEW w, EnsureWallet(w)  PROVE AckInv'
    BY <1>2, <1>3 DEF EnsureWallet
  <1>4. CASE UNCHANGED vars
    BY <1>2, <1>4 DEF vars
  <1> QED  BY <1>1, <1>3, <1>4 DEF Next

\* A client that is told its credit or debit is done finds it in the ledger, on its
\* wallet, in its direction and for its amount, provided that callers never use one
\* reference id for two different calls.
THEOREM StoreAckedIsPosted ==
    ASSUME OneCallPerRef
    PROVE  Spec => []AckedIsPosted
  <1>1. Init => AckInv
    <2> SUFFICES ASSUME Init PROVE AckInv
      OBVIOUS
    <2>1. \A p \in Procs : tx[p].kind = "none"
      BY DEF Init, Idle
    <2>2. \A w \in Wallets : DOMAIN ledger[w] = {}
      BY NoRowsAtFirst DEF Init
    <2> QED  BY <2>1, <2>2 DEF AckInv, Called, Acked, RowsCalled
  <1>2. ASSUME StoreInv, AckInv  PROVE AckedIsPosted
    <2> SUFFICES ASSUME NEW p \in Procs, tx[p].kind \in {"credit", "debit"},
                        tx[p].reply \in {"ok", "existing"}, tx[p].ref # NoRef
                 PROVE  RowWith(tx[p].wallet, tx[p].ref, RowType(tx[p].kind),
                                Stored(tx[p].amount), "completed")
      BY DEF AckedIsPosted
    <2>1. PICK c \in Calls \cap MoneyCalls : /\ c.kind = tx[p].kind /\ c.wallet = tx[p].wallet
                                             /\ c.amount = tx[p].amount /\ c.ref = tx[p].ref
      BY <1>2 DEF AckInv, Called
    <2>2. c.ref \in Refs
      BY <2>1 DEF MoneyCalls, RefIds
    <2>a. PICK w \in Wallets : \E i \in DOMAIN ledger[w] : ledger[w][i].ref = c.ref
      BY <1>2, <2>1 DEF AckInv, Acked, Posted
    <2>3. PICK i \in DOMAIN ledger[w] : ledger[w][i].ref = c.ref
      BY <2>a
    <2>4. PICK d \in Calls \cap MoneyCalls :
             /\ d.wallet = w /\ d.ref = c.ref
             /\ ledger[w][i].type = RowType(d.kind)
             /\ ledger[w][i].amount = Stored(d.amount)
             /\ ledger[w][i].status = "completed"
      BY <1>2, <2>2, <2>3 DEF AckInv, RowsCalled, RowCalled
    <2>5. d = c
      BY <2>1, <2>4 DEF OneCallPerRef
    <2> QED  BY <2>1, <2>3, <2>4, <2>5 DEF RowWith
  <1> QED  BY <1>1, <1>2, AckStep, StoreInvariant, PTL DEF Spec

\* The rows of the PostgreSQL store explain its balances to within the rounding.
THEOREM StoreRowsExplainBalances ==
    Spec => []RowsExplainBalances
  BY StoreImplementsLedger, LedgerRowsExplainBalances, PTL DEF ImplementsLedger

\* A rejection in the PostgreSQL store gives back what the request took, provided
\* that amounts are whole stored units.
THEOREM StoreRejectionRestores ==
    ASSUME ExactAmounts
    PROVE  Spec => []RejectionRestores
  BY StoreImplementsLedger, LedgerRejectionRestores, PTL DEF ImplementsLedger

\* No SQL transaction removes or rewrites a row, but for the status of a withdrawal.
THEOREM StoreRowsPermanent ==
    Spec => RowsPermanent
  BY StoreImplementsLedger, LedgerRowsPermanent, PTL DEF ImplementsLedger

==============================================================================
