-------------------------- MODULE WalletLedgerProofs --------------------------
(***************************************************************************)
(* What the atomic operations of WalletLedger preserve, for every value of *)
(* its constants.  The inductive invariant LedgerInv adds to the           *)
(* properties of interest that a request in use names a wallet: without it *)
(* a rejection could not be said to change a wallet at all, and without    *)
(* WithdrawalsBalanced the reference ids of requests and reversals could   *)
(* not be said to be new.                                                  *)
(***************************************************************************)
EXTENDS WalletLedger, TLAPS

RequestsPlaced ==
    \A q \in Requests : withdrawals[q].status # "none" => withdrawals[q].wallet \in Wallets

LedgerInv ==
    /\ LedgerTypeOK
    /\ RequestsPlaced
    /\ NoOverdraft
    /\ ChainedRows
    /\ PostedOnce
    /\ WithdrawalsBalanced

\* Sequences of rows that differ in nothing but the status of rows.
SameButStatus(rows, old) ==
    /\ rows \in Seq(Row)
    /\ Len(rows) = Len(old)
    /\ \A i \in 1 .. Len(old) :
          /\ rows[i].ref = old[i].ref
          /\ rows[i].type = old[i].type
          /\ rows[i].amount = old[i].amount
          /\ rows[i].before = old[i].before
          /\ rows[i].after = old[i].after

-----------------------------------------------------------------------------
(* Lemmas on the operators of the ledger. *)

\* Rounding keeps a number of the column's domain (NUMERIC assignment).
LEMMA StoredNat ==
    ASSUME NEW x \in Nat
    PROVE  Stored(x) \in Nat
  BY ScaleAssumption DEF Stored

\* Rounding yields an integer (NUMERIC assignment).
LEMMA StoredInt ==
    ASSUME NEW x \in Int
    PROVE  Stored(x) \in Int
  BY ScaleAssumption DEF Stored

\* Changing the status of a row (UPDATE transactions SET status) keeps the rest.
LEMMA WithStatusSame ==
    ASSUME NEW old \in Seq(Row), NEW r,
           NEW s \in {"pending", "completed", "reversed"}
    PROVE  /\ SameButStatus(WithStatus(old, r, s), old)
           /\ \A i \in 1 .. Len(old) :
                 WithStatus(old, r, s)[i].status =
                    IF old[i].ref = r THEN s ELSE old[i].status
  <1> DEFINE new == WithStatus(old, r, s)
  <1>1. DOMAIN old = 1 .. Len(old) /\ Len(old) \in Nat
    OBVIOUS
  <1>2. ASSUME NEW i \in 1 .. Len(old)
        PROVE  /\ new[i] \in Row
               /\ new[i] = IF old[i].ref = r THEN [old[i] EXCEPT !.status = s] ELSE old[i]
    <2>1. old[i] \in Row
      OBVIOUS
    <2>2. [old[i] EXCEPT !.status = s] \in Row
      BY <2>1 DEF Row
    <2> QED  BY <1>1, <2>1, <2>2 DEF WithStatus
  <1>3. new = [i \in 1 .. Len(old) |-> new[i]]
    BY <1>1 DEF WithStatus
  <1>4. new \in Seq(Row) /\ Len(new) = Len(old)
    BY <1>1, <1>2, <1>3
  <1>5. ASSUME NEW i \in 1 .. Len(old)
        PROVE  /\ new[i].ref = old[i].ref
               /\ new[i].type = old[i].type
               /\ new[i].amount = old[i].amount
               /\ new[i].before = old[i].before
               /\ new[i].after = old[i].after
               /\ new[i].status = IF old[i].ref = r THEN s ELSE old[i].status
    <2>1. old[i] \in Row
      OBVIOUS
    <2> QED  BY <1>2, <2>1 DEF Row
  <1> QED  BY <1>4, <1>5 DEF SameButStatus

-----------------------------------------------------------------------------
(* Posting a row. *)

\* Writing a balance and appending its row (Post) keeps the tables well typed.
LEMMA PostType ==
    ASSUME LedgerTypeOK, NEW w \in Wallets, NEW rows \in Seq(Row),
           NEW r \in RowRefs, NEW type \in {"deposit", "withdrawal", "adjustment"},
           NEW amount \in Nat, NEW after \in Int,
           NEW status \in {"pending", "completed", "reversed"},
           Post(w, rows, r, type, amount, after, status)
    PROVE  /\ wallets' \in [Wallets -> WalletRow]
           /\ ledger' \in [Wallets -> Seq(Row)]
  <1>1. wallets[w] \in WalletRow /\ wallets[w].version + 1 \in Nat
           /\ wallets[w].balance \in Int
    BY DEF LedgerTypeOK, WalletRow
  <1>2. [exists |-> TRUE, balance |-> after, version |-> wallets[w].version + 1] \in WalletRow
    BY <1>1 DEF WalletRow
  <1>3. NewRow(r, type, amount, wallets[w].balance, after, status) \in Row
    BY <1>1 DEF NewRow, Row
  <1>4. Append(rows, NewRow(r, type, amount, wallets[w].balance, after, status)) \in Seq(Row)
    BY <1>3
  <1> QED  BY <1>2, <1>4 DEF Post, LedgerTypeOK

\* Posting keeps the rows of every wallet a chain that ends in its balance.
LEMMA PostChains ==
    ASSUME LedgerTypeOK, ChainedRows, NEW w \in Wallets, NEW rows,
           SameButStatus(rows, ledger[w]),
           NEW r \in RowRefs, NEW type \in {"deposit", "withdrawal", "adjustment"},
           NEW amount \in Nat, NEW after \in Int,
           NEW status \in {"pending", "completed", "reversed"},
           Post(w, rows, r, type, amount, after, status)
    PROVE  ChainedRows'
  <1> DEFINE row == NewRow(r, type, amount, wallets[w].balance, after, status)
             n == Len(ledger[w])
  <1>1. /\ n \in Nat /\ n = wallets[w].version /\ rows \in Seq(Row) /\ Len(rows) = n
        /\ \A i \in 1 .. n : rows[i].before = ledger[w][i].before
                              /\ rows[i].after = ledger[w][i].after
    BY DEF SameButStatus, LedgerTypeOK, ChainedRows
  <1>2. /\ ledger'[w] = Append(rows, row)
        /\ wallets'[w] = [exists |-> TRUE, balance |-> after, version |-> n + 1]
        /\ \A v \in Wallets \ {w} : ledger'[v] = ledger[v] /\ wallets'[v] = wallets[v]
    BY <1>1 DEF Post, LedgerTypeOK
  <1>3. row.before = wallets[w].balance /\ row.after = after
    BY DEF NewRow
  <1>4. /\ Len(ledger'[w]) = n + 1
        /\ \A i \in 1 .. n : ledger'[w][i] = rows[i]
        /\ ledger'[w][n + 1] = row
        /\ ledger'[w] # <<>>
    <2> HIDE DEF row
    <2> QED  BY <1>1, <1>2
  <1>5. wallets[w].balance = IF n = 0 THEN 0 ELSE ledger[w][n].after
    BY <1>1 DEF ChainedRows, LedgerTypeOK
  <1>6. ASSUME NEW i \in 1 .. n + 1
        PROVE  ledger'[w][i].before = IF i = 1 THEN 0 ELSE ledger'[w][i - 1].after
    <2>1. CASE i \in 1 .. n
      <3>1. ledger[w][i].before = IF i = 1 THEN 0 ELSE ledger[w][i - 1].after
        BY <2>1 DEF ChainedRows
      <3>2. ledger'[w][i].before = ledger[w][i].before
        BY <1>1, <1>4, <2>1
      <3>3. i # 1 => ledger'[w][i - 1].after = ledger[w][i - 1].after
        <4>1. i # 1 => i - 1 \in 1 .. n
          BY <1>1, <2>1
        <4> QED  BY <1>1, <1>4, <4>1
      <3> QED  BY <3>1, <3>2, <3>3
    <2>2. CASE i = n + 1
      <3>1. ledger'[w][i].before = wallets[w].balance
        BY <1>3, <1>4, <2>2
      <3>2. CASE n = 0
        BY <1>5, <2>2, <3>1, <3>2
      <3>3. CASE n # 0
        <4>1. n \in 1 .. n /\ i # 1 /\ i - 1 = n
          BY <1>1, <2>2, <3>3
        <4>2. ledger'[w][n].after = ledger[w][n].after
          BY <1>1, <1>4, <4>1
        <4> QED  BY <1>5, <3>1, <3>3, <4>1, <4>2
      <3> QED  BY <3>2, <3>3
    <2> QED  BY <1>1, <2>1, <2>2
  <1>7. ASSUME NEW v \in Wallets
        PROVE  /\ Len(ledger'[v]) = wallets'[v].version
               /\ \A i \in 1 .. Len(ledger'[v]) :
                     ledger'[v][i].before = IF i = 1 THEN 0 ELSE ledger'[v][i - 1].after
               /\ wallets'[v].balance =
                     IF ledger'[v] = <<>> THEN 0 ELSE ledger'[v][Len(ledger'[v])].after
    <2>1. CASE v = w
      <3>1. Len(ledger'[w]) = wallets'[w].version
        BY <1>2, <1>4
      <3>2. wallets'[w].balance = ledger'[w][Len(ledger'[w])].after
        BY <1>2, <1>3, <1>4
      <3> QED  BY <1>4, <1>6, <2>1, <3>1, <3>2
    <2>2. CASE v # w
      BY <1>2, <2>2 DEF ChainedRows
    <2> QED  BY <2>1, <2>2
  <1> QED  BY <1>7 DEF ChainedRows

\* The rows after posting: those before, but for statuses, and the new one.
LEMMA PostRows ==
    ASSUME LedgerTypeOK, NEW w \in Wallets, NEW rows, SameButStatus(rows, ledger[w]),
           NEW r, NEW type, NEW amount, NEW after, NEW status,
           Post(w, rows, r, type, amount, after, status)
    PROVE  LET n == Len(ledger[w])
               row == NewRow(r, type, amount, wallets[w].balance, after, status)
           IN  /\ n \in Nat
               /\ DOMAIN ledger[w] = 1 .. n
               /\ DOMAIN ledger'[w] = 1 .. n + 1
               /\ ledger'[w][n + 1] = row
               /\ \A i \in 1 .. n : ledger'[w][i] = rows[i]
               /\ \A v \in Wallets \ {w} : ledger'[v] = ledger[v]
  <1> DEFINE n == Len(ledger[w])
             row == NewRow(r, type, amount, wallets[w].balance, after, status)
  <1>1. n \in Nat /\ DOMAIN ledger[w] = 1 .. n /\ rows \in Seq(Row) /\ Len(rows) = n
    BY DEF LedgerTypeOK, SameButStatus
  <1>2. ledger'[w] = Append(rows, row)
    BY DEF Post, LedgerTypeOK
  <1>3. \A v \in Wallets \ {w} : ledger'[v] = ledger[v]
    BY DEF Post, LedgerTypeOK
  <1>4. /\ DOMAIN ledger'[w] = 1 .. n + 1
        /\ ledger'[w][n + 1] = row
        /\ \A i \in 1 .. n : ledger'[w][i] = rows[i]
    <2> HIDE DEF row
    <2> QED  BY <1>1, <1>2
  <1> QED  BY <1>1, <1>3, <1>4

\* The reference ids of the rows after posting.
LEMMA PostRefs ==
    ASSUME LedgerTypeOK, NEW w \in Wallets, NEW rows, SameButStatus(rows, ledger[w]),
           NEW r, NEW type, NEW amount, NEW after, NEW status,
           Post(w, rows, r, type, amount, after, status)
    PROVE  LET n == Len(ledger[w])
           IN  /\ n \in Nat
               /\ DOMAIN ledger[w] = 1 .. n
               /\ DOMAIN ledger'[w] = 1 .. n + 1
               /\ ledger'[w][n + 1].ref = r
               /\ \A i \in 1 .. n : ledger'[w][i].ref = ledger[w][i].ref
               /\ \A v \in Wallets \ {w} : ledger'[v] = ledger[v]
  <1> DEFINE n == Len(ledger[w])
             row == NewRow(r, type, amount, wallets[w].balance, after, status)
  <1>1. /\ n \in Nat
        /\ DOMAIN ledger[w] = 1 .. n
        /\ DOMAIN ledger'[w] = 1 .. n + 1
        /\ ledger'[w][n + 1] = row
        /\ \A i \in 1 .. n : ledger'[w][i] = rows[i]
        /\ \A v \in Wallets \ {w} : ledger'[v] = ledger[v]
    BY PostRows
  <1>2. row.ref = r
    BY DEF NewRow
  <1>3. \A i \in 1 .. n : rows[i].ref = ledger[w][i].ref
    BY DEF SameButStatus
  <1> QED  BY <1>1, <1>2, <1>3

\* Posting adds its reference id to the posted ones, and no other.
LEMMA PostPosted ==
    ASSUME LedgerTypeOK, NEW w \in Wallets, NEW rows, SameButStatus(rows, ledger[w]),
           NEW r, NEW type, NEW amount, NEW after, NEW status,
           Post(w, rows, r, type, amount, after, status), NEW x
    PROVE  Posted(x)' <=> (Posted(x) \/ x = r)
  <1> DEFINE n == Len(ledger[w])
  <1>1. /\ n \in Nat
        /\ DOMAIN ledger[w] = 1 .. n
        /\ DOMAIN ledger'[w] = 1 .. n + 1
        /\ ledger'[w][n + 1].ref = r
        /\ \A i \in 1 .. n : ledger'[w][i].ref = ledger[w][i].ref
        /\ \A v \in Wallets \ {w} : ledger'[v] = ledger[v]
    BY PostRefs
  <1>2. ASSUME Posted(x)'  PROVE Posted(x) \/ x = r
    <2>1. PICK v \in Wallets : \E i \in DOMAIN ledger'[v] : ledger'[v][i].ref = x
      BY <1>2 DEF Posted
    <2>2. CASE v # w
      BY <1>1, <2>1, <2>2 DEF Posted
    <2>3. CASE v = w
      <3>1. PICK i \in 1 .. n + 1 : ledger'[w][i].ref = x
        BY <1>1, <2>1, <2>3
      <3>2. i \in 1 .. n \/ i = n + 1
        BY <1>1
      <3> QED  BY <1>1, <3>1, <3>2 DEF Posted
    <2> QED  BY <2>2, <2>3
  <1>3. ASSUME Posted(x)  PROVE Posted(x)'
    <2>1. PICK v \in Wallets : \E i \in DOMAIN ledger[v] : ledger[v][i].ref = x
      BY <1>3 DEF Posted
    <2>2. CASE v # w
      BY <1>1, <2>1, <2>2 DEF Posted
    <2>3. CASE v = w
      <3>1. PICK i \in 1 .. n : ledger[w][i].ref = x
        BY <1>1, <2>1, <2>3
      <3>2. i \in DOMAIN ledger'[w] /\ ledger'[w][i].ref = x
        BY <1>1, <3>1
      <3> QED  BY <3>2 DEF Posted
    <2> QED  BY <2>2, <2>3
  <1>4. ASSUME x = r  PROVE Posted(x)'
    <2>1. n + 1 \in DOMAIN ledger'[w]
      BY <1>1
    <2> QED  BY <1>1, <1>4, <2>1 DEF Posted
  <1> QED  BY <1>2, <1>3, <1>4

\* Posting a reference id that is not posted keeps reference ids unique.
LEMMA PostOnce ==
    ASSUME LedgerTypeOK, PostedOnce, NEW w \in Wallets, NEW rows,
           SameButStatus(rows, ledger[w]),
           NEW r, NotPosted(r), NEW type, NEW amount, NEW after, NEW status,
           Post(w, rows, r, type, amount, after, status)
    PROVE  PostedOnce'
  <1> DEFINE n == Len(ledger[w])
  <1>1. /\ n \in Nat
        /\ DOMAIN ledger[w] = 1 .. n
        /\ DOMAIN ledger'[w] = 1 .. n + 1
        /\ ledger'[w][n + 1].ref = r
        /\ \A i \in 1 .. n : ledger'[w][i].ref = ledger[w][i].ref
        /\ \A v \in Wallets \ {w} : ledger'[v] = ledger[v]
    BY PostRefs
  <1>2. SUFFICES ASSUME NEW v1 \in Wallets, NEW v2 \in Wallets,
                        NEW i \in DOMAIN ledger'[v1], NEW j \in DOMAIN ledger'[v2],
                        ledger'[v1][i].ref = ledger'[v2][j].ref,
                        ledger'[v1][i].ref # NoRef
                 PROVE  v1 = v2 /\ i = j
    BY DEF PostedOnce
  <1> DEFINE New(v, k) == v = w /\ k = n + 1
  <1>3. \/ New(v1, i)
        \/ ~New(v1, i) /\ i \in DOMAIN ledger[v1] /\ ledger'[v1][i].ref = ledger[v1][i].ref
    BY <1>1
  <1>4. \/ New(v2, j)
        \/ ~New(v2, j) /\ j \in DOMAIN ledger[v2] /\ ledger'[v2][j].ref = ledger[v2][j].ref
    BY <1>1
  <1>5. CASE New(v1, i) /\ New(v2, j)
    BY <1>5
  <1>6. CASE New(v1, i) /\ ~New(v2, j)
    <2>1. ledger[v2][j].ref = r /\ r # NoRef /\ j \in DOMAIN ledger[v2]
      BY <1>1, <1>2, <1>4, <1>6
    <2> QED  BY <2>1 DEF NotPosted, Posted
  <1>7. CASE ~New(v1, i) /\ New(v2, j)
    <2>1. ledger[v1][i].ref = r /\ r # NoRef /\ i \in DOMAIN ledger[v1]
      BY <1>1, <1>2, <1>3, <1>7
    <2> QED  BY <2>1 DEF NotPosted, Posted
  <1>8. CASE ~New(v1, i) /\ ~New(v2, j)
    <2>1. /\ i \in DOMAIN ledger[v1] /\ j \in DOMAIN ledger[v2]
          /\ ledger[v1][i].ref = ledger[v2][j].ref /\ ledger[v1][i].ref # NoRef
      BY <1>2, <1>3, <1>4, <1>8
    <2> QED  BY <2>1 DEF PostedOnce
  <1> QED  BY <1>5, <1>6, <1>7, <1>8

\* A row whose status the operation leaves alone is still there after posting.
LEMMA PostRowWith ==
    ASSUME LedgerTypeOK, NEW w \in Wallets, NEW rows, SameButStatus(rows, ledger[w]),
           NEW r, NEW type, NEW amount, NEW after, NEW status,
           Post(w, rows, r, type, amount, after, status),
           NEW v \in Wallets, NEW x, NEW t, NEW a, NEW s,
           RowWith(v, x, t, a, s),
           \A i \in 1 .. Len(ledger[w]) :
              ledger[w][i].ref = x => rows[i].status = ledger[w][i].status
    PROVE  RowWith(v, x, t, a, s)'
  <1>1. CASE v # w
    BY <1>1, PostRows DEF RowWith
  <1>2. CASE v = w
    <2> DEFINE n == Len(ledger[w])
    <2>1. /\ n \in Nat /\ DOMAIN ledger[w] = 1 .. n /\ DOMAIN ledger'[w] = 1 .. n + 1
          /\ \A i \in 1 .. n : ledger'[w][i] = rows[i]
      BY PostRows
    <2>2. PICK i \in 1 .. n : /\ ledger[w][i].ref = x
                              /\ ledger[w][i].type = t
                              /\ ledger[w][i].amount = a
                              /\ ledger[w][i].status = s
      BY <1>2, <2>1 DEF RowWith
    <2>3. /\ i \in DOMAIN ledger'[w]
          /\ ledger'[w][i].ref = x
          /\ ledger'[w][i].type = t
          /\ ledger'[w][i].amount = a
          /\ ledger'[w][i].status = s
      BY <2>1, <2>2 DEF SameButStatus
    <2> QED  BY <1>2, <2>3 DEF RowWith
  <1> QED  BY <1>1, <1>2

\* The new row is there after posting.
LEMMA PostRowNew ==
    ASSUME LedgerTypeOK, NEW w \in Wallets, NEW rows, SameButStatus(rows, ledger[w]),
           NEW r, NEW type, NEW amount, NEW after, NEW status,
           Post(w, rows, r, type, amount, after, status)
    PROVE  RowWith(w, r, type, amount, status)'
  <1> DEFINE n == Len(ledger[w])
             row == NewRow(r, type, amount, wallets[w].balance, after, status)
  <1>1. n \in Nat /\ DOMAIN ledger'[w] = 1 .. n + 1 /\ ledger'[w][n + 1] = row
    BY PostRows
  <1>2. n + 1 \in DOMAIN ledger'[w]
    BY <1>1
  <1>3. row.ref = r /\ row.type = type /\ row.amount = amount /\ row.status = status
    BY DEF NewRow
  <1> QED  BY <1>1, <1>2, <1>3 DEF RowWith

\* Posting does not disturb a request that the operation is not about.
LEMMA PostKeepsRequest ==
    ASSUME LedgerTypeOK, RequestsPlaced, NEW w \in Wallets, NEW rows,
           SameButStatus(rows, ledger[w]),
           NEW r, NEW type, NEW amount, NEW after, NEW status,
           Post(w, rows, r, type, amount, after, status),
           NEW q \in Requests, RequestBalanced(q), withdrawals'[q] = withdrawals[q],
           r # q, r # Reversal(q),
           \A i \in 1 .. Len(ledger[w]) :
              ledger[w][i].ref \in {q, Reversal(q)} =>
                 rows[i].status = ledger[w][i].status
    PROVE  RequestBalanced(q)'
  <1> DEFINE req == withdrawals[q]
  <1>1. Posted(q)' <=> Posted(q)
    BY PostPosted
  <1>2. Posted(Reversal(q))' <=> Posted(Reversal(q))
    BY PostPosted
  <1>3. ASSUME NEW t, NEW s, req.wallet \in Wallets,
               RowWith(req.wallet, q, t, req.amount, s)
        PROVE  RowWith(req.wallet, q, t, req.amount, s)'
    <2>1. ASSUME NEW v \in Wallets, NEW a, RowWith(v, q, t, a, s)
          PROVE  RowWith(v, q, t, a, s)'
      BY <2>1, PostRowWith
    <2>2. \A v \in Wallets : \A a : RowWith(v, q, t, a, s) => RowWith(v, q, t, a, s)'
      BY <2>1
    <2>3. withdrawals'[q].wallet = req.wallet /\ withdrawals'[q].amount = req.amount
      OBVIOUS
    <2> QED  BY <1>3, <2>2, <2>3 DEF RowWith
  <1>4. ASSUME NEW t, NEW s, req.wallet \in Wallets,
               RowWith(req.wallet, Reversal(q), t, req.amount, s)
        PROVE  RowWith(req.wallet, Reversal(q), t, req.amount, s)'
    <2>1. ASSUME NEW v \in Wallets, NEW a, RowWith(v, Reversal(q), t, a, s)
          PROVE  RowWith(v, Reversal(q), t, a, s)'
      BY <2>1, PostRowWith
    <2>2. \A v \in Wallets : \A a :
             RowWith(v, Reversal(q), t, a, s) => RowWith(v, Reversal(q), t, a, s)'
      BY <2>1
    <2>3. withdrawals'[q].wallet = req.wallet /\ withdrawals'[q].amount = req.amount
      OBVIOUS
    <2> QED  BY <1>4, <2>2, <2>3 DEF RowWith
  <1>5. req.status # "none" => req.wallet \in Wallets
    BY DEF RequestsPlaced
  <1>6. (req.status = "none" => ~Posted(q))'
    BY <1>1 DEF RequestBalanced
  <1>7. (Posted(Reversal(q)) => req.status = "rejected")'
    BY <1>2 DEF RequestBalanced
  <1>8. (req.status = "pending" =>
            RowWith(req.wallet, q, "withdrawal", req.amount, "pending"))'
    BY <1>3, <1>5 DEF RequestBalanced
  <1>9. (req.status = "approved" =>
            RowWith(req.wallet, q, "withdrawal", req.amount, "completed"))'
    BY <1>3, <1>5 DEF RequestBalanced
  <1>10. (req.status = "rejected" =>
            /\ RowWith(req.wallet, q, "withdrawal", req.amount, "reversed")
            /\ RowWith(req.wallet, Reversal(q), "adjustment", req.amount, "completed"))'
    BY <1>3, <1>4, <1>5 DEF RequestBalanced
  <1> QED  BY <1>6, <1>7, <1>8, <1>9, <1>10 DEF RequestBalanced

-----------------------------------------------------------------------------
(* Each operation preserves the invariant. *)

\* A sequence of rows is the same as itself.
LEMMA SameRows ==
    ASSUME LedgerTypeOK, NEW w \in Wallets
    PROVE  SameButStatus(ledger[w], ledger[w])
  BY DEF SameButStatus, LedgerTypeOK

\* Non-negative balances stay so when a non-negative one is posted.
LEMMA PostNoOverdraft ==
    ASSUME LedgerTypeOK, NoOverdraft, NEW w \in Wallets, NEW rows, NEW r, NEW type,
           NEW amount, NEW after \in Nat, NEW status,
           Post(w, rows, r, type, amount, after, status)
    PROVE  NoOverdraft'
  BY DEF NoOverdraft, Post, LedgerTypeOK

\* The balance a debit or a request leaves is not negative, and neither is the
\* one a credit leaves.
LEMMA BalancesAreNat ==
    ASSUME LedgerTypeOK, NoOverdraft, NEW w \in Wallets, NEW a \in Nat
    PROVE  /\ Added(w, a) \in Nat
           /\ Covers(w, a) => Subtracted(w, a) \in Nat
           /\ Stored(a) \in Nat
  <1>1. wallets[w].balance \in Nat /\ Scale \in Nat
    BY ScaleAssumption DEF LedgerTypeOK, WalletRow, NoOverdraft
  <1>2. wallets[w].balance * Scale \in Nat
    BY <1>1
  <1>3. wallets[w].balance * Scale + a \in Nat
    BY <1>2
  <1>4. Covers(w, a) => wallets[w].balance * Scale - a \in Nat
    <2> DEFINE x == wallets[w].balance * Scale
    <2>1. x \in Nat
      BY <1>2
    <2>2. Covers(w, a) => x >= a
      BY DEF Covers
    <2> HIDE DEF x
    <2>3. Covers(w, a) => x - a \in Nat
      BY <2>1, <2>2
    <2> QED  BY <2>3 DEF x
  <1> QED  BY <1>3, <1>4, StoredNat DEF Added, Subtracted

\* Withdrawal ids and "reversal-" ids name neither each other nor caller's
\* references, so the rows of a withdrawal are told apart by their reference id.
LEMMA RefsApart ==
    ASSUME NEW q \in Requests
    PROVE  /\ q \notin RefIds
           /\ Reversal(q) \notin RefIds
           /\ \A p \in Requests : Reversal(q) # p
           /\ \A p \in Requests : p # q => Reversal(p) # Reversal(q)
           /\ q \in RowRefs /\ Reversal(q) \in RowRefs
           /\ q # NoRef /\ Reversal(q) # NoRef
  <1>1. \A p \in Requests : p # q => Reversal(p) # Reversal(q)
    BY DEF Reversal
  <1>2. q \notin RefIds /\ Reversal(q) \notin RefIds \cup Requests
    BY RefAssumption
  <1> QED  BY <1>1, <1>2 DEF RowRefs, RefIds

\* Credits and debits (CreditWallet, DebitWallet) preserve the invariant.
LEMMA MoneyStep ==
    ASSUME LedgerInv, NEW w \in Wallets, NEW a \in Nat, NEW r \in RefIds,
           Credit(w, a, r) \/ Debit(w, a, r)
    PROVE  LedgerInv'
  <1> USE DEF LedgerInv
  <1>1. a \in Nat /\ r \in RowRefs
    BY DEF RowRefs
  <1>2. PICK type \in {"deposit", "withdrawal"}, after \in Nat :
           Post(w, ledger[w], r, type, Stored(a), after, "completed")
    <2>1. CASE Credit(w, a, r)
      BY <1>1, <2>1, BalancesAreNat DEF Credit
    <2>2. CASE Debit(w, a, r)
      BY <1>1, <2>2, BalancesAreNat DEF Debit
    <2> QED  BY <2>1, <2>2
  <1>3. NotPosted(r) /\ withdrawals' = withdrawals
    BY DEF Credit, Debit
  <1>4. Stored(a) \in Nat
    BY <1>1, BalancesAreNat
  <1>5. LedgerTypeOK'
    <2>1. ledger[w] \in Seq(Row) /\ after \in Int
      BY DEF LedgerTypeOK
    <2>2. wallets' \in [Wallets -> WalletRow] /\ ledger' \in [Wallets -> Seq(Row)]
      BY <1>1, <1>2, <1>4, <2>1, PostType
    <2> QED  BY <1>3, <2>2 DEF LedgerTypeOK
  <1>6. RequestsPlaced'
    BY <1>3 DEF RequestsPlaced
  <1>7. NoOverdraft'
    BY <1>2, PostNoOverdraft
  <1>8. ChainedRows'
    BY <1>1, <1>2, <1>4, SameRows, PostChains
  <1>9. PostedOnce'
    BY <1>2, <1>3, SameRows, PostOnce
  <1>10. ASSUME NEW q \in Requests  PROVE RequestBalanced(q)'
    <2>1. r # q /\ r # Reversal(q)
      BY RefsApart
    <2>2. RequestBalanced(q) /\ withdrawals'[q] = withdrawals[q]
      BY <1>3 DEF WithdrawalsBalanced
    <2> QED  BY <1>2, <2>1, <2>2, SameRows, PostKeepsRequest
  <1> QED  BY <1>5, <1>6, <1>7, <1>8, <1>9, <1>10 DEF WithdrawalsBalanced

\* RequestWithdrawal preserves the invariant.
LEMMA RequestStep ==
    ASSUME LedgerInv, NEW w \in Wallets, NEW a \in Amounts, NEW q \in Requests,
           RequestWithdrawal(w, a, q)
    PROVE  LedgerInv'
  <1> USE DEF LedgerInv
  <1> DEFINE amt == Stored(a)
             after == Subtracted(w, a)
  <1>1. a \in Nat /\ q \in RowRefs /\ amt \in Nat /\ after \in Nat
    BY AmountsAssumption, RefsApart, BalancesAreNat DEF RequestWithdrawal
  <1>2. /\ Post(w, ledger[w], q, "withdrawal", amt, after, "pending")
        /\ withdrawals' = [withdrawals EXCEPT ![q] =
                             [wallet |-> w, amount |-> amt, status |-> "pending"]]
        /\ withdrawals[q].status = "none"
    BY DEF RequestWithdrawal
  <1> HIDE DEF amt, after
  <1>3. /\ withdrawals'[q] = [wallet |-> w, amount |-> amt, status |-> "pending"]
        /\ \A p \in Requests \ {q} : withdrawals'[p] = withdrawals[p]
    BY <1>2 DEF LedgerTypeOK
  <1>4. NotPosted(q)
    BY <1>2 DEF WithdrawalsBalanced, RequestBalanced, NotPosted
  <1>5. LedgerTypeOK'
    <2>1. ledger[w] \in Seq(Row) /\ after \in Int
      BY <1>1 DEF LedgerTypeOK
    <2>2. wallets' \in [Wallets -> WalletRow] /\ ledger' \in [Wallets -> Seq(Row)]
      BY <1>1, <1>2, <2>1, PostType
    <2>3. withdrawals' \in [Requests -> Request]
      BY <1>1, <1>2 DEF LedgerTypeOK, Request
    <2> QED  BY <2>2, <2>3 DEF LedgerTypeOK
  <1>6. RequestsPlaced'
    BY <1>3 DEF RequestsPlaced
  <1>7. NoOverdraft'
    BY <1>1, <1>2, PostNoOverdraft
  <1>8. ChainedRows'
    <2>1. after \in Int
      BY <1>1
    <2> QED  BY <1>1, <1>2, <2>1, SameRows, PostChains
  <1>9. PostedOnce'
    BY <1>2, <1>4, SameRows, PostOnce
  <1>10. ASSUME NEW p \in Requests  PROVE RequestBalanced(p)'
    <2>1. CASE p # q
      <3>1. q # p /\ q # Reversal(p)
        BY <2>1, RefsApart
      <3>2. RequestBalanced(p) /\ withdrawals'[p] = withdrawals[p]
        BY <1>3, <2>1 DEF WithdrawalsBalanced
      <3> QED  BY <1>2, <3>1, <3>2, SameRows, PostKeepsRequest
    <2>2. CASE p = q
      <3>1. RowWith(w, q, "withdrawal", amt, "pending")'
        BY <1>2, SameRows, PostRowNew
      <3>2. ~Posted(Reversal(q))'
        <4>1. ~Posted(Reversal(q))
          BY <1>2 DEF WithdrawalsBalanced, RequestBalanced
        <4>2. Reversal(q) # q
          BY RefsApart
        <4> QED  BY <1>2, <4>1, <4>2, SameRows, PostPosted
      <3>3. /\ withdrawals'[q].status = "pending" /\ withdrawals'[q].wallet = w
            /\ withdrawals'[q].amount = amt
        BY <1>3
      <3>4. RowWith(withdrawals[q].wallet, q, "withdrawal", withdrawals[q].amount, "pending")'
        BY <3>1, <3>3 DEF RowWith
      <3> QED  BY <2>2, <3>2, <3>3, <3>4 DEF RequestBalanced
    <2> QED  BY <2>1, <2>2
  <1> QED  BY <1>5, <1>6, <1>7, <1>8, <1>9, <1>10 DEF WithdrawalsBalanced

\* RejectWithdrawal preserves the invariant.
LEMMA RejectStep ==
    ASSUME LedgerInv, NEW q \in Requests, RejectWithdrawal(q)
    PROVE  LedgerInv'
  <1> USE DEF LedgerInv
  <1>a. PICK w : w = withdrawals[q].wallet
    OBVIOUS
  <1>b. PICK amt : amt = withdrawals[q].amount
    OBVIOUS
  <1> DEFINE after == wallets[w].balance + amt
             rows == WithStatus(ledger[w], q, "reversed")
  <1>1. /\ withdrawals[q].status = "pending"
        /\ withdrawals' = [withdrawals EXCEPT ![q].status = "rejected"]
        /\ Post(w, rows, Reversal(q), "adjustment", amt, after, "completed")
    BY <1>a, <1>b DEF RejectWithdrawal
  <1>2. w \in Wallets
    BY <1>1, <1>a DEF RequestsPlaced
  <1>3. amt \in Nat /\ after \in Nat /\ after \in Int
    <2>1. amt \in Nat /\ wallets[w].balance \in Nat
      BY <1>2, <1>b DEF LedgerTypeOK, WalletRow, Request, NoOverdraft
    <2> QED  BY <2>1
  <1>4. ledger[w] \in Seq(Row)
    BY <1>2 DEF LedgerTypeOK
  <1>5. /\ SameButStatus(rows, ledger[w]) /\ rows \in Seq(Row)
        /\ \A i \in 1 .. Len(ledger[w]) :
              rows[i].status = IF ledger[w][i].ref = q THEN "reversed"
                               ELSE ledger[w][i].status
    BY <1>4, WithStatusSame DEF SameButStatus
  <1>6. Reversal(q) \in RowRefs /\ Reversal(q) # q
    BY RefsApart
  <1>7. RowWith(w, q, "withdrawal", amt, "pending") /\ ~Posted(Reversal(q))
    BY <1>1, <1>a, <1>b DEF WithdrawalsBalanced, RequestBalanced
  <1> HIDE DEF after, rows
  <1>8. /\ withdrawals'[q] = [withdrawals[q] EXCEPT !.status = "rejected"]
        /\ \A p \in Requests \ {q} : withdrawals'[p] = withdrawals[p]
    BY <1>1 DEF LedgerTypeOK
  <1>9. /\ withdrawals'[q].status = "rejected" /\ withdrawals'[q].wallet = w
        /\ withdrawals'[q].amount = amt
    BY <1>8, <1>a, <1>b DEF LedgerTypeOK, Request
  <1>10. LedgerTypeOK'
    <2>1. wallets' \in [Wallets -> WalletRow] /\ ledger' \in [Wallets -> Seq(Row)]
      BY <1>1, <1>2, <1>3, <1>5, <1>6, PostType
    <2>2. [withdrawals[q] EXCEPT !.status = "rejected"] \in Request
      BY DEF LedgerTypeOK, Request
    <2>3. withdrawals' \in [Requests -> Request]
      BY <1>1, <2>2 DEF LedgerTypeOK
    <2> QED  BY <2>1, <2>3 DEF LedgerTypeOK
  <1>11. RequestsPlaced'
    BY <1>2, <1>8, <1>9 DEF RequestsPlaced
  <1>12. NoOverdraft'
    BY <1>1, <1>2, <1>3, PostNoOverdraft
  <1>13. ChainedRows'
    BY <1>1, <1>2, <1>3, <1>5, <1>6, PostChains
  <1>14. PostedOnce'
    <2>1. NotPosted(Reversal(q))
      BY <1>7 DEF NotPosted
    <2> QED  BY <1>1, <1>2, <1>5, <2>1, PostOnce
  <1>15. ASSUME NEW p \in Requests  PROVE RequestBalanced(p)'
    <2>1. CASE p # q
      <3>1. Reversal(q) # p /\ Reversal(q) # Reversal(p) /\ Reversal(p) # q
        BY <2>1, RefsApart
      <3>2. RequestBalanced(p) /\ withdrawals'[p] = withdrawals[p]
        BY <1>8, <2>1 DEF WithdrawalsBalanced
      <3>3. \A i \in 1 .. Len(ledger[w]) :
               ledger[w][i].ref \in {p, Reversal(p)} =>
                  rows[i].status = ledger[w][i].status
        BY <1>5, <2>1, <3>1
      <3> QED  BY <1>1, <1>2, <1>5, <3>1, <3>2, <3>3, PostKeepsRequest
    <2>2. CASE p = q
      <3>1. RowWith(w, Reversal(q), "adjustment", amt, "completed")'
        BY <1>1, <1>2, <1>5, PostRowNew
      <3>2. RowWith(w, q, "withdrawal", amt, "reversed")'
        <4> DEFINE n == Len(ledger[w])
        <4>1. /\ n \in Nat /\ DOMAIN ledger[w] = 1 .. n /\ DOMAIN ledger'[w] = 1 .. n + 1
              /\ \A i \in 1 .. n : ledger'[w][i] = rows[i]
          BY <1>1, <1>2, <1>5, PostRows
        <4>2. PICK i \in 1 .. n : /\ ledger[w][i].ref = q
                                  /\ ledger[w][i].type = "withdrawal"
                                  /\ ledger[w][i].amount = amt
          BY <1>7, <4>1 DEF RowWith
        <4>3. /\ i \in DOMAIN ledger'[w]
              /\ ledger'[w][i].ref = q
              /\ ledger'[w][i].type = "withdrawal"
              /\ ledger'[w][i].amount = amt
              /\ ledger'[w][i].status = "reversed"
          BY <1>5, <4>1, <4>2 DEF SameButStatus
        <4> QED  BY <4>3 DEF RowWith
      <3>3. /\ RowWith(withdrawals[q].wallet, q, "withdrawal", withdrawals[q].amount, "reversed")'
            /\ RowWith(withdrawals[q].wallet, Reversal(q), "adjustment",
                       withdrawals[q].amount, "completed")'
        BY <1>9, <3>1, <3>2 DEF RowWith
      <3> QED  BY <1>9, <2>2, <3>3 DEF RequestBalanced
    <2> QED  BY <2>1, <2>2
  <1> QED  BY <1>10, <1>11, <1>12, <1>13, <1>14, <1>15 DEF WithdrawalsBalanced

\* ApproveWithdrawal preserves the invariant.
LEMMA ApproveStep ==
    ASSUME LedgerInv, NEW q \in Requests, ApproveWithdrawal(q)
    PROVE  LedgerInv'
  <1> USE DEF LedgerInv
  <1>a. PICK w : w = withdrawals[q].wallet
    OBVIOUS
  <1>b. PICK amt : amt = withdrawals[q].amount
    OBVIOUS
  <1> DEFINE rows == WithStatus(ledger[w], q, "completed")
             n == Len(ledger[w])
  <1>1. /\ withdrawals[q].status = "pending"
        /\ withdrawals' = [withdrawals EXCEPT ![q].status = "approved"]
        /\ ledger' = [ledger EXCEPT ![w] = rows]
        /\ wallets' = wallets
    BY <1>a DEF ApproveWithdrawal
  <1>2. w \in Wallets
    BY <1>1, <1>a DEF RequestsPlaced
  <1>3. ledger[w] \in Seq(Row) /\ n \in Nat /\ DOMAIN ledger[w] = 1 .. n
    BY <1>2 DEF LedgerTypeOK
  <1>4. /\ SameButStatus(rows, ledger[w]) /\ rows \in Seq(Row)
        /\ \A i \in 1 .. n :
              rows[i].status = IF ledger[w][i].ref = q THEN "completed"
                               ELSE ledger[w][i].status
    <2>1. /\ SameButStatus(rows, ledger[w])
          /\ \A i \in 1 .. Len(ledger[w]) :
                rows[i].status = IF ledger[w][i].ref = q THEN "completed"
                                 ELSE ledger[w][i].status
      BY <1>3, WithStatusSame
    <2> QED  BY <2>1 DEF SameButStatus
  <1>5. /\ ledger'[w] = rows
        /\ \A v \in Wallets \ {w} : ledger'[v] = ledger[v]
    BY <1>1, <1>2 DEF LedgerTypeOK
  <1>6. /\ RowWith(w, q, "withdrawal", amt, "pending")
        /\ ~Posted(Reversal(q))
    BY <1>1, <1>a, <1>b DEF WithdrawalsBalanced, RequestBalanced
  <1> HIDE DEF rows
  <1>7. /\ withdrawals'[q].status = "approved" /\ withdrawals'[q].wallet = w
        /\ withdrawals'[q].amount = amt
        /\ \A p \in Requests \ {q} : withdrawals'[p] = withdrawals[p]
    BY <1>1, <1>a, <1>b DEF LedgerTypeOK, Request
  <1>8. \A v \in Wallets : SameButStatus(ledger'[v], ledger[v])
    BY <1>4, <1>5 DEF SameButStatus, LedgerTypeOK
  <1>9. \A v \in Wallets :
           /\ Len(ledger[v]) \in Nat /\ Len(ledger'[v]) = Len(ledger[v])
           /\ DOMAIN ledger[v] = 1 .. Len(ledger[v])
           /\ DOMAIN ledger'[v] = 1 .. Len(ledger[v])
    BY <1>8 DEF SameButStatus, LedgerTypeOK
  <1>10. LedgerTypeOK'
    <2>1. ledger' \in [Wallets -> Seq(Row)]
      BY <1>1, <1>4 DEF LedgerTypeOK
    <2>2. [withdrawals[q] EXCEPT !.status = "approved"] \in Request
      BY DEF LedgerTypeOK, Request
    <2>3. withdrawals' \in [Requests -> Request]
      BY <1>1, <2>2 DEF LedgerTypeOK
    <2> QED  BY <1>1, <2>1, <2>3 DEF LedgerTypeOK
  <1>11. RequestsPlaced'
    BY <1>2, <1>7 DEF RequestsPlaced
  <1>12. NoOverdraft'
    BY <1>1 DEF NoOverdraft
  <1>13. ChainedRows'
    <2>1. ASSUME NEW v \in Wallets
          PROVE  /\ Len(ledger'[v]) = wallets'[v].version
                 /\ \A i \in 1 .. Len(ledger'[v]) :
                       ledger'[v][i].before = IF i = 1 THEN 0 ELSE ledger'[v][i - 1].after
                 /\ wallets'[v].balance =
                       IF ledger'[v] = <<>> THEN 0 ELSE ledger'[v][Len(ledger'[v])].after
      <3> DEFINE m == Len(ledger[v])
      <3>1. m \in Nat /\ Len(ledger'[v]) = m /\ ledger[v] \in Seq(Row) /\ ledger'[v] \in Seq(Row)
        BY <1>8, <1>9 DEF LedgerTypeOK, SameButStatus
      <3>2. \A i \in 1 .. m : /\ ledger'[v][i].before = ledger[v][i].before
                              /\ ledger'[v][i].after = ledger[v][i].after
        BY <1>8 DEF SameButStatus
      <3>3. /\ m = wallets[v].version
            /\ \A i \in 1 .. m : ledger[v][i].before = IF i = 1 THEN 0 ELSE ledger[v][i - 1].after
            /\ wallets[v].balance = IF ledger[v] = <<>> THEN 0 ELSE ledger[v][m].after
        BY DEF ChainedRows
      <3>4. (ledger'[v] = <<>> <=> m = 0) /\ (ledger[v] = <<>> <=> m = 0)
        BY <3>1
      <3> HIDE DEF m
      <3>5. ASSUME NEW i \in 1 .. m
            PROVE  ledger'[v][i].before = IF i = 1 THEN 0 ELSE ledger'[v][i - 1].after
        <4>1. i # 1 => i - 1 \in 1 .. m
          BY <3>1
        <4> QED  BY <3>2, <3>3, <4>1
      <3>6. wallets'[v].balance = IF ledger'[v] = <<>> THEN 0 ELSE ledger'[v][m].after
        <4>1. CASE m = 0
          BY <1>1, <3>3, <3>4, <4>1
        <4>2. CASE m # 0
          <5>1. m \in 1 .. m
            BY <3>1, <4>2
          <5> QED  BY <1>1, <3>2, <3>3, <3>4, <4>2, <5>1
        <4> QED  BY <4>1, <4>2
      <3> QED  BY <1>1, <3>1, <3>3, <3>5, <3>6
    <2> QED  BY <2>1 DEF ChainedRows
  <1>14. \A v \in Wallets : \A i \in DOMAIN ledger[v] : ledger'[v][i].ref = ledger[v][i].ref
    BY <1>8, <1>9 DEF SameButStatus
  <1>15. PostedOnce'
    BY <1>9, <1>14 DEF PostedOnce
  <1>16. \A x : Posted(x)' <=> Posted(x)
    BY <1>9, <1>14 DEF Posted
  <1>17. ASSUME NEW v \in Wallets, NEW x, x # q, NEW t, NEW a, NEW s, RowWith(v, x, t, a, s)
         PROVE  RowWith(v, x, t, a, s)'
    <2>1. PICK i \in DOMAIN ledger[v] : /\ ledger[v][i].ref = x
                                        /\ ledger[v][i].type = t
                                        /\ ledger[v][i].amount = a
                                        /\ ledger[v][i].status = s
      BY <1>17 DEF RowWith
    <2>2. /\ i \in DOMAIN ledger'[v]
          /\ ledger'[v][i].ref = x
          /\ ledger'[v][i].type = t
          /\ ledger'[v][i].amount = a
      BY <1>8, <1>9, <2>1 DEF SameButStatus
    <2>3. ledger'[v][i].status = s
      BY <1>3, <1>4, <1>5, <1>17, <2>1
    <2> QED  BY <2>2, <2>3 DEF RowWith
  <1>18. RowWith(w, q, "withdrawal", amt, "completed")'
    <2>1. PICK i \in 1 .. n : /\ ledger[w][i].ref = q
                              /\ ledger[w][i].type = "withdrawal"
                              /\ ledger[w][i].amount = amt
      BY <1>3, <1>6 DEF RowWith
    <2>2. /\ i \in DOMAIN ledger'[w]
          /\ ledger'[w][i].ref = q
          /\ ledger'[w][i].type = "withdrawal"
          /\ ledger'[w][i].amount = amt
          /\ ledger'[w][i].status = "completed"
      BY <1>2, <1>4, <1>5, <1>9, <2>1 DEF SameButStatus
    <2> QED  BY <2>2 DEF RowWith
  <1>19. ASSUME NEW p \in Requests  PROVE RequestBalanced(p)'
    <2>1. CASE p # q
      <3>1. Reversal(p) # q /\ withdrawals'[p] = withdrawals[p] /\ RequestBalanced(p)
        BY <1>7, <2>1, RefsApart DEF WithdrawalsBalanced
      <3>2. withdrawals[p].status # "none" => withdrawals[p].wallet \in Wallets
        BY DEF RequestsPlaced
      <3>3. \A t, a, s : \A v \in Wallets :
               /\ RowWith(v, p, t, a, s) => RowWith(v, p, t, a, s)'
               /\ RowWith(v, Reversal(p), t, a, s) => RowWith(v, Reversal(p), t, a, s)'
        BY <1>17, <2>1, <3>1
      <3>4. ASSUME NEW t, NEW s, withdrawals[p].status # "none"
            PROVE  /\ RowWith(withdrawals[p].wallet, p, t, withdrawals[p].amount, s) =>
                         RowWith(withdrawals[p].wallet, p, t, withdrawals[p].amount, s)'
                   /\ RowWith(withdrawals[p].wallet, Reversal(p), t, withdrawals[p].amount, s) =>
                         RowWith(withdrawals[p].wallet, Reversal(p), t, withdrawals[p].amount, s)'
        BY <3>1, <3>2, <3>3, <3>4 DEF RowWith
      <3> QED  BY <1>16, <3>1, <3>4 DEF RequestBalanced
    <2>2. CASE p = q
      <3>1. RowWith(withdrawals[q].wallet, q, "withdrawal", withdrawals[q].amount, "completed")'
        BY <1>7, <1>18 DEF RowWith
      <3> QED  BY <1>6, <1>7, <1>16, <2>2, <3>1 DEF RequestBalanced
    <2> QED  BY <2>1, <2>2
  <1> QED  BY <1>10, <1>11, <1>12, <1>13, <1>15, <1>19 DEF WithdrawalsBalanced

\* The first call for a (user, currency) pair (EnsureWallet, findOrCreateWallet)
\* preserves the invariant.
LEMMA CreateStep ==
    ASSUME LedgerInv, NEW w \in Wallets, CreateWallet(w)
    PROVE  LedgerInv'
  <1> USE DEF LedgerInv
  <1>1. /\ wallets' = [wallets EXCEPT ![w].exists = TRUE]
        /\ ledger' = ledger /\ withdrawals' = withdrawals
    BY DEF CreateWallet
  <1>2. \A v \in Wallets : /\ wallets'[v].balance = wallets[v].balance
                           /\ wallets'[v].version = wallets[v].version
    BY <1>1 DEF LedgerTypeOK, WalletRow
  <1>3. LedgerTypeOK'
    <2>1. [wallets[w] EXCEPT !.exists = TRUE] \in WalletRow
      BY DEF LedgerTypeOK, WalletRow
    <2> QED  BY <1>1, <2>1 DEF LedgerTypeOK
  <1>4. RequestsPlaced' /\ PostedOnce' /\ WithdrawalsBalanced'
    BY <1>1 DEF RequestsPlaced, PostedOnce, WithdrawalsBalanced, RequestBalanced,
                Posted, RowWith
  <1>5. NoOverdraft'
    BY <1>2 DEF NoOverdraft
  <1>6. ChainedRows'
    BY <1>1, <1>2 DEF ChainedRows
  <1> QED  BY <1>3, <1>4, <1>5, <1>6

\* The empty tables satisfy the invariant.
LEMMA LedgerInitInv ==
    LedgerInit => LedgerInv
  <1> SUFFICES ASSUME LedgerInit PROVE LedgerInv
    OBVIOUS
  <1>1. /\ wallets = [w \in Wallets |-> AbsentWallet]
        /\ ledger = [w \in Wallets |-> <<>>]
        /\ withdrawals = [q \in Requests |-> UnusedRequest]
    BY DEF LedgerInit
  <1>2. \A w \in Wallets : /\ wallets[w].balance = 0 /\ wallets[w].version = 0
                           /\ ledger[w] = <<>> /\ Len(ledger[w]) = 0
                           /\ DOMAIN ledger[w] = {} /\ 1 .. Len(ledger[w]) = {}
    <2>1. Len(<<>>) = 0 /\ DOMAIN <<>> = {} /\ 1 .. 0 = {}
      OBVIOUS
    <2> QED  BY <1>1, <2>1 DEF AbsentWallet
  <1>3. \A q \in Requests : withdrawals[q].status = "none"
    BY <1>1 DEF UnusedRequest
  <1>4. LedgerTypeOK
    <2>1. AbsentWallet \in WalletRow /\ UnusedRequest \in Request /\ <<>> \in Seq(Row)
      BY DEF AbsentWallet, WalletRow, UnusedRequest, Request
    <2> QED  BY <1>1, <2>1 DEF LedgerTypeOK
  <1>5. RequestsPlaced /\ NoOverdraft /\ PostedOnce
    BY <1>2, <1>3 DEF RequestsPlaced, NoOverdraft, PostedOnce
  <1>6. ChainedRows
    BY <1>2 DEF ChainedRows
  <1>7. WithdrawalsBalanced
    BY <1>2, <1>3 DEF WithdrawalsBalanced, RequestBalanced, Posted
  <1> QED  BY <1>4, <1>5, <1>6, <1>7 DEF LedgerInv

\* Every step of the ledger preserves the invariant.
LEMMA LedgerStepInv ==
    LedgerInv /\ [LedgerNext]_ledgerVars => LedgerInv'
  <1> SUFFICES ASSUME LedgerInv, [LedgerNext]_ledgerVars PROVE LedgerInv'
    OBVIOUS
  <1>1. CASE UNCHANGED ledgerVars
    BY <1>1 DEF ledgerVars, LedgerInv, LedgerTypeOK, RequestsPlaced, NoOverdraft,
                ChainedRows, PostedOnce, WithdrawalsBalanced, RequestBalanced,
                Posted, RowWith
  <1>2. CASE \E w \in Wallets : CreateWallet(w)
    BY <1>2, CreateStep
  <1>3. CASE \E w \in Wallets, a \in Amounts, r \in RefIds :
                Credit(w, a, r) \/ Debit(w, a, r)
    BY <1>3, MoneyStep, AmountsAssumption
  <1>4. CASE \E w \in Wallets, a \in Amounts, q \in Requests : RequestWithdrawal(w, a, q)
    BY <1>4, RequestStep
  <1>5. CASE \E q \in Requests : ApproveWithdrawal(q) \/ RejectWithdrawal(q)
    BY <1>5, ApproveStep, RejectStep
  <1> QED  BY <1>1, <1>2, <1>3, <1>4, <1>5 DEF LedgerNext

\* The operations of the in-memory store keep the ledger sound: no wallet is
\* overdrawn, its rows form one chain ending in its balance, a reference id moves
\* money once, and requests and rows agree.
THEOREM LedgerInvariant ==
    LedgerSpec => []LedgerInv
  BY LedgerInitInv, LedgerStepInv, PTL DEF LedgerSpec

-----------------------------------------------------------------------------
(* Rounding, and what it leaves between a row and its change of balance. *)

\* Rounding is the division it is written as: Stored(x) units are the nearest to x.
LEMMA StoredBounds ==
    ASSUME NEW x \in Int
    PROVE  /\ Stored(x) \in Int
           /\ (2 * Scale) * Stored(x) <= 2 * x + Scale
           /\ 2 * x + Scale < (2 * Scale) * Stored(x) + 2 * Scale
  <1>1. Scale \in Nat /\ Scale > 0
    BY ScaleAssumption
  <1>2. \A a, d \in Int : d > 0 => a \div d \in Int /\ d * (a \div d) <= a /\ a < d * (a \div d) + d
    OBVIOUS
  <1>3. 2 * x + Scale \in Int /\ 2 * Scale \in Int /\ 2 * Scale > 0
    BY <1>1
  <1> QED  BY <1>2, <1>3 DEF Stored

\* A number of units that is nearest to x is the rounded one.
LEMMA StoredUnique ==
    ASSUME NEW x \in Int, NEW n \in Int,
           (2 * Scale) * n <= 2 * x + Scale,
           2 * x + Scale < (2 * Scale) * n + 2 * Scale
    PROVE  Stored(x) = n
  <1>1. Scale \in Nat /\ Scale > 0
    BY ScaleAssumption
  <1>2. \A a, d, y, r \in Int : (d > 0 /\ 0 <= r /\ r < d /\ a = d * y + r) => a \div d = y
    OBVIOUS
  <1> DEFINE d == 2 * Scale
             a == 2 * x + Scale
             r == a - d * n
  <1>3. d \in Int /\ d > 0 /\ a \in Int /\ d * n \in Int
    BY <1>1
  <1>4. d * n <= a /\ a < d * n + d
    OBVIOUS
  <1> HIDE DEF d, a
  <1>5. r \in Int /\ 0 <= r /\ r < d /\ a = d * n + r
    <2> DEFINE e == d * n
    <2>1. e \in Int /\ e <= a /\ a < e + d
      BY <1>3, <1>4
    <2> HIDE DEF e
    <2>2. a - e \in Int /\ 0 <= a - e /\ a - e < d /\ a = e + (a - e)
      BY <1>3, <2>1
    <2> QED  BY <2>2 DEF e
  <1> HIDE DEF r
  <1>6. a \div d = n
    BY <1>2, <1>3, <1>5
  <1> QED  BY <1>6 DEF Stored, a, d

\* A multiplication is monotonic, also backwards.
LEMMA Cancel ==
    ASSUME NEW d \in Int, d > 0, NEW x \in Int, NEW y \in Int
    PROVE  d * x <= d * y => x <= y
  OBVIOUS

\* Adding a whole number of stored units does not change how the rest is rounded
\* (CreditWallet adds the exact amount to the stored balance).
LEMMA StoredPlus ==
    ASSUME NEW b \in Int, NEW a \in Int
    PROVE  Stored(b * Scale + a) = b + Stored(a)
  <1>1. Scale \in Int /\ b * Scale \in Int
    BY ScaleAssumption
  <1> DEFINE n == Stored(a)
  <1>2. /\ n \in Int
        /\ (2 * Scale) * n <= 2 * a + Scale
        /\ 2 * a + Scale < (2 * Scale) * n + 2 * Scale
    BY StoredBounds
  <1> HIDE DEF n
  <1>3. (2 * Scale) * (b + n) = 2 * (b * Scale) + (2 * Scale) * n
    BY <1>1, <1>2
  <1> DEFINE e == (2 * Scale) * n
             f == b * Scale
  <1>4. e \in Int /\ f \in Int
    BY <1>1, <1>2
  <1> HIDE DEF e, f
  <1>5. 2 * f + e <= 2 * (f + a) + Scale /\ 2 * (f + a) + Scale < 2 * f + e + 2 * Scale
    BY <1>1, <1>2, <1>4 DEF e
  <1>6. Stored(f + a) = b + n
    <2>1. b + n \in Int /\ f + a \in Int
      BY <1>2, <1>4
    <2>2. (2 * Scale) * (b + n) = 2 * f + e
      BY <1>3 DEF e, f
    <2> QED  BY <1>5, <2>1, <2>2, StoredUnique
  <1> QED  BY <1>6 DEF f, n

\* Subtracting may round both the amount and the balance up: together they lose
\* at most one stored unit, and never gain one (DebitWallet, RequestWithdrawal).
LEMMA StoredMinus ==
    ASSUME NEW b \in Int, NEW a \in Int
    PROVE  b - Stored(b * Scale - a) - Stored(a) \in {-1, 0}
  <1>1. Scale \in Int /\ Scale > 0 /\ b * Scale \in Int /\ b * Scale - a \in Int
    BY ScaleAssumption
  <1>a. PICK m : m = Stored(a)
    OBVIOUS
  <1>b. PICK z : z = Stored(b * Scale - a)
    OBVIOUS
  <1>2. /\ m \in Int
        /\ (2 * Scale) * m <= 2 * a + Scale
        /\ 2 * a + Scale < (2 * Scale) * m + 2 * Scale
    BY StoredBounds, <1>a
  <1>3. /\ z \in Int
        /\ (2 * Scale) * z <= 2 * (b * Scale - a) + Scale
        /\ 2 * (b * Scale - a) + Scale < (2 * Scale) * z + 2 * Scale
    BY <1>1, StoredBounds, <1>b
  <1> DEFINE dm == (2 * Scale) * m
             dz == (2 * Scale) * z
             f == b * Scale
  <1>4. dm \in Int /\ dz \in Int /\ f \in Int
    BY <1>1, <1>2, <1>3
  <1>5. /\ (2 * Scale) * (m + z) = dm + dz
        /\ (2 * Scale) * (m + z + 1) = dm + dz + 2 * Scale
        /\ (2 * Scale) * (b + 1) = 2 * f + 2 * Scale
        /\ (2 * Scale) * b = 2 * f
    BY <1>1, <1>2, <1>3
  <1>6. /\ dm <= 2 * a + Scale /\ 2 * a + Scale < dm + 2 * Scale
        /\ dz <= 2 * (f - a) + Scale /\ 2 * (f - a) + Scale < dz + 2 * Scale
    BY <1>2, <1>3
  <1> HIDE DEF dm, dz, f
  <1>7. dm + dz <= 2 * f + 2 * Scale /\ 2 * f <= dm + dz + 2 * Scale
    BY <1>1, <1>4, <1>6
  <1>8. 2 * f < dm + dz + 2 * Scale
    BY <1>1, <1>4, <1>6
  <1>9. m + z <= b + 1
    <2>1. 2 * Scale \in Int /\ 2 * Scale > 0 /\ m + z \in Int /\ b + 1 \in Int
      BY <1>1, <1>2, <1>3
    <2> QED  BY <1>5, <1>7, <2>1, Cancel
  <1>10. b < m + z + 1
    <2>1. 2 * Scale \in Int /\ 2 * Scale > 0 /\ m + z + 1 \in Int
      BY <1>1, <1>2, <1>3
    <2>2. ~((2 * Scale) * (m + z + 1) <= (2 * Scale) * b)
      BY <1>1, <1>4, <1>5, <1>8
    <2>3. m + z + 1 <= b => (2 * Scale) * (m + z + 1) <= (2 * Scale) * b
      BY <2>1
    <2> QED  BY <2>1, <2>2, <2>3
  <1>11. b - z - m \in {-1, 0}
    BY <1>2, <1>3, <1>9, <1>10
  <1> QED  BY <1>11, <1>a, <1>b

\* Rounding a whole number of stored units changes nothing.
LEMMA StoredExact ==
    ASSUME NEW n \in Int
    PROVE  Stored(n * Scale) = n
  <1>1. Scale \in Nat /\ Scale > 0
    BY ScaleAssumption
  <1>2. \A a, d, x, r \in Int : (d > 0 /\ 0 <= r /\ r < d /\ a = d * x + r) => a \div d = x
    OBVIOUS
  <1>3. 2 * (n * Scale) + Scale = (2 * Scale) * n + Scale
    BY <1>1
  <1>4. n * Scale \in Int /\ 2 * (n * Scale) + Scale \in Int
    BY <1>1
  <1> QED  BY <1>1, <1>2, <1>3, <1>4 DEF Stored

-----------------------------------------------------------------------------
(* Rows and changes of balance. *)

\* What a row's amount leaves unexplained of its change of balance.
Drift(row) ==
    IF row.type = "withdrawal" THEN row.before - row.after - row.amount
    ELSE row.after - row.before - row.amount

DriftsIn(D) == \A w \in Wallets : \A i \in DOMAIN ledger[w] : Drift(ledger[w][i]) \in D

\* What a debit or a request of "a" adds to the drifts.
DebitDrift(w, a) == wallets[w].balance - Subtracted(w, a) - Stored(a)

\* Every amount is a whole number of stored units: callers use at most eight decimals.
ExactAmounts == \A a \in Amounts : Stored(a) * Scale = a

\* Changes of status do not touch what a row says about the balance.
LEMMA SameDrift ==
    ASSUME NEW old \in Seq(Row), NEW rows, SameButStatus(rows, old), NEW i \in 1 .. Len(old)
    PROVE  Drift(rows[i]) = Drift(old[i])
  BY DEF SameButStatus, Drift

\* Posting adds one row, whose drift is that of the new balance.
LEMMA PostDrifts ==
    ASSUME LedgerTypeOK, NEW D, DriftsIn(D), NEW w \in Wallets, NEW rows,
           SameButStatus(rows, ledger[w]),
           NEW r, NEW type, NEW amount, NEW after, NEW status,
           Post(w, rows, r, type, amount, after, status),
           (IF type = "withdrawal" THEN wallets[w].balance - after - amount
            ELSE after - wallets[w].balance - amount) \in D
    PROVE  DriftsIn(D)'
  <1> DEFINE n == Len(ledger[w])
             row == NewRow(r, type, amount, wallets[w].balance, after, status)
  <1>1. /\ n \in Nat
        /\ DOMAIN ledger[w] = 1 .. n
        /\ DOMAIN ledger'[w] = 1 .. n + 1
        /\ ledger'[w][n + 1] = row
        /\ \A i \in 1 .. n : ledger'[w][i] = rows[i]
        /\ \A v \in Wallets \ {w} : ledger'[v] = ledger[v]
    BY PostRows
  <1>2. Drift(row) \in D
    BY DEF Drift, NewRow
  <1> HIDE DEF row
  <1>3. ASSUME NEW i \in 1 .. n  PROVE Drift(rows[i]) \in D
    <2>1. ledger[w] \in Seq(Row)
      BY DEF LedgerTypeOK
    <2>2. Drift(rows[i]) = Drift(ledger[w][i])
      BY <2>1, SameDrift
    <2> QED  BY <1>1, <2>2 DEF DriftsIn
  <1>4. ASSUME NEW v \in Wallets, NEW i \in DOMAIN ledger'[v]  PROVE Drift(ledger'[v][i]) \in D
    <2>1. CASE v # w
      BY <1>1, <2>1 DEF DriftsIn
    <2>2. CASE v = w /\ i \in 1 .. n
      BY <1>1, <1>3, <2>2
    <2>3. CASE v = w /\ i = n + 1
      BY <1>1, <1>2, <2>3
    <2> QED  BY <1>1, <2>1, <2>2, <2>3
  <1> QED  BY <1>4 DEF DriftsIn

\* Credits and rejections leave no drift, debits and requests that of rounding.
LEMMA DriftsStep ==
    ASSUME LedgerInv, NEW D, 0 \in D, DriftsIn(D), [LedgerNext]_ledgerVars,
           \A w \in Wallets, a \in Amounts : DebitDrift(w, a) \in D
    PROVE  DriftsIn(D)'
  <1> USE DEF LedgerInv
  <1>a. \A w \in Wallets : wallets[w].balance \in Int /\ ledger[w] \in Seq(Row)
    BY DEF LedgerTypeOK, WalletRow
  <1>b. \A a \in Amounts : a \in Nat /\ Stored(a) \in Int
    BY AmountsAssumption, StoredInt
  <1>1. CASE UNCHANGED ledgerVars
    BY <1>1 DEF ledgerVars, DriftsIn
  <1>2. ASSUME NEW w \in Wallets, CreateWallet(w)  PROVE DriftsIn(D)'
    BY <1>2 DEF CreateWallet, DriftsIn
  <1>3. ASSUME NEW w \in Wallets, NEW a \in Amounts, NEW r \in RefIds, Credit(w, a, r)
        PROVE  DriftsIn(D)'
    <2>1. Added(w, a) - wallets[w].balance - Stored(a) = 0
      <3>1. Added(w, a) = wallets[w].balance + Stored(a)
        BY <1>a, <1>b, StoredPlus DEF Added
      <3> QED  BY <1>a, <1>b, <3>1
    <2>2. Post(w, ledger[w], r, "deposit", Stored(a), Added(w, a), "completed")
      BY <1>3 DEF Credit
    <2> QED  BY <2>1, <2>2, SameRows, PostDrifts
  <1>4. ASSUME NEW w \in Wallets, NEW a \in Amounts, NEW r, NEW s,
               Post(w, ledger[w], r, "withdrawal", Stored(a), Subtracted(w, a), s)
        PROVE  DriftsIn(D)'
    <2>1. wallets[w].balance - Subtracted(w, a) - Stored(a) \in D
      BY DEF DebitDrift
    <2> QED  BY <1>4, <2>1, SameRows, PostDrifts
  <1>5. ASSUME NEW q \in Requests, ApproveWithdrawal(q)  PROVE DriftsIn(D)'
    <2>a. PICK w : w = withdrawals[q].wallet
      OBVIOUS
    <2>1. w \in Wallets /\ ledger' = [ledger EXCEPT ![w] = WithStatus(ledger[w], q, "completed")]
      BY <1>5, <2>a DEF ApproveWithdrawal, RequestsPlaced
    <2> DEFINE rows == WithStatus(ledger[w], q, "completed")
    <2>2. SameButStatus(rows, ledger[w])
      BY <1>a, <2>1, WithStatusSame
    <2>3. /\ ledger'[w] = rows
          /\ \A v \in Wallets \ {w} : ledger'[v] = ledger[v]
      BY <2>1 DEF LedgerTypeOK
    <2> HIDE DEF rows
    <2>4. DOMAIN rows = DOMAIN ledger[w] /\ DOMAIN ledger[w] = 1 .. Len(ledger[w])
      BY <1>a, <2>1, <2>2 DEF SameButStatus
    <2>5. \A i \in DOMAIN rows : Drift(rows[i]) = Drift(ledger[w][i])
      BY <1>a, <2>1, <2>2, <2>4, SameDrift
    <2>6. ASSUME NEW v \in Wallets, NEW i \in DOMAIN ledger'[v]
          PROVE  Drift(ledger'[v][i]) \in D
      <3>1. CASE v # w
        BY <2>3, <3>1 DEF DriftsIn
      <3>2. CASE v = w
        BY <2>1, <2>3, <2>4, <2>5, <3>2 DEF DriftsIn
      <3> QED  BY <3>1, <3>2
    <2> QED  BY <2>6 DEF DriftsIn
  <1>6. ASSUME NEW q \in Requests, RejectWithdrawal(q)  PROVE DriftsIn(D)'
    <2>a. PICK w : w = withdrawals[q].wallet
      OBVIOUS
    <2>b. PICK amt : amt = withdrawals[q].amount
      OBVIOUS
    <2>1. /\ w \in Wallets /\ amt \in Nat
          /\ Post(w, WithStatus(ledger[w], q, "reversed"), Reversal(q), "adjustment", amt,
                  wallets[w].balance + amt, "completed")
      BY <1>6, <2>a, <2>b DEF RejectWithdrawal, RequestsPlaced, LedgerTypeOK, Request
    <2>2. SameButStatus(WithStatus(ledger[w], q, "reversed"), ledger[w])
      BY <1>a, <2>1, WithStatusSame
    <2>3. (wallets[w].balance + amt) - wallets[w].balance - amt = 0
      BY <1>a, <2>1
    <2> QED  BY <2>1, <2>2, <2>3, PostDrifts
  <1>7. ASSUME NEW w \in Wallets, NEW a \in Amounts, NEW r \in RefIds, Debit(w, a, r)
        PROVE  DriftsIn(D)'
    BY <1>4, <1>7 DEF Debit
  <1>8. ASSUME NEW w \in Wallets, NEW a \in Amounts, NEW q \in Requests,
               RequestWithdrawal(w, a, q)
        PROVE  DriftsIn(D)'
    BY <1>4, <1>8 DEF RequestWithdrawal
  <1> QED  BY <1>1, <1>2, <1>3, <1>5, <1>6, <1>7, <1>8 DEF LedgerNext

\* Rounding loses at most one stored unit, and none when amounts are whole units.
LEMMA DebitDrifts ==
    ASSUME LedgerTypeOK, NEW w \in Wallets, NEW a \in Amounts
    PROVE  /\ DebitDrift(w, a) \in {-1, 0}
           /\ Stored(a) * Scale = a => DebitDrift(w, a) = 0
  <1>1. wallets[w].balance \in Int /\ a \in Int /\ Scale \in Int /\ Stored(a) \in Int
    BY AmountsAssumption, ScaleAssumption, StoredInt DEF LedgerTypeOK, WalletRow
  <1>2. DebitDrift(w, a) \in {-1, 0}
    BY <1>1, StoredMinus DEF DebitDrift, Subtracted
  <1>3. ASSUME Stored(a) * Scale = a  PROVE DebitDrift(w, a) = 0
    <2>a. PICK b : b = wallets[w].balance
      OBVIOUS
    <2>b. PICK m : m = Stored(a)
      OBVIOUS
    <2>1. b * Scale - a = (b - m) * Scale
      BY <1>1, <1>3, <2>a, <2>b
    <2>2. Subtracted(w, a) = b - m
      <3>1. b - m \in Int
        BY <1>1, <2>a, <2>b
      <3> QED  BY <2>1, <2>a, <3>1, StoredExact DEF Subtracted
    <2> QED  BY <1>1, <2>2, <2>a, <2>b DEF DebitDrift
  <1> QED  BY <1>2, <1>3

\* With one sub-unit per stored unit nothing is rounded.
LEMMA UnitScale ==
    ASSUME Scale = 1, NEW a \in Int
    PROVE  Stored(a) = a
  <1>1. Stored(a * Scale) = a
    BY StoredExact
  <1>2. a * Scale = a
    OBVIOUS
  <1> QED  BY <1>1, <1>2

\* There are no rows at first.
LEMMA NoRowsAtFirst ==
    ASSUME LedgerInit, NEW w \in Wallets
    PROVE  ledger[w] = <<>> /\ DOMAIN ledger[w] = {}
  <1>1. DOMAIN <<>> = {}
    OBVIOUS
  <1> QED  BY <1>1 DEF LedgerInit

\* The drifts that RowsExplainBalances allows.
AllowedDrift == IF Scale = 1 THEN {0} ELSE -1 .. 1

\* RowsExplainBalances bounds the drift of every row.
LEMMA ExplainedIsDrift ==
    RowsExplainBalances <=> DriftsIn(AllowedDrift)
  BY DEF RowsExplainBalances, DriftsIn, AllowedDrift, Drift

\* Every row explains its change of balance to within one stored unit, and exactly
\* when nothing is rounded (the in-memory store, or amounts of at most eight decimals).
THEOREM LedgerRowsExplainBalances ==
    LedgerSpec => []RowsExplainBalances
  <1>1. LedgerInit => RowsExplainBalances
    BY NoRowsAtFirst DEF RowsExplainBalances
  <1>2. ASSUME LedgerInv, RowsExplainBalances, [LedgerNext]_ledgerVars
        PROVE  RowsExplainBalances'
    <2>1. 0 \in AllowedDrift
      BY DEF AllowedDrift
    <2>2. ASSUME NEW w \in Wallets, NEW a \in Amounts  PROVE DebitDrift(w, a) \in AllowedDrift
      <3>1. DebitDrift(w, a) \in {-1, 0} /\ (Stored(a) * Scale = a => DebitDrift(w, a) = 0)
        BY <1>2, DebitDrifts DEF LedgerInv
      <3>2. Scale = 1 => Stored(a) * Scale = a
        <4>1. a \in Int
          BY AmountsAssumption
        <4> QED  BY <4>1, UnitScale
      <3> QED  BY <3>1, <3>2 DEF AllowedDrift
    <2>3. DriftsIn(AllowedDrift)
      BY <1>2, ExplainedIsDrift
    <2>4. DriftsIn(AllowedDrift)'
      BY <1>2, <2>1, <2>2, <2>3, DriftsStep
    <2> QED  BY <2>4 DEF RowsExplainBalances, DriftsIn, AllowedDrift, Drift
  <1> QED  BY <1>1, <1>2, LedgerInvariant, PTL DEF LedgerSpec

\* Where the amounts are whole stored units the drifts are zero, and a rejected
\* withdrawal has given back exactly what requesting it took.
LEMMA ExactRestores ==
    ASSUME LedgerInv, DriftsIn({0})
    PROVE  RejectionRestores
  <1> USE DEF LedgerInv
  <1> SUFFICES ASSUME NEW w \in Wallets, NEW i \in DOMAIN ledger[w], NEW j \in DOMAIN ledger[w],
                      NEW q \in Requests,
                      ledger[w][i].ref = q, ledger[w][j].ref = Reversal(q)
               PROVE  ledger[w][j].after - ledger[w][j].before
                        = ledger[w][i].before - ledger[w][i].after
    BY DEF RejectionRestores
  <1>1. q # NoRef /\ Reversal(q) # NoRef
    BY RefsApart
  <1>2. withdrawals[q].status = "rejected"
    BY DEF WithdrawalsBalanced, RequestBalanced, Posted
  <1>a. PICK v : v = withdrawals[q].wallet
    OBVIOUS
  <1>b. PICK amt : amt = withdrawals[q].amount
    OBVIOUS
  <1>3. v \in Wallets
    BY <1>2, <1>a DEF RequestsPlaced
  <1>4. /\ RowWith(v, q, "withdrawal", amt, "reversed")
        /\ RowWith(v, Reversal(q), "adjustment", amt, "completed")
    BY <1>2, <1>a, <1>b DEF WithdrawalsBalanced, RequestBalanced
  <1>5. ledger[w][i].type = "withdrawal" /\ ledger[w][i].amount = amt
    <2>1. PICK k \in DOMAIN ledger[v] : /\ ledger[v][k].ref = q
                                        /\ ledger[v][k].type = "withdrawal"
                                        /\ ledger[v][k].amount = amt
      BY <1>4 DEF RowWith
    <2>2. v = w /\ k = i
      BY <1>1, <1>3, <2>1 DEF PostedOnce
    <2> QED  BY <2>1, <2>2
  <1>6. ledger[w][j].type = "adjustment" /\ ledger[w][j].amount = amt
    <2>1. PICK k \in DOMAIN ledger[v] : /\ ledger[v][k].ref = Reversal(q)
                                        /\ ledger[v][k].type = "adjustment"
                                        /\ ledger[v][k].amount = amt
      BY <1>4 DEF RowWith
    <2>2. v = w /\ k = j
      BY <1>1, <1>3, <2>1 DEF PostedOnce
    <2> QED  BY <2>1, <2>2
  <1>7. Drift(ledger[w][i]) = 0 /\ Drift(ledger[w][j]) = 0
    BY DEF DriftsIn
  <1>8. ledger[w][i] \in Row /\ ledger[w][j] \in Row
    BY DEF LedgerTypeOK
  <1>9. /\ ledger[w][i].before \in Int /\ ledger[w][i].after \in Int
        /\ ledger[w][j].before \in Int /\ ledger[w][j].after \in Int
        /\ amt \in Int
    BY <1>5, <1>8 DEF Row
  <1> QED  BY <1>5, <1>6, <1>7, <1>9 DEF Drift

\* Rejecting a withdrawal gives back what requesting it took, whatever happened to
\* the wallet in between, provided that amounts are whole stored units.
THEOREM LedgerRejectionRestores ==
    ASSUME ExactAmounts
    PROVE  LedgerSpec => []RejectionRestores
  <1>1. LedgerInit => DriftsIn({0})
    BY NoRowsAtFirst DEF DriftsIn
  <1>2. ASSUME LedgerInv, DriftsIn({0}), [LedgerNext]_ledgerVars  PROVE DriftsIn({0})'
    <2>1. \A w \in Wallets, a \in Amounts : DebitDrift(w, a) \in {0}
      BY <1>2, DebitDrifts DEF LedgerInv, ExactAmounts
    <2> QED  BY <1>2, <2>1, DriftsStep
  <1>3. LedgerInv /\ DriftsIn({0}) => RejectionRestores
    BY ExactRestores
  <1> QED  BY <1>1, <1>2, <1>3, LedgerInvariant, PTL DEF LedgerSpec

-----------------------------------------------------------------------------
(* Rows are permanent. *)

\* What RowsPermanent allows a step to do with the rows of a wallet.
RowsKept(new, old) ==
    /\ Len(new) >= Len(old)
    /\ \A i \in DOMAIN old :
          \/ new[i] = old[i]
          \/ /\ old[i].status = "pending"
             /\ new[i] = [old[i] EXCEPT !.status = new[i].status]

\* Reviewing a request changes its own row, which is pending until then, and no
\* other (UPDATE transactions SET status ... WHERE reference_id = $1).
LEMMA ReviewKeepsRows ==
    ASSUME LedgerInv, NEW q \in Requests, withdrawals[q].status = "pending",
           NEW w \in Wallets, NEW s \in {"completed", "reversed"},
           NEW i \in DOMAIN ledger[w], NEW new,
           new = WithStatus(ledger[w], q, s)[i]
    PROVE  \/ new = ledger[w][i]
           \/ /\ ledger[w][i].status = "pending"
              /\ new = [ledger[w][i] EXCEPT !.status = new.status]
  <1> USE DEF LedgerInv
  <1>1. ledger[w][i] \in Row
    BY DEF LedgerTypeOK
  <1>2. new = IF ledger[w][i].ref = q THEN [ledger[w][i] EXCEPT !.status = s] ELSE ledger[w][i]
    BY DEF WithStatus
  <1>3. CASE ledger[w][i].ref # q
    BY <1>2, <1>3
  <1>4. CASE ledger[w][i].ref = q
    <2>a. PICK v : v = withdrawals[q].wallet
      OBVIOUS
    <2>1. v \in Wallets /\ q # NoRef
      BY <2>a, RefsApart DEF RequestsPlaced
    <2>2. PICK k \in DOMAIN ledger[v] : ledger[v][k].ref = q /\ ledger[v][k].status = "pending"
      BY <2>a DEF WithdrawalsBalanced, RequestBalanced, RowWith
    <2>3. v = w /\ k = i
      BY <1>4, <2>1, <2>2 DEF PostedOnce
    <2>4. ledger[w][i].status = "pending"
      BY <2>2, <2>3
    <2>5. new.status = s
      BY <1>1, <1>2, <1>4 DEF Row
    <2> QED  BY <1>2, <1>4, <2>4, <2>5
  <1> QED  BY <1>3, <1>4

\* Posting keeps the rows it is given.
LEMMA PostKeepsRows ==
    ASSUME LedgerTypeOK, NEW w \in Wallets, NEW r, NEW type, NEW amount, NEW after, NEW status,
           Post(w, ledger[w], r, type, amount, after, status), NEW v \in Wallets
    PROVE  RowsKept(ledger'[v], ledger[v])
  <1> DEFINE n == Len(ledger[w])
  <1>1. /\ n \in Nat
        /\ DOMAIN ledger[w] = 1 .. n
        /\ DOMAIN ledger'[w] = 1 .. n + 1
        /\ \A i \in 1 .. n : ledger'[w][i] = ledger[w][i]
        /\ \A x \in Wallets \ {w} : ledger'[x] = ledger[x]
    BY SameRows, PostRows
  <1>2. ledger'[w] = Append(ledger[w], NewRow(r, type, amount, wallets[w].balance, after, status))
    BY DEF Post, LedgerTypeOK
  <1>3. Len(ledger'[w]) = n + 1
    <2>a. PICK row : row = NewRow(r, type, amount, wallets[w].balance, after, status)
      OBVIOUS
    <2>1. ledger[w] \in Seq(Row)
      BY DEF LedgerTypeOK
    <2> QED  BY <1>2, <2>1, <2>a
  <1>4. Len(ledger[v]) \in Nat
    BY DEF LedgerTypeOK
  <1>5. CASE v # w
    BY <1>1, <1>4, <1>5 DEF RowsKept
  <1>6. CASE v = w
    BY <1>1, <1>3, <1>6 DEF RowsKept
  <1> QED  BY <1>5, <1>6

\* Every step of the ledger keeps the rows, but for a review's change of status.
LEMMA RowsPermanentStep ==
    ASSUME LedgerInv, [LedgerNext]_ledgerVars, NEW v \in Wallets
    PROVE  RowsKept(ledger'[v], ledger[v])
  <1> USE DEF LedgerInv
  <1>a. \A x \in Wallets : ledger[x] \in Seq(Row) /\ Len(ledger[x]) \in Nat
                             /\ DOMAIN ledger[x] = 1 .. Len(ledger[x])
    BY DEF LedgerTypeOK
  <1>b. ASSUME ledger' = ledger  PROVE RowsKept(ledger'[v], ledger[v])
    BY <1>a, <1>b DEF RowsKept
  <1>1. CASE UNCHANGED ledgerVars
    BY <1>1, <1>b DEF ledgerVars
  <1>2. CASE \E w \in Wallets : CreateWallet(w)
    BY <1>2, <1>b DEF CreateWallet
  <1>3. CASE \E w \in Wallets, a \in Amounts, r \in RefIds : Credit(w, a, r) \/ Debit(w, a, r)
    BY <1>3, PostKeepsRows DEF Credit, Debit
  <1>4. CASE \E w \in Wallets, a \in Amounts, q \in Requests : RequestWithdrawal(w, a, q)
    BY <1>4, PostKeepsRows DEF RequestWithdrawal
  <1>5. ASSUME NEW q \in Requests, ApproveWithdrawal(q)
        PROVE  RowsKept(ledger'[v], ledger[v])
    <2>a. PICK w : w = withdrawals[q].wallet
      OBVIOUS
    <2> DEFINE rows == WithStatus(ledger[w], q, "completed")
    <2>1. /\ withdrawals[q].status = "pending" /\ w \in Wallets
          /\ ledger' = [ledger EXCEPT ![w] = rows]
      BY <1>5, <2>a DEF ApproveWithdrawal, RequestsPlaced
    <2>2. Len(rows) = Len(ledger[w])
      BY <1>a, <2>1, WithStatusSame DEF SameButStatus
    <2>3. \A i \in DOMAIN ledger[w] : \/ rows[i] = ledger[w][i]
                                      \/ /\ ledger[w][i].status = "pending"
                                         /\ rows[i] = [ledger[w][i] EXCEPT !.status = rows[i].status]
      BY <2>1, ReviewKeepsRows
    <2> HIDE DEF rows
    <2>4. ledger'[w] = rows /\ \A x \in Wallets \ {w} : ledger'[x] = ledger[x]
      BY <2>1 DEF LedgerTypeOK
    <2>5. CASE v # w
      BY <1>a, <2>4, <2>5 DEF RowsKept
    <2>6. CASE v = w
      BY <1>a, <2>2, <2>3, <2>4, <2>6 DEF RowsKept
    <2> QED  BY <2>5, <2>6
  <1>6. ASSUME NEW q \in Requests, RejectWithdrawal(q)
        PROVE  RowsKept(ledger'[v], ledger[v])
    <2>a. PICK w : w = withdrawals[q].wallet
      OBVIOUS
    <2>b. PICK amt : amt = withdrawals[q].amount
      OBVIOUS
    <2>c. PICK after : after = wallets[w].balance + amt
      OBVIOUS
    <2>d. PICK rows : rows = WithStatus(ledger[w], q, "reversed")
      OBVIOUS
    <2>1. /\ withdrawals[q].status = "pending" /\ w \in Wallets
          /\ Post(w, rows, Reversal(q), "adjustment", amt, after, "completed")
      BY <1>6, <2>a, <2>b, <2>c, <2>d DEF RejectWithdrawal, RequestsPlaced
    <2>2. SameButStatus(rows, ledger[w])
      BY <1>a, <2>1, <2>d, WithStatusSame
    <2>3. \A i \in DOMAIN ledger[w] : \/ rows[i] = ledger[w][i]
                                      \/ /\ ledger[w][i].status = "pending"
                                         /\ rows[i] = [ledger[w][i] EXCEPT !.status = rows[i].status]
      BY <2>1, <2>d, ReviewKeepsRows
    <2>e. PICK row : row = NewRow(Reversal(q), "adjustment", amt, wallets[w].balance, after, "completed")
      OBVIOUS
    <2>4. ledger'[w] = Append(rows, row) /\ \A x \in Wallets \ {w} : ledger'[x] = ledger[x]
      BY <2>1, <2>e DEF LedgerTypeOK, Post
    <2>5. rows \in Seq(Row) /\ Len(rows) = Len(ledger[w])
      BY <2>2 DEF SameButStatus
    <2>6. /\ Len(ledger'[w]) = Len(ledger[w]) + 1
          /\ \A i \in DOMAIN ledger[w] : ledger'[w][i] = rows[i]
      <3>1. DOMAIN ledger[w] = 1 .. Len(rows) /\ Len(rows) \in Nat
        BY <1>a, <2>1, <2>5
      <3>2. Len(Append(rows, row)) = Len(rows) + 1
        BY <2>5
      <3>3. \A i \in 1 .. Len(rows) : Append(rows, row)[i] = rows[i]
        BY <2>5
      <3> QED  BY <2>4, <2>5, <3>1, <3>2, <3>3
    <2>7. CASE v # w
      BY <1>a, <2>4, <2>7 DEF RowsKept
    <2>8. CASE v = w
      <3>1. Len(ledger'[v]) >= Len(ledger[v])
        BY <1>a, <2>6, <2>8
      <3>2. ASSUME NEW i \in DOMAIN ledger[v]
            PROVE  \/ ledger'[v][i] = ledger[v][i]
                   \/ /\ ledger[v][i].status = "pending"
                      /\ ledger'[v][i] = [ledger[v][i] EXCEPT !.status = ledger'[v][i].status]
        <4>1. ledger'[w][i] = rows[i]
          BY <2>6, <2>8
        <4> QED  BY <2>3, <2>8, <4>1, Zenon
      <3> QED  BY <3>1, <3>2 DEF RowsKept
    <2> QED  BY <2>7, <2>8
  <1> QED  BY <1>1, <1>2, <1>3, <1>4, <1>5, <1>6 DEF LedgerNext

\* A posted reference id stays posted: the lookup by reference id finds it ever after.
LEMMA PostedStays ==
    ASSUME LedgerInv, [LedgerNext]_ledgerVars, NEW x, Posted(x)
    PROVE  Posted(x)'
  <1>1. PICK w \in Wallets : \E i \in DOMAIN ledger[w] : ledger[w][i].ref = x
    BY DEF Posted
  <1>2. PICK i \in DOMAIN ledger[w] : ledger[w][i].ref = x
    BY <1>1
  <1>3. RowsKept(ledger'[w], ledger[w])
    BY RowsPermanentStep
  <1>4. ledger[w] \in Seq(Row) /\ ledger'[w] \in Seq(Row)
    BY LedgerStepInv DEF LedgerInv, LedgerTypeOK
  <1>5. i \in DOMAIN ledger'[w]
    BY <1>3, <1>4 DEF RowsKept
  <1>6. ledger'[w][i].ref = x
    <2>1. ledger[w][i] \in Row
      BY <1>4
    <2>2. CASE ledger'[w][i] = ledger[w][i]
      BY <1>2, <2>2
    <2>3. CASE ledger'[w][i] = [ledger[w][i] EXCEPT !.status = ledger'[w][i].status]
      <3>a. PICK s : s = ledger'[w][i].status
        OBVIOUS
      <3>1. [ledger[w][i] EXCEPT !.status = s].ref = ledger[w][i].ref
        BY <2>1 DEF Row
      <3>2. ledger'[w][i] = [ledger[w][i] EXCEPT !.status = s]
        BY <2>3, <3>a, Zenon
      <3> QED  BY <1>2, <3>1, <3>2
    <2> QED  BY <1>3, <2>2, <2>3 DEF RowsKept
  <1> QED  BY <1>5, <1>6 DEF Posted

\* No operation removes a row or rewrites it; only a review changes the status of
\* the pending row of its own request, and only once.
THEOREM LedgerRowsPermanent ==
    LedgerSpec => RowsPermanent
  <1>1. ASSUME LedgerInv, [LedgerNext]_ledgerVars
        PROVE  [\A w \in Wallets :
                   /\ Len(ledger'[w]) >= Len(ledger[w])
                   /\ \A i \in DOMAIN ledger[w] :
                         \/ ledger'[w][i] = ledger[w][i]
                         \/ /\ ledger[w][i].status = "pending"
                            /\ ledger'[w][i] = [ledger[w][i] EXCEPT
                                                  !.status = ledger'[w][i].status]
               ]_ledgerVars
    BY <1>1, RowsPermanentStep DEF RowsKept
  <1> QED  BY <1>1, LedgerInvariant, PTL DEF LedgerSpec, RowsPermanent

==============================================================================
