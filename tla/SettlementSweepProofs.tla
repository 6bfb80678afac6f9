------------------------ MODULE SettlementSweepProofs ------------------------
(***************************************************************************)
(* Proofs about the sweeps: a sweep without a fault misses no bet except   *)
(* for the reasons SweepProgress names, whatever the number of bets, the   *)
(* size of a page and the number of schedulers and administrators; and the *)
(* steps of the sweeps are steps of the abstract queue.                    *)
(***************************************************************************)
EXTENDS SettlementSweep, FiniteSetTheorems, FunctionTheorems, WellFoundedInduction, TLAPS

-----------------------------------------------------------------------------
(* Places in an order. *)

\* A set of natural numbers has a least one.
LEMMA LeastNat ==
    ASSUME NEW T, T \subseteq Nat, T # {}
    PROVE  \E x \in T : \A y \in T : x <= y
<1> DEFINE R == OpToRel(<, Nat)
<1>1. IsWellFoundedOn(R, Nat)
  BY NatLessThanWellFounded
<1>2. \A y, x \in Nat : <<y, x>> \in R <=> y < x
  BY SMT DEF OpToRel
<1> HIDE DEF R
<1>3. PICK x \in T : \A y \in T : ~(<<y, x>> \in R)
  BY <1>1, WFMin
<1>4. ASSUME NEW y \in T PROVE x <= y
  <2>1. x \in Nat /\ y \in Nat
    BY <1>3
  <2>2. ~(y < x)
    BY <2>1, <1>2, <1>3
  <2> QED BY <2>1, <2>2, SMT
<1> QED BY <1>3, <1>4

\* A bounded set of natural numbers has a greatest one.
LEMMA GreatestNat ==
    ASSUME NEW T, NEW n \in Nat, T \subseteq 0 .. n, T # {}
    PROVE  \E x \in T : \A y \in T : y <= x
<1> DEFINE U == {n - x : x \in T}
<1>0. T \subseteq Nat /\ \A x \in T : n - x \in Nat
  OBVIOUS
<1>1. U \subseteq Nat /\ U # {}
  BY <1>0
<1>2. PICK u \in U : \A v \in U : u <= v
  <2> HIDE DEF U
  <2> QED BY <1>1, LeastNat
<1>3. PICK x \in T : u = n - x
  BY <1>2
<1>4. ASSUME NEW y \in T PROVE y <= x
  <2>1. n - y \in U
    OBVIOUS
  <2>2. n - x <= n - y
    BY <2>1, <1>2, <1>3
  <2> QED BY <2>2, SMT
<1> QED BY <1>4

\* The bets before a bet are finitely many, so its place is a number.
LEMMA OlderFinite ==
    ASSUME NEW n \in Nat, NEW P, P \subseteq 1 .. n, NEW b \in 1 .. n
    PROVE  /\ IsFiniteSet(P) /\ IsFiniteSet({c \in P : c < b})
           /\ Rank(P, b) \in Nat
<1>1. IsFiniteSet(1 .. n)
  BY FS_Interval
<1>2. IsFiniteSet(P)
  BY <1>1, FS_Subset
<1>3. IsFiniteSet({c \in P : c < b})
  <2> DEFINE O == {c \in P : c < b}
  <2>1. O \in SUBSET P
    OBVIOUS
  <2> HIDE DEF O
  <2>2. IsFiniteSet(O)
    BY <2>1, <1>2, FS_Subset
  <2> QED BY <2>2 DEF O
<1> QED BY <1>2, <1>3, FS_CardinalityType DEF Rank

\* Every place before that of a bet is taken by some bet.
LEMMA RankOnto ==
    ASSUME NEW n \in Nat, NEW P, P \subseteq 1 .. n, NEW b \in P,
           NEW k \in Nat, k <= Rank(P, b)
    PROVE  \E c \in P : Rank(P, c) = k
<1> DEFINE T == {c \in P : k <= Rank(P, c)}
<1>0. b \in T
  OBVIOUS
<1>1. T \subseteq Nat /\ T # {}
  <2>1. P \subseteq Nat
    OBVIOUS
  <2> QED BY <2>1, <1>0
<1>2. PICK c \in T : \A d \in T : c <= d
  <2> HIDE DEF T
  <2> QED BY <1>1, LeastNat
<1>3. c \in P /\ c \in 1 .. n /\ Rank(P, c) \in Nat /\ k <= Rank(P, c)
  <2>1. c \in P /\ k <= Rank(P, c)
    BY <1>2
  <2>2. c \in 1 .. n
    BY <2>1
  <2> QED BY <2>1, <2>2, OlderFinite
<1>4. ASSUME k < Rank(P, c) PROVE FALSE
  <2> DEFINE O == {d \in P : d < c}
  <2>1. IsFiniteSet(O) /\ Cardinality(O) = Rank(P, c)
    BY <1>3, OlderFinite DEF Rank
  <2>2. O # {}
    <3>1. Cardinality({}) = 0
      BY FS_EmptySet
    <3>2. Cardinality(O) # 0
      BY <2>1, <1>4, <1>3
    <3> HIDE DEF O
    <3> QED BY <3>1, <3>2
  <2>3. O \subseteq 0 .. n
    <3>1. P \subseteq 0 .. n
      OBVIOUS
    <3> QED BY <3>1
  <2>4. PICK e \in O : \A d \in O : d <= e
    <3> HIDE DEF O
    <3> QED BY <2>2, <2>3, GreatestNat
  <2>5. e \in P /\ e < c /\ e \in 1 .. n
    BY <2>4
  <2>6. {d \in P : d < e} = O \ {e}
    <3>1. \A d \in P : d \in Int
      OBVIOUS
    <3>2. \A d \in P : d < c => d <= e
      BY <2>4
    <3>3. \A d \in P : d < e <=> (d < c /\ d # e)
      BY <3>1, <3>2, <2>5, <1>3
    <3> QED BY <3>3
  <2>7. Rank(P, e) = Rank(P, c) - 1
    <3>1. Cardinality(O \ {e}) = Cardinality(O) - 1
      <4> HIDE DEF O
      <4> QED BY <2>1, <2>4, FS_RemoveElement
    <3> QED BY <3>1, <2>1, <2>6 DEF Rank
  <2>8. k <= Rank(P, e)
    BY <2>7, <1>4, <1>3, SMT
  <2>9. e \in T
    BY <2>8, <2>5
  <2> QED BY <2>9, <1>2, <2>5, <1>3, SMT
<1>5. Rank(P, c) = k
  BY <1>3, <1>4, SMT
<1> QED BY <1>5, <1>3

\* The bets of set P at the m places from lo on.
Slice(P, lo, m) == {c \in P : Rank(P, c) \in lo .. lo + m - 1}

\* A page before that of some bet is full.
LEMMA PageFull ==
    ASSUME NEW n \in Nat, NEW P, P \subseteq 1 .. n, NEW b \in P,
           NEW lo \in Nat, NEW m \in Nat, lo + m <= Rank(P, b)
    PROVE  m <= Cardinality(Slice(P, lo, m))
<1> DEFINE Q == {c \in P : Rank(P, c) \in lo .. lo + m - 1}
<1> DEFINE f == [c \in Q |-> Rank(P, c)]
<1>1. IsFiniteSet(Q)
  <2>1. IsFiniteSet(P)
    BY OlderFinite
  <2> QED BY <2>1, FS_Subset
<1>2. f \in Surjection(Q, lo .. lo + m - 1)
  <2>1. f \in [Q -> lo .. lo + m - 1]
    OBVIOUS
  <2>2. ASSUME NEW k \in lo .. lo + m - 1 PROVE \E c \in Q : f[c] = k
    <3>0. b \in 1 .. n /\ Rank(P, b) \in Nat
      BY OlderFinite
    <3>1. k \in Nat /\ k <= Rank(P, b)
      BY <3>0, SMT
    <3>2. PICK c \in P : Rank(P, c) = k
      BY <3>1, RankOnto
    <3> QED BY <3>2
  <2> QED BY <2>1, <2>2 DEF Surjection
<1>3. Cardinality(lo .. lo + m - 1) <= Cardinality(Q)
  <2> HIDE DEF Q, f
  <2> QED BY <1>1, <1>2, FS_Surjection
<1>4. Cardinality(lo .. lo + m - 1) = m
  <2>1. lo \in Int /\ lo + m - 1 \in Int
    OBVIOUS
  <2>2. Cardinality(lo .. lo + m - 1) = IF lo > lo + m - 1 THEN 0 ELSE lo + m - 1 - lo + 1
    BY <2>1, FS_Interval
  <2> QED BY <2>2, SMT
<1> QED BY <1>3, <1>4 DEF Slice

\* The place of a bet does not go down when no bet before it leaves.
LEMMA RankKept ==
    ASSUME NEW n \in Nat, NEW P, P \subseteq 1 .. n, NEW Q, Q \subseteq 1 .. n,
           NEW b \in 1 .. n, \A c \in P : c < b => c \in Q
    PROVE  Rank(P, b) <= Rank(Q, b)
<1> DEFINE OP == {c \in P : c < b}
<1> DEFINE OQ == {c \in Q : c < b}
<1>1. IsFiniteSet(OQ)
  BY OlderFinite
<1>2. OP \in SUBSET OQ
  OBVIOUS
<1>3. Cardinality(OP) <= Cardinality(OQ)
  <2> HIDE DEF OP, OQ
  <2> QED BY <1>1, <1>2, FS_Subset
<1> QED BY <1>3 DEF Rank

-----------------------------------------------------------------------------
(* The inductive invariant. *)

\* The bet was accepted or cancelled: from then on it is pending or closed.
Opened(b) == status[b] \in {"pending", "closed"}

\* The sweep of s has not lost bet b: it was there to be settled when the sweep began,
\* still is, and no older bet has left since.
Hopes(s, b) ==
    /\ b \in sweeps[s].due
    /\ b \in PendingBets
    /\ b \in shown
    /\ ~sweeps[s].faulty
    /\ \A c \in sweeps[s].left : ~(c < b)

\* Sweep sw is going to come to bet b of the pending bets P.
Ahead(sw, P, b) ==
    /\ sw.step # "idle"
    /\ sw.step = "list" => Offset(sw.page) <= Rank(P, b)
    /\ sw.step \in {"resolve", "load", "mark"} =>
          b \in sw.batch \/ (PageSize <= sw.size /\ Offset(sw.page) + PageSize <= Rank(P, b))

SweepInv(s) ==
    /\ \A b \in sweeps[s].due : b \in decided /\ Opened(b)
    /\ sweeps[s].step # "idle" => sweeps[s].page >= 1
    /\ sweeps[s].step = "mark" => sweeps[s].bet \in Bets /\ Opened(sweeps[s].bet)
    /\ \A b \in Bets : Hopes(s, b) => Ahead(sweeps[s], PendingBets, b)

LoadedInv == \A r \in Requests : loaded[r] # 0 => Opened(loaded[r])

Inv == TypeOK /\ LoadedInv /\ \A s \in Sweepers : SweepInv(s)

-----------------------------------------------------------------------------
(* The operators on sweeps. *)

\* Pages follow each other without a gap.
LEMMA OffsetFacts ==
    ASSUME NEW page \in Nat, page >= 1
    PROVE  /\ Offset(page) \in Nat
           /\ Offset(page + 1) = Offset(page) + PageSize
           /\ Offset(1) = 0
  BY SweepAssumption, SMT DEF Offset

\* Going on to the next bet or page keeps what the sweep remembers.
LEMMA PassedFields ==
    ASSUME NEW sw \in Sweep, NEW b, NEW p, p = Passed(sw, b)
    PROVE  /\ p \in Sweep
           /\ p.due = sw.due /\ p.left = sw.left /\ p.faulty = sw.faulty
           /\ p.step # "mark"
           /\ sw.page >= 1 /\ p.step # "idle" => p.page >= 1
<1>1. CASE sw.batch \ {b} # {}
  BY <1>1 DEF Passed, Sweep, SweepSteps
<1>2. CASE ~(sw.batch \ {b} # {}) /\ sw.size < PageSize
  BY <1>2 DEF Passed, Sweep, SweepSteps, Ended
<1>3. CASE ~(sw.batch \ {b} # {}) /\ ~(sw.size < PageSize)
  <2>1. p = [sw EXCEPT !.step = "list", !.page = sw.page + 1, !.batch = {}, !.size = 0,
                       !.bet = 0]
    BY <1>3 DEF Passed
  <2>2. sw.page + 1 \in Nat /\ sw.page + 1 >= 1
    BY DEF Sweep
  <2>3. p = [step |-> "list", page |-> sw.page + 1, batch |-> {}, size |-> 0, bet |-> 0,
             due |-> sw.due, left |-> sw.left, faulty |-> sw.faulty]
    BY <2>1 DEF Sweep
  <2>4. sw.due \in SUBSET Bets /\ sw.left \in SUBSET Bets /\ sw.faulty \in BOOLEAN
    BY DEF Sweep
  <2> QED BY <2>2, <2>3, <2>4 DEF Sweep, SweepSteps
<1> QED BY <1>1, <1>2, <1>3

\* Done with one bet, a sweep still comes to every other that it was to come to.
LEMMA PassedAhead ==
    ASSUME NEW sw \in Sweep, sw.step \in {"resolve", "load", "mark"}, sw.page >= 1,
           NEW P, NEW b, NEW c, c # b, Rank(P, c) \in Nat, Ahead(sw, P, c)
    PROVE  Ahead(Passed(sw, b), P, c)
<1>0. c \in sw.batch \/ (PageSize <= sw.size /\ Offset(sw.page) + PageSize <= Rank(P, c))
  BY DEF Ahead
<1>1. CASE sw.batch \ {b} # {}
  <2> DEFINE p == Passed(sw, b)
  <2>1. /\ p.step = "resolve" /\ p.batch = sw.batch \ {b}
        /\ p.size = sw.size /\ p.page = sw.page
    BY <1>1 DEF Passed, Sweep
  <2> HIDE DEF p
  <2>2. c \in p.batch \/ (PageSize <= p.size /\ Offset(p.page) + PageSize <= Rank(P, c))
    BY <1>0, <2>1
  <2>3. Ahead(p, P, c)
    BY <2>1, <2>2 DEF Ahead
  <2> QED BY <2>3 DEF p
<1>2. CASE ~(sw.batch \ {b} # {})
  <2>1. PageSize <= sw.size /\ Offset(sw.page) + PageSize <= Rank(P, c)
    BY <1>0, <1>2
  <2>2. ~(sw.size < PageSize)
    BY <2>1, SweepAssumption DEF Sweep
  <2>3. Passed(sw, b).step = "list" /\ Passed(sw, b).page = sw.page + 1
    BY <1>2, <2>2 DEF Passed, Sweep
  <2>4. Offset(sw.page + 1) = Offset(sw.page) + PageSize
    BY OffsetFacts DEF Sweep
  <2> QED BY <2>1, <2>3, <2>4 DEF Ahead
<1> QED BY <1>1, <1>2

\* A bet whose place does not go down is still ahead.
LEMMA AheadKept ==
    ASSUME NEW sw \in Sweep, sw.page >= 1 \/ sw.step = "idle", NEW P, NEW Q, NEW c,
           Rank(P, c) \in Nat, Rank(Q, c) \in Nat, Rank(P, c) <= Rank(Q, c), Ahead(sw, P, c)
    PROVE  Ahead(sw, Q, c)
<1>1. sw.page \in Nat /\ sw.page >= 1
  BY DEF Ahead, Sweep
<1>2. Offset(sw.page) \in Nat
  BY <1>1, OffsetFacts
<1> QED BY <1>2, SweepAssumption DEF Ahead

\* Every bet has a place among the pending ones.
LEMMA PendingPlaces ==
    ASSUME TypeOK, NEW b \in Bets
    PROVE  PendingBets \subseteq Bets /\ Rank(PendingBets, b) \in Nat
<1>1. PendingBets \subseteq 1 .. NumBets
  BY DEF PendingBets, Bets
<1>2. Rank(PendingBets, b) \in Nat
  BY <1>1, OlderFinite, SweepAssumption DEF Bets
<1> QED BY <1>1, <1>2 DEF Bets

-----------------------------------------------------------------------------
(* Types. *)

\* Update changes one sweep.
LEMMA UpdateTypes ==
    ASSUME sweeps \in [Sweepers -> Sweep], NEW s \in Sweepers, NEW sw \in Sweep, Update(s, sw)
    PROVE  sweeps' \in [Sweepers -> Sweep] /\ sweeps'[s] = sw
                /\ \A t \in Sweepers \ {s} : sweeps'[t] = sweeps[t]
  BY DEF Update

\* The end of a sweep keeps what the sweep remembers.
LEMMA EndedType ==
    ASSUME NEW sw \in Sweep
    PROVE  Ended(sw) \in Sweep /\ Ended(sw).step = "idle"
              /\ Ended(sw).due = sw.due /\ Ended(sw).left = sw.left /\ Ended(sw).faulty = sw.faulty
  BY DEF Ended, Sweep, SweepSteps

\* A sweep that sees a bet leave only notes it.
LEMMA SeenLeavingType ==
    ASSUME NEW sw \in Sweep, NEW b, NEW q, q = SeenLeaving(sw, b)
    PROVE  /\ q \in Sweep
           /\ q.step = sw.step /\ q.page = sw.page /\ q.batch = sw.batch /\ q.size = sw.size
           /\ q.bet = sw.bet /\ q.due = sw.due /\ q.faulty = sw.faulty
           /\ sw.left \subseteq q.left
           /\ sw.step # "idle" /\ Pending(b) => b \in q.left
<1>1. CASE sw.step # "idle" /\ Pending(b)
  <2>1. q = [sw EXCEPT !.left = sw.left \cup {b}]
    BY <1>1 DEF SeenLeaving
  <2>2. b \in Bets
    BY <1>1 DEF Pending, PendingBets
  <2> QED BY <2>1, <2>2 DEF Sweep
<1>2. CASE ~(sw.step # "idle" /\ Pending(b))
  BY <1>2 DEF SeenLeaving
<1> QED BY <1>1, <1>2

\* A page is a finite set of bets.
LEMMA BatchType ==
    ASSUME TypeOK, NEW page \in Nat
    PROVE  /\ ListPendingBets(page) \in SUBSET Bets
           /\ IsFiniteSet(ListPendingBets(page))
           /\ Cardinality(ListPendingBets(page)) \in Nat
<1>1. ListPendingBets(page) \in SUBSET Bets
  BY DEF ListPendingBets, PendingBets
<1>2. IsFiniteSet(Bets)
  BY SweepAssumption, FS_Interval DEF Bets
<1>3. IsFiniteSet(ListPendingBets(page))
  BY <1>1, <1>2, FS_Subset
<1> QED BY <1>1, <1>3, FS_CardinalityType

\* The type invariant is inductive by itself.
LEMMA TypeStep ==
    ASSUME TypeOK, [Next]_vars
    PROVE  TypeOK'
<1> USE DEF TypeOK
<1>1. ASSUME NEW b \in Bets, PlaceBet(b) PROVE TypeOK'
  BY <1>1 DEF PlaceBet, BetStatuses
<1>2. ASSUME NEW b \in Bets, FinishBet(b) PROVE TypeOK'
  BY <1>2 DEF FinishBet, BetStatuses
<1>3. ASSUME NEW b \in Bets, Decide(b) PROVE TypeOK'
  BY <1>3 DEF Decide
<1>4. ASSUME NEW b \in Bets, Crowd(b) PROVE TypeOK'
  BY <1>4 DEF Crowd
<1>5. ASSUME NEW s \in Sweepers, StartSweep(s) PROVE TypeOK'
  <2> DEFINE sw == [NoSweep EXCEPT !.step = "list", !.page = 1,
                                 !.due = PendingBets \cap decided \cap shown]
  <2>1. PendingBets \cap decided \cap shown \in SUBSET Bets
    BY DEF PendingBets
  <2>2. sw \in Sweep
    BY <2>1 DEF Sweep, NoSweep, SweepSteps
  <2>3. Update(s, sw)
    BY <1>5 DEF StartSweep
  <2> HIDE DEF sw
  <2> QED BY <2>2, <2>3, <1>5, UpdateTypes DEF StartSweep
<1>6. ASSUME NEW s \in Sweepers, ListPage(s) PROVE TypeOK'
  <2> DEFINE batch == ListPendingBets(sweeps[s].page)
  <2> DEFINE sw == [sweeps[s] EXCEPT !.step = "resolve", !.batch = batch,
                                     !.size = Cardinality(batch)]
  <2>1. sweeps[s] \in Sweep /\ sweeps[s].page \in Nat
    BY DEF Sweep
  <2>2. batch \in SUBSET Bets /\ Cardinality(batch) \in Nat
    BY <2>1, BatchType
  <2>3. sw \in Sweep
    <3> HIDE DEF batch
    <3> QED BY <2>1, <2>2 DEF Sweep, SweepSteps
  <2>4. Ended(sweeps[s]) \in Sweep
    BY <2>1, EndedType
  <2>5. Update(s, Ended(sweeps[s])) \/ Update(s, sw)
    BY <1>6 DEF ListPage
  <2> HIDE DEF sw, batch
  <2> QED BY <2>3, <2>4, <2>5, <1>6, UpdateTypes DEF ListPage
<1>7. ASSUME NEW s \in Sweepers, ResolveOutcome(s) PROVE TypeOK'
  <2>1. sweeps[s] \in Sweep
    OBVIOUS
  <2>2. PICK b \in Oldest(sweeps[s].batch) :
            Update(s, [sweeps[s] EXCEPT !.step = "load", !.bet = b])
              \/ Update(s, Passed(sweeps[s], b))
    BY <1>7 DEF ResolveOutcome
  <2>3. b \in Bets
    BY <2>1, <2>2 DEF Oldest, Sweep
  <2>4. [sweeps[s] EXCEPT !.step = "load", !.bet = b] \in Sweep
    BY <2>1, <2>3 DEF Sweep, SweepSteps
  <2>5. Passed(sweeps[s], b) \in Sweep
    BY <2>1, PassedFields
  <2> QED BY <2>2, <2>4, <2>5, <1>7, UpdateTypes DEF ResolveOutcome
<1>8. ASSUME NEW s \in Sweepers, LoadBet(s) PROVE TypeOK'
  <2>1. sweeps[s] \in Sweep
    OBVIOUS
  <2>2. \/ Update(s, [sweeps[s] EXCEPT !.step = "mark"])
        \/ Update(s, Passed(sweeps[s], sweeps[s].bet))
    BY <1>8 DEF LoadBet
  <2>4. [sweeps[s] EXCEPT !.step = "mark"] \in Sweep
    BY <2>1 DEF Sweep, SweepSteps
  <2>5. Passed(sweeps[s], sweeps[s].bet) \in Sweep
    BY <2>1, PassedFields
  <2> QED BY <2>2, <2>4, <2>5, <1>8, UpdateTypes DEF LoadBet
<1>9. ASSUME NEW s \in Sweepers, MarkSettled(s) PROVE TypeOK'
  <2> DEFINE b == sweeps[s].bet
  <2>1. \A t \in Sweepers : SeenLeaving(sweeps[t], b) \in Sweep
    BY SeenLeavingType
  <2>2. Passed(SeenLeaving(sweeps[s], b), b) \in Sweep
    BY <2>1, PassedFields
  <2>3. status' \in [Bets -> BetStatuses]
    BY <1>9 DEF MarkSettled, BetStatuses
  <2> QED BY <2>1, <2>2, <2>3, <1>9 DEF MarkSettled
<1>10. ASSUME NEW s \in Sweepers, SweepFault(s) PROVE TypeOK'
  <2> DEFINE sw == [sweeps[s] EXCEPT !.faulty = TRUE]
  <2>1. sw \in Sweep
    BY DEF Sweep
  <2>2. PICK b : Update(s, Ended(sw)) \/ Update(s, Passed(sw, b))
    BY <1>10 DEF SweepFault
  <2>3. Ended(sw) \in Sweep /\ Passed(sw, b) \in Sweep
    <3> HIDE DEF sw
    <3> QED BY <2>1, EndedType, PassedFields
  <2>4. faults' \in 0 .. MaxFaults
    BY <1>10, SweepAssumption DEF SweepFault
  <2> HIDE DEF sw
  <2> QED BY <2>2, <2>3, <2>4, <1>10, UpdateTypes DEF SweepFault
<1>11. ASSUME NEW r \in Requests, NEW b \in Bets, AdminLoad(r, b) PROVE TypeOK'
  BY <1>11 DEF AdminLoad
<1>12. ASSUME NEW r \in Requests, AdminMark(r) PROVE TypeOK'
  <2>1. \A t \in Sweepers : SeenLeaving(sweeps[t], loaded[r]) \in Sweep
    BY SeenLeavingType
  <2>2. status' \in [Bets -> BetStatuses]
    BY <1>12 DEF AdminMark, BetStatuses
  <2>3. loaded' \in [Requests -> Bets \cup {0}]
    BY <1>12 DEF AdminMark
  <2> QED BY <2>1, <2>2, <2>3, <1>12 DEF AdminMark
<1>13. CASE UNCHANGED vars
  BY <1>13 DEF vars
<1> QED BY <1>1, <1>2, <1>3, <1>4, <1>5, <1>6, <1>7, <1>8, <1>9, <1>10, <1>11, <1>12,
           <1>13 DEF Next, SweepStep

-----------------------------------------------------------------------------
(* What any step does to the bets and the feed. *)

\* Outcomes stay decided, markets do not come back to the first page, and a bet that
\* was opened stays so and is not pending again once it is closed.
WorldStep ==
    /\ decided \subseteq decided'
    /\ shown' \subseteq shown
    /\ \A b \in Bets : Opened(b) => Opened(b)' /\ (b \in PendingBets' => b \in PendingBets)

\* Every step is such a step.
LEMMA WorldSteps ==
    ASSUME Inv, [Next]_vars
    PROVE  WorldStep
<1> USE DEF Inv, TypeOK, WorldStep, Opened, PendingBets
<1>1. ASSUME NEW b \in Bets, PlaceBet(b) PROVE WorldStep
  BY <1>1 DEF PlaceBet
<1>2. ASSUME NEW b \in Bets, FinishBet(b) PROVE WorldStep
  BY <1>2 DEF FinishBet
<1>3. ASSUME NEW b \in Bets, Decide(b) PROVE WorldStep
  BY <1>3 DEF Decide
<1>4. ASSUME NEW b \in Bets, Crowd(b) PROVE WorldStep
  BY <1>4 DEF Crowd
<1>5. ASSUME UNCHANGED <<status, decided, shown>> PROVE WorldStep
  BY <1>5
<1>6. ASSUME NEW s \in Sweepers, SweepStep(s) \/ SweepFault(s), ~MarkSettled(s)
      PROVE  WorldStep
  BY <1>6, <1>5 DEF SweepStep, StartSweep, ListPage, ResolveOutcome, LoadBet, SweepFault
<1>7. ASSUME NEW s \in Sweepers, MarkSettled(s) PROVE WorldStep
  BY <1>7 DEF MarkSettled
<1>8. ASSUME NEW r \in Requests, NEW b \in Bets, AdminLoad(r, b) PROVE WorldStep
  BY <1>8, <1>5 DEF AdminLoad
<1>9. ASSUME NEW r \in Requests, AdminMark(r) PROVE WorldStep
  BY <1>9 DEF AdminMark
<1>10. CASE UNCHANGED vars
  BY <1>10, <1>5 DEF vars
<1> QED BY <1>1, <1>2, <1>3, <1>4, <1>6, <1>7, <1>8, <1>9, <1>10 DEF Next, SweepStep

\* The pending bets that leave are noted by a sweep in progress.
LEMMA HopesKept ==
    ASSUME Inv, TypeOK', WorldStep, NEW s \in Sweepers, NEW b \in Bets, Hopes(s, b)',
           sweeps'[s].due = sweeps[s].due, sweeps'[s].faulty = sweeps[s].faulty,
           sweeps[s].left \subseteq sweeps'[s].left,
           sweeps[s].step # "idle" =>
              \A c \in PendingBets : c \in PendingBets' \/ c \in sweeps'[s].left
    PROVE  Hopes(s, b) /\ Ahead(sweeps[s], PendingBets, b) /\ Ahead(sweeps[s], PendingBets', b)
<1>1. Hopes(s, b)
  BY DEF Hopes, Inv, SweepInv, WorldStep
<1>2. Ahead(sweeps[s], PendingBets, b)
  BY <1>1 DEF Inv, SweepInv
<1>3. sweeps[s].step # "idle"
  BY <1>2 DEF Ahead
<1>4. \A c \in PendingBets : c < b => c \in PendingBets'
  BY <1>3 DEF Hopes
<1>5. PendingBets \subseteq 1 .. NumBets /\ PendingBets' \subseteq 1 .. NumBets
  BY DEF PendingBets, Bets
<1>6. Rank(PendingBets, b) <= Rank(PendingBets', b)
  BY <1>4, <1>5, RankKept, SweepAssumption DEF Bets
<1>7. Rank(PendingBets, b) \in Nat /\ Rank(PendingBets', b) \in Nat
  BY <1>5, OlderFinite, SweepAssumption DEF Bets
<1>8. sweeps[s] \in Sweep /\ sweeps[s].page >= 1
  BY <1>3 DEF Inv, TypeOK, SweepInv
<1>9. Ahead(sweeps[s], PendingBets', b)
  BY <1>2, <1>6, <1>7, <1>8, AheadKept
<1> QED BY <1>1, <1>2, <1>9

\* A sweep at which nothing happens but that bets leave.
LEMMA OtherSweep ==
    ASSUME Inv, TypeOK', WorldStep, NEW s \in Sweepers,
           NEW b, sweeps'[s] = SeenLeaving(sweeps[s], b),
           \A c \in PendingBets : c \in PendingBets' \/ c = b
    PROVE  SweepInv(s)'
<1> DEFINE q == sweeps'[s]
<1> DEFINE sw == sweeps[s]
<1>1. sw \in Sweep
  BY DEF Inv, TypeOK
<1>2. /\ q.step = sw.step /\ q.page = sw.page /\ q.batch = sw.batch /\ q.size = sw.size
      /\ q.bet = sw.bet /\ q.due = sw.due /\ q.faulty = sw.faulty
      /\ sw.left \subseteq q.left
      /\ sw.step # "idle" /\ Pending(b) => b \in q.left
  BY <1>1, SeenLeavingType
<1>3. ASSUME NEW c \in Bets, Hopes(s, c)' PROVE Ahead(q, PendingBets', c)
  <2>1. sw.step # "idle" => \A d \in PendingBets : d \in PendingBets' \/ d \in q.left
    BY <1>2 DEF Pending
  <2>2. Ahead(sw, PendingBets', c)
    BY <1>2, <1>3, <2>1, HopesKept
  <2> QED BY <2>2, <1>2 DEF Ahead
<1>4. SweepInv(s)
  BY DEF Inv
<1>5. \A c \in q.due : c \in decided' /\ Opened(c)'
  BY <1>1, <1>2, <1>4 DEF SweepInv, WorldStep, Sweep
<1>6. q.step # "idle" => q.page >= 1
  BY <1>2, <1>4 DEF SweepInv
<1>7. q.step = "mark" => q.bet \in Bets /\ status'[q.bet] \in {"pending", "closed"}
  BY <1>2, <1>4 DEF SweepInv, WorldStep, Opened
<1> QED BY <1>3, <1>5, <1>6, <1>7 DEF SweepInv, Opened

\* A sweep that is done with bet b, for which there is no hope left.
LEMMA PassedSweep ==
    ASSUME Inv, TypeOK', WorldStep, NEW s \in Sweepers, NEW b, NEW sw \in Sweep,
           sw = sweeps[s] \/ sw = SeenLeaving(sweeps[s], b),
           sw.step \in {"resolve", "load", "mark"},
           sweeps'[s] = Passed(sw, b),
           PendingBets' = PendingBets \/ sw = SeenLeaving(sweeps[s], b),
           \A c \in PendingBets : c \in PendingBets' \/ c = b,
           ~Hopes(s, b)'
    PROVE  SweepInv(s)'
<1> DEFINE q == sweeps'[s]
<1> DEFINE sv == sweeps[s]
<1>1. sv \in Sweep
  BY DEF Inv, TypeOK
<1>2. /\ sw.step = sv.step /\ sw.page = sv.page /\ sw.batch = sv.batch /\ sw.size = sv.size
      /\ sw.due = sv.due /\ sw.faulty = sv.faulty /\ sv.left \subseteq sw.left
      /\ sw = SeenLeaving(sv, b) /\ sv.step # "idle" /\ Pending(b) => b \in sw.left
  BY <1>1, SeenLeavingType
<1>3. /\ q.due = sw.due /\ q.left = sw.left /\ q.faulty = sw.faulty /\ q.step # "mark"
      /\ sw.page >= 1 /\ q.step # "idle" => q.page >= 1
  BY PassedFields
<1>4. SweepInv(s)
  BY DEF Inv
<1>5. sw.page >= 1
  BY <1>2, <1>4 DEF SweepInv
<1>6. ASSUME NEW c \in Bets, Hopes(s, c)' PROVE Ahead(q, PendingBets', c)
  <2>1. sv.step # "idle" => \A d \in PendingBets : d \in PendingBets' \/ d \in q.left
    BY <1>2, <1>3 DEF Pending
  <2>2. Ahead(sv, PendingBets', c)
    BY <1>2, <1>3, <1>6, <2>1, HopesKept
  <2>3. Ahead(sw, PendingBets', c)
    BY <2>2, <1>2 DEF Ahead
  <2>4. c # b
    BY <1>6
  <2>5. Rank(PendingBets', c) \in Nat
    BY PendingPlaces, OlderFinite, SweepAssumption DEF Bets, PendingBets
  <2> QED BY <2>3, <2>4, <2>5, <1>5, PassedAhead
<1>7. \A c \in q.due : c \in decided' /\ Opened(c)'
  BY <1>1, <1>2, <1>3, <1>4 DEF SweepInv, WorldStep, Sweep
<1> QED BY <1>3, <1>5, <1>6, <1>7 DEF SweepInv

\* A sweep that failed promises nothing any more.
LEMMA FaultySweep ==
    ASSUME Inv, TypeOK', WorldStep, NEW s \in Sweepers,
           sweeps'[s].due = sweeps[s].due, sweeps'[s].faulty = TRUE,
           sweeps'[s].step # "mark", sweeps'[s].step # "idle" => sweeps'[s].page >= 1
    PROVE  SweepInv(s)'
<1>1. \A c \in sweeps'[s].due : c \in decided' /\ Opened(c)'
  BY DEF Inv, TypeOK, SweepInv, WorldStep, Sweep
<1>2. \A c \in Bets : ~Hopes(s, c)'
  BY DEF Hopes
<1> QED BY <1>1, <1>2 DEF SweepInv

-----------------------------------------------------------------------------
(* The steps of one sweep. *)

\* A sweep begins at the first place.
LEMMA StartStep ==
    ASSUME Inv, TypeOK', WorldStep, NEW s \in Sweepers, StartSweep(s)
    PROVE  SweepInv(s)'
<1>1. /\ sweeps'[s].step = "list" /\ sweeps'[s].page = 1
      /\ sweeps'[s].due = PendingBets \cap decided \cap shown
  BY DEF StartSweep, Update, NoSweep, Inv, TypeOK
<1>2. \A b \in sweeps'[s].due : b \in decided' /\ Opened(b)'
  BY <1>1 DEF StartSweep, Opened, PendingBets
<1>3. ASSUME NEW b \in Bets PROVE Ahead(sweeps[s], PendingBets, b)'
  <2>1. Rank(PendingBets', b) \in Nat
    BY PendingPlaces, OlderFinite, SweepAssumption DEF Bets, PendingBets
  <2>2. Offset(1) = 0
    BY OffsetFacts
  <2> QED BY <1>1, <2>1, <2>2 DEF Ahead
<1> QED BY <1>1, <1>2, <1>3 DEF SweepInv

\* A page that is not full is the last, and an empty one is after the last.
LEMMA ListStep ==
    ASSUME Inv, TypeOK', WorldStep, NEW s \in Sweepers, ListPage(s)
    PROVE  SweepInv(s)'
<1> DEFINE sw == sweeps[s]
<1> DEFINE q == sweeps'[s]
<1> DEFINE batch == ListPendingBets(sw.page)
<1> DEFINE lo == Offset(sw.page)
<1>1. sw \in Sweep /\ sw.step = "list" /\ sw.page \in Nat /\ sw.page >= 1 /\ SweepInv(s)
  BY DEF Inv, TypeOK, SweepInv, ListPage, At, Sweep
<1>2. lo \in Nat
  BY <1>1, OffsetFacts
<1>3. batch \in SUBSET Bets /\ IsFiniteSet(batch) /\ Cardinality(batch) \in Nat
  BY <1>1, BatchType DEF Inv
<1>4. PendingBets' = PendingBets /\ decided' = decided /\ shown' = shown
  BY DEF ListPage, PendingBets
<1>5. \/ batch = {} /\ q = Ended(sw)
      \/ batch # {} /\ q = [sw EXCEPT !.step = "resolve", !.batch = batch,
                                      !.size = Cardinality(batch)]
  BY <1>1 DEF ListPage, Update, Inv, TypeOK
<1>6. ASSUME NEW b \in Bets, Hopes(s, b)
      PROVE  b \in batch \/ (PageSize <= Cardinality(batch) /\ lo + PageSize <= Rank(PendingBets, b))
  <2>1. Rank(PendingBets, b) \in Nat /\ lo <= Rank(PendingBets, b) /\ b \in PendingBets
    BY <1>1, <1>6, PendingPlaces DEF SweepInv, Ahead, Inv, Hopes
  <2>2. CASE Rank(PendingBets, b) < lo + PageSize
    <3>1. Rank(PendingBets, b) \in lo .. lo + PageSize - 1
      BY <2>1, <2>2, <1>2, SweepAssumption
    <3> QED BY <3>1, <2>1 DEF ListPendingBets
  <2>3. CASE lo + PageSize <= Rank(PendingBets, b)
    <3>1. PendingBets \subseteq 1 .. NumBets
      BY DEF PendingBets, Bets
    <3>2. PageSize <= Cardinality(Slice(PendingBets, lo, PageSize))
      <4>1. NumBets \in Nat /\ PageSize \in Nat
        BY SweepAssumption
      <4> HIDE DEF lo
      <4> QED BY <2>1, <2>3, <3>1, <1>2, <4>1, PageFull
    <3> QED BY <3>2, <2>3 DEF ListPendingBets, Slice
  <2> QED BY <2>1, <2>2, <2>3, <1>2, SweepAssumption
<1> HIDE DEF batch, lo
<1>7. CASE batch = {} /\ q = Ended(sw)
  <2>1. Cardinality(batch) = 0
    BY <1>7, FS_EmptySet
  <2>2. \A b \in Bets : ~Hopes(s, b)
    BY <1>6, <1>7, <2>1, SweepAssumption
  <2>3. q.step = "idle" /\ q.due = sw.due /\ q.left = sw.left /\ q.faulty = sw.faulty
    BY <1>1, <1>7, EndedType
  <2>4. \A b \in Bets : ~Hopes(s, b)'
    BY <2>2, <2>3, <1>4 DEF Hopes
  <2>5. \A b \in q.due : b \in decided' /\ Opened(b)'
    BY <1>1, <2>3 DEF SweepInv, WorldStep, Sweep
  <2> QED BY <2>3, <2>4, <2>5 DEF SweepInv
<1>8. CASE q = [sw EXCEPT !.step = "resolve", !.batch = batch, !.size = Cardinality(batch)]
  <2>1. /\ q.step = "resolve" /\ q.batch = batch /\ q.size = Cardinality(batch)
        /\ q.page = sw.page /\ q.due = sw.due /\ q.left = sw.left /\ q.faulty = sw.faulty
    BY <1>1, <1>8 DEF Sweep
  <2>2. ASSUME NEW b \in Bets, Hopes(s, b)' PROVE Ahead(q, PendingBets', b)
    <3>1. Hopes(s, b)
      BY <2>1, <2>2, <1>4 DEF Hopes
    <3> QED BY <3>1, <2>1, <1>4, <1>6 DEF Ahead, lo
  <2>3. \A b \in q.due : b \in decided' /\ Opened(b)'
    BY <1>1, <2>1 DEF SweepInv, WorldStep, Sweep
  <2> QED BY <1>1, <2>1, <2>2, <2>3 DEF SweepInv
<1> QED BY <1>5, <1>7, <1>8

\* A bet that is passed over is not decided or not shown.
LEMMA ResolveStep ==
    ASSUME Inv, TypeOK', WorldStep, NEW s \in Sweepers, ResolveOutcome(s)
    PROVE  SweepInv(s)'
<1> DEFINE sw == sweeps[s]
<1> DEFINE q == sweeps'[s]
<1>1. sw \in Sweep /\ sw.step = "resolve" /\ SweepInv(s)
  BY DEF Inv, TypeOK, ResolveOutcome, At
<1>2. PICK b \in sw.batch :
        \/ q = [sw EXCEPT !.step = "load", !.bet = b]
        \/ b \notin decided \cap shown /\ q = Passed(sw, b)
  BY DEF ResolveOutcome, Update, Oldest, Inv, TypeOK
<1>3. PendingBets' = PendingBets /\ decided' = decided /\ shown' = shown
  BY DEF ResolveOutcome, PendingBets
<1>4. CASE q = [sw EXCEPT !.step = "load", !.bet = b]
  <2>1. /\ q.step = "load" /\ q.batch = sw.batch /\ q.size = sw.size
        /\ q.page = sw.page /\ q.due = sw.due /\ q.left = sw.left /\ q.faulty = sw.faulty
    BY <1>1, <1>4 DEF Sweep
  <2>2. ASSUME NEW c \in Bets, Hopes(s, c)' PROVE Ahead(q, PendingBets', c)
    <3>1. Hopes(s, c)
      BY <2>1, <2>2, <1>3 DEF Hopes
    <3>2. Ahead(sw, PendingBets, c)
      BY <3>1, <1>1 DEF SweepInv
    <3> QED BY <3>2, <2>1, <1>1, <1>3 DEF Ahead
  <2>3. \A c \in q.due : c \in decided' /\ Opened(c)'
    BY <1>1, <2>1 DEF SweepInv, WorldStep, Sweep
  <2> QED BY <1>1, <2>1, <2>2, <2>3 DEF SweepInv
<1>5. CASE b \notin decided \cap shown /\ q = Passed(sw, b)
  <2>1. q.due = sw.due
    BY <1>1, <1>5, PassedFields
  <2>2. ~Hopes(s, b)'
    BY <2>1, <1>1, <1>3, <1>5 DEF Hopes, SweepInv
  <2> QED BY <2>2, <1>1, <1>3, <1>5, PassedSweep
<1> QED BY <1>2, <1>4, <1>5

\* A bet that SettleBet refuses is not pending.
LEMMA LoadStep ==
    ASSUME Inv, TypeOK', WorldStep, NEW s \in Sweepers, LoadBet(s)
    PROVE  SweepInv(s)'
<1> DEFINE sw == sweeps[s]
<1> DEFINE q == sweeps'[s]
<1>1. sw \in Sweep /\ sw.step = "load" /\ SweepInv(s)
  BY DEF Inv, TypeOK, LoadBet, At
<1>2. \/ Pending(sw.bet) /\ q = [sw EXCEPT !.step = "mark"]
      \/ ~Pending(sw.bet) /\ q = Passed(sw, sw.bet)
  BY DEF LoadBet, Update, Inv, TypeOK
<1>3. PendingBets' = PendingBets /\ decided' = decided /\ shown' = shown /\ status' = status
  BY DEF LoadBet, PendingBets
<1>4. CASE Pending(sw.bet) /\ q = [sw EXCEPT !.step = "mark"]
  <2>1. /\ q.step = "mark" /\ q.batch = sw.batch /\ q.size = sw.size /\ q.bet = sw.bet
        /\ q.page = sw.page /\ q.due = sw.due /\ q.left = sw.left /\ q.faulty = sw.faulty
    BY <1>1, <1>4 DEF Sweep
  <2>2. ASSUME NEW c \in Bets, Hopes(s, c)' PROVE Ahead(q, PendingBets', c)
    <3>1. Hopes(s, c)
      BY <2>1, <2>2, <1>3 DEF Hopes
    <3>2. Ahead(sw, PendingBets, c)
      BY <3>1, <1>1 DEF SweepInv
    <3> QED BY <3>2, <2>1, <1>1, <1>3 DEF Ahead
  <2>3. \A c \in q.due : c \in decided' /\ Opened(c)'
    BY <1>1, <2>1 DEF SweepInv, WorldStep, Sweep
  <2>4. q.bet \in Bets /\ status'[q.bet] \in {"pending", "closed"}
    BY <2>1, <1>3, <1>4 DEF Pending, PendingBets
  <2> QED BY <1>1, <2>1, <2>2, <2>3, <2>4 DEF SweepInv, Opened
<1>5. CASE ~Pending(sw.bet) /\ q = Passed(sw, sw.bet)
  <2>1. PICK b : b = sw.bet
    OBVIOUS
  <2>2. ~(b \in PendingBets')
    BY <1>3, <1>5, <2>1 DEF Pending
  <2>3. ~Hopes(s, b)'
    BY <2>2 DEF Hopes
  <2>4. q = Passed(sw, b)
    BY <1>5, <2>1
  <2> QED BY <2>3, <2>4, <1>1, <1>3, PassedSweep
<1> QED BY <1>2, <1>4, <1>5

\* The bet written as settled leaves, and no other.
LEMMA MarkStep ==
    ASSUME Inv, TypeOK', WorldStep, NEW s \in Sweepers, MarkSettled(s)
    PROVE  \A t \in Sweepers : SweepInv(t)'
<1>1. PICK b : b = sweeps[s].bet
  OBVIOUS
<1>2. b \in Bets /\ sweeps[s].step = "mark" /\ status' = [status EXCEPT ![b] = "closed"]
  BY <1>1 DEF Inv, SweepInv, MarkSettled, At
<1>3. b \notin PendingBets' /\ \A c \in PendingBets : c \in PendingBets' \/ c = b
  BY <1>2 DEF Inv, TypeOK, PendingBets
<1>4. ASSUME NEW t \in Sweepers, t # s PROVE SweepInv(t)'
  <2>1. sweeps'[t] = SeenLeaving(sweeps[t], b)
    BY <1>1, <1>4 DEF MarkSettled
  <2> QED BY <2>1, <1>3, OtherSweep
<1>5. SweepInv(s)'
  <2>1. PICK sw : sw = SeenLeaving(sweeps[s], b)
    OBVIOUS
  <2>2. sweeps'[s] = Passed(sw, b)
    BY <1>1, <2>1 DEF MarkSettled
  <2>3. sw \in Sweep /\ sw.step = "mark"
    BY <2>1, <1>2, SeenLeavingType DEF Inv, TypeOK
  <2>4. ~Hopes(s, b)'
    BY <1>3 DEF Hopes
  <2> QED BY <2>1, <2>2, <2>3, <2>4, <1>3, PassedSweep
<1> QED BY <1>4, <1>5

\* After a fault nothing is promised.
LEMMA FaultStep ==
    ASSUME Inv, TypeOK', WorldStep, NEW s \in Sweepers, SweepFault(s)
    PROVE  SweepInv(s)'
<1>1. PICK sw : sw = [sweeps[s] EXCEPT !.faulty = TRUE]
  OBVIOUS
<1>2. /\ sw \in Sweep /\ sw.faulty = TRUE /\ sw.due = sweeps[s].due /\ sw.page = sweeps[s].page
  BY <1>1 DEF Inv, TypeOK, Sweep
<1>3. sw.page >= 1
  BY <1>2 DEF Inv, SweepInv, SweepFault, At
<1>4. PICK b : sweeps'[s] = Ended(sw) \/ sweeps'[s] = Passed(sw, b)
  BY <1>1 DEF SweepFault, Update, Inv, TypeOK
<1>5. /\ sweeps'[s].due = sw.due /\ sweeps'[s].faulty = sw.faulty /\ sweeps'[s].step # "mark"
      /\ sweeps'[s].step # "idle" => sweeps'[s].page >= 1
  <2>1. CASE sweeps'[s] = Ended(sw)
    BY <2>1, <1>2, EndedType
  <2>2. CASE sweeps'[s] = Passed(sw, b)
    <3>1. PICK q : q = Passed(sw, b)
      OBVIOUS
    <3>2. /\ q.due = sw.due /\ q.faulty = sw.faulty /\ q.step # "mark"
          /\ q.step # "idle" => q.page >= 1
      BY <3>1, <1>2, <1>3, PassedFields
    <3> QED BY <3>1, <3>2, <2>2
  <2> QED BY <1>4, <2>1, <2>2
<1> QED BY <1>2, <1>5, FaultySweep

\* A bet settled by an administrator is seen to leave by every sweep.
LEMMA AdminStep ==
    ASSUME Inv, TypeOK', WorldStep, NEW r \in Requests, AdminMark(r)
    PROVE  \A t \in Sweepers : SweepInv(t)'
<1>1. PICK b : b = loaded[r]
  OBVIOUS
<1>2. status' = [status EXCEPT ![b] = "closed"]
  BY <1>1 DEF AdminMark
<1>3. \A c \in PendingBets : c \in PendingBets' \/ c = b
  BY <1>2 DEF Inv, TypeOK, PendingBets
<1>4. ASSUME NEW t \in Sweepers PROVE SweepInv(t)'
  <2>1. sweeps'[t] = SeenLeaving(sweeps[t], b)
    BY <1>1 DEF AdminMark
  <2> QED BY <2>1, <1>3, OtherSweep
<1> QED BY <1>4

\* A step that leaves the sweep of s alone and takes no bet from the pending ones.
LEMMA QuietSweep ==
    ASSUME Inv, TypeOK', WorldStep, NEW s \in Sweepers, sweeps'[s] = sweeps[s],
           PendingBets \subseteq PendingBets'
    PROVE  SweepInv(s)'
<1>1. SeenLeaving(sweeps[s], 0) = sweeps[s]
  BY DEF SeenLeaving, Pending, PendingBets, Bets
<1> QED BY <1>1, OtherSweep

\* The bet that an administrator has read was accepted and stays so.
LEMMA LoadedStep ==
    ASSUME Inv, TypeOK', WorldStep, [Next]_vars
    PROVE  LoadedInv'
<1>1. ASSUME loaded' = loaded PROVE LoadedInv'
  BY <1>1 DEF Inv, TypeOK, LoadedInv, WorldStep, Opened
<1>2. ASSUME NEW r \in Requests, NEW b \in Bets, AdminLoad(r, b) PROVE LoadedInv'
  BY <1>2 DEF AdminLoad, Inv, TypeOK, LoadedInv, Opened, Pending, PendingBets
<1>3. ASSUME NEW r \in Requests, AdminMark(r) PROVE LoadedInv'
  <2> SUFFICES ASSUME NEW q \in Requests, loaded'[q] # 0 PROVE Opened(loaded[q])'
    BY DEF LoadedInv
  <2>1. loaded'[q] = loaded[q] /\ loaded[q] \in Bets
    BY <1>3 DEF AdminMark, Inv, TypeOK
  <2> QED BY <2>1 DEF Inv, LoadedInv, WorldStep, Opened
<1> QED BY <1>1, <1>2, <1>3 DEF Next, SweepStep, vars, PlaceBet, FinishBet, Decide, Crowd,
           StartSweep, ListPage, ResolveOutcome, LoadBet, MarkSettled, SweepFault

\* The invariant is kept by every step.
LEMMA InvStep ==
    ASSUME Inv, [Next]_vars
    PROVE  Inv'
<1>1. TypeOK' /\ WorldStep
  BY TypeStep, WorldSteps DEF Inv
<1>2. LoadedInv'
  BY <1>1, LoadedStep
<1>3. ASSUME NEW b \in Bets, PlaceBet(b) \/ FinishBet(b) \/ Decide(b) \/ Crowd(b)
      PROVE  \A t \in Sweepers : SweepInv(t)'
  <2>1. sweeps' = sweeps /\ PendingBets \subseteq PendingBets'
    BY <1>3 DEF PlaceBet, FinishBet, Decide, Crowd, PendingBets, Inv, TypeOK
  <2> QED BY <2>1, <1>1, QuietSweep
<1>4. ASSUME NEW s \in Sweepers, NEW t \in Sweepers, SweepStep(s) \/ SweepFault(s),
             ~MarkSettled(s)
      PROVE  SweepInv(t)'
  <2>1. CASE t = s
    BY <1>1, <1>4, <2>1, StartStep, ListStep, ResolveStep, LoadStep, FaultStep DEF SweepStep
  <2>2. CASE t # s
    <3>1. sweeps'[t] = sweeps[t] /\ status' = status
      BY <1>4, <2>2 DEF SweepStep, StartSweep, ListPage, ResolveOutcome, LoadBet, SweepFault,
            Update, Inv, TypeOK
    <3> QED BY <3>1, <1>1, QuietSweep DEF PendingBets
  <2> QED BY <2>1, <2>2
<1>5. ASSUME NEW s \in Sweepers, MarkSettled(s) PROVE \A t \in Sweepers : SweepInv(t)'
  BY <1>1, <1>5, MarkStep
<1>6. ASSUME NEW r \in Requests, NEW b \in Bets, AdminLoad(r, b)
      PROVE  \A t \in Sweepers : SweepInv(t)'
  <2>1. sweeps' = sweeps /\ PendingBets' = PendingBets
    BY <1>6 DEF AdminLoad, PendingBets
  <2> QED BY <2>1, <1>1, QuietSweep
<1>7. ASSUME NEW r \in Requests, AdminMark(r) PROVE \A t \in Sweepers : SweepInv(t)'
  BY <1>1, <1>7, AdminStep
<1>8. ASSUME UNCHANGED vars PROVE \A t \in Sweepers : SweepInv(t)'
  <2>1. sweeps' = sweeps /\ PendingBets' = PendingBets
    BY <1>8 DEF vars, PendingBets
  <2> QED BY <2>1, <1>1, QuietSweep
<1>9. \A t \in Sweepers : SweepInv(t)'
  BY <1>3, <1>4, <1>5, <1>6, <1>7, <1>8 DEF Next, SweepStep
<1> QED BY <1>1, <1>2, <1>9 DEF Inv

\* The invariant holds at the start.
LEMMA InvInit ==
    ASSUME Init
    PROVE  Inv
<1>1. TypeOK
  BY SweepAssumption DEF Init, TypeOK, BetStatuses, NoSweep, Sweep, SweepSteps
<1>2. LoadedInv
  BY DEF Init, LoadedInv
<1>3. \A s \in Sweepers : SweepInv(s)
  BY DEF Init, SweepInv, NoSweep, Hopes
<1> QED BY <1>1, <1>2, <1>3 DEF Inv

\* The inductive invariant holds in every state that the sweeps reach.
THEOREM Invariance == Steps => []Inv
<1>1. Init => Inv
  BY InvInit
<1>2. Inv /\ [Next]_vars => Inv'
  BY InvStep
<1> QED BY <1>1, <1>2, PTL DEF Steps

\* The types of the bets, the feed's facts and the sweeps: every step keeps them.
THEOREM TypeCorrect == Steps => []TypeOK
<1>1. Inv => TypeOK
  BY DEF Inv
<1> QED BY <1>1, Invariance, PTL

\* A sweep without a fault (runOnce) misses a decided and shown bet only when an older
\* bet left the queue during the sweep, for pages of every size.
THEOREM ProgressHolds == Spec => []SweepProgress
<1>1. Inv => SweepProgress
  <2> SUFFICES ASSUME Inv, NEW s \in Sweepers, At(s, "idle"), ~sweeps[s].faulty,
                      NEW b \in sweeps[s].due, Pending(b), b \in shown,
                      \A c \in sweeps[s].left : ~(c < b)
               PROVE  FALSE
    BY DEF SweepProgress
  <2>1. b \in Bets /\ Hopes(s, b)
    BY DEF Hopes, Pending, PendingBets
  <2>2. Ahead(sweeps[s], PendingBets, b)
    BY <2>1 DEF Inv, SweepInv
  <2> QED BY <2>2 DEF Ahead, At
<1>2. Spec => Steps
  BY PTL DEF Spec
<1> QED BY <1>1, <1>2, Invariance, PTL

-----------------------------------------------------------------------------
(* The refinement. *)

\* What a bet's status may change to, and what that is for the queue.
LEMMA StatusStep ==
    ASSUME Inv, NEW b \in Bets, NEW st, status' = [status EXCEPT ![b] = st],
           decided' = decided, shown' = shown,
           \/ status[b] = "none" /\ st = "held"
           \/ status[b] = "held" /\ st \in {"pending", "closed"}
           \/ Opened(b) /\ st = "closed"
    PROVE  [Queue!QueueNext]_(Queue!queueVars)
<1> USE DEF Inv, TypeOK, PendingBets, Opened, Queue!queueVars
<1>1. CASE status[b] = "none" /\ st = "held"
  BY <1>1
<1>2. CASE status[b] = "held" /\ st = "pending"
  <2>1. Queue!Enter(b)
    BY <1>2 DEF Queue!Enter
  <2> QED BY <2>1 DEF Queue!QueueNext
<1>3. CASE status[b] = "held" /\ st = "closed"
  <2>1. Queue!Drop(b)
    BY <1>3 DEF Queue!Drop
  <2> QED BY <2>1 DEF Queue!QueueNext
<1>4. CASE status[b] = "pending" /\ st = "closed"
  <2>1. Queue!Close(b)
    BY <1>4 DEF Queue!Close
  <2> QED BY <2>1 DEF Queue!QueueNext
<1>5. CASE status[b] = "closed" /\ st = "closed"
  BY <1>5
<1> QED BY <1>1, <1>2, <1>3, <1>4, <1>5

\* A step that changes no bet is a step of the feed, or none.
LEMMA FeedStep ==
    ASSUME status' = status, decided \subseteq decided', shown' \subseteq shown
    PROVE  [Queue!QueueNext]_(Queue!queueVars)
<1>1. Queue!Feed
  BY DEF Queue!Feed, PendingBets
<1> QED BY <1>1 DEF Queue!QueueNext

\* Every step is a step of the queue, or none.
LEMMA QueueStep ==
    ASSUME Inv, [Next]_vars
    PROVE  [Queue!QueueNext]_(Queue!queueVars)
<1> DEFINE Goal == [Queue!QueueNext]_(Queue!queueVars)
<1>1. ASSUME NEW b \in Bets, PlaceBet(b) PROVE Goal
  BY <1>1, StatusStep DEF PlaceBet
<1>2. ASSUME NEW b \in Bets, FinishBet(b) PROVE Goal
  BY <1>2, StatusStep DEF FinishBet
<1>3. ASSUME NEW b \in Bets, Decide(b) \/ Crowd(b) PROVE Goal
  BY <1>3, FeedStep DEF Decide, Crowd
<1>4. ASSUME NEW s \in Sweepers, SweepStep(s) \/ SweepFault(s), ~MarkSettled(s) PROVE Goal
  BY <1>4, FeedStep DEF SweepStep, StartSweep, ListPage, ResolveOutcome, LoadBet, SweepFault
<1>5. ASSUME NEW s \in Sweepers, MarkSettled(s) PROVE Goal
  <2>1. sweeps[s].bet \in Bets /\ Opened(sweeps[s].bet)
    BY <1>5 DEF MarkSettled, At, Inv, SweepInv
  <2> QED BY <2>1, <1>5, StatusStep DEF MarkSettled
<1>6. ASSUME NEW r \in Requests, NEW b \in Bets, AdminLoad(r, b) PROVE Goal
  BY <1>6, FeedStep DEF AdminLoad
<1>7. ASSUME NEW r \in Requests, AdminMark(r) PROVE Goal
  <2>1. loaded[r] \in Bets /\ Opened(loaded[r])
    BY <1>7 DEF AdminMark, Inv, TypeOK, LoadedInv
  <2> QED BY <2>1, <1>7, StatusStep DEF AdminMark
<1>8. ASSUME UNCHANGED vars PROVE Goal
  BY <1>8, FeedStep DEF vars
<1> HIDE DEF Goal
<1>9. Goal
  BY <1>1, <1>2, <1>3, <1>4, <1>5, <1>6, <1>7, <1>8 DEF Next, SweepStep
<1> QED BY <1>9 DEF Goal

\* The sweeps, however they overlap each other and administrators, take only steps of
\* the abstract queue: a bet enters once, is closed once and never waits again.
THEOREM QueueRefined == Spec => Queue!QueueSteps
<1>1. Init => Queue!QueueInit
  BY DEF Init, Queue!QueueInit, PendingBets
<1>2. Inv /\ [Next]_vars => [Queue!QueueNext]_(Queue!queueVars)
  BY QueueStep
<1>3. Spec => Steps
  BY PTL DEF Spec
<1> QED BY <1>1, <1>2, <1>3, Invariance, PTL DEF Steps, Queue!QueueSteps
==============================================================================
