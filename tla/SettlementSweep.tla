--------------------------- MODULE SettlementSweep ---------------------------
(***************************************************************************)
(* The sweeps of the settlement scheduler (internal/sportsbook/scheduler.go *)
(* runOnce, and AutoSettleFromEvents, which has the same loop): a sweep     *)
(* pages through the pending bets by offset, oldest first, asks the feed    *)
(* about each bet of the page and settles it, while bets are placed,        *)
(* accepted and settled by others, so that bets move between pages.         *)
(*                                                                         *)
(* A bet is its position in the order of created_at.  Stakes, results and   *)
(* the wallet are in Sportsbook; here a bet is open or not.                 *)
(***************************************************************************)
EXTENDS Integers, FiniteSets

CONSTANTS
    NumBets,     \* bound: bets that are ever placed
    PageSize,    \* schedulerPageSize
    Sweepers,    \* schedulers, one for each running service
    Requests,    \* SettleBet requests of administrators
    MaxFaults    \* bound: calls that fail

ASSUME SweepAssumption ==
    NumBets \in Nat /\ PageSize \in Nat \ {0} /\ MaxFaults \in Nat

Bets == 1 .. NumBets

VARIABLES
    status,    \* of each bet; "held" is debit_pending
    decided,   \* bets whose outcome the feed has decided
    shown,     \* bets whose market and outcome are among the first 100 by name
    sweeps,    \* the sweep of each scheduler
    loaded,    \* the bet that a request of an administrator has read as pending, or 0
    faults

vars == <<status, decided, shown, sweeps, loaded, faults>>

BetStatuses == {"none", "held", "pending", "closed"}

SweepSteps == {"idle", "list", "resolve", "load", "mark"}

\* page, batch, size: the page being worked on, the bets of it still to do and how
\* many it had; bet: the one being settled, 0 if none.  due: bets that the sweep could
\* settle when it began; left: bets that have stopped to be pending since; faulty: a
\* call of it failed.
Sweep ==
    [step : SweepSteps, page : Nat, batch : SUBSET Bets, size : Nat, bet : Bets \cup {0},
     due : SUBSET Bets, left : SUBSET Bets, faulty : BOOLEAN]

NoSweep ==
    [step |-> "idle", page |-> 0, batch |-> {}, size |-> 0, bet |-> 0,
     due |-> {}, left |-> {}, faulty |-> FALSE]

TypeOK ==
    /\ status \in [Bets -> BetStatuses]
    /\ decided \subseteq Bets /\ shown \subseteq Bets
    /\ sweeps \in [Sweepers -> Sweep]
    /\ loaded \in [Requests -> Bets \cup {0}]
    /\ faults \in 0 .. MaxFaults

Init ==
    /\ status = [b \in Bets |-> "none"]
    /\ decided = {}
    /\ shown = Bets
    /\ sweeps = [s \in Sweepers |-> NoSweep]
    /\ loaded = [r \in Requests |-> 0]
    /\ faults = 0

-----------------------------------------------------------------------------
(* The bets and the feed. *)

PendingBets == {b \in Bets : status[b] = "pending"}

Pending(b) == b \in PendingBets

\* CreateBet: bets are numbered in the order of their times.
PlaceBet(b) ==
    /\ status[b] = "none"
    /\ \A c \in 1 .. b - 1 : status[c] # "none"
    /\ status' = [status EXCEPT ![b] = "held"]
    /\ UNCHANGED <<decided, shown, sweeps, loaded, faults>>

\* The debit was answered: the bet is accepted, or cancelled.
FinishBet(b) ==
    /\ status[b] = "held"
    /\ \E st \in {"pending", "closed"} : status' = [status EXCEPT ![b] = st]
    /\ UNCHANGED <<decided, shown, sweeps, loaded, faults>>

\* The outcome bet on is won, lost or cancelled.
Decide(b) ==
    /\ b \notin decided
    /\ decided' = decided \cup {b}
    /\ UNCHANGED <<status, shown, sweeps, loaded, faults>>

\* Other markets or outcomes of an earlier name take the first page.
Crowd(b) ==
    /\ b \in shown
    /\ shown' = shown \ {b}
    /\ UNCHANGED <<status, decided, sweeps, loaded, faults>>

-----------------------------------------------------------------------------
(* The listing. *)

\* The place of bet b in the order of their times among the bets of set P.
Rank(P, b) == Cardinality({c \in P : c < b})

\* Faulty variant: pages are numbered from zero.
OffsetZero(page) == page * PageSize

Offset(page) == (page - 1) * PageSize

\* ListPendingBets: a page of the pending bets, oldest first.
ListPendingBets(page) ==
    {b \in PendingBets :
        Rank(PendingBets, b) \in Offset(page) .. Offset(page) + PageSize - 1}

-----------------------------------------------------------------------------
(* The sweeps. *)

At(s, step) == sweeps[s].step = step

Update(s, sw) == sweeps' = [sweeps EXCEPT ![s] = sw]

Ended(sw) == [sw EXCEPT !.step = "idle", !.page = 0, !.batch = {}, !.size = 0, !.bet = 0]

\* The scheduler's tick, or its start.
StartSweep(s) ==
    /\ At(s, "idle")
    /\ Update(s, [NoSweep EXCEPT !.step = "list", !.page = 1,
                                 !.due = PendingBets \cap decided \cap shown])
    /\ UNCHANGED <<status, decided, shown, loaded, faults>>

ListPage(s) ==
    LET batch == ListPendingBets(sweeps[s].page)
        sw == sweeps[s]
    IN  /\ At(s, "list")
        /\ IF batch = {} THEN Update(s, Ended(sw))
           ELSE Update(s, [sw EXCEPT !.step = "resolve", !.batch = batch,
                                     !.size = Cardinality(batch)])
        /\ UNCHANGED <<status, decided, shown, loaded, faults>>

\* Faulty variant: a bet that cannot be settled ends the sweep.
PassedStop(sw, b) == Ended(sw)

\* The sweep when it is done with bet b: the next bet, the next page, or after a page
\* that was not full the end.
Passed(sw, b) ==
    IF sw.batch \ {b} # {}
    THEN [sw EXCEPT !.step = "resolve", !.batch = sw.batch \ {b}, !.bet = 0]
    ELSE IF sw.size < PageSize THEN Ended(sw)
    ELSE [sw EXCEPT !.step = "list", !.page = sw.page + 1, !.batch = {}, !.size = 0, !.bet = 0]

\* The next bet of a batch.
Oldest(batch) == {b \in batch : \A c \in batch : b <= c}

\* resolveOutcomeStatus: only a market and an outcome on the first page are found.
ResolveOutcome(s) ==
    LET sw == sweeps[s] IN
    /\ At(s, "resolve")
    /\ \E b \in Oldest(sw.batch) :
          IF b \in decided \cap shown THEN Update(s, [sw EXCEPT !.step = "load", !.bet = b])
          ELSE Update(s, Passed(sw, b))
    /\ UNCHANGED <<status, decided, shown, loaded, faults>>

\* SettleBet refuses a bet that is not pending any more; the sweep goes on.
LoadBet(s) ==
    LET sw == sweeps[s] IN
    /\ At(s, "load")
    /\ IF Pending(sw.bet) THEN Update(s, [sw EXCEPT !.step = "mark"])
       ELSE Update(s, Passed(sw, sw.bet))
    /\ UNCHANGED <<status, decided, shown, loaded, faults>>

\* Every sweep in progress sees bet b leave.
SeenLeaving(sw, b) ==
    IF sw.step # "idle" /\ Pending(b) THEN [sw EXCEPT !.left = sw.left \cup {b}] ELSE sw

\* UpdateBetStatusAndOutcome, whatever the status is by now; the credit follows
\* in Sportsbook.
MarkSettled(s) ==
    LET b == sweeps[s].bet IN
    /\ At(s, "mark")
    /\ status' = [status EXCEPT ![b] = "closed"]
    /\ sweeps' = [t \in Sweepers |->
                    IF t = s THEN Passed(SeenLeaving(sweeps[s], b), b)
                    ELSE SeenLeaving(sweeps[t], b)]
    /\ UNCHANGED <<decided, shown, loaded, faults>>

\* A listing fails or the service stops, and the sweep ends; or a call about a bet
\* fails and the bet is passed over.
SweepFault(s) ==
    LET sw == [sweeps[s] EXCEPT !.faulty = TRUE] IN
    /\ ~At(s, "idle")
    /\ faults < MaxFaults
    /\ faults' = faults + 1
    /\ \/ Update(s, Ended(sw))
       \/ \E b \in Oldest(sw.batch) : Update(s, Passed(sw, b))
    /\ UNCHANGED <<status, decided, shown, loaded>>

\* SettleBet of an administrator: the status is read, and later written.
AdminLoad(r, b) ==
    /\ loaded[r] = 0
    /\ Pending(b)
    /\ loaded' = [loaded EXCEPT ![r] = b]
    /\ UNCHANGED <<status, decided, shown, sweeps, faults>>

AdminMark(r) ==
    /\ loaded[r] # 0
    /\ status' = [status EXCEPT ![loaded[r]] = "closed"]
    /\ sweeps' = [s \in Sweepers |-> SeenLeaving(sweeps[s], loaded[r])]
    /\ loaded' = [loaded EXCEPT ![r] = 0]
    /\ UNCHANGED <<decided, shown, faults>>

-----------------------------------------------------------------------------
SweepStep(s) ==
    StartSweep(s) \/ ListPage(s) \/ ResolveOutcome(s) \/ LoadBet(s) \/ MarkSettled(s)

Next ==
    \/ \E b \in Bets : PlaceBet(b) \/ FinishBet(b) \/ Decide(b) \/ Crowd(b)
    \/ \E s \in Sweepers : SweepStep(s) \/ SweepFault(s)
    \/ \E r \in Requests, b \in Bets : AdminLoad(r, b)
    \/ \E r \in Requests : AdminMark(r)

Steps == Init /\ [][Next]_vars

\* A sweep goes on while its service runs, and the ticker starts the next one.
Spec == Steps /\ \A s \in Sweepers : WF_vars(SweepStep(s))

-----------------------------------------------------------------------------
\* A sweep of which no call failed has closed every bet that it could have closed
\* when it began, unless a market fell off the first page, or an older bet left the
\* queue during the sweep and moved the bet to a page already done.  So a bet is
\* passed over at most once for each bet older than it.
SweepProgress ==
    \A s \in Sweepers : At(s, "idle") /\ ~sweeps[s].faulty =>
        \A b \in sweeps[s].due :
            ~Pending(b) \/ b \notin shown \/ \E c \in sweeps[s].left : c < b

Queue == INSTANCE SettlementQueue WITH
    waiting <- PendingBets,
    closed <- {b \in Bets : status[b] = "closed"}

\* Sweeps by offset, overlapping each other and administrators, keep the promise of
\* the queue: a bet is closed for good, and one that the feed has decided and shows
\* is closed in the end.
ImplementsQueue == Queue!QueueSpec
==============================================================================
