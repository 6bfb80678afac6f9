--------------------------- MODULE SettlementQueue ---------------------------
(***************************************************************************)
(* What the automatic settlement of bets promises: an accepted bet waits   *)
(* until it is closed, which it is once and for all; and if the feed has   *)
(* decided its outcome and shows it, it is closed without anybody's help.  *)
(***************************************************************************)
CONSTANT Bets

VARIABLES
    waiting,  \* bets accepted and not closed
    closed,   \* bets settled, or cancelled before they were accepted
    decided,  \* bets on an outcome that the feed has decided
    shown     \* bets on a market and an outcome that the feed's first page shows

queueVars == <<waiting, closed, decided, shown>>

QueueInit ==
    /\ waiting = {}
    /\ closed = {}
    /\ decided = {}
    /\ shown = Bets

Enter(b) ==
    /\ b \notin waiting \cup closed
    /\ waiting' = waiting \cup {b}
    /\ UNCHANGED <<closed, decided, shown>>

Drop(b) ==
    /\ b \notin waiting \cup closed
    /\ closed' = closed \cup {b}
    /\ UNCHANGED <<waiting, decided, shown>>

Close(b) ==
    /\ b \in waiting
    /\ waiting' = waiting \ {b}
    /\ closed' = closed \cup {b}
    /\ UNCHANGED <<decided, shown>>

\* Outcomes are decided and markets fall off the first page.
Feed ==
    /\ decided \subseteq decided'
    /\ shown' \subseteq shown
    /\ UNCHANGED <<waiting, closed>>

QueueNext == (\E b \in Bets : Enter(b) \/ Drop(b) \/ Close(b)) \/ Feed

CloseDecided(b) == b \in decided \cap shown /\ Close(b)

\* The steps that are allowed, and the step that must come.
QueueSteps == QueueInit /\ [][QueueNext]_queueVars

QueueSpec == QueueSteps /\ \A b \in Bets : WF_queueVars(CloseDecided(b))
==============================================================================
