------------------------------ MODULE MCOddsFeed ------------------------------
(* Instances of OddsFeed for TLC. *)
EXTENDS OddsFeed

CONSTANTS g1, g2, p1, p2

\* The first game is paused and resumed, the second is given a state without a name.
MCVocabulary ==
    [g \in Games |-> IF g = g1 THEN {"Active", "Paused", "Resolved", "Won", "Canceled"}
                     ELSE {"Active", "Other", "Resolved", "Lost", "Removed"}]
=============================================================================
