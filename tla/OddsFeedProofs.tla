---------------------------- MODULE OddsFeedProofs ----------------------------
(***************************************************************************)
(* Proofs about OddsFeed, for any set of games and any number of callers   *)
(* of the syncs.  Results and statuses in the tables stay true because a   *)
(* running sync only ever holds snapshots that are no newer than the       *)
(* provider and no older than the tables, and syncMu keeps it alone.       *)
(***************************************************************************)
EXTENDS OddsFeed, SequenceTheorems, TLAPS

Results == {"Won", "Lost", "Canceled", "Removed"}

\* The result that an outcome's status stands for.
TrueResult(status, s) ==
    /\ status = "won" => s.out = "Won"
    /\ status = "lost" => s.out = "Lost"
    /\ status = "cancelled" => s.out \in {"Canceled", "Removed"} \/ ~s.known

\* How far a game is.
GameRank(game) == EventRank(NormalizeGameState(game))

\* syncMu
Alone == \A p, q \in Syncers : ~At(p, "idle") /\ ~At(q, "idle") => p = q

\* An outcome is decided with its condition, and a state without a name is remembered.
OpenTogether ==
    \A g \in Games :
        /\ src[g].cond \in Open => src[g].out = src[g].cond
        /\ src[g].out = "Other" => ~src[g].known

\* No event is stored further than its game is.
EventsTrue == \A g \in Games : EventRank(events[g]) <= GameRank(src[g].game)

\* The status a sync will write for an event is no step back, and true of the game.
InOrder(p, g) ==
    /\ EventRank(events[g]) <= EventRank(sync[p].found[g])
    /\ EventRank(sync[p].found[g]) <= GameRank(src[g].game)

\* What a sync has found of the games.
GamesHeld(p) ==
    /\ At(p, "statuses") => sync[p].kind # "live"
    /\ sync[p].step \in {"statuses", "events"} => \A g \in sync[p].todo : InOrder(p, g)
    /\ At(p, "conditions") /\ sync[p].kind = "live" =>
         \A g \in sync[p].changed : InOrder(p, g)
    /\ At(p, "events") /\ sync[p].kind = "live" => sync[p].todo \subseteq sync[p].changed
    /\ sync[p].step \in {"markets", "outcomes"} => sync[p].todo \subseteq sync[p].changed

\* The rows a sync will refer to are there.
RowsHeld(p) ==
    /\ At(p, "events") => \A g \in sync[p].changed \ sync[p].todo : events[g] # "none"
    /\ At(p, "conditions") /\ sync[p].kind # "live" =>
         \A g \in sync[p].changed : events[g] # "none"
    /\ At(p, "markets") => \A g \in sync[p].changed : events[g] # "none"
    /\ At(p, "markets") => \A g \in sync[p].changed \ sync[p].todo : markets[g] # "none"
    /\ At(p, "outcomes") => \A g \in sync[p].changed : markets[g] # "none"

HasQuotes(p) ==
    sync[p].step \in {"markets", "outcomes"} \/ (At(p, "events") /\ sync[p].kind = "live")

\* The quotes a sync holds are true, and repeat the results already stored.
QuotesHeld(p) ==
    /\ \A g \in Games : TrueResult(sync[p].quotes[g].outcome.status, src[g])
    /\ HasQuotes(p) =>
         \A g \in sync[p].changed :
            /\ sync[p].quotes[g].market # "none"
            /\ Final(g) => sync[p].quotes[g].outcome.status = outcomes[g].status

SyncsHold == \A p \in Syncers : GamesHeld(p) /\ RowsHeld(p) /\ QuotesHeld(p)

IInv ==
    /\ TypeOK
    /\ Alone
    /\ OpenTogether
    /\ EventsTrue
    /\ ResultsTrue
    /\ RowsLinked
    /\ SyncsHold

-----------------------------------------------------------------------------
(* Types *)

\* How far each state of a game is, and that its translation fits a snapshot.
LEMMA Ranks ==
    /\ \A s : EventRank(s) \in 0 .. 3
    /\ EventRank("none") = 0
    /\ \A s \in GameStates : NormalizeGameState(s) \in SnapshotStatus \ {"none"}
    /\ GameRank("Prematch") = 1 /\ GameRank("Live") = 2 /\ GameRank("Paused") = 2
    /\ GameRank("Finished") = 3 /\ GameRank("Canceled") = 3
  <1>1. \A s : EventRank(s) \in 0 .. 3
    BY DEF EventRank
  <1>2. EventRank("none") = 0
    BY DEF EventRank
  <1>3. /\ NormalizeGameState("Prematch") = "upcoming" /\ NormalizeGameState("Live") = "live"
        /\ NormalizeGameState("Finished") = "finished" /\ NormalizeGameState("Canceled") = "canceled"
        /\ NormalizeGameState("Paused") = "paused"
    BY DEF NormalizeGameState, ToLower
  <1>4. \A s \in GameStates : NormalizeGameState(s) \in SnapshotStatus \ {"none"}
    BY <1>3 DEF GameStates, SnapshotStatus, EventStatus
  <1>5. /\ GameRank("Prematch") = 1 /\ GameRank("Live") = 2 /\ GameRank("Paused") = 2
        /\ GameRank("Finished") = 3 /\ GameRank("Canceled") = 3
    BY <1>3 DEF GameRank, EventRank
  <1> QED
    BY <1>1, <1>2, <1>4, <1>5

\* Normalised states are statuses of the schema.
LEMMA NormalizedTypes ==
    ASSUME TypeOK, NEW g \in Games
    PROVE  /\ \A s \in ConditionStates : NormalizeConditionState(s) \in MarketStatus
           /\ \A s \in OutcomeStates : NormalizeOutcomeState(s) \in OutcomeStatus
           /\ BuildSnapshot(g).market \in MarketStatus
           /\ BuildSnapshot(g).outcome \in OutcomeRow
           /\ BuildSnapshot(g) \in [market : MarketStatus \cup {"none"},
                                    outcome : OutcomeRow \cup {NoOutcome}]
  <1>2. \A s \in ConditionStates : NormalizeConditionState(s) \in MarketStatus
    BY DEF NormalizeConditionState, ConditionStates, Open, MarketStatus
  <1>3. \A s \in OutcomeStates : NormalizeOutcomeState(s) \in OutcomeStatus
    BY DEF NormalizeOutcomeState, OutcomeStates, Open, OutcomeStatus
  <1>4. src[g].cond \in ConditionStates /\ src[g].out \in OutcomeStates /\ src[g].odds \in Odds
    BY DEF TypeOK, Source
  <1> QED
    BY <1>2, <1>3, <1>4 DEF BuildSnapshot, OutcomeRow

\* Sequences of at most one element.
LEMMA ShortSeq ==
    ASSUME NEW S, NEW x, NEW c \in BOOLEAN, c => x \in S
    PROVE  (IF c THEN <<x>> ELSE <<>>) \in Seq(S)
  OBVIOUS

\* The updates of a message fit the queue.
LEMMA MessageTypes ==
    ASSUME TypeOK, NEW g \in Games, NEW state \in ConditionStates \cup {""},
           NEW odds \in Odds \cup {0}, Push(g, state, odds)
    PROVE  updates' \in Seq(Update)
  <1>1. NormalizeConditionState(state) \in MarketStatus
    BY DEF NormalizeConditionState, ConditionStates, Open, MarketStatus
  <1> DEFINE a == [type |-> "status", game |-> g, status |-> NormalizeConditionState(state)]
             b == [type |-> "odds", game |-> g, odds |-> odds]
  <1>2. a \in Update
    BY <1>1 DEF Update
  <1>3. odds # 0 => b \in Update
    BY DEF Update
  <1> HIDE DEF a, b
  <1>4. (IF state # "" THEN <<a>> ELSE <<>>) \in Seq(Update)
    BY <1>2, ShortSeq
  <1>5. (IF odds # 0 THEN <<b>> ELSE <<>>) \in Seq(Update)
    BY <1>3, ShortSeq
  <1>6. UpdatesFromMessage(g, state, odds) \in Seq(Update)
    BY <1>4, <1>5, ConcatProperties DEF UpdatesFromMessage, a, b
  <1> QED
    BY <1>6, ConcatProperties DEF Push, TypeOK

\* What a change of one game means for all of them.
LEMMA ChangeForward ==
    ASSUME TypeOK, NEW g \in Games, NEW new \in Source, Change(g, new),
           GameRank(src[g].game) <= GameRank(new.game), new.known => src[g].known
    PROVE  /\ src' \in [Games -> Source]
           /\ changes' \in 0 .. MaxChanges
           /\ UNCHANGED <<tables, sync, stream, faults>>
           /\ \A h \in Games : GameRank(src[h].game) <= GameRank(src'[h].game)
           /\ \A h \in Games : src'[h].known => src[h].known
           /\ /\ OpenTogether
              /\ new.cond \in Open => new.out = new.cond
              /\ new.out = "Other" => ~new.known
              => OpenTogether'
           /\ (src[g].out \in Results => new.out = src[g].out) =>
                 \A h \in Games : src[h].out \in Results => src'[h].out = src[h].out
  <1>1. src' = [src EXCEPT ![g] = new] /\ src \in [Games -> Source]
    BY DEF Change, TypeOK
  <1>2. changes' \in 0 .. MaxChanges
    BY FeedAssumption DEF Change, TypeOK
  <1>3. UNCHANGED <<tables, sync, stream, faults>>
    BY DEF Change
  <1>4. \A h \in Games : src'[h] = IF h = g THEN new ELSE src[h]
    BY <1>1
  <1>5. \A h \in Games : GameRank(src[h].game) <= GameRank(src'[h].game)
    <2>1. \A s : GameRank(s) \in 0 .. 3
      BY Ranks DEF GameRank
    <2> QED
      BY <1>4, <2>1
  <1> QED
    BY <1>1, <1>2, <1>3, <1>4, <1>5 DEF OpenTogether

\* The provider's steps: games never go back to before their start, decided outcomes
\* stay, and nothing of the service is touched but the queue.
LEMMA ProviderForward ==
    ASSUME TypeOK, OpenTogether, NEW g \in Games, Provider(g)
    PROVE  /\ src' \in [Games -> Source]
           /\ updates' \in Seq(Update)
           /\ changes' \in 0 .. MaxChanges
           /\ UNCHANGED <<tables, sync, stream, faults>>
           /\ OpenTogether'
           /\ \A h \in Games : GameRank(src[h].game) <= GameRank(src'[h].game)
           /\ \A h \in Games : src'[h].known => src[h].known
           /\ \A h \in Games : src[h].out \in Results => src'[h].out = src[h].out
  <1>1. src[g] \in Source /\ updates \in Seq(Update)
    BY DEF TypeOK
  <1>2. /\ src[g].cond \in Open => src[g].out = src[g].cond
        /\ src[g].out = "Other" => ~src[g].known
        /\ GameRank(src[g].game) <= GameRank(src[g].game)
    <2>1. GameRank(src[g].game) \in 0 .. 3
      BY Ranks DEF GameRank
    <2> QED
      BY <2>1 DEF OpenTogether
  <1>3. CASE GameStarts(g)
    <2> DEFINE new == [src[g] EXCEPT !.game = "Live", !.list = "Live"]
    <2>1. /\ new \in Source /\ new.game = "Live" /\ new.known = src[g].known
          /\ new.out = src[g].out /\ new.cond = src[g].cond
      BY <1>1 DEF Source, GameStates
    <2>0. GameRank(src[g].game) <= GameRank(new.game)
      BY <1>3, <2>1, Ranks DEF GameStarts
    <2>2. Change(g, new) /\ UNCHANGED updates
      BY <1>3 DEF GameStarts
    <2> HIDE DEF new
    <2> QED
      BY <1>1, <1>2, <2>0, <2>1, <2>2, ChangeForward
  <1>4. CASE GameEnds(g)
    <2> DEFINE new == [src[g] EXCEPT !.game = "Finished", !.list = "none"]
    <2>1. /\ new \in Source /\ new.game = "Finished" /\ new.known = src[g].known
          /\ new.out = src[g].out /\ new.cond = src[g].cond
      BY <1>1 DEF Source, GameStates
    <2>0. GameRank(src[g].game) <= GameRank(new.game)
      BY <1>4, <2>1, Ranks DEF GameEnds
    <2>2. Change(g, new) /\ UNCHANGED updates
      BY <1>4 DEF GameEnds
    <2> HIDE DEF new
    <2> QED
      BY <1>1, <1>2, <2>0, <2>1, <2>2, ChangeForward
  <1>8. CASE GameInterrupted(g)
    <2>1. PICK s \in {"Paused", "Canceled"} : Change(g, [src[g] EXCEPT !.game = s])
      BY <1>8 DEF GameInterrupted
    <2> DEFINE new == [src[g] EXCEPT !.game = s]
    <2>2. /\ new \in Source /\ new.game = s /\ new.known = src[g].known
          /\ new.out = src[g].out /\ new.cond = src[g].cond
      BY <1>1 DEF Source, GameStates
    <2>3. GameRank(src[g].game) <= GameRank(new.game)
      BY <1>8, <2>2, Ranks DEF GameInterrupted
    <2>4. Change(g, new) /\ UNCHANGED updates
      BY <1>8, <2>1 DEF GameInterrupted
    <2> HIDE DEF new
    <2> QED
      BY <1>1, <1>2, <2>2, <2>3, <2>4, ChangeForward
  <1>5. CASE Requote(g)
    <2>1. PICK o \in Odds : Change(g, [src[g] EXCEPT !.odds = o]) /\ Push(g, "", o)
      BY <1>5 DEF Requote
    <2> DEFINE new == [src[g] EXCEPT !.odds = o]
    <2>2. updates' \in Seq(Update)
      BY <2>1, MessageTypes
    <2>3. /\ new \in Source /\ new.game = src[g].game /\ new.known = src[g].known
          /\ new.out = src[g].out /\ new.cond = src[g].cond
      BY <1>1 DEF Source
    <2> HIDE DEF new
    <2>4. Change(g, new)
      BY <2>1 DEF new
    <2> QED
      BY <1>2, <2>2, <2>3, <2>4, ChangeForward
  <1>6. CASE Pause(g)
    <2>1. PICK s \in Open :
            /\ Change(g, [src[g] EXCEPT !.cond = s, !.out = s, !.known = @ /\ s # "Other"])
            /\ Push(g, s, 0)
      BY <1>6 DEF Pause
    <2> DEFINE new == [src[g] EXCEPT !.cond = s, !.out = s, !.known = @ /\ s # "Other"]
    <2>2. updates' \in Seq(Update)
      BY <2>1, MessageTypes DEF ConditionStates
    <2>3. /\ new \in Source /\ new.game = src[g].game /\ new.out = s /\ new.cond = s
          /\ new.known = (src[g].known /\ s # "Other")
      BY <1>1 DEF Source, ConditionStates, OutcomeStates
    <2>4. src[g].out \notin Results
      BY <1>2, <1>6 DEF Pause, Results, Open
    <2> HIDE DEF new
    <2>5. Change(g, new)
      BY <2>1 DEF new
    <2> QED
      BY <1>2, <2>2, <2>3, <2>4, <2>5, ChangeForward
  <1>7. CASE Resolve(g)
    <2>1. PICK res \in {<<"Resolved", "Won">>, <<"Resolved", "Lost">>, <<"Canceled", "Canceled">>,
                        <<"Removed", "Removed">>} :
            Change(g, [src[g] EXCEPT !.cond = res[1], !.out = res[2]]) /\ Push(g, res[1], 0)
      BY <1>7 DEF Resolve
    <2> DEFINE new == [src[g] EXCEPT !.cond = res[1], !.out = res[2]]
    <2>2. res[1] \in {"Resolved", "Canceled", "Removed"} /\ res[2] \in Results
      BY DEF Results
    <2>3. updates' \in Seq(Update)
      BY <2>1, <2>2, MessageTypes DEF ConditionStates
    <2>4. /\ new \in Source /\ new.game = src[g].game /\ new.known = src[g].known
          /\ new.cond \notin Open /\ new.out # "Other"
      BY <1>1, <2>2 DEF Source, ConditionStates, OutcomeStates, Results, Open
    <2>5. src[g].out \notin Results
      BY <1>2, <1>7 DEF Resolve, Results, Open
    <2> HIDE DEF new
    <2>6. Change(g, new)
      BY <2>1 DEF new
    <2> QED
      BY <1>2, <2>3, <2>4, <2>5, <2>6, ChangeForward
  <1> QED
    BY <1>3, <1>4, <1>5, <1>6, <1>7, <1>8 DEF Provider

\* An idle sync has its type.
LEMMA IdleTypes ==
    ASSUME NEW kind
    PROVE  /\ kind \in Kinds => Idle(kind) \in Sync
           /\ Idle(NextKind(kind)) \in Sync
           /\ NoQuotes \in [Games -> [market : MarketStatus \cup {"none"},
                                      outcome : OutcomeRow \cup {NoOutcome}]]
  <1>1. NoQuotes \in [Games -> [market : MarketStatus \cup {"none"},
                                outcome : OutcomeRow \cup {NoOutcome}]]
    BY DEF NoQuotes
  <1>2. NextKind(kind) \in Kinds
    BY DEF NextKind, Kinds
  <1>0. NoEvents \in [Games -> SnapshotStatus]
    BY DEF NoEvents, SnapshotStatus
  <1>3. \A k \in Kinds : Idle(k) \in Sync
    BY <1>0, <1>1 DEF Idle, Sync, SyncSteps
  <1> QED
    BY <1>1, <1>2, <1>3

\* A step of a sync keeps the types.
LEMMA SyncTypes ==
    ASSUME TypeOK, NEW p \in Syncers, SyncStep(p)
    PROVE  TypeOK'
  <1> USE FeedAssumption
  <1>1. /\ sync[p] \in Sync /\ End(p) \in Sync
        /\ sync[p].kind \in Kinds /\ sync[p].todo \subseteq Games /\ sync[p].changed \subseteq Games
        /\ sync[p].found \in [Games -> SnapshotStatus]
        /\ sync[p].quotes \in [Games -> [market : MarketStatus \cup {"none"},
                                         outcome : OutcomeRow \cup {NoOutcome}]]
    BY IdleTypes DEF TypeOK, Sync, End
  <1>2. /\ \A listed : Hierarchy(listed) \in [Games -> SnapshotStatus]
        /\ NoEvents \in [Games -> SnapshotStatus]
    <2>1. \A g \in Games : NormalizeGameState(src[g].game) \in SnapshotStatus
      BY Ranks DEF TypeOK, Source
    <2> QED
      BY <2>1 DEF Hierarchy, NoEvents, SnapshotStatus
  <1>3. \A new \in Sync : SetSync(p, new) => sync' \in [Syncers -> Sync]
    BY DEF SetSync, TypeOK
  <1>4. CASE BeginSync(p)
    <2>1. [sync[p] EXCEPT !.step = "games"] \in Sync
      BY <1>1 DEF Sync, SyncSteps
    <2> QED
      BY <1>3, <1>4, <2>1 DEF BeginSync, SetSync, TypeOK, tables
  <1>5. CASE FetchHierarchy(p)
    <2> DEFINE listed == FetchSports(GameState(p))
               found == Hierarchy(listed)
    <2>1. listed \subseteq Games /\ found \in [Games -> SnapshotStatus]
      BY <1>2 DEF FetchSports
    <2> HIDE DEF found
    <2>2. [sync[p] EXCEPT !.step = "statuses", !.found = found, !.todo = listed] \in Sync
      BY <1>1, <2>1 DEF Sync, SyncSteps
    <2>3. FetchSnapshot(p, listed) \in Sync
      BY <1>1, <2>1 DEF Sync, SyncSteps, FetchSnapshot, found
    <2> HIDE DEF listed
    <2> QED
      BY <1>3, <1>5, <2>2, <2>3 DEF FetchHierarchy, SetSync, TypeOK, tables, found, listed
  <1>6. CASE ReadStatuses(p)
    <2>1. ChangedEventIDs(p) \subseteq Games
      BY <1>1 DEF ChangedEventIDs
    <2>2. [sync[p] EXCEPT !.step = "events", !.changed = ChangedEventIDs(p)] \in Sync
      BY <1>1, <2>1 DEF Sync, SyncSteps
    <2> QED
      BY <1>3, <1>6, <2>2 DEF ReadStatuses, SetSync, TypeOK, tables
  <1>7. CASE WriteEvent(p)
    <2>1. PICK g \in sync[p].todo :
            /\ UpsertEvent(g, sync[p].found[g])
            /\ SetSync(p, IF sync[p].found[g] \in EventStatus
                          THEN [sync[p] EXCEPT !.todo = @ \ {g}] ELSE End(p))
      BY <1>7 DEF WriteEvent
    <2>2. [sync[p] EXCEPT !.todo = @ \ {g}] \in Sync
      BY <1>1 DEF Sync
    <2>3. events' \in [Games -> EventStatus \cup {"none"}]
      BY <2>1 DEF TypeOK, UpsertEvent
    <2>4. sync' \in [Syncers -> Sync]
      BY <1>1, <1>3, <2>1, <2>2
    <2> QED
      BY <1>7, <2>1, <2>3, <2>4 DEF WriteEvent, SetSync, TypeOK
  <1>8. CASE EventsDone(p)
    <2>1. /\ [sync[p] EXCEPT !.step = "markets", !.found = NoEvents,
                              !.todo = sync[p].changed] \in Sync
          /\ [sync[p] EXCEPT !.step = "conditions", !.found = NoEvents] \in Sync
      BY <1>1, <1>2 DEF Sync, SyncSteps
    <2> QED
      BY <1>1, <1>3, <1>8, <2>1 DEF EventsDone, SetSync, TypeOK, tables
  <1>9. CASE FetchConditions(p)
    <2> DEFINE q == Quotes(sync[p].changed)
               step == IF sync[p].kind = "live" THEN "events" ELSE "markets"
    <2>1. q \in [Games -> [market : MarketStatus \cup {"none"},
                           outcome : OutcomeRow \cup {NoOutcome}]]
      BY NormalizedTypes, IdleTypes DEF Quotes
    <2>2. step \in SyncSteps
      BY DEF SyncSteps
    <2> HIDE DEF q, step
    <2>3. [sync[p] EXCEPT !.step = step, !.todo = sync[p].changed, !.quotes = q] \in Sync
      BY <1>1, <2>1, <2>2 DEF Sync
    <2> QED
      BY <1>3, <1>9, <2>3 DEF FetchConditions, SetSync, TypeOK, tables, q, step
  <1>10. CASE WriteMarket(p)
    <2>1. PICK g \in sync[p].todo :
            /\ markets' = [markets EXCEPT ![g] = sync[p].quotes[g].market]
            /\ SetSync(p, IF sync[p].todo = {g}
                          THEN [sync[p] EXCEPT !.step = "outcomes", !.todo = sync[p].changed]
                          ELSE [sync[p] EXCEPT !.todo = @ \ {g}])
      BY <1>10 DEF WriteMarket, UpsertMarket
    <2>2. /\ [sync[p] EXCEPT !.step = "outcomes", !.todo = sync[p].changed] \in Sync
          /\ [sync[p] EXCEPT !.todo = @ \ {g}] \in Sync
      BY <1>1 DEF Sync, SyncSteps
    <2>3. markets' \in [Games -> MarketStatus \cup {"none"}]
      BY <1>1, <2>1 DEF TypeOK
    <2> QED
      BY <1>3, <1>10, <2>1, <2>2, <2>3 DEF WriteMarket, UpsertMarket, SetSync, TypeOK
  <1>11. CASE WriteOutcome(p)
    <2>1. PICK g \in sync[p].todo :
            /\ outcomes' = [outcomes EXCEPT ![g] = sync[p].quotes[g].outcome]
            /\ SetSync(p, IF sync[p].todo = {g} THEN End(p)
                          ELSE [sync[p] EXCEPT !.todo = @ \ {g}])
      BY <1>11 DEF WriteOutcome, UpsertOutcome
    <2>2. [sync[p] EXCEPT !.todo = @ \ {g}] \in Sync
      BY <1>1 DEF Sync
    <2>3. outcomes' \in [Games -> OutcomeRow \cup {NoOutcome}]
      BY <1>1, <2>1 DEF TypeOK
    <2> QED
      BY <1>1, <1>3, <1>11, <2>1, <2>2, <2>3 DEF WriteOutcome, UpsertOutcome, SetSync, TypeOK
  <1> QED
    BY <1>4, <1>5, <1>6, <1>7, <1>8, <1>9, <1>10, <1>11 DEF SyncStep

-----------------------------------------------------------------------------
(* The invariant *)

\* A sync that has ended, or not begun, holds nothing.
LEMMA IdleHolds ==
    ASSUME NEW p \in Syncers, NEW kind, sync'[p] = Idle(kind)
    PROVE  GamesHeld(p)' /\ RowsHeld(p)' /\ QuotesHeld(p)'
  <1>1. sync'[p].step = "idle" /\ \A g \in Games : sync'[p].quotes[g].outcome.status = "none"
    BY DEF Idle, NoQuotes, NoOutcome
  <1> QED
    BY <1>1 DEF GamesHeld, RowsHeld, QuotesHeld, HasQuotes, TrueResult, At

\* What the snapshot says of a result is true, and repeats a stored one.
LEMMA SnapshotTrue ==
    ASSUME TypeOK, OpenTogether, ResultsTrue, NEW g \in Games
    PROVE  /\ TrueResult(BuildSnapshot(g).outcome.status, src[g])
           /\ Final(g) => BuildSnapshot(g).outcome.status = outcomes[g].status
  <1>1. src[g].out \in OutcomeStates
    BY DEF TypeOK, Source
  <1>2. BuildSnapshot(g).outcome.status = NormalizeOutcomeState(src[g].out)
    BY DEF BuildSnapshot
  <1>3. src[g].out = "Other" => ~src[g].known
    BY DEF OpenTogether
  <1>4. TrueResult(BuildSnapshot(g).outcome.status, src[g])
    BY <1>1, <1>2, <1>3 DEF NormalizeOutcomeState, OutcomeStates, Open, TrueResult
  <1>5. Final(g) => BuildSnapshot(g).outcome.status = outcomes[g].status
    BY <1>2 DEF NormalizeOutcomeState, ResultsTrue, Final
  <1> QED
    BY <1>4, <1>5

\* What a step of sync p keeps of the invariant, besides its types and the lock.
HeldAfter(p) ==
    /\ EventsTrue' /\ ResultsTrue' /\ RowsLinked'
    /\ GamesHeld(p)' /\ RowsHeld(p)' /\ QuotesHeld(p)'
    /\ Forward

\* Steps of a sync that write no row.
LEMMA ReadingSteps ==
    ASSUME IInv, NEW p \in Syncers,
           BeginSync(p) \/ FetchHierarchy(p) \/ ReadStatuses(p) \/ EventsDone(p)
             \/ FetchConditions(p)
    PROVE  HeldAfter(p)
  <1>1. TypeOK /\ OpenTogether /\ EventsTrue /\ ResultsTrue /\ RowsLinked
        /\ GamesHeld(p) /\ RowsHeld(p) /\ QuotesHeld(p)
    BY DEF IInv, SyncsHold
  <1>2. UNCHANGED <<src, events, markets, outcomes>>
    BY DEF BeginSync, FetchHierarchy, ReadStatuses, EventsDone, FetchConditions, SetSync, tables
  <1>3. EventsTrue' /\ ResultsTrue' /\ RowsLinked'
    BY <1>1, <1>2 DEF EventsTrue, ResultsTrue, RowsLinked
  <1>4. Forward
    BY <1>2, Ranks DEF Forward
  <1>5. sync \in [Syncers -> Sync] /\ sync[p] \in Sync
    BY <1>1 DEF TypeOK
  <1>6. CASE BeginSync(p)
    <2>1. sync'[p].step = "games" /\ sync'[p].quotes = sync[p].quotes
      BY <1>5, <1>6 DEF BeginSync, SetSync, Sync
    <2>2. GamesHeld(p)' /\ RowsHeld(p)' /\ QuotesHeld(p)'
      BY <1>1, <1>2, <2>1 DEF GamesHeld, RowsHeld, QuotesHeld, HasQuotes, Final, At
    <2> QED
      BY <1>3, <1>4, <2>2 DEF HeldAfter
  <1>7. CASE FetchHierarchy(p)
    <2> DEFINE listed == FetchSports(GameState(p))
               found == Hierarchy(listed)
    <2>0. \A g \in listed : /\ g \in Games
                            /\ EventRank(events[g]) <= EventRank(found[g])
                            /\ EventRank(found[g]) <= GameRank(src[g].game)
      <3>1. \A g \in listed : g \in Games /\ EventRank(found[g]) = GameRank(src[g].game)
        BY DEF FetchSports, Hierarchy, GameRank
      <3> HIDE DEF found, listed
      <3>2. \A s : GameRank(s) \in 0 .. 3
        BY Ranks DEF GameRank
      <3>3. ASSUME NEW g \in listed
            PROVE  /\ g \in Games
                   /\ EventRank(events[g]) <= EventRank(found[g])
                   /\ EventRank(found[g]) <= GameRank(src[g].game)
        <4>1. g \in Games /\ EventRank(found[g]) = GameRank(src[g].game)
          BY <3>1
        <4>2. EventRank(events[g]) <= GameRank(src[g].game)
          BY <1>1, <4>1 DEF EventsTrue
        <4>3. GameRank(src[g].game) <= GameRank(src[g].game)
          BY <3>2
        <4> QED
          BY <4>1, <4>2, <4>3
      <3> QED
        BY <3>3
    <2> HIDE DEF found, listed
    <2>1. CASE sync[p].kind # "live"
      <3>1. /\ sync'[p].step = "statuses" /\ sync'[p].kind = sync[p].kind
            /\ sync'[p].todo = listed /\ sync'[p].found = found
            /\ sync'[p].quotes = sync[p].quotes
        BY <1>5, <1>7, <2>1 DEF FetchHierarchy, SetSync, Sync, found, listed
      <3>2. GamesHeld(p)'
        BY <1>2, <2>0, <2>1, <3>1 DEF GamesHeld, InOrder, At
      <3>3. RowsHeld(p)' /\ QuotesHeld(p)'
        BY <1>1, <1>2, <2>1, <3>1 DEF RowsHeld, QuotesHeld, HasQuotes, At
      <3> QED
        BY <1>3, <1>4, <3>2, <3>3 DEF HeldAfter
    <2>2. CASE sync[p].kind = "live" /\ listed = {}
      <3>1. sync'[p] = End(p)
        BY <1>5, <1>7, <2>2 DEF FetchHierarchy, FetchSnapshot, SetSync, listed
      <3> QED
        BY <1>3, <1>4, <3>1, IdleHolds DEF HeldAfter, End
    <2>3. CASE sync[p].kind = "live" /\ listed # {}
      <3>1. /\ sync'[p].step = "conditions" /\ sync'[p].kind = sync[p].kind
            /\ sync'[p].changed = listed /\ sync'[p].found = found
            /\ sync'[p].quotes = sync[p].quotes
        BY <1>5, <1>7, <2>3 DEF FetchHierarchy, FetchSnapshot, SetSync, Sync, found, listed
      <3>2. GamesHeld(p)'
        BY <1>2, <2>0, <2>3, <3>1 DEF GamesHeld, InOrder, At
      <3>3. RowsHeld(p)' /\ QuotesHeld(p)'
        BY <1>1, <1>2, <2>3, <3>1 DEF RowsHeld, QuotesHeld, HasQuotes, At
      <3> QED
        BY <1>3, <1>4, <3>2, <3>3 DEF HeldAfter
    <2> QED
      BY <2>1, <2>2, <2>3
  <1>8. CASE ReadStatuses(p)
    <2>1. /\ sync'[p].step = "events" /\ sync'[p].kind = sync[p].kind
          /\ sync'[p].todo = sync[p].todo /\ sync'[p].changed = ChangedEventIDs(p)
          /\ sync'[p].found = sync[p].found /\ sync'[p].quotes = sync[p].quotes
      BY <1>5, <1>8 DEF ReadStatuses, SetSync, Sync
    <2>2. ChangedEventIDs(p) \subseteq sync[p].todo /\ sync[p].kind # "live"
      BY <1>1, <1>8 DEF ChangedEventIDs, ReadStatuses, GamesHeld
    <2>3. GamesHeld(p)' /\ RowsHeld(p)' /\ QuotesHeld(p)'
      BY <1>1, <1>2, <1>8, <2>1, <2>2
      DEF ReadStatuses, GamesHeld, InOrder, RowsHeld, QuotesHeld, HasQuotes, Final, At
    <2> QED
      BY <1>3, <1>4, <2>3 DEF HeldAfter
  <1>9. CASE EventsDone(p)
    <2>1. CASE sync[p].changed = {}
      <3>1. sync'[p] = End(p)
        BY <1>5, <1>9, <2>1 DEF EventsDone, SetSync
      <3> QED
        BY <1>3, <1>4, <3>1, IdleHolds DEF HeldAfter, End
    <2>2. CASE sync[p].changed # {} /\ sync[p].kind = "live"
      <3>1. /\ sync'[p].step = "markets" /\ sync'[p].kind = sync[p].kind
            /\ sync'[p].todo = sync[p].changed /\ sync'[p].changed = sync[p].changed
            /\ sync'[p].quotes = sync[p].quotes
        BY <1>5, <1>9, <2>2 DEF EventsDone, SetSync, Sync
      <3>2. GamesHeld(p)' /\ RowsHeld(p)' /\ QuotesHeld(p)'
        BY <1>1, <1>2, <1>9, <2>2, <3>1
        DEF EventsDone, GamesHeld, RowsHeld, QuotesHeld, HasQuotes, Final, At
      <3> QED
        BY <1>3, <1>4, <3>2 DEF HeldAfter
    <2>3. CASE sync[p].changed # {} /\ sync[p].kind # "live"
      <3>1. /\ sync'[p].step = "conditions" /\ sync'[p].kind = sync[p].kind
            /\ sync'[p].changed = sync[p].changed /\ sync'[p].quotes = sync[p].quotes
        BY <1>5, <1>9, <2>3 DEF EventsDone, SetSync, Sync
      <3>2. GamesHeld(p)' /\ RowsHeld(p)' /\ QuotesHeld(p)'
        BY <1>1, <1>2, <1>9, <2>3, <3>1
        DEF EventsDone, GamesHeld, RowsHeld, QuotesHeld, HasQuotes, Final, At
      <3> QED
        BY <1>3, <1>4, <3>2 DEF HeldAfter
    <2> QED
      BY <2>1, <2>2, <2>3
  <1>10. CASE FetchConditions(p)
    <2> DEFINE q == Quotes(sync[p].changed)
               step == IF sync[p].kind = "live" THEN "events" ELSE "markets"
    <2>1. /\ sync'[p].step = step /\ sync'[p].kind = sync[p].kind
          /\ sync'[p].todo = sync[p].changed /\ sync'[p].changed = sync[p].changed
          /\ sync'[p].found = sync[p].found /\ sync'[p].quotes = q
      BY <1>5, <1>10 DEF FetchConditions, SetSync, Sync
    <2>2. sync[p].changed \subseteq Games
      BY <1>5 DEF Sync
    <2>3. \A g \in Games : TrueResult(q[g].outcome.status, src[g])
      BY <1>1, <2>2, SnapshotTrue DEF Quotes, TrueResult, NoQuotes, NoOutcome
    <2>4. \A g \in sync[p].changed :
            /\ q[g].market # "none"
            /\ Final(g) => q[g].outcome.status = outcomes[g].status
      BY <1>1, <2>2, SnapshotTrue, NormalizedTypes DEF Quotes, MarketStatus
    <2> HIDE DEF q
    <2>5. QuotesHeld(p)'
      BY <1>2, <2>1, <2>3, <2>4 DEF QuotesHeld, Final
    <2>6. GamesHeld(p)' /\ RowsHeld(p)'
      BY <1>1, <1>2, <1>10, <2>1 DEF FetchConditions, GamesHeld, InOrder, RowsHeld, At
    <2> QED
      BY <1>3, <1>4, <2>5, <2>6 DEF HeldAfter
  <1> QED
    BY <1>6, <1>7, <1>8, <1>9, <1>10

\* Steps of a sync that write one row.
LEMMA WritingSteps ==
    ASSUME IInv, NEW p \in Syncers, WriteEvent(p) \/ WriteMarket(p) \/ WriteOutcome(p)
    PROVE  HeldAfter(p)
  <1>1. TypeOK /\ EventsTrue /\ ResultsTrue /\ RowsLinked
        /\ GamesHeld(p) /\ RowsHeld(p) /\ QuotesHeld(p)
    BY DEF IInv, SyncsHold
  <1>2. src' = src
    BY DEF WriteEvent, UpsertEvent, WriteMarket, UpsertMarket, WriteOutcome, UpsertOutcome, SetSync
  <1>3. /\ sync \in [Syncers -> Sync] /\ sync[p] \in Sync
        /\ events \in [Games -> EventStatus \cup {"none"}]
        /\ markets \in [Games -> MarketStatus \cup {"none"}]
        /\ outcomes \in [Games -> OutcomeRow \cup {NoOutcome}]
    BY <1>1 DEF TypeOK
  <1>4. sync[p].todo \subseteq Games /\ sync[p].changed \subseteq Games
    BY <1>3 DEF Sync
  <1>0. \A s : GameRank(s) \in 0 .. 3
    BY Ranks DEF GameRank
  <1>5. CASE WriteEvent(p)
    <2>1. PICK g \in sync[p].todo :
            /\ UpsertEvent(g, sync[p].found[g])
            /\ SetSync(p, IF sync[p].found[g] \in EventStatus
                          THEN [sync[p] EXCEPT !.todo = @ \ {g}] ELSE End(p))
      BY <1>5 DEF WriteEvent
    <2>2. At(p, "events") /\ UNCHANGED <<markets, outcomes>>
      BY <1>5 DEF WriteEvent
    <2> DEFINE status == sync[p].found[g]
    <2>3. g \in Games /\ InOrder(p, g)
      BY <1>1, <1>4, <2>2 DEF GamesHeld, At
    <2>4. CASE status \notin EventStatus
      <3>1. sync'[p] = End(p) /\ UNCHANGED <<src, events, markets, outcomes>>
        BY <1>2, <1>3, <2>1, <2>2, <2>4 DEF SetSync, UpsertEvent
      <3>2. EventsTrue' /\ ResultsTrue' /\ RowsLinked'
        BY <1>1, <3>1 DEF EventsTrue, ResultsTrue, RowsLinked
      <3>3. Forward
        BY <3>1, Ranks DEF Forward
      <3> QED
        BY <3>1, <3>2, <3>3, IdleHolds DEF HeldAfter, End
    <2>5. CASE status \in EventStatus
      <3>1. /\ sync'[p].step = "events" /\ sync'[p].kind = sync[p].kind
            /\ sync'[p].todo = sync[p].todo \ {g} /\ sync'[p].changed = sync[p].changed
            /\ sync'[p].found = sync[p].found /\ sync'[p].quotes = sync[p].quotes
        BY <1>3, <2>1, <2>2, <2>5 DEF SetSync, Sync, At
      <3>2. /\ EventRank(events[g]) <= EventRank(status)
            /\ EventRank(status) <= GameRank(src[g].game)
            /\ status # "none"
        BY <2>3, <2>5 DEF InOrder, EventStatus
      <3>3. \A h \in Games : events'[h] = IF h = g THEN status ELSE events[h]
        BY <1>3, <2>1, <2>3, <2>5 DEF UpsertEvent
      <3> HIDE DEF status
      <3>4. EventsTrue'
        BY <1>1, <1>2, <3>2, <3>3 DEF EventsTrue
      <3>5. ResultsTrue' /\ RowsLinked'
        BY <1>1, <1>2, <2>2, <3>2, <3>3 DEF ResultsTrue, RowsLinked
      <3>6. GamesHeld(p)'
        BY <1>1, <1>2, <1>4, <2>2, <3>1, <3>3 DEF GamesHeld, InOrder, At
      <3>7. RowsHeld(p)'
        BY <1>1, <1>4, <2>2, <3>1, <3>2, <3>3 DEF RowsHeld, At
      <3>8. QuotesHeld(p)'
        BY <1>1, <1>2, <2>2, <3>1 DEF QuotesHeld, HasQuotes, Final, At
      <3>9. Forward
        BY <2>2, <3>2, <3>3, Ranks DEF Forward
      <3> QED
        BY <3>4, <3>5, <3>6, <3>7, <3>8, <3>9 DEF HeldAfter
    <2> QED
      BY <2>4, <2>5
  <1>6. CASE WriteMarket(p)
    <2>1. PICK g \in sync[p].todo :
            /\ markets' = [markets EXCEPT ![g] = sync[p].quotes[g].market]
            /\ SetSync(p, IF sync[p].todo = {g}
                          THEN [sync[p] EXCEPT !.step = "outcomes", !.todo = sync[p].changed]
                          ELSE [sync[p] EXCEPT !.todo = @ \ {g}])
      BY <1>6 DEF WriteMarket, UpsertMarket
    <2>2. At(p, "markets") /\ UNCHANGED <<events, outcomes>>
      BY <1>6 DEF WriteMarket, UpsertMarket
    <2>3. /\ sync'[p].kind = sync[p].kind /\ sync'[p].changed = sync[p].changed
          /\ sync'[p].quotes = sync[p].quotes
          /\ \/ /\ sync'[p].step = "outcomes" /\ sync'[p].todo = sync[p].changed
                /\ sync[p].todo = {g}
             \/ sync'[p].step = "markets" /\ sync'[p].todo = sync[p].todo \ {g}
      BY <1>3, <2>1, <2>2 DEF SetSync, Sync, At
    <2>4. g \in sync[p].changed /\ g \in Games /\ sync[p].quotes[g].market # "none"
      BY <1>1, <1>4, <2>2 DEF GamesHeld, QuotesHeld, HasQuotes, At
    <2>5. events[g] # "none"
      BY <1>1, <2>2, <2>4 DEF RowsHeld, At
    <2>6. \A h \in Games : markets'[h] = IF h = g THEN sync[p].quotes[g].market ELSE markets[h]
      BY <1>3, <2>1
    <2>7. EventsTrue' /\ ResultsTrue' /\ RowsLinked'
      BY <1>1, <1>2, <2>2, <2>4, <2>5, <2>6 DEF EventsTrue, ResultsTrue, RowsLinked
    <2>8. GamesHeld(p)'
      BY <1>1, <1>2, <2>2, <2>3 DEF GamesHeld, At
    <2>9. RowsHeld(p)'
      BY <1>1, <1>4, <2>2, <2>3, <2>4, <2>6 DEF RowsHeld, At
    <2>10. QuotesHeld(p)'
      BY <1>1, <1>2, <2>2, <2>3 DEF QuotesHeld, HasQuotes, Final, At
    <2>11. Forward
      BY <2>2, Ranks DEF Forward
    <2> QED
      BY <2>7, <2>8, <2>9, <2>10, <2>11 DEF HeldAfter
  <1>7. CASE WriteOutcome(p)
    <2>1. PICK g \in sync[p].todo :
            /\ outcomes' = [outcomes EXCEPT ![g] = sync[p].quotes[g].outcome]
            /\ SetSync(p, IF sync[p].todo = {g} THEN End(p)
                          ELSE [sync[p] EXCEPT !.todo = @ \ {g}])
      BY <1>7 DEF WriteOutcome, UpsertOutcome
    <2>2. At(p, "outcomes") /\ UNCHANGED <<events, markets>>
      BY <1>7 DEF WriteOutcome, UpsertOutcome
    <2>3. g \in sync[p].changed /\ g \in Games
      BY <1>1, <1>4, <2>2 DEF GamesHeld, At
    <2>4. markets[g] # "none"
      BY <1>1, <2>2, <2>3 DEF RowsHeld, At
    <2>5. /\ TrueResult(sync[p].quotes[g].outcome.status, src[g])
          /\ Final(g) => sync[p].quotes[g].outcome.status = outcomes[g].status
      BY <1>1, <2>2, <2>3 DEF QuotesHeld, HasQuotes, At
    <2>6. \A h \in Games : outcomes'[h] = IF h = g THEN sync[p].quotes[g].outcome ELSE outcomes[h]
      BY <1>3, <2>1
    <2>7. EventsTrue' /\ ResultsTrue' /\ RowsLinked'
      BY <1>1, <1>2, <2>2, <2>4, <2>5, <2>6 DEF EventsTrue, ResultsTrue, RowsLinked, TrueResult
    <2>8. Forward
      BY <2>2, <2>5, <2>6, Ranks DEF Forward
    <2>9. CASE sync[p].todo = {g}
      <3>1. sync'[p] = End(p)
        BY <1>3, <2>1, <2>9 DEF SetSync
      <3> QED
        BY <2>7, <2>8, <3>1, IdleHolds DEF HeldAfter, End
    <2>10. CASE sync[p].todo # {g}
      <3>1. /\ sync'[p].step = "outcomes" /\ sync'[p].kind = sync[p].kind
            /\ sync'[p].todo = sync[p].todo \ {g} /\ sync'[p].changed = sync[p].changed
            /\ sync'[p].quotes = sync[p].quotes
        BY <1>3, <2>1, <2>2, <2>10 DEF SetSync, Sync, At
      <3>2. GamesHeld(p)' /\ RowsHeld(p)'
        BY <1>1, <1>2, <2>2, <3>1 DEF GamesHeld, RowsHeld, At
      <3>3. QuotesHeld(p)'
        BY <1>1, <1>2, <1>4, <2>2, <2>5, <2>6, <3>1 DEF QuotesHeld, HasQuotes, Final, At
      <3> QED
        BY <2>7, <2>8, <3>2, <3>3 DEF HeldAfter
    <2> QED
      BY <2>9, <2>10
  <1> QED
    BY <1>5, <1>6, <1>7

\* A step of a sync: the others are idle, by the lock.
LEMMA SyncInvariant ==
    ASSUME IInv, NEW p \in Syncers, SyncStep(p)
    PROVE  IInv' /\ Forward
  <1>1. TypeOK' /\ TypeOK
    BY SyncTypes DEF IInv
  <1>2. HeldAfter(p)
    BY ReadingSteps, WritingSteps DEF SyncStep
  <1>3. PICK new : SetSync(p, new)
    BY DEF SyncStep, BeginSync, FetchHierarchy, ReadStatuses, WriteEvent, UpsertEvent, EventsDone,
           FetchConditions, WriteMarket, UpsertMarket, WriteOutcome, UpsertOutcome
  <1>4. \A q \in Syncers \ {p} : At(q, "idle")
    <2>1. At(p, "idle") => BeginSync(p)
      BY DEF SyncStep, FetchHierarchy, ReadStatuses, WriteEvent, UpsertEvent, EventsDone,
             FetchConditions, WriteMarket, UpsertMarket, WriteOutcome, UpsertOutcome, At
    <2> QED
      BY <2>1 DEF BeginSync, IInv, Alone
  <1>5. /\ src' = src
        /\ \A q \in Syncers \ {p} : sync'[q] = sync[q]
    BY <1>1, <1>3 DEF SetSync, TypeOK
  <1>6. Alone'
    BY <1>4, <1>5 DEF Alone, At
  <1>7. OpenTogether'
    BY <1>5 DEF IInv, OpenTogether
  <1>8. \A q \in Syncers \ {p} : GamesHeld(q)' /\ RowsHeld(q)' /\ QuotesHeld(q)'
    BY <1>4, <1>5 DEF IInv, SyncsHold, GamesHeld, RowsHeld, QuotesHeld, HasQuotes, TrueResult, At
  <1> QED
    BY <1>1, <1>2, <1>6, <1>7, <1>8 DEF IInv, SyncsHold, HeldAfter

\* Steps that leave syncs and tables alone and take the provider forward at most.
LEMMA FrameSteps ==
    ASSUME IInv, UNCHANGED <<tables, sync>>, TypeOK', OpenTogether',
           \A h \in Games : GameRank(src[h].game) <= GameRank(src'[h].game),
           \A h \in Games : src'[h].known => src[h].known,
           \A h \in Games : src[h].out \in Results => src'[h].out = src[h].out
    PROVE  IInv' /\ Forward
  <1>1. UNCHANGED <<events, markets, outcomes, sync>>
    BY DEF tables
  <1>2. Alone'
    BY <1>1 DEF IInv, Alone, At
  <1>0. (\A s : EventRank(s) \in 0 .. 3) /\ \A s : GameRank(s) \in 0 .. 3
    BY Ranks DEF GameRank
  <1>3. EventsTrue' /\ RowsLinked'
    BY <1>0, <1>1 DEF IInv, EventsTrue, RowsLinked
  <1>4. ResultsTrue'
    BY <1>1 DEF IInv, ResultsTrue, Results
  <1>5. ASSUME NEW p \in Syncers
        PROVE  GamesHeld(p)' /\ RowsHeld(p)' /\ QuotesHeld(p)'
    <2>1. GamesHeld(p) /\ RowsHeld(p) /\ QuotesHeld(p) /\ sync[p] \in Sync
      BY DEF IInv, SyncsHold, TypeOK
    <2>2. sync[p].changed \subseteq Games
      BY <2>1 DEF Sync
    <2>3. GamesHeld(p)'
      <3>1. sync[p].todo \subseteq Games
        BY <2>1 DEF Sync
      <3>2. \A g \in Games : InOrder(p, g) => InOrder(p, g)'
        BY <1>0, <1>1 DEF InOrder
      <3> QED
        BY <1>1, <2>1, <2>2, <3>1, <3>2 DEF GamesHeld, At
    <2>4. RowsHeld(p)'
      BY <1>1, <2>1 DEF RowsHeld, At
    <2>5. QuotesHeld(p)'
      BY <1>1, <2>1, <2>2 DEF QuotesHeld, HasQuotes, At, TrueResult, Results, Final
    <2> QED
      BY <2>3, <2>4, <2>5
  <1>6. Forward
    BY <1>1, Ranks DEF Forward
  <1> QED
    BY <1>2, <1>3, <1>4, <1>5, <1>6 DEF IInv, SyncsHold

\* A pushed update writes no result and makes no row.
LEMMA UpdateInvariant ==
    ASSUME IInv, ApplyUpdate
    PROVE  IInv' /\ Forward
  <1> DEFINE u == Head(updates)
             g == u.game
  <1>1. TypeOK /\ updates \in Seq(Update) /\ updates # <<>>
    BY DEF IInv, TypeOK, ApplyUpdate
  <1>2. u \in Update /\ updates' \in Seq(Update)
    BY <1>1, HeadTailProperties DEF ApplyUpdate
  <1>3. /\ g \in Games
        /\ u.type = "odds" => u.odds \in Odds
        /\ u.type # "odds" => u.status \in MarketStatus
    BY <1>2 DEF Update
  <1>4. UNCHANGED <<src, events, sync, stream, changes, faults>>
    BY DEF ApplyUpdate
  <1>5. /\ markets \in [Games -> MarketStatus \cup {"none"}]
        /\ outcomes \in [Games -> OutcomeRow \cup {NoOutcome}]
    BY <1>1 DEF TypeOK
  <1> HIDE DEF u
  <1>6. /\ markets' \in [Games -> MarketStatus \cup {"none"}]
        /\ \A h \in Games : markets'[h] = "none" <=> markets[h] = "none"
    <2>1. CASE u.type = "odds"
      BY <1>5, <2>1 DEF ApplyUpdate, UpdateOutcomeOdds, u
    <2>2. CASE u.type # "odds"
      <3>1. markets' = IF markets[g] = "none" THEN markets ELSE [markets EXCEPT ![g] = u.status]
        BY <2>2 DEF ApplyUpdate, UpdateMarketStatus, u
      <3> QED
        BY <1>3, <1>5, <2>2, <3>1 DEF MarketStatus
    <2> QED
      BY <2>1, <2>2
  <1>7. /\ outcomes' \in [Games -> OutcomeRow \cup {NoOutcome}]
        /\ \A h \in Games : outcomes'[h].status = outcomes[h].status
        /\ \A h \in Games : outcomes'[h] = NoOutcome <=> outcomes[h] = NoOutcome
    <2>1. CASE u.type # "odds"
      BY <1>5, <2>1 DEF ApplyUpdate, UpdateMarketStatus, u
    <2>2. CASE u.type = "odds" /\ outcomes[g] = NoOutcome
      BY <1>5, <2>2 DEF ApplyUpdate, UpdateOutcomeOdds, u
    <2>3. CASE u.type = "odds" /\ outcomes[g] # NoOutcome
      <3> DEFINE row == [outcomes[g] EXCEPT !.odds = u.odds]
      <3>1. outcomes' = [outcomes EXCEPT ![g] = row]
        BY <1>3, <1>5, <2>3 DEF ApplyUpdate, UpdateOutcomeOdds, u
      <3>2. outcomes[g] \in OutcomeRow
        BY <1>3, <1>5, <2>3
      <3>3. row \in OutcomeRow /\ row.status = outcomes[g].status /\ row.status # "none"
        BY <1>3, <2>3, <3>2 DEF OutcomeRow, OutcomeStatus
      <3>4. row # NoOutcome
        BY <3>3 DEF NoOutcome
      <3> HIDE DEF row
      <3> QED
        BY <1>3, <1>5, <2>3, <3>1, <3>3, <3>4
    <2> QED
      BY <2>1, <2>2, <2>3
  <1>8. TypeOK'
    BY <1>1, <1>2, <1>4, <1>6, <1>7 DEF TypeOK
  <1>9. Alone' /\ OpenTogether' /\ EventsTrue'
    BY <1>4 DEF IInv, Alone, OpenTogether, EventsTrue, At
  <1>10. ResultsTrue' /\ RowsLinked'
    BY <1>4, <1>6, <1>7 DEF IInv, ResultsTrue, RowsLinked
  <1>11. ASSUME NEW p \in Syncers
         PROVE  GamesHeld(p)' /\ RowsHeld(p)' /\ QuotesHeld(p)'
    <2>1. GamesHeld(p) /\ RowsHeld(p) /\ QuotesHeld(p) /\ sync[p] \in Sync
      BY <1>1 DEF IInv, SyncsHold, TypeOK
    <2>2. sync[p].changed \subseteq Games
      BY <2>1 DEF Sync
    <2>3. GamesHeld(p)'
      BY <1>4, <2>1 DEF GamesHeld, InOrder, At
    <2>4. RowsHeld(p)'
      BY <1>4, <1>6, <2>1, <2>2 DEF RowsHeld, At
    <2>5. QuotesHeld(p)'
      BY <1>4, <1>7, <2>1, <2>2 DEF QuotesHeld, HasQuotes, Final, At
    <2> QED
      BY <2>3, <2>4, <2>5
  <1>12. Forward
    BY <1>4, <1>7, Ranks DEF Forward
  <1> QED
    BY <1>8, <1>9, <1>10, <1>11, <1>12 DEF IInv, SyncsHold

\* Syncs that are given up hold nothing; the tables are as they were.
LEMMA DroppedSyncs ==
    ASSUME IInv, UNCHANGED <<src, tables>>, TypeOK',
           \A p \in Syncers : sync'[p] = sync[p] \/ \E kind \in Kinds : sync'[p] = Idle(kind)
    PROVE  IInv' /\ Forward
  <1>1. UNCHANGED <<src, events, markets, outcomes>>
    BY DEF tables
  <1>2. \A p \in Syncers : sync'[p] = sync[p] \/ sync'[p].step = "idle"
    <2>1. \A kind : Idle(kind).step = "idle"
      BY DEF Idle
    <2> QED
      BY <2>1
  <1>3. Alone'
    BY <1>2 DEF IInv, Alone, At
  <1>4. OpenTogether' /\ EventsTrue' /\ ResultsTrue' /\ RowsLinked'
    BY <1>1 DEF IInv, OpenTogether, EventsTrue, ResultsTrue, RowsLinked
  <1>5. ASSUME NEW p \in Syncers
        PROVE  GamesHeld(p)' /\ RowsHeld(p)' /\ QuotesHeld(p)'
    <2>1. CASE sync'[p] = sync[p]
      BY <1>1, <2>1
      DEF IInv, SyncsHold, GamesHeld, InOrder, RowsHeld, QuotesHeld, HasQuotes, Final, At
    <2>2. CASE \E kind \in Kinds : sync'[p] = Idle(kind)
      BY <2>2, IdleHolds
    <2> QED
      BY <2>1, <2>2
  <1>6. Forward
    BY <1>1, Ranks DEF Forward
  <1> QED
    BY <1>3, <1>4, <1>5, <1>6 DEF IInv, SyncsHold

\* Every step keeps the invariant and takes the tables forward.
LEMMA NextInvariant ==
    ASSUME IInv, [Next]_vars
    PROVE  IInv' /\ [Forward]_vars
  <1> USE FeedAssumption
  <1>1. TypeOK /\ OpenTogether
    BY DEF IInv
  <1>0. ASSUME src' = src
        PROVE  \A h \in Games : GameRank(src[h].game) <= GameRank(src'[h].game)
    <2>1. \A s : GameRank(s) \in 0 .. 3
      BY Ranks DEF GameRank
    <2>2. \A s : GameRank(s) <= GameRank(s)
      BY <2>1
    <2> QED
      BY <1>0, <2>2
  <1>2. CASE UNCHANGED vars
    <2>1. UNCHANGED <<tables, sync>> /\ src' = src
      BY <1>2 DEF vars
    <2>2. TypeOK' /\ OpenTogether'
      BY <1>1, <1>2 DEF vars, tables, TypeOK, OpenTogether
    <2> QED
      BY <1>0, <2>1, <2>2, FrameSteps
  <1>3. ASSUME NEW g \in Games, Provider(g)
        PROVE  IInv' /\ Forward
    <2>1. TypeOK'
      BY <1>1, <1>3, ProviderForward DEF TypeOK, tables
    <2> QED
      BY <1>1, <1>3, <2>1, ProviderForward, FrameSteps
  <1>4. ASSUME NEW p \in Syncers, SyncStep(p)
        PROVE  IInv' /\ Forward
    BY <1>4, SyncInvariant
  <1>5. CASE Subscribe \/ Dial
    <2>1. UNCHANGED <<tables, sync, updates, changes, faults>> /\ src' = src
      BY <1>5 DEF Subscribe, Dial, SetStream
    <2>2. stream' \in [step : StreamSteps, games : SUBSET Games]
      BY <1>1, <1>5
      DEF Subscribe, Dial, SetStream, TypeOK, StreamSteps, FetchLiveConditionIDs, FetchSports
    <2>3. TypeOK' /\ OpenTogether'
      BY <1>1, <2>1, <2>2 DEF TypeOK, tables, OpenTogether
    <2> QED
      BY <1>0, <2>1, <2>3, FrameSteps
  <1>6. CASE ApplyUpdate
    BY <1>6, UpdateInvariant
  <1>7. ASSUME NEW p \in Syncers, FailSync(p)
        PROVE  IInv' /\ Forward
    <2>1. /\ sync' = [sync EXCEPT ![p] = Idle(NextKind(sync[p].kind))]
          /\ UNCHANGED <<src, tables, stream, updates, changes>>
          /\ faults' = faults + 1 /\ faults < MaxFaults
      BY <1>7 DEF FailSync, End, Fault
    <2>2. NextKind(sync[p].kind) \in Kinds
      BY DEF NextKind, Kinds
    <2>3. \A q \in Syncers : sync'[q] = sync[q] \/ \E kind \in Kinds : sync'[q] = Idle(kind)
      BY <1>1, <2>1, <2>2 DEF TypeOK
    <2>4. sync' \in [Syncers -> Sync] /\ faults' \in 0 .. MaxFaults
      BY <1>1, <2>1, IdleTypes DEF TypeOK
    <2>5. TypeOK'
      BY <1>1, <2>1, <2>4 DEF TypeOK, tables
    <2> QED
      BY <2>1, <2>3, <2>5, DroppedSyncs
  <1>8. CASE LoseUpdate
    <2>1. /\ updates' = Tail(updates) /\ updates # <<>>
          /\ UNCHANGED <<src, tables, sync, stream, changes>>
          /\ faults' = faults + 1 /\ faults < MaxFaults
      BY <1>8 DEF LoseUpdate, Fault
    <2>2. updates' \in Seq(Update)
      BY <1>1, <2>1, HeadTailProperties DEF TypeOK
    <2>3. faults' \in 0 .. MaxFaults
      BY <1>1, <2>1 DEF TypeOK
    <2>4. TypeOK' /\ OpenTogether'
      BY <1>1, <2>1, <2>2, <2>3 DEF TypeOK, tables, OpenTogether
    <2> QED
      BY <1>0, <2>1, <2>4, FrameSteps
  <1>9. CASE BreakStream
    <2>1. /\ stream' = [step |-> "closed", games |-> {}] /\ updates' = <<>>
          /\ UNCHANGED <<src, tables, sync, changes>>
          /\ faults' = faults + 1 /\ faults < MaxFaults
      BY <1>9 DEF BreakStream, Fault
    <2>2. TypeOK' /\ OpenTogether'
      BY <1>1, <2>1 DEF TypeOK, tables, OpenTogether, StreamSteps
    <2> QED
      BY <1>0, <2>1, <2>2, FrameSteps
  <1>10. CASE Restart
    <2>1. /\ sync' = [p \in Syncers |-> Idle("initial")]
          /\ stream' = [step |-> "closed", games |-> {}] /\ updates' = <<>>
          /\ UNCHANGED <<src, tables, changes>>
          /\ faults' = faults + 1 /\ faults < MaxFaults
      BY <1>10 DEF Restart, Fault
    <2>2. "initial" \in Kinds
      BY DEF Kinds
    <2>3. sync' \in [Syncers -> Sync]
      BY <2>1, <2>2, IdleTypes
    <2>4. TypeOK'
      BY <1>1, <2>1, <2>3 DEF TypeOK, tables, StreamSteps
    <2>5. \A p \in Syncers : \E kind \in Kinds : sync'[p] = Idle(kind)
      BY <2>1, <2>2
    <2> QED
      BY <2>1, <2>4, <2>5, DroppedSyncs
  <1> QED
    BY <1>2, <1>3, <1>4, <1>5, <1>6, <1>7, <1>8, <1>9, <1>10 DEF Next

\* The invariant holds when the service starts on empty tables.
LEMMA InitInvariant ==
    ASSUME Init
    PROVE  IInv
  <1> USE FeedAssumption
  <1>1. "initial" \in Kinds
    BY DEF Kinds
  <1>2. sync \in [Syncers -> Sync]
    BY <1>1, IdleTypes DEF Init
  <1>3. src \in [Games -> Source]
    BY DEF Init, Source, GameStates, ConditionStates, OutcomeStates, Open
  <1>a. events \in [Games -> EventStatus \cup {"none"}]
    BY DEF Init, NoEvents
  <1>b. \A g \in Games : events[g] = "none" /\ src[g].game = "Prematch"
    BY DEF Init, NoEvents
  <1>c. /\ markets \in [Games -> MarketStatus \cup {"none"}]
        /\ outcomes \in [Games -> OutcomeRow \cup {NoOutcome}]
        /\ stream \in [step : StreamSteps, games : SUBSET Games]
        /\ updates \in Seq(Update)
    BY DEF Init, StreamSteps
  <1>d. changes \in 0 .. MaxChanges /\ faults \in 0 .. MaxFaults
    BY DEF Init
  <1>4. TypeOK
    BY <1>2, <1>3, <1>a, <1>c, <1>d DEF TypeOK
  <1>5. \A p \in Syncers :
          sync[p].step = "idle" /\ \A g \in Games : sync[p].quotes[g].outcome.status = "none"
    BY DEF Init, Idle, NoQuotes, NoOutcome
  <1>6. SyncsHold
    BY <1>5 DEF SyncsHold, GamesHeld, RowsHeld, QuotesHeld, HasQuotes, TrueResult, At
  <1>7. Alone
    BY <1>5 DEF Alone, At
  <1>8. OpenTogether /\ ResultsTrue /\ RowsLinked
    BY DEF Init, OpenTogether, ResultsTrue, RowsLinked, NoOutcome, NoEvents
  <1>9. EventsTrue
    <2>1. EventRank("none") <= GameRank("Prematch")
      BY Ranks DEF GameRank, SnapshotStatus, NormalizeGameState
    <2> QED
      BY <1>b, <2>1 DEF EventsTrue
  <1> QED
    BY <1>4, <1>6, <1>7, <1>8, <1>9 DEF IInv

\* The inductive invariant of the feed: a running sync is alone, and what it holds is
\* no newer than the provider and no older than the tables.
THEOREM FeedInvariant == Spec => []IInv
  <1>1. Init => IInv
    BY InitInvariant
  <1>2. IInv /\ [Next]_vars => IInv'
    BY NextInvariant
  <1> QED
    BY <1>1, <1>2, PTL DEF Spec

\* Every state of the feed has the declared types: the statuses stored are the schema's
\* although normalizeGameState makes others, since the CHECK refuses those.
THEOREM FeedTypeOK == Spec => []TypeOK
  <1>1. IInv => TypeOK
    BY DEF IInv
  <1> QED
    BY <1>1, FeedInvariant, PTL

\* A result in the outcomes table is the provider's own, whatever is pushed, lost or
\* restarted, for any number of games and of concurrent callers of the syncs, but for
\* the cancellation that a state without a name is taken for.
THEOREM FeedResultsTrue == Spec => []ResultsTrue
  <1>1. IInv => ResultsTrue
    BY DEF IInv
  <1> QED
    BY <1>1, FeedInvariant, PTL

\* The syncs, stopped anywhere, leave no row without the row it refers to.
THEOREM FeedRowsLinked == Spec => []RowsLinked
  <1>1. IInv => RowsLinked
    BY DEF IInv
  <1> QED
    BY <1>1, FeedInvariant, PTL

\* No step takes an event back or changes a result, as the lock of the syncs keeps
\* their snapshots in order, but for the cancellation that a state without a name is
\* taken for.
THEOREM FeedNoStepBack == Spec => NoStepBack
  <1>1. IInv /\ [Next]_vars => [Forward]_vars
    BY NextInvariant
  <1> QED
    BY <1>1, FeedInvariant, PTL DEF Spec, NoStepBack

=============================================================================
