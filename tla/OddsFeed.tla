------------------------------- MODULE OddsFeed -------------------------------
(***************************************************************************)
(* The odds feed service (internal/oddsfeed) with its Azuro adapter: syncs *)
(* that poll the provider and write events, markets and outcomes row by    *)
(* row, and the websocket worker that applies pushed updates beside them.  *)
(*                                                                         *)
(* A game has one condition with one outcome; event, market and outcome    *)
(* rows are known by the game.  Sports and leagues, the Redis cache and    *)
(* the published notices are written along and read by no step.            *)
(* The channel between adapter and worker only delays (it blocks when      *)
(* full), so it and the network are one queue, updates.                    *)
(***************************************************************************)
EXTENDS Naturals, Sequences

CONSTANTS
    Games,       \* games of the provider
    Odds,        \* odds it quotes
    OpeningOdds, \* odds its games open with
    Vocabulary,  \* states that it gives each game's condition and outcome
    Fragile,     \* games that it may pause or call off
    Syncers,     \* callers of SyncProvider and SyncLiveProvider
    MaxChanges,  \* bound on the provider's changes
    MaxFaults    \* bound on failed syncs, lost updates, broken streams and restarts

ASSUME FeedAssumption ==
    /\ Odds \subseteq Nat \ {0}
    /\ OpeningOdds \in Odds
    /\ MaxChanges \in Nat
    /\ MaxFaults \in Nat

VARIABLES
    src,      \* the provider's games
    events,   \* status of each event row, "none" without a row
    markets,  \* status of each market row
    outcomes, \* status and odds of each outcome row
    sync,     \* the sync each caller is in
    stream,   \* the websocket subscription
    updates,  \* pushed updates not applied yet
    changes,  \* changes of the provider so far
    faults    \* failures so far

tables == <<events, markets, outcomes>>
vars == <<src, tables, sync, stream, updates, changes, faults>>

\* "Paused" has no arm of its own in normalizeGameState, but the schema knows its
\* name; "Canceled" has one, and the schema does not know what becomes of it.
GameStates == {"Prematch", "Live", "Finished", "Canceled", "Paused"}

\* States of a condition, and of its outcome, that is not decided yet.  "Other": a
\* state that the adapter has no name for, or none at all.
Open == {"Active", "Paused", "Stopped", "Other"}

ConditionStates == Open \cup {"Resolved", "Canceled", "Removed"}
OutcomeStates == Open \cup {"Won", "Lost", "Canceled", "Removed"}

\* What the adapter decodes of a game, its condition and the outcome; list: the game
\* state whose listing has the game; known: so far the outcome's states had names.
Source == [list : {"Prematch", "Live", "none"}, game : GameStates, cond : ConditionStates,
           out : OutcomeStates, odds : Odds, known : BOOLEAN]

EventStatus == {"upcoming", "live", "paused", "finished", "cancelled", "postponed"}
MarketStatus == {"active", "suspended", "settled", "cancelled"}
OutcomeStatus == {"active", "suspended", "won", "lost", "cancelled"}

\* Statuses that settle bets.
Decided == {"won", "lost", "cancelled"}

NoOutcome == [status |-> "none", odds |-> 0]

OutcomeRow == [status : OutcomeStatus, odds : Odds]

Kinds == {"initial", "full", "live"}

SyncSteps == {"idle", "games", "statuses", "events", "conditions", "markets", "outcomes"}

\* What an event's status may be in a snapshot.
SnapshotStatus == EventStatus \cup {"canceled", "none"}

\* found: the statuses of the events fetched; todo: events, markets or outcomes that
\* the current loop still has to write; changed: games to fetch conditions for;
\* quotes: the conditions fetched.
Sync == [kind : Kinds, step : SyncSteps, found : [Games -> SnapshotStatus],
         todo : SUBSET Games, changed : SUBSET Games,
         quotes : [Games -> [market : MarketStatus \cup {"none"},
                             outcome : OutcomeRow \cup {NoOutcome}]]]

NoQuotes == [g \in Games |-> [market |-> "none", outcome |-> NoOutcome]]

NoEvents == [g \in Games |-> "none"]

Idle(kind) == [kind |-> kind, step |-> "idle", found |-> NoEvents, todo |-> {},
               changed |-> {}, quotes |-> NoQuotes]

Update == [type : {"status"}, game : Games, status : MarketStatus]
            \cup [type : {"odds"}, game : Games, odds : Odds]

StreamSteps == {"closed", "dialing", "open", "parked"}

TypeOK ==
    /\ src \in [Games -> Source]
    /\ events \in [Games -> EventStatus \cup {"none"}]
    /\ markets \in [Games -> MarketStatus \cup {"none"}]
    /\ outcomes \in [Games -> OutcomeRow \cup {NoOutcome}]
    /\ sync \in [Syncers -> Sync]
    /\ stream \in [step : StreamSteps, games : SUBSET Games]
    /\ updates \in Seq(Update)
    /\ changes \in 0 .. MaxChanges
    /\ faults \in 0 .. MaxFaults

Init ==
    /\ src = [g \in Games |-> [list |-> "Prematch", game |-> "Prematch", cond |-> "Active",
                               out |-> "Active", odds |-> OpeningOdds, known |-> TRUE]]
    /\ events = NoEvents
    /\ markets = [g \in Games |-> "none"]
    /\ outcomes = [g \in Games |-> NoOutcome]
    /\ sync = [p \in Syncers |-> Idle("initial")]
    /\ stream = [step |-> "closed", games |-> {}]
    /\ updates = <<>>
    /\ changes = 0
    /\ faults = 0

-----------------------------------------------------------------------------
(* Translation of the provider's states. *)

\* strings.ToLower, of the states that reach it.
ToLower(s) == CASE s = "Paused" -> "paused"

NormalizeGameState(s) ==
    CASE s = "Prematch" -> "upcoming" [] s = "Live" -> "live" [] s = "Finished" -> "finished"
      [] s = "Canceled" -> "canceled" [] OTHER -> ToLower(s)

NormalizeConditionState(s) ==
    CASE s = "Active" -> "active" [] s \in {"Paused", "Stopped"} -> "suspended"
      [] s = "Resolved" -> "settled" [] OTHER -> "cancelled"

\* Faulty variant: a pause is left to the default.
NormalizeOutcomeStatePause(s) ==
    CASE s = "Active" -> "active" [] s = "Won" -> "won" [] s = "Lost" -> "lost"
      [] OTHER -> "cancelled"

NormalizeOutcomeState(s) ==
    CASE s = "Active" -> "active" [] s = "Won" -> "won" [] s = "Lost" -> "lost"
      [] s \in {"Paused", "Stopped"} -> "suspended" [] OTHER -> "cancelled"

\* Market and outcome rows of game g's condition, as the snapshot has them.
BuildSnapshot(g) ==
    [market |-> NormalizeConditionState(src[g].cond),
     outcome |-> [status |-> NormalizeOutcomeState(src[g].out), odds |-> src[g].odds]]

\* A pushed message gives an update for the condition's state and one for the
\* outcome's odds, where it has them (state "" and odds 0 stand for absent ones).
UpdatesFromMessage(g, state, odds) ==
    (IF state # ""
     THEN <<[type |-> "status", game |-> g, status |-> NormalizeConditionState(state)]>>
     ELSE <<>>)
    \o (IF odds # 0 THEN <<[type |-> "odds", game |-> g, odds |-> odds]>> ELSE <<>>)

-----------------------------------------------------------------------------
(* The provider. *)

Change(g, new) ==
    /\ changes < MaxChanges
    /\ changes' = changes + 1
    /\ src' = [src EXCEPT ![g] = new]
    /\ UNCHANGED <<tables, sync, stream, faults>>

\* A change of a condition is sent to the subscribers of the condition.
Push(g, state, odds) ==
    updates' = IF stream.step = "open" /\ g \in stream.games
               THEN updates \o UpdatesFromMessage(g, state, odds)
               ELSE updates

\* A game starts, or goes on after a pause.
GameStarts(g) ==
    /\ src[g].game \in {"Prematch", "Paused"}
    /\ Change(g, [src[g] EXCEPT !.game = "Live", !.list = "Live"])
    /\ UNCHANGED updates

GameEnds(g) ==
    /\ src[g].game = "Live"
    /\ Change(g, [src[g] EXCEPT !.game = "Finished", !.list = "none"])
    /\ UNCHANGED updates

\* A game is paused or called off and stays listed; one that is not listed any more is
\* to the service as one that has ended.
GameInterrupted(g) ==
    /\ g \in Fragile /\ src[g].game \in {"Prematch", "Live"}
    /\ \E s \in {"Paused", "Canceled"} : Change(g, [src[g] EXCEPT !.game = s])
    /\ UNCHANGED updates

Requote(g) ==
    /\ src[g].cond = "Active"
    /\ \E o \in Odds \ {src[g].odds} :
         Change(g, [src[g] EXCEPT !.odds = o]) /\ Push(g, "", o)

\* The condition is paused or taken up again, with its outcome.
Pause(g) ==
    /\ src[g].cond \in Open
    /\ \E s \in (Open \cap Vocabulary[g]) \ {src[g].cond} :
         /\ Change(g, [src[g] EXCEPT !.cond = s, !.out = s, !.known = @ /\ s # "Other"])
         /\ Push(g, s, 0)

\* The condition is decided, for good.
Resolve(g) ==
    /\ src[g].cond \in Open
    /\ \E res \in {<<"Resolved", "Won">>, <<"Resolved", "Lost">>, <<"Canceled", "Canceled">>,
                    <<"Removed", "Removed">>} :
         /\ {res[1], res[2]} \subseteq Vocabulary[g]
         /\ Change(g, [src[g] EXCEPT !.cond = res[1], !.out = res[2]])
         /\ Push(g, res[1], 0)

-----------------------------------------------------------------------------
(* SyncProvider and SyncLiveProvider *)

SetSync(p, new) ==
    /\ sync' = [sync EXCEPT ![p] = new]
    /\ UNCHANGED <<src, stream, updates, changes, faults>>

At(p, s) == sync[p].step = s

\* The scheduler calls SyncProvider, then SyncLiveProvider, at every tick.
NextKind(kind) == IF kind = "full" THEN "live" ELSE "full"

End(p) == Idle(NextKind(sync[p].kind))

\* syncMu is held while a sync runs.
BeginSync(p) ==
    /\ At(p, "idle")
    /\ \A q \in Syncers : At(q, "idle")
    /\ SetSync(p, [sync[p] EXCEPT !.step = "games"])
    /\ UNCHANGED tables

GameState(p) == IF sync[p].kind = "live" THEN "Live" ELSE "Prematch"

\* /market-manager/sports: the games listed for a state.
FetchSports(state) == {g \in Games : src[g].list = state}

\* The events of the games listed, with the states the games have.
Hierarchy(listed) ==
    [g \in Games |-> IF g \in listed THEN NormalizeGameState(src[g].game) ELSE "none"]

\* FetchSnapshot goes on to the conditions of every game found; without games the
\* live sync has nothing to write.
FetchSnapshot(p, listed) ==
    IF listed = {} THEN End(p)
    ELSE [sync[p] EXCEPT !.step = "conditions", !.found = Hierarchy(listed), !.changed = listed]

\* A full sync next reads what is stored, a live one fetches the whole snapshot.
FetchHierarchy(p) ==
    LET listed == FetchSports(GameState(p)) IN
    /\ At(p, "games")
    /\ SetSync(p, IF sync[p].kind = "live" THEN FetchSnapshot(p, listed)
                  ELSE [sync[p] EXCEPT !.step = "statuses", !.found = Hierarchy(listed),
                                       !.todo = listed])
    /\ UNCHANGED tables

\* Faulty variant: only live events are refetched.
ChangedEventIDsLive(p) ==
    {g \in sync[p].todo : sync[p].found[g] = "live"}

\* New events, events whose status changed, and live events.
ChangedEventIDs(p) ==
    {g \in sync[p].todo : events[g] # sync[p].found[g] \/ sync[p].found[g] = "live"}

ReadStatuses(p) ==
    /\ At(p, "statuses")
    /\ SetSync(p, [sync[p] EXCEPT !.step = "events", !.changed = ChangedEventIDs(p)])
    /\ UNCHANGED tables

\* Faulty variant: events.status has no CHECK.
UpsertEventUnchecked(g, status) == events' = [events EXCEPT ![g] = status]

\* INSERT ... ON CONFLICT DO UPDATE of one row; the CHECK of events.status refuses
\* what is no status.
UpsertEvent(g, status) ==
    events' = IF status \in EventStatus THEN [events EXCEPT ![g] = status] ELSE events

UpsertMarket(g, status) == markets' = [markets EXCEPT ![g] = status]

UpsertOutcome(g, row) == outcomes' = [outcomes EXCEPT ![g] = row]

\* applyHierarchy writes the next event; a refused one ends the sync with an error.
WriteEvent(p) ==
    /\ At(p, "events")
    /\ \E g \in sync[p].todo :
         /\ UpsertEvent(g, sync[p].found[g])
         /\ SetSync(p, IF sync[p].found[g] \in EventStatus
                       THEN [sync[p] EXCEPT !.todo = @ \ {g}] ELSE End(p))
    /\ UNCHANGED <<markets, outcomes>>

\* The events are written, and not read again: the live sync has its conditions already.
EventsDone(p) ==
    /\ At(p, "events")
    /\ sync[p].todo = {}
    /\ SetSync(p, IF sync[p].changed = {} THEN End(p)
                  ELSE IF sync[p].kind = "live"
                  THEN [sync[p] EXCEPT !.step = "markets", !.found = NoEvents,
                                       !.todo = sync[p].changed]
                  ELSE [sync[p] EXCEPT !.step = "conditions", !.found = NoEvents])
    /\ UNCHANGED tables

\* /market-manager/conditions-by-game-ids: the conditions of the games asked for.
Quotes(asked) == [g \in Games |-> IF g \in asked THEN BuildSnapshot(g) ELSE NoQuotes[g]]

\* Faulty variant: the conditions of games stored as live are taken as known.
FetchConditionsOnce(p) ==
    /\ At(p, "conditions")
    /\ SetSync(p, IF sync[p].kind = "live" /\ \A g \in sync[p].changed : events[g] = "live"
                  THEN End(p)
                  ELSE [sync[p] EXCEPT !.step = IF sync[p].kind = "live" THEN "events"
                                                ELSE "markets",
                                       !.todo = sync[p].changed,
                                       !.quotes = Quotes(sync[p].changed)])
    /\ UNCHANGED tables

\* Faulty variant: the markets of a live snapshot are written first.
FetchConditionsFirst(p) ==
    /\ At(p, "conditions")
    /\ SetSync(p, [sync[p] EXCEPT !.step = "markets", !.todo = sync[p].changed,
                                  !.quotes = Quotes(sync[p].changed)])
    /\ UNCHANGED tables

\* A live sync has still to write its events.
FetchConditions(p) ==
    /\ At(p, "conditions")
    /\ SetSync(p, [sync[p] EXCEPT !.step = IF sync[p].kind = "live" THEN "events" ELSE "markets",
                                  !.todo = sync[p].changed,
                                  !.quotes = Quotes(sync[p].changed)])
    /\ UNCHANGED tables

\* Faulty variant: the event stubs of the conditions ("upcoming") are applied too.
WriteMarketAndStub(p) ==
    /\ At(p, "markets")
    /\ \E g \in sync[p].todo :
         /\ UpsertMarket(g, sync[p].quotes[g].market)
         /\ UpsertEvent(g, "upcoming")
         /\ SetSync(p, IF sync[p].todo = {g}
                       THEN [sync[p] EXCEPT !.step = "outcomes", !.todo = sync[p].changed]
                       ELSE [sync[p] EXCEPT !.todo = @ \ {g}])
    /\ UNCHANGED outcomes

\* applyMarkets writes the next market, and after the last one the outcomes.
WriteMarket(p) ==
    /\ At(p, "markets")
    /\ \E g \in sync[p].todo :
         /\ UpsertMarket(g, sync[p].quotes[g].market)
         /\ SetSync(p, IF sync[p].todo = {g}
                       THEN [sync[p] EXCEPT !.step = "outcomes", !.todo = sync[p].changed]
                       ELSE [sync[p] EXCEPT !.todo = @ \ {g}])
    /\ UNCHANGED <<events, outcomes>>

WriteOutcome(p) ==
    /\ At(p, "outcomes")
    /\ \E g \in sync[p].todo :
         /\ UpsertOutcome(g, sync[p].quotes[g].outcome)
         /\ SetSync(p, IF sync[p].todo = {g} THEN End(p)
                       ELSE [sync[p] EXCEPT !.todo = @ \ {g}])
    /\ UNCHANGED <<events, markets>>

SyncStep(p) ==
    \/ BeginSync(p) \/ FetchHierarchy(p) \/ ReadStatuses(p) \/ WriteEvent(p) \/ EventsDone(p)
    \/ FetchConditions(p) \/ WriteMarket(p) \/ WriteOutcome(p)

-----------------------------------------------------------------------------
(* The websocket worker. *)

SetStream(step, games) ==
    /\ stream' = [step |-> step, games |-> games]
    /\ UNCHANGED <<src, tables, sync, changes, faults>>

\* The conditions of the games that are live now.
FetchLiveConditionIDs == FetchSports("Live")

\* SubscribeLive asks for the live conditions; with none it waits for shutdown.
Subscribe ==
    /\ stream.step = "closed"
    /\ SetStream(IF FetchLiveConditionIDs = {} THEN "parked" ELSE "dialing",
                 FetchLiveConditionIDs)
    /\ UNCHANGED updates

\* The connection is made and the conditions asked for are subscribed to.
Dial ==
    /\ stream.step = "dialing"
    /\ SetStream("open", stream.games)
    /\ UNCHANGED updates

\* UPDATE ... WHERE: without the row, an error and no change.
UpdateOutcomeOdds(g, odds) ==
    /\ outcomes' = IF outcomes[g] = NoOutcome THEN outcomes
                   ELSE [outcomes EXCEPT ![g].odds = odds]
    /\ UNCHANGED markets

\* Without a market row ApplyUpdate looks for an outcome with the condition's id;
\* outcome ids are longer, there is none.
UpdateMarketStatus(g, status) ==
    /\ markets' = IF markets[g] = "none" THEN markets ELSE [markets EXCEPT ![g] = status]
    /\ UNCHANGED outcomes

\* The worker takes the next update and applies it, without syncMu.
ApplyUpdate ==
    /\ updates # <<>>
    /\ LET u == Head(updates)
       IN  IF u.type = "odds" THEN UpdateOutcomeOdds(u.game, u.odds)
           ELSE UpdateMarketStatus(u.game, u.status)
    /\ updates' = Tail(updates)
    /\ UNCHANGED <<src, events, sync, stream, changes, faults>>

-----------------------------------------------------------------------------
(* Failures. *)

Fault == faults < MaxFaults /\ faults' = faults + 1

\* A call to the provider or the database fails: the sync returns its error.
FailSync(p) ==
    /\ Fault
    /\ ~At(p, "idle")
    /\ sync' = [sync EXCEPT ![p] = End(p)]
    /\ UNCHANGED <<src, tables, stream, updates, changes>>

\* The statement of an update fails: the update is logged and gone.
LoseUpdate ==
    /\ Fault
    /\ updates # <<>>
    /\ updates' = Tail(updates)
    /\ UNCHANGED <<src, tables, sync, stream, changes>>

\* The subscription ends with an error: its channel is given up with what it holds.
BreakStream ==
    /\ Fault
    /\ stream.step \in {"dialing", "open"}
    /\ stream' = [step |-> "closed", games |-> {}]
    /\ updates' = <<>>
    /\ UNCHANGED <<src, tables, sync, changes>>

\* The process is restarted: the tables stay.
Restart ==
    /\ Fault
    /\ sync' = [p \in Syncers |-> Idle("initial")]
    /\ stream' = [step |-> "closed", games |-> {}]
    /\ updates' = <<>>
    /\ UNCHANGED <<src, tables, changes>>

-----------------------------------------------------------------------------
Provider(g) ==
    \/ GameStarts(g) \/ GameEnds(g) \/ GameInterrupted(g)
    \/ Requote(g) \/ Pause(g) \/ Resolve(g)

Next ==
    \/ \E g \in Games : Provider(g)
    \/ \E p \in Syncers : SyncStep(p)
    \/ Subscribe \/ Dial \/ ApplyUpdate
    \/ \E p \in Syncers : FailSync(p)
    \/ LoseUpdate \/ BreakStream \/ Restart

Spec == Init /\ [][Next]_vars

\* The ticker starts syncs again and again and a running sync goes on; the worker
\* takes the next update.  Nothing is assumed of the provider.
FairSpec ==
    /\ Spec
    /\ WF_vars(\E p \in Syncers : SyncStep(p))
    /\ WF_vars(ApplyUpdate)

-----------------------------------------------------------------------------
(* Properties. *)

\* The events with a status.
ListEvents(status) == {g \in Games : events[g] = status}

ListLiveScores == ListEvents("live")

\* The rows of a status that the sportsbook is given for an event and for its market.
ListMarkets(g, status) == {m \in {markets[g]} : m = status}

ListOutcomes(g, status) == {o \in {outcomes[g]} : o.status = status}

\* PlaceBet finds the game's market and outcome among the active ones.
Offered(g) == ListMarkets(g, "active") # {} /\ ListOutcomes(g, "active") # {}

\* What SettleBet acts on is what the provider decided: a result stored for an
\* outcome is the provider's own.  Pauses, pushes, restarts and unfinished syncs
\* never turn into a result; only a state that the adapter has no name for does, as
\* normalizeOutcomeState takes it for a cancellation.
ResultsTrue ==
    \A g \in Games :
        /\ outcomes[g].status = "won" => src[g].out = "Won"
        /\ outcomes[g].status = "lost" => src[g].out = "Lost"
        /\ outcomes[g].status = "cancelled" =>
              src[g].out \in {"Canceled", "Removed"} \/ ~src[g].known

EventRank(s) ==
    CASE s = "none" -> 0 [] s = "upcoming" -> 1 [] s \in {"live", "paused"} -> 2 [] OTHER -> 3

\* A result that nothing takes back: all but the cancellation that a state without a
\* name was taken for.
Final(g) ==
    outcomes[g].status \in {"won", "lost"} \/ (outcomes[g].status = "cancelled" /\ src[g].known)

\* A step of the tables forward: events and results do not go back.
Forward ==
    \A g \in Games :
        /\ EventRank(events'[g]) >= EventRank(events[g])
        /\ Final(g) => outcomes'[g].status = outcomes[g].status

\* Syncs apply snapshots in the order they were fetched: the status of an event
\* never goes back, and a decided outcome keeps its status (the sportsbook's
\* scheduler reads it once and pays for it).
NoStepBack == [][Forward]_vars

\* A row always finds the row it refers to, after any failed sync too: no statement
\* of a sync is refused by the foreign keys outcomes.market_id and markets.event_id.
RowsLinked ==
    \A g \in Games :
        /\ outcomes[g] # NoOutcome => markets[g] # "none"
        /\ markets[g] # "none" => events[g] # "none"

\* The listing of a state has a game whose status the schema refuses: every sync that
\* fetches it ends there, with what it has still to write of other games.
Blocked(state) ==
    \E g \in FetchSports(state) : NormalizeGameState(src[g].game) \notin EventStatus

\* The polls cover the gaps of the stream: whatever was pushed late, lost, applied
\* over a newer snapshot or overwritten by an older one, the rows of a game that
\* stays live end up as the provider has them, unless the live syncs are blocked.
LiveConverges ==
    \A g \in Games :
        <>[](src[g].game = "Live" /\ ~Blocked("Live")) =>
        <>[](/\ events[g] = "live"
             /\ markets[g] = NormalizeConditionState(src[g].cond)
             /\ outcomes[g] = BuildSnapshot(g).outcome)

\* A game that opens before its start can be bet on, unless it starts or its condition
\* is paused or decided before that, a sync fails, or the syncs are blocked.  A pause
\* is excepted since the conditions of an event are fetched once before its start.
EveryGameOffered ==
    \A g \in Games :
        <>(\/ Offered(g)
           \/ src[g].game # "Prematch" \/ src[g].cond # "Active"
           \/ faults > 0 \/ Blocked("Prematch"))

\* A game that has ended leaves the list of live events.
FinishedNoticed ==
    \A g \in Games :
        (src[g].game = "Finished" /\ g \in ListLiveScores) ~> g \notin ListLiveScores

=============================================================================
