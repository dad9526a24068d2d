------------------------------ MODULE PoolWeek ------------------------------
(***************************************************************************)
(* One pool entry's weekly cards under concurrent requests: reading a week *)
(* (get_pool_week), saving a card (save_weekly_card), the schedule and     *)
(* score feeds, and the clock that locks games.                            *)
(*                                                                         *)
(* SQLite begins a transaction at a session's first write, so the SELECTs  *)
(* before it, and those of a read, each see what is committed at that      *)
(* moment.  A save therefore has a step that loads the entry, a step from  *)
(* the claiming INSERT and UPDATE to the commit (no other writer is        *)
(* between them), and the two SELECTs of the re-read that builds the       *)
(* reply.  The SELECTs of the load, made in a row, are one step.  A        *)
(* request's arrival is part of its first step and its reply's travel part *)
(* of its last: what others do meanwhile they could do before or after.    *)
(*                                                                         *)
(* The session keeps the objects it has loaded: after the claim, the       *)
(* entry's picks and their games still have their loaded values, and only  *)
(* other games are read anew.                                              *)
(***************************************************************************)
EXTENDS PoolCard

CONSTANTS Weeks, Slots, Confidences,
          RuleSets,       \* the pool's possible rules
          FirstWeek,      \* FirstWeek[g] and FirstKickoff[g]: the schedule as imported
          FirstKickoff,
          Cards,          \* the cards a client may ask for, by week
          Feed,           \* what the schedule feed may say of a game
          Scores,         \* the scores that may be reported
          Requests,       \* requests that may be in progress together
          MaxVersion, MaxTime     \* bounds on saves and on the clock

Requested == [slot : Slots, game : Games, team : Teams, confidence : Confidences]

ASSUME PoolWeekAssumption ==
    /\ Weeks \subseteq Nat \ {0}
    /\ RuleSets \subseteq Rules
    /\ FirstWeek \in [Games -> Weeks]
    /\ FirstKickoff \in [Games -> 1..MaxTime]
    /\ Cards \in [Weeks -> SUBSET SUBSET Requested]
    /\ \A week \in Weeks : \A card \in Cards[week] : IsFiniteSet(card)
    /\ Feed \subseteq [game : Games, week : Weeks, kickoff : 1..MaxTime]
    /\ Scores \subseteq [game : Games, result : Results]
    /\ MaxVersion \in Nat /\ MaxTime \in Nat

Picks == [week : Weeks, slot : Slots, game : Games, team : Teams, confidence : Confidences]
GameStates == [week : Weeks, kickoff : 1..MaxTime, locked : BOOLEAN, result : Results]

VARIABLES now, rules,
          games,          \* the games table, one season
          picks,          \* the entry's pool_picks
          version,        \* pool_entry_weeks.version, 0 when there is no row
          request,        \* the requests being served
          saved           \* history: the card last accepted for each week

vars == <<now, rules, games, picks, version, request, saved>>

(* A request's fields: its week; the version its card is based on and the  *)
(* card; its timestamp; the picks its session has loaded and their games;  *)
(* what the save came to; and the picks its reply will show.               *)
Idle == [pc |-> "idle", week |-> 0, version |-> 0, card |-> {}, time |-> 0,
         loaded |-> {}, loadedGames |-> <<>>, outcome |-> "none", shown |-> {}]

PCs == {"idle", "loaded", "reading", "read"}

(* "read" is a GET; "lost_claim" becomes "ok" or "conflict" when the card  *)
(* has been read again.                                                    *)
Outcomes == {"none", "read", "ok", "lost_claim", "conflict", "invalid"}

RequestTypeOK(q) ==
    /\ DOMAIN q = DOMAIN Idle
    /\ q.pc \in PCs /\ q.outcome \in Outcomes
    /\ q.week \in IF q.pc = "idle" THEN {0} ELSE Weeks
    /\ q.version \in 0..MaxVersion /\ q.time \in 0..MaxTime
    /\ q.card \subseteq Requested
    /\ q.loaded \subseteq Picks /\ q.shown \subseteq Picks
    /\ q.loadedGames \in [{p.game : p \in q.loaded} -> GameStates]
    /\ q.pc = "loaded" => q.outcome = "none"

TypeOK ==
    /\ now \in 0..MaxTime
    /\ rules \in RuleSets
    /\ games \in [Games -> GameStates]
    /\ picks \subseteq Picks
    /\ version \in [Weeks -> 0..MaxVersion]
    /\ saved \in [Weeks -> SUBSET Requested]
    /\ DOMAIN request = Requests
    /\ \A r \in Requests : RequestTypeOK(request[r])

Init ==
    /\ now = 0
    /\ rules \in RuleSets
    /\ games = [g \in Games |-> [week |-> FirstWeek[g], kickoff |-> FirstKickoff[g],
                                 locked |-> FALSE, result |-> "none"]]
    /\ picks = {}
    /\ version = [w \in Weeks |-> 0]
    /\ request = [r \in Requests |-> Idle]
    /\ saved = [w \in Weeks |-> {}]

CardOf(ps, week) == {p \in ps : p.week = week}

(* stamp_due_games                                                         *)
Stamped(gs, due) == [g \in Games |-> [gs[g] EXCEPT !.locked = @ \/ g \in due]]
DueGames(gs, time) == {g \in Games : GameLocked(gs[g], time)}

-----------------------------------------------------------------------------
(* The clock and the feeds.                                                *)

Tick ==
    /\ now < MaxTime
    /\ now' = now + 1
    /\ UNCHANGED <<rules, games, picks, version, request, saved>>

(* Mutant: the feed's kickoff replaces one that has passed, unstamped. *)
SyncScheduleUnstamped(item, result) ==
    /\ games' = [games EXCEPT
                    ![item.game].week = item.week, ![item.game].kickoff = item.kickoff,
                    ![item.game].result = IF item.kickoff < now THEN result ELSE "none"]
    /\ UNCHANGED <<now, rules, picks, version, request, saved>>

(* parse_schedule: every game already due is stamped before the feed's     *)
(* values replace its own; here one game's differ.  A score counts only    *)
(* once the feed's kickoff has passed.                                     *)
SyncSchedule(item, result) ==
    /\ games' = [Stamped(games, DueGames(games, now)) EXCEPT
                    ![item.game].week = item.week, ![item.game].kickoff = item.kickoff,
                    ![item.game].result = IF item.kickoff < now THEN result ELSE "none"]
    /\ UNCHANGED <<now, rules, picks, version, request, saved>>

(* apply_scoreboard, for a game that has begun: "none" while in progress.  *)
ApplyScoreboard(score) ==
    /\ games[score.game].kickoff <= now
    /\ games' = [games EXCEPT ![score.game].result = score.result]
    /\ UNCHANGED <<now, rules, picks, version, request, saved>>

-----------------------------------------------------------------------------
(* Requests.                                                               *)

(* A GET of a week; it begins with the timestamp.                          *)
Get(r, week) ==
    /\ request[r].pc = "idle"
    /\ request' = [request EXCEPT ![r] =
            [Idle EXCEPT !.pc = "reading", !.week = week, !.time = now, !.outcome = "read"]]
    /\ UNCHANGED <<now, rules, games, picks, version, saved>>

(* save_weekly_card up to the claim, for a card of the pool's kind sent    *)
(* with a version its client has been told of: the timestamp, the entry,   *)
(* its picks and their games.                                              *)
Put(r, week, base, card) ==
    /\ request[r].pc = "idle"
    /\ base <= version[week]
    /\ \A q \in card : (q.slot # 0) = (rules.type = "survivor")
    /\ request' = [request EXCEPT ![r] =
            [Idle EXCEPT !.pc = "loaded", !.week = week, !.version = base, !.card = card,
                         !.time = now, !.loaded = picks,
                         !.loadedGames = [g \in {p.game : p \in picks} |-> games[g]]]]
    /\ UNCHANGED <<now, rules, games, picks, version, saved>>

(* The games the session sees after the claim.                             *)
Seen(r) ==
    [g \in Games |-> IF g \in DOMAIN request[r].loadedGames
                     THEN request[r].loadedGames[g] ELSE games[g]]

Claimed(r) == version[request[r].week] = request[r].version

Rejected(r) ==
    Eliminated(rules, Seen(r), request[r].loaded, request[r].week + 1)

Conflicting(r) ==
    HasConflicts(rules, Seen(r), CardOf(request[r].loaded, request[r].week),
                 request[r].week, request[r].card, request[r].time)

Invalid(r) ==
    HasFindings(rules, Seen(r), request[r].loaded, request[r].week, request[r].card)

(* A save whose transaction has ended goes on to the re-read.              *)
Answering(r, outcome) ==
    [Idle EXCEPT !.pc = "reading", !.outcome = outcome,
                 !.week = request[r].week, !.time = request[r].time,
                 !.card = IF outcome = "lost_claim" THEN request[r].card ELSE {}]

(* Each way out of the transaction without a save rolls back its stamps    *)
(* and its claim.                                                          *)
LoseClaim(r) ==
    /\ request[r].pc = "loaded"
    /\ ~Claimed(r)
    /\ request' = [request EXCEPT ![r] = Answering(r, "lost_claim")]
    /\ UNCHANGED <<now, rules, games, picks, version, saved>>

RejectEliminated(r) ==
    /\ request[r].pc = "loaded"
    /\ Claimed(r) /\ Rejected(r)
    /\ request' = [request EXCEPT ![r] = Idle]
    /\ UNCHANGED <<now, rules, games, picks, version, saved>>

RejectCard(r) ==
    /\ request[r].pc = "loaded"
    /\ Claimed(r) /\ ~Rejected(r)
    /\ Conflicting(r) \/ Invalid(r)
    /\ request' = [request EXCEPT ![r] =
                    Answering(r, IF Conflicting(r) THEN "conflict" ELSE "invalid")]
    /\ UNCHANGED <<now, rules, games, picks, version, saved>>

(* A requested pick becomes a row unless it is a locked pick, kept as it   *)
(* is.  A confidence row keeps its game's old slot if that is free and     *)
(* otherwise takes the lowest free one; rows are made in the order of the  *)
(* request, which is any order of the set.                                 *)
LockedPicks(r) ==
    {p \in CardOf(request[r].loaded, request[r].week) :
        PickLocked(rules, Seen(r), p, request[r].time)}

(* Mutant: a pick whose place is filled is skipped, locked or not. *)
AddedToEmptyPlaces(r) ==
    {q \in request[r].card :
        \A p \in CardOf(request[r].loaded, request[r].week) :
            Identity(rules, p) # Identity(rules, q)}

Added(r) ==
    {q \in request[r].card :
        \A p \in LockedPicks(r) : Identity(rules, p) # Identity(rules, q)}

SlotChoices(r) ==
    IF rules.type = "survivor" THEN {[q \in Added(r) |-> q.slot]}
    ELSE LET taken == {p.slot : p \in LockedPicks(r)}
             old(q) == {p.slot : p \in {x \in CardOf(request[r].loaded, request[r].week) :
                                            x.game = q.game}}
             free(s, before, f) == s \notin taken \union {f[b] : b \in before}
             orders == {o \in [Added(r) -> 1..Cardinality(Added(r))] :
                            \A a, b \in Added(r) : o[a] = o[b] => a = b}
             assigned(f, o) ==
                \A q \in Added(r) :
                    LET before == {b \in Added(r) : o[b] < o[q]}
                    IN  /\ f[q] > 0 /\ free(f[q], before, f)
                        /\ \/ f[q] \in old(q)
                           \/ /\ \A s \in old(q) : s = 0 \/ ~free(s, before, f)
                              /\ \A s \in 1..(f[q] - 1) : ~free(s, before, f)
         IN  {f \in [Added(r) -> Slots] : \E o \in orders : assigned(f, o)}

(* Mutant: the identity of a pick is its storage slot. *)
RowAtIdentity(week, slot, q) ==
    [week |-> week, slot |-> Identity(rules, q), game |-> q.game, team |-> q.team,
     confidence |-> q.confidence]

Row(week, slot, q) ==
    [week |-> week, slot |-> slot, game |-> q.game, team |-> q.team,
     confidence |-> q.confidence]

(* Mutant: the version is compared and not raised. *)
KeepVersion(week) == version' = version

RaiseVersion(week) == version' = [version EXCEPT ![week] = @ + 1]

Commit(r) ==
    LET week == request[r].week
    IN  /\ request[r].pc = "loaded"
        /\ Claimed(r) /\ ~Rejected(r)
        /\ ~Conflicting(r) /\ ~Invalid(r)
        /\ version[week] < MaxVersion
        /\ RaiseVersion(week)
        /\ games' = Stamped(games, DueGames(Seen(r), request[r].time))
        /\ \E slots \in SlotChoices(r) :
            picks' = (picks \ (CardOf(request[r].loaded, week) \ LockedPicks(r)))
                     \union {Row(week, slots[q], q) : q \in Added(r)}
        /\ saved' = [saved EXCEPT ![week] = request[r].card]
        /\ request' = [request EXCEPT ![r] = Answering(r, "ok")]
        /\ UNCHANGED <<now, rules>>

(* get_pool_week, which also ends every save: due games are stamped and    *)
(* the picks selected, then the version is.  After a commit the session    *)
(* still has the games it stamped then.                                    *)
ReadPicks(r) ==
    /\ request[r].pc = "reading"
    /\ games' = IF request[r].outcome = "ok" THEN games
                ELSE Stamped(games, DueGames(games, request[r].time))
    /\ request' = [request EXCEPT ![r].pc = "read",
                                  ![r].shown = CardOf(picks, request[r].week)]
    /\ UNCHANGED <<now, rules, picks, version, saved>>

(* A card as _normalized_card and _normalized_request compare it.          *)
Normal(p) ==
    [slot |-> IF rules.type = "survivor" THEN p.slot ELSE 0,
     game |-> p.game, team |-> p.team, confidence |-> p.confidence]
Normalized(card) == {Normal(p) : p \in card}

(* The status of a reply that carries a card.                              *)
Status(r) ==
    IF request[r].outcome # "lost_claim" THEN request[r].outcome
    ELSE IF Normalized(request[r].card) = Normalized(request[r].shown)
    THEN "ok" ELSE "conflict"

ReadVersion(r) ==
    /\ request[r].pc = "read"
    /\ request' = [request EXCEPT ![r] = Idle]
    /\ UNCHANGED <<now, rules, games, picks, version, saved>>

(* A busy timeout, an exception, a stopped process or a lost reply: the    *)
(* transaction has committed or not, and the client hears an error.        *)
Fail(r) ==
    /\ request[r].pc # "idle"
    /\ request' = [request EXCEPT ![r] = Idle]
    /\ UNCHANGED <<now, rules, games, picks, version, saved>>

Serve(r) ==
    \/ LoseClaim(r) \/ RejectEliminated(r) \/ RejectCard(r) \/ Commit(r)
    \/ ReadPicks(r) \/ ReadVersion(r)

World ==
    \/ Tick
    \/ \E item \in Feed, score \in Scores :
        item.game = score.game /\ SyncSchedule(item, score.result)
    \/ \E score \in Scores : ApplyScoreboard(score)

Next ==
    \/ World
    \/ \E r \in Requests :
        \/ \E week \in Weeks : Get(r, week)
        \/ \E week \in Weeks : \E base \in 0..version[week], card \in Cards[week] :
            Put(r, week, base, card)
        \/ Serve(r) \/ Fail(r)

Spec == Init /\ [][Next]_vars

-----------------------------------------------------------------------------
(* Properties.                                                             *)

(* A save that may still claim its version has loaded the very card that   *)
(* version names, whatever other tabs saved in between: the claim made     *)
(* after the load protects the replaced card.                              *)
ClaimSeesItsCard ==
    \A r \in Requests :
        request[r].pc = "loaded" /\ Claimed(r) =>
            CardOf(request[r].loaded, request[r].week) = CardOf(picks, request[r].week)

(* What is stored for a week is the card last accepted, no pick more or    *)
(* less, with locked picks kept and others replaced: so a client that lost *)
(* the answer and repeats its request is told "ok", not a conflict.        *)
StoredCardIsTheOneAccepted ==
    \A w \in Weeks : Normalized(CardOf(picks, w)) = Normalized(saved[w])

(* No save, under any order of saves, locks and moved games, leaves two    *)
(* rows of a week on one slot, game or team, or one weight twice; the slot *)
(* is a unique key, and the code assigns it for confidence cards.          *)
CardsHaveNoRepeats ==
    \A p, q \in picks :
        p # q /\ p.week = q.week =>
            /\ p.slot # q.slot /\ p.game # q.game /\ p.team # q.team
            /\ p.confidence = 0 \/ p.confidence # q.confidence

(* A game that has locked stays locked, although the feed may postpone it  *)
(* and its kickoff may not have been stamped yet.                          *)
LocksNeverLift ==
    [][\A g \in Games : GameLocked(games[g], now) => GameLocked(games[g], now)']_vars

(* Under per-game locks a save never changes or removes a pick that was    *)
(* locked when the save began, though games move and are rescored while it *)
(* is served.                                                              *)
LockedPicksStay ==
    [][\A r \in Requests :
        request[r].pc = "loaded" /\ request'[r].outcome = "ok"
            /\ rules.lockMode = "game_start" =>
                \A p \in CardOf(request[r].loaded, request[r].week) :
                    GameLocked(request[r].loadedGames[p.game], request[r].time)
                        => p \in picks']_vars

(* However cards come to be saved (later weeks first, or two weeks at      *)
(* once), grading never lets more uses of a team count than the pool       *)
(* allows.                                                                 *)
UsesThatCountAreLimited ==
    rules.type = "survivor" /\ rules.uses > 0 =>
        \A t \in Teams :
            Cardinality({p \in picks : p.team = t
                /\ EntryResult(rules, games, picks, p) # "ungraded"}) <= rules.uses

(* docs/designs/pool-week-workspace.md: the transaction of a save loads    *)
(* the current picks once it has claimed the version, and enforces maximum *)
(* team uses across prior weeks.                                           *)
SavesRespectPriorUse ==
    [][\A p \in picks' \ picks : ~UsedUp(rules, picks, p.team, p.week)]_vars

=============================================================================
