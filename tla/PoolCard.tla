------------------------------ MODULE PoolCard ------------------------------
(***************************************************************************)
(* The rules of a weekly pool card: when a game and a pick are locked,     *)
(* which cards a save accepts (_validate_requested_card of                 *)
(* services/pool_week.py) and how saved picks are graded                   *)
(* (services/pool_outcomes.py).                                            *)
(*                                                                         *)
(* A game is [week, kickoff, locked, result]: "locked" is whether          *)
(* locked_at is set, and "result" is "none" until the game is completed.   *)
(* A pick is [week, slot, game, team, confidence] with 0 for a NULL slot   *)
(* or confidence; a requested pick has no week.  Every pick refers to a    *)
(* game of the pool's season, and grading is straight up: lines,           *)
(* probabilities and legacy picks without a game are left out.             *)
(***************************************************************************)
EXTENDS Naturals, FiniteSets

CONSTANTS Games, Teams,
          Home, Away      \* Home[g] and Away[g] are the teams of game g

ASSUME PoolCardAssumption ==
    /\ Home \in [Games -> Teams]
    /\ Away \in [Games -> Teams]
    /\ \A g \in Games : Home[g] # Away[g]

TeamsOf(g) == {Home[g], Away[g]}

Results == {"none", "home", "away", "tie"}

(* PoolRules: no uses limit is 0, and an empty set of weights or of        *)
(* allowed teams means the default, as empty lists do.                     *)
Rules == [type : {"survivor", "confidence"},
          direction : {"winner", "loser"},
          tie : {"survive", "eliminate", "push"},
          slots : Nat \ {0},
          uses : Nat,
          lockMode : {"game_start", "week_start"},
          weights : SUBSET (Nat \ {0}),
          allowed : SUBSET Teams,
          blocked : SUBSET Teams]

GamesOf(games, week) == {g \in Games : games[g].week = week}

GameLocked(game, time) == game.locked \/ game.kickoff <= time

WeekLocked(rules, games, week, time) ==
    /\ rules.lockMode = "week_start"
    /\ \E g \in GamesOf(games, week) : GameLocked(games[g], time)

(* Mutant: only a stamped game locks its picks. *)
PickLockedOnceStamped(rules, games, pick, time) ==
    IF rules.lockMode = "week_start"
    THEN WeekLocked(rules, games, pick.week, time)
    ELSE games[pick.game].locked

PickLocked(rules, games, pick, time) ==
    IF rules.lockMode = "week_start"
    THEN WeekLocked(rules, games, pick.week, time)
    ELSE GameLocked(games[pick.game], time)

-----------------------------------------------------------------------------
(* Validating a requested card.                                            *)

Identity(rules, pick) == IF rules.type = "survivor" THEN pick.slot ELSE pick.game

SameChoice(p, q) ==
    p.game = q.game /\ p.team = q.team /\ p.confidence = q.confidence

Unchanged(rules, card, pick) ==
    \E other \in card :
        Identity(rules, other) = Identity(rules, pick) /\ SameChoice(other, pick)

PriorUses(picks, team, week) ==
    Cardinality({p \in picks : p.team = team /\ p.week < week})

UsedUp(rules, picks, team, week) ==
    rules.type = "survivor" /\ rules.uses > 0 /\ PriorUses(picks, team, week) >= rules.uses

TeamBarred(rules, team) ==
    (rules.allowed # {} /\ team \notin rules.allowed) \/ team \in rules.blocked

Weights(rules, games, week) ==
    IF rules.weights = {} THEN 1..Cardinality(GamesOf(games, week)) ELSE rules.weights

WeightCountMismatch(rules, games, week) ==
    /\ rules.type = "confidence"
    /\ rules.weights # {}
    /\ Cardinality(rules.weights) # Cardinality(GamesOf(games, week))

RepeatedIn(card, pick) ==
    \E other \in card \ {pick} : other.team = pick.team \/ other.game = pick.game

(* Mutant: a confidence weight may be used twice. *)
BadPlaceOnce(rules, games, week, card, pick) ==
    IF rules.type = "survivor"
    THEN \/ pick.slot \notin 1..rules.slots
         \/ \E other \in card \ {pick} : other.slot = pick.slot
         \/ pick.confidence # 0
    ELSE pick.confidence # 0 /\ pick.confidence \notin Weights(rules, games, week)

BadPlace(rules, games, week, card, pick) ==
    IF rules.type = "survivor"
    THEN \/ pick.slot \notin 1..rules.slots
         \/ \E other \in card \ {pick} : other.slot = pick.slot
         \/ pick.confidence # 0
    ELSE /\ pick.confidence # 0
         /\ \/ pick.confidence \notin Weights(rules, games, week)
            \/ \E other \in card \ {pick} : other.confidence = pick.confidence

(* The findings that make a requested card a 422.                          *)
HasFindings(rules, games, picks, week, card) ==
    \/ WeightCountMismatch(rules, games, week)
    \/ \E pick \in card :
        \/ pick.game \notin GamesOf(games, week)
        \/ pick.team \notin TeamsOf(pick.game)
        \/ TeamBarred(rules, pick.team)
        \/ UsedUp(rules, picks, pick.team, week)
        \/ RepeatedIn(card, pick)
        \/ BadPlace(rules, games, week, card, pick)

(* The conflicts that make it a 409: a locked pick is missing or differs,  *)
(* or a new choice is on a locked game or in a locked week.                *)
HasConflicts(rules, games, existing, week, card, time) ==
    \/ \E pick \in existing :
        PickLocked(rules, games, pick, time) /\ ~Unchanged(rules, card, pick)
    \/ \E pick \in card :
        /\ pick.game \in GamesOf(games, week)
        /\ WeekLocked(rules, games, week, time) \/ GameLocked(games[pick.game], time)
        /\ ~Unchanged(rules, existing, pick)

-----------------------------------------------------------------------------
(* Grading saved picks.                                                    *)

TieResult(rules) ==
    CASE rules.tie = "survive" -> "win"
      [] rules.tie = "eliminate" -> "loss"
      [] rules.tie = "push" -> "push"

PickResult(rules, game, pick) ==
    IF game.result = "none" THEN "pending"
    ELSE IF game.result = "tie" THEN TieResult(rules)
    ELSE LET teamWon == (game.result = "home") = (pick.team = Home[pick.game])
         IN  IF teamWon = (rules.direction = "winner") THEN "win" ELSE "loss"

(* A pick that breaks the rules, which its card may have been accepted     *)
(* with: games move, and earlier weeks are filled in later.                *)
Malformed(rules, games, picks, pick) ==
    LET others == {p \in picks \ {pick} : p.week = pick.week}
    IN  \/ games[pick.game].week # pick.week
        \/ pick.team \notin TeamsOf(pick.game)
        \/ TeamBarred(rules, pick.team)
        \/ \E p \in others : p.game = pick.game \/ p.team = pick.team
        \/ IF rules.type = "survivor"
           THEN \/ pick.slot \notin 1..rules.slots
                \/ \E p \in others : p.slot = pick.slot
                \/ pick.confidence # 0
                \/ UsedUp(rules, picks, pick.team, pick.week)
           ELSE \/ pick.confidence \notin Weights(rules, games, pick.week)
                \/ \E p \in others : p.confidence = pick.confidence

(* Mutant: any saved pick of a completed game is graded. *)
EntryResultOfAnyPick(rules, games, picks, pick) ==
    PickResult(rules, games[pick.game], pick)

EntryResult(rules, games, picks, pick) ==
    IF Malformed(rules, games, picks, pick) THEN "ungraded"
    ELSE PickResult(rules, games[pick.game], pick)

(* entry_outcome(..., before_week): the entry lost a survivor pick.        *)
Eliminated(rules, games, picks, beforeWeek) ==
    /\ rules.type = "survivor"
    /\ \E p \in picks :
        p.week < beforeWeek /\ EntryResult(rules, games, picks, p) = "loss"

=============================================================================
