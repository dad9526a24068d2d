----------------------------- MODULE MCPoolWeek -----------------------------
(***************************************************************************)
(* A season of two weeks: two games in the first and one in the second,    *)
(* between teams that also play in the first.                              *)
(***************************************************************************)
EXTENDS PoolWeek, TLC

CONSTANTS g1, g2, g3, A, B, C, D, r1, r2

MCHome == g1 :> A @@ g2 :> C @@ g3 :> A
MCAway == g1 :> B @@ g2 :> D @@ g3 :> C
MCFirstWeek == g1 :> 1 @@ g2 :> 1 @@ g3 :> 2
MCFirstKickoff == g1 :> 1 @@ g2 :> 2 @@ g3 :> 2

Survivor(slots, lockMode) ==
    [type |-> "survivor", direction |-> "winner", tie |-> "push", slots |-> slots,
     uses |-> 1, lockMode |-> lockMode, weights |-> {}, allowed |-> {}, blocked |-> {}]
Confidence ==
    [Survivor(1, "game_start") EXCEPT !.type = "confidence"]

MCRuleSets == {Survivor(2, "game_start"), Survivor(1, "week_start"), Confidence}

Choice(slot, game, team, confidence) ==
    [slot |-> slot, game |-> game, team |-> team, confidence |-> confidence]

MCCards ==
    1 :> { {}, {Choice(1, g1, A, 0)}, {Choice(1, g2, C, 0)},
           {Choice(1, g1, A, 0), Choice(2, g2, C, 0)},
           {Choice(1, g1, A, 0), Choice(2, g1, A, 0)},
           {Choice(0, g1, A, 1), Choice(0, g2, C, 2)},
           {Choice(0, g2, C, 1)},
           {Choice(0, g1, A, 1), Choice(0, g2, C, 1)} }
 @@ 2 :> { {Choice(1, g3, A, 0)}, {Choice(0, g3, A, 1)} }

RequestSymmetry == Permutations(Requests)

(* The first game is postponed within its week or moved to the second.     *)
MCFeed == { [game |-> g1, week |-> 1, kickoff |-> 2], [game |-> g1, week |-> 2, kickoff |-> 2] }
MCScores == { [game |-> g1, result |-> "none"], [game |-> g1, result |-> "away"] }

(* A GET matters to the properties by what it stamps, a client more than   *)
(* one save behind is refused like one that is one save behind, and the    *)
(* re-read of a card is not interrupted: PoolAutosave's run is about that. *)
UsefulRequests ==
    \A r \in Requests :
        /\ request[r].pc \in {"reading", "read"} => request'[r] # request[r]
        /\ request[r].pc = "idle" /\ request'[r].outcome = "read" =>
            Stamped(games, DueGames(games, now)) # games
        /\ request[r].pc = "idle" /\ request'[r].pc = "loaded" =>
            request'[r].version + 1 >= version[request'[r].week]

(* Bounds of the run: the saves accepted in all, and one race at a time: a  *)
(* save with another, or with the feeds and the clock.                     *)
TwoSaves == version[1] + version[2] <= 2
OneRace ==
    (\A r \in Requests : request[r].pc = "loaded") =>
        \A r \in Requests :
            /\ request[r].time = now
            /\ \A g \in DOMAIN request[r].loadedGames :
                request[r].loadedGames[g] = games[g]
=============================================================================
