------------------------------- MODULE MCFeeds -------------------------------
(***************************************************************************)
(* Model checking of what is downloaded and advised: a small season, a     *)
(* small league, and each part on its own where it does not need all its   *)
(* initial states.                                                         *)
(***************************************************************************)
EXTENDS Feeds, TLC

CONSTANTS a, b, c, d, g1, g2, g3, g4, m1, m2

(* Manual fetches differ in nothing but their names.                       *)
MCSymmetry == Permutations(Manual)

(* Two manual fetches, or one and a check-in, beside the collection.       *)
MCFetches ==
    \A r \in CheckIns : reader[r].at # "idle" =>
        \A q, m \in Manual : reader[q].at # "idle" /\ reader[m].at # "idle" => q = m

MCAlarming == {<<1, 1>>, <<2, 2>>}

-----------------------------------------------------------------------------
(* A season of two weeks in which every team plays twice.                  *)
Rule(type, direction, slotCount, uses, lockMode, blockedTeams) ==
    [type |-> type, direction |-> direction, tie |-> "push", slots |-> slotCount, uses |-> uses,
     lockMode |-> lockMode, weights |-> {}, allowed |-> {}, blocked |-> blockedTeams]

MCRuleChoices ==
    {Rule("survivor", "winner", 1, 1, "game_start", {}),
     Rule("survivor", "loser", 2, 1, "game_start", {}),
     Rule("survivor", "winner", 2, 1, "week_start", {a}),
     Rule("survivor", "winner", 1, 0, "week_start", {}),
     Rule("confidence", "winner", 1, 0, "game_start", {}),
     Rule("confidence", "loser", 1, 0, "game_start", {d})}

Game(week, kickoff, locked, odds) ==
    [week |-> week, kickoff |-> kickoff, locked |-> locked, result |-> "none", odds |-> odds]

(* The first game is over, has begun, is locked although it was postponed, *)
(* or is still to come; the odds of the others differ or are missing.      *)
MCGameChoices ==
    {g1 :> first @@ g2 :> Game(1, 2, FALSE, o2) @@ g3 :> Game(2, 3, FALSE, o3)
        @@ g4 :> Game(2, 3, FALSE, o4) :
        first \in {[Game(1, 0, TRUE, 8) EXCEPT !.result = "away"], Game(1, 0, FALSE, 5),
                   Game(1, 2, TRUE, 5), Game(1, 2, FALSE, 5), Game(1, 2, FALSE, 8)},
        o2 \in {0, 7}, o3 \in {3, 8}, o4 \in {2, 7}}

Saved(week, slot, game, team) ==
    [week |-> week, slot |-> slot, game |-> game, team |-> team, confidence |-> 0]

MCSavedChoices == {{}, {Saved(1, 1, g1, a)}, {Saved(2, 1, g3, a)}, {Saved(2, 2, g4, d)}}

MCHome == g1 :> a @@ g2 :> c @@ g3 :> a @@ g4 :> b
MCAway == g1 :> b @@ g2 :> d @@ g3 :> c @@ g4 :> d

MCLogCost == 2 :> 16 @@ 3 :> 12 @@ 5 :> 7 @@ 7 :> 4 @@ 8 :> 2

-----------------------------------------------------------------------------
(* A league with a running back's slot and a flexible one, whose first     *)
(* back is locked by the end and whose first receiver from the start on.   *)
MCPosition == <<"RB", "WR", "RB", "WR">>
MCSlots == <<"RB", "FLEX">>
MCKickoff == <<3, 1, 9, 9>>

MCForecasts ==
    [points : {<<p, q, r, s>> : p \in {3, -100}, q \in {1, 4}, r \in {-1, 2, -100}, s \in {2, 9}},
     out : {{}, {1}}]

MCTeamRosters ==
    {<<"RB", "FLEX", "BN", "FA">>, <<"BN", "FLEX", "RB", "FA">>, <<"RB", "IR", "FLEX", "FA">>,
     <<"RB", "BN", "FA", "BN">>, <<"FLEX", "BN", "RB", "BN">>}

(* Imports are interleaved with one forecast, the others are only decided  *)
(* on.                                                                     *)
Sample == [points |-> <<3, 4, 2, 9>>, out |-> {}]

-----------------------------------------------------------------------------
(* What is not exercised starts in one way only.                           *)
MCInit ==
    /\ part \in Parts
    /\ owner = [l \in Yahoo!Leagues |-> 2]
    /\ IF part = "sleeper" THEN TRUE
       ELSE remote = [rules |-> CHOOSE x \in RuleSets : TRUE, rosters |-> Rosters]
    /\ IF part = "lineup" THEN TRUE
       ELSE forecast = Sample /\ slots = <<"RB", "FLEX", "BN", "FA">>
    /\ IF part = "season" THEN TRUE
       ELSE /\ rules = CHOOSE r \in RuleChoices : TRUE
            /\ games = CHOOSE g \in GameChoices : TRUE
            /\ saved = [e \in Entries |-> {}]
    /\ Init

(* Either the rosters move, the owner saves a cookie or Yahoo throttles,   *)
(* and rosters do not move across a restart.                               *)
OneTrouble ==
    /\ moves' > 0 => throttled' = 0 /\ cookie' = 0 /\ restarts' = 0
    /\ cookie' > 0 => throttled' = 0

MCNext ==
    /\ Next
    /\ part = "yahoo" => OneTrouble
    /\ part = "news" => MCFetches'
    /\ part = "lineup" => ~advice.given /\ (forecast # Sample => UNCHANGED imports)

MCSpec == MCInit /\ [][MCNext]_vars
=============================================================================
