--------------------------- MODULE MCPoolAutosave ---------------------------
(***************************************************************************)
(* Tabs on one survivor week of two games.                                 *)
(***************************************************************************)
EXTENDS PoolAutosave, TLC

CONSTANTS g1, g2, A, B, C, D, t1, t2

MCHome == g1 :> A @@ g2 :> C
MCAway == g1 :> B @@ g2 :> D
MCFirstWeek == g1 :> 1 @@ g2 :> 1
MCFirstKickoff == g1 :> 1 @@ g2 :> 1

MCRuleSets ==
    { [type |-> "survivor", direction |-> "winner", tie |-> "push", slots |-> 1,
       uses |-> 1, lockMode |-> "game_start", weights |-> {}, allowed |-> {}, blocked |-> {}] }

Choice(game, team) == [slot |-> 1, game |-> game, team |-> team, confidence |-> 0]
MCCards == 1 :> { {Choice(g1, A)}, {Choice(g2, C)} }

MCScores == { [game |-> g1, result |-> "away"] }

(* Bounds of the run: only the first tab's page is fetched again, the      *)
(* games start, and the first is lost, while its save is served or not at  *)
(* all, and, the two games being alike, the first edit picks the first.    *)
Narrowed ==
    /\ request[t2].pc = "idle" /\ request'[t2].outcome = "read" => ~tab[t2].open
    /\ now' # now => request[t1].pc = "loaded"
    /\ games'[g1].result # games[g1].result => request[t1].pc = "loaded"
    /\ edits = 0 /\ edits' = 1 => \E t \in Tabs : tab'[t].latest = {Choice(g1, A)}
=============================================================================
