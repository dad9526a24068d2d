---------------------------- MODULE WeeklyLineup ----------------------------
(***************************************************************************)
(* The lineup and the waiver moves a team is advised for a week            *)
(* (services/weekly_forecast.py, services/decision.py), and the check of   *)
(* the roster they are made from (services/decision_freshness.py): one     *)
(* request, whose downloads Yahoo imports and the clock overtake.          *)
(***************************************************************************)
EXTENDS Integers, Sequences, FiniteSetsExt, Functions

CONSTANTS Players, Position,    \* the players of the league, as positions
          Slots,                \* the starting slots of the league, in order
          Kickoff,              \* of each player's game
          Forecasts,            \* [points, out]: what the week may look like
          Rosters,              \* the slots players may have at Yahoo, or "FA"
          Fresh,                \* the 6 hours a roster is good for
          MaxTime, MaxRows      \* bounds

WeeklyLineupAssumption ==
    Fresh \in Nat /\ MaxTime \in Nat /\ MaxRows \in Nat \ {0}

VARIABLES
    now,
    forecast,   \* points of each player, or None; and who is out
    roster,     \* the slot of each player, as imported last
    snapshots,  \* the DataSnapshot rows of the league, the oldest first
    imported,   \* history: when the roster was imported, and all pages were
    request,    \* what the request has loaded
    advice      \* what it was answered

vars == <<now, forecast, roster, snapshots, imported, request, advice>>

None == -100
Never == -100

(* The lineup page looks at one team; the report of an analysis run also   *)
(* at the free agents.                                                     *)
Kinds == {"page", "report"}

NotAsked == [at |-> "idle"]
Unanswered == [given |-> FALSE]

TypeOK ==
    /\ now \in 0..MaxTime /\ forecast \in Forecasts
    /\ roster \in Rosters
    /\ Len(snapshots) <= MaxRows
    /\ imported.at \in {Never} \cup 0..MaxTime /\ imported.whole \in BOOLEAN
    /\ request.at \in {"idle", "loaded"}
    /\ request.at = "loaded" => request.kind \in Kinds

Init ==
    /\ now = 0 /\ forecast \in Forecasts
    /\ roster \in Rosters
    /\ snapshots = <<[source |-> "scrape", at |-> 0, ok |-> TRUE]>>
    /\ imported = [at |-> 0, whole |-> TRUE]
    /\ request = NotAsked /\ advice = Unanswered

-----------------------------------------------------------------------------
(* eligible, after position has made one of the names of a defense.        *)
Eligible(p, slot) ==
    CASE slot \in {"BN", "IR"} -> FALSE
      [] slot = "FLEX" -> Position[p] \in {"RB", "WR", "TE"}
      [] OTHER -> Position[p] = slot

(* can_start                                                               *)
CanStart(p, slots) == p \notin forecast.out /\ slots[p] # "IR"

Modeled(p) == forecast.points[p] # None

Points(p) == IF Modeled(p) THEN forecast.points[p] ELSE 0

Total(lineup) == MapThenSumSet(LAMBDA i : Points(lineup[i]), DOMAIN lineup)

(* The places of a lineup are those of its slots.                          *)
Places == DOMAIN Slots

Locked(p, time) == Kickoff[p] <= time

Team(slots) == {p \in Players : slots[p] # "FA"}

FreeAgents(slots, time) ==
    {p \in Players : /\ slots[p] = "FA" /\ Modeled(p)
                     /\ ~Locked(p, time) /\ CanStart(p, slots)}

(* The players assign_lineup may place.                                    *)
Placeable(pool, slots, forced, time) ==
    {p \in pool : /\ p \notin Range(forced) /\ Modeled(p) /\ ~Locked(p, time)
                  /\ CanStart(p, slots)}

(* Of the lineups that fill the same places, the best.                     *)
BestOfMask(lineups) ==
    {f \in lineups : \A g \in lineups : DOMAIN g = DOMAIN f => Total(g) <= Total(f)}

(* assign_lineup goes through the players once, and prefers a lineup that  *)
(* fills more places to one with more points.  It returns one of these:    *)
(* which of several equals is left open.                                   *)
AssignLineup(pool, slots, forced, time) ==
    LET With(p, lineups) ==
            BestOfMask(lineups \cup
                {[j \in DOMAIN g[1] \cup {g[2]} |-> IF j = g[2] THEN p ELSE g[1][j]] :
                    g \in {g \in lineups \X Places :
                              /\ g[2] \notin DOMAIN g[1] \cup DOMAIN forced
                              /\ Eligible(p, Slots[g[2]])}})
        found == FoldSet(With, {<<>>}, Placeable(pool, slots, forced, time))
        fullest == {f \in found : \A g \in found : Cardinality(DOMAIN g) <= Cardinality(DOMAIN f)}
    IN  {[j \in DOMAIN f \cup DOMAIN forced |-> IF j \in DOMAIN f THEN f[j] ELSE forced[j]] :
            f \in {f \in fullest : \A g \in fullest : Total(g) <= Total(f)}}

(* optimize_lineup goes through the slots, and prefers an empty one to a   *)
(* player who would lose points.                                           *)
OptimizeLineup(pool, slots) ==
    LET solve[i \in 1..(Len(Slots) + 1), used \in SUBSET pool] ==
            IF i > Len(Slots) THEN 0
            ELSE Max({solve[i + 1, used]} \cup
                     {Points(p) + solve[i + 1, used \cup {p}] :
                         p \in {p \in pool \ used : CanStart(p, slots) /\ Eligible(p, Slots[i])}})
    IN  solve[1, {}]

(* rank_waivers, for a team and free agents whose projections compare.     *)
WaiverGain(pool, slots, add) ==
    OptimizeLineup(pool \cup {add}, slots) - OptimizeLineup(pool, slots)

(* team_decisions: the starters where they are, if every one has a place.  *)
Starters(slots) == {p \in Team(slots) : slots[p] \notin {"BN", "IR"}}

Current(slots) ==
    {f \in [Places -> Starters(slots) \cup {None}] :
        /\ Starters(slots) # {}
        /\ \A p \in Starters(slots) : Cardinality({i \in Places : f[i] = p}) = 1
        /\ \A i \in Places : f[i] # None => slots[f[i]] = Slots[i] /\ Eligible(f[i], Slots[i])}

(* Players whose game began, and starters nothing is known of, stay.       *)
Held(current, slots, time) ==
    [i \in {i \in Places : /\ current[i] # None
                           /\ \/ Locked(current[i], time)
                              \/ ~Modeled(current[i]) /\ CanStart(current[i], slots)} |-> current[i]]

Drops(slots, after, time) ==
    {p \in Team(slots) : /\ p \notin Range(after) /\ ~Locked(p, time)
                         /\ Modeled(p) /\ slots[p] # "IR"}

(* An addition is proposed if the best lineup has it, is worth more by it, *)
(* and leaves somebody to drop.                                            *)
Waivers(slots, chosen, forced, time) ==
    LET moves(add) ==
            {[add |-> add, gain |-> Total(after) - Total(chosen), drops |-> Drops(slots, after, time)] :
                after \in {f \in AssignLineup(Team(slots) \cup {add}, slots, forced, time) :
                              add \in Range(f)}}
    IN  {w \in UNION {moves(add) : add \in FreeAgents(slots, time)} : w.gain > 0 /\ w.drops # {}}

-----------------------------------------------------------------------------
Tick ==
    /\ now < MaxTime
    /\ now' = now + 1
    /\ UNCHANGED <<forecast, roster, snapshots, imported, request, advice>>

(* An import that reads the rosters finds the owner's moves.               *)
Import(rows, rosterRead) ==
    /\ Len(snapshots) + Len(rows) <= MaxRows
    /\ snapshots' = snapshots \o rows
    /\ roster' \in (IF rosterRead THEN Rosters ELSE {roster})
    /\ imported' = [at |-> IF rosterRead THEN now ELSE imported.at,
                    whole |-> \A i \in DOMAIN rows : rows[i].ok]
    /\ UNCHANGED <<now, forecast, request, advice>>

(* A scrape leaves one record of the whole import.                         *)
ImportScraped ==
    \E ok \in BOOLEAN : Import(<<[source |-> "scrape", at |-> now, ok |-> ok]>>, ok)

(* The OAuth client leaves one of each page: the rosters' is the last of a *)
(* league's resources, and the pages of all its players follow.  One other *)
(* page stands for all of them, whose order makes no difference.           *)
ImportPages ==
    \E settings, rosters \in BOOLEAN :
        Import(<<[source |-> "yahoo", at |-> now, ok |-> settings],
                 [source |-> "yahoo", at |-> now, ok |-> rosters]>>, rosters)

(* weekly_lineup loads the roster and looks at the clock before it awaits  *)
(* the week's downloads; execute_league_analysis loads them after, and     *)
(* then awaits the projections of Yahoo's pages.                           *)
LoadRoster(kind) ==
    /\ request = NotAsked /\ advice = Unanswered
    /\ request' = [at |-> "loaded", kind |-> kind, roster |-> roster, now |-> now,
                   imported |-> imported.at, rows |-> Len(snapshots)]
    /\ UNCHANGED <<now, forecast, roster, snapshots, imported, advice>>

Latest == snapshots[Len(snapshots)]

(* yahoo_roster_source: some page of the latest import failed; the pages   *)
(* of one import are at most half an hour apart, one instant here.         *)
Incomplete ==
    \/ ~Latest.ok
    \/ /\ Latest.source # "scrape"
       /\ \E i \in DOMAIN snapshots : ~snapshots[i].ok /\ snapshots[i].at = Latest.at

(* recommendation_gate, as far as the roster goes.                         *)
Withheld == Incomplete \/ request.now - Latest.at > Fresh

(* The other sources may withhold it too.  team_decisions, and             *)
(* withhold_decisions, with the clock and the roster that were loaded.     *)
Decide ==
    /\ request # NotAsked
    /\ \/ advice' = [given |-> FALSE, because |-> "withheld"]
       \/ /\ ~Withheld
          /\ \E current \in Current(request.roster) :
                LET forced == Held(current, request.roster, request.now)
                IN  \E chosen \in AssignLineup(Team(request.roster), request.roster, forced,
                                               request.now) :
                        advice' = [given |-> TRUE, current |-> current, chosen |-> chosen,
                                   waivers |-> IF request.kind = "page" THEN {}
                                               ELSE Waivers(request.roster, chosen, forced,
                                                            request.now),
                                   roster |-> request.roster, now |-> request.now,
                                   imported |-> request.imported, whole |-> imported.whole,
                                   overtaken |-> Len(snapshots) > request.rows]
    /\ request' = NotAsked
    /\ UNCHANGED <<now, forecast, roster, snapshots, imported>>

Next == Tick \/ ImportScraped \/ ImportPages \/ (\E kind \in Kinds : LoadRoster(kind)) \/ Decide

Spec == Init /\ [][Next]_vars

-----------------------------------------------------------------------------
(* Every lineup of the players that leaves the locked ones, and those      *)
(* nothing is known of, in their places.                                   *)
Stays(i) ==
    /\ advice.current[i] # None
    /\ LET p == advice.current[i]
       IN  Locked(p, advice.now) \/ (~Modeled(p) /\ CanStart(p, advice.roster))

Lineups(pool) ==
    {f \in UNION {[set -> pool] : set \in SUBSET Places} :
        /\ \A i \in Places : Stays(i) => i \in DOMAIN f /\ f[i] = advice.current[i]
        /\ \A i, j \in DOMAIN f : i # j => f[i] # f[j]
        /\ \A i \in DOMAIN f :
            \/ Stays(i)
            \/ /\ Modeled(f[i]) /\ ~Locked(f[i], advice.now)
               /\ CanStart(f[i], advice.roster) /\ Eligible(f[i], Slots[i])}

NoWorse(f, g) ==
    \/ Cardinality(DOMAIN f) > Cardinality(DOMAIN g)
    \/ Cardinality(DOMAIN f) = Cardinality(DOMAIN g) /\ Total(f) >= Total(g)

(* The advised lineup is one the owner can set, and none fills more slots  *)
(* or as many with more points (assign_lineup, team_decisions).            *)
LineupIsBest ==
    advice.given =>
        LET all == Lineups(Team(advice.roster))
        IN  advice.chosen \in all /\ \A f \in all : NoWorse(advice.chosen, f)

(* Whichever of the proposed players is dropped for a waiver addition, the *)
(* team is then worth just the promised gain more (team_decisions).        *)
WaiversKeepPromise ==
    advice.given =>
        \A w \in advice.waivers : \A drop \in w.drops :
            LET all == Lineups((Team(advice.roster) \cup {w.add}) \ {drop})
            IN  \E f \in all : /\ \A g \in all : NoWorse(f, g)
                               /\ Total(f) = Total(advice.chosen) + w.gain

(* The optimizers of the league page and of the weekly report agree on a   *)
(* team of known players, all worth playing, and on what an addition is    *)
(* worth to it (optimize_lineup and rank_waivers, team_decisions).         *)
OptimizersAgree ==
    (/\ advice.given /\ \A i \in Places : ~Stays(i)
     /\ \A p \in Team(advice.roster) : Modeled(p) /\ Points(p) >= 0 /\ ~Locked(p, advice.now))
        => /\ OptimizeLineup(Team(advice.roster), advice.roster) = Total(advice.chosen)
           /\ \A w \in advice.waivers :
                WaiverGain(Team(advice.roster), advice.roster, w.add) = w.gain

(* No advice is given on an import of which some page failed, in whatever  *)
(* order its pages came (yahoo_roster_source).                             *)
WholeImports == advice.given => advice.whole

(* Advice is made of a roster imported within the hours it is good for     *)
(* (recommendation_gate).  An import that overtakes the request is         *)
(* excepted: the gate then looks at the newest record, the advice is still *)
(* made of the roster that was loaded before the downloads.                *)
AdviceFromFreshRoster ==
    advice.given => advice.now - advice.imported <= Fresh \/ advice.overtaken
=============================================================================
