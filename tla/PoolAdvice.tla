----------------------------- MODULE PoolAdvice -----------------------------
(***************************************************************************)
(* What a pool's owner is advised to pick: survivor and confidence         *)
(* recommendations for one week (services/decision.py) and the plan of the *)
(* rest of a season, a minimum-cost flow per entry                         *)
(* (services/pool_strategy.py).  The advice restates rules that a save     *)
(* judges by (PoolCard), from the same rows.  The order in which           *)
(* recommendations are listed, and their wording, are left out, and so are *)
(* entries that are not active: the flow passes them over.                 *)
(***************************************************************************)
EXTENDS PoolCard, Integers, Sequences, FiniteSetsExt

CONSTANTS Weeks,          \* start_week to the last week
          Entries,        \* 1..n, in the order of their ids
          RuleChoices, GameChoices, SavedChoices,   \* what the database may hold
          LogCost,        \* of each tenth of probability: -log, scaled
          Penalty         \* overlap_penalty, likewise

SavedPicks == [week : Nat, slot : Nat, game : Games, team : Teams, confidence : Nat]

PoolAdviceAssumption ==
    /\ Penalty \in Nat /\ Weeks \subseteq Nat /\ IsFiniteSet(Weeks)
    /\ IsFiniteSet(Games) /\ IsFiniteSet(Teams)
    /\ IsFiniteSet(Entries) /\ Entries = 1..Cardinality(Entries)
    /\ RuleChoices \subseteq Rules
    /\ \A g \in Games, choice \in GameChoices : choice[g].week \in Nat
    /\ \A picks \in SavedChoices : picks \subseteq SavedPicks /\ IsFiniteSet(picks)

VARIABLES
    rules, games,
    saved,      \* the saved picks of each entry
    plans,      \* the picks, saved and planned, of the entries before the current one
    plan        \* those planned for the current entry, so far: the flow

vars == <<rules, games, saved, plans, plan>>

Now == 1

Entry == Len(plans) + 1

TypeOK ==
    /\ rules \in RuleChoices /\ games \in GameChoices
    /\ saved \in [Entries -> SavedChoices]
    /\ Entry \in 1..(Cardinality(Entries) + 1)
    /\ plan \subseteq (Teams \X Games)

Init ==
    /\ rules \in RuleChoices /\ games \in GameChoices
    /\ saved \in [Entries -> SavedChoices]
    /\ plans = <<>> /\ plan = {}

-----------------------------------------------------------------------------
(* A team's chance, in tenths, to count as a success; 0 stands for odds    *)
(* that are missing, stale or of no accepted kind.                         *)
Chance(g, team) ==
    IF (team = Home[g]) = (rules.direction = "winner")
    THEN games[g].odds ELSE 10 - games[g].odds

(* _pool_probability has something to say.                                 *)
Supported(g) ==
    games[g].result = "none" /\ ~GameLocked(games[g], Now) /\ games[g].odds # 0

InWeek(picks, week) == {p \in picks : p.week = week}

OpenChoices(picks, week) ==
    LET current == InWeek(picks, week)
    IN  {c \in Teams \X Games :
            /\ games[c[2]].week = week /\ c[1] \in TeamsOf(c[2])
            /\ Supported(c[2])
            /\ c[2] \notin {p.game : p \in current}
            /\ c[1] \notin {p.team : p \in current}
            /\ ~TeamBarred(rules, c[1])
            /\ ~UsedUp(rules, picks, c[1], week)}

CardFull(picks, week) == 1..rules.slots \subseteq {p.slot : p \in InWeek(picks, week)}

(* Mutant: locks are those of single games.                                *)
RecommendedByGame(picks, week) ==
    IF Eliminated(rules, games, picks, week + 1) \/ CardFull(picks, week)
    THEN {} ELSE OpenChoices(picks, week)

(* survivor_recommendations: teams for the open slots of a week's card.    *)
Recommended(picks, week) ==
    IF \/ Eliminated(rules, games, picks, week + 1)
       \/ WeekLocked(rules, games, week, Now)
       \/ CardFull(picks, week)
    THEN {} ELSE OpenChoices(picks, week)

Sorted(card) ==
    \A p, q \in card :
        Chance(p.game, p.team) > Chance(q.game, q.team) => p.confidence > q.confidence

(* The cards with a pick of every game of the week.                        *)
FullCards(week) ==
    LET ofWeek == GamesOf(games, week)
        choices == {c \in [ofWeek -> Teams] :
                       \A g \in ofWeek : c[g] \in TeamsOf(g) /\ ~TeamBarred(rules, c[g])}
        weights == {w \in [ofWeek -> Weights(rules, games, week)] :
                       \A g, h \in ofWeek : g # h => w[g] # w[h]}
    IN  {{[slot |-> 0, game |-> g, team |-> c[g], confidence |-> w[g]] : g \in ofWeek} :
            c \in choices, w \in weights}

(* confidence_recommendations: the likelier team of each game, and weights *)
(* in the order of their chances; nothing if anything is missing.  Ties    *)
(* are broken by name and id in the code, and by choice here.              *)
Confident(week) ==
    IF \/ WeightCountMismatch(rules, games, week)
       \/ \E g \in GamesOf(games, week) : ~Supported(g)
    THEN {}
    ELSE {card \in FullCards(week) :
            /\ Sorted(card)
            /\ \A p \in card, t \in Teams :
                (t \in TeamsOf(p.game) /\ ~TeamBarred(rules, t)) =>
                    Chance(p.game, p.team) >= Chance(p.game, t)}

-----------------------------------------------------------------------------
(* _allocate.                                                              *)
Fixed == {p \in saved[Entry] : p.week \in Weeks}

(* Picks of earlier weeks and saved picks of the weeks to plan.            *)
Used(team) == Cardinality({p \in saved[Entry] : p.team = team})

Need(week) ==
    LET filled == Cardinality(InWeek(Fixed, week))
    IN  IF filled > rules.slots THEN 0 ELSE rules.slots - filled

Required == MapThenSumSet(Need, Weeks)

(* Entries that are out, or whose saved picks break the rules, get no plan.*)
Plannable ==
    /\ ~Eliminated(rules, games, saved[Entry], 31)
    /\ \A p \in saved[Entry] : EntryResult(rules, games, saved[Entry], p) # "ungraded"
    /\ \A week \in Weeks : Cardinality(InWeek(Fixed, week)) <= rules.slots
    /\ \A t \in Teams : rules.uses > 0 => Used(t) <= rules.uses

Capacity(team) == IF rules.uses > 0 THEN rules.uses - Used(team) ELSE Required

WeekBegan(week) ==
    /\ rules.lockMode = "week_start"
    /\ \E g \in GamesOf(games, week) : games[g].kickoff <= Now

Candidates ==
    {c \in Teams \X Games :
        /\ games[c[2]].week \in Weeks /\ c[1] \in TeamsOf(c[2])
        /\ Supported(c[2]) /\ ~WeekBegan(games[c[2]].week)
        /\ c[2] \notin {p.game : p \in Fixed}
        /\ ~TeamBarred(rules, c[1])}

(* The picks of the entry that the plan lists: none unless it gets a plan. *)
(* Only then is the week of a pick sure to be that of its game.            *)
Output == IF Plannable THEN {<<p.team, p.game>> : p \in Fixed} \cup plan ELSE {}

(* How many picks of the team are listed in that week already.             *)
Exposure(week, team) ==
    MapThenSumSet(
        LAMBDA e : Cardinality({c \in plans[e] : c[1] = team /\ games[c[2]].week = week}),
        DOMAIN plans)

Cost(c) == LogCost[Chance(c[2], c[1])] + Penalty * Exposure(games[c[2]].week, c[1])

OfTeam(team) == {c \in plan : c[1] = team}
OfWeek(week) == {c \in plan : games[c[2]].week = week}
OfGame(g) == {c \in plan : c[2] = g}

Source == <<"source">>
Sink == <<"sink">>

Edge(from, to, cost) == [from |-> from, to |-> to, cost |-> cost]

(* The edges with capacity left, to the sink's side of the flow.           *)
Forward ==
    {Edge(Source, <<"team", t>>, 0) :
        t \in {t \in Teams : Cardinality(OfTeam(t)) < Capacity(t)}}
    \cup {Edge(<<"team", c[1]>>, <<"game", c[2]>>, Cost(c)) : c \in Candidates \ plan}
    \cup {Edge(<<"game", g>>, <<"week", games[g].week>>, 0) :
        g \in {c[2] : c \in {c \in Candidates : OfGame(c[2]) = {}}}}
    \cup {Edge(<<"week", w>>, Sink, 0) :
        w \in {w \in Weeks : Cardinality(OfWeek(w)) < Need(w)}}

(* Those that take some of it back.                                        *)
Backward ==
    {Edge(<<"game", c[2]>>, <<"team", c[1]>>, -Cost(c)) : c \in plan}
    \cup {Edge(<<"week", games[c[2]].week>>, <<"game", c[2]>>, 0) : c \in plan}

(* Mutant: the flow is never taken back.                                   *)
Greedy == Forward

Residual == Forward \cup Backward

(* The paths with capacity left, of which Bellman-Ford finds a shortest    *)
(* one; the code's is the one that its order of relaxing leaves.           *)
Paths ==
    LET edges == Residual
        Before(path) ==
            IF path.at = Source THEN {path}
            ELSE {[at |-> e.from, cost |-> e.cost + path.cost, steps |-> {e} \cup path.steps] :
                     e \in {e \in edges : /\ e.to = path.at
                                          /\ \A f \in path.steps : e.from # f.to}}
        longest == 2 + Cardinality(Teams) + Cardinality(Games) + Cardinality(Weeks)
        paths[i \in 0..longest] ==
            IF i = 0 THEN {[at |-> Sink, cost |-> 0, steps |-> {}]}
            ELSE UNION {Before(path) : path \in paths[i - 1]}
    IN  {path \in paths[longest] : path.at = Source}

ShortestPaths ==
    LET all == Paths
    IN  {path \in all : \A other \in all : path.cost <= other.cost}

Finished == Cardinality(plan) = Required \/ Paths = {}

(* One unit of flow more.                                                  *)
Augment ==
    /\ Entry \in Entries /\ rules.type = "survivor" /\ Plannable
    /\ Cardinality(plan) < Required
    /\ \E path \in ShortestPaths :
        LET steps == {<<e.from, e.to>> : e \in path.steps}
        IN  plan' = (plan \ {c \in plan : <<<<"game", c[2]>>, <<"team", c[1]>>>> \in steps})
                    \cup {c \in Candidates : <<<<"team", c[1]>>, <<"game", c[2]>>>> \in steps}
    /\ UNCHANGED <<rules, games, saved, plans>>

(* season_strategy goes on with the next entry.                            *)
NextEntry ==
    /\ Entry \in Entries /\ rules.type = "survivor"
    /\ Plannable => Finished
    /\ plans' = Append(plans, Output)
    /\ plan' = {}
    /\ UNCHANGED <<rules, games, saved>>

Next == Augment \/ NextEntry

Spec == Init /\ [][Next]_vars

-----------------------------------------------------------------------------
Accepts(picks, week, card) ==
    /\ ~HasFindings(rules, games, picks, week, card)
    /\ ~HasConflicts(rules, games, InWeek(picks, week), week, card, Now)

(* Saved picks and advised ones, in some of the open slots.                *)
Filled(picks, week, advised) ==
    LET kept == InWeek(picks, week)
        open == (1..rules.slots) \ {p.slot : p \in kept}
    IN  {kept \cup {[week |-> week, slot |-> f[c], game |-> c[2], team |-> c[1],
                     confidence |-> 0] : c \in advised} :
            f \in {f \in [advised -> open] : \A c, d \in advised : c # d => f[c] # f[d]}}

(* A team recommended for an open slot is one a save accepts there, beside *)
(* the picks that are saved already (survivor_recommendations and          *)
(* save_weekly_card), whenever it accepts what is saved as it stands.      *)
RecommendationsLegal ==
    (rules.type = "survivor" /\ plans = <<>>) =>
        \A e \in Entries, week \in Weeks : \A c \in Recommended(saved[e], week) :
            Accepts(saved[e], week, InWeek(saved[e], week)) =>
                \A card \in Filled(saved[e], week, {c}) : Accepts(saved[e], week, card)

(* The recommended confidence card is one a save accepts, and no accepted  *)
(* card has a higher expected score (confidence_recommendations).          *)
Expected(card) ==
    MapThenSumSet(LAMBDA p : p.confidence * Chance(p.game, p.team), card)

ConfidenceIsBest ==
    (rules.type = "confidence") =>
        \A week \in Weeks : \A card \in Confident(week) :
            /\ Accepts({}, week, card)
            /\ \A other \in FullCards(week) : Expected(other) <= Expected(card)

Feasible(set) ==
    /\ \A c, d \in set : c # d => c[2] # d[2]
    /\ \A week \in Weeks : Cardinality({c \in set : games[c[2]].week = week}) <= Need(week)
    /\ \A t \in Teams :
        rules.uses > 0 => Cardinality({c \in set : c[1] = t}) + Used(t) <= rules.uses

Total(set) == MapThenSumSet(Cost, set)

(* A finished plan fills as many open slots as can be filled at all, and   *)
(* no other way to fill as many survives more likely, overlap counted: the *)
(* shortest augmenting paths end in the optimum (pool_strategy.py).        *)
PlanIsBest ==
    (Entry \in Entries /\ rules.type = "survivor" /\ Plannable /\ plan # {}) =>
        LET ways == {set \in SUBSET Candidates : Feasible(set)}
        IN  Finished => \A set \in ways :
                /\ Cardinality(set) <= Cardinality(plan)
                /\ Cardinality(set) = Cardinality(plan) => Total(plan) <= Total(set)

Planned(week) == {c \in plan : games[c[2]].week = week}

(* A team has one game in the week at most, which nothing in the database  *)
(* asks for.                                                               *)
PlayOnce(week) ==
    \A g, h \in GamesOf(games, week) : g # h => TeamsOf(g) \cap TeamsOf(h) = {}

(* Saved week by week, a plan's picks are accepted with the saved ones     *)
(* that stay fixed (_allocate and save_weekly_card).  Two cases are        *)
(* excepted here: where the week locks as a whole, the plan looks at the   *)
(* kickoffs only, and a save at games already locked whose kickoff has     *)
(* moved too; and a plan may use a team twice in a week it plays twice.    *)
PlanIsLegal ==
    (Entry \in Entries /\ rules.type = "survivor" /\ Plannable) =>
        \A week \in Weeks :
            (/\ Planned(week) # {} /\ PlayOnce(week)
             /\ WeekLocked(rules, games, week, Now) => WeekBegan(week)) =>
                LET all == saved[Entry] \cup
                           {[week |-> games[c[2]].week, slot |-> 1, game |-> c[2],
                             team |-> c[1], confidence |-> 0] : c \in plan}
                IN  \A card \in Filled(saved[Entry], week, Planned(week)) :
                        /\ ~HasFindings(rules, games, all, week, card)
                        /\ ~HasConflicts(rules, games, InWeek(saved[Entry], week), week, card, Now)
=============================================================================
