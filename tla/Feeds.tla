-------------------------------- MODULE Feeds --------------------------------
(***************************************************************************)
(* What is downloaded and what is advised from it: Yahoo's leagues, other  *)
(* projections, news, Sleeper's pools, pool cards that are analysed and    *)
(* applied, season plans and lineups.  They meet in rows none of them      *)
(* changes for another, so a behaviour exercises one of them, chosen at    *)
(* its start, and the others stay as they are.                             *)
(***************************************************************************)
EXTENDS Integers, Sequences, FiniteSets

CONSTANTS
    Requests, MaxTime, MaxRestarts,                                             \* of several
    LeagueCount, TeamCount, Pause, LongPause, MaxMoves, MaxSaves,               \* YahooSync
    Manual, CheckIns, Alarming, BatchSize, MaxPage,                             \* NewsFeed
    Retry, Day, SeasonEnd, Old, CacheTime, MaxSnapshots,                        \* SourceCache
    RuleSets, Rosters, Ids, MaxChanges,                                         \* SleeperPools
    Applicants, Reuse, MaxAge, MaxEvidence, MaxVersion, MaxRuns,                \* PoolAnalysis
    Games, Teams, Home, Away, Weeks, Entries,                                   \* PoolAdvice
    RuleChoices, GameChoices, SavedChoices, LogCost, Penalty,
    Players, Position, Slots, Kickoff, Forecasts, TeamRosters, Fresh, MaxRows   \* WeeklyLineup

VARIABLES
    part,
    time, owner, moves, roster, latest, cooldown, blocked, weekly, cookie,      \* YahooSync
    op, restarts, throttled, credible,
    page, items, alerts, etag, labelled, reader, queue, newsRestarts,           \* NewsFeed
    clock, edition, snapshots, download, begun, cacheRestarts,                  \* SourceCache
    remote, changes, pool, request,                                             \* SleeperPools
    now, evidence, version, checkin, refresher, analyst, runs, applicant,       \* PoolAnalysis
    applied, poolRestarts,
    rules, games, saved, plans, plan,                                           \* PoolAdvice
    hour, forecast, slots, imports, imported, asked, advice                     \* WeeklyLineup

-----------------------------------------------------------------------------
Yahoo == INSTANCE YahooSync WITH now <- time

News == INSTANCE NewsFeed WITH restarts <- newsRestarts

Cache == INSTANCE SourceCache WITH
             Season <- SeasonEnd, MaxTime <- CacheTime,
             now <- clock, request <- download, restarts <- cacheRestarts

Sleeper == INSTANCE SleeperPools

Analysis == INSTANCE PoolAnalysis WITH restarts <- poolRestarts

Season == INSTANCE PoolAdvice

Lineup == INSTANCE WeeklyLineup WITH
              Rosters <- TeamRosters,
              now <- hour, roster <- slots, snapshots <- imports, request <- asked

ASSUME YahooAssumption == Yahoo!YahooSyncAssumption

ASSUME NewsAssumption == News!NewsFeedAssumption

ASSUME CacheAssumption == Cache!SourceCacheAssumption

ASSUME SleeperAssumption == Sleeper!SleeperPoolsAssumption

ASSUME AnalysisAssumption == Analysis!PoolAnalysisAssumption

ASSUME SeasonAssumption == Season!PoolAdviceAssumption

ASSUME LineupAssumption == Lineup!WeeklyLineupAssumption

yahooVars == <<time, owner, moves, roster, latest, cooldown, blocked, weekly, cookie, op, restarts,
               throttled, credible>>
newsVars == <<page, items, alerts, etag, labelled, reader, queue, newsRestarts>>
cacheVars == <<clock, edition, snapshots, download, begun, cacheRestarts>>
sleeperVars == <<remote, changes, pool, request>>
analysisVars == <<now, evidence, version, checkin, refresher, analyst, runs, applicant, applied,
                  poolRestarts>>
seasonVars == <<rules, games, saved, plans, plan>>
lineupVars == <<hour, forecast, slots, imports, imported, asked, advice>>

vars == <<part, yahooVars, newsVars, cacheVars, sleeperVars, analysisVars, seasonVars, lineupVars>>

Parts == {"yahoo", "news", "cache", "sleeper", "analysis", "season", "lineup"}

Init ==
    /\ part \in Parts
    /\ Yahoo!Init /\ News!Init /\ Cache!Init /\ Sleeper!Init
    /\ Analysis!Init /\ Season!Init /\ Lineup!Init

YahooStep ==
    /\ part = "yahoo" /\ Yahoo!Next
    /\ UNCHANGED <<part, newsVars, cacheVars, sleeperVars, analysisVars, seasonVars, lineupVars>>

NewsStep ==
    /\ part = "news" /\ News!Next
    /\ UNCHANGED <<part, yahooVars, cacheVars, sleeperVars, analysisVars, seasonVars, lineupVars>>

CacheStep ==
    /\ part = "cache" /\ Cache!Next
    /\ UNCHANGED <<part, yahooVars, newsVars, sleeperVars, analysisVars, seasonVars, lineupVars>>

SleeperStep ==
    /\ part = "sleeper" /\ Sleeper!Next
    /\ UNCHANGED <<part, yahooVars, newsVars, cacheVars, analysisVars, seasonVars, lineupVars>>

AnalysisStep ==
    /\ part = "analysis" /\ Analysis!Next
    /\ UNCHANGED <<part, yahooVars, newsVars, cacheVars, sleeperVars, seasonVars, lineupVars>>

SeasonStep ==
    /\ part = "season" /\ Season!Next
    /\ UNCHANGED <<part, yahooVars, newsVars, cacheVars, sleeperVars, analysisVars, lineupVars>>

LineupStep ==
    /\ part = "lineup" /\ Lineup!Next
    /\ UNCHANGED <<part, yahooVars, newsVars, cacheVars, sleeperVars, analysisVars, seasonVars>>

Next ==
    YahooStep \/ NewsStep \/ CacheStep \/ SleeperStep \/ AnalysisStep \/ SeasonStep \/ LineupStep

Spec == Init /\ [][Next]_vars

-----------------------------------------------------------------------------
(* What begins keeps the distance its source asks for, whoever begins it:  *)
(* operations on Yahoo after every answer that throttles, while an import  *)
(* under way goes on with its pages (YahooSync); and the downloads of a    *)
(* cached source that nobody forced (SourceCache).                         *)
FetchesSpaced == Yahoo!ThrottlesKept /\ Cache!RequestsSpaced

(* What is stored was so at its source: no roster falls between two pages  *)
(* of an import (YahooSync); no label is of another text, no etag of items *)
(* that are not there, and no alert is pushed again but for fetches that   *)
(* overlapped when it was stored (NewsFeed).                               *)
StoredAsSent ==
    /\ Yahoo!TypeOK /\ News!TypeOK /\ Cache!TypeOK /\ Sleeper!TypeOK
    /\ Yahoo!RostersCredible
    /\ News!LabelsMatchText /\ News!EtagTellsItems /\ News!NotifiedOnce

(* What was read before an await does not replace what is newer: evidence  *)
(* goes forward (SourceCache), and a pool has and keeps the rules its      *)
(* saved picks were judged by, unless these overtook a card that was       *)
(* loaded and not saved, or picks an update_pool did not see               *)
(* (SleeperPools).                                                         *)
StaleReadsLose == Cache!EvidenceForward /\ Sleeper!RulesFixedOncePicked

(* A proposal is saved over the card it was made for only (PoolAnalysis),  *)
(* and lineups are advised on whole and recent imports only                *)
(* (WeeklyLineup).                                                         *)
AdviceOnSoundInputs ==
    /\ Analysis!TypeOK /\ Lineup!TypeOK
    /\ Analysis!AppliedAsAnalysed
    /\ Lineup!WholeImports /\ Lineup!AdviceFromFreshRoster

(* What is recommended and planned for a pool is what a save accepts       *)
(* (PoolAdvice).                                                           *)
AdviceIsLegal ==
    part = "season" => Season!TypeOK /\ Season!RecommendationsLegal /\ Season!PlanIsLegal

(* No other card, plan or lineup that is legal is better, and a waiver     *)
(* move brings the gain it promises (PoolAdvice, WeeklyLineup).            *)
AdviceIsBest ==
    /\ part = "season" => Season!ConfidenceIsBest /\ Season!PlanIsBest
    /\ Lineup!LineupIsBest /\ Lineup!WaiversKeepPromise /\ Lineup!OptimizersAgree
=============================================================================
