------------------------------ MODULE Services ------------------------------
(***************************************************************************)
(* What runs beside the requests: device logins, source jobs, analyses,    *)
(* backups and recovery bundles.  They share no state that their           *)
(* properties are about, so a behaviour exercises one of them, chosen at   *)
(* its start, and the others stay as they are.                             *)
(***************************************************************************)
EXTENDS Integers, Sequences, FiniteSets

CONSTANTS
    Requests, Keys, NoKey, ChatGPT, MaxLogins, MaxRestarts,                 \* CodexRunner
    JobWorkers, Interval, Cooldown, LongRetry, MaxTime, MaxRows, MaxStops,  \* SourceJobs
    Threads, Empty, Torn, Keep, MaxFiles, MaxWrites, MaxCopyCrashes,        \* Backups
    Creators, Restorers, Pieces,                                            \* RecoveryBundle
    Workers, MaxLeagueRuns, MaxRuns, MaxCrashes                             \* Analyses

VARIABLES
    part,
    credentials, lastKey, current, login, request, restarts,                \* CodexRunner
    deployed, now, rows, task, stops,                                       \* SourceJobs
    database, writes, files, made, keeper, copyCrashes,                     \* Backups
    bundle, creator, restorer, installed,                                   \* RecoveryBundle
    workers, worker, league, leagueTask, analysis, analysisTask,            \* Analyses
    starting, doomed, crashes

Runner == INSTANCE CodexRunner

Jobs == INSTANCE SourceJobs WITH Workers <- JobWorkers

Copies == INSTANCE Backups WITH
              MaxCrashes <- MaxCopyCrashes, thread <- keeper, crashes <- copyCrashes

Bundle == INSTANCE RecoveryBundle

Analysis == INSTANCE Analyses WITH
                deployed <- workers, run <- analysis, runTask <- analysisTask

ASSUME RunnerAssumption == Runner!CodexRunnerAssumption

ASSUME JobsAssumption == Jobs!SourceJobsAssumption

ASSUME CopiesAssumption == Copies!BackupsAssumption

ASSUME BundleAssumption == Bundle!RecoveryBundleAssumption

ASSUME AnalysisAssumption == Analysis!AnalysesAssumption

runnerVars == <<credentials, lastKey, current, login, request, restarts>>
jobVars == <<deployed, now, rows, task, stops>>
copyVars == <<database, writes, files, made, keeper, copyCrashes>>
bundleVars == <<bundle, creator, restorer, installed>>
analysisVars == <<workers, worker, league, leagueTask, analysis, analysisTask, starting, doomed,
                  crashes>>

vars == <<part, runnerVars, jobVars, copyVars, bundleVars, analysisVars>>

Parts == {"runner", "jobs", "backups", "bundle", "analyses"}

Init ==
    /\ part \in Parts
    /\ Runner!Init /\ Jobs!Init /\ Copies!Init /\ Bundle!Init /\ Analysis!Init

RunnerStep ==
    /\ part = "runner" /\ Runner!Next
    /\ UNCHANGED <<part, jobVars, copyVars, bundleVars, analysisVars>>

JobStep ==
    /\ part = "jobs" /\ Jobs!Next
    /\ UNCHANGED <<part, runnerVars, copyVars, bundleVars, analysisVars>>

BackupStep ==
    /\ part = "backups" /\ Copies!Next
    /\ UNCHANGED <<part, runnerVars, jobVars, bundleVars, analysisVars>>

BundleStep ==
    /\ part = "bundle" /\ Bundle!Next
    /\ UNCHANGED <<part, runnerVars, jobVars, copyVars, analysisVars>>

AnalysisStep ==
    /\ part = "analyses" /\ Analysis!Next
    /\ UNCHANGED <<part, runnerVars, jobVars, copyVars, bundleVars>>

Next ==
    RunnerStep \/ JobStep \/ BackupStep \/ BundleStep \/ AnalysisStep

Spec == Init /\ [][Next]_vars

-----------------------------------------------------------------------------
(* Work that must not be done twice at a time is not, and the states are   *)
(* of their types: one watched device login and one with a key             *)
(* (CodexRunner), one live run of a source job (SourceJobs), one active    *)
(* analysis of a league and one check of a player (Analyses).              *)
WorkIsExclusive ==
    /\ Runner!TypeOK /\ Jobs!TypeOK /\ Copies!TypeOK /\ Bundle!TypeOK /\ Analysis!TypeOK
    /\ Runner!OneWatchedLogin /\ Runner!OneKeyLogin
    /\ Jobs!OneLiveRun
    /\ Analysis!OneActiveLeague /\ Analysis!OneCheckRuns

(* What was paid for is kept: the forecasts an analysis had when it asked  *)
(* the analyst (Analyses), and the distance a failure asked for, through   *)
(* crashes and recoveries (SourceJobs).                                    *)
FailuresAreRemembered == Analysis!ForecastsSurvive /\ Jobs!CooldownsHonoured

(* The copy made before a restore is there until Keep later ones are       *)
(* (Backups); a bundle that was created stays whole, only a whole one is   *)
(* installed, and a piece that is installed stays and is never written     *)
(* over, whichever create or restore is stopped half-way and repeated      *)
(* (RecoveryBundle).                                                       *)
CopiesStay ==
    /\ [](Copies!SafetyCopyStays /\ Bundle!BundlesSafe)
    /\ Bundle!InstalledStays

(* No recovery takes an outcome back or fails what is still executing      *)
(* (Analyses).                                                             *)
OutcomesStand == Analysis!OutcomesStand /\ Analysis!LiveAnalysesSpared

(* Every sign-in, source job and analysis ends, through crashes, timeouts  *)
(* and restarts (CodexRunner, SourceJobs, Analyses).                       *)
WorkEnds == Runner!SignInEnds /\ Jobs!JobsEnd /\ Analysis!AnalysesEnd
=============================================================================
