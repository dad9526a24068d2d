------------------------------ MODULE Analyses ------------------------------
(***************************************************************************)
(* The analyses that outlive a request: weekly league analyses             *)
(* (services/league_analysis.py), injury checks of one player              *)
(* (services/injury_report.py) and the analyst runs both ask for           *)
(* (services/providers.py, run_analysis).  A row says what became of an    *)
(* analysis, a task of some worker process executes it, and a restarting   *)
(* worker sweeps up the rows of tasks that are gone.  An analysis of each  *)
(* kind belongs to the same league or player.                              *)
(***************************************************************************)
EXTENDS Naturals, FiniteSets

CONSTANTS Workers,      \* processes that share the data volume
          MaxLeagueRuns,\* bounds on the rows of LeagueAnalysis
          MaxRuns,      \* and of AnalysisRun,
          MaxCrashes    \* and on the crashes

AnalysesAssumption ==
    /\ IsFiniteSet(Workers) /\ Workers # {}
    /\ MaxLeagueRuns \in Nat /\ MaxRuns \in Nat /\ MaxCrashes \in Nat

VARIABLES
    deployed,       \* the workers of this installation
    worker,         \* what each of them is doing: "up", or where it is in its startup
    league,         \* LeagueAnalysis: status, and whether a report is frozen
    leagueTask,     \* execute_league_analysis of each row: where, and by whom
    run,            \* AnalysisRun: kind and status
    runTask,        \* execute_check or run_analysis of each row
    starting,       \* what start_check found under its lock
    doomed,         \* rows a startup has picked to fail
    crashes

vars == <<deployed, worker, league, leagueTask, run, runTask, starting, doomed, crashes>>

LeagueRuns == 1..MaxLeagueRuns

Runs == 1..MaxRuns

Active == {"queued", "refreshing", "forecasting", "analyzing"}

ActiveChecks == {"queued", "running"}

Ended == {"completed", "partial", "failed"}

NoTask == [at |-> "none", by |-> "none", asks |-> 0]

LeagueRows == [status : Active \cup Ended \cup {"none"}, frozen : BOOLEAN]

LeagueTasks == [at : Active \cup {"none", "asking", "answered"}, by : Workers \cup {"none"},
                asks : Runs \cup {0}]

RunRows == [kind : {"none", "check", "analyst"},
            status : ActiveChecks \cup {"none", "completed", "failed"}]

RunTasks == [at : {"none", "queued", "working"}, by : Workers \cup {"none"}]

TypeOK ==
    /\ deployed \in SUBSET Workers
    /\ worker \in [Workers -> {"off", "down", "checks", "picked", "analyses", "failing", "up"}]
    /\ league \in [LeagueRuns -> LeagueRows]
    /\ leagueTask \in [LeagueRuns -> LeagueTasks]
    /\ run \in [Runs -> RunRows]
    /\ runTask \in [Runs -> RunTasks]
    /\ starting \in [Workers -> {"no", "free", "taken"}]
    /\ doomed \in [Workers -> SUBSET Runs]
    /\ crashes \in 0..MaxCrashes

Init ==
    /\ deployed \in SUBSET Workers \ {{}}
    /\ worker = [w \in Workers |-> IF w \in deployed THEN "up" ELSE "off"]
    /\ league = [i \in LeagueRuns |-> [status |-> "none", frozen |-> FALSE]]
    /\ leagueTask = [i \in LeagueRuns |-> NoTask]
    /\ run = [j \in Runs |-> [kind |-> "none", status |-> "none"]]
    /\ runTask = [j \in Runs |-> [at |-> "none", by |-> "none"]]
    /\ starting = [w \in Workers |-> "no"]
    /\ doomed = [w \in Workers |-> {}]
    /\ crashes = 0

(* The next row of a table.                                                *)
IsNext(j, table) == table[j].status = "none" /\ \A k \in 1..(j - 1) : table[k].status # "none"

-----------------------------------------------------------------------------
(* The rows of LeagueAnalysis.  A partial unique index admits one active   *)
(* row of a league: a commit that would make a second one raises.          *)
Admitted(i) == \A k \in LeagueRuns \ {i} : league[k].status \notin Active

(* POST /{league_id}/analyses, unless one is active.                       *)
StartLeague(w, i) ==
    /\ worker[w] = "up" /\ IsNext(i, league) /\ Admitted(i)
    /\ league' = [league EXCEPT ![i].status = "queued"]
    /\ leagueTask' = [leagueTask EXCEPT ![i] = [NoTask EXCEPT !.at = "queued", !.by = w]]
    /\ UNCHANGED <<deployed, worker, run, runTask, starting, doomed, crashes>>

(* execute_league_analysis ends with an exception: what is frozen stays.   *)
FailLeague(i) ==
    /\ leagueTask[i].at \in {"refreshing", "forecasting", "analyzing", "answered"}
    /\ league' = [league EXCEPT ![i].status = "failed"]
    /\ leagueTask' = [leagueTask EXCEPT ![i] = NoTask]
    /\ UNCHANGED <<deployed, worker, run, runTask, starting, doomed, crashes>>

(* The commit of an active status, whoever wrote the row in between.       *)
Advance(i, status) ==
    /\ Admitted(i)
    /\ league' = [league EXCEPT ![i].status = status,
                                ![i].frozen = @ \/ status = "analyzing"]
    /\ leagueTask' = [leagueTask EXCEPT ![i].at = status]

BeginLeague(i) ==
    /\ leagueTask[i].at = "queued"
    /\ IF league[i].status = "queued"
       THEN Advance(i, "refreshing")
       ELSE leagueTask' = [leagueTask EXCEPT ![i] = NoTask] /\ UNCHANGED league
    /\ UNCHANGED <<deployed, worker, run, runTask, starting, doomed, crashes>>

RefreshSources(i) ==
    /\ leagueTask[i].at = "refreshing"
    /\ Advance(i, "forecasting")
    /\ UNCHANGED <<deployed, worker, run, runTask, starting, doomed, crashes>>

(* Mutant: the report is saved with the outcome only.                      *)
FreezeNothing(i) ==
    /\ leagueTask[i].at = "forecasting"
    /\ Admitted(i)
    /\ league' = [league EXCEPT ![i].status = "analyzing"]
    /\ leagueTask' = [leagueTask EXCEPT ![i].at = "analyzing"]
    /\ UNCHANGED <<deployed, worker, run, runTask, starting, doomed, crashes>>

(* The forecasts are frozen before the analyst is asked.                   *)
FreezeReport(i) ==
    /\ leagueTask[i].at = "forecasting"
    /\ Advance(i, "analyzing")
    /\ UNCHANGED <<deployed, worker, run, runTask, starting, doomed, crashes>>

(* run_analysis inserts its row while it holds the row's lease.            *)
Ask(w, j) ==
    /\ IsNext(j, run)
    /\ run' = [run EXCEPT ![j] = [kind |-> "analyst", status |-> "running"]]
    /\ runTask' = [runTask EXCEPT ![j] = [at |-> "working", by |-> w]]

(* With an enabled provider the analyst explains the report, else the      *)
(* explanation is marked unavailable.                                      *)
ExplainReport(i) ==
    /\ leagueTask[i].at = "analyzing"
    /\ \/ \E j \in Runs :
            /\ Ask(leagueTask[i].by, j)
            /\ leagueTask' = [leagueTask EXCEPT ![i].at = "asking", ![i].asks = j]
       \/ /\ leagueTask' = [leagueTask EXCEPT ![i].at = "answered"]
          /\ UNCHANGED <<run, runTask>>
    /\ UNCHANGED <<deployed, worker, league, starting, doomed, crashes>>

PublishReport(i) ==
    /\ leagueTask[i].at = "answered"
    /\ \E status \in {"completed", "partial"} :
        league' = [league EXCEPT ![i] = [status |-> status, frozen |-> TRUE]]
    /\ leagueTask' = [leagueTask EXCEPT ![i] = NoTask]
    /\ UNCHANGED <<deployed, worker, run, runTask, starting, doomed, crashes>>

ExecuteLeague(i) ==
    BeginLeague(i) \/ RefreshSources(i) \/ FreezeReport(i) \/ ExplainReport(i)
    \/ PublishReport(i) \/ FailLeague(i)

-----------------------------------------------------------------------------
(* POST /analysis.                                                         *)
AskAnalyst(w) ==
    /\ worker[w] = "up"
    /\ \E j \in Runs : Ask(w, j)
    /\ UNCHANGED <<deployed, worker, league, leagueTask, starting, doomed, crashes>>

(* The provider answers or fails; the row and then the lease are given up. *)
Answer(j) ==
    /\ run[j].kind = "analyst" /\ runTask[j].at = "working"
    /\ \E status \in {"completed", "failed"} : run' = [run EXCEPT ![j].status = status]
    /\ runTask' = [runTask EXCEPT ![j] = [at |-> "none", by |-> "none"]]
    /\ leagueTask' = [i \in LeagueRuns |->
           IF leagueTask[i].at = "asking" /\ leagueTask[i].asks = j
           THEN [leagueTask[i] EXCEPT !.at = "answered"] ELSE leagueTask[i]]
    /\ UNCHANGED <<deployed, worker, league, starting, doomed, crashes>>

(* start_check under the lock of its player: what it finds, then the row.  *)
LookForCheck(w) ==
    /\ worker[w] = "up" /\ starting[w] = "no"
    /\ \A v \in Workers : starting[v] = "no"
    /\ starting' = [starting EXCEPT ![w] =
           IF \E j \in Runs : run[j].kind = "check" /\ run[j].status \in ActiveChecks
           THEN "taken" ELSE "free"]
    /\ UNCHANGED <<deployed, worker, league, leagueTask, run, runTask, doomed, crashes>>

StartCheck(w) ==
    /\ starting[w] # "no"
    /\ starting' = [starting EXCEPT ![w] = "no"]
    /\ \/ starting[w] = "free" /\ \E j \in Runs :
            /\ IsNext(j, run)
            /\ run' = [run EXCEPT ![j] = [kind |-> "check", status |-> "queued"]]
            /\ runTask' = [runTask EXCEPT ![j] = [at |-> "queued", by |-> w]]
       \/ (starting[w] = "taken" \/ \A j \in Runs : ~IsNext(j, run)) /\ UNCHANGED <<run, runTask>>
    /\ UNCHANGED <<deployed, worker, league, leagueTask, doomed, crashes>>

(* execute_check.                                                          *)
BeginCheck(j) ==
    /\ run[j].kind = "check" /\ runTask[j].at = "queued"
    /\ IF run[j].status = "queued"
       THEN /\ run' = [run EXCEPT ![j].status = "running"]
            /\ runTask' = [runTask EXCEPT ![j].at = "working"]
       ELSE /\ runTask' = [runTask EXCEPT ![j] = [at |-> "none", by |-> "none"]]
            /\ UNCHANGED run
    /\ UNCHANGED <<deployed, worker, league, leagueTask, starting, doomed, crashes>>

FinishCheck(j) ==
    /\ run[j].kind = "check" /\ runTask[j].at = "working"
    /\ \E status \in {"completed", "failed"} : run' = [run EXCEPT ![j].status = status]
    /\ runTask' = [runTask EXCEPT ![j] = [at |-> "none", by |-> "none"]]
    /\ UNCHANGED <<deployed, worker, league, leagueTask, starting, doomed, crashes>>

ExecuteRun(j) == Answer(j) \/ BeginCheck(j) \/ FinishCheck(j)

-----------------------------------------------------------------------------
(* A worker stops.  Its tasks and its leases are gone, its rows stay.      *)
Crash(w) ==
    /\ worker[w] \notin {"off", "down"} /\ crashes < MaxCrashes
    /\ crashes' = crashes + 1
    /\ worker' = [worker EXCEPT ![w] = "down"]
    /\ leagueTask' = [i \in LeagueRuns |->
                        IF leagueTask[i].by = w THEN NoTask ELSE leagueTask[i]]
    /\ runTask' = [j \in Runs |->
                     IF runTask[j].by = w THEN [at |-> "none", by |-> "none"] ELSE runTask[j]]
    /\ starting' = [starting EXCEPT ![w] = "no"]
    /\ doomed' = [doomed EXCEPT ![w] = {}]
    /\ UNCHANGED <<deployed, league, run>>

(* The lifespan of main.py: the leases are injury-run-<id>, held by a task *)
(* of execute_check, and analysis-<id>, held by run_analysis.              *)
HeldByCheck(j) == run[j].kind = "check" /\ runTask[j].at = "working"

HeldByAnalysis(j) == run[j].kind = "analyst" /\ runTask[j].at = "working"

(* Mutant: the status of the rows is not asked for.                        *)
RecoverAllLeagues(w) ==
    /\ worker[w] = "down"
    /\ league' = [i \in LeagueRuns |->
                    IF league[i].status # "none"
                    THEN [league[i] EXCEPT !.status = "failed"] ELSE league[i]]
    /\ worker' = [worker EXCEPT ![w] = "checks"]
    /\ UNCHANGED <<deployed, leagueTask, run, runTask, starting, doomed, crashes>>

RecoverLeagueAnalyses(w) ==
    /\ worker[w] = "down"
    /\ league' = [i \in LeagueRuns |->
                    IF league[i].status \in Active
                    THEN [league[i] EXCEPT !.status = "failed"] ELSE league[i]]
    /\ worker' = [worker EXCEPT ![w] = "checks"]
    /\ UNCHANGED <<deployed, leagueTask, run, runTask, starting, doomed, crashes>>

(* The checks whose lease is free are failed by one commit at the end.     *)
PickChecks(w) ==
    /\ worker[w] = "checks"
    /\ doomed' = [doomed EXCEPT ![w] = {j \in Runs :
           run[j].kind = "check" /\ run[j].status \in ActiveChecks /\ ~HeldByCheck(j)}]
    /\ worker' = [worker EXCEPT ![w] = "picked"]
    /\ UNCHANGED <<deployed, league, leagueTask, run, runTask, starting, crashes>>

RecoverInjuryChecks(w) ==
    /\ worker[w] = "picked"
    /\ run' = [j \in Runs |->
                 IF j \in doomed[w] THEN [run[j] EXCEPT !.status = "failed"] ELSE run[j]]
    /\ doomed' = [doomed EXCEPT ![w] = {}]
    /\ worker' = [worker EXCEPT ![w] = "analyses"]
    /\ UNCHANGED <<deployed, league, leagueTask, runTask, starting, crashes>>

(* recover_source_jobs reads the running rows of every kind, then fails    *)
(* each one whose lease analysis-<id> it gets.                             *)
PickRunning(w) ==
    /\ worker[w] = "analyses"
    /\ doomed' = [doomed EXCEPT ![w] = {j \in Runs : run[j].status = "running"}]
    /\ worker' = [worker EXCEPT ![w] = "failing"]
    /\ UNCHANGED <<deployed, league, leagueTask, run, runTask, starting, crashes>>

RecoverAnalysis(w) ==
    /\ worker[w] = "failing"
    /\ \E j \in doomed[w] :
        /\ run' = [run EXCEPT ![j].status = IF HeldByAnalysis(j) THEN @ ELSE "failed"]
        /\ doomed' = [doomed EXCEPT ![w] = @ \ {j}]
    /\ UNCHANGED <<deployed, worker, league, leagueTask, runTask, starting, crashes>>

Serve(w) ==
    /\ worker[w] = "failing" /\ doomed[w] = {}
    /\ worker' = [worker EXCEPT ![w] = "up"]
    /\ UNCHANGED <<deployed, league, leagueTask, run, runTask, starting, doomed, crashes>>

Lifespan(w) ==
    \/ RecoverLeagueAnalyses(w) \/ PickChecks(w) \/ RecoverInjuryChecks(w)
    \/ PickRunning(w) \/ RecoverAnalysis(w) \/ Serve(w)

-----------------------------------------------------------------------------
Next ==
    \/ \E w \in Workers, i \in LeagueRuns : StartLeague(w, i)
    \/ \E i \in LeagueRuns : ExecuteLeague(i)
    \/ \E w \in Workers : AskAnalyst(w) \/ LookForCheck(w) \/ StartCheck(w)
    \/ \E j \in Runs : ExecuteRun(j)
    \/ \E w \in Workers : Crash(w) \/ Lifespan(w)

Spec == Init /\ [][Next]_vars

(* Every await of a task has a timeout, and a stopped container is         *)
(* restarted (restart: unless-stopped).                                    *)
FairSpec ==
    /\ Spec
    /\ \A i \in LeagueRuns : WF_vars(ExecuteLeague(i))
    /\ \A j \in Runs : WF_vars(ExecuteRun(j))
    /\ \A w \in Workers : WF_vars(Lifespan(w))

-----------------------------------------------------------------------------
(* One analysis of a league is active at a time, whatever the recovery of  *)
(* another worker writes under the task that executes it.                  *)
OneActiveLeague == Cardinality({i \in LeagueRuns : league[i].status \in Active}) <= 1

(* Once the analyst is asked, the forecasts are saved: a provider outage,  *)
(* a crash or a recovery cannot erase them (execute_league_analysis).      *)
ForecastsSurvive == \A i \in LeagueRuns :
    leagueTask[i].at \in {"analyzing", "asking", "answered"} \/ league[i].status = "partial"
        => league[i].frozen

(* Where one process is deployed, a player has one check at a time, and no *)
(* check executes once it is failed.                                       *)
OneCheckRuns ==
    Cardinality(deployed) = 1 =>
        /\ Cardinality({j \in Runs : run[j].kind = "check"
                                     /\ run[j].status \in ActiveChecks}) <= 1
        /\ \A j \in Runs : runTask[j].at = "working" => run[j].status = "running"

(* A startup leaves alone the rows another worker's task is executing,     *)
(* for the analyst runs (recover_source_jobs).                             *)
LiveAnalysesSpared ==
    [][\A j \in Runs : (HeldByAnalysis(j) /\ runTask'[j] = runTask[j])
            => run'[j].status = run[j].status]_vars

(* Where one process is deployed, an outcome that was published stands.    *)
OutcomesStand ==
    [][Cardinality(deployed) = 1 =>
            /\ \A i \in LeagueRuns : league[i].status \in Ended => league'[i] = league[i]
            /\ \A j \in Runs : run[j].status \in Ended => run'[j] = run[j]]_vars

(* No analysis is shown as under way for ever: its task ends it, or the    *)
(* startup after a crash does.                                             *)
AnalysesEnd ==
    /\ \A i \in LeagueRuns : league[i].status \in Active ~> league[i].status \in Ended
    /\ \A j \in Runs : run[j].status \in ActiveChecks ~> run[j].status \in Ended
=============================================================================
