----------------------------- MODULE MCServices -----------------------------
(***************************************************************************)
(* Model checking of what runs beside the requests, where the parts it is  *)
(* about may do everything, and the others less.                           *)
(***************************************************************************)
EXTENDS Services

CONSTANT First

(* Jobs and analyses have both workers, or the first one.                  *)
MCInit ==
    /\ Init
    /\ deployed = {First} \/ (part = "jobs" /\ deployed = JobWorkers)
    /\ workers = {First} \/ (part = "analyses" /\ workers = Workers)

(* Two league analyses or two analyst runs and checks, not both; an        *)
(* analyst that cannot be asked any more is unavailable to its task.       *)
MCNext ==
    /\ Next
    /\ part = "analyses" => league'[2].status = "none" \/ analysis'[2].status = "none"

(* The fairness of the part that is exercised.  Its bounds let none of     *)
(* these steps be taken for ever, so fairness to all of them together is   *)
(* fairness to each.                                                       *)
FairSpec ==
    /\ MCInit /\ [][MCNext]_vars
    /\ WF_runnerVars(part = "runner" /\ \E s \in Runner!Logins : Runner!GoOn(s))
    /\ WF_jobVars(part = "jobs"
            /\ \/ Jobs!Tick
               \/ \E w \in JobWorkers :
                    Jobs!StartJob(w) \/ Jobs!FinishJob(w) \/ Jobs!RecoverSourceJobs(w))
    /\ WF_analysisVars(part = "analyses"
            /\ \/ \E i \in Analysis!LeagueRuns : Analysis!ExecuteLeague(i)
               \/ \E j \in Analysis!Runs : Analysis!ExecuteRun(j)
               \/ \E w \in Workers : Analysis!Lifespan(w))
=============================================================================
