---------------------------- MODULE PoolAnalysis ----------------------------
(***************************************************************************)
(* Pool analysis proposals (services/pool_analysis.py, run_analysis in     *)
(* services/providers.py): check-ins of the sources, an analyst's proposal *)
(* for one entry's weekly card, and the requests that apply it while the   *)
(* owner, the schedule and the news go on.                                 *)
(***************************************************************************)
EXTENDS Integers, FiniteSets, Sequences

CONSTANTS Applicants,   \* the requests that apply a proposal
          Reuse,        \* REFRESH_REUSE_SECONDS
          MaxAge,       \* PROPOSAL_MAX_AGE
          MaxTime,      \* bounds on the clock,
          MaxEvidence,  \* the changes of the evidence,
          MaxVersion,   \* the saves of the card,
          MaxRuns,      \* the analyses
          MaxRestarts   \* and the restarts

PoolAnalysisAssumption ==
    /\ Applicants \cap {"none", "owner", "analyst"} = {}
    /\ {Reuse, MaxAge, MaxTime, MaxEvidence, MaxVersion, MaxRuns, MaxRestarts} \subseteq Nat

VARIABLES
    now,
    evidence,   \* what evidence_hash tells apart besides the card: games, rules, news, sources
    version,    \* PoolEntryWeek.version of the card
    checkin,    \* the latest pool.check-in snapshot
    refresher,  \* who holds the lease pool-source-refresh
    analyst,    \* the analysis that holds the lease of the entry
    runs,       \* the stored pool_picks runs
    applicant,
    applied,    \* history: what was saved by apply_pool_analysis
    restarts

vars == <<now, evidence, version, checkin, refresher, analyst, runs, applicant, applied, restarts>>

NoCheckin == [at |-> 0, ready |-> FALSE]

IdleAnalyst == [at |-> "idle", run |-> 0]

IdleApplicant == [at |-> "idle", run |-> 0, ready |-> FALSE, checked |-> 0]

TypeOK ==
    /\ now \in 0..MaxTime
    /\ evidence \in 0..MaxEvidence
    /\ version \in 0..MaxVersion
    /\ checkin \in [at : 0..MaxTime, ready : BOOLEAN]
    /\ refresher \in {"none", "owner", "analyst"} \cup Applicants
    /\ analyst \in [at : {"idle", "refreshing", "thinking"}, run : 0..MaxRuns]
    /\ runs \in Seq([version : 0..MaxVersion, evidence : 0..MaxEvidence, created : 0..MaxTime,
                     ready : BOOLEAN, status : {"running", "completed", "failed"}])
    /\ applicant \in [Applicants ->
           [at : {"idle", "refreshing", "checking", "saving"}, run : 0..MaxRuns,
            ready : BOOLEAN, checked : 0..MaxTime]]
    /\ restarts \in 0..MaxRestarts

Init ==
    /\ now = 0 /\ evidence = 0 /\ version = 0
    /\ checkin = NoCheckin
    /\ refresher = "none"
    /\ analyst = IdleAnalyst
    /\ runs = <<>>
    /\ applicant = [a \in Applicants |-> IdleApplicant]
    /\ applied = {}
    /\ restarts = 0

-----------------------------------------------------------------------------
Tick ==
    /\ now < MaxTime
    /\ now' = now + 1
    /\ UNCHANGED <<evidence, version, checkin, refresher, analyst, runs, applicant, applied, restarts>>

(* update_weekly_card, by the owner.                                       *)
OwnerSaves ==
    /\ version < MaxVersion
    /\ version' = version + 1
    /\ UNCHANGED <<now, evidence, checkin, refresher, analyst, runs, applicant, applied, restarts>>

(* record_game_result, update_pool, the scheduler's jobs, a game that      *)
(* locks.                                                                  *)
EvidenceChanges ==
    /\ evidence < MaxEvidence
    /\ evidence' = evidence + 1
    /\ UNCHANGED <<now, version, checkin, refresher, analyst, runs, applicant, applied, restarts>>

(* refresh_pool_sources, once it has the lease, ends with new evidence or  *)
(* not, and with a source unavailable or not.  Its snapshot tells which.   *)
RefreshEnds(who) ==
    /\ refresher = who
    /\ refresher' = "none"
    /\ evidence' \in {evidence, evidence + 1} /\ evidence' <= MaxEvidence
    /\ \E ready \in BOOLEAN : checkin' = [at |-> now, ready |-> ready]

TakeRefresh(who) == refresher = "none" /\ refresher' = who

(* check_in_pool.                                                          *)
CheckIn ==
    /\ TakeRefresh("owner")
    /\ UNCHANGED <<now, evidence, version, checkin, analyst, runs, applicant, applied, restarts>>

CheckInEnds ==
    /\ RefreshEnds("owner")
    /\ UNCHANGED <<now, version, analyst, runs, applicant, applied, restarts>>

-----------------------------------------------------------------------------
(* analyze_pool: one per entry, and only with a refresh of its own.        *)
AnalyzePool ==
    /\ analyst.at = "idle" /\ Len(runs) < MaxRuns
    /\ TakeRefresh("analyst")
    /\ analyst' = [at |-> "refreshing", run |-> 0]
    /\ UNCHANGED <<now, evidence, version, checkin, runs, applicant, applied, restarts>>

(* The evidence is frozen, with the card's version and the time, and the   *)
(* run is stored.                                                          *)
FreezeDossier ==
    /\ RefreshEnds("analyst")
    /\ runs' = Append(runs, [version |-> version, evidence |-> evidence', created |-> now,
                             ready |-> checkin'.ready, status |-> "running"])
    /\ analyst' = [at |-> "thinking", run |-> Len(runs) + 1]
    /\ UNCHANGED <<now, version, applicant, applied, restarts>>

(* run_analysis: the model answers with picks, or fails.                   *)
RunAnalysis ==
    /\ analyst.at = "thinking"
    /\ \E s \in {"completed", "failed"} : runs' = [runs EXCEPT ![analyst.run].status = s]
    /\ analyst' = IdleAnalyst
    /\ UNCHANGED <<now, evidence, version, checkin, refresher, applicant, applied, restarts>>

-----------------------------------------------------------------------------
Current(n) == now - runs[n].created <= MaxAge

(* apply_pool_analysis up to its refresh.  A check-in of the last minute   *)
(* is used again, if the sources are still configured as they were; one    *)
(* that is under way counts as not ready.                                  *)
BeginApply(a) ==
    /\ applicant[a].at = "idle"
    /\ \E n \in DOMAIN runs :
        /\ runs[n].status = "completed" /\ Current(n)
        /\ LET goes(at, ready) ==
                   applicant' = [applicant EXCEPT ![a] =
                       [at |-> at, run |-> n, ready |-> ready, checked |-> 0]]
           IN \/ /\ now - checkin.at < Reuse
                 /\ goes("checking", checkin.ready) /\ UNCHANGED refresher
              \/ /\ refresher # "none"
                 /\ goes("checking", FALSE) /\ UNCHANGED refresher
              \/ TakeRefresh(a) /\ goes("refreshing", FALSE)
    /\ UNCHANGED <<now, evidence, version, checkin, analyst, runs, applied, restarts>>

ApplyRefreshed(a) ==
    /\ applicant[a].at = "refreshing"
    /\ RefreshEnds(a)
    /\ applicant' = [applicant EXCEPT ![a].at = "checking", ![a].ready = checkin'.ready]
    /\ UNCHANGED <<now, version, analyst, runs, applied, restarts>>

Refused(a) == applicant' = [applicant EXCEPT ![a] = IdleApplicant]

(* Mutant: the time of the refresh is forgotten.                           *)
CheckUndated(a) ==
    /\ applicant[a].at = "checking"
    /\ LET n == applicant[a].run
       IN IF /\ applicant[a].ready /\ runs[n].ready
             /\ <<evidence, version>> = <<runs[n].evidence, runs[n].version>>
          THEN applicant' = [applicant EXCEPT ![a].at = "saving", ![a].checked = now]
          ELSE Refused(a)
    /\ UNCHANGED <<now, evidence, version, checkin, refresher, analyst, runs, applied, restarts>>

(* After the refresh: the age again, both refreshes, the evidence and the  *)
(* card as they are now, and the rules (validate_proposal).                *)
CheckProposal(a) ==
    /\ applicant[a].at = "checking"
    /\ LET n == applicant[a].run
       IN \/ /\ Current(n) /\ applicant[a].ready /\ runs[n].ready
             /\ <<evidence, version>> = <<runs[n].evidence, runs[n].version>>
             /\ applicant' = [applicant EXCEPT ![a].at = "saving", ![a].checked = now]
          \/ Refused(a)
    /\ UNCHANGED <<now, evidence, version, checkin, refresher, analyst, runs, applied, restarts>>

Saved(a) ==
    /\ version < MaxVersion
    /\ version' = version + 1
    /\ applied' = applied \cup {[run |-> applicant[a].run, over |-> version,
                                 checked |-> applicant[a].checked]}
    /\ Refused(a)
    /\ UNCHANGED <<now, evidence, checkin, refresher, analyst, runs, restarts>>

(* save_weekly_card with the proposal's version; other requests run in     *)
(* threads and may have saved in between.                                  *)
SaveWeeklyCard(a) ==
    /\ applicant[a].at = "saving"
    /\ \/ version = runs[applicant[a].run].version /\ Saved(a)
       \/ /\ version # runs[applicant[a].run].version
          /\ Refused(a)
          /\ UNCHANGED <<now, evidence, version, checkin, refresher, analyst, runs, applied, restarts>>

(* Leases end with the process; runs under way are failed by the recovery. *)
Restart ==
    /\ restarts < MaxRestarts
    /\ restarts' = restarts + 1
    /\ refresher' = "none"
    /\ analyst' = IdleAnalyst
    /\ runs' = [n \in DOMAIN runs |-> IF runs[n].status = "running"
                                      THEN [runs[n] EXCEPT !.status = "failed"] ELSE runs[n]]
    /\ applicant' = [a \in Applicants |-> IdleApplicant]
    /\ UNCHANGED <<now, evidence, version, checkin, applied>>

Next ==
    \/ Tick \/ OwnerSaves \/ EvidenceChanges \/ CheckIn \/ CheckInEnds
    \/ AnalyzePool \/ FreezeDossier \/ RunAnalysis \/ Restart
    \/ \E a \in Applicants :
        BeginApply(a) \/ ApplyRefreshed(a) \/ CheckProposal(a) \/ SaveWeeklyCard(a)

Spec == Init /\ [][Next]_vars

-----------------------------------------------------------------------------
(* What an analysis saves, it saves over the very card it was made for,    *)
(* once, with sources that were all refreshed when it was made, and it     *)
(* passed its last check within its five minutes: picks the owner made in  *)
(* the meantime, or another proposal, are not overwritten.                 *)
AppliedAsAnalysed ==
    /\ \A s \in applied :
        LET run == runs[s.run]
        IN /\ run.status = "completed" /\ run.ready
           /\ s.over = run.version
           /\ s.checked - run.created <= MaxAge
    /\ \A s, t \in applied : s.over = t.over => s = t
=============================================================================
