----------------------------- MODULE SourceCache -----------------------------
(***************************************************************************)
(* A free public source (services/football_sources.py): requests that      *)
(* refresh it, in one worker process or several, the snapshots they leave  *)
(* and the evidence an analysis is given of them.                          *)
(***************************************************************************)
EXTENDS Integers, Sequences, SequencesExt

CONSTANTS Requests,
          Retry, Day,   \* RETRY_TTL and the 24 hours of a success
          Season,       \* the source tells of the season until then only
          Old,          \* an edition of that age is stale (14 days, for ADP)
          MaxTime, MaxSnapshots, MaxRestarts    \* bounds

SourceCacheAssumption ==
    /\ Retry \in Nat \ {0} /\ Day \in Nat /\ Retry <= Day
    /\ Season \in Nat /\ Old \in Nat /\ \A n \in {MaxTime, MaxSnapshots, MaxRestarts} : n \in Nat

VARIABLES
    now,
    edition,    \* of what the source serves
    snapshots,  \* DataSnapshot rows, the oldest first
    request,    \* each request: Idle, or the edition its download is of
    begun,      \* history: when the last download that nobody forced began
    restarts

vars == <<now, edition, snapshots, request, begun, restarts>>

Never == -1
Idle == -1

Snapshots == [at : 0..MaxTime, status : {"fresh", "error"}, edition : 0..MaxTime]

TypeOK ==
    /\ now \in 0..MaxTime /\ edition \in 0..MaxTime
    /\ snapshots \in Seq(Snapshots) /\ Len(snapshots) <= MaxSnapshots
    /\ request \in [Requests -> {Idle} \cup 0..MaxTime]
    /\ begun \in {Never} \cup 0..MaxTime
    /\ restarts \in 0..MaxRestarts

Init ==
    /\ now = 0 /\ edition = 0
    /\ snapshots = <<>>
    /\ request = [r \in Requests |-> Idle]
    /\ begun = Never /\ restarts = 0

-----------------------------------------------------------------------------
(* refresh_source up to its download.  job_lock is looked at first, and    *)
(* held until the snapshot is committed.                                   *)
LockFree == \A r \in Requests : request[r] = Idle

(* The latest snapshot is old enough for another attempt.                  *)
Due ==
    snapshots # <<>> =>
        now - Last(snapshots).at >= (IF Last(snapshots).status = "error" THEN Retry ELSE Day)

(* It is downloaded when due, or when the caller forces it.                *)
Download(r) ==
    /\ now <= Season /\ Len(snapshots) < MaxSnapshots
    /\ \E force \in BOOLEAN :
        /\ force \/ Due
        /\ begun' = IF force THEN begun ELSE now
    /\ request' = [request EXCEPT ![r] = edition]
    /\ UNCHANGED <<now, edition, snapshots, restarts>>

(* Otherwise the request is answered from the snapshots.                   *)
RefreshSource(r) ==
    request[r] = Idle /\ LockFree /\ Download(r)

(* What comes of an answer: parse_sleeper or parse_adp accepts all of it,  *)
(* with the edition it is of, or refuses all of it.                        *)
Parsed == {"fresh", "error"}

(* The snapshot is committed, or the failure is in its place.              *)
StoreSnapshot(r) ==
    /\ request[r] # Idle /\ Len(snapshots) < MaxSnapshots
    /\ \E status \in Parsed :
        snapshots' = Append(snapshots, [at |-> now, status |-> status, edition |-> request[r]])
    /\ request' = [request EXCEPT ![r] = Idle]
    /\ UNCHANGED <<now, edition, begun, restarts>>

(* The source brings out something new, or does not.                       *)
Tick ==
    /\ now < MaxTime
    /\ now' = now + 1
    /\ edition' \in {edition, now'}
    /\ UNCHANGED <<snapshots, request, begun, restarts>>

(* Locks and downloads end with the process.                               *)
Restart ==
    /\ restarts < MaxRestarts
    /\ restarts' = restarts + 1
    /\ request' = [r \in Requests |-> Idle]
    /\ UNCHANGED <<now, edition, snapshots, begun>>

Next == Tick \/ Restart \/ \E r \in Requests : RefreshSource(r) \/ StoreSnapshot(r)

Spec == Init /\ [][Next]_vars

-----------------------------------------------------------------------------
(* source_evidence: the rows of the latest success, if the source still    *)
(* tells of the season, and how they are labelled.                         *)
Good == {i \in DOMAIN snapshots : snapshots[i].status = "fresh"}

LatestGood == snapshots[Max(Good)]

EvidenceStatus ==
    IF now > Season \/ Good = {} THEN "unavailable"
    ELSE IF \/ Last(snapshots).status = "error"
            \/ now - LatestGood.at > Day
            \/ now - LatestGood.edition > Old
         THEN "stale" ELSE "available"

(* matched_evidence, league_evidence and pool_evidence are made of these.  *)
Evidence == IF EvidenceStatus = "unavailable" THEN Never ELSE LatestGood.edition

(* A download that nobody forced begins no sooner than the retry time      *)
(* after any answer of the source and after another such download,         *)
(* whoever else refreshes the source at the time; only a restart, which    *)
(* takes an answer away, can bring two together (refresh_source).          *)
RequestsSpaced ==
    [][begun' # begun =>
        /\ \A i \in DOMAIN snapshots : now - snapshots[i].at >= Retry
        /\ (begun # Never /\ restarts = 0) => now - begun >= Retry]_vars

(* What the evidence is made of is never replaced by something the source  *)
(* said earlier, nor lost to a failed attempt, while the season lasts.     *)
EvidenceForward == [][now' <= Season => Evidence' >= Evidence]_vars
=============================================================================
