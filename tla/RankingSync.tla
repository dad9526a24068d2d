---------------------------- MODULE RankingSync ----------------------------
(***************************************************************************)
(* Ranking synchronization of one draft (draft/router.py, draft/           *)
(* ranking_sources.py): a handler that awaits downloads between reading    *)
(* the session and writing it, while the owner goes on with the draft.     *)
(***************************************************************************)
EXTENDS Integers

CONSTANTS MaxSequence,  \* bounds on the events of the draft,
          MaxRankings,  \* the ranking snapshots
          MaxRestarts   \* and the restarts

RankingSyncAssumption ==
    MaxSequence \in Nat /\ MaxRankings \in Nat /\ MaxRestarts \in Nat

VARIABLES
    status, sequence, ranking,  \* the session's row; ranking 0 for none
    stored,     \* the ready DraftRankingSnapshots of the league are 1 .. stored
    sync,       \* the handler that holds the league's _ranking_sync_locks
    restarts,
    overlapped  \* history: the draft was started during a setup sync

vars == <<status, sequence, ranking, stored, sync, restarts, overlapped>>

Unstarted == {"SETUP", "READY"}

Active == {"LIVE", "PAUSED"}

Started == Active \cup {"COMPLETE"}

Syncs == [at : {"idle", "setup", "live", "locking"}, loaded : Unstarted, reload : BOOLEAN,
          expected : 0..MaxSequence, got : 0..MaxRankings]

NoSync == [at |-> "idle", loaded |-> "SETUP", reload |-> FALSE, expected |-> 0, got |-> 0]

TypeOK ==
    /\ status \in Unstarted \cup Started
    /\ sequence \in 0..MaxSequence
    /\ stored \in 0..MaxRankings
    /\ ranking \in 0..stored
    /\ sync \in Syncs
    /\ restarts \in 0..MaxRestarts
    /\ overlapped \in BOOLEAN

Init ==
    /\ status = "SETUP" /\ sequence = 0 /\ ranking = 0
    /\ stored = 0
    /\ sync = NoSync
    /\ restarts = 0
    /\ overlapped = FALSE

Event == sequence < MaxSequence /\ sequence' = sequence + 1

-----------------------------------------------------------------------------
(* The owner's requests, each in one transaction under the session's lock. *)
Transition(from, to) ==
    /\ status \in from /\ Event
    /\ status' = to
    /\ UNCHANGED <<ranking, stored, sync, restarts, overlapped>>

Start ==
    /\ status = "READY" /\ Event
    /\ status' = "LIVE"
    /\ overlapped' = (sync.at = "setup")
    /\ UNCHANGED <<ranking, stored, sync, restarts>>

DraftEvent ==
    \/ Transition({"LIVE"}, "LIVE")         \* a pick
    \/ Transition({"LIVE"}, "PAUSED")
    \/ Transition({"PAUSED"}, "LIVE")
    \/ Transition(Active, "COMPLETE")
    \/ Transition({"COMPLETE"}, "LIVE")     \* reopen

(* update_setup: ready, or with findings.                                  *)
UpdateSetup ==
    /\ status \in Unstarted
    /\ status' \in Unstarted
    /\ UNCHANGED <<sequence, ranking, stored, sync, restarts, overlapped>>

(* bind_input_snapshots with a ranking, and its status for a draft in      *)
(* setup or its event for an active one.                                   *)
BindInputs(n) ==
    /\ status \in Unstarted \cup Active
    /\ ranking' = n
    /\ IF status \in Active
       THEN Event /\ UNCHANGED status
       ELSE status' \in Unstarted /\ UNCHANGED sequence

OwnerBinds ==
    /\ \E n \in 1..stored : BindInputs(n)
    /\ UNCHANGED <<stored, sync, restarts, overlapped>>

(* commit_input stores a ranking of the owner's.                           *)
ImportRanking ==
    /\ stored < MaxRankings
    /\ stored' = stored + 1
    /\ UNCHANGED <<status, sequence, ranking, sync, restarts, overlapped>>

-----------------------------------------------------------------------------
(* sync_draft_rankings up to its first await: the session is read here,    *)
(* outside its lock.                                                       *)
SyncDraftRankings ==
    /\ sync.at = "idle"
    /\ \/ status \in Unstarted /\ sync' = [NoSync EXCEPT !.at = "setup", !.loaded = status]
       \/ status \in Active /\ sync' = [NoSync EXCEPT !.at = "live", !.expected = sequence]
    /\ UNCHANGED <<status, sequence, ranking, stored, restarts, overlapped>>

(* The downloads end.  A league that fails rolls the transaction back, and *)
(* what was read of the session is read again when it is used.             *)
SyncScrapedLeagues ==
    /\ sync.at = "setup"
    /\ sync' = [sync EXCEPT !.reload = TRUE]
    /\ UNCHANGED <<status, sequence, ranking, stored, restarts, overlapped>>

(* Rate limits, an incomplete pool, no projections: nothing is stored.     *)
SyncFails ==
    /\ sync.at # "idle"
    /\ sync' = NoSync
    /\ UNCHANGED <<status, sequence, ranking, stored, restarts, overlapped>>

(* A reusable ranking, or one created of the latest scrape.                *)
Chosen(n) == n \in 1..stored \/ (n = stored + 1 /\ n <= MaxRankings)

(* bind_ranking_to_session, in the transaction that stores the ranking:    *)
(* the status is written only if it differs from the one that was read.    *)
BindRankingToSession ==
    /\ sync.at = "setup"
    /\ \E n \in 1..MaxRankings, became \in Unstarted :
        /\ Chosen(n)
        /\ stored' = IF n > stored THEN n ELSE stored
        /\ ranking' = n
        /\ status' = IF became = (IF sync.reload THEN status ELSE sync.loaded)
                     THEN status ELSE became
    /\ sync' = NoSync
    /\ UNCHANGED <<sequence, restarts, overlapped>>

(* _sync_live_rankings commits the ranking ...                             *)
StoreLiveRanking ==
    /\ sync.at = "live"
    /\ \E n \in 1..MaxRankings :
        /\ Chosen(n)
        /\ stored' = IF n > stored THEN n ELSE stored
        /\ sync' = [sync EXCEPT !.at = "locking", !.got = n]
    /\ UNCHANGED <<status, sequence, ranking, restarts, overlapped>>

(* Mutant: the live sync uses the binder of the setup.                     *)
BindLikeSetup ==
    /\ sync.at = "locking"
    /\ ranking' = sync.got
    /\ status' = "READY"
    /\ sync' = NoSync
    /\ UNCHANGED <<sequence, stored, restarts, overlapped>>

(* ... and under the session's lock looks again at what it had read.       *)
BindLiveRanking ==
    /\ sync.at = "locking"
    /\ IF sequence = sync.expected /\ status \in Active /\ ranking # sync.got
       THEN BindInputs(sync.got)
       ELSE UNCHANGED <<status, sequence, ranking>>
    /\ sync' = NoSync
    /\ UNCHANGED <<stored, restarts, overlapped>>

Restart ==
    /\ restarts < MaxRestarts
    /\ restarts' = restarts + 1
    /\ sync' = NoSync
    /\ UNCHANGED <<status, sequence, ranking, stored, overlapped>>

Next ==
    \/ Start \/ DraftEvent \/ UpdateSetup \/ OwnerBinds \/ ImportRanking
    \/ SyncDraftRankings \/ SyncScrapedLeagues \/ SyncFails \/ BindRankingToSession
    \/ StoreLiveRanking \/ BindLiveRanking \/ Restart

Spec == Init /\ [][Next]_vars

-----------------------------------------------------------------------------
(* What a started draft uses and where it stands changes by its events     *)
(* only: its status does not fall back to the setup, and another ranking   *)
(* comes with a number of the sequence, so that advice and requests        *)
(* computed before are refused.  This says so of every draft that no setup *)
(* sync was working for when it was started ...                            *)
DraftStands ==
    /\ status' \in Started
    /\ <<status, ranking>>' # <<status, ranking>> => sequence' = sequence + 1

StartedDraftStands == [][(status \in Started /\ ~overlapped) => DraftStands]_vars

(* ... and this of every draft.  sync_draft_rankings refuses a draft that  *)
(* has started: rankings can be synchronized only before the draft starts. *)
SyncsSpareStartedDrafts == [][(status \in Started) => DraftStands]_vars
=============================================================================
